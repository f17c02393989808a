----------------------------- MODULE JobPromise -----------------------------
(***************************************************************************)
(* What a client is promised of a job that only its worker moves           *)
(* (docs/api-integration.md, "Text Ingestion" and "Allowed transitions"):  *)
(* a job is queued once, its work takes effect once or never, and the      *)
(* outcome is final.  A retry is a new job.  The worker's one transaction  *)
(* makes its passage through "running" a single step.                      *)
(***************************************************************************)
EXTENDS Naturals

CONSTANT Jobs

VARIABLES
  status,    \* the visible status of each job
  effects    \* how often the work of the job took effect

vars == <<status, effects>>

Init ==
  /\ status  = [j \in Jobs |-> "none"]
  /\ effects = [j \in Jobs |-> 0]

Submit(j) ==
  /\ status[j] = "none"
  /\ status' = [status EXCEPT ![j] = "queued"]
  /\ UNCHANGED effects

Succeed(j) ==
  /\ status[j] = "queued"
  /\ status'  = [status EXCEPT ![j] = "succeeded"]
  /\ effects' = [effects EXCEPT ![j] = @ + 1]

Fail(j) ==
  /\ status[j] = "queued"
  /\ status' = [status EXCEPT ![j] = "failed"]
  /\ UNCHANGED effects

Next == \E j \in Jobs : Submit(j) \/ Succeed(j) \/ Fail(j)

Spec == Init /\ [][Next]_vars

=============================================================================
