--------------------------- MODULE JobRefinement ----------------------------
(***************************************************************************)
(* JobLifecycle implements JobPromise as long as every message is          *)
(* delivered once (MaxCrashes = MaxRedeliveries = 0) and no administrator  *)
(* calls a transition endpoint (AdminTargets = {}).                        *)
(***************************************************************************)
EXTENDS JobLifecycle

Completions(j) ==
  {i \in 1 .. Len(ledger[j]) : ledger[j][i].event = "completed"}

Promise == INSTANCE JobPromise
  WITH effects <- [j \in Jobs |-> Cardinality(Completions(j))]

\* Once-only delivery keeps the promise: the client sees a job queued, then one
\* final outcome, and its work takes effect exactly when the outcome is
\* succeeded, although retries, lock waits, deadlocks, refused and failing runs
\* and lost API processes are all possible.
KeepsPromise == Promise!Spec

\* The condition under which it does.
OnceOnly == AdminTargets = {} /\ MaxCrashes = 0 /\ MaxRedeliveries = 0

-----------------------------------------------------------------------------
(***************************************************************************)
(* Why it does: at most one process can still act on a queued job, and     *)
(* none on a finished one.                                                 *)
(***************************************************************************)
Dispatching(r, j) == request[r].pc = "dispatch" /\ request[r].job = j
Executing(w, j)   == exec[w].pc # "idle" /\ exec[w].job = j

\* One request, one message or one executor carries a job at a time.
OneCarrier(j) ==
  /\ queue[j] <= 1
  /\ \A r, s \in Requests : Dispatching(r, j) /\ Dispatching(s, j) => r = s
  /\ \A w, u \in Executors : Executing(w, j) /\ Executing(u, j) => w = u
  /\ queue[j] = 1 => \A r \in Requests : ~ Dispatching(r, j)
  /\ queue[j] = 1 => \A w \in Executors : ~ Executing(w, j)
  /\ \A r \in Requests, w \in Executors :
       ~ (Dispatching(r, j) /\ Executing(w, j))

\* A job that is not queued is carried by nobody, but for the executor that
\* has still to acknowledge its message.
FinishedAlone(j) ==
  status[j] # "queued" =>
    /\ queue[j] = 0
    /\ \A r \in Requests : ~ Dispatching(r, j)
    /\ \A w \in Executors : Executing(w, j) => exec[w].pc = "ack"

\* Executors on a job with no row, and transitions by hand, do not occur.
CarriedOnce ==
  /\ \A j \in Jobs : status[j] \in {"none", "queued", "succeeded", "failed"}
  /\ \A j \in Jobs : OneCarrier(j) /\ FinishedAlone(j)
  /\ \A r \in Requests :
       request[r].pc \notin {"validated", "selected", "written"}
  /\ \A w \in Executors : exec[w].pc = "failUpdate" => exec[w].seen = "queued"
  /\ \A w \in Executors : exec[w].pc = "failCommit" => exec[w].seen = "queued"

=============================================================================
