------------------------------ MODULE EvalRuns ------------------------------
(***************************************************************************)
(* Runs of evaluation suites (api/routes/evals.py, evals/reports.py), and  *)
(* the ways their jobs are touched from outside: jobs made by hand, their  *)
(* transitions, and retries (api/routes/jobs.py).                          *)
(*                                                                         *)
(* A handler commits its job as running, then runs the whole suite and     *)
(* writes the report files without giving up the event loop of the one API *)
(* process: no other handler is between these steps.  It then commits the  *)
(* outcome in a second transaction, whatever the row holds by then.  A job *)
(* made by hand is executed by nobody, but it can be rerun.                *)
(***************************************************************************)
EXTENDS Naturals, FiniteSets

CONSTANTS
  MaxRuns,     \* bound: eval.run jobs, numbered in the order they are queued
  Handlers,    \* API calls that run a suite
  Movers,      \* API calls that transition a job
  Suites,
  Options,     \* of each suite: the request fields that its payload keeps
  Values,      \* what a field may hold: "yes" and "no" for write_report,
               \* "refused" what no request may hold, "default" if it is left out
  Trimmed,     \* of each text, without its outer blanks: "default" if none is left
  Plans,       \* what clients ask for: [suite, options]
  Drafts,      \* payloads that clients make by hand
  ReportFile,  \* of each suite and report_stem: the name that write_report_files uses
  MaxLosses,   \* bound: process crashes and failed transactions
  NoRun, NoPlan

Runs == 1..MaxRuns

Files == {ReportFile[s][stem] : s \in Suites, stem \in Values}

\* The fields that are read back as texts.
Texts == {"dataset_path", "domain_id", "report_stem", "dataset_format"}

PlanType == UNION {[suite : {s}, options : [Options[s] -> Values]] : s \in Suites}

\* The requests that the request models accept; the dataset path is resolved to
\* an absolute one before it is kept, so that it is never blank.
Accepted ==
  {plan \in PlanType :
     /\ \A k \in DOMAIN plan.options : plan.options[k] # "refused"
     /\ "dataset_path" \in DOMAIN plan.options =>
          Trimmed[plan.options["dataset_path"]] # "default"}

\* A payload may keep fewer fields than its suite has, and one made by hand any
\* of them.  A value of another type reads like one that is missing.
OptionsKept ==
  UNION {[ks -> Values] : ks \in SUBSET UNION {Options[s] : s \in Suites}}

DraftType ==
  [suite : Suites \cup {"unknown"}, options : OptionsKept,
   paths : Files \cup {"absent", "null"}, result : {"absent", "passed", "failed"}]

ASSUME EvalConstants ==
  /\ Plans \subseteq Accepted /\ Drafts \subseteq DraftType /\ NoPlan \notin PlanType
  /\ MaxRuns \in Nat /\ NoRun \notin Nat /\ MaxLosses \in Nat
  /\ {"default", "yes", "no"} \subseteq Values
  /\ Trimmed \in [Values -> Values]
  /\ Trimmed["default"] = "default" /\ \A v \in Values : Trimmed[Trimmed[v]] = Trimmed[v]
  /\ \A v \in Values : Trimmed[v] = "refused" => v = "refused"
  /\ "unknown" \notin Suites /\ Files \cap {"absent", "null"} = {}
  /\ \A s \in Suites : "write_report" \in Options[s] => "report_stem" \in Options[s]

VARIABLES
  status,     \* job rows
  payload,    \* job rows: the plan, what it became, and where it came from
  json, text, \* report files: the run that last opened the .json and the .md
  handler, mover,
  losses,
  asked,      \* history: what the first run of a chain was asked or made for
  made,       \* history: runs made by hand
  lost,       \* history: runs whose handler ended before its second commit
  contested,  \* history: runs whose status was written over an unexpected one
  endedBy     \* history: who wrote the status last

rows == <<status, payload>>
files == <<json, text>>
history == <<asked, made, lost, contested, endedBy>>
vars == <<rows, files, handler, mover, losses, history>>

Ended == {"succeeded", "failed", "cancelled"}

\* paths and result are absent until the run completes.
Kept(plan, origin) ==
  [suite |-> plan.suite, options |-> plan.options, origin |-> origin,
   paths |-> "absent", result |-> "absent"]

PayloadType ==
  [suite : Suites \cup {"unknown"}, options : OptionsKept, origin : Runs \cup {NoRun},
   paths : Files \cup {"absent", "null"}, result : {"absent", "passed", "failed"}]

NoPayload == [suite |-> "none", options |-> <<>>, origin |-> NoRun,
              paths |-> "absent", result |-> "absent"]

IdleHandler == [pc |-> "idle", run |-> NoRun, plan |-> NoPlan,
                result |-> "absent", paths |-> "absent"]
IdleMover == [run |-> NoRun, from |-> "running", target |-> "failed"]

(***************************************************************************)
(* What a rerun reads back from a payload.  Texts are stripped, and a text *)
(* of blanks is like none.  A field that is missing gets the default of    *)
(* the request; write_report follows the report paths.                     *)
(***************************************************************************)
Read(k, v) == IF k \in Texts THEN Trimmed[v] ELSE v

Field(p, k) ==
  IF k \in DOMAIN p.options THEN Read(k, p.options[k])
  ELSE IF k # "write_report" THEN "default"
  ELSE IF p.paths \in Files THEN "yes" ELSE "no"

Rerunnable(p) ==
  /\ p.suite \in Suites
  /\ \A k \in Options[p.suite] : Field(p, k) # "refused"
  /\ "dataset_path" \in Options[p.suite] => Field(p, "dataset_path") # "default"

PlanOf(p) ==
  IF Rerunnable(p)
    THEN [suite |-> p.suite, options |-> [k \in Options[p.suite] |-> Field(p, k)]]
    ELSE NoPlan

FileOf(plan) == ReportFile[plan.suite][plan.options["report_stem"]]

Writes(plan) ==
  "write_report" \in DOMAIN plan.options /\ plan.options["write_report"] = "yes"

-----------------------------------------------------------------------------
Init ==
  /\ status = [r \in Runs |-> "none"] /\ payload = [r \in Runs |-> NoPayload]
  /\ json = [f \in Files |-> NoRun] /\ text = [f \in Files |-> NoRun]
  /\ handler = [h \in Handlers |-> IdleHandler]
  /\ mover = [m \in Movers |-> IdleMover]
  /\ losses = 0
  /\ asked = [r \in Runs |-> NoPlan] /\ made = {} /\ lost = {} /\ contested = {}
  /\ endedBy = [r \in Runs |-> "nobody"]

IsNext(r) == status[r] = "none" /\ \A s \in 1..(r - 1) : status[s] # "none"

\* queue_eval_job: queued and running are one commit.
Queue(h, r, plan, origin, wanted) ==
  /\ IsNext(r)
  /\ status' = [status EXCEPT ![r] = "running"]
  /\ payload' = [payload EXCEPT ![r] = Kept(plan, origin)]
  /\ handler' = [handler EXCEPT ![h] = [IdleHandler EXCEPT !.pc = "suite", !.run = r, !.plan = plan]]
  /\ asked' = [asked EXCEPT ![r] = wanted]
  /\ UNCHANGED <<files, mover, losses, made, lost, contested, endedBy>>

Ask(h, r) ==
  /\ handler[h].pc = "idle"
  /\ \E plan \in Plans : Queue(h, r, plan, NoRun, plan)

\* create_job with kind eval.run: queued, with any payload.
Make(r) ==
  /\ IsNext(r)
  /\ \E d \in Drafts :
       LET p == [suite |-> d.suite, options |-> d.options, origin |-> NoRun,
                 paths |-> d.paths, result |-> d.result] IN
       /\ payload' = [payload EXCEPT ![r] = p]
       /\ asked' = [asked EXCEPT ![r] = PlanOf(p)]
  /\ status' = [status EXCEPT ![r] = "queued"]
  /\ made' = made \cup {r}
  /\ UNCHANGED <<files, handler, mover, losses, lost, contested, endedBy>>

\* The retry of the job API looks at the status in a transaction of its own.
Retry(h, r) ==
  /\ handler[h].pc = "idle" /\ status[r] \in {"failed", "cancelled"}
  /\ handler' = [handler EXCEPT ![h] = [IdleHandler EXCEPT !.pc = "retry", !.run = r]]
  /\ UNCHANGED <<rows, files, mover, losses, history>>

\* rerun_eval_job: the origin may have any status, and may still be running.
Reread(h, r) ==
  /\ \/ handler[h].pc = "idle" /\ status[r] # "none"
     \/ handler[h].pc = "retry" /\ handler[h].run = r
  /\ handler' = [handler EXCEPT ![h] =
       IF Rerunnable(payload[r])
         THEN [IdleHandler EXCEPT !.pc = "rerun", !.run = r, !.plan = PlanOf(payload[r])]
         ELSE IdleHandler]
  /\ UNCHANGED <<rows, files, mover, losses, history>>

Rerun(h, r) ==
  /\ handler[h].pc = "rerun"
  /\ Queue(h, r, handler[h].plan, handler[h].run, asked[handler[h].run])

\* The domain is gone from the caller's grants, or the dataset from the disk.
Refuse(h) ==
  /\ handler[h].pc \in {"retry", "rerun"}
  /\ handler' = [handler EXCEPT ![h] = IdleHandler]
  /\ UNCHANGED <<rows, files, mover, losses, history>>

-----------------------------------------------------------------------------
(***************************************************************************)
(* The suite and its report.                                               *)
(***************************************************************************)
To(h, pc, result, paths) ==
  handler' = [handler EXCEPT ![h].pc = pc, ![h].result = result, ![h].paths = paths]

SuiteRaises(h) ==
  /\ handler[h].pc = "suite"
  /\ To(h, "fail", "absent", "absent")
  /\ UNCHANGED <<rows, files, mover, losses, history>>

Report(h) ==
  /\ handler[h].pc = "suite" /\ ~ Writes(handler[h].plan)
  /\ \E result \in {"passed", "failed"} : To(h, "complete", result, "null")
  /\ UNCHANGED <<rows, files, mover, losses, history>>

\* write_report_files: the .json first, then the .md of the same stem.
ReportWithFiles(h) ==
  LET f == FileOf(handler[h].plan) IN
  /\ handler[h].pc = "suite" /\ Writes(handler[h].plan)
  /\ json' = [json EXCEPT ![f] = handler[h].run]
  /\ text' = [text EXCEPT ![f] = handler[h].run]
  /\ \E result \in {"passed", "failed"} : To(h, "complete", result, f)
  /\ UNCHANGED <<rows, mover, losses, history>>

\* Mutant: the run is completed without the file that could not be written.
WriteFailsQuietly(h) ==
  LET f == FileOf(handler[h].plan) IN
  /\ handler[h].pc = "suite" /\ Writes(handler[h].plan)
  /\ json' \in {json, [json EXCEPT ![f] = handler[h].run]}
  /\ To(h, "complete", "passed", f)
  /\ UNCHANGED <<rows, text, mover, losses, history>>

\* A write raises: nothing is replaced, or the .json, perhaps in part, or also
\* the .md in part.
WriteFails(h) ==
  LET f == FileOf(handler[h].plan) IN
  /\ handler[h].pc = "suite" /\ Writes(handler[h].plan)
  /\ \/ UNCHANGED files
     \/ /\ json' = [json EXCEPT ![f] = handler[h].run]
        /\ text' \in {text, [text EXCEPT ![f] = handler[h].run]}
  /\ To(h, "fail", "absent", "absent")
  /\ UNCHANGED <<rows, mover, losses, history>>

\* The run, if its status is no longer the one that is written over.
Unexpected(r, from) == IF status[r] = from THEN {} ELSE {r}

\* The outcome is written over whatever status the row has by then.
EndedAs(h, s) ==
  /\ status' = [status EXCEPT ![handler[h].run] = s]
  /\ handler' = [handler EXCEPT ![h] = IdleHandler]
  /\ endedBy' = [endedBy EXCEPT ![handler[h].run] = "handler"]
  /\ contested' = contested \cup Unexpected(handler[h].run, "running")
  /\ UNCHANGED <<files, mover, losses, asked, made, lost>>

\* Mutant: a suite that ran to its end succeeded.
VerdictOfEnd(result) == IF result = "absent" THEN "failed" ELSE "succeeded"

Verdict(result) == IF result = "passed" THEN "succeeded" ELSE "failed"

\* Mutant: the new payload leaves out max_cases.
CompletedWithout(h) ==
  LET old == handler[h].plan.options IN
  [Kept([handler[h].plan EXCEPT !.options = [k \in DOMAIN old \ {"max_cases"} |-> old[k]]],
        payload[handler[h].run].origin)
     EXCEPT !.result = handler[h].result, !.paths = handler[h].paths]

\* complete_eval_job replaces the payload: it repeats the plan.
Completed(h) ==
  [Kept(handler[h].plan, payload[handler[h].run].origin)
     EXCEPT !.result = handler[h].result, !.paths = handler[h].paths]

Complete(h) ==
  /\ handler[h].pc = "complete"
  /\ payload' = [payload EXCEPT ![handler[h].run] = Completed(h)]
  /\ EndedAs(h, Verdict(handler[h].result))

\* Mutant: only a failed suite is marked, not a failed report.
MarkFailedForgotten(h) ==
  /\ handler[h].pc = "fail" /\ ~ Writes(handler[h].plan)
  /\ EndedAs(h, "failed")
  /\ UNCHANGED payload

\* mark_eval_failed keeps the payload of the queued run.
MarkFailed(h) ==
  /\ handler[h].pc = "fail"
  /\ EndedAs(h, "failed")
  /\ UNCHANGED payload

-----------------------------------------------------------------------------
(***************************************************************************)
(* Transitions by hand, and losses.                                        *)
(***************************************************************************)
Transitions ==
  [none |-> {}, queued |-> {"running", "cancelled"}, running |-> Ended,
   succeeded |-> {}, failed |-> {}, cancelled |-> {}]

Decide(m, r) ==
  /\ mover[m].run = NoRun
  /\ \E target \in Transitions[status[r]] :
       mover' = [mover EXCEPT ![m] = [run |-> r, from |-> status[r], target |-> target]]
  /\ UNCHANGED <<rows, files, handler, losses, history>>

\* update_status writes what was decided from the status that was read.
Move(m) ==
  LET r == mover[m].run IN
  /\ r # NoRun
  /\ status' = [status EXCEPT ![r] = mover[m].target]
  /\ endedBy' = [endedBy EXCEPT ![r] = "hand"]
  /\ contested' = contested \cup Unexpected(r, mover[m].from)
  /\ mover' = [mover EXCEPT ![m] = IdleMover]
  /\ UNCHANGED <<payload, files, handler, losses, asked, made, lost>>

Working(h) == handler[h].pc \in {"suite", "complete", "fail"}

\* The second transaction of a run raises: nothing is left that would end it.
LoseTransaction(h) ==
  /\ handler[h].pc \in {"complete", "fail"} /\ losses < MaxLosses
  /\ losses' = losses + 1
  /\ lost' = lost \cup {handler[h].run}
  /\ handler' = [handler EXCEPT ![h] = IdleHandler]
  /\ UNCHANGED <<rows, files, mover, asked, made, contested, endedBy>>

\* The API process dies, possibly with one report half written.
Crash ==
  /\ losses < MaxLosses /\ losses' = losses + 1
  /\ \/ json' = json
     \/ \E h \in Handlers :
          /\ handler[h].pc = "suite" /\ Writes(handler[h].plan)
          /\ json' = [json EXCEPT ![FileOf(handler[h].plan)] = handler[h].run]
  /\ lost' = lost \cup {handler[h].run : h \in {g \in Handlers : Working(g)}}
  /\ handler' = [h \in Handlers |-> IdleHandler]
  /\ mover' = [m \in Movers |-> IdleMover]
  /\ UNCHANGED <<rows, text, asked, made, contested, endedBy>>

Finish(h) ==
  \/ SuiteRaises(h) \/ Report(h) \/ ReportWithFiles(h) \/ WriteFails(h)
  \/ Complete(h) \/ MarkFailed(h)

Next ==
  \/ \E h \in Handlers :
       \/ Finish(h) \/ Refuse(h) \/ LoseTransaction(h)
       \/ \E r \in Runs : Ask(h, r) \/ Retry(h, r) \/ Reread(h, r) \/ Rerun(h, r)
  \/ \E r \in Runs : Make(r)
  \/ \E m \in Movers : Move(m) \/ \E r \in Runs : Decide(m, r)
  \/ Crash

\* A handler that has begun is not abandoned by its process.
Fairness == \A h \in Handlers : WF_vars(Finish(h))

Spec == Init /\ [][Next]_vars /\ Fairness

-----------------------------------------------------------------------------
HandlerType ==
  [pc : {"idle", "retry", "rerun", "suite", "complete", "fail"},
   run : Runs \cup {NoRun}, plan : PlanType \cup {NoPlan},
   result : {"absent", "passed", "failed"}, paths : Files \cup {"absent", "null"}]

MoverType == [run : Runs \cup {NoRun}, from : {"queued", "running"},
              target : {"running"} \cup Ended]

\* The type of the rows, the files and the calls: every payload has an origin
\* that exists, and a handler holds a plan of a suite that exists.
TypeOK ==
  /\ status \in [Runs -> {"none", "queued", "running"} \cup Ended]
  /\ payload \in [Runs -> PayloadType \cup {NoPayload}]
  /\ json \in [Files -> Runs \cup {NoRun}] /\ text \in [Files -> Runs \cup {NoRun}]
  /\ handler \in [Handlers -> HandlerType]
  /\ mover \in [Movers -> MoverType]
  /\ losses \in 0..MaxLosses
  /\ asked \in [Runs -> PlanType \cup {NoPlan}]
  /\ made \subseteq Runs /\ lost \subseteq Runs /\ contested \subseteq Runs
  /\ endedBy \in [Runs -> {"nobody", "handler", "hand"}]

\* A request as a rerun reads it back.
Repeated(plan) ==
  IF plan = NoPlan THEN NoPlan
  ELSE [suite |-> plan.suite,
        options |-> [k \in Options[plan.suite] |-> Read(k, plan.options[k])]]

\* However a run ended, and however often its chain was rerun, its payload
\* still says what the first client asked for, up to the outer blanks of texts:
\* a rerun loses no field, and its own reruns differ from it in nothing.
PlanKept ==
  \A r \in Runs : status[r] # "none" => PlanOf(payload[r]) = Repeated(asked[r])

\* "a faithful repeat" (docs/evals.md:194-196).  No run checks this: a
\* report_stem of blanks names the file eval-report, and its rerun, which reads
\* it as none, writes to the file of the suite.
PlanRepeated ==
  \A r \in Runs \ made : status[r] # "none" => PlanOf(payload[r]) = asked[r]

\* Of a run that a handler executes and whose status nobody wrote over one that
\* had changed meanwhile (contested), the status tells the report: it is the
\* verdict of the report, and a run that succeeded without one was set to that
\* by hand.
VerdictTellsReport ==
  \A r \in Runs \ (made \cup contested) :
    /\ payload[r].result # "absent"
         => status[r] = IF payload[r].result = "passed" THEN "succeeded" ELSE "failed"
    /\ status[r] = "succeeded" /\ payload[r].result = "absent" => endedBy[r] = "hand"

\* Ended runs stay as they are, as terminal states do (docs/api-integration.md:
\* 1510-1518).  No run checks this: a handler writes its outcome over a status
\* that was set by hand, and a transition that was decided before the outcome
\* writes over that.
EndedIsFinal ==
  [][\A r \in Runs : status[r] \in Ended => status'[r] = status[r]]_vars

\* The report that a completed run points at exists, and its .md is of the same
\* run as its .json, be it this one or a later one with the same name, unless the
\* run that wrote the .json has not completed: a later run that failed over its
\* files leaves the rows of earlier ones with a pair that is cut short or mixed.
ReportIsWhole ==
  \A r \in Runs \ made :
    LET f == payload[r].paths IN
    f \in Files =>
      /\ json[f] \in Runs
      /\ payload[json[f]].result # "absent" => text[f] = json[f]

\* A run that a handler has begun is ended, unless the process or the database
\* failed it: no way out of a suite leaves its job running.
RunEnds ==
  \A r \in Runs :
    (status[r] = "running" /\ r \notin made) ~> (status[r] # "running" \/ r \in lost)

=============================================================================
