---------------------------- MODULE JobLifecycle ----------------------------
(***************************************************************************)
(* Durable jobs and the processes that move them: API requests that        *)
(* create, transition and retry jobs (api/routes/jobs.py, ingestions.py,   *)
(* search.py, agent.py), the RabbitMQ queue, and the executors that run a  *)
(* job's service function in one database transaction and, when it raises, *)
(* mark the job failed in a second one (jobs/tasks.py, ingestion/text.py,  *)
(* ingestion/scan.py, search/service.py, agent/service.py).                *)
(*                                                                         *)
(* Transactions run at READ COMMITTED: a SELECT sees the last commit, an   *)
(* UPDATE takes the row lock and waits for an uncommitted writer of the    *)
(* row, a unique index makes an INSERT wait for an uncommitted equal key.  *)
(* Uncommitted writes are kept in the process that made them, so that a    *)
(* rollback is the loss of that process's local state.                     *)
(***************************************************************************)
EXTENDS Naturals, Sequences, FiniteSets

CONSTANTS
  Jobs,             \* identifiers of job rows
  Executors,        \* Celery worker children, or API tasks of inline runs
  Requests,         \* API calls; each makes one call and ends
  Contents,         \* content hashes of the documents of one domain
  JobForms,         \* the jobs a client asks for: [kind, files]
  AdminTargets,     \* the transition endpoints in use, a subset of Outcomes
  MaxCrashes,       \* bound: executor processes lost
  MaxRedeliveries,  \* bound: deliveries repeated while the first one runs
  NoJob             \* a value that is no job identifier

Kinds      == {"text", "scan", "index", "agent"}
Statuses   == {"queued", "running", "succeeded", "failed", "cancelled"}
Outcomes   == {"running", "succeeded", "failed", "cancelled"}
Terminal   == {"succeeded", "failed", "cancelled"}
Retryable  == {"failed", "cancelled"}
InlineKinds == {"scan", "index", "agent"}

ASSUME JobConstants ==
  /\ NoJob \notin Jobs
  /\ JobForms \subseteq [kind : Kinds, files : Seq(Contents)]
  /\ \A f \in JobForms : f.kind = "text" => Len(f.files) = 1
  /\ \A f \in JobForms : f.kind \in {"index", "agent"} => f.files = << >>
  /\ AdminTargets \subseteq Outcomes
  /\ MaxCrashes \in Nat /\ MaxRedeliveries \in Nat

VARIABLES
  status,       \* job rows: committed status, "none" where no row exists
  form,         \* job rows: kind and payload
  retryOf,      \* job rows: payload.retried_from_job_id
  docs,         \* committed document rows, keyed by content in the domain
  ledger,       \* committed journal rows about each job's transitions and the
                \* end of its work, oldest first
  queue,        \* ready messages per job in the broker
  exec,         \* executors: their open transaction and delivery
  request,      \* API requests: their open transaction
  crashes, redeliveries

rows  == <<status, form, retryOf, docs, ledger>>
vars  == <<rows, queue, exec, request, crashes, redeliveries>>

(***************************************************************************)
(* The transition table of the API and the journal rows it writes.         *)
(***************************************************************************)
Transitions ==
  [s \in Statuses |->
     CASE s = "queued"  -> {"running", "cancelled"}
       [] s = "running" -> {"succeeded", "failed", "cancelled"}
       [] OTHER         -> {}]

Entry(event, from) == [event |-> event, from |-> from]
Events == Outcomes \cup {"completed"}
LedgerEntry == [event : Events, from : Statuses \cup {"unrecorded"}]

\* job.running, the event of the finished work (document.ingested,
\* source.scanned, index.rebuilt or agent.completed), and job.succeeded.
WorkEntries ==
  << Entry("running", "queued"), Entry("completed", "unrecorded"),
     Entry("succeeded", "running") >>

Recorded(j, events) ==
  \E i \in 1 .. Len(ledger[j]) : ledger[j][i].event \in events

(***************************************************************************)
(* Process states.                                                         *)
(***************************************************************************)
IdleExec ==
  [pc |-> "idle", job |-> NoJob, tagged |-> FALSE, inline |-> FALSE,
   seen |-> "queued", next |-> 1, pending |-> {}]

\* The executor has the job; its transaction is about to begin.
Begun(j, tagged, inline) ==
  [pc |-> "begin", job |-> j, tagged |-> tagged, inline |-> inline,
   seen |-> "queued", next |-> 1, pending |-> {}]

IdleRequest ==
  [pc |-> "idle", job |-> NoJob, target |-> "running", from |-> "queued",
   seen |-> "queued"]

\* The phases in which a process has an uncommitted write of its job's row.
WorkPhases    == {"check", "insert", "commit"}
ExecWriting   == WorkPhases \cup {"failCommit"}
ExecPhases    == {"idle", "begin", "start", "fail", "failUpdate", "ack"}
                   \cup ExecWriting
RequestPhases == {"idle", "dispatch", "retry", "validated", "selected",
                  "written", "done"}

ExecState ==
  [pc : ExecPhases, job : Jobs \cup {NoJob}, tagged : BOOLEAN,
   inline : BOOLEAN, seen : Statuses, next : Nat, pending : SUBSET Contents]

RequestState ==
  [pc : RequestPhases, job : Jobs \cup {NoJob}, target : Outcomes,
   from : Statuses, seen : Statuses]

RowFree(j) ==
  /\ \A w \in Executors : exec[w].job = j => exec[w].pc \notin ExecWriting
  /\ \A r \in Requests  : request[r].job = j => request[r].pc # "written"

Ingested == {d.content : d \in docs}

\* Another open transaction has inserted the key: an INSERT of it waits.
HeldByOther(w, c) == \E u \in Executors \ {w} : c \in exec[u].pending

FileOf(w) == form[exec[w].job].files[exec[w].next]

KindOf(w) == form[exec[w].job].kind

Blocks(u, w) ==
  /\ exec[w].pc = "insert"
  /\ u # w /\ FileOf(w) \in exec[u].pending

-----------------------------------------------------------------------------
Init ==
  /\ status  = [j \in Jobs |-> "none"]
  /\ form    = [j \in Jobs |-> [kind |-> "agent", files |-> << >>]]
  /\ retryOf = [j \in Jobs |-> NoJob]
  /\ docs    = {}
  /\ ledger  = [j \in Jobs |-> << >>]
  /\ queue   = [j \in Jobs |-> 0]
  /\ exec    = [w \in Executors |-> IdleExec]
  /\ request = [r \in Requests |-> IdleRequest]
  /\ crashes = 0 /\ redeliveries = 0

-----------------------------------------------------------------------------
(***************************************************************************)
(* API requests.                                                           *)
(***************************************************************************)
InsertJob(j, f, origin) ==
  /\ status[j] = "none"
  /\ status'  = [status EXCEPT ![j] = "queued"]
  /\ form'    = [form EXCEPT ![j] = f]
  /\ retryOf' = [retryOf EXCEPT ![j] = origin]
  /\ UNCHANGED <<docs, ledger>>

\* POST /jobs: a queued job that nothing dispatches.
CreateJob(r) ==
  /\ request[r].pc = "idle"
  /\ \E j \in Jobs, f \in JobForms : InsertJob(j, f, NoJob)
  /\ request' = [request EXCEPT ![r].pc = "done"]
  /\ UNCHANGED <<queue, exec, crashes, redeliveries>>

\* An ingestion, rebuild or query endpoint commits the queued job ...
SubmitJob(r) ==
  /\ request[r].pc = "idle"
  /\ \E j \in Jobs, f \in JobForms :
       /\ InsertJob(j, f, NoJob)
       /\ request' = [request EXCEPT ![r].pc = "dispatch", ![r].job = j]
  /\ UNCHANGED <<queue, exec, crashes, redeliveries>>

\* ... and sends the task message only after the commit.
DispatchJob(r) ==
  /\ request[r].pc = "dispatch"
  /\ queue' = [queue EXCEPT ![request[r].job] = @ + 1]
  /\ request' = [request EXCEPT ![r].pc = "done"]
  /\ UNCHANGED <<rows, exec, crashes, redeliveries>>

\* run_inline=true: the request runs the service function itself.
SubmitInline(r, w) ==
  /\ request[r].pc = "idle"
  /\ exec[w].pc = "idle"
  /\ \E j \in Jobs, f \in JobForms :
       /\ f.kind \in InlineKinds
       /\ InsertJob(j, f, NoJob)
       /\ exec' = [exec EXCEPT ![w] = Begun(j, FALSE, TRUE)]
  /\ request' = [request EXCEPT ![r].pc = "done"]
  /\ UNCHANGED <<queue, crashes, redeliveries>>

\* Mutant: a retry refuses active jobs only.
RetryReadOfFinished(r) ==
  /\ request[r].pc = "idle"
  /\ \E j \in Jobs :
       /\ status[j] \notin {"none", "queued", "running"}
       /\ request' = [request EXCEPT ![r].pc = "retry", ![r].job = j]
  /\ UNCHANGED <<rows, queue, exec, crashes, redeliveries>>

\* POST /jobs/{id}/retry reads a failed or cancelled job ...
RetryRead(r) ==
  /\ request[r].pc = "idle"
  /\ \E j \in Jobs :
       /\ status[j] \in Retryable
       /\ request' = [request EXCEPT ![r].pc = "retry", ![r].job = j]
  /\ UNCHANGED <<rows, queue, exec, crashes, redeliveries>>

\* Mutant: a retry queues the failed row again.
RetryInPlace(r) ==
  /\ request[r].pc = "retry"
  /\ status' = [status EXCEPT ![request[r].job] = "queued"]
  /\ request' = [request EXCEPT ![r].pc = "dispatch"]
  /\ UNCHANGED <<form, retryOf, docs, ledger, queue, exec, crashes, redeliveries>>

\* ... and commits a new job with its payload.
RetryCommit(r) ==
  /\ request[r].pc = "retry"
  /\ \E j \in Jobs :
       /\ InsertJob(j, form[request[r].job], request[r].job)
       /\ request' = [request EXCEPT ![r].pc = "dispatch", ![r].job = j]
  /\ UNCHANGED <<queue, exec, crashes, redeliveries>>

\* start, complete, fail and cancel: get the row and validate the move ...
TransitionRead(r) ==
  /\ request[r].pc = "idle"
  /\ \E j \in Jobs, t \in AdminTargets :
       /\ status[j] # "none"
       /\ t \in Transitions[status[j]]
       /\ request' = [request EXCEPT ![r].pc = "validated", ![r].job = j,
                                     ![r].target = t, ![r].from = status[j]]
  /\ UNCHANGED <<rows, queue, exec, crashes, redeliveries>>

\* ... update_status selects the row again, without validating again ...
TransitionSelect(r) ==
  /\ request[r].pc = "validated"
  /\ request' = [request EXCEPT ![r].pc = "selected",
                                ![r].seen = status[request[r].job]]
  /\ UNCHANGED <<rows, queue, exec, crashes, redeliveries>>

\* ... the UPDATE waits for the row ...
TransitionUpdate(r) ==
  /\ request[r].pc = "selected"
  /\ RowFree(request[r].job)
  /\ request' = [request EXCEPT ![r].pc = "written"]
  /\ UNCHANGED <<rows, queue, exec, crashes, redeliveries>>

\* The UPDATE names the status column only if it differs from the value
\* selected before it.
Written(j, seen, target) == IF seen = target THEN status[j] ELSE target

TransitionCommit(r) ==
  LET q == request[r] IN
  /\ q.pc = "written"
  /\ status' = [status EXCEPT ![q.job] = Written(q.job, q.seen, q.target)]
  /\ ledger' = [ledger EXCEPT ![q.job] = Append(@, Entry(q.target, q.from))]
  /\ request' = [request EXCEPT ![r].pc = "done"]
  /\ UNCHANGED <<form, retryOf, docs, queue, exec, crashes, redeliveries>>

\* The API process dies, or the client's call is cut, between two steps.
RequestLost(r) ==
  /\ request[r].pc \notin {"idle", "done"}
  /\ request' = [request EXCEPT ![r].pc = "done"]
  /\ UNCHANGED <<rows, queue, exec, crashes, redeliveries>>

-----------------------------------------------------------------------------
(***************************************************************************)
(* Executors.                                                              *)
(***************************************************************************)
Deliver(w) ==
  /\ exec[w].pc = "idle"
  /\ \E j \in Jobs :
       /\ queue[j] > 0
       /\ queue' = [queue EXCEPT ![j] = @ - 1]
       /\ exec' = [exec EXCEPT ![w] = Begun(j, TRUE, FALSE)]
  /\ UNCHANGED <<rows, request, crashes, redeliveries>>

\* Mutant: the task reports the errors of its own type only.
AfterErrorUnreported(w) ==
  IF exec[w].inline THEN {"idle"} ELSE {"fail", "idle"}

\* Where an exception of the service function leads: a task runs the fail
\* handler; an inline scan or rebuild has none, an inline query has one for
\* AgentQueryError only.
AfterError(w) ==
  IF ~ exec[w].inline THEN {"fail"}
  ELSE IF KindOf(w) = "agent" THEN {"fail", "idle"} ELSE {"idle"}

Failing(e) == [e EXCEPT !.pc = "fail", !.pending = {}, !.next = 1]

Abort(w) ==
  \E p \in AfterError(w) :
    exec' = [exec EXCEPT ![w] = IF p = "idle" THEN IdleExec ELSE Failing(@)]

Advance(w, p) == exec' = [exec EXCEPT ![w].pc = p]

\* Mutant: the service function does not look at the status.
AcceptedAnyStatus(w) ==
  KindOf(w) = "text" => FileOf(w) \notin Ingested

\* The guards of the service functions: the job must be queued, and a text or
\* upload ingestion refuses content the domain already has.
Accepted(w) ==
  /\ status[exec[w].job] = "queued"
  /\ KindOf(w) = "text" => FileOf(w) \notin Ingested

BeginRun(w) ==
  /\ exec[w].pc = "begin"
  /\ IF Accepted(w) THEN Advance(w, "start") ELSE Abort(w)
  /\ UNCHANGED <<rows, queue, request, crashes, redeliveries>>

\* The other validation errors: a missing source or file, a disabled provider.
RefuseRun(w) ==
  /\ exec[w].pc = "begin"
  /\ Abort(w)
  /\ UNCHANGED <<rows, queue, request, crashes, redeliveries>>

\* update_status("running"): the UPDATE waits for the row and locks it until
\* the transaction ends.
StartRun(w) ==
  /\ exec[w].pc = "start"
  /\ RowFree(exec[w].job)
  /\ Advance(w, CASE KindOf(w) = "text" -> "insert"
                  [] KindOf(w) = "scan" -> "check"
                  [] OTHER              -> "commit")
  /\ UNCHANGED <<rows, queue, request, crashes, redeliveries>>

\* Mutant: a scan also skips what another open transaction is inserting.
CheckFileAndOthers(w) ==
  /\ exec[w].pc = "check"
  /\ IF exec[w].next > Len(form[exec[w].job].files) THEN Advance(w, "commit")
     ELSE IF FileOf(w) \in Ingested \cup UNION {exec[u].pending : u \in Executors}
       THEN exec' = [exec EXCEPT ![w].next = @ + 1]
       ELSE Advance(w, "insert")
  /\ UNCHANGED <<rows, queue, request, crashes, redeliveries>>

\* A scan skips the files whose content the domain has, its own inserts
\* included.
CheckFile(w) ==
  /\ exec[w].pc = "check"
  /\ IF exec[w].next > Len(form[exec[w].job].files) THEN Advance(w, "commit")
     ELSE IF FileOf(w) \in Ingested \cup exec[w].pending
       THEN exec' = [exec EXCEPT ![w].next = @ + 1]
       ELSE Advance(w, "insert")
  /\ UNCHANGED <<rows, queue, request, crashes, redeliveries>>

\* Mutant: without the unique index.
InsertUnindexed(w) ==
  /\ exec[w].pc = "insert"
  /\ exec' = [exec EXCEPT
                ![w].pending = @ \cup {FileOf(w)}, ![w].next = @ + 1,
                ![w].pc = IF KindOf(w) = "scan" THEN "check" ELSE "commit"]
  /\ UNCHANGED <<rows, queue, request, crashes, redeliveries>>

\* Mutant: a conflict does nothing instead of raising.
InsertOrIgnore(w) ==
  /\ exec[w].pc = "insert"
  /\ ~ HeldByOther(w, FileOf(w))
  /\ exec' = [exec EXCEPT
                ![w].pending = @ \cup ({FileOf(w)} \ Ingested), ![w].next = @ + 1,
                ![w].pc = IF KindOf(w) = "scan" THEN "check" ELSE "commit"]
  /\ UNCHANGED <<rows, queue, request, crashes, redeliveries>>

\* The unique index on (domain, content hash): wait for an uncommitted equal
\* key, then fail if it was committed.
InsertDocument(w) ==
  /\ exec[w].pc = "insert"
  /\ ~ HeldByOther(w, FileOf(w))
  /\ IF FileOf(w) \in Ingested THEN Abort(w)
     ELSE exec' = [exec EXCEPT
                     ![w].pending = @ \cup {FileOf(w)}, ![w].next = @ + 1,
                     ![w].pc = IF KindOf(w) = "scan" THEN "check" ELSE "commit"]
  /\ UNCHANGED <<rows, queue, request, crashes, redeliveries>>

\* Postgres aborts one member of a set of transactions that wait for each
\* other.
DeadlockVictim(w) ==
  /\ \E S \in SUBSET Executors :
       /\ w \in S
       /\ \A u \in S : (\E v \in S : Blocks(v, u)) /\ (\E v \in S : Blocks(u, v))
  /\ Abort(w)
  /\ UNCHANGED <<rows, queue, request, crashes, redeliveries>>

\* Extraction, OCR, the index or the model provider raises.
WorkError(w) ==
  /\ exec[w].pc \in WorkPhases
  /\ Abort(w)
  /\ UNCHANGED <<rows, queue, request, crashes, redeliveries>>

Finished(e) ==
  IF e.inline THEN IdleExec ELSE [e EXCEPT !.pc = "ack", !.pending = {}]

CommitRun(w) ==
  LET j == exec[w].job IN
  /\ exec[w].pc = "commit"
  /\ status' = [status EXCEPT ![j] = "succeeded"]
  /\ docs'   = docs \cup {[content |-> c, job |-> j] : c \in exec[w].pending}
  /\ ledger' = [ledger EXCEPT ![j] = @ \o WorkEntries]
  /\ exec'   = [exec EXCEPT ![w] = Finished(@)]
  /\ UNCHANGED <<form, retryOf, queue, request, crashes, redeliveries>>

\* fail_*_job, in a fresh transaction and without looking at the status.
FailSelect(w) ==
  /\ exec[w].pc = "fail"
  /\ exec' = [exec EXCEPT ![w].pc = "failUpdate",
                          ![w].seen = status[exec[w].job]]
  /\ UNCHANGED <<rows, queue, request, crashes, redeliveries>>

FailUpdate(w) ==
  /\ exec[w].pc = "failUpdate"
  /\ RowFree(exec[w].job)
  /\ Advance(w, "failCommit")
  /\ UNCHANGED <<rows, queue, request, crashes, redeliveries>>

FailCommit(w) ==
  LET j == exec[w].job IN
  /\ exec[w].pc = "failCommit"
  /\ status' = [status EXCEPT ![j] = Written(j, exec[w].seen, "failed")]
  /\ ledger' = [ledger EXCEPT ![j] = Append(@, Entry("failed", "unrecorded"))]
  /\ exec'   = [exec EXCEPT ![w] = Finished(@)]
  /\ UNCHANGED <<form, retryOf, docs, queue, request, crashes, redeliveries>>

\* acks_late: the message is acknowledged after the task, also when it raised.
Acknowledge(w) ==
  /\ exec[w].pc = "ack"
  /\ exec' = [exec EXCEPT ![w] = IdleExec]
  /\ UNCHANGED <<rows, queue, request, crashes, redeliveries>>

Requeue(w) ==
  queue' = IF exec[w].tagged THEN [queue EXCEPT ![exec[w].job] = @ + 1]
           ELSE queue

\* reject_on_worker_lost: the broker takes the message back.
ExecutorLost(w) ==
  /\ exec[w].pc # "idle"
  /\ crashes < MaxCrashes
  /\ crashes' = crashes + 1
  /\ Requeue(w)
  /\ exec' = [exec EXCEPT ![w] = IdleExec]
  /\ UNCHANGED <<rows, request, redeliveries>>

\* The broker loses the consumer's channel while the task runs on.
ChannelLost(w) ==
  /\ exec[w].tagged
  /\ redeliveries < MaxRedeliveries
  /\ redeliveries' = redeliveries + 1
  /\ Requeue(w)
  /\ exec' = [exec EXCEPT ![w].tagged = FALSE]
  /\ UNCHANGED <<rows, request, crashes>>

-----------------------------------------------------------------------------
RequestStep(r) ==
  \/ DispatchJob(r) \/ RetryCommit(r)
  \/ TransitionSelect(r) \/ TransitionUpdate(r) \/ TransitionCommit(r)

ExecStep(w) ==
  \/ Deliver(w) \/ BeginRun(w) \/ StartRun(w) \/ CheckFile(w)
  \/ InsertDocument(w) \/ DeadlockVictim(w) \/ CommitRun(w)
  \/ FailSelect(w) \/ FailUpdate(w) \/ FailCommit(w) \/ Acknowledge(w)

ClientStep(r) ==
  \/ CreateJob(r) \/ SubmitJob(r) \/ RetryRead(r) \/ TransitionRead(r)
  \/ \E w \in Executors : SubmitInline(r, w)

Fault ==
  \/ \E r \in Requests : RequestLost(r)
  \/ \E w \in Executors :
       RefuseRun(w) \/ WorkError(w) \/ ExecutorLost(w) \/ ChannelLost(w)

\* Nothing is in flight; only new client calls could move the system.
Quiet ==
  /\ \A j \in Jobs : queue[j] = 0
  /\ \A w \in Executors : exec[w].pc = "idle"
  /\ \A r \in Requests : request[r].pc \in {"idle", "retry", "done"}
  /\ UNCHANGED vars

Next ==
  \/ \E r \in Requests : ClientStep(r) \/ RequestStep(r)
  \/ \E w \in Executors : ExecStep(w)
  \/ Fault
  \/ Quiet

Spec == Init /\ [][Next]_vars

\* The worker pool and the event loop of the API keep running the transactions
\* they have begun; nothing obliges clients, faults or retries.
Fairness ==
  /\ \A w \in Executors : WF_vars(ExecStep(w))
  /\ \A r \in Requests  : WF_vars(RequestStep(r))

FairSpec == Spec /\ Fairness

-----------------------------------------------------------------------------
(***************************************************************************)
(* Properties.                                                             *)
(***************************************************************************)

RowsTyped ==
  /\ status  \in [Jobs -> Statuses \cup {"none"}]
  /\ form    \in [Jobs -> [kind : Kinds, files : Seq(Contents)]]
  /\ retryOf \in [Jobs -> Jobs \cup {NoJob}]
  /\ docs    \subseteq [content : Contents, job : Jobs]
  /\ ledger  \in [Jobs -> Seq(LedgerEntry)]

ExecsTyped    == exec \in [Executors -> ExecState]
RequestsTyped == request \in [Requests -> RequestState]
CountersTyped ==
  queue \in [Jobs -> Nat] /\ crashes \in Nat /\ redeliveries \in Nat

\* The tables, the queue and the processes hold values of their types.
TypeOK == RowsTyped /\ ExecsTyped /\ RequestsTyped /\ CountersTyped

\* A domain never holds two documents of the same content, whichever uploads,
\* scans and repeated deliveries ingest it at the same time.
UniqueContent ==
  \A d, e \in docs : d.content = e.content => d = e

\* Ingestion is all or nothing: a document exists only if the transaction that
\* journalled the end of its job's work committed, and a job whose work is
\* journalled has left no file of its payload outside the domain, although a
\* scan skips files and other transactions roll back.
IngestAllOrNothing ==
  /\ \A d \in docs : Recorded(d.job, {"completed"})
  /\ \A j \in Jobs : Recorded(j, {"completed"}) =>
       \A i \in 1 .. Len(form[j].files) : form[j].files[i] \in Ingested

\* A text or upload job ingests its document at most once, however often its
\* message is delivered and however the deliveries overlap.
TextIngestedOnce ==
  \A j \in Jobs : form[j].kind = "text" =>
    \A i, k \in 1 .. Len(ledger[j]) :
      ledger[j][i].event = "completed" /\ ledger[j][k].event = "completed"
        => i = k

\* A retry descends from a job that was journalled as failed or cancelled.
RetryOfUnsuccessful ==
  \A j \in Jobs : retryOf[j] # NoJob => Recorded(retryOf[j], Retryable)

\* The row is out of the queued state and no executor works on it: whatever
\* message or request is still around.
Settled(j) ==
  /\ status[j] \notin {"none", "queued"}
  /\ \A w \in Executors :
       exec[w].job = j => exec[w].pc \notin {"start"} \cup WorkPhases

\* Work never begins on a settled job, so a job cancelled before an executor
\* read it stays without effects for ever, even if its message is delivered
\* again or a stale request overwrites its status.
SettledStaysIdle ==
  [][\A j \in Jobs : Settled(j) => Settled(j)']_vars

\* A job whose message reached the broker ends with a journalled success or
\* failure, through finitely many crashes, lost channels, lock waits and
\* deadlocks.
DispatchedJobsEnd ==
  \A j \in Jobs : queue[j] > 0 ~> Recorded(j, {"succeeded", "failed"})

\* The documented transition table (docs/api-integration.md:1516-1518) makes
\* succeeded, failed and cancelled terminal.  No run checks this: the fail
\* handler of a message that is delivered again overwrites them.
TerminalIsFinal ==
  [][\A j \in Jobs : status[j] \in Terminal => status'[j] = status[j]]_vars

=============================================================================
