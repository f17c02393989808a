# RetOS: a TLA+ model of the backend

RetOS is a local research workspace: an API (FastAPI) and Celery workers over
PostgreSQL, RabbitMQ and a Tantivy full-text index. This directory models the
parts of `backend/src/retos` in which several processes act on the same rows, messages
and files, and the calibration scripts of `backend/scripts`, whose commands share files;
it checks them with TLC and proves the main results with TLAPS.

Source paths below are relative to `src/backend/src/retos/`, scripts and tests to `src/backend/`.

## The system

| Component | State it keeps | Operations | Interacts with |
| --- | --- | --- | --- |
| Job lifecycle (`api/routes/jobs.py`, `jobs/tasks.py`, `worker.py`) | `jobs` rows, messages in RabbitMQ | create, start/complete/fail/cancel, retry, dispatch, execute, mark failed | writes the ledger; executes ingestion, indexing and agent services |
| Ingestion (`ingestion/`, `api/routes/ingestions.py`) | `documents`, `document_versions`, `segments`, `artifacts`, uploaded files | ingest a text, an upload, scan a source | one transaction per job; unique index on (domain, content hash) |
| Audit ledger (`persistence/repositories.py`, `api/routes/audit.py`, `core/audit_hash.py`) | `journal_events`, `progress_events`, linked by hashes | add a row, list, export with integrity report | every transaction of every component adds rows |
| Administration (`api/routes/admin_users.py`, `api/dependencies.py`, `persistence/bootstrap.py`) | `admin_users`, domain grants | create, (de)activate, change roles, grant, reset password, authorise a request | every request is authorised against it |
| Search index (`search/`, `api/routes/search.py`) | one index directory per domain, and a temporary one | rebuild (an index job), search | reads segments, is read by agent queries |
| Agent queries (`agent/service.py`, `agent/tools.py`, `api/routes/agent.py`) | the tool box of a query (searches made, evidence selected), the payload of the job | plan, search within a budget, add neighbours, call a model, store the answer | search index, model provider, agent audits |
| Agent audits (`agent/audits.py`) | none | ledger of citations, hops, route, contradictions | computed from the citations of an answer |
| Event stream (`api/routes/events.py`) | an in-memory list of live items in each process | append, replay, follow | reads `progress_events` and the grants; a request or a task appends to it after its commit |
| Domains, sources, documents (`api/routes/domains.py`, `documents.py`) | their rows, parts (artifacts, segments), keys, archive flags | create, change, archive, restore, remove a source | unique indexes, foreign keys, the ledger as history |
| Evaluations (`evals/`, `api/routes/evals.py`) | `eval.run` jobs, two report files per stem | run a suite, rerun, retry, list, compare | job transitions and retries |
| Calibration (`scripts/run_eval_calibration.py`, `fetch_eval_dataset.py`, `compare_eval_calibration.py`) | samples with their metadata, reports, the manifest, a baseline | sample or reuse, evaluate, report, compare, promote | evaluations |
| Authentication, providers, health, demo data, frontend, scripts | configuration | look-ups and fixed scripts | - |

What is hard in it:

* PostgreSQL runs at READ COMMITTED and the code uses no `SELECT ... FOR UPDATE`:
  whatever is read and then written may have changed in between.
* The broker redelivers (`acks_late`, `reject_on_worker_lost`): the same task may run
  again after, or while, the first one runs.
* A worker or an API process may die between the commit of a job and the dispatch of
  its message, between the failure of a transaction and the one that records it, and
  between a commit and the acknowledgement.
* Unique indexes make transactions wait for each other, and deadlock.
* The audit chain is linked by a look-up that is not serialised.
* An index is rebuilt in one fixed temporary directory and swapped by a removal and a rename, in
  whichever processes happen to rebuild.
* A request selects a row, decides, selects it again and writes what differs: history rows and references are
  written from what was read, keys are looked up before they are inserted.
* The tool calls of a model run in threads over one tool box without a lock.
* An evaluation runs inside its handler, whose job others may transition meanwhile; its two files share a name with other runs.
* Calibration commands leave samples, metadata and reports behind, wherever they are interrupted, for later commands to reuse.
* The progress stream combines rows ordered by a time that is taken before their commit with items numbered
  by a list in memory, and its client reconnects with the id of either.

`PROJECT.json` lists these hazards with their lines and the properties that cover them.

## Modules

| Module | Models | Variables and what they stand for |
| --- | --- | --- |
| `JobLifecycle` | jobs, API calls, broker, executors, ingestion transactions | `status`, `form`, `retryOf`: the `jobs` row (kind and files of the payload, `retried_from_job_id`); `docs`: `documents`; `ledger`: the journal rows about a job; `queue`: ready messages; `exec`: executors with delivery and open transaction; `request`: API calls |
| `JobPromise` | what a client may expect of one job | `status`, `effects` |
| `JobRefinement` | `JobLifecycle` implements `JobPromise` | - |
| `AuditLedger` | the hash chain and its export | `committed`: rows of both tables; `writer`: open transactions; `overlapped`: history |
| `AdminAccounts` | accounts and the requests that change them | `known`, `active`, `admins`: the `admin_users` table; `request`; `raced`: history |
| `EventStream` | the progress stream, its client over many connections | `log`: `progress_events`; `writer`: transactions with the rows they have stamped; `store`: `InMemoryProgressStore` of each process; `grants`: `admin_user_domain_grants` of the client's account; `client`: the generator of `replay_progress_events`; `saw`, `overtaken`: history |
| `SearchIndex` | the directories of one domain under rebuilds | `tmp`, `final`: `tantivy.tmp` and `tantivy`; `proc`: rebuilds; `corpus`: edition of the segments; `served`, `reported`, `cut`: history |
| `IndexPromise` | the index as those who search it see it | `shown`: the index in place, and what was last put in place; `told`: editions of reported rebuilds; `corpus` |
| `IndexRefinement` | `SearchIndex` implements `IndexPromise` | - |
| `Documents` | rows of domains, sources, documents and parts under concurrent requests | `live`, `gone`, `row`: the tables; `journal`: the journal rows about them, uncommitted ones too; `request`: open transactions |
| `Segmenting` | one ingestion cutting a text into rows | `words`, `size`, `start`, `ordinal`: the locals of `chunk_text`; `segments`: the rows of the version; `stage` |
| `EvidenceAudits` | the audits of an answer, as operators on its citations | - |
| `AgentQuery` | one research query: evidence, budgets, tool calls, answer | `pc`, `left`: the place in `run_agent_query`; `searchCount`, `selected`: `CorpusToolbox`; `context`: neighbours; `calls`: tool calls in progress; `late`: history |
| `EvalRuns` | evaluation runs, reruns and retries | `status`, `payload`: the `jobs` rows; `json`, `text`: the run that wrote each report file; `handler`, `mover`: API calls; `asked`, `made`, `lost`, `contested`, `endedBy`: history |
| `EvalScores` | cases, scores, reports and the comparisons of reports, as operators | - |
| `Calibration` | calibration commands over files that outlive them | `files`, `metadata`, `reports`, `manifest`, `baseline`: the files; `pc`, `command`, `run`, `results`, `dataset`, `sample`, `report`: the command; `first`, `slack`, `foreign`: history |
| `MC...` | instances for TLC | - |
| `...Proofs` | theorems checked by TLAPS | - |

### JobLifecycle

*Requests.* `CreateJob` is `POST /jobs`, which dispatches nothing. `SubmitJob` then
`DispatchJob` are the ingestion, rebuild and query endpoints, which commit and then
send the message; `RetryRead`, `RetryCommit`, `DispatchJob` are `POST /jobs/{id}/retry`;
`SubmitInline` is `run_inline=true`. `TransitionRead` (get and validate), `TransitionSelect`
(`update_status` selects again), `TransitionUpdate` (the UPDATE takes the row lock) and
`TransitionCommit` are the four transition endpoints. SQLAlchemy updates a column only
if it differs from the value selected before: `Written` models that a transition whose
second select already saw the target changes nothing, whatever is committed meanwhile.

*Executors.* `Deliver` takes a message; `BeginRun` and `RefuseRun` are the checks at the top of the service
functions; `StartRun` is the update to `running`; `CheckFile` and `InsertDocument` are
one step of a scan, `InsertDocument` alone the text and upload ingestion; `WorkError` is any
exception of extraction, OCR, index or model; `CommitRun` is the commit. `FailSelect`,
`FailUpdate`, `FailCommit` are `fail_*_job`, in a transaction of their own. `AfterError`
says who runs it: every task does, inline scans and rebuilds do not, an inline query
only after `AgentQueryError`.

*Environment.* `ExecutorLost` (the message goes back to the queue), `ChannelLost` (the
broker redelivers while the task runs on), `RequestLost` (an API process dies between
two steps), `DeadlockVictim`.

The four job kinds share one control flow and are told apart by what they insert: one
document (`text`, which stands for uploads too), a sequence of files (`scan`), nothing
in `documents` (`index`, `agent`).

### AuditLedger

An add is three steps: `Stamp` (`utc_now()`), `ReadJournal` and `ReadProgress` (the two
statements of `latest_audit_event_hash`), the last of which inserts the row. A transaction adds
any number of rows before `Commit` or `Rollback`. A row is identified by its time, and a hash
by its row: hashes are collision-free, and the adds of one host read distinct microseconds. `Export`, `Before`
and `Gaps` are `/audit/export`: the newest `limit` visible rows of each stream, merged by
time, and the rows whose `prev_hash` is not the hash of the row before. A scoped listing
looks at the newest `20 * limit` rows only, which is more than the bound on rows.

### AdminAccounts

`Authorize` (`require_admin`, its own transaction), `ReadTarget`, `CountActiveAdmins`,
`SelectTarget`, `FlushChange`, `Commit`: the statements of the PATCH and POST handlers of
`admin_users.py`. A roles update may write although `admin` is in both lists, since the
lists may differ otherwise. `BootstrapAdmin` is the insert at process start.

### EventStream

`Stamp` is `ProgressEventRepository.add` (it takes `occurred_at`), `Commit`, `Rollback` and `Notify`
(`progress_store.append`, after the commit) the rest of a handler or task. A request that has committed a job may have to call the broker
first (`dispatching`): `Dispatched` if that returns; `Unannounced` if it raises, or if a scan is run inline, whose request returns
without the item. `Notify` appends to the
store of the process that runs it: `Requests` are handlers of the API process, `Workers` processes of their own.
`Connect` is the start of the generator with no id, a `progress:` id or a number (`ConnectFresh`, `Resume`,
`Follow`) and its query of the grants; `Query` the replay query with its page (`Limit`) and, for an account that is
not an administrator, the window (`Window`) whose rows are filtered in Python; `Replay` one yielded row; `Poll`
one pass of the loop over `since`; `Listen` one yielded or hidden live item. `Disconnect` and `Restart`
may come between any two of them. A restart empties the store and begins its numbers again.

A row is its time; all rows of one transaction are of one domain, as they are in the
handlers. The row of a cursor always exists, since nothing deletes progress rows. `Limit` 1, `Window` 2 and
`Recent` 1 stand for 50, 1000 and 10: each is exceeded with three rows. That an account gains or loses the
role `admin` while it is connected, and the filtering in the browser, are not modelled.

### SearchIndex

One action per call of `rebuild_domain` that touches the file system: `ClearTmp` (`rmtree`; one step, since no search opens that directory), `MakeTmp` (`mkdir`), `OpenWriter`, `WriteIndex`
(`commit`), `RemoveFinal` and `FinishRemoval` (`rmtree` deletes file by file, so that a search fails from its first deletion on, and
another process may interfere before its last), `Swap` (`replace`); then `Report`, the commit of the job, or `Raise`, a call that fails because of
another process. `Fault` is everything else that ends a rebuild: the disk, the database, the process. The
job row and its messages are those of `JobLifecycle`, where a rebuild is work that may raise.

The index library is external: a directory holds the set of rebuilds whose segments are in it and
the lock of a writer, and it works on paths. A search opens `final` and changes nothing; what
it gets is a function of `final`.

`IndexPromise` is what remains if only searches and reports are looked at: an index in place may go away (`Hide`), one finished build
takes its place (`PlaceWhole`, or `PlaceMixed` after rebuilds that overlapped, of which nothing is promised but its edition), and a rebuild is reported
after an index was put in place (`Tell`). `shown` is computed from `final` and the history variable `served`, `told` from `reported`; the
temporary directory, the processes and their failures are not seen. `RemoveFinal` is a `Hide` if the index could be opened and
a stutter otherwise, `Swap` is a `Place`, the other steps of a rebuild and every fault are stutters.

### Documents

A request is one transaction: a creation (`CreateDomain`, `CreateSource`, `CreateDocument`, `CreatePart`), a change
(`Update...`, `Archive...`, `Restore...`) or `DeleteSource`. It reads the row (the first action), then `LookUp` asks for the
key and answers 409 if it is taken, `Select` selects the row again, as the repositories do, and determines
the columns that differ, `Flush` writes the row and its journal row, `Commit` ends it; `Rollback` is any exception
or loss. Only a flush takes locks: `Waits` says whom it would wait for (the same row, the source that a new document refers
to, a key that an open transaction takes or frees), and `FlushError` what raises instead, outside the
handler's `try`. The removal of a source sets it null in its documents. A journal row keeps its place
from the flush on, for the history is read in the order of `occurred_at`.

The columns are three: the key (slug, URI, content hash, ordinal), the text (names, titles, metadata) and the archive flag. Metadata is
replaced as a whole. Artifacts and segments are parts of a document, of the one version that its creation makes.

### Segmenting

`chunk_text` and its callers, for one text: `ReadText` takes the size of a window from the payload (`SizeOf`: a text and an upload take 0 for
unset, a scan does not) and raises without words or with a window below one; `AddSegment` stores one window; `CommitSegments` and `DropSegments` end the
transaction. A scan cuts the texts of its files one after another. A word is its place in the text, and `MaxWords` bounds the
length of texts. `MCDocuments` checks it in the run of `Documents`, with which it shares no state: a behaviour of the instance is one of either. Segments that clients register by themselves are the parts of `Documents`.

### AgentQuery and EvidenceAudits

`SeedQuestion`, `SeedEntity`, `SeedPlanned` are the searches of `seed_agent_evidence`, `ExpandNeighbors` is
`expand_neighbor_context`. Then, with the agent runtime, each thread makes calls of `search_corpus` in three steps:
`CallSearch` counts the search, `CallMerge` merges the hits with the evidence of that moment, `CallStore` replaces the
evidence by what fits the budget, whatever it is by then. `Answer` builds the stored result: citations, mentions after
`ensure_evidence_ledger`, the four audits, the flag that says whether the budget was kept. What a search returns is any sequence of
distinct segments up to its limit, which covers an index that is rebuilt in between. The model is external:
it calls as often as it may and mentions any segments. That the calls of one message run in a thread pool is what the
agent library does; the check and the increment of `search_count` have no await or call between them and are one step.

`EvidenceAudits` has the audits as operators on a sequence of segments with documents, terms and negations.

### EvalRuns

`Ask` queues and starts a run in one commit, `Make` is `POST /jobs` with kind `eval.run`, which queues a job with any payload that nobody executes; the handler runs the suite and writes the files (`Report`, `ReportWithFiles`,
`WriteFails`, `SuiteRaises`) without leaving the event loop, so that no other handler of the process comes between; `Complete` and
`MarkFailed` are the second transaction. `Retry`, `Reread`, `Rerun` are the two ways of running again: the
request is rebuilt from the payload (`PlanOf`), in which fields may be missing, and whose texts are stripped (`Trimmed`; blank ones are like
none). A payload that names no suite, no dataset or a value which no request may have cannot be rerun (`Rerunnable`). `Decide` and `Move` are
the transition endpoints with their table (`Transitions`), from `queued` too; `LoseTransaction` and `Crash` the losses.
`ReportFile` says which name `write_report_files` makes of a suite and a stem. A stem of blanks becomes `eval-report`, though none becomes the
name of the suite. `WriteFails` may leave both files, replace the first one, or also cut the second one short.

### EvalScores and Calibration

`EvalScores` translates how records become cases (`Cases`, `Expected`), how a case is scored (`ScoreCase`, `ScoreAgentCase`), the
report with its averages, and the three comparisons of reports: the gates of a calibration, the comparison of two
manifests and the regression gate of the API. Records are told apart by how many texts support them (`Kinds`), and scores are multiples of `1 / Scale`.

`Calibration` is the life of the files. For each target a command takes `Reuse`, `Refuse` or samples anew (`Sample`, `Written`,
`Describe`; two samplers write line by line and may leave a part), then `Evaluate`, `WriteReport`, and at the end
`WriteManifest`. `Interrupt` kills it within or between steps, and `FetchAlone` is the fetch script run by hand. `Adopt`
and `Promote` are the operator who keeps a manifest as the baseline of later ones.



## Runs

All runs pass.

| Run | Question | Bounds |
| --- | --- | --- |
| `JobSafety` | Do overlapping ingestions, stale API calls and repeated messages duplicate content, leave a job half done, revive a settled job or retry a successful one? | 2 jobs, 2 executors, 3 requests, 2 contents; an upload, and a scan of two files; all four transitions; 1 crash, 1 redelivery |
| `JobLive` | Does a dispatched job end? Checked under `FairSpec` | two scans that take the same two files in opposite orders; 1 crash, cancellation |
| `JobRefinement` | Does a job keep its promise with once-only delivery? | 2 jobs, 2 executors, 2 requests, all kinds, no crash, no redelivery, no manual transition |
| `AuditLedger` | What does the chain guarantee with concurrent writers? | 2 writers, 2 domains, 4 rows, every limit and scope |
| `AdminAccounts` | When can the last administrator be lost? | 3 accounts, 2 concurrent requests, any number in sequence |
| `EventStream` | What may a client that resumes or stays connected miss? | 1 request, 1 worker, 2 domains, 3 rows, all grants and changes of them, any number of reconnects and restarts |
| `StreamLive` | Does a client that keeps resuming catch up page by page, and does a connected client hear of changes? Under `FairSpec` | 1 request, 2 domains, 3 rows, a window of 1 |
| `SearchIndex` | What does a search find while rebuilds fail, die and overlap, and does the next rebuild repair what earlier ones left (the last under `FairSpec`)? Does all of it keep `IndexPromise`? | 2 processes, 4 rebuilds, 1 edit, 1 fault |
| `Documents` | Do concurrent requests keep keys unique, references within their domain, and the history complete? And beside that: does every word of a text end up in exactly one segment, and do ordinals tell neighbours? | 2 domains, 2 sources, 1 document, 1 part, 2 keys, 2 texts, 2 requests, 4 rows created or changes journalled; texts of up to 12 words, windows of -1 to 13 and none asked for, a default of 3 |
| `AgentQuery` | Does the evidence keep its limits through overlapping searches, and is the stored answer grounded and consistent with its audits? | 4 segments, 3 queries, 2 threads, 3 budgets |
| `EvalRuns` | What does a rerun repeat of the first request, when does the status tell the report, when is a report whole, which runs end? | 2 runs, 2 handlers, 1 transition at a time, 2 requests, one of them with a stem of blanks, 2 payloads made by hand, 1 loss |
| `Calibration` | Is what a manifest claims true of the files, and what does a chain of baselines keep? | 3 targets, two of which share a sample; 3 commands of 4 kinds, 1 accident, 2 records |

Why the bounds are enough to be interesting: two executors on one job need one
redelivery or crash; a conflict needs two jobs with a common file; a deadlock needs two
files in two orders; a stale transition needs one request and one worker, a retry of a
job that is being changed a third process. A fork needs two writers; a chain between
two forks, and a gap that is hidden by the split limit, four rows. A lock-out needs two
removals; a target that is reactivated while it is being removed, three accounts. `MaxCrashes`,
`MaxRedeliveries` and `MaxEvents` bound what is otherwise unbounded; the number of API
calls is bounded by making each member of `Requests` serve one call in `JobLifecycle`.
A row that is overtaken needs two writers and a client that connects between their commits; a page that ends before a later row, three rows.
Two processes are enough for a rebuild to spoil another one, and four rebuilds for one that finds what two such rebuilds left.
A document with a source in its domain is three rows, and one more write removes the source or changes a row, next to a second request that does the same;
two changes of one row after its creation are also within `MaxWrites` 4, which counts rows and journalled changes together.
The three budgets of `AgentQuery` are: smaller than some hits; exceeded by a few hits together; exceeded by a hit and its two neighbours. Two threads are enough for a call to
undo another one. Two evaluation runs are one chain, or two with the same files. Three commands are a baseline and two candidates, or a sample
and two uses of it. Symmetry is used for safety and action properties, never for liveness. Deadlock is checked wherever the
model cannot run out of steps; elsewhere the configuration says what ends a behaviour.

### Properties with conditions

Several properties hold only because of a condition in them. TLC finds what each condition excludes; six of
these exclusions differ from the documentation, and stay defined, unchecked, next to the property that holds:

* `TerminalIsFinal` (`JobLifecycle`) is not so: the broker delivers a message again after the job succeeded;
  `run_text_ingestion` refuses it (`Job must be queued`), the task calls
  `fail_text_ingestion_job`, and that writes `failed` over `succeeded`. The document stays,
  the job reads as failed, and a retry is offered. `docs/api-integration.md:1516-1518` calls these states terminal. What holds: no work begins
  again (`SettledStaysIdle`), and with messages delivered once the promise is kept (`KeepsPromise`).
* `SingleChain` (`AuditLedger`) is not so: two transactions that overlap read the same latest row and both link to it, so the
  "single journal/progress hash chain" of `docs/database.md:51-53` is a tree, and an unlimited export by an administrator reports
  a continuity gap. What holds: `AloneIsChained`, `LinkedToCommitted`, and an export of such rows without a gap is complete (`GapFreeIsComplete`).
* `SomeActiveAdmin` (`AdminAccounts`) is not so: two administrators remove each other and both requests count two. `docs/api-integration.md:141`
  requires one. What holds: `LostOnlyByRace`.
* `ConnectedHearsWorkers` (`EventStream`) is not so: a worker appends to the store of its own process, which no stream reads;
  the connected client learns of the change when it reconnects. `docs/api-integration.md:457-463` describes live events. What holds:
  `ConnectedHears`, of changes made by the API.
* `EndedIsFinal` (`EvalRuns`) is not so: `complete_eval_job` and `mark_eval_failed` write over a status that was set by hand while
  the suite ran, and a transition that was decided before that writes over theirs. `docs/api-integration.md:1510-1518` and the table
  `TRANSITIONS` (`api/routes/jobs.py:72-78`) call ended states terminal. What holds: `VerdictTellsReport`, of the runs whose status was
  never written over one that had changed (`contested` marks the others).
* `PlanRepeated` (`EvalRuns`) is not so: the first run of a request with a `report_stem` of blanks writes `eval-report.json` and `.md`, and its rerun, which
  strips it and asks for none, the files of the suite. `docs/evals.md:194-196` speaks of "a faithful repeat". What holds: `PlanKept`,
  of requests as a rerun reads them.

The other conditions:

* `SkippedOnlyIfOvertaken`: a row is stamped, a later one is stamped, committed and sent, then the first commits. A client that
  resumes after the later row never gets the first.
* `CatchesUp`: if as many rows of other domains as the window follow the cursor of a viewer, every replay looks at those
  rows, finds none it may send, and the cursor stays where it is.
* `ConnectedHears`: a request that ends after its commit without appending (the broker refused its job, or it ran a scan inline) is `Unsaid`: no
  stream announces its change, although nothing was restarted (`api/routes/ingestions.py:325-339`). And after a restart of the API, a client that
  follows a live id of the old process misses the first items of the new one; the property, like `LiveWithoutGap`, begins with an item that the store has.
* `UnusableHasCause`: between the removal and the rename of a rebuild, or after one that died there, a search answers that the
  index "has not been built". And two overlapping rebuilds can both be reported as succeeded and leave a directory
  that cannot be opened, when one renames the directory that the other has just made.
* `HistoryTellsRow`: `crossed` marks requests of which another one wrote or committed its journal row about the same item in between.
  Their journal rows tell values from two different moments, and the history of the item has a step that does not join.
* `OverBudgetOnlyIfLate`: the neighbours fill what the seeded evidence leaves of the token budget, then a call of the model adds evidence. Both
  together exceed it; the stored flag says so.
* `EvidenceKept`: a call that was computed before another one stored drops what that one had added (`stale`).
* `ReportIsWhole`: a run that fails after it has replaced the `.json` (`evals/reports.py:27-31`) leaves the rows of earlier runs of the same
  name with a pair of which one half, or both, is not theirs. The property names that case: the run that wrote the `.json` has no result. Where both files are
  those of a later completed run, the earlier rows point at its report, which is whole.
* `RunEnds`: a run whose handler was lost stays running, and no retry accepts it (`lost`). So does a run that was made by hand (`made`,
  `tests/test_jobs_api.py:405-436` makes one) and then started: it has no handler, and only another transition ends it.
* `ClaimsHold`, `RefusedOnlyIfShort`: a sample written by hand, or by a command that was interrupted before its metadata, is `foreign`.

### Fairness

`FairSpec` of `JobLifecycle` has weak fairness of the steps of each executor and each
request handler: the worker pool keeps consuming and a coroutine that has begun keeps running. Clients, crashes, lost
channels and errors are not fair. Waiting for a lock is a disabled action, so weak fairness is
enough: the holder is itself fair, and Postgres resolves the cycles (`DeadlockVictim`).
`DispatchedJobsEnd` starts from a message in the queue, because the code gives no guarantee
for a job whose dispatch was lost (see hazards).

`FairSpec` of `EventStream` has weak fairness of the end of transactions, of the call of the broker, which returns or raises, of notifications and of the steps
of the generator's loop, which the event loop keeps running. `Query` and `Replay` are strongly fair: a client
that reconnects for ever may be cut off often, but not each time at the same place before its first row. `CatchesUp` assumes in
its own statement that the client keeps reconnecting. `ConnectedHears` starts
with an item that the store has, since more than ten items may arrive between the replay and the first poll, which then begins with the last ten.

`FairSpec` of `SearchIndex` has weak fairness of the steps of a rebuild that has begun. Nothing obliges anyone to begin one.

`Spec` of `EvalRuns` has weak fairness of `Finish`, the steps of a handler from the start of the suite to its second transaction: one uvicorn
process runs it and does not abandon a handler that has begun. Losses are not fair, and `RunEnds` excludes their runs by name.

## Proofs

Every invariant and every action property that a run checks, and both refinements (`JobPromise`, `IndexPromise`), is a theorem.
The types of the state (`TypeOK`) are theorems too (`TypeCorrect`), and no run repeats them.
All proofs are for every value of the constants under the named assumptions of the modules (`JobConstants`, `LedgerConstants`,
`AccountConstants`, `StreamConstants`, `IndexConstants`, `DocumentConstants`, `SegmentingConstants`, `AuditConstants`, `QueryConstants`, `EvalConstants`,
`CalibrationConstants`, `ScoreConstants`: types of the bounds, a corpus that is finite, shape of job forms and of
commands, a command that asks for at least one case, kinds of items and report names that are distinct, placeholders that are not values).

* `JobLifecycleProofs`. `IInv` strengthens the safety properties with: what an executor in each
  phase knows of its job, which contents open transactions hold and that no two hold the same
  one, how far a scan has come (each file before `next` is ingested or held by the transaction itself), that
  a text job whose work is journalled has its content in the domain, and that a job which some process still
  considers retryable or finished has the journal row that made it so. `Invariance` is proved action by action,
  and from it `TypeCorrect`, `ContentIsUnique`, `IngestionIsAtomic`, `TextRunsOnce`, `RetriesDescend` and the
  action property `SettledJobsStayIdle`.
  `PromiseIsKept`: under `OnceOnly` (no redelivery, no crash, no transition by hand) `JobLifecycle` implements
  `JobPromise` for any number of jobs, executors and requests. The inductive invariant is `IInv` together with `CarriedOnce`: each job is
  carried by at most one of a pending dispatch, a message and an executor, and what its carrier is doing fits its status. Each action then maps
  to a step of the promise or to a stutter.
* `AuditLedgerProofs`. `IInv` says that a transaction which has been alone so far comes after everything
  committed, that its look-ups and rows form a chain, and that nothing still open comes before a row written alone.
  From it `LinksAreCommitted` and `AloneRowsAreChained`. `ExportsWithoutGapAreComplete` needs besides that no two rows have one time
  (`OwnTimes`): around the time of an omitted row there are two rows of the export that follow one another (`Around`); the later of them
  links to the former, and was written alone, so that nothing was committed between their times.
* `AdminAccountsProofs`. `IInv` says that until another request commits a change, what a removal
  has read of its target is still so and, if it has counted, two active administrators are left. From it
  `TypeCorrect` and `OneAdminStays`.
* `EventStreamProofs`. Both properties speak of what lies between two things the client got, and are inductive together with
  the same claim up to the place where the connection stands, its cursor or its live id (`RowsCovered`, `ItemsCovered`), and with the claim that
  a batch in hand leaves nothing out on the way to its last (`RowsUnbroken`, `ItemsUnbroken`). `Kept` says that log and transactions are finite, so that
  a limit counts something, and `Steady` that domains which were granted all the time are in the scope which the connection has read. A page takes the first
  rows and leaves the later ones: that is proved by counting. From them
  `TypeCorrect`, `ReplaysSkipOnlyOvertaken` and `LiveItemsHaveNoGap`.
* `SearchProofs`, about `SearchIndex`. `IInv` says that a rebuild marked as alone is the only one, that what it finds in the temporary
  directory is its own and complete once it is written (`LoneOwnsTmp`), that it has read segments no older than those of any
  reported rebuild (`ReadsGrow`), and that the index it has put in place is the one it is going to report
  (`SwappedIsServed`, `UnusableAfterSwap`). From it `TypeCorrect`, `OneBuildIsServed`, `NewestIsServed` and
  `UnusableOnlyWithCause`, one lemma for each conjunct and one step for each action.
  `IndexPromiseIsKept`: `SearchIndex` implements `IndexPromise`. That the index which a lone rebuild puts in place comes after
  the one before it is not among the safety properties, which speak of reported rebuilds only; `Forward` says it
  before the swap: rebuilds are numbered and read the segments in the order they begin (`Numbered`), a lone one is later than what was last put in
  place (`LoneIsLater`), and what can be opened is there (`OpenIsThere`), so that a rename onto nothing hides nothing.
  It is inductive together with `IInv`.
* `SearchProofs`, about `AgentQuery`. `Within`: the evidence is `Affordable` (distinct, within citations and tokens). `Ready`: what a call is about to
  store is affordable too and, if no other call has stored since, a selection from the evidence as it is. `Room`: the neighbours fit beside the
  evidence until a call stores. `Phased`: calls are under way only while the model runs or after a failure. The lemmas say what a selection
  is (`SelectionOf`), that it keeps affordable hits which come first (`SelectionKeeps`) and is empty only over a hit that exceeds the budget
  (`SelectionIsEmpty`), what merging keeps (`MergeUniqueMerges`), that neighbours fit (`NeighborsFit`) and that each citation is in one group
  (`GroupsCount`). From them `SearchesStayWithinBudget`, `OnlyLateEvidenceIsOverBudget`, `AnswersAreGrounded`, `AuditsOfAnswersAgree` and
  the action property `SearchesKeepEvidence`.
* `DocumentsProofs`. Unique keys and references are facts about committed rows, and not inductive without the open requests: `Held` says what a request
  in each phase knows of the rows it is going to write (once written, its key is free, its row and its source are there), `Apart` that two transactions which have
  written never write one row, give siblings one key, or refer to a source and remove it, which is what the locks are for, `Noted` that a write has its
  journal row. From them `TypeCorrect`, `KeysAreUnique`, `LinksStayInDomain` and the action property `NoUntoldChange`.
  `HistoryReplays` needs what the order of journal rows says of the requests that wrote them (`History`): an open transaction has one journal
  row, which tells what its request does (`Owned`, `Single`); committed rows are about items that exist or existed (`Settled`); nothing uncommitted
  comes before a committed row of the same item that was not crossed (`Ahead`), nothing committed after the row of a request that was not (`Latest`), and until it is crossed
  a request finds the row as it first read it (`Unmoved`). The history is then replayed column by column: what a journal row tells as the value before is what the last
  one that told the column left (`NextTold`).
* `DocumentsProofs`, about `Segmenting`. `SegmentingInv` is the invariant of the loop: the rows stored so far are windows, one for each
  ordinal (`Windows`), each of which ends where the next begins (`InOrder`), and together they hold every word before the next window (`Covered`).
  From it `SegmentsHoldEachWordOnce` and `OrdinalsTellNeighbors`, for texts and windows of any length.
* `EvalRunsProofs`. `PlansHeld`: a payload reads back as what the first client of its chain asked for, and what a handler is going to run is a request
  that is accepted and reads the same; it rests on `ReadsBack` (a plan that was kept), `PlanReadAgain` (a plan that was read from any payload) and on
  the assumption that stripping twice is stripping once. `MovesAllowed`: a transition of a run that a handler began was decided while it was running;
  `RunsOwned`: a run belongs to one handler, which has not completed it; `FilesOwned`: a run touches no file before its report; `MixedIsCutShort`:
  where the two files are of two runs, the run of the `.json` has no result. From them `TypeCorrect`, `PlansAreKept`, `VerdictsTellReports`, `ReportsAreWhole`.
* `CalibrationProofs`. `Progress` (the results of a command are those of its reports), `Superseded` (a manifest of the current command exists only when it has ended),
  `Described` (sample and metadata agree in every profile that is not foreign). From them `ManifestsMatchReports` and `RefusalsAreJustified`.
  For the worth of results and baselines the invariant is joined by `Held` (files have the form of samples), `AtHand` (the records and the report that the step in
  progress holds fit the file), `Graded` (each result is `Sound`: claims no more cases than records, and passed only with a report that did) and
  `Standing` (the baseline is within `slack` of the first). From them `ManifestsClaimWhatTheyHeld`, `BaselinesHoldTheirGround` and `PassedManifestsAreFlawless`.

Sums and folds. The community modules define them by a recursive function, which is a `CHOOSE`: nothing is known of it until
some function is shown to solve its equation. `FoldExists` does so for the folds of `AgentQuery` and `SumsExist` for the sums, from the smallest size of a set
for which there would be none (`HasSmallest`); `PartsInduction` is induction over the parts of a finite set in the only form the prover
can use, with a set in the place of the predicate. That a sum may be taken in any order is `SumTakes`. `SelectSeq` has no such proof here, so the models
that are proved about do without it: `MergeUnique` and `Groups` are folds, as the loops of the code are, and `Cases` ranks records by counting.

Model-checked only: liveness (`DispatchedJobsEnd`, `CatchesUp`, `ConnectedHears`, `NextRebuildHeals`, `RunEnds`), which needs fairness.

## Not modelled, and why

* Ledger rows of old databases without stored hashes, and clocks of several hosts that disagree.
* Domain grants in `AdminAccounts`, and password resets: they do not change what an administrator is. Grants are in `EventStream`.
* The splitting of a text into words, extraction and OCR: pure functions or libraries; their
  failure is `WorkError` or `RefuseRun`, their result a set of parts.
* The arithmetic of the OCR scores (edit distances and layouts), the listing of evaluation runs and their trends: computed from rows and changing none.
* Uploaded files on disk: an upload is stored before its job is committed, and a failure in between leaves a file that nothing reads.
* The tools of the agent that only read (citations, source map, tables), the wording of answers and of audits, the model provider.
* Authentication, configuration, health, demonstration data: look-ups and fixed scripts without state shared by processes.
* SQLite, which the tests use: it has one writer and none of these interleavings.
* Frontend and the smoke scripts: presentation and command line checks. The client side of the stream is in `EventStream`.

## What could come next

Grants and password resets in `AdminAccounts`; files of uploads next to `JobLifecycle`.
