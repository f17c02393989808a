------------------------- MODULE JobLifecycleProofs -------------------------
(***************************************************************************)
(* Proofs about JobLifecycle for every set of jobs, executors, requests    *)
(* and contents, and every bound on crashes and redeliveries; and that     *)
(* JobLifecycle implements JobPromise, as long as every message is         *)
(* delivered once and nobody calls a transition endpoint.                  *)
(***************************************************************************)
EXTENDS JobRefinement, FiniteSetTheorems, SequenceTheorems, TLAPS

(***************************************************************************)
(* The inductive invariant.                                                *)
(***************************************************************************)

\* A text job has one file and a projection job has none, also as a retry.
\* A row that does not exist has no journal.
RowOK(j) ==
  /\ form[j].kind = "text" => Len(form[j].files) = 1
  /\ form[j].kind \in {"index", "agent"} => Len(form[j].files) = 0
  /\ status[j] = "none" => ledger[j] = << >>
  /\ queue[j] > 0 => status[j] # "none"
  /\ status[j] \in Outcomes => Recorded(j, {status[j]})

\* An executor that has a job names a committed row, its file cursor is inside
\* the payload when it is used, the files before the cursor are in the domain
\* or in its own transaction, and what it has inserted nobody has committed.
ExecOK(e) ==
  /\ e.pc # "idle" => e.job \in Jobs /\ status[e.job] # "none"
  /\ e.tagged => e.pc # "idle"
  /\ e.next >= 1
  /\ e.pc \in {"begin", "start"} => e.next = 1
  /\ e.pc = "check" => form[e.job].kind = "scan"
  /\ e.pc = "insert" =>
       /\ form[e.job].kind \in {"text", "scan"}
       /\ form[e.job].kind = "text" => e.next = 1
       /\ e.next <= Len(form[e.job].files)
  /\ e.pc = "commit" => e.next > Len(form[e.job].files)
  /\ e.pc = "commit" /\ form[e.job].kind = "text" =>
       form[e.job].files[1] \in e.pending
  /\ e.pc \in WorkPhases =>
       \A i \in 1 .. Len(form[e.job].files) :
         i < e.next => form[e.job].files[i] \in Ingested \cup e.pending
  /\ e.pc \notin WorkPhases => e.pending = {}
  /\ \A c \in e.pending : c \notin Ingested

RequestOK(q) ==
  /\ q.pc \notin {"idle", "done"} => q.job \in Jobs /\ status[q.job] # "none"
  /\ q.pc = "retry" => Recorded(q.job, Retryable)

\* No two open transactions hold the same key.
PendingDisjoint ==
  \A w, u \in Executors :
    \A c \in exec[w].pending : c \in exec[u].pending => w = u

IInv ==
  /\ TypeOK
  /\ \A j \in Jobs : RowOK(j)
  /\ \A w \in Executors : ExecOK(exec[w])
  /\ \A r \in Requests : RequestOK(request[r])
  /\ PendingDisjoint
  /\ UniqueContent
  /\ IngestAllOrNothing
  /\ TextIngestedOnce
  /\ RetryOfUnsuccessful

-----------------------------------------------------------------------------
(***************************************************************************)
(* The initial states.                                                     *)
(***************************************************************************)
USE DEF ExecPhases, ExecWriting, WorkPhases, RequestPhases, Kinds, Statuses,
        Outcomes, Retryable

LEMMA InitIInv == Init => IInv
<1> SUFFICES ASSUME Init PROVE IInv
  OBVIOUS
<1>1. RowsTyped
  BY JobConstants DEF Init, RowsTyped, LedgerEntry
<1>2. ExecsTyped /\ RequestsTyped /\ CountersTyped
  BY DEF Init, ExecsTyped, RequestsTyped, CountersTyped, ExecState,
         RequestState, IdleExec, IdleRequest
<1>3. \A j \in Jobs : RowOK(j)
  BY DEF Init, RowOK
<1>4. \A w \in Executors : ExecOK(exec[w])
  BY DEF Init, ExecOK, IdleExec
<1>5. \A r \in Requests : RequestOK(request[r])
  BY DEF Init, RequestOK, IdleRequest
<1>6. PendingDisjoint /\ UniqueContent
  BY DEF Init, PendingDisjoint, IdleExec, UniqueContent
<1>7. \A j \in Jobs : \A events : ~ Recorded(j, events)
  BY DEF Init, Recorded
<1>8. IngestAllOrNothing /\ TextIngestedOnce
  BY <1>7 DEF Init, IngestAllOrNothing, TextIngestedOnce
<1>9. RetryOfUnsuccessful
  BY DEF Init, RetryOfUnsuccessful
<1> QED BY <1>1, <1>2, <1>3, <1>4, <1>5, <1>6, <1>8, <1>9 DEF IInv, TypeOK

-----------------------------------------------------------------------------
(***************************************************************************)
(* Steps that leave the tables alone: one executor moves, the others and   *)
(* the rows stay.                                                          *)
(***************************************************************************)
ExecMoves(w) ==
  /\ exec' \in [Executors -> ExecState]
  /\ \A u \in Executors \ {w} : exec'[u] = exec[u]

\* What a step of executor w must establish of its own next state.
LocalMove(w) ==
  /\ UNCHANGED rows
  /\ UNCHANGED request
  /\ CountersTyped'
  /\ \A j \in Jobs : queue'[j] > 0 => status[j] # "none"
  /\ ExecMoves(w)
  /\ ExecOK(exec'[w])
  /\ \A c \in exec'[w].pending :
       \/ c \in exec[w].pending
       \/ \A u \in Executors \ {w} : c \notin exec[u].pending

LEMMA LocalMoveIInv ==
  ASSUME IInv, NEW w \in Executors, LocalMove(w)
  PROVE  IInv'
<1>1. UNCHANGED <<status, form, retryOf, docs, ledger, request>>
  BY DEF LocalMove, rows
<1>2. TypeOK'
  BY <1>1 DEF IInv, TypeOK, RowsTyped, RequestsTyped, ExecsTyped, LocalMove,
     ExecMoves, LedgerEntry, Events, ExecState, RequestState
<1>3. \A j \in Jobs : RowOK(j)'
  BY <1>1 DEF IInv, RowOK, LocalMove, Recorded
<1>4. ASSUME NEW u \in Executors PROVE ExecOK(exec[u])'
  <2>1. ExecOK(exec'[u])
    BY DEF IInv, LocalMove, ExecMoves
  <2> QED BY <2>1, <1>1 DEF ExecOK, Ingested
<1>5. ASSUME NEW r \in Requests PROVE RequestOK(request[r])'
  BY <1>1 DEF IInv, RequestOK, Recorded
<1>6. PendingDisjoint'
  BY DEF IInv, PendingDisjoint, LocalMove, ExecMoves
<1>7. /\ UniqueContent' /\ IngestAllOrNothing' /\ TextIngestedOnce'
      /\ RetryOfUnsuccessful'
  BY <1>1 DEF IInv, UniqueContent, IngestAllOrNothing, TextIngestedOnce,
     RetryOfUnsuccessful, Recorded, Ingested
<1> QED BY <1>2, <1>3, <1>4, <1>5, <1>6, <1>7 DEF IInv
-----------------------------------------------------------------------------
(***************************************************************************)
(* The executor steps that are local moves.                                *)
(***************************************************************************)

\* Types of one executor and of its job's row, for the steps below.
LEMMA ExecFacts ==
  ASSUME IInv, NEW w \in Executors
  PROVE  /\ exec \in [Executors -> ExecState]
         /\ exec[w] \in ExecState
         /\ ExecOK(exec[w])
         /\ CountersTyped
         /\ \A j \in Jobs : queue[j] > 0 => status[j] # "none"
         /\ \A j \in Jobs : /\ form[j] \in [kind : Kinds, files : Seq(Contents)]
                            /\ status[j] \in Statuses \cup {"none"}
BY DEF IInv, TypeOK, RowsTyped, ExecsTyped, CountersTyped, RowOK

\* A step that only replaces executor w's state with e is a local move.
LEMMA ReplaceExec ==
  ASSUME IInv, NEW w \in Executors, NEW e \in ExecState, ExecOK(e),
         exec' = [exec EXCEPT ![w] = e],
         UNCHANGED <<rows, queue, request, crashes, redeliveries>>,
         \A c \in e.pending :
           \/ c \in exec[w].pending
           \/ \A u \in Executors \ {w} : c \notin exec[u].pending
  PROVE  LocalMove(w)
<1>1. /\ exec \in [Executors -> ExecState]
      /\ CountersTyped
      /\ \A j \in Jobs : queue[j] > 0 => status[j] # "none"
  BY ExecFacts
<1>2. ExecMoves(w) /\ exec'[w] = e
  BY <1>1 DEF ExecMoves
<1> QED BY <1>1, <1>2 DEF LocalMove, CountersTyped

LEMMA IdleExecOK == IdleExec \in ExecState /\ ExecOK(IdleExec)
BY DEF IdleExec, ExecState, ExecOK

LEMMA BegunOK ==
  ASSUME NEW j \in Jobs, status[j] # "none", NEW tagged \in BOOLEAN,
         NEW inline \in BOOLEAN
  PROVE  Begun(j, tagged, inline) \in ExecState /\ ExecOK(Begun(j, tagged, inline))
BY DEF Begun, ExecState, ExecOK

LEMMA FailingOK ==
  ASSUME NEW e \in ExecState, ExecOK(e), e.pc # "idle"
  PROVE  Failing(e) \in ExecState /\ ExecOK(Failing(e))
<1> DEFINE f == Failing(e)
<1>1. f \in ExecState
  BY DEF Failing, ExecState
<1>2. f.pc = "fail" /\ f.pending = {} /\ f.next = 1 /\ f.job = e.job
  BY DEF Failing, ExecState
<1> HIDE DEF f
<1>3. ExecOK(f)
  BY <1>2 DEF ExecOK
<1> QED BY <1>1, <1>3 DEF f

LEMMA AbortMoves ==
  ASSUME IInv, NEW w \in Executors, exec[w].pc # "idle", Abort(w),
         UNCHANGED <<rows, queue, request, crashes, redeliveries>>
  PROVE  LocalMove(w)
<1>1. exec[w] \in ExecState /\ ExecOK(exec[w])
  BY ExecFacts
<1>2. Failing(exec[w]) \in ExecState /\ ExecOK(Failing(exec[w]))
  BY <1>1, FailingOK
<1>3. PICK e \in {IdleExec, Failing(exec[w])} : exec' = [exec EXCEPT ![w] = e]
  BY DEF Abort
<1>4. e \in ExecState /\ ExecOK(e)
  BY <1>2, <1>3, IdleExecOK
<1>5. IdleExec.pending = {} /\ Failing(exec[w]).pending = {}
  BY <1>1 DEF IdleExec, Failing, ExecState
<1>6. e.pending = {}
  BY <1>3, <1>5
<1> QED BY <1>3, <1>4, <1>6, ReplaceExec

LEMMA AdvanceMoves ==
  ASSUME IInv, NEW w \in Executors, NEW p \in ExecPhases, Advance(w, p),
         ExecOK([exec[w] EXCEPT !.pc = p]),
         UNCHANGED <<rows, queue, request, crashes, redeliveries>>
  PROVE  LocalMove(w)
<1> DEFINE e == [exec[w] EXCEPT !.pc = p]
<1>1. exec[w] \in ExecState /\ exec \in [Executors -> ExecState]
  BY ExecFacts
<1>2. e \in ExecState /\ e.pending = exec[w].pending
  BY <1>1 DEF ExecState
<1>3. exec' = [exec EXCEPT ![w] = e]
  BY <1>1 DEF Advance
<1> HIDE DEF e
<1>4. ExecOK(e)
  BY DEF e
<1> QED BY <1>2, <1>3, <1>4, ReplaceExec
LEMMA DeliverMoves ==
  ASSUME IInv, NEW w \in Executors, Deliver(w)
  PROVE  LocalMove(w)
<1>1. PICK j \in Jobs :
        /\ queue[j] > 0
        /\ queue' = [queue EXCEPT ![j] = @ - 1]
        /\ exec' = [exec EXCEPT ![w] = Begun(j, TRUE, FALSE)]
  BY DEF Deliver
<1>2. UNCHANGED <<rows, request, crashes, redeliveries>>
  BY DEF Deliver
<1>3. /\ exec \in [Executors -> ExecState]
      /\ CountersTyped
      /\ \A i \in Jobs : queue[i] > 0 => status[i] # "none"
  BY ExecFacts
<1>4. status[j] # "none"
  BY <1>1, <1>3
<1> DEFINE e == Begun(j, TRUE, FALSE)
<1>5. e \in ExecState /\ ExecOK(e)
  BY <1>4, BegunOK
<1>6. e.pending = {}
  BY DEF Begun
<1>7. exec' = [exec EXCEPT ![w] = e]
  BY <1>1
<1> HIDE DEF e
<1>8. ExecMoves(w) /\ exec'[w] = e
  BY <1>3, <1>5, <1>7 DEF ExecMoves
<1>9. CountersTyped' /\ \A i \in Jobs : queue'[i] > 0 => status[i] # "none"
  BY <1>1, <1>2, <1>3 DEF CountersTyped
<1> QED BY <1>2, <1>5, <1>6, <1>8, <1>9 DEF LocalMove

LEMMA BeginRunMoves ==
  ASSUME IInv, NEW w \in Executors, BeginRun(w)
  PROVE  LocalMove(w)
<1>1. exec[w] \in ExecState /\ ExecOK(exec[w])
  BY ExecFacts
<1>2. exec[w].pc = "begin"
  BY DEF BeginRun
<1>3. UNCHANGED <<rows, queue, request, crashes, redeliveries>>
  BY DEF BeginRun
<1>4. CASE Abort(w)
  BY <1>2, <1>3, <1>4, AbortMoves
<1>5. CASE Advance(w, "start")
  <2> DEFINE e == [exec[w] EXCEPT !.pc = "start"]
  <2>1. /\ e.pc = "start" /\ e.job = exec[w].job /\ e.tagged = exec[w].tagged
        /\ e.next = exec[w].next /\ e.pending = exec[w].pending
    BY <1>1 DEF ExecState
  <2> HIDE DEF e
  <2>2. ExecOK(e)
    BY <1>1, <1>2, <2>1 DEF ExecOK
  <2> QED BY <1>3, <1>5, <2>2, AdvanceMoves DEF e
<1> QED BY <1>4, <1>5 DEF BeginRun

LEMMA AbortingMoves ==
  ASSUME IInv, NEW w \in Executors,
         RefuseRun(w) \/ DeadlockVictim(w) \/ WorkError(w)
  PROVE  LocalMove(w)
<1>1. exec[w].pc # "idle"
  BY DEF RefuseRun, DeadlockVictim, WorkError, Blocks
<1>2. Abort(w) /\ UNCHANGED <<rows, queue, request, crashes, redeliveries>>
  BY DEF RefuseRun, DeadlockVictim, WorkError
<1> QED BY <1>1, <1>2, AbortMoves

LEMMA StartRunMoves ==
  ASSUME IInv, NEW w \in Executors, StartRun(w)
  PROVE  LocalMove(w)
<1> DEFINE j == exec[w].job
           p == CASE KindOf(w) = "text" -> "insert"
                  [] KindOf(w) = "scan" -> "check"
                  [] OTHER              -> "commit"
           e == [exec[w] EXCEPT !.pc = p]
<1>1. exec[w] \in ExecState /\ ExecOK(exec[w])
  BY ExecFacts
<1>2. exec[w].pc = "start" /\ Advance(w, p)
  BY DEF StartRun
<1>3. UNCHANGED <<rows, queue, request, crashes, redeliveries>>
  BY DEF StartRun
<1>4. /\ j \in Jobs /\ status[j] # "none"
      /\ exec[w].next = 1 /\ exec[w].pending = {}
  BY <1>1, <1>2 DEF ExecOK
<1>5. form[j] \in [kind : Kinds, files : Seq(Contents)] /\ RowOK(j)
  BY <1>4, ExecFacts DEF IInv
<1>6. \/ form[j].kind = "text" /\ p = "insert" /\ Len(form[j].files) = 1
      \/ form[j].kind = "scan" /\ p = "check" /\ Len(form[j].files) \in Nat
      \/ form[j].kind \in {"index", "agent"} /\ p = "commit"
           /\ Len(form[j].files) = 0
  BY <1>5 DEF RowOK, KindOf
<1>7. /\ e.pc = p /\ e.job = exec[w].job /\ e.tagged = exec[w].tagged
      /\ e.next = exec[w].next /\ e.pending = exec[w].pending
  BY <1>1 DEF ExecState
<1> HIDE DEF e, p
<1> HIDE DEF j
<1>8. e.job = j /\ e.next = 1 /\ e.pending = {} /\ e.pc = p
  BY <1>4, <1>7 DEF j
<1>9. \A i \in 1 .. Len(form[j].files) : ~ (i < e.next)
  BY <1>6, <1>8
<1>10. ExecOK(e)
  <2>1. CASE form[j].kind = "text" /\ p = "insert" /\ Len(form[j].files) = 1
    BY <1>4, <1>8, <1>9, <2>1 DEF ExecOK
  <2>2. CASE form[j].kind = "scan" /\ p = "check"
    BY <1>4, <1>8, <1>9, <2>2 DEF ExecOK
  <2>3. CASE /\ form[j].kind \in {"index", "agent"} /\ p = "commit"
             /\ Len(form[j].files) = 0
    BY <1>4, <1>8, <1>9, <2>3 DEF ExecOK
  <2> QED BY <1>6, <2>1, <2>2, <2>3
<1> QED BY <1>2, <1>3, <1>6, <1>10, AdvanceMoves DEF e

LEMMA CheckFileMoves ==
  ASSUME IInv, NEW w \in Executors, CheckFile(w)
  PROVE  LocalMove(w)
<1> DEFINE j == exec[w].job
           n == exec[w].next
<1>1. exec[w] \in ExecState /\ ExecOK(exec[w]) /\ exec \in [Executors -> ExecState]
  BY ExecFacts
<1>2. exec[w].pc = "check"
  BY DEF CheckFile
<1>3. UNCHANGED <<rows, queue, request, crashes, redeliveries>>
  BY DEF CheckFile
<1>4. /\ j \in Jobs /\ status[j] # "none" /\ form[j].kind = "scan"
      /\ n \in Nat /\ n >= 1
  BY <1>1, <1>2 DEF ExecOK, ExecState
<1>5. Len(form[j].files) \in Nat
  BY <1>4, ExecFacts
<1>6. /\ \A i \in 1 .. Len(form[j].files) :
           i < n => form[j].files[i] \in Ingested \cup exec[w].pending
      /\ \A c \in exec[w].pending : c \notin Ingested
  BY <1>1, <1>2 DEF ExecOK
<1>7. CASE n > Len(form[j].files) /\ Advance(w, "commit")
  <2> DEFINE e == [exec[w] EXCEPT !.pc = "commit"]
  <2>1. e.pc = "commit" /\ e.job = j /\ e.next = n /\ e.pending = exec[w].pending
    BY <1>1 DEF ExecState
  <2> HIDE DEF e, j, n
  <2>2. ExecOK(e)
    BY <1>4, <1>5, <1>6, <1>7, <2>1 DEF ExecOK
  <2> QED BY <1>3, <1>7, <2>2, AdvanceMoves DEF e
<1>8. CASE /\ ~ (n > Len(form[j].files))
           /\ FileOf(w) \in Ingested \cup exec[w].pending
           /\ exec' = [exec EXCEPT ![w].next = @ + 1]
  <2> DEFINE e == [exec[w] EXCEPT !.next = n + 1]
  <2>1. exec' = [exec EXCEPT ![w] = e]
    BY <1>1, <1>8 DEF ExecState
  <2>2. e.pc = "check" /\ e.job = j /\ e.next = n + 1 /\ e.pending = exec[w].pending
    BY <1>1, <1>2 DEF ExecState
  <2>3. e \in ExecState
    BY <1>1, <1>4 DEF ExecState
  <2>4. /\ e.pc = "check" /\ e.job = j /\ e.next = n + 1
        /\ e.pending = exec[w].pending /\ e \in ExecState
        /\ exec' = [exec EXCEPT ![w] = e]
    BY <2>1, <2>2, <2>3
  <2>5. form[j].files[n] \in Ingested \cup exec[w].pending
    BY <1>8 DEF FileOf
  <2> HIDE DEF e, j, n
  <2>6. \A i \in 1 .. Len(form[j].files) :
          i < n + 1 => form[j].files[i] \in Ingested \cup exec[w].pending
    BY <1>4, <1>5, <1>6, <2>5
  <2>7. ExecOK(e)
    BY <1>4, <1>5, <1>6, <2>4, <2>6 DEF ExecOK
  <2> QED BY <1>3, <2>4, <2>7, ReplaceExec
<1>9. CASE ~ (n > Len(form[j].files)) /\ Advance(w, "insert")
  <2> DEFINE e == [exec[w] EXCEPT !.pc = "insert"]
  <2>1. e.pc = "insert" /\ e.job = j /\ e.next = n /\ e.pending = exec[w].pending
    BY <1>1 DEF ExecState
  <2> HIDE DEF e, j, n
  <2>2. ExecOK(e)
    BY <1>4, <1>5, <1>6, <1>9, <2>1 DEF ExecOK
  <2> QED BY <1>3, <1>9, <2>2, AdvanceMoves DEF e
<1> QED BY <1>7, <1>8, <1>9 DEF CheckFile

LEMMA InsertDocumentMoves ==
  ASSUME IInv, NEW w \in Executors, InsertDocument(w)
  PROVE  LocalMove(w)
<1> DEFINE j == exec[w].job
           n == exec[w].next
           c == FileOf(w)
           p == IF KindOf(w) = "scan" THEN "check" ELSE "commit"
           more == exec[w].pending \cup {c}
           e == [exec[w] EXCEPT !.pending = more, !.next = n + 1, !.pc = p]
<1>1. exec[w] \in ExecState /\ ExecOK(exec[w]) /\ exec \in [Executors -> ExecState]
  BY ExecFacts
<1>2. exec[w].pc = "insert" /\ ~ HeldByOther(w, c)
  BY DEF InsertDocument
<1>3. UNCHANGED <<rows, queue, request, crashes, redeliveries>>
  BY DEF InsertDocument
<1>4. /\ j \in Jobs /\ status[j] # "none"
      /\ form[j].kind \in {"text", "scan"}
      /\ form[j].kind = "text" => n = 1
      /\ n \in Nat /\ n >= 1 /\ n <= Len(form[j].files)
  BY <1>1, <1>2 DEF ExecOK, ExecState
<1>5. /\ Len(form[j].files) \in Nat
      /\ form[j].kind = "text" => Len(form[j].files) = 1
      /\ form[j].files \in Seq(Contents)
  <2>1. form[j] \in [kind : Kinds, files : Seq(Contents)]
    BY <1>4, ExecFacts
  <2>2. RowOK(j)
    BY <1>4 DEF IInv
  <2> QED BY <2>1, <2>2 DEF RowOK
<1>6. /\ \A i \in 1 .. Len(form[j].files) :
           i < n => form[j].files[i] \in Ingested \cup exec[w].pending
      /\ \A d \in exec[w].pending : d \notin Ingested
  BY <1>1, <1>2 DEF ExecOK
<1>7. c = form[j].files[n] /\ c \in Contents
  BY <1>4, <1>5 DEF FileOf
<1>8. CASE c \in Ingested /\ Abort(w)
  BY <1>2, <1>3, <1>8, AbortMoves
<1>9. CASE /\ c \notin Ingested
           /\ exec' = [exec EXCEPT ![w].pending = @ \cup {c}, ![w].next = @ + 1,
                                   ![w].pc = p]
  <2>1. p \in {"check", "commit"}
    OBVIOUS
  <2>2. /\ e.pc = p /\ e.job = j /\ e.next = n + 1 /\ e.pending = more
        /\ e \in ExecState
    <3>1. more \in SUBSET Contents /\ n + 1 \in Nat /\ p \in ExecPhases
      BY <1>1, <1>4, <1>7, <2>1 DEF ExecState
    <3> HIDE DEF more, n, p
    <3> QED BY <1>1, <3>1 DEF ExecState
  <2>3. exec' = [exec EXCEPT ![w] = e]
    BY <1>1, <1>9
  <2>4. p = "check" => form[j].kind = "scan"
    BY DEF KindOf
  <2>5. p = "commit" => form[j].kind = "text"
    BY <1>4 DEF KindOf
  <2> HIDE DEF e, j, n, c, p
  <2>6. \A i \in 1 .. Len(form[j].files) :
          i < n + 1 => form[j].files[i] \in Ingested \cup more
    BY <1>4, <1>5, <1>6, <1>7
  <2>7. \A d \in more : d \notin Ingested
    BY <1>6, <1>9
  <2>8. ASSUME p = "commit"
        PROVE  n + 1 > Len(form[j].files) /\ form[j].files[1] \in more
    <3>1. n = 1 /\ Len(form[j].files) = 1
      BY <1>4, <1>5, <2>5, <2>8
    <3> QED BY <1>7, <3>1
  <2> HIDE DEF more
  <2>9. ExecOK(e)
    <3>1. CASE p = "check"
      BY <1>4, <2>2, <2>4, <2>6, <2>7, <3>1 DEF ExecOK
    <3>2. CASE p = "commit"
      BY <1>4, <2>2, <2>5, <2>6, <2>7, <2>8, <3>2 DEF ExecOK
    <3> QED BY <2>1, <3>1, <3>2
  <2>10. \A d \in more :
           \/ d \in exec[w].pending
           \/ \A u \in Executors \ {w} : d \notin exec[u].pending
    BY <1>2 DEF more, HeldByOther
  <2> QED BY <1>3, <2>2, <2>3, <2>9, <2>10, ReplaceExec
<1> QED BY <1>8, <1>9 DEF InsertDocument

LEMMA FailSelectMoves ==
  ASSUME IInv, NEW w \in Executors, FailSelect(w)
  PROVE  LocalMove(w)
<1> DEFINE s == status[exec[w].job]
           e == [exec[w] EXCEPT !.pc = "failUpdate", !.seen = s]
<1>1. exec[w] \in ExecState /\ ExecOK(exec[w]) /\ exec \in [Executors -> ExecState]
  BY ExecFacts
<1>2. /\ exec[w].pc = "fail"
      /\ exec' = [exec EXCEPT ![w].pc = "failUpdate", ![w].seen = s]
  BY DEF FailSelect
<1>3. UNCHANGED <<rows, queue, request, crashes, redeliveries>>
  BY DEF FailSelect
<1>4. exec[w].job \in Jobs /\ s # "none" /\ exec[w].pending = {}
  BY <1>1, <1>2 DEF ExecOK
<1>5. s \in Statuses
  BY <1>4, ExecFacts
<1> HIDE DEF s
<1>6. /\ e \in ExecState /\ e.pc = "failUpdate" /\ e.job = exec[w].job
      /\ e.next = exec[w].next /\ e.pending = {}
      /\ exec' = [exec EXCEPT ![w] = e]
  BY <1>1, <1>2, <1>4, <1>5 DEF ExecState
<1> HIDE DEF e
<1>7. ExecOK(e)
  BY <1>1, <1>4, <1>6 DEF ExecOK, s
<1> QED BY <1>3, <1>6, <1>7, ReplaceExec

LEMMA FailUpdateMoves ==
  ASSUME IInv, NEW w \in Executors, FailUpdate(w)
  PROVE  LocalMove(w)
<1> DEFINE e == [exec[w] EXCEPT !.pc = "failCommit"]
<1>1. exec[w] \in ExecState /\ ExecOK(exec[w])
  BY ExecFacts
<1>2. exec[w].pc = "failUpdate" /\ Advance(w, "failCommit")
  BY DEF FailUpdate
<1>3. UNCHANGED <<rows, queue, request, crashes, redeliveries>>
  BY DEF FailUpdate
<1>4. /\ e.pc = "failCommit" /\ e.job = exec[w].job
      /\ e.next = exec[w].next /\ e.pending = exec[w].pending
  BY <1>1 DEF ExecState
<1> HIDE DEF e
<1>5. ExecOK(e)
  BY <1>1, <1>2, <1>4 DEF ExecOK
<1> QED BY <1>2, <1>3, <1>5, AdvanceMoves DEF e

LEMMA AcknowledgeMoves ==
  ASSUME IInv, NEW w \in Executors, Acknowledge(w)
  PROVE  LocalMove(w)
<1>1. exec' = [exec EXCEPT ![w] = IdleExec]
  BY DEF Acknowledge
<1>2. UNCHANGED <<rows, queue, request, crashes, redeliveries>>
  BY DEF Acknowledge
<1>3. IdleExec.pending = {}
  BY DEF IdleExec
<1> QED BY <1>1, <1>2, <1>3, IdleExecOK, ReplaceExec

\* A message goes back to the queue only for a job that has a row.
LEMMA RequeueTyped ==
  ASSUME IInv, NEW w \in Executors, Requeue(w)
  PROVE  /\ queue' \in [Jobs -> Nat]
         /\ \A j \in Jobs : queue'[j] > 0 => status[j] # "none"
<1>1. /\ queue \in [Jobs -> Nat]
      /\ \A j \in Jobs : queue[j] > 0 => status[j] # "none"
  BY ExecFacts DEF CountersTyped
<1>2. CASE ~ exec[w].tagged
  BY <1>1, <1>2 DEF Requeue
<1>3. CASE exec[w].tagged
  <2>1. exec[w].job \in Jobs /\ status[exec[w].job] # "none"
    BY <1>3, ExecFacts DEF ExecOK
  <2>2. queue' = [queue EXCEPT ![exec[w].job] = @ + 1]
    BY <1>3 DEF Requeue
  <2> QED BY <1>1, <2>1, <2>2
<1> QED BY <1>2, <1>3

LEMMA ExecutorLostMoves ==
  ASSUME IInv, NEW w \in Executors, ExecutorLost(w)
  PROVE  LocalMove(w)
<1>1. /\ crashes' = crashes + 1 /\ Requeue(w)
      /\ exec' = [exec EXCEPT ![w] = IdleExec]
      /\ UNCHANGED <<rows, request, redeliveries>>
  BY DEF ExecutorLost
<1>2. /\ queue' \in [Jobs -> Nat]
      /\ \A j \in Jobs : queue'[j] > 0 => status[j] # "none"
  BY <1>1, RequeueTyped
<1>3. CountersTyped'
  BY <1>1, <1>2, ExecFacts DEF CountersTyped
<1>4. ExecMoves(w) /\ exec'[w] = IdleExec
  BY <1>1, ExecFacts, IdleExecOK DEF ExecMoves
<1>5. IdleExec.pending = {}
  BY DEF IdleExec
<1> QED BY <1>1, <1>2, <1>3, <1>4, <1>5, IdleExecOK DEF LocalMove

LEMMA ChannelLostMoves ==
  ASSUME IInv, NEW w \in Executors, ChannelLost(w)
  PROVE  LocalMove(w)
<1> DEFINE e == [exec[w] EXCEPT !.tagged = FALSE]
<1>1. /\ redeliveries' = redeliveries + 1 /\ Requeue(w)
      /\ exec' = [exec EXCEPT ![w].tagged = FALSE]
      /\ UNCHANGED <<rows, request, crashes>>
  BY DEF ChannelLost
<1>2. /\ queue' \in [Jobs -> Nat]
      /\ \A j \in Jobs : queue'[j] > 0 => status[j] # "none"
  BY <1>1, RequeueTyped
<1>3. CountersTyped'
  BY <1>1, <1>2, ExecFacts DEF CountersTyped
<1>4. exec[w] \in ExecState /\ ExecOK(exec[w]) /\ exec \in [Executors -> ExecState]
  BY ExecFacts
<1>5. /\ e \in ExecState /\ e.pc = exec[w].pc /\ e.job = exec[w].job
      /\ e.next = exec[w].next /\ e.pending = exec[w].pending
      /\ e.tagged = FALSE
  BY <1>4 DEF ExecState
<1>6. exec' = [exec EXCEPT ![w] = e]
  BY <1>1, <1>4
<1> HIDE DEF e
<1>7. ExecMoves(w) /\ exec'[w] = e
  BY <1>4, <1>5, <1>6 DEF ExecMoves
<1>8. ExecOK(e)
  BY <1>4, <1>5 DEF ExecOK
<1> QED BY <1>1, <1>2, <1>3, <1>5, <1>7, <1>8 DEF LocalMove

-----------------------------------------------------------------------------
(***************************************************************************)
(* Steps of one request that leave the tables and the executors alone.     *)
(***************************************************************************)
RequestMoves(r) ==
  /\ request' \in [Requests -> RequestState]
  /\ \A q \in Requests \ {r} : request'[q] = request[q]

LocalRequest(r) ==
  /\ UNCHANGED rows
  /\ UNCHANGED exec
  /\ CountersTyped'
  /\ \A j \in Jobs : queue'[j] > 0 => status[j] # "none"
  /\ RequestMoves(r)
  /\ RequestOK(request'[r])

LEMMA LocalRequestIInv ==
  ASSUME IInv, NEW r \in Requests, LocalRequest(r)
  PROVE  IInv'
<1>1. UNCHANGED <<status, form, retryOf, docs, ledger, exec>>
  BY DEF LocalRequest, rows
<1>2. TypeOK'
  BY <1>1 DEF IInv, TypeOK, RowsTyped, RequestsTyped, ExecsTyped, LocalRequest,
     RequestMoves, LedgerEntry, Events, ExecState, RequestState
<1>3. \A j \in Jobs : RowOK(j)'
  BY <1>1 DEF IInv, RowOK, LocalRequest, Recorded
<1>4. ASSUME NEW u \in Executors PROVE ExecOK(exec[u])'
  BY <1>1 DEF IInv, ExecOK, Ingested
<1>5. ASSUME NEW q \in Requests PROVE RequestOK(request[q])'
  <2>1. RequestOK(request'[q])
    BY DEF IInv, LocalRequest, RequestMoves
  <2> QED BY <2>1, <1>1 DEF RequestOK, Recorded
<1>6. PendingDisjoint'
  BY <1>1 DEF IInv, PendingDisjoint
<1>7. /\ UniqueContent' /\ IngestAllOrNothing' /\ TextIngestedOnce'
      /\ RetryOfUnsuccessful'
  BY <1>1 DEF IInv, UniqueContent, IngestAllOrNothing, TextIngestedOnce,
     RetryOfUnsuccessful, Recorded, Ingested
<1> QED BY <1>2, <1>3, <1>4, <1>5, <1>6, <1>7 DEF IInv

LEMMA RequestFacts ==
  ASSUME IInv, NEW r \in Requests
  PROVE  /\ request \in [Requests -> RequestState]
         /\ request[r] \in RequestState
         /\ RequestOK(request[r])
BY DEF IInv, TypeOK, RequestsTyped

\* A step that only replaces request r's state with q is a local request step.
LEMMA ReplaceRequest ==
  ASSUME IInv, NEW r \in Requests, NEW q \in RequestState, RequestOK(q),
         request' = [request EXCEPT ![r] = q],
         UNCHANGED <<rows, queue, exec, crashes, redeliveries>>
  PROVE  LocalRequest(r)
<1>1. /\ request \in [Requests -> RequestState]
      /\ CountersTyped
      /\ \A j \in Jobs : queue[j] > 0 => status[j] # "none"
  BY RequestFacts DEF IInv, TypeOK, RowOK
<1>2. RequestMoves(r) /\ request'[r] = q
  BY <1>1 DEF RequestMoves
<1> QED BY <1>1, <1>2 DEF LocalRequest, CountersTyped

\* Only the phase moves.
LEMMA RequestPhase ==
  ASSUME IInv, NEW r \in Requests, NEW p \in RequestPhases,
         request' = [request EXCEPT ![r].pc = p],
         p \in {"selected", "written"} => request[r].pc \notin {"idle", "done"},
         p \notin {"idle", "retry", "dispatch", "validated"}
  PROVE  RequestMoves(r) /\ RequestOK(request'[r])
<1> DEFINE q == [request[r] EXCEPT !.pc = p]
<1>1. /\ request \in [Requests -> RequestState] /\ request[r] \in RequestState
      /\ RequestOK(request[r])
  BY RequestFacts
<1>2. q \in RequestState /\ q.pc = p /\ q.job = request[r].job
  BY <1>1 DEF RequestState
<1>3. request' = [request EXCEPT ![r] = q]
  BY <1>1
<1> HIDE DEF q
<1>4. RequestMoves(r) /\ request'[r] = q
  BY <1>1, <1>2, <1>3 DEF RequestMoves
<1>5. RequestOK(q)
  BY <1>1, <1>2 DEF RequestOK
<1> QED BY <1>4, <1>5

LEMMA DispatchJobMoves ==
  ASSUME IInv, NEW r \in Requests, DispatchJob(r)
  PROVE  LocalRequest(r)
<1> DEFINE j == request[r].job
<1>1. /\ request[r].pc = "dispatch"
      /\ queue' = [queue EXCEPT ![j] = @ + 1]
      /\ request' = [request EXCEPT ![r].pc = "done"]
      /\ UNCHANGED <<rows, exec, crashes, redeliveries>>
  BY DEF DispatchJob
<1>2. RequestMoves(r) /\ RequestOK(request'[r])
  BY <1>1, RequestPhase
<1>3. j \in Jobs /\ status[j] # "none"
  BY <1>1, RequestFacts DEF RequestOK
<1>4. CountersTyped /\ \A i \in Jobs : queue[i] > 0 => status[i] # "none"
  BY DEF IInv, TypeOK, RowOK
<1> HIDE DEF j
<1>5. CountersTyped' /\ \A i \in Jobs : queue'[i] > 0 => status[i] # "none"
  BY <1>1, <1>3, <1>4 DEF CountersTyped
<1> QED BY <1>1, <1>2, <1>5 DEF LocalRequest

LEMMA RetryReadMoves ==
  ASSUME IInv, NEW r \in Requests, RetryRead(r)
  PROVE  LocalRequest(r)
<1>1. PICK j \in Jobs :
        /\ status[j] \in Retryable
        /\ request' = [request EXCEPT ![r].pc = "retry", ![r].job = j]
  BY DEF RetryRead
<1>2. UNCHANGED <<rows, queue, exec, crashes, redeliveries>>
  BY DEF RetryRead
<1> DEFINE q == [request[r] EXCEPT !.pc = "retry", !.job = j]
<1>3. request \in [Requests -> RequestState] /\ request[r] \in RequestState
  BY RequestFacts
<1>4. q \in RequestState /\ q.pc = "retry" /\ q.job = j
  BY <1>3 DEF RequestState
<1>5. request' = [request EXCEPT ![r] = q]
  BY <1>1, <1>3
<1> HIDE DEF q
<1>6. Recorded(j, {status[j]})
  BY <1>1 DEF IInv, RowOK
<1>7. Recorded(j, Retryable)
  BY <1>1, <1>6 DEF Recorded
<1>8. RequestOK(q)
  BY <1>1, <1>4, <1>7 DEF RequestOK
<1> QED BY <1>2, <1>4, <1>5, <1>8, ReplaceRequest

LEMMA TransitionReadMoves ==
  ASSUME IInv, NEW r \in Requests, TransitionRead(r)
  PROVE  LocalRequest(r)
<1>1. PICK j \in Jobs, t \in AdminTargets :
        /\ status[j] # "none"
        /\ request' = [request EXCEPT ![r].pc = "validated", ![r].job = j,
                                     ![r].target = t, ![r].from = status[j]]
  BY DEF TransitionRead
<1>2. UNCHANGED <<rows, queue, exec, crashes, redeliveries>>
  BY DEF TransitionRead
<1> DEFINE s == status[j]
           q == [request[r] EXCEPT !.pc = "validated", !.job = j,
                                   !.target = t, !.from = s]
<1>3. request \in [Requests -> RequestState] /\ request[r] \in RequestState
  BY RequestFacts
<1>4. t \in Outcomes /\ s \in Statuses
  BY <1>1, JobConstants DEF IInv, TypeOK, RowsTyped
<1>5. request' = [request EXCEPT ![r] = q]
  BY <1>1, <1>3
<1> HIDE DEF s
<1>6. q \in RequestState /\ q.pc = "validated" /\ q.job = j
  <2>1. q \in RequestState
    BY <1>3, <1>4 DEF RequestState, RequestPhases
  <2>2. q.pc = "validated" /\ q.job = j
    BY <1>3 DEF RequestState
  <2> QED BY <2>1, <2>2
<1> HIDE DEF q
<1>7. RequestOK(q)
  BY <1>1, <1>6 DEF RequestOK
<1> QED BY <1>2, <1>5, <1>6, <1>7, ReplaceRequest

LEMMA TransitionSelectMoves ==
  ASSUME IInv, NEW r \in Requests, TransitionSelect(r)
  PROVE  LocalRequest(r)
<1> DEFINE s == status[request[r].job]
           q == [request[r] EXCEPT !.pc = "selected", !.seen = s]
<1>1. /\ request[r].pc = "validated"
      /\ request' = [request EXCEPT ![r].pc = "selected", ![r].seen = s]
      /\ UNCHANGED <<rows, queue, exec, crashes, redeliveries>>
  BY DEF TransitionSelect
<1>2. request \in [Requests -> RequestState] /\ request[r] \in RequestState
  BY RequestFacts
<1>3. request[r].job \in Jobs /\ s # "none"
  BY <1>1, RequestFacts DEF RequestOK
<1>4. s \in Statuses
  BY <1>3 DEF IInv, TypeOK, RowsTyped
<1>5. request' = [request EXCEPT ![r] = q]
  BY <1>1, <1>2
<1>6. status[request[r].job] # "none"
  BY <1>3
<1> HIDE DEF s
<1>7. q \in RequestState /\ q.pc = "selected" /\ q.job = request[r].job
  BY <1>2, <1>4 DEF RequestState
<1> HIDE DEF q
<1>8. RequestOK(q)
  BY <1>3, <1>6, <1>7 DEF RequestOK
<1> QED BY <1>1, <1>5, <1>7, <1>8, ReplaceRequest

LEMMA PhaseOnlyMoves ==
  ASSUME IInv, NEW r \in Requests, TransitionUpdate(r) \/ RequestLost(r)
  PROVE  LocalRequest(r)
<1>1. UNCHANGED <<rows, queue, exec, crashes, redeliveries>>
  BY DEF TransitionUpdate, RequestLost
<1>2. PICK p \in {"written", "done"} :
        /\ request' = [request EXCEPT ![r].pc = p]
        /\ request[r].pc \notin {"idle", "done"}
  BY DEF TransitionUpdate, RequestLost
<1>3. RequestMoves(r) /\ RequestOK(request'[r])
  BY <1>2, RequestPhase
<1>4. CountersTyped /\ \A i \in Jobs : queue[i] > 0 => status[i] # "none"
  BY DEF IInv, TypeOK, RowOK
<1> QED BY <1>1, <1>3, <1>4 DEF LocalRequest, CountersTyped

-----------------------------------------------------------------------------
(***************************************************************************)
(* Steps that insert a job row.                                            *)
(***************************************************************************)

\* A form that may be stored in a row.
FormOK(f) ==
  /\ f \in [kind : Kinds, files : Seq(Contents)]
  /\ f.kind = "text" => Len(f.files) = 1
  /\ f.kind \in {"index", "agent"} => Len(f.files) = 0

LEMMA InsertJobIInv ==
  ASSUME IInv, NEW j \in Jobs, NEW f, FormOK(f), NEW origin \in Jobs \cup {NoJob},
         origin # NoJob => Recorded(origin, Retryable),
         InsertJob(j, f, origin),
         UNCHANGED <<queue, crashes, redeliveries>>,
         NEW r \in Requests, RequestMoves(r), request'[r].pc # "retry",
         request'[r].pc \notin {"idle", "done"} => request'[r].job = j,
         exec' \in [Executors -> ExecState],
         \A u \in Executors :
           exec'[u] = exec[u] \/ exec'[u] = Begun(j, FALSE, TRUE)
  PROVE  IInv'
<1>1. /\ status[j] = "none"
      /\ status'  = [status EXCEPT ![j] = "queued"]
      /\ form'    = [form EXCEPT ![j] = f]
      /\ retryOf' = [retryOf EXCEPT ![j] = origin]
      /\ UNCHANGED <<docs, ledger>>
  BY DEF InsertJob
<1>2. RowsTyped
  BY DEF IInv, TypeOK
<1>3. RowsTyped'
  BY <1>1, <1>2 DEF RowsTyped, FormOK, LedgerEntry, Events
<1>4. TypeOK'
  BY <1>3 DEF IInv, TypeOK, RequestsTyped, ExecsTyped, CountersTyped,
     RequestMoves, ExecState, RequestState
<1>5. /\ status'[j] = "queued" /\ form'[j] = f /\ retryOf'[j] = origin
      /\ \A i \in Jobs \ {j} : /\ status'[i] = status[i] /\ form'[i] = form[i]
                               /\ retryOf'[i] = retryOf[i]
  BY <1>1, <1>2 DEF RowsTyped
<1>6. ledger[j] = << >>
  BY <1>1 DEF IInv, RowOK
<1>7. ASSUME NEW i \in Jobs PROVE RowOK(i)'
  <2>1. CASE i = j
    BY <1>1, <1>5, <1>6, <2>1 DEF RowOK, FormOK
  <2>2. CASE i # j
    BY <1>1, <1>5, <2>2 DEF IInv, RowOK, Recorded
  <2> QED BY <2>1, <2>2
<1>8. ASSUME NEW u \in Executors PROVE ExecOK(exec[u])'
  <2>1. CASE exec'[u] = exec[u]
    <3>1. ExecOK(exec[u])
      BY DEF IInv
    <3>2. exec[u].pc # "idle" => exec[u].job \in Jobs \ {j}
      BY <1>1, <3>1 DEF ExecOK
    <3>3. CASE exec[u].pc = "idle"
      BY <1>1, <2>1, <3>1, <3>3 DEF ExecOK, Ingested
    <3>4. CASE exec[u].pc # "idle"
      BY <1>1, <1>5, <2>1, <3>1, <3>2, <3>4 DEF ExecOK, Ingested
    <3> QED BY <3>3, <3>4
  <2>2. CASE exec'[u] = Begun(j, FALSE, TRUE)
    BY <1>5, <2>2 DEF ExecOK, Begun
  <2> QED BY <2>1, <2>2
<1>9. ASSUME NEW q \in Requests PROVE RequestOK(request[q])'
  <2>1. CASE q = r
    BY <1>5, <2>1 DEF RequestOK
  <2>2. CASE q # r
    <3>1. request'[q] = request[q] /\ RequestOK(request[q])
      BY <2>2 DEF IInv, RequestMoves
    <3>2. request[q].pc \notin {"idle", "done"} => request[q].job \in Jobs \ {j}
      BY <1>1, <3>1 DEF RequestOK
    <3>3. request'[q].pc \notin {"idle", "done"} =>
            request'[q].job \in Jobs /\ status'[request'[q].job] # "none"
      BY <1>5, <3>1, <3>2 DEF RequestOK
    <3>4. request'[q].pc = "retry" => Recorded(request[q].job, Retryable)
      BY <3>1 DEF RequestOK
    <3>5. ledger' = ledger
      BY <1>1
    <3>6. ASSUME request'[q].pc = "retry"
          PROVE  Recorded(request[q].job, Retryable)'
      BY <3>1, <3>4, <3>5, <3>6 DEF Recorded
    <3> QED BY <3>3, <3>6 DEF RequestOK
  <2> QED BY <2>1, <2>2
<1>10. PendingDisjoint'
  <2>1. \A u \in Executors : exec'[u].pending \subseteq exec[u].pending
    BY DEF Begun
  <2> QED BY <2>1 DEF IInv, PendingDisjoint
<1>11. \A events : ~ Recorded(j, events)
  BY <1>6 DEF Recorded
<1>12. IngestAllOrNothing'
  <2>1. \A d \in docs' : Recorded(d.job, {"completed"})'
    BY <1>1 DEF IInv, IngestAllOrNothing, Recorded
  <2>2. ASSUME NEW i \in Jobs, Recorded(i, {"completed"})'
        PROVE  \A k \in 1 .. Len(form'[i].files) : form'[i].files[k] \in Ingested'
    <3>1. Recorded(i, {"completed"}) /\ i # j
      BY <1>1, <1>11, <2>2 DEF Recorded
    <3>2. form'[i] = form[i]
      BY <1>5, <3>1
    <3> QED BY <1>1, <3>1, <3>2 DEF IInv, IngestAllOrNothing, Ingested
  <2> QED BY <2>1, <2>2 DEF IngestAllOrNothing
<1>13. TextIngestedOnce'
  BY <1>1, <1>5, <1>6 DEF IInv, TextIngestedOnce
<1>14. UniqueContent'
  BY <1>1 DEF IInv, UniqueContent
<1>15. RetryOfUnsuccessful'
  BY <1>1, <1>5 DEF IInv, RetryOfUnsuccessful, Recorded
<1> QED BY <1>4, <1>7, <1>8, <1>9, <1>10, <1>12, <1>13, <1>14, <1>15 DEF IInv

LEMMA ClientForms == \A f \in JobForms : FormOK(f)
BY JobConstants DEF FormOK

LEMMA StoredForms ==
  ASSUME IInv PROVE \A j \in Jobs : FormOK(form[j])
<1>1. \A j \in Jobs : form[j] \in [kind : Kinds, files : Seq(Contents)]
  BY DEF IInv, TypeOK, RowsTyped
<1> QED BY <1>1 DEF IInv, RowOK, FormOK

\* The request of a step that inserts row j: it names j or is over.
LEMMA SubmittingRequest ==
  ASSUME IInv, NEW r \in Requests, NEW j \in Jobs,
         \/ request' = [request EXCEPT ![r].pc = "done"]
         \/ request' = [request EXCEPT ![r].pc = "dispatch", ![r].job = j]
  PROVE  /\ RequestMoves(r) /\ request'[r].pc # "retry"
         /\ request'[r].pc \notin {"idle", "done"} => request'[r].job = j
<1>1. request \in [Requests -> RequestState] /\ request[r] \in RequestState
  BY RequestFacts
<1>2. CASE request' = [request EXCEPT ![r].pc = "done"]
  <2> DEFINE q == [request[r] EXCEPT !.pc = "done"]
  <2>1. q \in RequestState /\ q.pc = "done"
    BY <1>1 DEF RequestState
  <2>2. request' = [request EXCEPT ![r] = q]
    BY <1>1, <1>2
  <2> HIDE DEF q
  <2> QED BY <1>1, <2>1, <2>2 DEF RequestMoves
<1>3. CASE request' = [request EXCEPT ![r].pc = "dispatch", ![r].job = j]
  <2> DEFINE q == [request[r] EXCEPT !.pc = "dispatch", !.job = j]
  <2>1. q \in RequestState /\ q.pc = "dispatch" /\ q.job = j
    BY <1>1 DEF RequestState
  <2>2. request' = [request EXCEPT ![r] = q]
    BY <1>1, <1>3
  <2> HIDE DEF q
  <2> QED BY <1>1, <2>1, <2>2 DEF RequestMoves
<1> QED BY <1>2, <1>3

LEMMA CreateOrSubmitIInv ==
  ASSUME IInv, NEW r \in Requests, CreateJob(r) \/ SubmitJob(r)
  PROVE  IInv'
<1>1. PICK j \in Jobs, f \in JobForms :
        /\ InsertJob(j, f, NoJob)
        /\ \/ request' = [request EXCEPT ![r].pc = "done"]
           \/ request' = [request EXCEPT ![r].pc = "dispatch", ![r].job = j]
  BY DEF CreateJob, SubmitJob
<1>2. UNCHANGED <<queue, exec, crashes, redeliveries>>
  BY DEF CreateJob, SubmitJob
<1>3. exec' \in [Executors -> ExecState] /\ \A u \in Executors : exec'[u] = exec[u]
  BY <1>2 DEF IInv, TypeOK, ExecsTyped
<1>4. /\ RequestMoves(r) /\ request'[r].pc # "retry"
      /\ request'[r].pc \notin {"idle", "done"} => request'[r].job = j
  BY <1>1, SubmittingRequest
<1>5. FormOK(f)
  BY ClientForms
<1> QED BY <1>1, <1>2, <1>3, <1>4, <1>5, InsertJobIInv

LEMMA SubmitInlineIInv ==
  ASSUME IInv, NEW r \in Requests, NEW w \in Executors, SubmitInline(r, w)
  PROVE  IInv'
<1>1. PICK j \in Jobs, f \in JobForms :
        /\ InsertJob(j, f, NoJob)
        /\ exec' = [exec EXCEPT ![w] = Begun(j, FALSE, TRUE)]
  BY DEF SubmitInline
<1>2. /\ request' = [request EXCEPT ![r].pc = "done"]
      /\ UNCHANGED <<queue, crashes, redeliveries>>
  BY DEF SubmitInline
<1> DEFINE e == Begun(j, FALSE, TRUE)
<1>3. e \in ExecState
  BY DEF Begun, ExecState
<1>4. exec \in [Executors -> ExecState] /\ exec' = [exec EXCEPT ![w] = e]
  BY <1>1 DEF IInv, TypeOK, ExecsTyped
<1> HIDE DEF e
<1>5. /\ exec' \in [Executors -> ExecState]
      /\ \A u \in Executors : exec'[u] = exec[u] \/ exec'[u] = e
  BY <1>3, <1>4
<1>6. /\ RequestMoves(r) /\ request'[r].pc # "retry"
      /\ request'[r].pc \notin {"idle", "done"} => request'[r].job = j
  BY <1>2, SubmittingRequest
<1>7. FormOK(f)
  BY ClientForms
<1> QED BY <1>1, <1>2, <1>5, <1>6, <1>7, InsertJobIInv DEF e

LEMMA RetryCommitIInv ==
  ASSUME IInv, NEW r \in Requests, RetryCommit(r)
  PROVE  IInv'
<1> DEFINE origin == request[r].job
           f == form[origin]
<1>1. PICK j \in Jobs :
        /\ InsertJob(j, f, origin)
        /\ request' = [request EXCEPT ![r].pc = "dispatch", ![r].job = j]
  BY DEF RetryCommit
<1>2. UNCHANGED <<queue, exec, crashes, redeliveries>> /\ request[r].pc = "retry"
  BY DEF RetryCommit
<1>3. origin \in Jobs /\ Recorded(origin, Retryable)
  BY <1>2, RequestFacts DEF RequestOK
<1>4. FormOK(f)
  BY <1>3, StoredForms
<1>5. exec' \in [Executors -> ExecState] /\ \A u \in Executors : exec'[u] = exec[u]
  BY <1>2 DEF IInv, TypeOK, ExecsTyped
<1>6. /\ RequestMoves(r) /\ request'[r].pc # "retry"
      /\ request'[r].pc \notin {"idle", "done"} => request'[r].job = j
  BY <1>1, SubmittingRequest
<1> HIDE DEF f, origin
<1> QED BY <1>1, <1>2, <1>3, <1>4, <1>5, <1>6, InsertJobIInv

-----------------------------------------------------------------------------
(***************************************************************************)
(* Steps that write a job row and its journal.                             *)
(***************************************************************************)

\* The journal of job j grows by the given entries; no other journal moves.
Journals(j, entries) == ledger' = [ledger EXCEPT ![j] = @ \o entries]

LEMMA JournalGrows ==
  ASSUME RowsTyped, NEW j \in Jobs, NEW entries \in Seq(LedgerEntry),
         Journals(j, entries)
  PROVE  /\ ledger' \in [Jobs -> Seq(LedgerEntry)]
         /\ ledger'[j] = ledger[j] \o entries
         /\ \A i \in Jobs \ {j} : ledger'[i] = ledger[i]
         /\ \A i \in Jobs : \A events :
              Recorded(i, events) => Recorded(i, events)'
         /\ \A k \in 1 .. Len(entries) : \A events :
              entries[k].event \in events => Recorded(j, events)'
         /\ Len(ledger'[j]) = Len(ledger[j]) + Len(entries)
         /\ \A i \in 1 .. Len(ledger[j]) : ledger'[j][i] = ledger[j][i]
         /\ \A k \in 1 .. Len(entries) :
              ledger'[j][Len(ledger[j]) + k] = entries[k]
<1>1. ledger \in [Jobs -> Seq(LedgerEntry)]
  BY DEF RowsTyped
<1>2. /\ ledger' \in [Jobs -> Seq(LedgerEntry)]
      /\ ledger'[j] = ledger[j] \o entries
      /\ \A i \in Jobs \ {j} : ledger'[i] = ledger[i]
  BY <1>1 DEF Journals
<1>3. ledger[j] \in Seq(LedgerEntry) /\ Len(ledger[j]) \in Nat /\ Len(entries) \in Nat
  BY <1>1
<1>4. /\ Len(ledger'[j]) = Len(ledger[j]) + Len(entries)
      /\ \A i \in 1 .. Len(ledger[j]) : ledger'[j][i] = ledger[j][i]
      /\ \A k \in 1 .. Len(entries) : ledger'[j][Len(ledger[j]) + k] = entries[k]
  BY <1>2, <1>3
<1>5. ASSUME NEW i \in Jobs, NEW events, Recorded(i, events)
      PROVE  Recorded(i, events)'
  <2>1. CASE i # j
    BY <1>2, <1>5, <2>1 DEF Recorded
  <2>2. CASE i = j
    <3>1. PICK k \in 1 .. Len(ledger[j]) : ledger[j][k].event \in events
      BY <1>5, <2>2 DEF Recorded
    <3>2. k \in 1 .. Len(ledger'[j]) /\ ledger'[j][k].event \in events
      BY <1>3, <1>4, <3>1
    <3> QED BY <2>2, <3>2 DEF Recorded
  <2> QED BY <2>1, <2>2
<1>6. ASSUME NEW k \in 1 .. Len(entries), NEW events, entries[k].event \in events
      PROVE  Recorded(j, events)'
  <2>1. /\ Len(ledger[j]) + k \in 1 .. Len(ledger'[j])
        /\ ledger'[j][Len(ledger[j]) + k].event \in events
    BY <1>3, <1>4, <1>6
  <2> QED BY <2>1 DEF Recorded
<1> QED BY <1>2, <1>4, <1>5, <1>6

\* One transition entry, which is not the end of any work.
LEMMA JournalTransition ==
  ASSUME IInv, NEW j \in Jobs, status[j] # "none", NEW event \in Outcomes,
         NEW from \in Statuses \cup {"unrecorded"}, NEW s \in {status[j], event},
         status' = [status EXCEPT ![j] = s],
         ledger' = [ledger EXCEPT ![j] = Append(@, Entry(event, from))],
         UNCHANGED <<form, retryOf, docs, queue>>
  PROVE  /\ RowsTyped'
         /\ \A i \in Jobs : RowOK(i)'
         /\ UniqueContent' /\ IngestAllOrNothing' /\ TextIngestedOnce'
         /\ RetryOfUnsuccessful'
         /\ \A i \in Jobs : status[i] # "none" => status'[i] # "none"
         /\ \A i \in Jobs : \A events :
              Recorded(i, events) => Recorded(i, events)'
<1> DEFINE entries == <<Entry(event, from)>>
<1>1. RowsTyped
  BY DEF IInv, TypeOK
<1>2. Entry(event, from) \in LedgerEntry /\ Entry(event, from).event = event
  BY DEF Entry, LedgerEntry, Events
<1>3. /\ entries \in Seq(LedgerEntry) /\ Len(entries) = 1
      /\ entries[1] = Entry(event, from)
  BY <1>2
<1>4. ledger \in [Jobs -> Seq(LedgerEntry)]
  BY <1>1 DEF RowsTyped
<1>5. Journals(j, entries)
  <2>1. ledger[j] \in Seq(LedgerEntry)
    BY <1>4
  <2>2. Append(ledger[j], Entry(event, from)) = ledger[j] \o entries
    BY <1>2, <2>1
  <2> QED BY <2>2 DEF Journals
<1> HIDE DEF entries
<1>6. /\ ledger' \in [Jobs -> Seq(LedgerEntry)]
      /\ ledger'[j] = ledger[j] \o entries
      /\ \A i \in Jobs \ {j} : ledger'[i] = ledger[i]
      /\ \A i \in Jobs : \A events :
           Recorded(i, events) => Recorded(i, events)'
      /\ \A k \in 1 .. Len(entries) : \A events :
           entries[k].event \in events => Recorded(j, events)'
  BY <1>1, <1>3, <1>5, JournalGrows
<1>7. Recorded(j, {event})'
  BY <1>2, <1>3, <1>6 DEF Recorded
<1>8. status \in [Jobs -> Statuses \cup {"none"}]
  BY <1>1 DEF RowsTyped
<1>9. /\ status'[j] = s /\ s # "none"
      /\ \A i \in Jobs \ {j} : status'[i] = status[i]
  BY <1>8
<1>10. RowsTyped'
  <2>1. status' \in [Jobs -> Statuses \cup {"none"}]
    BY <1>8
  <2>2. ledger' \in [Jobs -> Seq(LedgerEntry')]
    BY <1>6 DEF LedgerEntry, Events
  <2> QED BY <1>1, <2>1, <2>2 DEF RowsTyped
<1>11. ASSUME NEW i \in Jobs PROVE RowOK(i)'
  <2>1. RowOK(i)
    BY DEF IInv
  <2>2. (status[i] \in Outcomes => Recorded(i, {status[i]}))'
    <3>1. CASE i = j /\ s = event
      BY <1>7, <1>9, <3>1 DEF Recorded
    <3>2. CASE status'[i] = status[i]
      <4>1. status[i] \in Outcomes => Recorded(i, {status[i]})
        BY <2>1 DEF RowOK
      <4> QED BY <1>6, <3>2, <4>1 DEF Recorded
    <3> QED BY <1>9, <3>1, <3>2
  <2>3. status'[i] = "none" => ledger'[i] = << >>
    BY <1>6, <1>9, <2>1 DEF RowOK
  <2>4. queue'[i] > 0 => status'[i] # "none"
    BY <1>9, <2>1 DEF RowOK
  <2>5. /\ form'[i].kind = "text" => Len(form'[i].files) = 1
        /\ form'[i].kind \in {"index", "agent"} => Len(form'[i].files) = 0
    BY <2>1 DEF RowOK
  <2> QED BY <2>2, <2>3, <2>4, <2>5 DEF RowOK
<1>12. /\ Len(ledger[j]) \in Nat
       /\ Len(ledger'[j]) = Len(ledger[j]) + 1
       /\ \A i \in 1 .. Len(ledger[j]) : ledger'[j][i] = ledger[j][i]
       /\ ledger'[j][Len(ledger[j]) + 1].event = event
  BY <1>2, <1>3, <1>4, <1>6
\* The completed entries are the ones there were.
<1>13. ASSUME NEW i \in Jobs, NEW k \in 1 .. Len(ledger'[i]),
              ledger'[i][k].event = "completed"
       PROVE  k \in 1 .. Len(ledger[i]) /\ ledger[i][k].event = "completed"
  <2>1. CASE i # j
    BY <1>6, <1>13, <2>1
  <2>2. CASE i = j
    <3>1. k # Len(ledger[j]) + 1
      BY <1>12, <1>13, <2>2
    <3> QED BY <1>12, <1>13, <2>2, <3>1
  <2> QED BY <2>1, <2>2
<1>14. \A i \in Jobs : Recorded(i, {"completed"})' => Recorded(i, {"completed"})
  BY <1>13 DEF Recorded
<1>15. UniqueContent'
  BY DEF IInv, UniqueContent
<1>16. IngestAllOrNothing'
  <2>1. \A d \in docs' : d.job \in Jobs /\ Recorded(d.job, {"completed"})
    BY <1>1 DEF IInv, IngestAllOrNothing, RowsTyped
  <2>2. \A d \in docs' : Recorded(d.job, {"completed"})'
    BY <1>6, <2>1
  <2>3. ASSUME NEW i \in Jobs, Recorded(i, {"completed"})'
        PROVE  \A k \in 1 .. Len(form'[i].files) : form'[i].files[k] \in Ingested'
    BY <1>14, <2>3 DEF IInv, IngestAllOrNothing, Ingested
  <2> QED BY <2>2, <2>3 DEF IngestAllOrNothing
<1>17. TextIngestedOnce'
  BY <1>13 DEF IInv, TextIngestedOnce
<1>18. RetryOfUnsuccessful'
  <2>1. \A i \in Jobs : retryOf[i] # NoJob =>
          retryOf[i] \in Jobs /\ Recorded(retryOf[i], Retryable)
    BY <1>1 DEF IInv, RetryOfUnsuccessful, RowsTyped
  <2> QED BY <1>6, <2>1 DEF RetryOfUnsuccessful
<1> QED BY <1>6, <1>8, <1>9, <1>10, <1>11, <1>15, <1>16, <1>17, <1>18

LEMMA TransitionCommitIInv ==
  ASSUME IInv, NEW r \in Requests, TransitionCommit(r)
  PROVE  IInv'
<1> DEFINE q == request[r]
           s == Written(q.job, q.seen, q.target)
<1>1. /\ q.pc = "written"
      /\ status' = [status EXCEPT ![q.job] = s]
      /\ ledger' = [ledger EXCEPT ![q.job] = Append(@, Entry(q.target, q.from))]
      /\ request' = [request EXCEPT ![r].pc = "done"]
      /\ UNCHANGED <<form, retryOf, docs, queue, exec, crashes, redeliveries>>
  BY DEF TransitionCommit
<1>2. request[r] \in RequestState /\ RequestOK(request[r])
  BY RequestFacts
<1>3. /\ q.job \in Jobs /\ status[q.job] # "none"
      /\ q.target \in Outcomes /\ q.from \in Statuses \cup {"unrecorded"}
  BY <1>1, <1>2 DEF RequestOK, RequestState
<1>4. s \in {status[q.job], q.target}
  BY DEF Written
<1>5. RequestMoves(r) /\ RequestOK(request'[r])
  BY <1>1, RequestPhase
<1>6. request'[r].pc = "done"
  BY <1>1, <1>2, RequestFacts DEF RequestState
<1> HIDE DEF q, s
<1>7. /\ RowsTyped'
      /\ \A i \in Jobs : RowOK(i)'
      /\ UniqueContent' /\ IngestAllOrNothing' /\ TextIngestedOnce'
      /\ RetryOfUnsuccessful'
      /\ \A i \in Jobs : status[i] # "none" => status'[i] # "none"
      /\ \A i \in Jobs : \A events :
           Recorded(i, events) => Recorded(i, events)'
  BY <1>1, <1>3, <1>4, JournalTransition
<1>8. TypeOK'
  BY <1>1, <1>5, <1>7 DEF IInv, TypeOK, ExecsTyped, RequestsTyped, CountersTyped,
     RequestMoves, ExecState, RequestState
<1>9. ASSUME NEW u \in Executors PROVE ExecOK(exec[u])'
  <2>1. ExecOK(exec[u]) /\ exec'[u] = exec[u]
    BY <1>1 DEF IInv
  <2>2. exec[u].pc # "idle" => exec[u].job \in Jobs /\ status'[exec[u].job] # "none"
    BY <1>7, <2>1 DEF ExecOK
  <2> QED BY <1>1, <2>1, <2>2 DEF ExecOK, Ingested
<1>10. ASSUME NEW p \in Requests PROVE RequestOK(request[p])'
  <2>1. CASE p = r
    BY <1>6, <2>1 DEF RequestOK
  <2>2. CASE p # r
    <3>1. request'[p] = request[p] /\ RequestOK(request[p])
      BY <1>5, <2>2 DEF IInv, RequestMoves
    <3> QED BY <1>7, <3>1 DEF RequestOK, Recorded
  <2> QED BY <2>1, <2>2
<1>11. PendingDisjoint'
  BY <1>1 DEF IInv, PendingDisjoint
<1> QED BY <1>7, <1>8, <1>9, <1>10, <1>11 DEF IInv

\* The end of an executor's transaction: it acknowledges, or is idle.
LEMMA FinishedOK ==
  ASSUME NEW e \in ExecState, ExecOK(e), e.pc # "idle"
  PROVE  /\ Finished(e) \in ExecState
         /\ Finished(e).pc \in {"idle", "ack"}
         /\ Finished(e).pending = {} /\ Finished(e).next >= 1
         /\ Finished(e).pc = "ack" => Finished(e).job = e.job
         /\ Finished(e).tagged => Finished(e).pc = "ack"
<1>1. CASE e.inline
  BY <1>1 DEF Finished, IdleExec, ExecState
<1>2. CASE ~ e.inline
  <2> DEFINE f == [e EXCEPT !.pc = "ack", !.pending = {}]
  <2>1. /\ f \in ExecState /\ f.pc = "ack" /\ f.pending = {}
        /\ f.next = e.next /\ f.job = e.job
    BY DEF ExecState
  <2>2. Finished(e) = f /\ e.next >= 1
    BY <1>2 DEF Finished, ExecOK
  <2> HIDE DEF f
  <2> QED BY <2>1, <2>2
<1> QED BY <1>1, <1>2

LEMMA FailCommitIInv ==
  ASSUME IInv, NEW w \in Executors, FailCommit(w)
  PROVE  IInv'
<1> DEFINE j == exec[w].job
           s == Written(j, exec[w].seen, "failed")
           e == Finished(exec[w])
<1>1. /\ exec[w].pc = "failCommit"
      /\ status' = [status EXCEPT ![j] = s]
      /\ ledger' = [ledger EXCEPT ![j] = Append(@, Entry("failed", "unrecorded"))]
      /\ exec' = [exec EXCEPT ![w] = e]
      /\ UNCHANGED <<form, retryOf, docs, queue, request, crashes, redeliveries>>
  BY DEF FailCommit
<1>2. exec \in [Executors -> ExecState] /\ exec[w] \in ExecState /\ ExecOK(exec[w])
  BY ExecFacts
<1>3. j \in Jobs /\ status[j] # "none"
  BY <1>1, <1>2 DEF ExecOK
<1>4. s \in {status[j], "failed"} /\ "failed" \in Outcomes
      /\ "unrecorded" \in Statuses \cup {"unrecorded"}
  BY DEF Written
<1>5. /\ e \in ExecState /\ e.pc \in {"idle", "ack"} /\ e.pending = {}
      /\ e.next >= 1
      /\ e.pc = "ack" => e.job = j
      /\ e.tagged => e.pc = "ack"
  BY <1>1, <1>2, FinishedOK
<1> HIDE DEF s, e
<1>6. ExecMoves(w) /\ exec'[w] = e
  BY <1>1, <1>2, <1>5 DEF ExecMoves
<1> HIDE DEF j
<1>7. /\ RowsTyped'
      /\ \A i \in Jobs : RowOK(i)'
      /\ UniqueContent' /\ IngestAllOrNothing' /\ TextIngestedOnce'
      /\ RetryOfUnsuccessful'
      /\ \A i \in Jobs : status[i] # "none" => status'[i] # "none"
      /\ \A i \in Jobs : \A events :
           Recorded(i, events) => Recorded(i, events)'
  BY <1>1, <1>3, <1>4, JournalTransition
<1>8. TypeOK'
  BY <1>1, <1>6, <1>7 DEF IInv, TypeOK, ExecsTyped, RequestsTyped, CountersTyped,
     ExecMoves, ExecState, RequestState
<1>9. ASSUME NEW u \in Executors PROVE ExecOK(exec[u])'
  <2>1. CASE u = w
    BY <1>3, <1>5, <1>6, <1>7, <2>1 DEF ExecOK
  <2>2. CASE u # w
    <3>1. ExecOK(exec[u]) /\ exec'[u] = exec[u]
      BY <1>6, <2>2 DEF IInv, ExecMoves
    <3>2. exec[u].pc # "idle" =>
            exec[u].job \in Jobs /\ status'[exec[u].job] # "none"
      BY <1>7, <3>1 DEF ExecOK
    <3> QED BY <1>1, <3>1, <3>2 DEF ExecOK, Ingested
  <2> QED BY <2>1, <2>2
<1>10. ASSUME NEW p \in Requests PROVE RequestOK(request[p])'
  <2>1. request'[p] = request[p] /\ RequestOK(request[p])
    BY <1>1 DEF IInv
  <2> QED BY <1>7, <2>1 DEF RequestOK, Recorded
<1>11. PendingDisjoint'
  <2>1. \A u \in Executors : exec'[u].pending \subseteq exec[u].pending
    BY <1>5, <1>6 DEF ExecMoves
  <2> QED BY <2>1 DEF IInv, PendingDisjoint
<1> QED BY <1>7, <1>8, <1>9, <1>10, <1>11 DEF IInv

\* The transaction of a finished run: the row, the documents and the journal.
LEMMA CommitRunIInv ==
  ASSUME IInv, NEW w \in Executors, CommitRun(w)
  PROVE  IInv'
<1>0. PICK j \in Jobs : j = exec[w].job
  <2>1. exec[w].pc = "commit" /\ ExecOK(exec[w])
    BY ExecFacts DEF CommitRun
  <2> QED BY <2>1 DEF ExecOK
<1> DEFINE P == exec[w].pending
           e == Finished(exec[w])
           n == Len(ledger[j])
<1>1. /\ exec[w].pc = "commit"
      /\ status' = [status EXCEPT ![j] = "succeeded"]
      /\ docs' = docs \cup {[content |-> c, job |-> j] : c \in P}
      /\ Journals(j, WorkEntries)
      /\ exec' = [exec EXCEPT ![w] = e]
      /\ UNCHANGED <<form, retryOf, queue, request, crashes, redeliveries>>
  BY <1>0 DEF CommitRun, Journals
<1>2. /\ exec \in [Executors -> ExecState] /\ exec[w] \in ExecState
      /\ ExecOK(exec[w]) /\ RowsTyped /\ exec[w].next \in Nat
  BY ExecFacts DEF IInv, TypeOK, ExecState
<1>3. j \in Jobs /\ status[j] # "none" /\ P \subseteq Contents
  BY <1>0, <1>1, <1>2 DEF ExecOK, ExecState
<1>4. /\ \A c \in P : c \notin Ingested
      /\ form[j].kind = "text" => form[j].files[1] \in P
  BY <1>0, <1>1, <1>2 DEF ExecOK
<1>5. Len(form[j].files) \in Nat
  BY <1>2, <1>3 DEF RowsTyped
<1>6. \A i \in 1 .. Len(form[j].files) : form[j].files[i] \in Ingested \cup P
  <2>1. /\ exec[w].next > Len(form[j].files)
        /\ \A i \in 1 .. Len(form[j].files) :
             i < exec[w].next => form[j].files[i] \in Ingested \cup P
    BY <1>0, <1>1, <1>2 DEF ExecOK
  <2>2. \A i \in 1 .. Len(form[j].files) : i < exec[w].next
    BY <1>2, <1>5, <2>1
  <2> QED BY <2>1, <2>2
<1>7. /\ e \in ExecState /\ e.pc \in {"idle", "ack"} /\ e.pending = {}
      /\ e.next >= 1
      /\ e.pc = "ack" => e.job = j
      /\ e.tagged => e.pc = "ack"
  BY <1>0, <1>1, <1>2, FinishedOK
<1> HIDE DEF e
<1>8. ExecMoves(w) /\ exec'[w] = e
  BY <1>1, <1>2, <1>7 DEF ExecMoves
<1>9. /\ WorkEntries \in Seq(LedgerEntry) /\ Len(WorkEntries) = 3
      /\ WorkEntries[1].event = "running" /\ WorkEntries[2].event = "completed"
      /\ WorkEntries[3].event = "succeeded"
  BY DEF WorkEntries, Entry, LedgerEntry, Events
<1> HIDE DEF P
<1>10. /\ ledger' \in [Jobs -> Seq(LedgerEntry)]
       /\ ledger'[j] = ledger[j] \o WorkEntries
       /\ \A i \in Jobs \ {j} : ledger'[i] = ledger[i]
       /\ \A i \in Jobs : \A events :
            Recorded(i, events) => Recorded(i, events)'
       /\ \A k \in 1 .. Len(WorkEntries) : \A events :
            WorkEntries[k].event \in events => Recorded(j, events)'
       /\ Len(ledger'[j]) = n + Len(WorkEntries)
       /\ \A i \in 1 .. n : ledger'[j][i] = ledger[j][i]
       /\ \A k \in 1 .. Len(WorkEntries) : ledger'[j][n + k] = WorkEntries[k]
  BY <1>1, <1>2, <1>3, <1>9, JournalGrows
<1>11. Recorded(j, {"completed"})' /\ Recorded(j, {"succeeded"})'
  BY <1>9, <1>10
<1>12. /\ n \in Nat /\ Len(ledger'[j]) = n + 3
       /\ \A k \in 1 .. n : ledger'[j][k] = ledger[j][k]
       /\ ledger'[j][n + 1].event = "running"
       /\ ledger'[j][n + 2].event = "completed"
       /\ ledger'[j][n + 3].event = "succeeded"
  <2>1. ledger[j] \in Seq(LedgerEntry) /\ n \in Nat
    BY <1>2, <1>3 DEF RowsTyped
  <2>2. /\ Len(ledger'[j]) = n + 3
        /\ \A k \in 1 .. n : ledger'[j][k] = ledger[j][k]
        /\ \A k \in 1 .. 3 : ledger'[j][n + k] = WorkEntries[k]
    BY <1>9, <1>10, <2>1
  <2> HIDE DEF n
  <2>3. /\ ledger'[j][n + 1] = WorkEntries[1]
        /\ ledger'[j][n + 2] = WorkEntries[2]
        /\ ledger'[j][n + 3] = WorkEntries[3]
    BY <2>2
  <2> QED BY <1>9, <2>1, <2>2, <2>3
<1>13. /\ status'[j] = "succeeded"
       /\ \A i \in Jobs \ {j} : status'[i] = status[i]
       /\ status' \in [Jobs -> Statuses \cup {"none"}]
  BY <1>1, <1>2, <1>3 DEF RowsTyped
<1>14. \A c : c \in Ingested' <=> c \in Ingested \/ c \in P
  <2>1. Ingested' = {d.content : d \in docs'}
    BY DEF Ingested
  <2>2. \A c \in P : [content |-> c, job |-> j] \in docs'
                       /\ [content |-> c, job |-> j].content = c
    BY <1>1
  <2>3. \A d \in docs' : d \in docs \/ d.content \in P
    BY <1>1
  <2>4. \A d \in docs : d \in docs'
    BY <1>1
  <2> QED BY <2>1, <2>2, <2>3, <2>4 DEF Ingested
<1>15. TypeOK'
  <2>1. docs' \subseteq [content : Contents, job : Jobs]
    BY <1>1, <1>2, <1>3 DEF RowsTyped
  <2>2. RowsTyped'
    BY <1>1, <1>2, <1>10, <1>13, <2>1 DEF RowsTyped, LedgerEntry, Events
  <2> QED BY <1>1, <1>8, <2>2 DEF IInv, TypeOK, ExecsTyped, RequestsTyped,
          CountersTyped, ExecMoves, ExecState, RequestState
<1>16. ASSUME NEW i \in Jobs PROVE RowOK(i)'
  <2>1. RowOK(i) /\ form'[i] = form[i] /\ queue'[i] = queue[i]
    BY <1>1 DEF IInv
  <2>2. CASE i = j
    <3>1. status'[i] = "succeeded"
      BY <1>13, <2>2
    <3>2. Recorded(i, {status[i]})'
      BY <1>11, <2>2, <3>1 DEF Recorded
    <3> QED BY <2>1, <3>1, <3>2 DEF RowOK
  <2>3. CASE i # j
    BY <1>10, <1>13, <2>1, <2>3 DEF RowOK, Recorded
  <2> QED BY <2>2, <2>3
<1>17. ASSUME NEW u \in Executors PROVE ExecOK(exec[u])'
  <2>1. CASE u = w
    BY <1>3, <1>7, <1>8, <1>13, <2>1 DEF ExecOK
  <2>2. CASE u # w
    <3>1. ExecOK(exec[u]) /\ exec'[u] = exec[u]
      BY <1>8, <2>2 DEF IInv, ExecMoves
    <3>2. exec[u].pc # "idle" =>
            exec[u].job \in Jobs /\ status'[exec[u].job] # "none"
      BY <1>13, <3>1 DEF ExecOK
    <3>3. \A c \in exec[u].pending : c \notin P /\ c \notin Ingested
      BY <2>2, <3>1 DEF IInv, PendingDisjoint, ExecOK, P
    <3> QED BY <1>1, <1>14, <3>1, <3>2, <3>3 DEF ExecOK
  <2> QED BY <2>1, <2>2
<1>18. ASSUME NEW p \in Requests PROVE RequestOK(request[p])'
  <2>1. request'[p] = request[p] /\ RequestOK(request[p])
    BY <1>1 DEF IInv
  <2>2. request[p].pc \notin {"idle", "done"} =>
          request[p].job \in Jobs /\ status'[request[p].job] # "none"
    BY <1>13, <2>1 DEF RequestOK
  <2>3. ASSUME request[p].pc = "retry"
        PROVE  Recorded(request[p].job, Retryable)'
    <3>1. request[p].job \in Jobs /\ Recorded(request[p].job, Retryable)
      BY <2>1, <2>3 DEF RequestOK
    <3>2. \A i \in Jobs : Recorded(i, Retryable) => Recorded(i, Retryable)'
      BY <1>10
    <3> QED BY <2>1, <3>1, <3>2 DEF Recorded
  <2> QED BY <2>1, <2>2, <2>3 DEF RequestOK
<1>19. PendingDisjoint'
  <2>1. \A u \in Executors : exec'[u].pending \subseteq exec[u].pending
    BY <1>7, <1>8 DEF ExecMoves
  <2> QED BY <2>1 DEF IInv, PendingDisjoint
<1>20. UniqueContent'
  <2>1. \A d \in docs' : \/ d \in docs /\ d.content \in Ingested
                         \/ d = [content |-> d.content, job |-> j] /\ d.content \in P
    BY <1>1 DEF Ingested
  <2> QED BY <1>4, <2>1 DEF IInv, UniqueContent
\* Who has a journalled end of work: j, and the jobs that had one.
<1>21. \A i \in Jobs \ {j} :
         Recorded(i, {"completed"})' => Recorded(i, {"completed"})
  BY <1>10 DEF Recorded
<1>22. IngestAllOrNothing'
  <2>1. ASSUME NEW d \in docs' PROVE Recorded(d.job, {"completed"})'
    <3>1. CASE d \in docs
      <4>1. d.job \in Jobs /\ Recorded(d.job, {"completed"})
        BY <1>2, <3>1 DEF IInv, IngestAllOrNothing, RowsTyped
      <4> QED BY <1>10, <4>1
    <3>2. CASE d.job = j
      <4>1. Recorded(j, {"completed"})'
        BY <1>11
      <4> QED BY <3>2, <4>1, SMT DEF Recorded
    <3> QED BY <1>1, <3>1, <3>2
  <2>2. ASSUME NEW i \in Jobs, Recorded(i, {"completed"})'
        PROVE  \A k \in 1 .. Len(form'[i].files) : form'[i].files[k] \in Ingested'
    <3>1. CASE i = j
      BY <1>1, <1>6, <1>14, <3>1
    <3>2. CASE i # j
      <4>1. Recorded(i, {"completed"})
        BY <1>21, <2>2, <3>2
      <4> QED BY <1>1, <1>14, <4>1 DEF IInv, IngestAllOrNothing
    <3> QED BY <3>1, <3>2
  <2> QED BY <2>1, <2>2 DEF IngestAllOrNothing
<1>23. TextIngestedOnce'
  <2>1. ASSUME form[j].kind = "text" PROVE \A k \in 1 .. n : ledger[j][k].event # "completed"
    <3>1. ~ Recorded(j, {"completed"})
      <4>1. Len(form[j].files) = 1 /\ form[j].files[1] \notin Ingested
        BY <1>3, <1>4, <2>1 DEF IInv, RowOK
      <4> QED BY <1>3, <4>1 DEF IInv, IngestAllOrNothing
    <3> QED BY <3>1 DEF Recorded
  <2>2. ASSUME form[j].kind = "text", NEW k \in 1 .. Len(ledger'[j]),
               ledger'[j][k].event = "completed"
        PROVE  k = n + 2
    <3>1. k \notin 1 .. n
      BY <1>12, <2>1, <2>2
    <3> HIDE DEF n
    <3>2. k \in {n + 1, n + 2, n + 3}
      BY <1>12, <3>1
    <3>3. k # n + 1 /\ k # n + 3
      BY <1>12, <2>2
    <3> QED BY <3>2, <3>3
  <2>3. ASSUME NEW i \in Jobs, form'[i].kind = "text",
               NEW k \in 1 .. Len(ledger'[i]), NEW m \in 1 .. Len(ledger'[i]),
               ledger'[i][k].event = "completed", ledger'[i][m].event = "completed"
        PROVE  k = m
    <3>1. CASE i = j
      BY <1>1, <2>2, <2>3, <3>1
    <3>2. CASE i # j
      BY <1>1, <1>10, <2>3, <3>2 DEF IInv, TextIngestedOnce
    <3> QED BY <3>1, <3>2
  <2> QED BY <2>3 DEF TextIngestedOnce
<1>24. RetryOfUnsuccessful'
  <2>1. \A i \in Jobs : retryOf[i] # NoJob =>
          retryOf[i] \in Jobs /\ Recorded(retryOf[i], Retryable)
    BY <1>2 DEF IInv, RetryOfUnsuccessful, RowsTyped
  <2> QED BY <1>1, <1>10, <2>1 DEF RetryOfUnsuccessful
<1> QED BY <1>15, <1>16, <1>17, <1>18, <1>19, <1>20, <1>22, <1>23, <1>24 DEF IInv

-----------------------------------------------------------------------------
(***************************************************************************)
(* Every step preserves the invariant.                                     *)
(***************************************************************************)
LEMMA NextIInv == IInv /\ [Next]_vars => IInv'
<1> SUFFICES ASSUME IInv, [Next]_vars PROVE IInv'
  OBVIOUS
<1>1. ASSUME NEW r \in Requests, ClientStep(r) PROVE IInv'
  <2>1. CASE CreateJob(r) \/ SubmitJob(r)
    BY <2>1, CreateOrSubmitIInv
  <2>2. CASE RetryRead(r)
    BY <2>2, RetryReadMoves, LocalRequestIInv
  <2>3. CASE TransitionRead(r)
    BY <2>3, TransitionReadMoves, LocalRequestIInv
  <2>4. ASSUME NEW w \in Executors, SubmitInline(r, w) PROVE IInv'
    BY <2>4, SubmitInlineIInv
  <2> QED BY <1>1, <2>1, <2>2, <2>3, <2>4 DEF ClientStep
<1>2. ASSUME NEW r \in Requests, RequestStep(r) PROVE IInv'
  <2>1. CASE DispatchJob(r)
    BY <2>1, DispatchJobMoves, LocalRequestIInv
  <2>2. CASE RetryCommit(r)
    BY <2>2, RetryCommitIInv
  <2>3. CASE TransitionSelect(r)
    BY <2>3, TransitionSelectMoves, LocalRequestIInv
  <2>4. CASE TransitionUpdate(r)
    BY <2>4, PhaseOnlyMoves, LocalRequestIInv
  <2>5. CASE TransitionCommit(r)
    BY <2>5, TransitionCommitIInv
  <2> QED BY <1>2, <2>1, <2>2, <2>3, <2>4, <2>5 DEF RequestStep
<1>3. ASSUME NEW w \in Executors, ExecStep(w) PROVE IInv'
  <2>1. CASE Deliver(w)
    BY <2>1, DeliverMoves, LocalMoveIInv
  <2>2. CASE BeginRun(w)
    BY <2>2, BeginRunMoves, LocalMoveIInv
  <2>3. CASE StartRun(w)
    BY <2>3, StartRunMoves, LocalMoveIInv
  <2>4. CASE CheckFile(w)
    BY <2>4, CheckFileMoves, LocalMoveIInv
  <2>5. CASE InsertDocument(w)
    BY <2>5, InsertDocumentMoves, LocalMoveIInv
  <2>6. CASE DeadlockVictim(w)
    BY <2>6, AbortingMoves, LocalMoveIInv
  <2>7. CASE CommitRun(w)
    BY <2>7, CommitRunIInv
  <2>8. CASE FailSelect(w)
    BY <2>8, FailSelectMoves, LocalMoveIInv
  <2>9. CASE FailUpdate(w)
    BY <2>9, FailUpdateMoves, LocalMoveIInv
  <2>10. CASE FailCommit(w)
    BY <2>10, FailCommitIInv
  <2>11. CASE Acknowledge(w)
    BY <2>11, AcknowledgeMoves, LocalMoveIInv
  <2> QED BY <1>3, <2>1, <2>2, <2>3, <2>4, <2>5, <2>6, <2>7, <2>8, <2>9, <2>10,
             <2>11 DEF ExecStep
<1>4. ASSUME Fault PROVE IInv'
  <2>1. ASSUME NEW r \in Requests, RequestLost(r) PROVE IInv'
    BY <2>1, PhaseOnlyMoves, LocalRequestIInv
  <2>2. ASSUME NEW w \in Executors, RefuseRun(w) \/ WorkError(w) PROVE IInv'
    BY <2>2, AbortingMoves, LocalMoveIInv
  <2>3. ASSUME NEW w \in Executors, ExecutorLost(w) PROVE IInv'
    BY <2>3, ExecutorLostMoves, LocalMoveIInv
  <2>4. ASSUME NEW w \in Executors, ChannelLost(w) PROVE IInv'
    BY <2>4, ChannelLostMoves, LocalMoveIInv
  <2> QED BY <1>4, <2>1, <2>2, <2>3, <2>4 DEF Fault
<1>5. ASSUME UNCHANGED vars PROVE IInv'
  <2>1. UNCHANGED <<status, form, retryOf, docs, ledger, queue, exec, request,
                    crashes, redeliveries>>
    BY <1>5 DEF vars, rows
  <2>2. TypeOK'
    BY <2>1 DEF IInv, TypeOK, RowsTyped, ExecsTyped, RequestsTyped, CountersTyped,
       LedgerEntry, Events, ExecState, RequestState
  <2>3. /\ \A j \in Jobs : RowOK(j)'
        /\ \A w \in Executors : ExecOK(exec[w])'
        /\ \A r \in Requests : RequestOK(request[r])'
    BY <2>1 DEF IInv, RowOK, ExecOK, RequestOK, Recorded, Ingested
  <2>4. /\ PendingDisjoint' /\ UniqueContent' /\ IngestAllOrNothing'
        /\ TextIngestedOnce' /\ RetryOfUnsuccessful'
    BY <2>1 DEF IInv, PendingDisjoint, UniqueContent, IngestAllOrNothing,
       TextIngestedOnce, RetryOfUnsuccessful, Recorded, Ingested
  <2> QED BY <2>2, <2>3, <2>4 DEF IInv
<1> QED BY <1>1, <1>2, <1>3, <1>4, <1>5 DEF Next, Quiet

\* The invariant holds in every reachable state.
THEOREM Invariance == Spec => []IInv
BY InitIInv, NextIInv, PTL DEF Spec

\* Type correctness of every variable, for every instance of the model.
THEOREM TypeCorrect == Spec => []TypeOK
<1>1. IInv => TypeOK
  BY DEF IInv
<1> QED BY <1>1, Invariance, PTL

\* The unique index holds the domain's documents apart, through any number of
\* concurrent ingestions, retries, crashes and repeated deliveries.
THEOREM ContentIsUnique == Spec => []UniqueContent
<1>1. IInv => UniqueContent
  BY DEF IInv
<1> QED BY <1>1, Invariance, PTL

\* A document exists only through a committed run, and a committed run left no
\* file of its payload out.
THEOREM IngestionIsAtomic == Spec => []IngestAllOrNothing
<1>1. IInv => IngestAllOrNothing
  BY DEF IInv
<1> QED BY <1>1, Invariance, PTL

\* No repetition of a delivery ingests a text or upload job a second time.
THEOREM TextRunsOnce == Spec => []TextIngestedOnce
<1>1. IInv => TextIngestedOnce
  BY DEF IInv
<1> QED BY <1>1, Invariance, PTL

\* A retry always has an unsuccessful origin in the journal.
THEOREM RetriesDescend == Spec => []RetryOfUnsuccessful
<1>1. IInv => RetryOfUnsuccessful
  BY DEF IInv
<1> QED BY <1>1, Invariance, PTL

-----------------------------------------------------------------------------
(***************************************************************************)
(* Settled jobs stay idle.                                                 *)
(***************************************************************************)
LEMMA StatusAdvances ==
  ASSUME IInv, [Next]_vars, NEW j \in Jobs, status[j] \notin {"none", "queued"}
  PROVE  status'[j] \notin {"none", "queued"}
<1>1. status \in [Jobs -> Statuses \cup {"none"}]
  BY DEF IInv, TypeOK, RowsTyped
<1>2. ASSUME NEW i \in Jobs, NEW f, NEW o, InsertJob(i, f, o)
      PROVE  status'[j] = status[j]
  BY <1>1, <1>2 DEF InsertJob
<1>3. ASSUME NEW r \in Requests, TransitionCommit(r)
      PROVE  status'[j] \in {status[j]} \cup Outcomes
  <2> DEFINE t == Written(request[r].job, request[r].seen, request[r].target)
  <2>1. status' = [status EXCEPT ![request[r].job] = t]
    BY <1>3 DEF TransitionCommit
  <2>2. t \in {status[request[r].job]} \cup Outcomes
    BY RequestFacts DEF Written, RequestState
  <2> HIDE DEF t
  <2> QED BY <1>1, <2>1, <2>2
<1>4. ASSUME NEW w \in Executors, CommitRun(w) \/ FailCommit(w)
      PROVE  status'[j] \in {status[j]} \cup Outcomes
  BY <1>1, <1>4 DEF CommitRun, FailCommit, Written
<1>5. CASE UNCHANGED vars
  BY <1>5 DEF vars, rows
<1>6. ASSUME NEW r \in Requests, ClientStep(r) \/ RequestStep(r)
      PROVE  status'[j] \in {status[j]} \cup Outcomes
  <2>1. CASE CreateJob(r) \/ SubmitJob(r) \/ RetryCommit(r)
    BY <1>2, <2>1 DEF CreateJob, SubmitJob, RetryCommit
  <2>2. ASSUME NEW w \in Executors, SubmitInline(r, w)
        PROVE  status'[j] = status[j]
    BY <1>2, <2>2 DEF SubmitInline
  <2>3. CASE RetryRead(r) \/ TransitionRead(r) \/ DispatchJob(r)
               \/ TransitionSelect(r) \/ TransitionUpdate(r)
    BY <2>3 DEF RetryRead, TransitionRead, DispatchJob, TransitionSelect,
       TransitionUpdate, rows
  <2> QED BY <1>3, <1>6, <2>1, <2>2, <2>3 DEF ClientStep, RequestStep
<1>7. ASSUME NEW w \in Executors, ExecStep(w)
      PROVE  status'[j] \in {status[j]} \cup Outcomes
  BY <1>4, <1>7 DEF ExecStep, Deliver, BeginRun, StartRun, CheckFile,
     InsertDocument, DeadlockVictim, FailSelect, FailUpdate, Acknowledge, rows
<1>8. ASSUME Fault PROVE status'[j] = status[j]
  BY <1>8 DEF Fault, RequestLost, RefuseRun, WorkError, ExecutorLost,
     ChannelLost, rows
<1> QED BY <1>5, <1>6, <1>7, <1>8 DEF Next, Quiet

Working(e) == e.pc \in {"start"} \cup WorkPhases

\* What executor w may do to itself: it works on only if it did, or if it
\* found the row queued.
OnlyQueuedBegins(w) ==
  /\ \A u \in Executors \ {w} : exec'[u] = exec[u]
  /\ Working(exec'[w]) =>
       /\ exec'[w].job = exec[w].job
       /\ Working(exec[w]) \/ status[exec[w].job] = "queued"

LEMMA AbortStops ==
  ASSUME IInv, NEW w \in Executors, Abort(w)
  PROVE  OnlyQueuedBegins(w)
<1>1. exec \in [Executors -> ExecState] /\ exec[w] \in ExecState
  BY ExecFacts
<1>2. PICK e \in {IdleExec, Failing(exec[w])} : exec' = [exec EXCEPT ![w] = e]
  BY DEF Abort
<1>3. IdleExec.pc = "idle" /\ Failing(exec[w]).pc = "fail"
  BY <1>1 DEF IdleExec, Failing, ExecState
<1>4. exec'[w] = e /\ \A u \in Executors \ {w} : exec'[u] = exec[u]
  BY <1>1, <1>2
<1> QED BY <1>2, <1>3, <1>4 DEF OnlyQueuedBegins, Working

\* A step that keeps the job and moves to phase p.
LEMMA PhaseStarts ==
  ASSUME IInv, NEW w \in Executors, NEW e \in ExecState,
         exec' = [exec EXCEPT ![w] = e], e.job = exec[w].job,
         Working(e) => Working(exec[w]) \/ status[exec[w].job] = "queued"
  PROVE  OnlyQueuedBegins(w)
<1>1. exec \in [Executors -> ExecState]
  BY ExecFacts
<1>2. exec'[w] = e /\ \A u \in Executors \ {w} : exec'[u] = exec[u]
  BY <1>1
<1> QED BY <1>2 DEF OnlyQueuedBegins

LEMMA PhaseOf ==
  ASSUME IInv, NEW w \in Executors, NEW p \in ExecPhases, Advance(w, p),
         p \in {"start"} \cup WorkPhases =>
           Working(exec[w]) \/ status[exec[w].job] = "queued"
  PROVE  OnlyQueuedBegins(w)
<1> DEFINE e == [exec[w] EXCEPT !.pc = p]
<1>1. exec \in [Executors -> ExecState] /\ exec[w] \in ExecState
  BY ExecFacts
<1>2. e \in ExecState /\ e.job = exec[w].job /\ e.pc = p
  BY <1>1 DEF ExecState
<1>3. exec' = [exec EXCEPT ![w] = e]
  BY <1>1 DEF Advance
<1> HIDE DEF e
<1>4. Working(e) => Working(exec[w]) \/ status[exec[w].job] = "queued"
  BY <1>2 DEF Working
<1> QED BY <1>2, <1>3, <1>4, PhaseStarts

LEMMA ExecStepBegins ==
  ASSUME IInv, NEW w \in Executors,
         \/ ExecStep(w) \/ RefuseRun(w) \/ WorkError(w)
         \/ ExecutorLost(w) \/ ChannelLost(w)
  PROVE  OnlyQueuedBegins(w)
<1>1. exec \in [Executors -> ExecState] /\ exec[w] \in ExecState
  BY ExecFacts
<1>2. CASE Deliver(w)
  <2>1. PICK j \in Jobs : exec' = [exec EXCEPT ![w] = Begun(j, TRUE, FALSE)]
    BY <1>2 DEF Deliver
  <2>2. Begun(j, TRUE, FALSE).pc = "begin"
    BY DEF Begun
  <2> QED BY <1>1, <2>1, <2>2 DEF OnlyQueuedBegins, Working
<1>3. CASE BeginRun(w)
  <2>1. CASE Accepted(w) /\ Advance(w, "start")
    BY <2>1, PhaseOf DEF Accepted
  <2>2. CASE Abort(w)
    BY <2>2, AbortStops
  <2> QED BY <1>3, <2>1, <2>2 DEF BeginRun
<1>4. CASE StartRun(w)
  <2>1. PICK p \in ExecPhases : Advance(w, p)
    BY <1>4 DEF StartRun
  <2>2. Working(exec[w])
    BY <1>4 DEF StartRun, Working
  <2> QED BY <2>1, <2>2, PhaseOf
<1>5. CASE CheckFile(w)
  <2>1. Working(exec[w])
    BY <1>5 DEF CheckFile, Working
  <2>2. CASE exec' = [exec EXCEPT ![w].next = @ + 1]
    <3> DEFINE e == [exec[w] EXCEPT !.next = @ + 1]
    <3>1. e \in ExecState /\ e.job = exec[w].job
      BY <1>1 DEF ExecState
    <3>2. exec' = [exec EXCEPT ![w] = e]
      BY <1>1, <2>2
    <3> HIDE DEF e
    <3> QED BY <2>1, <3>1, <3>2, PhaseStarts
  <2>3. CASE Advance(w, "commit") \/ Advance(w, "insert")
    BY <2>1, <2>3, PhaseOf
  <2> QED BY <1>5, <2>2, <2>3 DEF CheckFile
<1>6. CASE InsertDocument(w)
  <2>1. Working(exec[w])
    BY <1>6 DEF InsertDocument, Working
  <2>2. CASE Abort(w)
    BY <2>2, AbortStops
  <2>3. CASE ~ Abort(w)
    <3>1. exec'[w].job = exec[w].job /\ \A u \in Executors \ {w} : exec'[u] = exec[u]
      BY <1>1, <1>6, <2>3 DEF InsertDocument, ExecState
    <3> QED BY <2>1, <3>1 DEF OnlyQueuedBegins
  <2> QED BY <2>2, <2>3
<1>7. CASE DeadlockVictim(w) \/ RefuseRun(w) \/ WorkError(w)
  BY <1>7, AbortStops DEF DeadlockVictim, RefuseRun, WorkError
<1>8. CASE CommitRun(w) \/ FailCommit(w)
  <2>1. exec' = [exec EXCEPT ![w] = Finished(@)] /\ exec[w].pc # "idle"
    BY <1>8 DEF CommitRun, FailCommit
  <2>2. Finished(exec[w]).pc \in {"idle", "ack"}
    BY <1>1, <2>1, ExecFacts, FinishedOK
  <2> QED BY <1>1, <2>1, <2>2 DEF OnlyQueuedBegins, Working
<1>9. CASE FailSelect(w)
  <2>1. /\ exec'[w].pc = "failUpdate"
        /\ \A u \in Executors \ {w} : exec'[u] = exec[u]
    BY <1>1, <1>9 DEF FailSelect, ExecState
  <2> QED BY <2>1 DEF OnlyQueuedBegins, Working
<1>10. CASE FailUpdate(w)
  BY <1>10, PhaseOf DEF FailUpdate
<1>11. CASE Acknowledge(w) \/ ExecutorLost(w)
  <2>1. exec' = [exec EXCEPT ![w] = IdleExec] /\ IdleExec.pc = "idle"
    BY <1>11 DEF Acknowledge, ExecutorLost, IdleExec
  <2> QED BY <1>1, <2>1 DEF OnlyQueuedBegins, Working
<1>12. CASE ChannelLost(w)
  <2> DEFINE e == [exec[w] EXCEPT !.tagged = FALSE]
  <2>1. e \in ExecState /\ e.job = exec[w].job /\ e.pc = exec[w].pc
    BY <1>1 DEF ExecState
  <2>2. exec' = [exec EXCEPT ![w] = e]
    BY <1>1, <1>12 DEF ChannelLost
  <2> HIDE DEF e
  <2>3. Working(e) => Working(exec[w])
    BY <2>1 DEF Working
  <2> QED BY <2>1, <2>2, <2>3, PhaseStarts
<1> QED BY <1>2, <1>3, <1>4, <1>5, <1>6, <1>7, <1>8, <1>9, <1>10, <1>11, <1>12
        DEF ExecStep

\* A step of anybody: executors that work on a job did so before, unless the
\* row is queued.
LEMMA WorkBegins ==
  ASSUME IInv, [Next]_vars, NEW u \in Executors, Working(exec'[u])
  PROVE  \/ exec'[u].job = exec[u].job /\ Working(exec[u])
         \/ status[exec'[u].job] = "queued"
<1>1. CASE exec' = exec
  BY <1>1
<1>2. ASSUME NEW w \in Executors, OnlyQueuedBegins(w)
      PROVE  \/ exec'[u].job = exec[u].job /\ Working(exec[u])
             \/ status[exec'[u].job] = "queued"
  BY <1>2 DEF OnlyQueuedBegins
<1>3. ASSUME NEW r \in Requests, NEW w \in Executors, SubmitInline(r, w)
      PROVE  exec'[u] = exec[u]
  <2>1. PICK j \in Jobs : exec' = [exec EXCEPT ![w] = Begun(j, FALSE, TRUE)]
    BY <1>3 DEF SubmitInline
  <2>2. ~ Working(Begun(j, FALSE, TRUE))
    BY DEF Working, Begun
  <2>3. exec \in [Executors -> ExecState]
    BY ExecFacts
  <2> QED BY <2>1, <2>2, <2>3
<1>4. ASSUME NEW r \in Requests, ClientStep(r) \/ RequestStep(r)
      PROVE  exec' = exec \/ exec'[u] = exec[u]
  BY <1>3, <1>4 DEF ClientStep, RequestStep, CreateJob, SubmitJob, RetryRead,
     TransitionRead, DispatchJob, RetryCommit, TransitionSelect,
     TransitionUpdate, TransitionCommit
<1>5. ASSUME NEW w \in Executors, ExecStep(w) PROVE OnlyQueuedBegins(w)
  BY <1>5, ExecStepBegins
<1>6. ASSUME Fault
      PROVE  exec' = exec \/ \E w \in Executors : OnlyQueuedBegins(w)
  BY <1>6, ExecStepBegins DEF Fault, RequestLost
<1> QED BY <1>1, <1>2, <1>4, <1>5, <1>6 DEF Next, Quiet, vars

LEMMA SettledStep ==
  ASSUME IInv, [Next]_vars, NEW j \in Jobs, Settled(j)
  PROVE  Settled(j)'
<1>1. status'[j] \notin {"none", "queued"}
  BY StatusAdvances DEF Settled
<1>2. ASSUME NEW u \in Executors, exec'[u].job = j, Working(exec'[u])
      PROVE  FALSE
  BY <1>2, WorkBegins DEF Settled, Working
<1> QED BY <1>1, <1>2 DEF Settled, Working

\* Once a job has left the queue and nobody works on it, no delivery, retry,
\* crash or stale request makes anybody begin its work again.
THEOREM SettledJobsStayIdle == Spec => SettledStaysIdle
<1>1. IInv /\ [Next]_vars => \A j \in Jobs : Settled(j) => Settled(j)'
  BY SettledStep
<1> QED BY <1>1, Invariance, PTL DEF Spec, SettledStaysIdle

-----------------------------------------------------------------------------
(***************************************************************************)
(* The promise.                                                            *)
(*                                                                         *)
(* CarriedOnce is inductive next to IInv: one request, message or executor *)
(* carries a queued job, so that whoever commits an outcome finds the job  *)
(* queued.                                                                 *)
(***************************************************************************)
USE DEF ExecPhases, ExecWriting, WorkPhases, RequestPhases

\* What the invariants say of rows, executors and requests.
LEMMA CarrierFacts ==
  ASSUME IInv
  PROVE  /\ status \in [Jobs -> Statuses \cup {"none"}]
         /\ ledger \in [Jobs -> Seq(LedgerEntry)]
         /\ queue \in [Jobs -> Nat] /\ crashes \in Nat /\ redeliveries \in Nat
         /\ exec \in [Executors -> ExecState] /\ request \in [Requests -> RequestState]
         /\ \A j \in Jobs : status[j] = "none" =>
              /\ queue[j] = 0
              /\ \A w \in Executors : ~ Executing(w, j)
              /\ \A r \in Requests : ~ Dispatching(r, j)
         /\ \A w \in Executors : exec[w].pc # "idle" => exec[w].job \in Jobs
         /\ \A r \in Requests : request[r].pc = "dispatch" => request[r].job \in Jobs
<1>1. /\ TypeOK /\ \A j \in Jobs : RowOK(j)
      /\ \A w \in Executors : ExecOK(exec[w])
      /\ \A r \in Requests : RequestOK(request[r])
  BY DEF IInv
<1>2. \A j \in Jobs : queue[j] \in Nat /\ (status[j] = "none" => ~ (queue[j] > 0))
  BY <1>1 DEF TypeOK, CountersTyped, RowOK
<1>3. /\ \A w \in Executors : exec[w].pc # "idle" =>
           exec[w].job \in Jobs /\ status[exec[w].job] # "none"
      /\ \A r \in Requests : request[r].pc = "dispatch" =>
           request[r].job \in Jobs /\ status[request[r].job] # "none"
  BY <1>1 DEF ExecOK, RequestOK
<1>4. \A j \in Jobs : status[j] = "none" => queue[j] = 0
  BY <1>2
<1>. QED BY <1>1, <1>3, <1>4 DEF TypeOK, RowsTyped, ExecsTyped, RequestsTyped,
            CountersTyped, Executing, Dispatching

-----------------------------------------------------------------------------
(***************************************************************************)
(* Steps that change no status.                                            *)
(***************************************************************************)

\* An executor that goes on with its job, or gives it up.
LEMMA ExecutorMoves ==
  ASSUME IInv, CarriedOnce, NEW w \in Executors, NEW e,
         exec' = [exec EXCEPT ![w] = e], UNCHANGED <<status, queue, request>>,
         exec[w].pc # "idle",
         e.pc # "idle" => e.job = exec[w].job /\ exec[w].pc # "ack",
         e.pc \in {"failUpdate", "failCommit"} => e.seen = "queued"
  PROVE  CarriedOnce'
<1>1. exec'[w] = e /\ \A u \in Executors \ {w} : exec'[u] = exec[u]
  BY CarrierFacts
<1>2. \A u \in Executors, j \in Jobs : Executing(u, j)' => Executing(u, j)
  BY <1>1 DEF Executing
<1>3. \A r \in Requests, j \in Jobs : Dispatching(r, j)' <=> Dispatching(r, j)
  BY DEF Dispatching
<1>4. ASSUME NEW j \in Jobs PROVE OneCarrier(j)'
  BY <1>2, <1>3 DEF CarriedOnce, OneCarrier
<1>5. ASSUME NEW j \in Jobs PROVE FinishedAlone(j)'
  <2>1. ASSUME status[j] # "queued", NEW u \in Executors, Executing(u, j)'
        PROVE  exec'[u].pc = "ack"
    <3>1. Executing(u, j) /\ exec[u].pc = "ack"
      BY <1>2, <2>1 DEF CarriedOnce, FinishedAlone
    <3>2. u # w
      BY <1>1, <2>1, <3>1 DEF Executing
    <3>. QED BY <1>1, <3>1, <3>2
  <2>. QED BY <1>3, <2>1 DEF CarriedOnce, FinishedAlone
<1>. QED BY <1>1, <1>4, <1>5 DEF CarriedOnce

LEMMA ExecutorAborts ==
  ASSUME IInv, CarriedOnce, NEW w \in Executors, Abort(w),
         exec[w].pc \notin {"idle", "ack"}, UNCHANGED <<status, queue, request>>
  PROVE  CarriedOnce'
<1>1. PICK e \in {IdleExec, Failing(exec[w])} : exec' = [exec EXCEPT ![w] = e]
  BY DEF Abort
<1>2. exec[w] \in ExecState
  BY CarrierFacts
<1>3. /\ IdleExec.pc = "idle"
      /\ Failing(exec[w]).pc = "fail" /\ Failing(exec[w]).job = exec[w].job
  BY <1>2 DEF IdleExec, Failing, ExecState
<1>. QED BY <1>1, <1>3, ExecutorMoves

LEMMA ExecutorAdvances ==
  ASSUME IInv, CarriedOnce, NEW w \in Executors, NEW p \in ExecPhases, Advance(w, p),
         exec[w].pc \notin {"idle", "ack"}, UNCHANGED <<status, queue, request>>,
         p \in {"failUpdate", "failCommit"} => exec[w].seen = "queued"
  PROVE  CarriedOnce'
<1>. DEFINE e == [exec[w] EXCEPT !.pc = p]
<1>1. exec[w] \in ExecState /\ exec' = [exec EXCEPT ![w] = e]
  BY CarrierFacts DEF Advance
<1>2. e.job = exec[w].job /\ e.seen = exec[w].seen /\ e.pc = p
  BY <1>1 DEF ExecState
<1>. HIDE DEF e
<1>. QED BY <1>1, <1>2, ExecutorMoves

LEMMA ExecutorStep ==
  ASSUME IInv, CarriedOnce, NEW w \in Executors,
         \/ BeginRun(w) \/ RefuseRun(w) \/ StartRun(w) \/ CheckFile(w)
         \/ InsertDocument(w) \/ DeadlockVictim(w) \/ WorkError(w)
         \/ FailSelect(w) \/ FailUpdate(w) \/ Acknowledge(w)
  PROVE  CarriedOnce' /\ UNCHANGED <<status, ledger>>
<1>1. /\ UNCHANGED <<status, ledger, queue, request>>
      /\ exec[w] \in ExecState /\ exec \in [Executors -> ExecState]
  BY CarrierFacts DEF BeginRun, RefuseRun, StartRun, CheckFile, InsertDocument,
     DeadlockVictim, WorkError, FailSelect, FailUpdate, Acknowledge, rows
<1>2. CASE BeginRun(w)
  BY <1>1, <1>2, ExecutorAborts, ExecutorAdvances DEF BeginRun
<1>3. CASE RefuseRun(w) \/ WorkError(w)
  BY <1>1, <1>3, ExecutorAborts DEF RefuseRun, WorkError
<1>4. CASE StartRun(w)
  <2>1. PICK p \in WorkPhases : Advance(w, p) /\ exec[w].pc = "start"
    BY <1>4 DEF StartRun
  <2>. QED BY <1>1, <2>1, ExecutorAdvances
<1>5. ASSUME NEW e \in ExecState, exec' = [exec EXCEPT ![w] = e],
             exec[w].pc \in {"check", "insert"}, e.pc \in WorkPhases,
             e.job = exec[w].job
      PROVE  CarriedOnce'
  BY <1>1, <1>5, ExecutorMoves
<1>6. CASE CheckFile(w)
  <2>1. CASE Advance(w, "commit") \/ Advance(w, "insert")
    BY <1>1, <1>6, <2>1, ExecutorAdvances DEF CheckFile
  <2>2. CASE exec' = [exec EXCEPT ![w].next = @ + 1]
    <3>. DEFINE e == [exec[w] EXCEPT !.next = @ + 1]
    <3>1. e \in ExecState /\ e.pc = exec[w].pc /\ e.job = exec[w].job
      BY <1>1 DEF ExecState
    <3>2. exec' = [exec EXCEPT ![w] = e]
      BY <1>1, <2>2
    <3>3. exec[w].pc = "check"
      BY <1>6 DEF CheckFile
    <3>. HIDE DEF e
    <3>. QED BY <1>1, <1>5, <3>1, <3>2, <3>3
  <2>. QED BY <1>6, <2>1, <2>2 DEF CheckFile
<1>7. CASE InsertDocument(w)
  <2>1. CASE Abort(w)
    BY <1>1, <1>7, <2>1, ExecutorAborts DEF InsertDocument
  <2>2. CASE ~ Abort(w)
    <3>. DEFINE e == [exec[w] EXCEPT !.pending = @ \cup {FileOf(w)}, !.next = @ + 1,
                        !.pc = IF KindOf(w) = "scan" THEN "check" ELSE "commit"]
    <3>1. e.pc \in {"check", "commit"} /\ e.job = exec[w].job
      BY <1>1 DEF ExecState
    <3>2. exec' = [exec EXCEPT ![w] = e] /\ exec[w].pc = "insert"
      BY <1>1, <1>7, <2>2 DEF InsertDocument
    <3>. HIDE DEF e
    <3>. QED BY <1>1, <3>1, <3>2, ExecutorMoves
  <2>. QED BY <2>1, <2>2
<1>8. CASE DeadlockVictim(w)
  <2>1. exec[w].pc = "insert" /\ Abort(w)
    BY <1>8 DEF DeadlockVictim, Blocks
  <2>. QED BY <1>1, <2>1, ExecutorAborts
<1>9. CASE FailSelect(w)
  <2>. DEFINE e == [exec[w] EXCEPT !.pc = "failUpdate", !.seen = status[exec[w].job]]
  <2>1. e.job = exec[w].job /\ e.pc = "failUpdate" /\ e.seen = status[exec[w].job]
    BY <1>1 DEF ExecState
  <2>2. exec' = [exec EXCEPT ![w] = e] /\ exec[w].pc = "fail"
    BY <1>1, <1>9 DEF FailSelect
  <2>3. status[exec[w].job] = "queued"
    <3>1. exec[w].job \in Jobs /\ Executing(w, exec[w].job)
      BY <2>2, CarrierFacts DEF Executing
    <3>. QED BY <2>2, <3>1 DEF CarriedOnce, FinishedAlone
  <2>. HIDE DEF e
  <2>. QED BY <1>1, <2>1, <2>2, <2>3, ExecutorMoves
<1>10. CASE FailUpdate(w)
  BY <1>1, <1>10, ExecutorAdvances DEF FailUpdate, CarriedOnce
<1>11. CASE Acknowledge(w)
  BY <1>1, <1>11, ExecutorMoves DEF Acknowledge, IdleExec
<1>. QED BY <1>1, <1>2, <1>3, <1>4, <1>6, <1>7, <1>8, <1>9, <1>10, <1>11

\* A message goes from the request to the queue, and from there to an executor.
LEMMA DispatchCarries ==
  ASSUME IInv, CarriedOnce, NEW r \in Requests, DispatchJob(r)
  PROVE  CarriedOnce' /\ UNCHANGED <<status, ledger>>
<1>. DEFINE k == request[r].job
<1>1. /\ UNCHANGED <<status, ledger, exec>> /\ request[r].pc = "dispatch" /\ k \in Jobs
      /\ queue' = [queue EXCEPT ![k] = @ + 1]
      /\ request' = [request EXCEPT ![r].pc = "done"]
      /\ queue \in [Jobs -> Nat] /\ request \in [Requests -> RequestState]
  BY CarrierFacts DEF DispatchJob, rows
<1>2. /\ request'[r].pc = "done" /\ \A s \in Requests \ {r} : request'[s] = request[s]
      /\ \A s \in Requests, j \in Jobs :
           Dispatching(s, j)' => Dispatching(s, j) /\ s # r
      /\ \A w \in Executors, j \in Jobs : Executing(w, j)' <=> Executing(w, j)
  BY <1>1 DEF Dispatching, Executing, RequestState
<1>3. Dispatching(r, k) /\ queue[k] = 0 /\ queue'[k] = 1
  BY <1>1 DEF Dispatching, CarriedOnce, OneCarrier
<1>4. \A j \in Jobs \ {k} : queue'[j] = queue[j]
  BY <1>1
<1>5. ASSUME NEW j \in Jobs PROVE OneCarrier(j)'
  <2>1. CASE j = k
    BY <1>2, <1>3, <2>1 DEF CarriedOnce, OneCarrier
  <2>2. CASE j # k
    BY <1>2, <1>4, <2>2 DEF CarriedOnce, OneCarrier
  <2>. QED BY <2>1, <2>2
<1>6. ASSUME NEW j \in Jobs PROVE FinishedAlone(j)'
  <2>1. status[j] # "queued" => j # k
    BY <1>3 DEF CarriedOnce, FinishedAlone
  <2>. QED BY <1>1, <1>2, <1>4, <2>1 DEF CarriedOnce, FinishedAlone
<1>. QED BY <1>1, <1>2, <1>5, <1>6 DEF CarriedOnce

LEMMA DeliverCarries ==
  ASSUME IInv, CarriedOnce, NEW w \in Executors, Deliver(w)
  PROVE  CarriedOnce' /\ UNCHANGED <<status, ledger>>
<1>1. PICK k \in Jobs : /\ queue[k] > 0 /\ queue' = [queue EXCEPT ![k] = @ - 1]
                        /\ exec' = [exec EXCEPT ![w] = Begun(k, TRUE, FALSE)]
  BY DEF Deliver
<1>2. /\ UNCHANGED <<status, ledger, request>>
      /\ queue \in [Jobs -> Nat] /\ exec \in [Executors -> ExecState]
  BY CarrierFacts DEF Deliver, rows
<1>3. queue[k] = 1 /\ queue'[k] = 0 /\ \A j \in Jobs \ {k} : queue'[j] = queue[j]
  <2>1. queue[k] \in Nat /\ queue[k] <= 1
    BY <1>2 DEF CarriedOnce, OneCarrier
  <2>. QED BY <1>1, <1>2, <2>1
<1>4. /\ exec'[w].pc = "begin" /\ exec'[w].job = k
      /\ \A u \in Executors \ {w} : exec'[u] = exec[u]
  BY <1>1, <1>2 DEF Begun
<1>5. /\ \A r \in Requests, j \in Jobs : Dispatching(r, j)' <=> Dispatching(r, j)
      /\ \A u \in Executors, j \in Jobs :
           Executing(u, j)' => Executing(u, j) \/ (u = w /\ j = k)
      /\ \A u \in Executors : ~ Executing(u, k)
      /\ \A r \in Requests : ~ Dispatching(r, k)
      /\ status[k] = "queued"
  BY <1>2, <1>3, <1>4 DEF Dispatching, Executing, CarriedOnce, OneCarrier, FinishedAlone
<1>6. ASSUME NEW j \in Jobs PROVE OneCarrier(j)'
  <2>1. CASE j = k
    BY <1>3, <1>5, <2>1 DEF OneCarrier
  <2>2. CASE j # k
    BY <1>3, <1>5, <2>2 DEF CarriedOnce, OneCarrier
  <2>. QED BY <2>1, <2>2
<1>7. ASSUME NEW j \in Jobs PROVE FinishedAlone(j)'
  <2>1. \A u \in Executors : Executing(u, j)' /\ j # k => exec'[u] = exec[u]
    BY <1>4 DEF Executing
  <2>. QED BY <1>2, <1>3, <1>5, <2>1 DEF CarriedOnce, FinishedAlone
<1>. QED BY <1>2, <1>4, <1>6, <1>7 DEF CarriedOnce

\* A request that reads, is lost or ends.
LEMMA RequestRests ==
  ASSUME IInv, CarriedOnce, NEW r \in Requests, RetryRead(r) \/ RequestLost(r)
  PROVE  CarriedOnce' /\ UNCHANGED <<status, ledger>>
<1>1. UNCHANGED <<status, ledger, queue, exec>>
  BY DEF RetryRead, RequestLost, rows
<1>2. /\ request'[r].pc \in {"retry", "done"}
      /\ \A s \in Requests \ {r} : request'[s] = request[s]
  BY CarrierFacts DEF RetryRead, RequestLost, RequestState
<1>3. /\ \A s \in Requests, j \in Jobs : Dispatching(s, j)' => Dispatching(s, j)
      /\ \A w \in Executors, j \in Jobs : Executing(w, j)' <=> Executing(w, j)
  BY <1>1, <1>2 DEF Dispatching, Executing
<1>4. ASSUME NEW j \in Jobs PROVE OneCarrier(j)' /\ FinishedAlone(j)'
  BY <1>1, <1>3 DEF CarriedOnce, OneCarrier, FinishedAlone
<1>. QED BY <1>1, <1>2, <1>4 DEF CarriedOnce

-----------------------------------------------------------------------------
(***************************************************************************)
(* Steps that queue a job.                                                 *)
(***************************************************************************)

\* A new job has at most the carrier that its request gives it.
LEMMA InsertCarries ==
  ASSUME IInv, CarriedOnce, NEW j \in Jobs, NEW f, NEW o, InsertJob(j, f, o),
         UNCHANGED queue,
         NEW r \in Requests, NEW q, request' = [request EXCEPT ![r] = q],
         q.pc \in {"dispatch", "done"}, q.pc = "dispatch" => q.job = j,
         \/ UNCHANGED exec
         \/ q.pc = "done" /\ \E w \in Executors :
              exec[w].pc = "idle" /\ exec' = [exec EXCEPT ![w] = Begun(j, FALSE, TRUE)]
  PROVE  CarriedOnce' /\ Promise!Submit(j)
<1>1. /\ status[j] = "none" /\ status' = [status EXCEPT ![j] = "queued"]
      /\ UNCHANGED ledger /\ status \in [Jobs -> Statuses \cup {"none"}]
  BY CarrierFacts DEF InsertJob
<1>2. Promise!Submit(j)
  BY <1>1 DEF Promise!Submit, Completions
<1>3. /\ queue[j] = 0
      /\ \A u \in Executors : ~ Executing(u, j)
      /\ \A s \in Requests : ~ Dispatching(s, j)
  BY <1>1, CarrierFacts
<1>4. /\ request'[r] = q /\ \A s \in Requests \ {r} : request'[s] = request[s]
      /\ \A s \in Requests, k \in Jobs \ {j} : Dispatching(s, k)' => Dispatching(s, k)
      /\ \A s \in Requests : Dispatching(s, j)' => s = r /\ q.pc = "dispatch"
  BY <1>3, CarrierFacts DEF Dispatching
<1>. DEFINE new == Begun(j, FALSE, TRUE)
<1>A. new.job = j /\ new.pc = "begin"
  BY DEF Begun
<1>. HIDE DEF new
<1>B. PICK w : \A u \in Executors :
         exec'[u] = exec[u] \/ (u = w /\ exec'[u] = new /\ q.pc = "done")
  <2>1. CASE UNCHANGED exec
    BY <2>1
  <2>2. CASE q.pc = "done" /\ \E w \in Executors : exec' = [exec EXCEPT ![w] = new]
    BY <2>2, CarrierFacts
  <2>. QED BY <2>1, <2>2 DEF new
<1>5. /\ \A u \in Executors, k \in Jobs \ {j} :
           Executing(u, k)' => Executing(u, k) /\ exec'[u] = exec[u]
      /\ \A u \in Executors : Executing(u, j)' => u = w /\ q.pc = "done"
  BY <1>3, <1>A, <1>B DEF Executing
<1>6. ASSUME NEW k \in Jobs PROVE OneCarrier(k)'
  <2>1. CASE k = j
    BY <1>3, <1>4, <1>5, <2>1 DEF OneCarrier
  <2>2. CASE k # j
    BY <1>4, <1>5, <2>2 DEF CarriedOnce, OneCarrier
  <2>. QED BY <2>1, <2>2
<1>7. ASSUME NEW k \in Jobs PROVE FinishedAlone(k)'
  <2>1. CASE k = j
    BY <1>1, <2>1 DEF FinishedAlone
  <2>2. CASE k # j
    <3>1. status'[k] = status[k]
      BY <1>1, <2>2
    <3>. QED BY <1>4, <1>5, <2>2, <3>1 DEF CarriedOnce, FinishedAlone
  <2>. QED BY <2>1, <2>2
<1>8. \A k \in Jobs : status'[k] \in {"none", "queued", "succeeded", "failed"}
  BY <1>1 DEF CarriedOnce
<1>9. \A u \in Executors : exec'[u].pc \in {"failUpdate", "failCommit"} => exec'[u] = exec[u]
  BY <1>A, <1>B
<1>. QED BY <1>2, <1>4, <1>6, <1>7, <1>8, <1>9 DEF CarriedOnce

LEMMA RequestStepsSubmit ==
  ASSUME IInv, CarriedOnce, NEW r \in Requests,
         \/ CreateJob(r) \/ SubmitJob(r) \/ RetryCommit(r)
         \/ \E w \in Executors : SubmitInline(r, w)
  PROVE  CarriedOnce' /\ \E j \in Jobs : Promise!Submit(j)
<1>1. request \in [Requests -> RequestState] /\ request[r] \in RequestState
  BY CarrierFacts
<1>2. ASSUME NEW pc \in {"dispatch", "done"}, NEW j \in Jobs \cup {NoJob}
      PROVE  \E q \in RequestState :
               /\ q.pc = pc /\ q.job = j
               /\ [request EXCEPT ![r].pc = pc, ![r].job = j] = [request EXCEPT ![r] = q]
  <2>. DEFINE q == [request[r] EXCEPT !.pc = pc, !.job = j]
  <2>1. q \in RequestState /\ q.pc = pc /\ q.job = j
    BY <1>1 DEF RequestState
  <2>2. [request EXCEPT ![r].pc = pc, ![r].job = j] = [request EXCEPT ![r] = q]
    BY <1>1
  <2>. HIDE DEF q
  <2>. QED BY <2>1, <2>2
<1>3. \E q \in RequestState :
        q.pc = "done" /\ [request EXCEPT ![r].pc = "done"] = [request EXCEPT ![r] = q]
  <2>. DEFINE q == [request[r] EXCEPT !.pc = "done"]
  <2>1. q \in RequestState /\ q.pc = "done"
    BY <1>1 DEF RequestState
  <2>2. [request EXCEPT ![r].pc = "done"] = [request EXCEPT ![r] = q]
    BY <1>1
  <2>. HIDE DEF q
  <2>. QED BY <2>1, <2>2
<1>4. CASE CreateJob(r)
  <2>1. PICK j \in Jobs, f \in JobForms : InsertJob(j, f, NoJob)
    BY <1>4 DEF CreateJob
  <2>2. PICK q \in RequestState : q.pc = "done" /\ request' = [request EXCEPT ![r] = q]
    BY <1>3, <1>4 DEF CreateJob
  <2>3. UNCHANGED queue /\ UNCHANGED exec
    BY <1>4 DEF CreateJob
  <2>4. CarriedOnce' /\ Promise!Submit(j)
    BY <2>1, <2>2, <2>3, InsertCarries
  <2>. QED BY <2>4
<1>5. CASE SubmitJob(r)
  <2>1. PICK j \in Jobs, f \in JobForms :
          /\ InsertJob(j, f, NoJob)
          /\ request' = [request EXCEPT ![r].pc = "dispatch", ![r].job = j]
    BY <1>5 DEF SubmitJob
  <2>2. PICK q \in RequestState :
          q.pc = "dispatch" /\ q.job = j /\ request' = [request EXCEPT ![r] = q]
    BY <1>2, <2>1
  <2>3. UNCHANGED queue /\ UNCHANGED exec
    BY <1>5 DEF SubmitJob
  <2>4. PICK o : InsertJob(j, f, o)
    BY <2>1
  <2>5. CarriedOnce' /\ Promise!Submit(j)
    BY <2>2, <2>3, <2>4, InsertCarries
  <2>. QED BY <2>5
<1>6. CASE RetryCommit(r)
  <2>1. PICK j \in Jobs :
          /\ InsertJob(j, form[request[r].job], request[r].job)
          /\ request' = [request EXCEPT ![r].pc = "dispatch", ![r].job = j]
    BY <1>6 DEF RetryCommit
  <2>2. PICK q \in RequestState :
          q.pc = "dispatch" /\ q.job = j /\ request' = [request EXCEPT ![r] = q]
    BY <1>2, <2>1
  <2>3. UNCHANGED queue /\ UNCHANGED exec
    BY <1>6 DEF RetryCommit
  <2>4. PICK f, o : InsertJob(j, f, o)
    BY <2>1
  <2>5. CarriedOnce' /\ Promise!Submit(j)
    BY <2>2, <2>3, <2>4, InsertCarries
  <2>. QED BY <2>5
<1>7. ASSUME NEW w \in Executors, SubmitInline(r, w)
      PROVE  CarriedOnce' /\ \E j \in Jobs : Promise!Submit(j)
  <2>1. PICK j \in Jobs, f \in JobForms :
          InsertJob(j, f, NoJob) /\ exec' = [exec EXCEPT ![w] = Begun(j, FALSE, TRUE)]
    BY <1>7 DEF SubmitInline
  <2>2. PICK q \in RequestState : q.pc = "done" /\ request' = [request EXCEPT ![r] = q]
    BY <1>3, <1>7 DEF SubmitInline
  <2>3. UNCHANGED queue /\ exec[w].pc = "idle"
    BY <1>7 DEF SubmitInline
  <2>4. CarriedOnce' /\ Promise!Submit(j)
    BY <2>1, <2>2, <2>3, InsertCarries
  <2>. QED BY <2>4
<1>. QED BY <1>4, <1>5, <1>6, <1>7

-----------------------------------------------------------------------------
(***************************************************************************)
(* Steps that end a job.                                                   *)
(***************************************************************************)
LEMMA EndCarries ==
  ASSUME IInv, CarriedOnce, NEW w \in Executors, NEW j \in Jobs, j = exec[w].job,
         exec[w].pc \in {"commit", "failCommit"}, NEW end \in {"succeeded", "failed"},
         status' = [status EXCEPT ![j] = end],
         exec' = [exec EXCEPT ![w] = Finished(@)], UNCHANGED <<queue, request>>
  PROVE  CarriedOnce' /\ status[j] = "queued"
<1>1. /\ exec \in [Executors -> ExecState] /\ exec[w] \in ExecState
      /\ status \in [Jobs -> Statuses \cup {"none"}]
  BY CarrierFacts
<1>2. Executing(w, j)
  BY DEF Executing
<1>3. /\ status[j] = "queued" /\ queue[j] # 1 /\ queue[j] <= 1
      /\ \A r \in Requests : ~ Dispatching(r, j)
      /\ \A u \in Executors : Executing(u, j) => u = w
  BY <1>2 DEF CarriedOnce, OneCarrier, FinishedAlone
<1>4. /\ exec'[w].pc \in {"idle", "ack"} /\ (exec'[w].pc = "ack" => exec'[w].job = j)
      /\ \A u \in Executors \ {w} : exec'[u] = exec[u]
  BY <1>1 DEF Finished, IdleExec, ExecState
<1>5. /\ \A u \in Executors, k \in Jobs : Executing(u, k)' => Executing(u, k)
      /\ \A r \in Requests, k \in Jobs : Dispatching(r, k)' <=> Dispatching(r, k)
  BY <1>2, <1>4 DEF Executing, Dispatching
<1>6. ASSUME NEW k \in Jobs PROVE OneCarrier(k)'
  BY <1>5 DEF CarriedOnce, OneCarrier
<1>7. queue[j] = 0
  <2>1. queue[j] \in Nat /\ queue[j] # 1 /\ queue[j] <= 1
    BY <1>3, CarrierFacts
  <2>. QED BY <2>1
<1>8. ASSUME NEW k \in Jobs PROVE FinishedAlone(k)'
  <2>1. CASE k = j
    BY <1>3, <1>4, <1>5, <1>7, <2>1 DEF FinishedAlone, Executing
  <2>2. CASE k # j
    <3>1. status'[k] = status[k] /\ (Executing(w, k)' => FALSE)
      BY <1>1, <1>4, <2>2 DEF Executing
    <3>. QED BY <1>4, <1>5, <3>1 DEF CarriedOnce, FinishedAlone
  <2>. QED BY <2>1, <2>2
<1>9. \A k \in Jobs : status'[k] \in {"none", "queued", "succeeded", "failed"}
  BY <1>1 DEF CarriedOnce
<1>. QED BY <1>3, <1>4, <1>6, <1>8, <1>9 DEF CarriedOnce

\* The journal rows of a success hold one completion.
LEMMA CompletedEntry ==
  ASSUME NEW s \in Seq(LedgerEntry), NEW n \in Nat, n = Len(s)
  PROVE  {i \in 1..Len(s \o WorkEntries) : (s \o WorkEntries)[i].event = "completed"}
           = {i \in 1..n : s[i].event = "completed"} \cup {n + 2}
<1>1. /\ WorkEntries \in Seq(LedgerEntry) /\ Len(WorkEntries) = 3
      /\ WorkEntries[1].event # "completed" /\ WorkEntries[2].event = "completed"
      /\ WorkEntries[3].event # "completed"
  BY DEF WorkEntries, Entry, LedgerEntry, Events, Outcomes, Statuses
<1>. DEFINE t == s \o WorkEntries
<1>2. /\ Len(t) = n + 3
      /\ \A i \in 1..n + 3 : t[i] = IF i <= n THEN s[i] ELSE WorkEntries[i - n]
  <2>1. /\ Len(t) = Len(s) + Len(WorkEntries)
        /\ \A i \in 1..Len(s) + Len(WorkEntries) :
             t[i] = IF i <= Len(s) THEN s[i] ELSE WorkEntries[i - Len(s)]
    BY <1>1, ConcatProperties
  <2>. QED BY <1>1, <2>1
<1>. HIDE DEF t
<1>3. \A i \in 1..n : i \in 1..n + 3 /\ t[i] = s[i]
  BY <1>2
<1>4. /\ t[n + 1] = WorkEntries[1] /\ t[n + 2] = WorkEntries[2]
      /\ t[n + 3] = WorkEntries[3]
  <2>1. \A k \in 1..3 : n + k \in 1..n + 3 /\ ~ (n + k <= n) /\ n + k - n = k
    OBVIOUS
  <2>. QED BY <1>2, <2>1
<1>5. \A i \in 1..n + 3 : i \in 1..n \/ i = n + 1 \/ i = n + 2 \/ i = n + 3
  OBVIOUS
<1>6. n + 2 \in 1..n + 3
  OBVIOUS
<1>. QED BY <1>1, <1>2, <1>3, <1>4, <1>5, <1>6 DEF t

\* A success adds one completion to the journal of its job.
LEMMA CommitSucceeds ==
  ASSUME IInv, CarriedOnce, NEW w \in Executors, CommitRun(w)
  PROVE  CarriedOnce' /\ \E j \in Jobs : Promise!Succeed(j)
<1>1. PICK j \in Jobs :
        /\ j = exec[w].job /\ exec[w].pc = "commit"
        /\ status' = [status EXCEPT ![j] = "succeeded"]
        /\ ledger' = [ledger EXCEPT ![j] = @ \o WorkEntries]
        /\ exec' = [exec EXCEPT ![w] = Finished(@)] /\ UNCHANGED <<queue, request>>
  BY CarrierFacts DEF CommitRun
<1>2. CarriedOnce' /\ status[j] = "queued"
  BY <1>1, EndCarries
<1>3. /\ ledger \in [Jobs -> Seq(LedgerEntry)] /\ ledger[j] \in Seq(LedgerEntry)
      /\ ledger'[j] = ledger[j] \o WorkEntries
      /\ \A k \in Jobs \ {j} : ledger'[k] = ledger[k]
  BY <1>1, CarrierFacts
<1>4. PICK n \in Nat : n = Len(ledger[j])
  BY <1>3
<1>5. Completions(j)' = Completions(j) \cup {n + 2}
  BY <1>3, <1>4, CompletedEntry DEF Completions
<1>6. Completions(j) \in SUBSET (1..n)
  BY <1>4 DEF Completions
<1>7. IsFiniteSet(Completions(j)) /\ n + 2 \notin Completions(j)
  <2>1. IsFiniteSet(1..n) /\ n + 2 \notin 1..n
    BY FS_Interval
  <2>. QED BY <1>6, <2>1, FS_Subset
<1>8. Cardinality(Completions(j)') = Cardinality(Completions(j)) + 1
  BY <1>5, <1>7, FS_AddElement
<1>9. \A k \in Jobs \ {j} : Completions(k)' = Completions(k)
  BY <1>3 DEF Completions
<1>10. [k \in Jobs |-> Cardinality(Completions(k))]' =
         [[k \in Jobs |-> Cardinality(Completions(k))] EXCEPT ![j] = @ + 1]
  BY <1>8, <1>9
<1>11. Promise!Succeed(j)
  BY <1>1, <1>2, <1>10 DEF Promise!Succeed
<1>. QED BY <1>2, <1>11

\* A failure adds none.
LEMMA FailureFails ==
  ASSUME IInv, CarriedOnce, NEW w \in Executors, FailCommit(w)
  PROVE  CarriedOnce' /\ \E j \in Jobs : Promise!Fail(j)
<1>1. exec[w].pc = "failCommit" /\ exec[w].seen = "queued"
  BY DEF FailCommit, CarriedOnce
<1>. DEFINE failed == Entry("failed", "unrecorded")
<1>2. PICK j \in Jobs :
        /\ j = exec[w].job
        /\ status' = [status EXCEPT ![j] = "failed"]
        /\ ledger' = [ledger EXCEPT ![j] = Append(@, failed)]
        /\ exec' = [exec EXCEPT ![w] = Finished(@)] /\ UNCHANGED <<queue, request>>
  BY <1>1, CarrierFacts DEF FailCommit, Written
<1>3. CarriedOnce' /\ status[j] = "queued"
  BY <1>1, <1>2, EndCarries
<1>4. failed.event # "completed"
  BY DEF Entry
<1>. HIDE DEF failed
<1>5. /\ ledger \in [Jobs -> Seq(LedgerEntry)] /\ ledger[j] \in Seq(LedgerEntry)
      /\ ledger'[j] = Append(ledger[j], failed)
      /\ \A k \in Jobs \ {j} : ledger'[k] = ledger[k]
  BY <1>2, CarrierFacts
<1>6. PICK n \in Nat : n = Len(ledger[j])
  BY <1>5
<1>7. /\ Len(ledger'[j]) = n + 1 /\ ledger'[j][n + 1] = failed
      /\ \A i \in 1..n : ledger'[j][i] = ledger[j][i]
  BY <1>5, <1>6
<1>8. \A i \in 1..n + 1 : i \in 1..n \/ i = n + 1
  OBVIOUS
<1>9. \A i \in 1..n : i \in 1..n + 1
  OBVIOUS
<1>10. Completions(j)' = Completions(j)
  BY <1>4, <1>6, <1>7, <1>8, <1>9 DEF Completions
<1>11. \A k \in Jobs : Completions(k)' = Completions(k)
  BY <1>5, <1>10 DEF Completions
<1>12. Promise!Fail(j)
  BY <1>2, <1>3, <1>11 DEF Promise!Fail
<1>. QED BY <1>3, <1>12

-----------------------------------------------------------------------------
(***************************************************************************)
(* The theorem.                                                            *)
(***************************************************************************)
LEMMA StepRefines ==
  ASSUME OnceOnly, IInv, CarriedOnce, [Next]_vars
  PROVE  CarriedOnce' /\ [Promise!Next]_(Promise!vars)
<1>1. ASSUME UNCHANGED <<status, ledger>> PROVE UNCHANGED Promise!vars
  BY <1>1 DEF Promise!vars, Completions
<1>2. CASE UNCHANGED vars
  BY <1>1, <1>2 DEF vars, rows, CarriedOnce, OneCarrier, FinishedAlone, Executing,
     Dispatching
<1>3. CASE \E r \in Requests :
             \/ CreateJob(r) \/ SubmitJob(r) \/ RetryCommit(r)
             \/ \E w \in Executors : SubmitInline(r, w)
  BY <1>3, RequestStepsSubmit DEF Promise!Next
<1>4. CASE \E r \in Requests : RetryRead(r) \/ RequestLost(r)
  BY <1>1, <1>4, RequestRests
<1>5. CASE \E r \in Requests : DispatchJob(r)
  BY <1>1, <1>5, DispatchCarries
<1>6. ASSUME NEW r \in Requests
      PROVE  /\ ~ TransitionRead(r) /\ ~ TransitionSelect(r)
             /\ ~ TransitionUpdate(r) /\ ~ TransitionCommit(r)
  BY DEF OnceOnly, CarriedOnce, TransitionRead, TransitionSelect, TransitionUpdate,
     TransitionCommit
<1>7. CASE \E w \in Executors : Deliver(w)
  BY <1>1, <1>7, DeliverCarries
<1>8. CASE \E w \in Executors :
             \/ BeginRun(w) \/ RefuseRun(w) \/ StartRun(w) \/ CheckFile(w)
             \/ InsertDocument(w) \/ DeadlockVictim(w) \/ WorkError(w)
             \/ FailSelect(w) \/ FailUpdate(w) \/ Acknowledge(w)
  BY <1>1, <1>8, ExecutorStep
<1>9. CASE \E w \in Executors : CommitRun(w)
  BY <1>9, CommitSucceeds DEF Promise!Next
<1>10. CASE \E w \in Executors : FailCommit(w)
  BY <1>10, FailureFails DEF Promise!Next
<1>11. ASSUME NEW w \in Executors PROVE ~ ExecutorLost(w) /\ ~ ChannelLost(w)
  <2>1. /\ crashes \in Nat /\ redeliveries \in Nat
        /\ MaxCrashes = 0 /\ MaxRedeliveries = 0
    BY CarrierFacts DEF OnceOnly
  <2>2. ~ (crashes < MaxCrashes) /\ ~ (redeliveries < MaxRedeliveries)
    BY <2>1
  <2>. QED BY <2>2 DEF ExecutorLost, ChannelLost
<1>. QED BY <1>2, <1>3, <1>4, <1>5, <1>6, <1>7, <1>8, <1>9, <1>10, <1>11
     DEF Next, ClientStep, RequestStep, ExecStep, Fault, Quiet

LEMMA InitRefines == Init => CarriedOnce /\ Promise!Init
<1>. SUFFICES ASSUME Init PROVE CarriedOnce /\ Promise!Init
  OBVIOUS
<1>1. /\ \A w \in Executors : exec[w].pc = "idle"
      /\ \A r \in Requests : request[r].pc = "idle"
      /\ \A j \in Jobs : status[j] = "none" /\ queue[j] = 0 /\ Completions(j) = {}
  BY DEF Init, IdleExec, IdleRequest, Completions
<1>2. CarriedOnce
  BY <1>1 DEF CarriedOnce, OneCarrier, FinishedAlone, Executing, Dispatching
<1>3. Promise!Init
  BY <1>1, FS_EmptySet DEF Init, Promise!Init
<1>. QED BY <1>2, <1>3

\* For any number of jobs, workers and requests: with messages delivered once
\* and no transition by hand, a client sees each job queued, then one final
\* outcome, and the work of the job (jobs/tasks.py and the service functions)
\* takes effect once if the outcome is succeeded and never otherwise.
THEOREM PromiseIsKept ==
  ASSUME OnceOnly
  PROVE  Spec => KeepsPromise
<1>1. Init => CarriedOnce /\ Promise!Init
  BY InitRefines
<1>2. IInv /\ CarriedOnce /\ [Next]_vars => CarriedOnce' /\ [Promise!Next]_(Promise!vars)
  BY OnceOnly, StepRefines
<1>. QED BY <1>1, <1>2, Invariance, PTL DEF Spec, KeepsPromise, Promise!Spec

=============================================================================
