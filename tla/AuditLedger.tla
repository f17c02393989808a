---------------------------- MODULE AuditLedger -----------------------------
(***************************************************************************)
(* The journal/progress hash chain (persistence/repositories.py) and its   *)
(* export (api/routes/audit.py).  Every transaction of the API and of the  *)
(* workers adds rows: an add takes the time, looks up the latest hashed    *)
(* row of either stream and links the new row to it.  The two look-ups are *)
(* separate statements at READ COMMITTED: each sees what is committed at   *)
(* its own moment, and the rows of its own transaction.                    *)
(*                                                                         *)
(* A hash is modelled by the row it belongs to, and a row by its           *)
(* occurred_at: the event hash covers id, time, payload and prev_hash, and *)
(* adds read distinct microseconds of one host's clock.                    *)
(***************************************************************************)
EXTENDS Naturals, FiniteSets

CONSTANTS
  Writers,     \* concurrent transactions: API requests and worker tasks
  Domains,     \* what the visibility of a row is decided by
  MaxEvents    \* bound: adds, committed or not

ASSUME LedgerConstants == MaxEvents \in Nat

VARIABLES
  clock,       \* the last time stamp taken
  committed,   \* committed rows of both streams
  writer,      \* the open transactions
  overlapped   \* history: rows whose transaction was not alone

vars == <<clock, committed, writer, overlapped>>

Streams == {"journal", "progress"}

\* prev = 0: prev_hash is NULL.
Row == [at : Nat, stream : Streams, domain : Domains, prev : Nat]

Phases == {"idle", "open", "stamped", "halfway"}

\* shared: another transaction was open at some time of this one.
Idle(d) == [pc |-> "idle", own |-> {}, at |-> 0, stream |-> "journal",
            domain |-> d, head |-> 0, shared |-> FALSE]

WriterState == [pc : Phases, own : SUBSET Row, at : Nat, stream : Streams,
                domain : Domains, head : Nat, shared : BOOLEAN]

Open(w) == writer[w].pc # "idle"

Visible(w) == committed \cup writer[w].own

\* h is the latest of the rows, 0 if there is none.
Latest(h, rs) ==
  /\ h = 0 \/ \E r \in rs : r.at = h
  /\ \A r \in rs : r.at <= h

InStream(rs, s) == {r \in rs : r.stream = s}

-----------------------------------------------------------------------------
Init ==
  /\ clock = 0 /\ committed = {} /\ overlapped = {}
  /\ \E d \in Domains : writer = [w \in Writers |-> Idle(d)]

\* Opening a transaction beside others makes all of them share time.
Shared(w) == [u \in Writers |->
  IF u # w /\ Open(u) THEN [writer[u] EXCEPT !.shared = TRUE] ELSE writer[u]]

\* The first part of an add: utc_now().
Stamp(w, s, d) ==
  /\ writer[w].pc \in {"idle", "open"}
  /\ clock < MaxEvents
  /\ clock' = clock + 1
  /\ writer' =
       [(IF Open(w) THEN writer ELSE Shared(w)) EXCEPT
          ![w].pc = "stamped", ![w].at = clock + 1, ![w].stream = s,
          ![w].domain = d,
          ![w].shared = writer[w].shared \/ \E u \in Writers \ {w} : Open(u)]
  /\ UNCHANGED <<committed, overlapped>>

\* latest_audit_event_hash, the statement on journal_events ...
ReadJournal(w) ==
  /\ writer[w].pc = "stamped"
  /\ \E h \in 0 .. clock :
       /\ Latest(h, InStream(Visible(w), "journal"))
       /\ writer' = [writer EXCEPT ![w].pc = "halfway", ![w].head = h]
  /\ UNCHANGED <<clock, committed, overlapped>>

\* Mutant: a progress row that exists hides the journal.
ReadProgressOnly(w) ==
  LET x == writer[w] IN
  /\ x.pc = "halfway"
  /\ \E h \in 0 .. clock :
       /\ Latest(h, InStream(Visible(w), "progress"))
       /\ writer' = [writer EXCEPT
            ![w].pc = "open",
            ![w].own = @ \cup {[at |-> x.at, stream |-> x.stream,
                                domain |-> x.domain,
                                prev |-> IF h > 0 THEN h ELSE x.head]}]
  /\ UNCHANGED <<clock, committed, overlapped>>

\* Mutant: the process caches the latest hash across its transactions.
ReadProgressCached(w) ==
  LET x == writer[w] IN
  /\ x.pc = "halfway"
  /\ \E h \in 0 .. clock :
       /\ Latest(h, InStream(committed \cup UNION {writer[u].own : u \in Writers},
                            "progress"))
       /\ writer' = [writer EXCEPT
            ![w].pc = "open",
            ![w].own = @ \cup {[at |-> x.at, stream |-> x.stream,
                                domain |-> x.domain,
                                prev |-> IF h > x.head THEN h ELSE x.head]}]
  /\ UNCHANGED <<clock, committed, overlapped>>

\* ... then the one on progress_events, the later of the two, and the flush.
ReadProgress(w) ==
  LET x == writer[w] IN
  /\ x.pc = "halfway"
  /\ \E h \in 0 .. clock :
       /\ Latest(h, InStream(Visible(w), "progress"))
       /\ writer' = [writer EXCEPT
            ![w].pc = "open",
            ![w].own = @ \cup {[at |-> x.at, stream |-> x.stream,
                                domain |-> x.domain,
                                prev |-> IF h > x.head THEN h ELSE x.head]}]
  /\ UNCHANGED <<clock, committed, overlapped>>

Commit(w) ==
  /\ writer[w].pc = "open"
  /\ committed' = Visible(w)
  /\ overlapped' = overlapped \cup
       (IF writer[w].shared THEN {r.at : r \in writer[w].own} ELSE {})
  /\ writer' = [writer EXCEPT ![w] = Idle(@.domain)]
  /\ UNCHANGED clock

\* __aexit__ without a commit: an exception, or the process is gone.
Rollback(w) ==
  /\ Open(w)
  /\ writer' = [writer EXCEPT ![w] = Idle(@.domain)]
  /\ UNCHANGED <<clock, committed, overlapped>>

WriterStep(w) ==
  \/ \E s \in Streams, d \in Domains : Stamp(w, s, d)
  \/ ReadJournal(w) \/ ReadProgress(w) \/ Commit(w) \/ Rollback(w)

Next == \E w \in Writers : WriterStep(w)

Spec == Init /\ [][Next]_vars

-----------------------------------------------------------------------------
(***************************************************************************)
(* The export: the newest rows of each stream that the caller may see, in  *)
(* order of time, and the places where the chain is interrupted.           *)
(***************************************************************************)
InScope(scope) == {r \in committed : r.domain \in scope}

Newest(rs, limit) ==
  {r \in rs : Cardinality({n \in rs : n.at > r.at}) < limit}

Export(limit, scope) ==
  UNION {Newest(InStream(InScope(scope), s), limit) : s \in Streams}

\* The row before r in the export.
Before(x, r, rs) ==
  x \in rs /\ x.at < r.at /\ \A y \in rs : y.at < r.at => y.at <= x.at

\* Mutant: the continuity of each stream by itself.
GapsPerStream(rs) ==
  {r \in rs : \E x \in rs :
     Before(x, r, rs) /\ x.stream = r.stream /\ r.prev # x.at}

\* The first row of an export is never a gap.
Gaps(rs) == {r \in rs : \E x \in rs : Before(x, r, rs) /\ r.prev # x.at}

-----------------------------------------------------------------------------
(***************************************************************************)
(* Properties.                                                             *)
(***************************************************************************)

\* The rows, the transactions and the clock hold values of their types.
TypeOK ==
  /\ clock \in Nat
  /\ committed \subseteq Row
  /\ writer \in [Writers -> WriterState]
  /\ overlapped \subseteq Nat

\* A committed row never links to a row that was rolled back or is still
\* uncommitted, although transactions interleave between the two look-ups.
LinkedToCommitted ==
  \A r \in committed : r.prev = 0 \/ \E x \in committed : x.at = r.prev

\* What the chain does keep with concurrent writers: a row whose transaction
\* shared its time with no other is linked to the row before it, whatever is
\* committed later.
AloneIsChained ==
  \A r \in committed : r.at \notin overlapped =>
    Latest(r.prev, {x \in committed : x.at < r.at})

\* An export without a gap omits nothing between its first and last row, at
\* any limit and for any viewer, if its rows were written alone: a missing
\* row, of another domain or cut off by the limit of one stream, always shows.
GapFreeIsComplete ==
  \A limit \in 1 .. MaxEvents, scope \in SUBSET Domains :
    LET rs == Export(limit, scope) IN
    (Gaps(rs) = {} /\ \A r \in rs : r.at \notin overlapped) =>
      \A c \in committed :
        (\E x, y \in rs : x.at < c.at /\ c.at < y.at) => c \in rs

\* "New writes append to a single journal/progress hash chain"
\* (docs/database.md:51).  No run checks this: two open transactions link to the
\* same latest row, and the complete export has a gap.
SingleChain == Gaps(committed) = {}

=============================================================================
