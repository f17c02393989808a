------------------------- MODULE AuditLedgerProofs -------------------------
(***************************************************************************)
(* Proofs about AuditLedger for any number of concurrent writers and rows. *)
(***************************************************************************)
EXTENDS AuditLedger, WellFoundedInduction, TLAPS

(***************************************************************************)
(* The inductive invariant.                                                *)
(***************************************************************************)
Pending(w) == writer[w].pc \in {"stamped", "halfway"}

\* The rows before the time t.
Below(t, rs) == {x \in rs : x.at < t}

Known(h, rs) == h = 0 \/ \E x \in rs : x.at = h

\* Times come from the clock.
Clocked ==
  /\ \A r \in committed : r.at <= clock
  /\ \A w \in Writers :
       /\ \A r \in writer[w].own : r.at <= clock
       /\ Pending(w) => writer[w].at <= clock

\* Two open transactions know of each other's time.
OverlapSeen ==
  \A w, u \in Writers : Open(w) /\ Open(u) /\ w # u => writer[w].shared

IdleIsEmpty == \A w \in Writers : ~ Open(w) => writer[w].own = {}

\* Links lead to rows the transaction can see.
LinksSeen ==
  /\ \A r \in committed : Known(r.prev, committed)
  /\ \A w \in Writers :
       /\ \A r \in writer[w].own : Known(r.prev, Visible(w))
       /\ writer[w].pc = "halfway" => Known(writer[w].head, Visible(w))

\* A transaction that was alone until now comes after everything committed,
\* and its rows and look-ups form a chain.
AloneSoFar(w) ==
  /\ \A r \in writer[w].own : \A x \in committed : x.at < r.at
  /\ \A r \in writer[w].own : Latest(r.prev, Below(r.at, Visible(w)))
  /\ Pending(w) => \A x \in Visible(w) : x.at < writer[w].at
  /\ writer[w].pc = "halfway" =>
       Latest(writer[w].head, InStream(Visible(w), "journal"))

\* Nothing that is still open comes before a row that was written alone.
NothingLate ==
  \A r \in committed : r.at \notin overlapped =>
    \A w \in Writers :
      /\ \A x \in writer[w].own : r.at < x.at
      /\ Pending(w) => r.at < writer[w].at

IInv ==
  /\ TypeOK
  /\ Clocked
  /\ OverlapSeen
  /\ IdleIsEmpty
  /\ LinksSeen
  /\ \A w \in Writers : Open(w) /\ ~ writer[w].shared => AloneSoFar(w)
  /\ NothingLate
  /\ AloneIsChained

LEMMA InitIInv == Init => IInv
<1> SUFFICES ASSUME Init PROVE IInv
  OBVIOUS
<1>1. PICK d \in Domains : writer = [w \in Writers |-> Idle(d)]
  BY DEF Init
<1>2. clock = 0 /\ committed = {} /\ overlapped = {}
  BY DEF Init
<1>3. \A w \in Writers : writer[w].pc = "idle" /\ writer[w].own = {}
  BY <1>1 DEF Idle
<1>4. TypeOK
  BY <1>1, <1>2 DEF TypeOK, Idle, WriterState, Phases, Streams
<1>5. Clocked /\ OverlapSeen /\ IdleIsEmpty /\ LinksSeen
  BY <1>2, <1>3 DEF Clocked, OverlapSeen, IdleIsEmpty, LinksSeen, Pending, Open
<1>6. NothingLate /\ AloneIsChained /\ \A w \in Writers : ~ Open(w)
  BY <1>2, <1>3 DEF NothingLate, AloneIsChained, Open
<1> QED BY <1>4, <1>5, <1>6 DEF IInv

-----------------------------------------------------------------------------
(***************************************************************************)
(* Stamp.                                                                  *)
(***************************************************************************)
LEMMA WriterFacts ==
  ASSUME TypeOK, NEW w \in Writers
  PROVE  /\ writer \in [Writers -> WriterState] /\ writer[w] \in WriterState
         /\ clock \in Nat /\ writer[w].pc \in Phases
         /\ writer[w].own \subseteq Row /\ writer[w].at \in Nat
         /\ writer[w].head \in Nat /\ writer[w].shared \in BOOLEAN
         /\ \A r \in writer[w].own : r.at \in Nat /\ r.prev \in Nat
         /\ \A r \in committed : r.at \in Nat /\ r.prev \in Nat
BY DEF TypeOK, WriterState, Row

\* The others keep all but the knowledge that they are not alone.
LEMMA SharedOf ==
  ASSUME TypeOK, NEW w \in Writers
  PROVE  /\ Shared(w) \in [Writers -> WriterState]
         /\ Shared(w)[w] = writer[w]
         /\ \A u \in Writers \ {w} :
              /\ Shared(w)[u].pc = writer[u].pc /\ Shared(w)[u].own = writer[u].own
              /\ Shared(w)[u].at = writer[u].at /\ Shared(w)[u].head = writer[u].head
              /\ Open(u) => Shared(w)[u].shared
<1>1. writer \in [Writers -> WriterState]
  BY WriterFacts
<1>2. ASSUME NEW u \in Writers
      PROVE  LET x == [writer[u] EXCEPT !.shared = TRUE] IN
             /\ x \in WriterState /\ x.pc = writer[u].pc /\ x.own = writer[u].own
             /\ x.at = writer[u].at /\ x.head = writer[u].head /\ x.shared
  BY <1>1 DEF WriterState
<1> QED BY <1>1, <1>2 DEF Shared

LEMMA StampEffect ==
  ASSUME TypeOK, OverlapSeen, NEW w \in Writers, NEW s \in Streams,
         NEW d \in Domains, Stamp(w, s, d)
  PROVE  /\ writer' \in [Writers -> WriterState]
         /\ clock' = clock + 1 /\ UNCHANGED <<committed, overlapped>>
         /\ \A u \in Writers \ {w} :
              /\ writer'[u].pc = writer[u].pc /\ writer'[u].own = writer[u].own
              /\ writer'[u].at = writer[u].at /\ writer'[u].head = writer[u].head
              /\ Open(u) => writer'[u].shared /\ writer'[w].shared
         /\ writer'[w].pc = "stamped" /\ writer'[w].own = writer[w].own
         /\ writer'[w].at = clock + 1
         /\ ~ writer'[w].shared => ~ writer[w].shared
<1> DEFINE base == IF Open(w) THEN writer ELSE Shared(w)
           alone == writer[w].shared \/ \E u \in Writers \ {w} : Open(u)
           x == [base[w] EXCEPT !.pc = "stamped", !.at = clock + 1, !.stream = s,
                                !.domain = d, !.shared = alone]
<1>1. /\ base \in [Writers -> WriterState] /\ base[w] = writer[w]
      /\ \A u \in Writers \ {w} :
           /\ base[u].pc = writer[u].pc /\ base[u].own = writer[u].own
           /\ base[u].at = writer[u].at /\ base[u].head = writer[u].head
           /\ Open(u) => base[u].shared
  <2>1. CASE Open(w)
    BY <2>1, WriterFacts DEF OverlapSeen
  <2>2. CASE ~ Open(w)
    BY <2>2, SharedOf
  <2> QED BY <2>1, <2>2
<1>2. clock' = clock + 1 /\ UNCHANGED <<committed, overlapped>>
  BY DEF Stamp
<1>3. writer' = [base EXCEPT ![w].pc = "stamped", ![w].at = clock + 1,
                             ![w].stream = s, ![w].domain = d, ![w].shared = alone]
  BY DEF Stamp
<1>4. clock + 1 \in Nat
  BY DEF TypeOK
<1>5. alone \in BOOLEAN
  BY WriterFacts
<1>6. ~ alone => ~ writer[w].shared /\ \A u \in Writers \ {w} : ~ Open(u)
  OBVIOUS
<1> HIDE DEF base, alone
<1>9. PICK y \in WriterState : y = base[w] /\ y.own = writer[w].own
  BY <1>1
<1>10. x = [y EXCEPT !.pc = "stamped", !.at = clock + 1, !.stream = s,
                     !.domain = d, !.shared = alone]
  BY <1>9
<1> HIDE DEF x
<1>11. x \in WriterState
  BY <1>4, <1>5, <1>10 DEF WriterState, Phases
<1>7. /\ x \in WriterState /\ x.pc = "stamped" /\ x.own = writer[w].own
      /\ x.at = clock + 1 /\ x.shared = alone
  BY <1>9, <1>10, <1>11 DEF WriterState
<1>8. writer' = [base EXCEPT ![w] = x]
  BY <1>1, <1>3 DEF x
<1> QED BY <1>1, <1>2, <1>6, <1>7, <1>8

LEMMA StampIInv ==
  ASSUME IInv, NEW w \in Writers, NEW s \in Streams, NEW d \in Domains,
         Stamp(w, s, d)
  PROVE  IInv'
<1>1. TypeOK /\ OverlapSeen
  BY DEF IInv
<1>2. /\ writer' \in [Writers -> WriterState]
      /\ clock' = clock + 1 /\ UNCHANGED <<committed, overlapped>>
      /\ \A u \in Writers \ {w} :
           /\ writer'[u].pc = writer[u].pc /\ writer'[u].own = writer[u].own
           /\ writer'[u].at = writer[u].at /\ writer'[u].head = writer[u].head
           /\ Open(u) => writer'[u].shared /\ writer'[w].shared
      /\ writer'[w].pc = "stamped" /\ writer'[w].own = writer[w].own
      /\ writer'[w].at = clock + 1
      /\ ~ writer'[w].shared => ~ writer[w].shared
  BY <1>1, StampEffect
<1>3. TypeOK'
  BY <1>1, <1>2 DEF TypeOK, WriterState, Row
<1>4. /\ clock \in Nat
      /\ \A r \in committed : r.at \in Nat /\ r.at <= clock
      /\ \A u \in Writers : \A r \in writer[u].own : r.at \in Nat /\ r.at <= clock
      /\ \A u \in Writers : Pending(u) => writer[u].at \in Nat /\ writer[u].at <= clock
  BY <1>1, WriterFacts DEF IInv, Clocked, TypeOK, Row
<1>5. Clocked'
  BY <1>2, <1>4 DEF Clocked, Pending
<1>6. OverlapSeen'
  BY <1>1, <1>2 DEF OverlapSeen, Open
<1>7. IdleIsEmpty'
  BY <1>2 DEF IInv, IdleIsEmpty, Open
<1>8. \A u \in Writers : Visible(u)' = Visible(u)
  BY <1>2 DEF Visible
<1>9. LinksSeen'
  BY <1>2, <1>8 DEF IInv, LinksSeen, Known
<1>10. ASSUME NEW u \in Writers, Open(u)', ~ writer'[u].shared
       PROVE  AloneSoFar(u)'
  <2>1. u = w
    BY <1>2, <1>10 DEF Open
  <2>2. CASE Open(w)
    <3>1. AloneSoFar(w)
      BY <1>2, <1>10, <2>1, <2>2 DEF IInv
    <3>2. \A x \in Visible(w) : x.at < clock + 1
      BY <1>4 DEF Visible
    <3> QED BY <1>2, <1>8, <2>1, <3>1, <3>2 DEF AloneSoFar, Pending
  <2>3. CASE ~ Open(w)
    <3>1. writer[w].own = {}
      BY <2>3 DEF IInv, IdleIsEmpty
    <3>2. \A x \in Visible(w) : x.at < clock + 1
      BY <1>4 DEF Visible
    <3> QED BY <1>2, <1>8, <2>1, <3>1, <3>2 DEF AloneSoFar, Pending
  <2> QED BY <2>2, <2>3
<1>11. NothingLate'
  BY <1>2, <1>4 DEF IInv, NothingLate, Pending
<1>12. AloneIsChained'
  BY <1>2 DEF IInv, AloneIsChained, Latest
<1> QED BY <1>3, <1>5, <1>6, <1>7, <1>9, <1>10, <1>11, <1>12 DEF IInv

-----------------------------------------------------------------------------
(***************************************************************************)
(* The look-ups.                                                           *)
(***************************************************************************)
LEMMA ReadJournalIInv ==
  ASSUME IInv, NEW w \in Writers, ReadJournal(w)
  PROVE  IInv'
<1>1. TypeOK
  BY DEF IInv
<1>2. PICK h \in 0 .. clock :
        /\ Latest(h, InStream(Visible(w), "journal"))
        /\ writer' = [writer EXCEPT ![w].pc = "halfway", ![w].head = h]
  BY DEF ReadJournal
<1>3. /\ UNCHANGED <<clock, committed, overlapped>>
      /\ writer[w].pc = "stamped"
  BY DEF ReadJournal
<1>4. /\ writer' \in [Writers -> WriterState]
      /\ \A u \in Writers \ {w} : writer'[u] = writer[u]
      /\ writer'[w].pc = "halfway" /\ writer'[w].head = h
      /\ writer'[w].own = writer[w].own /\ writer'[w].at = writer[w].at
      /\ writer'[w].shared = writer[w].shared
  <2> DEFINE x == [writer[w] EXCEPT !.pc = "halfway", !.head = h]
  <2>1. h \in Nat
    BY <1>1 DEF TypeOK
  <2>2. /\ x \in WriterState /\ x.pc = "halfway" /\ x.head = h
        /\ x.own = writer[w].own /\ x.at = writer[w].at
        /\ x.shared = writer[w].shared
    BY <1>1, <2>1, WriterFacts DEF WriterState, Phases
  <2>3. writer' = [writer EXCEPT ![w] = x]
    BY <1>1, <1>2, WriterFacts
  <2> HIDE DEF x
  <2> QED BY <1>1, <2>2, <2>3, WriterFacts
<1>5. \A u \in Writers : Visible(u)' = Visible(u) /\ (Open(u)' <=> Open(u))
  BY <1>3, <1>4 DEF Visible, Open
<1>6. TypeOK'
  BY <1>1, <1>3, <1>4 DEF TypeOK, WriterState, Row
<1>7. Clocked' /\ OverlapSeen' /\ IdleIsEmpty'
  BY <1>3, <1>4, <1>5 DEF IInv, Clocked, OverlapSeen, IdleIsEmpty, Pending
<1>8. Known(h, Visible(w))
  BY <1>2 DEF Latest, Known, InStream
<1>9. LinksSeen'
  BY <1>3, <1>4, <1>5, <1>8 DEF IInv, LinksSeen, Known
<1>10. ASSUME NEW u \in Writers, Open(u), ~ writer'[u].shared
       PROVE  AloneSoFar(u)'
  <2>1. AloneSoFar(u)
    BY <1>4, <1>10 DEF IInv
  <2>2. CASE u = w
    BY <1>2, <1>3, <1>4, <1>5, <2>1, <2>2 DEF AloneSoFar, Pending
  <2>3. CASE u # w
    BY <1>3, <1>4, <1>5, <2>1, <2>3 DEF AloneSoFar, Pending
  <2> QED BY <2>2, <2>3
<1>11. NothingLate'
  BY <1>3, <1>4 DEF IInv, NothingLate, Pending
<1>12. AloneIsChained'
  BY <1>3 DEF IInv, AloneIsChained, Latest
<1> QED BY <1>5, <1>6, <1>7, <1>9, <1>10, <1>11, <1>12 DEF IInv

LEMMA ReadProgressIInv ==
  ASSUME IInv, NEW w \in Writers, ReadProgress(w)
  PROVE  IInv'
<1>1. TypeOK
  BY DEF IInv
<1>2. PICK h \in 0 .. clock :
        /\ Latest(h, InStream(Visible(w), "progress"))
        /\ writer' = [writer EXCEPT
             ![w].pc = "open",
             ![w].own = @ \cup {[at |-> writer[w].at, stream |-> writer[w].stream,
                                 domain |-> writer[w].domain,
                                 prev |-> IF h > writer[w].head THEN h
                                          ELSE writer[w].head]}]
  BY DEF ReadProgress
<1>3. /\ UNCHANGED <<clock, committed, overlapped>>
      /\ writer[w].pc = "halfway"
  BY DEF ReadProgress
<1> DEFINE p == IF h > writer[w].head THEN h ELSE writer[w].head
           row == [at |-> writer[w].at, stream |-> writer[w].stream,
                   domain |-> writer[w].domain, prev |-> p]
           more == writer[w].own \cup {row}
<1>4. h \in Nat /\ writer[w].head \in Nat /\ p \in Nat
  BY <1>1, WriterFacts
<1>5. row \in Row /\ row.at = writer[w].at /\ row.prev = p
  BY <1>1, <1>4, WriterFacts DEF Row, WriterState
<1>6. /\ writer' \in [Writers -> WriterState]
      /\ \A u \in Writers \ {w} : writer'[u] = writer[u]
      /\ writer'[w].pc = "open" /\ writer'[w].own = more
      /\ writer'[w].shared = writer[w].shared
  <2> DEFINE x == [writer[w] EXCEPT !.pc = "open", !.own = more]
  <2>1. more \subseteq Row
    BY <1>1, <1>5, WriterFacts
  <2>2. writer' = [writer EXCEPT ![w] = x]
    BY <1>1, <1>2, WriterFacts
  <2> HIDE DEF more
  <2>3. /\ x \in WriterState /\ x.pc = "open" /\ x.own = more
        /\ x.shared = writer[w].shared
    BY <1>1, <2>1, WriterFacts DEF WriterState, Phases
  <2> HIDE DEF x
  <2> QED BY <1>1, <2>2, <2>3, WriterFacts
<1>7. /\ Visible(w)' = Visible(w) \cup {row}
      /\ \A u \in Writers \ {w} : Visible(u)' = Visible(u)
      /\ \A u \in Writers : Open(u)' <=> Open(u)
  BY <1>3, <1>6 DEF Visible, Open
<1>8. TypeOK'
  BY <1>1, <1>3, <1>6 DEF TypeOK, WriterState, Row
<1>9. /\ \A r \in Visible(w) : r.at \in Nat /\ r.stream \in Streams
      /\ writer[w].at \in Nat
  BY <1>1, WriterFacts DEF Visible, TypeOK, Row, WriterState
<1> HIDE DEF row
<1>10. Clocked' /\ OverlapSeen' /\ IdleIsEmpty'
  BY <1>3, <1>5, <1>6, <1>7
     DEF IInv, Clocked, OverlapSeen, IdleIsEmpty, Pending, Open
<1>11. Known(p, Visible(w))
  BY <1>2, <1>3 DEF IInv, LinksSeen, Latest, Known, InStream
<1>12. LinksSeen'
  <2>1. ASSUME NEW r \in more PROVE Known(r.prev, Visible(w))'
    BY <1>5, <1>7, <1>11 DEF IInv, LinksSeen, Known
  <2> QED BY <1>3, <1>6, <1>7, <2>1 DEF IInv, LinksSeen, Known
<1>13. ASSUME NEW u \in Writers, Open(u), ~ writer'[u].shared
       PROVE  AloneSoFar(u)'
  <2>1. AloneSoFar(u)
    BY <1>6, <1>13 DEF IInv
  <2>2. CASE u # w
    BY <1>3, <1>6, <1>7, <2>1, <2>2 DEF AloneSoFar, Pending
  <2>3. CASE u = w
    <3>1. /\ Latest(writer[w].head, InStream(Visible(w), "journal"))
          /\ \A x \in Visible(w) : x.at < writer[w].at
      BY <1>3, <2>1, <2>3 DEF AloneSoFar, Pending
    <3>2. Latest(p, Visible(w))
      BY <1>2, <1>4, <1>9, <1>11, <3>1 DEF Latest, InStream, Streams, Known
    <3>3. Below(row.at, Visible(w) \cup {row}) = Visible(w)
      BY <1>5, <1>9, <3>1 DEF Below
    <3>4. Latest(row.prev, Below(row.at, Visible(w)'))
      BY <1>5, <1>7, <3>2, <3>3
    <3>5. ASSUME NEW r \in writer[w].own
          PROVE  Latest(r.prev, Below(r.at, Visible(w)'))
      <4>1. r.at < row.at /\ r.at \in Nat
        BY <1>5, <1>9, <3>1 DEF Visible
      <4>2. Below(r.at, Visible(w) \cup {row}) = Below(r.at, Visible(w))
        BY <1>5, <1>9, <4>1 DEF Below
      <4> QED BY <1>7, <2>1, <2>3, <4>2 DEF AloneSoFar
    <3>6. \A r \in more : Latest(r.prev, Below(r.at, Visible(w)'))
      BY <3>4, <3>5
    <3>7. \A r \in more : \A x \in committed : x.at < r.at
      BY <1>5, <2>1, <2>3, <3>1 DEF AloneSoFar, Visible
    <3>8. ~ Pending(w)' /\ writer'[w].pc # "halfway"
      BY <1>6 DEF Pending
    <3> HIDE DEF more
    <3> QED BY <1>3, <1>6, <2>3, <3>6, <3>7, <3>8 DEF AloneSoFar, Latest, Below
  <2> QED BY <2>2, <2>3
<1>14. NothingLate'
  BY <1>3, <1>5, <1>6 DEF IInv, NothingLate, Pending
<1>15. AloneIsChained'
  BY <1>3 DEF IInv, AloneIsChained, Latest
<1> QED BY <1>7, <1>8, <1>10, <1>12, <1>13, <1>14, <1>15 DEF IInv

-----------------------------------------------------------------------------
(***************************************************************************)
(* The end of a transaction.                                               *)
(***************************************************************************)
LEMMA IdleEffect ==
  ASSUME TypeOK, NEW w \in Writers,
         writer' = [writer EXCEPT ![w] = Idle(@.domain)]
  PROVE  /\ writer' \in [Writers -> WriterState]
         /\ \A u \in Writers \ {w} : writer'[u] = writer[u]
         /\ writer'[w].pc = "idle" /\ writer'[w].own = {}
         /\ ~ Open(w)' /\ ~ Pending(w)'
<1> DEFINE x == Idle(writer[w].domain)
<1>1. x \in WriterState /\ x.pc = "idle" /\ x.own = {}
  BY WriterFacts DEF Idle, WriterState, Phases, Streams
<1>2. writer \in [Writers -> WriterState] /\ writer' = [writer EXCEPT ![w] = x]
  BY WriterFacts
<1> HIDE DEF x
<1> QED BY <1>1, <1>2 DEF Open, Pending

LEMMA RollbackIInv ==
  ASSUME IInv, NEW w \in Writers, Rollback(w)
  PROVE  IInv'
<1>1. TypeOK /\ UNCHANGED <<clock, committed, overlapped>>
  BY DEF IInv, Rollback
<1>2. /\ writer' \in [Writers -> WriterState]
      /\ \A u \in Writers \ {w} : writer'[u] = writer[u]
      /\ writer'[w].pc = "idle" /\ writer'[w].own = {}
      /\ ~ Open(w)' /\ ~ Pending(w)'
  BY <1>1, IdleEffect DEF Rollback
<1>3. TypeOK'
  BY <1>1, <1>2 DEF TypeOK, WriterState, Row
<1>4. Clocked' /\ OverlapSeen' /\ IdleIsEmpty'
  BY <1>1, <1>2 DEF IInv, Clocked, OverlapSeen, IdleIsEmpty, Pending, Open
<1>5. \A u \in Writers \ {w} : Visible(u)' = Visible(u)
  BY <1>1, <1>2 DEF Visible
<1>6. LinksSeen'
  BY <1>1, <1>2, <1>5 DEF IInv, LinksSeen, Known
<1>7. ASSUME NEW u \in Writers, Open(u)', ~ writer'[u].shared
      PROVE  AloneSoFar(u)'
  BY <1>1, <1>2, <1>5, <1>7 DEF IInv, AloneSoFar, Pending, Open
<1>8. NothingLate'
  BY <1>1, <1>2 DEF IInv, NothingLate, Pending
<1>9. AloneIsChained'
  BY <1>1 DEF IInv, AloneIsChained, Latest
<1> QED BY <1>3, <1>4, <1>6, <1>7, <1>8, <1>9 DEF IInv

LEMMA CommitIInv ==
  ASSUME IInv, NEW w \in Writers, Commit(w)
  PROVE  IInv'
<1> DEFINE own == writer[w].own
<1>1. /\ TypeOK /\ UNCHANGED clock /\ Open(w) /\ ~ Pending(w)
      /\ committed' = committed \cup own
      /\ overlapped' = overlapped \cup
           (IF writer[w].shared THEN {r.at : r \in own} ELSE {})
  BY DEF IInv, Commit, Visible, Open, Pending
<1>2. /\ writer' \in [Writers -> WriterState]
      /\ \A u \in Writers \ {w} : writer'[u] = writer[u]
      /\ writer'[w].pc = "idle" /\ writer'[w].own = {}
      /\ ~ Open(w)' /\ ~ Pending(w)'
  BY <1>1, IdleEffect DEF Commit
<1>3. /\ own \subseteq Row /\ writer[w].shared \in BOOLEAN
      /\ \A r \in own : r.at \in Nat
      /\ \A r \in committed : r.at \in Nat
  BY <1>1, WriterFacts
<1>4. TypeOK'
  <2>1. overlapped' \subseteq Nat
    <3>1. CASE writer[w].shared
      BY <1>1, <1>3, <3>1 DEF TypeOK
    <3>2. CASE ~ writer[w].shared
      BY <1>1, <1>3, <3>2 DEF TypeOK
    <3> QED BY <3>1, <3>2
  <2>2. committed' \subseteq Row
    BY <1>1, <1>3 DEF TypeOK
  <2> QED BY <1>1, <1>2, <2>1, <2>2 DEF TypeOK, WriterState, Row
<1>5. Clocked' /\ OverlapSeen' /\ IdleIsEmpty'
  BY <1>1, <1>2 DEF IInv, Clocked, OverlapSeen, IdleIsEmpty, Pending, Open
<1>6. LinksSeen'
  <2>1. \A r \in committed' : Known(r.prev, committed')
    BY <1>1 DEF IInv, LinksSeen, Known, Visible
  <2>2. ASSUME NEW u \in Writers PROVE
          /\ \A r \in writer'[u].own : Known(r.prev, Visible(u)')
          /\ writer'[u].pc = "halfway" => Known(writer'[u].head, Visible(u)')
    <3>1. CASE u = w
      BY <1>2, <3>1
    <3>2. CASE u # w
      BY <1>1, <1>2, <3>2 DEF IInv, LinksSeen, Known, Visible
    <3> QED BY <3>1, <3>2
  <2> QED BY <2>1, <2>2 DEF LinksSeen, Known
\* Whoever is still open was open beside w: both know it.
<1>7. \A u \in Writers \ {w} :
        Open(u) => writer[u].shared /\ writer[w].shared
  BY <1>1 DEF IInv, OverlapSeen
<1>8. ASSUME NEW u \in Writers, Open(u)' PROVE writer'[u].shared
  BY <1>2, <1>7, <1>8 DEF Open
<1>9. ASSUME NEW r \in committed', r.at \notin overlapped'
      PROVE  \/ r \in committed /\ r.at \notin overlapped
             \/ r \in own /\ ~ writer[w].shared
  BY <1>1, <1>9
<1>10. NothingLate'
  <2> SUFFICES ASSUME NEW r \in committed', r.at \notin overlapped',
                      NEW u \in Writers
               PROVE  /\ \A x \in writer'[u].own : r.at < x.at
                      /\ Pending(u)' => r.at < writer'[u].at
    BY DEF NothingLate
  <2>1. CASE u = w
    BY <1>2, <2>1
  <2>2. CASE u # w /\ r \in committed /\ r.at \notin overlapped
    BY <1>2, <2>2 DEF IInv, NothingLate, Pending
  <2>3. CASE u # w /\ r \in own /\ ~ writer[w].shared
    <3>1. ~ Open(u)
      BY <1>7, <2>3
    <3>2. writer'[u].own = {} /\ ~ Pending(u)'
      BY <1>2, <2>3, <3>1 DEF IInv, IdleIsEmpty, Open, Pending
    <3> QED BY <3>2
  <2> QED BY <1>9, <2>1, <2>2, <2>3
<1>11. AloneIsChained'
  <2> SUFFICES ASSUME NEW r \in committed', r.at \notin overlapped'
               PROVE  Latest(r.prev, {x \in committed' : x.at < r.at})
    BY DEF AloneIsChained, Latest
  <2>1. CASE r \in committed /\ r.at \notin overlapped
    <3>1. \A x \in own : r.at < x.at
      BY <2>1 DEF IInv, NothingLate
    <3>2. {x \in committed' : x.at < r.at} = {x \in committed : x.at < r.at}
      BY <1>1, <1>3, <2>1, <3>1
    <3> QED BY <2>1, <3>2 DEF IInv, AloneIsChained
  <2>2. CASE r \in own /\ ~ writer[w].shared
    <3>1. AloneSoFar(w)
      BY <1>1, <2>2 DEF IInv
    <3>2. Latest(r.prev, Below(r.at, Visible(w)))
      BY <2>2, <3>1 DEF AloneSoFar
    <3> QED BY <1>1, <3>2 DEF Below, Visible
  <2> QED BY <1>9, <2>1, <2>2
<1> QED BY <1>4, <1>5, <1>6, <1>8, <1>10, <1>11 DEF IInv

-----------------------------------------------------------------------------
LEMMA NextIInv == IInv /\ [Next]_vars => IInv'
<1> SUFFICES ASSUME IInv, [Next]_vars PROVE IInv'
  OBVIOUS
<1>1. ASSUME NEW w \in Writers, WriterStep(w) PROVE IInv'
  BY <1>1, StampIInv, ReadJournalIInv, ReadProgressIInv, CommitIInv, RollbackIInv
     DEF WriterStep
<1>2. CASE UNCHANGED vars
  <2>1. UNCHANGED <<clock, committed, writer, overlapped>>
    BY <1>2 DEF vars
  <2> QED BY <2>1 DEF IInv, TypeOK, Row, WriterState, Clocked, OverlapSeen,
          IdleIsEmpty, LinksSeen, AloneSoFar, NothingLate, AloneIsChained, Known,
          Latest, Below, Visible, InStream, Pending, Open
<1> QED BY <1>1, <1>2 DEF Next

THEOREM Invariance == Spec => []IInv
BY InitIInv, NextIInv, PTL DEF Spec

\* No interleaving of adds, commits and rollbacks leaves a committed row linked
\* to one that is not.
THEOREM LinksAreCommitted == Spec => []LinkedToCommitted
<1>1. IInv => LinkedToCommitted
  BY DEF IInv, LinksSeen, LinkedToCommitted, Known
<1> QED BY <1>1, Invariance, PTL

\* A row whose transaction ran alone is linked to the row before it, for any
\* number of writers and whatever is committed later.
THEOREM AloneRowsAreChained == Spec => []AloneIsChained
<1>1. IInv => AloneIsChained
  BY DEF IInv
<1> QED BY <1>1, Invariance, PTL

-----------------------------------------------------------------------------
(***************************************************************************)
(* Times.  That no two rows have one time is not needed for the chain, but *)
(* for a row to be known by the link to it.                                *)
(***************************************************************************)
OwnTimes ==
  /\ \A r, x \in committed : r.at = x.at => r = x
  /\ \A w \in Writers : \A r \in writer[w].own, x \in Visible(w) : r.at = x.at => r = x
  /\ \A w, u \in Writers : w # u =>
       \A r \in writer[w].own, x \in writer[u].own : r.at # x.at
  /\ \A w \in Writers : Pending(w) =>
       /\ \A u \in Writers : \A x \in Visible(u) : x.at # writer[w].at
       /\ \A u \in Writers \ {w} : Pending(u) => writer[u].at # writer[w].at

LEMMA InitOwnTimes == Init => OwnTimes
<1> SUFFICES ASSUME Init PROVE OwnTimes
  OBVIOUS
<1>1. /\ committed = {}
      /\ \A w \in Writers : writer[w].own = {} /\ ~ Pending(w)
  BY DEF Init, Idle, Pending
<1> QED BY <1>1 DEF OwnTimes

LEMMA StampOwnTimes ==
  ASSUME IInv, OwnTimes, NEW w \in Writers, NEW s \in Streams, NEW d \in Domains,
         Stamp(w, s, d)
  PROVE  OwnTimes'
<1>1. /\ writer'[w].at = clock + 1 /\ UNCHANGED committed
      /\ \A u \in Writers : writer'[u].own = writer[u].own
      /\ \A u \in Writers \ {w} : writer'[u].pc = writer[u].pc /\ writer'[u].at = writer[u].at
  <2>. DEFINE was == IF Open(w) THEN writer ELSE Shared(w)
  <2>1. /\ was \in [Writers -> WriterState] /\ was[w] = writer[w]
        /\ \A u \in Writers \ {w} : /\ was[u].pc = writer[u].pc
                                    /\ was[u].own = writer[u].own
                                    /\ was[u].at = writer[u].at
    BY SharedOf, WriterFacts DEF IInv
  <2>2. PICK b : writer' = [was EXCEPT ![w].pc = "stamped", ![w].at = clock + 1,
                                       ![w].stream = s, ![w].domain = d,
                                       ![w].shared = b]
    BY DEF Stamp
  <2>. HIDE DEF was
  <2>3. writer'[w].at = clock + 1 /\ writer'[w].own = was[w].own
    BY <2>1, <2>2 DEF WriterState
  <2>4. \A u \in Writers \ {w} : writer'[u] = was[u]
    BY <2>1, <2>2
  <2>5. UNCHANGED committed
    BY DEF Stamp
  <2>. QED BY <2>1, <2>3, <2>4, <2>5
<1>2. \A u \in Writers : \A x \in Visible(u) : x.at < clock + 1
  BY WriterFacts DEF IInv, Clocked, Visible
<1>3. \A u \in Writers : Pending(u) => writer[u].at < clock + 1
  BY WriterFacts DEF IInv, Clocked
<1>4. \A u \in Writers : Visible(u)' = Visible(u) /\ (u # w => Pending(u)' = Pending(u))
  BY <1>1 DEF Visible, Pending
<1>5. \A u \in Writers \ {w} : Pending(u) => writer[u].at # clock + 1
  BY <1>3, WriterFacts DEF IInv
<1>6. \A u \in Writers : \A x \in Visible(u) : x.at # clock + 1
  BY <1>2, WriterFacts DEF IInv, Visible
<1> QED BY <1>1, <1>4, <1>5, <1>6 DEF OwnTimes

LEMMA ReadJournalOwnTimes ==
  ASSUME IInv, OwnTimes, NEW w \in Writers, ReadJournal(w)
  PROVE  OwnTimes'
<1>1. /\ UNCHANGED committed
      /\ \A u \in Writers : writer'[u].own = writer[u].own /\ writer'[u].at = writer[u].at
      /\ \A u \in Writers : Pending(u)' = Pending(u)
  BY WriterFacts DEF ReadJournal, IInv, Pending
<1> QED BY <1>1 DEF OwnTimes, Visible

LEMMA ReadProgressOwnTimes ==
  ASSUME IInv, OwnTimes, NEW w \in Writers, ReadProgress(w)
  PROVE  OwnTimes'
<1>0. PICK h : writer' = [writer EXCEPT
                 ![w].pc = "open",
                 ![w].own = @ \cup {[at |-> writer[w].at, stream |-> writer[w].stream,
                                     domain |-> writer[w].domain,
                                     prev |-> IF h > writer[w].head THEN h
                                              ELSE writer[w].head]}]
  BY DEF ReadProgress
<1>1. PICK r : /\ r.at = writer[w].at /\ UNCHANGED committed
               /\ writer'[w].own = writer[w].own \cup {r} /\ writer'[w].pc = "open"
               /\ \A u \in Writers \ {w} : writer'[u] = writer[u]
  <2>1. writer \in [Writers -> WriterState]
    BY WriterFacts DEF IInv
  <2> DEFINE r == [at |-> writer[w].at, stream |-> writer[w].stream,
                   domain |-> writer[w].domain,
                   prev |-> IF h > writer[w].head THEN h ELSE writer[w].head]
  <2>2. r.at = writer[w].at
    OBVIOUS
  <2>3. writer' = [writer EXCEPT ![w].pc = "open", ![w].own = @ \cup {r}]
    BY <1>0
  <2> HIDE DEF r
  <2>4. /\ writer'[w].own = writer[w].own \cup {r} /\ writer'[w].pc = "open"
        /\ \A u \in Writers \ {w} : writer'[u] = writer[u]
    BY <2>1, <2>3 DEF WriterState
  <2>5. UNCHANGED committed
    BY DEF ReadProgress
  <2> QED BY <2>2, <2>4, <2>5
<1>2. Pending(w)
  BY DEF ReadProgress, Pending
<1>3. Visible(w)' = Visible(w) \cup {r}
  BY <1>1 DEF Visible
<1>4. \A u \in Writers \ {w} : Visible(u)' = Visible(u) /\ Pending(u)' = Pending(u)
  BY <1>1 DEF Visible, Pending
<1>5. ~ Pending(w)'
  BY <1>1 DEF Pending
<1>6. \A u \in Writers : \A x \in Visible(u) : x.at # r.at
  BY <1>1, <1>2 DEF OwnTimes
<1>7. \A x \in committed : x.at # r.at
  BY <1>6 DEF Visible
<1>8. \A u \in Writers \ {w} : \A x \in writer[u].own : x.at # r.at
  BY <1>6 DEF Visible
<1>9. \A u \in Writers \ {w} : Pending(u) => writer[u].at # r.at
  BY <1>1, <1>2 DEF OwnTimes
<1>10. ASSUME NEW u \in Writers
       PROVE  \A a \in writer'[u].own, x \in Visible(u)' : a.at = x.at => a = x
  <2>1. CASE u = w
    <3>1. writer[w].own \subseteq Visible(w)
      BY DEF Visible
    <3>2. \A a \in writer[w].own, x \in Visible(w) : a.at = x.at => a = x
      BY DEF OwnTimes
    <3> QED BY <1>1, <1>3, <1>6, <2>1, <3>1, <3>2
  <2>2. CASE u # w
    BY <1>1, <1>4, <2>2 DEF OwnTimes
  <2> QED BY <2>1, <2>2
<1>11. ASSUME NEW u \in Writers, NEW v \in Writers, u # v
       PROVE  \A a \in writer'[u].own, x \in writer'[v].own : a.at # x.at
  BY <1>1, <1>8, <1>11 DEF OwnTimes
<1>12. ASSUME NEW u \in Writers, Pending(u)'
       PROVE  /\ \A v \in Writers : \A x \in Visible(v)' : x.at # writer'[u].at
              /\ \A v \in Writers \ {u} : Pending(v)' => writer'[v].at # writer'[u].at
  <2>1. u # w /\ Pending(u) /\ writer'[u].at = writer[u].at
    BY <1>1, <1>4, <1>5, <1>12
  <2> QED BY <1>1, <1>3, <1>4, <1>5, <1>9, <2>1 DEF OwnTimes
<1> QED BY <1>1, <1>10, <1>11, <1>12 DEF OwnTimes

LEMMA CommitOwnTimes ==
  ASSUME IInv, OwnTimes, NEW w \in Writers, Commit(w)
  PROVE  OwnTimes'
<1>1. /\ committed' = Visible(w) /\ writer'[w].own = {} /\ writer'[w].pc = "idle"
      /\ \A u \in Writers \ {w} : writer'[u] = writer[u]
  BY WriterFacts DEF Commit, IInv, Idle
<1>2. ~ Pending(w)' /\ \A u \in Writers \ {w} : Pending(u)' = Pending(u)
  BY <1>1 DEF Pending
<1>3. \A u \in Writers \ {w} : Visible(u)' = Visible(u) \cup writer[w].own
  BY <1>1 DEF Visible
<1>4. Visible(w)' = Visible(w)
  BY <1>1 DEF Visible
<1> QED BY <1>1, <1>2, <1>3, <1>4 DEF OwnTimes, Visible

LEMMA RollbackOwnTimes ==
  ASSUME IInv, OwnTimes, NEW w \in Writers, Rollback(w)
  PROVE  OwnTimes'
<1>1. /\ UNCHANGED committed /\ writer'[w].own = {} /\ writer'[w].pc = "idle"
      /\ \A u \in Writers \ {w} : writer'[u] = writer[u]
  BY WriterFacts DEF Rollback, IInv, Idle
<1>2. ~ Pending(w)' /\ \A u \in Writers \ {w} : Pending(u)' = Pending(u)
  BY <1>1 DEF Pending
<1>3. \A u \in Writers : Visible(u)' \subseteq Visible(u) /\ writer'[u].own \subseteq writer[u].own
  BY <1>1 DEF Visible
<1> QED BY <1>1, <1>2, <1>3 DEF OwnTimes

LEMMA NextOwnTimes == IInv /\ OwnTimes /\ [Next]_vars => OwnTimes'
<1> SUFFICES ASSUME IInv, OwnTimes, [Next]_vars PROVE OwnTimes'
  OBVIOUS
<1>1. ASSUME NEW w \in Writers, WriterStep(w) PROVE OwnTimes'
  BY <1>1, StampOwnTimes, ReadJournalOwnTimes, ReadProgressOwnTimes, CommitOwnTimes,
     RollbackOwnTimes DEF WriterStep
<1>2. CASE UNCHANGED vars
  BY <1>2 DEF vars, OwnTimes, Visible, Pending
<1> QED BY <1>1, <1>2 DEF Next

-----------------------------------------------------------------------------
(***************************************************************************)
(* Exports.                                                                *)
(***************************************************************************)
LEMMA HasSmallest ==
  ASSUME NEW S \in SUBSET Nat, S # {}
  PROVE  \E m \in S : \A n \in S : m <= n
<1> DEFINE R == {p \in Nat \X Nat : p[1] < p[2]}
<1>1. IsWellFoundedOn(R, Nat)
  BY NatLessThanWellFounded DEF OpToRel
<1>2. \A n, m \in Nat : n < m => <<n, m>> \in R
  OBVIOUS
<1> HIDE DEF R
<1>3. PICK m \in S : \A n \in S : ~ (<<n, m>> \in R)
  <2>1. S \subseteq Nat
    OBVIOUS
  <2>2. \E m \in S : \A n \in S : ~ (<<n, m>> \in R)
    BY <1>1, <2>1, WFMin, Zenon
  <2> QED BY <2>2
<1>4. ASSUME NEW n \in S PROVE m <= n
  <2>1. n \in Nat /\ m \in Nat
    OBVIOUS
  <2>2. ~ (n < m)
    BY <1>2, <1>3, <2>1, Zenon
  <2> QED BY <2>1, <2>2
<1> QED BY <1>4

LEMMA HasLargest ==
  ASSUME NEW S \in SUBSET Nat, S # {}, NEW b \in Nat, \A n \in S : n <= b
  PROVE  \E m \in S : \A n \in S : n <= m
<1> DEFINE T == {b - n : n \in S}
<1>0. \A n \in S : n \in Nat /\ b - n \in Nat
  OBVIOUS
<1>1. T \in SUBSET Nat /\ T # {}
  BY <1>0
<1>2. PICK k \in T : \A n \in T : k <= n
  BY <1>1, HasSmallest
<1>3. PICK m \in S : k = b - m
  BY <1>2
<1>4. ASSUME NEW n \in S PROVE n <= m
  <2>1. b - n \in T
    OBVIOUS
  <2>2. b - m <= b - n
    BY <1>2, <1>3, <2>1
  <2> QED BY <1>0, <2>2
<1> QED BY <1>4

\* Around a time that lies within an export there are two of its rows that follow
\* each other.
LEMMA Around ==
  ASSUME NEW rs, NEW b \in Nat, \A r \in rs : r.at \in Nat /\ r.at <= b,
         NEW t \in Nat, NEW x \in rs, NEW y \in rs, x.at < t, t < y.at
  PROVE  \E p, q \in rs : Before(p, q, rs) /\ p.at <= t /\ t < q.at
<1> DEFINE Later == {r.at : r \in {q \in rs : t < q.at}}
           Sooner == {r.at : r \in {q \in rs : q.at <= t}}
<1>1. PICK l \in Later : \A n \in Later : l <= n
  <2>1. Later \in SUBSET Nat /\ y.at \in Later
    OBVIOUS
  <2> QED BY <2>1, HasSmallest
<1>2. PICK e \in Sooner : \A n \in Sooner : n <= e
  <2>1. Sooner \in SUBSET Nat /\ x.at \in Sooner /\ \A n \in Sooner : n <= b
    OBVIOUS
  <2> QED BY <2>1, HasLargest
<1>3. PICK q \in rs : q.at = l /\ t < q.at
  BY <1>1
<1>4. PICK p \in rs : p.at = e /\ p.at <= t
  BY <1>2
<1>5. \A z \in rs : z.at < q.at => z.at <= p.at
  <2>1. TAKE z \in rs
  <2>2. CASE z.at <= t
    BY <1>2, <1>4, <2>2
  <2>3. CASE t < z.at
    BY <1>1, <1>3, <2>3
  <2> QED BY <2>2, <2>3
<1> QED BY <1>3, <1>4, <1>5 DEF Before

\* An export without a gap, of rows written alone, is complete (api/routes/audit.py),
\* for any number of writers, any limit and any scope.
THEOREM ExportsWithoutGapAreComplete == Spec => []GapFreeIsComplete
<1>1. ASSUME IInv, OwnTimes
      PROVE  GapFreeIsComplete
  <2> SUFFICES ASSUME NEW limit \in 1 .. MaxEvents, NEW scope \in SUBSET Domains,
                      Gaps(Export(limit, scope)) = {},
                      \A r \in Export(limit, scope) : r.at \notin overlapped,
                      NEW c \in committed,
                      NEW x \in Export(limit, scope), NEW y \in Export(limit, scope),
                      x.at < c.at, c.at < y.at
               PROVE  c \in Export(limit, scope)
    BY DEF GapFreeIsComplete
  <2> DEFINE rs == Export(limit, scope)
  <2>1. rs \subseteq committed
    BY DEF Export, Newest, InStream, InScope
  <2>2. \A r \in committed : r.at \in Nat /\ r.at <= clock /\ r.prev \in Nat
    BY <1>1 DEF IInv, TypeOK, Clocked, Row
  <2>3. clock \in Nat
    BY <1>1 DEF IInv, TypeOK
  <2>4. PICK p \in rs, q \in rs : Before(p, q, rs) /\ p.at <= c.at /\ c.at < q.at
    <3>1. \A r \in rs : r.at \in Nat /\ r.at <= clock
      BY <2>1, <2>2
    <3> HIDE DEF rs
    <3> QED BY <2>2, <2>3, <3>1, Around DEF rs
  <2>5. q.prev = p.at
    BY <2>4 DEF Gaps
  <2>6. Latest(q.prev, {r \in committed : r.at < q.at})
    BY <1>1, <2>1, <2>4 DEF IInv, AloneIsChained
  <2>7. c.at <= p.at
    BY <2>4, <2>5, <2>6 DEF Latest
  <2>8. c.at = p.at
    BY <2>1, <2>2, <2>4, <2>7
  <2> QED BY <1>1, <2>1, <2>4, <2>8 DEF OwnTimes
<1>2. Spec => []OwnTimes
  BY Invariance, InitOwnTimes, NextOwnTimes, PTL DEF Spec
<1> QED BY <1>1, <1>2, Invariance, PTL

=============================================================================
