------------------------- MODULE EventStreamProofs --------------------------
(***************************************************************************)
(* What a client of EventStream is not denied, for any number of writers,  *)
(* domains, connections, restarts and changes of grants, and for every     *)
(* size of the replay, of its window and of the first live batch.          *)
(*                                                                         *)
(* Both properties speak of what lies between two things the client got.   *)
(* They are inductive together with the same claim up to the place where   *)
(* the connection stands (RowsCovered, ItemsCovered), and with what a      *)
(* batch in hand still contains (RowsUnbroken, ItemsUnbroken).             *)
(***************************************************************************)
EXTENDS EventStream, FiniteSetTheorems, WellFoundedInduction, TLAPS

-----------------------------------------------------------------------------
(***************************************************************************)
(* The inductive invariant.                                                *)
(***************************************************************************)

\* The log and the rows of each transaction are finite, so that the limits of
\* a query count something, and 0 stands for no row; an item names the domains
\* of its rows.
Kept ==
  /\ IsFiniteSet(log) /\ \A r \in log : r.at # 0
  /\ \A w \in Writers :
       /\ IsFiniteSet(writer[w].own) /\ \A r \in writer[w].own : r.at # 0
       /\ writer[w].pc \in {"open", "dispatching", "committed"} =>
            writer[w].own # {}
  /\ \A p \in Processes : \A k \in 1..Len(store[p]) :
       store[p][k] = Ready \/ store[p][k].doms # {}

\* The domains the client could see all the time are granted, and were when
\* the open connection read the grants.
Steady ==
  /\ saw.steady \subseteq Granted
  /\ client.phase = "scoped" =>
       client.scope.all \/ saw.steady \subseteq client.scope.ids

Seen(r) == r.dom \in saw.steady /\ r.at \notin overtaken

\* What the client has of the persisted rows is complete up to its cursor.
RowsCovered ==
  /\ saw.rows \subseteq {r.at : r \in log}
  /\ \A i \in saw.rows : i <= client.cursor
  /\ IF client.cursor = 0 THEN saw.rows = {} ELSE client.cursor \in saw.rows
  /\ client.phase = "scoped" => client.sent = client.cursor
  /\ \A r \in log :
       /\ Seen(r) /\ r.at <= client.cursor /\ \E i \in saw.rows : i < r.at
       => r.at \in saw.rows

\* What a replay still has to send leaves out nothing on the way to its end.
RowsUnbroken ==
  client.phase = "replay" =>
    /\ client.pending \subseteq {r.at : r \in log}
    /\ \A k \in client.pending : client.cursor < k
    /\ \A r \in log, k \in client.pending :
         /\ Seen(r) /\ client.cursor < r.at /\ r.at < k
         /\ client.cursor # 0 \/ \E i \in client.pending : i < r.at
         => r.at \in client.pending

\* What the client has of the live items is complete up to the id p.
ItemsUpTo(p) ==
  saw.live # {} =>
    /\ p \in 1..Len(store[Api]) /\ \A i \in saw.live : i <= p
    /\ \A k \in 1..Len(store[Api]) :
         /\ store[Api][k].doms \subseteq saw.steady
         /\ k <= p /\ \E i \in saw.live : i < k
         => k \in saw.live

ItemsCovered ==
  /\ saw.live \subseteq 1..Len(store[Api])
  /\ client.last # 0 => ItemsUpTo(client.last)
  /\ client.phase \in {"scoped", "replay"} => ItemsUpTo(client.from)
  /\ client.phase = "live" => ItemsUpTo(client.next)

ItemsUnbroken ==
  client.phase = "live" =>
    /\ \A k \in client.pending : client.next < k
    /\ \A m \in 1..Len(store[Api]), k \in client.pending :
         /\ client.next < m /\ m < k
         /\ client.next # 0 \/ \E i \in client.pending : i < m
         => m \in client.pending

Rows  == RowsCovered /\ RowsUnbroken
Items == ItemsCovered /\ ItemsUnbroken /\ LiveWithoutGap

IInv == TypeOK /\ Kept /\ Steady /\ Rows /\ Items

-----------------------------------------------------------------------------
(***************************************************************************)
(* Batches, stores and scopes.                                             *)
(***************************************************************************)
LEMMA HasSmallest ==
  ASSUME NEW S \in SUBSET Nat, S # {}
  PROVE  First(S) \in S /\ \A n \in S : First(S) <= n
<1>. DEFINE R == {p \in Nat \X Nat : p[1] < p[2]}
<1>1. IsWellFoundedOn(R, Nat)
  BY NatLessThanWellFounded DEF OpToRel
<1>2. \A n, m \in Nat : n < m => <<n, m>> \in R
  OBVIOUS
<1>. HIDE DEF R
<1>3. S \subseteq Nat
  OBVIOUS
<1>4. PICK m \in S : \A n \in S : ~ (<<n, m>> \in R)
  <2>1. \E m \in S : \A n \in S : ~ (<<n, m>> \in R)
    BY <1>1, <1>3, WFMin, Zenon
  <2>. QED BY <2>1
<1>5. \A n \in S : m <= n
  <2>1. ASSUME NEW n \in S PROVE m <= n
    <3>1. n \in Nat /\ m \in Nat
      OBVIOUS
    <3>2. ~ (n < m)
      BY <1>2, <1>4, <3>1, Zenon
    <3>. QED BY <3>1, <3>2
  <2>. QED BY <2>1
<1>. QED BY <1>4, <1>5 DEF First

LEMMA ApiIsAProcess == Api \in Processes /\ \A w \in Writers : Home(w) \in Processes
BY DEF Processes, Home, Writers

LEMMA ClientTyped ==
  ASSUME TypeOK
  PROVE  /\ client.phase \in {"off", "scoped", "replay", "live"}
         /\ client.scope \in Scope /\ client.sent \in Nat /\ client.from \in Nat
         /\ client.pending \in SUBSET Nat /\ client.next \in Nat
         /\ client.cursor \in Nat /\ client.last \in Nat
         /\ saw.rows \in SUBSET Nat /\ saw.live \in SUBSET Nat
         /\ saw.steady \in SUBSET Domains
BY DEF TypeOK, Client

LEMMA StoreTyped ==
  ASSUME TypeOK, NEW p \in Processes
  PROVE  /\ store[p] \in Seq(Item) /\ Len(store[p]) \in Nat
         /\ DOMAIN store[p] = 1..Len(store[p])
         /\ \A k \in 1..Len(store[p]) : store[p][k] \in Item
<1>1. store[p] \in Seq(Item)
  BY DEF TypeOK
<1>. QED BY <1>1

LEMMA LogTyped ==
  ASSUME TypeOK
  PROVE  \A r \in log : r.at \in Nat /\ r.dom \in Domains
BY DEF TypeOK, Row

LEMMA GrantedType == ASSUME TypeOK PROVE Granted \in SUBSET Domains
BY DEF TypeOK, Scope, Granted

\* The rows before one that OldestRows takes are taken too.
LEMMA OldestUnbroken ==
  ASSUME NEW rs, IsFiniteSet(rs), \A r \in rs : r.at \in Nat, NEW n \in Nat,
         NEW x \in OldestRows(rs, n), NEW r \in rs, r.at <= x.at
  PROVE  r \in OldestRows(rs, n)
<1>. DEFINE A == {y \in rs : y.at < r.at}
            B == {y \in rs : y.at < x.at}
<1>1. x \in rs /\ Cardinality(B) < n
  BY DEF OldestRows
<1>2. A \subseteq B
  BY <1>1
<1>3. IsFiniteSet(B)
  BY FS_Subset
<1>4. Cardinality(A) <= Cardinality(B) /\ Cardinality(A) \in Nat /\ Cardinality(B) \in Nat
  BY <1>2, <1>3, FS_Subset, FS_CardinalityType
<1>5. Cardinality(A) < n
  BY <1>1, <1>4
<1>. QED BY <1>5 DEF OldestRows

\* The rows after one that NewestRows takes are taken too.
LEMMA NewestUnbroken ==
  ASSUME NEW rs, IsFiniteSet(rs), \A r \in rs : r.at \in Nat, NEW n \in Nat,
         NEW x \in NewestRows(rs, n), NEW r \in rs, x.at <= r.at
  PROVE  r \in NewestRows(rs, n)
<1>. DEFINE A == {y \in rs : y.at > r.at}
            B == {y \in rs : y.at > x.at}
<1>1. x \in rs /\ Cardinality(B) < n
  BY DEF NewestRows
<1>2. A \subseteq B
  BY <1>1
<1>3. IsFiniteSet(B)
  BY FS_Subset
<1>4. Cardinality(A) <= Cardinality(B) /\ Cardinality(A) \in Nat /\ Cardinality(B) \in Nat
  BY <1>2, <1>3, FS_Subset, FS_CardinalityType
<1>5. Cardinality(A) < n
  BY <1>1, <1>4
<1>. QED BY <1>5 DEF NewestRows

\* A scoped query leaves out no row of its scope between the cursor and a row
\* that it returns, although it looks at no more than a window.
LEMMA AfterUnbroken ==
  ASSUME TypeOK, IsFiniteSet(log), NEW at \in Nat, NEW s \in Scope,
         NEW x \in RowsAfter(at, s), NEW r \in log, at < r.at, r.at < x.at,
         s.all \/ r.dom \in s.ids
  PROVE  r \in RowsAfter(at, s)
<1>. DEFINE rs == After(at)
            near == OldestRows(rs, Window)
<1>1. /\ \A y \in log : y.at \in Nat
      /\ Limit \in Nat /\ Window \in Nat
  BY LogTyped, StreamConstants
<1>2. rs \subseteq log /\ IsFiniteSet(rs) /\ r \in rs
  BY FS_Subset DEF After
<1>3. near \subseteq rs /\ InScope(near, s) \subseteq near
  BY DEF OldestRows, InScope
<1>4. CASE s.all
  <2>1. x \in OldestRows(rs, Limit)
    BY <1>4 DEF RowsAfter
  <2>2. x \in rs
    BY <2>1 DEF OldestRows
  <2>3. r \in OldestRows(rs, Limit)
    BY <1>1, <1>2, <2>1, <2>2, OldestUnbroken
  <2>. QED BY <1>4, <2>3 DEF RowsAfter
<1>5. CASE ~ s.all
  <2>1. x \in OldestRows(InScope(near, s), Limit)
    BY <1>5 DEF RowsAfter
  <2>2. x \in near /\ x \in log
    BY <1>2, <1>3, <2>1 DEF OldestRows
  <2>. HIDE DEF rs
  <2>3. r \in near
    BY <1>1, <1>2, <2>2, OldestUnbroken
  <2>4. r \in InScope(near, s) /\ IsFiniteSet(InScope(near, s))
    BY <1>2, <1>3, <1>5, <2>3, FS_Subset DEF InScope
  <2>. HIDE DEF near
  <2>5. r \in OldestRows(InScope(near, s), Limit)
    BY <1>1, <1>2, <1>3, <2>1, <2>2, <2>4, OldestUnbroken
  <2>. QED BY <1>5, <2>5 DEF RowsAfter, near, rs
<1>. QED BY <1>4, <1>5

\* The first replay leaves out no row of its scope between two it returns.
LEMMA RecentUnbroken ==
  ASSUME TypeOK, IsFiniteSet(log), NEW s \in Scope,
         NEW x \in RecentRows(s), NEW r \in log, x.at < r.at,
         s.all \/ r.dom \in s.ids
  PROVE  r \in RecentRows(s)
<1>. DEFINE near == NewestRows(log, Window)
<1>1. /\ \A y \in log : y.at \in Nat
      /\ Limit \in Nat /\ Window \in Nat
  BY LogTyped, StreamConstants
<1>2. near \subseteq log /\ InScope(near, s) \subseteq near
  BY DEF NewestRows, InScope
<1>3. CASE s.all
  <2>1. x \in NewestRows(log, Limit) /\ x \in log
    BY <1>3 DEF RecentRows, NewestRows
  <2>2. r \in NewestRows(log, Limit)
    BY <1>1, <2>1, NewestUnbroken
  <2>. QED BY <1>3, <2>2 DEF RecentRows
<1>4. CASE ~ s.all
  <2>1. x \in NewestRows(InScope(near, s), Limit)
    BY <1>4 DEF RecentRows
  <2>2. x \in near /\ x \in log
    BY <1>2, <2>1 DEF NewestRows
  <2>3. r \in near
    BY <1>1, <2>2, NewestUnbroken
  <2>4. r \in InScope(near, s) /\ IsFiniteSet(InScope(near, s))
    BY <1>2, <1>4, <2>3, FS_Subset DEF InScope
  <2>. HIDE DEF near
  <2>5. r \in NewestRows(InScope(near, s), Limit)
    BY <1>1, <1>2, <2>1, <2>2, <2>4, NewestUnbroken
  <2>. QED BY <1>4, <2>5 DEF RecentRows, near
<1>. QED BY <1>3, <1>4

-----------------------------------------------------------------------------
(***************************************************************************)
(* Types, and what is kept with them.                                      *)
(***************************************************************************)
LEMMA ReadyType == Ready \in Item /\ <<Ready>> \in Seq(Item)
BY DEF Ready, Item

LEMMA WriterTypes ==
  ASSUME IInv, NEW w \in Writers, WriterStep(w)
  PROVE  TypeOK' /\ Kept'
<1>. USE DEF IInv
<1>1. /\ writer[w] \in WriterState /\ IsFiniteSet(writer[w].own) /\ IsFiniteSet(log)
      /\ writer[w].own \subseteq Row /\ \A r \in log \cup writer[w].own : r.at # 0
      /\ writer[w].pc \in {"idle", "open", "dispatching", "committed", "silent"}
      /\ writer[w].pc \in {"open", "dispatching", "committed"} => writer[w].own # {}
  BY DEF TypeOK, Kept, WriterState
<1>2. Idle \in WriterState /\ Idle.pc = "idle" /\ Idle.own = {}
      /\ IsFiniteSet(Idle.own)
  BY FS_EmptySet DEF Idle, WriterState
<1>3. ASSUME NEW d \in Domains, Stamp(w, d) PROVE TypeOK' /\ Kept'
  <2>. DEFINE r == [at |-> clock + 1, dom |-> d]
              own == IF writer[w].pc = "open" THEN writer[w].own ELSE {}
              s == [pc |-> "open", own |-> own \cup {r}]
  <2>1. /\ clock' = clock + 1 /\ writer' = [writer EXCEPT ![w] = s]
        /\ UNCHANGED <<log, store, grants, client, saw, overtaken>>
    BY <1>3 DEF Stamp
  <2>7. /\ own \subseteq Row /\ IsFiniteSet(own) /\ \A x \in own : x.at # 0
    BY <1>1, FS_EmptySet
  <2>. HIDE DEF own
  <2>2. r \in Row /\ r.at # 0 /\ clock' \in Nat
    BY <2>1 DEF TypeOK, Row
  <2>. HIDE DEF r
  <2>3. s \in WriterState /\ s.own = own \cup {r}
    BY <2>2, <2>7 DEF WriterState
  <2>4. IsFiniteSet(s.own) /\ s.own # {}
    <3>1. IsFiniteSet(own \cup {r})
      BY <2>7, FS_AddElement
    <3>. QED BY <2>3, <3>1
  <2>0. \A x \in s.own : x.at # 0
    BY <2>2, <2>3, <2>7
  <2>. HIDE DEF s, r
  <2>5. TypeOK'
    BY <2>1, <2>2, <2>3 DEF TypeOK
  <2>6. Kept'
    BY <2>0, <2>1, <2>4 DEF TypeOK, Kept
  <2>. QED BY <2>5, <2>6
<1>4. CASE Commit(w)
  <2>1. /\ log' = log \cup writer[w].own /\ UNCHANGED <<clock, store, grants, client, saw>>
        /\ \E pc \in {"committed", "dispatching"} : writer' = [writer EXCEPT ![w].pc = pc]
        /\ overtaken' \subseteq overtaken \cup {r.at : r \in writer[w].own}
    BY <1>4 DEF Commit
  <2>2. IsFiniteSet(log') /\ log' \subseteq Row
    BY <1>1, <2>1, FS_Union DEF TypeOK
  <2>3. overtaken' \subseteq Nat
    BY <1>1, <2>1 DEF TypeOK, Row
  <2>4. /\ writer' \in [Writers -> WriterState]
        /\ \A v \in Writers : writer'[v].own = writer[v].own
        /\ writer[w].own # {}
        /\ \A v \in Writers \ {w} : writer'[v] = writer[v]
    BY <1>1, <1>4, <2>1 DEF TypeOK, WriterState, Commit
  <2>5. TypeOK'
    BY <2>1, <2>2, <2>3, <2>4 DEF TypeOK
  <2>6. Kept'
    BY <1>1, <2>1, <2>2, <2>4 DEF Kept
  <2>. QED BY <2>5, <2>6
<1>5. CASE Rollback(w)
  BY <1>2, <1>5 DEF Rollback, TypeOK, Kept
<1>6. CASE Notify(w)
  <2>. DEFINE p == Home(w)
              i == [rows |-> {r.at : r \in writer[w].own}, doms |-> {r.dom : r \in writer[w].own}]
  <2>1. /\ store' = [store EXCEPT ![p] = Append(store[p], i)]
        /\ writer' = [writer EXCEPT ![w] = Idle]
        /\ UNCHANGED <<clock, log, grants, client, saw, overtaken>>
        /\ writer[w].own # {} /\ p \in Processes
    BY <1>1, <1>6, ApiIsAProcess DEF Notify
  <2>2. i \in Item /\ i.doms # {}
    BY <1>1, <2>1 DEF Item, Row
  <2>. HIDE DEF i, p
  <2>3. /\ store' \in [Processes -> Seq(Item)]
        /\ \A q \in Processes : \A k \in 1..Len(store'[q]) :
             store'[q][k] = i \/ (k \in 1..Len(store[q]) /\ store'[q][k] = store[q][k])
        /\ \A q \in Processes : Len(store[q]) <= Len(store'[q])
                                  /\ Len(store'[q]) \in Nat /\ Len(store[q]) \in Nat
    <3>1. store \in [Processes -> Seq(Item)]
      BY DEF TypeOK
    <3>2. ASSUME NEW q \in Processes
          PROVE  /\ store'[q] \in Seq(Item)
                 /\ \A k \in 1..Len(store'[q]) :
                      store'[q][k] = i \/ (k \in 1..Len(store[q]) /\ store'[q][k] = store[q][k])
                 /\ Len(store[q]) <= Len(store'[q])
                 /\ Len(store'[q]) \in Nat /\ Len(store[q]) \in Nat
      <4>1. CASE q = p
        <5>1. store'[q] = Append(store[q], i) /\ store[q] \in Seq(Item)
          BY <2>1, <3>1, <4>1
        <5>. QED BY <2>2, <5>1
      <4>2. CASE q # p
        <5>1. store'[q] = store[q] /\ store[q] \in Seq(Item)
          BY <2>1, <3>1, <4>2
        <5>. QED BY <5>1
      <4>. QED BY <4>1, <4>2
    <3>. QED BY <2>1, <3>1, <3>2
  <2>4. TypeOK'
    <3>1. DOMAIN store[Api] \subseteq DOMAIN store'[Api]
      <4>1. /\ store[Api] \in Seq(Item) /\ store'[Api] \in Seq(Item)
            /\ Len(store[Api]) <= Len(store'[Api])
        BY <2>3, ApiIsAProcess DEF TypeOK
      <4>. QED BY <4>1
    <3>2. writer' \in [Writers -> WriterState]
      BY <1>2, <2>1 DEF TypeOK
    <3>. QED BY <2>1, <2>3, <3>1, <3>2 DEF TypeOK
  <2>5. Kept'
    <3>1. \A q \in Processes : \A k \in 1..Len(store'[q]) :
            store'[q][k] = Ready \/ store'[q][k].doms # {}
      BY <2>2, <2>3 DEF Kept
    <3>2. \A v \in Writers : writer'[v] = IF v = w THEN Idle ELSE writer[v]
      BY <2>1 DEF TypeOK
    <3>. QED BY <1>2, <2>1, <3>1, <3>2 DEF Kept
  <2>. QED BY <2>4, <2>5
<1>7. CASE Dispatched(w) \/ Unannounced(w)
  <2>1. PICK pc \in {"committed", "silent"} : writer' = [writer EXCEPT ![w].pc = pc]
    BY <1>7 DEF Dispatched, Unannounced
  <2>2. writer[w].own # {}
    BY <1>1, <1>7 DEF Dispatched, Unannounced
  <2>3. /\ writer' \in [Writers -> WriterState]
        /\ \A v \in Writers : writer'[v].own = writer[v].own
        /\ \A v \in Writers \ {w} : writer'[v] = writer[v]
    BY <1>1, <2>1 DEF TypeOK, WriterState
  <2>4. UNCHANGED <<clock, log, store, grants, client, saw, overtaken>>
    BY <1>7 DEF Dispatched, Unannounced
  <2>5. TypeOK'
    BY <2>3, <2>4 DEF TypeOK
  <2>6. Kept'
    <3>1. \A v \in Writers \ {w} : writer'[v].pc = writer[v].pc
      BY <2>3
    <3>. QED BY <2>2, <2>3, <2>4, <3>1 DEF Kept
  <2>. QED BY <2>5, <2>6
<1>. QED BY <1>3, <1>4, <1>5, <1>6, <1>7 DEF WriterStep

LEMMA OthersTypes ==
  ASSUME IInv,
         \/ \E p \in Processes : Restart(p)
         \/ \E d \in Domains : Grant(d) \/ Revoke(d)
  PROVE  TypeOK' /\ Kept'
<1>. USE DEF IInv
<1>1. ASSUME NEW p \in Processes, Restart(p) PROVE TypeOK' /\ Kept'
  <2>1. /\ store' = [store EXCEPT ![p] = <<Ready>>]
        /\ \A w \in Writers : writer'[w] \in {Idle, writer[w]}
        /\ writer' \in [Writers -> WriterState]
        /\ UNCHANGED <<clock, log, grants, overtaken>>
    BY <1>1 DEF Restart, TypeOK, Idle, WriterState
  <2>2. /\ store' \in [Processes -> Seq(Item)] /\ store'[p] = <<Ready>>
        /\ \A q \in Processes \ {p} : store'[q] = store[q]
    BY <2>1, ReadyType DEF TypeOK
  <2>3. /\ client' \in Client
        /\ saw' \in [rows : SUBSET Nat, live : SUBSET Nat, steady : SUBSET Domains]
        /\ client' = client \/ client'.phase = "off"
        /\ p # Api => client' = client
    BY <1>1 DEF Restart, Off, TypeOK, Client, Nothing, Scope
  <2>4. client'.phase = "live" => client' = client /\ store'[Api] = store[Api]
    <3>1. p = Api => client'.phase = "off"
      BY <1>1 DEF Restart, Off, TypeOK, Client
    <3>. QED BY <2>2, <2>3, <3>1, ApiIsAProcess
  <2>5. TypeOK'
    BY <2>1, <2>2, <2>3, <2>4 DEF TypeOK
  <2>6. Kept'
    <3>1. Idle.pc = "idle" /\ Idle.own = {} /\ IsFiniteSet(Idle.own)
      BY FS_EmptySet DEF Idle
    <3>2. \A k \in 1..Len(<<Ready>>) : <<Ready>>[k] = Ready
      OBVIOUS
    <3>. QED BY <2>1, <2>2, <3>1, <3>2 DEF Kept
  <2>. QED BY <2>5, <2>6
<1>2. ASSUME NEW d \in Domains, Grant(d) \/ Revoke(d) PROVE TypeOK' /\ Kept'
  <2>1. /\ grants' \in Scope /\ UNCHANGED <<clock, log, writer, store, client, overtaken>>
        /\ saw' \in [rows : SUBSET Nat, live : SUBSET Nat, steady : SUBSET Domains]
    <3>1. CASE Grant(d)
      BY <3>1 DEF Grant, TypeOK, Scope
    <3>2. CASE Revoke(d)
      <4>1. grants.ids \ {d} \in SUBSET Domains /\ saw.steady \ {d} \in SUBSET Domains
        BY ClientTyped DEF TypeOK, Scope
      <4>. QED BY <3>2, <4>1 DEF Revoke, TypeOK, Scope
    <3>. QED BY <1>2, <3>1, <3>2
  <2>. QED BY <2>1 DEF TypeOK, Kept
<1>. QED BY <1>1, <1>2

LEMMA ClientTypes ==
  ASSUME IInv, ClientStep
  PROVE  TypeOK' /\ Kept'
<1>. USE DEF IInv
<1>1. UNCHANGED <<clock, log, writer, store, grants, overtaken>>
  BY DEF ClientStep, ConnectFresh, Resume, Follow, Connect, Query, Replay,
     EndReplay, Poll, Listen, Disconnect
<1>2. /\ client.phase \in {"replay", "live"} /\ client.pending # {} =>
           First(client.pending) \in client.pending
      /\ client.pending \in SUBSET Nat
  BY ClientTyped, HasSmallest
<1>3. /\ client' \in Client
      /\ saw' \in [rows : SUBSET Nat, live : SUBSET Nat, steady : SUBSET Domains]
      /\ client'.phase = "live" => client'.pending \subseteq DOMAIN store[Api]
  <2>1. CASE ConnectFresh \/ Resume \/ Follow
    <3>1. PICK sent \in Nat, from \in Nat : Connect(sent, from)
      BY <2>1, ClientTyped DEF ConnectFresh, Resume, Follow
    <3>2. Granted \in SUBSET Domains /\ grants \in Scope
      BY GrantedType DEF TypeOK
    <3>. QED BY <3>1, <3>2 DEF Connect, TypeOK, Client
  <2>2. CASE Query
    <3>. DEFINE rs == IF client.sent = 0 THEN RecentRows(client.scope)
                      ELSE RowsAfter(client.sent, client.scope)
    <3>1. rs \subseteq log
      BY DEF RecentRows, RowsAfter, NewestRows, OldestRows, InScope, After
    <3>2. {r.at : r \in rs} \in SUBSET Nat
      BY <3>1, LogTyped
    <3>3. client' = [client EXCEPT !.phase = "replay", !.sent = 0, !.scope = Nothing,
                                   !.pending = {r.at : r \in rs}]
      BY <2>2 DEF Query
    <3>4. saw' = saw
      BY <2>2 DEF Query
    <3>. HIDE DEF rs
    <3>. QED BY <3>2, <3>3, <3>4 DEF TypeOK, Client, Nothing, Scope
  <2>3. CASE Replay
    BY <1>2, <2>3 DEF Replay, TypeOK, Client
  <2>4. CASE EndReplay
    BY <2>4 DEF EndReplay, TypeOK, Client
  <2>5. CASE Poll
    <3>1. Since(client.next) \subseteq DOMAIN store[Api]
      BY DEF Since
    <3>2. Since(client.next) \in SUBSET Nat
      BY <3>1, StoreTyped, ApiIsAProcess
    <3>. QED BY <2>5, <3>1, <3>2 DEF Poll, TypeOK, Client
  <2>6. CASE Listen
    <3>. DEFINE k == First(client.pending)
    <3>1. /\ client.phase = "live" /\ k \in client.pending /\ k \in Nat
          /\ client.pending \subseteq DOMAIN store[Api]
      BY <1>2, <2>6 DEF Listen, TypeOK
    <3>2. /\ \/ client' = [client EXCEPT !.pending = @ \ {k}, !.next = k, !.last = k]
             \/ client' = [client EXCEPT !.pending = @ \ {k}, !.next = k]
          /\ \/ saw' = saw
             \/ saw' = [saw EXCEPT !.live = @ \cup {k}]
      BY <2>6 DEF Listen
    <3>. HIDE DEF k
    <3>3. client' \in Client /\ client'.pending \subseteq client.pending
      <4>1. client.pending \ {k} \in SUBSET Nat
        BY <1>2
      <4>2. client \in Client
        BY DEF TypeOK
      <4>3. CASE client' = [client EXCEPT !.pending = @ \ {k}, !.next = k, !.last = k]
        BY <3>1, <4>1, <4>2, <4>3 DEF Client
      <4>4. CASE client' = [client EXCEPT !.pending = @ \ {k}, !.next = k]
        BY <3>1, <4>1, <4>2, <4>4 DEF Client
      <4>. QED BY <3>2, <4>3, <4>4
    <3>4. saw' \in [rows : SUBSET Nat, live : SUBSET Nat, steady : SUBSET Domains]
      <4>1. saw.live \cup {k} \in SUBSET Nat
        BY <3>1, ClientTyped
      <4>. QED BY <3>2, <4>1 DEF TypeOK
    <3>. QED BY <3>1, <3>3, <3>4
  <2>7. CASE Disconnect
    BY <2>7 DEF Disconnect, Off, TypeOK, Client, Nothing, Scope
  <2>. QED BY <2>1, <2>2, <2>3, <2>4, <2>5, <2>6, <2>7 DEF ClientStep
<1>. QED BY <1>1, <1>3 DEF TypeOK, Kept

LEMMA SteadyStep ==
  ASSUME IInv, Next
  PROVE  Steady'
<1>. USE DEF IInv
<1>1. ASSUME NEW w \in Writers, WriterStep(w)
      PROVE  Steady'
  <2>1. UNCHANGED <<grants, client, saw>>
    BY <1>1 DEF WriterStep, Stamp, Commit, Rollback, Dispatched, Unannounced, Notify
  <2>. QED BY <2>1 DEF Steady, Granted
<1>2. ASSUME NEW p \in Processes, Restart(p) PROVE Steady'
  <2>1. /\ UNCHANGED grants /\ saw'.steady = saw.steady
        /\ client' = client \/ client'.phase = "off"
    BY <1>2 DEF Restart, Off, TypeOK, Client
  <2>. QED BY <2>1 DEF Steady, Granted
<1>3. ASSUME NEW d \in Domains, Grant(d) \/ Revoke(d) PROVE Steady'
  <2>1. /\ ~ grants.all /\ ~ grants'.all /\ client' = client
        /\ \/ saw' = saw /\ grants.ids \subseteq grants'.ids
           \/ saw'.steady = saw.steady \ {d} /\ grants'.ids = grants.ids \ {d}
    BY <1>3 DEF Grant, Revoke, TypeOK, Scope
  <2>. QED BY <2>1 DEF Steady, Granted
<1>4. CASE ClientStep
  <2>1. CASE ConnectFresh \/ Resume \/ Follow
    <3>1. PICK sent \in Nat, from \in Nat : Connect(sent, from)
      BY <2>1, ClientTyped DEF ConnectFresh, Resume, Follow
    <3>2. /\ grants' = grants /\ saw'.steady \subseteq Granted /\ client'.scope = grants
      BY <3>1 DEF Connect, TypeOK, Client
    <3>. QED BY <3>2 DEF Steady, Granted
  <2>2. CASE ~ (ConnectFresh \/ Resume \/ Follow)
    <3>1. /\ grants' = grants /\ saw'.steady = saw.steady /\ client'.phase # "scoped"
      BY <1>4, <2>2 DEF ClientStep, Query, Replay, EndReplay, Poll, Listen, Disconnect,
         Off, TypeOK, Client
    <3>. QED BY <3>1 DEF Steady, Granted
  <2>. QED BY <2>1, <2>2
<1>. QED BY <1>1, <1>2, <1>3, <1>4 DEF Next

-----------------------------------------------------------------------------
(***************************************************************************)
(* The persisted rows.                                                     *)
(***************************************************************************)

\* With fewer domains to answer for and the same log, nothing is missing.
LEMMA RowsStill ==
  ASSUME IInv, log' = log, overtaken' = overtaken, saw'.rows = saw.rows,
         saw'.steady \subseteq saw.steady, client'.cursor = client.cursor,
         \/ client'.phase = "off"
         \/ /\ client'.phase = client.phase /\ client'.sent = client.sent
            /\ client'.pending = client.pending
         \/ client'.phase = "live"
  PROVE  Rows'
BY DEF IInv, Rows, RowsCovered, RowsUnbroken, Seen

\* Rows that are committed late are overtaken; the others come after all that
\* the client has or is going to get from this replay.
LEMMA CommitRows ==
  ASSUME IInv, NEW w \in Writers, Commit(w)
  PROVE  Rows'
<1>. USE DEF IInv, Rows
<1>1. /\ log' = log \cup writer[w].own /\ client' = client /\ saw' = saw
      /\ overtaken' = overtaken \cup
           {r.at : r \in {r \in writer[w].own : \E x \in log : x.at > r.at}}
  BY DEF Commit
<1>2. \A r \in log \cup writer[w].own : r.at \in Nat
  BY DEF TypeOK, WriterState, Row
<1>3. ASSUME NEW r \in log', Seen(r)'
      PROVE  (r \in log /\ Seen(r)) \/ \A x \in log : x.at <= r.at
  BY <1>1, <1>2, <1>3 DEF Seen
<1>4. RowsCovered'
  <2>1. ASSUME NEW r \in log', Seen(r)', r.at <= client.cursor,
               NEW i \in saw.rows, i < r.at
        PROVE  r.at \in saw.rows
    <3>1. CASE r \in log /\ Seen(r)
      BY <2>1, <3>1 DEF RowsCovered
    <3>2. CASE \A x \in log : x.at <= r.at
      <4>1. saw.rows # {} /\ client.cursor # 0
        BY <2>1 DEF RowsCovered
      <4>2. client.cursor \in saw.rows
        BY <4>1 DEF RowsCovered
      <4>3. client.cursor <= r.at /\ r.at \in Nat /\ client.cursor \in Nat
        BY <1>1, <1>2, <3>2, <4>2, ClientTyped DEF RowsCovered
      <4>4. r.at = client.cursor
        BY <2>1, <4>3
      <4>. QED BY <4>2, <4>4
    <3>. QED BY <1>3, <2>1, <3>1, <3>2
  <2>2. saw.rows \subseteq {r.at : r \in log'}
    BY <1>1 DEF RowsCovered
  <2>. QED BY <1>1, <2>1, <2>2 DEF RowsCovered
<1>5. RowsUnbroken'
  <2>1. ASSUME client.phase = "replay", NEW r \in log', NEW k \in client.pending,
               Seen(r)', client.cursor < r.at, r.at < k,
               client.cursor # 0 \/ \E i \in client.pending : i < r.at
        PROVE  r.at \in client.pending
    <3>1. ~ \A x \in log : x.at <= r.at
      <4>1. PICK x \in log : x.at = k
        BY <2>1 DEF RowsUnbroken
      <4>2. r.at \in Nat /\ x.at \in Nat
        BY <1>1, <1>2
      <4>. QED BY <2>1, <4>1, <4>2
    <3>. QED BY <1>3, <2>1, <3>1 DEF RowsUnbroken
  <2>2. client.phase = "replay" => client.pending \subseteq {r.at : r \in log'}
    BY <1>1 DEF RowsUnbroken
  <2>. QED BY <1>1, <2>1, <2>2 DEF RowsUnbroken
<1>. QED BY <1>4, <1>5

LEMMA ConnectRows ==
  ASSUME IInv, ConnectFresh \/ Resume \/ Follow
  PROVE  Rows'
<1>. USE DEF IInv, Rows
<1>1. PICK sent \in Nat, from \in Nat :
        Connect(sent, from) /\ (sent = 0 \/ sent = client.cursor)
  BY ClientTyped DEF ConnectFresh, Resume, Follow
<1>2. /\ log' = log /\ overtaken' = overtaken
      /\ client'.phase = "scoped" /\ client'.sent = sent /\ client'.cursor = sent
      /\ saw'.rows = IF sent = 0 THEN {} ELSE saw.rows
      /\ sent # 0 => saw'.steady \subseteq saw.steady
  BY <1>1 DEF Connect, TypeOK, Client
<1>3. RowsUnbroken'
  BY <1>2 DEF RowsUnbroken
<1>4. CASE sent = 0
  BY <1>2, <1>3, <1>4 DEF RowsCovered
<1>5. CASE sent # 0
  BY <1>1, <1>2, <1>3, <1>5 DEF RowsCovered, Seen
<1>. QED BY <1>4, <1>5

LEMMA QueryRows ==
  ASSUME IInv, Query
  PROVE  Rows'
<1>. USE DEF IInv, Rows
<1>. DEFINE rs == IF client.sent = 0 THEN RecentRows(client.scope)
                  ELSE RowsAfter(client.sent, client.scope)
<1>1. /\ log' = log /\ overtaken' = overtaken /\ saw' = saw
      /\ client.phase = "scoped" /\ client'.phase = "replay"
      /\ client'.pending = {r.at : r \in rs} /\ client'.cursor = client.cursor
      /\ client.sent = client.cursor
  BY DEF Query, TypeOK, Client, RowsCovered
<1>2. rs \subseteq log /\ (client.sent # 0 => rs \subseteq After(client.sent))
  BY DEF RecentRows, RowsAfter, NewestRows, OldestRows, InScope, After
<1>3. \A r \in log : r.at \in Nat
  BY LogTyped
<1>4. \A r \in log : Seen(r) => client.scope.all \/ r.dom \in client.scope.ids
  BY <1>1 DEF Steady, Seen
<1>5. client.scope \in Scope /\ client.sent \in Nat /\ IsFiniteSet(log)
  BY ClientTyped DEF Kept
<1>6. ASSUME NEW r \in log, NEW x \in rs, Seen(r), client.cursor < r.at, r.at < x.at,
             client.cursor # 0 \/ \E y \in rs : y.at < r.at
      PROVE  r \in rs
  <2>1. CASE client.sent # 0
    BY <1>1, <1>4, <1>5, <1>6, <2>1, AfterUnbroken
  <2>2. CASE client.sent = 0
    <3>1. PICK y \in RecentRows(client.scope) : y.at < r.at
      BY <1>1, <1>6, <2>2
    <3>. QED BY <1>4, <1>5, <1>6, <2>2, <3>1, RecentUnbroken
  <2>. QED BY <2>1, <2>2
<1>. HIDE DEF rs
<1>7. \A x \in rs : client.cursor < x.at
  <2>1. CASE client.sent # 0
    BY <1>1, <1>2, <1>3, <2>1, ClientTyped DEF After
  <2>2. CASE client.sent = 0
    <3>1. \A x \in log : x.at # 0
      BY DEF Kept
    <3>. QED BY <1>1, <1>2, <1>3, <2>2, <3>1
  <2>. QED BY <2>1, <2>2
<1>8. RowsUnbroken'
  <2>1. client'.pending \subseteq {r.at : r \in log}
    BY <1>1, <1>2
  <2>2. \A k \in client'.pending : client.cursor < k
    BY <1>1, <1>7
  <2>3. ASSUME NEW r \in log, NEW k \in client'.pending, Seen(r), client.cursor < r.at,
               r.at < k, client.cursor # 0 \/ \E i \in client'.pending : i < r.at
        PROVE  r.at \in client'.pending
    BY <1>1, <1>6, <2>3
  <2>. QED BY <1>1, <2>1, <2>2, <2>3 DEF RowsUnbroken, Seen
<1>9. RowsCovered'
  BY <1>1 DEF RowsCovered, Seen
<1>. QED BY <1>8, <1>9

LEMMA ReplayRows ==
  ASSUME IInv, Replay
  PROVE  Rows'
<1>. USE DEF IInv, Rows
<1>. DEFINE k == First(client.pending)
<1>1. /\ client.phase = "replay" /\ client.pending # {}
      /\ log' = log /\ overtaken' = overtaken /\ saw'.steady = saw.steady
      /\ saw'.rows = saw.rows \cup {k}
      /\ client'.phase = "replay" /\ client'.pending = client.pending \ {k}
      /\ client'.cursor = k
  BY DEF Replay, TypeOK, Client
<1>2. k \in client.pending /\ \A n \in client.pending : k <= n
  BY <1>1, ClientTyped, HasSmallest
<1>. HIDE DEF k
<1>3. /\ k \in Nat /\ client.cursor < k /\ client.cursor \in Nat
      /\ client.pending \in SUBSET Nat /\ \A r \in log : r.at \in Nat
      /\ client.pending \subseteq {r.at : r \in log}
      /\ saw.rows \in SUBSET Nat
  BY <1>1, <1>2, ClientTyped, LogTyped DEF RowsUnbroken
<1>4. ASSUME NEW r \in log, Seen(r), r.at <= k, NEW i \in saw'.rows, i < r.at
      PROVE  r.at \in saw'.rows
  <2>1. i \in saw.rows /\ r.at \in Nat /\ i \in Nat
    BY <1>1, <1>3, <1>4
  <2>2. CASE r.at <= client.cursor
    BY <1>1, <1>4, <2>1, <2>2 DEF RowsCovered
  <2>3. CASE client.cursor < r.at /\ r.at < k
    <3>1. client.cursor # 0
      BY <2>1 DEF RowsCovered
    <3>2. r.at \in client.pending
      BY <1>1, <1>2, <1>4, <2>3, <3>1 DEF RowsUnbroken
    <3>. QED BY <1>2, <1>3, <2>1, <2>3, <3>2
  <2>4. CASE r.at = k
    BY <1>1, <2>4
  <2>. QED BY <1>3, <1>4, <2>1, <2>2, <2>3, <2>4
<1>5. RowsCovered'
  <2>1. \A i \in saw'.rows : i <= k
    BY <1>1, <1>3 DEF RowsCovered
  <2>2. k # 0 /\ saw'.rows \subseteq {r.at : r \in log}
    BY <1>1, <1>2, <1>3 DEF RowsCovered
  <2>. QED BY <1>1, <1>4, <2>1, <2>2 DEF RowsCovered, Seen
<1>6. RowsUnbroken'
  <2>1. ASSUME NEW r \in log, NEW m \in client'.pending, Seen(r), k < r.at, r.at < m
        PROVE  r.at \in client'.pending
    <3>1. client.cursor < r.at /\ k \in client.pending /\ m \in client.pending
      BY <1>1, <1>2, <1>3, <2>1
    <3>2. r.at \in client.pending
      BY <1>1, <2>1, <3>1 DEF RowsUnbroken
    <3>. QED BY <1>1, <1>3, <2>1, <3>2
  <2>2. \A m \in client'.pending : k < m
    BY <1>1, <1>2, <1>3
  <2>. QED BY <1>1, <1>3, <2>1, <2>2 DEF RowsUnbroken, Seen
<1>. QED BY <1>5, <1>6

LEMMA RowsStep ==
  ASSUME IInv, Next
  PROVE  Rows'
<1>. USE DEF IInv
<1>1. ASSUME NEW w \in Writers,
             \/ (\E d \in Domains : Stamp(w, d)) \/ Rollback(w)
             \/ Dispatched(w) \/ Unannounced(w) \/ Notify(w)
      PROVE  Rows'
  BY <1>1, RowsStill DEF Stamp, Rollback, Dispatched, Unannounced, Notify
<1>2. ASSUME NEW w \in Writers, Commit(w) PROVE Rows'
  BY <1>2, CommitRows
<1>3. ASSUME NEW p \in Processes, Restart(p) PROVE Rows'
  <2>1. /\ log' = log /\ overtaken' = overtaken /\ saw'.rows = saw.rows
        /\ saw'.steady = saw.steady /\ client'.cursor = client.cursor
        /\ client' = client \/ client'.phase = "off"
    BY <1>3 DEF Restart, Off, TypeOK, Client
  <2>. QED BY <2>1, RowsStill
<1>4. ASSUME NEW d \in Domains, Grant(d) \/ Revoke(d) PROVE Rows'
  <2>1. /\ log' = log /\ overtaken' = overtaken /\ saw'.rows = saw.rows
        /\ saw'.steady \subseteq saw.steady /\ client' = client
    BY <1>4 DEF Grant, Revoke, TypeOK
  <2>. QED BY <2>1, RowsStill
<1>5. CASE EndReplay \/ Poll \/ Listen \/ Disconnect
  <2>1. /\ log' = log /\ overtaken' = overtaken /\ saw'.rows = saw.rows
        /\ saw'.steady = saw.steady /\ client'.cursor = client.cursor
        /\ client'.phase \in {"off", "live"}
    BY <1>5 DEF EndReplay, Poll, Listen, Disconnect, Off, TypeOK, Client
  <2>. QED BY <2>1, RowsStill
<1>. QED BY <1>1, <1>2, <1>3, <1>4, <1>5, ConnectRows, QueryRows, ReplayRows
     DEF Next, WriterStep, ClientStep

-----------------------------------------------------------------------------
(***************************************************************************)
(* The live items.                                                         *)
(***************************************************************************)

\* With fewer domains to answer for and the same store, nothing is missing.
LEMMA ItemsStill ==
  ASSUME IInv, store'[Api] = store[Api], saw'.live = saw.live,
         saw'.steady \subseteq saw.steady, client'.last = client.last,
         \/ client'.phase = "off"
         \/ /\ client'.phase = client.phase /\ client'.from = client.from
            /\ client'.next = client.next /\ client'.pending = client.pending
  PROVE  Items'
<1>. USE DEF IInv, Items
<1>1. \A p : ItemsUpTo(p) => ItemsUpTo(p)'
  BY DEF ItemsUpTo
<1>2. ItemsCovered'
  BY <1>1 DEF ItemsCovered
<1>3. ItemsUnbroken'
  BY DEF ItemsUnbroken
<1>4. LiveWithoutGap'
  BY DEF LiveWithoutGap, Between
<1>. QED BY <1>2, <1>3, <1>4

\* An item that arrives comes after all that the client has or has in hand.
LEMMA NotifyItems ==
  ASSUME IInv, NEW w \in Writers, Notify(w)
  PROVE  Items'
<1>. USE DEF IInv, Items
<1>. DEFINE n == Len(store[Api])
<1>1. UNCHANGED <<clock, log, grants, client, saw, overtaken>>
  BY DEF Notify
<1>2. CASE Home(w) # Api
  <2>1. store'[Api] = store[Api]
    BY <1>2, ApiIsAProcess DEF Notify, TypeOK
  <2>. QED BY <1>1, <2>1, ItemsStill
<1>3. CASE Home(w) = Api
  <2>1. /\ Len(store'[Api]) = n + 1 /\ n \in Nat
        /\ \A k \in 1..n : store'[Api][k] = store[Api][k]
        /\ DOMAIN store[Api] = 1..n /\ DOMAIN store'[Api] = 1..n + 1
    <3>1. PICK i : store'[Api] = Append(store[Api], i)
      BY <1>3, ApiIsAProcess DEF Notify, TypeOK
    <3>2. store[Api] \in Seq(Item) /\ n \in Nat
      BY StoreTyped, ApiIsAProcess
    <3>. QED BY <3>1, <3>2
  <2>3. /\ saw.live \subseteq 1..n
        /\ client.phase = "live" => client.pending \subseteq 1..n
    BY <2>1 DEF TypeOK, ItemsCovered
  <2>. HIDE DEF n
  <2>4. \A p : ItemsUpTo(p) => ItemsUpTo(p)'
    <3>1. ASSUME NEW p, ItemsUpTo(p), saw.live # {}
          PROVE  /\ p \in 1..n + 1 /\ \A i \in saw.live : i <= p
                 /\ \A k \in 1..n + 1 :
                      /\ store'[Api][k].doms \subseteq saw.steady
                      /\ k <= p /\ \E i \in saw.live : i < k
                      => k \in saw.live
      <4>1. p \in 1..n /\ \A k \in 1..n + 1 : k <= p => k \in 1..n
        BY <2>1, <3>1 DEF ItemsUpTo, n
      <4>. QED BY <2>1, <3>1, <4>1 DEF ItemsUpTo, n
    <3>. QED BY <1>1, <2>1, <3>1 DEF ItemsUpTo
  <2>5. ItemsCovered'
    BY <1>1, <2>1, <2>3, <2>4 DEF ItemsCovered
  <2>6. ItemsUnbroken'
    <3>1. ASSUME client.phase = "live", NEW m \in 1..n + 1, NEW k \in client.pending, m < k
          PROVE  m \in 1..n
      BY <2>1, <2>3, <3>1
    <3>. QED BY <1>1, <2>1, <3>1 DEF ItemsUnbroken, n
  <2>7. LiveWithoutGap'
    <3>1. ASSUME NEW k \in 1..n + 1, Between(saw.live, k) PROVE k \in 1..n
      BY <2>1, <2>3, <3>1 DEF Between
    <3>. QED BY <1>1, <2>1, <3>1 DEF LiveWithoutGap, Between
  <2>. QED BY <2>5, <2>6, <2>7
<1>. QED BY <1>2, <1>3

LEMMA RestartItems ==
  ASSUME IInv, NEW p \in Processes, Restart(p)
  PROVE  Items'
<1>. USE DEF IInv
<1>1. CASE p = Api
  <2>1. saw'.live = {} /\ client'.phase = "off"
    BY <1>1 DEF Restart, Off, TypeOK, Client
  <2>. QED BY <2>1 DEF Items, ItemsCovered, ItemsUnbroken, ItemsUpTo, LiveWithoutGap, Between
<1>2. CASE p # Api
  <2>1. store'[Api] = store[Api] /\ client' = client /\ saw' = saw
    BY <1>2, ApiIsAProcess DEF Restart, TypeOK
  <2>. QED BY <2>1, ItemsStill
<1>. QED BY <1>1, <1>2

LEMMA ConnectItems ==
  ASSUME IInv, ConnectFresh \/ Resume \/ Follow
  PROVE  Items'
<1>. USE DEF IInv, Items
<1>1. PICK sent \in Nat, from \in Nat :
        Connect(sent, from) /\ (from = 0 \/ from = client.last)
  BY ClientTyped DEF ConnectFresh, Resume, Follow
<1>2. /\ store' = store /\ client'.phase = "scoped" /\ client'.from = from
      /\ client'.last = from
      /\ saw'.live = IF from = 0 THEN {} ELSE saw.live
      /\ from # 0 => saw'.steady \subseteq saw.steady
  BY <1>1 DEF Connect, TypeOK, Client
<1>3. ItemsUnbroken'
  BY <1>2 DEF ItemsUnbroken
<1>4. CASE from = 0
  BY <1>2, <1>3, <1>4 DEF ItemsCovered, ItemsUpTo, LiveWithoutGap, Between
<1>5. CASE from # 0
  <2>1. saw'.live = saw.live /\ saw'.steady \subseteq saw.steady /\ from = client.last
    BY <1>1, <1>2, <1>5
  <2>2. ItemsUpTo(from)
    BY <1>5, <2>1 DEF ItemsCovered
  <2>3. ItemsUpTo(from)'
    BY <1>2, <2>1, <2>2 DEF ItemsUpTo
  <2>4. LiveWithoutGap'
    BY <1>2, <2>1 DEF LiveWithoutGap, Between
  <2>. QED BY <1>2, <1>3, <2>1, <2>3, <2>4 DEF ItemsCovered
<1>. QED BY <1>4, <1>5

\* The first batch is the end of the store, a later one all after the id.
LEMMA PollItems ==
  ASSUME IInv, Poll
  PROVE  Items'
<1>. USE DEF IInv, Items
<1>1. /\ store' = store /\ saw' = saw /\ client.phase = "live" /\ client'.phase = "live"
      /\ client'.pending = Since(client.next) /\ client'.next = client.next
      /\ client'.last = client.last
  BY DEF Poll, TypeOK, Client
<1>2. /\ DOMAIN store[Api] = 1..Len(store[Api]) /\ Len(store[Api]) \in Nat
      /\ client.next \in Nat /\ Recent \in Nat
  BY StoreTyped, ApiIsAProcess, ClientTyped, StreamConstants
<1>3. ItemsUnbroken'
  <2>1. \A k \in Since(client.next) : client.next < k
    BY <1>2 DEF Since
  <2>2. ASSUME NEW m \in 1..Len(store[Api]), NEW k \in Since(client.next),
               client.next < m, m < k,
               client.next # 0 \/ \E i \in Since(client.next) : i < m
        PROVE  m \in Since(client.next)
    BY <1>2, <2>2 DEF Since
  <2>. QED BY <1>1, <2>1, <2>2 DEF ItemsUnbroken
<1>4. \A p : ItemsUpTo(p) => ItemsUpTo(p)'
  BY <1>1 DEF ItemsUpTo
<1>5. ItemsCovered' /\ LiveWithoutGap'
  BY <1>1, <1>4 DEF ItemsCovered, LiveWithoutGap, Between
<1>. QED BY <1>3, <1>5

\* The next item of a batch is sent, or is of domains the client may not see.
LEMMA ListenItems ==
  ASSUME IInv, Listen
  PROVE  Items'
<1>. USE DEF IInv, Items
<1>. DEFINE n == Len(store[Api])
<1>0. PICK k : k = First(client.pending)
  OBVIOUS
<1>1. /\ store' = store /\ saw'.steady = saw.steady
      /\ client.phase = "live" /\ client'.phase = "live" /\ client.pending # {}
      /\ client'.pending = client.pending \ {k} /\ client'.next = k
      /\ \/ saw'.live = saw.live \cup {k} /\ client'.last = k
         \/ ~ VisibleItem(k) /\ saw'.live = saw.live /\ client'.last = client.last
  BY <1>0 DEF Listen, TypeOK, Client
<1>2. k \in client.pending /\ \A m \in client.pending : k <= m
  BY <1>0, <1>1, ClientTyped, HasSmallest
<1>3. /\ DOMAIN store[Api] = 1..n /\ n \in Nat /\ client.pending \subseteq 1..n
      /\ client.next \in Nat /\ client.pending \in SUBSET Nat /\ saw.live \subseteq 1..n
  BY <1>1, StoreTyped, ApiIsAProcess, ClientTyped DEF TypeOK, ItemsCovered
<1>4. k \in 1..n /\ client.next < k
  BY <1>1, <1>2, <1>3 DEF ItemsUnbroken
\* An item without a domain is the ready item, which all may see.
<1>5. ~ VisibleItem(k) => ~ (store[Api][k].doms \subseteq saw.steady)
  <2>1. ASSUME ~ VisibleItem(k), store[Api][k].doms \subseteq saw.steady PROVE FALSE
    <3>1. /\ store[Api][k] # Ready /\ ~ grants.all
          /\ store[Api][k].doms \cap grants.ids = {}
      BY <2>1 DEF VisibleItem
    <3>2. store[Api][k].doms # {}
      BY <1>4, <3>1, ApiIsAProcess DEF Kept
    <3>3. saw.steady \subseteq grants.ids
      BY <3>1 DEF Steady, Granted
    <3>. QED BY <2>1, <3>1, <3>2, <3>3
  <2>. QED BY <2>1
<1>. HIDE DEF n
<1>6. ASSUME saw.live # {}
      PROVE  /\ \A i \in saw.live : i < k
             /\ \A m \in 1..n :
                  /\ store[Api][m].doms \subseteq saw.steady /\ m < k
                  /\ \E i \in saw.live : i < m
                  => m \in saw.live
  <2>1. ItemsUpTo(client.next) /\ client.next \in 1..n
    BY <1>1, <1>6 DEF ItemsCovered, ItemsUpTo, n
  <2>2. \A i \in saw.live : i < k
    BY <1>3, <1>4, <1>6, <2>1 DEF ItemsUpTo, n
  <2>3. ASSUME NEW m \in 1..n, store[Api][m].doms \subseteq saw.steady, m < k,
               NEW i \in saw.live, i < m
        PROVE  m \in saw.live
    <3>1. CASE m <= client.next
      BY <1>6, <2>1, <2>3, <3>1 DEF ItemsUpTo, n
    <3>2. CASE client.next < m
      <4>1. client.next # 0
        BY <2>1
      <4>2. m \in client.pending
        BY <1>1, <1>2, <2>3, <3>2, <4>1 DEF ItemsUnbroken, n
      <4>. QED BY <1>2, <1>3, <1>4, <2>3, <4>2
    <3>. QED BY <1>3, <2>3, <3>1, <3>2
  <2>. QED BY <2>2, <2>3
<1>7. ItemsUpTo(k)'
  <2>1. ASSUME NEW m \in 1..n, store[Api][m].doms \subseteq saw.steady, m <= k,
               NEW i \in saw'.live, i < m
        PROVE  m \in saw'.live
    <3>1. i \in saw.live /\ i # k
      BY <1>1, <1>3, <1>4, <2>1
    <3>2. CASE m = k
      BY <1>1, <1>5, <2>1, <3>2
    <3>3. CASE m < k
      BY <1>1, <1>6, <2>1, <3>1, <3>3
    <3>. QED BY <1>4, <2>1, <3>2, <3>3
  <2>2. \A i \in saw'.live : i <= k
    BY <1>1, <1>3, <1>4, <1>6
  <2>. QED BY <1>1, <1>4, <2>1, <2>2 DEF ItemsUpTo, n
<1>8. client'.last # 0 => ItemsUpTo(client.last)'
  <2>1. CASE client'.last = k
    BY <1>7, <2>1
  <2>2. CASE saw'.live = saw.live /\ client'.last = client.last
    <3>1. \A p : ItemsUpTo(p) => ItemsUpTo(p)'
      BY <1>1, <2>2 DEF ItemsUpTo
    <3>. QED BY <2>2, <3>1 DEF ItemsCovered
  <2>. QED BY <1>1, <2>1, <2>2
<1>9. ItemsCovered'
  <2>1. saw'.live \subseteq 1..n
    BY <1>1, <1>3, <1>4
  <2>. QED BY <1>1, <1>7, <1>8, <2>1 DEF ItemsCovered, n
<1>10. ItemsUnbroken'
  <2>1. ASSUME NEW m \in 1..n, NEW j \in client'.pending, k < m, m < j
        PROVE  m \in client'.pending
    <3>1. m \in client.pending
      BY <1>1, <1>2, <1>3, <1>4, <2>1 DEF ItemsUnbroken, n
    <3>. QED BY <1>1, <1>3, <1>4, <2>1, <3>1
  <2>2. \A j \in client'.pending : k < j
    BY <1>1, <1>2, <1>3
  <2>. QED BY <1>1, <2>1, <2>2 DEF ItemsUnbroken, n
<1>11. LiveWithoutGap'
  <2>1. ASSUME NEW m \in 1..n, NEW i \in saw'.live, NEW j \in saw'.live, i < m, m < j,
               store[Api][m].doms \subseteq saw.steady
        PROVE  m \in saw'.live
    <3>1. j <= k
      BY <1>1, <1>3, <1>4, <1>6
    <3>2. i \in saw.live /\ m < k
      BY <1>1, <1>3, <1>4, <2>1, <3>1
    <3>. QED BY <1>1, <1>6, <2>1, <3>2
  <2>. QED BY <1>1, <1>3, <2>1 DEF LiveWithoutGap, Between
<1>. QED BY <1>9, <1>10, <1>11

\* Steps of the client that neither poll nor listen.
LEMMA ReplayItems ==
  ASSUME IInv, Query \/ Replay \/ EndReplay
  PROVE  Items'
<1>. USE DEF IInv, Items
<1>1. /\ store' = store /\ saw'.live = saw.live /\ saw'.steady = saw.steady
      /\ client.phase \in {"scoped", "replay"}
      /\ client'.last \in {client.last, 0}
      /\ \/ client'.phase = "replay" /\ client'.from = client.from
         \/ client'.phase = "live" /\ client'.next = client.from /\ client'.pending = {}
  BY DEF Query, Replay, EndReplay, TypeOK, Client
<1>2. \A p : ItemsUpTo(p) => ItemsUpTo(p)'
  BY <1>1 DEF ItemsUpTo
<1>3. ItemsCovered' /\ LiveWithoutGap'
  BY <1>1, <1>2 DEF ItemsCovered, LiveWithoutGap, Between
<1>4. ItemsUnbroken'
  BY <1>1 DEF ItemsUnbroken
<1>. QED BY <1>3, <1>4

LEMMA ItemsStep ==
  ASSUME IInv, Next
  PROVE  Items'
<1>. USE DEF IInv
<1>1. ASSUME NEW w \in Writers,
             \/ (\E d \in Domains : Stamp(w, d)) \/ Commit(w) \/ Rollback(w)
             \/ Dispatched(w) \/ Unannounced(w)
      PROVE  Items'
  BY <1>1, ItemsStill DEF Stamp, Commit, Rollback, Dispatched, Unannounced
<1>2. ASSUME NEW w \in Writers, Notify(w) PROVE Items'
  BY <1>2, NotifyItems
<1>3. ASSUME NEW p \in Processes, Restart(p) PROVE Items'
  BY <1>3, RestartItems
<1>4. ASSUME NEW d \in Domains, Grant(d) \/ Revoke(d) PROVE Items'
  <2>1. /\ store' = store /\ client' = client /\ saw'.live = saw.live
        /\ saw'.steady \subseteq saw.steady
    BY <1>4 DEF Grant, Revoke, TypeOK
  <2>. QED BY <2>1, ItemsStill
<1>5. CASE Disconnect
  <2>1. /\ store' = store /\ saw' = saw /\ client'.phase = "off"
        /\ client'.last = client.last
    BY <1>5 DEF Disconnect, Off, TypeOK, Client
  <2>. QED BY <2>1, ItemsStill
<1>. QED BY <1>1, <1>2, <1>3, <1>4, <1>5, ConnectItems, PollItems, ListenItems,
     ReplayItems DEF Next, WriterStep, ClientStep

-----------------------------------------------------------------------------
(***************************************************************************)
(* The theorems.                                                           *)
(***************************************************************************)
LEMMA Initially == Init => IInv
<1>. SUFFICES ASSUME Init PROVE IInv
  OBVIOUS
<1>1. /\ clock = 0 /\ log = {} /\ overtaken = {}
      /\ saw = [rows |-> {}, live |-> {}, steady |-> {}]
      /\ client = [phase |-> "off", scope |-> Nothing, sent |-> 0, from |-> 0,
                   pending |-> {}, next |-> 0, cursor |-> 0, last |-> 0]
      /\ writer = [w \in Writers |-> Idle] /\ store = [p \in Processes |-> <<Ready>>]
      /\ grants \in Scope
  BY DEF Init
<1>2. Idle \in WriterState /\ Idle.pc = "idle" /\ Idle.own = {} /\ Nothing \in Scope
  BY DEF Idle, WriterState, Nothing, Scope
<1>3. TypeOK
  BY <1>1, <1>2, ReadyType DEF TypeOK, Client
<1>4. Kept
  <2>1. \A p \in Processes : \A k \in 1..Len(store[p]) : store[p][k] = Ready
    BY <1>1
  <2>. QED BY <1>1, <1>2, <2>1, FS_EmptySet DEF Kept
<1>5. Steady
  BY <1>1 DEF Steady
<1>6. Rows
  BY <1>1 DEF Rows, RowsCovered, RowsUnbroken
<1>7. Items
  BY <1>1 DEF Items, ItemsCovered, ItemsUnbroken, ItemsUpTo, LiveWithoutGap, Between
<1>. QED BY <1>3, <1>4, <1>5, <1>6, <1>7 DEF IInv

LEMMA Step == IInv /\ [Next]_vars => IInv'
<1>. SUFFICES ASSUME IInv, [Next]_vars PROVE IInv'
  OBVIOUS
<1>1. CASE UNCHANGED vars
  BY <1>1 DEF vars, IInv, TypeOK, Kept, Steady, Granted, Rows, RowsCovered,
     RowsUnbroken, Seen, Items, ItemsCovered, ItemsUnbroken, ItemsUpTo,
     LiveWithoutGap, Between
<1>2. CASE Next
  <2>1. TypeOK' /\ Kept'
    BY <1>2, WriterTypes, OthersTypes, ClientTypes DEF Next
  <2>. QED BY <1>2, <2>1, SteadyStep, RowsStep, ItemsStep DEF IInv
<1>. QED BY <1>1, <1>2

LEMMA Invariance == Spec => []IInv
BY Initially, Step, PTL DEF Spec

\* Rows, transactions, stores and the connection keep their types, and a live
\* batch refers to items of the store, for any number of restarts.
THEOREM TypeCorrect == Spec => []TypeOK
BY Invariance, PTL DEF IInv

\* Whatever is committed, granted, revoked, cut off or restarted meanwhile, and
\* whatever the sizes of the replay and of its window, a client that resumes
\* with its persisted cursor misses between two rows it got only a row that was
\* committed late (list_after_for_domain_ids, Last-Event-ID).
THEOREM ReplaysSkipOnlyOvertaken == Spec => []SkippedOnlyIfOvertaken
<1>1. IInv => SkippedOnlyIfOvertaken
  <2>. SUFFICES ASSUME IInv, NEW r \in log, NEW i \in saw.rows, NEW j \in saw.rows,
                       i < r.at, r.at < j, Seen(r)
                PROVE  r.at \in saw.rows
    BY DEF SkippedOnlyIfOvertaken, Between, Seen
  <2>1. j <= client.cursor
    BY DEF IInv, Rows, RowsCovered
  <2>2. r.at \in Nat /\ j \in Nat /\ client.cursor \in Nat
    BY LogTyped, ClientTyped DEF IInv
  <2>3. r.at <= client.cursor
    BY <2>1, <2>2
  <2>. QED BY <2>3 DEF IInv, Rows, RowsCovered
<1>. QED BY <1>1, Invariance, PTL

\* Between two live items a client got there is none that it did not get and
\* could see, over any number of connections that name the last live id and
\* any change of the grants (InMemoryProgressStore.events_since).
THEOREM LiveItemsHaveNoGap == Spec => []LiveWithoutGap
BY Invariance, PTL DEF IInv, Items

=============================================================================
