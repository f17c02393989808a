-------------------------- MODULE DocumentsProofs ---------------------------
(***************************************************************************)
(* What Documents keeps for any number of items, requests and writes.      *)
(*                                                                         *)
(* UniqueKeys and LinkedInDomain are about committed rows.  They are       *)
(* inductive together with what a request knows of the rows it is going to *)
(* write (Held), and with what the locks keep apart (Apart): two           *)
(* transactions that have written never write one row, give siblings one   *)
(* key, or refer to a source and remove it.                                *)
(*                                                                         *)
(* HistoryTellsRow is about the order of the journal.  It is inductive     *)
(* together with what an open transaction's journal row says of its        *)
(* request, and with the places of committed and uncommitted rows about    *)
(* one item, as long as neither was crossed (History).                     *)
(*                                                                         *)
(* At the end, the segments into which Segmenting cuts a text, for texts   *)
(* and windows of any length: the rows stored so far are windows that      *)
(* follow one another up to the next (SegmentingInv).                      *)
(***************************************************************************)
EXTENDS Documents, Segmenting, SequenceTheorems, TLAPS

\* No live sibling has the key that q is about to give.
KeyIsFree(q) ==
  "key" \in q.writes =>
    \A j \in live \ {q.id} :
      Kin(q.id, j) /\ row[j].parent = q.parent =>
        row[j].cols["key"] # q.after["key"]

HeldFromStart(q) ==
  /\ q.id \in Items /\ q.ask \in Columned
  /\ q.op = "create" => q.id \notin live \cup gone
  /\ q.op # "create" =>
       /\ q.id \in live \cup gone /\ q.before \in Columned
       /\ q.id \in live => q.parent = row[q.id].parent
  /\ q.op = "delete" => q.id \in Sources /\ q.tells = {}
  /\ q.op = "create" /\ q.link # None =>
       /\ q.id \in Documents /\ q.link \in live \cup gone
       /\ q.link \in live => row[q.link].parent = q.parent

HeldOnceSelected(q) ==
  /\ q.after \in Columned
  /\ \A f \in q.writes : q.after[f] = q.ask[f]
  /\ q.op = "create" => q.writes = Columns
  /\ q.op # "create" => q.writes \subseteq q.tells
  /\ q.writes # {} \/ q.op = "delete" => q.locks

HeldOnceWritten(q) ==
  /\ q.op # "create" /\ q.locks => q.id \in live
  /\ q.op = "create" /\ q.link # None => q.link \in live
  /\ KeyIsFree(q)

Held ==
  \A r \in Requests :
    /\ request[r].pc # "idle" => HeldFromStart(request[r])
    /\ request[r].pc \in {"selected", "written"} => HeldOnceSelected(request[r])
    /\ request[r].pc = "written" => HeldOnceWritten(request[r])

\* Creations have identifiers of their own.
FreshIds ==
  \A r, s \in Requests :
    r # s /\ request[r].pc # "idle" /\ request[r].op = "create" =>
      request[s].id # request[r].id

Compatible(q, p) ==
  /\ q.op # "create" /\ p.op # "create" /\ q.locks /\ p.locks => q.id # p.id
  /\ q.op = "create" /\ p.op = "delete" => q.link # p.id
  /\ "key" \in q.writes /\ "key" \in p.writes /\ Siblings(q, p) =>
       q.after["key"] # p.after["key"]

Apart ==
  \A r, s \in Requests :
    r # s /\ request[r].pc = "written" /\ request[s].pc = "written" =>
      Compatible(request[r], request[s])

\* A request that has written has its journal row.
Noted ==
  \A r \in Requests :
    request[r].pc = "written" /\ Journalled(request[r]) =>
      \E n \in 1..Len(journal) :
        journal[n].by = r /\ journal[n].of = request[r].id
          /\ journal[n].tells = request[r].tells

Tables == Held /\ FreshIds /\ Apart /\ UniqueKeys /\ LinkedInDomain

IInv == TypeOK /\ Tables /\ Noted

\* The journal row of an open transaction says what its request is doing.
Owned ==
  \A n \in 1..Len(journal) :
    journal[n].by # None =>
      LET e == journal[n]
          q == request[journal[n].by]
      IN /\ q.pc = "written" /\ e.of = q.id /\ e.tells = q.tells
         /\ e.after = q.after
         /\ q.op # "create" => e.before = q.before

\* An open transaction has one journal row.
Single ==
  \A m, n \in 1..Len(journal) :
    journal[m].by # None /\ journal[m].by = journal[n].by => m = n

\* Committed journal rows are about items that exist or existed.
Settled ==
  \A n \in 1..Len(journal) :
    journal[n].by = None => journal[n].of \in live \cup gone

\* Nothing uncommitted comes before a committed row that was not crossed, ...
Ahead ==
  \A m, n \in 1..Len(journal) :
    /\ m < n /\ journal[m].of = journal[n].of
    /\ journal[n].by = None /\ ~ journal[n].crossed
    => journal[m].by = None

\* ... and nothing committed comes after the row of a request that was not.
Latest ==
  \A m, n \in 1..Len(journal) :
    /\ m < n /\ journal[m].of = journal[n].of
    /\ journal[m].by # None /\ journal[n].by = None
    => request[journal[m].by].crossed

\* Until it is crossed, a request finds the row as it first read it.
Unmoved ==
  \A r \in Requests :
    LET q == request[r] IN
    q.pc # "idle" /\ q.op # "create" /\ ~ q.crossed /\ q.id \in live =>
      /\ q.before = row[q.id].cols
      /\ q.pc \in {"selected", "written"} =>
           \A f \in q.tells \ q.writes : q.after[f] = row[q.id].cols[f]

History == Owned /\ Single /\ Settled /\ Ahead /\ Latest /\ Unmoved

HInv == IInv /\ History /\ HistoryTellsRow

-----------------------------------------------------------------------------
(***************************************************************************)
(* Values.                                                                 *)
(***************************************************************************)
LEMMA NoneIsNoItem == None \notin Items /\ None \notin Sources /\ None \notin Requests
BY DocumentConstants DEF Items

LEMMA KindsAreApart ==
  /\ Domains \cap Sources = {} /\ Domains \cap Documents = {} /\ Domains \cap Parts = {}
  /\ Sources \cap Documents = {} /\ Sources \cap Parts = {} /\ Documents \cap Parts = {}
BY DocumentConstants

LEMMA ReplaceType ==
  ASSUME NEW old \in Columned, NEW new \in Columned, NEW T \in SUBSET Columns
  PROVE  /\ Replace(old, new, T) \in Columned
         /\ \A f \in T : Replace(old, new, T)[f] = new[f]
         /\ \A f \in Columns \ T : Replace(old, new, T)[f] = old[f]
<1>1. \A f \in Columns : old[f] \in Values /\ new[f] \in Values
  BY DEF Columned
<1>. QED BY <1>1 DEF Replace, Columned

LEMMA UniformType ==
  ASSUME NEW v \in Values
  PROVE  Uniform(v) \in Columned
BY DEF Uniform, Columned

\* Identifying a request that has begun.
LEMMA IdleShape ==
  /\ Idle \in RequestType /\ Idle.pc = "idle" /\ Idle.id = None /\ Idle.op = "change"
BY DEF Idle, RequestType, Phases, Ops

-----------------------------------------------------------------------------
(***************************************************************************)
(* A request that begins.                                                  *)
(***************************************************************************)
Begun(r, q) ==
  /\ q \in RequestType /\ Start(r, q)
  /\ q.pc \in {"read", "cleared"} /\ HeldFromStart(q)
  /\ q.op = "create" => Fresh(q.id)
  /\ q.op # "create" => q.before = row[q.id].cols

LEMMA StartStep ==
  ASSUME IInv, NEW r \in Requests, NEW q, Begun(r, q)
  PROVE  IInv'
<1>. USE DEF IInv, Tables, Begun
<1>1. /\ request[r].pc = "idle" /\ request' = [request EXCEPT ![r] = q]
      /\ UNCHANGED <<live, gone, row, journal>>
  BY DEF Start
<1>2. request'[r] = q /\ \A s \in Requests \ {r} : request'[s] = request[s]
  BY <1>1 DEF TypeOK
<1>3. TypeOK'
  BY <1>1 DEF TypeOK
<1>4. \A p : /\ HeldFromStart(p)' <=> HeldFromStart(p)
             /\ HeldOnceSelected(p)' <=> HeldOnceSelected(p)
             /\ HeldOnceWritten(p)' <=> HeldOnceWritten(p)
  BY <1>1 DEF HeldFromStart, HeldOnceSelected, HeldOnceWritten, KeyIsFree
<1>5. Held'
  BY <1>2, <1>4 DEF Held
<1>6. FreshIds'
  <2>1. \A s \in Requests \ {r} :
          request[s].pc # "idle" /\ request[s].op = "create" => request[s].id # q.id
    <3>1. CASE q.op = "create"
      BY <3>1 DEF Fresh
    <3>2. CASE q.op # "create"
      BY <3>2 DEF Held, HeldFromStart
    <3>. QED BY <3>1, <3>2
  <2>2. q.op = "create" => \A s \in Requests : request[s].id # q.id
    BY DEF Fresh
  <2>. QED BY <1>2, <2>1, <2>2 DEF FreshIds
<1>7. Apart'
  BY <1>2 DEF Apart
<1>8. UniqueKeys' /\ LinkedInDomain'
  BY <1>1 DEF UniqueKeys, LinkedInDomain
<1>9. Noted'
  BY <1>1, <1>2 DEF Noted
<1>. QED BY <1>3, <1>5, <1>6, <1>7, <1>8, <1>9

LEMMA CreationStep ==
  ASSUME IInv, NEW r \in Requests, NEW i \in Items, NEW d \in Items \cup {None},
         NEW s \in Sources \cup {None}, NEW k \in Keys,
         s # None => i \in Documents /\ s \in live /\ row[s].parent = d,
         Fresh(i), Start(r, Creation(i, d, s, k))
  PROVE  \E q : Begun(r, q)
<1>. DEFINE q == Creation(i, d, s, k)
            ask == [f \in Columns |-> IF f = "key" THEN k
                                      ELSE IF f = "text" THEN FirstText ELSE "no"]
<1>1. ask \in Columned
  BY DocumentConstants DEF Columned, Values
<1>. HIDE DEF ask
<1>2. /\ q \in RequestType /\ q.pc = "read" /\ q.op = "create" /\ q.id = i
      /\ q.parent = d /\ q.link = s /\ q.ask = ask
  BY <1>1 DEF Creation, Idle, RequestType, Phases, Ops, ask
<1>. HIDE DEF q
<1>3. i \notin live \cup gone
  BY DEF Fresh
<1>4. HeldFromStart(q)
  BY <1>1, <1>2, <1>3, NoneIsNoItem DEF HeldFromStart
<1>. QED BY <1>2, <1>4 DEF q, Begun

LEMMA ChangeStep ==
  ASSUME IInv, NEW r \in Requests, NEW i \in live, NEW pc \in {"read", "cleared"},
         NEW T \in SUBSET Columns, NEW a \in Columned, NEW q, Start(r, q),
         \/ q = Change(i, pc, T, a)
         \/ i \in Sources /\ T = {} /\ q = [Change(i, pc, T, a) EXCEPT !.op = "delete"]
  PROVE  Begun(r, q)
<1>1. i \in Items /\ row[i] \in RowType
  BY DEF IInv, TypeOK
<1>2. Replace(row[i].cols, a, T) \in Columned /\ row[i].cols \in Columned
  BY <1>1, ReplaceType DEF RowType
<1>. DEFINE c == Change(i, pc, T, a)
<1>3. /\ c \in RequestType /\ c.pc = pc /\ c.op = "change" /\ c.id = i
      /\ c.parent = row[i].parent /\ c.ask = Replace(row[i].cols, a, T)
      /\ c.before = row[i].cols /\ c.tells = T
  BY <1>1, <1>2 DEF Change, Idle, RequestType, RowType, Phases, Ops
<1>. HIDE DEF c
<1>4. /\ q \in RequestType /\ q.pc = pc /\ q.id = i
      /\ q.op = "change" \/ (q.op = "delete" /\ i \in Sources /\ T = {})
      /\ q.parent = row[i].parent /\ q.ask = Replace(row[i].cols, a, T)
      /\ q.before = row[i].cols /\ q.tells = T
  <2>1. CASE q = c
    BY <1>3, <2>1
  <2>2. CASE i \in Sources /\ T = {} /\ q = [c EXCEPT !.op = "delete"]
    BY <1>3, <2>2 DEF RequestType, Ops
  <2>. QED BY <2>1, <2>2 DEF c
<1>5. HeldFromStart(q)
  BY <1>1, <1>2, <1>4 DEF HeldFromStart
<1>. QED BY <1>4, <1>5 DEF Begun

LEMMA BeginStep ==
  ASSUME IInv, NEW r \in Requests, Begin(r)
  PROVE  \E q : Begun(r, q)
<1>. USE NoneIsNoItem
<1>1. /\ Domains \subseteq Items /\ Sources \subseteq Items
      /\ Documents \subseteq Items /\ Parts \subseteq Items /\ live \subseteq Items
  BY DEF Items, IInv, TypeOK
<1>2. CASE CreateDomain(r)
  BY <1>1, <1>2, CreationStep DEF CreateDomain
<1>3. CASE CreateSource(r)
  BY <1>1, <1>3, CreationStep DEF CreateSource
<1>4. CASE CreateDocument(r)
  BY <1>1, <1>4, CreationStep DEF CreateDocument
<1>5. CASE CreatePart(r)
  BY <1>1, <1>5, CreationStep DEF CreatePart
<1>6. ASSUME NEW i \in live, NEW pc \in {"read", "cleared"}, NEW T \in SUBSET Columns,
             NEW a \in Columned, Start(r, Change(i, pc, T, a))
      PROVE  \E q : Begun(r, q)
  BY <1>6, ChangeStep
<1>7. /\ {"text"} \in SUBSET Columns /\ {"archived"} \in SUBSET Columns
      /\ {"key", "text"} \in SUBSET Columns
      /\ \A v \in Values : Uniform(v) \in Columned
      /\ Texts \subseteq Values /\ Keys \subseteq Values
      /\ "yes" \in Values /\ "no" \in Values
  BY UniformType DEF Columns, Values
<1>8. CASE UpdateDomain(r) \/ UpdateDocument(r)
  <2>1. PICK i \in live, t \in Texts : Start(r, Change(i, "cleared", {"text"}, Uniform(t)))
    BY <1>8 DEF UpdateDomain, UpdateDocument
  <2>. QED BY <1>6, <1>7, <2>1
<1>9. CASE UpdateSource(r)
  <2>1. PICK i \in live, k \in Keys, t \in Texts :
          Start(r, Change(i, "read", {"key", "text"}, [Uniform(t) EXCEPT !["key"] = k]))
    BY <1>9 DEF UpdateSource
  <2>2. [Uniform(t) EXCEPT !["key"] = k] \in Columned
    BY <1>7 DEF Columned
  <2>. QED BY <1>6, <1>7, <2>1, <2>2
<1>10. CASE ArchiveDomain(r) \/ ArchiveDocument(r) \/ RestoreDomain(r) \/ RestoreDocument(r)
  <2>1. PICK i \in live, v \in {"yes", "no"} : Archived(i, v, r)
    BY <1>10 DEF ArchiveDomain, ArchiveDocument, RestoreDomain, RestoreDocument
  <2>2. Uniform(v) \in Columned
    BY <1>7
  <2>. QED BY <1>6, <1>7, <2>1, <2>2 DEF Archived
<1>11. CASE DeleteSource(r)
  <2>1. PICK i \in live \cap Sources :
          Start(r, [Change(i, "cleared", {}, row[i].cols) EXCEPT !.op = "delete"])
    BY <1>11 DEF DeleteSource
  <2>2. row[i].cols \in Columned
    BY <1>1 DEF IInv, TypeOK, RowType
  <2>. QED BY <2>1, <2>2, ChangeStep
<1>. QED BY <1>2, <1>3, <1>4, <1>5, <1>8, <1>9, <1>10, <1>11 DEF Begin

-----------------------------------------------------------------------------
(***************************************************************************)
(* A request that ends without a commit, and one that looks its rows up.   *)
(***************************************************************************)

\* The place that the n-th row had before the k-th was removed.
Before(k, n) == IF n < k THEN n ELSE n + 1

\* An open transaction that ends without a commit has no row in the journal, or
\* takes one out of it.
LEMMA RemovalShape ==
  ASSUME TypeOK, NEW r \in Requests
  PROVE  /\ OthersRows(r) \in Seq(EventType)
         /\ \/ /\ \A n \in 1..Len(journal) : journal[n].by # r
               /\ OthersRows(r) = journal
            \/ \E k \in 1..Len(journal) :
                 /\ journal[k].by = r /\ Len(OthersRows(r)) = Len(journal) - 1
                 /\ \A n \in 1..Len(journal) - 1 :
                      OthersRows(r)[n] = journal[Before(k, n)]
<1>. DEFINE own == {n \in DOMAIN journal : journal[n].by = r}
<1>1. journal \in Seq(EventType) /\ DOMAIN journal = 1..Len(journal)
  BY DEF TypeOK
<1>2. CASE own = {}
  BY <1>1, <1>2 DEF OthersRows
<1>3. CASE own # {}
  <2>1. PICK k \in own : k = CHOOSE n \in own : TRUE
    BY <1>3
  <2>2. k \in 1..Len(journal) /\ journal[k].by = r
    BY <1>1, <2>1
  <2>. DEFINE before == SubSeq(journal, 1, k - 1)
              after  == SubSeq(journal, k + 1, Len(journal))
  <2>3. OthersRows(r) = before \o after
    BY <1>3, <2>1 DEF OthersRows, RemoveAt
  <2>4. /\ before \in Seq(EventType) /\ Len(before) = k - 1
        /\ \A n \in 1..k - 1 : before[n] = journal[n]
    BY <1>1, <2>2
  <2>5. /\ after \in Seq(EventType) /\ Len(after) = Len(journal) - k
        /\ \A n \in 1..Len(journal) - k : after[n] = journal[n + k]
    BY <1>1, <2>2
  <2>. HIDE DEF before, after, own
  <2>6. /\ before \o after \in Seq(EventType)
        /\ Len(before \o after) = Len(before) + Len(after)
        /\ \A n \in 1..Len(before) + Len(after) :
             (before \o after)[n] = IF n <= Len(before) THEN before[n]
                                    ELSE after[n - Len(before)]
    BY <2>4, <2>5, ConcatProperties
  <2>7. Len(journal) \in Nat /\ Len(before) + Len(after) = Len(journal) - 1
    BY <1>1, <2>2, <2>4, <2>5
  <2>8. ASSUME NEW n \in 1..Len(journal) - 1
        PROVE  (before \o after)[n] = journal[Before(k, n)]
    <3>1. CASE n < k
      <4>1. n \in 1..k - 1 /\ n <= Len(before)
        BY <2>2, <2>4, <2>7, <3>1
      <4>. QED BY <2>4, <2>6, <2>7, <3>1, <4>1 DEF Before
    <3>2. CASE ~ (n < k)
      <4>1. /\ ~ (n <= Len(before)) /\ n - Len(before) \in 1..Len(journal) - k
            /\ (n - Len(before)) + k = n + 1
        BY <2>2, <2>4, <2>7, <3>2
      <4>. QED BY <2>5, <2>6, <2>7, <3>2, <4>1 DEF Before
    <3>. QED BY <3>1, <3>2
  <2>. QED BY <2>2, <2>3, <2>6, <2>7, <2>8
<1>. QED BY <1>2, <1>3

\* Removing the row of one request keeps those of the others.
LEMMA OthersStay ==
  ASSUME TypeOK, NEW r \in Requests
  PROVE  /\ OthersRows(r) \in Seq(EventType)
         /\ \A n \in 1..Len(journal) : journal[n].by # r =>
              \E m \in 1..Len(OthersRows(r)) : OthersRows(r)[m] = journal[n]
<1>1. Len(journal) \in Nat
  BY DEF TypeOK
<1>2. ASSUME NEW k \in 1..Len(journal), journal[k].by = r,
             Len(OthersRows(r)) = Len(journal) - 1,
             \A n \in 1..Len(journal) - 1 : OthersRows(r)[n] = journal[Before(k, n)],
             NEW n \in 1..Len(journal), journal[n].by # r
      PROVE  \E m \in 1..Len(OthersRows(r)) : OthersRows(r)[m] = journal[n]
  <2>1. n # k
    BY <1>2
  <2>2. CASE n < k
    BY <1>1, <1>2, <2>2 DEF Before
  <2>3. CASE n > k
    <3>1. n - 1 \in 1..Len(journal) - 1 /\ Before(k, n - 1) = n
      BY <1>1, <2>3 DEF Before
    <3>. QED BY <1>2, <3>1
  <2>. QED BY <1>1, <2>1, <2>2, <2>3
<1>. QED BY <1>2, RemovalShape

LEMMA DropStep ==
  ASSUME IInv, NEW r \in Requests, Drop(r), journal' \in {journal, OthersRows(r)},
         UNCHANGED <<live, gone, row>>
  PROVE  IInv'
<1>. USE DEF IInv, Tables
<1>1. request'[r] = Idle /\ \A s \in Requests \ {r} : request'[s] = request[s]
  BY DEF Drop, TypeOK
<1>2. TypeOK'
  BY OthersStay, IdleShape DEF Drop, TypeOK
<1>3. \A p : /\ HeldFromStart(p)' <=> HeldFromStart(p)
             /\ HeldOnceSelected(p)' <=> HeldOnceSelected(p)
             /\ HeldOnceWritten(p)' <=> HeldOnceWritten(p)
  BY DEF HeldFromStart, HeldOnceSelected, HeldOnceWritten, KeyIsFree
<1>4. Held'
  BY <1>1, <1>3, IdleShape DEF Held
<1>5. FreshIds'
  <2>1. \A s \in Requests : request[s].pc # "idle" => request[s].id # None
    BY NoneIsNoItem DEF Held, HeldFromStart
  <2>. QED BY <1>1, <2>1, IdleShape DEF FreshIds
<1>6. Apart' /\ UniqueKeys' /\ LinkedInDomain'
  BY <1>1, IdleShape DEF Apart, UniqueKeys, LinkedInDomain
<1>7. Noted'
  BY <1>1, IdleShape, OthersStay DEF Noted
<1>. QED BY <1>2, <1>4, <1>5, <1>6, <1>7

\* The request goes on to its next select or write, or is refused.
Advanced(r, q) ==
  /\ q \in RequestType /\ request' = [request EXCEPT ![r] = q]
  /\ UNCHANGED <<live, gone, row, journal>>
  /\ request[r].pc \in {"read", "cleared"} /\ q.pc \in {"cleared", "selected"}
  /\ q.op = request[r].op /\ q.id = request[r].id
  /\ q.parent = request[r].parent /\ q.link = request[r].link
  /\ q.tells = request[r].tells /\ q.ask = request[r].ask
  /\ q.before = request[r].before /\ q.crossed = request[r].crossed
  /\ q.pc = "selected" => HeldOnceSelected(q)
  /\ q.pc = "selected" /\ q.op # "create" =>
       \A f \in q.tells \ q.writes : q.after[f] = row[q.id].cols[f]

Refused(r) ==
  /\ request[r].pc \in {"read", "cleared", "selected"}
  /\ Drop(r) /\ UNCHANGED <<live, gone, row, journal>>

LEMMA AdvanceStep ==
  ASSUME IInv, NEW r \in Requests
  PROVE  /\ Refused(r) => IInv'
         /\ \A q : Advanced(r, q) => IInv'
<1>1. Refused(r) => IInv'
  BY DropStep DEF Refused
<1>. SUFFICES ASSUME NEW q, Advanced(r, q)
              PROVE  IInv'
  BY <1>1
<1>. USE DEF IInv, Tables, Advanced
<1>3. request'[r] = q /\ \A s \in Requests \ {r} : request'[s] = request[s]
  BY DEF TypeOK
<1>4. TypeOK'
  BY DEF TypeOK
<1>5. \A p : /\ HeldFromStart(p)' <=> HeldFromStart(p)
             /\ HeldOnceSelected(p)' <=> HeldOnceSelected(p)
             /\ HeldOnceWritten(p)' <=> HeldOnceWritten(p)
  BY DEF HeldFromStart, HeldOnceSelected, HeldOnceWritten, KeyIsFree
<1>6. HeldFromStart(q)
  BY DEF Held, HeldFromStart
<1>7. Held'
  BY <1>3, <1>5, <1>6 DEF Held
<1>8. FreshIds'
  BY <1>3 DEF FreshIds
<1>9. Apart' /\ UniqueKeys' /\ LinkedInDomain'
  BY <1>3 DEF Apart, UniqueKeys, LinkedInDomain
<1>10. Noted'
  BY <1>3 DEF Noted
<1>. QED BY <1>4, <1>7, <1>8, <1>9, <1>10

\* What a step may enter in a request, all else kept.
Entered(q, pc, after, locks, writes) ==
  [q EXCEPT !.pc = pc, !.after = after, !.locks = locks, !.writes = writes]

LEMMA EnteredType ==
  ASSUME NEW q \in RequestType, NEW pc \in Phases, NEW after \in Columned \cup {None},
         NEW locks \in BOOLEAN, NEW writes \in SUBSET Columns,
         NEW n, n = Entered(q, pc, after, locks, writes)
  PROVE  /\ n \in RequestType
         /\ n.pc = pc /\ n.after = after /\ n.locks = locks /\ n.writes = writes
         /\ n.op = q.op /\ n.id = q.id /\ n.parent = q.parent /\ n.link = q.link
         /\ n.tells = q.tells /\ n.ask = q.ask /\ n.before = q.before
         /\ n.crossed = q.crossed
<1>1. n \in RequestType
  BY DEF RequestType, Entered
<1>. QED BY <1>1 DEF RequestType, Entered

LEMMA LookUpStep ==
  ASSUME IInv, NEW r \in Requests, LookUp(r)
  PROVE  Refused(r) \/ \E q : Advanced(r, q)
<1>. DEFINE q == request[r]
<1>1. CASE Taken(q) # {}
  BY <1>1 DEF LookUp, Refused
<1>2. CASE Taken(q) = {}
  <2>1. q \in RequestType /\ q.pc = "read" /\ q.ask \in Columned
    BY DEF LookUp, IInv, Tables, TypeOK, Held, HeldFromStart
  <2>. DEFINE n == [q EXCEPT !.pc = IF q.op = "create" THEN "selected" ELSE "cleared",
                             !.after = IF q.op = "create" THEN q.ask ELSE None,
                             !.locks = q.op = "create",
                             !.writes = IF q.op = "create" THEN Columns ELSE {}]
  <2>2. /\ n \in RequestType /\ n.pc \in {"cleared", "selected"}
        /\ n.op = q.op /\ n.id = q.id /\ n.parent = q.parent /\ n.link = q.link
        /\ n.tells = q.tells /\ n.ask = q.ask /\ n.before = q.before
        /\ n.crossed = q.crossed
        /\ n.pc = "selected" => n.op = "create" /\ n.after = n.ask /\ n.locks
                                  /\ n.writes = Columns
    <3>. DEFINE created == q.op = "create"
                after == IF created THEN q.ask ELSE None
                writes == IF created THEN Columns ELSE {}
                pc == IF created THEN "selected" ELSE "cleared"
    <3>1. /\ pc \in Phases /\ after \in Columned \cup {None}
          /\ writes \in SUBSET Columns /\ created \in BOOLEAN
      BY <2>1 DEF Phases
    <3>2. n = Entered(q, pc, after, created, writes)
      BY DEF Entered
    <3>3. /\ pc \in {"cleared", "selected"}
          /\ pc = "selected" => created /\ after = q.ask /\ writes = Columns
      OBVIOUS
    <3>4. created => q.op = "create"
      OBVIOUS
    <3>. HIDE DEF n, created, after, writes, pc, q
    <3>5. /\ n \in RequestType
          /\ n.pc = pc /\ n.after = after /\ n.locks = created /\ n.writes = writes
          /\ n.op = q.op /\ n.id = q.id /\ n.parent = q.parent /\ n.link = q.link
          /\ n.tells = q.tells /\ n.ask = q.ask /\ n.before = q.before
          /\ n.crossed = q.crossed
      BY <2>1, <3>1, <3>2, EnteredType
    <3>. QED BY <3>3, <3>4, <3>5
  <2>3. request' = [request EXCEPT ![r] = n]
    BY <1>2 DEF LookUp, IInv, TypeOK
  <2>. HIDE DEF n
  <2>4. n.pc = "selected" => HeldOnceSelected(n)
    BY <2>1, <2>2 DEF HeldOnceSelected
  <2>. QED BY <2>1, <2>2, <2>3, <2>4 DEF LookUp, Advanced
<1>. QED BY <1>1, <1>2

LEMMA SelectStep ==
  ASSUME IInv, NEW r \in Requests, Select(r)
  PROVE  Refused(r) \/ \E q : Advanced(r, q)
<1>. DEFINE q == request[r]
            seen == row[q.id].cols
<1>1. CASE q.id \notin live
  BY <1>1 DEF Select, Refused
<1>2. CASE q.id \in live
  <2>1. q \in RequestType /\ q.pc = "cleared" /\ q.ask \in Columned /\ HeldFromStart(q)
    BY DEF Select, IInv, Tables, TypeOK, Held, HeldFromStart
  <2>2. seen \in Columned /\ q.tells \in SUBSET Columns /\ q.op # "create"
    BY <1>2, <2>1 DEF IInv, TypeOK, RowType, RequestType, HeldFromStart
  <2>3. Differing(q, seen) \subseteq q.tells
    BY DEF Differing
  <2>4. /\ Replace(seen, q.ask, q.tells) \in Columned
        /\ \A f \in q.tells : Replace(seen, q.ask, q.tells)[f] = q.ask[f]
    BY <2>1, <2>2, ReplaceType
  <2>. DEFINE n == [q EXCEPT !.pc = "selected",
                             !.after = Replace(seen, q.ask, q.tells),
                             !.writes = Differing(q, seen),
                             !.locks = \/ q.op = "delete" \/ Differing(q, seen) # {}
                                       \/ q.id \in Documents /\ q.tells = {"text"}]
  <2>5. /\ n \in RequestType /\ n.pc = "selected"
        /\ n.op = q.op /\ n.id = q.id /\ n.parent = q.parent /\ n.link = q.link
        /\ n.tells = q.tells /\ n.ask = q.ask /\ n.before = q.before
        /\ n.crossed = q.crossed
        /\ n.after = Replace(seen, q.ask, q.tells) /\ n.writes = Differing(q, seen)
        /\ q.op = "delete" \/ Differing(q, seen) # {} => n.locks
    <3>1. /\ Replace(seen, q.ask, q.tells) \in Columned
          /\ Differing(q, seen) \in SUBSET Columns
      BY <2>2, <2>3, <2>4
    <3>. DEFINE after == Replace(seen, q.ask, q.tells)
                writes == Differing(q, seen)
                locks == \/ q.op = "delete" \/ Differing(q, seen) # {}
                         \/ q.id \in Documents /\ q.tells = {"text"}
    <3>2. n = Entered(q, "selected", after, locks, writes)
      BY Zenon DEF Entered
    <3>3. "selected" \in Phases /\ after \in Columned \cup {None} /\ locks \in BOOLEAN
      BY <3>1 DEF Phases
    <3>4. q.op = "delete" \/ writes # {} => locks
      OBVIOUS
    <3>. HIDE DEF n, after, writes, locks, q
    <3>5. /\ n \in RequestType
          /\ n.pc = "selected" /\ n.after = after /\ n.locks = locks /\ n.writes = writes
          /\ n.op = q.op /\ n.id = q.id /\ n.parent = q.parent /\ n.link = q.link
          /\ n.tells = q.tells /\ n.ask = q.ask /\ n.before = q.before
          /\ n.crossed = q.crossed
      BY <2>1, <3>1, <3>2, <3>3, EnteredType DEF writes
    <3>. QED BY <3>4, <3>5 DEF after, writes
  <2>6. request' = [request EXCEPT ![r] = n]
    BY <1>2 DEF Select, IInv, TypeOK
  <2>. HIDE DEF n
  <2>7. HeldOnceSelected(n)
    BY <2>2, <2>3, <2>4, <2>5 DEF HeldOnceSelected
  <2>8. \A f \in n.tells \ n.writes : n.after[f] = row[n.id].cols[f]
    BY <2>4, <2>5 DEF Differing
  <2>. QED BY <2>1, <2>5, <2>6, <2>7, <2>8 DEF Select, Advanced
<1>. QED BY <1>1, <1>2

-----------------------------------------------------------------------------
(***************************************************************************)
(* A request that writes.                                                  *)
(***************************************************************************)

\* The locks that a write waits for keep it apart from the others.
LEMMA LocksKeepApart ==
  ASSUME IInv, NEW r \in Requests, NEW s \in Requests, r # s,
         request[r].pc = "selected", request[s].pc = "written", ~ Waits(r)
  PROVE  Compatible(request[r], request[s]) /\ Compatible(request[s], request[r])
<1>. DEFINE q == request[r]
            p == request[s]
<1>1. /\ HeldOnceSelected(q) /\ HeldOnceSelected(p)
      /\ q.op = "create" \/ p.op = "create" => q.id # p.id
  BY DEF IInv, Tables, Held, FreshIds
<1>2. /\ q.writes # {} \/ q.op = "delete" => q.locks
      /\ p.writes # {} \/ p.op = "delete" => p.locks
      /\ p.op = "create" => "key" \in p.writes
  BY <1>1 DEF HeldOnceSelected, Columns
<1>3. CASE ~ p.locks
  <2>1. p.writes = {} /\ p.op # "delete" /\ p.op # "create"
    BY <1>2, <1>3
  <2>. QED BY <1>3, <2>1 DEF Compatible
<1>4. CASE p.locks
  <2>1. s \in Holders(r)
    BY <1>4 DEF Holders
  <2>2. ~ SameRow(q, p) /\ (q.id # p.id => ~ Reference(q, p) /\ ~ SameKey(q, p))
    BY <2>1 DEF Waits
  <2>. HIDE DEF q, p
  <2>3. q.op # "create" /\ p.op # "create" /\ q.locks => q.id # p.id
    BY <2>2 DEF SameRow
  <2>4. /\ q.op = "create" /\ p.op = "delete" => q.link # p.id
        /\ p.op = "create" /\ q.op = "delete" => p.link # q.id
    BY <1>1, <2>2 DEF Reference, q, p
  <2>5. "key" \in q.writes /\ "key" \in p.writes /\ Siblings(q, p) =>
          q.after["key"] # p.after["key"]
    <3>1. "key" \in q.writes => q.locks
      BY <1>2
    <3>. QED BY <1>1, <2>2, <2>3, <3>1 DEF SameKey, q, p
  <2>6. Siblings(q, p) <=> Siblings(p, q)
    BY DEF Siblings, Kin
  <2>. QED BY <2>3, <2>4, <2>5, <2>6 DEF Compatible, q, p
<1>. QED BY <1>3, <1>4

LEMMA FlushStep ==
  ASSUME IInv, NEW r \in Requests, Flush(r)
  PROVE  IInv'
<1>. DEFINE q == request[r]
            w == [q EXCEPT !.pc = "written"]
<1>1. CASE FlushError(q)
  BY <1>1, DropStep DEF Flush
<1>2. CASE ~ FlushError(q)
  <2>1. /\ q \in RequestType /\ q.pc = "selected" /\ ~ Waits(r)
        /\ request' = [request EXCEPT ![r].pc = "written"]
        /\ journal' = IF Journalled(q) THEN Append(journal, NewEvent(r)) ELSE journal
        /\ UNCHANGED <<live, gone, row>>
    BY <1>2 DEF Flush, IInv, TypeOK
  <2>2. HeldFromStart(q) /\ HeldOnceSelected(q)
    BY <2>1 DEF IInv, Tables, Held
  <2>3. /\ w \in RequestType /\ w.pc = "written" /\ w.op = q.op /\ w.id = q.id
        /\ w.parent = q.parent /\ w.link = q.link /\ w.tells = q.tells
        /\ w.ask = q.ask /\ w.before = q.before /\ w.after = q.after
        /\ w.locks = q.locks /\ w.writes = q.writes
    BY <2>1 DEF RequestType, Phases
  <2>4. /\ request'[r] = w /\ request' \in [Requests -> RequestType]
        /\ \A s \in Requests \ {r} : request'[s] = request[s]
    BY <2>1, <2>3 DEF IInv, TypeOK
  <2>. HIDE DEF w
  <2>5. /\ NewEvent(r) \in EventType /\ NewEvent(r).by = r
        /\ NewEvent(r).of = q.id /\ NewEvent(r).tells = q.tells
    BY <2>1, <2>2 DEF NewEvent, EventType, RequestType, HeldFromStart, HeldOnceSelected
  <2>6. /\ journal \in Seq(EventType) /\ journal' \in Seq(EventType)
        /\ \A n \in 1..Len(journal) : n \in 1..Len(journal') /\ journal'[n] = journal[n]
        /\ Journalled(q) => \E n \in 1..Len(journal') : journal'[n] = NewEvent(r)
    BY <2>1, <2>5 DEF IInv, TypeOK
  <2>7. TypeOK'
    BY <2>1, <2>4, <2>6 DEF IInv, TypeOK
  <2>8. \A p : /\ HeldFromStart(p)' <=> HeldFromStart(p)
               /\ HeldOnceSelected(p)' <=> HeldOnceSelected(p)
               /\ HeldOnceWritten(p)' <=> HeldOnceWritten(p)
    BY <2>1 DEF HeldFromStart, HeldOnceSelected, HeldOnceWritten, KeyIsFree
  <2>9. HeldFromStart(w) /\ HeldOnceSelected(w)
    BY <2>2, <2>3 DEF HeldFromStart, HeldOnceSelected
  <2>10. HeldOnceWritten(w)
    <3>1. q.op # "create" /\ q.locks => q.id \in live
      BY <1>2 DEF FlushError
    <3>2. q.op = "create" /\ q.link # None => q.link \in live
      BY <1>2, <2>2 DEF FlushError, HeldFromStart
    <3>3. "key" \in q.writes => Taken(q) = {} /\ q.after["key"] = q.ask["key"]
      BY <1>2, <2>2 DEF FlushError, HeldOnceSelected
    <3>4. KeyIsFree(w)
      BY <2>3, <3>3 DEF KeyIsFree, Taken
    <3>. QED BY <2>3, <3>1, <3>2, <3>4 DEF HeldOnceWritten
  <2>11. Held'
    BY <2>4, <2>8, <2>9, <2>10 DEF IInv, Tables, Held
  <2>12. FreshIds'
    BY <2>1, <2>3, <2>4 DEF IInv, Tables, FreshIds
  <2>13. Apart'
    <3>1. ASSUME NEW s \in Requests \ {r}, request[s].pc = "written"
          PROVE  Compatible(w, request[s]) /\ Compatible(request[s], w)
      <4>1. Compatible(q, request[s]) /\ Compatible(request[s], q)
        BY <2>1, <3>1, LocksKeepApart
      <4>. QED BY <2>3, <4>1 DEF Compatible, Siblings
    <3>2. ASSUME NEW s \in Requests, NEW t \in Requests, s # t,
                 request'[s].pc = "written", request'[t].pc = "written"
          PROVE  Compatible(request'[s], request'[t])
      BY <2>4, <3>1, <3>2 DEF IInv, Tables, Apart
    <3>3. \A p, o : Compatible(p, o)' <=> Compatible(p, o)
      BY DEF Compatible, Siblings
    <3>. QED BY <3>2, <3>3 DEF Apart
  <2>14. UniqueKeys' /\ LinkedInDomain'
    BY <2>1 DEF IInv, Tables, UniqueKeys, LinkedInDomain
  <2>15. Noted'
    <3>1. ASSUME NEW s \in Requests, request'[s].pc = "written", Journalled(request'[s])
          PROVE  \E n \in 1..Len(journal') :
                   journal'[n].by = s /\ journal'[n].of = request'[s].id
                     /\ journal'[n].tells = request'[s].tells
      <4>1. CASE s = r
        BY <2>3, <2>4, <2>5, <2>6, <3>1, <4>1 DEF Journalled
      <4>2. CASE s # r
        <5>1. PICK n \in 1..Len(journal) :
                journal[n].by = s /\ journal[n].of = request[s].id
                  /\ journal[n].tells = request[s].tells
          BY <2>4, <3>1, <4>2 DEF IInv, Noted
        <5>. QED BY <2>4, <2>6, <4>2, <5>1
      <4>. QED BY <4>1, <4>2
    <3>. QED BY <3>1 DEF Noted, Journalled
  <2>. QED BY <2>7, <2>11, <2>12, <2>13, <2>14, <2>15 DEF IInv, Tables
<1>. QED BY <1>1, <1>2

-----------------------------------------------------------------------------
(***************************************************************************)
(* A request that commits.                                                 *)
(***************************************************************************)
LEMMA RowAfterType ==
  ASSUME row \in [Items -> RowType], NEW i \in Items, NEW q \in RequestType,
         q.after \in Columned, q.op = "delete" => q.id \in Sources
  PROVE  /\ RowAfter(i, q) \in RowType
         /\ i # q.id =>
              /\ RowAfter(i, q).parent = row[i].parent
              /\ RowAfter(i, q).cols = row[i].cols
              /\ RowAfter(i, q).link =
                   IF q.op = "delete" /\ i \in Documents /\ row[i].link = q.id
                   THEN None ELSE row[i].link
         /\ i = q.id /\ q.op = "create" =>
              /\ RowAfter(i, q).parent = q.parent /\ RowAfter(i, q).link = q.link
              /\ RowAfter(i, q).cols = q.after
         /\ i = q.id /\ q.op = "change" =>
              /\ RowAfter(i, q).parent = row[i].parent
              /\ RowAfter(i, q).link = row[i].link
              /\ \A f \in q.writes : RowAfter(i, q).cols[f] = q.after[f]
              /\ \A f \in Columns \ q.writes :
                   RowAfter(i, q).cols[f] = row[i].cols[f]
<1>1. /\ row[i] \in RowType /\ row[i].cols \in Columned
      /\ q.op \in {"create", "change", "delete"} /\ q.writes \in SUBSET Columns
      /\ q.parent \in Items \cup {None} /\ q.link \in Sources \cup {None}
  BY DEF RowType, RequestType, Ops
<1>2. CASE i = q.id /\ q.op = "create"
  BY <1>1, <1>2 DEF RowAfter, RowType
<1>3. CASE i = q.id /\ q.op = "change"
  <2>1. RowAfter(i, q) = [row[i] EXCEPT !.cols = Replace(row[i].cols, q.after, q.writes)]
    BY <1>3 DEF RowAfter
  <2>2. /\ Replace(row[i].cols, q.after, q.writes) \in Columned
        /\ \A f \in q.writes : Replace(row[i].cols, q.after, q.writes)[f] = q.after[f]
        /\ \A f \in Columns \ q.writes :
             Replace(row[i].cols, q.after, q.writes)[f] = row[i].cols[f]
    BY <1>1, ReplaceType
  <2>. QED BY <1>1, <1>3, <2>1, <2>2 DEF RowType
<1>4. CASE i = q.id /\ q.op = "delete"
  <2>1. RowAfter(i, q) = NoRow
    BY <1>4, KindsAreApart DEF RowAfter
  <2>2. NoRow \in RowType
    BY DEF NoRow, RowType, Columned, Values
  <2>. QED BY <1>4, <2>1, <2>2
<1>5. CASE i # q.id /\ q.op = "delete" /\ i \in Documents /\ row[i].link = q.id
  <2>1. RowAfter(i, q) = [row[i] EXCEPT !.link = None]
    BY <1>5 DEF RowAfter
  <2>. QED BY <1>1, <1>5, <2>1 DEF RowType
<1>6. CASE i # q.id /\ ~ (q.op = "delete" /\ i \in Documents /\ row[i].link = q.id)
  <2>1. RowAfter(i, q) = row[i]
    BY <1>6 DEF RowAfter
  <2>. QED BY <1>1, <1>6, <2>1
<1>. QED BY <1>1, <1>2, <1>3, <1>4, <1>5, <1>6

\* What the committed request knows, and what its commit does to the rows and
\* to the other requests.
LEMMA CommitFacts ==
  ASSUME IInv, NEW r \in Requests, Commit(r), NEW q, q = request[r]
  PROVE  /\ q \in RequestType /\ q.pc = "written" /\ q.op \in Ops
         /\ HeldFromStart(q) /\ HeldOnceSelected(q) /\ HeldOnceWritten(q)
         /\ q.op \in {"create", "change"} =>
              live' = (IF q.op = "create" THEN live \cup {q.id} ELSE live)
                /\ gone' = gone
         /\ q.op = "delete" =>
              /\ live' = live \ {q.id} /\ gone' = gone \cup {q.id}
              /\ q.id \in live
         /\ \A s \in Requests \ {r} :
              /\ q.op = "create" => request[s].id # q.id
              /\ request[s].pc = "written" =>
                   Compatible(q, request[s]) /\ Compatible(request[s], q)
<1>1. /\ q \in RequestType /\ q.pc = "written" /\ q.op \in Ops
      /\ HeldFromStart(q) /\ HeldOnceSelected(q) /\ HeldOnceWritten(q)
  BY DEF IInv, TypeOK, Tables, Held, Commit, RequestType
<1>2. q.op = "delete" => q.id \in live
  BY <1>1 DEF HeldOnceSelected, HeldOnceWritten
<1>3. \A s \in Requests \ {r} :
        /\ q.op = "create" => request[s].id # q.id
        /\ request[s].pc = "written" =>
             Compatible(q, request[s]) /\ Compatible(request[s], q)
  BY <1>1 DEF IInv, Tables, FreshIds, Apart
<1>. QED BY <1>1, <1>2, <1>3 DEF Commit

LEMMA CommitRows ==
  ASSUME IInv, NEW r \in Requests, Commit(r), NEW q, q = request[r]
  PROVE  /\ row' \in [Items -> RowType]
         /\ \A i \in live \cap live' : row'[i].parent = row[i].parent
         /\ \A i \in Items \ {q.id} :
              /\ row'[i].parent = row[i].parent /\ row'[i].cols = row[i].cols
              /\ row'[i].link =
                   IF q.op = "delete" /\ i \in Documents /\ row[i].link = q.id
                   THEN None ELSE row[i].link
         /\ q.op = "create" =>
              /\ row'[q.id].parent = q.parent /\ row'[q.id].link = q.link
              /\ row'[q.id].cols = q.after
         /\ q.op = "change" =>
              /\ row'[q.id].parent = row[q.id].parent
              /\ row'[q.id].link = row[q.id].link
              /\ \A f \in q.writes : row'[q.id].cols[f] = q.after[f]
              /\ \A f \in Columns \ q.writes :
                   row'[q.id].cols[f] = row[q.id].cols[f]
<1>1. /\ q \in RequestType /\ q.op \in Ops /\ q.id \in Items /\ q.after \in Columned
      /\ row \in [Items -> RowType] /\ live \subseteq Items
      /\ q.op = "create" => q.id \notin live
      /\ q.op = "delete" => q.id \notin live' /\ q.id \in Sources
  BY CommitFacts DEF HeldFromStart, HeldOnceSelected, IInv, TypeOK
<1>2. row' = [i \in Items |-> RowAfter(i, q)]
  BY DEF Commit
<1>3. \A i \in Items : row'[i] = RowAfter(i, q)
  BY <1>2
<1>4. row' \in [Items -> RowType]
  BY <1>1, <1>2, RowAfterType
<1>5. \A i \in Items \ {q.id} :
        /\ row'[i].parent = row[i].parent /\ row'[i].cols = row[i].cols
        /\ row'[i].link =
             IF q.op = "delete" /\ i \in Documents /\ row[i].link = q.id
             THEN None ELSE row[i].link
  BY <1>1, <1>3, RowAfterType
<1>6. /\ q.op = "create" =>
           /\ row'[q.id].parent = q.parent /\ row'[q.id].link = q.link
           /\ row'[q.id].cols = q.after
      /\ q.op = "change" =>
           /\ row'[q.id].parent = row[q.id].parent
           /\ row'[q.id].link = row[q.id].link
           /\ \A f \in q.writes : row'[q.id].cols[f] = q.after[f]
           /\ \A f \in Columns \ q.writes :
                row'[q.id].cols[f] = row[q.id].cols[f]
  BY <1>1, <1>3, RowAfterType
<1>7. \A i \in live \cap live' : row'[i].parent = row[i].parent
  BY <1>1, <1>5, <1>6 DEF Ops
<1>. QED BY <1>4, <1>5, <1>6, <1>7

LEMMA CommitOthers ==
  ASSUME IInv, NEW r \in Requests, Commit(r)
  PROVE  /\ request' \in [Requests -> RequestType] /\ request'[r] = Idle
         /\ \A s \in Requests \ {r} :
              LET o == request[s]
                  p == request'[s]
              IN /\ p.pc = o.pc /\ p.op = o.op /\ p.id = o.id /\ p.parent = o.parent
                 /\ p.link = o.link /\ p.tells = o.tells /\ p.ask = o.ask
                 /\ p.before = o.before /\ p.after = o.after /\ p.locks = o.locks
                 /\ p.writes = o.writes
                 /\ (p.crossed <=> o.crossed \/ o.id = request[r].id)
<1>1. request' = [s \in Requests |->
        IF s = r THEN Idle
        ELSE [request[s] EXCEPT !.crossed = @ \/ request[s].id = request[r].id]]
  BY DEF Commit
<1>2. \A s \in Requests : request[s] \in RequestType
  BY DEF IInv, TypeOK
<1>3. ASSUME NEW s \in Requests \ {r}
      PROVE  LET o == request[s]
                 p == request'[s]
             IN /\ p \in RequestType
                /\ p.pc = o.pc /\ p.op = o.op /\ p.id = o.id /\ p.parent = o.parent
                /\ p.link = o.link /\ p.tells = o.tells /\ p.ask = o.ask
                /\ p.before = o.before /\ p.after = o.after /\ p.locks = o.locks
                /\ p.writes = o.writes
                /\ (p.crossed <=> o.crossed \/ o.id = request[r].id)
  BY <1>1, <1>2, <1>3 DEF RequestType
<1>4. request'[r] = Idle /\ Idle \in RequestType
  BY <1>1, IdleShape
<1>. QED BY <1>1, <1>3, <1>4

LEMMA CommitTypes ==
  ASSUME IInv, NEW r \in Requests, Commit(r)
  PROVE  TypeOK' /\ Noted'
<1>. DEFINE q == request[r]
            x == q.crossed \/ Overtakes(r)
<1>1. journal \in Seq(EventType) /\ x \in BOOLEAN
  BY DEF IInv, TypeOK, RequestType, Overtakes
<1>2. journal' = [n \in 1..Len(journal) |-> Released(journal[n], r, x)]
  BY DEF Commit
<1>. HIDE DEF x
<1>3. \A e \in EventType :
        /\ Released(e, r, x) \in EventType
        /\ e.by # r => Released(e, r, x) = e
  BY <1>1 DEF EventType, Released
<1>4. journal' \in Seq(EventType) /\ Len(journal') = Len(journal)
  BY <1>1, <1>2, <1>3
<1>5. \A n \in 1..Len(journal) : journal[n].by # r => journal'[n] = journal[n]
  BY <1>1, <1>2, <1>3
<1>6. TypeOK'
  <2>1. live' \subseteq Items /\ gone' \subseteq Sources /\ live' \cap gone' = {}
    BY CommitFacts DEF IInv, TypeOK, HeldFromStart, Ops
  <2>. QED BY <1>4, <2>1, CommitRows, CommitOthers DEF TypeOK
<1>7. Noted'
  <2>1. ASSUME NEW s \in Requests, request'[s].pc = "written", Journalled(request'[s])
        PROVE  \E n \in 1..Len(journal') :
                 journal'[n].by = s /\ journal'[n].of = request'[s].id
                   /\ journal'[n].tells = request'[s].tells
    <3>1. s # r
      BY <2>1, CommitOthers, IdleShape
    <3>2. request[s].pc = "written" /\ Journalled(request[s])
      BY <2>1, <3>1, CommitOthers DEF Journalled
    <3>3. PICK n \in 1..Len(journal) :
            journal[n].by = s /\ journal[n].of = request[s].id
              /\ journal[n].tells = request[s].tells
      BY <3>2 DEF IInv, Noted
    <3>. QED BY <1>4, <1>5, <3>1, <3>3, CommitOthers
  <2>. QED BY <2>1 DEF Noted, Journalled
<1>. QED BY <1>6, <1>7

LEMMA CommitHeld ==
  ASSUME IInv, NEW r \in Requests, Commit(r)
  PROVE  Held'
<1>. DEFINE q == request[r]
<1>1. /\ q.op \in Ops /\ HeldFromStart(q) /\ HeldOnceSelected(q) /\ HeldOnceWritten(q)
      /\ q.op \in {"create", "change"} =>
           live' = (IF q.op = "create" THEN live \cup {q.id} ELSE live) /\ gone' = gone
      /\ q.op = "delete" =>
           live' = live \ {q.id} /\ gone' = gone \cup {q.id} /\ q.id \in live
  BY CommitFacts
<1>2. /\ \A i \in live \cap live' : row'[i].parent = row[i].parent
      /\ live \subseteq Items
      /\ live \cup gone \subseteq live' \cup gone'
      /\ live' \subseteq live \cup {q.id}
      /\ q.op # "create" => live' \subseteq live /\ live' \cup gone' = live \cup gone
      /\ q.op = "create" => q.id \notin live \cup gone
                              /\ live' \cup gone' = (live \cup gone) \cup {q.id}
  BY <1>1, CommitRows DEF IInv, TypeOK, HeldFromStart, Ops
<1>3. ASSUME NEW s \in Requests \ {r}, request[s].pc # "idle",
             NEW CONSTANT p, p = request'[s]
      PROVE  HeldFromStart(p)'
  <2>. DEFINE o == request[s]
  <2>1. HeldFromStart(o)
    BY <1>3 DEF IInv, Tables, Held
  <2>2. /\ p.op = o.op /\ p.id = o.id /\ p.parent = o.parent /\ p.link = o.link
        /\ p.tells = o.tells /\ p.ask = o.ask /\ p.before = o.before
    BY <1>3, CommitOthers
  <2>3. q.op = "create" => o.id # q.id
    BY <1>3, CommitFacts
  <2>4. o.op = "create" => o.id # q.id
    BY <1>3 DEF IInv, Tables, FreshIds
  <2>. HIDE DEF q
  <2>5. o.op = "create" => o.id \notin live' \cup gone'
    BY <1>2, <2>1, <2>4 DEF HeldFromStart
  <2>6. o.op # "create" => /\ o.id \in live' \cup gone'
                           /\ o.id \in live' => o.parent = row'[o.id].parent
    BY <1>2, <2>1, <2>3 DEF HeldFromStart
  <2>7. o.op = "create" /\ o.link # None =>
          /\ o.link \in live' \cup gone'
          /\ o.link \in live' => row'[o.link].parent = o.parent
    BY <1>2, <2>1 DEF HeldFromStart
  <2>. QED BY <2>1, <2>2, <2>5, <2>6, <2>7 DEF HeldFromStart
<1>4. ASSUME NEW s \in Requests \ {r}, request[s].pc \in {"selected", "written"}
      PROVE  HeldOnceSelected(request'[s])
  <2>1. HeldOnceSelected(request[s])
    BY <1>4 DEF IInv, Tables, Held
  <2>. QED BY <2>1, CommitOthers DEF HeldOnceSelected
<1>5. ASSUME NEW s \in Requests \ {r}, request[s].pc = "written",
             NEW CONSTANT p, p = request'[s]
      PROVE  HeldOnceWritten(p)'
  <2>. DEFINE o == request[s]
  <2>1. HeldOnceWritten(o) /\ HeldOnceSelected(o) /\ HeldFromStart(o)
    BY <1>5 DEF IInv, Tables, Held
  <2>2. Compatible(q, o) /\ Compatible(o, q)
    BY <1>5, CommitFacts
  <2>3. /\ p.op = o.op /\ p.id = o.id /\ p.parent = o.parent /\ p.link = o.link
        /\ p.locks = o.locks /\ p.writes = o.writes /\ p.after = o.after
    BY <1>5, CommitOthers
  <2>4. o.op # "create" /\ o.locks => o.id \in live'
    BY <1>1, <2>1, <2>2 DEF HeldOnceWritten, HeldOnceSelected, Compatible, Ops
  <2>5. o.op = "create" /\ o.link # None => o.link \in live'
    BY <1>1, <2>1, <2>2 DEF HeldOnceWritten, Compatible, Ops
  <2>6. ASSUME "key" \in o.writes, NEW j \in live' \ {o.id}, Kin(o.id, j),
               row'[j].parent = o.parent
        PROVE  row'[j].cols["key"] # o.after["key"]
    <3>1. \A i \in live \ {o.id} :
            Kin(o.id, i) /\ row[i].parent = o.parent =>
              row[i].cols["key"] # o.after["key"]
      BY <2>1, <2>6 DEF HeldOnceWritten, KeyIsFree
    <3>2. CASE j # q.id
      <4>1. j \in live /\ row'[j].parent = row[j].parent /\ row'[j].cols = row[j].cols
        BY <1>2, <2>6, <3>2, CommitRows
      <4>. QED BY <2>6, <3>1, <4>1
    <3>3. CASE j = q.id /\ "key" \in q.writes
      <4>1. q.op \in {"create", "change"} /\ q.parent = row'[j].parent
        BY <1>1, <1>2, <2>6, <3>3, CommitRows DEF HeldFromStart, Ops
      <4>2. row'[j].cols["key"] = q.after["key"]
        <5>1. /\ q.op = "create" => row'[q.id].cols = q.after
              /\ q.op = "change" => \A f \in q.writes : row'[q.id].cols[f] = q.after[f]
          BY CommitRows
        <5>. QED BY <3>3, <4>1, <5>1
      <4>3. Siblings(q, o) /\ Siblings(o, q)
        BY <2>6, <3>3, <4>1 DEF Siblings, Kin
      <4>. QED BY <2>2, <2>6, <3>3, <4>2, <4>3 DEF Compatible
    <3>4. CASE j = q.id /\ "key" \notin q.writes
      <4>1. q.op = "change" /\ "key" \in Columns /\ j \in live
        BY <1>1, <1>2, <2>6, <3>4 DEF HeldOnceSelected, Columns, Ops
      <4>2. row'[j].cols["key"] = row[j].cols["key"] /\ row'[j].parent = row[j].parent
        BY <3>4, <4>1, CommitRows
      <4>. QED BY <2>6, <3>1, <4>1, <4>2
    <3>. QED BY <3>2, <3>3, <3>4
  <2>7. KeyIsFree(p)'
    BY <2>3, <2>6 DEF KeyIsFree
  <2>. QED BY <2>3, <2>4, <2>5, <2>7 DEF HeldOnceWritten
<1>6. \A p : HeldOnceSelected(p)' <=> HeldOnceSelected(p)
  BY DEF HeldOnceSelected
<1>7. \A s \in Requests \ {r} : request'[s].pc = request[s].pc
  BY CommitOthers
<1>8. request'[r].pc = "idle"
  BY CommitOthers, IdleShape
<1>9. ASSUME NEW s \in Requests, NEW CONSTANT p, p = request'[s]
      PROVE  /\ p.pc # "idle" => HeldFromStart(p)'
             /\ p.pc \in {"selected", "written"} => HeldOnceSelected(p)'
             /\ p.pc = "written" => HeldOnceWritten(p)'
  BY <1>3, <1>4, <1>5, <1>6, <1>7, <1>8, <1>9
<1>. QED BY <1>9 DEF Held

LEMMA CommitApart ==
  ASSUME IInv, NEW r \in Requests, Commit(r)
  PROVE  FreshIds' /\ Apart'
<1>1. FreshIds'
  <2>1. \A s \in Requests : request[s].pc # "idle" => request[s].id # None
    BY NoneIsNoItem DEF IInv, Tables, Held, HeldFromStart
  <2>. QED BY <2>1, CommitOthers, IdleShape DEF IInv, Tables, FreshIds
<1>2. ASSUME NEW s \in Requests, NEW t \in Requests, s # t,
             request'[s].pc = "written", request'[t].pc = "written"
      PROVE  Compatible(request'[s], request'[t])
  <2>1. s # r /\ t # r
    BY <1>2, CommitOthers, IdleShape
  <2>2. Compatible(request[s], request[t])
    BY <1>2, <2>1, CommitOthers DEF IInv, Tables, Apart
  <2>. QED BY <2>1, <2>2, CommitOthers DEF Compatible, Siblings
<1>3. \A p, o : Compatible(p, o)' <=> Compatible(p, o)
  BY DEF Compatible, Siblings
<1>. QED BY <1>1, <1>2, <1>3 DEF Apart

LEMMA CommitTables ==
  ASSUME IInv, NEW r \in Requests, Commit(r)
  PROVE  UniqueKeys' /\ LinkedInDomain'
<1>. DEFINE q == request[r]
<1>1. /\ q.op \in Ops /\ HeldFromStart(q) /\ HeldOnceSelected(q) /\ HeldOnceWritten(q)
      /\ q.op \in {"create", "change"} =>
           live' = (IF q.op = "create" THEN live \cup {q.id} ELSE live) /\ gone' = gone
      /\ q.op = "delete" =>
           live' = live \ {q.id} /\ gone' = gone \cup {q.id} /\ q.id \in live
  BY CommitFacts
<1>2. /\ live \subseteq Items /\ live' \subseteq Items
      /\ live' \subseteq live \cup {q.id}
      /\ q.op # "create" => live' \subseteq live
      /\ q.op = "create" => q.id \notin live
  BY <1>1 DEF IInv, TypeOK, HeldFromStart, Ops
<1>3. /\ \A i, j \in live :
           i # j /\ Kin(i, j) /\ row[i].parent = row[j].parent
             => row[i].cols["key"] # row[j].cols["key"]
      /\ \A i \in live \cap Documents :
           row[i].link # None =>
             row[i].link \in live /\ row[row[i].link].parent = row[i].parent
  BY DEF IInv, Tables, UniqueKeys, LinkedInDomain
\* The row written has no sibling with its key.
<1>4. ASSUME q.id \in live', NEW j \in live' \ {q.id}, Kin(q.id, j),
             row'[q.id].parent = row'[j].parent
      PROVE  row'[q.id].cols["key"] # row'[j].cols["key"]
  <2>1. j \in live /\ row'[j].parent = row[j].parent /\ row'[j].cols = row[j].cols
    BY <1>2, <1>4, CommitRows
  <2>2. CASE "key" \in q.writes
    <3>1. /\ q.op \in {"create", "change"} /\ q.parent = row'[q.id].parent
      BY <1>1, <1>2, <1>4, CommitRows DEF HeldFromStart, Ops
    <3>2. row'[q.id].cols["key"] = q.after["key"]
      BY <2>2, <3>1, CommitRows
    <3>. QED BY <1>1, <1>4, <2>1, <2>2, <3>1, <3>2 DEF HeldOnceWritten, KeyIsFree
  <2>3. CASE "key" \notin q.writes
    <3>1. q.op = "change" /\ "key" \in Columns /\ q.id \in live
      BY <1>1, <1>2, <1>4, <2>3 DEF HeldOnceSelected, Columns, Ops
    <3>2. /\ row'[q.id].cols["key"] = row[q.id].cols["key"]
          /\ row'[q.id].parent = row[q.id].parent
      BY <2>3, <3>1, CommitRows
    <3>. QED BY <1>3, <1>4, <2>1, <3>1, <3>2
  <2>. QED BY <2>2, <2>3
<1>5. UniqueKeys'
  <2>1. ASSUME NEW i \in live', NEW j \in live', i # j, Kin(i, j),
               row'[i].parent = row'[j].parent
        PROVE  row'[i].cols["key"] # row'[j].cols["key"]
    <3>1. CASE i = q.id
      BY <1>4, <2>1, <3>1
    <3>2. CASE j = q.id
      <4>1. Kin(j, i)
        BY <2>1 DEF Kin
      <4>. QED BY <1>4, <2>1, <3>2, <4>1
    <3>3. CASE i # q.id /\ j # q.id
      <4>1. /\ i \in live /\ row'[i].parent = row[i].parent /\ row'[i].cols = row[i].cols
            /\ j \in live /\ row'[j].parent = row[j].parent /\ row'[j].cols = row[j].cols
        BY <1>2, <3>3, CommitRows
      <4>. QED BY <1>3, <2>1, <4>1
    <3>. QED BY <3>1, <3>2, <3>3
  <2>. QED BY <2>1 DEF UniqueKeys, Kin
<1>6. LinkedInDomain'
  <2>1. ASSUME NEW i \in live' \cap Documents, row'[i].link # None
        PROVE  row'[i].link \in live' /\ row'[row'[i].link].parent = row'[i].parent
    <3>1. \A k \in live \cap live' : row'[k].parent = row[k].parent
      BY CommitRows
    <3>2. CASE i = q.id /\ q.op = "create"
      <4>1. row'[i].link = q.link /\ row'[i].parent = q.parent
        BY <3>2, CommitRows
      <4>2. q.link \in live /\ q.link \in live' /\ row[q.link].parent = q.parent
        BY <1>1, <2>1, <3>2, <4>1 DEF HeldFromStart, HeldOnceWritten
      <4>. QED BY <3>1, <4>1, <4>2
    <3>3. CASE i = q.id /\ q.op = "change"
      <4>1. row'[i].link = row[i].link /\ row'[i].parent = row[i].parent
        BY <3>3, CommitRows
      <4>2. live' = live
        BY <1>1, <3>3
      <4>. QED BY <1>3, <2>1, <3>1, <4>1, <4>2
    <3>4. CASE i # q.id
      <4>1. /\ i \in live /\ row'[i].parent = row[i].parent
            /\ row'[i].link = row[i].link
            /\ ~ (q.op = "delete" /\ row[i].link = q.id)
        BY <1>2, <2>1, <3>4, CommitRows
      <4>2. row[i].link \in live /\ row[row[i].link].parent = row[i].parent
        BY <1>3, <2>1, <4>1
      <4>3. row[i].link \in live'
        BY <1>1, <4>1, <4>2 DEF Ops
      <4>. QED BY <3>1, <4>1, <4>2, <4>3
    <3>5. q.op \in {"create", "change"} \/ i # q.id
      BY <1>1, <2>1 DEF Ops
    <3>. QED BY <3>2, <3>3, <3>4, <3>5
  <2>. QED BY <2>1 DEF LinkedInDomain
<1>. QED BY <1>5, <1>6

-----------------------------------------------------------------------------
(***************************************************************************)
(* The history.                                                            *)
(***************************************************************************)
Committed == {n \in 1..Len(journal) : journal[n].by = None}

\* The history of an item goes by the committed rows and their order alone.
LEMMA SameHistory ==
  ASSUME HistoryTellsRow, UNCHANGED <<live, row>>, TypeOK, TypeOK',
         NEW CONSTANT j \in Nat,
         \A n \in Committed' : Before(j, n) \in Committed /\ journal'[n] = journal[Before(j, n)],
         \A k \in Committed : \E n \in Committed' : Before(j, n) = k
  PROVE  HistoryTellsRow'
<1>1. SUFFICES ASSUME NEW i \in live, NEW f \in Columns
               PROVE  /\ \A n \in Told(i, f)' :
                           (\A k \in Told(i, f)' : k <= n) /\ ~ journal'[n].crossed =>
                             journal'[n].after[f] = row[i].cols[f]
                      /\ \A m, n \in Told(i, f)' :
                           /\ NextTold(i, f, m, n)'
                           /\ ~ journal'[m].crossed /\ ~ journal'[n].crossed
                           => journal'[n].before[f] = journal'[m].after[f]
  BY DEF HistoryTellsRow
<1>2. /\ Committed \subseteq Nat /\ Committed' \subseteq Nat
      /\ Told(i, f) \subseteq Committed /\ Told(i, f)' \subseteq Committed'
  BY DEF Committed, Told, TypeOK
<1>3. \A n \in Committed' : n \in Told(i, f)' <=> Before(j, n) \in Told(i, f)
  BY DEF Committed, Told
<1>4. \A k \in Told(i, f) : \E n \in Told(i, f)' : Before(j, n) = k
  BY <1>2, <1>3
<1>5. \A n \in Told(i, f)' : Before(j, n) \in Told(i, f) /\ journal'[n] = journal[Before(j, n)]
  BY <1>2, <1>3
<1>6. \A m, n \in Told(i, f)' : m <= n <=> Before(j, m) <= Before(j, n)
  <2>1. ASSUME NEW m \in Told(i, f)', NEW n \in Told(i, f)'
        PROVE  m <= n <=> Before(j, m) <= Before(j, n)
    <3>1. m \in Nat /\ n \in Nat
      BY <1>2
    <3>. QED BY <3>1 DEF Before
  <2>. QED BY <2>1
<1>7. ASSUME NEW n \in Told(i, f)', \A k \in Told(i, f)' : k <= n,
             ~ journal'[n].crossed
      PROVE  journal'[n].after[f] = row[i].cols[f]
  <2>1. \A k \in Told(i, f) : k <= Before(j, n)
    BY <1>4, <1>6, <1>7
  <2>. QED BY <1>5, <1>7, <2>1 DEF HistoryTellsRow
<1>8. ASSUME NEW m \in Told(i, f)', NEW n \in Told(i, f)', NextTold(i, f, m, n)',
             ~ journal'[m].crossed, ~ journal'[n].crossed
      PROVE  journal'[n].before[f] = journal'[m].after[f]
  <2>1. m < n /\ \A k \in Told(i, f)' : k <= m \/ n <= k
    BY <1>8 DEF NextTold
  <2>2. Before(j, m) < Before(j, n)
    BY <1>2, <1>8, <2>1 DEF Before
  <2>3. \A k \in Told(i, f) : k <= Before(j, m) \/ Before(j, n) <= k
    BY <1>4, <1>6, <2>1
  <2>4. NextTold(i, f, Before(j, m), Before(j, n))
    BY <1>5, <2>2, <2>3 DEF NextTold
  <2>. QED BY <1>5, <1>8, <2>4 DEF HistoryTellsRow
<1>. QED BY <1>7, <1>8

\* A request that begins, goes on or is refused has no row in the journal.
LEMMA NoRowYet ==
  ASSUME HInv, NEW r \in Requests, request[r].pc # "written"
  PROVE  \A n \in 1..Len(journal) : journal[n].by # r
BY NoneIsNoItem DEF HInv, History, Owned

LEMMA QuietStep ==
  ASSUME HInv, IInv', NEW r \in Requests,
         \A n \in 1..Len(journal) : journal[n].by # r,
         UNCHANGED <<live, gone, row, journal>>,
         NEW q, request' = [request EXCEPT ![r] = q],
         /\ q.pc # "idle" /\ q.op # "create" /\ ~ q.crossed /\ q.id \in live
         => /\ q.before = row[q.id].cols
            /\ q.pc \in {"selected", "written"} =>
                 \A f \in q.tells \ q.writes : q.after[f] = row[q.id].cols[f]
  PROVE  History' /\ HistoryTellsRow'
<1>1. request'[r] = q /\ \A s \in Requests \ {r} : request'[s] = request[s]
  BY DEF HInv, IInv, TypeOK
<1>2. \A n \in 1..Len(journal) : journal[n].by \in Requests \cup {None}
  <2>1. \A n \in 1..Len(journal) : journal[n] \in EventType
    BY DEF HInv, IInv, TypeOK
  <2>. QED BY <2>1 DEF EventType
<1>3. Owned' /\ Latest'
  BY <1>1, <1>2 DEF HInv, History, Owned, Latest
<1>4. Single' /\ Settled' /\ Ahead'
  BY DEF HInv, History, Single, Settled, Ahead
<1>5. Unmoved'
  BY <1>1 DEF HInv, History, Unmoved
<1>6. HistoryTellsRow'
  BY DEF HInv, HistoryTellsRow, NextTold, Told
<1>. QED BY <1>3, <1>4, <1>5, <1>6 DEF History

LEMMA RequestHistory ==
  ASSUME HInv, IInv', NEW r \in Requests
  PROVE  /\ \A q : Begun(r, q) => History' /\ HistoryTellsRow'
         /\ Refused(r) => History' /\ HistoryTellsRow'
         /\ \A q : Advanced(r, q) => History' /\ HistoryTellsRow'
<1>1. ASSUME NEW q, Begun(r, q) PROVE History' /\ HistoryTellsRow'
  <2>1. /\ request[r].pc # "written" /\ request' = [request EXCEPT ![r] = q]
        /\ UNCHANGED <<live, gone, row, journal>>
        /\ q.op # "create" => q.before = row[q.id].cols
        /\ q.pc \notin {"selected", "written"}
    BY <1>1 DEF Begun, Start
  <2>. QED BY <2>1, NoRowYet, QuietStep
<1>2. ASSUME Refused(r) PROVE History' /\ HistoryTellsRow'
  BY <1>2, NoRowYet, QuietStep, IdleShape DEF Refused, Drop
<1>3. ASSUME NEW q, Advanced(r, q) PROVE History' /\ HistoryTellsRow'
  <2>1. /\ request[r].pc \notin {"idle", "written"} /\ request' = [request EXCEPT ![r] = q]
        /\ UNCHANGED <<live, gone, row, journal>>
        /\ q.op = request[r].op /\ q.id = request[r].id
        /\ q.before = request[r].before /\ q.crossed = request[r].crossed
        /\ q.pc \in {"cleared", "selected"}
        /\ q.pc = "selected" /\ q.op # "create" =>
             \A f \in q.tells \ q.writes : q.after[f] = row[q.id].cols[f]
    BY <1>3 DEF Advanced
  <2>2. request[r].op # "create" /\ ~ request[r].crossed /\ request[r].id \in live =>
          request[r].before = row[request[r].id].cols
    BY <2>1 DEF HInv, History, Unmoved
  <2>. QED BY <2>1, <2>2, NoRowYet, QuietStep
<1>. QED BY <1>1, <1>2, <1>3

LEMMA FlushHistory ==
  ASSUME HInv, IInv', NEW r \in Requests, Flush(r)
  PROVE  History' /\ HistoryTellsRow'
<1>. DEFINE q == request[r]
            e == NewEvent(r)
            last == Len(journal) + 1
<1>1. CASE FlushError(q)
  <2>1. Refused(r)
    BY <1>1 DEF Flush, Refused
  <2>. QED BY <2>1, RequestHistory
<1>2. CASE ~ FlushError(q)
  <2>1. /\ q \in RequestType /\ q.pc = "selected"
        /\ request' = [request EXCEPT ![r].pc = "written"]
        /\ journal' = IF Journalled(q) THEN Append(journal, e) ELSE journal
        /\ UNCHANGED <<live, gone, row>>
    BY <1>2 DEF Flush, HInv, IInv, TypeOK
  <2>2. /\ \A s \in Requests \ {r} : request'[s] = request[s]
        /\ request'[r] = [q EXCEPT !.pc = "written"]
    BY <2>1 DEF HInv, IInv, TypeOK
  <2>3. LET w == request'[r]
        IN /\ w.pc = "written" /\ w.op = q.op /\ w.id = q.id /\ w.tells = q.tells
           /\ w.before = q.before /\ w.after = q.after /\ w.crossed = q.crossed
           /\ w.writes = q.writes
    BY <2>1, <2>2 DEF RequestType
  <2>4. /\ e.by = r /\ e.of = q.id /\ e.tells = q.tells /\ e.after = q.after
        /\ q.op # "create" => e.before = q.before
    BY DEF NewEvent
  <2>5. /\ Len(journal) \in Nat /\ journal \in Seq(EventType)
        /\ \A n \in 1..Len(journal) : journal[n] \in EventType
        /\ \A n \in 1..Len(journal) : journal[n].by \in Requests \cup {None}
    <3>1. Len(journal) \in Nat /\ \A n \in 1..Len(journal) : journal[n] \in EventType
      BY DEF HInv, IInv, TypeOK
    <3>. QED BY <3>1 DEF HInv, IInv, TypeOK, EventType
  <2>6. \A n \in 1..Len(journal) : journal[n].by # r
    BY <2>1, NoRowYet
  <2>7. \/ Len(journal') = Len(journal) /\ \A n \in 1..Len(journal) : journal'[n] = journal[n]
        \/ /\ Len(journal') = last /\ journal'[last] = e
           /\ \A n \in 1..Len(journal) : journal'[n] = journal[n]
    <3>1. e \in EventType
      BY <2>1 DEF HInv, IInv, Tables, Held, HeldFromStart, HeldOnceSelected,
         NewEvent, EventType, RequestType
    <3>. QED BY <2>1, <2>5, <3>1
  <2>. HIDE DEF q, e
  <2>8. ASSUME NEW n \in 1..Len(journal')
        PROVE  \/ n \in 1..Len(journal) /\ journal'[n] = journal[n]
               \/ n = last /\ journal'[n] = e
    BY <2>5, <2>7
  <2>9. Owned'
    <3>1. ASSUME NEW n \in 1..Len(journal'), journal'[n].by # None,
                 NEW CONSTANT p, p = request'[journal'[n].by]
          PROVE  /\ p.pc = "written" /\ journal'[n].of = p.id
                 /\ journal'[n].tells = p.tells /\ journal'[n].after = p.after
                 /\ p.op # "create" => journal'[n].before = p.before
      <4>1. CASE n \in 1..Len(journal) /\ journal'[n] = journal[n]
        <5>1. p = request[journal[n].by]
          BY <2>2, <2>5, <2>6, <3>1, <4>1
        <5>2. journal[n].by # None
          BY <3>1, <4>1
        <5>3. LET o == request[journal[n].by]
              IN /\ o.pc = "written" /\ journal[n].of = o.id
                 /\ journal[n].tells = o.tells /\ journal[n].after = o.after
                 /\ o.op # "create" => journal[n].before = o.before
          BY <4>1, <5>2 DEF HInv, History, Owned
        <5>. QED BY <4>1, <5>1, <5>3
      <4>2. CASE n = last /\ journal'[n] = e
        BY <2>3, <2>4, <3>1, <4>2
      <4>. QED BY <2>8, <4>1, <4>2
    <3>. QED BY <3>1 DEF Owned
  <2>10. Single'
    BY <2>4, <2>6, <2>8 DEF HInv, History, Single
  <2>11. Settled'
    BY <2>1, <2>4, <2>8, NoneIsNoItem DEF HInv, History, Settled
  <2>12. Ahead'
    BY <2>4, <2>5, <2>8, NoneIsNoItem DEF HInv, History, Ahead
  <2>13. Latest'
    <3>1. ASSUME NEW m \in 1..Len(journal'), NEW n \in 1..Len(journal'),
                 m < n, journal'[m].of = journal'[n].of, journal'[m].by # None,
                 journal'[n].by = None
          PROVE  request'[journal'[m].by].crossed
      <4>1. n \in 1..Len(journal) /\ journal'[n] = journal[n]
        BY <2>4, <2>8, <3>1, NoneIsNoItem
      <4>2. m \in 1..Len(journal) /\ journal'[m] = journal[m]
        BY <2>5, <2>8, <3>1, <4>1
      <4>3. request[journal[m].by].crossed
        BY <3>1, <4>1, <4>2 DEF HInv, History, Latest
      <4>4. journal[m].by \in Requests \ {r}
        BY <2>5, <2>6, <3>1, <4>2
      <4>. QED BY <2>2, <4>2, <4>3, <4>4
    <3>. QED BY <3>1 DEF Latest
  <2>14. Unmoved'
    <3>1. LET w == request'[r] IN
            w.op # "create" /\ ~ w.crossed /\ w.id \in live =>
              /\ w.before = row[w.id].cols
              /\ \A f \in w.tells \ w.writes : w.after[f] = row[w.id].cols[f]
      BY <2>1, <2>3 DEF HInv, History, Unmoved, q
    <3>. QED BY <2>1, <2>2, <3>1 DEF HInv, History, Unmoved
  <2>15. HistoryTellsRow'
    <3>1. \A n \in Committed' : n \in Committed /\ journal'[n] = journal[n]
      BY <2>4, <2>8, NoneIsNoItem DEF Committed
    <3>2. \A n \in Committed : n \in Committed'
      BY <2>5, <2>7 DEF Committed
    <3>3. PICK j \in Nat : \A n \in Committed' : Before(j, n) = n
      <4>1. last \in Nat /\ \A n \in Committed' : n < last
        BY <2>5, <3>1 DEF Committed
      <4>. QED BY <4>1 DEF Before
    <3>. QED BY <2>1, <2>5, <3>1, <3>2, <3>3, SameHistory DEF HInv, IInv
  <2>. QED BY <2>9, <2>10, <2>11, <2>12, <2>13, <2>14, <2>15 DEF History
<1>. QED BY <1>1, <1>2

LEMMA RollbackHistory ==
  ASSUME HInv, IInv', NEW r \in Requests, Rollback(r)
  PROVE  History' /\ HistoryTellsRow'
<1>1. /\ request' = [request EXCEPT ![r] = Idle] /\ journal' = OthersRows(r)
      /\ UNCHANGED <<live, gone, row>>
  BY DEF Rollback, Drop
<1>2. CASE /\ \A n \in 1..Len(journal) : journal[n].by # r
           /\ OthersRows(r) = journal
  BY <1>1, <1>2, QuietStep, IdleShape
<1>3. ASSUME NEW k \in 1..Len(journal), journal[k].by = r,
             Len(OthersRows(r)) = Len(journal) - 1,
             \A n \in 1..Len(journal) - 1 : OthersRows(r)[n] = journal[Before(k, n)]
      PROVE  History' /\ HistoryTellsRow'
  <2>1. /\ Len(journal) \in Nat /\ Len(journal') = Len(journal) - 1
        /\ \A n \in 1..Len(journal) : journal[n].by \in Requests \cup {None}
    <3>1. \A n \in 1..Len(journal) : journal[n] \in EventType
      BY DEF HInv, IInv, TypeOK
    <3>. QED BY <1>1, <1>3, <3>1 DEF HInv, IInv, TypeOK, EventType
  <2>2. /\ request'[r] = Idle /\ \A s \in Requests \ {r} : request'[s] = request[s]
        /\ r # None
    BY <1>1, NoneIsNoItem DEF HInv, IInv, TypeOK
  <2>3. ASSUME NEW n \in 1..Len(journal')
        PROVE  /\ n \in Nat /\ Before(k, n) \in 1..Len(journal)
               /\ Before(k, n) # k /\ journal'[n] = journal[Before(k, n)]
    BY <1>1, <1>3, <2>1 DEF Before
  <2>4. \A n \in 1..Len(journal') : journal'[n].by # r
    BY <1>3, <2>2, <2>3 DEF HInv, History, Single
  <2>5. \A m, n \in 1..Len(journal') : m < n <=> Before(k, m) < Before(k, n)
    BY <2>3 DEF Before
  <2>6. \A m, n \in 1..Len(journal') : Before(k, m) = Before(k, n) => m = n
    BY <2>3 DEF Before
  <2>7. Owned'
    <3>1. ASSUME NEW n \in 1..Len(journal'), journal'[n].by # None
          PROVE  request'[journal'[n].by] = request[journal'[n].by]
      BY <2>1, <2>2, <2>3, <2>4, <3>1
    <3>. QED BY <2>3, <3>1 DEF HInv, History, Owned
  <2>8. Single'
    <3>1. ASSUME NEW m \in 1..Len(journal'), NEW n \in 1..Len(journal'),
                 journal'[m].by # None, journal'[m].by = journal'[n].by
          PROVE  m = n
      <4>1. /\ Before(k, m) \in 1..Len(journal) /\ Before(k, n) \in 1..Len(journal)
            /\ journal'[m] = journal[Before(k, m)] /\ journal'[n] = journal[Before(k, n)]
        BY <2>3
      <4>2. Before(k, m) = Before(k, n)
        BY <3>1, <4>1, Zenon DEF HInv, History, Single
      <4>. QED BY <2>6, <4>2
    <3>. QED BY <3>1 DEF Single
  <2>9. Settled'
    BY <1>1, <2>3 DEF HInv, History, Settled
  <2>10. Ahead'
    <3>1. ASSUME NEW m \in 1..Len(journal'), NEW n \in 1..Len(journal'),
                 m < n, journal'[m].of = journal'[n].of,
                 journal'[n].by = None, ~ journal'[n].crossed
          PROVE  journal'[m].by = None
      <4>1. /\ Before(k, m) \in 1..Len(journal) /\ Before(k, n) \in 1..Len(journal)
            /\ journal'[m] = journal[Before(k, m)] /\ journal'[n] = journal[Before(k, n)]
        BY <2>3
      <4>2. Before(k, m) < Before(k, n)
        BY <2>5, <3>1
      <4>. QED BY <3>1, <4>1, <4>2 DEF HInv, History, Ahead
    <3>. QED BY <3>1 DEF Ahead
  <2>11. Latest'
    <3>1. ASSUME NEW m \in 1..Len(journal'), NEW n \in 1..Len(journal'),
                 m < n, journal'[m].of = journal'[n].of, journal'[m].by # None,
                 journal'[n].by = None
          PROVE  request'[journal'[m].by].crossed
      <4>1. /\ journal'[m].by \in Requests \ {r} /\ journal'[m] = journal[Before(k, m)]
            /\ journal'[n] = journal[Before(k, n)] /\ Before(k, m) < Before(k, n)
        BY <2>1, <2>3, <2>4, <2>5, <3>1
      <4>2. request[journal'[m].by].crossed
        BY <2>3, <3>1, <4>1 DEF HInv, History, Latest
      <4>. QED BY <2>2, <4>1, <4>2
    <3>. QED BY <3>1 DEF Latest
  <2>12. Unmoved'
    BY <1>1, <2>2, IdleShape DEF HInv, History, Unmoved
  <2>13. HistoryTellsRow'
    <3>1. \A n \in Committed' : /\ Before(k, n) \in Committed
                                /\ journal'[n] = journal[Before(k, n)]
      BY <2>3 DEF Committed
    <3>2. ASSUME NEW n \in Committed
          PROVE  \E m \in Committed' : Before(k, m) = n
      <4>1. n \in 1..Len(journal) /\ journal[n].by = None /\ n # k
        BY <1>3, <2>2 DEF Committed
      <4>2. CASE n < k
        BY <2>1, <2>3, <4>1, <4>2 DEF Before, Committed
      <4>3. CASE n > k
        <5>1. n - 1 \in 1..Len(journal') /\ Before(k, n - 1) = n
          BY <2>1, <4>1, <4>3 DEF Before
        <5>. QED BY <2>3, <4>1, <5>1 DEF Committed
      <4>. QED BY <2>1, <4>1, <4>2, <4>3
    <3>3. k \in Nat
      BY <2>1
    <3>. QED BY <1>1, <3>1, <3>2, <3>3, SameHistory DEF HInv, IInv
  <2>. QED BY <2>7, <2>8, <2>9, <2>10, <2>11, <2>12, <2>13 DEF History
<1>. QED BY <1>1, <1>2, <1>3, RemovalShape DEF HInv, IInv


\* A commit releases the journal row of its request, and no other.
LEMMA CommitJournal ==
  ASSUME HInv, NEW r \in Requests, Commit(r)
  PROVE  /\ Len(journal) \in Nat /\ Len(journal') = Len(journal)
         /\ \A n \in 1..Len(journal) :
              /\ journal[n].by \in Requests \cup {None}
              /\ journal[n].by # r => journal'[n] = journal[n]
              /\ journal[n].by = r =>
                   /\ journal'[n].by = None /\ journal'[n].of = journal[n].of
                   /\ journal'[n].tells = journal[n].tells
                   /\ journal'[n].before = journal[n].before
                   /\ journal'[n].after = journal[n].after
                   /\ journal'[n].crossed = (request[r].crossed \/ Overtakes(r))
<1>. DEFINE x == request[r].crossed \/ Overtakes(r)
<1>1. /\ Len(journal) \in Nat
      /\ journal' = [n \in 1..Len(journal) |-> Released(journal[n], r, x)]
  BY DEF Commit, HInv, IInv, TypeOK
<1>2. \A n \in 1..Len(journal) : journal[n] \in EventType
  BY DEF HInv, IInv, TypeOK
<1>3. x \in BOOLEAN
  BY DEF HInv, IInv, TypeOK, RequestType, Overtakes
<1>. HIDE DEF x
<1>4. ASSUME NEW n \in 1..Len(journal)
      PROVE  /\ journal[n].by \in Requests \cup {None}
             /\ journal[n].by # r => journal'[n] = journal[n]
             /\ journal[n].by = r =>
                  /\ journal'[n].by = None /\ journal'[n].of = journal[n].of
                  /\ journal'[n].tells = journal[n].tells
                  /\ journal'[n].before = journal[n].before
                  /\ journal'[n].after = journal[n].after
                  /\ journal'[n].crossed = x
  BY <1>1, <1>2, <1>3 DEF Released, EventType
<1>5. Len(journal') = Len(journal)
  BY <1>1
<1>. QED BY <1>1, <1>4, <1>5 DEF x

\* The order of the journal after a commit.
LEMMA CommitOrder ==
  ASSUME HInv, NEW r \in Requests, Commit(r)
  PROVE  Owned' /\ Single' /\ Settled' /\ Ahead' /\ Latest'
<1>. DEFINE q == request[r]
<1>1. \A n \in 1..Len(journal) : journal[n].by = r => journal[n].of = q.id
  BY NoneIsNoItem DEF HInv, History, Owned
<1>2. \A n \in 1..Len(journal) : journal'[n].by # None =>
        /\ journal'[n] = journal[n] /\ journal[n].by \in Requests \ {r}
  BY CommitJournal
<1>3. Owned'
  <2>1. ASSUME NEW n \in 1..Len(journal'), journal'[n].by # None,
               NEW CONSTANT p, p = request'[journal'[n].by]
        PROVE  /\ p.pc = "written" /\ journal'[n].of = p.id
               /\ journal'[n].tells = p.tells /\ journal'[n].after = p.after
               /\ p.op # "create" => journal'[n].before = p.before
    <3>1. /\ n \in 1..Len(journal) /\ journal'[n] = journal[n]
          /\ journal[n].by \in Requests \ {r} /\ journal[n].by # None
      BY <1>2, <2>1, CommitJournal
    <3>2. LET o == request[journal[n].by]
          IN /\ o.pc = "written" /\ journal[n].of = o.id
             /\ journal[n].tells = o.tells /\ journal[n].after = o.after
             /\ o.op # "create" => journal[n].before = o.before
      BY <3>1 DEF HInv, History, Owned
    <3>. QED BY <2>1, <3>1, <3>2, CommitOthers DEF HInv
  <2>. QED BY <2>1 DEF Owned
<1>4. Single'
  BY <1>2, CommitJournal DEF HInv, History, Single
<1>5. Settled'
  <2>1. live \cup gone \subseteq live' \cup gone' /\ q.id \in live' \cup gone'
    BY CommitFacts DEF HInv, HeldFromStart, Ops
  <2>2. ASSUME NEW n \in 1..Len(journal'), journal'[n].by = None
        PROVE  journal'[n].of \in live' \cup gone'
    <3>1. CASE journal[n].by = r
      BY <1>1, <2>1, <3>1, CommitJournal
    <3>2. CASE journal[n].by # r
      BY <2>1, <2>2, <3>2, CommitJournal DEF HInv, History, Settled
    <3>. QED BY <3>1, <3>2
  <2>. QED BY <2>2 DEF Settled
<1>6. Ahead'
  <2>1. ASSUME NEW m \in 1..Len(journal'), NEW n \in 1..Len(journal'), m < n,
               journal'[m].of = journal'[n].of, journal'[n].by = None,
               ~ journal'[n].crossed, journal'[m].by # None
        PROVE  FALSE
    <3>1. /\ m \in 1..Len(journal) /\ n \in 1..Len(journal)
          /\ journal'[m] = journal[m] /\ journal[m].by \in Requests \ {r}
          /\ journal'[n].of = journal[n].of
      BY <1>2, <2>1, CommitJournal
    <3>2. CASE journal[n].by = r
      <4>1. journal[m].of = q.id /\ ~ Overtakes(r)
        BY <1>1, <2>1, <3>1, <3>2, CommitJournal
      <4>2. LET o == request[journal[m].by] IN o.pc = "written" /\ o.id = journal[m].of
        BY <2>1, <3>1 DEF HInv, History, Owned
      <4>. QED BY <3>1, <4>1, <4>2 DEF Overtakes
    <3>3. CASE journal[n].by # r
      BY <2>1, <3>1, <3>3, CommitJournal DEF HInv, History, Ahead
    <3>. QED BY <3>2, <3>3
  <2>. QED BY <2>1 DEF Ahead
<1>7. Latest'
  <2>1. ASSUME NEW m \in 1..Len(journal'), NEW n \in 1..Len(journal'), m < n,
               journal'[m].of = journal'[n].of, journal'[m].by # None,
               journal'[n].by = None
        PROVE  request'[journal'[m].by].crossed
    <3>1. /\ m \in 1..Len(journal) /\ n \in 1..Len(journal)
          /\ journal'[m] = journal[m] /\ journal[m].by \in Requests \ {r}
          /\ journal'[n].of = journal[n].of
      BY <1>2, <2>1, CommitJournal
    <3>2. LET o == request[journal[m].by] IN o.id = journal[m].of
      BY <2>1, <3>1 DEF HInv, History, Owned
    <3>3. request[journal[m].by].crossed \/ request[journal[m].by].id = q.id
      <4>1. CASE journal[n].by = r
        BY <1>1, <2>1, <3>1, <3>2, <4>1
      <4>2. CASE journal[n].by # r
        BY <2>1, <3>1, <4>2, CommitJournal DEF HInv, History, Latest
      <4>. QED BY <4>1, <4>2
    <3>. QED BY <3>1, <3>3, CommitOthers DEF HInv
  <2>. QED BY <2>1 DEF Latest
<1>. QED BY <1>3, <1>4, <1>5, <1>6, <1>7

LEMMA CommitUnmoved ==
  ASSUME HInv, NEW r \in Requests, Commit(r)
  PROVE  Unmoved'
<1>. DEFINE q == request[r]
<1>1. ASSUME NEW s \in Requests, NEW CONSTANT p, p = request'[s],
             p.pc # "idle", p.op # "create", ~ p.crossed, p.id \in live'
      PROVE  /\ p.before = row'[p.id].cols
             /\ p.pc \in {"selected", "written"} =>
                  \A f \in p.tells \ p.writes : p.after[f] = row'[p.id].cols[f]
  <2>. DEFINE o == request[s]
  <2>1. s # r
    BY <1>1, CommitOthers, IdleShape DEF HInv
  <2>2. /\ p.pc = o.pc /\ p.op = o.op /\ p.id = o.id /\ p.tells = o.tells
        /\ p.before = o.before /\ p.after = o.after /\ p.writes = o.writes
        /\ ~ o.crossed /\ o.id # q.id
    BY <1>1, <2>1, CommitOthers DEF HInv
  <2>3. o.id \in live /\ live \subseteq Items
    BY <1>1, <2>2, CommitFacts DEF HInv, IInv, TypeOK, Ops
  <2>4. row'[o.id].cols = row[o.id].cols
    BY <2>2, <2>3, CommitRows DEF HInv
  <2>. QED BY <1>1, <2>2, <2>3, <2>4 DEF HInv, History, Unmoved
<1>. QED BY <1>1 DEF Unmoved


\* What the history of the item of a commit becomes, where it tells of f.
LEMMA CommitToldItem ==
  ASSUME HInv, NEW r \in Requests, Commit(r), NEW k \in 1..Len(journal),
         journal[k].by = r, NEW f \in request[r].tells,
         NEW i, i = request[r].id, i \in live'
  PROVE  /\ \A n \in Told(i, f)' :
              (\A l \in Told(i, f)' : l <= n) /\ ~ journal'[n].crossed =>
                journal'[n].after[f] = row'[i].cols[f]
         /\ \A m, n \in Told(i, f)' :
              /\ NextTold(i, f, m, n)' /\ ~ journal'[m].crossed /\ ~ journal'[n].crossed
              => journal'[n].before[f] = journal'[m].after[f]
<1>. DEFINE q == request[r]
            T == Told(i, f)
<1>1. /\ q.pc = "written" /\ journal[k].of = i /\ journal[k].tells = q.tells
      /\ journal[k].after = q.after
      /\ q.op # "create" => journal[k].before = q.before
  BY NoneIsNoItem DEF HInv, History, Owned
<1>2. /\ Len(journal') = Len(journal) /\ Len(journal) \in Nat
      /\ journal'[k].by = None /\ journal'[k].of = i /\ journal'[k].tells = q.tells
      /\ journal'[k].before = journal[k].before /\ journal'[k].after = q.after
      /\ journal'[k].crossed <=> q.crossed \/ Overtakes(r)
      /\ \A n \in 1..Len(journal) : n # k => journal'[n] = journal[n] /\ journal[n].by # r
  BY <1>1, CommitJournal, NoneIsNoItem DEF HInv, History, Single
<1>3. Told(i, f)' = T \cup {k} /\ k \notin T /\ T \subseteq 1..Len(journal)
  BY <1>1, <1>2, NoneIsNoItem DEF Told
<1>4. /\ q.op \in {"create", "change"}
      /\ q.op = "create" => T = {}
      /\ q.op = "change" => i \in live
      /\ q.tells \subseteq Columns
  <2>1. q.op = "create" => i \notin live \cup gone
    BY CommitFacts DEF HInv, HeldFromStart
  <2>. QED BY <2>1, CommitFacts DEF HInv, History, Settled, Told, Ops, RequestType
<1>10. q.op = "create" \/ (q.op = "change" /\ f \in q.writes) =>
         row'[i].cols[f] = q.after[f]
  BY CommitRows DEF HInv
<1>. HIDE DEF q, T
\* A row of the history that was not crossed has no uncommitted one before it.
<1>5. \A n \in T : k < n => journal'[n].crossed
  BY <1>1, <1>2, <1>3, NoneIsNoItem DEF HInv, History, Ahead, Told, T
<1>6. ~ journal'[k].crossed => \A n \in T : ~ (k < n)
  <2>1. ASSUME NEW n \in T, k < n PROVE q.crossed
    BY <1>1, <2>1, NoneIsNoItem DEF HInv, History, Latest, Told, T, q
  <2>. QED BY <1>2, <2>1
<1>7. ~ journal'[k].crossed => journal'[k].after[f] = row'[i].cols[f]
  <2>1. CASE q.op = "create"
    BY <1>2, <1>10, <2>1
  <2>2. CASE q.op = "change" /\ f \in q.writes
    BY <1>2, <1>10, <2>2
  <2>3. CASE q.op = "change" /\ f \notin q.writes /\ ~ journal'[k].crossed
    <3>1. q.after[f] = row[i].cols[f]
      BY <1>1, <1>2, <1>4, <2>3 DEF HInv, History, Unmoved, q
    <3>. QED BY <1>2, <1>4, <2>3, <3>1, CommitRows DEF HInv, q
  <2>. QED BY <1>4, <2>1, <2>2, <2>3
<1>8. ASSUME NEW n \in Told(i, f)', \A l \in Told(i, f)' : l <= n, ~ journal'[n].crossed
      PROVE  journal'[n].after[f] = row'[i].cols[f]
  <2>1. n = k
    <3>1. k <= n /\ n \in 1..Len(journal) /\ (n = k \/ n \in T)
      BY <1>3, <1>8
    <3>. QED BY <1>2, <1>5, <1>8, <3>1
  <2>. QED BY <1>7, <1>8, <2>1
<1>9. ASSUME NEW m \in Told(i, f)', NEW n \in Told(i, f)', NextTold(i, f, m, n)',
             ~ journal'[m].crossed, ~ journal'[n].crossed
      PROVE  journal'[n].before[f] = journal'[m].after[f]
  <2>1. /\ m < n /\ \A l \in Told(i, f)' : l <= m \/ n <= l
        /\ m \in 1..Len(journal) /\ n \in 1..Len(journal)
    BY <1>3, <1>9 DEF NextTold
  <2>2. CASE m # k /\ n # k
    <3>1. /\ m \in T /\ n \in T /\ journal'[m] = journal[m] /\ journal'[n] = journal[n]
      BY <1>2, <1>3, <2>1, <2>2, <1>9
    <3>2. NextTold(i, f, m, n)
      BY <1>3, <2>1, <3>1 DEF NextTold, T
    <3>3. i \in live /\ f \in Columns
      BY <1>4, <3>1 DEF q
    <3>. QED BY <1>9, <3>1, <3>2, <3>3 DEF HInv, HistoryTellsRow, T
  <2>3. CASE m = k
    BY <1>3, <1>5, <1>9, <2>1, <2>3
  <2>4. CASE n = k /\ m # k
    <3>1. m \in T /\ journal'[m] = journal[m] /\ q.op = "change" /\ i \in live
      BY <1>2, <1>3, <1>4, <1>9, <2>1, <2>4
    <3>2. \A l \in T : l <= m
      BY <1>2, <1>3, <1>6, <1>9, <2>1, <2>4
    <3>3. journal'[m].after[f] = row[i].cols[f]
      BY <1>4, <1>9, <3>1, <3>2 DEF HInv, HistoryTellsRow, T, q
    <3>4. q.before = row[i].cols
      BY <1>1, <1>2, <1>9, <2>4, <3>1 DEF HInv, History, Unmoved, q
    <3>. QED BY <1>1, <1>2, <2>4, <3>1, <3>3, <3>4
  <2>. QED BY <2>2, <2>3, <2>4
<1>. QED BY <1>8, <1>9

LEMMA CommitHistory ==
  ASSUME HInv, NEW r \in Requests, Commit(r)
  PROVE  HistoryTellsRow'
<1>. DEFINE q == request[r]
<1>1. ASSUME NEW i \in live', NEW f \in Columns
      PROVE  /\ \A n \in Told(i, f)' :
                  (\A l \in Told(i, f)' : l <= n) /\ ~ journal'[n].crossed =>
                    journal'[n].after[f] = row'[i].cols[f]
             /\ \A m, n \in Told(i, f)' :
                  /\ NextTold(i, f, m, n)'
                  /\ ~ journal'[m].crossed /\ ~ journal'[n].crossed
                  => journal'[n].before[f] = journal'[m].after[f]
  <2>1. CASE \E k \in 1..Len(journal) :
               journal[k].by = r /\ i = q.id /\ f \in q.tells
    BY <1>1, <2>1, CommitToldItem
  <2>2. CASE ~ \E k \in 1..Len(journal) :
                 journal[k].by = r /\ i = q.id /\ f \in q.tells
    <3>1. /\ Told(i, f)' = Told(i, f)
          /\ \A n \in Told(i, f) : journal'[n] = journal[n]
      <4>1. \A k \in 1..Len(journal) : journal[k].by = r =>
              journal[k].of = q.id /\ journal[k].tells = q.tells
        BY NoneIsNoItem DEF HInv, History, Owned
      <4>2. ASSUME NEW n \in 1..Len(journal)
            PROVE  /\ n \in Told(i, f)' <=> n \in Told(i, f)
                   /\ n \in Told(i, f) => journal'[n] = journal[n]
        <5>1. CASE journal[n].by = r
          BY <2>2, <4>1, <5>1, CommitJournal, NoneIsNoItem DEF Told
        <5>2. CASE journal[n].by # r
          BY <5>2, CommitJournal DEF Told
        <5>. QED BY <5>1, <5>2
      <4>. QED BY <4>2, CommitJournal DEF Told
    <3>2. Told(i, f) # {} => i \in live /\ row'[i].cols[f] = row[i].cols[f]
      <4>1. Told(i, f) # {} => i \in live \cup gone
        BY DEF HInv, History, Settled, Told
      <4>2. /\ q.op \in Ops /\ q.pc = "written" /\ HeldFromStart(q) /\ HeldOnceSelected(q)
            /\ live \subseteq Items /\ live \cap gone = {} /\ live' \cap gone' = {}
        BY CommitFacts, CommitTypes DEF HInv, IInv, TypeOK
      <4>3. CASE i # q.id
        <5>1. i \in live
          BY <1>1, <4>2, <4>3, CommitFacts DEF HInv, Ops
        <5>. QED BY <4>2, <4>3, <5>1, CommitRows DEF HInv
      <4>4. CASE i = q.id /\ q.op = "create"
        BY <4>1, <4>2, <4>4 DEF HeldFromStart
      <4>5. CASE i = q.id /\ q.op = "change"
        <5>1. i \in live /\ Journalled(q)
          BY <1>1, <4>5, CommitFacts DEF HInv, Journalled
        <5>2. f \notin q.writes
          <6>1. \E k \in 1..Len(journal) : journal[k].by = r
            BY <4>2, <5>1 DEF HInv, IInv, Noted
          <6>. QED BY <2>2, <4>2, <4>5, <6>1 DEF HeldOnceSelected
        <5>. QED BY <4>5, <5>1, <5>2, CommitRows DEF HInv
      <4>6. q.op # "delete" \/ i # q.id
        BY <1>1, CommitFacts DEF HInv
      <4>. QED BY <4>2, <4>3, <4>4, <4>5, <4>6 DEF Ops
    <3>3. CASE Told(i, f) = {}
      BY <3>1, <3>3
    <3>4. CASE Told(i, f) # {}
      <4>1. \A m, n \in Told(i, f) : NextTold(i, f, m, n)' <=> NextTold(i, f, m, n)
        BY <3>1 DEF NextTold
      <4>. QED BY <3>1, <3>2, <3>4, <4>1 DEF HInv, HistoryTellsRow
    <3>. QED BY <3>3, <3>4
  <2>. QED BY <2>1, <2>2
<1>. QED BY <1>1 DEF HistoryTellsRow

LEMMA HistoryStep ==
  ASSUME HInv, IInv', NEW r \in Requests, Begin(r) \/ Proceed(r)
  PROVE  History' /\ HistoryTellsRow'
<1>1. CASE Begin(r)
  BY <1>1, BeginStep, RequestHistory DEF HInv
<1>2. CASE LookUp(r) \/ Select(r)
  BY <1>2, LookUpStep, SelectStep, RequestHistory DEF HInv
<1>3. CASE Flush(r)
  BY <1>3, FlushHistory
<1>4. CASE Commit(r)
  BY <1>4, CommitOrder, CommitUnmoved, CommitHistory DEF History
<1>5. CASE Rollback(r)
  BY <1>5, RollbackHistory
<1>. QED BY <1>1, <1>2, <1>3, <1>4, <1>5 DEF Proceed


-----------------------------------------------------------------------------
(***************************************************************************)
(* The theorems.                                                           *)
(***************************************************************************)
LEMMA Initially == Init => IInv
<1>. SUFFICES ASSUME Init PROVE IInv
  OBVIOUS
<1>. USE IdleShape
<1>1. NoRow \in RowType
  BY DEF NoRow, RowType, Columned, Values
<1>2. \A r \in Requests : request[r] = Idle
  BY DEF Init
<1>3. TypeOK
  BY <1>1 DEF Init, TypeOK
<1>4. Held /\ FreshIds /\ Apart /\ Noted
  BY <1>2 DEF Held, FreshIds, Apart, Noted
<1>5. UniqueKeys /\ LinkedInDomain
  BY DEF Init, UniqueKeys, LinkedInDomain
<1>. QED BY <1>3, <1>4, <1>5 DEF IInv, Tables

LEMMA Step == IInv /\ [Next]_vars => IInv'
<1>. SUFFICES ASSUME IInv, [Next]_vars PROVE IInv'
  OBVIOUS
<1>1. CASE UNCHANGED vars
  BY <1>1 DEF vars, IInv, TypeOK, Tables, Held, HeldFromStart, HeldOnceSelected,
     HeldOnceWritten, KeyIsFree, FreshIds, Apart, Compatible, Siblings, UniqueKeys,
     LinkedInDomain, Noted, Journalled
<1>2. ASSUME NEW r \in Requests, Begin(r) PROVE IInv'
  BY <1>2, BeginStep, StartStep
<1>3. ASSUME NEW r \in Requests, LookUp(r) \/ Select(r) PROVE IInv'
  BY <1>3, LookUpStep, SelectStep, AdvanceStep, DropStep
<1>5. ASSUME NEW r \in Requests, Flush(r) PROVE IInv'
  BY <1>5, FlushStep
<1>6. ASSUME NEW r \in Requests, Commit(r) PROVE IInv'
  BY <1>6, CommitTypes, CommitHeld, CommitApart, CommitTables DEF IInv, Tables
<1>7. ASSUME NEW r \in Requests, Rollback(r) PROVE IInv'
  BY <1>7, DropStep DEF Rollback
<1>. QED BY <1>1, <1>2, <1>3, <1>5, <1>6, <1>7 DEF Next, Proceed

LEMMA Invariance == Spec => []IInv
BY Initially, Step, PTL DEF Spec

\* Rows, journal rows and requests are of their types (persistence/models.py),
\* a removed source has no row, and whatever the interleaving a change finds
\* the row it needs.
THEOREM TypeCorrect == Spec => []TypeOK
BY Invariance, PTL DEF IInv

\* For any number of requests, no two siblings ever share a slug, a URI or a
\* content hash: the unique indexes hold what the lookups of the handlers miss.
THEOREM KeysAreUnique == Spec => []UniqueKeys
BY Invariance, PTL DEF IInv, Tables

\* For any number of requests, a document refers only to a source of its own
\* domain that is still there (documents.source_id, ON DELETE SET NULL).
THEOREM LinksStayInDomain == Spec => []LinkedInDomain
BY Invariance, PTL DEF IInv, Tables

\* For any number of requests and journal rows, and whatever they cross or roll
\* back, the history of an item replays to its row: the journal written in one
\* transaction with each change tells the truth about every request that no
\* other one crossed (get_document_history, append_journal_event).
THEOREM HistoryReplays == Spec => []HistoryTellsRow
<1>1. Init => HInv
  <2>. SUFFICES ASSUME Init PROVE HInv
    OBVIOUS
  <2>1. live = {} /\ Len(journal) = 0 /\ \A r \in Requests : request[r] = Idle
    BY DEF Init
  <2>. QED BY <2>1, Initially, IdleShape DEF HInv, History, Owned, Single, Settled,
       Ahead, Latest, Unmoved, HistoryTellsRow
<1>2. HInv /\ [Next]_vars => HInv'
  <2>. SUFFICES ASSUME HInv, [Next]_vars PROVE HInv'
    OBVIOUS
  <2>1. IInv'
    BY Step DEF HInv
  <2>2. CASE UNCHANGED vars
    BY <2>1, <2>2 DEF vars, HInv, History, Owned, Single, Settled, Ahead, Latest,
       Unmoved, HistoryTellsRow, NextTold, Told
  <2>3. CASE Next
    BY <2>1, <2>3, HistoryStep DEF Next, HInv
  <2>. QED BY <2>2, <2>3
<1>3. HInv => HistoryTellsRow
  BY DEF HInv
<1>. QED BY <1>1, <1>2, <1>3, PTL DEF Spec

\* A column of an existing row changes only with a commit that publishes a
\* journal row about it (append_journal_event in the same transaction).
THEOREM NoUntoldChange == Spec => ChangesAreTold
<1>. DEFINE Disclosed ==
       \A i \in live \cap live', f \in Columns :
         row'[i].cols[f] # row[i].cols[f] =>
           \E n \in 1..Len(journal) :
             /\ journal[n].by # None /\ journal'[n].by = None
             /\ journal[n].of = i /\ f \in journal[n].tells
<1>1. IInv /\ [Next]_vars => [Disclosed]_vars
  <2>. SUFFICES ASSUME IInv, Next, NEW i \in live \cap live', NEW f \in Columns,
                       row'[i].cols[f] # row[i].cols[f]
                PROVE  \E n \in 1..Len(journal) :
                         /\ journal[n].by # None /\ journal'[n].by = None
                         /\ journal[n].of = i /\ f \in journal[n].tells
    OBVIOUS
  <2>1. PICK r \in Requests : Commit(r)
    <3>1. PICK r \in Requests : Begin(r) \/ Proceed(r)
      BY DEF Next
    <3>2. row' # row
      OBVIOUS
    <3>3. ~ Begin(r)
      BY <3>2 DEF Begin, CreateDomain, CreateSource, CreateDocument, CreatePart,
         UpdateDomain, UpdateDocument, UpdateSource, DeleteSource, ArchiveDomain,
         ArchiveDocument, RestoreDomain, RestoreDocument, Archived, Start
    <3>. QED BY <3>1, <3>2, <3>3 DEF Proceed, LookUp, Select, Flush, Rollback
  <2>. DEFINE q == request[r]
  <2>2. /\ q.op \in Ops /\ q.pc = "written" /\ HeldFromStart(q) /\ HeldOnceSelected(q)
         /\ live \subseteq Items
    BY <2>1, CommitFacts DEF IInv, TypeOK
  <2>3. i = q.id
    BY <2>1, <2>2, CommitRows
  <2>4. q.op = "change" /\ f \in q.writes
    <3>1. q.op # "create"
      BY <2>2, <2>3 DEF HeldFromStart
    <3>2. q.op # "delete"
      BY <2>1, <2>3, CommitFacts
    <3>. QED BY <2>1, <2>2, <2>3, <3>1, <3>2, CommitRows DEF Ops
  <2>5. f \in q.tells /\ Journalled(q)
    BY <2>2, <2>4 DEF HeldOnceSelected, Journalled
  <2>6. PICK n \in 1..Len(journal) :
          journal[n].by = r /\ journal[n].of = q.id /\ journal[n].tells = q.tells
    BY <2>2, <2>5 DEF IInv, Noted
  <2>7. journal[n] \in EventType /\ n \in 1..Len(journal)
    BY DEF IInv, TypeOK
  <2>8. journal'[n].by = None
    BY <2>1, <2>6, <2>7 DEF Commit, Released, EventType
  <2>. QED BY <2>3, <2>5, <2>6, <2>8, NoneIsNoItem
<1>. QED BY <1>1, Invariance, PTL DEF Spec, ChangesAreTold

-----------------------------------------------------------------------------
(***************************************************************************)
(* Segments                                                                *)
(***************************************************************************)

\* Sizes of windows are integers, of whatever kind the ingestion is.
LEMMA SizesAreIntegers ==
  ASSUME NEW kind, NEW asked \in (MinSize .. MaxSize) \cup {Unset}
  PROVE  SizeOf(kind, asked) \in Int
BY SegmentingConstants DEF SizeOf

\* The next window holds at least one word, and ends where the next but one begins.
LEMMA WindowFacts ==
  ASSUME SegmentingInv, AddSegment
  PROVE  /\ Window \in SegmentRow
         /\ Window.ordinal = ordinal /\ Window.first = start
         /\ Window.count \in 1 .. size
         /\ Window.first + Window.count = Ended'
         /\ Ended = start /\ start < Ended'
         /\ size \in Nat /\ Ended' \in Nat
BY DEF SegmentingInv, SegmentingTypeOK, Covered, AddSegment, Window, SegmentRow, Ended

LEMMA InitSegmenting == SegmentingInit => SegmentingInv
BY DEF SegmentingInit, SegmentingInv, SegmentingTypeOK, Windows, InOrder, Covered

\* A window more: it has the next ordinal, and begins where the last one ends.
LEMMA AddSegmentKeeps ==
  ASSUME SegmentingInv, AddSegment
  PROVE  SegmentingInv'
<1>. DEFINE new == Window
<1>1. /\ new \in SegmentRow
      /\ new.ordinal = ordinal /\ new.first = start
      /\ new.count \in 1 .. size
      /\ new.first + new.count = Ended'
      /\ Ended = start /\ start < Ended'
      /\ size \in Nat /\ Ended' \in Nat
  BY WindowFacts
<1>2. /\ segments' = segments \cup {new} /\ ordinal' = ordinal + 1
      /\ start' = start + size
      /\ stage = "cutting" /\ start < words
      /\ stage' = stage /\ words' = words /\ size' = size
  BY DEF AddSegment
<1>3. /\ words \in Nat /\ ordinal \in Nat /\ start \in Nat
      /\ \A s \in segments :
           /\ s \in SegmentRow /\ s.ordinal \in Nat /\ s.first \in Nat /\ s.count \in Nat
           /\ s.ordinal < ordinal /\ s.count \in 1 .. size
           /\ s.first + s.count <= start
           /\ s.ordinal + 1 = ordinal => s.first + s.count = start
  BY <1>1 DEF SegmentingInv, SegmentingTypeOK, Windows, SegmentRow
<1>. HIDE DEF new
<1>4. SegmentingTypeOK'
  BY <1>1, <1>2 DEF SegmentingInv, SegmentingTypeOK
<1>5. Windows'
  <2>1. ASSUME NEW s \in segments'
        PROVE  /\ s.ordinal < ordinal' /\ s.count \in 1 .. size'
               /\ s.first + s.count <= Ended'
               /\ s.ordinal + 1 = ordinal' => s.first + s.count = Ended'
    <3>1. CASE s = new
      BY <1>1, <1>2, <1>3, <3>1
    <3>2. CASE s \in segments
      <4>1. /\ s.ordinal \in Nat /\ s.first \in Nat /\ s.count \in Nat
            /\ s.ordinal < ordinal /\ s.count \in 1 .. size
            /\ s.first + s.count <= start
        BY <1>3, <3>2
      <4>. QED BY <4>1, <1>1, <1>2, <1>3
    <3>. QED BY <2>1, <1>2, <3>1, <3>2
  <2>2. ASSUME NEW k \in 0 .. ordinal' - 1
        PROVE  \E s \in segments' : s.ordinal = k
    <3>1. CASE k = ordinal
      BY <1>1, <1>2, <3>1
    <3>2. CASE k \in 0 .. ordinal - 1
      BY <1>2, <3>2 DEF SegmentingInv, Windows
    <3>. QED BY <1>2, <1>3, <3>1, <3>2
  <2>. QED BY <1>2, <2>1, <2>2 DEF Windows
<1>6. InOrder'
  <2>. SUFFICES ASSUME NEW s \in segments', NEW t \in segments'
                PROVE  /\ s.ordinal = t.ordinal => s = t
                       /\ s.ordinal < t.ordinal => s.first + s.count <= t.first
                       /\ t.ordinal = s.ordinal + 1 => t.first = s.first + s.count
    BY DEF InOrder
  <2>1. CASE s \in segments /\ t \in segments
    BY <2>1 DEF SegmentingInv, InOrder
  <2>2. CASE s \in segments /\ t = new
    BY <1>1, <1>3, <2>2
  <2>3. CASE s = new /\ t \in segments
    BY <1>1, <1>3, <2>3
  <2>4. CASE s = new /\ t = new
    BY <1>1, <1>3, <2>4
  <2>. QED BY <1>2, <2>1, <2>2, <2>3, <2>4
<1>7. Covered'
  <2>1. ASSUME NEW w \in Nat, w < Ended'
        PROVE  \E s \in segments' : Holds(s, w)
    <3>1. CASE w < start
      BY <1>1, <1>2, <1>3, <3>1 DEF SegmentingInv, Covered
    <3>2. CASE start <= w
      <4>1. Holds(new, w)
        BY <1>1, <1>3, <2>1, <3>2 DEF Holds
      <4>. QED BY <4>1, <1>2
    <3>. QED BY <1>1, <1>3, <3>1, <3>2
  <2>2. \A e \in Nat : \A w \in 0 .. e - 1 : w \in Nat /\ w < e
    OBVIOUS
  <2>3. \A w \in 0 .. Ended' - 1 : w \in Nat /\ w < Ended'
    BY <1>1, <2>2
  <2>. QED BY <1>2, <2>1, <2>3 DEF Covered, SegmentingInv
<1>. QED BY <1>4, <1>5, <1>6, <1>7 DEF SegmentingInv

LEMMA SegmentingStep == SegmentingInv /\ [SegmentingNext]_segmentVars => SegmentingInv'
<1>. SUFFICES ASSUME SegmentingInv, [SegmentingNext]_segmentVars
              PROVE  SegmentingInv'
  OBVIOUS
<1>. USE DEF SegmentingInv, SegmentingTypeOK, Windows, InOrder, Covered, Ended, Holds
<1>1. ASSUME NEW kind \in {"text", "upload", "scan"},
             NEW asked \in (MinSize .. MaxSize) \cup {Unset}, ReadText(kind, asked)
      PROVE  SegmentingInv'
  <2>1. /\ stage' = IF words' > 0 /\ size' >= 1 THEN "cutting" ELSE "failed"
        /\ words' \in Nat /\ size' \in Int
        /\ segments' = {} /\ segments = {} /\ ordinal' = 0 /\ start' = 0
    BY <1>1, SizesAreIntegers, SegmentingConstants DEF ReadText
  <2>. QED BY <2>1
<1>2. CASE AddSegment
  BY <1>2, AddSegmentKeeps
<1>3. CASE CommitSegments
  BY <1>3 DEF CommitSegments
<1>4. CASE DropSegments
  BY <1>4 DEF DropSegments
<1>5. CASE UNCHANGED segmentVars
  BY <1>5 DEF segmentVars
<1>. QED BY <1>1, <1>2, <1>3, <1>4, <1>5 DEF SegmentingNext

LEMMA SegmentingInvariance == SegmentingSpec => []SegmentingInv
BY InitSegmenting, SegmentingStep, PTL DEF SegmentingSpec

\* An ingested text lies in its segments: every word in exactly one, nothing else in
\* any, whatever size the payload asked for and however long the text is.
THEOREM SegmentsHoldEachWordOnce == SegmentingSpec => []EachWordOnce
<1>1. SegmentingInv => EachWordOnce
  <2>. SUFFICES ASSUME SegmentingInv, stage = "committed"
                PROVE  /\ \A w \in 0 .. words - 1 :
                            \E s \in segments :
                              Holds(s, w) /\ \A t \in segments : Holds(t, w) => t = s
                       /\ \A s \in segments :
                            s.count \in 1 .. size /\ s.first + s.count <= words
    BY DEF EachWordOnce
  <2>1. Ended = words /\ words \in Nat
    BY DEF SegmentingInv, SegmentingTypeOK, Covered, Ended
  <2>2. ASSUME NEW s \in segments, NEW t \in segments, NEW w \in 0 .. words - 1,
               Holds(s, w), Holds(t, w)
        PROVE  t = s
    <3>1. /\ s.ordinal \in Nat /\ s.first \in Nat /\ s.count \in Nat
          /\ t.ordinal \in Nat /\ t.first \in Nat /\ t.count \in Nat
      BY DEF SegmentingInv, SegmentingTypeOK, SegmentRow
    <3>2. ~ (s.ordinal < t.ordinal) /\ ~ (t.ordinal < s.ordinal)
      BY <2>1, <2>2, <3>1 DEF SegmentingInv, InOrder, Holds
    <3>. QED BY <3>1, <3>2 DEF SegmentingInv, InOrder
  <2>3. \A w \in 0 .. words - 1 : \E s \in segments : Holds(s, w)
    BY <2>1 DEF SegmentingInv, Covered
  <2>4. \A s \in segments : s.count \in 1 .. size /\ s.first + s.count <= words
    BY <2>1 DEF SegmentingInv, Windows
  <2>. QED BY <2>2, <2>3, <2>4
<1>. QED BY <1>1, SegmentingInvariance, PTL

\* One segment goes on where another ends exactly if its ordinal is the next, and
\* no ordinal is given twice.
THEOREM OrdinalsTellNeighbors == SegmentingSpec => []NeighborsTouch
<1>1. SegmentingInv => NeighborsTouch
  <2>. SUFFICES ASSUME SegmentingInv, NEW s \in segments, NEW t \in segments
                PROVE  /\ s.ordinal = t.ordinal => s = t
                       /\ t.ordinal = s.ordinal + 1 <=> t.first = s.first + s.count
    BY DEF NeighborsTouch
  <2>1. \A u \in segments :
          u.ordinal \in Nat /\ u.first \in Nat /\ u.count \in Nat /\ u.count > 0
    BY DEF SegmentingInv, SegmentingTypeOK, SegmentRow, Windows
  <2>2. ASSUME t.first = s.first + s.count PROVE t.ordinal = s.ordinal + 1
    <3>1. s.ordinal < t.ordinal
      BY <2>1, <2>2 DEF SegmentingInv, InOrder
    <3>2. CASE s.ordinal + 1 < t.ordinal
      <4>1. s.ordinal + 1 \in 0 .. ordinal - 1
        BY <2>1, <3>2 DEF SegmentingInv, SegmentingTypeOK, Windows
      <4>2. PICK u \in segments : u.ordinal = s.ordinal + 1
        BY <4>1 DEF SegmentingInv, SegmentingTypeOK, Windows
      <4>3. u.first = s.first + s.count /\ u.first + u.count <= t.first
        BY <2>1, <3>2, <4>2 DEF SegmentingInv, InOrder
      <4>. QED BY <2>1, <2>2, <4>3
    <3>. QED BY <2>1, <3>1, <3>2
  <2>. QED BY <2>2 DEF SegmentingInv, InOrder
<1>. QED BY <1>1, SegmentingInvariance, PTL

=============================================================================
