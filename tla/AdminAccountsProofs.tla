------------------------ MODULE AdminAccountsProofs -------------------------
(***************************************************************************)
(* Proofs about AdminAccounts for any finite set of accounts and any       *)
(* number of concurrent requests.                                          *)
(***************************************************************************)
EXTENDS AdminAccounts, FiniteSetTheorems, TLAPS

(***************************************************************************)
(* The inductive invariant.                                                *)
(***************************************************************************)
Counted(r) == request[r].pc \in {"counted", "selected", "written"}

\* A change of a row is under way only for a row that exists, an insert that
\* was flushed only for one that does not.
TargetsExist ==
  \A r \in Requests :
    /\ request[r].pc # "idle" => request[r].target \in Admins
    /\ request[r].op # "create" /\ InWindow(r) => request[r].target \in known
    /\ request[r].op = "create" /\ request[r].pc \in {"selected", "written"}
         => request[r].writes
    /\ request[r].op = "create" /\ request[r].pc = "written"
         => request[r].target \notin known

\* Row locks exclude each other.
RowsLocked ==
  \A r, s \in Requests :
    /\ request[r].pc = "written" /\ request[r].writes
    /\ request[s].pc = "written" /\ request[s].writes
    /\ request[r].target = request[s].target
    => r = s

\* Until another request commits a change, what a removal has read is so.
UncrossedIsCurrent ==
  \A r \in Requests : InWindow(r) /\ Removal(request[r]) /\ ~ request[r].crossed
    => /\ request[r].held <=> request[r].target \in ActiveAdmins
       /\ Counted(r) /\ request[r].held => Cardinality(ActiveAdmins) > 1

IInv ==
  /\ TypeOK
  /\ TargetsExist
  /\ RowsLocked
  /\ UncrossedIsCurrent
  /\ LostOnlyByRace

(***************************************************************************)
(* Facts about sets of accounts.                                           *)
(***************************************************************************)
\* A set with more than one element is not emptied by removing one.
LEMMA OneRemains ==
  ASSUME NEW S, NEW a, IsFiniteSet(S), Cardinality(S) > 1
  PROVE  S \ {a} # {}
<1>1. SUFFICES ASSUME S \ {a} = {} PROVE FALSE
  OBVIOUS
<1>2. S \subseteq {a}
  BY <1>1
<1>3. IsFiniteSet({a}) /\ Cardinality({a}) = 1
  BY FS_Singleton
<1>4. Cardinality(S) <= 1
  BY <1>2, <1>3, FS_Subset
<1>5. Cardinality(S) \in Nat
  BY FS_CardinalityType
<1> QED
  BY <1>4, <1>5

\* The active administrators of a typed state are a finite set.
LEMMA ActiveAdminsFinite ==
  ASSUME TypeOK
  PROVE  IsFiniteSet(ActiveAdmins)
<1>1. ActiveAdmins \subseteq Admins
  BY DEF TypeOK, ActiveAdmins
<1> QED
  BY <1>1, AccountConstants, FS_Subset

(***************************************************************************)
(* Steps that write no table.                                              *)
(***************************************************************************)
\* The state of one request changes and the tables do not: what has to be
\* shown about that request alone.
LEMMA LocalStep ==
  ASSUME IInv, NEW r \in Requests, UNCHANGED <<tables, raced>>,
         NEW q \in RequestState, request' = [request EXCEPT ![r] = q],
         q.pc # "idle" => q.target \in Admins,
         q.op # "create" /\ q.pc \notin {"idle", "authorized"}
           => q.target \in known,
         q.op = "create" /\ q.pc \in {"selected", "written"} => q.writes,
         q.op = "create" /\ q.pc = "written" => q.target \notin known,
         q.pc = "written" /\ q.writes => q.target = request[r].target /\ RowFree(r),
         q.pc \notin {"idle", "authorized"} /\ Removal(q) /\ ~ q.crossed =>
           (q.held <=> q.target \in ActiveAdmins),
         q.pc \in {"counted", "selected", "written"} /\ Removal(q)
           /\ ~ q.crossed /\ q.held => Cardinality(ActiveAdmins) > 1
  PROVE  IInv'
<1>1. known' = known /\ active' = active /\ admins' = admins /\ raced' = raced
  BY DEF tables
<1>2. ActiveAdmins' = ActiveAdmins
  BY <1>1 DEF ActiveAdmins
<1>3. /\ request'[r] = q
      /\ \A s \in Requests : s # r => request'[s] = request[s]
  BY DEF IInv, TypeOK
<1>4. TypeOK'
  BY <1>1 DEF IInv, TypeOK
<1>5. TargetsExist'
  BY <1>1, <1>3 DEF IInv, TargetsExist, InWindow
<1>6. RowsLocked'
  BY <1>3 DEF IInv, RowsLocked, RowFree
<1>7. UncrossedIsCurrent'
  BY <1>2, <1>3 DEF IInv, UncrossedIsCurrent, InWindow, Counted, Removal
<1>8. LostOnlyByRace'
  BY <1>1, <1>2 DEF IInv, LostOnlyByRace
<1> QED
  BY <1>4, <1>5, <1>6, <1>7, <1>8 DEF IInv

LEMMA DropStep ==
  ASSUME IInv, NEW r \in Requests, Drop(r), UNCHANGED <<tables, raced>>
  PROVE  IInv'
<1>1. IdleRequest \in RequestState /\ IdleRequest.pc = "idle"
  BY DEF IdleRequest, RequestState, Phases, Ops
<1> QED
  BY <1>1, LocalStep DEF Drop

LEMMA AuthorizeStep ==
  ASSUME IInv, NEW r \in Requests, Authorize(r)
  PROVE  IInv'
<1>1. PICK a \in ActiveAdmins, t \in Admins, op \in Ops, want \in BOOLEAN :
        request' = [request EXCEPT ![r] =
          [IdleRequest EXCEPT !.pc = "authorized", !.actor = a, !.op = op,
                              !.target = t, !.want = want]]
  BY DEF Authorize
<1>2. PICK q : q = [IdleRequest EXCEPT !.pc = "authorized", !.actor = a,
                      !.op = op, !.target = t, !.want = want]
  OBVIOUS
<1>3. a \in Admins
  BY DEF ActiveAdmins, IInv, TypeOK
<1>4. q \in RequestState /\ q.pc = "authorized"
  BY <1>2, <1>3 DEF IdleRequest, RequestState, Phases
<1>5. UNCHANGED <<tables, raced>>
  BY DEF Authorize
<1>6. request' = [request EXCEPT ![r] = q] /\ q.target \in Admins
  BY <1>1, <1>2 DEF IdleRequest
<1> QED
  BY <1>4, <1>5, <1>6, LocalStep

LEMMA ReadTargetStep ==
  ASSUME IInv, NEW r \in Requests, ReadTarget(r)
  PROVE  IInv'
<1>1. UNCHANGED <<tables, raced>> /\ request[r].pc = "authorized"
  BY DEF ReadTarget
<1>2. CASE Refused(request[r])
  BY <1>1, <1>2, DropStep DEF ReadTarget
<1>3. CASE ~ Refused(request[r])
  <2>1. PICK h \in BOOLEAN : h <=> request[r].target \in ActiveAdmins
    <3>1. CASE request[r].target \in ActiveAdmins
      BY <3>1
    <3>2. CASE request[r].target \notin ActiveAdmins
      BY <3>2
    <3> QED
      BY <3>1, <3>2
  <2>2. PICK q : q = [request[r] EXCEPT !.pc = "read", !.held = h]
    OBVIOUS
  <2>3. request' = [request EXCEPT ![r] = q]
    BY <1>3, <2>1, <2>2 DEF ReadTarget, IInv, TypeOK
  <2>4. request[r] \in RequestState
    BY DEF IInv, TypeOK
  <2>5. /\ q \in RequestState /\ q.pc = "read" /\ q.held = h
        /\ q.op = request[r].op /\ q.target = request[r].target
    BY <2>2, <2>4 DEF RequestState, Phases
  <2>6. q.target \in Admins /\ (q.op # "create" => q.target \in known)
    BY <1>1, <1>3, <2>5 DEF Refused, IInv, TargetsExist
  <2> QED
    BY <1>1, <2>1, <2>3, <2>5, <2>6, LocalStep
<1> QED
  BY <1>2, <1>3

LEMMA CountActiveAdminsStep ==
  ASSUME IInv, NEW r \in Requests, CountActiveAdmins(r)
  PROVE  IInv'
<1>1. UNCHANGED <<tables, raced>> /\ request[r].pc = "read"
  BY DEF CountActiveAdmins
<1>2. CASE /\ Removal(request[r]) /\ request[r].held
           /\ Cardinality(ActiveAdmins) <= 1
  BY <1>1, <1>2, DropStep DEF CountActiveAdmins
<1>3. CASE ~ (/\ Removal(request[r]) /\ request[r].held
              /\ Cardinality(ActiveAdmins) <= 1)
  <2>1. PICK q : q = [request[r] EXCEPT !.pc = "counted"]
    OBVIOUS
  <2>2. request[r] \in RequestState
    BY DEF IInv, TypeOK
  <2>3. request' = [request EXCEPT ![r] = q]
    BY <1>3, <2>1 DEF CountActiveAdmins, IInv, TypeOK
  <2>4. /\ q \in RequestState /\ q.pc = "counted" /\ q.held = request[r].held
        /\ q.op = request[r].op /\ q.target = request[r].target
        /\ q.want = request[r].want /\ q.crossed = request[r].crossed
    BY <2>1, <2>2 DEF RequestState, Phases
  <2>5. Cardinality(ActiveAdmins) \in Nat
    BY ActiveAdminsFinite, FS_CardinalityType DEF IInv
  <2>6. Removal(q) /\ q.held => Cardinality(ActiveAdmins) > 1
    BY <1>3, <2>4, <2>5 DEF Removal
  <2>7. InWindow(r)
    BY <1>1 DEF InWindow
  <2>8. q.target \in Admins /\ (q.op # "create" => q.target \in known)
    BY <1>1, <2>4, <2>7 DEF IInv, TargetsExist
  <2>9. Removal(q) /\ ~ q.crossed => (q.held <=> q.target \in ActiveAdmins)
    BY <2>4, <2>7 DEF IInv, UncrossedIsCurrent, Removal
  <2> QED
    BY <1>1, <2>3, <2>4, <2>6, <2>8, <2>9, LocalStep
<1> QED
  BY <1>2, <1>3

\* A later phase of the same request inherits what was known of it.
LEMMA Onward ==
  ASSUME IInv, NEW r \in Requests, UNCHANGED <<tables, raced>>, Counted(r),
         NEW q \in RequestState, request' = [request EXCEPT ![r] = q],
         q.pc \in {"selected", "written"},
         q.op = request[r].op, q.target = request[r].target,
         q.want = request[r].want, q.held = request[r].held,
         q.crossed = request[r].crossed,
         q.op = "create" => q.writes,
         q.op = "create" /\ q.pc = "written" => q.target \notin known,
         q.pc = "written" /\ q.writes => RowFree(r)
  PROVE  IInv'
<1>1. InWindow(r)
  BY DEF Counted, InWindow
<1>2. q.target \in Admins /\ (q.op # "create" => q.target \in known)
  BY <1>1 DEF IInv, TargetsExist, InWindow
<1>3. Removal(q) /\ ~ q.crossed =>
        /\ q.held <=> q.target \in ActiveAdmins
        /\ q.held => Cardinality(ActiveAdmins) > 1
  BY <1>1 DEF IInv, UncrossedIsCurrent, Removal
<1> QED
  BY <1>2, <1>3, LocalStep

LEMMA SelectTargetStep ==
  ASSUME IInv, NEW r \in Requests, SelectTarget(r)
  PROVE  IInv'
<1>1. UNCHANGED <<tables, raced>> /\ Counted(r)
  BY DEF SelectTarget, Counted
<1>2. PICK w \in BOOLEAN :
        /\ request[r].op = "create" => w
        /\ request' = [request EXCEPT ![r].pc = "selected", ![r].writes = w]
  BY DEF SelectTarget
<1>3. PICK q : q = [request[r] EXCEPT !.pc = "selected", !.writes = w]
  OBVIOUS
<1>4. request[r] \in RequestState
  BY DEF IInv, TypeOK
<1>5. request' = [request EXCEPT ![r] = q]
  BY <1>2, <1>3 DEF IInv, TypeOK
<1>6. /\ q \in RequestState /\ q.pc = "selected" /\ q.writes = w
      /\ q.op = request[r].op /\ q.target = request[r].target
      /\ q.want = request[r].want /\ q.held = request[r].held
      /\ q.crossed = request[r].crossed
  BY <1>3, <1>4 DEF RequestState, Phases
<1> QED
  BY <1>1, <1>2, <1>5, <1>6, Onward

LEMMA FlushChangeStep ==
  ASSUME IInv, NEW r \in Requests, FlushChange(r)
  PROVE  IInv'
<1>1. UNCHANGED <<tables, raced>> /\ Counted(r)
  BY DEF FlushChange, Counted
<1>2. CASE request[r].op = "create" /\ request[r].target \in known
  BY <1>1, <1>2, DropStep DEF FlushChange
<1>3. CASE ~ (request[r].op = "create" /\ request[r].target \in known)
  <2>1. PICK q : q = [request[r] EXCEPT !.pc = "written"]
    OBVIOUS
  <2>2. request[r] \in RequestState
    BY DEF IInv, TypeOK
  <2>3. request' = [request EXCEPT ![r] = q]
    BY <1>3, <2>1 DEF FlushChange, IInv, TypeOK
  <2>4. /\ q \in RequestState /\ q.pc = "written"
        /\ q.writes = request[r].writes
        /\ q.op = request[r].op /\ q.target = request[r].target
        /\ q.want = request[r].want /\ q.held = request[r].held
        /\ q.crossed = request[r].crossed
    BY <2>1, <2>2 DEF RequestState, Phases
  <2>5. q.op = "create" => q.writes
    BY <2>4 DEF FlushChange, IInv, TargetsExist
  <2>6. q.writes => RowFree(r)
    BY <2>4 DEF FlushChange
  <2> QED
    BY <1>1, <1>3, <2>3, <2>4, <2>5, <2>6, Onward
<1> QED
  BY <1>2, <1>3
(***************************************************************************)
(* Steps that write a table.                                               *)
(***************************************************************************)
\* What a commit does to the set of active administrators.
LEMMA CommitEffect ==
  ASSUME IInv, NEW r \in Requests, Commit(r)
  PROVE  LET q == request[r] IN
         /\ q.writes /\ Removal(q) => ActiveAdmins \ {q.target} \subseteq ActiveAdmins'
         /\ ~ (q.writes /\ Removal(q)) => ActiveAdmins \subseteq ActiveAdmins'
         /\ ~ q.writes => UNCHANGED tables
<1>1. request[r] \in RequestState /\ request[r].pc = "written"
  BY DEF IInv, TypeOK, Commit
<1>2. /\ request[r].op = "create" => request[r].target \notin known
      /\ request[r].op = "create" => request[r].writes
  BY <1>1 DEF IInv, TargetsExist
<1>3. active \subseteq known
  BY DEF IInv, TypeOK
<1> QED
  BY <1>1, <1>2, <1>3
  DEF Commit, With, ActiveAdmins, Removal, RequestState, Ops, tables

\* A commit keeps rows, flags and requests typed.
LEMMA CommitTyped ==
  ASSUME IInv, NEW r \in Requests, Commit(r)
  PROVE  TypeOK'
<1>1. request[r] \in RequestState /\ request[r].pc = "written"
  BY DEF IInv, TypeOK, Commit
<1>2. /\ request[r].op # "create" => request[r].target \in known
      /\ request[r].op = "create" => request[r].writes
  BY <1>1 DEF IInv, TargetsExist, InWindow
<1>3. TypeOK
  BY DEF IInv
<1>4. request[r].target \in Admins
  BY <1>1 DEF IInv, TargetsExist
<1>5. known' \subseteq Admins
  BY <1>3, <1>4 DEF Commit, TypeOK
<1>6. active' \subseteq known'
  BY <1>2, <1>3 DEF Commit, With, TypeOK
<1>7. admins' \subseteq known'
  BY <1>2, <1>3 DEF Commit, With, TypeOK
<1>8. IdleRequest \in RequestState
  BY DEF IdleRequest, RequestState, Phases, Ops
<1>9. \A s \in Requests :
        [request[s] EXCEPT !.crossed = @ \/ (request[r].writes /\ InWindow(s))]
          \in RequestState
  BY <1>3 DEF TypeOK, RequestState
<1>10. request' \in [Requests -> RequestState]
  BY <1>8, <1>9 DEF Commit
<1>11. raced' \in BOOLEAN
  BY <1>3 DEF Commit, TypeOK
<1> QED
  BY <1>5, <1>6, <1>7, <1>10, <1>11 DEF TypeOK

LEMMA CommitStep ==
  ASSUME IInv, NEW r \in Requests, Commit(r)
  PROVE  IInv'
<1> DEFINE q == request[r]
<1>1. /\ request[r] \in RequestState /\ request[r].pc = "written"
      /\ InWindow(r) /\ Counted(r)
  BY DEF IInv, TypeOK, Commit, InWindow, Counted
<1>2. /\ request'[r] = IdleRequest /\ IdleRequest.pc = "idle"
      /\ \A s \in Requests : s # r => request'[s] =
           [request[s] EXCEPT !.crossed = @ \/ (request[r].writes /\ InWindow(s))]
  BY DEF Commit, IdleRequest
<1>3. ASSUME NEW s \in Requests, s # r
      PROVE  /\ request'[s].pc = request[s].pc /\ request'[s].op = request[s].op
             /\ request'[s].target = request[s].target
             /\ request'[s].want = request[s].want
             /\ request'[s].held = request[s].held
             /\ request'[s].writes = request[s].writes
             /\ request'[s].crossed =
                  (request[s].crossed \/ (request[r].writes /\ InWindow(s)))
  <2>1. PICK x \in RequestState : x = request[s]
    BY DEF IInv, TypeOK
  <2>2. request'[s] = [x EXCEPT !.crossed = @ \/ (request[r].writes /\ InWindow(s))]
    BY <1>2, <1>3, <2>1
  <2> QED
    BY <2>1, <2>2 DEF RequestState
<1>4. TypeOK'
  BY CommitTyped
<1>5. TargetsExist'
  <2>1. known \subseteq known'
    BY DEF Commit
  <2>2. ASSUME NEW s \in Requests, s # r, request[s].op = "create",
               request[s].pc = "written"
        PROVE  request[s].target \notin known'
    <3>1. request[s].writes /\ request[s].target \notin known
      BY <2>2 DEF IInv, TargetsExist
    <3>2. request[r].op = "create" => request[r].target # request[s].target
      BY <1>1, <2>2, <3>1 DEF IInv, TargetsExist, RowsLocked
    <3> QED
      BY <3>1, <3>2 DEF Commit
  <2> QED
    BY <1>2, <1>3, <2>1, <2>2 DEF IInv, TargetsExist, InWindow
<1>6. RowsLocked'
  BY <1>2, <1>3 DEF IInv, RowsLocked
<1>7. UncrossedIsCurrent'
  <2>1. ASSUME NEW s \in Requests, InWindow(s)', Removal(request[s])',
               ~ request'[s].crossed
        PROVE  /\ request[s].held <=> request[s].target \in ActiveAdmins
               /\ Counted(s) /\ request[s].held => Cardinality(ActiveAdmins) > 1
               /\ s # r
               /\ ActiveAdmins' = ActiveAdmins
    <3>1. s # r
      BY <1>2, <2>1 DEF InWindow
    <3>2. InWindow(s) /\ Removal(request[s]) /\ ~ request[s].crossed
      BY <1>3, <2>1, <3>1 DEF InWindow, Removal
    <3>3. ~ request[r].writes
      BY <1>3, <2>1, <3>1, <3>2
    <3>4. ActiveAdmins' = ActiveAdmins
      BY <3>3, CommitEffect DEF tables, ActiveAdmins
    <3> QED
      BY <3>1, <3>2, <3>4 DEF IInv, UncrossedIsCurrent
  <2> QED
    BY <1>3, <2>1 DEF UncrossedIsCurrent, Counted
<1>8. LostOnlyByRace'
  <2>1. CASE ~ (request[r].writes /\ Removal(request[r]))
    BY <2>1, CommitEffect DEF IInv, LostOnlyByRace, Commit
  <2>2. CASE request[r].writes /\ Removal(request[r]) /\ request[r].crossed
    BY <2>2 DEF LostOnlyByRace, Commit
  <2>3. CASE /\ request[r].writes /\ Removal(request[r])
             /\ ~ request[r].crossed
    <3>1. /\ request[r].held <=> request[r].target \in ActiveAdmins
          /\ request[r].held => Cardinality(ActiveAdmins) > 1
      BY <1>1, <2>3 DEF IInv, UncrossedIsCurrent
    <3>2. ActiveAdmins \ {request[r].target} \subseteq ActiveAdmins'
      BY <2>3, CommitEffect
    <3>3. CASE request[r].held
      <4>1. ActiveAdmins \ {request[r].target} # {}
        BY <3>1, <3>3, ActiveAdminsFinite, OneRemains DEF IInv
      <4> QED
        BY <3>2, <4>1 DEF LostOnlyByRace
    <3>4. CASE ~ request[r].held
      BY <3>1, <3>2, <3>4 DEF IInv, LostOnlyByRace, Commit
    <3> QED
      BY <3>3, <3>4
  <2> QED
    BY <2>1, <2>2, <2>3
<1> QED
  BY <1>4, <1>5, <1>6, <1>7, <1>8 DEF IInv

LEMMA BootstrapAdminStep ==
  ASSUME IInv, BootstrapAdmin
  PROVE  IInv'
<1>1. PICK a \in Admins \ known :
        /\ \A r \in Requests :
             ~ (request[r].target = a /\ request[r].pc = "written")
        /\ known'  = known \cup {a}
        /\ active' = active \cup {a}
        /\ admins' = admins \cup {a}
  BY DEF BootstrapAdmin
<1>2. request' = request /\ raced' = raced
  BY DEF BootstrapAdmin
<1>3. ActiveAdmins' = ActiveAdmins \cup {a}
  BY <1>1 DEF ActiveAdmins, IInv, TypeOK
<1>4. TypeOK'
  BY <1>1, <1>2 DEF IInv, TypeOK
<1>5. TargetsExist'
  BY <1>1, <1>2 DEF IInv, TargetsExist, InWindow
<1>6. RowsLocked'
  BY <1>2 DEF IInv, RowsLocked
<1>7. UncrossedIsCurrent'
  <2>1. /\ Cardinality(ActiveAdmins) \in Nat
        /\ Cardinality(ActiveAdmins') \in Nat
        /\ Cardinality(ActiveAdmins) <= Cardinality(ActiveAdmins')
    <3>1. IsFiniteSet(ActiveAdmins')
      BY <1>3, ActiveAdminsFinite, FS_AddElement DEF IInv
    <3> QED
      BY <1>3, <3>1, ActiveAdminsFinite, FS_Subset, FS_CardinalityType DEF IInv
  <2>2. \A r \in Requests : InWindow(r) /\ Removal(request[r]) =>
          request[r].target # a
    BY <1>1 DEF IInv, TargetsExist, Removal
  <2>3. \A r \in Requests :
          InWindow(r) /\ Removal(request[r]) /\ ~ request[r].crossed =>
            /\ request[r].held <=> request[r].target \in ActiveAdmins'
            /\ Counted(r) /\ request[r].held => Cardinality(ActiveAdmins') > 1
    BY <1>3, <2>1, <2>2 DEF IInv, UncrossedIsCurrent
  <2> QED
    BY <1>2, <2>3 DEF UncrossedIsCurrent, InWindow, Counted
<1>8. LostOnlyByRace'
  BY <1>3 DEF LostOnlyByRace
<1> QED
  BY <1>4, <1>5, <1>6, <1>7, <1>8 DEF IInv

-----------------------------------------------------------------------------
(***************************************************************************)
(* The theorems.                                                           *)
(***************************************************************************)
LEMMA Initially ==
  ASSUME Init
  PROVE  IInv
<1>1. IdleRequest \in RequestState /\ IdleRequest.pc = "idle"
  BY DEF IdleRequest, RequestState, Phases, Ops
<1>2. \A r \in Requests : request[r] = IdleRequest
  BY DEF Init
<1>3. TypeOK
  BY <1>1 DEF Init, TypeOK
<1> QED
  BY <1>1, <1>2, <1>3 DEF Init, IInv, TargetsExist, RowsLocked,
     UncrossedIsCurrent, LostOnlyByRace, InWindow

LEMMA Inductive ==
  ASSUME IInv, [Next]_vars
  PROVE  IInv'
<1>1. CASE UNCHANGED vars
  BY <1>1 DEF vars, tables, IInv, TypeOK, TargetsExist, RowsLocked,
     UncrossedIsCurrent, LostOnlyByRace, InWindow, Counted, ActiveAdmins
<1>2. CASE BootstrapAdmin
  BY <1>2, BootstrapAdminStep
<1>3. ASSUME NEW r \in Requests, RequestStep(r)
      PROVE  IInv'
  <2>1. CASE Rollback(r)
    BY <2>1, DropStep DEF Rollback
  <2> QED
    BY <1>3, <2>1, AuthorizeStep, ReadTargetStep, CountActiveAdminsStep,
       SelectTargetStep, FlushChangeStep, CommitStep DEF RequestStep
<1> QED
  BY <1>1, <1>2, <1>3 DEF Next

\* The inductive invariant holds in every reachable state.
THEOREM Invariance == Spec => []IInv
<1>1. Init => IInv
  BY Initially
<1>2. IInv /\ [Next]_vars => IInv'
  BY Inductive
<1> QED
  BY <1>1, <1>2, PTL DEF Spec

\* Flags belong to rows that exist, whatever requests create and change at the
\* same time (create_admin_user, update_active, update_roles).
THEOREM TypeCorrect == Spec => []TypeOK
<1>1. IInv => TypeOK
  BY DEF IInv
<1> QED
  BY <1>1, Invariance, PTL

\* The count of active administrators keeps one of them through any number of
\* interleaved requests, unless a removal commits across the commit of another
\* request (update_admin_user_status, update_admin_user_roles).
THEOREM OneAdminStays == Spec => []LostOnlyByRace
<1>1. IInv => LostOnlyByRace
  BY DEF IInv
<1> QED
  BY <1>1, Invariance, PTL

=============================================================================
