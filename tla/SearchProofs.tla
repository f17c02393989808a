------------------------- MODULE SearchProofs -------------------------------
(***************************************************************************)
(* Proofs about searching: about SearchIndex, for any number of processes, *)
(* rebuilds, edits and faults, with its refinement of IndexPromise, and    *)
(* about AgentQuery, for any corpus, any budgets and any number of         *)
(* parallel calls of the model.                                            *)
(*                                                                         *)
(* Sums and folds of the community modules are recursive functions, which  *)
(* are given by CHOOSE: a solution of the recursion is shown to exist by   *)
(* induction on the size of the set (FoldExists), and what holds of every  *)
(* part of a sequence follows from the part that lacks its last place      *)
(* (FoldStays).                                                            *)
(***************************************************************************)
EXTENDS IndexRefinement, AgentQuery, FiniteSetTheorems, SequenceTheorems, WellFoundedInduction, TLAPS

(***************************************************************************)
(* The inductive invariant.                                                *)
(***************************************************************************)

\* A rebuild that is marked as alone is the only one.
LoneIsOnly ==
  \A p, q \in Processes : p # q /\ Busy(p) /\ Busy(q) => ~proc[p].alone

\* What a rebuild that is alone finds in the temporary directory is its own.
LoneOwnsTmp ==
  \A p \in Processes : Busy(p) /\ proc[p].alone =>
    /\ At(p, "made") => tmp.index = {}
    /\ At(p, "writing") => proc[p].base = {}
    /\ proc[p].pc \in {"written", "removing", "removed"} =>
         tmp.open /\ tmp.index = {proc[p].build}

\* Segments are read no earlier than by any rebuild that was reported before.
ReadsGrow ==
  /\ \A p \in Processes : proc[p].read <= corpus
  /\ \A d \in reported : d.read <= corpus
  /\ \A p \in Processes : Busy(p) /\ proc[p].alone =>
       \A d \in reported : d.read <= proc[p].read

\* An index put in place by a lone rebuild is that of the rebuild to report.
SwappedIsServed ==
  \A p \in Processes : At(p, "swapped") /\ served.alone =>
    served.read = proc[p].read

\* UnusableHasCause, already from the swap on.
UnusableAfterSwap ==
  ((reported # {} \/ \E p \in Processes : At(p, "swapped")) /\ ~final.open) =>
    (cut \/ (\E p \in Processes : InSwap(p)) \/ (final.there /\ ~served.alone))

IInv ==
  /\ TypeOK
  /\ LoneIsOnly
  /\ LoneOwnsTmp
  /\ ServedIsOneBuild
  /\ ReadsGrow
  /\ SwappedIsServed
  /\ ServedIsNewest
  /\ UnusableAfterSwap

\* The initial state satisfies the invariant.
LEMMA InitIInv == Init => IInv
<1> SUFFICES ASSUME Init PROVE IInv
  OBVIOUS
<1>1. /\ Idle \in ProcState
      /\ Absent \in Dir
  <2>1. Idle \in ProcState
    BY Zenon DEF Idle, ProcState, Steps
  <2>2. Absent \in Dir
    BY Zenon DEF Absent, Dir
  <2> QED
    BY <2>1, <2>2
<1>2. TypeOK
  <2>1. served \in [build : Nat, read : Nat, alone : BOOLEAN]
    <3>1. 0 \in Nat
      OBVIOUS
    <3> QED
      BY <3>1, Zenon DEF Init
  <2>2. proc \in [Processes -> ProcState] /\ tmp \in Dir /\ final \in Dir
    BY <1>1, Zenon DEF Init
  <2>3. tmp.holder = NoProcess /\ final.holder = NoProcess
    BY DEF Init, Absent
  <2>4. /\ corpus \in Nat /\ builds \in Nat /\ faults \in Nat
        /\ cut \in BOOLEAN
        /\ reported \subseteq [build : Nat, read : Nat]
    BY DEF Init
  <2> QED
    BY <2>1, <2>2, <2>3, <2>4 DEF TypeOK
<1>3. \A p \in Processes : proc[p].pc = "idle" /\ proc[p].read = 0
  BY DEF Init, Idle
<1>4. LoneIsOnly /\ LoneOwnsTmp /\ SwappedIsServed
  BY <1>3 DEF LoneIsOnly, LoneOwnsTmp, SwappedIsServed, Busy, At
<1>5. ServedIsOneBuild /\ ReadsGrow /\ ServedIsNewest
  BY <1>3 DEF Init, ServedIsOneBuild, ReadsGrow, ServedIsNewest, Busy
<1>6. UnusableAfterSwap
  BY <1>3 DEF Init, UnusableAfterSwap, At
<1> QED
  BY <1>2, <1>4, <1>5, <1>6 DEF IInv

\* A rebuild that has just been claimed is in a state of its type.
LEMMA ClaimedState ==
  ASSUME NEW b \in Nat, NEW r \in Nat, NEW l \in BOOLEAN
  PROVE  [Idle EXCEPT !.pc = "claimed", !.build = b, !.read = r, !.alone = l]
           \in ProcState
<1>1. CASE l
  BY <1>1 DEF Idle, ProcState, Steps
<1>2. CASE ~l
  BY <1>2 DEF Idle, ProcState, Steps
<1> QED
  BY <1>1, <1>2

\* A directory that is empty or absent has its type and no writer.
LEMMA EmptyDirs ==
  /\ Absent \in Dir /\ Absent.holder = NoProcess
  /\ Bare \in Dir /\ Bare.holder = NoProcess
BY DEF Absent, Bare, Dir

\* Every step keeps the types.
LEMMA TypeStep ==
  ASSUME IInv, [Next]_vars
  PROVE  TypeOK'
<1>1. TypeOK
  BY DEF IInv
<1>2. CASE Edit
  BY IndexConstants, <1>1, <1>2
     DEF TypeOK, ProcState, Steps, Dir, Busy, At, Idle, Absent, Edit
<1>3. ASSUME NEW p \in Processes, Claim(p) PROVE TypeOK'
  <2> DEFINE lone == \A o \in Processes \ {p} : ~Busy(o)
  <2>1. lone \in BOOLEAN /\ \A q \in Processes : (~Busy(q)) \in BOOLEAN
    BY Zenon
  <2> HIDE DEF lone
  <2>2. [Idle EXCEPT !.pc = "claimed", !.build = builds + 1, !.read = corpus,
                     !.alone = lone] \in ProcState
    <3>1. builds + 1 \in Nat /\ corpus \in Nat /\ {} \in SUBSET Nat
      BY <1>1 DEF TypeOK
    <3> QED
      BY <2>1, <3>1, ClaimedState
  <2>3. \A q \in Processes : [proc[q] EXCEPT !.alone = ~Busy(q)] \in ProcState
    BY <1>1, <2>1 DEF TypeOK, ProcState
  <2>4. proc' = [q \in Processes |->
          IF q = p THEN [Idle EXCEPT !.pc = "claimed", !.build = builds + 1,
                                     !.read = corpus, !.alone = lone]
          ELSE [proc[q] EXCEPT !.alone = ~Busy(q)]]
    BY <1>3 DEF Claim, lone
  <2>5. proc' \in [Processes -> ProcState]
    BY <2>2, <2>3, <2>4
  <2>6. \A q \in Processes : Busy(q) => proc'[q].pc # "idle"
    BY <1>1, <2>4 DEF TypeOK, ProcState, Busy, Idle
  <2>7. builds' \in Nat
    <3>1. builds \in Nat /\ builds' = builds + 1
      BY <1>1, <1>3, Zenon DEF Claim, TypeOK
    <3> QED
      BY <3>1
  <2>8. UNCHANGED <<corpus, tmp, final, faults, served, reported, cut>>
    BY <1>3 DEF Claim
  <2>9. \A d \in {tmp, final} : d.holder # NoProcess => proc'[d.holder].pc # "idle"
    BY <1>1, <2>6 DEF TypeOK, Dir
  <2> QED
    BY <1>1, <2>5, <2>7, <2>8, <2>9 DEF TypeOK, Busy
<1>4. ASSUME NEW p \in Processes, ClearTmp(p) PROVE TypeOK'
  <2>1. proc' \in [Processes -> ProcState]
    BY <1>1, <1>4 DEF TypeOK, ProcState, Steps, ClearTmp, Advance
  <2>2. tmp' \in Dir /\ final' \in Dir
    BY EmptyDirs, <1>1, <1>4 DEF TypeOK, Dir, ClearTmp, Advance
  <2>3. \A d \in {tmp', final'} :
          d.holder # NoProcess => proc'[d.holder].pc # "idle"
    BY EmptyDirs, <1>1, <1>4 DEF TypeOK, Dir, ProcState, Busy, At, ClearTmp, Advance
  <2>4. /\ corpus' \in Nat /\ builds' \in Nat /\ faults' \in Nat
        /\ cut' \in BOOLEAN /\ reported' \subseteq [build : Nat, read : Nat]
        /\ served' \in [build : Nat, read : Nat, alone : BOOLEAN]
    BY <1>1, <1>4 DEF TypeOK, ClearTmp, Advance
  <2> QED
    BY <2>1, <2>2, <2>3, <2>4 DEF TypeOK, Busy
<1>5. ASSUME NEW p \in Processes, MakeTmp(p) PROVE TypeOK'
  <2>1. proc' \in [Processes -> ProcState]
    BY <1>1, <1>5 DEF TypeOK, ProcState, Steps, MakeTmp, Advance
  <2>2. tmp' \in Dir /\ final' \in Dir
    BY EmptyDirs, <1>1, <1>5 DEF TypeOK, Dir, MakeTmp, Advance
  <2>3. \A d \in {tmp', final'} :
          d.holder # NoProcess => proc'[d.holder].pc # "idle"
    BY EmptyDirs, <1>1, <1>5 DEF TypeOK, Dir, ProcState, Busy, At, MakeTmp, Advance
  <2>4. /\ corpus' \in Nat /\ builds' \in Nat /\ faults' \in Nat
        /\ cut' \in BOOLEAN /\ reported' \subseteq [build : Nat, read : Nat]
        /\ served' \in [build : Nat, read : Nat, alone : BOOLEAN]
    BY <1>1, <1>5 DEF TypeOK, MakeTmp, Advance
  <2> QED
    BY <2>1, <2>2, <2>3, <2>4 DEF TypeOK, Busy
<1>6. ASSUME NEW p \in Processes, OpenWriter(p) PROVE TypeOK'
  <2>1. proc' \in [Processes -> ProcState]
    <3>1. tmp.index \in SUBSET Nat /\ "writing" \in Steps
      BY <1>1 DEF TypeOK, Dir, Steps
    <3>2. proc[p] \in ProcState /\ proc \in [Processes -> ProcState]
      BY <1>1 DEF TypeOK
    <3>3. [proc[p] EXCEPT !.pc = "writing", !.base = tmp.index] \in ProcState
      BY <3>1, <3>2 DEF ProcState
    <3>4. proc' = [proc EXCEPT ![p] = [proc[p] EXCEPT !.pc = "writing", !.base = tmp.index]]
      BY <1>6, <3>2 DEF OpenWriter
    <3> QED
      BY <3>2, <3>3, <3>4
  <2>2. tmp' \in Dir /\ final' \in Dir
    <3>1. tmp \in Dir /\ final \in Dir
      BY <1>1 DEF TypeOK
    <3>2. final' = final /\ tmp' = [tmp EXCEPT !.open = TRUE, !.holder = p]
      BY <1>6 DEF OpenWriter
    <3> QED
      BY <3>1, <3>2 DEF Dir
  <2>3. \A d \in {tmp', final'} :
          d.holder # NoProcess => proc'[d.holder].pc # "idle"
    <3>1. tmp'.holder = p /\ final' = final
      BY <1>1, <1>6 DEF TypeOK, Dir, OpenWriter
    <3>2. \A q \in Processes : Busy(q) \/ q = p => proc'[q].pc # "idle"
      BY <1>1, <1>6 DEF TypeOK, ProcState, Busy, OpenWriter
    <3> QED
      BY <1>1, <3>1, <3>2 DEF TypeOK, Dir
  <2>4. /\ corpus' \in Nat /\ builds' \in Nat /\ faults' \in Nat
        /\ cut' \in BOOLEAN /\ reported' \subseteq [build : Nat, read : Nat]
        /\ served' \in [build : Nat, read : Nat, alone : BOOLEAN]
    BY <1>1, <1>6 DEF TypeOK, ProcState, OpenWriter
  <2> QED
    BY <2>1, <2>2, <2>3, <2>4 DEF TypeOK, Busy
<1>7. ASSUME NEW p \in Processes, WriteIndex(p) PROVE TypeOK'
  <2>1. proc' \in [Processes -> ProcState]
    BY <1>1, <1>7 DEF TypeOK, ProcState, Steps, WriteIndex, Advance
  <2>2. tmp' \in Dir /\ final' \in Dir
    <3>1. proc[p].base \cup {proc[p].build} \in SUBSET Nat
      BY <1>1 DEF TypeOK, ProcState
    <3> QED
      BY <1>1, <1>7, <3>1 DEF TypeOK, Dir, WriteIndex
  <2>3. \A d \in {tmp', final'} :
          d.holder # NoProcess => proc'[d.holder].pc # "idle"
    <3>1. tmp'.holder = tmp.holder /\ final' = final
      BY <1>1, <1>7 DEF TypeOK, Dir, WriteIndex
    <3>2. \A q \in Processes : Busy(q) => proc'[q].pc # "idle"
      BY <1>1, <1>7 DEF TypeOK, ProcState, Busy, WriteIndex, Advance
    <3> QED
      BY <1>1, <3>1, <3>2 DEF TypeOK, Dir
  <2>4. /\ corpus' \in Nat /\ builds' \in Nat /\ faults' \in Nat
        /\ cut' \in BOOLEAN /\ reported' \subseteq [build : Nat, read : Nat]
        /\ served' \in [build : Nat, read : Nat, alone : BOOLEAN]
    BY <1>1, <1>7 DEF TypeOK, WriteIndex, Advance
  <2> QED
    BY <2>1, <2>2, <2>3, <2>4 DEF TypeOK, Busy
<1>8. ASSUME NEW p \in Processes, RemoveFinal(p) PROVE TypeOK'
  <2>1. proc' \in [Processes -> ProcState]
    BY <1>1, <1>8 DEF TypeOK, ProcState, Steps, RemoveFinal, Advance
  <2>2. tmp' \in Dir /\ final' \in Dir
    BY IndexConstants, <1>1, <1>8 DEF TypeOK, Dir, Bare, Absent, RemoveFinal, Advance
  <2>3. \A d \in {tmp', final'} :
          d.holder # NoProcess => proc'[d.holder].pc # "idle"
    BY <1>1, <1>8
       DEF TypeOK, Dir, ProcState, Busy, At, Bare, Absent, RemoveFinal, Advance
  <2>4. /\ corpus' \in Nat /\ builds' \in Nat /\ faults' \in Nat
        /\ cut' \in BOOLEAN /\ reported' \subseteq [build : Nat, read : Nat]
        /\ served' \in [build : Nat, read : Nat, alone : BOOLEAN]
    BY <1>1, <1>8 DEF TypeOK, ProcState, RemoveFinal, Advance
  <2> QED
    BY <2>1, <2>2, <2>3, <2>4 DEF TypeOK, Busy
<1>9. ASSUME NEW p \in Processes, FinishRemoval(p) PROVE TypeOK'
  <2>1. proc' \in [Processes -> ProcState]
    BY <1>1, <1>9 DEF TypeOK, ProcState, Steps, FinishRemoval, Advance
  <2>2. tmp' \in Dir /\ final' \in Dir
    BY EmptyDirs, <1>1, <1>9 DEF TypeOK, Dir, FinishRemoval, Advance
  <2>3. \A d \in {tmp', final'} :
          d.holder # NoProcess => proc'[d.holder].pc # "idle"
    BY EmptyDirs, <1>1, <1>9 DEF TypeOK, Dir, ProcState, Busy, At, FinishRemoval, Advance
  <2>4. /\ corpus' \in Nat /\ builds' \in Nat /\ faults' \in Nat
        /\ cut' \in BOOLEAN /\ reported' \subseteq [build : Nat, read : Nat]
        /\ served' \in [build : Nat, read : Nat, alone : BOOLEAN]
    BY <1>1, <1>9 DEF TypeOK, FinishRemoval, Advance
  <2> QED
    BY <2>1, <2>2, <2>3, <2>4 DEF TypeOK, Busy
<1>10. ASSUME NEW p \in Processes, Swap(p) PROVE TypeOK'
  <2>1. proc' \in [Processes -> ProcState]
    BY <1>1, <1>10 DEF TypeOK, ProcState, Steps, Swap, Advance
  <2>2. tmp' \in Dir /\ final' \in Dir
    BY IndexConstants, <1>1, <1>10 DEF TypeOK, Dir, Bare, Absent, Swap, Advance
  <2>3. \A d \in {tmp', final'} :
          d.holder # NoProcess => proc'[d.holder].pc # "idle"
    BY <1>1, <1>10
       DEF TypeOK, Dir, ProcState, Busy, At, Bare, Absent, Swap, Advance
  <2>4. /\ corpus' \in Nat /\ builds' \in Nat /\ faults' \in Nat
        /\ cut' \in BOOLEAN /\ reported' \subseteq [build : Nat, read : Nat]
        /\ served' \in [build : Nat, read : Nat, alone : BOOLEAN]
    BY <1>1, <1>10 DEF TypeOK, ProcState, Swap, Advance
  <2> QED
    BY <2>1, <2>2, <2>3, <2>4 DEF TypeOK, Busy
<1>11. ASSUME NEW p \in Processes, Report(p) PROVE TypeOK'
  BY IndexConstants, <1>1, <1>11
     DEF TypeOK, ProcState, Steps, Dir, Busy, At, Idle, Absent, Report,
         Leave, Released
<1>12. ASSUME NEW p \in Processes, Raise(p) PROVE TypeOK'
  BY IndexConstants, <1>1, <1>12
     DEF TypeOK, ProcState, Steps, Dir, Busy, At, Idle, Absent, Raise,
         Leave, Released, Cut
<1>13. ASSUME NEW p \in Processes, Fault(p) PROVE TypeOK'
  BY IndexConstants, <1>1, <1>13
     DEF TypeOK, ProcState, Steps, Dir, Busy, At, Idle, Absent, Fault,
         Leave, Released, Cut
<1>14. CASE UNCHANGED vars
  BY IndexConstants, <1>1, <1>14
     DEF TypeOK, ProcState, Steps, Dir, Busy, At, Idle, Absent, vars
<1> QED
  BY <1>2, <1>3, <1>4, <1>5, <1>6, <1>7, <1>8, <1>9, <1>10, <1>11,
     <1>12, <1>13, <1>14 DEF Next, RebuildStep

\* A rebuild that begins beside another leaves none alone.
LEMMA LoneStep ==
  ASSUME IInv, [Next]_vars
  PROVE  LoneIsOnly'
<1>1. TypeOK /\ LoneIsOnly
  BY DEF IInv
<1>2. CASE Edit
  BY <1>1, <1>2 DEF LoneIsOnly, TypeOK, ProcState, Steps, Busy, At, Edit
<1>3. ASSUME NEW p \in Processes, Claim(p) PROVE LoneIsOnly'
  BY <1>1, <1>3
     DEF LoneIsOnly, TypeOK, ProcState, Steps, Busy, At, Claim, Idle
<1>4. ASSUME NEW p \in Processes, ClearTmp(p) PROVE LoneIsOnly'
  BY <1>1, <1>4
     DEF LoneIsOnly, TypeOK, ProcState, Steps, Busy, At, ClearTmp, Advance,
         Absent
<1>5. ASSUME NEW p \in Processes, MakeTmp(p) PROVE LoneIsOnly'
  BY <1>1, <1>5
     DEF LoneIsOnly, TypeOK, ProcState, Steps, Busy, At, MakeTmp, Advance,
         Bare, Absent
<1>6. ASSUME NEW p \in Processes, OpenWriter(p) PROVE LoneIsOnly'
  BY <1>1, <1>6 DEF LoneIsOnly, TypeOK, ProcState, Steps, Busy, At, OpenWriter
<1>7. ASSUME NEW p \in Processes, WriteIndex(p) PROVE LoneIsOnly'
  BY <1>1, <1>7
     DEF LoneIsOnly, TypeOK, ProcState, Steps, Busy, At, WriteIndex, Advance
<1>8. ASSUME NEW p \in Processes, RemoveFinal(p) PROVE LoneIsOnly'
  BY <1>1, <1>8
     DEF LoneIsOnly, TypeOK, ProcState, Steps, Busy, At, RemoveFinal,
         Advance, Bare, Absent
<1>9. ASSUME NEW p \in Processes, FinishRemoval(p) PROVE LoneIsOnly'
  BY <1>1, <1>9
     DEF LoneIsOnly, TypeOK, ProcState, Steps, Busy, At, FinishRemoval,
         Advance, Bare, Absent
<1>10. ASSUME NEW p \in Processes, Swap(p) PROVE LoneIsOnly'
  BY <1>1, <1>10
     DEF LoneIsOnly, TypeOK, ProcState, Steps, Busy, At, Swap, Advance,
         Absent
<1>11. ASSUME NEW p \in Processes, Report(p) PROVE LoneIsOnly'
  BY <1>1, <1>11
     DEF LoneIsOnly, TypeOK, ProcState, Steps, Busy, At, Report, Leave,
         Released, Idle
<1>12. ASSUME NEW p \in Processes, Raise(p) PROVE LoneIsOnly'
  BY <1>1, <1>12
     DEF LoneIsOnly, TypeOK, ProcState, Steps, Busy, At, Raise, Leave,
         Released, Idle, Cut
<1>13. ASSUME NEW p \in Processes, Fault(p) PROVE LoneIsOnly'
  BY <1>1, <1>13
     DEF LoneIsOnly, TypeOK, ProcState, Steps, Busy, At, Fault, Leave,
         Released, Idle, Cut
<1>14. CASE UNCHANGED vars
  BY <1>1, <1>14 DEF LoneIsOnly, TypeOK, ProcState, Steps, Busy, At, vars
<1> QED
  BY <1>2, <1>3, <1>4, <1>5, <1>6, <1>7, <1>8, <1>9, <1>10, <1>11,
     <1>12, <1>13, <1>14 DEF Next, RebuildStep

\* Nobody touches the temporary directory of a lone rebuild.
LEMMA TmpStep ==
  ASSUME IInv, [Next]_vars
  PROVE  LoneOwnsTmp'
<1>1. TypeOK /\ LoneIsOnly /\ LoneOwnsTmp
  BY DEF IInv
<1>2. CASE Edit
  BY <1>1, <1>2
     DEF LoneIsOnly, LoneOwnsTmp, TypeOK, ProcState, Steps, Dir, Busy, At,
         Absent, Edit
<1>3. ASSUME NEW p \in Processes, Claim(p) PROVE LoneOwnsTmp'
  <2>1. \A q \in Processes : q # p =>
          proc'[q].pc = proc[q].pc /\ (Busy(q) => ~proc'[q].alone)
    BY <1>1, <1>3 DEF Claim, TypeOK, ProcState
  <2>2. proc'[p].pc = "claimed"
    BY <1>3 DEF Claim, Idle
  <2> QED
    BY <2>1, <2>2 DEF LoneOwnsTmp, Busy, At
<1>4. ASSUME NEW p \in Processes, ClearTmp(p) PROVE LoneOwnsTmp'
  BY <1>1, <1>4
     DEF LoneIsOnly, LoneOwnsTmp, TypeOK, ProcState, Steps, Dir, Busy, At,
         Absent, ClearTmp, Advance
<1>5. ASSUME NEW p \in Processes, MakeTmp(p) PROVE LoneOwnsTmp'
  BY <1>1, <1>5
     DEF LoneIsOnly, LoneOwnsTmp, TypeOK, ProcState, Steps, Dir, Busy, At,
         Absent, MakeTmp, Advance, Bare
<1>6. ASSUME NEW p \in Processes, OpenWriter(p) PROVE LoneOwnsTmp'
  BY <1>1, <1>6
     DEF LoneIsOnly, LoneOwnsTmp, TypeOK, ProcState, Steps, Dir, Busy, At,
         Absent, OpenWriter
<1>7. ASSUME NEW p \in Processes, WriteIndex(p) PROVE LoneOwnsTmp'
  BY <1>1, <1>7
     DEF LoneIsOnly, LoneOwnsTmp, TypeOK, ProcState, Steps, Dir, Busy, At,
         Absent, WriteIndex, Advance
<1>8. ASSUME NEW p \in Processes, RemoveFinal(p) PROVE LoneOwnsTmp'
  BY <1>1, <1>8
     DEF LoneIsOnly, LoneOwnsTmp, TypeOK, ProcState, Steps, Dir, Busy, At,
         Absent, RemoveFinal, Advance, Bare
<1>9. ASSUME NEW p \in Processes, FinishRemoval(p) PROVE LoneOwnsTmp'
  BY <1>1, <1>9
     DEF LoneIsOnly, LoneOwnsTmp, TypeOK, ProcState, Steps, Dir, Busy, At,
         Absent, FinishRemoval, Advance, Bare
<1>10. ASSUME NEW p \in Processes, Swap(p) PROVE LoneOwnsTmp'
  BY <1>1, <1>10
     DEF LoneIsOnly, LoneOwnsTmp, TypeOK, ProcState, Steps, Dir, Busy, At,
         Absent, Swap, Advance
<1>11. ASSUME NEW p \in Processes, Report(p) PROVE LoneOwnsTmp'
  BY <1>1, <1>11
     DEF LoneIsOnly, LoneOwnsTmp, TypeOK, ProcState, Steps, Dir, Busy, At,
         Absent, Report, Leave, Released, Idle
<1>12. ASSUME NEW p \in Processes, Raise(p) PROVE LoneOwnsTmp'
  BY <1>1, <1>12
     DEF LoneIsOnly, LoneOwnsTmp, TypeOK, ProcState, Steps, Dir, Busy, At,
         Absent, Raise, Leave, Released, Idle, Cut
<1>13. ASSUME NEW p \in Processes, Fault(p) PROVE LoneOwnsTmp'
  BY <1>1, <1>13
     DEF LoneIsOnly, LoneOwnsTmp, TypeOK, ProcState, Steps, Dir, Busy, At,
         Absent, Fault, Leave, Released, Idle, Cut
<1>14. CASE UNCHANGED vars
  BY <1>1, <1>14
     DEF LoneIsOnly, LoneOwnsTmp, TypeOK, ProcState, Steps, Dir, Busy, At,
         Absent, vars
<1> QED
  BY <1>2, <1>3, <1>4, <1>5, <1>6, <1>7, <1>8, <1>9, <1>10, <1>11,
     <1>12, <1>13, <1>14 DEF Next, RebuildStep

\* Only a rename fills the index directory.
LEMMA OneBuildStep ==
  ASSUME IInv, [Next]_vars
  PROVE  ServedIsOneBuild'
<1>1. TypeOK /\ LoneOwnsTmp /\ ServedIsOneBuild
  BY DEF IInv
<1>2. CASE Edit
  BY <1>1, <1>2
     DEF LoneOwnsTmp, ServedIsOneBuild, TypeOK, ProcState, Steps, Dir, Busy,
         At, Edit
<1>3. ASSUME NEW p \in Processes, Claim(p) PROVE ServedIsOneBuild'
  BY <1>1, <1>3
     DEF LoneOwnsTmp, ServedIsOneBuild, TypeOK, ProcState, Steps, Dir, Busy,
         At, Claim, Idle
<1>4. ASSUME NEW p \in Processes, ClearTmp(p) PROVE ServedIsOneBuild'
  BY <1>1, <1>4
     DEF LoneOwnsTmp, ServedIsOneBuild, TypeOK, ProcState, Steps, Dir, Busy,
         At, ClearTmp, Advance, Absent
<1>5. ASSUME NEW p \in Processes, MakeTmp(p) PROVE ServedIsOneBuild'
  BY <1>1, <1>5
     DEF LoneOwnsTmp, ServedIsOneBuild, TypeOK, ProcState, Steps, Dir, Busy,
         At, MakeTmp, Advance, Bare, Absent
<1>6. ASSUME NEW p \in Processes, OpenWriter(p) PROVE ServedIsOneBuild'
  BY <1>1, <1>6
     DEF LoneOwnsTmp, ServedIsOneBuild, TypeOK, ProcState, Steps, Dir, Busy,
         At, OpenWriter
<1>7. ASSUME NEW p \in Processes, WriteIndex(p) PROVE ServedIsOneBuild'
  BY <1>1, <1>7
     DEF LoneOwnsTmp, ServedIsOneBuild, TypeOK, ProcState, Steps, Dir, Busy,
         At, WriteIndex, Advance
<1>8. ASSUME NEW p \in Processes, RemoveFinal(p) PROVE ServedIsOneBuild'
  BY <1>1, <1>8
     DEF LoneOwnsTmp, ServedIsOneBuild, TypeOK, ProcState, Steps, Dir, Busy,
         At, RemoveFinal, Advance, Bare, Absent
<1>9. ASSUME NEW p \in Processes, FinishRemoval(p) PROVE ServedIsOneBuild'
  BY <1>1, <1>9
     DEF LoneOwnsTmp, ServedIsOneBuild, TypeOK, ProcState, Steps, Dir, Busy,
         At, FinishRemoval, Advance, Bare, Absent
<1>10. ASSUME NEW p \in Processes, Swap(p) PROVE ServedIsOneBuild'
  BY <1>1, <1>10
     DEF LoneOwnsTmp, ServedIsOneBuild, TypeOK, ProcState, Steps, Dir, Busy,
         At, Swap, Advance, Absent
<1>11. ASSUME NEW p \in Processes, Report(p) PROVE ServedIsOneBuild'
  BY <1>1, <1>11
     DEF LoneOwnsTmp, ServedIsOneBuild, TypeOK, ProcState, Steps, Dir, Busy,
         At, Report, Leave, Released, Idle
<1>12. ASSUME NEW p \in Processes, Raise(p) PROVE ServedIsOneBuild'
  BY <1>1, <1>12
     DEF LoneOwnsTmp, ServedIsOneBuild, TypeOK, ProcState, Steps, Dir, Busy,
         At, Raise, Leave, Released, Idle, Cut
<1>13. ASSUME NEW p \in Processes, Fault(p) PROVE ServedIsOneBuild'
  BY <1>1, <1>13
     DEF LoneOwnsTmp, ServedIsOneBuild, TypeOK, ProcState, Steps, Dir, Busy,
         At, Fault, Leave, Released, Idle, Cut
<1>14. CASE UNCHANGED vars
  BY <1>1, <1>14
     DEF LoneOwnsTmp, ServedIsOneBuild, TypeOK, ProcState, Steps, Dir, Busy,
         At, vars
<1> QED
  BY <1>2, <1>3, <1>4, <1>5, <1>6, <1>7, <1>8, <1>9, <1>10, <1>11,
     <1>12, <1>13, <1>14 DEF Next, RebuildStep

\* The corpus only grows, and a lone rebuild reports alone.
LEMMA ReadsStep ==
  ASSUME IInv, [Next]_vars
  PROVE  ReadsGrow'
<1>1. TypeOK /\ LoneIsOnly /\ ReadsGrow
  BY DEF IInv
<1>2. CASE Edit
  BY <1>1, <1>2
     DEF LoneIsOnly, ReadsGrow, TypeOK, ProcState, Steps, Busy, At, Edit
<1>3. ASSUME NEW p \in Processes, Claim(p) PROVE ReadsGrow'
  <2>1. \A q \in Processes : q # p =>
          /\ proc'[q].pc = proc[q].pc /\ proc'[q].read = proc[q].read
          /\ Busy(q) => ~proc'[q].alone
    BY <1>1, <1>3 DEF Claim, TypeOK, ProcState
  <2>2. proc'[p].read = corpus
    BY <1>3 DEF Claim, Idle
  <2>3. corpus' = corpus /\ reported' = reported
    BY <1>3 DEF Claim
  <2>4. \A q \in Processes : proc'[q].read <= corpus
    BY <1>1, <2>1, <2>2 DEF ReadsGrow, TypeOK
  <2>5. ASSUME NEW q \in Processes, proc'[q].pc # "idle", proc'[q].alone
        PROVE  \A d \in reported : d.read <= proc'[q].read
    <3>1. CASE q = p
      BY <1>1, <2>2, <3>1 DEF ReadsGrow
    <3>2. CASE q # p
      BY <2>1, <2>5, <3>2 DEF Busy
    <3> QED
      BY <3>1, <3>2
  <2> QED
    BY <1>1, <2>3, <2>4, <2>5 DEF ReadsGrow, Busy
<1>4. ASSUME NEW p \in Processes, ClearTmp(p) PROVE ReadsGrow'
  BY <1>1, <1>4
     DEF LoneIsOnly, ReadsGrow, TypeOK, ProcState, Steps, Busy, At,
         ClearTmp, Advance, Absent
<1>5. ASSUME NEW p \in Processes, MakeTmp(p) PROVE ReadsGrow'
  BY <1>1, <1>5
     DEF LoneIsOnly, ReadsGrow, TypeOK, ProcState, Steps, Busy, At, MakeTmp,
         Advance, Bare, Absent
<1>6. ASSUME NEW p \in Processes, OpenWriter(p) PROVE ReadsGrow'
  BY <1>1, <1>6
     DEF LoneIsOnly, ReadsGrow, TypeOK, ProcState, Steps, Busy, At,
         OpenWriter
<1>7. ASSUME NEW p \in Processes, WriteIndex(p) PROVE ReadsGrow'
  BY <1>1, <1>7
     DEF LoneIsOnly, ReadsGrow, TypeOK, ProcState, Steps, Busy, At,
         WriteIndex, Advance
<1>8. ASSUME NEW p \in Processes, RemoveFinal(p) PROVE ReadsGrow'
  BY <1>1, <1>8
     DEF LoneIsOnly, ReadsGrow, TypeOK, ProcState, Steps, Busy, At,
         RemoveFinal, Advance, Bare, Absent
<1>9. ASSUME NEW p \in Processes, FinishRemoval(p) PROVE ReadsGrow'
  BY <1>1, <1>9
     DEF LoneIsOnly, ReadsGrow, TypeOK, ProcState, Steps, Busy, At,
         FinishRemoval, Advance, Bare, Absent
<1>10. ASSUME NEW p \in Processes, Swap(p) PROVE ReadsGrow'
  BY <1>1, <1>10
     DEF LoneIsOnly, ReadsGrow, TypeOK, ProcState, Steps, Busy, At, Swap,
         Advance, Absent
<1>11. ASSUME NEW p \in Processes, Report(p) PROVE ReadsGrow'
  BY <1>1, <1>11
     DEF LoneIsOnly, ReadsGrow, TypeOK, ProcState, Steps, Busy, At, Report,
         Leave, Released, Idle
<1>12. ASSUME NEW p \in Processes, Raise(p) PROVE ReadsGrow'
  BY <1>1, <1>12
     DEF LoneIsOnly, ReadsGrow, TypeOK, ProcState, Steps, Busy, At, Raise,
         Leave, Released, Idle, Cut
<1>13. ASSUME NEW p \in Processes, Fault(p) PROVE ReadsGrow'
  BY <1>1, <1>13
     DEF LoneIsOnly, ReadsGrow, TypeOK, ProcState, Steps, Busy, At, Fault,
         Leave, Released, Idle, Cut
<1>14. CASE UNCHANGED vars
  BY <1>1, <1>14
     DEF LoneIsOnly, ReadsGrow, TypeOK, ProcState, Steps, Busy, At, vars
<1> QED
  BY <1>2, <1>3, <1>4, <1>5, <1>6, <1>7, <1>8, <1>9, <1>10, <1>11,
     <1>12, <1>13, <1>14 DEF Next, RebuildStep

\* Two rebuilds that have both swapped were not alone.
LEMMA SwappedStep ==
  ASSUME IInv, [Next]_vars
  PROVE  SwappedIsServed'
<1>1. TypeOK /\ LoneIsOnly /\ SwappedIsServed
  BY DEF IInv
<1>2. CASE Edit
  BY <1>1, <1>2
     DEF LoneIsOnly, SwappedIsServed, TypeOK, ProcState, Steps, Busy, At,
         Edit
<1>3. ASSUME NEW p \in Processes, Claim(p) PROVE SwappedIsServed'
  BY <1>1, <1>3
     DEF LoneIsOnly, SwappedIsServed, TypeOK, ProcState, Steps, Busy, At,
         Claim, Idle
<1>4. ASSUME NEW p \in Processes, ClearTmp(p) PROVE SwappedIsServed'
  BY <1>1, <1>4
     DEF LoneIsOnly, SwappedIsServed, TypeOK, ProcState, Steps, Busy, At,
         ClearTmp, Advance, Absent
<1>5. ASSUME NEW p \in Processes, MakeTmp(p) PROVE SwappedIsServed'
  BY <1>1, <1>5
     DEF LoneIsOnly, SwappedIsServed, TypeOK, ProcState, Steps, Busy, At,
         MakeTmp, Advance, Bare, Absent
<1>6. ASSUME NEW p \in Processes, OpenWriter(p) PROVE SwappedIsServed'
  BY <1>1, <1>6
     DEF LoneIsOnly, SwappedIsServed, TypeOK, ProcState, Steps, Busy, At,
         OpenWriter
<1>7. ASSUME NEW p \in Processes, WriteIndex(p) PROVE SwappedIsServed'
  BY <1>1, <1>7
     DEF LoneIsOnly, SwappedIsServed, TypeOK, ProcState, Steps, Busy, At,
         WriteIndex, Advance
<1>8. ASSUME NEW p \in Processes, RemoveFinal(p) PROVE SwappedIsServed'
  BY <1>1, <1>8
     DEF LoneIsOnly, SwappedIsServed, TypeOK, ProcState, Steps, Busy, At,
         RemoveFinal, Advance, Bare, Absent
<1>9. ASSUME NEW p \in Processes, FinishRemoval(p) PROVE SwappedIsServed'
  BY <1>1, <1>9
     DEF LoneIsOnly, SwappedIsServed, TypeOK, ProcState, Steps, Busy, At,
         FinishRemoval, Advance, Bare, Absent
<1>10. ASSUME NEW p \in Processes, Swap(p) PROVE SwappedIsServed'
  BY <1>1, <1>10
     DEF LoneIsOnly, SwappedIsServed, TypeOK, ProcState, Steps, Busy, At,
         Swap, Advance, Absent
<1>11. ASSUME NEW p \in Processes, Report(p) PROVE SwappedIsServed'
  BY <1>1, <1>11
     DEF LoneIsOnly, SwappedIsServed, TypeOK, ProcState, Steps, Busy, At,
         Report, Leave, Released, Idle
<1>12. ASSUME NEW p \in Processes, Raise(p) PROVE SwappedIsServed'
  BY <1>1, <1>12
     DEF LoneIsOnly, SwappedIsServed, TypeOK, ProcState, Steps, Busy, At,
         Raise, Leave, Released, Idle, Cut
<1>13. ASSUME NEW p \in Processes, Fault(p) PROVE SwappedIsServed'
  BY <1>1, <1>13
     DEF LoneIsOnly, SwappedIsServed, TypeOK, ProcState, Steps, Busy, At,
         Fault, Leave, Released, Idle, Cut
<1>14. CASE UNCHANGED vars
  BY <1>1, <1>14
     DEF LoneIsOnly, SwappedIsServed, TypeOK, ProcState, Steps, Busy, At,
         vars
<1> QED
  BY <1>2, <1>3, <1>4, <1>5, <1>6, <1>7, <1>8, <1>9, <1>10, <1>11,
     <1>12, <1>13, <1>14 DEF Next, RebuildStep

\* A report is of the index in place or of an older one.
LEMMA NewestStep ==
  ASSUME IInv, [Next]_vars
  PROVE  ServedIsNewest'
<1>1. TypeOK /\ ReadsGrow /\ SwappedIsServed /\ ServedIsNewest
  BY DEF IInv
<1>2. CASE Edit
  BY <1>1, <1>2
     DEF ReadsGrow, SwappedIsServed, ServedIsNewest, TypeOK, ProcState,
         Steps, Busy, At, Edit
<1>3. ASSUME NEW p \in Processes, Claim(p) PROVE ServedIsNewest'
  BY <1>1, <1>3
     DEF ReadsGrow, SwappedIsServed, ServedIsNewest, TypeOK, ProcState,
         Steps, Busy, At, Claim, Idle
<1>4. ASSUME NEW p \in Processes, ClearTmp(p) PROVE ServedIsNewest'
  BY <1>1, <1>4
     DEF ReadsGrow, SwappedIsServed, ServedIsNewest, TypeOK, ProcState,
         Steps, Busy, At, ClearTmp, Advance, Absent
<1>5. ASSUME NEW p \in Processes, MakeTmp(p) PROVE ServedIsNewest'
  BY <1>1, <1>5
     DEF ReadsGrow, SwappedIsServed, ServedIsNewest, TypeOK, ProcState,
         Steps, Busy, At, MakeTmp, Advance, Bare, Absent
<1>6. ASSUME NEW p \in Processes, OpenWriter(p) PROVE ServedIsNewest'
  BY <1>1, <1>6
     DEF ReadsGrow, SwappedIsServed, ServedIsNewest, TypeOK, ProcState,
         Steps, Busy, At, OpenWriter
<1>7. ASSUME NEW p \in Processes, WriteIndex(p) PROVE ServedIsNewest'
  BY <1>1, <1>7
     DEF ReadsGrow, SwappedIsServed, ServedIsNewest, TypeOK, ProcState,
         Steps, Busy, At, WriteIndex, Advance
<1>8. ASSUME NEW p \in Processes, RemoveFinal(p) PROVE ServedIsNewest'
  BY <1>1, <1>8
     DEF ReadsGrow, SwappedIsServed, ServedIsNewest, TypeOK, ProcState,
         Steps, Busy, At, RemoveFinal, Advance, Bare, Absent
<1>9. ASSUME NEW p \in Processes, FinishRemoval(p) PROVE ServedIsNewest'
  BY <1>1, <1>9
     DEF ReadsGrow, SwappedIsServed, ServedIsNewest, TypeOK, ProcState,
         Steps, Busy, At, FinishRemoval, Advance, Bare, Absent
<1>10. ASSUME NEW p \in Processes, Swap(p) PROVE ServedIsNewest'
  BY <1>1, <1>10
     DEF ReadsGrow, SwappedIsServed, ServedIsNewest, TypeOK, ProcState,
         Steps, Busy, At, Swap, Advance, Absent
<1>11. ASSUME NEW p \in Processes, Report(p) PROVE ServedIsNewest'
  BY <1>1, <1>11
     DEF ReadsGrow, SwappedIsServed, ServedIsNewest, TypeOK, ProcState,
         Steps, Busy, At, Report, Leave, Released, Idle
<1>12. ASSUME NEW p \in Processes, Raise(p) PROVE ServedIsNewest'
  BY <1>1, <1>12
     DEF ReadsGrow, SwappedIsServed, ServedIsNewest, TypeOK, ProcState,
         Steps, Busy, At, Raise, Leave, Released, Idle, Cut
<1>13. ASSUME NEW p \in Processes, Fault(p) PROVE ServedIsNewest'
  BY <1>1, <1>13
     DEF ReadsGrow, SwappedIsServed, ServedIsNewest, TypeOK, ProcState,
         Steps, Busy, At, Fault, Leave, Released, Idle, Cut
<1>14. CASE UNCHANGED vars
  BY <1>1, <1>14
     DEF ReadsGrow, SwappedIsServed, ServedIsNewest, TypeOK, ProcState,
         Steps, Busy, At, vars
<1> QED
  BY <1>2, <1>3, <1>4, <1>5, <1>6, <1>7, <1>8, <1>9, <1>10, <1>11,
     <1>12, <1>13, <1>14 DEF Next, RebuildStep

\* Only a rebuild in its swap takes the index away.
LEMMA UnusableStep ==
  ASSUME IInv, [Next]_vars
  PROVE  UnusableAfterSwap'
<1>1. TypeOK /\ LoneOwnsTmp /\ UnusableAfterSwap
  BY DEF IInv
<1>2. CASE Edit
  BY <1>1, <1>2
     DEF LoneOwnsTmp, UnusableAfterSwap, TypeOK, ProcState, Steps, Dir,
         Busy, At, InSwap, Cut, Hindered, Edit
<1>3. ASSUME NEW p \in Processes, Claim(p) PROVE UnusableAfterSwap'
  BY <1>1, <1>3
     DEF LoneOwnsTmp, UnusableAfterSwap, TypeOK, ProcState, Steps, Dir,
         Busy, At, InSwap, Cut, Hindered, Claim, Idle
<1>4. ASSUME NEW p \in Processes, ClearTmp(p) PROVE UnusableAfterSwap'
  BY <1>1, <1>4
     DEF LoneOwnsTmp, UnusableAfterSwap, TypeOK, ProcState, Steps, Dir,
         Busy, At, InSwap, Cut, Hindered, ClearTmp, Advance, Absent
<1>5. ASSUME NEW p \in Processes, MakeTmp(p) PROVE UnusableAfterSwap'
  BY <1>1, <1>5
     DEF LoneOwnsTmp, UnusableAfterSwap, TypeOK, ProcState, Steps, Dir,
         Busy, At, InSwap, Cut, Hindered, MakeTmp, Advance, Bare, Absent
<1>6. ASSUME NEW p \in Processes, OpenWriter(p) PROVE UnusableAfterSwap'
  BY <1>1, <1>6
     DEF LoneOwnsTmp, UnusableAfterSwap, TypeOK, ProcState, Steps, Dir,
         Busy, At, InSwap, Cut, Hindered, OpenWriter
<1>7. ASSUME NEW p \in Processes, WriteIndex(p) PROVE UnusableAfterSwap'
  BY <1>1, <1>7
     DEF LoneOwnsTmp, UnusableAfterSwap, TypeOK, ProcState, Steps, Dir,
         Busy, At, InSwap, Cut, Hindered, WriteIndex, Advance
<1>8. ASSUME NEW p \in Processes, RemoveFinal(p) PROVE UnusableAfterSwap'
  BY <1>1, <1>8
     DEF LoneOwnsTmp, UnusableAfterSwap, TypeOK, ProcState, Steps, Dir,
         Busy, At, InSwap, Cut, Hindered, RemoveFinal, Advance, Bare, Absent
<1>9. ASSUME NEW p \in Processes, FinishRemoval(p) PROVE UnusableAfterSwap'
  BY <1>1, <1>9
     DEF LoneOwnsTmp, UnusableAfterSwap, TypeOK, ProcState, Steps, Dir,
         Busy, At, InSwap, Cut, Hindered, FinishRemoval, Advance, Bare,
         Absent
<1>10. ASSUME NEW p \in Processes, Swap(p) PROVE UnusableAfterSwap'
  BY <1>1, <1>10
     DEF LoneOwnsTmp, UnusableAfterSwap, TypeOK, ProcState, Steps, Dir,
         Busy, At, InSwap, Cut, Hindered, Swap, Advance, Absent
<1>11. ASSUME NEW p \in Processes, Report(p) PROVE UnusableAfterSwap'
  BY <1>1, <1>11
     DEF LoneOwnsTmp, UnusableAfterSwap, TypeOK, ProcState, Steps, Dir,
         Busy, At, InSwap, Cut, Hindered, Report, Leave, Released, Idle
<1>12. ASSUME NEW p \in Processes, Raise(p) PROVE UnusableAfterSwap'
  BY <1>1, <1>12
     DEF LoneOwnsTmp, UnusableAfterSwap, TypeOK, ProcState, Steps, Dir,
         Busy, At, InSwap, Cut, Hindered, Raise, Leave, Released, Idle
<1>13. ASSUME NEW p \in Processes, Fault(p) PROVE UnusableAfterSwap'
  BY <1>1, <1>13
     DEF LoneOwnsTmp, UnusableAfterSwap, TypeOK, ProcState, Steps, Dir,
         Busy, At, InSwap, Cut, Hindered, Fault, Leave, Released, Idle
<1>14. CASE UNCHANGED vars
  BY <1>1, <1>14
     DEF LoneOwnsTmp, UnusableAfterSwap, TypeOK, ProcState, Steps, Dir,
         Busy, At, InSwap, Cut, Hindered, vars
<1> QED
  BY <1>2, <1>3, <1>4, <1>5, <1>6, <1>7, <1>8, <1>9, <1>10, <1>11,
     <1>12, <1>13, <1>14 DEF Next, RebuildStep

(***************************************************************************)
(* The theorems.                                                           *)
(***************************************************************************)
LEMMA Inductive == Spec => []IInv
<1>1. IInv /\ [Next]_vars => IInv'
  <2> SUFFICES ASSUME IInv, [Next]_vars PROVE IInv'
    OBVIOUS
  <2> QED
    BY TypeStep, LoneStep, TmpStep, OneBuildStep, ReadsStep, SwappedStep,
       NewestStep, UnusableStep DEF IInv
<1> QED
  BY <1>1, InitIInv, PTL DEF Spec

\* Directories, locks and processes keep their types.
THEOREM TypeCorrect == Spec => []TypeOK
<1>1. IInv => TypeOK
  BY DEF IInv
<1> QED
  BY <1>1, Inductive, PTL

\* An index put in place by a rebuild that ran alone holds its segments and no
\* others, whatever failed rebuilds left in the temporary directory.
THEOREM OneBuildIsServed == Spec => []ServedIsOneBuild
<1>1. IInv => ServedIsOneBuild
  BY DEF IInv
<1> QED
  BY <1>1, Inductive, PTL

\* Such an index is as new as every rebuild that was reported as succeeded.
THEOREM NewestIsServed == Spec => []ServedIsNewest
<1>1. IInv => ServedIsNewest
  BY DEF IInv
<1> QED
  BY <1>1, Inductive, PTL

\* After a success, an index that cannot be opened has one of three causes.
THEOREM UnusableOnlyWithCause == Spec => []UnusableHasCause
<1>1. IInv => UnusableHasCause
  BY DEF IInv, UnusableAfterSwap, UnusableHasCause
<1> QED
  BY <1>1, Inductive, PTL

-----------------------------------------------------------------------------
(***************************************************************************)
(* The index as those who search it see it (IndexPromise).                 *)
(***************************************************************************)

\* A rebuild that works on tantivy.tmp or removes tantivy leaves what is known
\* of it and what is in place, or takes the index away.
Works(p) ==
  \/ ClearTmp(p) \/ MakeTmp(p) \/ OpenWriter(p) \/ WriteIndex(p)
  \/ RemoveFinal(p) \/ FinishRemoval(p)

LEMMA WorkStep ==
  ASSUME TypeOK, NEW p \in Processes, Works(p)
  PROVE  /\ UNCHANGED <<corpus, builds, served, reported>>
         /\ \A q \in Processes :
              /\ proc'[q].build = proc[q].build /\ proc'[q].read = proc[q].read
              /\ proc'[q].alone = proc[q].alone
              /\ proc'[q].pc # "idle" <=> proc[q].pc # "idle"
              /\ proc'[q].pc = "swapped" <=> proc[q].pc = "swapped"
         /\ final' = final \/ ~final'.open
         /\ OpenIsThere => OpenIsThere'
<1>1. proc \in [Processes -> ProcState] /\ tmp \in Dir /\ final \in Dir
  BY DEF TypeOK
<1>2. UNCHANGED <<corpus, builds, served, reported>>
  BY DEF Works, ClearTmp, MakeTmp, OpenWriter, WriteIndex, RemoveFinal, FinishRemoval
<1>3. /\ proc[p].pc \notin {"idle", "swapped"}
      /\ \E step \in Steps \ {"idle", "swapped"}, b \in SUBSET Nat :
           proc' = [proc EXCEPT ![p] = [@ EXCEPT !.pc = step, !.base = b]]
  <2>1. ASSUME NEW step \in Steps \ {"idle", "swapped"}, Advance(p, step)
        PROVE  proc' = [proc EXCEPT ![p] = [@ EXCEPT !.pc = step, !.base = proc[p].base]]
    BY <1>1, <2>1 DEF Advance, ProcState
  <2>2. proc[p].base \in SUBSET Nat /\ tmp.index \in SUBSET Nat
    BY <1>1 DEF ProcState, Dir
  <2>3. ASSUME \E step \in Steps \ {"idle", "swapped"} : Advance(p, step)
        PROVE  \E step \in Steps \ {"idle", "swapped"}, b \in SUBSET Nat :
                 proc' = [proc EXCEPT ![p] = [@ EXCEPT !.pc = step, !.base = b]]
    BY <2>1, <2>2, <2>3
  <2>4. CASE ClearTmp(p)
    BY <2>3, <2>4 DEF ClearTmp, At, Steps
  <2>5. CASE MakeTmp(p)
    BY <2>3, <2>5 DEF MakeTmp, At, Steps
  <2>6. CASE OpenWriter(p)
    <3>1. proc' = [proc EXCEPT ![p] = [@ EXCEPT !.pc = "writing", !.base = tmp.index]]
      BY <1>1, <2>6 DEF OpenWriter
    <3>. QED BY <2>2, <2>6, <3>1 DEF OpenWriter, At, Steps
  <2>7. CASE WriteIndex(p)
    BY <2>3, <2>7 DEF WriteIndex, At, Steps
  <2>8. CASE RemoveFinal(p)
    BY <2>3, <2>8 DEF RemoveFinal, At, Steps
  <2>9. CASE FinishRemoval(p)
    BY <2>3, <2>9 DEF FinishRemoval, At, Steps
  <2>. QED BY <2>4, <2>5, <2>6, <2>7, <2>8, <2>9 DEF Works
<1>4. \A q \in Processes :
        /\ proc'[q].build = proc[q].build /\ proc'[q].read = proc[q].read
        /\ proc'[q].alone = proc[q].alone
        /\ proc'[q].pc # "idle" <=> proc[q].pc # "idle"
        /\ proc'[q].pc = "swapped" <=> proc[q].pc = "swapped"
  <2>1. PICK step \in Steps \ {"idle", "swapped"}, b \in SUBSET Nat :
          proc' = [proc EXCEPT ![p] = [@ EXCEPT !.pc = step, !.base = b]]
    BY <1>3
  <2>2. proc'[p] = [proc[p] EXCEPT !.pc = step, !.base = b]
    BY <1>1, <2>1
  <2>3. \A q \in Processes \ {p} : proc'[q] = proc[q]
    BY <1>1, <2>1
  <2>4. proc[p] \in ProcState
    BY <1>1
  <2>5. /\ proc'[p].build = proc[p].build /\ proc'[p].read = proc[p].read
        /\ proc'[p].alone = proc[p].alone /\ proc'[p].pc = step
    BY <2>2, <2>4 DEF ProcState
  <2>. QED BY <1>3, <2>3, <2>5
<1>5. final' = final \/ ~final'.open
  BY DEF Works, ClearTmp, MakeTmp, OpenWriter, WriteIndex, RemoveFinal, FinishRemoval,
     Bare, Absent
<1>6. ASSUME OpenIsThere PROVE OpenIsThere'
  <2>1. tmp' = tmp \/ ~tmp'.open \/ tmp'.there
    <3>1. CASE ClearTmp(p) \/ MakeTmp(p)
      BY <3>1 DEF ClearTmp, MakeTmp, Bare, Absent
    <3>2. CASE OpenWriter(p)
      BY <1>1, <3>2 DEF OpenWriter, Dir
    <3>3. CASE WriteIndex(p)
      BY <1>1, <3>3 DEF WriteIndex, Dir
    <3>4. CASE RemoveFinal(p) \/ FinishRemoval(p)
      BY <3>4 DEF RemoveFinal, FinishRemoval
    <3>. QED BY <3>1, <3>2, <3>3, <3>4 DEF Works
  <2>. QED BY <1>5, <1>6, <2>1 DEF OpenIsThere
<1>. QED BY <1>2, <1>4, <1>5, <1>6

\* A rebuild that ends, in whatever way, leaves the directories as they are.
LEMMA LeaveStep ==
  ASSUME TypeOK, NEW p \in Processes, Leave(p)
  PROVE  /\ proc'[p] = Idle /\ \A q \in Processes \ {p} : proc'[q] = proc[q]
         /\ final'.open = final.open /\ final'.index = final.index
         /\ OpenIsThere => OpenIsThere'
<1>1. proc \in [Processes -> ProcState] /\ tmp \in Dir /\ final \in Dir
  BY DEF TypeOK
<1>2. ASSUME NEW d \in Dir
      PROVE  /\ Released(d, p).open = d.open /\ Released(d, p).index = d.index
             /\ Released(d, p).there = d.there
  BY DEF Released, Dir
<1>3. tmp' = Released(tmp, p) /\ final' = Released(final, p)
  BY DEF Leave
<1>. QED BY <1>1, <1>2, <1>3 DEF Leave, OpenIsThere

LEMMA InitForward == Init => Forward
BY DEF Init, Forward, OpenIsThere, Numbered, LoneIsLater, Absent, Idle, Busy, At

LEMMA ForwardStep ==
  ASSUME TypeOK, LoneIsOnly, ReadsGrow, Forward, [Next]_vars
  PROVE  Forward'
<1>. USE DEF Busy, At
<1>0. /\ corpus \in Nat /\ builds \in Nat /\ proc \in [Processes -> ProcState]
      /\ served.build \in Nat /\ served.read \in Nat
      /\ \A q \in Processes : proc[q].build \in Nat /\ proc[q].read \in Nat
                              /\ proc[q].alone \in BOOLEAN /\ proc[q].read <= corpus
  BY DEF TypeOK, ProcState, ReadsGrow
<1>1. CASE Edit
  BY <1>0, <1>1 DEF Edit, Forward, OpenIsThere, Numbered, LoneIsLater
<1>2. ASSUME NEW p \in Processes, Claim(p) PROVE Forward'
  <2>1. /\ builds' = builds + 1 /\ UNCHANGED <<corpus, tmp, final, served>>
        /\ proc'[p].build = builds + 1 /\ proc'[p].read = corpus
        /\ proc'[p].pc = "claimed"
    BY <1>2 DEF Claim, Idle
  <2>2. \A q \in Processes \ {p} : /\ proc'[q].pc = proc[q].pc
                                   /\ proc'[q].build = proc[q].build
                                   /\ proc[q].pc # "idle" => ~proc'[q].alone
    BY <1>0, <1>2 DEF Claim, ProcState
  <2>3. OpenIsThere'
    BY <2>1 DEF Forward, OpenIsThere
  <2>4. Numbered'
    BY <1>0, <2>1, <2>2 DEF Forward, Numbered
  <2>5. LoneIsLater'
    BY <1>0, <2>1, <2>2 DEF Forward, Numbered, LoneIsLater
  <2>. QED BY <2>3, <2>4, <2>5 DEF Forward
<1>3. ASSUME NEW p \in Processes, Works(p) PROVE Forward'
  BY <1>3, WorkStep DEF Forward, Numbered, LoneIsLater
<1>4. ASSUME NEW p \in Processes, Swap(p) PROVE Forward'
  <2>1. /\ UNCHANGED <<corpus, builds>> /\ final' = tmp /\ tmp' = Absent
        /\ served' = [build |-> proc[p].build, read |-> proc[p].read,
                      alone |-> proc[p].alone]
        /\ proc[p].pc = "removed"
    BY <1>4 DEF Swap
  <2>2. /\ proc'[p].pc = "swapped" /\ proc'[p].build = proc[p].build
        /\ \A q \in Processes \ {p} : proc'[q] = proc[q]
    BY <1>0, <1>4 DEF Swap, Advance, ProcState
  <2>3. proc[p].build \in 1..builds
    BY <2>1 DEF Forward, Numbered
  <2>4. OpenIsThere'
    BY <2>1 DEF Forward, OpenIsThere, Absent
  <2>5. Numbered'
    BY <1>0, <2>1, <2>2, <2>3 DEF Forward, Numbered
  <2>6. LoneIsLater'
    BY <2>1, <2>2 DEF LoneIsOnly, LoneIsLater
  <2>. QED BY <2>4, <2>5, <2>6 DEF Forward
<1>5. ASSUME NEW p \in Processes, Report(p) \/ Raise(p) \/ Fault(p) PROVE Forward'
  <2>1. Leave(p) /\ UNCHANGED <<corpus, builds, served>>
    BY <1>5 DEF Report, Raise, Fault
  <2>2. /\ proc'[p].pc = "idle" /\ \A q \in Processes \ {p} : proc'[q] = proc[q]
        /\ OpenIsThere'
    BY <2>1, LeaveStep DEF Idle, Forward
  <2>. QED BY <2>1, <2>2 DEF Forward, Numbered, LoneIsLater
<1>6. CASE UNCHANGED vars
  BY <1>6 DEF vars, Forward, OpenIsThere, Numbered, LoneIsLater
<1>. QED BY <1>1, <1>2, <1>3, <1>4, <1>5, <1>6 DEF Next, RebuildStep, Works

LEMMA InitPromise == Init => Promise!Init
BY DEF Init, Promise!Init, Absent

\* What a search sees, and what is known of it.
LEMMA PromiseStep ==
  ASSUME IInv, IInv', Forward, [Next]_vars
  PROVE  [Promise!Next]_(Promise!promiseVars)
<1>. DEFINE shown == [open |-> final.open,
                      builds |-> IF final.open THEN final.index ELSE {},
                      last |-> served.build, read |-> served.read,
                      whole |-> served.alone]
            told == {d.read : d \in reported}
<1>0. /\ proc \in [Processes -> ProcState] /\ tmp \in Dir /\ final \in Dir
      /\ corpus \in Nat /\ served \in [build : Nat, read : Nat, alone : BOOLEAN]
      /\ reported \subseteq [build : Nat, read : Nat]
  BY DEF IInv, TypeOK
<1>1. ASSUME UNCHANGED <<corpus, served, reported>>, final'.open = final.open,
             final'.index = final.index
      PROVE  UNCHANGED Promise!promiseVars
  BY <1>1 DEF Promise!promiseVars
<1>2. CASE Edit
  BY <1>2 DEF Edit, Promise!Next, Promise!Edit
<1>3. ASSUME NEW p \in Processes, Claim(p) PROVE UNCHANGED Promise!promiseVars
  BY <1>1, <1>3 DEF Claim
<1>4. ASSUME NEW p \in Processes, Works(p)
      PROVE  [Promise!Next]_(Promise!promiseVars)
  <2>1. /\ UNCHANGED <<corpus, served, reported>>
        /\ final' = final \/ ~final'.open
    BY <1>4, WorkStep DEF IInv
  <2>2. CASE final' = final
    BY <1>1, <2>1, <2>2
  <2>3. CASE ~final'.open /\ final.open
    <3>1. shown' = [open |-> FALSE, builds |-> {}, last |-> shown.last,
                    read |-> shown.read, whole |-> shown.whole]
      <4>1. final'.open = FALSE
        BY <1>0, <2>3 DEF IInv, TypeOK, Dir
      <4>. QED BY <2>1, <4>1
    <3>2. Promise!Hide
      BY <2>1, <2>3, <3>1 DEF Promise!Hide
    <3>. QED BY <3>2 DEF Promise!Next
  <2>4. CASE ~final'.open /\ ~final.open
    <3>1. final'.open = final.open
      BY <1>0, <2>4 DEF IInv, TypeOK, Dir
    <3>. QED BY <2>1, <2>4, <3>1 DEF Promise!promiseVars
  <2>. QED BY <2>1, <2>2, <2>3, <2>4
<1>5. ASSUME NEW p \in Processes, Swap(p)
      PROVE  Promise!PlaceWhole \/ Promise!PlaceMixed
  <2>1. /\ UNCHANGED <<corpus, reported>> /\ final' = tmp
        /\ served' = [build |-> proc[p].build, read |-> proc[p].read,
                      alone |-> proc[p].alone]
        /\ proc[p].pc = "removed" /\ ~final.there
    BY <1>5 DEF Swap, At
  <2>2. /\ proc[p] \in ProcState /\ proc[p].build \in Nat /\ proc[p].read \in Nat
        /\ proc[p].alone \in BOOLEAN
    BY <1>0 DEF ProcState
  <2>3. proc[p].build > 0 /\ proc[p].read <= corpus /\ ~final.open
    BY <2>1, <2>2 DEF Forward, Numbered, OpenIsThere, Busy, IInv, ReadsGrow
  <2>4. shown' = [open |-> tmp.open, builds |-> IF tmp.open THEN tmp.index ELSE {},
                  last |-> proc[p].build, read |-> proc[p].read,
                  whole |-> proc[p].alone]
    BY <2>1
  <2>5. shown' \in Promise!Shown
    BY <1>0, <2>2, <2>4 DEF Promise!Shown, Dir
  <2>6. Promise!Place
    BY <2>1, <2>3, <2>4, <2>5 DEF Promise!Place
  <2>7. CASE ~proc[p].alone
    BY <2>4, <2>6, <2>7 DEF Promise!PlaceMixed
  <2>8. CASE proc[p].alone
    <3>1. tmp.open /\ tmp.index = {proc[p].build}
      BY <2>1, <2>8 DEF IInv, LoneOwnsTmp, Busy
    <3>2. served.build < proc[p].build /\ served.read <= proc[p].read
      BY <2>1, <2>8 DEF Forward, LoneIsLater, Busy, At
    <3>3. \A d \in reported : d.read <= proc[p].read
      BY <2>1, <2>8 DEF IInv, ReadsGrow, Busy
    <3>4. \A r \in told : r <= shown'.read
      BY <2>4, <3>3
    <3>. QED BY <2>2, <2>4, <2>6, <2>8, <3>1, <3>2, <3>4 DEF Promise!PlaceWhole
  <2>. QED BY <2>2, <2>7, <2>8
<1>6. ASSUME NEW p \in Processes, Report(p) PROVE Promise!Tell
  <2>1. /\ UNCHANGED <<corpus, served>> /\ proc[p].pc = "swapped"
        /\ reported' = reported \cup {[build |-> proc[p].build, read |-> proc[p].read]}
        /\ final'.open = final.open /\ final'.index = final.index
    BY <1>6, LeaveStep DEF IInv, Report, At
  <2>2. proc[p].read \in 0 .. corpus /\ served.build > 0
    BY <1>0, <2>1 DEF ProcState, IInv, ReadsGrow, Forward, Numbered, At
  <2>3. served.alone => proc[p].read <= served.read
    BY <1>0, <2>1, <2>2 DEF IInv, SwappedIsServed, At
  <2>4. told' = told \cup {proc[p].read}
    <3>1. told' = {d.read : d \in reported'}
      OBVIOUS
    <3>. DEFINE new == [build |-> proc[p].build, read |-> proc[p].read]
    <3>2. reported' = reported \cup {new} /\ new.read = proc[p].read
      BY <2>1
    <3>. HIDE DEF new
    <3>3. {d.read : d \in reported \cup {new}} = {d.read : d \in reported} \cup {new.read}
      OBVIOUS
    <3>. QED BY <3>1, <3>2, <3>3
  <2>5. UNCHANGED <<corpus, shown>>
    BY <2>1
  <2>. QED BY <2>2, <2>3, <2>4, <2>5 DEF Promise!Tell
<1>7. ASSUME NEW p \in Processes, Raise(p) \/ Fault(p)
      PROVE  UNCHANGED Promise!promiseVars
  <2>1. Leave(p) /\ UNCHANGED <<corpus, served, reported>>
    BY <1>7 DEF Raise, Fault
  <2>. QED BY <1>1, <2>1, LeaveStep DEF IInv
<1>8. CASE UNCHANGED vars
  BY <1>1, <1>8 DEF vars
<1>. QED BY <1>2, <1>3, <1>4, <1>5, <1>6, <1>7, <1>8
     DEF Next, RebuildStep, Works, Promise!Next

\* SearchIndex implements IndexPromise, for any number of processes, rebuilds,
\* edits and faults: an index in place is never changed, only taken away; what
\* a lone rebuild puts in place is its own, and later than all that was in
\* place or reported before.
THEOREM IndexPromiseIsKept == Spec => KeepsIndexPromise
<1>1. Init => IInv /\ Forward
  BY InitIInv, InitForward
<1>2. Spec => []IInv
  BY Inductive
<1>3. IInv /\ Forward /\ [Next]_vars => Forward'
  BY ForwardStep DEF IInv
<1>4. IInv /\ IInv' /\ Forward /\ [Next]_vars => [Promise!Next]_(Promise!promiseVars)
  BY PromiseStep
<1>. QED BY <1>1, <1>2, <1>3, <1>4, InitPromise, PTL
     DEF Spec, KeepsIndexPromise, Promise!Spec

-----------------------------------------------------------------------------
(***************************************************************************)
(* Induction over the parts of a finite set, sums and folds.               *)
(***************************************************************************)
\* A set of numbers that has a member has a smallest.
LEMMA HasSmallest ==
  ASSUME NEW S \in SUBSET Nat, S # {}
  PROVE  \E n \in S : \A m \in S : n <= m
<1>. DEFINE R == {ss \in Nat \X Nat : ss[1] < ss[2]}
<1>1. IsWellFoundedOn(R, Nat)
  BY NatLessThanWellFounded DEF OpToRel
<1>2. \A n, m \in Nat : n < m => <<n, m>> \in R
  OBVIOUS
<1>. HIDE DEF R
<1>3. \E n \in S : \A m \in S : ~ (<<m, n>> \in R)
  BY <1>1, WFMin, Zenon
<1>4. PICK n \in S : \A m \in S : ~ (<<m, n>> \in R)
  BY <1>3
<1>5. ASSUME NEW m \in S PROVE n <= m
  <2>1. n \in Nat /\ m \in Nat
    OBVIOUS
  <2>2. ~ (m < n)
    BY <1>2, <1>4, <2>1, Zenon
  <2>. QED BY <2>1, <2>2
<1>. QED BY <1>5

\* What holds of a part of a finite set as soon as it holds of all its own
\* smaller parts holds of every part.
LEMMA PartsInduction ==
  ASSUME NEW S, IsFiniteSet(S), NEW W,
         \A s \in SUBSET S : (\A r \in SUBSET s : r # s => r \in W) => s \in W
  PROVE  \A s \in SUBSET S : s \in W
<1>. DEFINE Bad == {n \in Nat : \E s \in SUBSET S : Cardinality(s) = n /\ s \notin W}
<1>1. \A s \in SUBSET S : IsFiniteSet(s) /\ Cardinality(s) \in Nat
  BY FS_Subset, FS_CardinalityType
<1>2. ASSUME Bad # {} PROVE FALSE
  <2>1. PICK n \in Bad : \A m \in Bad : n <= m
    <3>1. Bad \in SUBSET Nat
      OBVIOUS
    <3>. HIDE DEF Bad
    <3>. QED BY <1>2, <3>1, HasSmallest
  <2>2. PICK s \in SUBSET S : Cardinality(s) = n /\ s \notin W
    BY <2>1
  <2>3. ASSUME NEW r \in SUBSET s, r # s PROVE r \in W
    <3>1. r \in SUBSET S /\ Cardinality(r) \in Nat /\ Cardinality(r) < Cardinality(s)
      BY <1>1, <2>3, FS_Subset
    <3>. QED BY <2>1, <2>2, <3>1
  <2>. QED BY <2>2, <2>3
<1>. QED BY <1>1, <1>2

\* The recursion of a fold: it takes one member from its set.
Folding(g, S, base, step, pick) ==
  g = [s \in SUBSET S |-> IF s = {} THEN base ELSE step[<<pick[s], g[s \ {pick[s]}]>>]]

\* It has a solution if the set is finite.
LEMMA FoldExists ==
  ASSUME NEW S, IsFiniteSet(S), NEW base, NEW step, NEW pick,
         \A s \in SUBSET S : s # {} => pick[s] \in s
  PROVE  \E g : Folding(g, S, base, step, pick)
<1>. DEFINE Small(n) == {s \in SUBSET S : Cardinality(s) <= n}
            Solves(g, n) ==
              g = [s \in Small(n) |->
                     IF s = {} THEN base ELSE step[<<pick[s], g[s \ {pick[s]}]>>]]
            Bad == {n \in Nat : ~ \E g : Solves(g, n)}
<1>1. \A s \in SUBSET S : /\ IsFiniteSet(s) /\ Cardinality(s) \in Nat
                          /\ Cardinality(s) <= Cardinality(S)
  BY FS_Subset, FS_CardinalityType
<1>2. \A s \in SUBSET S : \A x \in s : Cardinality(s \ {x}) = Cardinality(s) - 1
  BY <1>1, FS_RemoveElement
<1>3. ASSUME Bad # {} PROVE FALSE
  <2>1. PICK n \in Bad : \A m \in Bad : n <= m
    <3>1. Bad \in SUBSET Nat
      OBVIOUS
    <3>. HIDE DEF Bad
    <3>. QED BY <1>3, <3>1, HasSmallest
  <2>2. CASE n = 0
    <3>. DEFINE g == [s \in Small(0) |-> base]
    <3>1. \A s \in Small(0) : s = {}
      BY <1>1, FS_EmptySet
    <3>2. Solves(g, 0)
      BY <3>1
    <3>. HIDE DEF g, Solves
    <3>3. \E k : Solves(k, 0)
      BY <3>2
    <3>. QED BY <2>1, <2>2, <3>3
  <2>3. CASE n # 0
    <3>1. n - 1 \in Nat /\ n - 1 \notin Bad
      <4>1. n \in Nat
        BY <2>1
      <4>2. n - 1 \in Nat /\ ~ (n <= n - 1)
        BY <2>3, <4>1
      <4>. HIDE DEF Bad
      <4>. QED BY <2>1, <4>2
    <3>2. PICK g : Solves(g, n - 1)
      BY <3>1
    <3>. DEFINE h == [s \in Small(n) |->
                        IF s = {} THEN base ELSE step[<<pick[s], g[s \ {pick[s]}]>>]]
    <3>3. ASSUME NEW s \in Small(n - 1) PROVE s \in Small(n) /\ h[s] = g[s]
      <4>1. s \in Small(n)
        BY <1>1, <3>1
      <4>. HIDE DEF Small
      <4>2. g[s] = IF s = {} THEN base ELSE step[<<pick[s], g[s \ {pick[s]}]>>]
        BY <3>2, Zenon
      <4>. QED BY <4>1, <4>2, Zenon
    <3>4. ASSUME NEW s \in Small(n), s # {} PROVE s \ {pick[s]} \in Small(n - 1)
      BY <1>1, <1>2, <3>1, <3>4
    <3>5. ASSUME NEW s \in Small(n)
          PROVE  h[s] = IF s = {} THEN base ELSE step[<<pick[s], h[s \ {pick[s]}]>>]
      <4>. HIDE DEF Small
      <4>1. CASE s = {}
        BY <4>1
      <4>2. CASE s # {}
        <5>1. h[s \ {pick[s]}] = g[s \ {pick[s]}]
          BY <3>3, <3>4, <4>2
        <5>2. h[s] = step[<<pick[s], g[s \ {pick[s]}]>>]
          BY <4>2
        <5>. QED BY <4>2, <5>1, <5>2
      <4>. QED BY <4>1, <4>2
    <3>6. Solves(h, n)
      <4>1. h = [s \in Small(n) |-> h[s]]
        OBVIOUS
      <4>. HIDE DEF h, Small
      <4>. QED BY <3>5, <4>1, Zenon
    <3>7. \E k : Solves(k, n)
      <4>. HIDE DEF h, Small
      <4>. QED BY <3>6
    <3>. QED BY <2>1, <3>7
  <2>. QED BY <2>2, <2>3
<1>4. Small(Cardinality(S)) = SUBSET S /\ Cardinality(S) \in Nat
  BY <1>1
<1>. QED
  <2>. HIDE DEF Small
  <2>1. PICK g : Solves(g, Cardinality(S))
    BY <1>3, <1>4
  <2>. QED BY <1>4, <2>1 DEF Folding

Adds(f, T) == [p \in T \X Nat |-> f[p[1]] + p[2]]
Taking(T) == [s \in SUBSET T |-> CHOOSE x \in s : TRUE]

\* Sums over the parts of T, where a sum takes some member of its set.
Summing(f, g, T) ==
  g = [s \in SUBSET T |-> IF s = {} THEN 0
                          ELSE LET x == CHOOSE x \in s : TRUE IN f[x] + g[s \ {x}]]

LEMMA SumsExist ==
  ASSUME NEW f, NEW T, IsFiniteSet(T), \A x \in T : f[x] \in Nat
  PROVE  \E g : Summing(f, g, T)
<1>. DEFINE pick == Taking(T)
            step == Adds(f, T)
<1>1. \A s \in SUBSET T : pick[s] = CHOOSE x \in s : TRUE
  BY DEF Taking
<1>2. \A s \in SUBSET T : s # {} => pick[s] \in s
  BY <1>1
<1>3. \A x \in T : \A v \in Nat : step[<<x, v>>] = f[x] + v
  BY DEF Adds
<1>. HIDE DEF pick, step
<1>4. PICK g : Folding(g, T, 0, step, pick)
  BY <1>2, FoldExists
<1>5. \A s \in SUBSET T : g[s] = IF s = {} THEN 0 ELSE step[<<pick[s], g[s \ {pick[s]}]>>]
  BY <1>4, Zenon DEF Folding
<1>. DEFINE W == {s \in SUBSET T : g[s] \in Nat}
<1>6. \A s \in SUBSET T : s \in W
  <2>1. ASSUME NEW s \in SUBSET T, \A r \in SUBSET s : r # s => r \in W
        PROVE  s \in W
    <3>1. CASE s = {}
      <4>1. g[s] = 0
        BY <1>5, <3>1, Zenon
      <4>. QED BY <4>1
    <3>2. CASE s # {}
      <4>1. pick[s] \in s /\ s \ {pick[s]} \in SUBSET s /\ s \ {pick[s]} # s
        BY <1>2, <3>2
      <4>2. g[s \ {pick[s]}] \in Nat
        BY <2>1, <4>1
      <4>3. g[s] = step[<<pick[s], g[s \ {pick[s]}]>>]
        BY <1>5, <3>2
      <4>. QED BY <1>3, <4>1, <4>2, <4>3
    <3>. QED BY <3>1, <3>2
  <2>. HIDE DEF W
  <2>. QED BY <2>1, PartsInduction
<1>7. ASSUME NEW s \in SUBSET T
      PROVE  g[s] = IF s = {} THEN 0
                    ELSE LET x == CHOOSE x \in s : TRUE IN f[x] + g[s \ {x}]
  <2>1. CASE s = {}
    BY <1>5, <2>1
  <2>2. CASE s # {}
    <3>1. pick[s] \in s /\ g[s \ {pick[s]}] \in Nat
      BY <1>2, <1>6, <2>2
    <3>2. g[s] = f[pick[s]] + g[s \ {pick[s]}]
      BY <1>3, <1>5, <2>2, <3>1
    <3>. QED BY <1>1, <2>2, <3>2
  <2>. QED BY <2>1, <2>2
<1>8. g = [s \in SUBSET T |-> g[s]]
  BY <1>4, Zenon DEF Folding
<1>9. Summing(f, g, T)
  BY <1>7, <1>8, Zenon DEF Summing
<1>. QED BY <1>9

\* The order in which a sum takes its members does not matter.
LEMMA SummingAny ==
  ASSUME NEW f, NEW T, IsFiniteSet(T), \A x \in T : f[x] \in Nat, NEW g, Summing(f, g, T)
  PROVE  \A s \in SUBSET T : /\ g[s] \in Nat
                             /\ s = {} => g[s] = 0
                             /\ \A x \in s : g[s] = f[x] + g[s \ {x}]
<1>. DEFINE W == {s \in SUBSET T : /\ g[s] \in Nat
                                   /\ \A x \in s : g[s] = f[x] + g[s \ {x}]}
<1>1. \A s \in SUBSET T :
         g[s] = IF s = {} THEN 0 ELSE LET x == CHOOSE x \in s : TRUE IN f[x] + g[s \ {x}]
  BY Zenon DEF Summing
<1>2. ASSUME NEW s \in SUBSET T, \A r \in SUBSET s : r # s => r \in W
      PROVE  s \in W
  <2>1. CASE s = {}
    <3>1. g[s] = 0
      BY <1>1, <2>1, Zenon
    <3>. QED BY <2>1, <3>1
  <2>2. CASE s # {}
    <3>. DEFINE y == CHOOSE x \in s : TRUE
    <3>1. y \in s /\ g[s] = f[y] + g[s \ {y}]
      BY <1>1, <2>2
    <3>. HIDE DEF y
    <3>2. s \ {y} \in W
      BY <1>2, <3>1
    <3>3. g[s] \in Nat
      BY <3>1, <3>2
    <3>4. ASSUME NEW x \in s PROVE g[s] = f[x] + g[s \ {x}]
      <4>1. CASE x = y
        BY <3>1, <4>1
      <4>2. CASE x # y
        <5>1. s \ {x} \in W
          BY <1>2
        <5>2. x \in s \ {y} /\ y \in s \ {x} /\ (s \ {y}) \ {x} = (s \ {x}) \ {y}
          BY <3>1, <4>2
        <5>3. g[s \ {y}] = f[x] + g[(s \ {y}) \ {x}] /\ g[s \ {x}] = f[y] + g[(s \ {x}) \ {y}]
          BY <3>2, <5>1, <5>2
        <5>4. (s \ {y}) \ {x} \in W
          BY <1>2, <5>2
        <5>5. f[x] \in Nat /\ f[y] \in Nat /\ g[(s \ {y}) \ {x}] \in Nat
          BY <3>1, <5>4
        <5>. DEFINE least == g[(s \ {y}) \ {x}]
        <5>6. /\ g[s \ {y}] = f[x] + least /\ g[s \ {x}] = f[y] + least
              /\ g[s] = f[y] + g[s \ {y}]
          BY <3>1, <5>2, <5>3
        <5>7. f[x] \in Nat /\ f[y] \in Nat /\ least \in Nat
          BY <5>5
        <5>. HIDE DEF least
        <5>. QED BY <5>6, <5>7
      <4>. QED BY <4>1, <4>2
    <3>. QED BY <3>3, <3>4
  <2>. QED BY <2>1, <2>2
<1>3. \A s \in SUBSET T : s \in W
  <2>. HIDE DEF W
  <2>. QED BY <1>2, PartsInduction
<1>. QED BY <1>1, <1>3

\* Sums of functions that agree.
LEMMA SummingAgree ==
  ASSUME NEW f, NEW h, NEW T, NEW U, IsFiniteSet(T), T \subseteq U,
         \A x \in T : f[x] = h[x],
         NEW g, Summing(f, g, T), NEW k, Summing(h, k, U)
  PROVE  g[T] = k[T]
<1>. DEFINE W == {s \in SUBSET T : g[s] = k[s]}
<1>1. \A s \in SUBSET T :
        /\ g[s] = IF s = {} THEN 0 ELSE LET x == CHOOSE x \in s : TRUE IN f[x] + g[s \ {x}]
        /\ k[s] = IF s = {} THEN 0 ELSE LET x == CHOOSE x \in s : TRUE IN h[x] + k[s \ {x}]
  <2>1. \A s \in SUBSET T : s \in SUBSET U
    OBVIOUS
  <2>. QED BY <2>1, Zenon DEF Summing
<1>2. ASSUME NEW s \in SUBSET T, \A r \in SUBSET s : r # s => r \in W
      PROVE  s \in W
  <2>1. CASE s = {}
    BY <1>1, <2>1
  <2>2. CASE s # {}
    <3>. DEFINE y == CHOOSE x \in s : TRUE
    <3>1. y \in s /\ g[s] = f[y] + g[s \ {y}] /\ k[s] = h[y] + k[s \ {y}]
      BY <1>1, <2>2
    <3>. HIDE DEF y
    <3>. QED BY <1>2, <3>1
  <2>. QED BY <2>1, <2>2
<1>3. \A s \in SUBSET T : s \in W
  <2>. HIDE DEF W
  <2>. QED BY <1>2, PartsInduction
<1>. QED BY <1>3

LEMMA SumIsSumming ==
  ASSUME NEW f, NEW T, IsFiniteSet(T), \A x \in T : f[x] \in Nat
  PROVE  \E g : Summing(f, g, T) /\ SumFunctionOnSet(f, T) = g[T]
<1>. DEFINE g == CHOOSE g : Summing(f, g, T)
<1>1. Summing(f, g, T)
  BY SumsExist
<1>2. SumFunctionOnSet(f, T) = g[T]
  BY DEF Summing, SumFunctionOnSet, FoldFunctionOnSet, MapThenFoldSet
<1>. HIDE DEF g
<1>. QED BY <1>1, <1>2

LEMMA SumOfNone ==
  ASSUME NEW f
  PROVE  SumFunctionOnSet(f, {}) = 0
<1>1. IsFiniteSet({})
  BY FS_EmptySet
<1>2. PICK g : Summing(f, g, {}) /\ SumFunctionOnSet(f, {}) = g[{}]
  BY <1>1, SumIsSumming
<1>. QED BY <1>1, <1>2, SummingAny

\* A sum over a finite set is one member and the sum of the others.
LEMMA SumTakes ==
  ASSUME NEW f, NEW T, IsFiniteSet(T), \A x \in T : f[x] \in Nat
  PROVE  /\ SumFunctionOnSet(f, T) \in Nat
         /\ \A x \in T : SumFunctionOnSet(f, T) = f[x] + SumFunctionOnSet(f, T \ {x})
<1>1. PICK g : Summing(f, g, T) /\ SumFunctionOnSet(f, T) = g[T]
  BY SumIsSumming
<1>2. ASSUME NEW x \in T PROVE SumFunctionOnSet(f, T \ {x}) = g[T \ {x}]
  <2>1. IsFiniteSet(T \ {x})
    BY FS_Subset
  <2>. DEFINE rest == T \ {x}
  <2>2. PICK k : Summing(f, k, rest) /\ SumFunctionOnSet(f, rest) = k[rest]
    BY <2>1, SumIsSumming
  <2>3. rest \subseteq T
    OBVIOUS
  <2>. HIDE DEF rest
  <2>4. k[rest] = g[rest]
    BY <1>1, <2>1, <2>2, <2>3, SummingAgree DEF rest
  <2>. QED BY <2>2, <2>4 DEF rest
<1>3. g[T] \in Nat /\ \A x \in T : g[T] = f[x] + g[T \ {x}]
  BY <1>1, SummingAny
<1>. QED BY <1>1, <1>2, <1>3

LEMMA SumsAgree ==
  ASSUME NEW f, NEW h, NEW T, IsFiniteSet(T), \A x \in T : f[x] \in Nat /\ f[x] = h[x]
  PROVE  SumFunctionOnSet(f, T) = SumFunctionOnSet(h, T)
<1>1. PICK g : Summing(f, g, T) /\ SumFunctionOnSet(f, T) = g[T]
  BY SumIsSumming
<1>2. PICK k : Summing(h, k, T) /\ SumFunctionOnSet(h, T) = k[T]
  BY SumIsSumming
<1>. QED BY <1>1, <1>2, SummingAgree

\* A part adds up to no more than the whole.
LEMMA SumGrows ==
  ASSUME NEW f, NEW T, IsFiniteSet(T), \A x \in T : f[x] \in Nat, NEW A \in SUBSET T
  PROVE  SumFunctionOnSet(f, A) <= SumFunctionOnSet(f, T)
<1>. DEFINE W == {s \in SUBSET T :
                    \A a \in SUBSET s : SumFunctionOnSet(f, a) <= SumFunctionOnSet(f, s)}
<1>1. \A s \in SUBSET T : IsFiniteSet(s) /\ \A x \in s : f[x] \in Nat
  BY FS_Subset
<1>2. \A s \in SUBSET T : /\ SumFunctionOnSet(f, s) \in Nat
                          /\ \A x \in s : SumFunctionOnSet(f, s) =
                                            f[x] + SumFunctionOnSet(f, s \ {x})
  BY <1>1, SumTakes
<1>3. ASSUME NEW s \in SUBSET T, \A r \in SUBSET s : r # s => r \in W,
             NEW a \in SUBSET s
      PROVE  SumFunctionOnSet(f, a) <= SumFunctionOnSet(f, s)
  <2>1. CASE a = s
    BY <1>2, <2>1
  <2>2. CASE a # s
    <3>1. PICK x \in s : x \notin a
      BY <2>2
    <3>2. s \ {x} \in W /\ a \in SUBSET (s \ {x})
      BY <1>3, <3>1
    <3>3. SumFunctionOnSet(f, a) <= SumFunctionOnSet(f, s \ {x})
      BY <3>2
    <3>4. /\ SumFunctionOnSet(f, a) \in Nat /\ SumFunctionOnSet(f, s \ {x}) \in Nat
          /\ f[x] \in Nat /\ SumFunctionOnSet(f, s) = f[x] + SumFunctionOnSet(f, s \ {x})
      BY <1>2
    <3>. QED BY <3>3, <3>4
  <2>. QED BY <2>1, <2>2
<1>4. \A s \in SUBSET T : (\A r \in SUBSET s : r # s => r \in W) => s \in W
  BY <1>3
<1>. HIDE DEF W
<1>5. T \in W
  BY <1>4, PartsInduction
<1>. QED BY <1>5 DEF W

LEMMA MaxOf ==
  ASSUME NEW n \in Nat, NEW s \in SUBSET (1..n), s # {}
  PROVE  Max(s) \in s /\ \A i \in s : i <= Max(s)
<1>. DEFINE S == {n - i : i \in s}
<1>1. PICK m \in S : \A k \in S : m <= k
  <2>1. \A i \in s : n - i \in Nat
    OBVIOUS
  <2>2. S \in SUBSET Nat
    BY <2>1
  <2>3. S # {}
    <3>1. PICK i \in s : TRUE
      OBVIOUS
    <3>2. n - i \in S
      BY <3>1
    <3>. QED BY <3>2
  <2>. HIDE DEF S
  <2>. QED BY <2>2, <2>3, HasSmallest
<1>2. PICK x \in s : m = n - x
  BY <1>1
<1>3. ASSUME NEW i \in s PROVE x >= i
  <2>1. n - x <= n - i
    BY <1>1, <1>2
  <2>2. x \in Int /\ i \in Int
    OBVIOUS
  <2>. QED BY <2>1, <2>2
<1>4. \E y \in s : \A i \in s : y >= i
  BY <1>3
<1>5. Max(s) \in s /\ \A i \in s : Max(s) >= i
  BY <1>4, Zenon DEF Max
<1>6. Max(s) \in 1..n
  BY <1>5
<1>. QED BY <1>5, <1>6

Maxes(n) == [s \in SUBSET (1..n) |-> Max(s)]

\* A fold over a sequence of n members, whose values lie in V.
Folded(g, n, V, base, step) ==
  /\ g = [s \in SUBSET (1..n) |-> g[s]]
  /\ \A s \in SUBSET (1..n) :
       g[s] \in V /\ g[s] = IF s = {} THEN base ELSE step[<<Max(s), g[s \ {Max(s)}]>>]

LEMMA FoldValues ==
  ASSUME NEW n \in Nat, NEW V, NEW base \in V, NEW step,
         \A i \in 1..n : \A v \in V : step[<<i, v>>] \in V
  PROVE  \E g : Folded(g, n, V, base, step)
<1>. DEFINE pick == Maxes(n)
<1>1. \A s \in SUBSET (1..n) : pick[s] = Max(s)
  BY DEF Maxes
<1>2. \A s \in SUBSET (1..n) : s # {} => pick[s] \in s
  BY <1>1, MaxOf
<1>3. IsFiniteSet(1..n)
  BY FS_Interval
<1>. HIDE DEF pick
<1>4. PICK g : Folding(g, 1..n, base, step, pick)
  BY <1>2, <1>3, FoldExists
<1>5. \A s \in SUBSET (1..n) :
        g[s] = IF s = {} THEN base ELSE step[<<pick[s], g[s \ {pick[s]}]>>]
  BY <1>4, Zenon DEF Folding
<1>. DEFINE W == {s \in SUBSET (1..n) : g[s] \in V}
<1>6. ASSUME NEW s \in SUBSET (1..n), \A r \in SUBSET s : r # s => r \in W
      PROVE  s \in W
  <2>1. CASE s = {}
    <3>1. g[s] = base
      BY <1>5, <2>1, Zenon
    <3>. QED BY <3>1
  <2>2. CASE s # {}
    <3>1. pick[s] \in s /\ s \ {pick[s]} \in SUBSET s /\ s \ {pick[s]} # s
      BY <1>2, <2>2
    <3>2. g[s \ {pick[s]}] \in V
      BY <1>6, <3>1
    <3>3. g[s] = step[<<pick[s], g[s \ {pick[s]}]>>]
      BY <1>5, <2>2, Zenon
    <3>4. pick[s] \in 1..n
      BY <3>1
    <3>5. g[s] \in V
      BY <3>2, <3>3, <3>4, Zenon
    <3>. QED BY <3>5
  <2>. QED BY <2>1, <2>2
<1>7. \A s \in SUBSET (1..n) : s \in W
  <2>. DEFINE T == 1..n
  <2>. HIDE DEF W
  <2>1. \A s \in SUBSET T : (\A r \in SUBSET s : r # s => r \in W) => s \in W
    BY <1>6
  <2>2. IsFiniteSet(T)
    BY <1>3
  <2>. HIDE DEF T
  <2>3. \A s \in SUBSET T : s \in W
    BY <2>1, <2>2, PartsInduction
  <2>. QED BY <2>3 DEF T
<1>8. g = [s \in SUBSET (1..n) |-> g[s]]
  BY <1>4, Zenon DEF Folding
<1>9. ASSUME NEW s \in SUBSET (1..n)
      PROVE  g[s] = IF s = {} THEN base ELSE step[<<Max(s), g[s \ {Max(s)}]>>]
  <2>1. pick[s] = Max(s)
    BY <1>1
  <2>. QED BY <1>5, <2>1, Zenon
<1>10. \A s \in SUBSET (1..n) : g[s] \in V
  BY <1>7
<1>11. Folded(g, n, V, base, step)
  BY <1>8, <1>9, <1>10, Zenon DEF Folded
<1>. QED BY <1>11

\* What a fold keeps, it keeps at every part of its sequence.
LEMMA FoldStays ==
  ASSUME NEW n \in Nat, NEW W, NEW iter,
         \A s \in SUBSET (1..n) : (s # {} => iter[s \ {Max(s)}] \in W) => iter[s] \in W
  PROVE  \A s \in SUBSET (1..n) : iter[s] \in W
<1>. DEFINE X == {s \in SUBSET (1..n) : iter[s] \in W}
<1>1. ASSUME NEW s \in SUBSET (1..n), \A r \in SUBSET s : r # s => r \in X
      PROVE  s \in X
  <2>1. s # {} => s \ {Max(s)} \in SUBSET s /\ s \ {Max(s)} # s
    BY MaxOf
  <2>. QED BY <1>1, <2>1
<1>2. IsFiniteSet(1..n)
  BY FS_Interval
<1>3. \A s \in SUBSET (1..n) : s \in X
  <2>. HIDE DEF X
  <2>. QED BY <1>1, <1>2, PartsInduction
<1>. QED BY <1>3

-----------------------------------------------------------------------------
(***************************************************************************)
(* Merging hits.                                                           *)
(***************************************************************************)
Starts(existing, hits) ==
  /\ Len(existing) <= Len(hits) /\ \A i \in 1..Len(existing) : hits[i] = existing[i]

\* What may become of existing hits when others are added.
Mergers(existing, incoming) ==
  {m \in Seq(Segments) : /\ IsInjective(m) /\ Starts(existing, m)
                         /\ ToSet(m) \subseteq ToSet(existing) \cup ToSet(incoming)}

LEMMA AddUnseenMerges ==
  ASSUME NEW existing \in Seq(Segments), NEW incoming \in Seq(Segments),
         NEW m \in Mergers(existing, incoming), NEW i \in 1..Len(incoming)
  PROVE  /\ AddUnseen(m, incoming[i]) \in Mergers(existing, incoming)
         /\ AddUnseen(m, incoming[i]) # <<>>
<1>. DEFINE h == incoming[i]
<1>1. h \in Segments /\ m \in Seq(Segments) /\ h \in ToSet(incoming)
  BY DEF Mergers, ToSet
<1>2. CASE h \in ToSet(m)
  BY <1>1, <1>2 DEF AddUnseen, ToSet
<1>3. CASE h \notin ToSet(m)
  <2>. DEFINE more == Append(m, h)
  <2>1. AddUnseen(m, h) = more
    BY <1>3 DEF AddUnseen
  <2>2. /\ more \in Seq(Segments) /\ Len(more) = Len(m) + 1 /\ Len(m) \in Nat
        /\ \A j \in 1..Len(m) : more[j] = m[j]
        /\ more[Len(m) + 1] = h
        /\ DOMAIN more = 1..Len(m) + 1 /\ DOMAIN m = 1..Len(m)
    BY <1>1
  <2>. HIDE DEF more
  <2>3. \A j \in DOMAIN more : more[j] \in ToSet(m) \cup {h}
    BY <2>2 DEF ToSet
  <2>4. IsInjective(more)
    <3>1. ASSUME NEW a \in DOMAIN more, NEW b \in DOMAIN more, more[a] = more[b] PROVE a = b
      <4>1. \A j \in 1..Len(m) : m[j] # h
        BY <1>3, <2>2 DEF ToSet
      <4>2. IsInjective(m)
        BY DEF Mergers
      <4>. QED BY <2>2, <3>1, <4>1, <4>2 DEF IsInjective
    <3>. QED BY <3>1 DEF IsInjective
  <2>5. Starts(existing, more)
    <3>1. Starts(existing, m) /\ Len(existing) \in Nat
      BY DEF Mergers
    <3>. QED BY <2>2, <3>1 DEF Starts
  <2>6. ToSet(more) \subseteq ToSet(existing) \cup ToSet(incoming)
    BY <1>1, <2>3 DEF ToSet, Mergers
  <2>7. more # <<>>
    BY <2>2
  <2>. QED BY <2>1, <2>2, <2>4, <2>5, <2>6, <2>7 DEF Mergers
<1>. QED BY <1>2, <1>3

LEMMA MergeUniqueMerges ==
  ASSUME NEW existing \in Seq(Segments), IsInjective(existing), NEW incoming \in Seq(Segments)
  PROVE  /\ MergeUnique(existing, incoming) \in Mergers(existing, incoming)
         /\ incoming # <<>> => MergeUnique(existing, incoming) # <<>>
<1>. DEFINE n == Len(incoming)
            V == Mergers(existing, incoming)
            step == [p \in (1..n) \X V |-> AddUnseen(p[2], incoming[p[1]])]
            Solves(g) == g = [s \in SUBSET DOMAIN incoming |->
                                IF s = {} THEN existing
                                ELSE AddUnseen(g[s \ {Max(s)}], incoming[Max(s)])]
            iter == CHOOSE g : Solves(g)
<1>1. n \in Nat /\ DOMAIN incoming = 1..n
  OBVIOUS
<1>2. existing \in V
  BY DEF Mergers, Starts
<1>3. \A i \in 1..n : \A v \in V : /\ AddUnseen(v, incoming[i]) \in V
                                 /\ AddUnseen(v, incoming[i]) # <<>>
  BY AddUnseenMerges
<1>. HIDE DEF n, V
<1>4. \A i \in 1..n : \A v \in V : step[<<i, v>>] = AddUnseen(v, incoming[i])
  OBVIOUS
<1>. HIDE DEF step
<1>5. \A i \in 1..n : \A v \in V : step[<<i, v>>] \in V
  BY <1>3, <1>4
<1>6. PICK g : Folded(g, n, V, existing, step)
  BY <1>1, <1>2, <1>5, FoldValues
<1>7. /\ g = [s \in SUBSET (1..n) |-> g[s]]
      /\ \A s \in SUBSET (1..n) :
           /\ g[s] \in V
           /\ g[s] = IF s = {} THEN existing ELSE step[<<Max(s), g[s \ {Max(s)}]>>]
  BY <1>6, Zenon DEF Folded
<1>8. ASSUME NEW s \in SUBSET (1..n)
      PROVE  g[s] = IF s = {} THEN existing
                    ELSE AddUnseen(g[s \ {Max(s)}], incoming[Max(s)])
  <2>1. CASE s = {}
    BY <1>7, <2>1, Zenon
  <2>2. CASE s # {}
    <3>1. Max(s) \in 1..n /\ s \ {Max(s)} \in SUBSET (1..n)
      BY <1>1, <2>2, MaxOf
    <3>2. g[s \ {Max(s)}] \in V
      BY <1>7, <3>1
    <3>. QED BY <1>4, <1>7, <2>2, <3>1, <3>2
  <2>. QED BY <2>1, <2>2
<1>9. Solves(iter)
  <2>1. Solves(g)
    BY <1>1, <1>7, <1>8, Zenon
  <2>. QED BY <2>1
<1>10. MergeUnique(existing, incoming) = iter[1..n]
  BY <1>1 DEF MergeUnique, FoldLeft, MapThenFoldSet
<1>. HIDE DEF iter
<1>11. \A s \in SUBSET (1..n) :
         iter[s] = IF s = {} THEN existing
                   ELSE AddUnseen(iter[s \ {Max(s)}], incoming[Max(s)])
  BY <1>1, <1>9, Zenon
<1>12. ASSUME NEW s \in SUBSET (1..n), s # {} => iter[s \ {Max(s)}] \in V
       PROVE  iter[s] \in V /\ (s # {} => iter[s] # <<>>)
  <2>1. CASE s = {}
    <3>1. iter[s] = existing
      BY <1>11, <2>1, Zenon
    <3>. QED BY <1>2, <2>1, <3>1
  <2>2. CASE s # {}
    <3>1. Max(s) \in 1..n
      BY <1>1, <2>2, MaxOf
    <3>2. iter[s] = AddUnseen(iter[s \ {Max(s)}], incoming[Max(s)])
      BY <1>11, <2>2
    <3>. QED BY <1>3, <1>12, <2>2, <3>1, <3>2
  <2>. QED BY <2>1, <2>2
<1>13. \A s \in SUBSET (1..n) : iter[s] \in V
  BY <1>1, <1>12, FoldStays
<1>14. ASSUME incoming # <<>> PROVE iter[1..n] # <<>>
  <2>1. Len(incoming) # 0
    BY <1>14
  <2>2. 1 \in 1..n
    BY <1>1, <2>1 DEF n
  <2>. QED BY <1>12, <1>13, <2>2
<1>. QED BY <1>10, <1>13, <1>14 DEF V

-----------------------------------------------------------------------------
(***************************************************************************)
(* Tokens and the budget.                                                  *)
(***************************************************************************)
Sizes(hits) == [n \in DOMAIN hits |-> Size[hits[n]]]

\* The tokens of the first hits, as a sum over their places.
LEMMA TokensOfFirst ==
  ASSUME NEW hits \in Seq(Segments), NEW n \in 0..Len(hits)
  PROVE  /\ TokensOf(SubSeq(hits, 1, n)) = SumFunctionOnSet(Sizes(hits), 1..n)
         /\ TokensOf(SubSeq(hits, 1, n)) \in Nat
<1>. DEFINE first == SubSeq(hits, 1, n)
<1>1. /\ DOMAIN first = 1..n /\ \A i \in 1..n : i \in DOMAIN hits /\ first[i] = hits[i]
  OBVIOUS
<1>2. \A i \in DOMAIN hits : hits[i] \in Segments
  OBVIOUS
<1>. HIDE DEF first
<1>3. /\ DOMAIN Sizes(first) = 1..n
      /\ \A i \in 1..n : Sizes(first)[i] \in Nat /\ Sizes(first)[i] = Sizes(hits)[i]
  BY <1>1, <1>2, QueryConstants DEF Sizes
<1>4. IsFiniteSet(1..n)
  BY FS_Interval
<1>5. TokensOf(first) = SumFunctionOnSet(Sizes(first), 1..n)
  BY <1>3, Zenon DEF TokensOf, SumFunction, SumFunctionOnSet, FoldFunction, Sizes
<1>. QED BY <1>3, <1>4, <1>5, SumsAgree, SumTakes DEF first

LEMMA TokensGrow ==
  ASSUME NEW hits \in Seq(Segments), NEW n \in 0..Len(hits)
  PROVE  /\ TokensOf(hits) \in Nat
         /\ TokensOf(SubSeq(hits, 1, n)) <= TokensOf(hits)
         /\ \A i \in DOMAIN hits : Size[hits[i]] <= TokensOf(hits)
<1>. DEFINE all == 1..Len(hits)
<1>1. SubSeq(hits, 1, Len(hits)) = hits /\ Len(hits) \in 0..Len(hits) /\ DOMAIN hits = all
  OBVIOUS
<1>2. TokensOf(hits) = SumFunctionOnSet(Sizes(hits), all) /\ TokensOf(hits) \in Nat
  BY <1>1, TokensOfFirst
<1>3. IsFiniteSet(all) /\ 1..n \in SUBSET all
  BY FS_Interval
<1>4. \A i \in all : Sizes(hits)[i] \in Nat /\ Sizes(hits)[i] = Size[hits[i]]
  BY QueryConstants DEF Sizes
<1>. HIDE DEF all
<1>5. SumFunctionOnSet(Sizes(hits), 1..n) <= SumFunctionOnSet(Sizes(hits), all)
  BY <1>3, <1>4, SumGrows
<1>6. ASSUME NEW i \in all PROVE Size[hits[i]] <= TokensOf(hits)
  <2>1. IsFiniteSet(all \ {i})
    BY <1>3, FS_Subset
  <2>2. SumFunctionOnSet(Sizes(hits), all \ {i}) \in Nat
    BY <1>4, <2>1, SumTakes
  <2>3. TokensOf(hits) = Size[hits[i]] + SumFunctionOnSet(Sizes(hits), all \ {i})
    BY <1>2, <1>3, <1>4, SumTakes
  <2>. QED BY <1>4, <2>2, <2>3
<1>. QED BY <1>1, <1>2, <1>5, <1>6, TokensOfFirst

\* Hits that the budget has room for.
Affordable ==
  {hits \in Seq(Segments) : /\ IsInjective(hits) /\ Len(hits) <= budget.citations
                            /\ TokensOf(hits) <= budget.tokens}

LEMMA BudgetNumbers ==
  ASSUME budget \in Budgets
  PROVE  /\ budget.searches \in Nat \ {0} /\ budget.citations \in Nat \ {0}
         /\ budget.tokens \in Nat \ {0} /\ budget.limit \in Nat \ {0}
BY QueryConstants DEF BudgetType

\* What a selection is: the hits up to the first that does not fit.
LEMMA SelectionOf ==
  ASSUME budget \in Budgets, NEW hits \in Seq(Segments), IsInjective(hits),
         NEW picked \in WithinBudget(hits)
  PROVE  /\ picked \in Affordable
         /\ Len(picked) <= Len(hits)
         /\ \A i \in 1..Len(picked) : picked[i] = hits[i]
         /\ \/ Len(picked) = Len(hits) \/ Len(picked) = budget.citations
            \/ Len(picked) < Len(hits) /\ ~ Fits(hits, Len(picked) + 1)
<1>. DEFINE most == Least(Len(hits), budget.citations)
<1>1. PICK n \in 0..most : /\ picked = SubSeq(hits, 1, n) /\ Fits(hits, n)
                           /\ n < most => ~ Fits(hits, n + 1)
  BY DEF WithinBudget
<1>2. /\ most \in Nat /\ most <= Len(hits) /\ most <= budget.citations
      /\ most = Len(hits) \/ most = budget.citations
  BY BudgetNumbers DEF Least
<1>3. /\ picked \in Seq(Segments) /\ Len(picked) = n /\ DOMAIN picked = 1..n
      /\ \A i \in 1..n : picked[i] = hits[i] /\ i \in DOMAIN hits
  BY <1>1, <1>2
<1>. HIDE DEF most
<1>4. IsInjective(picked)
  BY <1>3 DEF IsInjective
<1>5. TokensOf(picked) <= budget.tokens
  BY <1>1 DEF Fits
<1>6. n = most \/ n < most
  BY <1>1, <1>2
<1>. QED BY <1>1, <1>2, <1>3, <1>4, <1>5, <1>6, BudgetNumbers DEF Affordable

\* Hits that are affordable and come first stay in the selection.
LEMMA SelectionKeeps ==
  ASSUME budget \in Budgets, NEW hits \in Seq(Segments), IsInjective(hits),
         NEW picked \in WithinBudget(hits), NEW some \in Affordable, Starts(some, hits)
  PROVE  Starts(some, picked)
<1>1. /\ picked \in Affordable /\ Len(picked) <= Len(hits)
      /\ \A i \in 1..Len(picked) : picked[i] = hits[i]
      /\ \/ Len(picked) = Len(hits) \/ Len(picked) = budget.citations
         \/ Len(picked) < Len(hits) /\ ~ Fits(hits, Len(picked) + 1)
  BY SelectionOf
<1>2. /\ some \in Seq(Segments) /\ picked \in Seq(Segments)
      /\ Len(some) \in Nat /\ Len(picked) \in Nat /\ Len(hits) \in Nat
      /\ Len(some) <= Len(hits) /\ Len(some) <= budget.citations
      /\ \A i \in 1..Len(some) : hits[i] = some[i]
  BY <1>1 DEF Affordable, Starts
<1>3. ASSUME NEW n \in 0..Len(some) PROVE Fits(hits, n)
  <2>1. SubSeq(hits, 1, n) = SubSeq(some, 1, n)
    BY <1>2
  <2>2. TokensOf(SubSeq(some, 1, n)) <= TokensOf(some) /\ TokensOf(some) \in Nat
    BY <1>2, TokensGrow
  <2>3. TokensOf(SubSeq(some, 1, n)) \in Nat
    BY <1>2, TokensOfFirst
  <2>4. TokensOf(some) <= budget.tokens
    BY DEF Affordable
  <2>5. TokensOf(SubSeq(some, 1, n)) <= budget.tokens
    BY <2>2, <2>3, <2>4, BudgetNumbers
  <2>. QED BY <2>1, <2>5 DEF Fits
<1>4. Len(some) <= Len(picked)
  <2>1. ASSUME Len(picked) < Len(some) PROVE FALSE
    <3>1. Len(picked) + 1 \in 0..Len(some)
      BY <1>2, <2>1
    <3>2. Fits(hits, Len(picked) + 1)
      BY <1>3, <3>1
    <3>. QED BY <1>1, <1>2, <2>1, <3>2, BudgetNumbers
  <2>. QED BY <1>2, <2>1
<1>. QED BY <1>1, <1>2, <1>4 DEF Starts

\* A selection of hits is empty only if the first exceeds the whole budget.
LEMMA SelectionIsEmpty ==
  ASSUME budget \in Budgets, NEW hits \in Seq(Segments), IsInjective(hits), hits # <<>>,
         <<>> \in WithinBudget(hits)
  PROVE  hits[1] \in Segments /\ Size[hits[1]] > budget.tokens
<1>1. Len(hits) \in Nat /\ Len(hits) # 0 /\ 1 \in 0..Len(hits) /\ 1 \in DOMAIN hits
  OBVIOUS
<1>2. ~ Fits(hits, 1)
  BY <1>1, SelectionOf, BudgetNumbers
<1>3. TokensOf(SubSeq(hits, 1, 1)) \in Nat /\ hits[1] \in Segments
  BY <1>1, TokensOfFirst
<1>4. TokensOf(SubSeq(hits, 1, 1)) = Size[hits[1]]
  <2>1. TokensOf(SubSeq(hits, 1, 1)) = SumFunctionOnSet(Sizes(hits), {1})
    <3>1. 1..1 = {1}
      OBVIOUS
    <3>. QED BY <1>1, <3>1, TokensOfFirst
  <2>2. IsFiniteSet({1}) /\ {1} \ {1} = {}
    BY FS_Singleton
  <2>3. Sizes(hits)[1] = Size[hits[1]] /\ Size[hits[1]] \in Nat
    BY <1>1, <1>3, QueryConstants DEF Sizes
  <2>4. \A x \in {1} : Sizes(hits)[x] \in Nat
    BY <2>3
  <2>5. SumFunctionOnSet(Sizes(hits), {1})
          = Sizes(hits)[1] + SumFunctionOnSet(Sizes(hits), {1} \ {1})
    BY <2>2, <2>4, SumTakes
  <2>6. SumFunctionOnSet(Sizes(hits), {1} \ {1}) = 0
    BY <2>2, SumOfNone
  <2>7. SumFunctionOnSet(Sizes(hits), {1}) = Sizes(hits)[1]
    BY <2>3, <2>5, <2>6
  <2>. QED BY <2>1, <2>3, <2>7, Zenon
<1>. QED BY <1>2, <1>3, <1>4, BudgetNumbers DEF Fits

\* The hits that a search selects from, with the evidence there is.
LEMMA MergedIs ==
  ASSUME budget \in Budgets, selected \in Affordable, NEW raw \in RawHits,
         NEW prefer \in BOOLEAN
  PROVE  /\ raw \in Seq(Segments)
         /\ Merged(raw, prefer) \in Seq(Segments) /\ IsInjective(Merged(raw, prefer))
         /\ selected # <<>> => Merged(raw, prefer) # <<>>
         /\ IF prefer THEN Starts(raw, Merged(raw, prefer))
            ELSE Starts(selected, Merged(raw, prefer))
         /\ ToSet(Merged(raw, prefer)) \subseteq ToSet(raw) \cup ToSet(selected)
<1>1. raw \in Seq(Segments) /\ IsInjective(raw)
  <2>1. budget.citations \in Nat
    BY BudgetNumbers
  <2>2. PICK n \in Nat : raw \in [1..n -> Segments] /\ IsInjective(raw)
    BY <2>1 DEF RawHits
  <2>. QED BY <2>2
<1>2. selected \in Seq(Segments) /\ IsInjective(selected)
  BY DEF Affordable
<1>3. CASE prefer
  <2>. DEFINE m == MergeUnique(raw, selected)
  <2>1. m \in Mergers(raw, selected) /\ (selected # <<>> => m # <<>>)
    BY <1>1, <1>2, MergeUniqueMerges
  <2>2. Merged(raw, prefer) = m
    BY <1>3 DEF Merged
  <2>. HIDE DEF m
  <2>. QED BY <1>1, <1>3, <2>1, <2>2 DEF Mergers
<1>4. CASE ~ prefer
  <2>. DEFINE m == MergeUnique(selected, raw)
  <2>1. m \in Mergers(selected, raw)
    BY <1>1, <1>2, MergeUniqueMerges
  <2>2. Merged(raw, prefer) = m
    BY <1>4 DEF Merged
  <2>. HIDE DEF m
  <2>3. selected # <<>> => m # <<>>
    BY <1>2, <2>1 DEF Mergers, Starts
  <2>. QED BY <1>1, <1>4, <2>1, <2>2, <2>3 DEF Mergers
<1>. QED BY <1>3, <1>4

\* What a search selects: it is affordable; it goes on from the evidence, or it
\* is empty only because its best hit exceeds the whole budget.
LEMMA SearchSelects ==
  ASSUME budget \in Budgets, selected \in Affordable, NEW raw \in RawHits,
         NEW prefer \in BOOLEAN, NEW picked \in WithinBudget(Merged(raw, prefer))
  PROVE  /\ picked \in Affordable
         /\ ~ prefer => IsPrefix(selected, picked)
         /\ prefer /\ picked = <<>> /\ selected # <<>> =>
              /\ raw # <<>> /\ raw[1] \in Segments \ ToSet(selected)
              /\ Size[raw[1]] > budget.tokens
<1>. DEFINE m == Merged(raw, prefer)
<1>1. /\ raw \in Seq(Segments) /\ m \in Seq(Segments) /\ IsInjective(m)
      /\ selected # <<>> => m # <<>>
      /\ IF prefer THEN Starts(raw, m) ELSE Starts(selected, m)
      /\ ToSet(m) \subseteq ToSet(raw) \cup ToSet(selected)
  BY MergedIs
<1>. HIDE DEF m
<1>2. picked \in WithinBudget(m)
  BY DEF m
<1>3. picked \in Affordable
  BY <1>1, <1>2, SelectionOf
<1>4. ASSUME ~ prefer PROVE IsPrefix(selected, picked)
  <2>1. Starts(selected, m)
    BY <1>1, <1>4
  <2>2. Starts(selected, picked)
    BY <1>1, <1>2, <2>1, SelectionKeeps
  <2>. QED BY <1>3, <2>2 DEF Starts, IsPrefix, Affordable
<1>5. ASSUME prefer, picked = <<>>, selected # <<>>
      PROVE  /\ raw # <<>> /\ raw[1] \in Segments \ ToSet(selected)
             /\ Size[raw[1]] > budget.tokens
  <2>1. m # <<>> /\ Starts(raw, m)
    BY <1>1, <1>5
  <2>2. m[1] \in Segments /\ Size[m[1]] > budget.tokens
    BY <1>1, <1>2, <1>5, <2>1, SelectionIsEmpty
  <2>3. m[1] \notin ToSet(selected)
    <3>1. ASSUME NEW i \in DOMAIN selected PROVE m[1] # selected[i]
      <4>1. Size[selected[i]] <= TokensOf(selected) /\ TokensOf(selected) \in Nat
        BY TokensGrow DEF Affordable
      <4>2. TokensOf(selected) <= budget.tokens /\ selected[i] \in Segments
        BY DEF Affordable
      <4>3. Size[selected[i]] \in Nat
        BY <4>2, QueryConstants
      <4>4. Size[selected[i]] <= budget.tokens
        BY <4>1, <4>2, <4>3, BudgetNumbers
      <4>. QED BY <2>2, <4>3, <4>4, BudgetNumbers
    <3>. QED BY <3>1 DEF ToSet
  <2>4. m[1] \in ToSet(m)
    BY <1>1, <2>1 DEF ToSet
  <2>5. PICK i \in DOMAIN raw : raw[i] = m[1]
    BY <1>1, <2>3, <2>4 DEF ToSet
  <2>6. 1 \in 1..Len(raw) /\ raw # <<>>
    BY <1>1, <2>5
  <2>7. m[1] = raw[1]
    BY <2>1, <2>6 DEF Starts
  <2>. QED BY <2>2, <2>3, <2>6, <2>7
<1>. QED BY <1>3, <1>4, <1>5

-----------------------------------------------------------------------------
(***************************************************************************)
(* Neighbours.                                                             *)
(***************************************************************************)
LEMMA SetToSeqOf ==
  ASSUME NEW S, IsFiniteSet(S)
  PROVE  SetToSeq(S) \in Seq(S)
<1>1. Cardinality(S) \in Nat /\ ExistsBijection(1..Cardinality(S), S)
  BY FS_CardinalityType, Zenon
<1>2. \E f \in [1..Cardinality(S) -> S] : IsInjective(f)
  BY <1>1, Zenon DEF ExistsBijection, Bijection, Injection
<1>3. SetToSeq(S) \in [1..Cardinality(S) -> S]
  BY <1>2, Zenon DEF SetToSeq
<1>. QED BY <1>1, <1>3

LEMMA BesideIs ==
  ASSUME NEW h
  PROVE  Beside(h) \in Seq(Segments)
<1>. DEFINE near   == {s \in Segments : Version[s] = Version[h]}
            before == {s \in near : Ordinal[s] + 1 = Ordinal[h]}
            after  == {s \in near : Ordinal[h] + 1 = Ordinal[s]}
<1>1. /\ before \subseteq Segments /\ after \subseteq Segments
      /\ Beside(h) = SetToSeq(before) \o SetToSeq(after)
  BY DEF Beside
<1>. HIDE DEF before, after
<1>2. IsFiniteSet(before) /\ IsFiniteSet(after)
  BY <1>1, FS_Subset, QueryConstants, Zenon
<1>3. SetToSeq(before) \in Seq(before) /\ SetToSeq(after) \in Seq(after)
  BY <1>2, SetToSeqOf
<1>4. SetToSeq(before) \in Seq(Segments) /\ SetToSeq(after) \in Seq(Segments)
  BY <1>1, <1>3
<1>. QED BY <1>1, <1>4

\* Segments that fit beside the evidence.
Fitting == {c \in SUBSET Segments : TokensOf(selected) + TokensIn(c) <= budget.tokens}

LEMMA AddNeighborFits ==
  ASSUME budget \in Budgets, selected \in Seq(Segments), NEW c \in Fitting, NEW s \in Segments
  PROVE  AddNeighbor(c, s) \in Fitting
<1>. DEFINE more == c \cup {s}
<1>1. c \in SUBSET Segments /\ more \in SUBSET Segments
  BY DEF Fitting
<1>2. IsFiniteSet(c) /\ IsFiniteSet(more)
  BY <1>1, FS_Subset, QueryConstants, Zenon
<1>3. \A x \in Segments : Size[x] \in Nat
  BY QueryConstants
<1>4. TokensIn(c) \in Nat /\ TokensOf(selected) \in Nat /\ Size[s] \in Nat
  BY <1>1, <1>2, <1>3, SumTakes, TokensGrow DEF TokensIn
<1>5. CASE \/ s \in ToSet(selected) \cup c
           \/ TokensOf(selected) + TokensIn(c) + Size[s] > budget.tokens
  BY <1>5 DEF AddNeighbor
<1>6. CASE ~ (\/ s \in ToSet(selected) \cup c
              \/ TokensOf(selected) + TokensIn(c) + Size[s] > budget.tokens)
  <2>1. AddNeighbor(c, s) = more
    BY <1>6 DEF AddNeighbor
  <2>2. s \in more /\ more \ {s} = c
    BY <1>6
  <2>. HIDE DEF more
  <2>3. TokensIn(more) = Size[s] + TokensIn(more \ {s})
    BY <1>1, <1>2, <1>3, <2>2, SumTakes DEF TokensIn
  <2>4. TokensIn(more) = Size[s] + TokensIn(c)
    BY <2>2, <2>3
  <2>5. TokensOf(selected) + TokensIn(more) <= budget.tokens
    BY <1>4, <1>6, <2>4, BudgetNumbers
  <2>. QED BY <1>1, <2>1, <2>5 DEF Fitting
<1>. QED BY <1>5, <1>6

LEMMA AddNeighborsOfFits ==
  ASSUME budget \in Budgets, selected \in Seq(Segments), NEW c \in Fitting, NEW h \in Segments
  PROVE  AddNeighborsOf(c, h) \in Fitting
<1>. DEFINE n == Len(Beside(h))
            V == Fitting
            step == [p \in (1..n) \X V |-> AddNeighbor(p[2], Beside(h)[p[1]])]
            Solves(g) == g = [s \in SUBSET DOMAIN Beside(h) |->
                                IF s = {} THEN c
                                ELSE AddNeighbor(g[s \ {Max(s)}], Beside(h)[Max(s)])]
            iter == CHOOSE g : Solves(g)
<1>1. n \in Nat /\ DOMAIN Beside(h) = 1..n /\ \A i \in 1..n : Beside(h)[i] \in Segments
  BY BesideIs
<1>2. c \in V
  BY Zenon
<1>3. \A i \in 1..n : \A v \in V : AddNeighbor(v, Beside(h)[i]) \in V
  BY <1>1, AddNeighborFits
<1>. HIDE DEF n, V
<1>4. \A i \in 1..n : \A v \in V : step[<<i, v>>] = AddNeighbor(v, Beside(h)[i])
  OBVIOUS
<1>. HIDE DEF step
<1>5. \A i \in 1..n : \A v \in V : step[<<i, v>>] \in V
  BY <1>3, <1>4
<1>6. PICK g : Folded(g, n, V, c, step)
  BY <1>1, <1>2, <1>5, FoldValues
<1>7. /\ g = [s \in SUBSET (1..n) |-> g[s]]
      /\ \A s \in SUBSET (1..n) :
           /\ g[s] \in V
           /\ g[s] = IF s = {} THEN c ELSE step[<<Max(s), g[s \ {Max(s)}]>>]
  BY <1>6, Zenon DEF Folded
<1>8. ASSUME NEW s \in SUBSET (1..n)
      PROVE  g[s] = IF s = {} THEN c
                    ELSE AddNeighbor(g[s \ {Max(s)}], Beside(h)[Max(s)])
  <2>1. CASE s = {}
    BY <1>7, <2>1, Zenon
  <2>2. CASE s # {}
    <3>1. Max(s) \in 1..n /\ s \ {Max(s)} \in SUBSET (1..n)
      BY <1>1, <2>2, MaxOf
    <3>2. g[s \ {Max(s)}] \in V
      BY <1>7, <3>1
    <3>. QED BY <1>4, <1>7, <2>2, <3>1, <3>2
  <2>. QED BY <2>1, <2>2
<1>9. Solves(iter)
  <2>1. Solves(g)
    BY <1>1, <1>7, <1>8, Zenon
  <2>. QED BY <2>1
<1>10. AddNeighborsOf(c, h) = iter[1..n]
  BY <1>1 DEF AddNeighborsOf, FoldLeft, MapThenFoldSet
<1>. HIDE DEF iter
<1>11. \A s \in SUBSET (1..n) :
         iter[s] = IF s = {} THEN c
                   ELSE AddNeighbor(iter[s \ {Max(s)}], Beside(h)[Max(s)])
  BY <1>1, <1>9, Zenon
<1>12. ASSUME NEW s \in SUBSET (1..n), s # {} => iter[s \ {Max(s)}] \in V
       PROVE  iter[s] \in V
  <2>1. CASE s = {}
    <3>1. iter[s] = c
      BY <1>11, <2>1, Zenon
    <3>. QED BY <1>2, <3>1
  <2>2. CASE s # {}
    <3>1. Max(s) \in 1..n
      BY <1>1, <2>2, MaxOf
    <3>2. iter[s] = AddNeighbor(iter[s \ {Max(s)}], Beside(h)[Max(s)])
      BY <1>11, <2>2
    <3>. QED BY <1>3, <1>12, <2>2, <3>1, <3>2
  <2>. QED BY <2>1, <2>2
<1>13. \A s \in SUBSET (1..n) : iter[s] \in V
  BY <1>1, <1>12, FoldStays
<1>. QED BY <1>10, <1>13 DEF V

LEMMA NeighborsFit ==
  ASSUME budget \in Budgets, selected \in Seq(Segments), selected # <<>>,
         TokensOf(selected) < budget.tokens
  PROVE  Neighbors \in Fitting
<1>. DEFINE n == Len(selected)
            V == Fitting
            step == [p \in (1..n) \X V |-> AddNeighborsOf(p[2], selected[p[1]])]
            Solves(g) == g = [s \in SUBSET DOMAIN selected |->
                                IF s = {} THEN {}
                                ELSE AddNeighborsOf(g[s \ {Max(s)}], selected[Max(s)])]
            iter == CHOOSE g : Solves(g)
<1>1. n \in Nat /\ DOMAIN selected = 1..n /\ \A i \in 1..n : selected[i] \in Segments
  OBVIOUS
<1>2. {} \in V
  BY TokensGrow, SumOfNone, BudgetNumbers DEF Fitting, TokensIn
<1>3. \A i \in 1..n : \A v \in V : AddNeighborsOf(v, selected[i]) \in V
  BY <1>1, AddNeighborsOfFits
<1>. HIDE DEF n, V
<1>4. \A i \in 1..n : \A v \in V : step[<<i, v>>] = AddNeighborsOf(v, selected[i])
  OBVIOUS
<1>. HIDE DEF step
<1>5. \A i \in 1..n : \A v \in V : step[<<i, v>>] \in V
  BY <1>3, <1>4
<1>6. PICK g : Folded(g, n, V, {}, step)
  BY <1>1, <1>2, <1>5, FoldValues
<1>7. /\ g = [s \in SUBSET (1..n) |-> g[s]]
      /\ \A s \in SUBSET (1..n) :
           /\ g[s] \in V
           /\ g[s] = IF s = {} THEN {} ELSE step[<<Max(s), g[s \ {Max(s)}]>>]
  BY <1>6, Zenon DEF Folded
<1>8. ASSUME NEW s \in SUBSET (1..n)
      PROVE  g[s] = IF s = {} THEN {}
                    ELSE AddNeighborsOf(g[s \ {Max(s)}], selected[Max(s)])
  <2>1. CASE s = {}
    BY <1>7, <2>1, Zenon
  <2>2. CASE s # {}
    <3>1. Max(s) \in 1..n /\ s \ {Max(s)} \in SUBSET (1..n)
      BY <1>1, <2>2, MaxOf
    <3>2. g[s \ {Max(s)}] \in V
      BY <1>7, <3>1
    <3>. QED BY <1>4, <1>7, <2>2, <3>1, <3>2
  <2>. QED BY <2>1, <2>2
<1>9. Solves(iter)
  <2>1. Solves(g)
    BY <1>1, <1>7, <1>8, Zenon
  <2>. QED BY <2>1
<1>10. Neighbors = iter[1..n]
  BY <1>1 DEF Neighbors, FoldLeft, MapThenFoldSet
<1>. HIDE DEF iter
<1>11. \A s \in SUBSET (1..n) :
         iter[s] = IF s = {} THEN {}
                   ELSE AddNeighborsOf(iter[s \ {Max(s)}], selected[Max(s)])
  BY <1>1, <1>9, Zenon
<1>12. ASSUME NEW s \in SUBSET (1..n), s # {} => iter[s \ {Max(s)}] \in V
       PROVE  iter[s] \in V
  <2>1. CASE s = {}
    <3>1. iter[s] = {}
      BY <1>11, <2>1, Zenon
    <3>. QED BY <1>2, <3>1
  <2>2. CASE s # {}
    <3>1. Max(s) \in 1..n
      BY <1>1, <2>2, MaxOf
    <3>2. iter[s] = AddNeighborsOf(iter[s \ {Max(s)}], selected[Max(s)])
      BY <1>11, <2>2
    <3>. QED BY <1>3, <1>12, <2>2, <3>1, <3>2
  <2>. QED BY <2>1, <2>2
<1>13. \A s \in SUBSET (1..n) : iter[s] \in V
  BY <1>1, <1>12, FoldStays
<1>. QED BY <1>10, <1>13 DEF V

-----------------------------------------------------------------------------
(***************************************************************************)
(* The groups of the route audit.                                          *)
(***************************************************************************)
LEMMA SumOfZeros ==
  ASSUME NEW f, NEW T, IsFiniteSet(T), \A x \in T : f[x] = 0
  PROVE  SumFunctionOnSet(f, T) = 0
<1>. DEFINE W == {s \in SUBSET T : SumFunctionOnSet(f, s) = 0}
<1>1. ASSUME NEW s \in SUBSET T, \A r \in SUBSET s : r # s => r \in W
      PROVE  s \in W
  <2>1. CASE s = {}
    BY <2>1, SumOfNone
  <2>2. CASE s # {}
    <3>1. PICK x \in s : TRUE
      BY <2>2
    <3>2. IsFiniteSet(s) /\ \A y \in s : f[y] \in Nat
      BY FS_Subset
    <3>3. SumFunctionOnSet(f, s) = f[x] + SumFunctionOnSet(f, s \ {x})
      BY <3>2, SumTakes
    <3>4. s \ {x} \in W
      BY <1>1
    <3>. QED BY <3>3, <3>4
  <2>. QED BY <2>1, <2>2
<1>2. \A s \in SUBSET T : s \in W
  <2>. HIDE DEF W
  <2>. QED BY <1>1, PartsInduction
<1>. QED BY <1>2

Lengths(groups) == [d \in DOMAIN groups |-> Len(groups[d])]

LEMMA AddToGroupCounts ==
  ASSUME NEW D, IsFiniteSet(D), NEW groups \in [D -> Seq(Segments)],
         NEW s \in Segments, Document[s] \in D
  PROVE  /\ AddToGroup(groups, s) \in [D -> Seq(Segments)]
         /\ SumFunctionOnSet(Lengths(groups), D) \in Nat
         /\ SumFunctionOnSet(Lengths(AddToGroup(groups, s)), D)
              = SumFunctionOnSet(Lengths(groups), D) + 1
<1>. DEFINE more == AddToGroup(groups, s)
            d    == Document[s]
            rest == D \ {d}
<1>1. /\ more \in [D -> Seq(Segments)] /\ more[d] = Append(groups[d], s)
      /\ \A e \in rest : more[e] = groups[e]
  BY DEF AddToGroup
<1>. HIDE DEF more
<1>2. /\ \A e \in D : Lengths(groups)[e] \in Nat /\ Lengths(more)[e] \in Nat
      /\ \A e \in rest : Lengths(more)[e] = Lengths(groups)[e]
      /\ Lengths(more)[d] = Lengths(groups)[d] + 1
  BY <1>1 DEF Lengths
<1>3. IsFiniteSet(rest) /\ \A e \in rest : e \in D
  BY FS_Subset
<1>4. SumFunctionOnSet(Lengths(more), rest) = SumFunctionOnSet(Lengths(groups), rest)
  BY <1>2, <1>3, SumsAgree
<1>5. SumFunctionOnSet(Lengths(more), D)
        = Lengths(more)[d] + SumFunctionOnSet(Lengths(more), rest)
  BY <1>2, SumTakes
<1>6. /\ SumFunctionOnSet(Lengths(groups), D)
           = Lengths(groups)[d] + SumFunctionOnSet(Lengths(groups), rest)
      /\ SumFunctionOnSet(Lengths(groups), D) \in Nat
  BY <1>2, SumTakes
<1>7. \A e \in rest : Lengths(groups)[e] \in Nat
  BY <1>2
<1>8. SumFunctionOnSet(Lengths(groups), rest) \in Nat
  BY <1>3, <1>7, SumTakes
<1>9. Lengths(groups)[d] \in Nat
  BY <1>2
<1>10. SumFunctionOnSet(Lengths(more), D) = SumFunctionOnSet(Lengths(groups), D) + 1
  <2>. HIDE DEF d, rest
  <2>. QED BY <1>2, <1>4, <1>5, <1>6, <1>8, <1>9
<1>. QED BY <1>1, <1>6, <1>10 DEF more

\* Every citation is in one group.
LEMMA GroupsCount ==
  ASSUME NEW citations \in Seq(Segments)
  PROVE  /\ IsFiniteSet(DocumentsOf(citations))
         /\ DOMAIN Groups(citations) = DocumentsOf(citations)
         /\ SumFunction([d \in DOMAIN Groups(citations) |-> Len(Groups(citations)[d])])
              = Len(citations)
<1>. DEFINE n == Len(citations)
            D == DocumentsOf(citations)
            V == [D -> Seq(Segments)]
            base == [d \in D |-> <<>>]
            step == [p \in (1..n) \X V |-> AddToGroup(p[2], citations[p[1]])]
            Solves(g) == g = [s \in SUBSET DOMAIN citations |->
                                IF s = {} THEN base
                                ELSE AddToGroup(g[s \ {Max(s)}], citations[Max(s)])]
            iter == CHOOSE g : Solves(g)
            Total(groups) == SumFunctionOnSet(Lengths(groups), D)
<1>1. /\ n \in Nat /\ DOMAIN citations = 1..n
      /\ \A i \in 1..n : citations[i] \in Segments /\ Document[citations[i]] \in D
  BY DEF DocumentsOf, ToSet
<1>2. IsFiniteSet(D)
  <2>1. IsFiniteSet(ToSet(citations))
    <3>1. ToSet(citations) \subseteq Segments
      BY DEF ToSet
    <3>. QED BY <3>1, FS_Subset, QueryConstants, Zenon
  <2>. DEFINE S == ToSet(citations)
              f == [s \in S |-> Document[s]]
  <2>2. f \in Surjection(S, D)
    <3>1. D = {Document[s] : s \in S}
      BY DEF DocumentsOf
    <3>. HIDE DEF S, D
    <3>. QED BY <3>1 DEF Surjection
  <2>. HIDE DEF S, f, D
  <2>3. IsFiniteSet(S)
    BY <2>1 DEF S
  <2>. QED BY <2>2, <2>3, FS_Surjection
<1>3. base \in V /\ Total(base) = 0
  <2>1. base \in V
    OBVIOUS
  <2>2. \A d \in D : Lengths(base)[d] = 0
    BY DEF Lengths
  <2>3. Total(base) = 0
    <3>. HIDE DEF D, base
    <3>. QED BY <1>2, <2>2, SumOfZeros
  <2>. QED BY <2>1, <2>3
<1>4. Groups(citations) = iter[1..n]
  BY <1>1, Zenon DEF Groups, FoldLeft, MapThenFoldSet
<1>. HIDE DEF n, D, base
<1>5. \A i \in 1..n : \A v \in V : /\ AddToGroup(v, citations[i]) \in V
                                 /\ Total(v) \in Nat
                                 /\ Total(AddToGroup(v, citations[i])) = Total(v) + 1
  BY <1>1, <1>2, AddToGroupCounts
<1>. HIDE DEF V, Total
<1>6. \A i \in 1..n : \A v \in V : step[<<i, v>>] = AddToGroup(v, citations[i])
  OBVIOUS
<1>. HIDE DEF step
<1>7. \A i \in 1..n : \A v \in V : step[<<i, v>>] \in V
  BY <1>5, <1>6
<1>8. PICK g : Folded(g, n, V, base, step)
  BY <1>1, <1>3, <1>7, FoldValues
<1>9. /\ g = [s \in SUBSET (1..n) |-> g[s]]
      /\ \A s \in SUBSET (1..n) :
           /\ g[s] \in V
           /\ g[s] = IF s = {} THEN base ELSE step[<<Max(s), g[s \ {Max(s)}]>>]
  BY <1>8, Zenon DEF Folded
<1>10. ASSUME NEW s \in SUBSET (1..n)
       PROVE  g[s] = IF s = {} THEN base
                     ELSE AddToGroup(g[s \ {Max(s)}], citations[Max(s)])
  <2>1. CASE s = {}
    BY <1>9, <2>1, Zenon
  <2>2. CASE s # {}
    <3>1. Max(s) \in 1..n /\ s \ {Max(s)} \in SUBSET (1..n)
      BY <1>1, <2>2, MaxOf
    <3>2. g[s \ {Max(s)}] \in V
      BY <1>9, <3>1
    <3>. QED BY <1>6, <1>9, <2>2, <3>1, <3>2
  <2>. QED BY <2>1, <2>2
<1>11. Solves(iter)
  <2>1. Solves(g)
    BY <1>1, <1>9, <1>10, Zenon
  <2>. QED BY <2>1
<1>. HIDE DEF iter
<1>12. \A s \in SUBSET (1..n) :
         iter[s] = IF s = {} THEN base
                   ELSE AddToGroup(iter[s \ {Max(s)}], citations[Max(s)])
  BY <1>1, <1>11, Zenon
<1>. DEFINE W == {s \in SUBSET (1..n) : iter[s] \in V /\ Total(iter[s]) = Cardinality(s)}
<1>13. IsFiniteSet(1..n) /\ Cardinality(1..n) = n
  BY <1>1, FS_Interval
<1>14. ASSUME NEW s \in SUBSET (1..n), \A r \in SUBSET s : r # s => r \in W
       PROVE  s \in W
  <2>1. CASE s = {}
    <3>1. iter[s] = base
      BY <1>12, <2>1, Zenon
    <3>2. Cardinality(s) = 0
      BY <2>1, FS_EmptySet
    <3>. QED BY <1>3, <3>1, <3>2
  <2>2. CASE s # {}
    <3>. DEFINE x == Max(s)
                r == s \ {x}
    <3>1. x \in s /\ r \in SUBSET s /\ r # s
      BY <1>1, <2>2, MaxOf
    <3>2. iter[s] = AddToGroup(iter[r], citations[x])
      BY <1>12, <2>2
    <3>3. IsFiniteSet(s) /\ Cardinality(s) \in Nat
      BY <1>13, FS_Subset, FS_CardinalityType
    <3>. HIDE DEF x
    <3>4. Cardinality(r) = Cardinality(s) - 1
      BY <3>1, <3>3, FS_RemoveElement
    <3>. HIDE DEF r
    <3>5. iter[r] \in V /\ Total(iter[r]) = Cardinality(r)
      BY <1>14, <3>1
    <3>6. x \in 1..n
      BY <3>1
    <3>7. /\ AddToGroup(iter[r], citations[x]) \in V
          /\ Total(AddToGroup(iter[r], citations[x])) = Total(iter[r]) + 1
      BY <1>5, <3>5, <3>6, Zenon
    <3>8. Total(iter[s]) = Cardinality(s)
      BY <3>2, <3>3, <3>4, <3>5, <3>7
    <3>. QED BY <3>2, <3>7, <3>8
  <2>. QED BY <2>1, <2>2
<1>15. \A s \in SUBSET (1..n) : s \in W
  <2>. HIDE DEF W
  <2>. QED BY <1>13, <1>14, PartsInduction
<1>16. iter[1..n] \in V /\ Total(iter[1..n]) = n
  BY <1>13, <1>15
<1>17. DOMAIN iter[1..n] = D
  BY <1>16 DEF V
<1>18. SumFunction([d \in DOMAIN iter[1..n] |-> Len(iter[1..n][d])]) = Total(iter[1..n])
  BY <1>17, Zenon DEF SumFunction, SumFunctionOnSet, FoldFunction, Lengths, Total
<1>. QED BY <1>2, <1>4, <1>16, <1>17, <1>18 DEF n, D

-----------------------------------------------------------------------------
(***************************************************************************)
(* The inductive invariant.                                                *)
(***************************************************************************)

\* Calls are under way while the model runs, or after the query has failed;
\* the first search has not been made at the question.
Phased ==
  /\ pc \notin {"model", "failed"} => \A t \in Threads : calls[t].at = "idle"
  /\ pc = "question" => searchCount = 0

\* The tool box keeps its budget.
Within == searchCount <= budget.searches /\ selected \in Affordable

\* So does what a call is about to store; it selected from the evidence as it
\* is, if no other call has stored since.
Selected(t) ==
  calls[t].at = "merged" =>
    /\ calls[t].raw \in RawHits /\ calls[t].picked \in Affordable
    /\ ~ calls[t].stale =>
         calls[t].picked \in WithinBudget(Merged(calls[t].raw, calls[t].prefer))

Ready == \A t \in Threads : Selected(t)

\* The neighbours leave room for the evidence until a call stores.
Room ==
  pc \in {"model", "answer"} /\ ~ late => context \in Fitting

\* What the answer promises.
Answered == OverBudgetOnlyIfLate /\ AnswerIsGrounded /\ AuditsAgree

QueryInv == QueryTypeOK /\ Phased /\ Within /\ Ready /\ Room /\ Answered

CallType == [at : {"idle", "searching", "merged"}, prefer : BOOLEAN,
             raw : Seq(Segments), picked : Seq(Segments), stale : BOOLEAN]

-----------------------------------------------------------------------------
(***************************************************************************)
(* Steps.                                                                  *)
(***************************************************************************)
LEMMA BudgetStays ==
  ASSUME [QueryNext]_queryVars
  PROVE  /\ budget' = budget /\ multiHop' = multiHop /\ runtime' = runtime
         /\ Affordable' = Affordable /\ RawHits' = RawHits
<1>1. budget' = budget /\ multiHop' = multiHop /\ runtime' = runtime
  BY DEF QueryNext, queryVars, toolbox, Seed, SeedQuestion, SeedEntity, EndEntities,
         SeedPlanned, EndPlanned, Followup, ExpandNeighbors, Model, CallSearch, CallMissing,
         CallMerge, CallStore, EndModel, Answer, Abandon, Fail
<1>. QED BY <1>1 DEF Affordable, RawHits

\* Who changes the evidence.
LEMMA SelectedChanges ==
  ASSUME [QueryNext]_queryVars, selected' # selected
  PROVE  \/ pc \in {"question", "planned"} /\ Search(FALSE) /\ UNCHANGED calls
         \/ pc = "entities" /\ Search(TRUE) /\ UNCHANGED calls
         \/ \E t \in Threads : CallStore(t)
BY DEF QueryNext, queryVars, toolbox, Seed, SeedQuestion, SeedEntity, EndEntities,
       SeedPlanned, EndPlanned, Followup, ExpandNeighbors, Model, CallSearch, CallMissing,
       CallMerge, EndModel, Answer, Abandon, Fail

LEMMA SearchStep ==
  ASSUME QueryInv, NEW prefer \in BOOLEAN, Search(prefer)
  PROVE  /\ selected' \in Affordable
         /\ ~ prefer => IsPrefix(selected, selected')
         /\ prefer /\ selected' = <<>> /\ selected # <<>> =>
              \E s \in Segments \ ToSet(selected) : Size[s] > budget.tokens
<1>1. PICK raw \in RawHits : selected' \in WithinBudget(Merged(raw, prefer))
  BY DEF Search
<1>2. budget \in Budgets /\ selected \in Affordable
  BY DEF QueryInv, QueryTypeOK, Within
<1>. DEFINE picked == selected'
<1>3. picked \in WithinBudget(Merged(raw, prefer))
  BY <1>1
<1>. HIDE DEF picked
<1>4. /\ picked \in Affordable
      /\ ~ prefer => IsPrefix(selected, picked)
      /\ prefer /\ picked = <<>> /\ selected # <<>> =>
           /\ raw[1] \in Segments \ ToSet(selected)
           /\ Size[raw[1]] > budget.tokens
  BY <1>2, <1>3, SearchSelects
<1>. QED BY <1>4 DEF picked

LEMMA IdleIsCall == IdleCall \in CallType
<1>1. <<>> \in Seq(Segments)
  OBVIOUS
<1>. QED BY <1>1 DEF IdleCall, CallType

LEMMA QueryStarts ==
  ASSUME QueryInit
  PROVE  QueryInv
<1>. USE DEF QueryInit
<1>1. QueryTypeOK
  <2>1. calls \in [Threads -> CallType] /\ selected \in Seq(Segments)
    BY IdleIsCall
  <2>. QED BY <2>1, QueryConstants DEF QueryTypeOK, Stages, CallType, Plans
<1>2. Phased
  BY DEF Phased, IdleCall
<1>3. Within
  <2>1. /\ selected \in Seq(Segments) /\ IsInjective(selected) /\ Len(selected) = 0
        /\ DOMAIN selected = {}
    BY DEF IsInjective
  <2>2. TokensOf(selected) = 0
    BY <2>1, SumOfNone, Zenon DEF TokensOf, SumFunction, SumFunctionOnSet, FoldFunction
  <2>3. budget \in Budgets
    OBVIOUS
  <2>. QED BY <2>1, <2>2, <2>3, BudgetNumbers DEF Within, Affordable
<1>4. Ready
  BY DEF Ready, Selected, IdleCall
<1>5. Room
  BY DEF Room
<1>6. Answered
  BY DEF Answered, OverBudgetOnlyIfLate, AnswerIsGrounded, AuditsAgree
<1>. QED BY <1>1, <1>2, <1>3, <1>4, <1>5, <1>6 DEF QueryInv

LEMMA WithinStays ==
  ASSUME QueryInv, [QueryNext]_queryVars
  PROVE  Within'
<1>1. /\ Affordable' = Affordable /\ budget' = budget /\ budget \in Budgets
      /\ selected \in Affordable /\ searchCount \in Nat /\ searchCount <= budget.searches
      /\ budget.searches \in Nat \ {0}
  BY BudgetStays, BudgetNumbers DEF QueryInv, QueryTypeOK, Within
<1>2. searchCount' <= budget.searches
  <2>1. CASE SeedQuestion
    <3>1. searchCount = 0 /\ searchCount' = searchCount + 1
      BY <2>1 DEF SeedQuestion, Search, QueryInv, Phased
    <3>. QED BY <1>1, <3>1
  <2>2. CASE Followup("entities", TRUE) \/ Followup("planned", FALSE)
    <3>1. searchCount < budget.searches /\ searchCount' \in {searchCount, searchCount + 1}
      BY <2>2, Zenon DEF Followup, Search, toolbox
    <3>. QED BY <1>1, <3>1
  <2>3. CASE \E t \in Threads : CallSearch(t)
    BY <1>1, <2>3 DEF CallSearch
  <2>4. CASE searchCount' = searchCount
    BY <1>1, <2>4
  <2>. QED
    BY <2>1, <2>2, <2>3, <2>4 DEF QueryNext, queryVars, toolbox, Seed, SeedEntity,
       EndEntities, SeedPlanned, EndPlanned, ExpandNeighbors, Model, CallMissing, CallMerge,
       CallStore, EndModel, Answer, Abandon, Fail
<1>3. selected' \in Affordable
  <2>1. CASE selected' = selected
    BY <1>1, <2>1
  <2>2. CASE \E t \in Threads : CallStore(t)
    BY <2>2 DEF CallStore, QueryInv, Ready, Selected
  <2>3. CASE Search(TRUE) \/ Search(FALSE)
    BY <2>3, SearchStep
  <2>. QED BY <2>1, <2>2, <2>3, SelectedChanges
<1>. QED BY <1>1, <1>2, <1>3 DEF Within

LEMMA TypesStay ==
  ASSUME QueryInv, [QueryNext]_queryVars
  PROVE  QueryTypeOK'
<1>. USE DEF QueryInv
<1>1. QueryTypeOK /\ budget' = budget /\ multiHop' = multiHop /\ runtime' = runtime
  BY BudgetStays
<1>2. selected' \in Seq(Segments)
  BY WithinStays DEF Within, Affordable
<1>3. calls' \in [Threads -> CallType]
  <2>1. calls \in [Threads -> CallType] /\ IdleCall \in CallType
    BY <1>1, IdleIsCall DEF QueryTypeOK, CallType
  <2>2. ASSUME NEW t \in Threads, CallSearch(t) PROVE calls' \in [Threads -> CallType]
    <3>1. PICK p \in BOOLEAN :
            calls' = [calls EXCEPT ![t] = [IdleCall EXCEPT !.at = "searching", !.prefer = p]]
      BY <2>2 DEF CallSearch
    <3>2. [IdleCall EXCEPT !.at = "searching", !.prefer = p] \in CallType
      BY <2>1 DEF CallType
    <3>. QED BY <2>1, <3>1, <3>2
  <2>3. ASSUME NEW t \in Threads, CallMissing(t) PROVE calls' \in [Threads -> CallType]
    <3>1. calls' = [calls EXCEPT ![t] = IdleCall]
      BY <2>3 DEF CallMissing
    <3>. QED BY <2>1, <3>1
  <2>4. ASSUME NEW t \in Threads, CallMerge(t) PROVE calls' \in [Threads -> CallType]
    <3>1. PICK raw \in RawHits : \E picked \in WithinBudget(Merged(raw, calls[t].prefer)) :
            calls' = [calls EXCEPT ![t].at = "merged", ![t].raw = raw, ![t].picked = picked]
      BY <2>4 DEF CallMerge
    <3>2. PICK picked \in WithinBudget(Merged(raw, calls[t].prefer)) :
            calls' = [calls EXCEPT ![t].at = "merged", ![t].raw = raw, ![t].picked = picked]
      BY <3>1
    <3>3. /\ budget \in Budgets /\ selected \in Affordable /\ calls[t].prefer \in BOOLEAN
      BY <1>1, <2>1 DEF QueryTypeOK, Within, CallType
    <3>4. raw \in Seq(Segments) /\ picked \in Seq(Segments)
      BY <3>3, MergedIs, SearchSelects DEF Affordable
    <3>. QED BY <2>1, <3>2, <3>4 DEF CallType
  <2>5. ASSUME NEW t \in Threads, CallStore(t) PROVE calls' \in [Threads -> CallType]
    BY <2>1, <2>5 DEF CallStore, CallType
  <2>6. CASE UNCHANGED calls
    BY <2>1, <2>6
  <2>. QED
    BY <2>2, <2>3, <2>4, <2>5, <2>6 DEF QueryNext, queryVars, toolbox, Seed, SeedQuestion,
       SeedEntity, EndEntities, SeedPlanned, EndPlanned, Followup, ExpandNeighbors, Model,
       EndModel, Answer, Abandon, Fail
<1>4. context' \subseteq Segments
  <2>1. CASE ExpandNeighbors
    <3>1. Neighbors \subseteq Segments
      <4>1. CASE selected = <<>> \/ ~ (TokensOf(selected) < budget.tokens)
        BY <4>1 DEF Neighbors
      <4>2. CASE selected # <<>> /\ TokensOf(selected) < budget.tokens
        BY <1>1, <4>2, NeighborsFit DEF Fitting, QueryTypeOK
      <4>. QED BY <4>1, <4>2
    <3>. QED BY <2>1, <3>1 DEF ExpandNeighbors
  <2>2. CASE UNCHANGED context
    BY <1>1, <2>2 DEF QueryTypeOK
  <2>. QED
    BY <2>1, <2>2 DEF QueryNext, queryVars, toolbox, Seed, SeedQuestion,
       SeedEntity, EndEntities, SeedPlanned, EndPlanned, Followup, Model, CallSearch,
       CallMissing, CallMerge, CallStore, EndModel, Answer, Abandon, Fail
<1>5. searchCount' \in Nat /\ left' \in Nat
  <2>1. CASE SeedQuestion
    <3>1. /\ searchCount = 0 /\ searchCount' = searchCount + 1
          /\ left' = budget.searches - searchCount'
      BY <2>1 DEF SeedQuestion, Search, Phased
    <3>2. budget.searches \in Nat \ {0}
      BY <1>1, BudgetNumbers DEF QueryTypeOK
    <3>. QED BY <3>1, <3>2
  <2>2. CASE ~ SeedQuestion
    <3>1. \/ left > 0 /\ left' = left - 1 /\ searchCount' \in {searchCount, searchCount + 1}
          \/ left' \in {left, 3, 0} /\ searchCount' \in {searchCount, searchCount + 1}
      BY <1>1, <2>2, Zenon DEF QueryNext, queryVars, toolbox, Seed, SeedEntity, EndEntities,
         SeedPlanned, EndPlanned, Followup, Search, ExpandNeighbors, Model, CallSearch,
         CallMissing, CallMerge, CallStore, EndModel, Answer, Abandon, Fail, PlanLength
    <3>2. left \in Nat /\ searchCount \in Nat
      BY <1>1 DEF QueryTypeOK
    <3>. QED BY <3>1, <3>2
  <2>. QED BY <2>1, <2>2
<1>6. pc' \in Stages /\ late' \in BOOLEAN /\ searched' \subseteq Queries
  BY <1>1 DEF QueryTypeOK, Stages, QueryNext, queryVars, toolbox, Seed, SeedQuestion,
     SeedEntity, EndEntities, SeedPlanned, EndPlanned, Followup, ExpandNeighbors,
     Model, CallSearch, CallMissing, CallMerge, CallStore, EndModel, Answer, Abandon, Fail
<1>. QED BY <1>1, <1>2, <1>3, <1>4, <1>5, <1>6 DEF QueryTypeOK, CallType

LEMMA PhasedStays ==
  ASSUME QueryInv, [QueryNext]_queryVars
  PROVE  Phased'
<1>. USE DEF QueryInv
<1>1. Phased /\ QueryTypeOK
  OBVIOUS
<1>2. CASE calls' = calls
  <2>1. pc' \notin {"model", "failed"} => pc \notin {"model", "failed"} \/ EndModel
    BY <1>2 DEF QueryNext, queryVars, toolbox, Seed, SeedQuestion,
       SeedEntity, EndEntities, SeedPlanned, EndPlanned, Followup, ExpandNeighbors, Model,
       CallSearch, CallMissing, CallMerge, CallStore, EndModel, Answer, Abandon, Fail
  <2>2. pc' = "question" => pc = "question" /\ searchCount' = searchCount
    BY DEF QueryNext, queryVars, toolbox, Seed, SeedQuestion,
       SeedEntity, EndEntities, SeedPlanned, EndPlanned, Followup, ExpandNeighbors, Model,
       CallSearch, CallMissing, CallMerge, CallStore, EndModel, Answer, Abandon, Fail
  <2>. QED BY <1>1, <1>2, <2>1, <2>2 DEF Phased, EndModel
<1>3. CASE calls' # calls
  <2>1. PICK t \in Threads : CallSearch(t) \/ CallMissing(t) \/ CallMerge(t) \/ CallStore(t)
    BY <1>3 DEF QueryNext, queryVars, toolbox, Seed, SeedQuestion,
       SeedEntity, EndEntities, SeedPlanned, EndPlanned, Followup, ExpandNeighbors, Model,
       EndModel, Answer, Abandon, Fail
  <2>2. pc \in {"model", "failed"} /\ pc' = pc
    BY <1>1, <2>1 DEF Phased, CallSearch, CallMissing, CallMerge, CallStore
  <2>. QED BY <2>2 DEF Phased
<1>. QED BY <1>2, <1>3

LEMMA ReadyStays ==
  ASSUME QueryInv, [QueryNext]_queryVars
  PROVE  Ready'
<1>. USE DEF QueryInv
<1>1. /\ Affordable' = Affordable /\ RawHits' = RawHits /\ budget' = budget
      /\ budget \in Budgets /\ selected \in Affordable /\ Ready /\ Phased
      /\ calls \in [Threads -> CallType]
  BY BudgetStays DEF QueryTypeOK, Within, CallType
<1>. SUFFICES ASSUME NEW t \in Threads PROVE Selected(t)'
  BY DEF Ready
<1>2. CASE CallMerge(t)
  <2>1. PICK raw \in RawHits : \E picked \in WithinBudget(Merged(raw, calls[t].prefer)) :
          calls' = [calls EXCEPT ![t].at = "merged", ![t].raw = raw, ![t].picked = picked]
    BY <1>2 DEF CallMerge
  <2>2. PICK prefer \in BOOLEAN : prefer = calls[t].prefer
    BY <1>1 DEF CallType
  <2>3. PICK picked \in WithinBudget(Merged(raw, prefer)) :
          calls' = [calls EXCEPT ![t].at = "merged", ![t].raw = raw, ![t].picked = picked]
    BY <2>1, <2>2
  <2>4. calls'[t].raw = raw /\ calls'[t].picked = picked /\ calls'[t].prefer = prefer
    BY <1>1, <2>2, <2>3 DEF CallType
  <2>5. picked \in Affordable
    BY <1>1, SearchSelects
  <2>6. selected' = selected
    BY <1>2 DEF CallMerge, toolbox
  <2>7. WithinBudget(Merged(raw, prefer))' = WithinBudget(Merged(raw, prefer))
    BY <1>1, <2>6 DEF WithinBudget, Merged, MergeUnique, Fits
  <2>. QED BY <1>1, <2>4, <2>5, <2>7 DEF Selected
<1>3. CASE calls'[t] = calls[t] /\ selected' = selected
  <2>1. Selected(t)
    BY <1>1 DEF Ready
  <2>2. PICK c : c = calls[t]
    OBVIOUS
  <2>3. calls'[t] = c
    BY <1>3, <2>2
  <2>4. WithinBudget(Merged(c.raw, c.prefer))' = WithinBudget(Merged(c.raw, c.prefer))
    BY <1>1, <1>3 DEF WithinBudget, Merged, MergeUnique, Fits
  <2>. QED BY <1>1, <2>1, <2>2, <2>3, <2>4 DEF Selected
<1>4. CASE calls'[t].at # "merged"
  BY <1>4 DEF Selected
<1>5. ASSUME NEW s \in Threads, CallStore(s), s # t PROVE Selected(t)'
  <2>1. calls[t] \in CallType /\ calls'[t] = [calls[t] EXCEPT !.stale = @ \/ calls[t].at = "merged"]
    BY <1>1, <1>5 DEF CallStore
  <2>2. /\ calls'[t].at = calls[t].at /\ calls'[t].raw = calls[t].raw
        /\ calls'[t].picked = calls[t].picked
        /\ calls[t].at = "merged" => calls'[t].stale
    BY <2>1 DEF CallType
  <2>3. Selected(t)
    BY <1>1 DEF Ready
  <2>. QED BY <1>1, <2>2, <2>3 DEF Selected
<1>6. ASSUME NEW s \in Threads, CallSearch(s) \/ CallMissing(s) \/ CallMerge(s), s # t
      PROVE  calls'[t] = calls[t] /\ selected' = selected
  BY <1>1, <1>6 DEF CallSearch, CallMissing, CallMerge, toolbox
<1>7. ASSUME CallSearch(t) \/ CallMissing(t) \/ CallStore(t)
      PROVE  calls'[t].at # "merged"
  <2>1. CASE CallSearch(t)
    BY <1>1, <2>1 DEF CallSearch, IdleCall
  <2>2. CASE CallMissing(t)
    BY <1>1, <2>2 DEF CallMissing, IdleCall
  <2>3. CASE CallStore(t)
    <3>1. calls'[t] = IdleCall
      BY <2>3, Zenon DEF CallStore
    <3>. QED BY <3>1 DEF IdleCall
  <2>. QED BY <1>7, <2>1, <2>2, <2>3
<1>8. CASE \E s \in Threads : CallSearch(s) \/ CallMissing(s) \/ CallMerge(s) \/ CallStore(s)
  BY <1>2, <1>3, <1>4, <1>5, <1>6, <1>7, <1>8
<1>9. CASE pc \notin {"model", "failed"} /\ calls' = calls
  <2>1. calls'[t].at # "merged"
    BY <1>1, <1>9 DEF Phased
  <2>. QED BY <1>4, <2>1
<1>10. CASE UNCHANGED <<calls, selected>>
  BY <1>3, <1>10
<1>. QED
  BY <1>8, <1>9, <1>10 DEF QueryNext, queryVars, toolbox, Seed, SeedQuestion, SeedEntity,
     EndEntities, SeedPlanned, EndPlanned, Followup, ExpandNeighbors, Model,
     EndModel, Answer, Abandon, Fail

LEMMA RoomStays ==
  ASSUME QueryInv, [QueryNext]_queryVars
  PROVE  Room'
<1>. USE DEF QueryInv
<1>1. /\ budget' = budget /\ budget \in Budgets /\ Room
      /\ selected \in Affordable /\ selected \in Seq(Segments) /\ context \subseteq Segments
  BY BudgetStays DEF QueryTypeOK, Within
<1>2. CASE ExpandNeighbors
  <2>1. Neighbors \in Fitting
    <3>1. CASE selected = <<>> \/ ~ (TokensOf(selected) < budget.tokens)
      <4>1. TokensIn({}) = 0 /\ TokensOf(selected) \in Nat /\ TokensOf(selected) <= budget.tokens
        BY <1>1, SumOfNone, TokensGrow DEF TokensIn, Affordable
      <4>2. Neighbors = {}
        BY <3>1 DEF Neighbors
      <4>. QED BY <4>1, <4>2 DEF Fitting
    <3>2. CASE selected # <<>> /\ TokensOf(selected) < budget.tokens
      BY <1>1, <3>2, NeighborsFit
    <3>. QED BY <3>1, <3>2
  <2>2. selected' = selected /\ context' = Neighbors
    BY <1>2 DEF ExpandNeighbors, toolbox
  <2>3. Fitting' = Fitting
    BY <1>1, <2>2 DEF Fitting
  <2>. QED BY <2>1, <2>2, <2>3 DEF Room
<1>3. CASE \E t \in Threads : CallStore(t)
  BY <1>3 DEF CallStore, Room
<1>4. CASE UNCHANGED <<context, selected, late>> /\ pc \in {"model", "answer"}
  <2>1. Fitting' = Fitting
    BY <1>1, <1>4 DEF Fitting
  <2>. QED BY <1>1, <1>4, <2>1 DEF Room
<1>5. CASE pc' \notin {"model", "answer"}
  BY <1>5 DEF Room
<1>. QED
  BY <1>1, <1>2, <1>3, <1>4, <1>5 DEF QueryNext, queryVars, toolbox, Seed, SeedQuestion, SeedEntity,
     EndEntities, SeedPlanned, EndPlanned, Followup, Model, CallSearch, CallMissing, CallMerge,
     EndModel, Answer, Abandon, Fail

-----------------------------------------------------------------------------
(***************************************************************************)
(* The answer and its audits.                                              *)
(***************************************************************************)

\* Citations come from several documents only if there are several.
LEMMA OneIsFew ==
  ASSUME NEW citations \in Seq(Segments), Len(citations) = 1
  PROVE  Few(citations)
<1>1. ToSet(citations) = {citations[1]}
  BY DEF ToSet
<1>2. DocumentsOf(citations) = {Document[citations[1]]}
  BY <1>1 DEF DocumentsOf
<1>3. Cardinality({Document[citations[1]]}) = 1
  BY FS_Singleton
<1>. QED BY <1>2, <1>3 DEF Few

LEMMA StatusOf ==
  ASSUME NEW required \in BOOLEAN, NEW citations \in Seq(Segments)
  PROVE  LET status == HopStatus(required, citations) IN
         /\ (status = "no_evidence") <=> (citations = <<>>)
         /\ (status = "insufficient_multi_document_evidence") <=>
              (required /\ citations # <<>> /\ Few(citations))
         /\ (status = "supported_multi_document") <=>
              (required /\ citations # <<>> /\ ~ Few(citations) /\ BridgeTerms(citations) # {})
<1>1. Few(citations) => BridgeTerms(citations) = {}
  BY DEF BridgeTerms
<1>. QED BY <1>1 DEF HopStatus

LEMMA CoverageOf ==
  ASSUME NEW citations \in Seq(Segments)
  PROVE  /\ (Coverage(citations) = "no_evidence") <=> (citations = <<>>)
         /\ (Coverage(citations) = "multi_document") <=> (citations # <<>> /\ ~ Few(citations))
         /\ (Coverage(citations) \in {"single_segment", "single_document"}) <=>
              (citations # <<>> /\ Few(citations))
BY OneIsFew DEF Coverage

LEMMA AnswersWell ==
  ASSUME QueryInv, Answer
  PROVE  Answered'
<1>. USE DEF QueryInv
<1>1. /\ pc = "answer" /\ pc' = "done"
      /\ UNCHANGED <<runtime, multiHop, budget, toolbox, searched, left, context, calls, late>>
  BY DEF Answer
<1>2. PICK said \in Mentions, intime \in BOOLEAN :
        LET tokens == TokensOf(selected) + TokensIn(context) IN
        result' =
          [citations |-> selected,
           mentions  |-> IF selected = <<>> THEN {} ELSE Ledger(said, selected),
           abstains  |-> selected = <<>>,
           evidence  |-> tokens,
           hops      |-> HopAudit(multiHop, selected),
           route     |-> RouteAudit(selected, context),
           conflicts |-> Conflicts(selected),
           within    |-> /\ searchCount <= budget.searches
                         /\ Len(selected) <= budget.citations
                         /\ tokens <= budget.tokens /\ intime]
  BY DEF Answer
<1>3. /\ result'.citations = selected /\ result'.abstains = (selected = <<>>)
      /\ result'.mentions = IF selected = <<>> THEN {} ELSE Ledger(said, selected)
      /\ result'.evidence = TokensOf(selected) + TokensIn(context)
      /\ result'.hops = HopAudit(multiHop, selected)
      /\ result'.route = RouteAudit(selected, context)
      /\ result'.within => TokensOf(selected) + TokensIn(context) <= budget.tokens
  BY <1>2
<1>4. selected \in Seq(Segments) /\ multiHop \in BOOLEAN /\ budget \in Budgets
  BY DEF QueryTypeOK
<1>5. OverBudgetOnlyIfLate'
  <2>1. ~ late => TokensOf(selected) + TokensIn(context) <= budget.tokens
    BY <1>1 DEF Room, Fitting
  <2>2. TokensOf(selected) + TokensIn(context) \in Nat /\ budget.tokens \in Nat
    <3>1. IsFiniteSet(context) /\ context \subseteq Segments
      BY FS_Subset, QueryConstants, Zenon DEF QueryTypeOK
    <3>2. TokensIn(context) \in Nat
      BY <3>1, SumTakes, QueryConstants DEF TokensIn
    <3>. QED BY <1>4, <3>2, TokensGrow, BudgetNumbers
  <2>3. late' = late /\ budget' = budget
    BY <1>1
  <2>. DEFINE tokens == TokensOf(selected) + TokensIn(context)
  <2>4. /\ ~ late => tokens <= budget.tokens
        /\ tokens \in Nat /\ budget.tokens \in Nat
        /\ result'.evidence = tokens
        /\ result'.within => tokens <= budget.tokens
    BY <1>3, <2>1, <2>2
  <2>. HIDE DEF tokens
  <2>. QED BY <2>3, <2>4 DEF OverBudgetOnlyIfLate
<1>6. AnswerIsGrounded'
  <2>1. CASE selected = <<>>
    BY <1>3, <2>1 DEF AnswerIsGrounded
  <2>2. CASE selected # <<>>
    <3>1. ToSet(selected) # {}
      BY <1>4, <2>2 DEF ToSet
    <3>2. Ledger(said, selected) \cap ToSet(selected) # {}
      BY <3>1 DEF Ledger
    <3>. QED BY <1>3, <2>2, <3>2 DEF AnswerIsGrounded
  <2>. QED BY <2>1, <2>2
<1>7. AuditsAgree'
  <2>1. /\ result'.hops.status = HopStatus(multiHop, selected)
        /\ result'.hops.documents = Cardinality(DocumentsOf(selected))
        /\ result'.hops.bridges = BridgeTerms(selected)
        /\ result'.route.coverage = Coverage(selected)
        /\ result'.route.groups = Groups(selected)
        /\ result'.abstains = (selected = <<>>) /\ result'.citations = selected
        /\ multiHop' = multiHop
    BY <1>1, <1>3 DEF HopAudit, RouteAudit
  <2>2. /\ DOMAIN Groups(selected) = DocumentsOf(selected)
        /\ SumFunction([d \in DOMAIN Groups(selected) |-> Len(Groups(selected)[d])]) = Len(selected)
    BY <1>4, GroupsCount
  <2>3. /\ (Coverage(selected) = "no_evidence") <=> (selected = <<>>)
        /\ (Coverage(selected) = "multi_document") <=> (selected # <<>> /\ ~ Few(selected))
        /\ (Coverage(selected) \in {"single_segment", "single_document"}) <=>
             (selected # <<>> /\ Few(selected))
    BY <1>4, CoverageOf
  <2>4. /\ (HopStatus(multiHop, selected) = "no_evidence") <=> (selected = <<>>)
        /\ (HopStatus(multiHop, selected) = "insufficient_multi_document_evidence") <=>
             (multiHop /\ selected # <<>> /\ Few(selected))
        /\ (HopStatus(multiHop, selected) = "supported_multi_document") <=>
             (multiHop /\ selected # <<>> /\ ~ Few(selected) /\ BridgeTerms(selected) # {})
    BY <1>4, StatusOf
  <2>5. SumFunction([d \in DOMAIN result'.route.groups |-> Len(result'.route.groups[d])])
          = Len(result'.citations)
    BY <2>1, <2>2
  <2>6. result'.hops.documents = Cardinality(DOMAIN result'.route.groups)
    BY <2>1, <2>2
  <2>. QED BY <1>4, <2>1, <2>3, <2>4, <2>5, <2>6 DEF AuditsAgree
<1>. QED BY <1>5, <1>6, <1>7 DEF Answered

LEMMA AnsweredStays ==
  ASSUME QueryInv, [QueryNext]_queryVars
  PROVE  Answered'
<1>1. CASE Answer
  BY <1>1, AnswersWell
<1>2. CASE pc' # "done"
  BY <1>2 DEF Answered, OverBudgetOnlyIfLate, AnswerIsGrounded, AuditsAgree
<1>3. CASE pc' = "done" /\ ~ Answer
  <2>1. UNCHANGED queryVars
    <3>1. pc = "done" => \A t \in Threads : calls[t].at = "idle"
      BY DEF QueryInv, Phased
    <3>. QED BY <1>3, <3>1 DEF QueryNext, queryVars, toolbox, Seed, SeedQuestion, SeedEntity,
         EndEntities, SeedPlanned, EndPlanned, Followup, ExpandNeighbors, Model, CallSearch,
         CallMissing, CallMerge, CallStore, EndModel, Abandon, Fail
  <2>. QED BY <2>1 DEF QueryInv, queryVars, Answered, OverBudgetOnlyIfLate, AnswerIsGrounded,
           AuditsAgree
<1>. QED BY <1>1, <1>2, <1>3

LEMMA QueryInvHolds == QuerySpec => []QueryInv
<1>1. QueryInit => QueryInv
  BY QueryStarts
<1>2. QueryInv /\ [QueryNext]_queryVars => QueryInv'
  BY TypesStay, PhasedStays, WithinStays, ReadyStays, RoomStays, AnsweredStays DEF QueryInv
<1>. QED BY <1>1, <1>2, PTL DEF QuerySpec

-----------------------------------------------------------------------------
(***************************************************************************)
(* Theorems about queries.                                                 *)
(***************************************************************************)

\* Evidence, calls and stages keep their types.
THEOREM QueryTypeCorrect == QuerySpec => []QueryTypeOK
<1>1. QueryInv => QueryTypeOK
  BY DEF QueryInv
<1>. QED BY <1>1, QueryInvHolds, PTL

\* The tool box stays within its budget of searches, citations and tokens and
\* holds no segment twice, for any number of parallel calls.
THEOREM SearchesStayWithinBudget == QuerySpec => []EvidenceWithinBudget
<1>1. QueryInv => EvidenceWithinBudget
  BY DEF QueryInv, Within, Affordable, EvidenceWithinBudget
<1>. QED BY <1>1, QueryInvHolds, PTL

\* The stored answer is over its token budget only if the model stored evidence
\* after the neighbours had been chosen, and then its flag says so.
THEOREM OnlyLateEvidenceIsOverBudget == QuerySpec => []OverBudgetOnlyIfLate
<1>1. QueryInv => OverBudgetOnlyIfLate
  BY DEF QueryInv, Answered
<1>. QED BY <1>1, QueryInvHolds, PTL

\* An answer mentions one of the citations stored with it, or abstains.
THEOREM AnswersAreGrounded == QuerySpec => []AnswerIsGrounded
<1>1. QueryInv => AnswerIsGrounded
  BY DEF QueryInv, Answered
<1>. QED BY <1>1, QueryInvHolds, PTL

\* The audits of an answer agree with one another and with its citations.
THEOREM AuditsOfAnswersAgree == QuerySpec => []AuditsAgree
<1>1. QueryInv => AuditsAgree
  BY DEF QueryInv, Answered
<1>. QED BY <1>1, QueryInvHolds, PTL

\* No search loses evidence but one that prefers new hits, or one that stores
\* after another call of the model has.
THEOREM SearchesKeepEvidence == QuerySpec => EvidenceKept
<1>1. ASSUME QueryInv, [QueryNext]_queryVars
      PROVE  /\ pc \in {"question", "planned"} => IsPrefix(selected, selected')
             /\ pc = "entities" /\ selected # <<>> /\ selected' = <<>> =>
                  \E s \in Segments \ ToSet(selected) : Size[s] > budget.tokens
             /\ \A t \in Threads :
                  calls[t].at = "merged" /\ calls'[t].at = "idle" /\ ~ calls[t].stale =>
                    IF calls[t].prefer
                    THEN selected' = <<>> =>
                           selected = <<>> \/ Size[calls[t].raw[1]] > budget.tokens
                    ELSE IsPrefix(selected, selected')
  <2>. USE <1>1
  <2>1. selected \in Seq(Segments) /\ budget \in Budgets /\ selected \in Affordable
    BY DEF QueryInv, QueryTypeOK, Within
  <2>2. calls \in [Threads -> CallType]
    BY DEF QueryInv, QueryTypeOK, CallType
  <2>3. IsPrefix(selected, selected)
    BY <2>1 DEF IsPrefix
  <2>4. pc \notin {"model", "failed"} => \A t \in Threads : ~ CallStore(t)
    BY DEF QueryInv, Phased, CallStore
  <2>5. ASSUME pc \in {"question", "planned"} PROVE IsPrefix(selected, selected')
    BY <2>3, <2>4, <2>5, SelectedChanges, SearchStep
  <2>6. ASSUME pc = "entities", selected # <<>>, selected' = <<>>
        PROVE  \E s \in Segments \ ToSet(selected) : Size[s] > budget.tokens
    BY <2>4, <2>6, SelectedChanges, SearchStep
  <2>7. ASSUME NEW t \in Threads, calls[t].at = "merged", calls'[t].at = "idle", ~ calls[t].stale
        PROVE  IF calls[t].prefer
               THEN selected' = <<>> =>
                      selected = <<>> \/ Size[calls[t].raw[1]] > budget.tokens
               ELSE IsPrefix(selected, selected')
    <3>1. CallStore(t)
      <4>1. PICK s \in Threads : CallSearch(s) \/ CallMissing(s) \/ CallMerge(s) \/ CallStore(s)
        BY <2>7 DEF QueryNext, queryVars, toolbox, Seed, SeedQuestion,
           SeedEntity, EndEntities, SeedPlanned, EndPlanned, Followup, ExpandNeighbors, Model,
           EndModel, Answer, Abandon, Fail
      <4>2. CASE s = t
        BY <2>7, <4>1, <4>2 DEF CallSearch, CallMissing, CallMerge
      <4>3. CASE s # t
        <5>1. CASE CallStore(s)
          <6>1. calls[t] \in CallType
            BY <2>2
          <6>2. calls'[t] = [calls[t] EXCEPT !.stale = @ \/ calls[t].at = "merged"]
            BY <4>3, <5>1 DEF CallStore
          <6>3. calls'[t].at = calls[t].at
            BY <6>1, <6>2 DEF CallType
          <6>. QED BY <2>7, <6>3
        <5>2. CASE CallSearch(s) \/ CallMissing(s) \/ CallMerge(s)
          <6>1. calls'[t] = calls[t]
            BY <2>2, <4>3, <5>2 DEF CallSearch, CallMissing, CallMerge
          <6>. QED BY <2>7, <6>1
        <5>. QED BY <4>1, <5>1, <5>2
      <4>. QED BY <4>2, <4>3
    <3>2. PICK c \in CallType : c = calls[t]
      BY <2>2
    <3>3. /\ c.raw \in RawHits /\ c.picked \in WithinBudget(Merged(c.raw, c.prefer))
          /\ c.prefer \in BOOLEAN
      BY <2>7, <3>2 DEF QueryInv, Ready, Selected, CallType
    <3>4. selected' = c.picked
      BY <3>1, <3>2 DEF CallStore
    <3>5. /\ ~ c.prefer => IsPrefix(selected, c.picked)
          /\ c.prefer /\ c.picked = <<>> /\ selected # <<>> => Size[c.raw[1]] > budget.tokens
      BY <2>1, <3>3, SearchSelects
    <3>. QED BY <3>2, <3>3, <3>4, <3>5
  <2>. QED BY <2>5, <2>6, <2>7
<1>. QED BY <1>1, QueryInvHolds, PTL DEF QuerySpec, EvidenceKept

=============================================================================
