------------------------- MODULE CalibrationProofs --------------------------
(***************************************************************************)
(* What Calibration keeps for any number of targets, commands, records and *)
(* accidents.                                                              *)
(*                                                                         *)
(* A manifest and the reports it points at agree because the results of a  *)
(* command are those of its reports (Reported) and a manifest of the       *)
(* current command exists only when it has ended (Superseded).  Refusals   *)
(* are justified because a sample and its metadata agree in every profile  *)
(* that is not foreign (Described).  What manifests claim and how          *)
(* baselines compare follows from what each result is worth when it is     *)
(* written (Sound) and from the records at hand before (AtHand).           *)
(***************************************************************************)
EXTENDS Calibration, FiniteSetTheorems, SequenceTheorems, WellFoundedInduction, TLAPS

Stems == {Stem[t] : t \in Targets}

\* A sequence of whatever values.
Listed(s) == \E n \in Nat : s = [i \in 1..n |-> s[i]]

Reported(list) ==
  \A i \in DOMAIN list :
    /\ list[i].key \in Targets
    /\ reports[Stem[list[i].key]] = [json |-> run, markdown |-> run, of |-> list[i].key]

Progress ==
  /\ pc \in {"idle", "dataset", "writing", "describe", "evaluate", "report", "manifest"}
  /\ run \in Nat /\ accidents \in Nat
  /\ pc # "idle" =>
       /\ command \in Commands
       /\ Listed(results) /\ Len(results) <= Len(command.targets)
       /\ pc # "manifest" => Len(results) < Len(command.targets)
       /\ Reported(results)

IsManifest(m) == m \notin {NoFile, Torn}

Superseded ==
  IsManifest(manifest) =>
    /\ manifest.run \in Nat /\ manifest.run <= run
    /\ pc # "idle" => manifest.run # run
    /\ manifest.run = run => Reported(manifest.targets)

Shaped ==
  /\ files = [p \in Profiles |-> files[p]]
  /\ metadata = [p \in Profiles |-> metadata[p]]
  /\ reports = [s \in Stems |-> reports[s]]

Described ==
  /\ pc \in {"writing", "describe"} => Here \in foreign /\ sample \in Seq(Kinds)
  /\ pc = "describe" => files[Here] = sample /\ dataset.records = Len(sample)
  /\ \A p \in Profiles \ foreign :
       files[p] # NoFile => files[p] \in Seq(Kinds) /\ metadata[p] = Len(files[p])

IInv == Progress /\ Superseded /\ Shaped /\ Described

-----------------------------------------------------------------------------
(***************************************************************************)
(* Facts.                                                                  *)
(***************************************************************************)
\* A sequence is the function of its members.
LEMMA SequenceIsListed ==
  ASSUME NEW S, NEW t \in Seq(S)
  PROVE  Len(t) \in Nat /\ t = [i \in 1..Len(t) |-> t[i]]
<1>1. Len(t) \in Nat /\ DOMAIN t = 1..Len(t) /\ t \in [1..Len(t) -> S]
  OBVIOUS
<1>2. t = [i \in DOMAIN t |-> t[i]]
  BY <1>1, Zenon
<1>. QED BY <1>1, <1>2, Zenon

LEMMA ListedAppend ==
  ASSUME NEW s, Listed(s), NEW e
  PROVE  /\ Listed(Append(s, e)) /\ Len(s) \in Nat /\ Len(Append(s, e)) = Len(s) + 1
         /\ \A i \in 1..Len(s) : Append(s, e)[i] = s[i]
         /\ Append(s, e)[Len(s) + 1] = e
         /\ DOMAIN s = 1..Len(s) /\ DOMAIN Append(s, e) = 1..Len(s) + 1
<1>1. PICK n \in Nat : s = [i \in 1..n |-> s[i]]
  BY DEF Listed
<1>. DEFINE S == {s[i] : i \in 1..n} \cup {e}
<1>2. s \in Seq(S) /\ Len(s) = n /\ e \in S
  BY <1>1
<1>. HIDE DEF S
<1>3. /\ Append(s, e) \in Seq(S) /\ Len(Append(s, e)) = n + 1
      /\ \A i \in 1..n : Append(s, e)[i] = s[i]
      /\ Append(s, e)[n + 1] = e
      /\ DOMAIN s = 1..n /\ DOMAIN Append(s, e) = 1..n + 1
  BY <1>2
<1>. DEFINE longer == Append(s, e)
<1>4. longer \in Seq(S) /\ Len(longer) = n + 1
  BY <1>3
<1>. HIDE DEF longer
<1>5. longer = [i \in 1..n + 1 |-> longer[i]]
  BY <1>4, SequenceIsListed
<1>6. n + 1 \in Nat
  OBVIOUS
<1>7. Listed(longer)
  BY <1>5, <1>6, Zenon DEF Listed
<1>8. Listed(Append(s, e))
  BY <1>7 DEF longer
<1>. QED BY <1>2, <1>3, <1>8

LEMMA TakeType ==
  ASSUME NEW records \in Seq(Kinds), NEW most \in Nat
  PROVE  Take(records, most) \in Seq(Kinds)
BY DEF Take

\* The target that a command is at.
LEMMA TargetType ==
  ASSUME IInv, pc \notin {"idle", "manifest"}
  PROVE  /\ Target \in Targets /\ Here \in Profiles /\ Stem[Target] \in Stems
         /\ command \in Commands /\ command.records \in Nat \ {0}
         /\ command.targets \in Seq(Targets) /\ Len(results) \in Nat
<1>1. /\ command \in Commands /\ Listed(results)
      /\ Len(results) < Len(command.targets)
  BY DEF IInv, Progress
<1>2. Len(results) \in Nat
  BY <1>1, ListedAppend
<1>3. command.targets \in Seq(Targets) /\ command.records \in Nat \ {0}
  BY <1>1, CalibrationConstants
<1>4. Len(results) + 1 \in 1..Len(command.targets)
  BY <1>1, <1>2, <1>3
<1>. QED BY <1>1, <1>2, <1>3, <1>4, CalibrationConstants DEF Target, Here, Stems

-----------------------------------------------------------------------------
(***************************************************************************)
(* Steps.                                                                  *)
(***************************************************************************)

\* A command that stays with its target.
LEMMA TargetStays ==
  ASSUME UNCHANGED <<command, results>>
  PROVE  (Here = Here') /\ (Target = Target')
BY DEF Here, Target

\* A step that moves a command on and leaves reports and results alone.
LEMMA Onward ==
  ASSUME IInv, pc \notin {"idle", "manifest"},
         pc' \in {"dataset", "writing", "describe", "evaluate", "report"},
         UNCHANGED <<command, run, results, reports, manifest, accidents>>,
         files' = [p \in Profiles |-> files'[p]],
         metadata' = [p \in Profiles |-> metadata'[p]],
         Described'
  PROVE  IInv'
<1>1. Progress'
  BY DEF IInv, Progress, Reported
<1>2. Superseded'
  BY DEF IInv, Superseded, IsManifest, Reported
<1>3. Shaped'
  BY DEF IInv, Shaped
<1>. QED BY <1>1, <1>2, <1>3 DEF IInv

\* A step that ends a command, with or without its manifest.
LEMMA Ended ==
  ASSUME IInv, pc # "idle", End, UNCHANGED run, accidents' \in Nat,
         files' = [p \in Profiles |-> files'[p]],
         metadata' = [p \in Profiles |-> metadata'[p]],
         reports' = [s \in Stems |-> reports'[s]],
         \A p \in Profiles \ foreign' :
           files'[p] = files[p] /\ metadata'[p] = metadata[p] /\ p \notin foreign,
         manifest' \in {manifest, Torn}
  PROVE  IInv'
<1>1. Progress'
  BY DEF End, IInv, Progress
<1>2. Superseded'
  BY DEF IInv, Superseded, IsManifest, End
<1>3. Shaped'
  BY DEF Shaped
<1>4. Described'
  BY DEF IInv, Described, End
<1>. QED BY <1>1, <1>2, <1>3, <1>4 DEF IInv

LEMMA BeginStep ==
  ASSUME IInv, Begin
  PROVE  IInv'
<1>1. /\ pc' = "dataset" /\ run' = run + 1 /\ results' = <<>> /\ command' \in Commands
      /\ UNCHANGED <<files, metadata, reports, manifest, foreign, accidents>>
  BY DEF Begin, output
<1>2. command'.targets \in Seq(Targets) \ {<<>>}
  BY <1>1, CalibrationConstants
<1>3. Listed(<<>>) /\ Len(<<>>) = 0 /\ DOMAIN <<>> = {}
  <2>1. <<>> = [i \in 1..0 |-> <<>>[i]]
    OBVIOUS
  <2>. QED BY <2>1 DEF Listed
<1>4. Len(command'.targets) > 0
  BY <1>2
<1>5. Progress'
  BY <1>1, <1>3, <1>4 DEF IInv, Progress, Reported
<1>6. Superseded'
  BY <1>1 DEF IInv, Progress, Superseded, IsManifest
<1>7. Shaped' /\ Described'
  BY <1>1 DEF IInv, Shaped, Described
<1>. QED BY <1>5, <1>6, <1>7 DEF IInv

LEMMA FetchStep ==
  ASSUME IInv, Fetch
  PROVE  IInv'
<1>. USE DEF output, current, release
<1>1. CASE Refuse \/ DownloadFails
  BY <1>1, Ended DEF Refuse, DownloadFails, IInv, Progress, Shaped
<1>2. CASE Reuse
  BY <1>2, Onward DEF Reuse, IInv, Shaped, Described
<1>3. CASE Sample
  <2>1. /\ pc = "dataset" /\ pc' = "writing" /\ files' = [files EXCEPT ![Here] = Torn]
        /\ foreign' = foreign \cup {Here}
        /\ UNCHANGED <<command, run, results, dataset, metadata, reports, manifest, accidents>>
    BY <1>3 DEF Sample
  <2>2. sample' \in Seq(Kinds)
    <3>1. PICK records \in Offered[Here] : sample' = Take(records, command.records)
      BY <1>3 DEF Sample
    <3>2. Here \in Profiles /\ command.records \in Nat
      BY <2>1, TargetType
    <3>3. records \in Seq(Kinds)
      BY <3>1, <3>2, CalibrationConstants
    <3>. QED BY <3>1, <3>2, <3>3, TakeType
  <2>3. Here' = Here
    BY <2>1, TargetStays
  <2>4. Described'
    BY <2>1, <2>2, <2>3 DEF IInv, Described, Shaped
  <2>5. files' = [p \in Profiles |-> files'[p]] /\ metadata' = [p \in Profiles |-> metadata'[p]]
    BY <2>1 DEF IInv, Shaped
  <2>. QED BY <2>1, <2>4, <2>5, Onward
<1>4. CASE SampleRaises \/ NothingWritten
  <2>1. PICK left : files' = [files EXCEPT ![Here] = left]
    BY <1>4 DEF SampleRaises, NothingWritten
  <2>2. /\ pc = "writing" /\ End /\ Here \in foreign
        /\ UNCHANGED <<run, metadata, reports, manifest, foreign>> /\ accidents' \in Nat
    BY <1>4 DEF SampleRaises, NothingWritten, IInv, Progress, Described
  <2>3. files' = [p \in Profiles |-> files'[p]] /\ \A p \in Profiles \ foreign : files'[p] = files[p]
    BY <2>1, <2>2 DEF IInv, Shaped
  <2>4. metadata' = [p \in Profiles |-> metadata'[p]] /\ reports' = [s \in Stems |-> reports'[s]]
    BY <2>2 DEF IInv, Shaped
  <2>. QED BY <2>2, <2>3, <2>4, Ended
<1>5. CASE Written
  <2>1. /\ pc = "writing" /\ pc' = "describe" /\ files' = [files EXCEPT ![Here] = sample]
        /\ dataset'.records = Len(sample) /\ Here \in foreign /\ sample \in Seq(Kinds)
        /\ UNCHANGED <<command, run, results, sample, metadata, reports, manifest,
                       foreign, accidents>>
    BY <1>5 DEF Written, IInv, Described
  <2>2. Here' = Here /\ Here \in Profiles
    BY <2>1, TargetStays, TargetType
  <2>3. /\ files' = [p \in Profiles |-> files'[p]] /\ files'[Here] = sample
        /\ metadata' = [p \in Profiles |-> metadata'[p]]
        /\ \A p \in Profiles \ {Here} : files'[p] = files[p]
    BY <2>1, <2>2 DEF IInv, Shaped
  <2>4. Described'
    BY <2>1, <2>2, <2>3 DEF IInv, Described
  <2>. QED BY <2>1, <2>3, <2>4, Onward
<1>6. CASE Describe
  <2>1. /\ pc = "describe" /\ pc' = "evaluate"
        /\ metadata' = [metadata EXCEPT ![Here] = dataset.records]
        /\ foreign' = foreign \ {Here}
        /\ UNCHANGED <<command, run, results, files, reports, manifest, accidents>>
        /\ files[Here] = sample /\ dataset.records = Len(sample) /\ sample \in Seq(Kinds)
    BY <1>6 DEF Describe, IInv, Described
  <2>2. Here \in Profiles
    BY <2>1, TargetType
  <2>3. /\ metadata' = [p \in Profiles |-> metadata'[p]] /\ metadata'[Here] = Len(files[Here])
        /\ \A p \in Profiles \ {Here} : metadata'[p] = metadata[p]
        /\ files' = [p \in Profiles |-> files'[p]]
    BY <2>1, <2>2 DEF IInv, Shaped
  <2>4. Described'
    BY <2>1, <2>3 DEF IInv, Described
  <2>. QED BY <2>1, <2>3, <2>4, Onward
<1>. QED BY <1>1, <1>2, <1>3, <1>4, <1>5, <1>6 DEF Fetch

LEMMA WriteReportStep ==
  ASSUME IInv, WriteReport
  PROVE  IInv'
<1>. DEFINE t == Target
<1>1. /\ pc = "report" /\ reports' = StemFile(TRUE) /\ results' = Append(results, Result)
      /\ pc' = IF Len(results') = Len(command.targets) THEN "manifest" ELSE "dataset"
      /\ UNCHANGED <<command, run, files, metadata, manifest, foreign, accidents>>
  BY DEF WriteReport
<1>2. /\ t \in Targets /\ Stem[t] \in Stems /\ command \in Commands
      /\ command.targets \in Seq(Targets) /\ Len(results) \in Nat
  BY <1>1, TargetType
<1>3. /\ Listed(results) /\ Len(results) < Len(command.targets) /\ Reported(results)
      /\ reports = [s \in Stems |-> reports[s]]
      /\ files = [p \in Profiles |-> files[p]] /\ metadata = [p \in Profiles |-> metadata[p]]
      /\ run \in Nat /\ accidents \in Nat
  BY <1>1 DEF IInv, Progress, Shaped
<1>. DEFINE now == [json |-> run, markdown |-> run, of |-> t]
<1>4. reports' = [reports EXCEPT ![Stem[t]] = now]
  BY <1>1 DEF StemFile
<1>5. /\ reports' = [s \in Stems |-> reports'[s]] /\ reports'[Stem[t]] = now
      /\ \A s \in Stems \ {Stem[t]} : reports'[s] = reports[s]
  BY <1>2, <1>3, <1>4
<1>6. \A u \in Targets : /\ Stem[u] \in Stems
                         /\ u # t => reports'[Stem[u]] = reports[Stem[u]]
  <2>1. \A u \in Targets : Stem[u] \in Stems /\ (u # t => Stem[u] # Stem[t])
    BY <1>2, CalibrationConstants DEF Stems
  <2>. QED BY <1>5, <2>1
<1>7. Result.key = t
  BY DEF Result
<1>8. /\ Listed(results') /\ Len(results') = Len(results) + 1
      /\ \A i \in 1..Len(results) : results'[i] = results[i]
      /\ results'[Len(results) + 1] = Result
      /\ DOMAIN results = 1..Len(results) /\ DOMAIN results' = 1..Len(results) + 1
  BY <1>1, <1>3, ListedAppend
<1>9. ASSUME NEW i \in DOMAIN results'
      PROVE  /\ results'[i].key \in Targets
             /\ reports'[Stem[results'[i].key]] =
                  [json |-> run, markdown |-> run, of |-> results'[i].key]
  <2>1. CASE results'[i].key = t
    BY <1>2, <1>5, <2>1
  <2>2. CASE results'[i].key # t
    <3>1. i \in 1..Len(results) /\ results'[i] = results[i]
      BY <1>2, <1>7, <1>8, <2>2
    <3>2. /\ results[i].key \in Targets
          /\ reports[Stem[results[i].key]] =
               [json |-> run, markdown |-> run, of |-> results[i].key]
      BY <1>3, <1>8, <3>1 DEF Reported
    <3>. QED BY <1>6, <2>2, <3>1, <3>2
  <2>. QED BY <2>1, <2>2
<1>. HIDE DEF t, now
<1>10. Reported(results)'
  BY <1>1, <1>9 DEF Reported
<1>11. Progress'
  <2>1. /\ Len(results') <= Len(command.targets)
        /\ Len(results') # Len(command.targets) => Len(results') < Len(command.targets)
    BY <1>2, <1>3, <1>8
  <2>. QED BY <1>1, <1>2, <1>3, <1>8, <1>10, <2>1 DEF Progress
<1>12. Superseded'
  BY <1>1 DEF IInv, Superseded, IsManifest
<1>13. Shaped' /\ Described'
  BY <1>1, <1>3, <1>5 DEF IInv, Shaped, Described
<1>. QED BY <1>11, <1>12, <1>13 DEF IInv

LEMMA RunStep ==
  ASSUME IInv, RunTarget
  PROVE  IInv'
<1>. USE DEF output, current, release
<1>1. CASE Evaluate
  <2>1. /\ pc = "evaluate" /\ pc' = "report"
        /\ UNCHANGED <<command, run, results, files, metadata, reports, manifest, foreign,
                       accidents>>
    BY <1>1 DEF Evaluate
  <2>. QED BY <2>1, Onward DEF IInv, Shaped, Described
<1>2. CASE EvaluateRaises
  BY <1>2, Ended DEF EvaluateRaises, IInv, Progress, Shaped
<1>. QED BY <1>1, <1>2, WriteReportStep DEF RunTarget

LEMMA ManifestStep ==
  ASSUME IInv, WriteManifest
  PROVE  IInv'
<1>1. /\ pc = "manifest" /\ End /\ manifest'.run = run /\ manifest'.targets = results
      /\ UNCHANGED <<run, files, metadata, reports, foreign, accidents>>
  BY DEF WriteManifest, release
<1>2. Progress'
  BY <1>1 DEF End, IInv, Progress
<1>3. Reported(manifest.targets)'
  BY <1>1 DEF IInv, Progress, Reported
<1>4. Superseded'
  BY <1>1, <1>3 DEF IInv, Progress, Superseded, End
<1>5. Shaped' /\ Described'
  BY <1>1 DEF IInv, Shaped, Described, End
<1>. QED BY <1>2, <1>4, <1>5 DEF IInv

LEMMA InterruptStep ==
  ASSUME IInv, Interrupt
  PROVE  IInv'
<1>1. /\ pc # "idle" /\ End /\ UNCHANGED <<run, foreign>> /\ accidents' \in Nat
      /\ manifest' \in {manifest, Torn}
  BY DEF Interrupt, IInv, Progress
<1>2. /\ files' = files \/ (pc = "writing" /\ \E left : files' = [files EXCEPT ![Here] = left])
      /\ metadata' = metadata \/
           (pc = "describe" /\ metadata' = [metadata EXCEPT ![Here] = Torn])
      /\ reports' = reports \/
           (pc = "report" /\ \E f : reports' = [reports EXCEPT ![Stem[Target]] = f])
  BY DEF Interrupt, StemFile
<1>3. pc \in {"writing", "describe"} => Here \in foreign
  BY DEF IInv, Described
<1>4. /\ files' = [p \in Profiles |-> files'[p]]
      /\ metadata' = [p \in Profiles |-> metadata'[p]]
      /\ reports' = [s \in Stems |-> reports'[s]]
      /\ \A p \in Profiles \ foreign : files'[p] = files[p] /\ metadata'[p] = metadata[p]
  BY <1>2, <1>3 DEF IInv, Shaped
<1>. QED BY <1>1, <1>4, Ended

LEMMA IdleStep ==
  ASSUME IInv, FetchAlone \/ Adopt \/ Promote
  PROVE  IInv'
<1>1. CASE Adopt \/ Promote
  BY <1>1 DEF Adopt, Promote, current, output, IInv, Progress, Reported, Superseded,
     IsManifest, Shaped, Described, Here, Target
<1>2. CASE FetchAlone
  <2>1. /\ pc = "idle" /\ pc' = "idle" /\ accidents' \in Nat
        /\ UNCHANGED <<command, run, results, metadata, reports, manifest>>
    BY <1>2 DEF FetchAlone, IInv, Progress, current
  <2>2. PICK p \in Profiles :
          (\E left : files' = [files EXCEPT ![p] = left]) /\ foreign' = foreign \cup {p}
    BY <1>2 DEF FetchAlone
  <2>3. Progress' /\ Superseded'
    BY <2>1 DEF IInv, Progress, Superseded, IsManifest, Reported
  <2>4. /\ files' = [o \in Profiles |-> files'[o]]
        /\ \A o \in Profiles \ {p} : files'[o] = files[o]
    BY <2>2 DEF IInv, Shaped
  <2>5. Shaped'
    BY <2>1, <2>4 DEF IInv, Shaped
  <2>6. Described'
    BY <2>1, <2>2, <2>4 DEF IInv, Described
  <2>. QED BY <2>3, <2>5, <2>6 DEF IInv
<1>. QED BY <1>1, <1>2

-----------------------------------------------------------------------------
(***************************************************************************)
(* Scores and sums.                                                        *)
(***************************************************************************)
\* A set of numbers that has a member has a smallest.
LEMMA HasSmallest ==
  ASSUME NEW S \in SUBSET Nat, S # {}
  PROVE  \E n \in S : \A m \in S : n <= m
<1>. DEFINE R == {ss \in Nat \X Nat : ss[1] < ss[2]}
<1>1. IsWellFoundedOn(R, Nat)
  BY NatLessThanWellFounded DEF OpToRel
<1>2. \A n, m \in Nat : n < m => <<n, m>> \in R
  OBVIOUS
<1>. HIDE DEF R
<1>3. \E n \in S : \A m \in S : ~ (<<m, n>> \in R)
  BY <1>1, WFMin, Zenon
<1>4. PICK n \in S : \A m \in S : ~ (<<m, n>> \in R)
  BY <1>3
<1>5. ASSUME NEW m \in S PROVE n <= m
  <2>1. n \in Nat /\ m \in Nat
    OBVIOUS
  <2>2. ~ (m < n)
    BY <1>2, <1>4, <2>1, Zenon
  <2>. QED BY <2>1, <2>2
<1>. QED BY <1>5

\* The recursion of SumFunction: a sum takes one name from its set.
Summing(f, g, sets) ==
  g = [s \in sets |-> IF s = {} THEN 0
                      ELSE LET x == CHOOSE x \in s : TRUE IN f[x] + g[s \ {x}]]

\* It has a solution over the parts of a finite set.
LEMMA SumsExist ==
  ASSUME NEW f, IsFiniteSet(DOMAIN f)
  PROVE  \E g : Summing(f, g, SUBSET DOMAIN f)
<1>. DEFINE Small(n) == {s \in SUBSET DOMAIN f : Cardinality(s) <= n}
            Bad == {n \in Nat : ~ \E g : Summing(f, g, Small(n))}
<1>1. \A s \in SUBSET DOMAIN f : /\ IsFiniteSet(s) /\ Cardinality(s) \in Nat
                                 /\ Cardinality(s) <= Cardinality(DOMAIN f)
  BY FS_Subset, FS_CardinalityType
<1>2. \A s \in SUBSET DOMAIN f : \A x \in s : Cardinality(s \ {x}) = Cardinality(s) - 1
  BY <1>1, FS_RemoveElement
<1>3. ASSUME Bad # {} PROVE FALSE
  <2>1. PICK n \in Bad : \A m \in Bad : n <= m
    <3>. HIDE DEF Bad
    <3>1. Bad \in SUBSET Nat
      BY DEF Bad
    <3>. QED BY <1>3, <3>1, HasSmallest
  <2>2. CASE n = 0
    <3>. DEFINE g == [s \in Small(0) |-> 0]
    <3>1. \A s \in Small(0) : s = {}
      BY <1>1, FS_EmptySet
    <3>2. Summing(f, g, Small(0))
      BY <3>1 DEF Summing
    <3>. QED BY <2>1, <2>2, <3>2
  <2>3. CASE n # 0
    <3>1. n - 1 \in Nat /\ n - 1 \notin Bad
      <4>1. n \in Nat
        BY <2>1
      <4>2. n - 1 \in Nat /\ ~ (n <= n - 1)
        BY <2>3, <4>1
      <4>. HIDE DEF Bad
      <4>. QED BY <2>1, <4>2
    <3>2. PICK g : Summing(f, g, Small(n - 1))
      BY <3>1
    <3>. DEFINE h == [s \in Small(n) |-> IF s = {} THEN 0
                        ELSE LET x == CHOOSE x \in s : TRUE IN f[x] + g[s \ {x}]]
    <3>3. ASSUME NEW s \in Small(n - 1) PROVE s \in Small(n) /\ h[s] = g[s]
      <4>1. s \in Small(n)
        BY <1>1, <3>1
      <4>. HIDE DEF Small
      <4>2. g[s] = IF s = {} THEN 0 ELSE LET x == CHOOSE x \in s : TRUE IN f[x] + g[s \ {x}]
        BY <3>2, Zenon DEF Summing
      <4>. QED BY <4>1, <4>2, Zenon
    <3>4. ASSUME NEW s \in Small(n), NEW x \in s PROVE s \ {x} \in Small(n - 1)
      BY <1>1, <1>2, <3>1
    <3>5. ASSUME NEW s \in Small(n)
          PROVE  h[s] = IF s = {} THEN 0
                        ELSE LET x == CHOOSE x \in s : TRUE IN f[x] + h[s \ {x}]
      <4>1. CASE s = {}
        BY <4>1
      <4>2. CASE s # {}
        <5>. DEFINE x == CHOOSE x \in s : TRUE
        <5>1. x \in s
          BY <4>2
        <5>2. h[s \ {x}] = g[s \ {x}]
          BY <3>3, <3>4, <5>1
        <5>3. h[s] = f[x] + g[s \ {x}]
          BY <4>2
        <5>. QED BY <4>2, <5>2, <5>3
      <4>. QED BY <4>1, <4>2
    <3>6. Summing(f, h, Small(n))
      <4>1. h = [s \in Small(n) |-> h[s]]
        OBVIOUS
      <4>. HIDE DEF h, Small
      <4>. QED BY <3>5, <4>1, Zenon DEF Summing
    <3>7. \E k : Summing(f, k, Small(n))
      <4>. HIDE DEF h, Small
      <4>. QED BY <3>6
    <3>. QED BY <2>1, <3>7
  <2>. QED BY <2>2, <2>3
<1>4. Small(Cardinality(DOMAIN f)) = SUBSET DOMAIN f /\ Cardinality(DOMAIN f) \in Nat
  BY <1>1
<1>. QED
  <2>. HIDE DEF Small
  <2>1. \A n \in Nat : \E g : Summing(f, g, Small(n))
    BY <1>3
  <2>. QED BY <1>4, <2>1

\* A sum of natural numbers is one.
LEMMA SumType ==
  ASSUME NEW f, IsFiniteSet(DOMAIN f), \A x \in DOMAIN f : f[x] \in Nat
  PROVE  SumFunction(f) \in Nat
<1>. DEFINE g == CHOOSE g : Summing(f, g, SUBSET DOMAIN f)
            Bad == {n \in Nat : \E s \in SUBSET DOMAIN f : Cardinality(s) = n /\ g[s] \notin Nat}
<1>1. Summing(f, g, SUBSET DOMAIN f)
  BY SumsExist
<1>2. SumFunction(f) = g[DOMAIN f]
  BY DEF Summing, SumFunction, SumFunctionOnSet, FoldFunctionOnSet, MapThenFoldSet
<1>3. \A s \in SUBSET DOMAIN f : IsFiniteSet(s) /\ Cardinality(s) \in Nat
  BY FS_Subset, FS_CardinalityType
<1>. HIDE DEF g
<1>4. ASSUME Bad # {} PROVE FALSE
  <2>1. PICK n \in Bad : \A m \in Bad : n <= m
    <3>1. Bad \in SUBSET Nat
      OBVIOUS
    <3>. HIDE DEF Bad
    <3>. QED BY <1>4, <3>1, HasSmallest
  <2>2. PICK s \in SUBSET DOMAIN f : Cardinality(s) = n /\ g[s] \notin Nat
    BY <2>1
  <2>3. g[s] = IF s = {} THEN 0 ELSE LET x == CHOOSE x \in s : TRUE IN f[x] + g[s \ {x}]
    BY <1>1, Zenon DEF Summing
  <2>4. s # {}
    BY <2>2, <2>3
  <2>. DEFINE x == CHOOSE x \in s : TRUE
              rest == s \ {x}
  <2>5. x \in s /\ g[s] = f[x] + g[rest]
    BY <2>3, <2>4
  <2>6. Cardinality(rest) = n - 1 /\ rest \in SUBSET DOMAIN f /\ Cardinality(rest) \in Nat
    BY <1>3, <2>2, <2>5, FS_RemoveElement
  <2>. HIDE DEF x, rest
  <2>7. g[rest] \in Nat
    BY <2>1, <2>6
  <2>. QED BY <2>2, <2>5, <2>7
<1>5. g[DOMAIN f] \in Nat
  BY <1>3, <1>4
<1>. QED BY <1>2, <1>5

\* No metric that is a rate of errors, all between none and full marks.
LEMMA RatioType ==
  ASSUME NEW part \in Nat, NEW whole \in Nat, part <= whole
  PROVE  Ratio(part, whole) \in 0..Scale /\ Ratio(whole, whole) = Scale
<1>1. CASE whole = 0
  BY <1>1, ScoreConstants DEF Ratio
<1>2. CASE whole # 0
  <2>. DEFINE q == (Scale * part) \div whole
  <2>1. Scale \in Nat /\ whole \in Nat \ {0} /\ Scale * part \in Nat
    BY <1>2, ScoreConstants
  <2>2. q \in Int /\ q * whole <= Scale * part /\ Scale * part < (q + 1) * whole
    BY <2>1
  <2>3. Scale * part <= Scale * whole /\ 0 <= Scale * part
    BY <2>1
  <2>4. q * whole <= Scale * whole /\ 0 < (q + 1) * whole
    BY <2>1, <2>2, <2>3
  <2>5. q <= Scale
    BY <2>1, <2>2, <2>4
  <2>6. 0 <= q
    BY <2>1, <2>2, <2>4
  <2>7. (Scale * whole) \div whole = Scale
    BY <2>1
  <2>. QED BY <1>2, <2>2, <2>5, <2>6, <2>7 DEF Ratio
<1>. QED BY <1>1, <1>2

NamesOf(suite) ==
  IF suite = "hotpotqa-agent"
  THEN {"query_plan", "multi_hop_support", "evidence_route", "citation_validity",
        "grounded_answer", "budget_compliance"}
  ELSE {"retrieval_recall", "citation_validity", "grounded_answer", "abstention",
        "budget_compliance"}

\* Every case of a suite has the same metrics.
LEMMA OutcomeNames ==
  ASSUME NEW suite, NEW kind, NEW score \in Outcomes(suite, kind)
  PROVE  DOMAIN score = NamesOf(suite)
BY DEF Outcomes, ScoreAgentCase, ScoreCase, NamesOf

LEMMA NamesAreNoErrors ==
  ASSUME NEW suite
  PROVE  /\ IsFiniteSet(NamesOf(suite))
         /\ \A name \in NamesOf(suite) : ~ ScriptLowerIsBetter(name) /\ ~ ApiLowerIsBetter(name)
<1>1. IsFiniteSet(NamesOf(suite))
  <2>1. ASSUME NEW a, NEW b, NEW c PROVE IsFiniteSet({a, b, c})
    <3>1. IsFiniteSet({a}) /\ IsFiniteSet({b}) /\ IsFiniteSet({c})
      BY FS_Singleton
    <3>2. IsFiniteSet({a} \cup {b})
      BY <3>1, FS_Union, Zenon
    <3>3. IsFiniteSet(({a} \cup {b}) \cup {c})
      BY <3>1, <3>2, FS_Union, Zenon
    <3>4. {a, b, c} = ({a} \cup {b}) \cup {c}
      OBVIOUS
    <3>. QED BY <3>3, <3>4, Zenon
  <2>2. CASE suite = "hotpotqa-agent"
    <3>1. NamesOf(suite) =
            {"query_plan", "multi_hop_support", "evidence_route"}
              \cup {"citation_validity", "grounded_answer", "budget_compliance"}
      BY <2>2 DEF NamesOf
    <3>2. /\ IsFiniteSet({"query_plan", "multi_hop_support", "evidence_route"})
          /\ IsFiniteSet({"citation_validity", "grounded_answer", "budget_compliance"})
      BY <2>1, Zenon
    <3>. QED BY <3>1, <3>2, FS_Union, Zenon
  <2>3. CASE suite # "hotpotqa-agent"
    <3>1. NamesOf(suite) =
            {"retrieval_recall", "retrieval_recall", "abstention"}
              \cup {"citation_validity", "grounded_answer", "budget_compliance"}
      BY <2>3 DEF NamesOf
    <3>2. /\ IsFiniteSet({"retrieval_recall", "retrieval_recall", "abstention"})
          /\ IsFiniteSet({"citation_validity", "grounded_answer", "budget_compliance"})
      BY <2>1, Zenon
    <3>. QED BY <3>1, <3>2, FS_Union, Zenon
  <2>. QED BY <2>2, <2>3
<1>. QED BY <1>1 DEF NamesOf, ScriptLowerIsBetter, ApiLowerIsBetter, ErrorRates

\* Metrics that are shares of the full marks and no rates of errors.
Fair(metrics) ==
  /\ IsFiniteSet(DOMAIN metrics)
  /\ \A name \in DOMAIN metrics :
       /\ metrics[name] \in 0..Scale
       /\ ~ ScriptLowerIsBetter(name) /\ ~ ApiLowerIsBetter(name)

Flawless(metrics) == \A name \in DOMAIN metrics : metrics[name] = Scale

Rated(rep) ==
  /\ rep.cases \in Nat /\ Fair(rep.metrics)
  /\ rep.passed => Flawless(rep.metrics)

\* An evaluation has no more cases than the file has records.
LEMMA CasesOfRecords ==
  ASSUME NEW suite, NEW records \in Seq(Kinds), NEW most \in Nat,
         Cases(suite, records, most) # <<>>
  PROVE  \E k \in Nat \ {0} : /\ DOMAIN Cases(suite, records, most) = 1..k
                              /\ k <= Len(records)
<1>. DEFINE giving == {i \in DOMAIN records : GivesCase(suite, records[i])}
            k == IF Cardinality(giving) < most THEN Cardinality(giving) ELSE most
<1>1. IsFiniteSet(1..Len(records)) /\ Cardinality(1..Len(records)) = Len(records)
  <2>1. Len(records) \in Nat
    OBVIOUS
  <2>. DEFINE n == Len(records)
  <2>2. n \in Nat /\ 1 \in Int /\ n \in Int
    BY <2>1
  <2>. HIDE DEF n
  <2>3. IsFiniteSet(1..n) /\ Cardinality(1..n) = n
    BY <2>2, FS_Interval
  <2>. QED BY <2>3 DEF n
<1>2. giving \in SUBSET (1..Len(records)) /\ Len(records) \in Nat
  OBVIOUS
<1>. HIDE DEF giving
<1>3. Cardinality(giving) \in Nat /\ Cardinality(giving) <= Len(records)
  BY <1>1, <1>2, FS_Subset, FS_CardinalityType
<1>4. k \in Nat /\ k <= Len(records)
  BY <1>3
<1>. HIDE DEF k
<1>. DEFINE taken(n) == records[CHOOSE i \in giving : Cardinality({j \in giving : j < i}) = n - 1]
            c == [n \in 1..k |-> taken(n)]
<1>5. Cases(suite, records, most) = c
  BY DEF Cases, giving, k
<1>. HIDE DEF taken
<1>6. DOMAIN c = 1..k /\ c = [n \in 1..k |-> c[n]]
  OBVIOUS
<1>. HIDE DEF c
<1>7. k # 0
  <2>1. ASSUME k = 0 PROVE c = <<>>
    <3>1. c = [n \in 1..0 |-> c[n]] /\ 1..0 = {}
      BY <1>6, <2>1
    <3>2. <<>> = [n \in 1..0 |-> <<>>[n]]
      OBVIOUS
    <3>. QED BY <3>1, <3>2
  <2>. QED BY <1>5, <2>1
<1>. QED BY <1>4, <1>5, <1>6, <1>7

\* The report of one case or more is rated.
LEMMA ReportIsRated ==
  ASSUME NEW suite, NEW cases, NEW k \in Nat \ {0}, DOMAIN cases = 1..k,
         NEW rep \in Reports(suite, cases)
  PROVE  Rated(rep) /\ rep.cases = k
<1>1. PICK s : /\ rep = Report(s) /\ DOMAIN s = 1..k
               /\ s \in [1..k -> UNION {Outcomes(suite, o) : o \in ToSet(cases)}]
               /\ \A i \in 1..k : s[i] \in Outcomes(suite, cases[i])
  BY DEF Reports
<1>2. Len(s) = k
  BY <1>1
<1>3. \A i \in 1..k : DOMAIN s[i] = NamesOf(suite)
  BY <1>1, OutcomeNames
<1>. DEFINE Good(name) == {i \in 1..k : s[i][name]}
<1>4. /\ rep.passed <=> \A i \in 1..k : CasePassed(s[i])
      /\ rep.cases = k
      /\ rep.metrics = [name \in NamesOf(suite) |-> Ratio(Cardinality(Good(name)), k)]
  BY <1>1, <1>2, <1>3 DEF Report
<1>5. IsFiniteSet(1..k) /\ Cardinality(1..k) = k
  BY FS_Interval
<1>6. ASSUME NEW name \in NamesOf(suite)
      PROVE  /\ Cardinality(Good(name)) \in Nat /\ Cardinality(Good(name)) <= k
             /\ rep.passed => Good(name) = 1..k
  <2>1. Good(name) \subseteq 1..k
    OBVIOUS
  <2>2. rep.passed => Good(name) = 1..k
    BY <1>3, <1>4 DEF CasePassed
  <2>. HIDE DEF Good
  <2>. QED BY <1>5, <2>1, <2>2, FS_Subset, FS_CardinalityType
<1>. HIDE DEF Good
<1>7. ASSUME NEW name \in NamesOf(suite)
      PROVE  rep.metrics[name] \in 0..Scale /\ (rep.passed => rep.metrics[name] = Scale)
  BY <1>4, <1>5, <1>6, RatioType
<1>. QED BY <1>4, <1>7, NamesAreNoErrors DEF Rated, Fair, Flawless

-----------------------------------------------------------------------------
(***************************************************************************)
(* The theorems.                                                           *)
(***************************************************************************)
LEMMA Initially == Init => IInv
<1>. SUFFICES ASSUME Init PROVE IInv
  OBVIOUS
<1>1. Progress /\ Superseded
  BY DEF Init, Progress, Superseded, IsManifest
<1>2. Shaped /\ Described
  BY DEF Init, Shaped, Described, Stems
<1>. QED BY <1>1, <1>2 DEF IInv

LEMMA Step == IInv /\ [Next]_vars => IInv'
<1>1. CASE UNCHANGED vars
  BY <1>1 DEF vars, current, output, IInv, Progress, Reported, Superseded, IsManifest,
     Shaped, Described, Here, Target
<1>. QED BY <1>1, BeginStep, FetchStep, RunStep, ManifestStep, InterruptStep, IdleStep
     DEF Next

LEMMA Invariance == Spec => []IInv
BY Initially, Step, PTL DEF Spec

\* The reports that a manifest points at are those of its own run and targets
\* (write_report_files and the manifest of run_calibration), for any targets
\* and through any interruptions.
THEOREM ManifestsMatchReports == Spec => []ReportsMatch
<1>1. IInv => ReportsMatch
  BY DEF IInv, Superseded, IsManifest, Reported, ReportsMatch
<1>. QED BY <1>1, Invariance, PTL

\* A command is refused over an existing sample (materialize_dataset) only if
\* the sample is too short for it, however many commands and targets have
\* shared the sample before.
THEOREM RefusalsAreJustified == Spec => RefusedOnlyIfShort
<1>1. ASSUME IInv, Next, pc = "dataset", pc' = "idle", accidents' = accidents,
             Here \notin foreign
      PROVE  files[Here] = Torn \/ Len(files[Here]) < command.records
  <2>1. Refuse
    <3>1. accidents \in Nat
      BY <1>1 DEF IInv, Progress
    <3>. QED BY <1>1, <3>1 DEF Next, Begin, Fetch, Reuse, DownloadFails, Sample,
            SampleRaises, Written, NothingWritten, Describe, RunTarget, Evaluate,
            EvaluateRaises, WriteReport, WriteManifest, Interrupt, FetchAlone, Adopt,
            Promote, Readable
  <2>2. Here \in Profiles /\ command.records \in Nat
    BY <1>1, TargetType
  <2>3. files[Here] \in Seq(Kinds) /\ metadata[Here] = Len(files[Here])
    BY <1>1, <2>1, <2>2 DEF IInv, Described, Refuse, Exists
  <2>. QED BY <2>1, <2>2, <2>3 DEF Refuse, Fits
<1>2. IInv /\ [Next]_vars =>
        [pc = "dataset" /\ pc' = "idle" /\ accidents' = accidents /\ Here \notin foreign =>
           files[Here] = Torn \/ Len(files[Here]) < command.records]_vars
  BY <1>1
<1>. QED BY <1>2, Invariance, PTL DEF Spec, RefusedOnlyIfShort

-----------------------------------------------------------------------------
(***************************************************************************)
(* What results, manifests and baselines are worth.                        *)
(***************************************************************************)
Sound(r) ==
  /\ r.dataset.records \in Nat /\ Rated(r.report)
  /\ r.passed => r.report.passed
  /\ r.known => r.dataset.records = Len(r.held) /\ r.report.cases <= r.dataset.records

SoundManifest(m) ==
  /\ \A i \in DOMAIN m.targets : Sound(m.targets[i])
  /\ m.passed => \A i \in DOMAIN m.targets : m.targets[i].passed

Held == \A p \in Profiles : files[p] \in Seq(Kinds) \cup {NoFile, Torn}

AtHand ==
  /\ pc \in {"evaluate", "report"} =>
       /\ files[Here] \in Seq(Kinds) \cup {Torn} /\ dataset.records \in Nat
       /\ Here \notin foreign => dataset.records = Len(files[Here])
  /\ pc = "report" => /\ Rated(report)
                      /\ Here \notin foreign => report.cases <= Len(files[Here])

Graded ==
  /\ pc # "idle" => \A i \in DOMAIN results : Sound(results[i])
  /\ IsManifest(manifest) => SoundManifest(manifest)

NotBelow(old, new) ==
  /\ new.dataset.records >= old.dataset.records
  /\ new.report.cases >= old.report.cases
  /\ DOMAIN old.report.metrics \subseteq DOMAIN new.report.metrics
  /\ \A name \in DOMAIN old.report.metrics :
       new.report.metrics[name] + slack >= old.report.metrics[name]

Standing ==
  /\ slack \in Nat
  /\ baseline # NoFile =>
       /\ SoundManifest(first) /\ SoundManifest(baseline)
       /\ Keys(first) \subseteq Keys(baseline)
       /\ \A key \in Keys(first) : NotBelow(TargetOf(first, key), TargetOf(baseline, key))

GInv == IInv /\ Held /\ AtHand /\ Graded /\ Standing

\* What an interrupted sampler leaves.
LEMMA PartialType ==
  ASSUME IInv, pc = "writing", NEW left \in Partial(Here, sample)
  PROVE  left \in Seq(Kinds) \cup {Torn}
<1>1. sample \in Seq(Kinds) /\ Len(sample) \in Nat
  BY DEF IInv, Described
<1>2. CASE left = Torn
  BY <1>2
<1>3. CASE left # Torn
  <2>1. PICK n \in 0..Len(sample) : left = Take(sample, n)
    BY <1>3 DEF Partial
  <2>2. n \in Nat
    BY <1>1, <2>1
  <2>. QED BY <1>1, <2>1, <2>2, TakeType
<1>. QED BY <1>2, <1>3

LEMMA HeldStep ==
  ASSUME IInv, Held, [Next]_vars
  PROVE  Held'
<1>1. CASE UNCHANGED files
  BY <1>1 DEF Held
<1>2. CASE pc \notin {"idle", "manifest"} /\
           \E left \in Seq(Kinds) \cup {Torn} : files' = [files EXCEPT ![Here] = left]
  BY <1>2, TargetType DEF Held, IInv, Shaped
<1>3. CASE FetchAlone
  <2>1. PICK p \in Profiles :
          \E records \in Offered[p] : \E most \in {c.records : c \in Commands} :
            files' = [files EXCEPT ![p] = Take(records, most)]
    BY <1>3, Zenon DEF FetchAlone
  <2>2. PICK records \in Offered[p], most \in {c.records : c \in Commands} :
          files' = [files EXCEPT ![p] = Take(records, most)]
    BY <2>1
  <2>3. PICK c \in Commands : most = c.records
    OBVIOUS
  <2>4. Take(records, most) \in Seq(Kinds)
    BY <2>3, CalibrationConstants, TakeType
  <2>. QED BY <2>2, <2>4 DEF Held, IInv, Shaped
<1>4. CASE Sample
  BY <1>2, <1>4 DEF Sample
<1>5. CASE SampleRaises \/ (Interrupt /\ files' # files)
  BY <1>2, <1>5, PartialType DEF SampleRaises, Interrupt
<1>6. CASE Written \/ NothingWritten
  <2>1. /\ pc = "writing" /\ sample \in Seq(Kinds)
        /\ files' = [files EXCEPT ![Here] = sample]
    BY <1>6 DEF Written, NothingWritten, IInv, Described
  <2>. QED BY <1>2, <2>1
<1>. QED BY <1>1, <1>3, <1>4, <1>5, <1>6
     DEF Next, Begin, Fetch, Reuse, Refuse, DownloadFails, Describe, RunTarget, Evaluate,
         EvaluateRaises, WriteReport, WriteManifest, Adopt, Promote, vars, output

\* The evaluation of the records that are at hand.
LEMMA EvaluateStep ==
  ASSUME IInv, AtHand, Evaluate
  PROVE  /\ Rated(report')
         /\ Here \notin foreign => report'.cases <= Len(files[Here])
<1>1. /\ pc = "evaluate" /\ Loaded # <<>> /\ report' \in Reports(Suite[Target], Loaded)
  BY DEF Evaluate
<1>2. /\ Loaded = Cases(Suite[Target], files[Here], command.cases)
      /\ files[Here] \in Seq(Kinds)
  BY <1>1 DEF Loaded, AtHand
<1>3. command.cases \in Nat
  BY <1>1, TargetType, CalibrationConstants
<1>4. PICK k \in Nat \ {0} : DOMAIN Loaded = 1..k /\ k <= Len(files[Here])
  BY <1>1, <1>2, <1>3, CasesOfRecords
<1>5. Rated(report') /\ report'.cases = k
  BY <1>1, <1>4, ReportIsRated
<1>. QED BY <1>4, <1>5

LEMMA AtHandStep ==
  ASSUME IInv, Held, AtHand, [Next]_vars
  PROVE  AtHand'
<1>. USE DEF output, current, release
<1>1. CASE pc' \notin {"evaluate", "report"}
  BY <1>1 DEF AtHand
<1>2. CASE Reuse
  <2>1. /\ pc = "dataset" /\ pc' = "evaluate" /\ files[Here] # NoFile
        /\ dataset'.records = metadata[Here] /\ metadata[Here] \in Nat
        /\ UNCHANGED <<command, results, files, foreign>>
    BY <1>2 DEF Reuse, Exists, Fits
  <2>2. Here' = Here /\ Here \in Profiles
    BY <2>1, TargetStays, TargetType
  <2>3. Here \notin foreign => metadata[Here] = Len(files[Here])
    BY <2>1, <2>2 DEF IInv, Described
  <2>. QED BY <2>1, <2>2, <2>3 DEF AtHand, Held
<1>3. CASE Describe
  <2>1. /\ pc = "describe" /\ pc' = "evaluate" /\ UNCHANGED <<command, results, dataset, files>>
        /\ files[Here] = sample /\ dataset.records = Len(sample) /\ sample \in Seq(Kinds)
    BY <1>3 DEF Describe, IInv, Described
  <2>2. Here' = Here
    BY <2>1, TargetStays
  <2>. QED BY <2>1, <2>2 DEF AtHand
<1>4. CASE Evaluate
  <2>1. pc = "evaluate" /\ UNCHANGED <<command, results, dataset, files, foreign>>
    BY <1>4 DEF Evaluate
  <2>2. Here' = Here
    BY <2>1, TargetStays
  <2>. QED BY <1>4, <2>1, <2>2, EvaluateStep DEF AtHand
<1>5. CASE UNCHANGED <<pc, command, results, dataset, report, files, foreign>>
  BY <1>5, TargetStays DEF AtHand
<1>6. CASE FetchAlone \/ Adopt \/ Promote
  BY <1>1, <1>6 DEF FetchAlone, Adopt, Promote, Readable
<1>. QED BY <1>1, <1>2, <1>3, <1>4, <1>5, <1>6
     DEF Next, Begin, Fetch, Refuse, DownloadFails, Sample, SampleRaises, Written,
         NothingWritten, RunTarget, EvaluateRaises, WriteReport, WriteManifest, Interrupt,
         End, vars

LEMMA GradedStep ==
  ASSUME IInv, AtHand, Graded, [Next]_vars
  PROVE  Graded'
<1>. USE DEF output, current, release
<1>1. CASE WriteReport
  <2>1. /\ pc = "report" /\ results' = Append(results, Result) /\ UNCHANGED manifest
    BY <1>1 DEF WriteReport
  <2>2. Sound(Result)
    BY <2>1 DEF AtHand, Result, Sound
  <2>3. /\ Listed(results) /\ \A i \in DOMAIN results : Sound(results[i])
    BY <2>1 DEF IInv, Progress, Graded
  <2>4. /\ \A i \in 1..Len(results) : results'[i] = results[i]
        /\ results'[Len(results) + 1] = Result /\ Len(results) \in Nat
        /\ DOMAIN results = 1..Len(results) /\ DOMAIN results' = 1..Len(results) + 1
    BY <2>1, <2>3, ListedAppend
  <2>5. ASSUME NEW i \in DOMAIN results' PROVE Sound(results'[i])
    <3>1. i \in 1..Len(results) \/ i = Len(results) + 1
      BY <2>4
    <3>. QED BY <2>2, <2>3, <2>4, <3>1
  <2>. QED BY <2>1, <2>5 DEF Graded, IsManifest
<1>2. CASE WriteManifest
  <2>1. /\ pc = "manifest" /\ pc' = "idle" /\ manifest'.targets = results
        /\ manifest'.passed <=> \A i \in DOMAIN results : results[i].passed
    BY <1>2 DEF WriteManifest, End
  <2>. QED BY <2>1 DEF Graded, SoundManifest
<1>3. CASE pc' = "idle" /\ manifest' \in {manifest, Torn}
  BY <1>3 DEF Graded, IsManifest
<1>4. CASE UNCHANGED <<results, manifest>> /\ pc # "idle"
  BY <1>4 DEF Graded, IsManifest
<1>5. CASE Begin
  <2>1. results' = <<>> /\ UNCHANGED manifest /\ DOMAIN <<>> = {}
    BY <1>5 DEF Begin
  <2>. QED BY <2>1 DEF Graded, IsManifest
<1>6. CASE UNCHANGED <<pc, results, manifest>>
  BY <1>6 DEF Graded, IsManifest
<1>. QED BY <1>1, <1>2, <1>3, <1>4, <1>5, <1>6
     DEF Next, Fetch, Reuse, Refuse, DownloadFails, Sample, SampleRaises, Written,
         NothingWritten, Describe, RunTarget, Evaluate, EvaluateRaises, Interrupt, End,
         FetchAlone, Adopt, Promote, vars

\* The result that stands for a key.
LEMMA TargetOfKey ==
  ASSUME NEW m, SoundManifest(m), NEW key \in Keys(m)
  PROVE  /\ Sound(TargetOf(m, key))
         /\ \E i \in DOMAIN m.targets : TargetOf(m, key) = m.targets[i]
<1>1. ToSet(m.targets) = {m.targets[i] : i \in DOMAIN m.targets}
  BY DEF ToSet
<1>2. \E r \in ToSet(m.targets) : r.key = key
  BY <1>1 DEF Keys
<1>3. TargetOf(m, key) \in ToSet(m.targets)
  BY <1>2 DEF TargetOf
<1>. QED BY <1>1, <1>3 DEF SoundManifest

LEMMA PromoteStep ==
  ASSUME Graded, Standing, Promote
  PROVE  Standing'
<1>1. /\ manifest \notin {NoFile, Torn} /\ baseline # NoFile /\ baseline' = manifest
      /\ first' = first
  BY DEF Promote, Readable
<1>2. PICK tolerance \in Tolerances :
        Kept(baseline, manifest, tolerance) /\ slack' = slack + tolerance
  BY DEF Promote
<1>3. tolerance \in Nat /\ slack \in Nat /\ slack' \in Nat
  BY <1>2, CalibrationConstants DEF Standing
<1>4. SoundManifest(first) /\ SoundManifest(baseline) /\ SoundManifest(manifest)
  BY <1>1 DEF Standing, Graded, IsManifest
<1>5. Keys(first) \subseteq Keys(baseline) /\ Keys(baseline) \subseteq Keys(manifest)
  BY <1>1, <1>2 DEF Standing, Kept
<1>6. ASSUME NEW key \in Keys(first)
      PROVE  NotBelow(TargetOf(first, key), TargetOf(baseline, key))'
  <2>. DEFINE old == TargetOf(first, key)
              mid == TargetOf(baseline, key)
              new == TargetOf(manifest, key)
  <2>1. Sound(old) /\ Sound(mid) /\ Sound(new)
    BY <1>4, <1>5, TargetOfKey
  <2>2. NotBelow(old, mid)
    BY <1>1 DEF Standing
  <2>3. TargetKept(mid, new, tolerance)
    BY <1>2, <1>5 DEF Kept
  <2>4. TargetOf(first, key)' = old /\ TargetOf(baseline, key)' = new
    BY <1>1
  <2>. QED
    <3>. SUFFICES /\ new.dataset.records >= old.dataset.records
                  /\ new.report.cases >= old.report.cases
                  /\ DOMAIN old.report.metrics \subseteq DOMAIN new.report.metrics
                  /\ \A name \in DOMAIN old.report.metrics :
                       new.report.metrics[name] + slack' >= old.report.metrics[name]
      BY <2>4 DEF NotBelow
    <3>. HIDE DEF old, mid, new
    <3>1. /\ new.dataset.records >= old.dataset.records
          /\ new.report.cases >= old.report.cases
          /\ DOMAIN old.report.metrics \subseteq DOMAIN new.report.metrics
      BY <2>1, <2>2, <2>3 DEF NotBelow, TargetKept, MetricsKept, Sound, Rated
    <3>2. ASSUME NEW name \in DOMAIN old.report.metrics
          PROVE  new.report.metrics[name] + slack' >= old.report.metrics[name]
      <4>1. /\ name \in DOMAIN mid.report.metrics
            /\ mid.report.metrics[name] + slack >= old.report.metrics[name]
        BY <2>2 DEF NotBelow
      <4>2. new.report.metrics[name] >= mid.report.metrics[name] - tolerance
        BY <2>1, <2>3, <4>1 DEF TargetKept, MetricsKept, Sound, Rated, Fair
      <4>3. /\ old.report.metrics[name] \in Nat /\ mid.report.metrics[name] \in Nat
            /\ new.report.metrics[name] \in Nat
        BY <2>1, <3>1, <4>1, ScoreConstants DEF Sound, Rated, Fair
      <4>. QED BY <1>2, <1>3, <4>1, <4>2, <4>3
    <3>. QED BY <3>1, <3>2
<1>. QED BY <1>1, <1>3, <1>4, <1>5, <1>6 DEF Standing

LEMMA StandingStep ==
  ASSUME IInv, Graded, Standing, [Next]_vars
  PROVE  Standing'
<1>. USE DEF output, current, release
<1>1. CASE Adopt
  <2>1. /\ IsManifest(manifest) /\ baseline' = manifest /\ first' = manifest /\ slack' = 0
    BY <1>1 DEF Adopt, Readable, IsManifest
  <2>2. SoundManifest(manifest)
    BY <2>1 DEF Graded
  <2>3. ASSUME NEW key \in Keys(manifest)
        PROVE  /\ TargetOf(manifest, key).dataset.records \in Nat
               /\ TargetOf(manifest, key).report.cases \in Nat
               /\ \A name \in DOMAIN TargetOf(manifest, key).report.metrics :
                    TargetOf(manifest, key).report.metrics[name] \in Nat
    BY <2>2, TargetOfKey, ScoreConstants DEF Sound, Rated, Fair
  <2>. QED BY <2>1, <2>2, <2>3 DEF Standing, NotBelow
<1>2. CASE UNCHANGED <<baseline, first, slack>>
  BY <1>2 DEF Standing, NotBelow
<1>. QED BY <1>1, <1>2, PromoteStep
     DEF Next, Begin, Fetch, Reuse, Refuse, DownloadFails, Sample, SampleRaises, Written,
         NothingWritten, Describe, RunTarget, Evaluate, EvaluateRaises, WriteReport,
         WriteManifest, Interrupt, FetchAlone, vars

LEMMA GradedInvariance == Spec => []GInv
<1>1. Init => GInv
  BY Initially DEF Init, GInv, Held, AtHand, Graded, Standing, IsManifest
<1>2. GInv /\ [Next]_vars => GInv'
  BY Step, HeldStep, AtHandStep, GradedStep, StandingStep DEF GInv
<1>. QED BY <1>1, <1>2, PTL DEF Spec

\* The claims of a manifest (record count and cases of run_target's payload)
\* hold over the file that was evaluated, for any commands that reuse or
\* overwrite each other's samples and any interruptions.
THEOREM ManifestsClaimWhatTheyHeld == Spec => []ClaimsHold
<1>1. GInv => ClaimsHold
  BY DEF GInv, Graded, SoundManifest, Sound, IsManifest, ClaimsHold
<1>. QED BY <1>1, GradedInvariance, PTL

\* Through any chain of promotions (compare_manifests) the baseline stays
\* within the tolerances granted of the first one.
THEOREM BaselinesHoldTheirGround == Spec => []NeverWorseThanFirst
<1>1. GInv => NeverWorseThanFirst
  BY DEF GInv, Standing, NotBelow, NeverWorseThanFirst
<1>. QED BY <1>1, GradedInvariance, PTL

\* Full marks are not below any others: no delta is negative, nor their sum.
LEMMA FlawlessIsAccepted ==
  ASSUME NEW old, Fair(old), NEW new, Fair(new), Flawless(new)
  PROVE  RegressionGate(old, new, 0, 0) /\ ComparisonStatus(old, new) # "regressed"
<1>. DEFINE both == DOMAIN old \cap DOMAIN new
            plain == [name \in both |-> new[name] - old[name]]
            deltas == Normalized(old, new)
<1>1. IsFiniteSet(both)
  BY FS_Intersection DEF Fair
<1>2. \A name \in both : plain[name] \in Nat
  BY ScoreConstants DEF Fair, Flawless
<1>3. deltas = plain
  BY DEF Fair, Normalized
<1>4. SumFunction(plain) \in Nat
  <2>1. DOMAIN plain = both
    OBVIOUS
  <2>. HIDE DEF plain, both
  <2>. QED BY <1>1, <1>2, <2>1, SumType
<1>5. \A name \in DOMAIN deltas : deltas[name] >= 0
  BY <1>2, <1>3
<1>6. DOMAIN deltas = both /\ Cardinality(both) \in Nat
  BY <1>1, <1>3, FS_CardinalityType
<1>7. RegressionGate(old, new, 0, 0)
  <2>1. SumFunction(deltas) >= - 0 * Cardinality(DOMAIN deltas)
    BY <1>3, <1>4, <1>6
  <2>2. \A name \in DOMAIN deltas : deltas[name] >= - 0
    BY <1>2, <1>3
  <2>. QED BY <2>1, <2>2 DEF RegressionGate
<1>8. ComparisonStatus(old, new) # "regressed"
  <2>1. ComparisonStatus(old, new) =
          CASE SumFunction(plain) > 0 -> "improved" [] SumFunction(plain) < 0 -> "regressed"
            [] OTHER -> "unchanged"
    BY DEF ComparisonStatus
  <2>. HIDE DEF plain
  <2>. QED BY <1>4, <2>1
<1>. QED BY <1>7, <1>8

\* A manifest that passed has full marks throughout, and neither the API's
\* regression gate (regression_gate_for_reports) nor its comparison
\* (compare_eval_runs) ever finds it worse than a baseline.
THEOREM PassedManifestsAreFlawless == Spec => []PassedIsFlawless
<1>1. ASSUME GInv, IsManifest(manifest), manifest.passed, NEW i \in DOMAIN manifest.targets
      PROVE  Flawless(manifest.targets[i].report.metrics)
  BY <1>1 DEF GInv, Graded, SoundManifest, Sound, Rated
<1>2. ASSUME GInv, IsManifest(manifest), manifest.passed, baseline # NoFile,
             NEW key \in Keys(manifest) \cap Keys(baseline)
      PROVE  LET old == TargetOf(baseline, key).report.metrics
                 new == TargetOf(manifest, key).report.metrics IN
             RegressionGate(old, new, 0, 0) /\ ComparisonStatus(old, new) # "regressed"
  <2>1. SoundManifest(manifest) /\ SoundManifest(baseline)
    BY <1>2 DEF GInv, Graded, Standing
  <2>. DEFINE old == TargetOf(baseline, key).report.metrics
              new == TargetOf(manifest, key).report.metrics
  <2>2. Fair(old) /\ Fair(new)
    BY <2>1, TargetOfKey DEF Sound, Rated
  <2>3. Flawless(new)
    BY <1>1, <1>2, <2>1, TargetOfKey
  <2>. QED BY <2>2, <2>3, FlawlessIsAccepted
<1>3. GInv => PassedIsFlawless
  BY <1>1, <1>2 DEF PassedIsFlawless, IsManifest, Flawless
<1>. QED BY <1>3, GradedInvariance, PTL

=============================================================================
