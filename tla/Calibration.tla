---------------------------- MODULE Calibration ----------------------------
(***************************************************************************)
(* Calibration on public datasets (scripts/run_eval_calibration.py,        *)
(* fetch_eval_dataset.py, compare_eval_calibration.py): an operator's      *)
(* command samples a dataset for each target or reuses the sample there    *)
(* is, evaluates it, writes the reports and, at the end, a manifest;       *)
(* another compares the manifest with a baseline.  The files outlive the   *)
(* command, which may be interrupted at any point.                         *)
(***************************************************************************)
EXTENDS EvalScores

CONSTANTS
  Profiles,
  Profile,     \* of each target
  Suite,       \* of each target
  Stem,        \* report_stem of each target
  Streamed,    \* the profiles whose sampler writes line by line
  Offered,     \* what each profile's source may hold
  Commands,    \* arguments of run_eval_calibration.py
  Tolerances,  \* values of --max-regression
  NoFile,      \* no such file
  Torn,        \* a file that does not parse
  MaxRuns, MaxAccidents

Targets == DOMAIN Profile

ASSUME CalibrationConstants ==
  /\ DOMAIN Suite = Targets /\ DOMAIN Stem = Targets
  /\ Profile \in [Targets -> Profiles]
  /\ \A t, u \in Targets : Stem[t] = Stem[u] => t = u
  /\ \A c \in Commands : /\ c.targets \in Seq(Targets) \ {<<>>}
                         /\ c.records \in Nat \ {0} /\ c.cases \in Nat \ {0}
  /\ \A p \in Profiles : Offered[p] \subseteq Seq(Kinds)
  /\ MaxRuns \in Nat /\ MaxAccidents \in Nat /\ Tolerances \subseteq Nat

VARIABLES
  pc,          \* what the calibration command is doing
  command,     \* its arguments
  run,         \* its number
  results,     \* the targets that are done
  dataset,     \* dataset_result of the current target
  sample,      \* what is being written to the dataset's file
  report,      \* the current target's report
  files,       \* the datasets' files
  metadata,    \* their .metadata.json
  reports,     \* the reports' files, by stem
  manifest,    \* manifest.json
  baseline,    \* the manifest that candidates are compared with
  first,       \* history: the first baseline
  slack,       \* history: the tolerances granted since
  foreign,     \* history: profiles whose file is newer than their metadata
  accidents    \* interruptions and other accidents

current == <<dataset, sample, report>>
output  == <<files, metadata, reports, manifest, foreign>>
release == <<baseline, first, slack>>
vars    == <<pc, command, run, results, current, output, release, accidents>>

Target == command.targets[Len(results) + 1]
Here   == Profile[Target]

FileType == [json : 1..MaxRuns \cup {NoFile}, markdown : 1..MaxRuns \cup {NoFile},
             of : Targets \cup {NoFile}]

Take(records, most) == SubSeq(records, 1, IF Len(records) < most THEN Len(records) ELSE most)

Init ==
  /\ pc = "idle" /\ command = NoFile /\ run = 0 /\ results = <<>>
  /\ dataset = NoFile /\ sample = NoFile /\ report = NoFile
  /\ files = [p \in Profiles |-> NoFile] /\ metadata = [p \in Profiles |-> NoFile]
  /\ reports = [s \in {Stem[t] : t \in Targets} |->
                  [json |-> NoFile, markdown |-> NoFile, of |-> NoFile]]
  /\ manifest = NoFile /\ baseline = NoFile /\ first = NoFile /\ slack = 0
  /\ foreign = {} /\ accidents = 0

\* run_calibration.
Begin ==
  /\ pc = "idle" /\ run < MaxRuns
  /\ command' \in Commands
  /\ pc' = "dataset" /\ run' = run + 1 /\ results' = <<>>
  /\ UNCHANGED <<current, output, release, accidents>>

\* The command ends with an error, or is killed, and leaves its files.
End ==
  /\ pc' = "idle" /\ command' = NoFile /\ results' = <<>>
  /\ dataset' = NoFile /\ sample' = NoFile /\ report' = NoFile

-----------------------------------------------------------------------------
(***************************************************************************)
(* The dataset of a target: materialize_dataset.                           *)
(***************************************************************************)
Exists == files[Here] # NoFile /\ ~ command.force

\* Mutant: the sample must be larger than asked for.
FitsMore(known) == known \in Nat /\ known > command.records

\* The metadata has the count of records, and of the same profile: profiles do
\* not share their files.
Fits(known) == known \in Nat /\ known >= command.records

Reuse ==
  /\ pc = "dataset" /\ Exists /\ Fits(metadata[Here])
  /\ dataset' = [profile |-> Here, records |-> metadata[Here]]
  /\ pc' = "evaluate"
  /\ UNCHANGED <<command, run, results, sample, report, output, release, accidents>>

\* "Refusing to overwrite existing dataset", or metadata that is not JSON.
Refuse ==
  /\ pc = "dataset" /\ Exists /\ ~ Fits(metadata[Here])
  /\ End
  /\ UNCHANGED <<run, output, release, accidents>>

\* No source answers, or a sampler finds nothing before it writes.
DownloadFails ==
  /\ pc = "dataset" /\ ~ Exists /\ accidents < MaxAccidents
  /\ accidents' = accidents + 1
  /\ End
  /\ UNCHANGED <<run, output, release>>

\* The download, then the sampler's first touch of the file.
Sample ==
  /\ pc = "dataset" /\ ~ Exists
  /\ \E records \in Offered[Here] : sample' = Take(records, command.records)
  /\ files' = [files EXCEPT ![Here] = Torn]
  /\ foreign' = foreign \cup {Here}
  /\ pc' = "writing"
  /\ UNCHANGED <<command, run, results, dataset, report, metadata, reports, manifest,
                 release, accidents>>

\* What an interrupted or failing sampler leaves of its records.
Partial(profile, records) ==
  {Torn} \cup (IF profile \in Streamed THEN {Take(records, n) : n \in 0..Len(records)}
               ELSE {})

\* A streaming sampler stops at a line that is not JSON, or has no record.
SampleRaises ==
  /\ pc = "writing" /\ Here \in Streamed /\ accidents < MaxAccidents
  /\ \E left \in Partial(Here, sample) : files' = [files EXCEPT ![Here] = left]
  /\ accidents' = accidents + 1
  /\ End
  /\ UNCHANGED <<run, metadata, reports, manifest, foreign, release>>

Written ==
  /\ pc = "writing" /\ (Here \in Streamed => sample # <<>>)
  /\ files' = [files EXCEPT ![Here] = sample]
  /\ dataset' = [profile |-> Here, records |-> Len(sample)]
  /\ pc' = "describe"
  /\ UNCHANGED <<command, run, results, sample, report, metadata, reports, manifest,
                 foreign, release, accidents>>

\* A streaming sampler that has written no record raises.
NothingWritten ==
  /\ pc = "writing" /\ Here \in Streamed /\ sample = <<>>
  /\ files' = [files EXCEPT ![Here] = <<>>]
  /\ End
  /\ UNCHANGED <<run, metadata, reports, manifest, foreign, release, accidents>>

\* Mutant: the count that was asked for.
DescribeAsAsked ==
  /\ pc = "describe"
  /\ metadata' = [metadata EXCEPT ![Here] = command.records]
  /\ foreign' = foreign \ {Here}
  /\ pc' = "evaluate"
  /\ UNCHANGED <<command, run, results, current, files, reports, manifest, release,
                 accidents>>

\* write_dataset_metadata.
Describe ==
  /\ pc = "describe"
  /\ metadata' = [metadata EXCEPT ![Here] = dataset.records]
  /\ foreign' = foreign \ {Here}
  /\ pc' = "evaluate"
  /\ UNCHANGED <<command, run, results, current, files, reports, manifest, release,
                 accidents>>

-----------------------------------------------------------------------------
(***************************************************************************)
(* The evaluation of a target: run_target.                                 *)
(***************************************************************************)
Loaded ==
  IF files[Here] = Torn THEN <<>> ELSE Cases(Suite[Target], files[Here], command.cases)

Evaluate ==
  /\ pc = "evaluate" /\ Loaded # <<>>
  /\ report' \in Reports(Suite[Target], Loaded)
  /\ pc' = "report"
  /\ UNCHANGED <<command, run, results, dataset, sample, output, release, accidents>>

\* A file that does not parse or gives no case: nothing catches the error.
EvaluateRaises ==
  /\ pc = "evaluate" /\ Loaded = <<>>
  /\ End
  /\ UNCHANGED <<run, output, release, accidents>>

\* Mutant: a file for each profile.
StemFileByProfile(written) ==
  [reports EXCEPT ![Stem[CHOOSE t \in Targets : Profile[t] = Here]] =
     [json |-> run, markdown |-> IF written THEN run ELSE @.markdown, of |-> Target]]

\* The files of the report: markdown follows JSON.
StemFile(written) ==
  [reports EXCEPT ![Stem[Target]] =
     [json |-> run, markdown |-> IF written THEN run ELSE @.markdown, of |-> Target]]

\* held, known: history, the records that were evaluated and whether the
\* metadata was about them.
Result ==
  [key     |-> Target,
   passed  |-> report.passed /\ GatesPassed(Target, report.metrics, command.gates),
   report  |-> report,
   dataset |-> dataset,
   held    |-> files[Here],
   known   |-> Here \notin foreign]

WriteReport ==
  /\ pc = "report"
  /\ reports' = StemFile(TRUE)
  /\ results' = Append(results, Result)
  /\ pc' = IF Len(results') = Len(command.targets) THEN "manifest" ELSE "dataset"
  /\ dataset' = NoFile /\ sample' = NoFile /\ report' = NoFile
  /\ UNCHANGED <<command, run, files, metadata, manifest, foreign, release, accidents>>

WriteManifest ==
  /\ pc = "manifest"
  /\ manifest' = [run |-> run, targets |-> results,
                  passed |-> \A i \in DOMAIN results : results[i].passed]
  /\ End
  /\ UNCHANGED <<run, files, metadata, reports, foreign, release, accidents>>

\* The command is killed between two of its steps, or within one.
Interrupt ==
  /\ pc # "idle" /\ accidents < MaxAccidents
  /\ accidents' = accidents + 1
  /\ files' \in {files} \cup
       (IF pc # "writing" THEN {}
        ELSE {[files EXCEPT ![Here] = left] : left \in Partial(Here, sample)})
  /\ metadata' \in {metadata} \cup
       (IF pc # "describe" THEN {} ELSE {[metadata EXCEPT ![Here] = Torn]})
  /\ reports' \in {reports} \cup (IF pc # "report" THEN {} ELSE {StemFile(FALSE)})
  /\ manifest' \in {manifest} \cup (IF pc # "manifest" THEN {} ELSE {Torn})
  /\ End
  /\ UNCHANGED <<run, foreign, release>>

\* fetch_eval_dataset.py on its own leaves the metadata alone.
FetchAlone ==
  /\ pc = "idle" /\ accidents < MaxAccidents
  /\ accidents' = accidents + 1
  /\ \E p \in Profiles : \E records \in Offered[p] :
       \E most \in {c.records : c \in Commands} :
         files' = [files EXCEPT ![p] = Take(records, most)] /\ foreign' = foreign \cup {p}
  /\ UNCHANGED <<pc, command, run, results, current, metadata, reports, manifest, release>>

-----------------------------------------------------------------------------
(***************************************************************************)
(* Baselines.                                                              *)
(***************************************************************************)
Keys(m) == {m.targets[i].key : i \in DOMAIN m.targets}

TargetOf(m, key) == CHOOSE r \in ToSet(m.targets) : r.key = key

Unrepeated(m) == Cardinality(Keys(m)) = Len(m.targets)

\* Mutant: the number of cases may shrink.
TargetKeptSmaller(base, cand, tolerance) ==
  /\ cand.dataset.profile = base.dataset.profile
  /\ cand.dataset.records >= base.dataset.records
  /\ MetricsKept(base.report.metrics, cand.report.metrics, tolerance)
  /\ cand.passed

\* compare_target.
TargetKept(base, cand, tolerance) ==
  /\ cand.dataset.profile = base.dataset.profile
  /\ cand.dataset.records >= base.dataset.records
  /\ cand.report.cases >= base.report.cases
  /\ MetricsKept(base.report.metrics, cand.report.metrics, tolerance)
  /\ cand.passed

\* compare_manifests.
Kept(base, cand, tolerance) ==
  /\ Unrepeated(base) /\ Unrepeated(cand) /\ cand.passed
  /\ Keys(base) \subseteq Keys(cand)
  /\ \A key \in Keys(base) :
       TargetKept(TargetOf(base, key), TargetOf(cand, key), tolerance)

Readable == pc = "idle" /\ manifest \notin {NoFile, Torn}

\* Nothing is asked of the first baseline.
Adopt ==
  /\ Readable /\ baseline = NoFile
  /\ baseline' = manifest /\ first' = manifest /\ slack' = 0
  /\ UNCHANGED <<pc, command, run, results, current, output, accidents>>

\* A candidate that compares well becomes the baseline of the next.
Promote ==
  /\ Readable /\ baseline # NoFile /\ manifest # baseline
  /\ \E tolerance \in Tolerances :
       Kept(baseline, manifest, tolerance) /\ slack' = slack + tolerance
  /\ baseline' = manifest
  /\ UNCHANGED <<pc, command, run, results, current, output, first, accidents>>

-----------------------------------------------------------------------------
Fetch == Reuse \/ Refuse \/ DownloadFails \/ Sample \/ SampleRaises \/ Written
           \/ NothingWritten \/ Describe

RunTarget == Evaluate \/ EvaluateRaises \/ WriteReport

Next == Begin \/ Fetch \/ RunTarget \/ WriteManifest \/ Interrupt \/ FetchAlone
          \/ Adopt \/ Promote

Spec == Init /\ [][Next]_vars

-----------------------------------------------------------------------------
(***************************************************************************)
(* Properties.                                                             *)
(***************************************************************************)

\* The files and the command's progress are of their types, and a command that
\* has ended has forgotten what it was doing.
TypeOK ==
  /\ pc \in {"idle", "dataset", "writing", "describe", "evaluate", "report", "manifest"}
  /\ run \in 0..MaxRuns
  /\ command \in IF pc = "idle" THEN {NoFile} ELSE Commands
  /\ pc # "idle" => Len(results) <= Len(command.targets)
  /\ pc = "idle" => results = <<>> /\ report = NoFile
  /\ \A p \in Profiles : metadata[p] \in Nat \cup {NoFile, Torn}
  /\ \A s \in DOMAIN reports : reports[s] \in FileType

\* A target's result claims as many records as the file held that was
\* evaluated, also when the sample was reused in a later run with other
\* arguments; except over a file that was written again, by hand or by a run
\* that ended before its metadata.
ClaimsHold ==
  manifest \notin {NoFile, Torn} =>
    \A i \in DOMAIN manifest.targets :
      LET r == manifest.targets[i] IN
      r.known => /\ r.dataset.records = Len(r.held)
                 /\ r.report.cases <= r.dataset.records

\* A sample that a run wrote and described serves every later run that asks for
\* no more than it holds: such a run is never refused, in particular not for the
\* second target of one profile.
RefusedOnlyIfShort ==
  [][ pc = "dataset" /\ pc' = "idle" /\ accidents' = accidents /\ Here \notin foreign =>
        files[Here] = Torn \/ Len(files[Here]) < command.records ]_vars

\* The reports that a manifest points at are those of its own run and targets,
\* unless a later run has begun to write its own.
ReportsMatch ==
  pc = "idle" /\ manifest \notin {NoFile, Torn} /\ manifest.run = run =>
    \A i \in DOMAIN manifest.targets :
      LET key == manifest.targets[i].key IN
      reports[Stem[key]] = [json |-> run, markdown |-> run, of |-> key]

\* However many candidates replace the baseline one after the other, the
\* baseline never has fewer targets, records or cases than the first, nor worse
\* metrics by more than the tolerances granted.
NeverWorseThanFirst ==
  baseline # NoFile =>
    /\ Keys(first) \subseteq Keys(baseline)
    /\ \A key \in Keys(first) :
         LET old == TargetOf(first, key)  new == TargetOf(baseline, key) IN
         Unrepeated(first) =>
           /\ new.dataset.records >= old.dataset.records
           /\ new.report.cases >= old.report.cases
           /\ \A name \in DOMAIN old.report.metrics :
                new.report.metrics[name] + slack >= old.report.metrics[name]

\* A manifest that passed has full marks in every metric, so that the API's
\* regression gate accepts it against any other one without tolerance and its
\* comparison never calls it regressed: gates below full marks and a tolerated
\* regression never let a weaker manifest pass.
PassedIsFlawless ==
  manifest \notin {NoFile, Torn} =>
    /\ manifest.passed => \A i \in DOMAIN manifest.targets :
         LET metrics == manifest.targets[i].report.metrics IN
         \A name \in DOMAIN metrics : metrics[name] = Scale
    /\ manifest.passed /\ baseline # NoFile =>
         \A key \in Keys(manifest) \cap Keys(baseline) :
           LET old == TargetOf(baseline, key).report.metrics
               new == TargetOf(manifest, key).report.metrics IN
           RegressionGate(old, new, 0, 0) /\ ComparisonStatus(old, new) # "regressed"

=============================================================================
