----------------------------- MODULE MCEvalRuns -----------------------------
(***************************************************************************)
(* Two runs: of one chain, or unrelated with the same report file.  The    *)
(* built-in suite keeps no field and writes no report; the OCR suite has   *)
(* the fields of run_dataset_evals and one of its own, and writes a        *)
(* report; the dataset suite is only in a payload made by hand.            *)
(***************************************************************************)
EXTENDS EvalRuns, TLC

MCSuites == {"retos-smoke", "squad-v2", "ocr-funsd"}

DatasetOptions == {"dataset_path", "max_cases", "write_report", "report_stem"}

MCOptions ==
  "retos-smoke" :> {} @@ "squad-v2" :> DatasetOptions
    @@ "ocr-funsd" :> (DatasetOptions \cup {"max_word_error_rate"})

MCValues == {"default", "yes", "no", "given", "padded", "blank"}

\* string_from_payload, optional_string_from_payload
MCTrimmed ==
  [v \in MCValues |-> CASE v = "padded" -> "given"
                        [] v = "blank" -> "default"
                        [] OTHER -> v]

Smoke == [suite |-> "retos-smoke", options |-> [k \in {} |-> "default"]]

\* Its first run writes to another file than its reruns.
Ocr ==
  [suite |-> "ocr-funsd",
   options |-> [k \in MCOptions["ocr-funsd"] |->
     CASE k = "write_report" -> "yes" [] k = "report_stem" -> "blank" [] OTHER -> "given"]]

MCPlans == {Smoke, Ocr}

\* One that can be rerun and claims to have a report, and one without a dataset.
MCDrafts ==
  {[suite |-> "ocr-funsd", options |-> "dataset_path" :> "padded",
    paths |-> "given", result |-> "passed"],
   [suite |-> "squad-v2", options |-> "dataset_path" :> "blank",
    paths |-> "absent", result |-> "absent"]}

\* write_report_files, sanitize_report_stem
MCReportFile ==
  [s \in MCSuites |-> [stem \in MCValues |->
     CASE stem = "default" -> s
       [] stem = "blank" -> "eval-report"
       [] OTHER -> "given"]]

=============================================================================
