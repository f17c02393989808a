--------------------------- MODULE MCCalibration ---------------------------
(***************************************************************************)
(* Instances of Calibration for TLC: the two targets that share the        *)
(* HotpotQA sample, and one whose sampler writes line by line.             *)
(***************************************************************************)
EXTENDS Calibration

MCProfiles == {"hotpotqa-dev", "nq-adapter"}
MCProfile  == [hotpotqa |-> "hotpotqa-dev", agent |-> "hotpotqa-dev", nq |-> "nq-adapter"]
MCSuite    == [hotpotqa |-> "hotpotqa", agent |-> "hotpotqa-agent", nq |-> "natural-questions"]
MCStem     == [hotpotqa |-> "real-hotpotqa", agent |-> "real-agent", nq |-> "real-nq"]

\* Sources of at most two records, the first of which the agent cannot use.
MCOffered ==
  [p \in MCProfiles |->
     IF p = "nq-adapter" THEN {<<>>, <<"single">>, <<"single", "single">>}
     ELSE {<<"multi">>, <<"single", "multi">>}]

Command(targets, records, cases, force, gates) ==
  [targets |-> targets, records |-> records, cases |-> cases, force |-> force,
   gates |-> gates]

\* A gate that can fail, and one on a metric that the target does not report.
Recall == {[target |-> "any", name |-> "retrieval_recall", minimum |-> Scale]}

\* Both HotpotQA targets, and the streamed one; sampled again or not; more or
\* fewer records and cases.
MCCommands ==
  {Command(<<"hotpotqa", "agent">>, 2, 1, FALSE, {}),
   Command(<<"agent">>, 1, 1, TRUE, Recall),
   Command(<<"nq">>, 1, 1, FALSE, Recall),
   Command(<<"nq">>, 2, 2, TRUE, {})}

=============================================================================
