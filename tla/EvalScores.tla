----------------------------- MODULE EvalScores -----------------------------
(***************************************************************************)
(* What an evaluation makes of a dataset: the cases of its records         *)
(* (evals/datasets.py), their scores (evals/smoke.py, evals/agent.py), the *)
(* report, and the judgements that are passed on reports by the            *)
(* calibration scripts and by the API (api/routes/evals.py).               *)
(***************************************************************************)
EXTENDS Integers, Sequences, SequencesExt, FiniteSetsExt

CONSTANTS
  Scale,       \* the score 1.0; a multiple of every number of cases
  MostHits     \* max_citations of a case

ASSUME ScoreConstants == Scale \in Nat \ {0} /\ MostHits \in Nat

Suites == {"squad", "hotpotqa", "hotpotqa-agent", "natural-questions"}

\* Records that support no answer, name one supporting text, or two with a term
\* in common.
Kinds == {"empty", "single", "multi"}

-----------------------------------------------------------------------------
(***************************************************************************)
(* Cases.                                                                  *)
(***************************************************************************)

\* Every record gives a case, except that the agent needs two supporting texts.
GivesCase(suite, kind) == suite = "hotpotqa-agent" => kind = "multi"

\* load_*_cases: of the records that give one, the first, as many as asked for.
Cases(suite, records, most) ==
  LET giving    == {i \in DOMAIN records : GivesCase(suite, records[i])}
      Before(i) == Cardinality({j \in giving : j < i}) IN
  [n \in 1..(IF Cardinality(giving) < most THEN Cardinality(giving) ELSE most) |->
     records[CHOOSE i \in giving : Before(i) = n - 1]]

Expected(kind) ==
  CASE kind = "empty"  -> {}
    [] kind = "single" -> {"first"}
    [] kind = "multi"  -> {"first", "second"}

\* The agent's cases are stripped of the texts that support nothing.
DocumentsOf(suite, kind) ==
  IF suite = "hotpotqa" THEN Expected(kind) \cup {"other"} ELSE Expected(kind)

-----------------------------------------------------------------------------
(***************************************************************************)
(* Scores: a function from the metrics of the suite to BOOLEAN.            *)
(***************************************************************************)
ScoreCase(suite, kind, hits, answered) ==
  [retrieval_recall  |-> Expected(kind) \subseteq hits,
   citation_validity |-> hits \subseteq DocumentsOf(suite, kind),
   grounded_answer   |-> answered,
   abstention        |-> kind = "empty" => hits = {},
   budget_compliance |-> Cardinality(hits) <= MostHits]

\* The question of a case compares its texts, so its plan searches twice.
\* within: the query's searches are as many as asked for, and its tokens within
\* the budget.
ScoreAgentCase(kind, hits, answered, within) ==
  [query_plan        |-> TRUE,
   multi_hop_support |-> hits = Expected(kind),
   evidence_route    |-> Cardinality(hits) >= 2,
   citation_validity |-> hits \subseteq Expected(kind),
   grounded_answer   |-> answered,
   budget_compliance |-> within /\ Cardinality(hits) <= MostHits]

\* What a search of the case's own index may find.
HitsOf(suite, kind) == {h \in SUBSET DocumentsOf(suite, kind) : Cardinality(h) <= MostHits}

\* An answer to a question that has none says so.
Answered(kind) == IF kind = "empty" THEN {TRUE} ELSE BOOLEAN

Outcomes(suite, kind) ==
  IF suite = "hotpotqa-agent"
  THEN {ScoreAgentCase(kind, h, a, w) :
          h \in HitsOf(suite, kind), a \in Answered(kind), w \in BOOLEAN}
  ELSE {ScoreCase(suite, kind, h, a) : h \in HitsOf(suite, kind), a \in Answered(kind)}

Ratio(part, whole) == IF whole = 0 THEN Scale ELSE (Scale * part) \div whole

CasePassed(score) == \A name \in DOMAIN score : score[name]

\* Mutant: one good case is enough.
ReportOfBest(scores) ==
  [passed  |-> \E i \in DOMAIN scores : CasePassed(scores[i]),
   cases   |-> Len(scores),
   metrics |-> [name \in DOMAIN scores[1] |->
                  Ratio(Cardinality({i \in DOMAIN scores : scores[i][name]}), Len(scores))]]

\* EvalSuiteReport, AgentEvalSuiteReport: of one case at least.
Report(scores) ==
  [passed  |-> \A i \in DOMAIN scores : CasePassed(scores[i]),
   cases   |-> Len(scores),
   metrics |-> [name \in DOMAIN scores[1] |->
                  Ratio(Cardinality({i \in DOMAIN scores : scores[i][name]}), Len(scores))]]

Reports(suite, cases) ==
  {Report(s) : s \in {f \in [DOMAIN cases -> UNION {Outcomes(suite, k) : k \in ToSet(cases)}] :
                        \A i \in DOMAIN cases : f[i] \in Outcomes(suite, cases[i])}}

-----------------------------------------------------------------------------
(***************************************************************************)
(* Judgements.                                                             *)
(***************************************************************************)

\* evaluate_metric_gates: a gate on a metric that is not reported fails.
GatesPassed(key, metrics, gates) ==
  \A g \in gates :
    g.target \in {key, "any"} =>
      g.name \in DOMAIN metrics /\ metrics[g.name] >= g.minimum

ErrorRates == {"character_error_rate", "word_error_rate"}

\* is_lower_better_metric and metric_lower_is_better.
ScriptLowerIsBetter(name) == name \in ErrorRates \cup {"cer", "wer"}
ApiLowerIsBetter(name)    == name \in ErrorRates

\* compare_metrics.
MetricsKept(base, cand, tolerance) ==
  /\ DOMAIN base \subseteq DOMAIN cand
  /\ \A name \in DOMAIN base :
       IF ScriptLowerIsBetter(name) THEN cand[name] <= base[name] + tolerance
       ELSE cand[name] >= base[name] - tolerance

\* regression_gate_for_reports and compare_eval_runs, on what both report.
Normalized(base, cand) ==
  [name \in DOMAIN base \cap DOMAIN cand |->
     IF ApiLowerIsBetter(name) THEN base[name] - cand[name]
     ELSE cand[name] - base[name]]

RegressionGate(base, cand, tolerance, average) ==
  LET deltas == Normalized(base, cand) IN
  /\ \A name \in DOMAIN deltas : deltas[name] >= - tolerance
  /\ SumFunction(deltas) >= - average * Cardinality(DOMAIN deltas)

ComparisonStatus(base, cand) ==
  LET total == SumFunction([name \in DOMAIN base \cap DOMAIN cand |->
                              cand[name] - base[name]]) IN
  CASE total > 0 -> "improved" [] total < 0 -> "regressed" [] OTHER -> "unchanged"
=============================================================================
