---------------------------- MODULE MCAgentQuery ----------------------------
(***************************************************************************)
(* Instances of AgentQuery for TLC: three segments of one version, the     *)
(* middle one as large as the smaller budget, and one of another           *)
(* document that exceeds it, contradicts the first and shares no term with *)
(* the third.                                                              *)
(***************************************************************************)
EXTENDS AgentQuery

CONSTANTS s1, s2, s3, s4

MCSegments == {s1, s2, s3, s4}
MCSize     == (s1 :> 1) @@ (s2 :> 2) @@ (s3 :> 1) @@ (s4 :> 3)
MCVersion  == [s \in MCSegments |-> IF s = s4 THEN 2 ELSE 1]
MCDocument == [s \in MCSegments |-> IF s = s4 THEN "b" ELSE "a"]
MCTerms    == (s1 :> {"x", "y"}) @@ (s2 :> {"x"}) @@ (s3 :> {"z"}) @@ (s4 :> {"x", "y"})
MCNegative == [s \in MCSegments |-> s = s4]
MCOrdinal  == (s1 :> 0) @@ (s2 :> 1) @@ (s3 :> 2) @@ (s4 :> 0)

\* A budget too small for some hits, one that a few hits exceed together, and
\* one that a hit and its two neighbours exceed.
MCBudgets ==
  {[searches |-> 4, citations |-> 2, tokens |-> 2, limit |-> 1],
   [searches |-> 2, citations |-> 1, tokens |-> 3, limit |-> 2],
   [searches |-> 3, citations |-> 2, tokens |-> 4, limit |-> 2]}

=============================================================================
