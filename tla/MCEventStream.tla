--------------------------- MODULE MCEventStream ----------------------------
(***************************************************************************)
(* Instances of EventStream for TLC.                                       *)
(***************************************************************************)
EXTENDS EventStream, TLC

\* Requests, workers and domains are interchangeable.
Alike == Permutations(Requests) \cup Permutations(Workers)
           \cup Permutations(Domains)

=============================================================================
