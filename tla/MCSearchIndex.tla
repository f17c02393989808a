--------------------------- MODULE MCSearchIndex ----------------------------
(***************************************************************************)
(* An instance of IndexRefinement for TLC.  Its cfg has no symmetry: the   *)
(* run checks a liveness property.                                         *)
(***************************************************************************)
EXTENDS IndexRefinement

=============================================================================
