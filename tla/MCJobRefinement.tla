-------------------------- MODULE MCJobRefinement ---------------------------
(***************************************************************************)
(* An instance of JobRefinement for TLC.                                   *)
(***************************************************************************)
EXTENDS JobRefinement

CONSTANTS a, b

\* Every kind of job; the scans and the upload compete for the same content.
AllForms ==
  { [kind |-> "text",  files |-> <<a>>],
    [kind |-> "scan",  files |-> <<a, b>>],
    [kind |-> "scan",  files |-> <<b, a>>],
    [kind |-> "index", files |-> << >>],
    [kind |-> "agent", files |-> << >>] }

=============================================================================
