--------------------------- MODULE MCJobLifecycle ---------------------------
(***************************************************************************)
(* Instances of JobLifecycle for TLC.                                      *)
(***************************************************************************)
EXTENDS JobLifecycle, TLC

CONSTANTS a, b

\* Two scans of the same files: lock waits in both orders, and deadlocks.
CrossingForms ==
  { [kind |-> "scan", files |-> <<a, b>>],
    [kind |-> "scan", files |-> <<b, a>>] }

\* An upload, and a scan that meets the same file.
OverlappingForms ==
  { [kind |-> "text", files |-> <<a>>],
    [kind |-> "scan", files |-> <<a, b>>] }

Alike == Permutations(Executors) \cup Permutations(Requests)
           \cup Permutations(Jobs)

=============================================================================
