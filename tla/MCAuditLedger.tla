--------------------------- MODULE MCAuditLedger ----------------------------
(***************************************************************************)
(* Instances of AuditLedger for TLC.                                       *)
(***************************************************************************)
EXTENDS AuditLedger, TLC

\* Writers are alike, and so are domains.
Alike == Permutations(Writers) \cup Permutations(Domains)

=============================================================================
