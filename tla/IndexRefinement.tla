-------------------------- MODULE IndexRefinement ---------------------------
(***************************************************************************)
(* SearchIndex implements IndexPromise: whatever rebuilds fail, die and    *)
(* overlap, those who search see no more than the promise allows.          *)
(***************************************************************************)
EXTENDS SearchIndex

Promise == INSTANCE IndexPromise
  WITH shown <- [open   |-> final.open,
                 builds |-> IF final.open THEN final.index ELSE {},
                 last   |-> served.build,
                 read   |-> served.read,
                 whole  |-> served.alone],
       told <- {d.read : d \in reported}

\* The steps of the rebuilds of all processes add up to: an index in place
\* goes away, and another is put in place whole, later than all before it.
\* Nothing changes under a search that can be answered, what is in place never
\* falls back to an earlier edition (not even to one that no rebuild got to
\* report), unless rebuilds overlapped, and no rebuild is reported before an
\* index was put in place.
KeepsIndexPromise == Promise!Spec

-----------------------------------------------------------------------------
(***************************************************************************)
(* Why it does.                                                            *)
(***************************************************************************)

\* What can be opened is there: a rename onto no directory hides no index.
OpenIsThere == \A d \in {tmp, final} : d.open => d.there

\* Rebuilds are numbered and read the segments in the order they begin, ...
Numbered ==
  /\ served.build <= builds /\ served.read <= corpus
  /\ \A p \in Processes : Busy(p) => proc[p].build \in 1 .. builds
  /\ \A p \in Processes : At(p, "swapped") => served.build > 0

\* ... so that a lone one comes after the one that was last put in place.
LoneIsLater ==
  \A p \in Processes :
    Busy(p) /\ ~At(p, "swapped") /\ proc[p].alone =>
      served.build < proc[p].build /\ served.read <= proc[p].read

Forward == OpenIsThere /\ Numbered /\ LoneIsLater

=============================================================================
