---------------------------- MODULE IndexPromise ----------------------------
(***************************************************************************)
(* The index of a domain as those who search it see it: a disposable       *)
(* projection of the segments (docs/database.md:109).  A rebuild takes the *)
(* index away and puts another in its place; an index in place never       *)
(* changes.  A rebuild that overlapped with no other shows its own         *)
(* segments and no others, it comes after everything that was in place     *)
(* before it, and a rebuild that is reported as succeeded had an index in  *)
(* place.                                                                  *)
(***************************************************************************)
EXTENDS Naturals

VARIABLES
  corpus,    \* the edition of the segments
  shown,     \* the index in place
  told       \* the editions that rebuilds reported as succeeded had read

promiseVars == <<corpus, shown, told>>

\* open: a search can open it; builds: whose segments it holds.  What is last
\* to have been put in place: its number, the edition it read, and whether it
\* overlapped with no other.
Shown == [open : BOOLEAN, builds : SUBSET Nat, last : Nat, read : Nat,
          whole : BOOLEAN]

Init ==
  /\ corpus = 0 /\ told = {}
  /\ shown = [open |-> FALSE, builds |-> {}, last |-> 0, read |-> 0,
              whole |-> FALSE]

Edit ==
  /\ corpus' = corpus + 1
  /\ UNCHANGED <<shown, told>>

Hide ==
  /\ shown.open
  /\ shown' = [open |-> FALSE, builds |-> {}, last |-> shown.last,
               read |-> shown.read, whole |-> shown.whole]
  /\ UNCHANGED <<corpus, told>>

Place ==
  /\ ~shown.open
  /\ shown' \in Shown /\ shown'.last > 0 /\ shown'.read <= corpus
  /\ UNCHANGED <<corpus, told>>

\* A rebuild that overlapped with no other.
PlaceWhole ==
  /\ Place
  /\ shown'.whole /\ shown'.open
  /\ shown'.builds = {shown'.last}
  /\ shown'.last > shown.last /\ shown'.read >= shown.read
  /\ \A r \in told : r <= shown'.read

\* Nothing is promised of the segments after rebuilds that overlapped.
PlaceMixed == Place /\ ~shown'.whole

Tell ==
  /\ shown.last > 0
  /\ \E r \in 0 .. corpus :
       /\ shown.whole => r <= shown.read
       /\ told' = told \cup {r}
  /\ UNCHANGED <<corpus, shown>>

Next == Edit \/ Hide \/ PlaceWhole \/ PlaceMixed \/ Tell

Spec == Init /\ [][Next]_promiseVars

=============================================================================
