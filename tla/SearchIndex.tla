---------------------------- MODULE SearchIndex -----------------------------
(***************************************************************************)
(* The index directory of one domain (search/index.py) under the rebuild   *)
(* jobs of several processes (search/service.py): worker processes and the *)
(* API process, which runs inline rebuilds.  Each step of rebuild_domain   *)
(* that touches the file system is an action, because nothing keeps two    *)
(* processes from rebuilding one domain at the same time.                  *)
(*                                                                         *)
(* The index library is modelled by what a directory holds: the rebuilds   *)
(* whose segments are in it, and the process that has its writer lock.  It *)
(* works on paths: a writer opened in a directory that was since replaced  *)
(* commits into the new one, and its commit lists the segments it found    *)
(* when it was opened and its own.                                         *)
(***************************************************************************)
EXTENDS Naturals

CONSTANTS
  Processes,
  NoProcess,
  MaxBuilds,   \* bound: rebuild jobs
  MaxEdits,    \* bound: commits that change the segments of the domain
  MaxFaults    \* bound: exceptions and crashes of the environment

ASSUME IndexConstants ==
  /\ NoProcess \notin Processes
  /\ MaxBuilds \in Nat /\ MaxEdits \in Nat /\ MaxFaults \in Nat

VARIABLES
  corpus,      \* the edition of the segments in the database
  builds,      \* rebuilds begun
  proc,        \* what each process does
  tmp,         \* the directory tantivy.tmp
  final,       \* the directory tantivy, the one searches open
  faults,
  served,      \* history: the rebuild that put final in place
  reported,    \* history: rebuilds recorded as succeeded
  cut          \* history: a rebuild ended between removal and rename

vars == <<corpus, builds, proc, tmp, final, faults, served, reported, cut>>

\* open: it has an index that can be opened.
Dir == [there : BOOLEAN, open : BOOLEAN, index : SUBSET Nat,
        holder : Processes \cup {NoProcess}]

Absent == [there |-> FALSE, open |-> FALSE, index |-> {},
           holder |-> NoProcess]
Bare == [Absent EXCEPT !.there = TRUE]

Steps == {"idle", "claimed", "cleared", "made", "writing", "written",
          "removing", "removed", "swapped"}

\* read: the edition of the segments; base: what the writer found.
\* alone: no other rebuild has run since this one began.
Idle == [pc |-> "idle", build |-> 0, read |-> 0, base |-> {}, alone |-> TRUE]

ProcState == [pc : Steps, build : Nat, read : Nat, base : SUBSET Nat,
              alone : BOOLEAN]

Busy(p) == proc[p].pc # "idle"

At(p, step) == proc[p].pc = step

Init ==
  /\ corpus = 0 /\ builds = 0 /\ faults = 0 /\ cut = FALSE
  /\ proc = [p \in Processes |-> Idle]
  /\ tmp = Absent /\ final = Absent
  /\ served = [build |-> 0, read |-> 0, alone |-> FALSE]
  /\ reported = {}

-----------------------------------------------------------------------------
\* An ingestion, an archived or a restored document.
Edit ==
  /\ corpus < MaxEdits
  /\ corpus' = corpus + 1
  /\ UNCHANGED <<builds, proc, tmp, final, faults, served, reported, cut>>

\* The job is running and its segments are read (list_indexable_segments).
Claim(p) ==
  /\ ~Busy(p) /\ builds < MaxBuilds
  /\ builds' = builds + 1
  /\ proc' = [q \in Processes |->
       IF q = p
       THEN [Idle EXCEPT !.pc = "claimed", !.build = builds + 1,
                         !.read = corpus,
                         !.alone = \A o \in Processes \ {p} : ~Busy(o)]
       ELSE [proc[q] EXCEPT !.alone = ~Busy(q)]]
  /\ UNCHANGED <<corpus, tmp, final, faults, served, reported, cut>>

Advance(p, step) == proc' = [proc EXCEPT ![p].pc = step]

\* Mutant: a directory that is left over is used as it is.
ClearTmpLeft(p) ==
  /\ At(p, "claimed")
  /\ tmp' = IF tmp.there THEN tmp ELSE Bare
  /\ Advance(p, "made")
  /\ UNCHANGED <<corpus, builds, final, faults, served, reported, cut>>

\* Mutant: only mkdir, which then finds the directory.
ClearTmpSkipped(p) ==
  /\ At(p, "claimed")
  /\ Advance(p, "cleared")
  /\ UNCHANGED <<corpus, builds, tmp, final, faults, served, reported, cut>>

\* Mutant: rmtree of the parent directory.
ClearTmpAndFinal(p) ==
  /\ At(p, "claimed")
  /\ tmp' = Absent /\ final' = Absent
  /\ Advance(p, "cleared")
  /\ UNCHANGED <<corpus, builds, faults, served, reported, cut>>

ClearTmp(p) ==
  /\ At(p, "claimed")
  /\ tmp' = Absent
  /\ Advance(p, "cleared")
  /\ UNCHANGED <<corpus, builds, final, faults, served, reported, cut>>

MakeTmp(p) ==
  /\ At(p, "cleared") /\ ~tmp.there
  /\ tmp' = Bare
  /\ Advance(p, "made")
  /\ UNCHANGED <<corpus, builds, final, faults, served, reported, cut>>

\* tantivy.Index opens or creates the index, index.writer() locks it.
OpenWriter(p) ==
  /\ At(p, "made") /\ tmp.there /\ tmp.holder = NoProcess
  /\ tmp' = [tmp EXCEPT !.open = TRUE, !.holder = p]
  /\ proc' = [proc EXCEPT ![p].pc = "writing", ![p].base = tmp.index]
  /\ UNCHANGED <<corpus, builds, final, faults, served, reported, cut>>

\* add_document for every segment, writer.commit()
WriteIndex(p) ==
  /\ At(p, "writing") /\ tmp.there
  /\ tmp' = [tmp EXCEPT !.open = TRUE,
                        !.index = proc[p].base \cup {proc[p].build}]
  /\ Advance(p, "written")
  /\ UNCHANGED <<corpus, builds, final, faults, served, reported, cut>>

\* Mutant: an index that exists is enough.
RemoveFinalOrStop(p) ==
  /\ At(p, "written")
  /\ Advance(p, IF final.open THEN "swapped" ELSE "removed")
  /\ UNCHANGED <<corpus, builds, tmp, final, faults, served, reported, cut>>

\* rmtree deletes file by file: at once the index can no longer be opened.
RemoveFinal(p) ==
  /\ At(p, "written")
  /\ final' = IF final.there THEN Bare ELSE final
  /\ Advance(p, IF final.there THEN "removing" ELSE "removed")
  /\ UNCHANGED <<corpus, builds, tmp, faults, served, reported, cut>>

FinishRemoval(p) ==
  /\ At(p, "removing") /\ final = Bare
  /\ final' = Absent
  /\ Advance(p, "removed")
  /\ UNCHANGED <<corpus, builds, tmp, faults, served, reported, cut>>

\* Mutant: shutil.move, or a rename that replaces what is there.
SwapOver(p) ==
  /\ At(p, "removed") /\ tmp.there
  /\ final' = tmp
  /\ tmp' = Absent
  /\ Advance(p, "swapped")
  /\ served' = [build |-> proc[p].build, read |-> proc[p].read,
                alone |-> proc[p].alone]
  /\ cut' = FALSE
  /\ UNCHANGED <<corpus, builds, faults, reported>>

Swap(p) ==
  /\ At(p, "removed") /\ tmp.there /\ ~final.there
  /\ final' = tmp
  /\ tmp' = Absent
  /\ Advance(p, "swapped")
  /\ served' = [build |-> proc[p].build, read |-> proc[p].read,
                alone |-> proc[p].alone]
  /\ cut' = FALSE
  /\ UNCHANGED <<corpus, builds, faults, reported>>

\* The writer is dropped: its lock is free, wherever the directory is.
Released(d, p) == IF d.holder = p THEN [d EXCEPT !.holder = NoProcess] ELSE d

Leave(p) ==
  /\ proc' = [proc EXCEPT ![p] = Idle]
  /\ tmp' = Released(tmp, p)
  /\ final' = Released(final, p)

\* The job is committed as succeeded, with index.rebuilt in the journal.
Report(p) ==
  /\ At(p, "swapped")
  /\ reported' = reported \cup {[build |-> proc[p].build, read |-> proc[p].read]}
  /\ Leave(p)
  /\ UNCHANGED <<corpus, builds, faults, served, cut>>

\* A call fails because of what another process did: FileExistsError of
\* mkdir, a directory that is gone, a busy writer lock, a rename onto a
\* directory that is not empty, files that vanish under rmtree.
Hindered(p) ==
  \/ At(p, "cleared") /\ tmp.there
  \/ At(p, "made") /\ (~tmp.there \/ tmp.holder # NoProcess)
  \/ At(p, "writing") /\ ~tmp.there
  \/ At(p, "removing") /\ final # Bare
  \/ At(p, "removed") /\ (~tmp.there \/ final.there)

InSwap(p) == proc[p].pc \in {"removing", "removed"}

Cut(p) == cut' = (cut \/ InSwap(p))

\* The exception leaves rebuild_domain, and the job fails.
Raise(p) ==
  /\ Hindered(p)
  /\ Leave(p)
  /\ Cut(p)
  /\ UNCHANGED <<corpus, builds, faults, served, reported>>

\* The disk, the database (also at the commit, after the swap) or the process
\* fails.
Fault(p) ==
  /\ Busy(p) /\ faults < MaxFaults
  /\ faults' = faults + 1
  /\ Leave(p)
  /\ Cut(p)
  /\ UNCHANGED <<corpus, builds, served, reported>>

RebuildStep(p) ==
  \/ ClearTmp(p) \/ MakeTmp(p) \/ OpenWriter(p) \/ WriteIndex(p)
  \/ RemoveFinal(p) \/ FinishRemoval(p) \/ Swap(p) \/ Report(p) \/ Raise(p)

Next ==
  \/ Edit
  \/ \E p \in Processes : Claim(p) \/ RebuildStep(p) \/ Fault(p)

Spec == Init /\ [][Next]_vars

\* A task that has begun goes on; nothing is assumed of Edit, Claim, Fault.
FairSpec == Spec /\ \A p \in Processes : WF_vars(RebuildStep(p))

-----------------------------------------------------------------------------
(***************************************************************************)
(* Properties.                                                             *)
(***************************************************************************)

\* The directories and processes keep their types, a lock is held only by a
\* process that has a writer, and the place of searches is never locked out.
TypeOK ==
  /\ corpus \in Nat /\ builds \in Nat /\ faults \in Nat /\ cut \in BOOLEAN
  /\ proc \in [Processes -> ProcState]
  /\ tmp \in Dir /\ final \in Dir
  /\ served \in [build : Nat, read : Nat, alone : BOOLEAN]
  /\ reported \subseteq [build : Nat, read : Nat]
  /\ \A d \in {tmp, final} : d.holder # NoProcess => Busy(d.holder)

\* A search finds the whole result of one rebuild, never a part of it nor the
\* segments of two, if that rebuild overlapped with no other: whatever earlier
\* rebuilds left behind when they failed or died.
ServedIsOneBuild ==
  (final.open /\ served.alone) => final.index = {served.build}

\* The index that searches find is as new as every rebuild that was reported
\* as succeeded, unless its own rebuild overlapped with another one.
ServedIsNewest ==
  served.alone => \A d \in reported : d.read <= served.read

\* Once a rebuild succeeded a search can open an index, except while a rebuild
\* is between the removal and the rename, after one that ended there, or when
\* overlapping rebuilds put an unfinished directory in place.
UnusableHasCause ==
  (reported # {} /\ ~final.open) =>
    (cut \/ (\E p \in Processes : InSwap(p)) \/ (final.there /\ ~served.alone))

\* What earlier rebuilds left behind never stands in the way of the next: one
\* that begins while no other runs puts what it read in place, unless another
\* begins or a fault occurs.
NextRebuildHeals ==
  \A n \in 1 .. MaxBuilds, f \in 0 .. MaxFaults :
    (/\ builds = n /\ faults = f
     /\ \E p \in Processes :
          proc[p].pc = "claimed" /\ proc[p].build = n /\ proc[p].alone)
      ~> (final.index = {n} \/ builds # n \/ faults # f)

=============================================================================
