---------------------------- MODULE MCDocuments -----------------------------
(***************************************************************************)
(* An instance of Documents and of Segmenting for TLC.  Requests and the   *)
(* cutting of a text share no state, and an instance is small enough if    *)
(* only one of them happens in a behaviour: each is checked as by itself.  *)
(***************************************************************************)
EXTENDS Documents, Segmenting, TLC

NoText == stage = "job" /\ UNCHANGED segmentVars
NoRequest == journal = <<>> /\ request = [r \in Requests |-> Idle] /\ UNCHANGED vars

\* Next of Documents and SegmentingNext, disjunct by disjunct, so that TLC counts
\* each action.
EitherNext ==
  \/ \E r \in Requests :
       \/ NoText /\ CreateDomain(r)
       \/ NoText /\ CreateSource(r)
       \/ NoText /\ CreateDocument(r)
       \/ NoText /\ CreatePart(r)
       \/ NoText /\ UpdateDomain(r)
       \/ NoText /\ UpdateDocument(r)
       \/ NoText /\ UpdateSource(r)
       \/ NoText /\ DeleteSource(r)
       \/ NoText /\ ArchiveDomain(r)
       \/ NoText /\ ArchiveDocument(r)
       \/ NoText /\ RestoreDomain(r)
       \/ NoText /\ RestoreDocument(r)
       \/ NoText /\ LookUp(r)
       \/ NoText /\ Select(r)
       \/ NoText /\ Flush(r)
       \/ NoText /\ Commit(r)
       \/ NoText /\ Rollback(r)
  \/ \E kind \in {"text", "upload", "scan"},
        asked \in (MinSize .. MaxSize) \cup {Unset} : NoRequest /\ ReadText(kind, asked)
  \/ NoRequest /\ AddSegment
  \/ NoRequest /\ CommitSegments
  \/ NoRequest /\ DropSegments

EitherInit == SegmentingInit /\ Init

EitherSpec == EitherInit /\ [][EitherNext]_<<vars, segmentVars>>

\* A cfg has no negative numbers.
Least == -1

\* The items of a kind, the values and the request slots are interchangeable.
Alike ==
  Permutations(Domains) \cup Permutations(Sources) \cup Permutations(Documents)
    \cup Permutations(Parts) \cup Permutations(Keys)
    \cup Permutations(Requests)

=============================================================================
