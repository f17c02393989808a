----------------------------- MODULE Segmenting -----------------------------
(***************************************************************************)
(* How an ingestion cuts a text into segments (chunk_text in               *)
(* ingestion/text.py, and its callers): windows of a fixed number of       *)
(* words, numbered by ordinals, each stored as a row of the version with   *)
(* the anchor of its first word.  A word is its place in the text.         *)
(*                                                                         *)
(* The size of a window comes from the payload of the job.  The ingestion  *)
(* endpoints bound it, POST /jobs does not, and a retry copies it.         *)
(***************************************************************************)
EXTENDS Integers

CONSTANTS
  DefaultSize,  \* 220 in the code
  Unset,        \* the payload does not say
  MaxWords, MinSize, MaxSize

ASSUME SegmentingConstants ==
  /\ DefaultSize \in Nat \ {0}
  /\ MaxWords \in Nat /\ MinSize \in Int /\ MaxSize \in Int

VARIABLES
  stage,     \* what the ingestion is doing
  words,     \* how many words the text has
  size,      \* max_tokens
  ordinal,   \* of the next segment
  start,     \* its first word
  segments   \* the rows, with count for token_count and first for the anchor

segmentVars == <<stage, words, size, ordinal, start, segments>>

SegmentRow == [ordinal : Nat, first : Nat, count : Nat]

\* A text or an upload takes a size of 0 for one that is not set, a scan does not.
SizeOf(kind, asked) ==
  IF asked = Unset \/ (asked = 0 /\ kind # "scan") THEN DefaultSize ELSE asked

SegmentingInit ==
  /\ stage = "job" /\ words = 0 /\ size = 0
  /\ ordinal = 0 /\ start = 0 /\ segments = {}

\* Without words, or with a window of none, chunk_text raises.
ReadText(kind, asked) ==
  /\ stage = "job"
  /\ words' \in 0 .. MaxWords
  /\ size' = SizeOf(kind, asked)
  /\ stage' = IF words' > 0 /\ size' >= 1 THEN "cutting" ELSE "failed"
  /\ UNCHANGED <<ordinal, start, segments>>

\* words[start : start + max_tokens]
Window ==
  [ordinal |-> ordinal, first |-> start,
   count |-> IF start + size <= words THEN size ELSE words - start]

\* Mutant: the ordinal of a segment is the place of its first word.
AddSegmentByFirstWord ==
  /\ stage = "cutting" /\ start < words
  /\ segments' = segments \cup {[Window EXCEPT !.ordinal = start]}
  /\ start' = start + size
  /\ ordinal' = ordinal + 1
  /\ UNCHANGED <<stage, words, size>>

AddSegment ==
  /\ stage = "cutting" /\ start < words
  /\ segments' = segments \cup {Window}
  /\ start' = start + size
  /\ ordinal' = ordinal + 1
  /\ UNCHANGED <<stage, words, size>>

\* Mutant: only whole windows are stored.
CommitWithoutRest ==
  /\ stage = "cutting" /\ start + size > words
  /\ stage' = "committed"
  /\ UNCHANGED <<words, size, ordinal, start, segments>>

CommitSegments ==
  /\ stage = "cutting" /\ start >= words
  /\ stage' = "committed"
  /\ UNCHANGED <<words, size, ordinal, start, segments>>

\* Whatever raises before the commit takes the rows with it.
DropSegments ==
  /\ stage = "cutting"
  /\ stage' = "failed" /\ segments' = {}
  /\ UNCHANGED <<words, size, ordinal, start>>

SegmentingNext ==
  \/ \E kind \in {"text", "upload", "scan"},
        asked \in (MinSize .. MaxSize) \cup {Unset} : ReadText(kind, asked)
  \/ AddSegment \/ CommitSegments \/ DropSegments

SegmentingSpec == SegmentingInit /\ [][SegmentingNext]_segmentVars

-----------------------------------------------------------------------------
(***************************************************************************)
(* Properties.                                                             *)
(***************************************************************************)

SegmentingTypeOK ==
  /\ stage \in {"job", "cutting", "committed", "failed"}
  /\ words \in Nat /\ size \in Int /\ ordinal \in Nat /\ start \in Nat
  /\ segments \subseteq SegmentRow

Holds(s, w) == s.first <= w /\ w < s.first + s.count

\* Whatever the size asked for, a text that was ingested lies in its segments,
\* every word in exactly one and nothing else in any, and none is larger than the
\* size: no word is lost to a search, none is cited twice, and the tokens counted of
\* the segments are those of the text.
EachWordOnce ==
  stage = "committed" =>
    /\ \A w \in 0 .. words - 1 :
         \E s \in segments :
           Holds(s, w) /\ \A t \in segments : Holds(t, w) => t = s
    /\ \A s \in segments :
         s.count \in 1 .. size /\ s.first + s.count <= words

\* Ordinals tell the order of the text, which is what get_segment_by_version_ordinal
\* relies on for the neighbours of a hit: one segment goes on where another ends
\* exactly if its ordinal is the next, and no ordinal is given twice, so that
\* uq_segments_version_ordinal refuses no segment of an ingestion.
NeighborsTouch ==
  \A s, t \in segments :
    /\ s.ordinal = t.ordinal => s = t
    /\ t.ordinal = s.ordinal + 1 <=> t.first = s.first + s.count

-----------------------------------------------------------------------------
(***************************************************************************)
(* Why they hold.                                                          *)
(***************************************************************************)

Ended == IF start <= words THEN start ELSE words

\* The rows stored so far are windows, one for each ordinal.
Windows ==
  /\ \A s \in segments :
       /\ s.ordinal < ordinal
       /\ s.count \in 1 .. size
       /\ s.first + s.count <= Ended
  /\ stage = "job" => ordinal = 0 /\ start = 0
  /\ stage \in {"job", "failed"} => segments = {}
  /\ stage \in {"cutting", "committed"} =>
       \A k \in 0 .. ordinal - 1 : \E s \in segments : s.ordinal = k
  /\ \A s \in segments : s.ordinal + 1 = ordinal => s.first + s.count = Ended

InOrder ==
  \A s, t \in segments :
    /\ s.ordinal = t.ordinal => s = t
    /\ s.ordinal < t.ordinal => s.first + s.count <= t.first
    /\ t.ordinal = s.ordinal + 1 => t.first = s.first + s.count

\* Every word before the next segment is in one.
Covered ==
  stage \in {"cutting", "committed"} =>
    /\ words > 0 /\ size >= 1
    /\ \A w \in 0 .. Ended - 1 : \E s \in segments : Holds(s, w)
    /\ stage = "committed" => start >= words

SegmentingInv == SegmentingTypeOK /\ Windows /\ InOrder /\ Covered

=============================================================================
