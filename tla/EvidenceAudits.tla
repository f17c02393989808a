--------------------------- MODULE EvidenceAudits ---------------------------
(***************************************************************************)
(* The audits of an answer's citations (agent/audits.py): whether the      *)
(* answer mentions them, whether they span documents and share terms, how  *)
(* they are spread over documents, and which of them contradict others.    *)
(* Citations are a sequence of segments.                                   *)
(***************************************************************************)
EXTENDS Naturals, Sequences, SequencesExt, FiniteSetsExt

CONSTANTS
  Segments,
  Document,    \* of each segment
  Terms,       \* its significant terms
  Negative     \* whether it has a negation

ASSUME AuditConstants ==
  /\ DOMAIN Document = Segments /\ Negative \in [Segments -> BOOLEAN]
  /\ DOMAIN Terms = Segments /\ \A s \in Segments : IsFiniteSet(Terms[s])

\* Mutant: the answer stays as the model wrote it.
LedgerMissing(mentions, citations) == mentions

\* ensure_evidence_ledger: an answer that mentions none of its citations gets
\* the list of them.
Ledger(mentions, citations) ==
  IF mentions \cap ToSet(citations) = {} THEN mentions \cup ToSet(citations)
  ELSE mentions

DocumentsOf(citations) == {Document[s] : s \in ToSet(citations)}

Few(citations) == Cardinality(DocumentsOf(citations)) < 2

TermsIn(d, citations) ==
  UNION {Terms[s] : s \in {c \in ToSet(citations) : Document[c] = d}}

\* cross_document_bridge_terms: the terms that every cited document has.
BridgeTerms(citations) ==
  IF Few(citations) THEN {}
  ELSE {w \in UNION {Terms[s] : s \in ToSet(citations)} :
          \A d \in DocumentsOf(citations) : w \in TermsIn(d, citations)}

HopStatus(required, citations) ==
  LET bridged == BridgeTerms(citations) # {} IN
  IF citations = <<>> THEN "no_evidence"
  ELSE IF required /\ Few(citations) THEN "insufficient_multi_document_evidence"
  ELSE IF required /\ ~ bridged THEN "multi_document_without_bridge_terms"
  ELSE IF required THEN "supported_multi_document"
  ELSE IF bridged THEN "opportunistic_multi_document" ELSE "not_required"

\* audit_multi_hop.
HopAudit(required, citations) ==
  [status    |-> HopStatus(required, citations),
   documents |-> Cardinality(DocumentsOf(citations)),
   bridges   |-> BridgeTerms(citations)]

AddToGroup(groups, s) == [groups EXCEPT ![Document[s]] = Append(@, s)]

\* The citations grouped by document, each group in their order.
Groups(citations) ==
  FoldLeft(AddToGroup, [d \in DocumentsOf(citations) |-> <<>>], citations)

\* Mutant: several citations are taken for several documents.
CoverageBySegments(citations) ==
  IF citations = <<>> THEN "no_evidence"
  ELSE IF Len(citations) = 1 THEN "single_segment" ELSE "multi_document"

Coverage(citations) ==
  IF citations = <<>> THEN "no_evidence"
  ELSE IF Len(citations) = 1 THEN "single_segment"
  ELSE IF Few(citations) THEN "single_document" ELSE "multi_document"

\* audit_evidence_route.
RouteAudit(citations, neighbors) ==
  [coverage |-> Coverage(citations), groups |-> Groups(citations),
   neighbors |-> neighbors # {}]

\* Two citations that share two terms, one of them with a negation.
Conflicting(a, b) ==
  Negative[a] # Negative[b] /\ Cardinality(Terms[a] \cap Terms[b]) >= 2

\* audit_contradictions: the pairs of places in the citations.
Conflicts(citations) ==
  {p \in (DOMAIN citations) \X (DOMAIN citations) :
     p[1] < p[2] /\ Conflicting(citations[p[1]], citations[p[2]])}
=============================================================================
