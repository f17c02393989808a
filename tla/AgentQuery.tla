----------------------------- MODULE AgentQuery -----------------------------
(***************************************************************************)
(* The evidence of one research query (agent/service.py, agent/tools.py,   *)
(* agent/audits.py): the searches that seed it, the neighbours that fill   *)
(* what is left of the budget, the tool calls of the model, the answer.    *)
(*                                                                         *)
(* The index is rebuilt while the query runs, so a search may return any   *)
(* hits.  The tool calls of one message of the model run in threads and    *)
(* share the tool box.                                                     *)
(***************************************************************************)
EXTENDS EvidenceAudits

CONSTANTS
  Size,        \* the tokens of each segment a search may return
  Version,     \* the document version each belongs to
  Ordinal,     \* its place there
  Queries,     \* queries, compared without regard to case
  Question,    \* the one of the client
  Budgets,     \* budgets a client may set, with the limit of each search
  Threads,     \* tool calls that run at the same time
  NoResult

BudgetType ==
  [searches : Nat \ {0}, citations : Nat \ {0}, tokens : Nat \ {0},
   limit : Nat \ {0}]

ASSUME QueryConstants ==
  /\ Size \in [Segments -> Nat] /\ Ordinal \in [Segments -> Nat]
  /\ Budgets \subseteq BudgetType
  /\ Question \in Queries
  /\ IsFiniteSet(Segments)

VARIABLES
  pc,          \* what run_agent_query is doing
  runtime,     \* settings.agent_runtime
  multiHop,    \* the plan says that the question requires several documents
  budget,
  searchCount, \* CorpusToolbox.search_count
  selected,    \* CorpusToolbox.selected_hits
  searched,    \* searched_queries
  left,        \* follow-up queries that the current loop may still try
  context,     \* neighbor_context
  calls,       \* the search_corpus calls of the model
  late,        \* history: the evidence changed after its neighbours were read
  result

toolbox == <<searchCount, selected>>
queryVars == <<pc, runtime, multiHop, budget, toolbox, searched, left, context, calls, late,
          result>>

Stages == {"question", "entities", "planned", "neighbors", "model", "answer",
           "done", "failed"}

Hits == {s \in Seq(Segments) : IsInjective(s)}

\* stale: another call stored its selection after this one read it.
IdleCall == [at |-> "idle", prefer |-> FALSE, raw |-> <<>>, picked |-> <<>>,
             stale |-> FALSE]

TokensOf(hits) == SumFunction([n \in DOMAIN hits |-> Size[hits[n]]])

TokensIn(segments) == SumFunctionOnSet(Size, segments)

-----------------------------------------------------------------------------
(***************************************************************************)
(* Searching.                                                              *)
(***************************************************************************)
Least(a, b) == IF a < b THEN a ELSE b

\* What search_domain may return: distinct segments, best first.
RawHits ==
  UNION {{s \in [1..n -> Segments] : IsInjective(s)} : n \in 0..budget.citations}

AddUnseen(merged, h) == IF h \in ToSet(merged) THEN merged ELSE Append(merged, h)

\* merge_unique_hits: hits that were found twice count once, at their first
\* place; the existing ones are distinct.
MergeUnique(existing, incoming) == FoldLeft(AddUnseen, existing, incoming)

Fits(hits, n) == TokensOf(SubSeq(hits, 1, n)) <= budget.tokens

\* Mutant: the number of citations is the only limit.
WithinBudgetAnyway(hits) == {SubSeq(hits, 1, Least(Len(hits), budget.citations))}

\* select_hits_within_evidence_budget: the hits up to the first that does not
\* fit, or that is one too many.
WithinBudget(hits) ==
  LET most == Least(Len(hits), budget.citations) IN
  {SubSeq(hits, 1, n) :
     n \in {m \in 0..most : Fits(hits, m) /\ (m < most => ~ Fits(hits, m + 1))}}

\* Mutant: new hits always go first.
MergedNewFirst(raw, prefer) == MergeUnique(raw, selected)

\* A search that prefers new hits ranks them before the evidence there is.
Merged(raw, prefer) ==
  IF prefer THEN MergeUnique(raw, selected) ELSE MergeUnique(selected, raw)

\* A call of search_corpus that nothing else can come between, with the limit of
\* the query; calls of the model may ask for as many hits as there are citations.
Search(prefer) ==
  /\ searchCount' = searchCount + 1
  /\ \E raw \in RawHits :
       Len(raw) <= budget.limit /\ selected' \in WithinBudget(Merged(raw, prefer))

Fail ==
  /\ pc' = "failed" /\ result' = NoResult
  /\ UNCHANGED <<runtime, multiHop, budget, toolbox, searched, left, context, calls, late>>

-----------------------------------------------------------------------------
\* plan_query: whether the words of a question ask for several documents.
Plans == BOOLEAN

QueryInit ==
  /\ pc = "question" /\ runtime \in {"deterministic", "deepagents"}
  /\ budget \in Budgets /\ multiHop \in Plans
  /\ searchCount = 0 /\ selected = <<>> /\ searched = {Question}
  /\ left = 0 /\ context = {} /\ late = FALSE
  /\ calls = [t \in Threads |-> IdleCall]
  /\ result = NoResult

\* seed_agent_evidence: the question itself, then, for a question that needs
\* several hops, up to as many entity queries as searches are left.
SeedQuestion ==
  /\ pc = "question"
  /\ Search(FALSE)
  /\ pc' = IF multiHop THEN "entities" ELSE "neighbors"
  /\ left' = budget.searches - searchCount'
  /\ UNCHANGED <<runtime, multiHop, budget, searched, context, calls, late, result>>

\* One round of either loop: a query that was searched is skipped.
Followup(stage, prefer) ==
  /\ pc = stage /\ left > 0 /\ searchCount < budget.searches
  /\ left' = left - 1
  /\ \E q \in Queries :
       IF q \in searched THEN UNCHANGED <<toolbox, searched>>
       ELSE Search(prefer) /\ searched' = searched \cup {q}
  /\ UNCHANGED <<pc, runtime, multiHop, budget, context, calls, late, result>>

SeedEntity  == Followup("entities", TRUE)
SeedPlanned == Followup("planned", FALSE)

\* search_queries[1:] holds three queries at most.
PlanLength == 3

EndEntities ==
  /\ pc = "entities"
  /\ pc' = "planned" /\ left' = PlanLength
  /\ UNCHANGED <<runtime, multiHop, budget, toolbox, searched, context, calls, late, result>>

EndPlanned ==
  /\ pc = "planned"
  /\ pc' = "neighbors" /\ left' = 0
  /\ UNCHANGED <<runtime, multiHop, budget, toolbox, searched, context, calls, late, result>>

\* The segments before and after a hit in its document version, in order.
Beside(h) ==
  LET near == {s \in Segments : Version[s] = Version[h]} IN
  SetToSeq({s \in near : Ordinal[s] + 1 = Ordinal[h]})
    \o SetToSeq({s \in near : Ordinal[h] + 1 = Ordinal[s]})

\* Mutant: each neighbour is compared with all that the hits left.
AddNeighborUncounted(chosen, s) ==
  IF s \in ToSet(selected) \cup chosen \/ Size[s] > budget.tokens - TokensOf(selected)
  THEN chosen ELSE chosen \cup {s}

\* A neighbour that is no citation itself and fits what is left.
AddNeighbor(chosen, s) ==
  IF \/ s \in ToSet(selected) \cup chosen
     \/ TokensOf(selected) + TokensIn(chosen) + Size[s] > budget.tokens
  THEN chosen ELSE chosen \cup {s}

AddNeighborsOf(chosen, h) == FoldLeft(AddNeighbor, chosen, Beside(h))

\* expand_neighbor_context.
Neighbors ==
  LET remaining == TokensOf(selected) < budget.tokens IN
  IF selected = <<>> \/ ~ remaining THEN {}
  ELSE FoldLeft(AddNeighborsOf, {}, selected)

ExpandNeighbors ==
  /\ pc = "neighbors"
  /\ context' = Neighbors
  /\ pc' = IF runtime = "deterministic" THEN "answer" ELSE "model"
  /\ UNCHANGED <<runtime, multiHop, budget, toolbox, searched, left, calls, late, result>>

-----------------------------------------------------------------------------
(***************************************************************************)
(* The tool calls of the model.                                            *)
(***************************************************************************)

\* A call beyond max_searches, a blank query and a limit below one raise before
\* they count.
CallSearch(t) ==
  /\ pc = "model" /\ calls[t].at = "idle"
  /\ searchCount < budget.searches
  /\ searchCount' = searchCount + 1
  /\ \E p \in BOOLEAN :
       calls' = [calls EXCEPT ![t] = [IdleCall EXCEPT !.at = "searching",
                                                      !.prefer = p]]
  /\ UNCHANGED <<pc, runtime, multiHop, budget, selected, searched, left, context, late, result>>

\* The index has been removed: the call raises, and has been counted.
CallMissing(t) ==
  /\ calls[t].at = "searching"
  /\ calls' = [calls EXCEPT ![t] = IdleCall]
  /\ UNCHANGED <<pc, runtime, multiHop, budget, toolbox, searched, left, context, late, result>>

\* The hits arrive and are merged with the evidence as it is now.
CallMerge(t) ==
  /\ calls[t].at = "searching"
  /\ \E raw \in RawHits :
       \E picked \in WithinBudget(Merged(raw, calls[t].prefer)) :
         calls' = [calls EXCEPT ![t].at = "merged", ![t].raw = raw,
                                ![t].picked = picked]
  /\ UNCHANGED <<pc, runtime, multiHop, budget, toolbox, searched, left, context, late, result>>

\* The new selection replaces whatever the tool box holds by then.
CallStore(t) ==
  /\ calls[t].at = "merged"
  /\ selected' = calls[t].picked
  /\ late' = TRUE
  /\ calls' = [s \in Threads |->
       IF s = t THEN IdleCall
       ELSE [calls[s] EXCEPT !.stale = @ \/ calls[s].at = "merged"]]
  /\ UNCHANGED <<pc, runtime, multiHop, budget, searchCount, searched, left, context, result>>

\* The harness ends when every call has returned.  A harness that raises or
\* answers nothing fails the query.
EndModel ==
  /\ pc = "model" /\ \A t \in Threads : calls[t].at = "idle"
  /\ pc' = "answer"
  /\ UNCHANGED <<runtime, multiHop, budget, toolbox, searched, left, context, calls, late, result>>

-----------------------------------------------------------------------------
(***************************************************************************)
(* The answer.                                                             *)
(***************************************************************************)

\* Identifiers of segments that a text may mention: the deterministic answer
\* lists its evidence, a model writes what it likes.
Mentions ==
  IF runtime = "deterministic" THEN {ToSet(selected)} ELSE SUBSET Segments

\* Without evidence the answer is an abstention, whatever the model said.
Answer ==
  /\ pc = "answer"
  /\ \E said \in Mentions, intime \in BOOLEAN :
       LET tokens == TokensOf(selected) + TokensIn(context) IN
       result' =
         [citations |-> selected,
          mentions  |-> IF selected = <<>> THEN {} ELSE Ledger(said, selected),
          abstains  |-> selected = <<>>,
          evidence  |-> tokens,
          hops      |-> HopAudit(multiHop, selected),
          route     |-> RouteAudit(selected, context),
          conflicts |-> Conflicts(selected),
          within    |-> /\ searchCount <= budget.searches
                        /\ Len(selected) <= budget.citations
                        /\ tokens <= budget.tokens /\ intime]
  /\ pc' = "done"
  /\ UNCHANGED <<runtime, multiHop, budget, toolbox, searched, left, context, calls, late>>

\* No index, a provider that raises, a lost worker: nothing is stored.
Abandon == pc \notin {"done", "failed"} /\ Fail

Model == \E t \in Threads :
  CallSearch(t) \/ CallMissing(t) \/ CallMerge(t) \/ CallStore(t)

Seed == SeedQuestion \/ SeedEntity \/ EndEntities \/ SeedPlanned \/ EndPlanned

QueryNext == Seed \/ ExpandNeighbors \/ Model \/ EndModel \/ Answer \/ Abandon

QuerySpec == QueryInit /\ [][QueryNext]_queryVars

-----------------------------------------------------------------------------
(***************************************************************************)
(* Properties.                                                             *)
(***************************************************************************)

\* Evidence, calls and the result are of their types.
QueryTypeOK ==
  /\ pc \in Stages /\ multiHop \in BOOLEAN /\ runtime \in {"deterministic", "deepagents"}
  /\ budget \in Budgets /\ searchCount \in Nat /\ left \in Nat
  /\ selected \in Seq(Segments) /\ searched \subseteq Queries
  /\ context \subseteq Segments /\ late \in BOOLEAN
  /\ calls \in [Threads -> [at : {"idle", "searching", "merged"},
                            prefer : BOOLEAN, raw : Seq(Segments),
                            picked : Seq(Segments), stale : BOOLEAN]]

\* No sequence of overlapping searches, in one thread or in several, takes the
\* tool box over its budget of searches, citations or tokens, or lets it hold
\* one segment twice.
EvidenceWithinBudget ==
  /\ searchCount <= budget.searches
  /\ Len(selected) <= budget.citations
  /\ TokensOf(selected) <= budget.tokens
  /\ IsInjective(selected)

\* The answer's evidence, neighbours included, is over the token budget only
\* when the model went on searching after the neighbours had been chosen; the
\* flag never hides it.
OverBudgetOnlyIfLate ==
  pc = "done" =>
    /\ result.evidence > budget.tokens => late /\ ~ result.within
    /\ result.within => result.evidence <= budget.tokens

\* An answer with evidence mentions at least one of the citations that are
\* stored with it, though calls of the model may have displaced those that the
\* model had seen; one without evidence mentions none.
AnswerIsGrounded ==
  pc = "done" =>
    IF result.citations = <<>> THEN result.abstains /\ result.mentions = {}
    ELSE result.mentions \cap ToSet(result.citations) # {}

\* The audits that are stored with an answer, each computed from its citations
\* on its own, agree: they count the same documents, a question that requires
\* several is supported exactly when the route covers several that share a
\* term, and no citation is left out of the route or counted twice.
AuditsAgree ==
  pc = "done" =>
    LET hops == result.hops  route == result.route IN
    /\ hops.documents = Cardinality(DOMAIN route.groups)
    /\ (route.coverage = "no_evidence") = result.abstains
    /\ (hops.status = "no_evidence") = result.abstains
    /\ (hops.status = "supported_multi_document")
         = (multiHop /\ route.coverage = "multi_document" /\ hops.bridges # {})
    /\ SumFunction([d \in DOMAIN route.groups |-> Len(route.groups[d])])
         = Len(result.citations)
    /\ (hops.status = "insufficient_multi_document_evidence")
         = (multiHop /\ route.coverage \in {"single_segment", "single_document"})

\* Nothing that can be lost is lost by the way: a search only adds to the
\* evidence unless it prefers new hits, and such a search leaves no evidence
\* only if its best hit exceeds the whole budget; except that a call of the
\* model may undo another one, which stored after it had read.
EvidenceKept ==
  [][ /\ pc \in {"question", "planned"} => IsPrefix(selected, selected')
      /\ pc = "entities" /\ selected # <<>> /\ selected' = <<>> =>
           \E s \in Segments \ ToSet(selected) : Size[s] > budget.tokens
      /\ \A t \in Threads :
           calls[t].at = "merged" /\ calls'[t].at = "idle" /\ ~ calls[t].stale =>
             IF calls[t].prefer
             THEN selected' = <<>> =>
                    selected = <<>> \/ Size[calls[t].raw[1]] > budget.tokens
             ELSE IsPrefix(selected, selected') ]_queryVars

=============================================================================
