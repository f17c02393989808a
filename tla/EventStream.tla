---------------------------- MODULE EventStream -----------------------------
(***************************************************************************)
(* The progress stream (api/routes/events.py): a client gets a replay of   *)
(* persisted progress rows and then the live items of the store of the API *)
(* process.  Every process has a store of its own; transactions of request *)
(* handlers notify the store of the API, tasks the one of their worker.    *)
(*                                                                         *)
(* A row is identified by its occurred_at, which is taken before the       *)
(* transaction commits; a live item by its place in the store.  The client *)
(* reconnects without an id, with the last persisted id it has received    *)
(* (the console does) or with a live id that was the last it received.     *)
(***************************************************************************)
EXTENDS Naturals, Sequences, FiniteSets

CONSTANTS
  Requests,    \* request handlers of the API process
  Workers,     \* worker processes, one task each
  Api,         \* the API process
  Domains,
  Limit,       \* PERSISTED_REPLAY_LIMIT, 50
  Window,      \* rows a scoped query looks at, 1000 for that limit
  Recent,      \* live items a new connection starts with, 10
  MaxRows      \* bound: progress rows, committed or not

ASSUME StreamConstants ==
  /\ Limit \in Nat \ {0} /\ Window \in Nat /\ Window >= Limit
  /\ Recent \in Nat \ {0} /\ MaxRows \in Nat
  /\ Api \notin Workers /\ Requests \cap Workers = {}

VARIABLES
  clock,       \* the last time stamp taken
  log,         \* committed progress rows
  writer,      \* the transactions
  store,       \* InMemoryProgressStore of each process
  grants,      \* what the account of the client may see
  client,      \* one connection after the other
  saw,         \* history: what the client received
  overtaken    \* history: rows committed after a row with a later time

vars == <<clock, log, writer, store, grants, client, saw, overtaken>>

Writers == Requests \cup Workers
Processes == {Api} \cup Workers
Home(w) == IF w \in Workers THEN w ELSE Api

Row == [at : Nat, dom : Domains]

\* all: the role admin, for which visible_domain_ids is None.
Scope == [all : BOOLEAN, ids : SUBSET Domains]
Nothing == [all |-> FALSE, ids |-> {}]

\* The rows of the notifying transaction and the domains its data or job name.
Item == [rows : SUBSET Nat, doms : SUBSET Domains]
Ready == [rows |-> {}, doms |-> {}]

Idle == [pc |-> "idle", own |-> {}]
WriterState == [pc : {"idle", "open", "dispatching", "committed", "silent"},
                own : SUBSET Row]

\* sent, from: the persisted and the live id of Last-Event-ID, 0 if none.
\* cursor, last: the ids the client would send when it reconnects.
Client == [phase : {"off", "scoped", "replay", "live"}, scope : Scope,
           sent : Nat, from : Nat, pending : SUBSET Nat, next : Nat,
           cursor : Nat, last : Nat]

-----------------------------------------------------------------------------
Init ==
  /\ clock = 0 /\ log = {} /\ overtaken = {}
  /\ writer = [w \in Writers |-> Idle]
  /\ store = [p \in Processes |-> <<Ready>>]
  /\ grants \in {g \in Scope : g.all => g.ids = {}}
  /\ client = [phase |-> "off", scope |-> Nothing, sent |-> 0, from |-> 0,
               pending |-> {}, next |-> 0, cursor |-> 0, last |-> 0]
  /\ saw = [rows |-> {}, live |-> {}, steady |-> {}]

-----------------------------------------------------------------------------
\* ProgressEventRepository.add; the rows of a transaction are of one domain.
Stamp(w, d) ==
  LET own == IF writer[w].pc = "open" THEN writer[w].own ELSE {} IN
  /\ writer[w].pc \in {"idle", "open", "silent"}
  /\ \A r \in own : r.dom = d
  /\ clock < MaxRows
  /\ clock' = clock + 1
  /\ writer' = [writer EXCEPT ![w] =
       [pc |-> "open", own |-> own \cup {[at |-> clock + 1, dom |-> d]}]]
  /\ UNCHANGED <<log, store, grants, client, saw, overtaken>>

\* A request that has queued a job sends it to a worker before it notifies, or
\* runs it by itself; other requests and all tasks notify at once.
Commit(w) ==
  /\ writer[w].pc = "open"
  /\ log' = log \cup writer[w].own
  /\ overtaken' = overtaken \cup
       {r.at : r \in {r \in writer[w].own : \E x \in log : x.at > r.at}}
  /\ \E pc \in {"committed"} \cup (IF w \in Requests THEN {"dispatching"} ELSE {}) :
       writer' = [writer EXCEPT ![w].pc = pc]
  /\ UNCHANGED <<clock, store, grants, client, saw>>

Rollback(w) ==
  /\ writer[w].pc = "open"
  /\ writer' = [writer EXCEPT ![w] = Idle]
  /\ UNCHANGED <<clock, log, store, grants, client, saw, overtaken>>

Dispatched(w) ==
  /\ writer[w].pc = "dispatching"
  /\ writer' = [writer EXCEPT ![w].pc = "committed"]
  /\ UNCHANGED <<clock, log, store, grants, client, saw, overtaken>>

\* The broker refuses the message, or the job has been run inline: the request
\* ends without its notification, which is remembered until the next request.
Unannounced(w) ==
  /\ writer[w].pc = "dispatching"
  /\ writer' = [writer EXCEPT ![w].pc = "silent"]
  /\ UNCHANGED <<clock, log, store, grants, client, saw, overtaken>>

\* progress_store.append, the last of it.
Notify(w) ==
  LET own == writer[w].own IN
  /\ writer[w].pc = "committed"
  /\ store' = [store EXCEPT ![Home(w)] =
       Append(@, [rows |-> {r.at : r \in own}, doms |-> {r.dom : r \in own}])]
  /\ writer' = [writer EXCEPT ![w] = Idle]
  /\ UNCHANGED <<clock, log, grants, client, saw, overtaken>>

-----------------------------------------------------------------------------
(***************************************************************************)
(* The replay.                                                             *)
(***************************************************************************)
NewestRows(rs, n) == {r \in rs : Cardinality({x \in rs : x.at > r.at}) < n}
OldestRows(rs, n) == {r \in rs : Cardinality({x \in rs : x.at < r.at}) < n}

InScope(rs, s) == {r \in rs : r.dom \in s.ids}

\* list_chronological, list_chronological_for_domain_ids
RecentRows(s) ==
  IF s.all THEN NewestRows(log, Limit)
  ELSE NewestRows(InScope(NewestRows(log, Window), s), Limit)

\* Mutant: the row of the cursor again.
AfterFrom(at) == {r \in log : r.at >= at}

After(at) == {r \in log : r.at > at}

\* Mutant: the newest rows after the cursor.
NewestAfter(at, s) ==
  NewestRows(IF s.all THEN After(at) ELSE InScope(After(at), s), Limit)

\* list_after, list_after_for_domain_ids; the row of the cursor exists.
RowsAfter(at, s) ==
  IF s.all THEN OldestRows(After(at), Limit)
  ELSE OldestRows(InScope(OldestRows(After(at), Window), s), Limit)

Granted == IF grants.all THEN Domains ELSE grants.ids

\* The replay reads the grants in one statement ...
Connect(sent, from) ==
  /\ client.phase = "off"
  /\ client' = [client EXCEPT !.phase = "scoped", !.scope = grants,
                              !.sent = sent, !.from = from,
                              !.cursor = sent, !.last = from]
  /\ saw' = [saw EXCEPT
       !.rows = IF sent = 0 THEN {} ELSE @,
       !.live = IF from = 0 THEN {} ELSE @,
       !.steady = IF sent = 0 /\ from = 0 THEN Granted ELSE @ \cap Granted]
  /\ UNCHANGED <<clock, log, writer, store, grants, overtaken>>

ConnectFresh == Connect(0, 0)
Resume == client.cursor # 0 /\ Connect(client.cursor, 0)
Follow == client.last # 0 /\ Connect(0, client.last)

\* ... and the rows in another.
Query ==
  LET rs == IF client.sent = 0 THEN RecentRows(client.scope)
            ELSE RowsAfter(client.sent, client.scope) IN
  /\ client.phase = "scoped"
  /\ client' = [client EXCEPT !.phase = "replay", !.sent = 0,
                              !.scope = Nothing,
                              !.pending = {r.at : r \in rs}]
  /\ UNCHANGED <<clock, log, writer, store, grants, saw, overtaken>>

First(S) == CHOOSE k \in S : \A x \in S : k <= x

Replay ==
  LET k == First(client.pending) IN
  /\ client.phase = "replay" /\ client.pending # {}
  /\ client' = [client EXCEPT !.pending = @ \ {k}, !.cursor = k, !.last = 0]
  /\ saw' = [saw EXCEPT !.rows = @ \cup {k}]
  /\ UNCHANGED <<clock, log, writer, store, grants, overtaken>>

EndReplay ==
  /\ client.phase = "replay" /\ client.pending = {}
  /\ client' = [client EXCEPT !.phase = "live", !.from = 0,
                              !.next = client.from]
  /\ UNCHANGED <<clock, log, writer, store, grants, saw, overtaken>>

-----------------------------------------------------------------------------
(***************************************************************************)
(* The live loop.                                                          *)
(***************************************************************************)

\* Mutant: the last items again, whatever the id.
SinceRecent(next) ==
  {k \in DOMAIN store[Api] : k > next /\ k + Recent > Len(store[Api])}

\* Mutant: only the latest item.
SinceLatest(next) == {k \in DOMAIN store[Api] : k > next /\ k = Len(store[Api])}

Since(next) ==
  {k \in DOMAIN store[Api] :
     IF next = 0 THEN k + Recent > Len(store[Api]) ELSE k > next}

Poll ==
  /\ client.phase = "live" /\ client.pending = {}
  /\ Since(client.next) # {}
  /\ client' = [client EXCEPT !.pending = Since(client.next)]
  /\ UNCHANGED <<clock, log, writer, store, grants, saw, overtaken>>

\* live_event_visible_to_actor, with the grants of this moment.
VisibleItem(k) ==
  LET item == store[Api][k] IN
  item = Ready \/ grants.all \/ item.doms \cap grants.ids # {}

Listen ==
  LET k == First(client.pending) IN
  /\ client.phase = "live" /\ client.pending # {}
  /\ \/ /\ VisibleItem(k)
        /\ client' = [client EXCEPT !.pending = @ \ {k}, !.next = k, !.last = k]
        /\ saw' = [saw EXCEPT !.live = @ \cup {k}]
     \/ /\ ~VisibleItem(k)
        /\ client' = [client EXCEPT !.pending = @ \ {k}, !.next = k]
        /\ UNCHANGED saw
  /\ UNCHANGED <<clock, log, writer, store, grants, overtaken>>

-----------------------------------------------------------------------------
Off(c) == [c EXCEPT !.phase = "off", !.scope = Nothing, !.sent = 0,
                    !.from = 0, !.pending = {}, !.next = 0]

Disconnect ==
  /\ client.phase # "off"
  /\ client' = Off(client)
  /\ UNCHANGED <<clock, log, writer, store, grants, saw, overtaken>>

\* A process ends and starts again: its store, transactions and connections.
Restart(p) ==
  /\ store' = [store EXCEPT ![p] = <<Ready>>]
  /\ writer' = [w \in Writers |-> IF Home(w) = p THEN Idle ELSE writer[w]]
  /\ client' = IF p = Api THEN Off(client) ELSE client
  /\ saw' = IF p = Api THEN [saw EXCEPT !.live = {}] ELSE saw
  /\ UNCHANGED <<clock, log, grants, overtaken>>

\* grant_domain and revoke_domain of api/routes/admin_users.py.
Grant(d) ==
  /\ ~grants.all
  /\ grants' = [grants EXCEPT !.ids = @ \cup {d}]
  /\ UNCHANGED <<clock, log, writer, store, client, saw, overtaken>>

Revoke(d) ==
  /\ ~grants.all
  /\ grants' = [grants EXCEPT !.ids = @ \ {d}]
  /\ saw' = [saw EXCEPT !.steady = @ \ {d}]
  /\ UNCHANGED <<clock, log, writer, store, client, overtaken>>

ClientStep ==
  \/ ConnectFresh \/ Resume \/ Follow \/ Query \/ Replay \/ EndReplay
  \/ Poll \/ Listen \/ Disconnect

WriterStep(w) ==
  \/ \E d \in Domains : Stamp(w, d)
  \/ Commit(w) \/ Rollback(w) \/ Dispatched(w) \/ Unannounced(w) \/ Notify(w)

Next ==
  \/ ClientStep
  \/ \E w \in Writers : WriterStep(w)
  \/ \E p \in Processes : Restart(p)
  \/ \E d \in Domains : Grant(d) \/ Revoke(d)

Spec == Init /\ [][Next]_vars

\* Transactions end, and so do the calls that follow them; the generator of an
\* open connection goes on, and a client that connects again and again is not
\* cut off every time.
Fairness ==
  /\ \A w \in Writers :
       /\ WF_vars(Commit(w) \/ Rollback(w)) /\ WF_vars(Notify(w))
       /\ WF_vars(Dispatched(w) \/ Unannounced(w))
  /\ SF_vars(Query) /\ SF_vars(Replay)
  /\ WF_vars(EndReplay) /\ WF_vars(Poll) /\ WF_vars(Listen)

FairSpec == Spec /\ Fairness

-----------------------------------------------------------------------------
(***************************************************************************)
(* Properties.                                                             *)
(***************************************************************************)

\* The rows, stores, transactions and the connection keep their types, and a
\* batch of the live loop refers to items that exist, also after a restart.
TypeOK ==
  /\ clock \in Nat
  /\ log \subseteq Row
  /\ writer \in [Writers -> WriterState]
  /\ store \in [Processes -> Seq(Item)]
  /\ grants \in Scope
  /\ client \in Client
  /\ saw \in [rows : SUBSET Nat, live : SUBSET Nat, steady : SUBSET Domains]
  /\ overtaken \subseteq Nat
  /\ client.phase = "live" => client.pending \subseteq DOMAIN store[Api]

Between(S, k) == \E i, j \in S : i < k /\ k < j

\* A client that resumes with its persisted cursor, over any number of
\* connections cut at any place, restarts and changes of its grants, misses
\* a row of a domain it could see all the time only if the row was committed
\* after a row with a later time.
SkippedOnlyIfOvertaken ==
  \A r \in log :
    (/\ Between(saw.rows, r.at)
     /\ r.dom \in saw.steady
     /\ r.at \notin overtaken) => r.at \in saw.rows

\* The stream sends the live items of one API process without a gap, also to
\* a client that reconnects with a live id.
LiveWithoutGap ==
  \A k \in DOMAIN store[Api] :
    (Between(saw.live, k) /\ store[Api][k].doms \subseteq saw.steady)
      => k \in saw.live

\* For a viewer, no window can be full of rows of other domains.
WindowSuffices ==
  grants.all \/ Cardinality({x \in log : x.dom \notin saw.steady}) < Window

\* A client that keeps reconnecting with its persisted cursor gets every row
\* after the first it got, page by page.  A viewer is promised this only while
\* fewer rows of other domains exist than a query looks at: behind a window
\* full of them its replay stays empty for ever.
CatchesUp ==
  ([]<>(client.phase = "scoped") /\ <>[](client.cursor # 0)) =>
    <>[](WindowSuffices =>
           \A r \in log :
             (/\ \E i \in saw.rows : i < r.at
              /\ r.dom \in saw.steady
              /\ r.at \notin overtaken) => r.at \in saw.rows)

Expects(w, k) ==
  /\ client.phase = "live" /\ client.next \in DOMAIN store[Api]
  /\ writer[w].pc \in {"dispatching", "committed"}
  /\ \E r \in writer[w].own : r.at = k /\ r.dom \in Granted

Told(k) ==
  \E i \in saw.live : i \in DOMAIN store[Api] /\ k \in store[Api][i].rows

Unsaid(w, k) == writer[w].pc = "silent" /\ \E r \in writer[w].own : r.at = k

LeftOut(k) ==
  client.phase # "live" \/ \E r \in log : r.at = k /\ r.dom \notin Granted

\* A client that stays connected and keeps the grant for a domain hears of
\* every change of it that a request of the API commits, unless the request ends
\* without announcing it: the broker refused its job, or the job was run inline
\* (Unsaid).  The client must be at an item that the store has: before its first
\* poll more items than it starts with may arrive, and after a restart a live id
\* may be ahead of the store.
ConnectedHears ==
  \A w \in Requests, k \in 1 .. MaxRows :
    Expects(w, k) ~> (Told(k) \/ LeftOut(k) \/ Unsaid(w, k))

\* "The worker then [...] writes journal/progress records and SSE updates"
\* (docs/api-integration.md:457-463): a connected client gets them.  No run
\* checks this: a worker notifies the store of its own process, which no client
\* reads.
ConnectedHearsWorkers ==
  \A w \in Workers, k \in 1 .. MaxRows :
    Expects(w, k) ~> (Told(k) \/ LeftOut(k) \/ Unsaid(w, k))

=============================================================================
