----------------------------- MODULE Documents ------------------------------
(***************************************************************************)
(* Domains, sources, documents and their parts (api/routes/domains.py,     *)
(* api/routes/documents.py and their repositories): creation under unique  *)
(* keys, changes with a journalled history, and the removal of a source.   *)
(*                                                                         *)
(* A request is one transaction at READ COMMITTED.  It reads the row, looks *)
(* the key up or selects the row again (the session keeps no unreferenced  *)
(* record), writes the columns that differ from what it selected, adds a   *)
(* journal row, and commits.  Only the write takes locks.                  *)
(***************************************************************************)
EXTENDS Naturals, FiniteSets, SequencesExt

CONSTANTS
  Domains, Sources, Documents,
  Parts,       \* artifacts and segments, children of a document's version
  Keys,        \* slugs, URIs, content hashes, ordinals
  Texts,       \* names, titles, metadata
  FirstText,   \* the one that rows are created with
  Requests,
  None,
  MaxWrites    \* bound on the rows created and the changes journalled

Items == Domains \cup Sources \cup Documents \cup Parts

ASSUME DocumentConstants ==
  /\ Domains \cap (Sources \cup Documents \cup Parts) = {}
  /\ Sources \cap (Documents \cup Parts) = {} /\ Documents \cap Parts = {}
  /\ None \notin Items /\ None \notin Requests
  /\ FirstText \in Texts
  /\ MaxWrites \in Nat

VARIABLES
  live,        \* items that have a row
  gone,        \* items whose row was deleted
  row,         \* the row of each item, once it has one
  journal,     \* journal rows in the order of occurred_at, uncommitted ones too
  request      \* the open requests

vars == <<live, gone, row, journal, request>>

\* The columns whose changes are journalled: uri; name, title, metadata;
\* archived_at.
Columns == {"key", "text", "archived"}
Values  == Keys \cup Texts \cup {"yes", "no"}
Columned == [Columns -> Values]

Ops == {"create", "change", "delete"}

RowType ==
  [parent : Items \cup {None}, link : Sources \cup {None}, cols : Columned]

\* by: the request whose transaction is still open, None once it committed.
\* crossed: another request's journal row about the item was committed, or
\* already written, between the first read of this one and its commit.
EventType ==
  [of : Items, op : Ops, tells : SUBSET Columns, before : Columned, after : Columned,
   by : Requests \cup {None}, crossed : BOOLEAN]

Phases == {"idle", "read", "cleared", "selected", "written"}

\* ask: the columns of the payload.  before, after: the row as first read and
\* as it stands in the session after the write.  locks: the row is written.
RequestType ==
  [pc : Phases, op : Ops, id : Items \cup {None},
   parent : Items \cup {None}, link : Sources \cup {None},
   tells : SUBSET Columns, ask : Columned \cup {None},
   before : Columned \cup {None}, after : Columned \cup {None},
   locks : BOOLEAN, writes : SUBSET Columns, crossed : BOOLEAN]

Idle ==
  [pc |-> "idle", op |-> "change", id |-> None, parent |-> None,
   link |-> None, tells |-> {}, ask |-> None, before |-> None,
   after |-> None, locks |-> FALSE, writes |-> {}, crossed |-> FALSE]

Drop(r) == request' = [request EXCEPT ![r] = Idle]

\* A transaction that ends without a commit takes its one journal row with it.
OthersRows(r) ==
  LET own == {n \in DOMAIN journal : journal[n].by = r} IN
  IF own = {} THEN journal ELSE RemoveAt(journal, CHOOSE n \in own : TRUE)

Kin(i, j) ==
  \E S \in {Domains, Sources, Documents, Parts} : i \in S /\ j \in S

Replace(old, new, T) == [f \in Columns |-> IF f \in T THEN new[f] ELSE old[f]]

NoRow == [parent |-> None, link |-> None, cols |-> [f \in Columns |-> "no"]]

-----------------------------------------------------------------------------
Init ==
  /\ live = {} /\ gone = {} /\ journal = <<>>
  /\ row = [i \in Items |-> NoRow]
  /\ request = [r \in Requests |-> Idle]

Start(r, q) ==
  /\ request[r].pc = "idle"
  /\ request' = [request EXCEPT ![r] = q]
  /\ UNCHANGED <<live, gone, row, journal>>

\* Identifiers are fresh: uuid4.
Fresh(i) == i \notin live \cup gone /\ \A s \in Requests : request[s].id # i

Creation(i, d, s, k) ==
  [Idle EXCEPT !.pc = "read", !.op = "create", !.id = i, !.parent = d,
     !.link = s, !.tells = IF i \in Documents THEN Columns ELSE {},
     !.ask = [f \in Columns |-> IF f = "key" THEN k
                                ELSE IF f = "text" THEN FirstText ELSE "no"]]

CreateDomain(r) ==
  \E i \in Domains, k \in Keys :
    Fresh(i) /\ Start(r, Creation(i, None, None, k))

\* 404 without the domain.
CreateSource(r) ==
  \E i \in Sources, d \in live \cap Domains, k \in Keys :
    Fresh(i) /\ Start(r, Creation(i, d, None, k))

\* 404 without the domain or the source, 422 for a source of another domain.
CreateDocument(r) ==
  \E i \in Documents, d \in live \cap Domains, k \in Keys,
     s \in (live \cap Sources) \cup {None} :
    /\ Fresh(i)
    /\ s # None => row[s].parent = d
    /\ Start(r, Creation(i, d, s, k))

\* create_artifact; create_segment differs in the columns of the key.
CreatePart(r) ==
  \E i \in Parts, x \in live \cap Documents, k \in Keys :
    Fresh(i) /\ Start(r, Creation(i, x, None, k))

\* A change of columns T to those of a.
Change(i, pc, T, a) ==
  [Idle EXCEPT !.pc = pc, !.id = i, !.parent = row[i].parent,
     !.link = row[i].link, !.tells = T,
     !.ask = Replace(row[i].cols, a, T), !.before = row[i].cols]

Uniform(v) == [f \in Columns |-> v]

UpdateDomain(r) ==
  \E i \in live \cap Domains, t \in Texts :
    Start(r, Change(i, "cleared", {"text"}, Uniform(t)))

\* The title or the metadata.
UpdateDocument(r) ==
  \E i \in live \cap Documents, t \in Texts :
    Start(r, Change(i, "cleared", {"text"}, Uniform(t)))

UpdateSource(r) ==
  \E i \in live \cap Sources, k \in Keys, t \in Texts :
    Start(r, Change(i, "read", {"key", "text"},
                    [Uniform(t) EXCEPT !["key"] = k]))

Archived(i, v, r) == Start(r, Change(i, "cleared", {"archived"}, Uniform(v)))

\* A domain is archived again, or restored again, and that is journalled.
ArchiveDomain(r) == \E i \in live \cap Domains : Archived(i, "yes", r)
RestoreDomain(r) == \E i \in live \cap Domains : Archived(i, "no", r)

\* Archiving an archived document returns at once, and so does restoring one
\* that is not archived.
ArchiveDocument(r) ==
  \E i \in live \cap Documents :
    row[i].cols["archived"] = "no" /\ Archived(i, "yes", r)

RestoreDocument(r) ==
  \E i \in live \cap Documents :
    row[i].cols["archived"] = "yes" /\ Archived(i, "no", r)

DeleteSource(r) ==
  \E i \in live \cap Sources :
    Start(r, [Change(i, "cleared", {}, row[i].cols) EXCEPT !.op = "delete"])

\* Committed rows with the key that the request asks for.
Taken(q) ==
  {j \in live \ {q.id} :
     Kin(q.id, j) /\ row[j].parent = q.parent /\ row[j].cols["key"] = q.ask["key"]}

\* get_by_slug, get_by_domain_and_uri, get_by_domain_and_hash and the lookups
\* of artifacts and segments: 409 for a key that is taken.
LookUp(r) ==
  LET q == request[r] IN
  /\ q.pc = "read"
  /\ IF Taken(q) # {} THEN Drop(r)
     ELSE request' = [request EXCEPT ![r].pc =
                        IF q.op = "create" THEN "selected" ELSE "cleared",
                        ![r].after = IF q.op = "create" THEN q.ask ELSE None,
                        ![r].locks = q.op = "create",
                        ![r].writes = IF q.op = "create" THEN Columns ELSE {}]
  /\ UNCHANGED <<live, gone, row, journal>>

\* Mutant: the whole record is written, as selected.
DifferingAll(q, seen) == Columns

\* The columns an UPDATE will set: those asked for that differ from the row as
\* selected.  archive of a domain writes the time anew.
Differing(q, seen) ==
  {f \in q.tells : q.ask[f] # seen[f]}
    \cup (IF q.id \in Domains /\ q.ask["archived"] = "yes"
          THEN q.tells \cap {"archived"} ELSE {})

\* The second select.  A row that has gone fails the assertion.  The update of
\* a document always writes updated_at.
Select(r) ==
  LET q == request[r]
      seen == row[q.id].cols
  IN
  /\ q.pc = "cleared"
  /\ IF q.id \notin live THEN Drop(r)
     ELSE request' = [request EXCEPT ![r].pc = "selected",
            ![r].after = Replace(seen, q.ask, q.tells),
            ![r].writes = Differing(q, seen),
            ![r].locks = \/ q.op = "delete" \/ Differing(q, seen) # {}
                         \/ q.id \in Documents /\ q.tells = {"text"}]
  /\ UNCHANGED <<live, gone, row, journal>>

Holders(r) ==
  {s \in Requests \ {r} : request[s].pc = "written" /\ request[s].locks}

\* Two writes of one row; the removal of a source also locks the documents
\* that refer to it.
SameRow(q, p) ==
  /\ q.locks
  /\ \/ q.op # "create" /\ p.op # "create" /\ q.id = p.id
     \/ q.op = "delete" /\ p.id \in live \cap Documents /\ row[p.id].link = q.id
     \/ p.op = "delete" /\ q.id \in live \cap Documents /\ row[q.id].link = p.id

\* Mutant: a foreign key takes no lock on the source.
ReferenceUnlocked(q, p) == FALSE

\* A new document locks its source against removal and a change of its URI.
Reference(q, p) ==
  \/ q.op = "create" /\ q.link = p.id /\ (p.op = "delete" \/ "key" \in p.writes)
  \/ p.op = "create" /\ p.link = q.id /\ (q.op = "delete" \/ "key" \in q.writes)

Siblings(q, p) == Kin(q.id, p.id) /\ q.parent = p.parent

\* The unique index waits for the transaction that takes or frees the key.
SameKey(q, p) ==
  /\ "key" \in q.writes /\ Siblings(q, p)
  /\ \/ "key" \in p.writes /\ p.after["key"] = q.after["key"]
     \/ /\ p.op = "delete" \/ "key" \in p.writes
        /\ p.id \in live /\ row[p.id].cols["key"] = q.after["key"]

\* The write would wait for a lock another transaction holds.
Waits(r) ==
  \E s \in Holders(r) :
    LET q == request[r]
        p == request[s]
    IN SameRow(q, p) \/ (q.id # p.id /\ (Reference(q, p) \/ SameKey(q, p)))

\* Mutant: no unique constraint.
FlushErrorUnindexed(q) ==
  \/ q.op = "create" /\ q.link \in gone
  \/ q.op # "create" /\ q.locks /\ q.id \notin live

\* A duplicate key, a removed source, an UPDATE or DELETE that matches no row:
\* the exception leaves the handler outside its try, as a 500.
FlushError(q) ==
  \/ "key" \in q.writes /\ Taken(q) # {}
  \/ q.op = "create" /\ q.link \in gone
  \/ q.op # "create" /\ q.locks /\ q.id \notin live

\* Mutant: changes of domains and sources are not journalled either.
JournalledDocuments(q) == q.id \in Documents \cup Parts

\* create_domain and create_source journal nothing.
Journalled(q) == ~ (q.op = "create" /\ q.id \in Domains \cup Sources)

NewEvent(r) ==
  LET q == request[r] IN
  [of |-> q.id, op |-> q.op, tells |-> q.tells,
   before |-> IF q.op = "create" THEN q.after ELSE q.before,
   after |-> q.after, by |-> r, crossed |-> FALSE]

\* Rows inserted and changes journalled so far.
Writes ==
  Cardinality(live \cup gone)
    + Cardinality({s \in Requests :
                     request[s].pc = "written" /\ request[s].op = "create"})
    + Cardinality({n \in 1..Len(journal) : journal[n].op # "create"})

\* The flush of the row and the insert of its journal row.
Flush(r) ==
  LET q == request[r] IN
  /\ q.pc = "selected"
  /\ ~ Waits(r)
  /\ Writes < MaxWrites
  /\ IF FlushError(q) THEN Drop(r) /\ UNCHANGED journal
     ELSE /\ request' = [request EXCEPT ![r].pc = "written"]
          /\ journal' = IF Journalled(q) THEN Append(journal, NewEvent(r))
                        ELSE journal
  /\ UNCHANGED <<live, gone, row>>

\* Another request has its journal row about the item already.
Overtakes(r) ==
  \E s \in Requests \ {r} :
    request[s].pc = "written" /\ request[s].id = request[r].id

Released(e, r, x) == IF e.by = r THEN [e EXCEPT !.by = None, !.crossed = x] ELSE e

\* A removed source is set null in the documents that refer to it.
RowAfter(i, q) ==
  CASE q.op = "create" /\ i = q.id ->
         [parent |-> q.parent, link |-> q.link, cols |-> q.after]
    [] q.op = "change" /\ i = q.id ->
         [row[i] EXCEPT !.cols = Replace(@, q.after, q.writes)]
    [] q.op = "delete" /\ i = q.id -> NoRow
    [] q.op = "delete" /\ i \in Documents /\ row[i].link = q.id ->
         [row[i] EXCEPT !.link = None]
    [] OTHER -> row[i]

Commit(r) ==
  LET q == request[r] IN
  /\ q.pc = "written"
  /\ live' = IF q.op = "create" THEN live \cup {q.id}
             ELSE IF q.op = "delete" THEN live \ {q.id} ELSE live
  /\ gone' = IF q.op = "delete" THEN gone \cup {q.id} ELSE gone
  /\ row'  = [i \in Items |-> RowAfter(i, q)]
  /\ journal' = [n \in 1..Len(journal) |->
                   Released(journal[n], r, q.crossed \/ Overtakes(r))]
  /\ request' = [s \in Requests |->
       IF s = r THEN Idle
       ELSE [request[s] EXCEPT !.crossed = @ \/ request[s].id = q.id]]

\* An exception, a client that hangs up, an API process that dies.
Rollback(r) ==
  /\ request[r].pc # "idle"
  /\ Drop(r)
  /\ journal' = OthersRows(r)
  /\ UNCHANGED <<live, gone, row>>

Begin(r) ==
  \/ CreateDomain(r) \/ CreateSource(r) \/ CreateDocument(r) \/ CreatePart(r)
  \/ UpdateDomain(r) \/ UpdateDocument(r) \/ UpdateSource(r) \/ DeleteSource(r)
  \/ ArchiveDomain(r) \/ ArchiveDocument(r) \/ RestoreDomain(r) \/ RestoreDocument(r)

Proceed(r) ==
  LookUp(r) \/ Select(r) \/ Flush(r) \/ Commit(r) \/ Rollback(r)

Next == \E r \in Requests : Begin(r) \/ Proceed(r)

Spec == Init /\ [][Next]_vars

-----------------------------------------------------------------------------
(***************************************************************************)
(* Properties.                                                             *)
(***************************************************************************)

\* Rows, journal rows and requests are of their types, a deleted item has no
\* row, and an open transaction owns at most one journal row.
TypeOK ==
  /\ live \subseteq Items /\ gone \subseteq Sources /\ live \cap gone = {}
  /\ row \in [Items -> RowType]
  /\ journal \in Seq(EventType)
  /\ request \in [Requests -> RequestType]

\* However creations, changes of a URI and removals interleave, no two domains
\* share a slug, no two sources of a domain a URI, no two documents of a domain
\* a content hash, and no two parts of a document a key: the lookup of the
\* handlers alone would let two requests in.
UniqueKeys ==
  \A i, j \in live :
    i # j /\ Kin(i, j) /\ row[i].parent = row[j].parent
      => row[i].cols["key"] # row[j].cols["key"]

\* A document refers to no removed source and to no source of another domain,
\* though the source may be removed while the document is being created.
LinkedInDomain ==
  \A i \in live \cap Documents :
    row[i].link # None =>
      row[i].link \in live /\ row[row[i].link].parent = row[i].parent

\* The committed journal rows that tell of column f of item i, by their place
\* in the journal (get_document_history).
Told(i, f) ==
  {n \in 1..Len(journal) : /\ journal[n].of = i /\ f \in journal[n].tells
                           /\ journal[n].by = None}

\* m and n are told one after the other.
NextTold(i, f, m, n) ==
  /\ m < n /\ m \in Told(i, f) /\ n \in Told(i, f)
  /\ \A k \in Told(i, f) : k <= m \/ n <= k

\* The history of an item can be replayed: a column holds what the last
\* journal row says it was changed to, and each row starts from where the one
\* before it ended, as far as the requests did not cross one another.
HistoryTellsRow ==
  \A i \in live, f \in Columns :
    /\ \A n \in Told(i, f) :
         (\A k \in Told(i, f) : k <= n) /\ ~ journal[n].crossed =>
           journal[n].after[f] = row[i].cols[f]
    /\ \A m, n \in Told(i, f) :
         NextTold(i, f, m, n) /\ ~ journal[m].crossed /\ ~ journal[n].crossed =>
           journal[n].before[f] = journal[m].after[f]

\* No change goes untold: a column of an existing item only changes in the
\* commit of a journal row that tells of it.
ChangesAreTold ==
  [][\A i \in live \cap live', f \in Columns :
       row'[i].cols[f] # row[i].cols[f] =>
         \E n \in 1..Len(journal) :
           /\ journal[n].by # None /\ journal'[n].by = None
           /\ journal[n].of = i /\ f \in journal[n].tells]_vars

=============================================================================
