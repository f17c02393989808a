--------------------------- MODULE AdminAccounts ----------------------------
(***************************************************************************)
(* Administration accounts (api/routes/admin_users.py, AdminUserRepository *)
(* in persistence/repositories.py, the guards of api/dependencies.py).     *)
(*                                                                         *)
(* A request is authorised in a transaction of its own; a second one reads *)
(* the target, counts the active administrators, selects the target again  *)
(* and updates one of its columns.  Every statement is at READ COMMITTED:  *)
(* it sees the last commit, and only the UPDATE locks the row.             *)
(***************************************************************************)
EXTENDS Naturals, FiniteSets

CONSTANTS
  Admins,      \* account identifiers: ids and emails are one to one
  Requests,    \* requests that may be open at the same time
  NoAdmin      \* a value that is no account

ASSUME AccountConstants == IsFiniteSet(Admins) /\ NoAdmin \notin Admins

VARIABLES
  known,       \* accounts that have a row
  active,      \* accounts with is_active
  admins,      \* accounts whose roles contain "admin"
  request,     \* the open requests
  raced        \* history: a removal committed although another request had
               \* committed between its look at the target and its commit

tables == <<known, active, admins>>
vars   == <<tables, request, raced>>

\* PATCH status, PATCH roles, POST a new account.
Ops    == {"status", "roles", "create"}
Phases == {"idle", "authorized", "read", "counted", "selected", "written"}

\* want: is_active, or "admin" is among the roles asked for.
\* held: the target was an active administrator when it was read.
\* writes: the column selected differs from the one asked for.
IdleRequest ==
  [pc |-> "idle", actor |-> NoAdmin, op |-> "status", target |-> NoAdmin,
   want |-> FALSE, held |-> FALSE, writes |-> FALSE, crossed |-> FALSE]

RequestState ==
  [pc : Phases, actor : Admins \cup {NoAdmin}, op : Ops,
   target : Admins \cup {NoAdmin}, want : BOOLEAN, held : BOOLEAN,
   writes : BOOLEAN, crossed : BOOLEAN]

ActiveAdmins == active \cap admins

Removal(q) == q.op # "create" /\ ~ q.want

\* No other transaction has an uncommitted write of the row, or an
\* uncommitted insert of the email.
RowFree(r) ==
  \A s \in Requests \ {r} :
    request[s].target = request[r].target =>
      ~ (request[s].pc = "written" /\ request[s].writes)

Drop(r) == request' = [request EXCEPT ![r] = IdleRequest]

-----------------------------------------------------------------------------
Init ==
  /\ known \in SUBSET Admins /\ active \in SUBSET known
  /\ admins \in SUBSET known
  /\ ActiveAdmins # {}
  /\ request = [r \in Requests |-> IdleRequest]
  /\ raced = FALSE

\* require_principal and require_admin: the account of the token is active and
\* still has the role.
Authorize(r) ==
  /\ request[r].pc = "idle"
  /\ \E a \in ActiveAdmins, t \in Admins, op \in Ops, want \in BOOLEAN :
       request' = [request EXCEPT ![r] =
         [IdleRequest EXCEPT !.pc = "authorized", !.actor = a, !.op = op,
                             !.target = t, !.want = want]]
  /\ UNCHANGED <<tables, raced>>

\* 404 for a target without a row, 409 for an email that has one, and nobody
\* deactivates or demotes himself.
Refused(q) ==
  \/ q.op = "create" /\ q.target \in known
  \/ q.op # "create" /\ q.target \notin known
  \/ Removal(q) /\ q.target = q.actor

ReadTarget(r) ==
  LET q == request[r] IN
  /\ q.pc = "authorized"
  /\ IF Refused(q) THEN Drop(r)
     ELSE request' = [request EXCEPT ![r].pc = "read",
                                     ![r].held = q.target \in ActiveAdmins]
  /\ UNCHANGED <<tables, raced>>

\* Mutant: the last administrator may go too.
CountActiveAdminsOff(r) ==
  LET q == request[r] IN
  /\ q.pc = "read"
  /\ IF Removal(q) /\ q.held /\ Cardinality(ActiveAdmins) <= 0 THEN Drop(r)
     ELSE request' = [request EXCEPT ![r].pc = "counted"]
  /\ UNCHANGED <<tables, raced>>

\* count_active_admins: the last active administrator must stay.
CountActiveAdmins(r) ==
  LET q == request[r] IN
  /\ q.pc = "read"
  /\ IF Removal(q) /\ q.held /\ Cardinality(ActiveAdmins) <= 1 THEN Drop(r)
     ELSE request' = [request EXCEPT ![r].pc = "counted"]
  /\ UNCHANGED <<tables, raced>>

\* The column as the second select sees it.
Column(q) ==
  IF q.op = "status" THEN q.target \in active ELSE q.target \in admins

\* update_active and update_roles select the row again.  Roles may differ
\* although "admin" is in both or in neither.
SelectTarget(r) ==
  LET q == request[r] IN
  /\ q.pc = "counted"
  /\ \E w \in BOOLEAN :
       /\ q.op = "create" => w
       /\ Column(q) # q.want => w
       /\ q.op = "status" /\ Column(q) = q.want => ~ w
       /\ request' = [request EXCEPT ![r].pc = "selected", ![r].writes = w]
  /\ UNCHANGED <<tables, raced>>

\* The flush: wait for the row; a new email that was committed meanwhile
\* raises.
FlushChange(r) ==
  LET q == request[r] IN
  /\ q.pc = "selected"
  /\ q.writes => RowFree(r)
  /\ IF q.op = "create" /\ q.target \in known THEN Drop(r)
     ELSE request' = [request EXCEPT ![r].pc = "written"]
  /\ UNCHANGED <<tables, raced>>

With(S, a, in) == IF in THEN S \cup {a} ELSE S \ {a}

InWindow(s) == request[s].pc \notin {"idle", "authorized"}

\* A new account is active or not, as the client says; want is about its roles.
Commit(r) ==
  LET q == request[r] IN
  /\ q.pc = "written"
  /\ known'  = IF q.op = "create" THEN known \cup {q.target} ELSE known
  /\ \E on \in IF q.op = "create" THEN BOOLEAN ELSE {q.want} :
       active' = IF ~ q.writes \/ q.op = "roles" THEN active
                 ELSE With(active, q.target, on)
  /\ admins' = IF ~ q.writes \/ q.op = "status" THEN admins
               ELSE With(admins, q.target, q.want)
  /\ raced'  = (raced \/ (q.writes /\ Removal(q) /\ q.crossed))
  /\ request' = [s \in Requests |->
       IF s = r THEN IdleRequest
       ELSE [request[s] EXCEPT !.crossed = @ \/ (q.writes /\ InWindow(s))]]

\* An exception, a client that hangs up, an API process that dies.
Rollback(r) ==
  /\ request[r].pc # "idle"
  /\ Drop(r)
  /\ UNCHANGED <<tables, raced>>

\* An API process starts and inserts the configured administrator if the
\* email has no account.
BootstrapAdmin ==
  /\ \E a \in Admins \ known :
       /\ \A r \in Requests :
            ~ (request[r].target = a /\ request[r].pc = "written")
       /\ known'  = known \cup {a}
       /\ active' = active \cup {a}
       /\ admins' = admins \cup {a}
  /\ UNCHANGED <<request, raced>>

RequestStep(r) ==
  \/ Authorize(r) \/ ReadTarget(r) \/ CountActiveAdmins(r)
  \/ SelectTarget(r) \/ FlushChange(r) \/ Commit(r) \/ Rollback(r)

Next == (\E r \in Requests : RequestStep(r)) \/ BootstrapAdmin

Spec == Init /\ [][Next]_vars

-----------------------------------------------------------------------------
(***************************************************************************)
(* Properties.                                                             *)
(***************************************************************************)

\* Roles and the active flag belong to rows; the requests are of their type.
TypeOK ==
  /\ known \subseteq Admins /\ active \subseteq known /\ admins \subseteq known
  /\ request \in [Requests -> RequestState]
  /\ raced \in BOOLEAN

\* What the count does protect: an active administrator is left as long as no
\* removal has committed across another request's commit, however requests are
\* authorised, interleaved and rolled back otherwise.
LostOnlyByRace == ActiveAdmins = {} => raced

\* The API "requires at least one active admin role"
\* (docs/api-integration.md:141).  No run checks this: two administrators who
\* remove each other at the same time both count two and leave none.
SomeActiveAdmin == ActiveAdmins # {}

=============================================================================
