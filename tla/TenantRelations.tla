---------------------------- MODULE TenantRelations ----------------------------
(***************************************************************************)
(* What hangs on a tenant: the users related to it, the scopes available   *)
(* in it, and who holds what (IdentityService.assignUserToTenant and       *)
(* removeUserFromTenant, ScopeService, GroupService and                    *)
(* AuthenticationGroupService, with the relational DAOs).                  *)
(*                                                                         *)
(* Every handler looks at the tables and then writes row after row; no     *)
(* transaction holds the two together.  A primary key refuses a row that   *)
(* is there already, and a foreign key keeps a scope available in a tenant *)
(* while somebody holds it; nothing ties what a user holds in a tenant to  *)
(* the user's relation to it.                                              *)
(*                                                                         *)
(* One tenant, Home, is looked at with all that hangs on it; of the others *)
(* only the users' relations matter.  Rows of users, groups, clients and   *)
(* tenants exist throughout, refusals that leave no trace (authorization,  *)
(* restricted domains, rows to be deleted) are left out, and so are the    *)
(* search index and the change events.                                     *)
(***************************************************************************)
EXTENDS Naturals, Sequences, FiniteSets

CONSTANTS
    Requests,       \* administrative requests in flight at the same time
    Users,
    Tenants,
    Home,           \* the tenant looked at
    Scopes,
    AuthzGroups,    \* authorization groups of Home
    AuthnGroups,    \* authentication groups of Home
    Clients,        \* clients of Home
    IdentityClients,\* the clients of type CLIENT_TYPE_IDENTITY
    RefreshToken,   \* stands for the refresh tokens of a user in Home
    MaxMishaps      \* bound on requests that die and sweeps that are lost

Groups == AuthzGroups \cup AuthnGroups
Holders == Users \cup Clients \cup AuthzGroups
Things == Groups \cup Scopes \cup {RefreshToken}

ASSUME ConstantsOk ==
    /\ Home \in Tenants
    /\ IdentityClients \subseteq Clients
    /\ MaxMishaps \in Nat
    /\ Users \cap (Clients \cup Groups \cup Scopes) = {}
    /\ Clients \cap (Groups \cup Scopes) = {}
    /\ Scopes \cap Groups = {}
    /\ AuthzGroups \cap AuthnGroups = {}
    /\ RefreshToken \notin Holders \cup Groups \cup Scopes

-----------------------------------------------------------------------------
VARIABLES
    rels,           \* user_tenant_rel: [Users -> [Tenants -> Relations]]
    available,      \* tenant_available_scope, the scopes of Home
    holds,          \* the rows that give a holder a thing
    default,        \* the groups whose default flag is set
    sweeping,       \* groups whose members are being removed in the background
    req,            \* [Requests -> what the request holds between two awaits]
    mishaps,        \* how many requests died and sweeps were lost
    crossed,        \* objects two requests were at work on at the same time
    halted          \* objects a request or a sweep that died was at work on

vars == <<rels, available, holds, default, sweeping, req, mishaps, crossed, halted>>
history == <<crossed, halted>>

Relations == {"none", "PRIMARY", "GUEST"}

(* What a removal goes through, in this order.                             *)
Kind == <<AuthzGroups, AuthnGroups, Scopes, {RefreshToken}>>

Phases == {"idle", "insertRel", "promote", "demote", "deleteRel", "collect",
           "discard", "insert", "makeAvailable", "dropClients", "dropGroups",
           "dropUsers", "dropScope", "updateGroup"}
Dropping == {"dropClients", "dropGroups", "dropUsers", "dropScope"}

Idle == [phase |-> "idle", about |-> {}, tenant |-> Home, old |-> Home,
         type |-> "none", todo |-> {}, kind |-> 1, flag |-> FALSE]

ReqStates == [
    phase : Phases,
    about : SUBSET (Holders \cup Groups \cup Scopes), \* what the request names
    tenant : Tenants,             \* the tenant of a relation
    old : Tenants,                \* the tenant of the PRIMARY relation found
    type : Relations,             \* the type of a relation that is written
    todo : SUBSET Things,         \* rows still to be written or deleted
    kind : DOMAIN Kind,           \* how far a removal has come
    flag : BOOLEAN]               \* the default flag that is written

Busy(r) == req[r].phase # "idle"
UserOf(r) == CHOOSE u \in Users : u \in req[r].about
Member(u) == rels[u][Home] # "none"
Related(u) == \E t \in Tenants : rels[u][t] # "none"
Primaries(u) == {t \in Tenants : rels[u][t] = "PRIMARY"}

Init ==
    /\ rels = [u \in Users |-> [t \in Tenants |-> "none"]]
    /\ available = {}
    /\ holds = {}
    /\ default = {}
    /\ sweeping = {}
    /\ req = [r \in Requests |-> Idle]
    /\ mishaps = 0
    /\ crossed = {}
    /\ halted = {}

-----------------------------------------------------------------------------
(* A request begins once its checks have passed; what they saw is what the *)
(* rest of it goes by.                                                     *)
Begin(r, state) ==
    /\ ~Busy(r)
    /\ req' = [req EXCEPT ![r] = state]
    /\ crossed' = crossed \cup
           UNION {req[q].about \cap state.about : q \in Requests \ {r}}
    /\ UNCHANGED halted

Become(r, state) ==
    /\ req' = [req EXCEPT ![r] = state]
    /\ UNCHANGED history

Finish(r) == Become(r, Idle)

-----------------------------------------------------------------------------
(* Users of tenants.                                                       *)

(* Operators whose names end in _Faulty are mistakes the code could contain;
   they are used only to see that the properties notice them.              *)
MayRelate_Faulty(u, t, type) ==
    \/ type = "PRIMARY" /\ rels[u][t] = "none"
    \/ type = "GUEST" /\ Primaries(u) # {} /\ rels[u][t] = "none"

(* A first relation is PRIMARY, a further one GUEST.                       *)
MayRelate(u, t, type) ==
    \/ type = "PRIMARY" /\ ~Related(u)
    \/ type = "GUEST" /\ Primaries(u) # {} /\ rels[u][t] = "none"

AssignUserToTenant(r, u, t, type) ==
    /\ MayRelate(u, t, type)
    /\ Begin(r, [Idle EXCEPT !.phase = "insertRel", !.about = {u}, !.tenant = t,
                             !.type = type])
    /\ UNCHANGED <<rels, available, holds, default, sweeping, mishaps>>

InsertRel(r) ==
    /\ req[r].phase = "insertRel"
    /\ LET u == UserOf(r)
           t == req[r].tenant
       IN rels' = IF rels[u][t] = "none"
                  THEN [rels EXCEPT ![u][t] = req[r].type] ELSE rels
    /\ Finish(r)
    /\ UNCHANGED <<available, holds, default, sweeping, mishaps>>

(* A GUEST relation becomes the PRIMARY one: it is written first, then the
   PRIMARY one that was found becomes GUEST.                               *)
SwapPrimary(r, u, t) ==
    /\ rels[u][t] = "GUEST"
    /\ \E old \in Primaries(u) :
           Begin(r, [Idle EXCEPT !.phase = "promote", !.about = {u}, !.tenant = t,
                                 !.old = old])
    /\ UNCHANGED <<rels, available, holds, default, sweeping, mishaps>>

(* An update writes no row that is gone.                                   *)
Written(u, t, type) ==
    IF rels[u][t] = "none" THEN rels ELSE [rels EXCEPT ![u][t] = type]

Promote_Faulty(r) ==
    /\ req[r].phase = "promote"
    /\ rels' = Written(UserOf(r), req[r].old, "GUEST")
    /\ Become(r, [req[r] EXCEPT !.phase = "demote", !.old = req[r].tenant])
    /\ UNCHANGED <<available, holds, default, sweeping, mishaps>>

Promote(r) ==
    /\ req[r].phase = "promote"
    /\ rels' = Written(UserOf(r), req[r].tenant, "PRIMARY")
    /\ Become(r, [req[r] EXCEPT !.phase = "demote"])
    /\ UNCHANGED <<available, holds, default, sweeping, mishaps>>

Demote(r) ==
    /\ req[r].phase = "demote"
    /\ rels' = Written(UserOf(r), req[r].old, "GUEST")
    /\ Finish(r)
    /\ UNCHANGED <<available, holds, default, sweeping, mishaps>>

(* A PRIMARY relation is not removed, and without a relation nothing is
   done at all.  The relation goes first, then what the user holds, kind by
   kind: the rows are listed, then deleted one by one.                     *)
RemoveUserFromTenant(r, u, t) ==
    /\ rels[u][t] = "GUEST"
    /\ Begin(r, [Idle EXCEPT !.phase = "deleteRel", !.about = {u}, !.tenant = t])
    /\ UNCHANGED <<rels, available, holds, default, sweeping, mishaps>>

DeleteRel(r) ==
    /\ req[r].phase = "deleteRel"
    /\ rels' = [rels EXCEPT ![UserOf(r)][req[r].tenant] = "none"]
    /\ IF req[r].tenant = Home
       THEN Become(r, [req[r] EXCEPT !.phase = "collect"])
       ELSE Finish(r)
    /\ UNCHANGED <<available, holds, default, sweeping, mishaps>>

Listed_Faulty(u, k) ==
    IF k = 3 THEN {} ELSE {x \in Kind[k] : <<u, x>> \in holds}

Listed(u, k) == {x \in Kind[k] : <<u, x>> \in holds}

LastKind_Faulty(k) == k > Len(Kind)
LastKind(k) == k = Len(Kind)

Collect(r) ==
    /\ req[r].phase = "collect"
    /\ LET found == Listed(UserOf(r), req[r].kind)
       IN IF found # {}
          THEN Become(r, [req[r] EXCEPT !.phase = "discard", !.todo = found])
          ELSE IF LastKind(req[r].kind)
          THEN Finish(r)
          ELSE Become(r, [req[r] EXCEPT !.kind = @ + 1])
    /\ UNCHANGED <<rels, available, holds, default, sweeping, mishaps>>

Discard(r) ==
    /\ req[r].phase = "discard"
    /\ \E x \in req[r].todo :
           /\ holds' = holds \ {<<UserOf(r), x>>}
           /\ IF req[r].todo # {x}
              THEN Become(r, [req[r] EXCEPT !.todo = @ \ {x}])
              ELSE IF LastKind(req[r].kind)
              THEN Finish(r)
              ELSE Become(r, [req[r] EXCEPT !.phase = "collect", !.todo = {},
                                            !.kind = @ + 1])
    /\ UNCHANGED <<rels, available, default, sweeping, mishaps>>

-----------------------------------------------------------------------------
(* Things are given to holders.                                            *)

(* One scope, or several at once: all of them are available, and a user is
   a member.  Only the single form turns down a client of type identity.   *)
MayAssign(h, S, bulk) ==
    /\ S \subseteq available
    /\ h \in Users => Member(h)
    /\ ~bulk => Cardinality(S) = 1 /\ h \notin IdentityClients

(* The reads before the first row are one step: a scope that stops being
   available in between is refused by the foreign key.                     *)
AssignScopes(r, h, S, bulk) ==
    /\ MayAssign(h, S, bulk)
    /\ Begin(r, [Idle EXCEPT !.phase = "insert", !.about = {h} \cup S, !.todo = S])
    /\ UNCHANGED <<rels, available, holds, default, sweeping, mishaps>>

MayJoin(u, g) ==
    /\ Member(u)
    /\ g \notin default

AddUserToGroup(r, u, g) ==
    /\ MayJoin(u, g)
    /\ Begin(r, [Idle EXCEPT !.phase = "insert", !.about = {u, g}, !.todo = {g}])
    /\ UNCHANGED <<rels, available, holds, default, sweeping, mishaps>>

HolderOf(r) == CHOOSE h \in Holders : h \in req[r].about \ req[r].todo

(* Row after row; the first one that a key refuses ends the request, and
   the rows before it stay.                                                *)
Insert(r) ==
    /\ req[r].phase = "insert"
    /\ \E x \in req[r].todo :
           LET row == <<HolderOf(r), x>>
               refused == row \in holds \/ x \in Scopes \ available
           IN IF refused
              THEN Finish(r) /\ UNCHANGED holds
              ELSE /\ holds' = holds \cup {row}
                   /\ IF req[r].todo = {x}
                      THEN Finish(r)
                      ELSE Become(r, [req[r] EXCEPT !.todo = @ \ {x}])
    /\ UNCHANGED <<rels, available, default, sweeping, mishaps>>

(* removeScopeFromClient, removeScopeFromAuthorizationGroup,
   removeScopeFromUser and removeUserFromGroup delete one row.             *)
TakeAway(h, x) ==
    /\ x # RefreshToken
    /\ holds' = holds \ {<<h, x>>}
    /\ UNCHANGED <<rels, available, default, sweeping, req, mishaps, history>>

(* The token endpoint stores a refresh token; it asks for no relation.     *)
SaveRefreshToken(u) ==
    /\ holds' = holds \cup {<<u, RefreshToken>>}
    /\ UNCHANGED <<rels, available, default, sweeping, req, mishaps, history>>

-----------------------------------------------------------------------------
(* Scopes of the tenant.                                                   *)

AssignScopesToTenant(r, S) ==
    /\ Begin(r, [Idle EXCEPT !.phase = "makeAvailable", !.about = S, !.todo = S])
    /\ UNCHANGED <<rels, available, holds, default, sweeping, mishaps>>

MakeAvailable(r) ==
    /\ req[r].phase = "makeAvailable"
    /\ \E s \in req[r].todo :
           IF s \in available
           THEN Finish(r) /\ UNCHANGED available
           ELSE /\ available' = available \cup {s}
                /\ IF req[r].todo = {s}
                   THEN Finish(r)
                   ELSE Become(r, [req[r] EXCEPT !.todo = @ \ {s}])
    /\ UNCHANGED <<rels, holds, default, sweeping, mishaps>>

RemoveScopeFromTenant(r, s) ==
    /\ Begin(r, [Idle EXCEPT !.phase = "dropClients", !.about = {s}, !.todo = {s}])
    /\ UNCHANGED <<rels, available, holds, default, sweeping, mishaps>>

AfterDrop_Faulty(phase) ==
    CASE phase = "dropClients" -> "dropUsers"
      [] phase = "dropUsers" -> "dropScope"

AfterDrop(phase) ==
    CASE phase = "dropClients" -> "dropGroups"
      [] phase = "dropGroups" -> "dropUsers"
      [] phase = "dropUsers" -> "dropScope"

Dropped(phase) ==
    CASE phase = "dropClients" -> Clients
      [] phase = "dropGroups" -> AuthzGroups
      [] phase = "dropUsers" -> Users

DropRows(r) ==
    /\ req[r].phase \in Dropping \ {"dropScope"}
    /\ holds' = holds \ (Dropped(req[r].phase) \X req[r].todo)
    /\ Become(r, [req[r] EXCEPT !.phase = AfterDrop(@)])
    /\ UNCHANGED <<rels, available, default, sweeping, mishaps>>

Held(s) == \E h \in Holders : <<h, s>> \in holds

(* The foreign keys refuse the last deletion while the scope is held.      *)
DropScope(r) ==
    /\ req[r].phase = "dropScope"
    /\ available' = available \ {s \in req[r].todo : ~Held(s)}
    /\ Finish(r)
    /\ UNCHANGED <<rels, holds, default, sweeping, mishaps>>

-----------------------------------------------------------------------------
(* Default groups: everybody belongs to one, so it has no rows.            *)

Begins_Faulty(g, flag) == FALSE

(* The members go when a group becomes a default group.                    *)
Begins(g, flag) == flag /\ g \notin default

(* updateGroup and updateAuthenticationGroup: the row is read, then written
   whole.  What was read decides whether the members are removed.          *)
UpdateGroup(r, g, flag) ==
    /\ Begin(r, [Idle EXCEPT !.phase = "updateGroup", !.about = {g},
                             !.todo = IF Begins(g, flag) THEN {g} ELSE {},
                             !.flag = flag])
    /\ UNCHANGED <<rels, available, holds, default, sweeping, mishaps>>

WriteGroup(r) ==
    /\ req[r].phase = "updateGroup"
    /\ default' = IF req[r].flag THEN default \cup req[r].about
                  ELSE default \ req[r].about
    /\ sweeping' = sweeping \cup req[r].todo
    /\ Finish(r)
    /\ UNCHANGED <<rels, available, holds, mishaps>>

(* deleteUserAuthorizationGroupRels and deleteUserAuthenticationGroupRels,
   which nobody waits for: rows are deleted until none is found.           *)
Sweep(g) ==
    /\ g \in sweeping
    /\ IF \E u \in Users : <<u, g>> \in holds
       THEN /\ \E u \in Users : <<u, g>> \in holds /\ holds' = holds \ {<<u, g>>}
            /\ UNCHANGED sweeping
       ELSE /\ sweeping' = sweeping \ {g}
            /\ UNCHANGED holds
    /\ UNCHANGED <<rels, available, default, req, mishaps, history>>

-----------------------------------------------------------------------------
Mishap ==
    /\ mishaps < MaxMishaps
    /\ mishaps' = mishaps + 1

(* The server stops, or a statement fails, between two steps.              *)
Die(r) ==
    /\ Busy(r)
    /\ Mishap
    /\ req' = [req EXCEPT ![r] = Idle]
    /\ halted' = halted \cup req[r].about
    /\ UNCHANGED <<rels, available, holds, default, sweeping, crossed>>

LoseSweep(g) ==
    /\ g \in sweeping
    /\ Mishap
    /\ sweeping' = sweeping \ {g}
    /\ halted' = halted \cup {g}
    /\ UNCHANGED <<rels, available, holds, default, req, crossed>>

RelateUsers(r) ==
    \/ \E u \in Users, t \in Tenants :
           \/ \E type \in {"PRIMARY", "GUEST"} : AssignUserToTenant(r, u, t, type)
           \/ SwapPrimary(r, u, t)
           \/ RemoveUserFromTenant(r, u, t)
    \/ InsertRel(r) \/ Promote(r) \/ Demote(r)
    \/ DeleteRel(r) \/ Collect(r) \/ Discard(r)

AssignThings(r) ==
    \/ \E h \in Holders, S \in (SUBSET Scopes) \ {{}}, bulk \in BOOLEAN :
           AssignScopes(r, h, S, bulk)
    \/ \E u \in Users, g \in Groups : AddUserToGroup(r, u, g)
    \/ Insert(r)

ScopesOfTenant(r) ==
    \/ \E S \in (SUBSET Scopes) \ {{}} : AssignScopesToTenant(r, S)
    \/ \E s \in Scopes : RemoveScopeFromTenant(r, s)
    \/ MakeAvailable(r) \/ DropRows(r) \/ DropScope(r)

UpdateGroups(r) ==
    \/ \E g \in Groups, flag \in BOOLEAN : UpdateGroup(r, g, flag)
    \/ WriteGroup(r)

Next ==
    \/ \E r \in Requests :
           \/ RelateUsers(r) \/ AssignThings(r) \/ ScopesOfTenant(r)
           \/ UpdateGroups(r) \/ Die(r)
    \/ \E row \in holds : TakeAway(row[1], row[2])
    \/ \E u \in Users : SaveRefreshToken(u)
    \/ \E g \in Groups : Sweep(g) \/ LoseSweep(g)

Spec == Init /\ [][Next]_vars

-----------------------------------------------------------------------------
Quiet(object) == \A r \in Requests : object \notin req[r].about

(* Types; and what the foreign keys see to: whoever holds a scope of the
   tenant, it is available there.                                          *)
TypeOK ==
    /\ rels \in [Users -> [Tenants -> Relations]]
    /\ available \subseteq Scopes
    /\ holds \subseteq Holders \X Things
    /\ default \subseteq Groups
    /\ sweeping \subseteq Groups
    /\ req \in [Requests -> ReqStates]
    /\ mishaps \in 0 .. MaxMishaps
    /\ crossed \cup halted \subseteq Holders \cup Groups \cup Scopes
    /\ \A row \in holds : row[2] \in Scopes => row[2] \in available

Undisturbed(object) == Quiet(object) /\ object \notin crossed \cup halted

(* "There should always be a primary rel": requests that come one after the
   other leave a related user with a PRIMARY relation, whichever of them
   dies between its two updates.                                           *)
PrimaryRemains ==
    \A u \in Users \ crossed : Related(u) => Primaries(u) # {}

(* And with one only, if none of them died.                                *)
OnePrimary == \A u \in Users : Undisturbed(u) => Cardinality(Primaries(u)) <= 1

(* A user who left the tenant is in none of its groups and holds none of
   its scopes, unless another request was at work on the user meanwhile or
   the removal died: it cannot be repeated, for the relation goes first.   *)
LeavingIsComplete ==
    \A u \in Users :
        Undisturbed(u) /\ ~Member(u) => \A x \in Groups \cup Scopes : <<u, x>> \notin holds

(* A default group has no members of its own once they are swept out,
   though nobody waits for that.                                           *)
DefaultGroupsAreEmpty ==
    \A g \in default \ sweeping :
        Undisturbed(g) => \A u \in Users : <<u, g>> \notin holds

(* When removeScopeFromTenant comes to the scope itself, nobody holds it any
   more, and the foreign keys let it go.                                   *)
RemovalGoesThrough ==
    \A r \in Requests :
        req[r].phase = "dropScope" => \A s \in req[r].todo \ crossed : ~Held(s)

=============================================================================
