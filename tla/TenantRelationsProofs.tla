------------------------- MODULE TenantRelationsProofs -------------------------
(***************************************************************************)
(* Proofs about TenantRelations, for any number of requests, users,        *)
(* tenants, groups, clients and scopes.                                    *)
(*                                                                         *)
(* An object no two requests were at work on at the same time (it is not   *)
(* crossed) has one request about it at most (Alone), and whatever that    *)
(* request saw when it began still holds: that is what the invariants of   *)
(* users, groups and scopes say.                                           *)
(***************************************************************************)
EXTENDS TenantRelations, FiniteSetTheorems, TLAPS

RelPhases == {"insertRel", "promote", "demote", "deleteRel", "collect", "discard"}

(* What a request names, by its phase.                                     *)
Shape(r) ==
    /\ req[r].phase = "idle" => req[r].about = {}
    /\ req[r].phase \in RelPhases => \E u \in Users : req[r].about = {u}
    /\ req[r].phase = "deleteRel" => req[r].kind = 1
    /\ req[r].phase = "discard" => req[r].todo \subseteq Kind[req[r].kind]
    /\ req[r].phase = "insert" =>
           /\ req[r].todo \subseteq req[r].about \cap (Scopes \cup Groups)
           /\ req[r].todo \subseteq Scopes \/ \E g \in Groups : req[r].todo = {g}
           /\ \E h \in Holders : /\ h \in req[r].about \ req[r].todo
                                /\ req[r].about \ req[r].todo \subseteq {h} \cup Scopes
    /\ req[r].phase = "makeAvailable" => req[r].about \subseteq Scopes /\ req[r].todo \subseteq Scopes
    /\ req[r].phase \in Dropping => \E s \in Scopes : req[r].about = {s} /\ req[r].todo = {s}
    /\ req[r].phase = "updateGroup" => \E g \in Groups : req[r].about = {g} /\ req[r].todo \subseteq {g}

Shapes == \A r \in Requests : Shape(r)

Alone ==
    \A r, q \in Requests : r # q => req[r].about \cap req[q].about \subseteq crossed

(* What the request about a user saw of the user's relations.              *)
SeenRels(u, r) ==
    /\ req[r].phase = "insertRel" => MayRelate(u, req[r].tenant, req[r].type)
    /\ req[r].phase = "promote" => rels[u][req[r].tenant] = "GUEST" /\ rels[u][req[r].old] = "PRIMARY"
    /\ req[r].phase = "demote" => rels[u][req[r].tenant] = "PRIMARY" /\ req[r].old # req[r].tenant
    /\ req[r].phase = "deleteRel" => rels[u][req[r].tenant] = "GUEST"
    /\ req[r].phase = "insert" => Member(u)

UserFits(u) ==
    /\ Related(u) => Primaries(u) # {}
    /\ \A r \in Requests : u \in req[r].about => SeenRels(u, r)

(* Two PRIMARY relations are those of a request between its two updates.   *)
OneFits(u) ==
    \A t1, t2 \in Primaries(u) :
        \/ t1 = t2
        \/ \E r \in Requests : /\ u \in req[r].about /\ req[r].phase = "demote"
                               /\ t1 \in {req[r].old, req[r].tenant}
                               /\ t2 \in {req[r].old, req[r].tenant}

(* A removal still has to come to x.                                       *)
ToCome(r, x) ==
    \/ /\ req[r].phase = "collect"
       /\ \E k \in DOMAIN Kind : req[r].kind <= k /\ x \in Kind[k]
    \/ /\ req[r].phase = "discard"
       /\ \/ x \in req[r].todo
          \/ \E k \in DOMAIN Kind : req[r].kind < k /\ x \in Kind[k]

LeftFits(u) ==
    ~Member(u) =>
        \A x \in Groups \cup Scopes : <<u, x>> \in holds =>
            \E r \in Requests : u \in req[r].about /\ ToCome(r, x)

(* What the request about a group saw of its flag.                         *)
GroupFits(g) ==
    \A r \in Requests :
        /\ g \in req[r].about /\ req[r].phase = "updateGroup" /\ req[r].flag =>
               req[r].todo = {g} \/ g \in default
        /\ g \in req[r].todo /\ req[r].phase = "insert" => g \notin default

EmptyFits(g) == g \in default \ sweeping => \A u \in Users : <<u, g>> \notin holds

(* Whose rows a removal has dropped.                                       *)
Gone(phase) ==
    CASE phase = "dropGroups" -> Clients
      [] phase = "dropUsers" -> Clients \cup AuthzGroups
      [] phase = "dropScope" -> Holders
      [] OTHER -> {}

ScopeFits(s) ==
    \A r \in Requests : s \in req[r].about =>
        \A h \in Gone(req[r].phase) : <<h, s>> \notin holds

IInv ==
    /\ TypeOK /\ Shapes /\ Alone
    /\ \A u \in Users \ crossed : UserFits(u)
    /\ \A u \in Users \ (crossed \cup halted) : OneFits(u) /\ LeftFits(u)
    /\ \A g \in Groups \ crossed : GroupFits(g)
    /\ \A g \in Groups \ (crossed \cup halted) : EmptyFits(g)
    /\ \A s \in Scopes \ crossed : ScopeFits(s)

-----------------------------------------------------------------------------
(* Requests in general.                                                    *)

LEMMA Kinds ==
    /\ DOMAIN Kind = 1 .. 4 /\ Len(Kind) = 4
    /\ Kind[1] = AuthzGroups /\ Kind[2] = AuthnGroups /\ Kind[3] = Scopes
    /\ Kind[4] = {RefreshToken}
    /\ \A k \in 1 .. 4 : Kind[k] \subseteq Things
BY DEF Kind, Things, Groups

LEMMA IdleFields ==
    /\ Idle \in ReqStates
    /\ Idle.phase = "idle" /\ Idle.about = {} /\ Idle.todo = {} /\ Idle.kind = 1
BY ConstantsOk, Kinds DEF Idle, ReqStates, Phases, Relations, Things

(* What a step of request r leaves of the others.                          *)
Moves(r) ==
    /\ req' \in [Requests -> ReqStates]
    /\ \A q \in Requests \ {r} : req'[q] = req[q]
    /\ crossed \subseteq crossed' /\ halted \subseteq halted'
    /\ crossed' \cup halted' \subseteq Holders \cup Groups \cup Scopes

LEMMA BeginMoves ==
    ASSUME TypeOK, Shapes, Alone, NEW r \in Requests, NEW state \in ReqStates, Begin(r, state)
    PROVE  /\ Moves(r) /\ Alone'
           /\ req'[r] = state /\ req[r].phase = "idle" /\ req[r].about = {}
           /\ halted' = halted
<1>1. req' = [req EXCEPT ![r] = state] /\ halted' = halted /\ req[r].phase = "idle"
    BY DEF Begin, Busy
<1>2. req[r].about = {}
    BY <1>1 DEF Shapes, Shape
<1>3. /\ req'[r] = state /\ req' \in [Requests -> ReqStates]
      /\ \A q \in Requests \ {r} : req'[q] = req[q]
    BY <1>1 DEF TypeOK
<1>4. crossed' = crossed \cup UNION {req[q].about \cap state.about : q \in Requests \ {r}}
    BY DEF Begin
<1>5. state.about \subseteq Holders \cup Groups \cup Scopes
    BY DEF ReqStates
<1>6. \A q \in Requests \ {r} : req[q].about \cap state.about \subseteq crossed'
    BY <1>4
<1>7. crossed \subseteq crossed' /\ crossed' \cup halted' \subseteq Holders \cup Groups \cup Scopes
    BY <1>1, <1>4, <1>5 DEF TypeOK
<1>8. Alone'
    BY <1>3, <1>6, <1>7 DEF Alone
<1>. QED  BY <1>1, <1>2, <1>3, <1>7, <1>8 DEF Moves

LEMMA Becomes ==
    ASSUME TypeOK, Alone, NEW r \in Requests, NEW state \in ReqStates,
           state.about \subseteq req[r].about, Become(r, state)
    PROVE  /\ Moves(r) /\ Alone'
           /\ req'[r] = state /\ crossed' = crossed /\ halted' = halted
<1>1. req' = [req EXCEPT ![r] = state] /\ crossed' = crossed /\ halted' = halted
    BY DEF Become, history
<1>2. /\ req'[r] = state /\ req' \in [Requests -> ReqStates]
      /\ \A q \in Requests \ {r} : req'[q] = req[q]
    BY <1>1 DEF TypeOK
<1>3. Alone'
    BY <1>1, <1>2 DEF Alone
<1>. QED  BY <1>1, <1>2, <1>3 DEF Moves, TypeOK

LEMMA Finishes ==
    ASSUME TypeOK, Alone, NEW r \in Requests, Finish(r)
    PROVE  /\ Moves(r) /\ Alone' /\ req'[r] = Idle /\ crossed' = crossed /\ halted' = halted
BY IdleFields, Becomes DEF Finish

(* The user of a request about one.                                        *)
LEMMA UserOfRequest ==
    ASSUME Shapes, NEW r \in Requests, req[r].phase \in RelPhases
    PROVE  UserOf(r) \in Users /\ req[r].about = {UserOf(r)}
BY DEF Shapes, Shape, UserOf

(* The holder something is given to.                                       *)
LEMMA HolderOfRequest ==
    ASSUME Shapes, NEW r \in Requests, req[r].phase = "insert"
    PROVE  /\ HolderOf(r) \in Holders /\ HolderOf(r) \in req[r].about
           /\ HolderOf(r) \notin req[r].todo
           /\ req[r].about \ req[r].todo \subseteq {HolderOf(r)} \cup Scopes
           /\ req[r].todo \subseteq req[r].about \cap (Scopes \cup Groups)
           /\ req[r].todo \subseteq Scopes \/ \E g \in Groups : req[r].todo = {g}
           /\ \A u \in Users : u \in req[r].about => u = HolderOf(r)
<1>1. PICK h \in Holders : /\ h \in req[r].about \ req[r].todo
                          /\ req[r].about \ req[r].todo \subseteq {h} \cup Scopes
    BY DEF Shapes, Shape
<1>2. \A g \in Holders : g \notin Scopes
    BY ConstantsOk DEF Holders, Groups
<1>3. HolderOf(r) = h
    BY <1>1, <1>2 DEF HolderOf
<1>4. /\ req[r].todo \subseteq req[r].about \cap (Scopes \cup Groups)
      /\ req[r].todo \subseteq Scopes \/ \E g \in Groups : req[r].todo = {g}
    BY DEF Shapes, Shape
<1>5. \A u \in Users : u \notin Scopes \cup Groups
    BY ConstantsOk
<1>. QED  BY <1>1, <1>3, <1>4, <1>5

Tables ==
    /\ rels \in [Users -> [Tenants -> Relations]]
    /\ available \subseteq Scopes
    /\ holds \subseteq Holders \X Things
    /\ default \subseteq Groups
    /\ sweeping \subseteq Groups
    /\ mishaps \in 0 .. MaxMishaps
    /\ \A row \in holds : row[2] \in Scopes => row[2] \in available

LEMMA TablesTyped == TypeOK => Tables
BY DEF TypeOK, Tables

(* A step of request r that leaves everything in order.                    *)
Orderly(r) == Moves(r) /\ Alone' /\ Shape(r)' /\ Tables'

-----------------------------------------------------------------------------
(* Requests about a user's relations.                                      *)

LEMMA AssignMoves ==
    ASSUME TypeOK, Shapes, Alone, NEW r \in Requests, NEW u \in Users, NEW t \in Tenants,
           NEW type \in {"PRIMARY", "GUEST"}, AssignUserToTenant(r, u, t, type)
    PROVE  /\ Orderly(r) /\ rels' = rels /\ holds' = holds
           /\ req'[r].phase = "insertRel" /\ req'[r].about = {u}
           /\ req'[r].tenant = t /\ req'[r].type = type
           /\ req[r].about = {} /\ halted' = halted
<1>. DEFINE state == [Idle EXCEPT !.phase = "insertRel", !.about = {u}, !.tenant = t, !.type = type]
<1>1. /\ state \in ReqStates
      /\ state.phase = "insertRel" /\ state.about = {u} /\ state.tenant = t /\ state.type = type
    BY IdleFields DEF ReqStates, Phases, Relations, Holders
<1>2. Begin(r, state)
    BY DEF AssignUserToTenant
<1>. HIDE DEF state
<1>3. Moves(r) /\ Alone' /\ req'[r] = state /\ req[r].about = {} /\ halted' = halted
    BY <1>1, <1>2, BeginMoves
<1>4. Shape(r)'
    BY <1>1, <1>3 DEF Shape, RelPhases, Dropping
<1>5. Tables'
    BY TablesTyped DEF AssignUserToTenant, Tables
<1>. QED  BY <1>1, <1>3, <1>4, <1>5 DEF Orderly, AssignUserToTenant

LEMMA SwapMoves ==
    ASSUME TypeOK, Shapes, Alone, NEW r \in Requests, NEW u \in Users, NEW t \in Tenants,
           SwapPrimary(r, u, t)
    PROVE  /\ Orderly(r) /\ rels' = rels /\ holds' = holds
           /\ req'[r].phase = "promote" /\ req'[r].about = {u} /\ req'[r].tenant = t
           /\ req'[r].old \in Primaries(u)
           /\ req[r].about = {} /\ halted' = halted
<1>1. PICK old \in Primaries(u) :
          Begin(r, [Idle EXCEPT !.phase = "promote", !.about = {u}, !.tenant = t, !.old = old])
    BY DEF SwapPrimary
<1>. DEFINE state == [Idle EXCEPT !.phase = "promote", !.about = {u}, !.tenant = t, !.old = old]
<1>2. /\ state \in ReqStates
      /\ state.phase = "promote" /\ state.about = {u} /\ state.tenant = t /\ state.old = old
    BY IdleFields DEF ReqStates, Phases, Holders, Primaries
<1>. HIDE DEF state
<1>3. Moves(r) /\ Alone' /\ req'[r] = state /\ req[r].about = {} /\ halted' = halted
    BY <1>1, <1>2, BeginMoves DEF state
<1>4. Shape(r)'
    BY <1>2, <1>3 DEF Shape, RelPhases, Dropping
<1>5. Tables'
    BY TablesTyped DEF SwapPrimary, Tables
<1>. QED  BY <1>2, <1>3, <1>4, <1>5 DEF Orderly, SwapPrimary

LEMMA RemoveMoves ==
    ASSUME TypeOK, Shapes, Alone, NEW r \in Requests, NEW u \in Users, NEW t \in Tenants,
           RemoveUserFromTenant(r, u, t)
    PROVE  /\ Orderly(r) /\ rels' = rels /\ holds' = holds
           /\ req'[r].phase = "deleteRel" /\ req'[r].about = {u} /\ req'[r].tenant = t
           /\ req[r].about = {} /\ halted' = halted
<1>. DEFINE state == [Idle EXCEPT !.phase = "deleteRel", !.about = {u}, !.tenant = t]
<1>1. /\ state \in ReqStates
      /\ state.phase = "deleteRel" /\ state.about = {u} /\ state.tenant = t /\ state.kind = 1
    BY IdleFields DEF ReqStates, Phases, Holders
<1>2. Begin(r, state)
    BY DEF RemoveUserFromTenant
<1>. HIDE DEF state
<1>3. Moves(r) /\ Alone' /\ req'[r] = state /\ req[r].about = {} /\ halted' = halted
    BY <1>1, <1>2, BeginMoves
<1>4. Shape(r)'
    BY <1>1, <1>3 DEF Shape, RelPhases, Dropping
<1>5. Tables'
    BY TablesTyped DEF RemoveUserFromTenant, Tables
<1>. QED  BY <1>1, <1>3, <1>4, <1>5 DEF Orderly, RemoveUserFromTenant

(* Request r is done.                                                      *)
LEMMA FinishMoves ==
    ASSUME TypeOK, Shapes, Alone, NEW r \in Requests, Finish(r), Tables'
    PROVE  /\ Orderly(r) /\ req'[r].phase = "idle" /\ req'[r].about = {}
           /\ crossed' = crossed /\ halted' = halted
<1>1. Moves(r) /\ Alone' /\ req'[r] = Idle /\ crossed' = crossed /\ halted' = halted
    BY Finishes
<1>2. Shape(r)'
    BY <1>1, IdleFields DEF Shape, RelPhases, Dropping
<1>. QED  BY <1>1, <1>2, IdleFields DEF Orderly

(* One relation of a user is written.                                      *)
LEMMA RelWritten ==
    ASSUME TypeOK, NEW u \in Users, NEW t \in Tenants, NEW type \in Relations,
           rels' = [rels EXCEPT ![u][t] = type]
    PROVE  /\ rels' \in [Users -> [Tenants -> Relations]]
           /\ rels'[u][t] = type
           /\ \A s \in Tenants \ {t} : rels'[u][s] = rels[u][s]
           /\ \A v \in Users \ {u} : rels'[v] = rels[v]
BY DEF TypeOK

LEMMA InsertRelMoves ==
    ASSUME TypeOK, Shapes, Alone, NEW r \in Requests, InsertRel(r)
    PROVE  /\ Orderly(r) /\ holds' = holds
           /\ req'[r].phase = "idle" /\ req'[r].about = {} /\ crossed' = crossed /\ halted' = halted
           /\ \A v \in Users \ {UserOf(r)} : rels'[v] = rels[v]
           /\ rels[UserOf(r)][req[r].tenant] # "none" => rels' = rels
           /\ rels[UserOf(r)][req[r].tenant] = "none" =>
                  /\ rels'[UserOf(r)][req[r].tenant] = req[r].type
                  /\ \A s \in Tenants \ {req[r].tenant} : rels'[UserOf(r)][s] = rels[UserOf(r)][s]
<1>. DEFINE u == UserOf(r)
            t == req[r].tenant
<1>1. u \in Users
    BY UserOfRequest DEF InsertRel, RelPhases
<1>2. t \in Tenants /\ req[r].type \in Relations
    BY DEF TypeOK, ReqStates
<1>3. rels' = IF rels[u][t] = "none" THEN [rels EXCEPT ![u][t] = req[r].type] ELSE rels
    BY DEF InsertRel
<1>. HIDE DEF u, t
<1>4. /\ rels' \in [Users -> [Tenants -> Relations]]
      /\ \A v \in Users \ {u} : rels'[v] = rels[v]
      /\ rels[u][t] # "none" => rels' = rels
      /\ rels[u][t] = "none" =>
             rels'[u][t] = req[r].type /\ \A s \in Tenants \ {t} : rels'[u][s] = rels[u][s]
    BY <1>1, <1>2, <1>3, RelWritten DEF TypeOK
<1>5. Tables'
    BY <1>4, TablesTyped DEF InsertRel, Tables
<1>6. Finish(r) /\ holds' = holds
    BY DEF InsertRel
<1>. QED  BY <1>4, <1>5, <1>6, FinishMoves DEF u, t

LEMMA PromoteMoves ==
    ASSUME TypeOK, Shapes, Alone, NEW r \in Requests, Promote(r)
    PROVE  /\ Orderly(r) /\ holds' = holds
           /\ req'[r].phase = "demote" /\ req'[r].about = req[r].about
           /\ req'[r].tenant = req[r].tenant /\ req'[r].old = req[r].old
           /\ crossed' = crossed /\ halted' = halted
           /\ \A v \in Users \ {UserOf(r)} : rels'[v] = rels[v]
           /\ rels[UserOf(r)][req[r].tenant] # "none" =>
                  /\ rels'[UserOf(r)][req[r].tenant] = "PRIMARY"
                  /\ \A s \in Tenants \ {req[r].tenant} : rels'[UserOf(r)][s] = rels[UserOf(r)][s]
<1>. DEFINE u == UserOf(r)
            t == req[r].tenant
            state == [req[r] EXCEPT !.phase = "demote"]
<1>1. u \in Users /\ req[r].about = {u}
    BY UserOfRequest DEF Promote, RelPhases
<1>2. t \in Tenants /\ req[r] \in ReqStates
    BY DEF TypeOK, ReqStates
<1>3. rels' = IF rels[u][t] = "none" THEN rels ELSE [rels EXCEPT ![u][t] = "PRIMARY"]
    BY DEF Promote, Written
<1>4. /\ state \in ReqStates
      /\ state.phase = "demote" /\ state.about = req[r].about
      /\ state.tenant = req[r].tenant /\ state.old = req[r].old
    BY <1>2 DEF ReqStates, Phases
<1>5. Become(r, state) /\ holds' = holds
    BY DEF Promote
<1>. HIDE DEF u, t, state
<1>6. Moves(r) /\ Alone' /\ req'[r] = state /\ crossed' = crossed /\ halted' = halted
    BY <1>4, <1>5, Becomes
<1>7. Shape(r)'
    BY <1>1, <1>4, <1>6 DEF Shape, RelPhases, Dropping
<1>8. /\ rels' \in [Users -> [Tenants -> Relations]]
      /\ \A v \in Users \ {u} : rels'[v] = rels[v]
      /\ rels[u][t] # "none" =>
             rels'[u][t] = "PRIMARY" /\ \A s \in Tenants \ {t} : rels'[u][s] = rels[u][s]
    BY <1>1, <1>2, <1>3, RelWritten DEF TypeOK, Relations
<1>9. Tables'
    BY <1>8, TablesTyped DEF Promote, Tables
<1>. QED  BY <1>4, <1>5, <1>6, <1>7, <1>8, <1>9 DEF u, t, Orderly

LEMMA DemoteMoves ==
    ASSUME TypeOK, Shapes, Alone, NEW r \in Requests, Demote(r)
    PROVE  /\ Orderly(r) /\ holds' = holds
           /\ req'[r].phase = "idle" /\ req'[r].about = {} /\ crossed' = crossed /\ halted' = halted
           /\ \A v \in Users \ {UserOf(r)} : rels'[v] = rels[v]
           /\ rels'[UserOf(r)][req[r].old] # "PRIMARY"
           /\ \A s \in Tenants : rels'[UserOf(r)][s] = "none" <=> rels[UserOf(r)][s] = "none"
           /\ \A s \in Tenants \ {req[r].old} : rels'[UserOf(r)][s] = rels[UserOf(r)][s]
<1>. DEFINE u == UserOf(r)
            t == req[r].old
<1>1. u \in Users
    BY UserOfRequest DEF Demote, RelPhases
<1>2. t \in Tenants
    BY DEF TypeOK, ReqStates
<1>3. rels' = IF rels[u][t] = "none" THEN rels ELSE [rels EXCEPT ![u][t] = "GUEST"]
    BY DEF Demote, Written
<1>. HIDE DEF u, t
<1>4. /\ rels' \in [Users -> [Tenants -> Relations]]
      /\ \A v \in Users \ {u} : rels'[v] = rels[v]
      /\ rels'[u][t] # "PRIMARY"
      /\ \A s \in Tenants : rels'[u][s] = "none" <=> rels[u][s] = "none"
      /\ \A s \in Tenants \ {t} : rels'[u][s] = rels[u][s]
    BY <1>1, <1>2, <1>3, RelWritten DEF TypeOK, Relations
<1>5. Tables'
    BY <1>4, TablesTyped DEF Demote, Tables
<1>6. Finish(r) /\ holds' = holds
    BY DEF Demote
<1>. QED  BY <1>4, <1>5, <1>6, FinishMoves DEF u, t

LEMMA DeleteRelMoves ==
    ASSUME TypeOK, Shapes, Alone, NEW r \in Requests, DeleteRel(r)
    PROVE  /\ Orderly(r) /\ holds' = holds
           /\ \/ req'[r].phase = "idle" /\ req'[r].about = {} /\ req[r].tenant # Home
              \/ req'[r].phase = "collect" /\ req'[r].about = req[r].about /\ req'[r].kind = 1
           /\ crossed' = crossed /\ halted' = halted
           /\ \A v \in Users \ {UserOf(r)} : rels'[v] = rels[v]
           /\ rels'[UserOf(r)][req[r].tenant] = "none"
           /\ \A s \in Tenants \ {req[r].tenant} : rels'[UserOf(r)][s] = rels[UserOf(r)][s]
<1>. DEFINE u == UserOf(r)
            t == req[r].tenant
            state == [req[r] EXCEPT !.phase = "collect"]
<1>1. u \in Users /\ req[r].about = {u} /\ req[r].phase = "deleteRel"
    BY UserOfRequest DEF DeleteRel, RelPhases
<1>2. t \in Tenants /\ req[r] \in ReqStates /\ req[r].kind = 1
    BY <1>1 DEF TypeOK, ReqStates, Shapes, Shape
<1>3. rels' = [rels EXCEPT ![u][t] = "none"] /\ holds' = holds
    BY DEF DeleteRel
<1>4. /\ state \in ReqStates
      /\ state.phase = "collect" /\ state.about = req[r].about /\ state.kind = 1
    BY <1>2 DEF ReqStates, Phases
<1>5. IF t = Home THEN Become(r, state) ELSE Finish(r)
    BY DEF DeleteRel
<1>. HIDE DEF u, t, state
<1>6. /\ rels' \in [Users -> [Tenants -> Relations]]
      /\ \A v \in Users \ {u} : rels'[v] = rels[v]
      /\ rels'[u][t] = "none" /\ \A s \in Tenants \ {t} : rels'[u][s] = rels[u][s]
    BY <1>1, <1>2, <1>3, RelWritten DEF Relations
<1>7. Tables'
    BY <1>6, TablesTyped DEF DeleteRel, Tables
<1>8. CASE t = Home
    <2>1. Moves(r) /\ Alone' /\ req'[r] = state /\ crossed' = crossed /\ halted' = halted
        BY <1>4, <1>5, <1>8, Becomes
    <2>2. Shape(r)'
        BY <1>1, <1>4, <2>1 DEF Shape, RelPhases, Dropping
    <2>. QED  BY <1>3, <1>4, <1>6, <1>7, <2>1, <2>2 DEF u, t, Orderly
<1>9. CASE t # Home
    BY <1>3, <1>5, <1>6, <1>7, <1>9, FinishMoves DEF u, t
<1>. QED  BY <1>8, <1>9

(* Rows of a holder are deleted.                                           *)
LEMMA RowsDeleted ==
    ASSUME TypeOK, holds' \subseteq holds, rels' = rels, available' = available,
           default' = default, sweeping' = sweeping, mishaps' = mishaps
    PROVE  Tables'
BY TablesTyped DEF Tables

LEMMA CollectMoves ==
    ASSUME TypeOK, Shapes, Alone, NEW r \in Requests, Collect(r)
    PROVE  /\ Orderly(r) /\ holds' = holds /\ rels' = rels
           /\ crossed' = crossed /\ halted' = halted
           /\ LET found == Listed(UserOf(r), req[r].kind)
              IN \/ /\ req'[r].phase = "discard" /\ req'[r].todo = found
                    /\ req'[r].kind = req[r].kind /\ req'[r].about = req[r].about
                 \/ /\ found = {} /\ req[r].kind = 4
                    /\ req'[r].phase = "idle" /\ req'[r].about = {}
                 \/ /\ found = {} /\ req'[r].phase = "collect" /\ req[r].kind # 4
                    /\ req'[r].kind = req[r].kind + 1 /\ req'[r].about = req[r].about
<1>. DEFINE found == Listed(UserOf(r), req[r].kind)
            k == req[r].kind
            discarding == [req[r] EXCEPT !.phase = "discard", !.todo = found]
            further == [req[r] EXCEPT !.kind = k + 1]
<1>1. /\ req[r] \in ReqStates /\ req[r].phase = "collect" /\ k \in 1 .. 4
      /\ \E u \in Users : req[r].about = {u}
    BY Kinds DEF Collect, TypeOK, ReqStates, Shapes, Shape, RelPhases
<1>2. found \subseteq Kind[k] /\ found \subseteq Things
    BY <1>1, Kinds DEF Listed
<1>3. Tables'
    BY TablesTyped DEF Collect, Tables
<1>4. rels' = rels /\ holds' = holds
    BY DEF Collect
<1>5. IF found # {} THEN Become(r, discarding)
      ELSE IF k = 4 THEN Finish(r) ELSE Become(r, further)
    BY Kinds DEF Collect, LastKind
<1>6. CASE found # {}
    <2>1. /\ discarding \in ReqStates
          /\ discarding.phase = "discard" /\ discarding.todo = found
          /\ discarding.kind = k /\ discarding.about = req[r].about
        <3>. HIDE DEF found
        <3>. QED  BY <1>1, <1>2 DEF ReqStates, Phases
    <2>. HIDE DEF discarding, found, k
    <2>2. Moves(r) /\ Alone' /\ req'[r] = discarding /\ crossed' = crossed /\ halted' = halted
        BY <1>5, <1>6, <2>1, Becomes
    <2>3. Shape(r)'
        BY <1>1, <1>2, <2>1, <2>2 DEF Shape, RelPhases, Dropping, k
    <2>. QED  BY <1>3, <1>4, <2>1, <2>2, <2>3 DEF Orderly, found, k
<1>7. CASE found = {} /\ k = 4
    BY <1>3, <1>4, <1>5, <1>7, FinishMoves
<1>8. CASE found = {} /\ k # 4
    <2>1. /\ further \in ReqStates
          /\ further.phase = "collect" /\ further.kind = k + 1 /\ further.about = req[r].about
        BY <1>1, <1>8, Kinds DEF ReqStates
    <2>. HIDE DEF further, found, k
    <2>2. Moves(r) /\ Alone' /\ req'[r] = further /\ crossed' = crossed /\ halted' = halted
        BY <1>5, <1>8, <2>1, Becomes
    <2>3. Shape(r)'
        BY <1>1, <2>1, <2>2 DEF Shape, RelPhases, Dropping
    <2>. QED  BY <1>3, <1>4, <1>8, <2>1, <2>2, <2>3 DEF Orderly, found, k
<1>. QED  BY <1>6, <1>7, <1>8

LEMMA DiscardMoves ==
    ASSUME TypeOK, Shapes, Alone, NEW r \in Requests, Discard(r)
    PROVE  /\ Orderly(r) /\ rels' = rels /\ crossed' = crossed /\ halted' = halted
           /\ \E x \in req[r].todo :
                 /\ holds' = holds \ {<<UserOf(r), x>>}
                 /\ \/ /\ req'[r].phase = "discard" /\ req'[r].todo = req[r].todo \ {x}
                       /\ req'[r].kind = req[r].kind /\ req'[r].about = req[r].about
                    \/ /\ req[r].todo = {x} /\ req[r].kind = 4
                       /\ req'[r].phase = "idle" /\ req'[r].about = {}
                    \/ /\ req[r].todo = {x} /\ req'[r].phase = "collect" /\ req[r].kind # 4
                       /\ req'[r].kind = req[r].kind + 1 /\ req'[r].about = req[r].about
<1>1. /\ req[r] \in ReqStates /\ req[r].phase = "discard" /\ req[r].kind \in 1 .. 4
      /\ req[r].todo \subseteq Kind[req[r].kind]
      /\ \E u \in Users : req[r].about = {u}
    BY Kinds DEF Discard, TypeOK, ReqStates, Shapes, Shape, RelPhases
<1>2. PICK x \in req[r].todo :
          /\ holds' = holds \ {<<UserOf(r), x>>}
          /\ IF req[r].todo # {x}
             THEN Become(r, [req[r] EXCEPT !.todo = req[r].todo \ {x}])
             ELSE IF LastKind(req[r].kind)
             THEN Finish(r)
             ELSE Become(r, [req[r] EXCEPT !.phase = "collect", !.todo = {},
                                           !.kind = req[r].kind + 1])
    BY DEF Discard
<1>3. rels' = rels /\ Tables'
    BY <1>2, RowsDeleted DEF Discard
<1>. DEFINE less == [req[r] EXCEPT !.todo = req[r].todo \ {x}]
            further == [req[r] EXCEPT !.phase = "collect", !.todo = {}, !.kind = req[r].kind + 1]
<1>4. CASE req[r].todo # {x}
    <2>1. /\ less \in ReqStates
          /\ less.phase = "discard" /\ less.todo = req[r].todo \ {x}
          /\ less.kind = req[r].kind /\ less.about = req[r].about
        BY <1>1 DEF ReqStates
    <2>2. Become(r, less)
        BY <1>2, <1>4
    <2>. HIDE DEF less
    <2>3. Moves(r) /\ Alone' /\ req'[r] = less /\ crossed' = crossed /\ halted' = halted
        BY <2>1, <2>2, Becomes
    <2>4. Shape(r)'
        BY <1>1, <2>1, <2>3 DEF Shape, RelPhases, Dropping
    <2>. QED  BY <1>2, <1>3, <2>1, <2>3, <2>4 DEF Orderly
<1>5. CASE req[r].todo = {x} /\ req[r].kind = 4
    <2>1. Finish(r)
        BY <1>2, <1>5, Kinds DEF LastKind
    <2>. QED  BY <1>2, <1>3, <1>5, <2>1, FinishMoves
<1>6. CASE req[r].todo = {x} /\ req[r].kind # 4
    <2>0. /\ req[r].kind + 1 \in DOMAIN Kind /\ {} \in SUBSET Things
          /\ "collect" \in Phases
        BY <1>1, <1>6, Kinds DEF Phases
    <2>1. /\ further \in ReqStates
          /\ further.phase = "collect" /\ further.kind = req[r].kind + 1
          /\ further.about = req[r].about
        BY <1>1, <2>0 DEF ReqStates
    <2>2. Become(r, further)
        BY <1>2, <1>6, Kinds DEF LastKind
    <2>. HIDE DEF further
    <2>3. Moves(r) /\ Alone' /\ req'[r] = further /\ crossed' = crossed /\ halted' = halted
        BY <2>1, <2>2, Becomes
    <2>4. Shape(r)'
        BY <1>1, <2>1, <2>3 DEF Shape, RelPhases, Dropping
    <2>. QED  BY <1>2, <1>3, <1>6, <2>1, <2>3, <2>4 DEF Orderly
<1>. QED  BY <1>4, <1>5, <1>6

-----------------------------------------------------------------------------
(* Requests that give things to holders.                                   *)

LEMMA GiveMoves ==
    ASSUME TypeOK, Shapes, Alone, NEW r \in Requests, NEW h \in Holders,
           NEW S \in SUBSET (Scopes \cup Groups), h \notin S,
           S \subseteq Scopes \/ \E g \in Groups : S = {g},
           Begin(r, [Idle EXCEPT !.phase = "insert", !.about = {h} \cup S, !.todo = S]),
           UNCHANGED <<rels, available, holds, default, sweeping, mishaps>>
    PROVE  /\ Orderly(r) /\ rels' = rels /\ holds' = holds
           /\ req'[r].phase = "insert" /\ req'[r].about = {h} \cup S /\ req'[r].todo = S
           /\ req[r].about = {} /\ halted' = halted
<1>. DEFINE state == [Idle EXCEPT !.phase = "insert", !.about = {h} \cup S, !.todo = S]
<1>1. /\ state \in ReqStates
      /\ state.phase = "insert" /\ state.about = {h} \cup S /\ state.todo = S
    BY IdleFields DEF ReqStates, Phases, Things
<1>. HIDE DEF state
<1>2. Moves(r) /\ Alone' /\ req'[r] = state /\ req[r].about = {} /\ halted' = halted
    BY <1>1, BeginMoves DEF state
<1>3. Shape(r)'
    BY <1>1, <1>2 DEF Shape, RelPhases, Dropping
<1>4. Tables'
    BY TablesTyped DEF Tables
<1>. QED  BY <1>1, <1>2, <1>3, <1>4 DEF Orderly

LEMMA AssignScopesMoves ==
    ASSUME TypeOK, Shapes, Alone, NEW r \in Requests, NEW h \in Holders,
           NEW S \in SUBSET Scopes, NEW bulk, AssignScopes(r, h, S, bulk)
    PROVE  /\ Orderly(r) /\ rels' = rels /\ holds' = holds
           /\ req'[r].phase = "insert" /\ req'[r].about = {h} \cup S /\ req'[r].todo = S
           /\ req[r].about = {} /\ halted' = halted
           /\ h \in Users => Member(h)
<1>1. S \in SUBSET (Scopes \cup Groups) /\ h \notin S
    BY ConstantsOk DEF Holders, Groups
<1>2. h \in Users => Member(h)
    BY DEF AssignScopes, MayAssign
<1>. QED  BY <1>1, <1>2, GiveMoves DEF AssignScopes

LEMMA AddUserMoves ==
    ASSUME TypeOK, Shapes, Alone, NEW r \in Requests, NEW u \in Users, NEW g \in Groups,
           AddUserToGroup(r, u, g)
    PROVE  /\ Orderly(r) /\ rels' = rels /\ holds' = holds
           /\ req'[r].phase = "insert" /\ req'[r].about = {u, g} /\ req'[r].todo = {g}
           /\ req[r].about = {} /\ halted' = halted
           /\ Member(u) /\ g \notin default
<1>1. {g} \in SUBSET (Scopes \cup Groups) /\ u \notin {g} /\ {u, g} = {u} \cup {g} /\ u \in Holders
    BY ConstantsOk DEF Holders, Groups
<1>2. Begin(r, [Idle EXCEPT !.phase = "insert", !.about = {u} \cup {g}, !.todo = {g}])
    BY <1>1 DEF AddUserToGroup
<1>. QED  BY <1>1, <1>2, GiveMoves DEF AddUserToGroup, MayJoin

LEMMA InsertMoves ==
    ASSUME TypeOK, Shapes, Alone, NEW r \in Requests, Insert(r)
    PROVE  /\ Orderly(r) /\ rels' = rels /\ crossed' = crossed /\ halted' = halted
           /\ \/ req'[r].phase = "idle" /\ req'[r].about = {}
              \/ /\ req'[r].phase = "insert" /\ req'[r].about = req[r].about
                 /\ req'[r].todo \subseteq req[r].todo
           /\ holds \subseteq holds'
           /\ \A row \in holds' \ holds :
                 row[1] = HolderOf(r) /\ row[2] \in req[r].todo /\ row = <<row[1], row[2]>>
<1>. DEFINE h == HolderOf(r)
<1>1. /\ req[r] \in ReqStates /\ req[r].phase = "insert"
      /\ h \in Holders /\ h \in req[r].about /\ h \notin req[r].todo
      /\ req[r].about \ req[r].todo \subseteq {h} \cup Scopes
      /\ req[r].todo \subseteq req[r].about \cap (Scopes \cup Groups)
      /\ req[r].todo \subseteq Scopes \/ \E g \in Groups : req[r].todo = {g}
    BY HolderOfRequest DEF Insert, TypeOK
<1>2. PICK x \in req[r].todo :
          IF <<h, x>> \in holds \/ x \in Scopes \ available
          THEN Finish(r) /\ UNCHANGED holds
          ELSE /\ holds' = holds \cup {<<h, x>>}
               /\ IF req[r].todo = {x} THEN Finish(r)
                  ELSE Become(r, [req[r] EXCEPT !.todo = req[r].todo \ {x}])
    BY DEF Insert
<1>. HIDE DEF h
<1>3. UNCHANGED <<rels, available, default, sweeping, mishaps>>
    BY DEF Insert
<1>4. x \in Things
    BY <1>1 DEF Things
<1>5. /\ Tables' /\ holds \subseteq holds'
      /\ \A row \in holds' \ holds : row = <<h, x>>
    BY <1>1, <1>2, <1>3, <1>4, TablesTyped DEF Tables
<1>6. CASE Finish(r)
    BY <1>3, <1>5, <1>6, FinishMoves DEF h
<1>7. CASE ~Finish(r)
    <2>. DEFINE state == [req[r] EXCEPT !.todo = req[r].todo \ {x}]
    <2>1. /\ state \in ReqStates
          /\ state.phase = "insert" /\ state.about = req[r].about
          /\ state.todo = req[r].todo \ {x}
        BY <1>1 DEF ReqStates
    <2>2. Become(r, state) /\ req[r].todo # {x}
        BY <1>2, <1>7
    <2>. HIDE DEF state
    <2>3. Moves(r) /\ Alone' /\ req'[r] = state /\ crossed' = crossed /\ halted' = halted
        BY <2>1, <2>2, Becomes
    <2>4. req[r].todo \subseteq Scopes /\ x \in Scopes
        BY <1>1, <2>2
    <2>5. Shape(r)'
        BY <1>1, <2>1, <2>3, <2>4 DEF Shape, RelPhases, Dropping
    <2>. QED  BY <1>3, <1>5, <2>1, <2>3, <2>5 DEF Orderly, h
<1>. QED  BY <1>6, <1>7

-----------------------------------------------------------------------------
(* Requests about the scopes of the tenant.                                *)

LEMMA ScopesBegin ==
    ASSUME TypeOK, Shapes, Alone, NEW r \in Requests, NEW S \in SUBSET Scopes,
           NEW phase \in {"makeAvailable", "dropClients"},
           phase = "dropClients" => \E s \in Scopes : S = {s},
           Begin(r, [Idle EXCEPT !.phase = phase, !.about = S, !.todo = S]),
           UNCHANGED <<rels, available, holds, default, sweeping, mishaps>>
    PROVE  /\ Orderly(r) /\ req'[r].phase = phase /\ req'[r].about = S
           /\ req[r].about = {} /\ halted' = halted
<1>. DEFINE state == [Idle EXCEPT !.phase = phase, !.about = S, !.todo = S]
<1>1. /\ state \in ReqStates
      /\ state.phase = phase /\ state.about = S /\ state.todo = S
    BY IdleFields DEF ReqStates, Phases, Things
<1>. HIDE DEF state
<1>2. Moves(r) /\ Alone' /\ req'[r] = state /\ req[r].about = {} /\ halted' = halted
    BY <1>1, BeginMoves DEF state
<1>3. Shape(r)'
    BY <1>1, <1>2 DEF Shape, RelPhases, Dropping
<1>4. Tables'
    BY TablesTyped DEF Tables
<1>. QED  BY <1>1, <1>2, <1>3, <1>4 DEF Orderly

LEMMA MakeAvailableMoves ==
    ASSUME TypeOK, Shapes, Alone, NEW r \in Requests, MakeAvailable(r)
    PROVE  /\ Orderly(r) /\ rels' = rels /\ holds' = holds /\ crossed' = crossed /\ halted' = halted
           /\ \/ req'[r].phase = "idle" /\ req'[r].about = {}
              \/ req'[r].phase = "makeAvailable" /\ req'[r].about = req[r].about
<1>1. /\ req[r] \in ReqStates /\ req[r].phase = "makeAvailable"
      /\ req[r].about \subseteq Scopes /\ req[r].todo \subseteq Scopes
    BY DEF MakeAvailable, TypeOK, Shapes, Shape
<1>2. PICK s \in req[r].todo :
          IF s \in available
          THEN Finish(r) /\ UNCHANGED available
          ELSE /\ available' = available \cup {s}
               /\ IF req[r].todo = {s} THEN Finish(r)
                  ELSE Become(r, [req[r] EXCEPT !.todo = req[r].todo \ {s}])
    BY DEF MakeAvailable
<1>3. UNCHANGED <<rels, holds, default, sweeping, mishaps>>
    BY DEF MakeAvailable
<1>4. Tables'
    BY <1>1, <1>2, <1>3, TablesTyped DEF Tables
<1>5. CASE Finish(r)
    BY <1>3, <1>4, <1>5, FinishMoves
<1>6. CASE ~Finish(r)
    <2>. DEFINE state == [req[r] EXCEPT !.todo = req[r].todo \ {s}]
    <2>1. /\ state \in ReqStates
          /\ state.phase = "makeAvailable" /\ state.about = req[r].about
          /\ state.todo = req[r].todo \ {s}
        BY <1>1 DEF ReqStates
    <2>2. Become(r, state)
        BY <1>2, <1>6
    <2>. HIDE DEF state
    <2>3. Moves(r) /\ Alone' /\ req'[r] = state /\ crossed' = crossed /\ halted' = halted
        BY <2>1, <2>2, Becomes
    <2>4. Shape(r)'
        BY <1>1, <2>1, <2>3 DEF Shape, RelPhases, Dropping
    <2>. QED  BY <1>3, <1>4, <2>1, <2>3, <2>4 DEF Orderly
<1>. QED  BY <1>5, <1>6

LEMMA DropRowsMoves ==
    ASSUME TypeOK, Shapes, Alone, NEW r \in Requests, DropRows(r)
    PROVE  /\ Orderly(r) /\ rels' = rels /\ crossed' = crossed /\ halted' = halted
           /\ req'[r].about = req[r].about /\ req'[r].todo = req[r].todo
           /\ holds' = holds \ (Dropped(req[r].phase) \X req[r].todo)
           /\ \/ req[r].phase = "dropClients" /\ req'[r].phase = "dropGroups"
              \/ req[r].phase = "dropGroups" /\ req'[r].phase = "dropUsers"
              \/ req[r].phase = "dropUsers" /\ req'[r].phase = "dropScope"
<1>. DEFINE next == AfterDrop(req[r].phase)
            state == [req[r] EXCEPT !.phase = next]
<1>1. /\ req[r] \in ReqStates /\ req[r].phase \in {"dropClients", "dropGroups", "dropUsers"}
      /\ \E s \in Scopes : req[r].about = {s} /\ req[r].todo = {s}
    BY DEF DropRows, TypeOK, Shapes, Shape, Dropping
<1>2. \/ req[r].phase = "dropClients" /\ next = "dropGroups"
      \/ req[r].phase = "dropGroups" /\ next = "dropUsers"
      \/ req[r].phase = "dropUsers" /\ next = "dropScope"
    BY <1>1 DEF AfterDrop
<1>3. Become(r, state) /\ UNCHANGED <<rels, available, default, sweeping, mishaps>>
      /\ holds' = holds \ (Dropped(req[r].phase) \X req[r].todo)
    BY DEF DropRows
<1>4. holds' \subseteq holds
    BY <1>3
<1>. HIDE DEF next
<1>5. /\ state \in ReqStates /\ state.phase = next
      /\ state.about = req[r].about /\ state.todo = req[r].todo
    BY <1>1, <1>2 DEF ReqStates, Phases
<1>. HIDE DEF state
<1>6. Moves(r) /\ Alone' /\ req'[r] = state /\ crossed' = crossed /\ halted' = halted
    BY <1>3, <1>5, Becomes
<1>7. Shape(r)'
    BY <1>1, <1>2, <1>5, <1>6 DEF Shape, RelPhases, Dropping
<1>8. Tables'
    BY <1>3, <1>4, RowsDeleted
<1>. QED  BY <1>2, <1>3, <1>5, <1>6, <1>7, <1>8 DEF Orderly

LEMMA DropScopeMoves ==
    ASSUME TypeOK, Shapes, Alone, NEW r \in Requests, DropScope(r)
    PROVE  /\ Orderly(r) /\ rels' = rels /\ holds' = holds /\ crossed' = crossed /\ halted' = halted
           /\ req'[r].phase = "idle" /\ req'[r].about = {}
<1>1. available' = available \ {s \in req[r].todo : ~Held(s)}
      /\ UNCHANGED <<rels, holds, default, sweeping, mishaps>> /\ Finish(r)
    BY DEF DropScope
<1>2. ASSUME NEW row \in holds, row[2] \in Scopes
      PROVE  Held(row[2])
    <2>1. PICK h \in Holders, x \in Things : row = <<h, x>>
        BY <1>2, TablesTyped DEF Tables
    <2>. QED  BY <1>2, <2>1 DEF Held
<1>3. Tables'
    BY <1>1, <1>2, TablesTyped DEF Tables
<1>. QED  BY <1>1, <1>3, FinishMoves

-----------------------------------------------------------------------------
(* Requests about groups.                                                  *)

LEMMA UpdateGroupMoves ==
    ASSUME TypeOK, Shapes, Alone, NEW r \in Requests, NEW g \in Groups, NEW flag \in BOOLEAN,
           UpdateGroup(r, g, flag)
    PROVE  /\ Orderly(r) /\ rels' = rels /\ holds' = holds /\ default' = default /\ sweeping' = sweeping
           /\ req'[r].phase = "updateGroup" /\ req'[r].about = {g}
           /\ req'[r].flag => req'[r].todo = {g} \/ g \in default
           /\ req[r].about = {} /\ halted' = halted
<1>. DEFINE swept == IF Begins(g, flag) THEN {g} ELSE {}
            state == [Idle EXCEPT !.phase = "updateGroup", !.about = {g}, !.todo = swept, !.flag = flag]
<1>1. swept \subseteq {g} /\ (flag => swept = {g} \/ g \in default)
    BY DEF Begins
<1>2. Begin(r, state) /\ UNCHANGED <<rels, available, holds, default, sweeping, mishaps>>
    BY DEF UpdateGroup
<1>. HIDE DEF swept
<1>3. /\ state \in ReqStates
      /\ state.phase = "updateGroup" /\ state.about = {g} /\ state.todo = swept /\ state.flag = flag
    BY <1>1, IdleFields DEF ReqStates, Phases, Things
<1>. HIDE DEF state
<1>4. Moves(r) /\ Alone' /\ req'[r] = state /\ req[r].about = {} /\ halted' = halted
    BY <1>2, <1>3, BeginMoves
<1>5. Shape(r)'
    BY <1>1, <1>3, <1>4 DEF Shape, RelPhases, Dropping
<1>6. Tables'
    BY <1>2, TablesTyped DEF Tables
<1>. QED  BY <1>1, <1>2, <1>3, <1>4, <1>5, <1>6 DEF Orderly

LEMMA WriteGroupMoves ==
    ASSUME TypeOK, Shapes, Alone, NEW r \in Requests, WriteGroup(r)
    PROVE  /\ Orderly(r) /\ rels' = rels /\ holds' = holds /\ crossed' = crossed /\ halted' = halted
           /\ req'[r].phase = "idle" /\ req'[r].about = {}
           /\ default' = IF req[r].flag THEN default \cup req[r].about ELSE default \ req[r].about
           /\ sweeping' = sweeping \cup req[r].todo
           /\ \E g \in Groups : req[r].about = {g} /\ req[r].todo \subseteq {g}
<1>1. \E g \in Groups : req[r].about = {g} /\ req[r].todo \subseteq {g}
    BY DEF WriteGroup, Shapes, Shape
<1>2. Tables'
    BY <1>1, TablesTyped DEF WriteGroup, Tables
<1>. QED  BY <1>1, <1>2, FinishMoves DEF WriteGroup

-----------------------------------------------------------------------------
(* Requests that die, and what nobody waits for.                           *)

LEMMA DieMoves ==
    ASSUME TypeOK, Shapes, Alone, NEW r \in Requests, Die(r)
    PROVE  /\ Orderly(r) /\ rels' = rels /\ holds' = holds /\ default' = default /\ sweeping' = sweeping
           /\ req'[r].phase = "idle" /\ req'[r].about = {}
           /\ crossed' = crossed /\ halted' = halted \cup req[r].about
<1>1. /\ req' = [req EXCEPT ![r] = Idle] /\ halted' = halted \cup req[r].about
      /\ UNCHANGED <<rels, available, holds, default, sweeping, crossed>>
    BY DEF Die
<1>2. /\ req'[r] = Idle /\ req' \in [Requests -> ReqStates]
      /\ \A q \in Requests \ {r} : req'[q] = req[q]
    BY <1>1, IdleFields DEF TypeOK
<1>3. req[r].about \subseteq Holders \cup Groups \cup Scopes
    BY DEF TypeOK, ReqStates
<1>4. Moves(r)
    BY <1>1, <1>2, <1>3 DEF Moves, TypeOK
<1>5. Alone'
    BY <1>1, <1>2, IdleFields DEF Alone
<1>6. Shape(r)'
    BY <1>2, IdleFields DEF Shape, RelPhases, Dropping
<1>7. mishaps' \in 0 .. MaxMishaps
    BY ConstantsOk DEF Die, Mishap, TypeOK
<1>8. Tables'
    BY <1>1, <1>7, TablesTyped DEF Tables
<1>. QED  BY <1>1, <1>2, <1>4, <1>5, <1>6, <1>8, IdleFields DEF Orderly

(* The steps of nobody's request.                                          *)
Aside ==
    /\ Tables'
    /\ req' = req /\ rels' = rels /\ crossed' = crossed /\ default' = default
    /\ halted \subseteq halted' /\ halted' \subseteq Holders \cup Groups \cup Scopes
    /\ \A u \in Users, x \in Groups \cup Scopes : <<u, x>> \in holds' => <<u, x>> \in holds
    /\ \A h \in Holders, s \in Scopes : <<h, s>> \in holds' => <<h, s>> \in holds
    /\ \A g \in Groups \ halted' :
          \/ g \in sweeping => g \in sweeping'
          \/ \A u \in Users : <<u, g>> \notin holds'

LEMMA AsideSteps ==
    ASSUME TypeOK,
           \/ \E row \in holds : TakeAway(row[1], row[2])
           \/ \E u \in Users : SaveRefreshToken(u)
           \/ \E g \in Groups : Sweep(g) \/ LoseSweep(g)
    PROVE  Aside
<1>1. ASSUME NEW row \in holds, TakeAway(row[1], row[2])
      PROVE  Aside
    <2>1. /\ holds' \subseteq holds
          /\ UNCHANGED <<rels, available, default, sweeping, req, mishaps, crossed, halted>>
        BY <1>1 DEF TakeAway, history
    <2>. QED  BY <2>1, RowsDeleted DEF Aside, TypeOK
<1>2. ASSUME NEW u \in Users, SaveRefreshToken(u)
      PROVE  Aside
    <2>1. /\ holds' = holds \cup {<<u, RefreshToken>>}
          /\ UNCHANGED <<rels, available, default, sweeping, req, mishaps, crossed, halted>>
        BY <1>2 DEF SaveRefreshToken, history
    <2>2. u \in Holders /\ RefreshToken \in Things /\ RefreshToken \notin Groups \cup Scopes
        BY ConstantsOk DEF Holders, Things
    <2>3. Tables'
        BY <2>1, <2>2, TablesTyped DEF Tables
    <2>. QED  BY <2>1, <2>2, <2>3 DEF Aside, TypeOK
<1>3. ASSUME NEW g \in Groups, Sweep(g)
      PROVE  Aside
    <2>1. UNCHANGED <<rels, available, default, req, mishaps, crossed, halted>>
        BY <1>3 DEF Sweep, history
    <2>2. \/ holds' \subseteq holds /\ sweeping' = sweeping
          \/ /\ holds' = holds /\ sweeping' = sweeping \ {g}
             /\ \A u \in Users : <<u, g>> \notin holds
        BY <1>3 DEF Sweep
    <2>3. Tables'
        BY <2>1, <2>2, TablesTyped DEF Tables
    <2>. QED  BY <2>1, <2>2, <2>3 DEF Aside, TypeOK
<1>4. ASSUME NEW g \in Groups, LoseSweep(g)
      PROVE  Aside
    <2>1. /\ sweeping' = sweeping \ {g} /\ halted' = halted \cup {g}
          /\ UNCHANGED <<rels, available, holds, default, req, crossed>>
        BY <1>4 DEF LoseSweep
    <2>2. mishaps' \in 0 .. MaxMishaps
        BY <1>4, ConstantsOk DEF LoseSweep, Mishap, TypeOK
    <2>3. Tables'
        BY <2>1, <2>2, TablesTyped DEF Tables
    <2>. QED  BY <2>1, <2>3 DEF Aside, TypeOK
<1>. QED  BY <1>1, <1>2, <1>3, <1>4

-----------------------------------------------------------------------------
(* Steps in general.                                                       *)

Act(r) == RelateUsers(r) \/ AssignThings(r) \/ ScopesOfTenant(r) \/ UpdateGroups(r) \/ Die(r)

LEMMA ActsAreOrderly ==
    ASSUME TypeOK, Shapes, Alone, NEW r \in Requests, Act(r)
    PROVE  Orderly(r)
<1>1. ASSUME RelateUsers(r)
      PROVE  Orderly(r)
    BY <1>1, AssignMoves, SwapMoves, RemoveMoves, InsertRelMoves, PromoteMoves, DemoteMoves,
       DeleteRelMoves, CollectMoves, DiscardMoves DEF RelateUsers
<1>2. ASSUME AssignThings(r)
      PROVE  Orderly(r)
    <2>1. ASSUME NEW h \in Holders, NEW S \in SUBSET Scopes, NEW bulk, AssignScopes(r, h, S, bulk)
          PROVE  Orderly(r)
        BY <2>1, AssignScopesMoves
    <2>. QED  BY <1>2, <2>1, AddUserMoves, InsertMoves DEF AssignThings
<1>3. ASSUME ScopesOfTenant(r)
      PROVE  Orderly(r)
    <2>1. ASSUME NEW S \in SUBSET Scopes, AssignScopesToTenant(r, S)
          PROVE  Orderly(r)
        BY <2>1, ScopesBegin DEF AssignScopesToTenant
    <2>2. ASSUME NEW s \in Scopes, RemoveScopeFromTenant(r, s)
          PROVE  Orderly(r)
        <3>1. {s} \in SUBSET Scopes
            OBVIOUS
        <3>. QED  BY <2>2, <3>1, ScopesBegin DEF RemoveScopeFromTenant
    <2>. QED  BY <1>3, <2>1, <2>2, MakeAvailableMoves, DropRowsMoves, DropScopeMoves DEF ScopesOfTenant
<1>. QED  BY <1>1, <1>2, <1>3, UpdateGroupMoves, WriteGroupMoves, DieMoves DEF Act, UpdateGroups

LEMMA RelsFrame ==
    ASSUME NEW r \in Requests, Act(r),
           ~InsertRel(r), ~Promote(r), ~Demote(r), ~DeleteRel(r)
    PROVE  rels' = rels
<1>1. ASSUME RelateUsers(r)
      PROVE  rels' = rels
    BY <1>1 DEF RelateUsers, AssignUserToTenant, SwapPrimary, RemoveUserFromTenant, Collect, Discard
<1>2. ASSUME AssignThings(r) \/ ScopesOfTenant(r) \/ UpdateGroups(r) \/ Die(r)
      PROVE  rels' = rels
    BY <1>2 DEF AssignThings, AssignScopes, AddUserToGroup, Insert, ScopesOfTenant,
                AssignScopesToTenant, RemoveScopeFromTenant, MakeAvailable, DropRows, DropScope,
                UpdateGroups, UpdateGroup, WriteGroup, Die
<1>. QED  BY <1>1, <1>2 DEF Act

LEMMA RowsFrame ==
    ASSUME NEW r \in Requests, Act(r), ~Insert(r)
    PROVE  holds' \subseteq holds
<1>1. ASSUME RelateUsers(r)
      PROVE  holds' \subseteq holds
    BY <1>1 DEF RelateUsers, AssignUserToTenant, SwapPrimary, RemoveUserFromTenant, Collect, Discard,
                InsertRel, Promote, Demote, DeleteRel
<1>2. ASSUME AssignThings(r) \/ ScopesOfTenant(r) \/ UpdateGroups(r) \/ Die(r)
      PROVE  holds' \subseteq holds
    BY <1>2 DEF AssignThings, AssignScopes, AddUserToGroup, ScopesOfTenant,
                AssignScopesToTenant, RemoveScopeFromTenant, MakeAvailable, DropRows, DropScope,
                UpdateGroups, UpdateGroup, WriteGroup, Die
<1>. QED  BY <1>1, <1>2 DEF Act

LEMMA GroupsFrame ==
    ASSUME NEW r \in Requests, Act(r), ~WriteGroup(r)
    PROVE  default' = default /\ sweeping' = sweeping
<1>1. ASSUME RelateUsers(r)
      PROVE  default' = default /\ sweeping' = sweeping
    BY <1>1 DEF RelateUsers, AssignUserToTenant, SwapPrimary, RemoveUserFromTenant, Collect, Discard,
                InsertRel, Promote, Demote, DeleteRel
<1>2. ASSUME AssignThings(r) \/ ScopesOfTenant(r) \/ UpdateGroups(r) \/ Die(r)
      PROVE  default' = default /\ sweeping' = sweeping
    BY <1>2 DEF AssignThings, AssignScopes, AddUserToGroup, Insert, ScopesOfTenant,
                AssignScopesToTenant, RemoveScopeFromTenant, MakeAvailable, DropRows, DropScope,
                UpdateGroups, UpdateGroup, Die
<1>. QED  BY <1>1, <1>2 DEF Act

(* Who comes upon an object that is not crossed is alone with it.          *)
LEMMA AloneWith ==
    ASSUME Alone, NEW r \in Requests, Orderly(r), NEW x, x \notin crossed',
           x \in req[r].about \/ x \in req'[r].about
    PROVE  \A q \in Requests \ {r} : x \notin req[q].about /\ x \notin req'[q].about
<1>1. crossed \subseteq crossed' /\ \A q \in Requests \ {r} : req'[q] = req[q]
    BY DEF Orderly, Moves
<1>2. \A q \in Requests \ {r} :
          /\ req[r].about \cap req[q].about \subseteq crossed
          /\ req'[r].about \cap req'[q].about \subseteq crossed'
    BY DEF Alone, Orderly
<1>. QED  BY <1>1, <1>2

-----------------------------------------------------------------------------
(* Users and their relations.                                              *)

LEMMA UserStep ==
    ASSUME Alone, NEW r \in Requests, Orderly(r), NEW u \in Users, u \notin crossed', UserFits(u),
           u \notin req[r].about => rels'[u] = rels[u],
           u \in req[r].about => (Related(u) => Primaries(u) # {})',
           u \in req'[r].about => SeenRels(u, r)'
    PROVE  UserFits(u)'
<1>1. (Related(u) => Primaries(u) # {})'
    BY DEF UserFits, Related, Primaries
<1>2. ASSUME NEW q \in Requests \ {r}, u \in req'[q].about
      PROVE  SeenRels(u, q)'
    <2>1. req'[q] = req[q]
        BY DEF Orderly, Moves
    <2>2. u \notin req[r].about
        BY <1>2, AloneWith
    <2>3. SeenRels(u, q) /\ rels'[u] = rels[u]
        BY <1>2, <2>1, <2>2 DEF UserFits
    <2>. QED  BY <2>1, <2>3 DEF SeenRels, MayRelate, Related, Primaries, Member
<1>. QED  BY <1>1, <1>2 DEF UserFits

LEMMA UserActs ==
    ASSUME IInv, NEW r \in Requests, Act(r), NEW u \in Users, u \notin crossed'
    PROVE  UserFits(u)'
<1>1. TypeOK /\ Shapes /\ Alone /\ Orderly(r) /\ u \notin crossed
    BY ActsAreOrderly DEF IInv, Orderly, Moves
<1>2. UserFits(u)
    BY <1>1 DEF IInv
<1>3. ASSUME rels' = rels, u \in req'[r].about => SeenRels(u, r)'
      PROVE  UserFits(u)'
    <2>1. (Related(u) => Primaries(u) # {})'
        BY <1>2, <1>3 DEF UserFits, Related, Primaries
    <2>. QED  BY <1>1, <1>2, <1>3, <2>1, UserStep
<1>4. ASSUME NEW v \in Users, NEW t \in Tenants, NEW type \in {"PRIMARY", "GUEST"},
             AssignUserToTenant(r, v, t, type)
      PROVE  UserFits(u)'
    <2>1. /\ rels' = rels /\ req'[r].phase = "insertRel" /\ req'[r].about = {v}
          /\ req'[r].tenant = t /\ req'[r].type = type
        BY <1>1, <1>4, AssignMoves
    <2>2. MayRelate(v, t, type)
        BY <1>4 DEF AssignUserToTenant
    <2>. QED  BY <1>3, <2>1, <2>2 DEF SeenRels, MayRelate, Related, Primaries
<1>5. ASSUME NEW v \in Users, NEW t \in Tenants, SwapPrimary(r, v, t)
      PROVE  UserFits(u)'
    <2>1. /\ rels' = rels /\ req'[r].phase = "promote" /\ req'[r].about = {v}
          /\ req'[r].tenant = t /\ req'[r].old \in Primaries(v)
        BY <1>1, <1>5, SwapMoves
    <2>2. rels[v][t] = "GUEST"
        BY <1>5 DEF SwapPrimary
    <2>. QED  BY <1>3, <2>1, <2>2 DEF SeenRels, Primaries
<1>6. ASSUME NEW v \in Users, NEW t \in Tenants, RemoveUserFromTenant(r, v, t)
      PROVE  UserFits(u)'
    <2>1. /\ rels' = rels /\ req'[r].phase = "deleteRel" /\ req'[r].about = {v} /\ req'[r].tenant = t
        BY <1>1, <1>6, RemoveMoves
    <2>2. rels[v][t] = "GUEST"
        BY <1>6 DEF RemoveUserFromTenant
    <2>. QED  BY <1>3, <2>1, <2>2 DEF SeenRels
<1>7. ASSUME InsertRel(r)
      PROVE  UserFits(u)'
    <2>. DEFINE t == req[r].tenant
    <2>1. /\ req[r].phase = "insertRel" /\ req[r].about = {UserOf(r)}
          /\ UserOf(r) \in Users /\ t \in Tenants
        BY <1>1, <1>7, UserOfRequest DEF InsertRel, RelPhases, TypeOK, ReqStates
    <2>2. /\ req'[r].about = {}
          /\ \A v \in Users \ {UserOf(r)} : rels'[v] = rels[v]
          /\ rels[UserOf(r)][t] # "none" => rels' = rels
          /\ rels[UserOf(r)][t] = "none" =>
                 /\ rels'[UserOf(r)][t] = req[r].type
                 /\ \A s \in Tenants \ {t} : rels'[UserOf(r)][s] = rels[UserOf(r)][s]
        BY <1>1, <1>7, InsertRelMoves
    <2>. HIDE DEF t
    <2>3. ASSUME u = UserOf(r)
          PROVE  (Related(u) => Primaries(u) # {})'
        <3>1. MayRelate(u, t, req[r].type)
            BY <1>2, <2>1, <2>3 DEF UserFits, SeenRels, t
        <3>2. CASE rels[u][t] # "none"
            BY <1>2, <2>2, <2>3, <3>2 DEF UserFits, Related, Primaries
        <3>3. CASE rels[u][t] = "none" /\ req[r].type = "PRIMARY"
            BY <2>1, <2>2, <2>3, <3>3 DEF Primaries
        <3>4. CASE rels[u][t] = "none" /\ req[r].type = "GUEST" /\ Primaries(u) # {}
            <4>1. PICK p \in Tenants : rels[u][p] = "PRIMARY"
                BY <3>4 DEF Primaries
            <4>2. rels'[u][p] = "PRIMARY"
                BY <2>2, <2>3, <3>4, <4>1
            <4>. QED  BY <4>2 DEF Primaries
        <3>. QED  BY <3>1, <3>2, <3>3, <3>4 DEF MayRelate
    <2>. QED  BY <1>1, <1>2, <2>1, <2>2, <2>3, UserStep
<1>8. ASSUME Promote(r)
      PROVE  UserFits(u)'
    <2>. DEFINE t == req[r].tenant
    <2>1. /\ req[r].phase = "promote" /\ req[r].about = {UserOf(r)}
          /\ UserOf(r) \in Users /\ t \in Tenants
        BY <1>1, <1>8, UserOfRequest DEF Promote, RelPhases, TypeOK, ReqStates
    <2>2. /\ req'[r].phase = "demote" /\ req'[r].about = req[r].about
          /\ req'[r].tenant = t /\ req'[r].old = req[r].old
          /\ \A v \in Users \ {UserOf(r)} : rels'[v] = rels[v]
          /\ rels[UserOf(r)][t] # "none" => rels'[UserOf(r)][t] = "PRIMARY"
        BY <1>1, <1>8, PromoteMoves
    <2>. HIDE DEF t
    <2>3. ASSUME u = UserOf(r)
          PROVE  rels'[u][t] = "PRIMARY" /\ req[r].old # t
        BY <1>2, <2>1, <2>2, <2>3 DEF UserFits, SeenRels, t
    <2>4. u = UserOf(r) => (Related(u) => Primaries(u) # {})' /\ SeenRels(u, r)'
        BY <2>1, <2>2, <2>3 DEF SeenRels, Primaries
    <2>. QED  BY <1>1, <1>2, <2>1, <2>2, <2>4, UserStep
<1>9. ASSUME Demote(r)
      PROVE  UserFits(u)'
    <2>1. /\ req[r].phase = "demote" /\ req[r].about = {UserOf(r)}
          /\ UserOf(r) \in Users /\ req[r].tenant \in Tenants
        BY <1>1, <1>9, UserOfRequest DEF Demote, RelPhases, TypeOK, ReqStates
    <2>2. /\ req'[r].about = {}
          /\ \A v \in Users \ {UserOf(r)} : rels'[v] = rels[v]
          /\ \A s \in Tenants \ {req[r].old} : rels'[UserOf(r)][s] = rels[UserOf(r)][s]
        BY <1>1, <1>9, DemoteMoves
    <2>3. ASSUME u = UserOf(r)
          PROVE  (Related(u) => Primaries(u) # {})'
        <3>1. rels[u][req[r].tenant] = "PRIMARY" /\ req[r].old # req[r].tenant
            BY <1>2, <2>1, <2>3 DEF UserFits, SeenRels
        <3>2. rels'[u][req[r].tenant] = "PRIMARY"
            BY <2>1, <2>2, <2>3, <3>1
        <3>. QED  BY <2>1, <3>2 DEF Primaries
    <2>. QED  BY <1>1, <1>2, <2>1, <2>2, <2>3, UserStep
<1>10. ASSUME DeleteRel(r)
      PROVE  UserFits(u)'
    <2>. DEFINE t == req[r].tenant
    <2>1. /\ req[r].phase = "deleteRel" /\ req[r].about = {UserOf(r)}
          /\ UserOf(r) \in Users /\ t \in Tenants
        BY <1>1, <1>10, UserOfRequest DEF DeleteRel, RelPhases, TypeOK, ReqStates
    <2>2. /\ req'[r].phase \in {"idle", "collect"}
          /\ \A v \in Users \ {UserOf(r)} : rels'[v] = rels[v]
          /\ rels'[UserOf(r)][t] = "none"
          /\ \A s \in Tenants \ {t} : rels'[UserOf(r)][s] = rels[UserOf(r)][s]
        BY <1>1, <1>10, DeleteRelMoves
    <2>. HIDE DEF t
    <2>3. ASSUME u = UserOf(r)
          PROVE  (Related(u) => Primaries(u) # {})'
        <3>1. rels[u][t] = "GUEST"
            BY <1>2, <2>1, <2>3 DEF UserFits, SeenRels, t
        <3>2. PICK p \in Tenants : rels[u][p] = "PRIMARY"
            BY <1>2, <2>1, <3>1 DEF UserFits, Related, Primaries
        <3>3. rels'[u][p] = "PRIMARY"
            BY <2>2, <2>3, <3>1, <3>2
        <3>. QED  BY <3>3 DEF Primaries
    <2>4. SeenRels(u, r)'
        BY <2>2 DEF SeenRels
    <2>. QED  BY <1>1, <1>2, <2>1, <2>2, <2>3, <2>4, UserStep
<1>11. ASSUME Collect(r) \/ Discard(r)
      PROVE  UserFits(u)'
    <2>1. rels' = rels /\ req'[r].phase \in {"idle", "collect", "discard"}
        BY <1>1, <1>11, CollectMoves, DiscardMoves
    <2>. QED  BY <1>3, <2>1 DEF SeenRels
<1>12. ASSUME NEW h \in Holders, NEW S \in SUBSET Scopes, NEW bulk, AssignScopes(r, h, S, bulk)
      PROVE  UserFits(u)'
    <2>1. /\ rels' = rels /\ req'[r].phase = "insert" /\ req'[r].about = {h} \cup S
          /\ h \in Users => Member(h)
        BY <1>1, <1>12, AssignScopesMoves
    <2>2. u \notin Scopes
        BY ConstantsOk
    <2>. QED  BY <1>3, <2>1, <2>2 DEF SeenRels, Member
<1>13. ASSUME NEW v \in Users, NEW g \in Groups, AddUserToGroup(r, v, g)
      PROVE  UserFits(u)'
    <2>1. rels' = rels /\ req'[r].phase = "insert" /\ req'[r].about = {v, g} /\ Member(v)
        BY <1>1, <1>13, AddUserMoves
    <2>2. u \notin Groups
        BY ConstantsOk
    <2>. QED  BY <1>3, <2>1, <2>2 DEF SeenRels, Member
<1>14. ASSUME Insert(r)
      PROVE  UserFits(u)'
    <2>1. /\ rels' = rels /\ req[r].phase = "insert"
          /\ \/ req'[r].phase = "idle"
             \/ req'[r].phase = "insert" /\ req'[r].about = req[r].about
        BY <1>1, <1>14, InsertMoves DEF Insert
    <2>. QED  BY <1>2, <1>3, <2>1 DEF UserFits, SeenRels, Member
<1>15. ASSUME ScopesOfTenant(r) \/ UpdateGroups(r) \/ Die(r)
      PROVE  UserFits(u)'
    <2>1. u \notin Scopes \cup Groups
        BY ConstantsOk
    <2>2. rels' = rels
        BY <1>15 DEF ScopesOfTenant, AssignScopesToTenant, RemoveScopeFromTenant, MakeAvailable,
                     DropRows, DropScope, UpdateGroups, UpdateGroup, WriteGroup, Die
    <2>3. Shape(r)' /\ req'[r].phase \in {"idle", "makeAvailable", "updateGroup"} \cup Dropping
        <3>1. ASSUME NEW S \in SUBSET Scopes, AssignScopesToTenant(r, S)
              PROVE  req'[r].phase = "makeAvailable"
            BY <1>1, <3>1, ScopesBegin DEF AssignScopesToTenant
        <3>2. ASSUME NEW s \in Scopes, RemoveScopeFromTenant(r, s)
              PROVE  req'[r].phase = "dropClients"
            <4>1. {s} \in SUBSET Scopes
                OBVIOUS
            <4>. QED  BY <1>1, <3>2, <4>1, ScopesBegin DEF RemoveScopeFromTenant
        <3>. QED  BY <1>1, <1>15, <3>1, <3>2, MakeAvailableMoves, DropRowsMoves, DropScopeMoves,
                     UpdateGroupMoves, WriteGroupMoves, DieMoves
                  DEF ScopesOfTenant, UpdateGroups, Dropping, Orderly
    <2>4. u \notin req'[r].about
        BY <2>1, <2>3 DEF Shape
    <2>. QED  BY <1>3, <2>2, <2>4
<1>. QED  BY <1>4, <1>5, <1>6, <1>7, <1>8, <1>9, <1>10, <1>11, <1>12, <1>13, <1>14, <1>15
          DEF Act, RelateUsers, AssignThings

-----------------------------------------------------------------------------
(* Users have one PRIMARY relation.                                        *)

(* Without a request between its two updates there are no two of them.     *)
LEMMA OnlyOne ==
    ASSUME NEW u \in Users, OneFits(u),
           \A q \in Requests : u \in req[q].about => req[q].phase # "demote"
    PROVE  \A t1, t2 \in Primaries(u) : t1 = t2
BY DEF OneFits

LEMMA OneActs ==
    ASSUME IInv, NEW r \in Requests, Act(r), NEW u \in Users, u \notin crossed' \cup halted'
    PROVE  OneFits(u)'
<1>1. TypeOK /\ Shapes /\ Alone /\ Orderly(r) /\ u \notin crossed \cup halted
    BY ActsAreOrderly DEF IInv, Orderly, Moves
<1>2. UserFits(u) /\ OneFits(u) /\ \A q \in Requests \ {r} : req'[q] = req[q]
    BY <1>1 DEF IInv, Orderly, Moves
<1>3. CASE /\ \A t \in Tenants : rels'[u][t] = "PRIMARY" => rels[u][t] = "PRIMARY"
           /\ ~(u \in req[r].about /\ req[r].phase = "demote")
    BY <1>2, <1>3 DEF OneFits, Primaries
<1>4. ASSUME u \in req[r].about
      PROVE  \A q \in Requests \ {r} : u \notin req[q].about
    BY <1>1, <1>4, AloneWith
<1>5. CASE InsertRel(r)
    <2>. DEFINE t == req[r].tenant
    <2>1. /\ req[r].phase = "insertRel" /\ req[r].about = {UserOf(r)}
          /\ UserOf(r) \in Users /\ t \in Tenants
        BY <1>1, <1>5, UserOfRequest DEF InsertRel, RelPhases, TypeOK, ReqStates
    <2>2. /\ \A v \in Users \ {UserOf(r)} : rels'[v] = rels[v]
          /\ rels[UserOf(r)][t] # "none" => rels' = rels
          /\ rels[UserOf(r)][t] = "none" =>
                 /\ rels'[UserOf(r)][t] = req[r].type
                 /\ \A s \in Tenants \ {t} : rels'[UserOf(r)][s] = rels[UserOf(r)][s]
        BY <1>1, <1>5, InsertRelMoves
    <2>3. u = UserOf(r) => MayRelate(u, t, req[r].type)
        BY <1>2, <2>1 DEF UserFits, SeenRels
    <2>. HIDE DEF t
    <2>4. CASE u = UserOf(r) /\ ~Related(u)
        <3>1. \A s \in Tenants : rels'[u][s] = "PRIMARY" => s = t
            BY <2>2, <2>4 DEF Related
        <3>. QED  BY <3>1 DEF OneFits, Primaries
    <2>5. CASE u = UserOf(r) /\ req[r].type = "GUEST"
        <3>1. \A s \in Tenants : rels'[u][s] = "PRIMARY" => rels[u][s] = "PRIMARY"
            BY <2>2, <2>5
        <3>. QED  BY <1>3, <2>1, <3>1
    <2>6. CASE u # UserOf(r)
        BY <1>3, <2>1, <2>2, <2>6
    <2>. QED  BY <2>3, <2>4, <2>5, <2>6 DEF MayRelate
<1>6. CASE Promote(r)
    <2>. DEFINE t == req[r].tenant
    <2>1. /\ req[r].phase = "promote" /\ req[r].about = {UserOf(r)}
          /\ UserOf(r) \in Users /\ t \in Tenants /\ req[r].old \in Tenants
        BY <1>1, <1>6, UserOfRequest DEF Promote, RelPhases, TypeOK, ReqStates
    <2>2. /\ req'[r].phase = "demote" /\ req'[r].about = req[r].about
          /\ req'[r].tenant = t /\ req'[r].old = req[r].old
          /\ \A v \in Users \ {UserOf(r)} : rels'[v] = rels[v]
          /\ rels[UserOf(r)][t] # "none" =>
                 \A s \in Tenants \ {t} : rels'[UserOf(r)][s] = rels[UserOf(r)][s]
        BY <1>1, <1>6, PromoteMoves
    <2>. HIDE DEF t
    <2>3. CASE u = UserOf(r)
        <3>1. rels[u][t] = "GUEST" /\ rels[u][req[r].old] = "PRIMARY"
            BY <1>2, <2>1, <2>3 DEF UserFits, SeenRels, t
        <3>2. \A q \in Requests : u \in req[q].about => req[q].phase # "demote"
            BY <1>4, <2>1, <2>3
        <3>3. \A s \in Primaries(u) : s = req[r].old
            BY <1>2, <2>1, <3>1, <3>2, OnlyOne DEF Primaries
        <3>4. \A s \in Tenants : rels'[u][s] = "PRIMARY" => s \in {req[r].old, t}
            BY <2>2, <2>3, <3>1, <3>3 DEF Primaries
        <3>. QED  BY <2>1, <2>2, <2>3, <3>4 DEF OneFits, Primaries
    <2>4. CASE u # UserOf(r)
        BY <1>3, <2>1, <2>2, <2>4
    <2>. QED  BY <2>3, <2>4
<1>7. CASE Demote(r)
    <2>1. /\ req[r].phase = "demote" /\ req[r].about = {UserOf(r)} /\ UserOf(r) \in Users
          /\ req[r].old \in Tenants /\ req[r].tenant \in Tenants
        BY <1>1, <1>7, UserOfRequest DEF Demote, RelPhases, TypeOK, ReqStates
    <2>2. /\ \A v \in Users \ {UserOf(r)} : rels'[v] = rels[v]
          /\ rels'[UserOf(r)][req[r].old] # "PRIMARY"
          /\ \A s \in Tenants \ {req[r].old} : rels'[UserOf(r)][s] = rels[UserOf(r)][s]
        BY <1>1, <1>7, DemoteMoves
    <2>3. CASE u = UserOf(r)
        <3>1. \A t1, t2 \in Primaries(u) :
                  t1 = t2 \/ (t1 \in {req[r].old, req[r].tenant} /\ t2 \in {req[r].old, req[r].tenant})
            BY <1>2, <1>4, <2>1, <2>3 DEF OneFits
        <3>2. ASSUME NEW t \in Primaries(u)'
              PROVE  t \in Primaries(u) /\ t # req[r].old
            BY <2>2, <2>3 DEF Primaries
        <3>3. \A t1, t2 \in Primaries(u)' : t1 = t2
            BY <3>1, <3>2
        <3>. QED  BY <3>3 DEF OneFits
    <2>4. CASE u # UserOf(r)
        BY <1>3, <2>1, <2>2, <2>4
    <2>. QED  BY <2>3, <2>4
<1>8. CASE DeleteRel(r)
    <2>1. /\ req[r].phase = "deleteRel" /\ UserOf(r) \in Users /\ req[r].tenant \in Tenants
        BY <1>1, <1>8, UserOfRequest DEF DeleteRel, RelPhases, TypeOK, ReqStates
    <2>2. /\ \A v \in Users \ {UserOf(r)} : rels'[v] = rels[v]
          /\ rels'[UserOf(r)][req[r].tenant] = "none"
          /\ \A s \in Tenants \ {req[r].tenant} : rels'[UserOf(r)][s] = rels[UserOf(r)][s]
        BY <1>1, <1>8, DeleteRelMoves
    <2>3. \A t \in Tenants : rels'[u][t] = "PRIMARY" => rels[u][t] = "PRIMARY"
        BY <2>1, <2>2
    <2>. QED  BY <1>3, <2>1, <2>3
<1>9. CASE Die(r)
    <2>1. rels' = rels /\ u \notin req[r].about
        BY <1>1, <1>9, DieMoves
    <2>. QED  BY <1>3, <2>1
<1>10. ASSUME ~InsertRel(r), ~Promote(r), ~Demote(r), ~DeleteRel(r), ~Die(r)
       PROVE  rels' = rels /\ req[r].phase # "demote"
    <2>1. req[r].phase # "demote"
        BY <1>10 DEF Act, RelateUsers, AssignUserToTenant, SwapPrimary, RemoveUserFromTenant, Collect,
                     Discard, AssignThings, AssignScopes, AddUserToGroup, Insert, ScopesOfTenant,
                     AssignScopesToTenant, RemoveScopeFromTenant, MakeAvailable, DropRows, DropScope,
                     UpdateGroups, UpdateGroup, WriteGroup, Begin, Busy, Dropping
    <2>. QED  BY <1>10, <2>1, RelsFrame
<1>. QED  BY <1>3, <1>5, <1>6, <1>7, <1>8, <1>9, <1>10

-----------------------------------------------------------------------------
(* Users who left.                                                         *)

LEMMA LeftActs ==
    ASSUME IInv, NEW r \in Requests, Act(r), NEW u \in Users, u \notin crossed' \cup halted'
    PROVE  LeftFits(u)'
<1>1. TypeOK /\ Shapes /\ Alone /\ Orderly(r) /\ u \notin crossed \cup halted
    BY ActsAreOrderly DEF IInv, Orderly, Moves
<1>2. UserFits(u) /\ LeftFits(u) /\ \A q \in Requests \ {r} : req'[q] = req[q]
    BY <1>1 DEF IInv, Orderly, Moves
<1>3. ASSUME u \in req[r].about
      PROVE  \A q \in Requests \ {r} : u \notin req[q].about
    BY <1>1, <1>3, AloneWith
<1>4. ASSUME NEW x \in Groups \cup Scopes, <<u, x>> \in holds', <<u, x>> \notin holds
      PROVE  Member(u)'
    <2>1. Insert(r)
        BY <1>4, RowsFrame
    <2>2. rels' = rels /\ u = HolderOf(r) /\ req[r].phase = "insert"
        BY <1>1, <1>4, <2>1, InsertMoves DEF Insert
    <2>3. u \in req[r].about
        BY <1>1, <2>2, HolderOfRequest
    <2>. QED  BY <1>2, <2>2, <2>3 DEF UserFits, SeenRels, Member
(* Requests that remove nothing.                                           *)
<1>5. ASSUME Member(u)' \/ ~Member(u), u \in req[r].about => req[r].phase \notin {"collect", "discard"}
      PROVE  LeftFits(u)'
    <2>1. ASSUME ~Member(u)', NEW x \in Groups \cup Scopes, <<u, x>> \in holds'
          PROVE  \E q \in Requests : (u \in req[q].about /\ ToCome(q, x))'
        <3>1. PICK q \in Requests : u \in req[q].about /\ ToCome(q, x)
            BY <1>2, <1>4, <1>5, <2>1 DEF LeftFits
        <3>2. q # r
            BY <1>5, <3>1 DEF ToCome
        <3>. QED  BY <1>2, <3>1, <3>2 DEF ToCome
    <2>. QED  BY <2>1 DEF LeftFits
<1>6. CASE InsertRel(r)
    <2>1. /\ req[r].phase = "insertRel" /\ UserOf(r) \in Users /\ req[r].tenant \in Tenants
        BY <1>1, <1>6, UserOfRequest DEF InsertRel, RelPhases, TypeOK, ReqStates
    <2>2. /\ \A v \in Users \ {UserOf(r)} : rels'[v] = rels[v]
          /\ rels[UserOf(r)][req[r].tenant] # "none" => rels' = rels
          /\ rels[UserOf(r)][req[r].tenant] = "none" =>
                 \A s \in Tenants \ {req[r].tenant} : rels'[UserOf(r)][s] = rels[UserOf(r)][s]
        BY <1>1, <1>6, InsertRelMoves
    <2>3. Member(u)' \/ ~Member(u)
        BY <2>1, <2>2, ConstantsOk DEF Member
    <2>. QED  BY <1>5, <2>1, <2>3
<1>7. CASE Promote(r)
    <2>1. /\ req[r].phase = "promote" /\ req[r].about = {UserOf(r)}
          /\ UserOf(r) \in Users /\ req[r].tenant \in Tenants
        BY <1>1, <1>7, UserOfRequest DEF Promote, RelPhases, TypeOK, ReqStates
    <2>2. /\ \A v \in Users \ {UserOf(r)} : rels'[v] = rels[v]
          /\ rels[UserOf(r)][req[r].tenant] # "none" =>
                  /\ rels'[UserOf(r)][req[r].tenant] = "PRIMARY"
                  /\ \A s \in Tenants \ {req[r].tenant} : rels'[UserOf(r)][s] = rels[UserOf(r)][s]
        BY <1>1, <1>7, PromoteMoves
    <2>3. u = UserOf(r) => rels[u][req[r].tenant] = "GUEST"
        BY <1>2, <2>1 DEF UserFits, SeenRels
    <2>4. Member(u)' \/ ~Member(u)
        BY <2>1, <2>2, <2>3, ConstantsOk DEF Member
    <2>. QED  BY <1>5, <2>1, <2>4
<1>8. CASE Demote(r)
    <2>1. /\ req[r].phase = "demote" /\ UserOf(r) \in Users
        BY <1>1, <1>8, UserOfRequest DEF Demote, RelPhases
    <2>2. /\ \A v \in Users \ {UserOf(r)} : rels'[v] = rels[v]
          /\ \A s \in Tenants : rels'[UserOf(r)][s] = "none" <=> rels[UserOf(r)][s] = "none"
        BY <1>1, <1>8, DemoteMoves
    <2>3. Member(u)' \/ ~Member(u)
        BY <2>1, <2>2, ConstantsOk DEF Member
    <2>. QED  BY <1>5, <2>1, <2>3
<1>9. CASE DeleteRel(r)
    <2>1. /\ req[r].phase = "deleteRel" /\ req[r].about = {UserOf(r)}
          /\ UserOf(r) \in Users /\ req[r].tenant \in Tenants
        BY <1>1, <1>9, UserOfRequest DEF DeleteRel, RelPhases, TypeOK, ReqStates
    <2>2. /\ \/ req[r].tenant # Home
             \/ req'[r].phase = "collect" /\ req'[r].about = req[r].about /\ req'[r].kind = 1
          /\ \A v \in Users \ {UserOf(r)} : rels'[v] = rels[v]
          /\ \A s \in Tenants \ {req[r].tenant} : rels'[UserOf(r)][s] = rels[UserOf(r)][s]
        BY <1>1, <1>9, DeleteRelMoves
    <2>3. CASE u # UserOf(r) \/ req[r].tenant # Home
        <3>1. Member(u)' \/ ~Member(u)
            BY <2>1, <2>2, <2>3, ConstantsOk DEF Member
        <3>. QED  BY <1>5, <2>1, <3>1
    <2>4. CASE u = UserOf(r) /\ req[r].tenant = Home
        <3>1. \A x \in Groups \cup Scopes : \E k \in DOMAIN Kind : 1 <= k /\ x \in Kind[k]
            BY Kinds DEF Groups
        <3>2. \A x \in Groups \cup Scopes : ToCome(r, x)'
            BY <2>2, <2>4, <3>1 DEF ToCome
        <3>. QED  BY <2>1, <2>2, <2>4, <3>2 DEF LeftFits
    <2>. QED  BY <2>3, <2>4
<1>10. CASE Collect(r) \/ Discard(r)
    <2>1. /\ req[r].about = {UserOf(r)} /\ UserOf(r) \in Users /\ req[r].kind \in 1 .. 4
          /\ req[r].phase \in {"collect", "discard"}
        BY <1>1, <1>10, UserOfRequest, Kinds DEF Collect, Discard, RelPhases, TypeOK, ReqStates
    <2>2. rels' = rels /\ holds' \subseteq holds
        BY <1>1, <1>10, CollectMoves, DiscardMoves
    <2>3. ASSUME ~Member(u), NEW x \in Groups \cup Scopes, <<u, x>> \in holds', u = UserOf(r)
          PROVE  u \in req'[r].about /\ ToCome(r, x)'
        <3>1. ToCome(r, x)
            BY <1>2, <1>3, <2>1, <2>2, <2>3 DEF LeftFits
        <3>2. \A k \in 1 .. 4 : x \in Kind[k] => k # 4
            BY Kinds, ConstantsOk
        <3>3. CASE Collect(r)
            <4>. DEFINE found == Listed(UserOf(r), req[r].kind)
            <4>1. PICK k \in 1 .. 4 : req[r].kind <= k /\ x \in Kind[k]
                BY <3>1, <3>3, Kinds DEF ToCome, Collect
            <4>2. x \in found \/ req[r].kind < k
                BY <2>1, <2>2, <2>3, <4>1 DEF Listed
            <4>3. \/ /\ req'[r].phase = "discard" /\ req'[r].todo = found
                     /\ req'[r].kind = req[r].kind /\ req'[r].about = req[r].about
                  \/ found = {} /\ req[r].kind = 4
                  \/ /\ found = {} /\ req'[r].phase = "collect"
                     /\ req'[r].kind = req[r].kind + 1 /\ req'[r].about = req[r].about
                BY <1>1, <3>3, CollectMoves
            <4>. HIDE DEF found
            <4>4. \/ /\ req'[r].phase = "discard" /\ req'[r].about = req[r].about
                     /\ x \in req'[r].todo \/ req'[r].kind < k
                  \/ req'[r].phase = "collect" /\ req'[r].about = req[r].about /\ req'[r].kind <= k
                BY <2>1, <3>2, <4>1, <4>2, <4>3
            <4>. QED  BY <2>1, <2>3, <4>1, <4>4, Kinds DEF ToCome
        <3>4. CASE Discard(r)
            <4>1. PICK y \in req[r].todo :
                     /\ holds' = holds \ {<<UserOf(r), y>>}
                     /\ \/ /\ req'[r].phase = "discard" /\ req'[r].todo = req[r].todo \ {y}
                           /\ req'[r].kind = req[r].kind /\ req'[r].about = req[r].about
                        \/ req[r].todo = {y} /\ req[r].kind = 4
                        \/ /\ req[r].todo = {y} /\ req'[r].phase = "collect"
                           /\ req'[r].kind = req[r].kind + 1 /\ req'[r].about = req[r].about
                BY <1>1, <3>4, DiscardMoves
            <4>2. x # y
                BY <2>3, <4>1
            <4>3. x \in req[r].todo \/ \E k \in 1 .. 4 : req[r].kind < k /\ x \in Kind[k]
                BY <3>1, <3>4, Kinds DEF ToCome, Discard
            <4>4. CASE x \in req[r].todo
                BY <2>1, <2>3, <4>1, <4>2, <4>4 DEF ToCome
            <4>5. CASE \E k \in 1 .. 4 : req[r].kind < k /\ x \in Kind[k]
                <5>1. PICK k \in 1 .. 4 : req[r].kind < k /\ x \in Kind[k]
                    BY <4>5
                <5>2. req[r].kind + 1 <= k /\ req[r].kind # 4
                    BY <2>1, <5>1
                <5>. QED  BY <2>1, <2>3, <4>1, <5>1, <5>2, Kinds DEF ToCome
            <4>. QED  BY <4>3, <4>4, <4>5
        <3>. QED  BY <1>10, <3>3, <3>4
    <2>4. CASE u = UserOf(r)
        BY <2>2, <2>3, <2>4 DEF LeftFits, Member
    <2>5. CASE u # UserOf(r)
        <3>1. Member(u)' \/ ~Member(u)
            BY <2>2 DEF Member
        <3>. QED  BY <1>5, <2>1, <2>5, <3>1
    <2>. QED  BY <2>4, <2>5
<1>11. CASE Die(r)
    <2>1. rels' = rels /\ u \notin req[r].about
        BY <1>1, <1>11, DieMoves
    <2>2. Member(u)' \/ ~Member(u)
        BY <2>1 DEF Member
    <2>. QED  BY <1>5, <2>1, <2>2
<1>12. ASSUME ~InsertRel(r), ~Promote(r), ~Demote(r), ~DeleteRel(r), ~Die(r), ~Collect(r), ~Discard(r)
       PROVE  rels' = rels /\ req[r].phase \notin {"collect", "discard"}
    <2>1. req[r].phase \notin {"collect", "discard"}
        BY <1>12 DEF Act, RelateUsers, AssignUserToTenant, SwapPrimary, RemoveUserFromTenant,
                     AssignThings, AssignScopes, AddUserToGroup, Insert, ScopesOfTenant,
                     AssignScopesToTenant, RemoveScopeFromTenant, MakeAvailable, DropRows, DropScope,
                     UpdateGroups, UpdateGroup, WriteGroup, Begin, Busy, Dropping
    <2>. QED  BY <1>12, <2>1, RelsFrame
<1>13. CASE rels' = rels /\ req[r].phase \notin {"collect", "discard"}
    <2>1. Member(u)' \/ ~Member(u)
        BY <1>13 DEF Member
    <2>. QED  BY <1>5, <1>13, <2>1
<1>. QED  BY <1>6, <1>7, <1>8, <1>9, <1>10, <1>11, <1>12, <1>13

-----------------------------------------------------------------------------
(* Groups and scopes.                                                      *)

LEMMA GroupActs ==
    ASSUME IInv, NEW r \in Requests, Act(r), NEW g \in Groups, g \notin crossed'
    PROVE  GroupFits(g)'
<1>1. TypeOK /\ Shapes /\ Alone /\ Orderly(r) /\ g \notin crossed
    BY ActsAreOrderly DEF IInv, Orderly, Moves
<1>2. GroupFits(g) /\ \A q \in Requests \ {r} : req'[q] = req[q]
    BY <1>1 DEF IInv, Orderly, Moves
(* Requests that do not begin, and leave the flag alone.                   *)
<1>3. ASSUME g \in default' => g \in default, g \in default => g \in default',
             /\ g \in req'[r].about /\ req'[r].phase = "updateGroup" /\ req'[r].flag =>
                    req'[r].todo = {g} \/ g \in default
             /\ g \in req'[r].todo /\ req'[r].phase = "insert" => g \notin default
      PROVE  GroupFits(g)'
    BY <1>2, <1>3 DEF GroupFits
<1>4. ASSUME NEW j \in Groups, NEW flag \in BOOLEAN, UpdateGroup(r, j, flag)
      PROVE  GroupFits(g)'
    <2>1. /\ default' = default /\ req'[r].phase = "updateGroup" /\ req'[r].about = {j}
          /\ req'[r].flag => req'[r].todo = {j} \/ j \in default
        BY <1>1, <1>4, UpdateGroupMoves
    <2>. QED  BY <1>3, <2>1
<1>5. CASE WriteGroup(r)
    <2>1. /\ req'[r].phase = "idle" /\ req[r].phase = "updateGroup"
          /\ default' = IF req[r].flag THEN default \cup req[r].about ELSE default \ req[r].about
        BY <1>1, <1>5, WriteGroupMoves DEF WriteGroup
    <2>2. CASE g \notin req[r].about
        BY <1>3, <2>1, <2>2
    <2>3. CASE g \in req[r].about
        <3>1. \A q \in Requests \ {r} : g \notin req[q].about
            BY <1>1, <2>3, AloneWith
        <3>2. \A q \in Requests \ {r} : req[q].phase = "insert" => g \notin req[q].todo
            BY <1>1, <3>1 DEF Shapes, Shape
        <3>. QED  BY <1>2, <2>1, <3>1, <3>2 DEF GroupFits
    <2>. QED  BY <2>2, <2>3
<1>6. ASSUME NEW u \in Users, NEW j \in Groups, AddUserToGroup(r, u, j)
      PROVE  GroupFits(g)'
    <2>1. /\ req'[r].phase = "insert" /\ req'[r].todo = {j} /\ j \notin default
        BY <1>1, <1>6, AddUserMoves
    <2>2. default' = default
        BY <1>6 DEF AddUserToGroup
    <2>. QED  BY <1>3, <2>1, <2>2
<1>7. ASSUME NEW h \in Holders, NEW S \in SUBSET Scopes, NEW bulk, AssignScopes(r, h, S, bulk)
      PROVE  GroupFits(g)'
    <2>1. /\ req'[r].phase = "insert" /\ req'[r].todo = S
        BY <1>1, <1>7, AssignScopesMoves
    <2>2. default' = default /\ g \notin Scopes
        BY <1>7, ConstantsOk DEF AssignScopes
    <2>. QED  BY <1>3, <2>1, <2>2
<1>8. CASE Insert(r)
    <2>1. /\ req'[r].phase # "updateGroup"
          /\ req'[r].phase = "insert" => req'[r].todo \subseteq req[r].todo
        BY <1>1, <1>8, InsertMoves
    <2>2. default' = default /\ req[r].phase = "insert"
        BY <1>8 DEF Insert
    <2>3. g \in req[r].todo => g \notin default
        BY <1>2, <2>2 DEF GroupFits
    <2>. QED  BY <1>3, <2>1, <2>2, <2>3
<1>9. ASSUME RelateUsers(r)
      PROVE  GroupFits(g)'
    <2>1. default' = default
        BY <1>9, GroupsFrame DEF Act, RelateUsers, InsertRel, WriteGroup, AssignUserToTenant,
           SwapPrimary, RemoveUserFromTenant, Promote, Demote, DeleteRel, Collect, Discard
    <2>2. req'[r].phase \notin {"updateGroup", "insert"}
        BY <1>1, <1>9, AssignMoves, SwapMoves, RemoveMoves, InsertRelMoves, PromoteMoves, DemoteMoves,
           DeleteRelMoves, CollectMoves, DiscardMoves DEF RelateUsers
    <2>. QED  BY <1>3, <2>1, <2>2
<1>10. ASSUME ScopesOfTenant(r) \/ Die(r)
       PROVE  GroupFits(g)'
    <2>1. default' = default
        BY <1>10 DEF ScopesOfTenant, AssignScopesToTenant, RemoveScopeFromTenant, MakeAvailable, DropRows,
                    DropScope, Die
    <2>2. ASSUME NEW S \in SUBSET Scopes, AssignScopesToTenant(r, S)
          PROVE  req'[r].phase = "makeAvailable"
        BY <1>1, <2>2, ScopesBegin DEF AssignScopesToTenant
    <2>3. ASSUME NEW s \in Scopes, RemoveScopeFromTenant(r, s)
          PROVE  req'[r].phase = "dropClients"
        <3>1. {s} \in SUBSET Scopes
            OBVIOUS
        <3>. QED  BY <1>1, <2>3, <3>1, ScopesBegin DEF RemoveScopeFromTenant
    <2>4. req'[r].phase \notin {"updateGroup", "insert"}
        BY <1>1, <1>10, <2>2, <2>3, MakeAvailableMoves, DropRowsMoves, DropScopeMoves, DieMoves
           DEF ScopesOfTenant
    <2>. QED  BY <1>3, <2>1, <2>4
<1>. QED  BY <1>4, <1>5, <1>6, <1>7, <1>8, <1>9, <1>10 DEF Act, AssignThings, UpdateGroups

LEMMA EmptyActs ==
    ASSUME IInv, NEW r \in Requests, Act(r), NEW g \in Groups, g \notin crossed' \cup halted'
    PROVE  EmptyFits(g)'
<1>1. TypeOK /\ Shapes /\ Alone /\ Orderly(r) /\ g \notin crossed \cup halted
    BY ActsAreOrderly DEF IInv, Orderly, Moves
<1>2. GroupFits(g) /\ EmptyFits(g)
    BY <1>1 DEF IInv
<1>3. CASE WriteGroup(r)
    <2>1. /\ holds' = holds /\ req[r].phase = "updateGroup"
          /\ default' = IF req[r].flag THEN default \cup req[r].about ELSE default \ req[r].about
          /\ sweeping' = sweeping \cup req[r].todo
        BY <1>1, <1>3, WriteGroupMoves DEF WriteGroup
    <2>2. g \in req[r].about /\ req[r].flag => req[r].todo = {g} \/ g \in default
        BY <1>2, <2>1 DEF GroupFits
    <2>. QED  BY <1>2, <2>1, <2>2 DEF EmptyFits
<1>4. CASE Insert(r)
    <2>1. default' = default /\ sweeping' = sweeping /\ req[r].phase = "insert"
        BY <1>4 DEF Insert
    <2>2. \A row \in holds' \ holds : row[2] \in req[r].todo
        BY <1>1, <1>4, InsertMoves
    <2>3. g \in req[r].todo => g \notin default
        BY <1>2, <2>1 DEF GroupFits
    <2>. QED  BY <1>2, <2>1, <2>2, <2>3 DEF EmptyFits
<1>5. CASE ~WriteGroup(r) /\ ~Insert(r)
    <2>1. default' = default /\ sweeping' = sweeping /\ holds' \subseteq holds
        BY <1>5, GroupsFrame, RowsFrame
    <2>. QED  BY <1>2, <2>1 DEF EmptyFits
<1>. QED  BY <1>3, <1>4, <1>5

LEMMA ScopeActs ==
    ASSUME IInv, NEW r \in Requests, Act(r), NEW s \in Scopes, s \notin crossed'
    PROVE  ScopeFits(s)'
<1>1. TypeOK /\ Shapes /\ Alone /\ Orderly(r) /\ s \notin crossed
    BY ActsAreOrderly DEF IInv, Orderly, Moves
<1>2. ScopeFits(s) /\ \A q \in Requests \ {r} : req'[q] = req[q]
    BY <1>1 DEF IInv, Orderly, Moves
(* No new row of a scope another request is about.                         *)
<1>3. ASSUME NEW q \in Requests \ {r}, s \in req'[q].about, NEW h, <<h, s>> \in holds'
      PROVE  <<h, s>> \in holds
    <2>1. CASE Insert(r)
        <3>1. s \notin req[r].about
            BY <1>1, <1>3, AloneWith
        <3>2. req[r].todo \subseteq req[r].about
            BY <1>1, <2>1, HolderOfRequest DEF Insert
        <3>3. \A row \in holds' \ holds : row[2] \in req[r].todo
            BY <1>1, <2>1, InsertMoves
        <3>. QED  BY <1>3, <3>1, <3>2, <3>3
    <2>2. CASE ~Insert(r)
        BY <1>3, <2>2, RowsFrame
    <2>. QED  BY <2>1, <2>2
<1>4. ASSUME s \in req'[r].about => \A h \in Gone(req'[r].phase) : <<h, s>> \notin holds'
      PROVE  ScopeFits(s)'
    <2>1. ASSUME NEW q \in Requests, s \in req'[q].about, NEW h \in Gone(req'[q].phase)
          PROVE  <<h, s>> \notin holds'
        BY <1>2, <1>3, <1>4, <2>1 DEF ScopeFits
    <2>. QED  BY <2>1 DEF ScopeFits
<1>5. CASE DropRows(r)
    <2>1. /\ req'[r].about = req[r].about
          /\ holds' = holds \ (Dropped(req[r].phase) \X req[r].todo)
          /\ \/ req[r].phase = "dropClients" /\ req'[r].phase = "dropGroups"
             \/ req[r].phase = "dropGroups" /\ req'[r].phase = "dropUsers"
             \/ req[r].phase = "dropUsers" /\ req'[r].phase = "dropScope"
        BY <1>1, <1>5, DropRowsMoves
    <2>2. s \in req[r].about => s \in req[r].todo
        BY <1>1, <2>1 DEF Shapes, Shape, Dropping
    <2>3. Gone(req'[r].phase) = Gone(req[r].phase) \cup Dropped(req[r].phase)
        BY <2>1 DEF Gone, Dropped, Holders
    <2>4. ASSUME s \in req'[r].about, NEW h \in Gone(req'[r].phase)
          PROVE  <<h, s>> \notin holds'
        <3>1. CASE h \in Gone(req[r].phase)
            BY <1>2, <2>1, <2>4, <3>1 DEF ScopeFits
        <3>2. CASE h \in Dropped(req[r].phase)
            BY <2>1, <2>2, <2>4, <3>2
        <3>. QED  BY <2>3, <2>4, <3>1, <3>2
    <2>. QED  BY <1>4, <2>4
<1>6. CASE ~DropRows(r)
    <2>1. ASSUME NEW S \in SUBSET Scopes, AssignScopesToTenant(r, S)
          PROVE  req'[r].phase = "makeAvailable"
        BY <1>1, <2>1, ScopesBegin DEF AssignScopesToTenant
    <2>2. ASSUME NEW j \in Scopes, RemoveScopeFromTenant(r, j)
          PROVE  req'[r].phase = "dropClients"
        <3>1. {j} \in SUBSET Scopes
            OBVIOUS
        <3>. QED  BY <1>1, <2>2, <3>1, ScopesBegin DEF RemoveScopeFromTenant
    <2>3. ASSUME NEW h \in Holders, NEW S \in SUBSET Scopes, NEW bulk, AssignScopes(r, h, S, bulk)
          PROVE  req'[r].phase = "insert"
        BY <1>1, <2>3, AssignScopesMoves
    <2>4. ASSUME RelateUsers(r) \/ Die(r)
          PROVE  req'[r].phase \notin Dropping
        BY <1>1, <2>4, AssignMoves, SwapMoves, RemoveMoves, InsertRelMoves, PromoteMoves, DemoteMoves,
           DeleteRelMoves, CollectMoves, DiscardMoves, DieMoves DEF RelateUsers, Dropping
    <2>5. ASSUME AssignThings(r)
          PROVE  req'[r].phase \notin Dropping
        BY <1>1, <2>3, <2>5, AddUserMoves, InsertMoves DEF AssignThings, Dropping
    <2>6. ASSUME ScopesOfTenant(r) \/ UpdateGroups(r)
          PROVE  req'[r].phase \notin {"dropGroups", "dropUsers", "dropScope"}
        BY <1>1, <1>6, <2>1, <2>2, <2>6, MakeAvailableMoves, DropScopeMoves, UpdateGroupMoves, WriteGroupMoves
           DEF ScopesOfTenant, UpdateGroups
    <2>7. req'[r].phase \notin {"dropGroups", "dropUsers", "dropScope"}
        BY <2>4, <2>5, <2>6 DEF Act, Dropping
    <2>8. Gone(req'[r].phase) = {}
        BY <2>7 DEF Gone
    <2>. QED  BY <1>4, <2>8
<1>. QED  BY <1>5, <1>6

-----------------------------------------------------------------------------
(* The invariant.                                                          *)

LEMMA AsideFits ==
    ASSUME IInv, Aside
    PROVE  IInv'
<1>0. /\ req' = req /\ rels' = rels /\ crossed' = crossed /\ default' = default
      /\ halted \subseteq halted'
    BY DEF Aside
<1>1. TypeOK'
    BY DEF IInv, Aside, Tables, TypeOK
<1>2. Shapes' /\ Alone'
    BY <1>0 DEF IInv, Shapes, Shape, Alone
<1>3. ASSUME NEW u \in Users \ crossed'
      PROVE  UserFits(u)'
    <2>1. UserFits(u)
        BY <1>0, <1>3 DEF IInv
    <2>. QED  BY <1>0, <2>1 DEF UserFits, SeenRels, MayRelate, Related, Primaries, Member
<1>4. ASSUME NEW u \in Users \ (crossed' \cup halted')
      PROVE  OneFits(u)' /\ LeftFits(u)'
    <2>1. OneFits(u) /\ LeftFits(u)
        BY <1>0, <1>4 DEF IInv
    <2>2. OneFits(u)'
        BY <1>0, <2>1 DEF OneFits, Primaries
    <2>3. \A x \in Groups \cup Scopes : <<u, x>> \in holds' => <<u, x>> \in holds
        BY DEF Aside
    <2>4. LeftFits(u)'
        BY <1>0, <2>1, <2>3 DEF LeftFits, Member, ToCome
    <2>. QED  BY <2>2, <2>4
<1>5. \A g \in Groups \ crossed' : GroupFits(g)'
    BY <1>0 DEF IInv, GroupFits
<1>6. ASSUME NEW g \in Groups \ (crossed' \cup halted')
      PROVE  EmptyFits(g)'
    <2>1. EmptyFits(g)
        BY <1>0, <1>6 DEF IInv
    <2>2. /\ \A u \in Users : <<u, g>> \in holds' => <<u, g>> \in holds
          /\ (g \in sweeping => g \in sweeping') \/ \A u \in Users : <<u, g>> \notin holds'
        BY <1>6 DEF Aside
    <2>. QED  BY <1>0, <2>1, <2>2 DEF EmptyFits
<1>7. ASSUME NEW s \in Scopes \ crossed'
      PROVE  ScopeFits(s)'
    <2>1. ScopeFits(s)
        BY <1>0, <1>7 DEF IInv
    <2>2. \A h \in Holders : <<h, s>> \in holds' => <<h, s>> \in holds
        BY <1>7 DEF Aside
    <2>3. \A r \in Requests : Gone(req[r].phase) \subseteq Holders
        BY DEF Gone, Holders
    <2>. QED  BY <1>0, <2>1, <2>2, <2>3 DEF ScopeFits
<1>. QED  BY <1>1, <1>2, <1>3, <1>4, <1>5, <1>6, <1>7 DEF IInv

LEMMA ActFits ==
    ASSUME IInv, NEW r \in Requests, Act(r)
    PROVE  IInv'
<1>1. TypeOK /\ Shapes /\ Alone /\ Orderly(r)
    BY ActsAreOrderly DEF IInv
<1>2. TypeOK'
    BY <1>1 DEF Orderly, Moves, Tables, TypeOK
<1>3. Shapes'
    <2>1. ASSUME NEW q \in Requests
          PROVE  Shape(q)'
        <3>1. CASE q = r
            BY <1>1, <3>1 DEF Orderly
        <3>2. CASE q # r
            BY <1>1, <3>2 DEF Orderly, Moves, Shapes, Shape
        <3>. QED  BY <3>1, <3>2
    <2>. QED  BY <2>1 DEF Shapes
<1>4. Alone'
    BY <1>1 DEF Orderly
<1>. QED  BY <1>2, <1>3, <1>4, UserActs, OneActs, LeftActs, GroupActs, EmptyActs, ScopeActs DEF IInv

LEMMA StutterFits ==
    ASSUME IInv, UNCHANGED vars
    PROVE  IInv'
<1>1. TypeOK' /\ Shapes' /\ Alone'
    BY DEF vars, IInv, TypeOK, Shapes, Shape, Alone
<1>2. Tables'
    BY <1>1 DEF TypeOK, Tables
<1>3. Aside
    BY <1>1, <1>2 DEF vars, Aside, TypeOK
<1>. QED  BY <1>3, AsideFits

LEMMA InitFits == Init => IInv
<1>. SUFFICES ASSUME Init PROVE IInv
    OBVIOUS
<1>1. TypeOK
    BY ConstantsOk, IdleFields DEF Init, TypeOK, Relations
<1>2. \A r \in Requests : req[r] = Idle
    BY DEF Init
<1>3. Shapes /\ Alone
    BY <1>2, IdleFields DEF Shapes, Shape, RelPhases, Dropping, Alone
<1>4. \A u \in Users : UserFits(u) /\ OneFits(u) /\ LeftFits(u)
    BY <1>2, IdleFields DEF Init, UserFits, Related, OneFits, Primaries, LeftFits
<1>5. \A g \in Groups : GroupFits(g) /\ EmptyFits(g)
    BY <1>2, IdleFields DEF Init, GroupFits, EmptyFits
<1>6. \A s \in Scopes : ScopeFits(s)
    BY <1>2, IdleFields DEF ScopeFits
<1>. QED  BY <1>1, <1>3, <1>4, <1>5, <1>6 DEF IInv

LEMMA Invariant == Spec => []IInv
<1>1. IInv /\ [Next]_vars => IInv'
    <2>1. ASSUME IInv, Next
          PROVE  IInv'
        <3>1. \/ \E r \in Requests : Act(r)
              \/ \E row \in holds : TakeAway(row[1], row[2])
              \/ \E u \in Users : SaveRefreshToken(u)
              \/ \E g \in Groups : Sweep(g) \/ LoseSweep(g)
            BY <2>1 DEF Next, Act
        <3>2. TypeOK
            BY <2>1 DEF IInv
        <3>3. ASSUME \A r \in Requests : ~Act(r)
              PROVE  Aside
            BY <3>1, <3>2, <3>3, AsideSteps
        <3>. QED  BY <2>1, <3>3, ActFits, AsideFits
    <2>. QED  BY <2>1, StutterFits
<1>. QED  BY <1>1, InitFits, PTL DEF Spec

-----------------------------------------------------------------------------
(* Types; and nobody holds a scope that is not available in the tenant.    *)
THEOREM TypeCorrect == Spec => []TypeOK
<1>1. IInv => TypeOK
    BY DEF IInv
<1>. QED  BY <1>1, Invariant, PTL

(* "There should always be a primary rel", for users no two requests were
   at work on at the same time, whichever request dies.                    *)
THEOREM PrimaryStays == Spec => []PrimaryRemains
<1>1. IInv => PrimaryRemains
    BY DEF IInv, UserFits, PrimaryRemains
<1>. QED  BY <1>1, Invariant, PTL

(* And no second one, between requests.                                    *)
THEOREM NoSecondPrimary == Spec => []OnePrimary
<1>1. ASSUME IInv, NEW u \in Users, Undisturbed(u)
      PROVE  Cardinality(Primaries(u)) <= 1
    <2>1. OneFits(u) /\ \A r \in Requests : u \notin req[r].about
        BY <1>1 DEF IInv, Undisturbed, Quiet
    <2>2. \A t1, t2 \in Primaries(u) : t1 = t2
        BY <2>1, OnlyOne
    <2>3. CASE Primaries(u) = {}
        BY <2>3, FS_EmptySet
    <2>4. ASSUME NEW t \in Primaries(u)
          PROVE  Cardinality(Primaries(u)) <= 1
        <3>1. Primaries(u) = {t}
            BY <2>2
        <3>. QED  BY <3>1, FS_Singleton
    <2>. QED  BY <2>3, <2>4
<1>2. IInv => OnePrimary
    BY <1>1 DEF OnePrimary
<1>. QED  BY <1>2, Invariant, PTL

(* A removal that goes through leaves nothing of the user in the tenant.   *)
THEOREM LeaversLeaveNothing == Spec => []LeavingIsComplete
<1>1. ASSUME IInv, NEW u \in Users, Undisturbed(u), ~Member(u), NEW x \in Groups \cup Scopes
      PROVE  <<u, x>> \notin holds
    <2>1. LeftFits(u) /\ \A r \in Requests : u \notin req[r].about
        BY <1>1 DEF IInv, Undisturbed, Quiet
    <2>. QED  BY <1>1, <2>1 DEF LeftFits
<1>2. IInv => LeavingIsComplete
    BY <1>1 DEF LeavingIsComplete
<1>. QED  BY <1>2, Invariant, PTL

(* A default group has no members left once its sweep is over.             *)
THEOREM DefaultGroupsGetEmpty == Spec => []DefaultGroupsAreEmpty
<1>1. ASSUME IInv, NEW g \in default \ sweeping, Undisturbed(g), NEW u \in Users
      PROVE  <<u, g>> \notin holds
    <2>1. g \in Groups
        BY <1>1 DEF IInv, TypeOK
    <2>2. EmptyFits(g)
        BY <1>1, <2>1 DEF IInv, Undisturbed
    <2>. QED  BY <1>1, <2>2 DEF EmptyFits
<1>2. IInv => DefaultGroupsAreEmpty
    BY <1>1 DEF DefaultGroupsAreEmpty
<1>. QED  BY <1>2, Invariant, PTL

(* The foreign keys find nothing to refuse when a scope is removed.        *)
THEOREM ScopesCanGo == Spec => []RemovalGoesThrough
<1>1. ASSUME IInv, NEW r \in Requests, req[r].phase = "dropScope", NEW s \in req[r].todo \ crossed
      PROVE  ~Held(s)
    <2>1. s \in Scopes /\ s \in req[r].about
        BY <1>1 DEF IInv, Shapes, Shape, Dropping
    <2>2. \A h \in Holders : <<h, s>> \notin holds
        BY <1>1, <2>1 DEF IInv, ScopeFits, Gone
    <2>. QED  BY <2>2 DEF Held
<1>2. IInv => RemovalGoesThrough
    BY <1>1 DEF RemovalGoesThrough
<1>. QED  BY <1>2, Invariant, PTL

=============================================================================
