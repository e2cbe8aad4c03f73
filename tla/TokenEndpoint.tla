----------------------------- MODULE TokenEndpoint -----------------------------
(***************************************************************************)
(* The token endpoint (pages/api/[tenant_id]/oidc/token.ts) and what it     *)
(* consumes: authorization codes, approved device codes and refresh         *)
(* tokens.                                                                  *)
(*                                                                         *)
(* Any number of requests are answered at a time.  A request holds the row  *)
(* it read and goes on from await to await; users are locked, clients       *)
(* disabled, tokens revoked, rows expired and reaped in between.  A         *)
(* statement the code does not wait for is in flight until it arrives.      *)
(*                                                                         *)
(* There is one client of one tenant; a client asks with its own client id. *)
(* The client credentials grant changes no state and is left out.  Codes    *)
(* and approvals come from the login (AuthenticationSession).               *)
(***************************************************************************)
EXTENDS Naturals

CONSTANTS
    Requests,
    Users,
    Codes,              \* authorization codes the login may generate
    Devices,            \* device codes that may be asked for
    Tokens,             \* refresh tokens that may be generated
    MaxRefreshTokenCount,
    Unlimited,          \* maxRefreshTokenCount is null
    CountsAreText,      \* the driver reads a bigint column as a string
    NoGrant,            \* what an idle request is about
    MaxMishaps          \* bound: expiries, revocations, switches, lost deletions

ASSUME ConstantsOk ==
    /\ Users # {}
    /\ MaxRefreshTokenCount \in Nat
    /\ Unlimited \in BOOLEAN
    /\ CountsAreText \in BOOLEAN
    /\ MaxMishaps \in Nat
    /\ Codes \cap Tokens = {} /\ Codes \cap Devices = {} /\ Devices \cap Tokens = {}
    /\ NoGrant \notin Codes \cup Devices \cup Tokens

Grants == Codes \cup Devices \cup Tokens

ClientStates == {"open", "closing", "disabled"}
ClientTypes == {"SECURE_CLIENT", "PKCE", "DEVICE"}

VARIABLES
    codes,          \* [Codes -> row of authorization_code_data]
    devices,        \* [Devices -> row of authorization_device_code_data]
    tokens,         \* [Tokens -> row of refresh_data]
    expired,        \* SUBSET Grants: rows past expiresAtMs
    users,          \* [Users -> BOOLEAN]: enabled, not locked, not marked for deletion
    client,         \* "closing": it is enabled, its tenant is not
    req,            \* [Requests -> what a request holds between two awaits]
    inFlight,       \* SUBSET (Codes \cup Tokens): deletions nobody waits for
    mishaps,        \* how much went on around the requests so far
    bought,         \* history: devices whose code brought a refresh token
    rotated         \* history: refresh tokens whose exchange was answered

vars == <<codes, devices, tokens, expired, users, client, req, inFlight, mishaps,
          bought, rotated>>
rows == <<codes, devices, tokens>>
history == <<bought, rotated>>
world == <<users, client, mishaps>>

AnyUser == CHOOSE u \in Users : TRUE

States == {"unused", "stored", "gone"}
CodeRows == [state : States, user : Users, pkce : BOOLEAN]
NoCode(state) == [state |-> state, user |-> AnyUser, pkce |-> FALSE]

Decisions == {"Pending", "Approved", "Cancelled"}
DeviceRows == [state : {"unused", "gone"} \cup Decisions, user : Users]
NoDevice(state) == [state |-> state, user |-> AnyUser]

(* count is refreshCount.  As history: generation, the place in a chain of
   exchanges, and proven, whether the client had proved itself when the token
   was generated.                                                          *)
TokenRows == [state : States, user : Users, type : ClientTypes, count : Nat,
              generation : Nat, proven : BOOLEAN]
NoToken(state) == [state |-> state, user |-> AnyUser, type |-> "DEVICE", count |-> 0,
                   generation |-> 0, proven |-> FALSE]

Phases == {"idle", "client", "credentials", "consume",
           "readUser", "readClient", "save", "retire"}

(* proven: the request carries the client's secret, or the verifier of the
   code; a missing one, a wrong tenant, client, redirect URI or scope counts
   as unproven and is refused no later.  live, as history: the user could log in at some time since the request
   came in.                                                                *)
ReqStates == [phase : Phases, grant : Grants \cup {NoGrant}, user : Users, type : ClientTypes,
              count : Nat, generation : Nat, proven : BOOLEAN, live : BOOLEAN]
Idle == [phase |-> "idle", grant |-> NoGrant, user |-> AnyUser, type |-> "DEVICE",
         count |-> 0, generation |-> 0, proven |-> FALSE, live |-> FALSE]

Become(r, state) == req' = [req EXCEPT ![r] = state]
Goto(r, phase) == Become(r, [req[r] EXCEPT !.phase = phase])
Answer(r) == Become(r, Idle)

Init ==
    /\ codes = [c \in Codes |-> NoCode("unused")]
    /\ devices = [d \in Devices |-> NoDevice("unused")]
    /\ tokens = [t \in Tokens |-> NoToken("unused")]
    /\ expired = {}
    /\ users = [u \in Users |-> TRUE]
    /\ client = "open"
    /\ req = [r \in Requests |-> Idle]
    /\ inFlight = {}
    /\ mishaps = 0
    /\ bought = {} /\ rotated = {}

-----------------------------------------------------------------------------
(* What the login and the device-code endpoint store.                      *)

GenerateAuthorizationCode(c, u, pkce) ==
    /\ codes[c].state = "unused"
    /\ codes' = [codes EXCEPT ![c] = [state |-> "stored", user |-> u, pkce |-> pkce]]
    /\ UNCHANGED <<devices, tokens, expired, world, req, inFlight, history>>

SaveDeviceCode(d) ==
    /\ devices[d].state = "unused"
    /\ client = "open"
    /\ devices' = [devices EXCEPT ![d].state = "Pending"]
    /\ UNCHANGED <<codes, tokens, expired, world, req, inFlight, history>>

(* The login writes the row it read: whatever was decided before, and
   nothing when the row is gone.                                           *)
DecideDevice(d, u) ==
    /\ devices[d].state \in Decisions
    /\ devices' \in {[devices EXCEPT ![d] = [state |-> "Approved", user |-> u]],
                     [devices EXCEPT ![d].state = "Cancelled"]}
    /\ UNCHANGED <<codes, tokens, expired, world, req, inFlight, history>>

-----------------------------------------------------------------------------
(* A request comes in and reads its row.                                   *)

Begin(r, phase, g, u, type, proven) ==
    Become(r, [phase |-> phase, grant |-> g, user |-> u, type |-> type,
               count |-> 0, generation |-> 0, proven |-> proven, live |-> users[u]])

(* handleAuthorizationCodeGrant: the code is deleted whatever follows, and
   nobody waits for it.                                                    *)
HandleAuthorizationCodeGrant(r, c, proven) ==
    /\ req[r].phase = "idle"
    /\ codes[c].state = "stored"
    /\ inFlight' = inFlight \cup {c}
    /\ LET type == IF codes[c].pkce THEN "PKCE" ELSE "SECURE_CLIENT"
           accepted == c \notin expired /\ (codes[c].pkce => proven)
           phase == IF codes[c].pkce THEN "readUser" ELSE "credentials"
       IN IF accepted THEN Begin(r, phase, c, codes[c].user, type, proven)
                      ELSE UNCHANGED req
    /\ UNCHANGED <<rows, expired, world, history>>

HandleRefreshTokenGrant(r, t, proven) ==
    /\ req[r].phase = "idle"
    /\ tokens[t].state = "stored" /\ t \notin expired
    /\ Become(r, [phase |-> "client", grant |-> t, user |-> tokens[t].user,
                  type |-> tokens[t].type, count |-> tokens[t].count,
                  generation |-> tokens[t].generation, proven |-> proven,
                  live |-> users[tokens[t].user]])
    /\ UNCHANGED <<rows, expired, world, inFlight, history>>

(* A pending, cancelled or expired device code is answered at once.        *)
HandleDeviceCodeGrant(r, d) ==
    /\ req[r].phase = "idle"
    /\ devices[d].state = "Approved" /\ d \notin expired
    /\ Begin(r, "consume", d, devices[d].user, "DEVICE", FALSE)
    /\ UNCHANGED <<rows, expired, world, inFlight, history>>

-----------------------------------------------------------------------------
(* The checks of the refresh token grant.                                  *)

MaxedOut(r) ==
    /\ req[r].grant \in Tokens
    /\ ~Unlimited /\ MaxRefreshTokenCount # 0
    /\ req[r].count > MaxRefreshTokenCount

(* The last check before the token is signed; a token that was used too
   often is deleted, again without waiting.                                *)
CheckRefreshCount(r) ==
    IF MaxedOut(r)
    THEN Answer(r) /\ inFlight' = inFlight \cup {req[r].grant}
    ELSE Goto(r, "readUser") /\ UNCHANGED inFlight

(* The verifier is hashed and compared with itself, not with the challenge
   of the token: it never matches.                                         *)
ValidateCodeVerifier(r) == FALSE

(* Only a disabled client is refused here; signUserJwt sees the rest.       *)
ReadRefreshClient(r) ==
    /\ req[r].phase = "client"
    /\ \/ /\ client = "disabled" \/ (req[r].type = "PKCE" /\ ~ValidateCodeVerifier(r))
          /\ Answer(r) /\ UNCHANGED inFlight
       \/ /\ client # "disabled" /\ req[r].type = "SECURE_CLIENT"
          /\ Goto(r, "credentials") /\ UNCHANGED inFlight
       \/ /\ client # "disabled" /\ req[r].type # "SECURE_CLIENT"
          /\ req[r].type = "PKCE" => ValidateCodeVerifier(r)
          /\ CheckRefreshCount(r)
    /\ UNCHANGED <<rows, expired, world, history>>

ValidateClientCredentials_Faulty(r) ==
    /\ req[r].phase = "credentials"
    /\ CheckRefreshCount(r)
    /\ UNCHANGED <<rows, expired, world, history>>

ValidateClientCredentials(r) ==
    /\ req[r].phase = "credentials"
    /\ IF req[r].proven THEN CheckRefreshCount(r)
                                 ELSE Answer(r) /\ UNCHANGED inFlight
    /\ UNCHANGED <<rows, expired, world, history>>

DeleteDeviceCode_Faulty(r) ==
    /\ req[r].phase = "consume"
    /\ inFlight' = inFlight \cup {req[r].grant}
    /\ Goto(r, "readUser")
    /\ UNCHANGED <<rows, expired, world, history>>

(* "Delete the device code data, regardless of whether any errors occur
   afterwards."                                                            *)
DeleteDeviceCode(r) ==
    /\ req[r].phase = "consume"
    /\ devices' = [devices EXCEPT ![req[r].grant] = NoDevice("gone")]
    /\ Goto(r, "readUser")
    /\ UNCHANGED <<codes, tokens, expired, world, inFlight, history>>

-----------------------------------------------------------------------------
(* signUserJwt and what follows it.                                        *)

ReadUser_Faulty(r) ==
    /\ req[r].phase = "readUser"
    /\ Goto(r, "readClient")
    /\ UNCHANGED <<rows, expired, world, inFlight, history>>

ReadUser(r) ==
    /\ req[r].phase = "readUser"
    /\ IF users[req[r].user] THEN Goto(r, "readClient") ELSE Answer(r)
    /\ UNCHANGED <<rows, expired, world, inFlight, history>>

GeneratesRefreshToken == Unlimited \/ MaxRefreshTokenCount > 0

(* A refresh token that was exchanged is deleted before the answer.         *)
Conclude(r) == IF req[r].grant \in Tokens THEN Goto(r, "retire") ELSE Answer(r)

(* Client and tenant are read and the token signed, if there is a key.      *)
SignUserJwt(r) ==
    /\ req[r].phase = "readClient"
    /\ \/ Answer(r)
       \/ /\ client = "open"
          /\ IF GeneratesRefreshToken THEN Goto(r, "save") ELSE Conclude(r)
    /\ UNCHANGED <<rows, expired, world, inFlight, history>>

(* "1" + 1 is "11".                                                        *)
Incremented(count) == IF CountsAreText THEN 10 * count + 1 ELSE count + 1

RefreshCount_Faulty(r) == 1

(* The count of a first token is the number 1.                             *)
RefreshCount(r) == IF req[r].grant \in Tokens THEN Incremented(req[r].count) ELSE 1

(* Before its token is stored a device code is deleted once more.          *)
SaveRefreshData(r, t) ==
    /\ req[r].phase = "save"
    /\ tokens[t].state = "unused"
    /\ tokens' = [tokens EXCEPT ![t] = [state |-> "stored", user |-> req[r].user,
                      type |-> req[r].type, count |-> RefreshCount(r),
                      generation |-> req[r].generation + 1, proven |-> req[r].proven]]
    /\ devices' = [d \in Devices |-> IF d = req[r].grant THEN NoDevice("gone") ELSE devices[d]]
    /\ Conclude(r)
    /\ bought' = bought \cup ({req[r].grant} \cap Devices)
    /\ UNCHANGED <<codes, expired, world, inFlight, rotated>>

Without(gone) == [t \in Tokens |-> IF t \in gone THEN NoToken("gone") ELSE tokens[t]]

RetireRefreshToken_Faulty(r) ==
    /\ req[r].phase = "retire"
    /\ Answer(r)
    /\ inFlight' = inFlight \cup {req[r].grant}
    /\ rotated' = rotated \cup {req[r].grant}
    /\ UNCHANGED <<rows, expired, world, bought>>

(* The old token is deleted before the answer is sent.                     *)
RetireRefreshToken(r) ==
    /\ req[r].phase = "retire"
    /\ tokens' = Without({req[r].grant})
    /\ Answer(r)
    /\ rotated' = rotated \cup {req[r].grant}
    /\ UNCHANGED <<codes, devices, expired, world, inFlight, bought>>

-----------------------------------------------------------------------------
(* Around the endpoint.  A request that stops for good is one whose next
   step never comes.                                                       *)

Mishap == mishaps < MaxMishaps /\ mishaps' = mishaps + 1

(* A deletion nobody waits for arrives, or is rejected.                    *)
DeletionArrives(g) ==
    /\ g \in inFlight
    /\ inFlight' = inFlight \ {g}
    /\ codes' = [c \in Codes |-> IF c = g THEN NoCode("gone") ELSE codes[c]]
    /\ tokens' = Without({g})
    /\ UNCHANGED <<devices, expired, world, req, history>>

DeletionFails(g) ==
    /\ g \in inFlight
    /\ inFlight' = inFlight \ {g}
    /\ Mishap
    /\ UNCHANGED <<rows, expired, users, client, req, history>>

(* The revocation endpoint: with a refresh token that row, with an access
   token every row of its user, client and tenant.                         *)
Revoke(revoked) ==
    /\ \E t \in revoked : tokens[t].state = "stored"
    /\ tokens' = Without(revoked)
    /\ Mishap
    /\ UNCHANGED <<codes, devices, expired, users, client, req, inFlight, history>>

OfUser(u) == {t \in Tokens : tokens[t].state = "stored" /\ tokens[t].user = u}

Stored(g) ==
    \/ g \in Codes /\ codes[g].state = "stored"
    \/ g \in Devices /\ devices[g].state \in Decisions
    \/ g \in Tokens /\ tokens[g].state = "stored"

Expire(g) ==
    /\ Stored(g) /\ g \notin expired
    /\ expired' = expired \cup {g}
    /\ Mishap
    /\ UNCHANGED <<rows, users, client, req, inFlight, history>>

(* authDao.deleteExpiredData, one table after the other.                   *)
DeleteExpiredCodes ==
    /\ \E c \in Codes : Stored(c) /\ c \in expired
    /\ codes' = [c \in Codes |-> IF Stored(c) /\ c \in expired
                                 THEN NoCode("gone") ELSE codes[c]]
    /\ UNCHANGED <<devices, tokens, expired, world, req, inFlight, history>>

DeleteExpiredTokens ==
    /\ \E t \in Tokens : Stored(t) /\ t \in expired
    /\ tokens' = Without(expired)
    /\ UNCHANGED <<codes, devices, expired, world, req, inFlight, history>>

DeleteExpiredDevices ==
    /\ \E d \in Devices : Stored(d) /\ d \in expired
    /\ devices' = [d \in Devices |-> IF Stored(d) /\ d \in expired
                                     THEN NoDevice("gone") ELSE devices[d]]
    /\ UNCHANGED <<codes, tokens, expired, world, req, inFlight, history>>

(* A user is locked or unlocked, the client or tenant disabled or enabled. *)
SwitchUser(u) ==
    /\ users' = [users EXCEPT ![u] = ~@]
    /\ req' = [r \in Requests |->
                   IF req[r].phase # "idle" /\ req[r].user = u
                   THEN [req[r] EXCEPT !.live = TRUE] ELSE req[r]]
    /\ Mishap
    /\ UNCHANGED <<rows, expired, client, inFlight, history>>

SwitchClient(state) ==
    /\ state # client
    /\ client' = state
    /\ Mishap
    /\ UNCHANGED <<rows, expired, users, req, inFlight, history>>

-----------------------------------------------------------------------------
Continue(r) ==
    \/ ReadRefreshClient(r)
    \/ ValidateClientCredentials(r)
    \/ DeleteDeviceCode(r)
    \/ ReadUser(r)
    \/ SignUserJwt(r)
    \/ \E t \in Tokens : SaveRefreshData(r, t)
    \/ RetireRefreshToken(r)

Request(r) ==
    \/ \E c \in Codes, proven \in BOOLEAN : HandleAuthorizationCodeGrant(r, c, proven)
    \/ \E t \in Tokens, proven \in BOOLEAN : HandleRefreshTokenGrant(r, t, proven)
    \/ \E d \in Devices : HandleDeviceCodeGrant(r, d)

DeleteExpiredData == DeleteExpiredCodes \/ DeleteExpiredTokens \/ DeleteExpiredDevices

Next ==
    \/ \E c \in Codes, u \in Users, pkce \in BOOLEAN : GenerateAuthorizationCode(c, u, pkce)
    \/ \E d \in Devices : SaveDeviceCode(d)
    \/ \E d \in Devices, u \in Users : DecideDevice(d, u)
    \/ \E r \in Requests : Request(r)
    \/ \E r \in Requests : Continue(r)
    \/ \E g \in inFlight : DeletionArrives(g)
    \/ \E g \in inFlight : DeletionFails(g)
    \/ \E t \in Tokens : Revoke({t})
    \/ \E u \in Users : Revoke(OfUser(u))
    \/ \E g \in Grants : Expire(g)
    \/ DeleteExpiredData
    \/ \E u \in Users : SwitchUser(u)
    \/ \E state \in ClientStates : SwitchClient(state)

Spec == Init /\ [][Next]_vars

-----------------------------------------------------------------------------
(* Properties.                                                             *)

TypeOK ==
    /\ codes \in [Codes -> CodeRows]
    /\ devices \in [Devices -> DeviceRows]
    /\ tokens \in [Tokens -> TokenRows]
    /\ expired \subseteq Grants
    /\ users \in [Users -> BOOLEAN]
    /\ client \in ClientStates
    /\ req \in [Requests -> ReqStates]
    /\ inFlight \subseteq Codes \cup Tokens
    /\ mishaps \in 0..MaxMishaps
    /\ bought \subseteq Devices
    /\ rotated \subseteq Tokens

(* A refresh token is only ever generated for a client that proved itself in
   the request that got it: a later generation needs the proof again.       *)
TokensAreProven ==
    \A t \in Tokens : tokens[t].state = "stored" /\ tokens[t].type # "DEVICE" =>
        tokens[t].proven

(* Tokens are signed only for a user who could log in at some time since the
   request came in, however long ago the code was approved or the refresh
   token generated; signUserJwt reads the user again.                      *)
LockedUsersGetNothing ==
    \A r \in Requests : req[r].phase \in {"readClient", "save", "retire"} => req[r].live

(* No chain of refresh tokens is longer than maxRefreshTokenCount exchanges,
   also when racing requests use one token several times, each counting on
   from the row it read.                                                   *)
ChainsAreShort ==
    ~Unlimited => \A t \in Tokens : tokens[t].generation <= MaxRefreshTokenCount + 1

(* An answered exchange has removed the old token for good, and a device
   code that brought a token is gone, whatever the login still writes.     *)
UsedUp ==
    /\ \A t \in rotated : tokens[t].state = "gone"
    /\ \A d \in bought : devices[d].state = "gone"

(* "Otherwise validate the original code challenge against the verifier":
   a public client that shows the verifier of its code is not refused.     *)
PublicClientsRefresh ==
    [][\A r \in Requests :
          /\ req[r].phase = "client" /\ req[r].type = "PKCE"
          /\ req[r].proven /\ client = "open" /\ ~MaxedOut(r)
          => req'[r].phase # "idle"]_vars

=============================================================================
