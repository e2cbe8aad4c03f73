-------------------------- MODULE TokenEndpointProofs --------------------------
(***************************************************************************)
(* Proofs about TokenEndpoint, for any number of requests, users, codes,    *)
(* devices and tokens, any refresh limit, and either reading of the count.  *)
(*                                                                         *)
(* The inductive invariant says of every request what it has been checked   *)
(* for so far (Sound), and of every row of refresh_data what was true of    *)
(* the request it comes from (Stands).                                      *)
(***************************************************************************)
EXTENDS TokenEndpoint, TLAPS

Signing == {"readUser", "readClient", "save", "retire"}

(* q is a request's state, us which users can log in.                      *)
Sound(q, us) ==
    /\ q.phase \in Signing /\ q.type # "DEVICE" => q.proven
    /\ q.phase # "idle" /\ us[q.user] => q.live
    /\ q.phase \in {"readClient", "save", "retire"} => q.live
    /\ q.grant \in Tokens => q.generation <= q.count
    /\ q.grant \notin Tokens => q.generation = 0
    /\ q.phase \in Signing /\ q.grant \in Tokens /\ ~Unlimited /\ MaxRefreshTokenCount # 0
           => q.count <= MaxRefreshTokenCount
    /\ q.phase = "save" /\ ~Unlimited => MaxRefreshTokenCount # 0
    /\ q.phase = "consume" => q.grant \in Devices /\ q.type = "DEVICE"
    /\ q.phase \in {"client", "retire"} => q.grant \in Tokens

Stands(row) ==
    /\ row.state = "stored" /\ row.type # "DEVICE" => row.proven
    /\ row.generation <= row.count
    /\ ~Unlimited => row.generation <= MaxRefreshTokenCount + 1

RequestsAreSound == \A r \in Requests : Sound(req[r], users)
TokensStand == \A t \in Tokens : Stands(tokens[t])

IInv == TypeOK /\ RequestsAreSound /\ TokensStand /\ UsedUp

-----------------------------------------------------------------------------
(* What the initial and emptied rows are.                                  *)

LEMMA Empty ==
    /\ AnyUser \in Users
    /\ Idle \in ReqStates /\ \A us \in [Users -> BOOLEAN] : Sound(Idle, us)
    /\ \A state \in States : NoCode(state) \in CodeRows /\ NoToken(state) \in TokenRows
    /\ \A state \in States : Stands(NoToken(state))
    /\ \A state \in {"unused", "gone"} : NoDevice(state) \in DeviceRows
<1>1. AnyUser \in Users
    BY ConstantsOk DEF AnyUser
<1>2. Idle \in ReqStates
    BY <1>1 DEF Idle, ReqStates, Phases, ClientTypes
<1>3. \A us \in [Users -> BOOLEAN] : Sound(Idle, us)
    BY ConstantsOk DEF Idle, Sound, Signing, Grants
<1>4. \A state \in States : NoCode(state) \in CodeRows /\ NoToken(state) \in TokenRows
    BY <1>1 DEF NoCode, CodeRows, NoToken, TokenRows, ClientTypes
<1>5. \A state \in States : Stands(NoToken(state))
    BY ConstantsOk DEF Stands, NoToken
<1>6. \A state \in {"unused", "gone"} : NoDevice(state) \in DeviceRows
    BY <1>1 DEF NoDevice, DeviceRows
<1>. QED  BY <1>1, <1>2, <1>3, <1>4, <1>5, <1>6

(* A request gets a new state, the others keep theirs.                     *)
LEMMA BecomeMoves ==
    ASSUME TypeOK, RequestsAreSound, users' = users,
           NEW r \in Requests, NEW state \in ReqStates,
           Sound(state, users), Become(r, state)
    PROVE  req' \in [Requests -> ReqStates] /\ RequestsAreSound'
<1>1. /\ req' \in [Requests -> ReqStates]
      /\ \A o \in Requests : req'[o] = IF o = r THEN state ELSE req[o]
    BY DEF TypeOK, Become
<1>2. \A o \in Requests : Sound(req'[o], users')
    BY <1>1 DEF RequestsAreSound
<1>. QED  BY <1>1, <1>2 DEF RequestsAreSound

LEMMA AnswerMoves ==
    ASSUME TypeOK, RequestsAreSound, users' = users,
           NEW r \in Requests, Answer(r)
    PROVE  req' \in [Requests -> ReqStates] /\ RequestsAreSound'
<1>1. Idle \in ReqStates /\ Sound(Idle, users)
    BY Empty DEF TypeOK
<1>2. Become(r, Idle)
    BY DEF Answer
<1>. QED  BY <1>1, <1>2, BecomeMoves

(* Only the phase of a request changes.                                    *)
LEMMA GotoMoves ==
    ASSUME TypeOK, NEW r \in Requests, NEW phase \in Phases, Goto(r, phase)
    PROVE  /\ req' \in [Requests -> ReqStates]
           /\ \A o \in Requests \ {r} : req'[o] = req[o]
           /\ req'[r].phase = phase
           /\ req'[r].grant = req[r].grant
           /\ req'[r].user = req[r].user
           /\ req'[r].type = req[r].type
           /\ req'[r].count = req[r].count
           /\ req'[r].generation = req[r].generation
           /\ req'[r].proven = req[r].proven
           /\ req'[r].live = req[r].live
<1>1. req[r] \in ReqStates
    BY DEF TypeOK
<1>2. req' = [req EXCEPT ![r] = [req[r] EXCEPT !.phase = phase]]
    BY DEF Goto, Become
<1>3. [req[r] EXCEPT !.phase = phase] \in ReqStates
    BY <1>1 DEF ReqStates
<1>. QED  BY <1>1, <1>2, <1>3 DEF TypeOK, ReqStates

LEMMA OthersAreSound ==
    ASSUME RequestsAreSound, users' = users, NEW r \in Requests,
           \A o \in Requests \ {r} : req'[o] = req[o],
           Sound(req'[r], users)
    PROVE  RequestsAreSound'
BY DEF RequestsAreSound

(* Rows that go leave nothing wrong behind.                                *)
LEMMA WithoutStands ==
    ASSUME TypeOK, TokensStand, NEW gone, tokens' = Without(gone)
    PROVE  /\ tokens' \in [Tokens -> TokenRows]
           /\ TokensStand'
           /\ \A t \in Tokens : t \in gone \/ tokens[t].state = "gone" => tokens'[t].state = "gone"
<1>1. /\ NoToken("gone") \in TokenRows
      /\ Stands(NoToken("gone"))
      /\ NoToken("gone").state = "gone"
    BY Empty DEF NoToken, States
<1>2. \A t \in Tokens : tokens'[t] = IF t \in gone THEN NoToken("gone") ELSE tokens[t]
    BY DEF Without
<1>3. tokens' \in [Tokens -> TokenRows]
    BY <1>1 DEF Without, TypeOK
<1>4. \A t \in Tokens : Stands(tokens'[t])
    BY <1>1, <1>2 DEF TokensStand
<1>. QED  BY <1>1, <1>2, <1>3, <1>4 DEF TokensStand

(* Nothing but requests and deletions under way changes.                   *)
LEMMA OnlyRequests ==
    ASSUME IInv, UNCHANGED <<rows, expired, world, history>>,
           req' \in [Requests -> ReqStates], RequestsAreSound',
           inFlight' \subseteq Codes \cup Tokens
    PROVE  IInv'
BY DEF IInv, TypeOK, TokensStand, UsedUp, rows, world, history

-----------------------------------------------------------------------------
(* One lemma per action, or per group of actions that are alike.           *)

LEMMA InitIsSound == Init => IInv
<1>. SUFFICES ASSUME Init PROVE IInv
    OBVIOUS
<1>1. /\ codes \in [Codes -> CodeRows]
      /\ devices \in [Devices -> DeviceRows]
      /\ tokens \in [Tokens -> TokenRows]
    BY Empty DEF Init, States
<1>2. req \in [Requests -> ReqStates] /\ users \in [Users -> BOOLEAN]
    BY Empty DEF Init
<1>3. TypeOK
    BY <1>1, <1>2, ConstantsOk DEF Init, TypeOK, ClientStates
<1>4. RequestsAreSound
    BY <1>2, Empty DEF Init, RequestsAreSound
<1>5. TokensStand
    BY Empty DEF Init, TokensStand, States
<1>6. UsedUp
    BY DEF Init, UsedUp
<1>. QED  BY <1>3, <1>4, <1>5, <1>6 DEF IInv

LEMMA GenerateKeeps ==
    ASSUME IInv, NEW c \in Codes, NEW u \in Users, NEW pkce \in BOOLEAN,
           GenerateAuthorizationCode(c, u, pkce)
    PROVE  IInv'
<1>1. codes' \in [Codes -> CodeRows]
    BY DEF IInv, TypeOK, GenerateAuthorizationCode, CodeRows, States
<1>. QED  BY <1>1 DEF IInv, TypeOK, RequestsAreSound, TokensStand, UsedUp,
             GenerateAuthorizationCode, world, history

LEMMA SaveDeviceKeeps ==
    ASSUME IInv, NEW d \in Devices, SaveDeviceCode(d)
    PROVE  IInv'
<1>1. devices' \in [Devices -> DeviceRows]
    BY DEF IInv, TypeOK, SaveDeviceCode, DeviceRows, Decisions
<1>2. \A e \in Devices : devices[e].state = "gone" => devices'[e].state = "gone"
    BY DEF IInv, TypeOK, SaveDeviceCode
<1>. QED  BY <1>1, <1>2 DEF IInv, TypeOK, RequestsAreSound, TokensStand, UsedUp,
             SaveDeviceCode, world, history

LEMMA DecideKeeps ==
    ASSUME IInv, NEW d \in Devices, NEW u \in Users, DecideDevice(d, u)
    PROVE  IInv'
<1>1. devices' \in [Devices -> DeviceRows]
    BY DEF IInv, TypeOK, DecideDevice, DeviceRows, Decisions
<1>2. \A e \in Devices : devices[e].state = "gone" => devices'[e].state = "gone"
    BY DEF IInv, TypeOK, DecideDevice, Decisions
<1>. QED  BY <1>1, <1>2 DEF IInv, TypeOK, RequestsAreSound, TokensStand, UsedUp,
             DecideDevice, world, history

LEMMA CodeGrantKeeps ==
    ASSUME IInv, NEW r \in Requests, NEW c \in Codes, NEW proven \in BOOLEAN,
           HandleAuthorizationCodeGrant(r, c, proven)
    PROVE  IInv'
<1>1. /\ req[r].phase = "idle"
      /\ inFlight' = inFlight \cup {c}
      /\ UNCHANGED <<rows, expired, world, history>>
    BY DEF HandleAuthorizationCodeGrant
<1>2. inFlight' \subseteq Codes \cup Tokens
    BY <1>1 DEF IInv, TypeOK
<1>3. codes[c].user \in Users /\ codes[c].pkce \in BOOLEAN
    BY DEF IInv, TypeOK, CodeRows
<1>4. users' = users
    BY <1>1 DEF world
<1>5. CASE UNCHANGED req
    BY <1>1, <1>2, <1>4, <1>5, OnlyRequests DEF IInv, TypeOK, RequestsAreSound
<1>6. CASE codes[c].pkce /\ proven
           /\ Begin(r, "readUser", c, codes[c].user, "PKCE", proven)
    <2>. DEFINE state == [phase |-> "readUser", grant |-> c, user |-> codes[c].user,
                          type |-> "PKCE", count |-> 0, generation |-> 0,
                          proven |-> proven, live |-> users[codes[c].user]]
    <2>1. state \in ReqStates
        BY <1>3 DEF IInv, TypeOK, ReqStates, Phases, Grants, ClientTypes
    <2>2. Sound(state, users)
        BY <1>6, ConstantsOk DEF Sound, Signing
    <2>3. Become(r, state)
        BY <1>6 DEF Begin
    <2>. HIDE DEF state
    <2>4. req' \in [Requests -> ReqStates] /\ RequestsAreSound'
        BY <1>4, <2>1, <2>2, <2>3, BecomeMoves DEF IInv
    <2>. QED  BY <1>1, <1>2, <2>4, OnlyRequests
<1>7. CASE Begin(r, "credentials", c, codes[c].user, "SECURE_CLIENT", proven)
    <2>. DEFINE state == [phase |-> "credentials", grant |-> c, user |-> codes[c].user,
                          type |-> "SECURE_CLIENT", count |-> 0, generation |-> 0,
                          proven |-> proven, live |-> users[codes[c].user]]
    <2>1. state \in ReqStates
        BY <1>3 DEF IInv, TypeOK, ReqStates, Phases, Grants, ClientTypes
    <2>2. Sound(state, users)
        BY ConstantsOk DEF Sound, Signing
    <2>3. Become(r, state)
        BY <1>7 DEF Begin
    <2>. HIDE DEF state
    <2>4. req' \in [Requests -> ReqStates] /\ RequestsAreSound'
        BY <1>4, <2>1, <2>2, <2>3, BecomeMoves DEF IInv
    <2>. QED  BY <1>1, <1>2, <2>4, OnlyRequests
<1>. QED  BY <1>5, <1>6, <1>7 DEF HandleAuthorizationCodeGrant

LEMMA RefreshGrantKeeps ==
    ASSUME IInv, NEW r \in Requests, NEW t \in Tokens, NEW proven \in BOOLEAN,
           HandleRefreshTokenGrant(r, t, proven)
    PROVE  IInv'
<1>. DEFINE state == [phase |-> "client", grant |-> t, user |-> tokens[t].user,
                      type |-> tokens[t].type, count |-> tokens[t].count,
                      generation |-> tokens[t].generation, proven |-> proven,
                      live |-> users[tokens[t].user]]
<1>1. tokens[t] \in TokenRows /\ Stands(tokens[t])
    BY DEF IInv, TypeOK, TokensStand
<1>2. state \in ReqStates
    BY <1>1 DEF IInv, TypeOK, TokenRows, ReqStates, Phases, Grants
<1>3. Sound(state, users)
    BY <1>1 DEF Sound, Stands, Signing
<1>4. Become(r, state) /\ UNCHANGED <<rows, expired, world, inFlight, history>>
    BY DEF HandleRefreshTokenGrant
<1>. HIDE DEF state
<1>5. users' = users
    BY <1>4 DEF world
<1>6. req' \in [Requests -> ReqStates] /\ RequestsAreSound'
    BY <1>2, <1>3, <1>4, <1>5, BecomeMoves DEF IInv
<1>. QED  BY <1>4, <1>6, OnlyRequests DEF IInv, TypeOK

LEMMA DeviceGrantKeeps ==
    ASSUME IInv, NEW r \in Requests, NEW d \in Devices, HandleDeviceCodeGrant(r, d)
    PROVE  IInv'
<1>. DEFINE state == [phase |-> "consume", grant |-> d, user |-> devices[d].user,
                      type |-> "DEVICE", count |-> 0, generation |-> 0,
                      proven |-> FALSE, live |-> users[devices[d].user]]
<1>1. devices[d].user \in Users
    BY DEF IInv, TypeOK, DeviceRows
<1>2. state \in ReqStates
    BY <1>1 DEF IInv, TypeOK, ReqStates, Phases, Grants, ClientTypes
<1>3. Sound(state, users)
    BY ConstantsOk DEF Sound, Signing
<1>4. Become(r, state) /\ UNCHANGED <<rows, expired, world, inFlight, history>>
    BY DEF HandleDeviceCodeGrant, Begin
<1>. HIDE DEF state
<1>5. users' = users
    BY <1>4 DEF world
<1>6. req' \in [Requests -> ReqStates] /\ RequestsAreSound'
    BY <1>2, <1>3, <1>4, <1>5, BecomeMoves DEF IInv
<1>. QED  BY <1>4, <1>6, OnlyRequests DEF IInv, TypeOK

(* The client has proved itself and the token's count is looked at.         *)
LEMMA CountCheckKeeps ==
    ASSUME IInv, NEW r \in Requests, CheckRefreshCount(r), users' = users,
           req[r].phase \in {"client", "credentials"},
           req[r].type # "DEVICE" => req[r].proven
    PROVE  /\ req' \in [Requests -> ReqStates] /\ RequestsAreSound'
           /\ inFlight' \subseteq Codes \cup Tokens
<1>1. CASE MaxedOut(r)
    <2>1. Answer(r) /\ inFlight' = inFlight \cup {req[r].grant} /\ req[r].grant \in Tokens
        BY <1>1 DEF CheckRefreshCount, MaxedOut
    <2>2. req' \in [Requests -> ReqStates] /\ RequestsAreSound'
        BY <2>1, AnswerMoves DEF IInv
    <2>. QED  BY <2>1, <2>2 DEF IInv, TypeOK
<1>2. CASE ~MaxedOut(r)
    <2>1. Goto(r, "readUser") /\ inFlight' = inFlight
        BY <1>2 DEF CheckRefreshCount
    <2>2. "readUser" \in Phases
        BY DEF Phases
    <2>3. /\ req' \in [Requests -> ReqStates]
          /\ \A o \in Requests \ {r} : req'[o] = req[o]
          /\ req'[r].phase = "readUser"
          /\ req'[r].grant = req[r].grant
          /\ req'[r].user = req[r].user
          /\ req'[r].type = req[r].type
          /\ req'[r].count = req[r].count
          /\ req'[r].generation = req[r].generation
          /\ req'[r].proven = req[r].proven
          /\ req'[r].live = req[r].live
        BY <2>1, <2>2, GotoMoves DEF IInv
    <2>4. Sound(req[r], users) /\ req[r] \in ReqStates
        BY DEF IInv, RequestsAreSound, TypeOK
    <2>5. Unlimited \/ MaxRefreshTokenCount = 0 \/ req[r].grant \notin Tokens
              \/ req[r].count <= MaxRefreshTokenCount
        BY <1>2, <2>4, ConstantsOk DEF MaxedOut, ReqStates
    <2>6. Sound(req'[r], users)
        BY <2>3, <2>4, <2>5 DEF Sound
    <2>7. RequestsAreSound'
        BY <2>3, <2>6, OthersAreSound DEF IInv
    <2>. QED  BY <2>1, <2>3, <2>7 DEF IInv, TypeOK
<1>. QED  BY <1>1, <1>2

LEMMA RefreshClientKeeps ==
    ASSUME IInv, NEW r \in Requests, ReadRefreshClient(r)
    PROVE  IInv'
<1>1. /\ req[r].phase = "client"
      /\ UNCHANGED <<rows, expired, world, history>>
      /\ users' = users
    BY DEF ReadRefreshClient, world
<1>2. Sound(req[r], users) /\ req[r] \in ReqStates
    BY DEF IInv, RequestsAreSound, TypeOK
<1>3. CASE Answer(r) /\ UNCHANGED inFlight
    BY <1>1, <1>3, AnswerMoves, OnlyRequests DEF IInv, TypeOK
<1>4. CASE Goto(r, "credentials") /\ UNCHANGED inFlight
    <2>1. "credentials" \in Phases
        BY DEF Phases
    <2>2. /\ req' \in [Requests -> ReqStates]
          /\ \A o \in Requests \ {r} : req'[o] = req[o]
          /\ req'[r].phase = "credentials"
          /\ req'[r].grant = req[r].grant
          /\ req'[r].user = req[r].user
          /\ req'[r].type = req[r].type
          /\ req'[r].count = req[r].count
          /\ req'[r].generation = req[r].generation
          /\ req'[r].proven = req[r].proven
          /\ req'[r].live = req[r].live
        BY <1>4, <2>1, GotoMoves DEF IInv
    <2>3. Sound(req'[r], users)
        BY <1>1, <1>2, <2>2 DEF Sound, Signing
    <2>4. RequestsAreSound'
        BY <1>1, <2>2, <2>3, OthersAreSound DEF IInv
    <2>. QED  BY <1>1, <1>4, <2>2, <2>4, OnlyRequests DEF IInv, TypeOK
<1>5. CASE /\ req[r].type # "SECURE_CLIENT"
           /\ req[r].type = "PKCE" => ValidateCodeVerifier(r)
           /\ CheckRefreshCount(r)
    <2>1. req[r].type = "DEVICE"
        BY <1>2, <1>5 DEF ReqStates, ClientTypes, ValidateCodeVerifier
    <2>2. /\ req' \in [Requests -> ReqStates] /\ RequestsAreSound'
          /\ inFlight' \subseteq Codes \cup Tokens
        BY <1>1, <1>5, <2>1, CountCheckKeeps
    <2>. QED  BY <1>1, <2>2, OnlyRequests
<1>. QED  BY <1>3, <1>4, <1>5 DEF ReadRefreshClient

LEMMA CredentialsKeep ==
    ASSUME IInv, NEW r \in Requests, ValidateClientCredentials(r)
    PROVE  IInv'
<1>1. /\ req[r].phase = "credentials"
      /\ UNCHANGED <<rows, expired, world, history>>
      /\ users' = users
    BY DEF ValidateClientCredentials, world
<1>2. CASE Answer(r) /\ UNCHANGED inFlight
    BY <1>1, <1>2, AnswerMoves, OnlyRequests DEF IInv, TypeOK
<1>3. CASE req[r].proven /\ CheckRefreshCount(r)
    <2>1. /\ req' \in [Requests -> ReqStates] /\ RequestsAreSound'
          /\ inFlight' \subseteq Codes \cup Tokens
        BY <1>1, <1>3, CountCheckKeeps
    <2>. QED  BY <1>1, <2>1, OnlyRequests
<1>. QED  BY <1>2, <1>3 DEF ValidateClientCredentials

LEMMA ReadUserKeeps ==
    ASSUME IInv, NEW r \in Requests, ReadUser(r)
    PROVE  IInv'
<1>1. /\ req[r].phase = "readUser"
      /\ UNCHANGED <<rows, expired, world, inFlight, history>>
      /\ users' = users
    BY DEF ReadUser, world
<1>2. Sound(req[r], users) /\ req[r] \in ReqStates
    BY DEF IInv, RequestsAreSound, TypeOK
<1>3. CASE Answer(r)
    BY <1>1, <1>3, AnswerMoves, OnlyRequests DEF IInv, TypeOK
<1>4. CASE users[req[r].user] /\ Goto(r, "readClient")
    <2>1. "readClient" \in Phases
        BY DEF Phases
    <2>2. /\ req' \in [Requests -> ReqStates]
          /\ \A o \in Requests \ {r} : req'[o] = req[o]
          /\ req'[r].phase = "readClient"
          /\ req'[r].grant = req[r].grant
          /\ req'[r].user = req[r].user
          /\ req'[r].type = req[r].type
          /\ req'[r].count = req[r].count
          /\ req'[r].generation = req[r].generation
          /\ req'[r].proven = req[r].proven
          /\ req'[r].live = req[r].live
        BY <1>4, <2>1, GotoMoves DEF IInv
    <2>3. req[r].live
        BY <1>1, <1>2, <1>4 DEF Sound
    <2>4. Sound(req'[r], users)
        BY <1>1, <1>2, <2>2, <2>3 DEF Sound, Signing
    <2>5. RequestsAreSound'
        BY <1>1, <2>2, <2>4, OthersAreSound DEF IInv
    <2>. QED  BY <1>1, <2>2, <2>5, OnlyRequests DEF IInv, TypeOK
<1>. QED  BY <1>3, <1>4 DEF ReadUser

(* The answer, or the deletion of the token that was exchanged.             *)
LEMMA ConcludeMoves ==
    ASSUME IInv, NEW r \in Requests, Conclude(r), users' = users,
           req[r].phase \in {"readClient", "save"}
    PROVE  req' \in [Requests -> ReqStates] /\ RequestsAreSound'
<1>1. CASE Answer(r)
    BY <1>1, AnswerMoves DEF IInv
<1>2. CASE req[r].grant \in Tokens /\ Goto(r, "retire")
    <2>1. "retire" \in Phases
        BY DEF Phases
    <2>2. /\ req' \in [Requests -> ReqStates]
          /\ \A o \in Requests \ {r} : req'[o] = req[o]
          /\ req'[r].phase = "retire"
          /\ req'[r].grant = req[r].grant
          /\ req'[r].user = req[r].user
          /\ req'[r].type = req[r].type
          /\ req'[r].count = req[r].count
          /\ req'[r].generation = req[r].generation
          /\ req'[r].proven = req[r].proven
          /\ req'[r].live = req[r].live
        BY <1>2, <2>1, GotoMoves DEF IInv
    <2>3. Sound(req[r], users)
        BY DEF IInv, RequestsAreSound
    <2>4. Sound(req'[r], users)
        BY <1>2, <2>2, <2>3 DEF Sound, Signing
    <2>. QED  BY <2>2, <2>4, OthersAreSound DEF IInv
<1>. QED  BY <1>1, <1>2 DEF Conclude

LEMMA SignKeeps ==
    ASSUME IInv, NEW r \in Requests, SignUserJwt(r)
    PROVE  IInv'
<1>1. /\ req[r].phase = "readClient"
      /\ UNCHANGED <<rows, expired, world, inFlight, history>>
      /\ users' = users
    BY DEF SignUserJwt, world
<1>2. CASE Answer(r)
    BY <1>1, <1>2, AnswerMoves, OnlyRequests DEF IInv, TypeOK
<1>3. CASE GeneratesRefreshToken /\ Goto(r, "save")
    <2>1. "save" \in Phases
        BY DEF Phases
    <2>2. /\ req' \in [Requests -> ReqStates]
          /\ \A o \in Requests \ {r} : req'[o] = req[o]
          /\ req'[r].phase = "save"
          /\ req'[r].grant = req[r].grant
          /\ req'[r].user = req[r].user
          /\ req'[r].type = req[r].type
          /\ req'[r].count = req[r].count
          /\ req'[r].generation = req[r].generation
          /\ req'[r].proven = req[r].proven
          /\ req'[r].live = req[r].live
        BY <1>3, <2>1, GotoMoves DEF IInv
    <2>3. Sound(req[r], users)
        BY DEF IInv, RequestsAreSound
    <2>4. Unlimited \/ MaxRefreshTokenCount # 0
        BY <1>3, ConstantsOk DEF GeneratesRefreshToken
    <2>5. Sound(req'[r], users)
        BY <1>1, <2>2, <2>3, <2>4 DEF Sound, Signing
    <2>6. RequestsAreSound'
        BY <1>1, <2>2, <2>5, OthersAreSound DEF IInv
    <2>. QED  BY <1>1, <2>2, <2>6, OnlyRequests DEF IInv, TypeOK
<1>4. CASE Conclude(r)
    BY <1>1, <1>4, ConcludeMoves, OnlyRequests DEF IInv, TypeOK
<1>. QED  BY <1>2, <1>3, <1>4 DEF SignUserJwt

LEMMA SaveKeeps ==
    ASSUME IInv, NEW r \in Requests, NEW t \in Tokens, SaveRefreshData(r, t)
    PROVE  IInv'
<1>. DEFINE row == [state |-> "stored", user |-> req[r].user, type |-> req[r].type,
                    count |-> RefreshCount(r), generation |-> req[r].generation + 1,
                    proven |-> req[r].proven]
<1>1. /\ req[r].phase = "save" /\ tokens[t].state = "unused"
      /\ tokens' = [tokens EXCEPT ![t] = row]
      /\ devices' = [d \in Devices |-> IF d = req[r].grant THEN NoDevice("gone") ELSE devices[d]]
      /\ Conclude(r)
      /\ bought' = bought \cup ({req[r].grant} \cap Devices)
      /\ UNCHANGED <<codes, expired, users, client, mishaps, inFlight, rotated>>
    BY DEF SaveRefreshData, world
<1>2. Sound(req[r], users) /\ req[r] \in ReqStates
    BY DEF IInv, RequestsAreSound, TypeOK
<1>3. RefreshCount(r) \in Nat /\ req[r].generation + 1 <= RefreshCount(r)
    BY <1>2 DEF Sound, ReqStates, RefreshCount, Incremented
<1>4. row \in TokenRows
    BY <1>2, <1>3 DEF ReqStates, TokenRows, States
<1>5. ~Unlimited => req[r].generation + 1 <= MaxRefreshTokenCount + 1
    BY <1>1, <1>2, ConstantsOk DEF Sound, Signing, ReqStates
<1>6. Stands(row)
    BY <1>1, <1>2, <1>3, <1>5 DEF Stands, Sound, Signing
<1>. HIDE DEF row
<1>7. tokens' \in [Tokens -> TokenRows] /\ TokensStand'
    <2>1. tokens' \in [Tokens -> TokenRows]
        BY <1>1, <1>4 DEF IInv, TypeOK
    <2>2. \A o \in Tokens : Stands(tokens'[o])
        BY <1>1, <1>6 DEF IInv, TypeOK, TokensStand
    <2>. QED  BY <2>1, <2>2 DEF TokensStand
<1>8. /\ NoDevice("gone") \in DeviceRows
      /\ NoDevice("gone").state = "gone"
    BY Empty DEF NoDevice
<1>9. devices' \in [Devices -> DeviceRows]
    BY <1>1, <1>8 DEF IInv, TypeOK
<1>10. \A o \in rotated' : tokens'[o].state = "gone"
    BY <1>1 DEF IInv, TypeOK, UsedUp
<1>11. \A d \in bought' : devices'[d].state = "gone"
    BY <1>1, <1>8 DEF IInv, TypeOK, UsedUp
<1>12. req' \in [Requests -> ReqStates] /\ RequestsAreSound'
    BY <1>1, ConcludeMoves
<1>13. TypeOK'
    BY <1>1, <1>7, <1>9, <1>12 DEF IInv, TypeOK
<1>. QED  BY <1>7, <1>10, <1>11, <1>12, <1>13 DEF IInv, UsedUp

LEMMA RetireKeeps ==
    ASSUME IInv, NEW r \in Requests, RetireRefreshToken(r)
    PROVE  IInv'
<1>1. /\ req[r].phase = "retire"
      /\ tokens' = Without({req[r].grant})
      /\ Answer(r)
      /\ rotated' = rotated \cup {req[r].grant}
      /\ UNCHANGED <<codes, devices, expired, users, client, mishaps, inFlight, bought>>
    BY DEF RetireRefreshToken, world
<1>2. req[r].grant \in Tokens
    BY <1>1 DEF IInv, RequestsAreSound, Sound
<1>3. /\ tokens' \in [Tokens -> TokenRows]
      /\ TokensStand'
      /\ \A t \in Tokens : t \in {req[r].grant} \/ tokens[t].state = "gone"
                               => tokens'[t].state = "gone"
    BY <1>1, WithoutStands DEF IInv
<1>4. req' \in [Requests -> ReqStates] /\ RequestsAreSound'
    BY <1>1, AnswerMoves DEF IInv
<1>5. UsedUp'
    BY <1>1, <1>2, <1>3 DEF IInv, UsedUp, TypeOK
<1>6. TypeOK'
    BY <1>1, <1>2, <1>3, <1>4 DEF IInv, TypeOK
<1>. QED  BY <1>3, <1>4, <1>5, <1>6 DEF IInv

LEMMA DeleteDeviceKeeps ==
    ASSUME IInv, NEW r \in Requests, DeleteDeviceCode(r)
    PROVE  IInv'
<1>1. /\ req[r].phase = "consume"
      /\ devices' = [devices EXCEPT ![req[r].grant] = NoDevice("gone")]
      /\ Goto(r, "readUser")
      /\ UNCHANGED <<codes, tokens, expired, users, client, mishaps, inFlight, bought, rotated>>
    BY DEF DeleteDeviceCode, world, history
<1>2. NoDevice("gone") \in DeviceRows /\ NoDevice("gone").state = "gone"
    BY Empty DEF NoDevice
<1>3. /\ devices' \in [Devices -> DeviceRows]
      /\ \A d \in Devices : devices[d].state = "gone" => devices'[d].state = "gone"
    BY <1>1, <1>2 DEF IInv, TypeOK
<1>4. "readUser" \in Phases
    BY DEF Phases
<1>5. /\ req' \in [Requests -> ReqStates]
      /\ \A o \in Requests \ {r} : req'[o] = req[o]
      /\ req'[r].phase = "readUser"
      /\ req'[r].grant = req[r].grant
      /\ req'[r].user = req[r].user
      /\ req'[r].type = req[r].type
      /\ req'[r].count = req[r].count
      /\ req'[r].generation = req[r].generation
      /\ req'[r].proven = req[r].proven
      /\ req'[r].live = req[r].live
    BY <1>1, <1>4, GotoMoves DEF IInv
<1>6. Sound(req[r], users)
    BY DEF IInv, RequestsAreSound
<1>7. req[r].grant \notin Tokens
    BY <1>1, <1>6, ConstantsOk DEF Sound
<1>8. req[r].type = "DEVICE"
    BY <1>1, <1>6 DEF Sound
<1>9. Sound(req'[r], users)
    BY <1>1, <1>5, <1>6, <1>7, <1>8 DEF Sound
<1>10. RequestsAreSound'
    BY <1>1, <1>5, <1>9, OthersAreSound DEF IInv
<1>11. TypeOK'
    BY <1>1, <1>3, <1>5 DEF IInv, TypeOK
<1>12. TokensStand' /\ UsedUp'
    BY <1>1, <1>3 DEF IInv, TypeOK, TokensStand, UsedUp
<1>. QED  BY <1>10, <1>11, <1>12 DEF IInv

(* Codes, devices and refresh tokens are removed.                          *)
LEMMA RemovalKeeps ==
    ASSUME IInv, NEW gone, tokens' = Without(gone),
           codes' \in [Codes -> CodeRows], devices' \in [Devices -> DeviceRows],
           \A d \in Devices : devices[d].state = "gone" => devices'[d].state = "gone",
           expired' = expired, inFlight' \subseteq inFlight, mishaps' \in 0..MaxMishaps,
           UNCHANGED <<users, client, req, bought, rotated>>
    PROVE  IInv'
<1>1. /\ tokens' \in [Tokens -> TokenRows]
      /\ TokensStand'
      /\ \A t \in Tokens : t \in gone \/ tokens[t].state = "gone" => tokens'[t].state = "gone"
    BY WithoutStands DEF IInv
<1>2. TypeOK'
    BY <1>1 DEF IInv, TypeOK
<1>3. RequestsAreSound'
    BY DEF IInv, RequestsAreSound
<1>4. UsedUp'
    BY <1>1 DEF IInv, TypeOK, UsedUp
<1>. QED  BY <1>1, <1>2, <1>3, <1>4 DEF IInv

LEMMA MishapCounts ==
    ASSUME IInv, Mishap
    PROVE  mishaps' \in 0..MaxMishaps
BY ConstantsOk DEF IInv, TypeOK, Mishap

LEMMA ArrivalKeeps ==
    ASSUME IInv, NEW g \in inFlight, DeletionArrives(g)
    PROVE  IInv'
<1>1. NoCode("gone") \in CodeRows
    BY Empty DEF States
<1>2. codes' \in [Codes -> CodeRows]
    BY <1>1 DEF DeletionArrives, IInv, TypeOK
<1>3. /\ tokens' = Without({g}) /\ inFlight' \subseteq inFlight
      /\ UNCHANGED <<devices, expired, users, client, mishaps, req, bought, rotated>>
    BY DEF DeletionArrives, world, history
<1>. QED  BY <1>2, <1>3, RemovalKeeps DEF IInv, TypeOK

LEMMA RevokeKeeps ==
    ASSUME IInv, NEW revoked, Revoke(revoked)
    PROVE  IInv'
<1>1. mishaps' \in 0..MaxMishaps
    BY MishapCounts DEF Revoke
<1>2. /\ tokens' = Without(revoked)
      /\ UNCHANGED <<codes, devices, expired, users, client, req, inFlight, bought, rotated>>
    BY DEF Revoke, history
<1>. QED  BY <1>1, <1>2, RemovalKeeps DEF IInv, TypeOK

LEMMA DeleteExpiredKeeps ==
    ASSUME IInv, DeleteExpiredData
    PROVE  IInv'
<1>1. /\ NoCode("gone") \in CodeRows
      /\ NoDevice("gone") \in DeviceRows /\ NoDevice("gone").state = "gone"
    BY Empty DEF NoDevice, States
<1>2. CASE DeleteExpiredCodes
    <2>1. codes' \in [Codes -> CodeRows]
        BY <1>1, <1>2 DEF DeleteExpiredCodes, IInv, TypeOK
    <2>. QED  BY <1>2, <2>1 DEF DeleteExpiredCodes, IInv, TypeOK, RequestsAreSound,
                  TokensStand, UsedUp, world, history
<1>3. CASE DeleteExpiredTokens
    <2>1. /\ tokens' = Without(expired)
          /\ UNCHANGED <<codes, devices, expired, users, client, mishaps, req, inFlight,
                         bought, rotated>>
        BY <1>3 DEF DeleteExpiredTokens, world, history
    <2>. QED  BY <2>1, RemovalKeeps DEF IInv, TypeOK
<1>4. CASE DeleteExpiredDevices
    <2>1. /\ devices' \in [Devices -> DeviceRows]
          /\ \A d \in Devices : devices[d].state = "gone" => devices'[d].state = "gone"
        BY <1>1, <1>4 DEF DeleteExpiredDevices, IInv, TypeOK
    <2>. QED  BY <1>4, <2>1 DEF DeleteExpiredDevices, IInv, TypeOK, RequestsAreSound,
                  TokensStand, UsedUp, world, history
<1>. QED  BY <1>2, <1>3, <1>4 DEF DeleteExpiredData

LEMMA ExpireKeeps ==
    ASSUME IInv, NEW g \in Grants, Expire(g)
    PROVE  IInv'
<1>1. mishaps' \in 0..MaxMishaps
    BY MishapCounts DEF Expire
<1>. QED  BY <1>1 DEF Expire, IInv, TypeOK, RequestsAreSound, TokensStand, UsedUp,
             rows, history

LEMMA LostDeletionKeeps ==
    ASSUME IInv, NEW g \in inFlight, DeletionFails(g)
    PROVE  IInv'
<1>1. mishaps' \in 0..MaxMishaps
    BY MishapCounts DEF DeletionFails
<1>. QED  BY <1>1 DEF DeletionFails, IInv, TypeOK, RequestsAreSound, TokensStand, UsedUp,
             rows, history

LEMMA SwitchClientKeeps ==
    ASSUME IInv, NEW state \in ClientStates, SwitchClient(state)
    PROVE  IInv'
<1>1. mishaps' \in 0..MaxMishaps
    BY MishapCounts DEF SwitchClient
<1>. QED  BY <1>1 DEF SwitchClient, IInv, TypeOK, RequestsAreSound, TokensStand, UsedUp,
             rows, history

LEMMA SwitchUserKeeps ==
    ASSUME IInv, NEW u \in Users, SwitchUser(u)
    PROVE  IInv'
<1>1. mishaps' \in 0..MaxMishaps
    BY MishapCounts DEF SwitchUser
<1>2. /\ users' = [users EXCEPT ![u] = ~@]
      /\ users' \in [Users -> BOOLEAN]
      /\ \A v \in Users \ {u} : users'[v] = users[v]
    BY DEF SwitchUser, IInv, TypeOK
<1>3. \A r \in Requests :
          req'[r] = IF req[r].phase # "idle" /\ req[r].user = u
                    THEN [req[r] EXCEPT !.live = TRUE] ELSE req[r]
    BY DEF SwitchUser
<1>4. ASSUME NEW r \in Requests
      PROVE  req'[r] \in ReqStates /\ Sound(req'[r], users')
    <2>1. req[r] \in ReqStates /\ Sound(req[r], users)
        BY DEF IInv, TypeOK, RequestsAreSound
    <2>2. CASE req[r].phase # "idle" /\ req[r].user = u
        <3>1. req'[r] = [req[r] EXCEPT !.live = TRUE]
            BY <1>3, <2>2
        <3>2. /\ req'[r] \in ReqStates
              /\ req'[r].phase = req[r].phase
              /\ req'[r].grant = req[r].grant
              /\ req'[r].user = req[r].user
              /\ req'[r].type = req[r].type
              /\ req'[r].count = req[r].count
              /\ req'[r].generation = req[r].generation
              /\ req'[r].proven = req[r].proven
              /\ req'[r].live
            BY <2>1, <3>1 DEF ReqStates
        <3>. QED  BY <2>1, <3>2 DEF Sound
    <2>3. CASE ~(req[r].phase # "idle" /\ req[r].user = u)
        <3>1. req'[r] = req[r]
            BY <1>3, <2>3
        <3>2. req[r].phase # "idle" => users'[req[r].user] = users[req[r].user]
            BY <1>2, <2>1, <2>3 DEF ReqStates
        <3>. QED  BY <2>1, <3>1, <3>2 DEF Sound
    <2>. QED  BY <2>2, <2>3
<1>5. req' \in [Requests -> ReqStates]
    BY <1>4 DEF SwitchUser
<1>6. RequestsAreSound'
    BY <1>4 DEF RequestsAreSound
<1>7. UNCHANGED <<codes, devices, tokens, expired, client, inFlight, bought, rotated>>
    BY DEF SwitchUser, rows, history
<1>8. TypeOK'
    BY <1>1, <1>2, <1>5, <1>7 DEF IInv, TypeOK
<1>. QED  BY <1>6, <1>7, <1>8 DEF IInv, TokensStand, UsedUp

-----------------------------------------------------------------------------
LEMMA NextKeeps ==
    ASSUME IInv, Next
    PROVE  IInv'
<1>1. CASE \E c \in Codes, u \in Users, pkce \in BOOLEAN : GenerateAuthorizationCode(c, u, pkce)
    BY <1>1, GenerateKeeps
<1>2. CASE \E d \in Devices : SaveDeviceCode(d)
    BY <1>2, SaveDeviceKeeps
<1>3. CASE \E d \in Devices, u \in Users : DecideDevice(d, u)
    BY <1>3, DecideKeeps
<1>4. CASE \E r \in Requests : Request(r)
    BY <1>4, CodeGrantKeeps, RefreshGrantKeeps, DeviceGrantKeeps DEF Request
<1>5. CASE \E r \in Requests : Continue(r)
    BY <1>5, RefreshClientKeeps, CredentialsKeep, DeleteDeviceKeeps, ReadUserKeeps,
       SignKeeps, SaveKeeps, RetireKeeps DEF Continue
<1>6. CASE \E g \in inFlight : DeletionArrives(g)
    BY <1>6, ArrivalKeeps
<1>7. CASE \E g \in inFlight : DeletionFails(g)
    BY <1>7, LostDeletionKeeps
<1>8. CASE \E t \in Tokens : Revoke({t})
    BY <1>8, RevokeKeeps
<1>9. CASE \E u \in Users : Revoke(OfUser(u))
    BY <1>9, RevokeKeeps
<1>10. CASE \E g \in Grants : Expire(g)
    BY <1>10, ExpireKeeps
<1>11. CASE DeleteExpiredData
    BY <1>11, DeleteExpiredKeeps
<1>12. CASE \E u \in Users : SwitchUser(u)
    BY <1>12, SwitchUserKeeps
<1>13. CASE \E state \in ClientStates : SwitchClient(state)
    BY <1>13, SwitchClientKeeps
<1>. QED  BY <1>1, <1>2, <1>3, <1>4, <1>5, <1>6, <1>7, <1>8, <1>9, <1>10, <1>11,
             <1>12, <1>13 DEF Next

(* The inductive invariant holds in every reachable state.                 *)
THEOREM Invariance == Spec => []IInv
<1>1. IInv /\ UNCHANGED vars => IInv'
    BY DEF IInv, TypeOK, RequestsAreSound, TokensStand, UsedUp, vars
<1>2. IInv /\ [Next]_vars => IInv'
    BY <1>1, NextKeeps
<1>. QED  BY InitIsSound, <1>2, PTL DEF Spec

(* Rows and requests keep their types.                                     *)
THEOREM TypeCorrect == Spec => []TypeOK
<1>1. IInv => TypeOK
    BY DEF IInv
<1>. QED  BY <1>1, Invariance, PTL

(* token.ts generates a refresh token only for a client that showed its
   secret or its verifier in that very request, devices excepted.           *)
THEOREM ClientsProveThemselves == Spec => []TokensAreProven
<1>1. IInv => TokensAreProven
    BY DEF IInv, TokensStand, Stands, TokensAreProven
<1>. QED  BY <1>1, Invariance, PTL

(* signUserJwt signs nothing for a user who was locked, disabled or marked
   for deletion from before the request came in, however requests and
   administrators interleave.                                              *)
THEOREM NothingForLockedUsers == Spec => []LockedUsersGetNothing
<1>1. IInv => LockedUsersGetNothing
    BY DEF IInv, RequestsAreSound, Sound, LockedUsersGetNothing
<1>. QED  BY <1>1, Invariance, PTL

(* Racing requests do not get around maxRefreshTokenCount, nor does a driver
   that reads the count as a string.                                       *)
THEOREM ChainsStayShort == Spec => []ChainsAreShort
<1>1. IInv => ChainsAreShort
    BY DEF IInv, TokensStand, Stands, ChainsAreShort
<1>. QED  BY <1>1, Invariance, PTL

(* What was exchanged successfully never becomes usable again.             *)
THEOREM ExchangedIsUsedUp == Spec => []UsedUp
<1>1. IInv => UsedUp
    BY DEF IInv
<1>. QED  BY <1>1, Invariance, PTL

=============================================================================
