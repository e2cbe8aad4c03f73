--------------------- MODULE AuthenticationSessionProofs ---------------------
(* Proofs about AuthenticationSession for every value of its constants:    *)
(* first that tables and requests keep their types, then that a login is   *)
(* completed only when it is earned, that an authorization code uses its   *)
(* pre-authentication token up, that rows are completed in their order and *)
(* that a login is not stuck half way, whatever the sessions, requests,    *)
(* users and tenant settings are.                                          *)
EXTENDS AuthenticationSession, WellFoundedInduction, TLAPS

-----------------------------------------------------------------------------
(* The steps and their positions.                                          *)

LEMMA PositionType ==
    /\ Factors \subseteq Steps
    /\ Redirects \subseteq Steps
    /\ SecurityEvents \subseteq Steps
    /\ AttemptSteps \subseteq Factors
    /\ \A st \in Steps : Position[st] \in 1 .. 15
  BY DEF Steps, Position, Factors, Redirects, SecurityEvents, AttemptSteps

LEMMA PositionInjective ==
    \A st1, st2 \in Steps : Position[st1] = Position[st2] => st1 = st2
  BY DEF Steps, Position

LEMMA FactorsBeforeRedirects ==
    \A st \in Factors, x \in Redirects : Position[st] < Position[x]
  BY DEF Steps, Position, Factors, Redirects, SecurityEvents

LEMMA DuressIsLast ==
    /\ "SendSecurityEventDuressLogon" \in Steps
    /\ "EnterPassword" \in Factors
    /\ Position["SendSecurityEventDuressLogon"] = 15
    /\ Position["EnterPassword"] = 2
  BY DEF Steps, Position, Factors, Redirects, SecurityEvents

-----------------------------------------------------------------------------
(* Type correctness.                                                       *)

LEMMA NoRowsType == NoRows \in Orders
  BY PositionType DEF NoRows, Orders, Last

LEMMA IdleType == Idle \in ReqStates
<1>1. (CHOOSE s \in Sessions : TRUE) \in Sessions
  BY ConstantsOk DEF ConstantsOk
<1>2. "EnterPassword" \in Steps
  BY DuressIsLast, PositionType
<1>3. QED
  BY <1>1, <1>2, NoRowsType DEF Idle, ReqStates, Phases, NoUser, UserRows

LEMMA PhaseTypes ==
    /\ Stepping \subseteq Phases
    /\ Completing \subseteq Phases
    /\ TearingDown \subseteq Phases
    /\ {"idle", "lockUser", "cleanup"} \subseteq Phases
    /\ {"readUser", "check", "writeUser", "duress", "persist",
        "approve", "code", "consume", "save", "sign",
        "forgot", "replace", "insert", "cancelRead", "cancel", "expire"} \subseteq Phases
  BY DEF Phases, Stepping, Completing, TearingDown

LEMMA BecomeType ==
    ASSUME TypeOK, NEW r \in Requests, NEW state \in ReqStates, Become(r, state)
    PROVE  req' \in [Requests -> ReqStates]
  BY DEF TypeOK, Become

LEMMA FinishType ==
    ASSUME TypeOK, NEW r \in Requests, Finish(r)
    PROVE  req' \in [Requests -> ReqStates]
  BY IdleType, BecomeType DEF Finish

LEMMA GotoType ==
    ASSUME TypeOK, NEW r \in Requests, NEW phase \in Phases, Goto(r, phase)
    PROVE  req' \in [Requests -> ReqStates]
<1>1. [req[r] EXCEPT !.phase = phase] \in ReqStates
  BY DEF TypeOK, ReqStates
<1>2. QED
  BY <1>1, BecomeType DEF Goto

LEMMA StartCleanupType ==
    ASSUME TypeOK, NEW r \in Requests, StartCleanup(r)
    PROVE  req' \in [Requests -> ReqStates]
<1>1. Present(req[r].list) \subseteq Steps
  BY DEF Present
<1>2. [req[r] EXCEPT !.phase = "cleanup", !.todo = Present(req[r].list)] \in ReqStates
  BY <1>1, PhaseTypes DEF TypeOK, ReqStates
<1>3. QED
  BY <1>2, BecomeType DEF StartCleanup

LEMMA VerifiedType ==
    ASSUME TypeOK, NEW r \in Requests, NEW st \in Factors, Verified(r),
           req[r].step = st
    PROVE  verified' \in [Sessions -> SUBSET Factors]
  BY DEF TypeOK, Verified

LEMMA FactorNames ==
    /\ {"ValidatePasswordResetToken", "EnterPassword", "EnterPasswordAndMigrateUser",
        "ValidateEmail", "ConfigureTotp", "ValidateTotp", "ConfigureSecurityKey",
        "ValidateSecurityKey", "AcceptTermsAndConditions", "RotatePassword"} = Factors
  BY DEF Factors, Steps, Position, Redirects, SecurityEvents

LEMMA OwnerType ==
    ASSUME TypeOK, NEW r \in Requests
    PROVE  /\ req[r] \in ReqStates
           /\ req[r].session \in Sessions
           /\ req[r].step \in Steps
           /\ req[r].list \in Orders
           /\ req[r].todo \subseteq Steps
           /\ OwnerOf(r) \in Users
           /\ PreAuthOf(r) \in PreAuths
  BY DEF TypeOK, ReqStates, OwnerOf, PreAuthOf, SessionRows

LEMMA InitType == Init => TypeOK
<1> SUFFICES ASSUME Init PROVE TypeOK
  OBVIOUS
<1>1. (CHOOSE u \in Users : TRUE) \in Users
  BY ConstantsOk DEF ConstantsOk
<1>2. (CHOOSE p \in PreAuths : TRUE) \in PreAuths
  BY ConstantsOk DEF ConstantsOk
<1>3. users \in [Users -> UserRows]
  <2>1. PICK force \in Rotates, emailVerified \in {TRUE, ~VerifyEmail} :
            users = [u \in Users |->
               IF u \in LegacyUsers THEN NoUser
               ELSE [exists |-> TRUE, active |-> TRUE, locked |-> FALSE,
                     force |-> force, emailVerified |-> emailVerified]]
    BY DEF Init
  <2>2. force \in BOOLEAN /\ emailVerified \in BOOLEAN
    BY ConstantsOk DEF ConstantsOk
  <2>3. [exists |-> TRUE, active |-> TRUE, locked |-> FALSE,
         force |-> force, emailVerified |-> emailVerified] \in UserRows
    BY <2>2 DEF UserRows
  <2>4. NoUser \in UserRows
    BY DEF NoUser, UserRows
  <2>5. QED
    BY <2>1, <2>3, <2>4
<1>4. mfa \in [Users -> SUBSET MfaTypes]
  BY ConstantsOk DEF Init, ConstantsOk
<1>5. session \in [Sessions -> SessionRows]
  BY <1>1, <1>2 DEF Init, SessionRows
<1>6. req \in [Requests -> ReqStates]
  BY IdleType DEF Init
<1>7. rows \in [Sessions -> Orders]
  BY NoRowsType DEF Init
<1>8. QED
  BY <1>3, <1>4, <1>5, <1>6, <1>7 DEF Init, TypeOK

(* One lemma per group of actions: what the actions of the group write has
   the right type.                                                         *)

LEMMA HandleUserNameInputType ==
    ASSUME TypeOK, NEW s \in Sessions, NEW u \in Users, NEW kind \in Kinds,
           NEW p \in PreAuths, NEW overdue \in Rotates,
           HandleUserNameInput(s, u, kind, p, overdue)
    PROVE  TypeOK'
<1> DEFINE factors == {st \in Factors : NeedsFactor(st, u, kind, overdue)}
           list == factors \cup {st \in Steps : EndsWith(st, kind)}
           stored == [st \in Steps |-> IF st \in list THEN Position[st] ELSE 0]
           record == [kind |-> kind, owner |-> u, pre |-> p, required |-> factors]
           user == [NoUser EXCEPT !.exists = TRUE, !.locked = TRUE]
<1>1. stored \in Orders
  BY PositionType DEF Orders, Last
<1>2. record \in SessionRows
  BY ConstantsOk DEF SessionRows, ConstantsOk
<1>3. user \in UserRows
  BY DEF NoUser, UserRows
<1>4. rows' = [rows EXCEPT ![s] = stored] /\ session' = [session EXCEPT ![s] = record]
  BY DEF HandleUserNameInput
<1>5. users' = users \/ users' = [users EXCEPT ![u] = user]
  BY DEF HandleUserNameInput
<1> HIDE DEF stored, record, user
<1>6. rows' \in [Sessions -> Orders] /\ session' \in [Sessions -> SessionRows]
  BY <1>1, <1>2, <1>4 DEF TypeOK
<1>7. users' \in [Users -> UserRows]
  BY <1>3, <1>5 DEF TypeOK
<1>8. QED
  BY <1>6, <1>7 DEF TypeOK, HandleUserNameInput, outcome

LEMMA BeginType ==
    ASSUME TypeOK, NEW r \in Requests, NEW s \in Sessions, NEW st \in Steps,
           NEW phase \in Phases, Begin(r, s, st, phase)
    PROVE  TypeOK'
<1> DEFINE carries == s \in deviceRows
           todo == IF phase \in TearingDown THEN Present(rows[s]) ELSE {}
           state == [Idle EXCEPT !.phase = phase, !.session = s, !.step = st,
                         !.list = rows[s], !.todo = todo, !.device = carries]
<1>1. todo \in SUBSET Steps /\ carries \in BOOLEAN
  BY DEF Present
<1>2. Become(r, state)
  BY DEF Begin
<1>3. rows[s] \in Orders
  BY DEF TypeOK
<1> HIDE DEF todo, carries
<1>4. state \in ReqStates
  BY <1>1, <1>3, IdleType DEF ReqStates
<1>5. req' \in [Requests -> ReqStates]
  BY <1>2, <1>4, BecomeType
<1>6. disturbed' \subseteq Sessions
  BY DEF Begin, Disturb, TypeOK
<1>7. QED
  BY <1>5, <1>6 DEF TypeOK, Begin, store, people, history, outcome

LEMMA SubmitType ==
    ASSUME TypeOK, NEW r \in Requests, NEW s \in Sessions, Submit(r, s)
    PROVE  TypeOK'
<1>1. ASSUME NEW st \in Factors, ValidateAuthenticationStep(r, s, st)
      PROVE  TypeOK'
  BY <1>1, BeginType, PhaseTypes, PositionType DEF ValidateAuthenticationStep
<1>2. ASSUME NEW st \in Factors, ValidateExpiredStep(r, s, st)
      PROVE  TypeOK'
  BY <1>2, BeginType, PhaseTypes, PositionType DEF ValidateExpiredStep
<1>3. CASE BeginForgotPassword(r, s)
  BY <1>3, BeginType, PhaseTypes, FactorNames, PositionType DEF BeginForgotPassword
<1>4. CASE BeginCancel(r, s)
  BY <1>4, BeginType, PhaseTypes, FactorNames, PositionType DEF BeginCancel
<1>5. QED
  BY <1>1, <1>2, <1>3, <1>4 DEF Submit

LEMMA ReadUserType ==
    ASSUME TypeOK, NEW r \in Requests, ReadUser(r)
    PROVE  TypeOK'
<1> DEFINE u == users[OwnerOf(r)]
           state == [req[r] EXCEPT !.phase = "check", !.locked = u.locked, !.user = u]
<1>1. u \in UserRows
  BY OwnerType DEF TypeOK
<1>2. state \in ReqStates
  BY <1>1, OwnerType, PhaseTypes DEF ReqStates, UserRows
<1>3. Become(r, state) \/ Finish(r)
  BY DEF ReadUser
<1>4. req' \in [Requests -> ReqStates]
  BY <1>2, <1>3, BecomeType, FinishType
<1>5. resetToken' \subseteq Sessions
  BY DEF ReadUser, TypeOK
<1>6. QED
  BY <1>4, <1>5 DEF TypeOK, ReadUser, store, history, outcome

LEMMA AttemptType ==
    ASSUME TypeOK, NEW r \in Requests, AttemptSucceeds(r) \/ AttemptFails(r)
    PROVE  TypeOK'
<1>1. CASE AttemptSucceeds(r)
  <2>1. req' \in [Requests -> ReqStates]
    BY <1>1, GotoType, PhaseTypes DEF AttemptSucceeds
  <2>2. verified' \in [Sessions -> SUBSET Factors]
    BY <1>1, VerifiedType, FactorNames DEF AttemptSucceeds, Checking
  <2>3. QED
    BY <1>1, <2>1, <2>2 DEF TypeOK, AttemptSucceeds, store, people, outcome
<1>2. CASE AttemptFails(r)
  <2> DEFINE user == [req[r].user EXCEPT !.locked = TRUE]
             state == [req[r] EXCEPT !.phase = "lockUser", !.user = user]
  <2>0. user \in UserRows
    BY OwnerType DEF ReqStates, UserRows
  <2>1. state \in ReqStates
    <3> HIDE DEF user
    <3>1. QED
      BY <2>0, OwnerType, PhaseTypes DEF ReqStates
  <2>2. Become(r, state) \/ Finish(r)
    BY <1>2 DEF AttemptFails
  <2>3. req' \in [Requests -> ReqStates]
    BY <2>1, <2>2, BecomeType, FinishType
  <2>4. QED
    BY <1>2, <2>3 DEF TypeOK, AttemptFails, store, people, history, outcome
<1>3. QED
  BY <1>1, <1>2

LEMMA PlaceType ==
    ASSUME NEW list \in Orders, NEW st \in Steps,
           NEW place \in {0, Position[st], Late + Position[st], Last + Position[st]}
    PROVE  [list EXCEPT ![st] = place] \in Orders
<1> DEFINE new == [list EXCEPT ![st] = place]
<1>1. place \in 0 .. (Last + 15)
  BY PositionType DEF Late, Last
<1>2. new \in [Steps -> 0 .. (Last + 15)]
  BY <1>1 DEF Orders
<1>3. ASSUME NEW x \in Steps
      PROVE  new[x] \in {0, Position[x], Late + Position[x], Last + Position[x]}
  <2>1. CASE x = st
    BY <2>1 DEF Orders
  <2>2. CASE x # st
    BY <2>2 DEF Orders
  <2>3. QED
    BY <2>1, <2>2
<1>4. QED
  BY <1>2, <1>3 DEF Orders

LEMMA DuressListType ==
    ASSUME NEW list \in Orders, NEW last \in SecurityEvents,
           list[last] # 0
    PROVE  [list EXCEPT ![last] = 0,
               !["SendSecurityEventDuressLogon"] =
                   list[last] - Position[last] + Position["SendSecurityEventDuressLogon"]]
           \in Orders
<1> DEFINE event == "SendSecurityEventDuressLogon"
           place == list[last] - Position[last] + Position[event]
<1>1. last \in Steps /\ event \in Steps /\ Position[event] \in 1 .. 15
      /\ Position[last] \in 1 .. 15
  BY PositionType, DuressIsLast
<1>2. place \in {Position[event], Late + Position[event], Last + Position[event]}
  BY <1>1 DEF Orders, Late, Last
<1> HIDE DEF place
<1>3. [list EXCEPT ![last] = 0] \in Orders
  BY <1>1, PlaceType
<1>4. QED
  BY <1>1, <1>2, <1>3, PlaceType DEF place

LEMMA DuressType ==
    ASSUME TypeOK, NEW r \in Requests,
           AuthenticateUserUnderDuress(r) \/ InsertDuressEvent(r)
    PROVE  TypeOK'
<1> DEFINE s == req[r].session
           list == req[r].list
           event == "SendSecurityEventDuressLogon"
<1>0. event \in Steps
  BY DuressIsLast
<1>1. CASE AuthenticateUserUnderDuress(r)
  <2>1. verified' \in [Sessions -> SUBSET Factors]
    BY <1>1, VerifiedType, FactorNames DEF AuthenticateUserUnderDuress, Checking
  <2>2. ASSUME NEW last \in SecurityEvents \ {event}, IsLast(list, last),
               rows' = [rows EXCEPT ![s][last] = 0],
               done' = [done EXCEPT ![s] = @ \ {last}],
               Become(r, [req[r] EXCEPT !.phase = "duress",
                   !.list = [list EXCEPT ![last] = 0,
                       ![event] = list[last] - Position[last] + Position[event]]])
        PROVE  TypeOK'
    <3> DEFINE new == [list EXCEPT ![last] = 0,
                          ![event] = list[last] - Position[last] + Position[event]]
               state == [req[r] EXCEPT !.phase = "duress", !.list = new]
    <3>1. new \in Orders
      BY <2>2, OwnerType, DuressListType DEF IsLast, Present
    <3>2. Become(r, state)
      BY <2>2
    <3> HIDE DEF new
    <3>3. state \in ReqStates
      BY <3>1, OwnerType, PhaseTypes DEF ReqStates
    <3>4. req' \in [Requests -> ReqStates]
      BY <3>2, <3>3, BecomeType
    <3>5. rows' \in [Sessions -> Orders]
      <4>1. [rows[s] EXCEPT ![last] = 0] \in Orders
        BY OwnerType, PositionType, PlaceType DEF TypeOK
      <4>2. rows' = [rows EXCEPT ![s] = [rows[s] EXCEPT ![last] = 0]]
        BY <2>2
      <4>3. QED
        BY <4>1, <4>2 DEF TypeOK
    <3>6. done' \in [Sessions -> SUBSET Steps]
      BY <2>2 DEF TypeOK
    <3>7. QED
      BY <1>1, <2>1, <3>4, <3>5, <3>6 DEF TypeOK, AuthenticateUserUnderDuress, people, outcome
  <2>3. ASSUME Goto(r, "persist"), UNCHANGED <<rows, done>>
        PROVE  TypeOK'
    <3>1. req' \in [Requests -> ReqStates]
      BY <2>3, GotoType, PhaseTypes
    <3>2. QED
      BY <1>1, <2>1, <2>3, <3>1 DEF TypeOK, AuthenticateUserUnderDuress, people, outcome
  <2>4. QED
    BY <1>1, <2>2, <2>3 DEF AuthenticateUserUnderDuress
<1>2. CASE InsertDuressEvent(r)
  <2>1. req' \in [Requests -> ReqStates]
    BY <1>2, GotoType, FinishType, PhaseTypes DEF InsertDuressEvent
  <2>2. rows' = rows \/ rows' = [rows EXCEPT ![s][event] = list[event]]
    BY <1>2 DEF InsertDuressEvent
  <2>3. rows' \in [Sessions -> Orders]
    <3>1. [rows[s] EXCEPT ![event] = list[event]] \in Orders
      <4>1. list[event] \in {0, Position[event], Late + Position[event],
                             Last + Position[event]}
        BY <1>0, OwnerType DEF Orders
      <4>2. QED
        BY <1>0, <4>1, OwnerType, PlaceType DEF TypeOK
    <3>2. rows' = rows \/ rows' = [rows EXCEPT ![s] = [rows[s] EXCEPT ![event] = list[event]]]
      BY <2>2
    <3>3. QED
      BY <3>1, <3>2 DEF TypeOK
  <2>4. QED
    BY <1>2, <2>1, <2>3 DEF TypeOK, InsertDuressEvent, people, history, outcome
<1>3. QED
  BY <1>1, <1>2

LEMMA HandlersType ==
    ASSUME TypeOK, NEW r \in Requests,
           \/ AuthenticateVerifyEmailAddress(r)
           \/ AuthenticateConfigureTOTP(r)
           \/ AuthenticateRegisterSecurityKey(r)
           \/ AuthenticateAcceptTermsAndConditions(r)
           \/ AuthenticateRotatePassword(r)
           \/ AuthenticateUserAndMigrate(r)
           \/ AuthenticateValidatePasswordResetToken(r)
    PROVE  TypeOK'
<1> DEFINE u == users[OwnerOf(r)]
<1>0. u \in UserRows
  BY OwnerType DEF TypeOK
<1>1. verified' \in [Sessions -> SUBSET Factors]
  BY VerifiedType, FactorNames
     DEF AuthenticateVerifyEmailAddress, AuthenticateConfigureTOTP,
         AuthenticateRegisterSecurityKey, AuthenticateAcceptTermsAndConditions,
         AuthenticateRotatePassword, AuthenticateUserAndMigrate,
         AuthenticateValidatePasswordResetToken, Checking
<1>2. CASE AuthenticateVerifyEmailAddress(r)
  <2> DEFINE user == [u EXCEPT !.emailVerified = TRUE]
             state == [req[r] EXCEPT !.phase = "writeUser", !.user = user]
  <2>1. user \in UserRows
    BY <1>0 DEF UserRows
  <2>2. Become(r, state)
    BY <1>2 DEF AuthenticateVerifyEmailAddress
  <2> HIDE DEF user
  <2>3. state \in ReqStates
    BY <2>1, OwnerType, PhaseTypes DEF ReqStates
  <2>4. req' \in [Requests -> ReqStates]
    BY <2>2, <2>3, BecomeType
  <2>5. QED
    BY <1>1, <1>2, <2>4 DEF TypeOK, AuthenticateVerifyEmailAddress, store, outcome
<1>3. CASE AuthenticateConfigureTOTP(r)
  <2>1. req' \in [Requests -> ReqStates]
    BY <1>3, GotoType, PhaseTypes DEF AuthenticateConfigureTOTP
  <2>2. mfa' \in [Users -> SUBSET MfaTypes]
    BY <1>3, OwnerType DEF TypeOK, AuthenticateConfigureTOTP, MfaTypes
  <2>3. QED
    BY <1>1, <1>3, <2>1, <2>2 DEF TypeOK, AuthenticateConfigureTOTP, store, outcome
<1>4. CASE AuthenticateRegisterSecurityKey(r)
  <2>1. req' \in [Requests -> ReqStates]
    BY <1>4, GotoType, PhaseTypes DEF AuthenticateRegisterSecurityKey
  <2>2. mfa' \in [Users -> SUBSET MfaTypes]
    BY <1>4, OwnerType DEF TypeOK, AuthenticateRegisterSecurityKey, MfaTypes
  <2>3. QED
    BY <1>1, <1>4, <2>1, <2>2 DEF TypeOK, AuthenticateRegisterSecurityKey, store, outcome
<1>5. CASE AuthenticateAcceptTermsAndConditions(r)
  <2>1. req' \in [Requests -> ReqStates]
    BY <1>5, GotoType, PhaseTypes DEF AuthenticateAcceptTermsAndConditions
  <2>2. QED
    BY <1>1, <1>5, <2>1, OwnerType
       DEF TypeOK, AuthenticateAcceptTermsAndConditions, store, outcome
<1>6. CASE AuthenticateRotatePassword(r)
  <2> DEFINE user == [req[r].user EXCEPT !.force = FALSE]
             state == [req[r] EXCEPT !.phase = "writeUser", !.user = user]
  <2>0. user \in UserRows
    BY OwnerType DEF ReqStates, UserRows
  <2>1. state \in ReqStates
    <3> HIDE DEF user
    <3>1. QED
      BY <2>0, OwnerType, PhaseTypes DEF ReqStates
  <2>2. Become(r, state) \/ Goto(r, "persist")
    BY <1>6 DEF AuthenticateRotatePassword
  <2>3. req' \in [Requests -> ReqStates]
    BY <2>1, <2>2, BecomeType, GotoType, PhaseTypes
  <2>4. QED
    BY <1>1, <1>6, <2>3 DEF TypeOK, AuthenticateRotatePassword, store, people, outcome
<1>7. CASE AuthenticateUserAndMigrate(r)
  <2>1. PICK emailVerified \in BOOLEAN :
            Become(r, [req[r] EXCEPT !.phase = "writeUser", !.locked = FALSE,
               !.user = [exists |-> TRUE, active |-> TRUE, locked |-> FALSE,
                         force |-> FALSE, emailVerified |-> emailVerified]])
    BY <1>7 DEF AuthenticateUserAndMigrate
  <2> DEFINE user == [exists |-> TRUE, active |-> TRUE, locked |-> FALSE,
                      force |-> FALSE, emailVerified |-> emailVerified]
             state == [req[r] EXCEPT !.phase = "writeUser", !.locked = FALSE, !.user = user]
  <2>2. user \in UserRows
    BY DEF UserRows
  <2>3. Become(r, state)
    BY <2>1
  <2> HIDE DEF user
  <2>4. state \in ReqStates
    BY <2>2, OwnerType, PhaseTypes DEF ReqStates
  <2>5. req' \in [Requests -> ReqStates]
    BY <2>3, <2>4, BecomeType
  <2>6. QED
    BY <1>1, <1>7, <2>5 DEF TypeOK, AuthenticateUserAndMigrate, store, people, outcome
<1>8. CASE AuthenticateValidatePasswordResetToken(r)
  <2>1. req' \in [Requests -> ReqStates]
    BY <1>8, GotoType, PhaseTypes DEF AuthenticateValidatePasswordResetToken
  <2>2. QED
    BY <1>1, <1>8, <2>1
       DEF TypeOK, AuthenticateValidatePasswordResetToken, store, people, outcome
<1>9. QED
  BY <1>2, <1>3, <1>4, <1>5, <1>6, <1>7, <1>8

LEMMA PersistType ==
    ASSUME TypeOK, NEW r \in Requests, WriteUser(r) \/ PersistStep(r)
    PROVE  TypeOK'
<1>1. CASE WriteUser(r)
  <2>1. req' \in [Requests -> ReqStates]
    BY <1>1, GotoType, FinishType, PhaseTypes DEF WriteUser
  <2>2. req[r].user \in UserRows
    BY OwnerType DEF ReqStates
  <2>3. users' \in [Users -> UserRows]
    BY <1>1, <2>2, OwnerType DEF TypeOK, WriteUser
  <2>4. QED
    BY <1>1, <2>1, <2>3 DEF TypeOK, WriteUser, store, history, outcome
<1>2. CASE PersistStep(r)
  <2>1. ASSUME NEW next \in Redirects,
               Become(r, [req[r] EXCEPT !.user = NoUser,
                              !.phase = CompletionPhase(next, req[r].device)])
        PROVE  req' \in [Requests -> ReqStates]
    <3> DEFINE phase == CompletionPhase(next, req[r].device)
               state == [req[r] EXCEPT !.user = NoUser, !.phase = phase]
    <3>1. phase \in Phases /\ NoUser \in UserRows
      BY PhaseTypes DEF CompletionPhase, NoUser, UserRows
    <3>2. Become(r, state)
      BY <2>1
    <3> HIDE DEF phase
    <3>3. state \in ReqStates
      BY <3>1, OwnerType DEF ReqStates
    <3>4. QED
      BY <3>2, <3>3, BecomeType
  <2>2. req' \in [Requests -> ReqStates]
    BY <1>2, <2>1, FinishType DEF PersistStep
  <2>3. done' \in [Sessions -> SUBSET Steps]
    BY <1>2, OwnerType DEF TypeOK, PersistStep
  <2>4. emailToken' \subseteq Sessions
    <3>1. emailToken' \subseteq emailToken \cup {req[r].session}
      BY <1>2 DEF PersistStep
    <3>2. QED
      BY <3>1, OwnerType DEF TypeOK
  <2>5. QED
    BY <1>2, <2>2, <2>3, <2>4 DEF TypeOK, PersistStep, history, outcome
<1>3. QED
  BY <1>1, <1>2

LEMMA CompleteType ==
    ASSUME TypeOK, NEW r \in Requests, Complete(r)
    PROVE  TypeOK'
<1>1. req' \in [Requests -> ReqStates]
  BY GotoType, FinishType, StartCleanupType, PhaseTypes
     DEF Complete, ApproveDevice, ReadPreAuth, ConsumePreAuth, SaveAuthorizationCode,
         SignPortalToken
<1>2. CASE ApproveDevice(r)
  BY <1>1, <1>2, OwnerType DEF TypeOK, ApproveDevice, store, people, history, outcome
<1>3. CASE ReadPreAuth(r)
  BY <1>1, <1>3 DEF TypeOK, ReadPreAuth, store, people, history, outcome
<1>4. CASE ConsumePreAuth(r)
  BY <1>1, <1>4, OwnerType DEF TypeOK, ConsumePreAuth, store, people, history, outcome
<1>5. CASE SaveAuthorizationCode(r)
  BY <1>1, <1>5, OwnerType DEF TypeOK, SaveAuthorizationCode, store, people, history
<1>6. CASE SignPortalToken(r)
  BY <1>1, <1>6, OwnerType DEF TypeOK, SignPortalToken, store, people, history
<1>7. QED
  BY <1>2, <1>3, <1>4, <1>5, <1>6 DEF Complete

LEMMA DeletionType ==
    ASSUME TypeOK, NEW r \in Requests,
           DeleteUserAuthenticationState(r) \/ RowsDeleted(r)
    PROVE  TypeOK'
<1>1. CASE DeleteUserAuthenticationState(r)
  <2> DEFINE s == req[r].session
  <2>1. PICK st \in Steps :
            /\ rows' = [rows EXCEPT ![s][st] = 0]
            /\ done' = [done EXCEPT ![s] = @ \ {st}]
            /\ Become(r, [req[r] EXCEPT !.todo = @ \ {st}])
    BY <1>1 DEF DeleteUserAuthenticationState
  <2>2. [req[r] EXCEPT !.todo = @ \ {st}] \in ReqStates
    BY OwnerType DEF ReqStates
  <2>3. req' \in [Requests -> ReqStates]
    BY <2>1, <2>2, BecomeType
  <2>4. [rows[s] EXCEPT ![st] = 0] \in Orders
    BY OwnerType, PlaceType DEF TypeOK
  <2>5. rows' \in [Sessions -> Orders]
    <3>1. rows' = [rows EXCEPT ![s] = [rows[s] EXCEPT ![st] = 0]]
      BY <2>1
    <3>2. QED
      BY <2>4, <3>1 DEF TypeOK
  <2>6. done' \in [Sessions -> SUBSET Steps]
    BY <2>1 DEF TypeOK
  <2>7. QED
    BY <1>1, <2>3, <2>5, <2>6
       DEF TypeOK, DeleteUserAuthenticationState, people, history, outcome
<1>2. CASE RowsDeleted(r)
  <2>1. req' \in [Requests -> ReqStates]
    BY <1>2, GotoType, FinishType, PhaseTypes DEF RowsDeleted
  <2>2. QED
    BY <1>2, <2>1 DEF TypeOK, RowsDeleted, store, people, history, outcome
<1>3. QED
  BY <1>1, <1>2

LEMMA ResetOrderType ==
    ASSUME NEW list \in Orders
    PROVE  ResetOrder(list) \in Orders
<1> DEFINE new == ResetOrder(list)
<1>1. ASSUME NEW st \in Steps
      PROVE  /\ new[st] \in {0, Position[st], Late + Position[st], Last + Position[st]}
             /\ new[st] \in 0 .. (Last + 15)
  BY PositionType DEF ResetOrder, Orders, Late, Last
<1>2. new = [st \in Steps |-> new[st]]
  BY DEF ResetOrder
<1> HIDE DEF new
<1>3. QED
  BY <1>1, <1>2 DEF Orders, new

LEMMA ForgotPasswordType ==
    ASSUME TypeOK, NEW r \in Requests, SavePasswordResetToken(r) \/ InsertNewStates(r)
    PROVE  TypeOK'
<1>1. CASE SavePasswordResetToken(r)
  <2>1. req' \in [Requests -> ReqStates]
    BY <1>1, GotoType, FinishType, PhaseTypes DEF SavePasswordResetToken
  <2>2. QED
    BY <1>1, <2>1, OwnerType DEF TypeOK, SavePasswordResetToken, store, history, outcome
<1>2. CASE InsertNewStates(r)
  <2> DEFINE s == req[r].session
             new == Inserted(req[r].list, rows[s])
             order == ResetOrder(req[r].list)
             stored == [st \in Steps |-> IF st \in new THEN order[st] ELSE rows[s][st]]
  <2>1. order \in Orders /\ rows[s] \in Orders
    BY OwnerType, ResetOrderType DEF TypeOK
  <2>2. stored \in Orders
    <3> HIDE DEF order, new
    <3>1. QED
      BY <2>1 DEF Orders
  <2>3. rows' = [rows EXCEPT ![s] = stored]
    BY <1>2 DEF InsertNewStates
  <2>4. rows' \in [Sessions -> Orders]
    <3> HIDE DEF stored
    <3>1. QED
      BY <2>2, <2>3 DEF TypeOK
  <2>5. req' \in [Requests -> ReqStates]
    BY <1>2, FinishType DEF InsertNewStates
  <2>6. /\ done' \in [Sessions -> SUBSET Steps]
        /\ expired' \subseteq Sessions
        /\ deviceRows' \subseteq Sessions
        /\ reset' \subseteq Sessions
    <3> HIDE DEF new
    <3>1. QED
      BY <1>2, OwnerType DEF TypeOK, InsertNewStates
  <2>7. QED
    BY <1>2, <2>4, <2>5, <2>6 DEF TypeOK, InsertNewStates, people, outcome
<1>3. QED
  BY <1>1, <1>2

LEMMA CancelType ==
    ASSUME TypeOK, NEW r \in Requests,
           CancelDevice(r) \/ DeleteCancelledPreAuth(r) \/ CancelDone(r)
    PROVE  TypeOK'
<1>1. CASE CancelDevice(r)
  <2>1. req' \in [Requests -> ReqStates]
    BY <1>1, GotoType, PhaseTypes DEF CancelDevice
  <2>2. QED
    BY <1>1, <2>1, OwnerType DEF TypeOK, CancelDevice, store, people, history, outcome
<1>2. CASE DeleteCancelledPreAuth(r)
  BY <1>2, OwnerType DEF TypeOK, DeleteCancelledPreAuth, store, people, history, outcome
<1>3. CASE CancelDone(r)
  <2>1. req' \in [Requests -> ReqStates]
    BY <1>3, FinishType DEF CancelDone
  <2>2. QED
    BY <1>3, <2>1 DEF TypeOK, CancelDone, store, people, history, outcome
<1>4. QED
  BY <1>1, <1>2, <1>3

LEMMA EndsType ==
    ASSUME TypeOK, NEW r \in Requests, CheckRefused(r) \/ Abort(r)
    PROVE  TypeOK'
<1>1. req' \in [Requests -> ReqStates]
  BY FinishType DEF CheckRefused, Abort
<1>2. disturbed' \subseteq Sessions /\ halted' \subseteq Sessions
  BY OwnerType DEF TypeOK, CheckRefused, Abort, outcome
<1>3. QED
  BY <1>1, <1>2 DEF TypeOK, CheckRefused, Abort, store, people, history, outcome

LEMMA EnvironmentType ==
    ASSUME TypeOK,
           \/ \E s \in Sessions : Expire(s) \/ ExpireResetToken(s)
           \/ \E p \in PreAuths : ExpirePreAuth(p)
           \/ DeleteExpiredData
           \/ \E u \in Users : UnlockUser(u)
    PROVE  TypeOK'
<1>1. ASSUME NEW s \in Sessions, Expire(s) \/ ExpireResetToken(s)
      PROVE  TypeOK'
  BY <1>1 DEF TypeOK, Expire, ExpireResetToken, store, people, history, outcome
<1>2. ASSUME NEW p \in PreAuths, ExpirePreAuth(p)
      PROVE  TypeOK'
  BY <1>2 DEF TypeOK, ExpirePreAuth, store, people, history, outcome
<1>3. CASE DeleteExpiredData
  BY <1>3, NoRowsType DEF TypeOK, DeleteExpiredData, people, history, outcome
<1>4. ASSUME NEW u \in Users, UnlockUser(u)
      PROVE  TypeOK'
  <2>1. [users[u] EXCEPT !.locked = FALSE] \in UserRows
    BY DEF TypeOK, UserRows
  <2>2. users' = [users EXCEPT ![u] = [users[u] EXCEPT !.locked = FALSE]]
    BY <1>4 DEF UnlockUser
  <2>3. QED
    BY <1>4, <2>1, <2>2 DEF TypeOK, UnlockUser, store, history, outcome
<1>5. QED
  BY <1>1, <1>2, <1>3, <1>4

LEMMA NextType == TypeOK /\ [Next]_vars => TypeOK'
<1> SUFFICES ASSUME TypeOK, [Next]_vars PROVE TypeOK'
  OBVIOUS
<1>1. ASSUME NEW r \in Requests, Continue(r)
      PROVE  TypeOK'
  <2>1. CASE Check(r)
    BY <2>1, AttemptType, DuressType, HandlersType, EndsType DEF Check
  <2>2. QED
    BY <1>1, <2>1, ReadUserType, PersistType, DuressType, CompleteType, DeletionType,
       ForgotPasswordType, CancelType DEF Continue
<1>2. CASE UNCHANGED vars
  BY <1>2 DEF TypeOK, vars, store, people, history, outcome
<1>3. QED
  BY <1>1, <1>2, HandleUserNameInputType, SubmitType, EndsType, EnvironmentType DEF Next

(* Every behaviour keeps the tables and the request objects well formed.   *)
THEOREM TypeCorrect == Spec => []TypeOK
<1>1. Init => TypeOK
  BY InitType
<1>2. TypeOK /\ [Next]_vars => TypeOK'
  BY NextType
<1>3. QED
  BY <1>1, <1>2, PTL DEF Spec

-----------------------------------------------------------------------------
(* The inductive invariant.                                                *)

(* A redirect of the list comes after every factor that is still missing.  *)
Covers(list, s) ==
    \A x \in Redirects \cap Present(list), q \in Required(s) :
        q \in verified[s] \/ (q \in Present(list) /\ list[q] < list[x])

(* A list rewritten by "forgot password" has lost the password, if it leads
   anywhere; only such a list has the e-mailed token and the late places.  *)
Shaped(list, s) ==
    IF s \in reset
    THEN list["EnterPassword"] = 0 \/ Redirects \cap Present(list) = {}
    ELSE /\ list["ValidatePasswordResetToken"] = 0
         /\ \A st \in Steps : list[st] \in {0, Position[st]}

Resetting == {"forgot", "replace", "insert"}
Deleting == {"replace", "insert", "cancel", "expire"}

(* What a request at work on session s may rely on.                        *)
RequestInv(r, s) ==
    /\ req[r].phase \in Stepping =>
           /\ req[r].step \in Factors \cap Present(req[r].list)
           /\ Earlier(req[r].list, req[r].step) \subseteq verified[s]
    /\ req[r].phase \in {"writeUser", "duress", "persist"} =>
           req[r].step \in verified[s]
    /\ req[r].phase = "duress" => req[r].step = "EnterPassword"
    /\ req[r].phase \in Completing \cup {"cleanup"} =>
           Required(s) \subseteq verified[s]
    /\ req[r].phase \in Stepping \cup Resetting =>
           Covers(req[r].list, s) /\ Shaped(req[r].list, s)
    /\ req[r].phase \in Resetting => req[r].list["EnterPassword"] # 0
    /\ req[r].phase = "insert" => req[r].todo = {}
    /\ req[r].phase \in TearingDown =>
           /\ Present(rows[s]) \subseteq req[r].todo
           /\ \A q \in Requests \ {r} : ~Active(q, s)

(* What the rows of session s say, unless a request is deleting them.      *)
SessionInv(s) ==
    /\ done[s] \subseteq verified[s]
    /\ Shaped(rows[s], s)
    /\ (\A r \in Requests : Active(r, s) => req[r].phase \notin Deleting)
           => Covers(rows[s], s)

(* A token nobody has been given has no rows and no requests.              *)
Unused(s) ==
    /\ Present(rows[s]) = {}
    /\ s \notin reset
    /\ \A r \in Requests : ~Active(r, s)

IInv ==
    /\ TypeOK
    /\ \A s \in Sessions : session[s].kind = "none" => Unused(s)
    /\ \A s \in Sessions \ disturbed :
           /\ SessionInv(s)
           /\ \A r \in Requests : Active(r, s) => RequestInv(r, s)

-----------------------------------------------------------------------------
(* Sessions and requests a step does not concern.                          *)

(* The database and the history say the same of session s after the step,  *)
(* or that more has been verified.                                         *)
SameRows(s) ==
    /\ rows'[s] = rows[s]
    /\ done'[s] = done[s]
    /\ session'[s] = session[s]
    /\ s \in reset' <=> s \in reset
    /\ verified[s] \subseteq verified'[s]

OthersSame(r) == \A q \in Requests \ {r} : req'[q] = req[q]

LEMMA RequiredSame ==
    ASSUME NEW s \in Sessions, session'[s] = session[s], s \in reset' <=> s \in reset
    PROVE  Required(s)' = Required(s)
  BY DEF Required

LEMMA RequiredType ==
    ASSUME TypeOK, NEW s \in Sessions
    PROVE  Required(s) \subseteq Factors
  BY FactorNames DEF TypeOK, SessionRows, Required

(* What is covered stays covered when more is verified.                    *)
LEMMA CoversMonotone ==
    ASSUME NEW s \in Sessions, NEW list, SameRows(s), Covers(list, s)
    PROVE  Covers(list, s)'
  BY RequiredSame DEF Covers, SameRows

LEMMA CoversEarned ==
    ASSUME NEW s \in Sessions, NEW list, Required(s) \subseteq verified[s]
    PROVE  Covers(list, s)
  BY DEF Covers

LEMMA BecomeOthers ==
    ASSUME TypeOK, NEW r \in Requests, NEW state, Become(r, state)
    PROVE  OthersSame(r) /\ req'[r] = state
  BY DEF TypeOK, Become, OthersSame

(* Sessions and requests r has nothing to do with keep their invariants.   *)
LEMMA FrameRequest ==
    ASSUME IInv, NEW s \in Sessions \ disturbed, NEW q \in Requests,
           Active(q, s), RequestInv(q, s), SameRows(s), req'[q] = req[q],
           req[q].phase \in TearingDown =>
               \A p \in Requests \ {q} : ~Active(p, s) => ~Active(p, s)'
    PROVE  RequestInv(q, s)'
<1>1. Covers(req[q].list, s) => Covers(req[q].list, s)'
  BY CoversMonotone
<1>2. Required(s)' = Required(s)
  BY RequiredSame DEF SameRows
<1>3. Shaped(req[q].list, s) => Shaped(req[q].list, s)'
  BY DEF Shaped, SameRows
<1>4. req[q].phase \in TearingDown => \A p \in Requests \ {q} : ~Active(p, s)'
  BY DEF RequestInv
<1>5. QED
  BY <1>1, <1>2, <1>3, <1>4 DEF RequestInv, SameRows, Present, Earlier

(* A step of request r, at work on s, which leaves the rows of s alone.    *)
LEMMA QuietStep ==
    ASSUME IInv, NEW s \in Sessions \ disturbed, NEW r \in Requests,
           Active(r, s), SameRows(s), OthersSame(r),
           Active(r, s)' => RequestInv(r, s)',
           req[r].phase \in Deleting =>
               \/ Active(r, s)' /\ req'[r].phase \in Deleting
               \/ Present(rows[s]) = {}
    PROVE  /\ SessionInv(s)'
           /\ \A q \in Requests : Active(q, s)' => RequestInv(q, s)'
<1>1. SessionInv(s) /\ \A q \in Requests : Active(q, s) => RequestInv(q, s)
  BY DEF IInv
<1>2. ASSUME NEW q \in Requests, Active(q, s)'
      PROVE  RequestInv(q, s)'
  <2>1. CASE q = r
    BY <1>2, <2>1
  <2>2. CASE q # r
    <3>1. req'[q] = req[q] /\ Active(q, s)
      BY <1>2, <2>2 DEF OthersSame, Active
    <3>2. req[q].phase \notin TearingDown
      BY <1>1, <2>2, <3>1 DEF RequestInv
    <3>3. QED
      BY <1>1, <3>1, <3>2, FrameRequest
  <2>3. QED
    BY <2>1, <2>2
<1>3. done'[s] \subseteq verified'[s]
  BY <1>1 DEF SessionInv, SameRows
<1>4. Shaped(rows[s], s)'
  BY <1>1 DEF SessionInv, Shaped, SameRows
<1>5. ASSUME \A q \in Requests : Active(q, s)' => req'[q].phase \notin Deleting
      PROVE  Covers(rows[s], s)'
  <2>1. CASE Present(rows[s]) = {}
    BY <2>1 DEF Covers, SameRows
  <2>2. CASE Present(rows[s]) # {}
    <3>1. \A q \in Requests : Active(q, s) => req[q].phase \notin Deleting
      BY <1>5, <2>2 DEF OthersSame, Active
    <3>2. Covers(rows[s], s)
      BY <1>1, <3>1 DEF SessionInv
    <3> DEFINE list == rows[s]
    <3>3. rows'[s] = rows[s]
      BY DEF SameRows
    <3>4. \A x \in Redirects \cap Present(rows[s]), q \in Required(s) :
              q \in verified'[s] \/ (q \in Present(rows[s]) /\ rows[s][q] < rows[s][x])
      BY <3>2 DEF Covers, SameRows
    <3>5. QED
      BY <3>3, <3>4, RequiredSame DEF Covers, Present, SameRows
  <2>3. QED
    BY <2>1, <2>2
<1>6. QED
  BY <1>2, <1>3, <1>4, <1>5 DEF SessionInv

LEMMA FrameSession ==
    ASSUME IInv, NEW s \in Sessions \ disturbed, SameRows(s),
           \A q \in Requests : Active(q, s) \/ Active(q, s)' => req'[q] = req[q]
    PROVE  /\ SessionInv(s)'
           /\ \A q \in Requests : Active(q, s)' => RequestInv(q, s)'
<1>1. SessionInv(s) /\ \A q \in Requests : Active(q, s) => RequestInv(q, s)
  BY DEF IInv
<1>2. \A q \in Requests : Active(q, s)' <=> Active(q, s)
  BY DEF Active
<1>3. ASSUME NEW q \in Requests, Active(q, s)'
      PROVE  RequestInv(q, s)'
  BY <1>1, <1>2, <1>3, FrameRequest
<1>4. done'[s] \subseteq verified'[s] /\ Shaped(rows[s], s)'
  BY <1>1 DEF SessionInv, SameRows, Shaped
<1>5. ASSUME \A q \in Requests : Active(q, s)' => req'[q].phase \notin Deleting
      PROVE  Covers(rows[s], s)'
  <2>1. Covers(rows[s], s)
    BY <1>1, <1>2, <1>5 DEF SessionInv
  <2>2. QED
    BY <2>1, RequiredSame DEF Covers, Present, SameRows
<1>6. QED
  BY <1>3, <1>4, <1>5 DEF SessionInv

-----------------------------------------------------------------------------
(* Steps of a request at work on its session.                              *)

(* What has to be shown of a step of request r: the rest of the state is   *)
(* no concern of it.                                                       *)
LEMMA RequestStep ==
    ASSUME IInv, TypeOK', NEW r \in Requests, NEW t \in Sessions, Active(r, t),
           OthersSame(r), session' = session, disturbed \subseteq disturbed',
           req'[r].phase = "idle" \/ req'[r].session = t,
           \A s \in Sessions \ {t} : SameRows(s),
           t \notin disturbed' =>
               SessionInv(t)' /\ \A q \in Requests : Active(q, t)' => RequestInv(q, t)'
    PROVE  IInv'
<1>1. ASSUME NEW s \in Sessions, session'[s].kind = "none"
      PROVE  Unused(s)'
  <2>1. Unused(s)
    BY <1>1 DEF IInv
  <2>2. s # t
    BY <2>1 DEF Unused
  <2>3. QED
    BY <2>1, <2>2 DEF Unused, SameRows, Present, Active, OthersSame
<1>2. ASSUME NEW s \in Sessions \ disturbed', s # t
      PROVE  SessionInv(s)' /\ \A q \in Requests : Active(q, s)' => RequestInv(q, s)'
  <2>1. \A q \in Requests : Active(q, s) \/ Active(q, s)' => req'[q] = req[q]
    BY <1>2 DEF Active, OthersSame
  <2>2. QED
    BY <1>2, <2>1, FrameSession
<1>3. QED
  BY <1>1, <1>2 DEF IInv

LEMMA QuietAction ==
    ASSUME IInv, TypeOK', NEW r \in Requests, NEW t \in Sessions, Active(r, t),
           OthersSame(r), UNCHANGED <<rows, done, session, reset, disturbed>>,
           \A s \in Sessions : verified[s] \subseteq verified'[s],
           req'[r].phase = "idle" \/ req'[r].session = t,
           t \notin disturbed /\ req'[r].phase # "idle" => RequestInv(r, t)',
           t \notin disturbed /\ req[r].phase \in Deleting =>
               \/ req'[r].phase \in Deleting
               \/ Present(rows[t]) = {}
    PROVE  IInv'
<1>1. \A s \in Sessions : SameRows(s)
  BY DEF SameRows
<1>2. ASSUME t \notin disturbed'
      PROVE  SessionInv(t)' /\ \A q \in Requests : Active(q, t)' => RequestInv(q, t)'
  <2>1. Active(r, t)' => RequestInv(r, t)'
    BY <1>2 DEF Active
  <2>2. req'[r].phase \in Deleting => Active(r, t)'
    BY DEF Active, Deleting
  <2>3. QED
    BY <1>1, <1>2, <2>1, <2>2, QuietStep
<1>3. QED
  BY <1>1, <1>2, RequestStep

LEMMA FinishAction ==
    ASSUME IInv, TypeOK', NEW r \in Requests, NEW t \in Sessions, Active(r, t),
           Finish(r), UNCHANGED <<rows, done, session, reset, disturbed>>,
           \A s \in Sessions : verified[s] \subseteq verified'[s],
           req[r].phase \in Deleting => Present(rows[t]) = {} \/ t \in disturbed
    PROVE  IInv'
<1>1. OthersSame(r) /\ req'[r] = Idle
  BY BecomeOthers DEF IInv, Finish
<1>2. req'[r].phase = "idle"
  BY <1>1 DEF Idle
<1>3. QED
  BY <1>1, <1>2, QuietAction

(* A request goes on checking its step.                                    *)
LEMMA SteppingInv ==
    ASSUME IInv, NEW r \in Requests, NEW t \in Sessions \ disturbed, Active(r, t),
           SameRows(t), req[r].phase \in Stepping,
           req'[r].phase \in {"check", "writeUser", "persist"},
           req'[r].list = req[r].list, req'[r].step = req[r].step,
           req'[r].phase # "check" => req[r].step \in verified'[t]
    PROVE  RequestInv(r, t)'
<1>1. RequestInv(r, t)
  BY DEF IInv
<1>2. Covers(req[r].list, t)'
  BY <1>1, CoversMonotone DEF RequestInv
<1>3. Shaped(req[r].list, t)'
  BY <1>1 DEF RequestInv, Shaped, SameRows
<1>4. QED
  BY <1>1, <1>2, <1>3
     DEF RequestInv, SameRows, Covers, Shaped, Present, Earlier, Stepping, Completing,
         TearingDown, Resetting

(* A request goes on completing the login.                                 *)
LEMMA CompletingInv ==
    ASSUME NEW r \in Requests, NEW t \in Sessions, SameRows(t),
           Required(t) \subseteq verified[t],
           req'[r].phase \in Completing \cup {"cleanup"}
    PROVE  RequestInv(r, t)'
<1>1. Required(t)' \subseteq verified'[t]
  BY RequiredSame DEF SameRows
<1>2. QED
  BY <1>1 DEF RequestInv, Stepping, Completing, TearingDown, Resetting

LEMMA ActiveSession ==
    ASSUME IInv, NEW r \in Requests, req[r].phase # "idle"
    PROVE  /\ TypeOK
           /\ req[r].session \in Sessions
           /\ Active(r, req[r].session)
           /\ session[req[r].session].kind # "none"
           /\ req[r].session \notin disturbed => RequestInv(r, req[r].session)
  BY OwnerType DEF IInv, Active, Unused

LEMMA GotoState ==
    ASSUME TypeOK, NEW r \in Requests, NEW phase, Goto(r, phase)
    PROVE  /\ OthersSame(r)
           /\ req'[r] = [req[r] EXCEPT !.phase = phase]
           /\ req'[r].phase = phase
           /\ req'[r].session = req[r].session
           /\ req'[r].step = req[r].step
           /\ req'[r].list = req[r].list
           /\ req'[r].todo = req[r].todo
<1>1. OthersSame(r) /\ req'[r] = [req[r] EXCEPT !.phase = phase]
  BY BecomeOthers DEF Goto
<1>2. QED
  BY <1>1, OwnerType DEF ReqStates

-----------------------------------------------------------------------------
(* One lemma per kind of action.                                           *)

LEMMA ReadUserInv ==
    ASSUME IInv, TypeOK', NEW r \in Requests, ReadUser(r)
    PROVE  IInv'
<1> DEFINE t == req[r].session
           u == users[OwnerOf(r)]
           state == [req[r] EXCEPT !.phase = "check", !.locked = u.locked, !.user = u]
<1>1. req[r].phase = "readUser"
  BY DEF ReadUser
<1>2. /\ TypeOK /\ t \in Sessions /\ Active(r, t)
      /\ t \notin disturbed => RequestInv(r, t)
  BY <1>1, ActiveSession
<1>3. UNCHANGED <<rows, done, session, verified, reset, disturbed>>
  BY DEF ReadUser, store, history
<1>4. CASE Finish(r)
  BY <1>1, <1>2, <1>3, <1>4, FinishAction DEF Deleting
<1>5. CASE Become(r, state)
  <2>1. OthersSame(r) /\ req'[r] = state
    BY <1>2, <1>5, BecomeOthers
  <2>2. /\ req'[r].phase = "check" /\ req'[r].session = t
        /\ req'[r].list = req[r].list /\ req'[r].step = req[r].step
    BY <1>2, <2>1, OwnerType DEF ReqStates
  <2>3. t \notin disturbed => RequestInv(r, t)'
    BY <1>1, <1>2, <1>3, <2>2, SteppingInv DEF SameRows, Stepping
  <2>4. QED
    BY <1>1, <1>2, <1>3, <2>1, <2>2, <2>3, QuietAction DEF Deleting
<1>6. QED
  BY <1>4, <1>5 DEF ReadUser

(* A factor was checked: the request goes on to write the user or its row. *)
LEMMA VerifiedInv ==
    ASSUME IInv, TypeOK', NEW r \in Requests, req[r].phase = "check", Verified(r),
           OthersSame(r), req'[r].phase \in {"writeUser", "persist"},
           req'[r].session = req[r].session, req'[r].list = req[r].list,
           req'[r].step = req[r].step,
           UNCHANGED <<rows, done, session, reset, disturbed>>
    PROVE  IInv'
<1> DEFINE t == req[r].session
<1>1. /\ TypeOK /\ t \in Sessions /\ Active(r, t)
      /\ t \notin disturbed => RequestInv(r, t)
  BY ActiveSession
<1>2. /\ \A s \in Sessions : verified[s] \subseteq verified'[s]
      /\ req[r].step \in verified'[t]
  BY <1>1 DEF Verified, TypeOK
<1>3. t \notin disturbed => RequestInv(r, t)'
  BY <1>1, <1>2, SteppingInv DEF SameRows, Stepping
<1>4. QED
  BY <1>1, <1>2, <1>3, QuietAction DEF Deleting

LEMMA HandlersInv ==
    ASSUME IInv, TypeOK', NEW r \in Requests,
           \/ AttemptSucceeds(r)
           \/ AuthenticateVerifyEmailAddress(r)
           \/ AuthenticateConfigureTOTP(r)
           \/ AuthenticateRegisterSecurityKey(r)
           \/ AuthenticateAcceptTermsAndConditions(r)
           \/ AuthenticateRotatePassword(r)
           \/ AuthenticateUserAndMigrate(r)
           \/ AuthenticateValidatePasswordResetToken(r)
    PROVE  IInv'
<1>1. req[r].phase = "check" /\ Verified(r)
      /\ UNCHANGED <<rows, done, session, reset, disturbed>>
  BY DEF AttemptSucceeds, AuthenticateVerifyEmailAddress, AuthenticateConfigureTOTP,
         AuthenticateRegisterSecurityKey, AuthenticateAcceptTermsAndConditions,
         AuthenticateRotatePassword, AuthenticateUserAndMigrate,
         AuthenticateValidatePasswordResetToken, Checking, store
<1>2. TypeOK /\ req[r] \in ReqStates
  BY OwnerType DEF IInv
<1>3. CASE Goto(r, "persist")
  BY <1>1, <1>2, <1>3, GotoState, VerifiedInv
<1>4. ASSUME NEW user, NEW locked,
             Become(r, [req[r] EXCEPT !.phase = "writeUser", !.locked = locked,
                                      !.user = user])
      PROVE  IInv'
  <2>1. /\ OthersSame(r)
        /\ req'[r] = [req[r] EXCEPT !.phase = "writeUser", !.locked = locked, !.user = user]
    BY <1>2, <1>4, BecomeOthers
  <2>2. /\ req'[r].phase = "writeUser" /\ req'[r].session = req[r].session
        /\ req'[r].list = req[r].list /\ req'[r].step = req[r].step
    BY <1>2, <2>1 DEF ReqStates
  <2>3. QED
    BY <1>1, <2>1, <2>2, VerifiedInv
<1>5. ASSUME NEW user, Become(r, [req[r] EXCEPT !.phase = "writeUser", !.user = user])
      PROVE  IInv'
  <2>1. [req[r] EXCEPT !.phase = "writeUser", !.user = user]
        = [req[r] EXCEPT !.phase = "writeUser", !.locked = req[r].locked, !.user = user]
    BY <1>2 DEF ReqStates
  <2>2. QED
    BY <1>4, <1>5, <2>1
<1>6. CASE AuthenticateRotatePassword(r)
  <2>1. Goto(r, "persist") \/ Become(r, [req[r] EXCEPT !.phase = "writeUser",
                                             !.user = [req[r].user EXCEPT !.force = FALSE]])
    <3>1. [req[r] EXCEPT !.phase = "writeUser", !.user.force = FALSE]
          = [req[r] EXCEPT !.phase = "writeUser",
                           !.user = [req[r].user EXCEPT !.force = FALSE]]
      BY <1>2 DEF ReqStates
    <3>2. QED
      BY <1>6, <3>1 DEF AuthenticateRotatePassword
  <2>2. QED
    BY <1>3, <1>5, <2>1
<1>7. QED
  BY <1>3, <1>4, <1>5, <1>6
     DEF AttemptSucceeds, AuthenticateVerifyEmailAddress, AuthenticateConfigureTOTP,
         AuthenticateRegisterSecurityKey, AuthenticateAcceptTermsAndConditions,
         AuthenticateUserAndMigrate, AuthenticateValidatePasswordResetToken

(* A request which is refused, fails or dies outside of a deletion.        *)
LEMMA RefusedInv ==
    ASSUME IInv, TypeOK', NEW r \in Requests, CheckRefused(r) \/ AttemptFails(r)
    PROVE  IInv'
<1> DEFINE t == req[r].session
<1>1. req[r].phase \in {"check", "readUser"}
  BY DEF CheckRefused, AttemptFails
<1>2. UNCHANGED <<rows, done, session, verified, reset, disturbed>>
  BY DEF CheckRefused, AttemptFails, store, history
<1>3. TypeOK /\ t \in Sessions /\ Active(r, t) /\ req[r] \in ReqStates
  BY <1>1, ActiveSession, OwnerType
<1>4. CASE Finish(r)
  BY <1>1, <1>2, <1>3, <1>4, FinishAction DEF Deleting
<1>5. CASE Become(r, [req[r] EXCEPT !.phase = "lockUser", !.user.locked = TRUE])
  <2> DEFINE state == [req[r] EXCEPT !.phase = "lockUser", !.user.locked = TRUE]
  <2>0. OthersSame(r) /\ req'[r] = state
    BY <1>3, <1>5, BecomeOthers
  <2>1. OthersSame(r) /\ req'[r].phase = "lockUser" /\ req'[r].session = t
    BY <1>3, <2>0 DEF ReqStates
  <2>2. RequestInv(r, t)'
    BY <2>1 DEF RequestInv, Stepping, Completing, TearingDown, Resetting
  <2>3. QED
    BY <1>1, <1>2, <1>3, <2>1, <2>2, QuietAction DEF Deleting
<1>6. QED
  BY <1>4, <1>5 DEF CheckRefused, AttemptFails

LEMMA WriteUserInv ==
    ASSUME IInv, TypeOK', NEW r \in Requests, WriteUser(r)
    PROVE  IInv'
<1> DEFINE t == req[r].session
<1>1. req[r].phase \in {"writeUser", "lockUser"}
  BY DEF WriteUser
<1>2. UNCHANGED <<rows, done, session, verified, reset, disturbed>>
  BY DEF WriteUser, store, history
<1>3. /\ TypeOK /\ t \in Sessions /\ Active(r, t)
      /\ t \notin disturbed => RequestInv(r, t)
  BY <1>1, ActiveSession
<1>4. CASE Finish(r)
  BY <1>1, <1>2, <1>3, <1>4, FinishAction DEF Deleting
<1>5. CASE req[r].phase = "writeUser" /\ Goto(r, "persist")
  <2>1. /\ OthersSame(r) /\ req'[r].phase = "persist" /\ req'[r].session = t
        /\ req'[r].list = req[r].list /\ req'[r].step = req[r].step
    BY <1>3, <1>5, GotoState
  <2>2. t \notin disturbed => req[r].step \in verified'[t]
    BY <1>2, <1>3, <1>5 DEF RequestInv
  <2>3. t \notin disturbed => RequestInv(r, t)'
    BY <1>2, <1>3, <1>5, <2>1, <2>2, SteppingInv DEF SameRows, Stepping
  <2>4. QED
    BY <1>1, <1>2, <1>3, <2>1, <2>3, QuietAction DEF Deleting
<1>6. QED
  BY <1>4, <1>5 DEF WriteUser

LEMMA CompleteInv ==
    ASSUME IInv, TypeOK', NEW r \in Requests, Complete(r)
    PROVE  IInv'
<1> DEFINE t == req[r].session
<1>1. req[r].phase \in Completing
  BY DEF Complete, ApproveDevice, ReadPreAuth, ConsumePreAuth, SaveAuthorizationCode,
         SignPortalToken, Completing
<1>2. UNCHANGED <<rows, done, session, verified, reset, disturbed>>
  BY DEF Complete, ApproveDevice, ReadPreAuth, ConsumePreAuth, SaveAuthorizationCode,
         SignPortalToken, store, history
<1>3. /\ TypeOK /\ t \in Sessions /\ Active(r, t)
      /\ t \notin disturbed => RequestInv(r, t)
  BY <1>1, ActiveSession DEF Completing
<1>4. CASE Finish(r)
  BY <1>1, <1>2, <1>3, <1>4, FinishAction DEF Deleting, Completing
<1>5. ASSUME OthersSame(r), req'[r].session = t,
             req'[r].phase \in Completing \cup {"cleanup"}
      PROVE  IInv'
  <2>1. t \notin disturbed => RequestInv(r, t)'
    BY <1>1, <1>2, <1>3, <1>5, CompletingInv DEF SameRows, RequestInv
  <2>2. QED
    BY <1>1, <1>2, <1>3, <1>5, <2>1, QuietAction DEF Deleting, Completing
<1>6. CASE \E phase \in Completing : Goto(r, phase)
  BY <1>3, <1>5, <1>6, GotoState
<1>7. CASE StartCleanup(r)
  <2>1. OthersSame(r) /\ req'[r].session = t /\ req'[r].phase = "cleanup"
    <3>1. OthersSame(r) /\ req'[r] = [req[r] EXCEPT !.phase = "cleanup",
                                                     !.todo = Present(req[r].list)]
      BY <1>3, <1>7, BecomeOthers DEF StartCleanup
    <3>2. QED
      BY <1>3, <3>1, OwnerType DEF ReqStates
  <2>2. QED
    BY <1>5, <2>1
<1>8. QED
  BY <1>4, <1>6, <1>7
     DEF Complete, ApproveDevice, ReadPreAuth, ConsumePreAuth, SaveAuthorizationCode,
         SignPortalToken, Completing

(* The row is marked COMPLETE; if the next row is a redirect, every factor *)
(* is verified: those before the step, the step itself, and nothing lies   *)
(* between it and the redirect.                                            *)
LEMMA OrdersInjective ==
    ASSUME NEW list \in Orders, NEW x \in Present(list), NEW y \in Present(list),
           list[x] = list[y]
    PROVE  x = y
<1>1. x \in Steps /\ y \in Steps /\ list[x] # 0 /\ list[y] # 0
  BY DEF Present
<1>2. /\ list[x] \in {Position[x], 20 + Position[x], 40 + Position[x]}
      /\ list[y] \in {Position[y], 20 + Position[y], 40 + Position[y]}
  BY <1>1 DEF Orders, Late, Last
<1>3. Position[x] = Position[y]
  BY <1>1, <1>2, PositionType
<1>4. QED
  BY <1>1, <1>3, PositionInjective

LEMMA NextRedirectEarned ==
    ASSUME IInv, NEW r \in Requests, NEW t \in Sessions \ disturbed, Active(r, t),
           req[r].phase = "persist", NEW next \in Redirects,
           IsNext(req[r].list, req[r].step, next)
    PROVE  Required(t) \subseteq verified[t]
<1> DEFINE list == req[r].list
           st == req[r].step
<1>1. /\ list \in Orders
      /\ RequestInv(r, t)
  BY OwnerType DEF IInv
<1>2. /\ st \in Present(list) /\ st \in verified[t]
      /\ Earlier(list, st) \subseteq verified[t]
      /\ Covers(list, t)
  BY <1>1 DEF RequestInv, Stepping
<1>3. /\ next \in Redirects \cap Present(list)
      /\ \A x \in Present(list) : list[st] < list[x] => list[next] <= list[x]
  BY DEF IsNext
<1> SUFFICES ASSUME NEW q \in Required(t), q \notin verified[t]
             PROVE  FALSE
  OBVIOUS
<1>4. q \in Present(list) /\ list[q] < list[next]
  BY <1>2, <1>3 DEF Covers
<1>5. list[q] \in Nat /\ list[st] \in Nat /\ list[next] \in Nat
  BY <1>1, <1>2, <1>3, <1>4 DEF Orders, Present
<1>6. ~(list[st] < list[q])
  BY <1>3, <1>4, <1>5
<1>7. q # st /\ list[q] # list[st]
  BY <1>1, <1>2, <1>4, OrdersInjective
<1>8. q \in Earlier(list, st)
  BY <1>4, <1>5, <1>6, <1>7 DEF Earlier
<1>9. QED
  BY <1>2, <1>8

(* The other requests keep what they rely on, whatever happens to the rows. *)
LEMMA OthersKeep ==
    ASSUME IInv, NEW t \in Sessions \ disturbed, NEW r \in Requests, Active(r, t),
           OthersSame(r), UNCHANGED <<session, reset>>, verified[t] \subseteq verified'[t]
    PROVE  \A q \in Requests \ {r} : Active(q, t)' => RequestInv(q, t)'
<1> SUFFICES ASSUME NEW q \in Requests \ {r}, Active(q, t)'
             PROVE  RequestInv(q, t)'
  OBVIOUS
<1>1. req'[q] = req[q] /\ Active(q, t) /\ RequestInv(q, t)
  BY DEF OthersSame, Active, IInv
<1>2. req[q].phase \notin TearingDown
  BY <1>1 DEF RequestInv
<1>3. QED
  BY <1>1, <1>2 DEF RequestInv, Covers, Shaped, Required, Present, Earlier

LEMMA PersistInv ==
    ASSUME IInv, TypeOK', NEW r \in Requests, PersistStep(r),
           NEW t, t = req[r].session, NEW st, st = req[r].step
    PROVE  IInv'
<1>1. req[r].phase = "persist"
  BY DEF PersistStep
<1>2. /\ UNCHANGED <<rows, session, verified, reset, disturbed>>
      /\ done' = [done EXCEPT ![t] = IF rows[t][st] # 0 THEN @ \cup {st} ELSE @]
  BY DEF PersistStep, history
<1>3. /\ TypeOK /\ t \in Sessions /\ Active(r, t)
      /\ t \notin disturbed => RequestInv(r, t)
  BY <1>1, ActiveSession
<1>4. done'[t] \subseteq done[t] \cup {st}
  BY <1>2, <1>3 DEF TypeOK
<1>5. \A s \in Sessions \ {t} : SameRows(s)
  BY <1>2, <1>3 DEF SameRows, TypeOK
<1>6. ASSUME OthersSame(r), req'[r].phase = "idle" \/ req'[r].session = t,
             t \notin disturbed /\ req'[r].phase # "idle" => RequestInv(r, t)'
      PROVE  IInv'
  <2>1. ASSUME t \notin disturbed
        PROVE  SessionInv(t)' /\ \A q \in Requests : Active(q, t)' => RequestInv(q, t)'
    <3>1. /\ SessionInv(t) /\ RequestInv(r, t)
          /\ \A q \in Requests : Active(q, t) => RequestInv(q, t)
      BY <1>3, <2>1 DEF IInv
    <3>2. done'[t] \subseteq verified'[t]
      BY <1>1, <1>2, <1>4, <3>1 DEF SessionInv, RequestInv
    <3>3. Shaped(rows[t], t)'
      BY <1>2, <3>1 DEF SessionInv, Shaped
    <3>4. ASSUME NEW q \in Requests, Active(q, t)'
          PROVE  RequestInv(q, t)'
      <4>1. CASE q = r
        BY <1>6, <2>1, <3>4, <4>1 DEF Active
      <4>2. CASE q # r
        BY <1>2, <1>3, <1>6, <2>1, <3>4, <4>2, OthersKeep
      <4>3. QED
        BY <4>1, <4>2
    <3>5. \A q \in Requests : Active(q, t) => req[q].phase \notin Deleting
      BY <1>1, <1>3, <3>1 DEF RequestInv, Deleting, TearingDown
    <3>6. Covers(rows[t], t)'
      BY <1>2, <3>1, <3>5 DEF SessionInv, Covers, Required, Present
    <3>7. QED
      BY <3>2, <3>3, <3>4, <3>6 DEF SessionInv
  <2>2. QED
    BY <1>2, <1>3, <1>5, <1>6, <2>1, RequestStep
<1>7. ASSUME NEW next \in Redirects, IsNext(req[r].list, st, next),
             Become(r, [req[r] EXCEPT !.user = NoUser,
                            !.phase = CompletionPhase(next, req[r].device)])
      PROVE  IInv'
  <2> DEFINE phase == CompletionPhase(next, req[r].device)
  <2>1. phase \in Completing
    BY DEF CompletionPhase, Completing
  <2>2. OthersSame(r) /\ req'[r] = [req[r] EXCEPT !.user = NoUser, !.phase = phase]
    BY <1>3, <1>7, BecomeOthers
  <2> HIDE DEF phase
  <2>3. req'[r].phase = phase /\ req'[r].session = t
    BY <1>3, <2>2, OwnerType DEF ReqStates
  <2>4. ASSUME t \notin disturbed
        PROVE  RequestInv(r, t)'
    <3>1. Required(t)' \subseteq verified'[t]
      BY <1>1, <1>2, <1>3, <1>7, <2>4, NextRedirectEarned DEF Required
    <3>2. QED
      BY <2>1, <2>3, <3>1 DEF RequestInv, Stepping, Completing, TearingDown, Resetting
  <2>5. QED
    BY <1>6, <2>2, <2>3, <2>4
<1>8. CASE Finish(r)
  <2>1. OthersSame(r) /\ req'[r] = Idle
    BY <1>3, <1>8, BecomeOthers DEF Finish
  <2>2. QED
    BY <1>6, <2>1 DEF Idle
<1>9. QED
  BY <1>7, <1>8 DEF PersistStep

(* The duress event takes the place of the last row.                       *)
LEMMA DuressInv ==
    ASSUME IInv, TypeOK', NEW r \in Requests, AuthenticateUserUnderDuress(r),
           NEW t, t = req[r].session, NEW list, list = req[r].list
    PROVE  IInv'
<1> DEFINE event == "SendSecurityEventDuressLogon"
<1>1. req[r].phase = "check" /\ req[r].step = "EnterPassword" /\ Verified(r)
      /\ UNCHANGED <<session, reset, disturbed>>
  BY DEF AuthenticateUserUnderDuress, Checking
<1>2. /\ TypeOK /\ t \in Sessions /\ Active(r, t) /\ list \in Orders
      /\ req[r] \in ReqStates
      /\ t \notin disturbed => RequestInv(r, t)
  BY <1>1, ActiveSession, OwnerType
<1>3. CASE Goto(r, "persist") /\ UNCHANGED <<rows, done>>
  BY <1>1, <1>2, <1>3, GotoState, VerifiedInv
<1>4. ASSUME NEW last \in SecurityEvents \ {event}, IsLast(list, last),
             rows' = [rows EXCEPT ![t][last] = 0],
             done' = [done EXCEPT ![t] = @ \ {last}],
             Become(r, [req[r] EXCEPT !.phase = "duress",
                 !.list = [list EXCEPT ![last] = 0,
                     ![event] = list[last] - Position[last] + Position[event]]])
      PROVE  IInv'
  <2> DEFINE new == [list EXCEPT ![last] = 0,
                        ![event] = list[last] - Position[last] + Position[event]]
  <2>1. OthersSame(r) /\ req'[r] = [req[r] EXCEPT !.phase = "duress", !.list = new]
    BY <1>2, <1>4, BecomeOthers
  <2>2. /\ req'[r].phase = "duress" /\ req'[r].list = new
        /\ req'[r].session = t /\ req'[r].step = "EnterPassword"
    <3> HIDE DEF new
    <3>1. QED
      BY <1>1, <1>2, <2>1 DEF ReqStates
  <2>3. /\ last \in Steps /\ last \notin Factors /\ last \notin Redirects
        /\ event \in Steps /\ event \notin Factors /\ event \notin Redirects
        /\ "EnterPassword" \in Factors /\ "ValidatePasswordResetToken" \in Factors
        /\ Factors \subseteq Steps
    BY PositionType, DuressIsLast, FactorNames DEF Factors, Redirects, SecurityEvents
  <2>4. /\ rows'[t] = [rows[t] EXCEPT ![last] = 0]
        /\ done'[t] = done[t] \ {last}
        /\ \A s \in Sessions \ {t} : rows'[s] = rows[s] /\ done'[s] = done[s]
    BY <1>2, <1>4 DEF TypeOK
  <2>5. \A s \in Sessions : verified[s] \subseteq verified'[s]
    BY <1>1, <1>2 DEF Verified, TypeOK
  <2>6. ASSUME t \notin disturbed
        PROVE  SessionInv(t)' /\ \A q \in Requests : Active(q, t)' => RequestInv(q, t)'
    <3>1. /\ SessionInv(t) /\ RequestInv(r, t)
          /\ \A q \in Requests : Active(q, t) => RequestInv(q, t)
      BY <1>2, <2>6 DEF IInv
    <3>2. Required(t)' = Required(t) /\ Required(t) \subseteq Factors
      BY <1>1, <1>2, RequiredType DEF Required
    <3>3. /\ Present(rows[t])' = Present(rows[t]) \ {last}
          /\ \A st \in Steps \ {last} : rows'[t][st] = rows[t][st]
      <4>1. rows[t] \in Orders
        BY <1>2 DEF TypeOK
      <4>2. rows[t] \in [Steps -> Nat]
        BY <4>1 DEF Orders
      <4>3. rows'[t][last] = 0 /\ \A st \in Steps \ {last} : rows'[t][st] = rows[t][st]
        BY <2>3, <2>4, <4>2
      <4>4. QED
        BY <4>3 DEF Present
    <3>4. done'[t] \subseteq verified'[t]
      BY <1>2, <2>4, <2>5, <3>1 DEF SessionInv
    <3>5. Shaped(rows[t], t)'
      <4>1. rows'[t][last] = 0
        BY <1>2, <2>3, <2>4 DEF TypeOK, Orders
      <4>2. Present(rows'[t]) \subseteq Present(rows[t])
        BY <2>3, <3>3, <4>1 DEF Present
      <4>3. QED
        BY <1>1, <2>3, <3>1, <3>3, <4>1, <4>2 DEF SessionInv, Shaped
    <3>6. \A q \in Requests : Active(q, t) => req[q].phase \notin Deleting
      BY <1>1, <1>2, <3>1 DEF RequestInv, Deleting, TearingDown
    <3>7. Covers(rows[t], t)'
      BY <1>2, <2>3, <2>5, <3>1, <3>2, <3>3, <3>6, PositionType DEF SessionInv, Covers
    <3>8. /\ "EnterPassword" \in Present(list)
          /\ Earlier(list, "EnterPassword") \subseteq verified[t]
          /\ Covers(list, t) /\ Shaped(list, t)
      BY <1>1, <3>1 DEF RequestInv, Stepping
    <3>9. list \in [Steps -> Nat] /\ list[last] # 0 /\ event # last
          /\ \A x \in Present(list) : list[x] <= list[last]
      BY <1>2, <1>4, DuressIsLast DEF IsLast, Present, Orders
    <3>10. /\ new[last] = 0 /\ \A st \in Steps \ {last, event} : new[st] = list[st]
           /\ new[event] \in Nat \ {0} /\ new[event] >= list[last]
           /\ list[last] = Position[last] => new[event] = Position[event]
      <4>1. list[last] \in {Position[last], Late + Position[last], Last + Position[last]}
        BY <1>2, <2>3, <3>9 DEF Orders
      <4>2. Position[last] \in 1 .. 15 /\ Position[event] = 15
        BY <2>3, PositionType, DuressIsLast
      <4>3. /\ list[last] - Position[last] + Position[event] >= list[last]
            /\ list[last] - Position[last] + Position[event] \in Nat \ {0}
            /\ list[last] = Position[last] =>
                   list[last] - Position[last] + Position[event] = Position[event]
        BY <4>1, <4>2 DEF Late, Last
      <4>4. new[event] = list[last] - Position[last] + Position[event]
        BY <2>3, <3>9
      <4>5. new[last] = 0 /\ \A st \in Steps \ {last, event} : new[st] = list[st]
        BY <2>3, <3>9
      <4> HIDE DEF new
      <4>6. QED
        BY <4>3, <4>4, <4>5
    <3> HIDE DEF new
    <3>11. Present(new) = (Present(list) \ {last}) \cup {event}
      BY <2>3, <3>9, <3>10 DEF Present
    <3>12. Shaped(new, t)'
      <4>1. CASE t \in reset
        <5>1. Redirects \cap Present(list) = {}
          BY <3>8, <4>1 DEF Shaped, Present
        <5>2. Redirects \cap Present(new) = {}
          BY <2>3, <3>11, <5>1
        <5>3. QED
          BY <1>1, <4>1, <5>2 DEF Shaped, Present
      <4>2. CASE t \notin reset
        <5>1. list["ValidatePasswordResetToken"] = 0
              /\ \A st \in Steps : list[st] \in {0, Position[st]}
          BY <3>8, <4>2 DEF Shaped
        <5>2. QED
          BY <1>1, <2>3, <3>9, <3>10, <4>2, <5>1 DEF Shaped
      <4>3. QED
        BY <4>1, <4>2
    <3>13. Covers(new, t)'
      BY <1>2, <2>3, <2>5, <3>2, <3>8, <3>10, <3>11 DEF Covers, Present
    <3>14. Earlier(new, "EnterPassword") \subseteq Earlier(list, "EnterPassword")
      <4>1. new["EnterPassword"] = list["EnterPassword"]
        BY <2>3, <3>10
      <4>2. ~(new[event] < list["EnterPassword"])
        <5>1. new[event] \in Nat
          BY <3>10
        <5>2. QED
          BY <2>3, <3>8, <3>9, <3>10, <5>1
      <4>3. QED
        BY <2>3, <3>10, <4>1, <4>2 DEF Earlier, Present
    <3>15. "EnterPassword" \in Factors \cap Present(new)
      BY <2>3, <3>8, <3>11
    <3>16. "EnterPassword" \in verified'[t]
      BY <1>1, <1>2, <2>3 DEF Verified, TypeOK
    <3>17. RequestInv(r, t)'
      <4>1. (Earlier(req[r].list, req[r].step) \subseteq verified[t])'
        BY <1>2, <2>2, <2>5, <3>8, <3>14 DEF Earlier, Present
      <4>2. (req[r].step \in Factors \cap Present(req[r].list))'
        BY <2>2, <3>15 DEF Present
      <4>3. (Covers(req[r].list, t) /\ Shaped(req[r].list, t))'
        BY <2>2, <3>12, <3>13
      <4>4. QED
        BY <2>2, <3>16, <4>1, <4>2, <4>3
           DEF RequestInv, Stepping, Completing, TearingDown, Resetting
    <3>18. ASSUME NEW q \in Requests, Active(q, t)'
           PROVE  RequestInv(q, t)'
      <4>1. CASE q = r
        BY <3>17, <4>1
      <4>2. CASE q # r
        BY <1>1, <1>2, <2>1, <2>5, <2>6, <3>18, <4>2, OthersKeep
      <4>3. QED
        BY <4>1, <4>2
    <3>19. QED
      BY <3>4, <3>5, <3>7, <3>18 DEF SessionInv
  <2>7. \A s \in Sessions \ {t} : SameRows(s)
    BY <1>1, <2>4, <2>5 DEF SameRows
  <2>8. QED
    BY <1>1, <1>2, <2>1, <2>2, <2>6, <2>7, RequestStep
<1>5. QED
  BY <1>3, <1>4 DEF AuthenticateUserUnderDuress

LEMMA InsertDuressEventInv ==
    ASSUME IInv, TypeOK', NEW r \in Requests, InsertDuressEvent(r),
           NEW t, t = req[r].session, NEW list, list = req[r].list
    PROVE  IInv'
<1> DEFINE event == "SendSecurityEventDuressLogon"
<1>1. req[r].phase = "duress" /\ UNCHANGED <<done, session, verified, reset, disturbed>>
  BY DEF InsertDuressEvent, history
<1>2. /\ TypeOK /\ t \in Sessions /\ Active(r, t) /\ list \in Orders
      /\ t \notin disturbed => RequestInv(r, t)
  BY <1>1, ActiveSession, OwnerType
<1>3. CASE Finish(r) /\ UNCHANGED rows
  BY <1>1, <1>2, <1>3, FinishAction DEF Deleting
<1>4. CASE /\ rows' = [rows EXCEPT ![t][event] = list[event]]
           /\ Goto(r, "persist")
  <2>1. /\ OthersSame(r) /\ req'[r].phase = "persist" /\ req'[r].session = t
        /\ req'[r].list = list /\ req'[r].step = req[r].step
    BY <1>2, <1>4, GotoState
  <2>2. /\ event \in Steps /\ event \notin Factors /\ event \notin Redirects
        /\ "EnterPassword" \in Factors /\ "ValidatePasswordResetToken" \in Factors
        /\ Factors \subseteq Steps /\ Redirects \subseteq Steps
    BY PositionType, DuressIsLast, FactorNames DEF Factors, Redirects, SecurityEvents
  <2>3. ASSUME t \notin disturbed
        PROVE  SessionInv(t)' /\ \A q \in Requests : Active(q, t)' => RequestInv(q, t)'
    <3>1. SessionInv(t) /\ RequestInv(r, t)
      BY <1>2, <2>3 DEF IInv
    <3>2. Required(t)' = Required(t) /\ Required(t) \subseteq Factors
      BY <1>1, <1>2, RequiredType DEF Required
    <3>3. rows'[t][event] = list[event]
          /\ \A st \in Steps \ {event} : rows'[t][st] = rows[t][st]
      <4>1. rows[t] \in [Steps -> Nat]
        BY <1>2 DEF TypeOK, Orders
      <4>2. rows'[t] = [rows[t] EXCEPT ![event] = list[event]]
        BY <1>2, <1>4 DEF TypeOK
      <4>3. QED
        BY <2>2, <4>1, <4>2
    <3>4. \A st \in Steps \ {event} : st \in Present(rows[t])' <=> st \in Present(rows[t])
      BY <3>3 DEF Present
    <3>5. Shaped(rows[t], t)'
      <4>1. Shaped(list, t)
        BY <1>1, <3>1 DEF RequestInv, Stepping
      <4>2. CASE t \in reset
        <5>1. rows[t]["EnterPassword"] = 0 \/ Redirects \cap Present(rows[t]) = {}
          BY <3>1, <4>2 DEF SessionInv, Shaped
        <5>2. QED
          BY <1>1, <2>2, <3>3, <3>4, <4>2, <5>1 DEF Shaped
      <4>3. CASE t \notin reset
        BY <1>1, <2>2, <3>1, <3>3, <4>1, <4>3 DEF SessionInv, Shaped
      <4>4. QED
        BY <4>2, <4>3
    <3>6. \A q \in Requests : Active(q, t) => req[q].phase \notin Deleting
      BY <1>1, <1>2, <2>3 DEF IInv, RequestInv, Deleting, TearingDown
    <3>7. Covers(rows[t], t)
      BY <3>1, <3>6 DEF SessionInv
    <3>8. Covers(rows[t], t)'
      BY <1>1, <2>2, <3>2, <3>3, <3>4, <3>7 DEF Covers
    <3>9. RequestInv(r, t)'
      <4>1. /\ req[r].step \in Factors \cap Present(list)
            /\ Earlier(list, req[r].step) \subseteq verified[t]
            /\ Covers(list, t) /\ Shaped(list, t) /\ req[r].step \in verified[t]
        BY <1>1, <3>1 DEF RequestInv, Stepping
      <4>2. Covers(list, t)' /\ Shaped(list, t)'
        BY <1>1, <3>2, <4>1 DEF Covers, Shaped
      <4>3. QED
        BY <1>1, <2>1, <4>1, <4>2
           DEF RequestInv, Stepping, Completing, TearingDown, Resetting, Present, Earlier
    <3>10. \A q \in Requests \ {r} : Active(q, t)' => RequestInv(q, t)'
      BY <1>1, <1>2, <2>1, <2>3, OthersKeep
    <3>11. QED
      BY <1>1, <3>1, <3>5, <3>8, <3>9, <3>10 DEF SessionInv
  <2>4. \A s \in Sessions \ {t} : SameRows(s)
    BY <1>1, <1>2, <1>4 DEF SameRows, TypeOK
  <2>5. QED
    BY <1>1, <1>2, <2>1, <2>3, <2>4, RequestStep
<1>5. QED
  BY <1>3, <1>4 DEF InsertDuressEvent

-----------------------------------------------------------------------------
(* Rows are deleted.                                                       *)

LEMMA DeletionInv ==
    ASSUME IInv, TypeOK', NEW r \in Requests, DeleteUserAuthenticationState(r),
           NEW t, t = req[r].session
    PROVE  IInv'
<1> PICK st \in Steps :
        /\ RowToDelete(r, st)
        /\ rows' = [rows EXCEPT ![t][st] = 0]
        /\ done' = [done EXCEPT ![t] = @ \ {st}]
        /\ Become(r, [req[r] EXCEPT !.todo = @ \ {st}])
  BY DEF DeleteUserAuthenticationState
<1>1. /\ req[r].phase \in {"cleanup", "replace", "expire", "cancel"}
      /\ UNCHANGED <<session, verified, reset, disturbed>>
  BY DEF DeleteUserAuthenticationState, history
<1>2. /\ TypeOK /\ t \in Sessions /\ Active(r, t) /\ req[r] \in ReqStates
      /\ t \notin disturbed => RequestInv(r, t)
  BY <1>1, ActiveSession, OwnerType
<1>3. OthersSame(r) /\ req'[r] = [req[r] EXCEPT !.todo = req[r].todo \ {st}]
  BY <1>2, BecomeOthers
<1>4. /\ req'[r].phase = req[r].phase /\ req'[r].session = t
      /\ req'[r].list = req[r].list /\ req'[r].todo = req[r].todo \ {st}
  BY <1>2, <1>3 DEF ReqStates
<1>5. /\ rows'[t][st] = 0 /\ \A x \in Steps \ {st} : rows'[t][x] = rows[t][x]
      /\ done'[t] = done[t] \ {st}
      /\ \A s \in Sessions \ {t} : rows'[s] = rows[s] /\ done'[s] = done[s]
  <2>1. rows[t] \in [Steps -> Nat]
    BY <1>2 DEF TypeOK, Orders
  <2>2. /\ rows'[t] = [rows[t] EXCEPT ![st] = 0] /\ done'[t] = done[t] \ {st}
        /\ \A s \in Sessions \ {t} : rows'[s] = rows[s] /\ done'[s] = done[s]
    BY <1>2 DEF TypeOK
  <2>3. QED
    BY <2>1, <2>2
<1>6. Present(rows'[t]) = Present(rows[t]) \ {st}
  BY <1>5 DEF Present
<1>7. ASSUME t \notin disturbed
      PROVE  SessionInv(t)' /\ \A q \in Requests : Active(q, t)' => RequestInv(q, t)'
  <2>1. SessionInv(t) /\ RequestInv(r, t)
    BY <1>2, <1>7 DEF IInv
  <2>2. Shaped(rows[t], t)'
    <3>1. Shaped(rows[t], t)
      BY <2>1 DEF SessionInv
    <3>2. QED
      BY <1>1, <1>5, <1>6, <3>1, FactorNames, PositionType DEF Shaped
  <2>3. Required(t)' = Required(t)
    BY <1>1 DEF Required
  <2>4. req[r].phase = "cleanup" => Covers(rows[t], t)'
    <3>1. req[r].phase = "cleanup" => Required(t)' \subseteq verified'[t]
      BY <1>1, <2>1, <2>3 DEF RequestInv
    <3>2. QED
      BY <3>1 DEF Covers
  <2>5. req[r].phase # "cleanup" => Active(r, t)' /\ req'[r].phase \in Deleting
    BY <1>1, <1>4 DEF Active, Deleting
  <2>6. RequestInv(r, t)'
    <3>1. CASE req[r].phase = "cleanup"
      BY <1>1, <1>4, <2>1, <2>3, <3>1
         DEF RequestInv, Stepping, Completing, TearingDown, Resetting
    <3>2. CASE req[r].phase # "cleanup"
      <4>1. /\ Present(rows[t]) \subseteq req[r].todo
            /\ \A q \in Requests \ {r} : ~Active(q, t)
        BY <1>1, <2>1, <3>2 DEF RequestInv, TearingDown
      <4>2. /\ (Present(rows[t]) \subseteq req[r].todo)'
            /\ \A q \in Requests \ {r} : ~Active(q, t)'
        BY <1>3, <1>4, <1>6, <4>1 DEF Active, OthersSame
      <4>3. req[r].phase = "replace" =>
                /\ Covers(req[r].list, t) /\ Shaped(req[r].list, t)
                /\ req[r].list["EnterPassword"] # 0
        BY <2>1 DEF RequestInv, Resetting
      <4>4. req[r].phase = "replace" =>
                /\ (Covers(req[r].list, t) /\ Shaped(req[r].list, t))'
                /\ req'[r].list["EnterPassword"] # 0
        BY <1>1, <1>4, <2>3, <4>3 DEF Covers, Shaped
      <4>5. QED
        BY <1>1, <1>4, <3>2, <4>2, <4>4
           DEF RequestInv, Stepping, Completing, TearingDown, Resetting
    <3>3. QED
      BY <3>1, <3>2
  <2>7. \A q \in Requests \ {r} : Active(q, t)' => RequestInv(q, t)'
    BY <1>1, <1>2, <1>3, <1>7, OthersKeep
  <2>8. done'[t] \subseteq verified'[t]
    BY <1>1, <1>5, <2>1 DEF SessionInv
  <2>9. QED
    BY <2>2, <2>4, <2>5, <2>6, <2>7, <2>8 DEF SessionInv
<1>8. \A s \in Sessions \ {t} : SameRows(s)
  BY <1>1, <1>5 DEF SameRows
<1>9. QED
  BY <1>1, <1>2, <1>3, <1>4, <1>7, <1>8, RequestStep

LEMMA TearingDownState ==
    ASSUME IInv, NEW r \in Requests, NEW t \in Sessions \ disturbed, Active(r, t),
           req[r].phase \in TearingDown, UNCHANGED <<rows, session, verified, reset>>,
           OthersSame(r), req'[r].list = req[r].list, req'[r].todo = req[r].todo,
           req'[r].phase \in {"replace", "insert", "cancel"},
           req'[r].phase \in Resetting => req[r].phase \in Resetting,
           req'[r].phase = "insert" => req[r].todo = {}
    PROVE  RequestInv(r, t)'
<1>1. RequestInv(r, t)
  BY DEF IInv
<1>2. \A q \in Requests \ {r} : ~Active(q, t)'
  BY <1>1 DEF RequestInv, OthersSame, Active
<1>3. req[r].phase \in Resetting => Covers(req[r].list, t)' /\ Shaped(req[r].list, t)'
  BY <1>1 DEF RequestInv, Covers, Shaped, Required
<1>4. QED
  BY <1>1, <1>2, <1>3
     DEF RequestInv, Stepping, Completing, TearingDown, Resetting, Present, Covers, Shaped

LEMMA RowsDeletedInv ==
    ASSUME IInv, TypeOK', NEW r \in Requests,
           RowsDeleted(r) \/ SavePasswordResetToken(r) \/ CancelDevice(r) \/ CancelDone(r),
           NEW t, t = req[r].session
    PROVE  IInv'
<1>1. /\ req[r].phase \in {"cleanup", "replace", "expire", "forgot", "cancelRead", "cancel"}
      /\ UNCHANGED <<rows, done, session, verified, reset, disturbed>>
  BY DEF RowsDeleted, SavePasswordResetToken, CancelDevice, CancelDone, store, history
<1>2. /\ TypeOK /\ t \in Sessions /\ Active(r, t)
      /\ t \notin disturbed => RequestInv(r, t)
  BY <1>1, ActiveSession
<1>3. CASE Finish(r)
  <2>1. req[r].phase \in Deleting => req[r].todo = {}
    BY <1>1, <1>3 DEF RowsDeleted, SavePasswordResetToken, CancelDevice, CancelDone, Deleting
  <2>2. req[r].phase \in Deleting => Present(rows[t]) = {} \/ t \in disturbed
    BY <1>2, <2>1 DEF RequestInv, Deleting, TearingDown
  <2>3. QED
    BY <1>1, <1>2, <1>3, <2>2, FinishAction
<1>4. ASSUME NEW phase, Goto(r, phase), phase \in {"replace", "insert", "cancel"},
             req[r].phase \in TearingDown,
             phase \in Resetting => req[r].phase \in Resetting,
             phase = "insert" => req[r].todo = {}
      PROVE  IInv'
  <2>1. /\ OthersSame(r) /\ req'[r].phase = phase /\ req'[r].session = t
        /\ req'[r].list = req[r].list /\ req'[r].todo = req[r].todo
    BY <1>2, <1>4, GotoState
  <2>2. t \notin disturbed => RequestInv(r, t)'
    BY <1>1, <1>2, <1>4, <2>1, TearingDownState
  <2>3. QED
    BY <1>1, <1>2, <1>4, <2>1, <2>2, QuietAction DEF Deleting
<1>5. CASE RowsDeleted(r) /\ ~Finish(r)
  BY <1>4, <1>5 DEF RowsDeleted, Resetting, TearingDown
<1>6. CASE SavePasswordResetToken(r) /\ ~Finish(r)
  BY <1>4, <1>6 DEF SavePasswordResetToken, Resetting, TearingDown
<1>7. CASE CancelDevice(r)
  BY <1>4, <1>7 DEF CancelDevice, Resetting, TearingDown
<1>8. CASE CancelDone(r)
  BY <1>3, <1>8 DEF CancelDone
<1>9. QED
  BY <1>3, <1>5, <1>6, <1>7, <1>8

(* The list of a forgotten password still holds every factor that is       *)
(* missing, before the redirect: the password gave its place to the token. *)
LEMMA ResetKeeps ==
    ASSUME NEW list \in Orders, NEW s \in Sessions, s \notin reset, s \in reset',
           UNCHANGED session, verified' = verified,
           Required(s) \subseteq Factors, Required(s)' \subseteq Factors,
           Covers(list, s), Shaped(list, s), list["EnterPassword"] # 0,
           NEW x0 \in Redirects \cap Present(list),
           NEW after \in [Steps -> Nat],
           \A st \in Steps : after[st] = IF st \in Inserted(list, NoRows)
                                         THEN ResetOrder(list)[st] ELSE 0
    PROVE  after["EnterPassword"] = 0 /\ Covers(after, s)'
<1> DEFINE new == ResetOrder(list)
<1>1. /\ Factors \subseteq Steps /\ Redirects \subseteq Steps
      /\ {"EnterPassword", "ValidatePasswordResetToken", "RotatePassword"} \subseteq Factors
      /\ Factors \cap Redirects = {}
  BY PositionType, FactorNames DEF Factors
<1>2. /\ Position["EnterPassword"] = 2 /\ Position["ValidatePasswordResetToken"] = 1
      /\ Position["RotatePassword"] = 10
      /\ \A x \in Redirects : Position[x] \in {11, 12}
  BY DEF Position, Redirects
<1>3. \A st \in Steps : Position[st] \in 1 .. 15
  BY PositionType
<1>4. \A st \in Factors, x \in Redirects : Position[st] < Position[x]
  BY FactorsBeforeRedirects
<1>5. /\ list["ValidatePasswordResetToken"] = 0
      /\ \A st \in Steps : list[st] \in {0, Position[st]}
  BY DEF Shaped
<1>6. \A st \in Present(list) : st \in Steps /\ list[st] = Position[st]
  BY <1>5 DEF Present
<1>7. \A st \in Factors : ~IsLast(list, st)
  BY <1>1, <1>3, <1>4, <1>6 DEF IsLast
<1>8. "EnterPassword" \in Present(list) /\ list["EnterPassword"] = 2
  BY <1>1, <1>2, <1>6 DEF Present
<1>9. \A st \in Steps \ {"EnterPassword", "ValidatePasswordResetToken"} : Position[st] > 2
  BY DEF Steps, Position
<1>10. IsFirst(list, "EnterPassword")
  BY <1>2, <1>3, <1>5, <1>6, <1>8, <1>9 DEF IsFirst, Earlier, Present
<1>11. \A st \in Steps \ {"EnterPassword"} : ~IsFirst(list, st)
  BY <1>3, <1>5, <1>6, <1>8, <1>9 DEF IsFirst, Earlier, Present
<1>12. new["EnterPassword"] = 0
  BY <1>1, <1>7, <1>10 DEF ResetOrder
<1>13. new["ValidatePasswordResetToken"] = 1
  BY <1>1, <1>2, <1>7 DEF ResetOrder
<1>14. \A q \in Factors \cap Present(list) : q # "EnterPassword" => new[q] = Position[q]
  BY <1>1, <1>5, <1>6, <1>7, <1>11 DEF ResetOrder, Present
<1>15. \A x \in Redirects \cap Present(list) : new[x] \in {Position[x], Last + Position[x]}
  BY <1>1, <1>2, <1>6, <1>11, <1>3 DEF ResetOrder
<1>16. \A x \in Redirects \ Present(list) : new[x] = 0
  BY <1>1 DEF ResetOrder, IsLast
<1>17. \A st \in Steps : new[st] \in 1 .. 12 => st \in Inserted(list, NoRows)
  <2>1. Present(NoRows) = {}
    BY DEF Present, NoRows
  <2>2. InsertStopsAt(list, NoRows) \subseteq {30}
    BY <2>1 DEF InsertStopsAt, Late
  <2>3. QED
    BY <2>2 DEF Inserted, Present
<1>18. \A x \in Redirects \cap Present(after) : x \in Present(list) /\ after[x] = new[x]
  BY <1>1, <1>16 DEF Present
<1>19. \A st \in Steps : new[st] \in 1 .. 12 => after[st] = new[st] /\ st \in Present(after)
  BY <1>17 DEF Present
<1>20. Required(s)' \subseteq (Required(s) \ {"EnterPassword"}) \cup {"ValidatePasswordResetToken"}
  BY DEF Required
<1> HIDE DEF new
<1>21. ASSUME NEW x \in Redirects \cap Present(after), NEW q \in Required(s)'
       PROVE  q \in verified'[s] \/ (q \in Present(after) /\ after[q] < after[x])
  <2>1. x \in Present(list) /\ after[x] = new[x] /\ Position[x] \in {11, 12}
        /\ after[x] \in {Position[x], Last + Position[x]}
    BY <1>2, <1>15, <1>18
  <2>2. CASE q = "ValidatePasswordResetToken"
    BY <1>1, <1>13, <1>19, <2>1, <2>2 DEF Last
  <2>3. CASE q \in Required(s) \ {"EnterPassword"}
    <3>1. q \in verified[s] \/ (q \in Present(list) /\ list[q] < list[x])
      BY <2>1, <2>3 DEF Covers
    <3>2. ASSUME q \in Present(list)
          PROVE  q \in Present(after) /\ after[q] < after[x]
      <4>1. new[q] = Position[q] /\ Position[q] < Position[x] /\ q \in Steps
        BY <1>1, <1>4, <1>14, <2>3, <3>2
      <4>2. new[q] \in 1 .. 12
        BY <1>3, <2>1, <4>1
      <4>3. QED
        BY <1>19, <2>1, <4>1, <4>2 DEF Last
    <3>3. QED
      BY <3>1, <3>2
  <2>4. QED
    BY <1>20, <2>2, <2>3
<1>22. after["EnterPassword"] = 0
  BY <1>1, <1>12 DEF new
<1>23. QED
  BY <1>21, <1>22 DEF Covers

LEMMA InsertNewStatesInv ==
    ASSUME IInv, TypeOK', NEW r \in Requests, InsertNewStates(r),
           NEW t, t = req[r].session, NEW list, list = req[r].list
    PROVE  IInv'
<1> DEFINE new == Inserted(list, rows[t])
<1>1. /\ req[r].phase = "insert" /\ Finish(r)
      /\ UNCHANGED <<session, verified, disturbed>> /\ reset' = reset \cup {t}
      /\ rows' = [rows EXCEPT ![t] = [st \in Steps |->
                     IF st \in new THEN ResetOrder(list)[st] ELSE rows[t][st]]]
      /\ done' = [done EXCEPT ![t] = @ \ new]
  BY DEF InsertNewStates
<1>2. /\ TypeOK /\ t \in Sessions /\ Active(r, t) /\ list \in Orders
      /\ t \notin disturbed => RequestInv(r, t)
  BY <1>1, ActiveSession, OwnerType
<1>3. OthersSame(r) /\ req'[r].phase = "idle"
  BY <1>1, <1>2, BecomeOthers DEF Finish, Idle
<1>4. \A s \in Sessions \ {t} : SameRows(s)
  BY <1>1, <1>2 DEF SameRows, TypeOK
<1>5. ASSUME t \notin disturbed
      PROVE  SessionInv(t)' /\ \A q \in Requests : Active(q, t)' => RequestInv(q, t)'
  <2>1. SessionInv(t) /\ RequestInv(r, t)
    BY <1>2, <1>5 DEF IInv
  <2>2. /\ Covers(list, t) /\ Shaped(list, t) /\ list["EnterPassword"] # 0
        /\ Present(rows[t]) = {}
        /\ \A q \in Requests \ {r} : ~Active(q, t)
    BY <1>1, <2>1 DEF RequestInv, Resetting, TearingDown
  <2>3. \A q \in Requests : ~Active(q, t)'
    BY <1>3, <2>2 DEF Active, OthersSame
  <2>4. rows[t] = NoRows
    <3>1. rows[t] \in [Steps -> Nat]
      BY <1>2 DEF TypeOK, Orders
    <3>2. \A st \in Steps : rows[t][st] = 0
      BY <2>2 DEF Present
    <3>3. QED
      BY <3>1, <3>2 DEF NoRows
  <2>5. \A st \in Steps : rows'[t][st] = IF st \in Inserted(list, NoRows)
                                         THEN ResetOrder(list)[st] ELSE 0
    <3> HIDE DEF new
    <3>1. \A st \in Steps : rows'[t][st] =
              IF st \in new THEN ResetOrder(list)[st] ELSE rows[t][st]
      BY <1>1, <1>2 DEF TypeOK
    <3>2. new = Inserted(list, NoRows)
      BY <2>4 DEF new
    <3>3. \A st \in Steps : rows[t][st] = 0
      BY <2>4 DEF NoRows
    <3>4. QED
      BY <3>1, <3>2, <3>3
  <2>6. done'[t] \subseteq verified'[t]
    BY <1>1, <1>2, <2>1 DEF SessionInv, TypeOK
  <2>7. t \in reset' /\ rows'[t] \in [Steps -> Nat]
    BY <1>1, <1>2 DEF TypeOK, Orders
  <2>8. Shaped(rows[t], t)' /\ Covers(rows[t], t)'
    <3>1. CASE Redirects \cap Present(list) = {}
      <4>1. \A x \in Redirects : ResetOrder(list)[x] = 0
        BY <3>1, PositionType, FactorNames DEF ResetOrder, IsLast, Factors
      <4>2. Redirects \cap Present(rows'[t]) = {}
        BY <2>5, <4>1, PositionType DEF Present
      <4>3. QED
        BY <2>7, <4>2 DEF Shaped, Covers, Present
    <3>2. CASE Redirects \cap Present(list) # {}
      <4>1. PICK x0 \in Redirects \cap Present(list) : TRUE
        BY <3>2
      <4>2. t \notin reset
        BY <2>2, <3>2 DEF Shaped
      <4>3. Required(t) \subseteq Factors /\ Required(t)' \subseteq Factors
        BY <1>2, RequiredType, FactorNames, <1>1 DEF Required, TypeOK, SessionRows
      <4> PICK after \in [Steps -> Nat] : after = rows'[t]
        BY <2>7
      <4>4. after["EnterPassword"] = 0 /\ Covers(after, t)'
        <5>1. \A st \in Steps : after[st] = IF st \in Inserted(list, NoRows)
                                             THEN ResetOrder(list)[st] ELSE 0
          BY <2>5
        <5>2. QED
          BY <1>1, <1>2, <2>2, <2>7, <4>1, <4>2, <4>3, <5>1, ResetKeeps
      <4>5. QED
        BY <2>7, <4>4 DEF Shaped, Covers, Present
    <3>3. QED
      BY <3>1, <3>2
  <2>9. QED
    BY <2>3, <2>6, <2>8 DEF SessionInv
<1>6. ASSUME NEW s \in Sessions, session'[s].kind = "none"
      PROVE  Unused(s)'
  <2>1. session[s].kind = "none"
    BY <1>1, <1>6
  <2>2. Unused(s)
    BY <2>1 DEF IInv
  <2>3. s # t
    BY <1>2, <2>2 DEF Unused
  <2>4. QED
    BY <1>3, <1>4, <2>2, <2>3 DEF Unused, SameRows, Present, Active, OthersSame
<1>7. QED
  BY <1>1, <1>2, <1>3, <1>4, <1>5, <1>6, RequestStep

(* A request dies; if it was deleting rows its session is disturbed.       *)
LEMMA AbortInv ==
    ASSUME IInv, TypeOK', NEW r \in Requests, Abort(r), NEW t, t = req[r].session
    PROVE  IInv'
<1>1. req[r].phase # "idle" /\ Finish(r)
      /\ UNCHANGED <<rows, done, session, verified, reset>>
  BY DEF Abort, store, history
<1>2. TypeOK /\ t \in Sessions /\ Active(r, t)
  BY <1>1, ActiveSession
<1>3. OthersSame(r) /\ req'[r].phase = "idle"
  BY <1>1, <1>2, BecomeOthers DEF Finish, Idle
<1>4. \A s \in Sessions : SameRows(s)
  BY <1>1 DEF SameRows
<1>5. CASE req[r].phase \in TearingDown
  <2>1. t \in disturbed' /\ disturbed \subseteq disturbed'
    BY <1>5 DEF Abort
  <2>2. QED
    BY <1>1, <1>2, <1>3, <1>4, <2>1, RequestStep
<1>6. CASE req[r].phase \notin TearingDown
  <2>1. disturbed' = disturbed
    BY <1>6 DEF Abort
  <2>2. QED
    BY <1>1, <1>2, <1>6, <2>1, FinishAction DEF TearingDown, Deleting
<1>7. QED
  BY <1>5, <1>6

-----------------------------------------------------------------------------
(* The environment.                                                        *)

LEMMA QuietEnvironment ==
    ASSUME IInv, TypeOK',
           UNCHANGED <<rows, done, req, session, verified, reset, disturbed>>
    PROVE  IInv'
<1>1. \A s \in Sessions : SameRows(s)
  BY DEF SameRows
<1>2. \A s \in Sessions : session'[s].kind = "none" => Unused(s)'
  BY DEF IInv, Unused, Active
<1>3. ASSUME NEW s \in Sessions \ disturbed'
      PROVE  SessionInv(s)' /\ \A q \in Requests : Active(q, s)' => RequestInv(q, s)'
  BY <1>1, <1>3, FrameSession
<1>4. QED
  BY <1>2, <1>3 DEF IInv

LEMMA DeleteExpiredDataInv ==
    ASSUME IInv, TypeOK', DeleteExpiredData
    PROVE  IInv'
<1>1. /\ TypeOK
      /\ UNCHANGED <<req, session, verified, reset, disturbed>>
      /\ rows' = [s \in Sessions |-> IF s \in expired THEN NoRows ELSE rows[s]]
      /\ done' = [s \in Sessions |-> IF s \in expired THEN {} ELSE done[s]]
  BY DEF DeleteExpiredData, history, IInv
<1>2. \A st \in Steps : NoRows[st] = 0
  BY DEF NoRows
<1>3. ASSUME NEW s \in Sessions, session'[s].kind = "none"
      PROVE  Unused(s)'
  BY <1>1, <1>2, <1>3 DEF IInv, Unused, Active, Present
<1>4. ASSUME NEW s \in Sessions \ disturbed'
      PROVE  SessionInv(s)' /\ \A q \in Requests : Active(q, s)' => RequestInv(q, s)'
  <2>1. SessionInv(s) /\ \A q \in Requests : Active(q, s) => RequestInv(q, s)
    BY <1>1, <1>4 DEF IInv
  <2>2. CASE s \notin expired
    <3>1. SameRows(s)
      BY <1>1, <2>2 DEF SameRows
    <3>2. QED
      BY <1>1, <3>1, FrameSession
  <2>3. CASE s \in expired
    <3>1. rows'[s] = NoRows /\ done'[s] = {} /\ Present(rows'[s]) = {}
      BY <1>1, <1>2, <2>3 DEF Present
    <3>2. Shaped(rows[s], s)' /\ Covers(rows[s], s)'
      BY <1>2, <3>1, FactorNames, PositionType DEF Shaped, Covers, Present
    <3>3. ASSUME NEW q \in Requests, Active(q, s)'
          PROVE  RequestInv(q, s)'
      <4>1. Active(q, s) /\ RequestInv(q, s)
        BY <1>1, <2>1, <3>3 DEF Active
      <4>2. \A p \in Requests : Active(p, s)' <=> Active(p, s)
        BY <1>1 DEF Active
      <4>3. (Present(rows[s]) = {})'
        BY <3>1 DEF Present
      <4>4. QED
        BY <1>1, <4>1, <4>2, <4>3 DEF RequestInv, Covers, Shaped, Required, Present, Earlier
    <3>4. QED
      BY <3>1, <3>2, <3>3 DEF SessionInv
  <2>4. QED
    BY <2>2, <2>3
<1>5. QED
  BY <1>3, <1>4 DEF IInv

-----------------------------------------------------------------------------
(* A request begins, a login begins.                                       *)

LEMMA BeginInv ==
    ASSUME IInv, TypeOK', NEW r \in Requests, NEW s \in Sessions, NEW st \in Steps,
           NEW phase \in {"readUser", "expire", "forgot", "cancelRead"},
           Begin(r, s, st, phase), session[s].kind # "none",
           phase = "readUser" =>
               st \in Factors \cap Present(rows[s]) /\ PreviousComplete(s, st),
           phase = "forgot" => rows[s]["EnterPassword"] # 0
    PROVE  IInv'
<1> DEFINE todo == IF phase \in TearingDown THEN Present(rows[s]) ELSE {}
           carries == s \in deviceRows
           state == [Idle EXCEPT !.phase = phase, !.session = s, !.step = st,
                         !.list = rows[s], !.todo = todo, !.device = carries]
<1>1. /\ TypeOK /\ req[r].phase = "idle"
      /\ UNCHANGED <<rows, done, session, verified, reset>>
  BY DEF Begin, IInv, store, history
<1>2. OthersSame(r) /\ req'[r] = state
  BY <1>1, BecomeOthers DEF Begin
<1>3. /\ req'[r].phase = phase /\ req'[r].session = s /\ req'[r].step = st
      /\ req'[r].list = rows[s] /\ req'[r].todo = todo
  <2> HIDE DEF todo, carries
  <2>1. QED
    BY <1>2 DEF Idle
<1>4. \A x \in Sessions : SameRows(x)
  BY <1>1 DEF SameRows
<1>5. ASSUME NEW x \in Sessions, session'[x].kind = "none"
      PROVE  Unused(x)'
  <2>1. Unused(x) /\ x # s
    BY <1>1, <1>5 DEF IInv
  <2>2. \A q \in Requests : ~Active(q, x)'
    BY <1>2, <1>3, <2>1 DEF Unused, Active, OthersSame
  <2>3. QED
    BY <1>1, <2>1, <2>2 DEF Unused, Present
<1>6. ASSUME NEW x \in Sessions \ disturbed', x # s
      PROVE  SessionInv(x)' /\ \A q \in Requests : Active(q, x)' => RequestInv(q, x)'
  <2>1. \A q \in Requests : Active(q, x) \/ Active(q, x)' => req'[q] = req[q]
    BY <1>1, <1>2, <1>3, <1>6 DEF Active, OthersSame
  <2>2. x \notin disturbed
    BY <1>6 DEF Begin, Disturb
  <2>3. QED
    BY <1>4, <1>6, <2>1, <2>2, FrameSession
<1>7. ASSUME s \notin disturbed'
      PROVE  SessionInv(s)' /\ \A q \in Requests : Active(q, s)' => RequestInv(q, s)'
  <2>1. s \notin disturbed
        /\ \A q \in Requests \ {r} : Active(q, s) =>
               phase \notin TearingDown /\ req[q].phase \notin TearingDown
    BY <1>7 DEF Begin, Disturb
  <2>2. SessionInv(s) /\ \A q \in Requests : Active(q, s) => RequestInv(q, s)
    BY <2>1 DEF IInv
  <2>3. \A q \in Requests : Active(q, s) => req[q].phase \notin Deleting
    BY <1>1, <2>1 DEF Active, Deleting, TearingDown
  <2>4. Covers(rows[s], s) /\ Shaped(rows[s], s) /\ done[s] \subseteq verified[s]
    BY <2>2, <2>3 DEF SessionInv
  <2>5. /\ Covers(rows[s], s)' /\ Shaped(rows[s], s)' /\ done'[s] \subseteq verified'[s]
        /\ Required(s)' = Required(s)
    BY <1>1, <2>4 DEF Covers, Shaped, Required, Present
  <2>6. phase = "readUser" => Earlier(rows[s], st) \subseteq verified[s]
    BY <2>4 DEF PreviousComplete
  <2>7. phase \in TearingDown =>
            /\ (Present(rows[s]) \subseteq req[r].todo)'
            /\ \A q \in Requests \ {r} : ~Active(q, s)'
    BY <1>1, <1>2, <1>3, <2>1 DEF Active, OthersSame, Present
  <2>8. (Covers(req[r].list, s) /\ Shaped(req[r].list, s))'
    BY <1>1, <1>3, <2>5 DEF Covers, Shaped, Present
  <2>9. phase = "readUser" =>
            (/\ req[r].step \in Factors \cap Present(req[r].list)
             /\ Earlier(req[r].list, req[r].step) \subseteq verified[s])'
    BY <1>1, <1>3, <2>6 DEF Earlier, Present
  <2>10. RequestInv(r, s)'
    <3> HIDE DEF todo, state
    <3>1. QED
      BY <1>3, <2>7, <2>8, <2>9
         DEF RequestInv, Stepping, Completing, TearingDown, Resetting
  <2>11. ASSUME NEW q \in Requests \ {r}, Active(q, s)'
         PROVE  RequestInv(q, s)'
    <3>1. req'[q] = req[q] /\ Active(q, s)
      BY <1>2, <2>11 DEF OthersSame, Active
    <3>2. RequestInv(q, s) /\ req[q].phase \notin TearingDown
      BY <2>1, <2>2, <3>1
    <3>3. QED
      BY <1>4, <2>1, <3>1, <3>2, FrameRequest
  <2>12. QED
    BY <2>5, <2>10, <2>11 DEF SessionInv
<1>8. QED
  BY <1>5, <1>6, <1>7 DEF IInv

LEMMA SubmitInv ==
    ASSUME IInv, TypeOK', NEW r \in Requests, NEW s \in Sessions, Submit(r, s)
    PROVE  IInv'
<1>1. Present(rows[s]) # {} => session[s].kind # "none"
  BY DEF IInv, Unused
<1>2. "EnterPassword" \in Steps /\ Factors \subseteq Steps
  BY DuressIsLast, PositionType
<1>3. CASE \E st \in Factors : ValidateAuthenticationStep(r, s, st)
  BY <1>1, <1>2, <1>3, BeginInv DEF ValidateAuthenticationStep
<1>4. CASE \E st \in Factors : ValidateExpiredStep(r, s, st)
  BY <1>1, <1>2, <1>4, BeginInv DEF ValidateExpiredStep
<1>5. CASE BeginForgotPassword(r, s)
  BY <1>1, <1>2, <1>5, BeginInv DEF BeginForgotPassword, Present
<1>6. CASE BeginCancel(r, s)
  BY <1>2, <1>6, BeginInv DEF BeginCancel
<1>7. QED
  BY <1>3, <1>4, <1>5, <1>6 DEF Submit

LEMMA HandleUserNameInputInv ==
    ASSUME IInv, TypeOK', NEW s \in Sessions, NEW u \in Users, NEW kind \in Kinds,
           NEW p \in PreAuths, NEW overdue \in Rotates,
           HandleUserNameInput(s, u, kind, p, overdue)
    PROVE  IInv'
<1> DEFINE factors == {st \in Factors : NeedsFactor(st, u, kind, overdue)}
           list == factors \cup {st \in Steps : EndsWith(st, kind)}
<1>1. /\ TypeOK /\ session[s].kind = "none"
      /\ rows' = [rows EXCEPT ![s] = [st \in Steps |->
                     IF st \in list THEN Position[st] ELSE 0]]
      /\ session' = [session EXCEPT ![s] =
                        [kind |-> kind, owner |-> u, pre |-> p, required |-> factors]]
      /\ UNCHANGED <<done, req, verified, reset, disturbed>>
  BY DEF HandleUserNameInput, IInv
<1>2. Unused(s)
  BY <1>1 DEF IInv
<1> HIDE DEF factors, list
<1>3. /\ \A st \in Steps : rows'[s][st] = IF st \in list THEN Position[st] ELSE 0
      /\ session'[s].required = factors /\ session'[s].kind = kind
      /\ \A x \in Sessions \ {s} : rows'[x] = rows[x] /\ session'[x] = session[x]
  BY <1>1 DEF TypeOK
<1>4. kind # "none"
  BY ConstantsOk DEF ConstantsOk, LoginKinds
<1>5. ASSUME NEW x \in Sessions, session'[x].kind = "none"
      PROVE  Unused(x)'
  <2>1. x # s /\ Unused(x)
    BY <1>3, <1>4, <1>5 DEF IInv
  <2>2. QED
    BY <1>1, <1>3, <2>1 DEF Unused, Active, Present
<1>6. ASSUME NEW x \in Sessions \ disturbed', x # s
      PROVE  SessionInv(x)' /\ \A q \in Requests : Active(q, x)' => RequestInv(q, x)'
  <2>1. SameRows(x)
    BY <1>1, <1>3, <1>6 DEF SameRows
  <2>2. QED
    BY <1>1, <1>6, <2>1, FrameSession
<1>7. ASSUME s \notin disturbed'
      PROVE  SessionInv(s)' /\ \A q \in Requests : Active(q, s)' => RequestInv(q, s)'
  <2>1. \A q \in Requests : ~Active(q, s)'
    BY <1>1, <1>2 DEF Unused, Active
  <2>2. done'[s] \subseteq verified'[s]
    BY <1>1, <1>7 DEF IInv, SessionInv
  <2>3. s \notin reset'
    BY <1>1, <1>2 DEF Unused
  <2>4. Shaped(rows[s], s)'
    <3>1. "ValidatePasswordResetToken" \in Steps \ list
      BY FactorNames, PositionType DEF list, factors, NeedsFactor, EndsWith
    <3>2. QED
      BY <1>3, <2>3, <3>1 DEF Shaped
  <2>5. Covers(rows[s], s)'
    <3>1. Required(s)' = factors
      BY <1>3, <2>3 DEF Required
    <3>2. factors \subseteq list /\ factors \subseteq Factors
      BY DEF list, factors
    <3>3. ASSUME NEW x \in Redirects, rows'[s][x] # 0, NEW q \in factors
          PROVE  q \in Steps /\ rows'[s][q] # 0 /\ rows'[s][q] < rows'[s][x]
      <4>1. Position[q] < Position[x] /\ q \in Steps /\ x \in Steps
        BY <3>2, FactorsBeforeRedirects, PositionType
      <4>2. rows'[s][q] = Position[q] /\ rows'[s][x] = Position[x]
        BY <1>3, <3>2, <3>3, <4>1
      <4>3. QED
        BY <4>1, <4>2, PositionType
    <3>4. QED
      BY <3>1, <3>3 DEF Covers, Present
  <2>6. QED
    BY <2>1, <2>2, <2>4, <2>5 DEF SessionInv
<1>8. QED
  BY <1>5, <1>6, <1>7 DEF IInv

-----------------------------------------------------------------------------
(* The invariant.                                                          *)

LEMMA InitInv == Init => IInv
<1> SUFFICES ASSUME Init PROVE IInv
  OBVIOUS
<1>1. TypeOK
  BY InitType
<1>2. \A r \in Requests, s \in Sessions : ~Active(r, s)
  BY DEF Init, Active, Idle
<1>3. ASSUME NEW s \in Sessions
      PROVE  SessionInv(s) /\ Unused(s)
  <2>1. rows[s] = NoRows /\ done[s] = {} /\ s \notin reset
    BY DEF Init
  <2>2. Present(rows[s]) = {}
    BY <2>1 DEF Present, NoRows
  <2>3. Shaped(rows[s], s)
    BY <2>1, FactorNames, PositionType DEF Shaped, NoRows
  <2>4. QED
    BY <1>2, <2>1, <2>2, <2>3 DEF SessionInv, Unused, Covers
<1>4. QED
  BY <1>1, <1>2, <1>3 DEF IInv

LEMMA ContinueInv ==
    ASSUME IInv, TypeOK', NEW r \in Requests, Continue(r)
    PROVE  IInv'
<1>1. CASE ReadUser(r) \/ WriteUser(r) \/ Complete(r)
  BY <1>1, ReadUserInv, WriteUserInv, CompleteInv
<1>2. CASE Check(r)
  BY <1>2, HandlersInv, RefusedInv, DuressInv DEF Check
<1>3. CASE InsertDuressEvent(r) \/ PersistStep(r)
  BY <1>3, InsertDuressEventInv, PersistInv
<1>4. CASE DeleteUserAuthenticationState(r) \/ InsertNewStates(r)
  BY <1>4, DeletionInv, InsertNewStatesInv
<1>5. CASE RowsDeleted(r) \/ SavePasswordResetToken(r) \/ CancelDevice(r) \/ CancelDone(r)
  BY <1>5, RowsDeletedInv
<1>6. CASE DeleteCancelledPreAuth(r)
  BY <1>6, QuietEnvironment DEF DeleteCancelledPreAuth, store, history
<1>7. QED
  BY <1>1, <1>2, <1>3, <1>4, <1>5, <1>6 DEF Continue

LEMMA NextInv == IInv /\ [Next]_vars => IInv'
<1> SUFFICES ASSUME IInv, [Next]_vars PROVE IInv'
  OBVIOUS
<1>1. TypeOK'
  BY NextType DEF IInv
<1>2. ASSUME NEW s \in Sessions, NEW u \in Users, NEW kind \in Kinds,
             NEW p \in PreAuths, NEW overdue \in Rotates,
             HandleUserNameInput(s, u, kind, p, overdue)
      PROVE  IInv'
  BY <1>1, <1>2, HandleUserNameInputInv
<1>3. ASSUME NEW r \in Requests, NEW s \in Sessions, Submit(r, s)
      PROVE  IInv'
  BY <1>1, <1>3, SubmitInv
<1>4. ASSUME NEW r \in Requests, Continue(r) \/ Abort(r)
      PROVE  IInv'
  BY <1>1, <1>4, ContinueInv, AbortInv
<1>5. ASSUME \/ \E s \in Sessions : Expire(s) \/ ExpireResetToken(s)
             \/ \E p \in PreAuths : ExpirePreAuth(p)
             \/ \E u \in Users : UnlockUser(u)
      PROVE  IInv'
  BY <1>1, <1>5, QuietEnvironment
     DEF Expire, ExpireResetToken, ExpirePreAuth, UnlockUser, store, history
<1>6. CASE DeleteExpiredData
  BY <1>1, <1>6, DeleteExpiredDataInv
<1>7. CASE UNCHANGED vars
  BY <1>1, <1>7, QuietEnvironment DEF vars, store, history
<1>8. QED
  BY <1>2, <1>3, <1>4, <1>5, <1>6, <1>7 DEF Next

THEOREM InductiveInvariant == Spec => []IInv
<1>1. Init => IInv
  BY InitInv
<1>2. IInv /\ [Next]_vars => IInv'
  BY NextInv
<1>3. QED
  BY <1>1, <1>2, PTL DEF Spec

(* However requests, retries, the clean-up job and failures interleave, a  *)
(* request completes a login, of a session whose list nobody took apart    *)
(* under another request, only after every factor chosen for it was        *)
(* checked.                                                                *)
THEOREM EarnedCompletion == Spec => []CompletionIsEarned
<1>1. IInv => CompletionIsEarned
  BY ActiveSession DEF CompletionIsEarned, RequestInv, Completing, IInv
<1>2. QED
  BY <1>1, InductiveInvariant, PTL

-----------------------------------------------------------------------------
(* An authorization code uses its pre-authentication token up.             *)

CodeInv ==
    /\ CodeUsesUpPreAuth
    /\ \A r \in Requests : req[r].phase = "save" => preAuth[PreAuthOf(r)] = "gone"

(* A step after which no other request is about to save a code.            *)
LEMMA NotSaving ==
    ASSUME CodeInv, NEW r \in Requests, OthersSame(r), req'[r].phase # "save",
           UNCHANGED <<session, codeFor>>,
           \A p \in codeFor : preAuth'[p] = preAuth[p],
           \A q \in Requests : preAuth[PreAuthOf(q)] = "gone" =>
                                   preAuth'[PreAuthOf(q)] = "gone"
    PROVE  CodeInv'
<1>1. CodeUsesUpPreAuth'
  BY DEF CodeInv, CodeUsesUpPreAuth
<1>2. ASSUME NEW q \in Requests, req'[q].phase = "save"
      PROVE  (preAuth[PreAuthOf(q)] = "gone")'
  <2>1. q # r /\ req'[q] = req[q]
    BY <1>2 DEF OthersSame
  <2>2. PreAuthOf(q)' = PreAuthOf(q)
    BY <2>1 DEF PreAuthOf
  <2>3. QED
    BY <1>2, <2>1, <2>2 DEF CodeInv
<1>3. QED
  BY <1>1, <1>2 DEF CodeInv

(* The phase a request goes on to.                                         *)
LEMMA NextPhase ==
    ASSUME TypeOK, NEW r \in Requests,
           \/ ReadUser(r) \/ Check(r) \/ WriteUser(r) \/ InsertDuressEvent(r)
           \/ PersistStep(r) \/ ApproveDevice(r) \/ ReadPreAuth(r)
           \/ SaveAuthorizationCode(r) \/ SignPortalToken(r)
           \/ DeleteUserAuthenticationState(r) \/ RowsDeleted(r)
           \/ SavePasswordResetToken(r) \/ InsertNewStates(r)
           \/ CancelDevice(r) \/ CancelDone(r) \/ Abort(r)
    PROVE  OthersSame(r) /\ req'[r].phase # "save"
<1>1. req[r] \in ReqStates
  BY OwnerType
<1>2. ASSUME Finish(r)
      PROVE  OthersSame(r) /\ req'[r].phase # "save"
  BY <1>2, BecomeOthers DEF Finish, Idle
<1>3. ASSUME NEW phase, phase # "save", Goto(r, phase)
      PROVE  OthersSame(r) /\ req'[r].phase # "save"
  BY <1>3, GotoState
<1>4. ASSUME NEW phase, phase # "save", NEW locked, NEW user,
             Become(r, [req[r] EXCEPT !.phase = phase, !.locked = locked, !.user = user])
      PROVE  OthersSame(r) /\ req'[r].phase # "save"
  <2>1. /\ OthersSame(r)
        /\ req'[r] = [req[r] EXCEPT !.phase = phase, !.locked = locked, !.user = user]
    BY <1>4, BecomeOthers
  <2>2. QED
    BY <1>1, <1>4, <2>1 DEF ReqStates
<1>5. ASSUME NEW phase, phase # "save", NEW user,
             Become(r, [req[r] EXCEPT !.phase = phase, !.user = user])
      PROVE  OthersSame(r) /\ req'[r].phase # "save"
  <2>1. OthersSame(r) /\ req'[r] = [req[r] EXCEPT !.phase = phase, !.user = user]
    BY <1>5, BecomeOthers
  <2>2. QED
    BY <1>1, <1>5, <2>1 DEF ReqStates
<1>6. ASSUME NEW phase, phase # "save", NEW list,
             Become(r, [req[r] EXCEPT !.phase = phase, !.list = list])
      PROVE  OthersSame(r) /\ req'[r].phase # "save"
  <2>1. OthersSame(r) /\ req'[r] = [req[r] EXCEPT !.phase = phase, !.list = list]
    BY <1>6, BecomeOthers
  <2>2. QED
    BY <1>1, <1>6, <2>1 DEF ReqStates
<1>7. ASSUME NEW user,
             \/ Become(r, [req[r] EXCEPT !.phase = "lockUser", !.user.locked = TRUE])
             \/ Become(r, [req[r] EXCEPT !.phase = "writeUser", !.user.force = FALSE])
      PROVE  OthersSame(r) /\ req'[r].phase # "save"
  <2>1. [req[r] EXCEPT !.phase = "lockUser", !.user.locked = TRUE]
        = [req[r] EXCEPT !.phase = "lockUser", !.user = [req[r].user EXCEPT !.locked = TRUE]]
    BY <1>1 DEF ReqStates
  <2>2. [req[r] EXCEPT !.phase = "writeUser", !.user.force = FALSE]
        = [req[r] EXCEPT !.phase = "writeUser", !.user = [req[r].user EXCEPT !.force = FALSE]]
    BY <1>1 DEF ReqStates
  <2>3. QED
    BY <1>5, <1>7, <2>1, <2>2
<1>8. CASE ReadUser(r)
  BY <1>2, <1>4, <1>8 DEF ReadUser
<1>9. CASE Check(r)
  <2>1. CASE AuthenticateUserUnderDuress(r)
    BY <1>3, <1>6, <2>1 DEF AuthenticateUserUnderDuress
  <2>2. CASE AttemptSucceeds(r) \/ AttemptFails(r) \/ CheckRefused(r)
    BY <1>2, <1>3, <1>7, <2>2 DEF AttemptSucceeds, AttemptFails, CheckRefused
  <2>3. CASE AuthenticateVerifyEmailAddress(r) \/ AuthenticateConfigureTOTP(r)
                 \/ AuthenticateRegisterSecurityKey(r)
    BY <1>3, <1>5, <2>3
       DEF AuthenticateVerifyEmailAddress, AuthenticateConfigureTOTP,
           AuthenticateRegisterSecurityKey
  <2>4. CASE AuthenticateAcceptTermsAndConditions(r)
                 \/ AuthenticateValidatePasswordResetToken(r)
    BY <1>3, <2>4 DEF AuthenticateAcceptTermsAndConditions,
                      AuthenticateValidatePasswordResetToken
  <2>5. CASE AuthenticateRotatePassword(r) \/ AuthenticateUserAndMigrate(r)
    BY <1>3, <1>4, <1>7, <2>5 DEF AuthenticateRotatePassword, AuthenticateUserAndMigrate
  <2>6. QED
    BY <1>9, <2>1, <2>2, <2>3, <2>4, <2>5 DEF Check
<1>10. CASE PersistStep(r)
  <2>1. ASSUME NEW phase, phase \in {"approve", "code", "sign"},
               Become(r, [req[r] EXCEPT !.user = NoUser, !.phase = phase])
        PROVE  OthersSame(r) /\ req'[r].phase # "save"
    <3>1. OthersSame(r) /\ req'[r] = [req[r] EXCEPT !.user = NoUser, !.phase = phase]
      BY <2>1, BecomeOthers
    <3>2. QED
      BY <1>1, <2>1, <3>1 DEF ReqStates
  <2>2. \A next : CompletionPhase(next, req[r].device) \in {"approve", "code", "sign"}
    BY DEF CompletionPhase
  <2>3. QED
    BY <1>2, <1>10, <2>1, <2>2 DEF PersistStep
<1>11. ASSUME StartCleanup(r)
       PROVE  OthersSame(r) /\ req'[r].phase # "save"
  <2>1. /\ OthersSame(r)
        /\ req'[r] = [req[r] EXCEPT !.phase = "cleanup", !.todo = Present(req[r].list)]
    BY <1>11, BecomeOthers DEF StartCleanup
  <2>2. QED
    BY <1>1, <2>1 DEF ReqStates
<1>12. CASE DeleteUserAuthenticationState(r)
  <2> PICK todo : Become(r, [req[r] EXCEPT !.todo = todo])
    BY <1>12 DEF DeleteUserAuthenticationState
  <2>1. OthersSame(r) /\ req'[r] = [req[r] EXCEPT !.todo = todo]
    BY BecomeOthers
  <2>2. req[r].phase # "save"
    BY <1>12 DEF DeleteUserAuthenticationState
  <2>3. QED
    BY <1>1, <2>1, <2>2 DEF ReqStates
<1>13. QED
  BY <1>2, <1>3, <1>8, <1>9, <1>10, <1>11, <1>12
     DEF WriteUser, InsertDuressEvent, ApproveDevice, ReadPreAuth, SaveAuthorizationCode,
         SignPortalToken, RowsDeleted, SavePasswordResetToken, InsertNewStates,
         CancelDevice, CancelDone, Abort

LEMMA CodeKeeps ==
    ASSUME IInv, CodeInv, NEW r \in Requests, Continue(r) \/ Abort(r)
    PROVE  CodeInv'
<1>1. TypeOK
  BY DEF IInv
<1>2. PreAuthOf(r) \in PreAuths
  BY <1>1, OwnerType DEF TypeOK, SessionRows, PreAuthOf
<1>3. CASE SaveAuthorizationCode(r)
  <2>1. UNCHANGED <<session, preAuth>> /\ codeFor' = codeFor \cup {PreAuthOf(r)}
        /\ preAuth[PreAuthOf(r)] = "gone"
    BY <1>3 DEF SaveAuthorizationCode, CodeInv, history
  <2>2. OthersSame(r) /\ req'[r].phase # "save"
    BY <1>1, <1>3, NextPhase
  <2>3. QED
    BY <2>1, <2>2 DEF CodeInv, CodeUsesUpPreAuth, OthersSame, PreAuthOf
<1>4. CASE ConsumePreAuth(r)
  <2>1. /\ UNCHANGED <<session, codeFor>>
        /\ preAuth' = [preAuth EXCEPT ![PreAuthOf(r)] = "gone"]
        /\ Finish(r) \/ Goto(r, "save")
    BY <1>4 DEF ConsumePreAuth, history, outcome
  <2>2. OthersSame(r) /\ (req'[r].phase = "save" => req'[r].session = req[r].session)
    <3>1. CASE Finish(r)
      BY <1>1, <3>1, BecomeOthers DEF Finish, Idle
    <3>2. CASE Goto(r, "save")
      BY <1>1, <3>2, GotoState
    <3>3. QED
      BY <2>1, <3>1, <3>2
  <2>3. \A p \in PreAuths : preAuth'[p] = IF p = PreAuthOf(r) THEN "gone" ELSE preAuth[p]
    BY <1>1, <2>1 DEF TypeOK
  <2>4. codeFor \subseteq PreAuths
    BY <1>1 DEF TypeOK
  <2>5. CodeUsesUpPreAuth'
    BY <2>1, <2>3, <2>4 DEF CodeInv, CodeUsesUpPreAuth
  <2>6. ASSUME NEW q \in Requests, req'[q].phase = "save"
        PROVE  preAuth'[session'[req'[q].session].pre] = "gone"
    <3>1. PreAuthOf(q) \in PreAuths
      BY <1>1, OwnerType DEF TypeOK, SessionRows, PreAuthOf
    <3>2. q # r => preAuth[PreAuthOf(q)] = "gone"
      BY <2>2, <2>6 DEF CodeInv, OthersSame
    <3>3. session'[req'[q].session].pre = PreAuthOf(q)
      BY <2>1, <2>2, <2>6 DEF OthersSame, PreAuthOf
    <3>4. QED
      BY <2>3, <3>1, <3>2, <3>3
  <2>7. QED
    BY <2>5, <2>6 DEF CodeInv, PreAuthOf
<1>5. CASE DeleteCancelledPreAuth(r)
  <2>1. /\ UNCHANGED <<session, codeFor, req>>
        /\ preAuth' = [preAuth EXCEPT ![PreAuthOf(r)] = "gone"]
    BY <1>5 DEF DeleteCancelledPreAuth, history, outcome
  <2>2. \A p \in PreAuths : preAuth[p] = "gone" => preAuth'[p] = "gone"
    BY <1>1, <2>1 DEF TypeOK
  <2>3. codeFor \subseteq PreAuths /\ \A q \in Requests : PreAuthOf(q) \in PreAuths
    BY <1>1, OwnerType DEF TypeOK, SessionRows, PreAuthOf
  <2>4. QED
    BY <2>1, <2>2, <2>3 DEF CodeInv, CodeUsesUpPreAuth, PreAuthOf
<1>6. ASSUME UNCHANGED <<session, preAuth, codeFor>>,
             OthersSame(r) /\ req'[r].phase # "save"
      PROVE  CodeInv'
  BY <1>6, NotSaving
<1>7. CASE ~(SaveAuthorizationCode(r) \/ ConsumePreAuth(r) \/ DeleteCancelledPreAuth(r))
  <2>1. OthersSame(r) /\ req'[r].phase # "save"
    BY <1>1, <1>7, NextPhase DEF Continue, Complete
  <2>2. UNCHANGED <<session, preAuth, codeFor>>
    BY <1>7 DEF Continue, Complete, Abort, ReadUser, Check, WriteUser, InsertDuressEvent,
           PersistStep, ApproveDevice, ReadPreAuth, SignPortalToken,
           DeleteUserAuthenticationState, RowsDeleted, SavePasswordResetToken,
           InsertNewStates, CancelDevice, CancelDone, AttemptSucceeds, AttemptFails,
           AuthenticateUserUnderDuress, AuthenticateUserAndMigrate,
           AuthenticateVerifyEmailAddress, AuthenticateConfigureTOTP,
           AuthenticateRegisterSecurityKey, AuthenticateAcceptTermsAndConditions,
           AuthenticateRotatePassword, AuthenticateValidatePasswordResetToken,
           CheckRefused, history, outcome
  <2>3. QED
    BY <1>6, <2>1, <2>2
<1>8. QED
  BY <1>3, <1>4, <1>5, <1>7

LEMMA CodeNext == IInv /\ CodeInv /\ [Next]_vars => CodeInv'
<1> SUFFICES ASSUME IInv, CodeInv, [Next]_vars PROVE CodeInv'
  OBVIOUS
<1>1. ASSUME NEW s \in Sessions, NEW u \in Users, NEW kind \in Kinds,
             NEW p \in PreAuths, NEW overdue \in Rotates,
             HandleUserNameInput(s, u, kind, p, overdue)
      PROVE  CodeInv'
  <2>1. /\ UNCHANGED <<preAuth, codeFor, req>> /\ session[s].kind = "none"
        /\ \E row : session' = [session EXCEPT ![s] = row]
    BY <1>1 DEF HandleUserNameInput, outcome
  <2>2. \A q \in Requests : req[q].phase = "save" => req[q].session # s
    BY <2>1 DEF IInv, Unused, Active
  <2>3. \A x \in Sessions \ {s} : session'[x] = session[x]
    BY <2>1 DEF IInv, TypeOK
  <2>4. \A q \in Requests : req[q].session \in Sessions
    BY OwnerType DEF IInv
  <2>5. QED
    BY <2>1, <2>2, <2>3, <2>4 DEF CodeInv, CodeUsesUpPreAuth, PreAuthOf
<1>2. ASSUME NEW r \in Requests, NEW s \in Sessions, Submit(r, s)
      PROVE  CodeInv'
  <2>0. \E st, phase : phase # "save" /\ Begin(r, s, st, phase)
    <3>1. ASSUME NEW st, NEW phase, phase # "save", Begin(r, s, st, phase)
          PROVE  \E x, y : y # "save" /\ Begin(r, s, x, y)
      BY <3>1
    <3>2. QED
      BY <1>2, <3>1
         DEF Submit, ValidateAuthenticationStep, ValidateExpiredStep, BeginForgotPassword,
             BeginCancel
  <2> PICK st, phase : phase # "save" /\ Begin(r, s, st, phase)
    BY <2>0
  <2> DEFINE todo == IF phase \in TearingDown THEN Present(rows[s]) ELSE {}
             carries == s \in deviceRows
             state == [Idle EXCEPT !.phase = phase, !.session = s, !.step = st,
                           !.list = rows[s], !.todo = todo, !.device = carries]
  <2>1. OthersSame(r) /\ req'[r] = state
    BY BecomeOthers DEF Begin, IInv
  <2> HIDE DEF todo, carries
  <2>2. req'[r].phase # "save"
    BY <2>1 DEF Idle
  <2>3. UNCHANGED <<session, preAuth, codeFor>>
    BY DEF Begin, history, outcome
  <2>4. QED
    BY <2>1, <2>2, <2>3, NotSaving
<1>3. ASSUME NEW r \in Requests, Continue(r) \/ Abort(r)
      PROVE  CodeInv'
  BY <1>3, CodeKeeps
<1>4. ASSUME NEW p \in PreAuths, ExpirePreAuth(p)
      PROVE  CodeInv'
  <2>1. UNCHANGED <<session, codeFor, req>> /\ preAuth[p] = "live"
        /\ preAuth' = [preAuth EXCEPT ![p] = "expired"]
    BY <1>4 DEF ExpirePreAuth, history, outcome
  <2>2. \A x \in PreAuths : preAuth[x] = "gone" => preAuth'[x] = "gone"
    BY <2>1 DEF IInv, TypeOK
  <2>3. codeFor \subseteq PreAuths /\ \A q \in Requests : PreAuthOf(q) \in PreAuths
    BY OwnerType DEF IInv, TypeOK, SessionRows, PreAuthOf
  <2>4. QED
    BY <2>1, <2>2, <2>3 DEF CodeInv, CodeUsesUpPreAuth, PreAuthOf
<1>5. ASSUME UNCHANGED <<session, preAuth, codeFor, req>>
      PROVE  CodeInv'
  BY <1>5 DEF CodeInv, CodeUsesUpPreAuth, PreAuthOf
<1>6. ASSUME \/ \E s \in Sessions : Expire(s) \/ ExpireResetToken(s)
             \/ \E u \in Users : UnlockUser(u)
             \/ DeleteExpiredData
             \/ UNCHANGED vars
      PROVE  CodeInv'
  BY <1>5, <1>6
     DEF Expire, ExpireResetToken, UnlockUser, DeleteExpiredData, vars, history, outcome
<1>7. QED
  BY <1>1, <1>2, <1>3, <1>4, <1>6 DEF Next

(* Whatever is retried or cancelled, a pre-authentication token for which  *)
(* an authorization code was saved cannot start another login.             *)
THEOREM PreAuthUsedUp == Spec => []CodeUsesUpPreAuth
<1>1. Init => IInv /\ CodeInv
  <2>1. Init => codeFor = {} /\ \A r \in Requests : req[r].phase # "save"
    BY DEF Init, Idle
  <2>2. QED
    BY <2>1, InitInv DEF CodeInv, CodeUsesUpPreAuth
<1>2. IInv /\ CodeInv /\ [Next]_vars => (IInv /\ CodeInv)'
  BY NextInv, CodeNext
<1>3. CodeInv => CodeUsesUpPreAuth
  BY DEF CodeInv
<1>4. QED
  BY <1>1, <1>2, <1>3, PTL DEF Spec

-----------------------------------------------------------------------------
(* Rows are completed in their order.                                      *)

InOrder(s) ==
    \A st \in done[s] \cap Present(rows[s]) : Earlier(rows[s], st) \subseteq done[s]

(* What a request may rely on until its row is COMPLETE: the rows of the
   factors stay where they were when it began, those before its own are
   COMPLETE, and a duress event is going to stand behind all of them.      *)
Reached(r, s) ==
    /\ \A st \in Factors : rows[s][st] \in {0, req[r].list[st]}
    /\ Earlier(rows[s], req[r].step) \subseteq done[s]
    /\ req[r].phase = "duress" =>
           \A st \in Factors : req[r].list[st] <= req[r].list["SendSecurityEventDuressLogon"]

OrderInv ==
    /\ \A s \in Sessions : session[s].kind = "none" => done[s] = {}
    /\ \A s \in Sessions \ disturbed :
           /\ InOrder(s)
           /\ \A r \in Requests :
                  Active(r, s) /\ req[r].phase \in Stepping => Reached(r, s)

(* Of a request at work before and after, the same is true.                *)
GoesOn(q) ==
    req'[q].phase \in Stepping =>
        /\ req[q].phase \in Stepping
        /\ req'[q].phase = "duress" => req[q].phase = "duress"
        /\ req'[q].session = req[q].session
        /\ req'[q].step = req[q].step
        /\ req'[q].list = req[q].list

(* Rows may go, and with them that they were COMPLETE.                     *)
Shrinks(s) ==
    /\ \A st \in Steps : rows'[s][st] \in {0, rows[s][st]}
    /\ done'[s] \subseteq done[s]
    /\ \A st \in done[s] : st \in done'[s] \/ rows'[s][st] = 0

LEMMA ShrinksKeeps ==
    ASSUME TypeOK, NEW s \in Sessions, Shrinks(s)
    PROVE  /\ InOrder(s) => InOrder(s)'
           /\ \A st \in Steps : Earlier(rows[s], st) \subseteq done[s] =>
                                    Earlier(rows'[s], st) \subseteq done'[s]
<1>1. rows[s] \in [Steps -> Nat] /\ done[s] \subseteq Steps
  BY DEF TypeOK, Orders
<1>2. ASSUME NEW st \in Steps
      PROVE  Earlier(rows'[s], st) \subseteq Earlier(rows[s], st)
  BY <1>1 DEF Shrinks, Earlier, Present
<1>3. \A st \in Steps : Earlier(rows'[s], st) \subseteq Present(rows'[s])
  BY DEF Earlier
<1>4. \A st \in Present(rows'[s]) : st \in done[s] => st \in done'[s]
  BY DEF Shrinks, Present
<1>5. \A st \in Steps : Earlier(rows[s], st) \subseteq done[s] =>
                            Earlier(rows'[s], st) \subseteq done'[s]
  BY <1>2, <1>3, <1>4
<1>6. \A st \in done'[s] \cap Present(rows'[s]) : st \in done[s] \cap Present(rows[s])
  BY <1>1 DEF Shrinks, Present
<1>7. QED
  BY <1>1, <1>5, <1>6 DEF InOrder

LEMMA StillReached ==
    ASSUME TypeOK, NEW q \in Requests, NEW s \in Sessions, Active(q, s)',
           req'[q].phase \in Stepping, GoesOn(q), Shrinks(s),
           Active(q, s) /\ req[q].phase \in Stepping => Reached(q, s)
    PROVE  Reached(q, s)'
<1>1. Active(q, s) /\ Reached(q, s)
  BY DEF Active, GoesOn, Stepping
<1>2. req[q].step \in Steps /\ Factors \subseteq Steps
  BY OwnerType, PositionType DEF ReqStates
<1>3. Earlier(rows'[s], req[q].step) \subseteq done'[s]
  BY <1>1, <1>2, ShrinksKeeps DEF Reached
<1>4. \A st \in Factors : rows'[s][st] \in {0, req[q].list[st]}
  BY <1>1, <1>2 DEF Reached, Shrinks
<1>5. QED
  BY <1>1, <1>3, <1>4 DEF GoesOn, Reached, Earlier, Present

LEMMA OrderKeeps ==
    ASSUME TypeOK, OrderInv, session' = session, disturbed \subseteq disturbed',
           \A q \in Requests : GoesOn(q),
           \A s \in Sessions : Shrinks(s)
    PROVE  OrderInv'
<1>1. \A s \in Sessions : session'[s].kind = "none" => done'[s] = {}
  BY DEF OrderInv, Shrinks
<1>2. ASSUME NEW s \in Sessions \ disturbed'
      PROVE  /\ InOrder(s)'
             /\ \A q \in Requests : Active(q, s)' /\ req'[q].phase \in Stepping => Reached(q, s)'
  <2>1. /\ InOrder(s)
        /\ \A q \in Requests : Active(q, s) /\ req[q].phase \in Stepping => Reached(q, s)
    BY <1>2 DEF OrderInv
  <2>2. QED
    BY <1>2, <2>1, ShrinksKeeps, StillReached
<1>3. QED
  BY <1>1, <1>2 DEF OrderInv

LEMMA SameShrinks ==
    ASSUME TypeOK, NEW s \in Sessions, rows'[s] = rows[s], done'[s] = done[s]
    PROVE  Shrinks(s)
  BY DEF Shrinks

(* The checks but that of a duress password.                               *)
Handles(r) ==
    \/ AttemptSucceeds(r) \/ AttemptFails(r)
    \/ AuthenticateUserAndMigrate(r)
    \/ AuthenticateVerifyEmailAddress(r)
    \/ AuthenticateConfigureTOTP(r)
    \/ AuthenticateRegisterSecurityKey(r)
    \/ AuthenticateAcceptTermsAndConditions(r)
    \/ AuthenticateRotatePassword(r)
    \/ AuthenticateValidatePasswordResetToken(r)
    \/ CheckRefused(r)

(* What a request becomes when it does not begin anything.                 *)
LEMMA NextStep ==
    ASSUME TypeOK, NEW r \in Requests,
           \/ ReadUser(r) \/ Handles(r) \/ WriteUser(r)
           \/ InsertDuressEvent(r) \/ PersistStep(r) \/ Complete(r)
           \/ DeleteUserAuthenticationState(r) \/ RowsDeleted(r)
           \/ SavePasswordResetToken(r) \/ InsertNewStates(r)
           \/ CancelDevice(r) \/ CancelDone(r) \/ Abort(r)
    PROVE  OthersSame(r) /\ GoesOn(r)
<1>1. req[r] \in ReqStates
  BY OwnerType
<1>2. ASSUME Finish(r)
      PROVE  OthersSame(r) /\ GoesOn(r)
  <2>1. OthersSame(r) /\ req'[r].phase = "idle"
    BY <1>2, BecomeOthers DEF Finish, Idle
  <2>2. QED
    BY <2>1 DEF GoesOn, Stepping
<1>3. ASSUME NEW phase, Goto(r, phase), phase # "duress",
             phase \in Stepping => req[r].phase \in Stepping
      PROVE  OthersSame(r) /\ GoesOn(r)
  <2>1. /\ OthersSame(r) /\ req'[r].phase = phase
        /\ req'[r].session = req[r].session
        /\ req'[r].step = req[r].step /\ req'[r].list = req[r].list
    BY <1>3, GotoState
  <2>2. QED
    BY <1>3, <2>1 DEF GoesOn
<1>4. ASSUME NEW phase, NEW locked, NEW user,
             phase # "duress", phase \in Stepping => req[r].phase \in Stepping,
             Become(r, [req[r] EXCEPT !.phase = phase, !.locked = locked, !.user = user])
      PROVE  OthersSame(r) /\ GoesOn(r)
  <2>1. /\ OthersSame(r)
        /\ req'[r] = [req[r] EXCEPT !.phase = phase, !.locked = locked, !.user = user]
    BY <1>4, BecomeOthers
  <2>2. /\ req'[r].phase = phase /\ req'[r].session = req[r].session
        /\ req'[r].list = req[r].list /\ req'[r].step = req[r].step
    BY <1>1, <2>1 DEF ReqStates
  <2>3. QED
    BY <1>4, <2>1, <2>2 DEF GoesOn
<1>5. ASSUME NEW phase, NEW user,
             phase # "duress", phase \in Stepping => req[r].phase \in Stepping,
             Become(r, [req[r] EXCEPT !.phase = phase, !.user = user])
      PROVE  OthersSame(r) /\ GoesOn(r)
  <2>1. [req[r] EXCEPT !.phase = phase, !.user = user]
        = [req[r] EXCEPT !.phase = phase, !.locked = req[r].locked, !.user = user]
    BY <1>1 DEF ReqStates
  <2>2. QED
    BY <1>4, <1>5, <2>1
<1>6. ASSUME req[r].phase = "check",
             \/ Become(r, [req[r] EXCEPT !.phase = "lockUser", !.user.locked = TRUE])
             \/ Become(r, [req[r] EXCEPT !.phase = "writeUser", !.user.force = FALSE])
      PROVE  OthersSame(r) /\ GoesOn(r)
  <2>1. [req[r] EXCEPT !.phase = "lockUser", !.user.locked = TRUE]
        = [req[r] EXCEPT !.phase = "lockUser", !.user = [req[r].user EXCEPT !.locked = TRUE]]
    BY <1>1 DEF ReqStates
  <2>2. [req[r] EXCEPT !.phase = "writeUser", !.user.force = FALSE]
        = [req[r] EXCEPT !.phase = "writeUser", !.user = [req[r].user EXCEPT !.force = FALSE]]
    BY <1>1 DEF ReqStates
  <2>3. "check" \in Stepping
    BY DEF Stepping
  <2>4. QED
    BY <1>5, <1>6, <2>1, <2>2, <2>3
<1>7. {"readUser", "check", "writeUser", "duress", "persist"} = Stepping
  BY DEF Stepping
<1>8. CASE ReadUser(r) \/ WriteUser(r)
  BY <1>2, <1>3, <1>4, <1>7, <1>8 DEF ReadUser, WriteUser
<1>9. CASE Handles(r)
  <2>1. CASE AttemptSucceeds(r) \/ AttemptFails(r) \/ CheckRefused(r)
    BY <1>2, <1>3, <1>6, <1>7, <2>1 DEF AttemptSucceeds, AttemptFails, CheckRefused, Checking
  <2>2. CASE AuthenticateVerifyEmailAddress(r) \/ AuthenticateConfigureTOTP(r)
                 \/ AuthenticateRegisterSecurityKey(r)
    BY <1>3, <1>5, <1>7, <2>2
       DEF AuthenticateVerifyEmailAddress, AuthenticateConfigureTOTP,
           AuthenticateRegisterSecurityKey, Checking
  <2>3. CASE AuthenticateAcceptTermsAndConditions(r)
                 \/ AuthenticateValidatePasswordResetToken(r)
    BY <1>3, <1>7, <2>3 DEF AuthenticateAcceptTermsAndConditions,
                            AuthenticateValidatePasswordResetToken, Checking
  <2>4. CASE AuthenticateRotatePassword(r) \/ AuthenticateUserAndMigrate(r)
    BY <1>3, <1>4, <1>6, <1>7, <2>4
       DEF AuthenticateRotatePassword, AuthenticateUserAndMigrate, Checking
  <2>5. QED
    BY <1>9, <2>1, <2>2, <2>3, <2>4 DEF Handles
<1>10. CASE PersistStep(r)
  <2>1. ASSUME NEW phase \in Completing,
               Become(r, [req[r] EXCEPT !.user = NoUser, !.phase = phase])
        PROVE  OthersSame(r) /\ GoesOn(r)
    <3>1. OthersSame(r) /\ req'[r] = [req[r] EXCEPT !.user = NoUser, !.phase = phase]
      BY <2>1, BecomeOthers
    <3>2. req'[r].phase = phase
      BY <1>1, <2>1, <3>1 DEF ReqStates
    <3>3. QED
      BY <1>7, <2>1, <3>1, <3>2 DEF GoesOn, Completing
  <2>2. \A next : CompletionPhase(next, req[r].device) \in Completing
    BY DEF CompletionPhase, Completing
  <2>3. QED
    BY <1>2, <1>10, <2>1, <2>2 DEF PersistStep
<1>11. ASSUME StartCleanup(r)
       PROVE  OthersSame(r) /\ GoesOn(r)
  <2>1. /\ OthersSame(r)
        /\ req'[r] = [req[r] EXCEPT !.phase = "cleanup", !.todo = Present(req[r].list)]
    BY <1>11, BecomeOthers DEF StartCleanup
  <2>2. req'[r].phase = "cleanup"
    BY <1>1, <2>1 DEF ReqStates
  <2>3. QED
    BY <1>7, <2>1, <2>2 DEF GoesOn
<1>12. CASE DeleteUserAuthenticationState(r)
  <2> PICK todo : Become(r, [req[r] EXCEPT !.todo = todo])
    BY <1>12 DEF DeleteUserAuthenticationState
  <2>1. OthersSame(r) /\ req'[r] = [req[r] EXCEPT !.todo = todo]
    BY BecomeOthers
  <2>2. req'[r].phase = req[r].phase /\ req[r].phase \notin Stepping
    BY <1>1, <1>7, <1>12, <2>1 DEF ReqStates, DeleteUserAuthenticationState
  <2>3. QED
    BY <2>1, <2>2 DEF GoesOn
<1>13. CASE Complete(r)
  BY <1>2, <1>3, <1>7, <1>11, <1>13
     DEF Complete, ApproveDevice, ReadPreAuth, ConsumePreAuth, SaveAuthorizationCode,
         SignPortalToken
<1>14. QED
  BY <1>2, <1>3, <1>7, <1>8, <1>9, <1>10, <1>12, <1>13
     DEF InsertDuressEvent, RowsDeleted, SavePasswordResetToken, InsertNewStates,
         CancelDevice, CancelDone, Abort

LEMMA OthersGoOn ==
    ASSUME NEW r \in Requests, OthersSame(r), GoesOn(r)
    PROVE  \A q \in Requests : GoesOn(q)
  BY DEF OthersSame, GoesOn

(* The row of a step is marked COMPLETE.                                   *)
LEMMA PersistOrder ==
    ASSUME IInv, OrderInv, NEW r \in Requests, PersistStep(r), NEW t, t = req[r].session,
           NEW st, st = req[r].step
    PROVE  OrderInv'
<1>1. /\ req[r].phase = "persist" /\ UNCHANGED <<rows, session, disturbed>>
      /\ done' = [done EXCEPT ![t] = IF rows[t][st] # 0 THEN @ \cup {st} ELSE @]
  BY DEF PersistStep, store, history
<1>2. TypeOK /\ t \in Sessions /\ Active(r, t) /\ session[t].kind # "none"
  BY <1>1, ActiveSession
<1>3. \A q \in Requests : GoesOn(q)
  BY <1>2, NextStep, OthersGoOn
<1>4. /\ \A s \in Sessions \ {t} : done'[s] = done[s]
      /\ done'[t] = IF rows[t][st] # 0 THEN done[t] \cup {st} ELSE done[t]
  BY <1>1, <1>2 DEF TypeOK
<1>5. \A s \in Sessions : session'[s].kind = "none" => done'[s] = {}
  BY <1>1, <1>2, <1>4 DEF OrderInv
<1>6. ASSUME NEW s \in Sessions \ disturbed'
      PROVE  InOrder(s)'
  <2>1. InOrder(s)
    BY <1>1, <1>6 DEF OrderInv
  <2>2. CASE s # t
    BY <1>1, <1>4, <2>1, <2>2 DEF InOrder, Present, Earlier
  <2>3. CASE s = t
    <3>1. Earlier(rows[t], st) \subseteq done[t]
      BY <1>1, <1>2, <1>6, <2>3 DEF OrderInv, Reached, Stepping
    <3>2. /\ rows' = rows /\ done[t] \subseteq done'[t]
          /\ done'[t] \subseteq done[t] \cup {st}
      BY <1>1, <1>4
    <3>3. \A x \in done'[t] \cap Present(rows[t]) : Earlier(rows[t], x) \subseteq done[t]
      BY <2>1, <2>3, <3>1, <3>2 DEF InOrder
    <3>4. QED
      BY <2>3, <3>2, <3>3 DEF InOrder
  <2>4. QED
    BY <2>2, <2>3
<1>7. ASSUME NEW s \in Sessions \ disturbed', NEW q \in Requests, Active(q, s)',
             req'[q].phase \in Stepping
      PROVE  Reached(q, s)'
  <2>1. Active(q, s) /\ Reached(q, s) /\ GoesOn(q)
    BY <1>1, <1>3, <1>7 DEF OrderInv, GoesOn, Active, Stepping
  <2>2. done[s] \subseteq done'[s]
    BY <1>4
  <2>3. QED
    BY <1>1, <1>7, <2>1, <2>2 DEF GoesOn, Reached, Earlier, Present
<1>8. QED
  BY <1>5, <1>6, <1>7 DEF OrderInv

(* A row is deleted.                                                       *)
LEMMA GoneShrinks ==
    ASSUME TypeOK, NEW t \in Sessions, NEW st \in Steps,
           rows' = [rows EXCEPT ![t][st] = 0],
           done' = [done EXCEPT ![t] = @ \ {st}]
    PROVE  \A s \in Sessions : Shrinks(s)
<1>1. rows[t] \in [Steps -> Nat]
  BY DEF TypeOK, Orders
<1>2. /\ rows'[t] = [rows[t] EXCEPT ![st] = 0] /\ done'[t] = done[t] \ {st}
      /\ \A s \in Sessions \ {t} : rows'[s] = rows[s] /\ done'[s] = done[s]
  BY DEF TypeOK
<1>3. Shrinks(t)
  BY <1>1, <1>2 DEF Shrinks
<1>4. QED
  BY <1>2, <1>3, SameShrinks

LEMMA DeletionOrder ==
    ASSUME IInv, OrderInv, NEW r \in Requests, DeleteUserAuthenticationState(r)
    PROVE  OrderInv'
<1>1. /\ UNCHANGED <<session, disturbed>>
      /\ req[r].phase # "idle"
      /\ \E st \in Steps :
             /\ rows' = [rows EXCEPT ![req[r].session][st] = 0]
             /\ done' = [done EXCEPT ![req[r].session] = @ \ {st}]
  BY DEF DeleteUserAuthenticationState, history
<1>2. TypeOK /\ req[r].session \in Sessions
  BY <1>1, ActiveSession
<1>3. \A s \in Sessions : Shrinks(s)
  BY <1>1, <1>2, GoneShrinks
<1>4. \A q \in Requests : GoesOn(q)
  BY <1>2, NextStep, OthersGoOn
<1>5. QED
  BY <1>1, <1>2, <1>3, <1>4, OrderKeeps

(* Everything that leaves the rows alone.                                  *)
LEMMA QuietOrder ==
    ASSUME TypeOK, OrderInv, UNCHANGED <<rows, done, session>>, disturbed \subseteq disturbed',
           \A q \in Requests : GoesOn(q)
    PROVE  OrderInv'
  BY SameShrinks, OrderKeeps

(* "Forgot password" inserts a list of which nothing is COMPLETE.          *)
LEMMA InsertOrder ==
    ASSUME IInv, OrderInv, NEW r \in Requests, InsertNewStates(r),
           NEW t, t = req[r].session, NEW new, new = Inserted(req[r].list, rows[t])
    PROVE  OrderInv'
<1>1. /\ req[r].phase = "insert" /\ UNCHANGED <<session, disturbed>>
      /\ rows' = [rows EXCEPT ![t] = [st \in Steps |->
                     IF st \in new THEN ResetOrder(req[r].list)[st] ELSE rows[t][st]]]
      /\ done' = [done EXCEPT ![t] = @ \ new]
  BY DEF InsertNewStates
<1>2. /\ TypeOK /\ t \in Sessions /\ Active(r, t) /\ session[t].kind # "none"
      /\ t \notin disturbed => RequestInv(r, t)
  BY <1>1, ActiveSession
<1>3. OthersSame(r) /\ \A q \in Requests : GoesOn(q)
  BY <1>2, NextStep, OthersGoOn
<1>4. /\ \A s \in Sessions \ {t} : rows'[s] = rows[s] /\ done'[s] = done[s]
      /\ done'[t] = done[t] \ new
      /\ \A st \in Steps : st \notin new => rows'[t][st] = rows[t][st]
  BY <1>1, <1>2 DEF TypeOK
<1>5. \A s \in Sessions : session'[s].kind = "none" => done'[s] = {}
  BY <1>1, <1>2, <1>4 DEF OrderInv
<1>6. ASSUME NEW s \in Sessions \ disturbed', s # t
      PROVE  /\ InOrder(s)'
             /\ \A q \in Requests : Active(q, s)' /\ req'[q].phase \in Stepping => Reached(q, s)'
  <2>1. Shrinks(s)
    BY <1>2, <1>4, <1>6, SameShrinks
  <2>2. /\ InOrder(s)
        /\ \A q \in Requests : Active(q, s) /\ req[q].phase \in Stepping => Reached(q, s)
    BY <1>1, <1>6 DEF OrderInv
  <2>3. QED
    BY <1>2, <1>3, <1>6, <2>1, <2>2, ShrinksKeeps, StillReached
<1>7. ASSUME t \notin disturbed'
      PROVE  /\ InOrder(t)'
             /\ \A q \in Requests : Active(q, t)' => req'[q].phase \notin Stepping
  <2>1. /\ Present(rows[t]) \subseteq req[r].todo /\ req[r].todo = {}
        /\ \A q \in Requests \ {r} : ~Active(q, t)
    BY <1>1, <1>2, <1>7 DEF RequestInv, TearingDown
  <2>2. \A st \in Steps : rows[t][st] = 0
    BY <2>1 DEF Present
  <2>3. done'[t] \cap Present(rows'[t]) = {}
    BY <1>4, <2>2 DEF Present
  <2>4. ASSUME NEW q \in Requests, Active(q, t)'
        PROVE  req'[q].phase \notin Stepping
    <3>1. CASE q = r
      BY <1>1, <1>3, <3>1 DEF GoesOn, Stepping
    <3>2. CASE q # r
      BY <1>3, <2>1, <2>4, <3>2 DEF OthersSame, Active
    <3>3. QED
      BY <3>1, <3>2
  <2>5. QED
    BY <2>3, <2>4 DEF InOrder
<1>8. QED
  BY <1>5, <1>6, <1>7 DEF OrderInv

(* A duress password takes the last row away ...                           *)
LEMMA DuressOrder ==
    ASSUME IInv, OrderInv, NEW r \in Requests, AuthenticateUserUnderDuress(r),
           NEW t, t = req[r].session, NEW list, list = req[r].list
    PROVE  OrderInv'
<1> DEFINE event == "SendSecurityEventDuressLogon"
<1>1. /\ req[r].phase = "check" /\ req[r].step = "EnterPassword"
      /\ UNCHANGED <<session, disturbed>>
  BY DEF AuthenticateUserUnderDuress, Checking
<1>2. /\ TypeOK /\ t \in Sessions /\ Active(r, t) /\ list \in Orders
      /\ req[r] \in ReqStates
  BY <1>1, ActiveSession, OwnerType
<1>3. CASE Goto(r, "persist") /\ UNCHANGED <<rows, done>>
  <2>1. /\ OthersSame(r) /\ req'[r].phase = "persist"
        /\ req'[r].session = req[r].session
        /\ req'[r].step = req[r].step /\ req'[r].list = req[r].list
    BY <1>2, <1>3, GotoState
  <2>2. OthersSame(r) /\ GoesOn(r)
    BY <1>1, <2>1 DEF GoesOn, Stepping
  <2>3. QED
    BY <1>1, <1>2, <1>3, <2>2, OthersGoOn, QuietOrder
<1>4. ASSUME NEW last \in SecurityEvents \ {event}, IsLast(list, last),
             rows' = [rows EXCEPT ![t][last] = 0],
             done' = [done EXCEPT ![t] = @ \ {last}],
             Become(r, [req[r] EXCEPT !.phase = "duress",
                 !.list = [list EXCEPT ![last] = 0,
                     ![event] = list[last] - Position[last] + Position[event]]])
      PROVE  OrderInv'
  <2> DEFINE new == [list EXCEPT ![last] = 0,
                        ![event] = list[last] - Position[last] + Position[event]]
  <2>1. OthersSame(r) /\ req'[r] = [req[r] EXCEPT !.phase = "duress", !.list = new]
    BY <1>2, <1>4, BecomeOthers
  <2>2. /\ req'[r].phase = "duress" /\ req'[r].list = new
        /\ req'[r].session = t /\ req'[r].step = "EnterPassword"
    <3> HIDE DEF new
    <3>1. QED
      BY <1>1, <1>2, <2>1 DEF ReqStates
  <2>3. /\ last \in Steps /\ last \notin Factors
        /\ event \in Steps /\ event \notin Factors /\ Factors \subseteq Steps
        /\ "EnterPassword" \in Factors /\ Position[last] \in 1 .. 15 /\ Position[event] = 15
    BY PositionType, DuressIsLast DEF Factors, SecurityEvents
  <2>4. list \in [Steps -> Nat] /\ list[last] # 0
        /\ \A x \in Steps : list[x] <= list[last]
    BY <1>2, <1>4, <2>3 DEF IsLast, Present, Orders
  <2>5. list[last] \in {Position[last], Late + Position[last], Last + Position[last]}
    BY <1>2, <2>3, <2>4 DEF Orders
  <2>6. list[last] - Position[last] + Position[event] >= list[last]
    BY <2>3, <2>5 DEF Late, Last
  <2>7. /\ \A st \in Factors : new[st] = list[st] /\ new[st] \in Nat
        /\ new[event] = list[last] - Position[last] + Position[event]
    BY <2>3, <2>4
  <2>8. list[last] - Position[last] + Position[event] \in Nat
    BY <2>3, <2>5 DEF Late, Last
  <2> HIDE DEF new
  <2>9. \A st \in Factors : new[st] <= new[event]
    BY <2>3, <2>4, <2>6, <2>7, <2>8
  <2>10. \A s \in Sessions : Shrinks(s)
    BY <1>2, <1>4, <2>3, GoneShrinks
  <2>11. \A s \in Sessions : session'[s].kind = "none" => done'[s] = {}
    BY <1>1, <2>10 DEF OrderInv, Shrinks
  <2>12. ASSUME NEW s \in Sessions \ disturbed'
         PROVE  InOrder(s)'
    BY <1>1, <1>2, <2>10, <2>12, ShrinksKeeps DEF OrderInv
  <2>13. ASSUME NEW s \in Sessions \ disturbed', NEW q \in Requests, Active(q, s)',
                req'[q].phase \in Stepping
         PROVE  Reached(q, s)'
    <3>1. CASE q # r
      <4>1. GoesOn(q) /\ (Active(q, s) /\ req[q].phase \in Stepping => Reached(q, s))
        BY <1>1, <2>1, <2>13, <3>1 DEF OthersSame, GoesOn, OrderInv
      <4>2. QED
        BY <1>2, <2>10, <2>13, <4>1, StillReached
    <3>2. CASE q = r
      <4>1. s = t
        BY <2>2, <2>13, <3>2 DEF Active
      <4>2. Reached(r, t)
        BY <1>1, <1>2, <2>13, <4>1 DEF OrderInv, Stepping
      <4>3. Earlier(rows'[t], "EnterPassword") \subseteq done'[t]
        BY <1>1, <1>2, <2>3, <2>10, <4>2, ShrinksKeeps DEF Reached
      <4>4. \A st \in Factors : rows'[t][st] \in {0, new[st]}
        BY <1>2, <2>3, <2>7, <2>10, <4>2 DEF Reached, Shrinks
      <4>5. QED
        BY <2>2, <2>9, <3>2, <4>1, <4>3, <4>4 DEF Reached, Earlier, Present
    <3>3. QED
      BY <3>1, <3>2
  <2>14. QED
    BY <2>11, <2>12, <2>13 DEF OrderInv
<1>5. QED
  BY <1>3, <1>4 DEF AuthenticateUserUnderDuress

(* ... and puts another last row behind every factor.                      *)
LEMMA InsertDuressOrder ==
    ASSUME IInv, OrderInv, NEW r \in Requests, InsertDuressEvent(r),
           NEW t, t = req[r].session, NEW list, list = req[r].list
    PROVE  OrderInv'
<1> DEFINE event == "SendSecurityEventDuressLogon"
<1>1. req[r].phase = "duress" /\ UNCHANGED <<done, session, verified, reset, disturbed>>
  BY DEF InsertDuressEvent, history
<1>2. /\ TypeOK /\ t \in Sessions /\ Active(r, t) /\ list \in Orders
      /\ t \notin disturbed => RequestInv(r, t)
  BY <1>1, ActiveSession, OwnerType
<1>3. \A q \in Requests : GoesOn(q)
  BY <1>2, NextStep, OthersGoOn
<1>4. CASE UNCHANGED rows
  BY <1>1, <1>2, <1>3, <1>4, QuietOrder
<1>5. CASE rows' = [rows EXCEPT ![t][event] = list[event]]
  <2>1. event \in Steps /\ event \notin Factors /\ Factors \subseteq Steps
    BY PositionType, DuressIsLast DEF Factors, SecurityEvents
  <2>2. list \in [Steps -> Nat] /\ rows[t] \in [Steps -> Nat] /\ done[t] \subseteq Steps
    BY <1>2 DEF TypeOK, Orders
  <2>3. /\ rows'[t] = [rows[t] EXCEPT ![event] = list[event]]
        /\ \A s \in Sessions \ {t} : rows'[s] = rows[s]
    BY <1>2, <1>5 DEF TypeOK
  <2>4. rows'[t][event] = list[event] /\ \A st \in Steps \ {event} : rows'[t][st] = rows[t][st]
    BY <2>1, <2>2, <2>3
  <2>5. ASSUME NEW s \in Sessions \ disturbed'
        PROVE  /\ InOrder(s)
               /\ done[s] \subseteq Factors
               /\ \A q \in Requests : Active(q, s) /\ req[q].phase \in Stepping =>
                      Reached(q, s) /\ req[q].step \in Factors
    BY <1>1, <1>2, <2>5 DEF OrderInv, IInv, SessionInv, RequestInv, TypeOK
  <2>6. ASSUME t \notin disturbed', NEW st \in Factors
        PROVE  Earlier(rows'[t], st) \subseteq Earlier(rows[t], st)
    <3>1. Reached(r, t)
      BY <1>1, <1>2, <2>5, <2>6 DEF Stepping
    <3>2. rows[t][st] \in {0, list[st]} /\ list[st] <= list[event]
      BY <1>1, <2>6, <3>1 DEF Reached
    <3>3. rows'[t][st] = rows[t][st] /\ rows[t][st] \in Nat /\ list[event] \in Nat
          /\ list[st] \in Nat
      BY <2>1, <2>2, <2>4, <2>6
    <3>4. ~(rows'[t][event] < rows'[t][st])
      BY <2>4, <3>2, <3>3
    <3>5. QED
      BY <2>4, <3>3, <3>4 DEF Earlier, Present
  <2>7. ASSUME NEW s \in Sessions \ disturbed', NEW st \in Factors
        PROVE  Earlier(rows'[s], st) \subseteq Earlier(rows[s], st)
    BY <2>3, <2>6, <2>7
  <2>8. ASSUME NEW s \in Sessions \ disturbed'
        PROVE  InOrder(s)'
    <3>1. \A st \in Factors : st \in Present(rows'[s]) <=> st \in Present(rows[s])
      BY <2>1, <2>3, <2>4 DEF Present
    <3>2. \A st \in done'[s] \cap Present(rows'[s]) : Earlier(rows'[s], st) \subseteq done'[s]
      BY <1>1, <2>5, <2>7, <2>8, <3>1 DEF InOrder
    <3>3. QED
      BY <3>2 DEF InOrder, Earlier, Present
  <2>9. ASSUME NEW s \in Sessions \ disturbed', NEW q \in Requests, Active(q, s)',
               req'[q].phase \in Stepping
        PROVE  Reached(q, s)'
    <3>1. GoesOn(q) /\ Active(q, s) /\ Reached(q, s) /\ req[q].step \in Factors
      BY <1>3, <2>5, <2>9 DEF GoesOn, Active, Stepping
    <3>2. Earlier(rows'[s], req[q].step) \subseteq done'[s]
      BY <1>1, <2>7, <2>9, <3>1 DEF Reached
    <3>3. \A st \in Factors : rows'[s][st] = rows[s][st]
      BY <2>1, <2>3, <2>4
    <3>4. QED
      BY <2>9, <3>1, <3>2, <3>3 DEF GoesOn, Reached, Earlier, Present
  <2>10. \A s \in Sessions : session'[s].kind = "none" => done'[s] = {}
    BY <1>1 DEF OrderInv
  <2>11. QED
    BY <2>8, <2>9, <2>10 DEF OrderInv
<1>6. QED
  BY <1>4, <1>5 DEF InsertDuressEvent

(* A step begins where every row before it is COMPLETE.                    *)
LEMMA BeginOrder ==
    ASSUME IInv, OrderInv, NEW r \in Requests, NEW s \in Sessions, NEW st \in Steps,
           NEW phase \in {"readUser", "expire", "forgot", "cancelRead"},
           Begin(r, s, st, phase),
           phase = "readUser" => PreviousComplete(s, st)
    PROVE  OrderInv'
<1> DEFINE todo == IF phase \in TearingDown THEN Present(rows[s]) ELSE {}
           carries == s \in deviceRows
           state == [Idle EXCEPT !.phase = phase, !.session = s, !.step = st,
                         !.list = rows[s], !.todo = todo, !.device = carries]
<1>1. TypeOK /\ UNCHANGED <<rows, done, session>> /\ disturbed \subseteq disturbed'
  BY DEF Begin, Disturb, IInv, store, history
<1>2. OthersSame(r) /\ req'[r] = state
  BY <1>1, BecomeOthers DEF Begin
<1>3. /\ req'[r].phase = phase /\ req'[r].session = s /\ req'[r].step = st
      /\ req'[r].list = rows[s]
  <2> HIDE DEF todo, carries
  <2>1. QED
    BY <1>2 DEF Idle
<1>4. ASSUME NEW x \in Sessions \ disturbed', NEW q \in Requests, Active(q, x)',
             req'[q].phase \in Stepping
      PROVE  Reached(q, x)'
  <2>1. CASE q = r
    <3>1. x = s /\ phase = "readUser"
      BY <1>3, <1>4, <2>1 DEF Active, Stepping
    <3>2. QED
      BY <1>1, <1>3, <2>1, <3>1 DEF Reached, PreviousComplete, Earlier, Present
  <2>2. CASE q # r
    <3>1. GoesOn(q) /\ Shrinks(x)
      BY <1>1, <1>2, <2>2, SameShrinks DEF OthersSame, GoesOn
    <3>2. QED
      BY <1>1, <1>4, <3>1, StillReached DEF OrderInv
  <2>3. QED
    BY <2>1, <2>2
<1>5. \A x \in Sessions \ disturbed' : InOrder(x)'
  BY <1>1 DEF OrderInv, InOrder, Earlier, Present
<1>6. \A x \in Sessions : session'[x].kind = "none" => done'[x] = {}
  BY <1>1 DEF OrderInv
<1>7. QED
  BY <1>4, <1>5, <1>6 DEF OrderInv

LEMMA SubmitOrder ==
    ASSUME IInv, OrderInv, NEW r \in Requests, NEW s \in Sessions, Submit(r, s)
    PROVE  OrderInv'
<1>1. "EnterPassword" \in Steps /\ Factors \subseteq Steps
  BY DuressIsLast, PositionType
<1>2. CASE \E st \in Factors : ValidateAuthenticationStep(r, s, st)
  BY <1>1, <1>2, BeginOrder DEF ValidateAuthenticationStep
<1>3. CASE \E st \in Factors : ValidateExpiredStep(r, s, st)
  BY <1>1, <1>3, BeginOrder DEF ValidateExpiredStep
<1>4. CASE BeginForgotPassword(r, s) \/ BeginCancel(r, s)
  BY <1>1, <1>4, BeginOrder DEF BeginForgotPassword, BeginCancel
<1>5. QED
  BY <1>2, <1>3, <1>4 DEF Submit

(* Of the rows of a new login none is COMPLETE.                            *)
LEMMA HandleUserNameInputOrder ==
    ASSUME IInv, OrderInv, NEW s \in Sessions, NEW u \in Users, NEW kind \in Kinds,
           NEW p \in PreAuths, NEW overdue \in Rotates,
           HandleUserNameInput(s, u, kind, p, overdue)
    PROVE  OrderInv'
<1>1. /\ TypeOK /\ session[s].kind = "none"
      /\ UNCHANGED <<done, req, disturbed>>
      /\ \A x \in Sessions \ {s} : rows'[x] = rows[x] /\ session'[x] = session[x]
  BY DEF HandleUserNameInput, IInv, TypeOK
<1>2. done[s] = {} /\ \A q \in Requests : ~Active(q, s)
  BY <1>1 DEF OrderInv, IInv, Unused
<1>3. ASSUME NEW x \in Sessions \ disturbed'
      PROVE  /\ InOrder(x)'
             /\ \A q \in Requests : Active(q, x)' /\ req'[q].phase \in Stepping => Reached(q, x)'
  <2>1. CASE x = s
    <3>1. \A q \in Requests : ~Active(q, x)'
      BY <1>1, <1>2, <2>1 DEF Active
    <3>2. QED
      BY <1>1, <1>2, <2>1, <3>1 DEF InOrder
  <2>2. CASE x # s
    <3>1. Shrinks(x) /\ \A q \in Requests : GoesOn(q)
      BY <1>1, <1>3, <2>2, SameShrinks DEF GoesOn
    <3>2. QED
      BY <1>1, <1>3, <3>1, ShrinksKeeps, StillReached DEF OrderInv
  <2>3. QED
    BY <2>1, <2>2
<1>4. \A x \in Sessions : session'[x].kind = "none" => done'[x] = {}
  BY <1>1, <1>2 DEF OrderInv
<1>5. QED
  BY <1>3, <1>4 DEF OrderInv

LEMMA DeleteExpiredDataOrder ==
    ASSUME IInv, OrderInv, DeleteExpiredData
    PROVE  OrderInv'
<1>1. /\ TypeOK /\ UNCHANGED <<req, session, disturbed>>
      /\ rows' = [s \in Sessions |-> IF s \in expired THEN NoRows ELSE rows[s]]
      /\ done' = [s \in Sessions |-> IF s \in expired THEN {} ELSE done[s]]
  BY DEF DeleteExpiredData, history, IInv
<1>2. ASSUME NEW s \in Sessions
      PROVE  Shrinks(s)
  <2>1. CASE s \in expired
    <3>1. rows'[s] = NoRows /\ done'[s] = {} /\ \A st \in Steps : NoRows[st] = 0
      BY <1>1, <2>1 DEF NoRows
    <3>2. QED
      BY <1>1, <3>1 DEF Shrinks, TypeOK
  <2>2. CASE s \notin expired
    BY <1>1, <2>2, SameShrinks
  <2>3. QED
    BY <2>1, <2>2
<1>3. \A q \in Requests : GoesOn(q)
  BY <1>1 DEF GoesOn
<1>4. QED
  BY <1>1, <1>2, <1>3, OrderKeeps

LEMMA ContinueOrder ==
    ASSUME IInv, OrderInv, NEW r \in Requests, Continue(r) \/ Abort(r)
    PROVE  OrderInv'
<1>1. TypeOK
  BY DEF IInv
<1>2. CASE AuthenticateUserUnderDuress(r) \/ InsertDuressEvent(r) \/ PersistStep(r)
  BY <1>2, DuressOrder, InsertDuressOrder, PersistOrder
<1>3. CASE DeleteUserAuthenticationState(r) \/ InsertNewStates(r)
  BY <1>3, DeletionOrder, InsertOrder
<1>4. ASSUME UNCHANGED <<rows, done, session>>, disturbed \subseteq disturbed',
             OthersSame(r), GoesOn(r)
      PROVE  OrderInv'
  BY <1>1, <1>4, OthersGoOn, QuietOrder
<1>5. CASE ReadUser(r) \/ WriteUser(r) \/ Handles(r)
  <2>1. OthersSame(r) /\ GoesOn(r)
    BY <1>1, <1>5, NextStep
  <2>2. UNCHANGED <<rows, done, session, disturbed>>
    BY <1>5 DEF ReadUser, WriteUser, Handles, AttemptSucceeds, AttemptFails,
           AuthenticateUserAndMigrate, AuthenticateVerifyEmailAddress,
           AuthenticateConfigureTOTP, AuthenticateRegisterSecurityKey,
           AuthenticateAcceptTermsAndConditions, AuthenticateRotatePassword,
           AuthenticateValidatePasswordResetToken, CheckRefused, store, history
  <2>3. QED
    BY <1>4, <2>1, <2>2
<1>6. CASE Complete(r)
  <2>1. OthersSame(r) /\ GoesOn(r)
    BY <1>1, <1>6, NextStep
  <2>2. UNCHANGED <<rows, done, session, disturbed>>
    BY <1>6 DEF Complete, ApproveDevice, ReadPreAuth, ConsumePreAuth,
           SaveAuthorizationCode, SignPortalToken, store, history
  <2>3. QED
    BY <1>4, <2>1, <2>2
<1>7. CASE RowsDeleted(r) \/ SavePasswordResetToken(r) \/ CancelDevice(r) \/ CancelDone(r)
             \/ Abort(r)
  <2>1. OthersSame(r) /\ GoesOn(r)
    BY <1>1, <1>7, NextStep
  <2>2. UNCHANGED <<rows, done, session>> /\ disturbed \subseteq disturbed'
    BY <1>7 DEF RowsDeleted, SavePasswordResetToken, CancelDevice, CancelDone, Abort,
           store, history
  <2>3. QED
    BY <1>4, <2>1, <2>2
<1>8. CASE DeleteCancelledPreAuth(r)
  <2>1. UNCHANGED <<rows, done, session, disturbed, req>>
    BY <1>8 DEF DeleteCancelledPreAuth, store, history
  <2>2. QED
    BY <1>4, <2>1 DEF OthersSame, GoesOn
<1>9. QED
  BY <1>2, <1>3, <1>5, <1>6, <1>7, <1>8 DEF Continue, Check, Handles

LEMMA OrderNext == IInv /\ OrderInv /\ [Next]_vars => OrderInv'
<1> SUFFICES ASSUME IInv, OrderInv, [Next]_vars PROVE OrderInv'
  OBVIOUS
<1>1. ASSUME NEW s \in Sessions, NEW u \in Users, NEW kind \in Kinds,
             NEW p \in PreAuths, NEW overdue \in Rotates,
             HandleUserNameInput(s, u, kind, p, overdue)
      PROVE  OrderInv'
  BY <1>1, HandleUserNameInputOrder
<1>2. ASSUME NEW r \in Requests, NEW s \in Sessions, Submit(r, s)
      PROVE  OrderInv'
  BY <1>2, SubmitOrder
<1>3. ASSUME NEW r \in Requests, Continue(r) \/ Abort(r)
      PROVE  OrderInv'
  BY <1>3, ContinueOrder
<1>4. ASSUME \/ \E s \in Sessions : Expire(s) \/ ExpireResetToken(s)
             \/ \E p \in PreAuths : ExpirePreAuth(p)
             \/ \E u \in Users : UnlockUser(u)
             \/ UNCHANGED vars
      PROVE  OrderInv'
  <2>1. TypeOK /\ UNCHANGED <<rows, done, session, disturbed, req>>
    BY <1>4 DEF Expire, ExpireResetToken, ExpirePreAuth, UnlockUser, vars, store,
                history, IInv
  <2>2. \A q \in Requests : GoesOn(q)
    BY <2>1 DEF GoesOn
  <2>3. QED
    BY <2>1, <2>2, QuietOrder
<1>5. CASE DeleteExpiredData
  BY <1>5, DeleteExpiredDataOrder
<1>6. QED
  BY <1>1, <1>2, <1>3, <1>4, <1>5 DEF Next

(* Requests of the same login may overtake each other, a list may lose rows
   or be written anew, and still: while nobody takes the list apart, a row
   is marked COMPLETE only when all the rows before it are.                *)
THEOREM RowsCompletedInOrder == Spec => []CompletedInOrder
<1>1. Init => IInv /\ OrderInv
  <2> SUFFICES ASSUME Init PROVE OrderInv
    BY InitInv
  <2>1. \A s \in Sessions : done[s] = {} /\ \A r \in Requests : ~Active(r, s)
    BY DEF Init, Active, Idle
  <2>2. QED
    BY <2>1 DEF OrderInv, InOrder
<1>2. IInv /\ OrderInv /\ [Next]_vars => (IInv /\ OrderInv)'
  BY NextInv, OrderNext
<1>3. IInv /\ OrderInv => CompletedInOrder
  BY DEF OrderInv, InOrder, CompletedInOrder
<1>4. QED
  BY <1>1, <1>2, <1>3, PTL DEF Spec

-----------------------------------------------------------------------------
(* A login is never stuck half way.                                        *)

(* What was chosen at the user name step can be passed: a user has one way *)
(* to give the password, an e-mail is confirmed by one who gives it, and   *)
(* what is validated is enrolled or to be configured before.               *)
Chosen(s) ==
    LET required == session[s].required
        enrolled == mfa[session[s].owner]
    IN /\ "ValidatePasswordResetToken" \notin required
       /\ ~({"EnterPassword", "EnterPasswordAndMigrateUser"} \subseteq required)
       /\ "ValidateEmail" \in required => "EnterPassword" \in required
       /\ "ValidateTotp" \in required =>
              "ConfigureTotp" \in required \/ "TOTP" \in enrolled
       /\ "ValidateSecurityKey" \in required =>
              "ConfigureSecurityKey" \in required \/ "FIDO2" \in enrolled

Configured(s) ==
    /\ "ConfigureTotp" \in verified[s] => "TOTP" \in mfa[session[s].owner]
    /\ "ConfigureSecurityKey" \in verified[s] => "FIDO2" \in mfa[session[s].owner]

(* The rows of the factors are all there, or those left are COMPLETE, or a
   request is deleting them.                                               *)
FactorRows(list) == Factors \cap Present(list)
Whole(s) == FactorRows(rows[s]) = session[s].required
Over(s) == FactorRows(rows[s]) \subseteq done[s]
Ending == Completing \cup {"cleanup"}

Lists(s) ==
    /\ FactorRows(rows[s]) \subseteq session[s].required
    /\ Whole(s) \/ Over(s) \/ \E r \in Requests : Active(r, s) /\ req[r].phase \in Deleting
    /\ \A r \in Requests : Active(r, s) =>
           /\ req[r].phase \in Ending => Over(s)
           /\ req[r].phase \in Stepping =>
                  FactorRows(req[r].list) \subseteq session[s].required

(* A user who has a password here keeps an account that is enabled, and no
   request holds an older user object to write back.                       *)
Sound(user) == user.exists /\ user.active
Holding == {"check", "writeUser", "lockUser"}

Account(s) ==
    "EnterPassword" \in session[s].required =>
        /\ Sound(users[session[s].owner])
        /\ \A r \in Requests :
               Active(r, s) /\ req[r].phase \in Holding => Sound(req[r].user)

At(s, st, phases) ==
    \E r \in Requests : Active(r, s) /\ req[r].step = st /\ req[r].phase \in phases

(* The e-mail was sent and its token is not lost on the way.               *)
Mail(s) ==
    "EnterPassword" \in done[s] /\ "ValidateEmail" \in Present(rows[s]) \ done[s]
        => s \in emailToken \/ At(s, "ValidateEmail", {"writeUser", "persist"})

(* Nor is the TOTP secret created without its row being COMPLETE.          *)
Secret(s) ==
    "ConfigureTotp" \in Present(rows[s]) \ done[s] /\ "TOTP" \in mfa[session[s].owner]
        => At(s, "ConfigureTotp", {"persist"})

Settled(s) ==
    IF session[s].kind = "none" THEN verified[s] = {} /\ s \notin emailToken
    ELSE Chosen(s) /\ Configured(s)

PassInv ==
    /\ \A s \in Sessions : Settled(s)
    /\ \A s \in Sessions \ (disturbed \cup reset) : Lists(s)
    /\ \A s \in Sessions \ (disturbed \cup halted \cup reset) :
           session[s].kind # "none" /\ OnlyLogin(s) => Account(s) /\ Mail(s) /\ Secret(s)

-----------------------------------------------------------------------------
(* It is what NoDeadEnd needs.                                             *)

LEMMA BeforeFactor ==
    \A st \in Factors, x \in Steps : Position[x] < Position[st] => x \in Factors
  BY DEF Steps, Position, Factors, Redirects, SecurityEvents

(* Of the open factors one comes first.                                    *)
LEMMA FirstPosition ==
    ASSUME NEW open \in SUBSET Factors, open # {}
    PROVE  \E st \in open : \A x \in open : Position[st] <= Position[x]
<1> DEFINE Positions == {Position[x] : x \in open}
           Smaller == {pair \in Nat \X Nat : pair[1] < pair[2]}
<1>1. Positions \subseteq Nat /\ Positions # {}
  BY PositionType
<1>2. IsWellFoundedOn(Smaller, Nat)
  BY NatLessThanWellFounded, Zenon DEF OpToRel
<1>3. PICK least \in Positions : \A m \in Positions : <<m, least>> \notin Smaller
  <2> HIDE DEF Positions, Smaller
  <2>1. QED
    BY <1>1, <1>2, WFMin
<1>4. \A m \in Positions : least <= m
  <2> HIDE DEF Positions
  <2> SUFFICES ASSUME NEW m \in Positions PROVE ~(m < least)
    BY <1>1
  <2>1. m \in Nat /\ least \in Nat
    BY <1>1
  <2>2. m < least => <<m, least>> \in Smaller
    BY <2>1
  <2>3. QED
    BY <1>3, <2>2
<1>5. QED
  BY <1>4

LEMMA NothingStuck == IInv /\ OrderInv /\ PassInv => NoDeadEnd
<1> SUFFICES ASSUME IInv, OrderInv, PassInv,
                    NEW s \in Sessions \ (disturbed \cup halted \cup reset),
                    NEW open, open = FactorRows(rows[s]) \ done[s], open # {},
                    NEW u, u = session[s].owner, OnlyLogin(s),
                    \A r \in Requests : ~Active(r, s),
                    users[u].locked => "EnterPasswordAndMigrateUser" \in open
             PROVE  \E st \in open : PreviousComplete(s, st) /\ Passable(s, st)
  BY DEF NoDeadEnd, FactorRows
<1>1. TypeOK /\ SessionInv(s)
  BY DEF IInv
<1>2. session[s].kind # "none"
  BY DEF IInv, Unused, FactorRows
<1>3. /\ Lists(s) /\ Chosen(s) /\ Configured(s)
      /\ Account(s) /\ Mail(s) /\ Secret(s)
  BY <1>2 DEF PassInv, Settled
<1>4. FactorRows(rows[s]) = session[s].required
  BY <1>3 DEF Lists, Whole, Over
<1>5. done[s] \subseteq verified[s] /\ \A st \in Steps : rows[s][st] \in {0, Position[st]}
  BY <1>1 DEF SessionInv, Shaped
<1>6. PICK st \in open : \A x \in open : Position[st] <= Position[x]
  BY FirstPosition DEF FactorRows
<1>7. st \in Factors /\ st \in Steps /\ st \in session[s].required /\ st \notin done[s]
      /\ rows[s][st] # 0
  BY <1>4, PositionType DEF FactorRows, Present
<1>8. PreviousComplete(s, st)
  <2> SUFFICES ASSUME NEW x \in Earlier(rows[s], st) PROVE x \in done[s]
    BY DEF PreviousComplete
  <2>1. x \in Steps /\ rows[s][x] # 0 /\ Position[x] < Position[st]
    BY <1>5, <1>7 DEF Earlier, Present
  <2>2. x \in FactorRows(rows[s])
    BY <1>7, <2>1, BeforeFactor DEF FactorRows, Present
  <2>3. Position[x] \in 1 .. 15 /\ Position[st] \in 1 .. 15
    BY <1>7, <2>1, PositionType
  <2>4. QED
    BY <1>6, <2>1, <2>2, <2>3
<1>9. Passable(s, st)
  <2>1. CASE st = "EnterPassword"
    <3>1. ~users[u].locked
      BY <1>3, <1>4, <1>7, <2>1 DEF Chosen
    <3>2. QED
      BY <1>3, <1>7, <2>1, <3>1 DEF Account, Sound, KnownUser, Passable
  <2>2. CASE st = "ValidateEmail"
    <3>1. "EnterPassword" \in session[s].required
      BY <1>3, <1>7, <2>2 DEF Chosen
    <3>2. "EnterPassword" \in Present(rows[s]) /\ rows[s]["EnterPassword"] = 2
          /\ rows[s]["ValidateEmail"] = 4
      BY <1>4, <1>5, <1>7, <2>2, <3>1 DEF FactorRows, Present, Position
    <3>3. "EnterPassword" \in done[s]
      BY <1>8, <2>2, <3>2 DEF PreviousComplete, Earlier
    <3>4. s \in emailToken
      BY <1>3, <1>7, <2>2, <3>3 DEF Mail, At, Present
    <3>5. QED
      BY <2>2, <3>4 DEF Passable
  <2>3. CASE st = "ConfigureTotp"
    <3>1. "TOTP" \notin mfa[u]
      BY <1>3, <1>7, <2>3 DEF Secret, At, Present
    <3>2. QED
      BY <2>3, <3>1 DEF Passable
  <2>4. CASE st = "ValidateTotp"
    <3>1. ASSUME "ConfigureTotp" \in session[s].required PROVE "TOTP" \in mfa[u]
      <4>1. "ConfigureTotp" \in Present(rows[s]) /\ rows[s]["ConfigureTotp"] = 5
            /\ rows[s]["ValidateTotp"] = 6
        BY <1>4, <1>5, <1>7, <2>4, <3>1 DEF FactorRows, Present, Position
      <4>2. "ConfigureTotp" \in verified[s]
        BY <1>5, <1>8, <2>4, <4>1 DEF PreviousComplete, Earlier
      <4>3. QED
        BY <1>3, <4>2 DEF Configured
    <3>2. QED
      BY <1>3, <1>7, <2>4, <3>1 DEF Chosen, Passable
  <2>5. CASE st = "ValidateSecurityKey"
    <3>1. ASSUME "ConfigureSecurityKey" \in session[s].required PROVE "FIDO2" \in mfa[u]
      <4>1. "ConfigureSecurityKey" \in Present(rows[s]) /\ rows[s]["ConfigureSecurityKey"] = 7
            /\ rows[s]["ValidateSecurityKey"] = 8
        BY <1>4, <1>5, <1>7, <2>5, <3>1 DEF FactorRows, Present, Position
      <4>2. "ConfigureSecurityKey" \in verified[s]
        BY <1>5, <1>8, <2>5, <4>1 DEF PreviousComplete, Earlier
      <4>3. QED
        BY <1>3, <4>2 DEF Configured
    <3>2. QED
      BY <1>3, <1>7, <2>5, <3>1 DEF Chosen, Passable
  <2>6. CASE st = "ValidatePasswordResetToken"
    BY <1>3, <1>7, <2>6 DEF Chosen
  <2>7. CASE st \in {"EnterPasswordAndMigrateUser", "ConfigureSecurityKey",
                     "AcceptTermsAndConditions", "RotatePassword"}
    BY <2>7 DEF Passable
  <2>8. QED
    BY <1>7, <2>1, <2>2, <2>3, <2>4, <2>5, <2>6, <2>7, FactorNames
<1>10. QED
  BY <1>8, <1>9

-----------------------------------------------------------------------------
(* It is preserved: steps of a request.                                    *)

(* Of the other sessions a step of a request at work on t says something   *)
(* only when they are another login of the same user.                      *)
LEMMA PassStep ==
    ASSUME IInv, PassInv, TypeOK', NEW r \in Requests, NEW t \in Sessions, Active(r, t),
           OthersSame(r), session' = session,
           disturbed \subseteq disturbed', halted \subseteq halted', reset \subseteq reset',
           req'[r].phase = "idle" \/ req'[r].session = t,
           \A s \in Sessions \ {t} :
               rows'[s] = rows[s] /\ done'[s] = done[s] /\ verified'[s] = verified[s],
           \A u \in Users \ {session[t].owner} : users'[u] = users[u] /\ mfa'[u] = mfa[u],
           \A u \in Users : mfa[u] \subseteq mfa'[u],
           \A s \in emailToken :
               session[s].owner # session[t].owner => s \in emailToken',
           emailToken' \subseteq emailToken \cup {t},
           Configured(t)',
           t \notin disturbed' \cup reset' => Lists(t)',
           t \notin disturbed' \cup halted' \cup reset' /\ OnlyLogin(t) =>
               Account(t)' /\ Mail(t)' /\ Secret(t)'
    PROVE  PassInv'
<1>1. TypeOK /\ session[t].kind # "none"
  BY DEF IInv, Unused
<1>2. \A s \in Sessions : session[s].owner \in Users
  BY <1>1 DEF TypeOK, SessionRows
<1>3. \A s \in Sessions \ {t}, q \in Requests :
          /\ Active(q, s)' <=> Active(q, s)
          /\ Active(q, s) => req'[q] = req[q]
  BY DEF Active, OthersSame
<1>4. ASSUME NEW s \in Sessions
      PROVE  Settled(s)'
  <2>1. Settled(s)
    BY DEF PassInv
  <2>2. CASE session[s].kind = "none"
    BY <1>1, <2>1, <2>2 DEF Settled
  <2>3. CASE session[s].kind # "none"
    <3>1. Chosen(s)'
      BY <1>2, <2>1, <2>3 DEF Settled, Chosen
    <3>2. Configured(s)'
      BY <1>2, <2>1, <2>3 DEF Settled, Configured
    <3>3. QED
      BY <2>3, <3>1, <3>2 DEF Settled
  <2>4. QED
    BY <2>2, <2>3
<1>5. ASSUME NEW s \in Sessions \ (disturbed' \cup reset')
      PROVE  Lists(s)'
  <2>1. CASE s # t
    <3>1. Lists(s)
      BY <1>5 DEF PassInv
    <3>2. Whole(s)' <=> Whole(s)
      BY <2>1 DEF Whole, FactorRows, Present
    <3>3. Over(s)' <=> Over(s)
      BY <2>1 DEF Over, FactorRows, Present
    <3>4. FactorRows(rows[s])' = FactorRows(rows[s])
      BY <2>1 DEF FactorRows, Present
    <3>5. \A q \in Requests : Active(q, s) => FactorRows(req[q].list)' = FactorRows(req[q].list)
      BY <1>3, <2>1 DEF FactorRows, Present
    <3>6. QED
      BY <1>3, <2>1, <3>1, <3>2, <3>3, <3>4, <3>5 DEF Lists
  <2>2. QED
    BY <1>5, <2>1
<1>6. ASSUME NEW s \in Sessions \ (disturbed' \cup halted' \cup reset'),
             session'[s].kind # "none", OnlyLogin(s)'
      PROVE  Account(s)' /\ Mail(s)' /\ Secret(s)'
  <2>1. OnlyLogin(s)
    BY <1>6 DEF OnlyLogin
  <2>2. CASE s # t
    <3>1. Account(s) /\ Mail(s) /\ Secret(s)
      BY <1>6, <2>1 DEF PassInv
    <3>2. session[s].owner # session[t].owner
      BY <1>1, <2>1, <2>2 DEF OnlyLogin
    <3>3. \A st, phases : At(s, st, phases)' <=> At(s, st, phases)
      BY <1>3, <2>2 DEF At
    <3>4. Account(s)'
      BY <1>2, <1>3, <2>2, <3>1, <3>2 DEF Account, Sound
    <3>5. Mail(s)'
      BY <2>2, <3>1, <3>2, <3>3 DEF Mail, Present
    <3>6. Secret(s)'
      BY <1>2, <2>2, <3>1, <3>2, <3>3 DEF Secret, Present
    <3>7. QED
      BY <3>4, <3>5, <3>6
  <2>3. QED
    BY <1>6, <2>1, <2>2
<1>7. QED
  BY <1>4, <1>5, <1>6 DEF PassInv

(* What is said of the session the request is at work on.                  *)
LEMMA PassHere ==
    ASSUME IInv, PassInv, NEW r \in Requests, NEW t \in Sessions, Active(r, t)
    PROVE  /\ session[t].kind # "none" /\ OwnerOf(r) = session[t].owner
           /\ Chosen(t) /\ Configured(t)
           /\ t \notin disturbed \cup reset => Lists(t)
           /\ t \notin disturbed \cup halted \cup reset /\ OnlyLogin(t) =>
                  Account(t) /\ Mail(t) /\ Secret(t)
<1>1. session[t].kind # "none" /\ OwnerOf(r) = session[t].owner
  BY DEF IInv, Unused, Active, OwnerOf
<1>2. QED
  BY <1>1 DEF PassInv, Settled

(* Factor rows may go, with their completion, under a request that goes on.*)
LEMMA ListsStep ==
    ASSUME NEW r \in Requests, NEW t \in Sessions, Active(r, t), OthersSame(r), Lists(t),
           session' = session,
           FactorRows(rows[t])' \subseteq FactorRows(rows[t]),
           \A st \in done[t] : st \in done'[t] \/ st \notin FactorRows(rows[t])',
           req'[r].phase = "idle" \/ req'[r].session = t,
           req'[r].phase \in Stepping =>
               /\ req[r].phase \in Stepping
               /\ FactorRows(req[r].list)' = FactorRows(req[r].list),
           req'[r].phase \in Ending => req[r].phase \in Ending \/ Over(t)',
           \/ FactorRows(rows[t])' = FactorRows(rows[t]) /\ req[r].phase \notin Deleting
           \/ Over(t)'
           \/ Active(r, t)' /\ req'[r].phase \in Deleting
    PROVE  Lists(t)'
<1>1. Over(t) => Over(t)'
  BY DEF Over
<1>2. FactorRows(rows[t])' \subseteq session'[t].required
  BY DEF Lists
<1>3. Whole(t)' \/ Over(t)' \/ \E q \in Requests : Active(q, t)' /\ req'[q].phase \in Deleting
  <2>1. CASE FactorRows(rows[t])' = FactorRows(rows[t]) /\ req[r].phase \notin Deleting
    <3>1. Whole(t) => Whole(t)'
      BY <2>1 DEF Whole
    <3>2. \A q \in Requests : Active(q, t) /\ req[q].phase \in Deleting =>
              Active(q, t)' /\ req'[q].phase \in Deleting
      BY <2>1 DEF OthersSame, Active
    <3>3. QED
      BY <1>1, <3>1, <3>2 DEF Lists
  <2>2. QED
    BY <2>1
<1>4. ASSUME NEW q \in Requests, Active(q, t)'
      PROVE  /\ req'[q].phase \in Ending => Over(t)'
             /\ req'[q].phase \in Stepping =>
                    FactorRows(req[q].list)' \subseteq session'[t].required
  <2>1. CASE q = r
    BY <1>1, <2>1 DEF Lists
  <2>2. CASE q # r
    <3>1. Active(q, t) /\ req'[q] = req[q]
      BY <1>4, <2>2 DEF OthersSame, Active
    <3>2. FactorRows(req[q].list)' = FactorRows(req[q].list)
      BY <3>1 DEF FactorRows, Present
    <3>3. QED
      BY <1>1, <3>1, <3>2 DEF Lists
  <2>3. QED
    BY <2>1, <2>2
<1>5. QED
  BY <1>2, <1>3, <1>4 DEF Lists

(* The accounts, the e-mails and the secrets when request r goes on.       *)
LEMMA AccountStep ==
    ASSUME NEW r \in Requests, NEW t \in Sessions, Active(r, t), OthersSame(r),
           Account(t), session' = session,
           LET u == session[t].owner
           IN Sound(users[u]) /\ (req[r].phase \in Holding => Sound(req[r].user)) =>
                  /\ Sound(users'[u])
                  /\ req'[r].phase \in Holding => Sound(req'[r].user)
    PROVE  Account(t)'
<1> SUFFICES ASSUME "EnterPassword" \in session[t].required
             PROVE  /\ Sound(users'[session[t].owner])
                    /\ \A q \in Requests : Active(q, t)' /\ req'[q].phase \in Holding =>
                           Sound(req'[q].user)
  BY DEF Account
<1>1. /\ Sound(users'[session[t].owner])
      /\ req'[r].phase \in Holding => Sound(req'[r].user)
  BY DEF Account
<1>2. QED
  BY <1>1 DEF Account, OthersSame, Active

LEMMA MailStep ==
    ASSUME NEW r \in Requests, NEW t \in Sessions, Active(r, t), OthersSame(r), Mail(t),
           "EnterPassword" \in done'[t] => "EnterPassword" \in done[t],
           "ValidateEmail" \in Present(rows'[t]) \ done'[t] =>
               /\ "ValidateEmail" \in Present(rows[t]) \ done[t]
               /\ req[r].step = "ValidateEmail" /\ req[r].phase \in {"writeUser", "persist"} =>
                      /\ req'[r].session = t /\ req'[r].step = "ValidateEmail"
                      /\ req'[r].phase \in {"writeUser", "persist"},
           t \in emailToken => t \in emailToken'
    PROVE  Mail(t)'
<1> SUFFICES ASSUME "EnterPassword" \in done'[t],
                    "ValidateEmail" \in Present(rows'[t]) \ done'[t], t \notin emailToken
             PROVE  At(t, "ValidateEmail", {"writeUser", "persist"})'
  BY DEF Mail
<1>1. PICK q \in Requests : /\ Active(q, t) /\ req[q].step = "ValidateEmail"
                            /\ req[q].phase \in {"writeUser", "persist"}
  BY DEF Mail, At
<1>2. /\ Active(q, t)' /\ req'[q].step = "ValidateEmail"
      /\ req'[q].phase \in {"writeUser", "persist"}
  BY <1>1 DEF OthersSame, Active
<1>3. QED
  BY <1>2 DEF At

LEMMA SecretStep ==
    ASSUME NEW r \in Requests, NEW t \in Sessions, Active(r, t), OthersSame(r), Secret(t),
           session' = session, mfa' = mfa,
           "ConfigureTotp" \in Present(rows'[t]) \ done'[t] =>
               /\ "ConfigureTotp" \in Present(rows[t]) \ done[t]
               /\ ~(req[r].step = "ConfigureTotp" /\ req[r].phase = "persist")
    PROVE  Secret(t)'
<1> SUFFICES ASSUME "ConfigureTotp" \in Present(rows'[t]) \ done'[t],
                    "TOTP" \in mfa[session[t].owner]
             PROVE  At(t, "ConfigureTotp", {"persist"})'
  BY DEF Secret
<1>1. PICK q \in Requests : /\ Active(q, t) /\ req[q].step = "ConfigureTotp"
                            /\ req[q].phase = "persist"
  BY DEF Secret, At
<1>2. /\ Active(q, t)' /\ req'[q].step = "ConfigureTotp" /\ req'[q].phase = "persist"
  BY <1>1 DEF OthersSame, Active
<1>3. QED
  BY <1>2 DEF At

(* A step that leaves the rows, the enrolments and the e-mails alone.      *)
LEMMA QuietPass ==
    ASSUME IInv, PassInv, TypeOK', NEW r \in Requests, NEW t \in Sessions, Active(r, t),
           OthersSame(r), GoesOn(r), UNCHANGED <<rows, done, session, mfa, emailToken, reset>>,
           disturbed \subseteq disturbed', halted \subseteq halted',
           req'[r].phase = "idle" \/ req'[r].session = t,
           \A s \in Sessions \ {t} : verified'[s] = verified[s],
           verified'[t] \ verified[t] \subseteq
               Factors \ {"ConfigureTotp", "ConfigureSecurityKey"},
           \A u \in Users \ {session[t].owner} : users'[u] = users[u],
           req'[r].phase \in Ending => req[r].phase \in Ending,
           t \notin disturbed' /\ req[r].phase \in Deleting =>
               req'[r].phase \in Deleting \/ Present(rows[t]) = {},
           t \notin halted' /\ req[r].phase \in {"writeUser", "persist"} =>
               /\ req[r].phase = "writeUser" /\ req'[r].phase = "persist"
               /\ req'[r].step = req[r].step,
           LET u == session[t].owner
           IN Sound(users[u]) /\ (req[r].phase \in Holding => Sound(req[r].user)) =>
                  /\ Sound(users'[u])
                  /\ req'[r].phase \in Holding => Sound(req'[r].user)
    PROVE  PassInv'
<1>1. /\ session[t].kind # "none" /\ Configured(t)
      /\ t \notin disturbed \cup reset => Lists(t)
      /\ t \notin disturbed \cup halted \cup reset /\ OnlyLogin(t) =>
             Account(t) /\ Mail(t) /\ Secret(t)
  BY PassHere
<1>2. Configured(t)'
  BY <1>1 DEF Configured
<1>3. ASSUME t \notin disturbed' \cup reset'
      PROVE  Lists(t)'
  <2>1. Lists(t) /\ FactorRows(rows[t])' = FactorRows(rows[t])
    BY <1>1, <1>3 DEF FactorRows, Present
  <2>2. req'[r].phase \in Stepping =>
            /\ req[r].phase \in Stepping
            /\ FactorRows(req[r].list)' = FactorRows(req[r].list)
    BY DEF GoesOn, FactorRows, Present
  <2>3. req'[r].phase \in Deleting => Active(r, t)'
    BY DEF Active, Deleting
  <2>4. Present(rows[t]) = {} => Over(t)'
    BY DEF Over, FactorRows, Present
  <2>5. QED
    BY <1>3, <2>1, <2>2, <2>3, <2>4, ListsStep
<1>4. ASSUME t \notin disturbed' \cup halted' \cup reset', OnlyLogin(t)
      PROVE  Account(t)' /\ Mail(t)' /\ Secret(t)'
  <2>1. Account(t) /\ Mail(t) /\ Secret(t)
    BY <1>1, <1>4
  <2>2. req[r].phase \in {"writeUser", "persist"} =>
            /\ req[r].phase = "writeUser" /\ req'[r].phase = "persist"
            /\ req'[r].step = req[r].step /\ req'[r].session = t
    BY <1>4
  <2>3. Account(t)'
    BY <2>1, AccountStep
  <2>4. Mail(t)'
    BY <2>1, <2>2, MailStep
  <2>5. Secret(t)'
    BY <2>1, <2>2, SecretStep
  <2>6. QED
    BY <2>3, <2>4, <2>5
<1>5. QED
  BY <1>2, <1>3, <1>4, PassStep
-----------------------------------------------------------------------------
(* One lemma per kind of action.                                           *)

(* The user object a request holds when it goes to the given phase.        *)
HolderIs(r, phase, user) ==
    /\ req'[r].phase = phase /\ req'[r].user = user
    /\ req'[r].session = req[r].session /\ req'[r].step = req[r].step

LEMMA GotoHolder ==
    ASSUME TypeOK, NEW r \in Requests, NEW phase, Goto(r, phase)
    PROVE  HolderIs(r, phase, req[r].user)
<1>1. req'[r] = [req[r] EXCEPT !.phase = phase]
  BY BecomeOthers DEF Goto
<1>2. QED
  BY <1>1, OwnerType DEF ReqStates, HolderIs

LEMMA FinishHolder ==
    ASSUME TypeOK, NEW r \in Requests, Finish(r)
    PROVE  req'[r].phase = "idle"
  BY BecomeOthers DEF Finish, Idle

LEMMA ReadUserPass ==
    ASSUME IInv, PassInv, TypeOK', NEW r \in Requests, ReadUser(r)
    PROVE  PassInv'
<1> DEFINE t == req[r].session
           u == users[OwnerOf(r)]
<1>1. /\ req[r].phase = "readUser"
      /\ UNCHANGED <<rows, done, session, mfa, emailToken, reset, verified, users,
                     disturbed, halted>>
      /\ \/ Finish(r)
         \/ Become(r, [req[r] EXCEPT !.phase = "check", !.locked = u.locked, !.user = u])
  BY DEF ReadUser, store, history, outcome
<1>2. TypeOK /\ t \in Sessions /\ Active(r, t)
  BY <1>1, ActiveSession
<1>3. OthersSame(r) /\ GoesOn(r)
  BY <1>2, NextStep
<1>4. \/ req'[r].phase = "idle"
      \/ /\ req'[r].phase = "check" /\ req'[r].session = t
         /\ req'[r].user = users[session[t].owner]
  <2> DEFINE locked == u.locked
             user == users[OwnerOf(r)]
  <2>1. CASE Finish(r)
    BY <1>2, <2>1, FinishHolder
  <2>2. CASE Become(r, [req[r] EXCEPT !.phase = "check", !.locked = locked, !.user = user])
    <3>1. user = users[session[t].owner]
      BY DEF OwnerOf
    <3> HIDE DEF locked, user
    <3>2. req'[r] = [req[r] EXCEPT !.phase = "check", !.locked = locked, !.user = user]
      BY <1>2, <2>2, BecomeOthers
    <3>3. /\ req'[r].phase = "check" /\ req'[r].user = user
          /\ req'[r].session = req[r].session
      BY <1>2, <3>2, OwnerType DEF ReqStates
    <3>4. QED
      BY <3>1, <3>3
  <2>3. QED
    BY <1>1, <2>1, <2>2
<1>5. QED
  BY <1>1, <1>2, <1>3, <1>4, QuietPass DEF Ending, Completing, Deleting, Holding

LEMMA AttemptPass ==
    ASSUME IInv, PassInv, TypeOK', NEW r \in Requests,
           AttemptSucceeds(r) \/ AttemptFails(r) \/ CheckRefused(r)
    PROVE  PassInv'
<1> DEFINE t == req[r].session
           user == [req[r].user EXCEPT !.locked = TRUE]
<1>1. /\ req[r].phase \in {"readUser", "check"}
      /\ UNCHANGED <<rows, done, session, mfa, emailToken, reset, users, disturbed, halted>>
      /\ \/ Finish(r) /\ verified' = verified
         \/ Become(r, [req[r] EXCEPT !.phase = "lockUser", !.user = user])
                /\ verified' = verified /\ req[r].phase = "check"
         \/ Goto(r, "persist") /\ Verified(r) /\ req[r].step \in AttemptSteps
  BY DEF AttemptSucceeds, AttemptFails, CheckRefused, Checking, AttemptSteps, store, people,
         history, outcome
<1>2. TypeOK /\ t \in Sessions /\ Active(r, t)
  BY <1>1, ActiveSession
<1>3. OthersSame(r) /\ GoesOn(r)
  BY <1>2, NextStep DEF Handles
<1>4. \/ req'[r].phase = "idle"
      \/ /\ req'[r].phase = "lockUser" /\ req'[r].session = t
         /\ Sound(req[r].user) => Sound(req'[r].user)
         /\ req[r].phase = "check"
      \/ req'[r].phase = "persist" /\ req'[r].session = t
  <2>1. CASE Finish(r)
    BY <1>2, <2>1, FinishHolder
  <2>2. CASE Become(r, [req[r] EXCEPT !.phase = "lockUser", !.user = user])
              /\ req[r].phase = "check"
    <3>1. req'[r] = [req[r] EXCEPT !.phase = "lockUser", !.user = user]
      BY <1>2, <2>2, BecomeOthers
    <3>2. req'[r].phase = "lockUser" /\ req'[r].session = t /\ req'[r].user = user
      BY <1>2, <3>1, OwnerType DEF ReqStates
    <3>3. user.exists = req[r].user.exists /\ user.active = req[r].user.active
      BY <1>2, OwnerType DEF ReqStates, UserRows
    <3>4. QED
      BY <2>2, <3>2, <3>3 DEF Sound
  <2>3. CASE Goto(r, "persist")
    BY <1>2, <2>3, GotoHolder DEF HolderIs
  <2>4. QED
    BY <1>1, <2>1, <2>2, <2>3
<1>5. /\ \A s \in Sessions \ {t} : verified'[s] = verified[s]
      /\ verified'[t] \ verified[t] \subseteq
             Factors \ {"ConfigureTotp", "ConfigureSecurityKey"}
  <2>1. AttemptSteps \subseteq Factors \ {"ConfigureTotp", "ConfigureSecurityKey"}
    BY FactorNames DEF AttemptSteps
  <2>2. CASE verified' = verified
    BY <2>2
  <2>3. CASE Verified(r) /\ req[r].step \in AttemptSteps
    BY <1>2, <2>1, <2>3 DEF Verified, TypeOK
  <2>4. QED
    BY <1>1, <2>2, <2>3
<1>6. QED
  BY <1>1, <1>2, <1>3, <1>4, <1>5, QuietPass DEF Ending, Completing, Deleting, Holding

LEMMA HandlersPass ==
    ASSUME IInv, PassInv, TypeOK', NEW r \in Requests,
           \/ AuthenticateAcceptTermsAndConditions(r)
           \/ AuthenticateRotatePassword(r)
           \/ AuthenticateUserAndMigrate(r)
           \/ AuthenticateValidatePasswordResetToken(r)
    PROVE  PassInv'
<1> DEFINE t == req[r].session
           forced == [req[r].user EXCEPT !.force = FALSE]
<1>1. /\ req[r].phase = "check" /\ Verified(r)
      /\ UNCHANGED <<rows, done, session, mfa, emailToken, reset, users, disturbed, halted>>
      /\ req[r].step \in Factors \ {"ConfigureTotp", "ConfigureSecurityKey"}
  BY FactorNames
     DEF AuthenticateAcceptTermsAndConditions, AuthenticateRotatePassword,
         AuthenticateUserAndMigrate, AuthenticateValidatePasswordResetToken, Checking,
         store, people, outcome
<1>2. TypeOK /\ t \in Sessions /\ Active(r, t)
  BY <1>1, ActiveSession
<1>3. OthersSame(r) /\ GoesOn(r)
  BY <1>2, NextStep DEF Handles
<1>4. \/ req'[r].phase = "persist" /\ req'[r].session = t
      \/ /\ req'[r].phase = "writeUser" /\ req'[r].session = t
         /\ Sound(req[r].user) => Sound(req'[r].user)
  <2>1. CASE Goto(r, "persist")
    BY <1>2, <2>1, GotoHolder DEF HolderIs
  <2>2. CASE Become(r, [req[r] EXCEPT !.phase = "writeUser", !.user.force = FALSE])
    <3>1. req'[r] = [req[r] EXCEPT !.phase = "writeUser", !.user = forced]
      BY <1>2, <2>2, BecomeOthers
    <3>2. req'[r].phase = "writeUser" /\ req'[r].session = t /\ req'[r].user = forced
      BY <1>2, <3>1, OwnerType DEF ReqStates
    <3>3. forced.exists = req[r].user.exists /\ forced.active = req[r].user.active
      BY <1>2, OwnerType DEF ReqStates, UserRows
    <3>4. QED
      BY <3>2, <3>3 DEF Sound
  <2>3. CASE AuthenticateUserAndMigrate(r)
    <3>1. PICK emailVerified \in BOOLEAN :
              Become(r, [req[r] EXCEPT !.phase = "writeUser", !.locked = FALSE,
                  !.user = [exists |-> TRUE, active |-> TRUE, locked |-> FALSE,
                            force |-> FALSE, emailVerified |-> emailVerified]])
      BY <2>3 DEF AuthenticateUserAndMigrate
    <3> DEFINE user == [exists |-> TRUE, active |-> TRUE, locked |-> FALSE,
                        force |-> FALSE, emailVerified |-> emailVerified]
    <3>2. Sound(user)
      BY DEF Sound
    <3>3. Become(r, [req[r] EXCEPT !.phase = "writeUser", !.locked = FALSE, !.user = user])
      BY <3>1
    <3> HIDE DEF user
    <3>4. req'[r] = [req[r] EXCEPT !.phase = "writeUser", !.locked = FALSE, !.user = user]
      BY <1>2, <3>3, BecomeOthers
    <3>5. /\ req'[r].phase = "writeUser" /\ req'[r].session = t /\ req'[r].user = user
      BY <1>2, <3>4, OwnerType DEF ReqStates
    <3>6. QED
      BY <3>2, <3>5
  <2>4. QED
    BY <2>1, <2>2, <2>3
       DEF AuthenticateAcceptTermsAndConditions, AuthenticateRotatePassword,
           AuthenticateValidatePasswordResetToken
<1>5. /\ \A s \in Sessions \ {t} : verified'[s] = verified[s]
      /\ verified'[t] \ verified[t] \subseteq
             Factors \ {"ConfigureTotp", "ConfigureSecurityKey"}
  BY <1>1, <1>2 DEF Verified, TypeOK
<1>6. QED
  BY <1>1, <1>2, <1>3, <1>4, <1>5, QuietPass DEF Ending, Completing, Deleting, Holding

LEMMA WriteUserPass ==
    ASSUME IInv, PassInv, TypeOK', NEW r \in Requests, WriteUser(r)
    PROVE  PassInv'
<1> DEFINE t == req[r].session
<1>1. /\ req[r].phase \in {"writeUser", "lockUser"}
      /\ UNCHANGED <<rows, done, session, mfa, emailToken, reset, verified,
                     disturbed, halted>>
      /\ users' = [users EXCEPT ![OwnerOf(r)] = req[r].user]
      /\ IF req[r].phase = "writeUser" THEN Goto(r, "persist") ELSE Finish(r)
  BY DEF WriteUser, store, history, outcome
<1>2. TypeOK /\ t \in Sessions /\ Active(r, t)
  BY <1>1, ActiveSession
<1>3. OthersSame(r) /\ GoesOn(r)
  BY <1>2, NextStep
<1>4. IF req[r].phase = "writeUser"
      THEN HolderIs(r, "persist", req[r].user) ELSE req'[r].phase = "idle"
  BY <1>1, <1>2, FinishHolder, GotoHolder
<1>5. /\ \A x \in Users \ {session[t].owner} : users'[x] = users[x]
      /\ users'[session[t].owner] = req[r].user
  BY <1>1, <1>2, OwnerType DEF TypeOK, OwnerOf
<1>6. QED
  BY <1>1, <1>2, <1>3, <1>4, <1>5, QuietPass
     DEF Ending, Completing, Deleting, Holding, HolderIs

(* Completing the login, taking it apart and dying.                        *)
LEMMA EndsPass ==
    ASSUME IInv, PassInv, TypeOK', NEW r \in Requests,
           \/ Complete(r) \/ RowsDeleted(r) \/ SavePasswordResetToken(r)
           \/ CancelDevice(r) \/ CancelDone(r) \/ Abort(r)
    PROVE  PassInv'
<1> DEFINE t == req[r].session
<1>1. /\ req[r].phase # "idle"
      /\ UNCHANGED <<rows, done, session, mfa, emailToken, reset, verified, users>>
      /\ disturbed \subseteq disturbed' /\ halted \subseteq halted'
  BY DEF Complete, ApproveDevice, ReadPreAuth, ConsumePreAuth, SaveAuthorizationCode,
         SignPortalToken, RowsDeleted, SavePasswordResetToken, CancelDevice, CancelDone,
         Abort, store, people, history, outcome
<1>2. /\ TypeOK /\ t \in Sessions /\ Active(r, t)
      /\ t \notin disturbed => RequestInv(r, t)
  BY <1>1, ActiveSession
<1>3. OthersSame(r) /\ GoesOn(r)
  BY <1>2, NextStep
<1>4. ASSUME NEW phase, Goto(r, phase)
      PROVE  req'[r].phase = phase /\ req'[r].session = t
  BY <1>2, <1>4, GotoState
<1>5. ASSUME StartCleanup(r)
      PROVE  req'[r].phase = "cleanup" /\ req'[r].session = t
  <2>1. req'[r] = [req[r] EXCEPT !.phase = "cleanup", !.todo = Present(req[r].list)]
    BY <1>2, <1>5, BecomeOthers DEF StartCleanup
  <2>2. QED
    BY <1>2, <2>1, OwnerType DEF ReqStates
<1>6. Finish(r) => req'[r].phase = "idle"
  BY <1>2, FinishHolder
<1>7. CASE Complete(r)
  <2>1. /\ req[r].phase \in {"approve", "code", "consume", "save", "sign"}
        /\ \/ req'[r].phase = "idle"
           \/ req'[r].session = t /\ req'[r].phase \in Ending
    BY <1>4, <1>5, <1>6, <1>7
       DEF Complete, ApproveDevice, ReadPreAuth, ConsumePreAuth, SaveAuthorizationCode,
           SignPortalToken, Ending, Completing
  <2>2. QED
    BY <1>1, <1>2, <1>3, <2>1, QuietPass DEF Ending, Completing, Deleting, Holding
<1>8. CASE RowsDeleted(r) \/ SavePasswordResetToken(r) \/ CancelDevice(r) \/ CancelDone(r)
  <2>1. req[r].phase \in {"cleanup", "replace", "expire", "forgot", "cancelRead", "cancel"}
    BY <1>8 DEF RowsDeleted, SavePasswordResetToken, CancelDevice, CancelDone
  <2>2. \/ req'[r].phase = "idle"
        \/ req'[r].session = t /\ req'[r].phase \in {"insert", "replace", "cancel"}
    BY <1>4, <1>6, <1>8 DEF RowsDeleted, SavePasswordResetToken, CancelDevice, CancelDone
  <2>3. t \notin disturbed' /\ req[r].phase \in Deleting =>
            req'[r].phase \in Deleting \/ Present(rows[t]) = {}
    <3>1. ASSUME t \notin disturbed', req[r].phase \in Deleting, req'[r].phase \notin Deleting
          PROVE  req[r].todo = {} /\ req[r].phase \in TearingDown
      BY <1>8, <3>1 DEF RowsDeleted, SavePasswordResetToken, CancelDevice, CancelDone,
             Deleting, TearingDown
    <3>2. QED
      BY <1>1, <1>2, <3>1 DEF RequestInv
  <2>4. QED
    BY <1>1, <1>2, <1>3, <2>1, <2>2, <2>3, QuietPass DEF Ending, Completing, Holding
<1>9. CASE Abort(r)
  <2>1. req'[r].phase = "idle"
    BY <1>6, <1>9 DEF Abort
  <2>2. req[r].phase \in Deleting => t \in disturbed'
    BY <1>9 DEF Abort, Deleting, TearingDown
  <2>3. req[r].phase \in {"writeUser", "persist"} => t \in halted'
    BY <1>9 DEF Abort, Stepping
  <2>4. QED
    BY <1>1, <1>2, <1>3, <2>1, <2>2, <2>3, QuietPass DEF Ending, Completing, Holding
<1>10. QED
  BY <1>7, <1>8, <1>9
(* An e-mail token is used up; only a login of its user can do that.       *)
LEMMA VerifyEmailPass ==
    ASSUME IInv, PassInv, TypeOK', NEW r \in Requests, AuthenticateVerifyEmailAddress(r),
           NEW t, t = req[r].session
    PROVE  PassInv'
<1> DEFINE owner == users[OwnerOf(r)]
           user == [owner EXCEPT !.emailVerified = TRUE]
<1>1. /\ req[r].phase = "check" /\ req[r].step = "ValidateEmail" /\ Verified(r)
      /\ UNCHANGED <<rows, done, session, mfa, reset, users, disturbed, halted>>
      /\ Become(r, [req[r] EXCEPT !.phase = "writeUser", !.user = user])
      /\ \E x \in TokensOf(r, emailToken) : emailToken' = emailToken \ {x}
  BY DEF AuthenticateVerifyEmailAddress, Checking, store, outcome
<1>2. TypeOK /\ t \in Sessions /\ Active(r, t)
  BY <1>1, ActiveSession
<1>3. OthersSame(r) /\ GoesOn(r)
  BY <1>2, NextStep DEF Handles
<1>4. /\ session[t].kind # "none" /\ Configured(t)
      /\ t \notin disturbed \cup reset => Lists(t)
      /\ t \notin disturbed \cup halted \cup reset /\ OnlyLogin(t) =>
             Account(t) /\ Mail(t) /\ Secret(t)
  BY <1>2, PassHere
<1>5. /\ req'[r].phase = "writeUser" /\ req'[r].session = t
      /\ req'[r].step = "ValidateEmail" /\ req'[r].user = user
  <2> HIDE DEF user
  <2>1. req'[r] = [req[r] EXCEPT !.phase = "writeUser", !.user = user]
    BY <1>1, <1>2, BecomeOthers
  <2>2. QED
    BY <1>1, <1>2, <2>1, OwnerType DEF ReqStates
<1>6. Sound(users[session[t].owner]) => Sound(user)
  <2>1. owner \in UserRows /\ OwnerOf(r) = session[t].owner
    BY <1>2, OwnerType DEF TypeOK, OwnerOf
  <2>2. QED
    BY <2>1 DEF UserRows, Sound
<1>7. /\ \A s \in Sessions \ {t} : verified'[s] = verified[s]
      /\ verified'[t] \subseteq verified[t] \cup {"ValidateEmail"}
  BY <1>1, <1>2 DEF Verified, TypeOK
<1>8. /\ \A s \in emailToken : session[s].owner # session[t].owner => s \in emailToken'
      /\ emailToken' \subseteq emailToken
  BY <1>1 DEF TokensOf, OwnerOf
<1>9. Configured(t)'
  BY <1>1, <1>4, <1>7 DEF Configured
<1>10. ASSUME t \notin disturbed' \cup reset'
       PROVE  Lists(t)'
  <2>1. Lists(t) /\ FactorRows(rows[t])' = FactorRows(rows[t])
    BY <1>1, <1>4, <1>10 DEF FactorRows, Present
  <2>2. req'[r].phase \in Stepping =>
            req[r].phase \in Stepping /\ FactorRows(req[r].list)' = FactorRows(req[r].list)
    BY <1>3 DEF GoesOn, FactorRows, Present
  <2>3. QED
    BY <1>1, <1>2, <1>3, <1>5, <2>1, <2>2, ListsStep DEF Ending, Completing, Deleting
<1>11. ASSUME t \notin disturbed' \cup halted' \cup reset', OnlyLogin(t)
       PROVE  Account(t)' /\ Mail(t)' /\ Secret(t)'
  <2>1. Account(t) /\ Mail(t) /\ Secret(t)
    BY <1>1, <1>4, <1>11
  <2>2. Account(t)'
    BY <1>1, <1>2, <1>3, <1>5, <1>6, <2>1, AccountStep DEF Holding
  <2>3. Mail(t)'
    BY <1>5 DEF Mail, At, Active
  <2>4. Secret(t)'
    BY <1>1, <1>2, <1>3, <2>1, SecretStep
  <2>5. QED
    BY <2>2, <2>3, <2>4
<1>12. QED
  BY <1>1, <1>2, <1>3, <1>5, <1>7, <1>8, <1>9, <1>10, <1>11, PassStep

(* A factor is enrolled, then the step goes on to be COMPLETE.             *)
LEMMA ConfigurePass ==
    ASSUME IInv, PassInv, TypeOK', NEW r \in Requests,
           AuthenticateConfigureTOTP(r) \/ AuthenticateRegisterSecurityKey(r),
           NEW t, t = req[r].session
    PROVE  PassInv'
<1> DEFINE type == IF req[r].step = "ConfigureTotp" THEN "TOTP" ELSE "FIDO2"
<1>1. /\ req[r].phase = "check" /\ req[r].step \in {"ConfigureTotp", "ConfigureSecurityKey"}
      /\ Verified(r) /\ Goto(r, "persist")
      /\ UNCHANGED <<rows, done, session, emailToken, reset, users, disturbed, halted>>
      /\ mfa' = [mfa EXCEPT ![OwnerOf(r)] = @ \cup {type}]
  BY DEF AuthenticateConfigureTOTP, AuthenticateRegisterSecurityKey, Checking, store, outcome
<1>2. TypeOK /\ t \in Sessions /\ Active(r, t) /\ OwnerOf(r) = session[t].owner
      /\ OwnerOf(r) \in Users
  BY <1>1, ActiveSession, OwnerType DEF OwnerOf
<1>3. OthersSame(r) /\ GoesOn(r)
  BY <1>2, NextStep DEF Handles
<1>4. /\ session[t].kind # "none" /\ Configured(t)
      /\ t \notin disturbed \cup reset => Lists(t)
      /\ t \notin disturbed \cup halted \cup reset /\ OnlyLogin(t) =>
             Account(t) /\ Mail(t) /\ Secret(t)
  BY <1>2, PassHere
<1>5. req'[r].phase = "persist" /\ req'[r].session = t /\ req'[r].step = req[r].step
  BY <1>1, <1>2, GotoState
<1>6. /\ \A u \in Users \ {session[t].owner} : mfa'[u] = mfa[u]
      /\ mfa'[session[t].owner] = mfa[session[t].owner] \cup {type}
      /\ \A u \in Users : mfa[u] \subseteq mfa'[u]
  BY <1>1, <1>2 DEF TypeOK
<1>7. /\ \A s \in Sessions \ {t} : verified'[s] = verified[s]
      /\ verified'[t] = verified[t] \cup {req[r].step}
  BY <1>1, <1>2 DEF Verified, TypeOK
<1>8. Configured(t)'
  BY <1>1, <1>4, <1>6, <1>7 DEF Configured
<1>9. ASSUME t \notin disturbed' \cup reset'
      PROVE  Lists(t)'
  <2>1. Lists(t) /\ FactorRows(rows[t])' = FactorRows(rows[t])
    BY <1>1, <1>4, <1>9 DEF FactorRows, Present
  <2>2. req'[r].phase \in Stepping =>
            req[r].phase \in Stepping /\ FactorRows(req[r].list)' = FactorRows(req[r].list)
    BY <1>3 DEF GoesOn, FactorRows, Present
  <2>3. QED
    BY <1>1, <1>2, <1>3, <1>5, <2>1, <2>2, ListsStep DEF Ending, Completing, Deleting
<1>10. ASSUME t \notin disturbed' \cup halted' \cup reset', OnlyLogin(t)
       PROVE  Account(t)' /\ Mail(t)' /\ Secret(t)'
  <2>1. Account(t) /\ Mail(t) /\ Secret(t)
    BY <1>1, <1>4, <1>10
  <2>2. Account(t)'
    BY <1>1, <1>2, <1>3, <1>5, <2>1, AccountStep DEF Holding
  <2>3. Mail(t)'
    BY <1>1, <1>2, <1>3, <2>1, MailStep
  <2>4. Secret(t)'
    <3>1. CASE req[r].step = "ConfigureTotp"
      BY <1>5, <3>1 DEF Secret, At, Active
    <3>2. CASE req[r].step # "ConfigureTotp"
      <4>1. "TOTP" \in mfa'[session[t].owner] => "TOTP" \in mfa[session[t].owner]
        BY <1>6, <3>2
      <4>2. At(t, "ConfigureTotp", {"persist"}) => At(t, "ConfigureTotp", {"persist"})'
        BY <1>3, <3>2 DEF At, OthersSame, Active
      <4>3. QED
        BY <1>1, <2>1, <4>1, <4>2 DEF Secret, Present
    <3>3. QED
      BY <3>1, <3>2
  <2>5. QED
    BY <2>2, <2>3, <2>4
<1>11. QED
  BY <1>1, <1>2, <1>3, <1>5, <1>6, <1>7, <1>8, <1>9, <1>10, PassStep

(* A row is COMPLETE.  When a redirect follows it, every factor is; when   *)
(* the confirmation of the e-mail follows the password, it has been sent.  *)
LEMMA LastFactor ==
    ASSUME IInv, OrderInv, NEW r \in Requests, NEW t \in Sessions \ (disturbed \cup reset),
           Active(r, t), req[r].phase = "persist",
           Lists(t), NEW next \in Redirects, IsNext(req[r].list, req[r].step, next)
    PROVE  FactorRows(rows[t]) \subseteq done[t] \cup {req[r].step}
<1> DEFINE list == req[r].list
           st == req[r].step
<1>1. RequestInv(r, t) /\ Reached(r, t)
  BY DEF IInv, OrderInv, Stepping
<1>2. /\ st \in Factors \cap Present(list) /\ Shaped(list, t)
      /\ Earlier(rows[t], st) \subseteq done[t]
      /\ \A x \in Factors : rows[t][x] \in {0, list[x]}
  BY <1>1 DEF RequestInv, Reached, Stepping
<1>3. \A x \in Steps : list[x] \in {0, Position[x]}
  BY <1>2 DEF Shaped
<1> SUFFICES ASSUME NEW x \in FactorRows(rows[t]), x # st, x \notin done[t]
             PROVE  FALSE
  OBVIOUS
<1>4. /\ x \in Steps /\ x \in Factors /\ x \in Present(list) /\ rows[t][x] = list[x]
      /\ list[x] = Position[x] /\ list[st] = Position[st] /\ st \in Steps
      /\ next \in Steps /\ list[next] = Position[next]
  BY <1>2, <1>3 DEF FactorRows, Present, IsNext
<1>5. /\ Position[x] \in 1 .. 15 /\ Position[st] \in 1 .. 15 /\ Position[next] \in 1 .. 15
      /\ Position[x] < Position[next]
  BY <1>4, PositionType, FactorsBeforeRedirects
<1>6. ~(Position[st] < Position[x])
  BY <1>4, <1>5 DEF IsNext
<1>7. Position[x] < Position[st]
  BY <1>4, <1>5, <1>6, PositionInjective
<1>8. CASE rows[t][st] # 0
  <2>1. x \in Earlier(rows[t], st)
    BY <1>2, <1>4, <1>7, <1>8 DEF Earlier, FactorRows
  <2>2. QED
    BY <1>2, <2>1
<1>9. CASE rows[t][st] = 0
  <2>1. \A q \in Requests : Active(q, t) => req[q].phase \notin Deleting
    BY DEF IInv, RequestInv, Deleting, TearingDown
  <2>2. Whole(t)
    BY <2>1 DEF Lists, Over
  <2>3. st \in session[t].required
    BY <1>2 DEF Lists, FactorRows, Stepping
  <2>4. QED
    BY <1>9, <2>2, <2>3 DEF Whole, FactorRows, Present
<1>10. QED
  BY <1>8, <1>9
LEMMA MailFollows ==
    ASSUME IInv, OrderInv, NEW r \in Requests, NEW t \in Sessions \ (disturbed \cup reset),
           Active(r, t), req[r].phase = "persist", req[r].step = "EnterPassword",
           Lists(t), Chosen(t), "ValidateEmail" \in Present(rows[t])
    PROVE  IsNext(req[r].list, "EnterPassword", "ValidateEmail")
<1> DEFINE list == req[r].list
<1>1. RequestInv(r, t) /\ Reached(r, t)
  BY DEF IInv, OrderInv, Stepping
<1>2. /\ "EnterPassword" \in Present(list) /\ Shaped(list, t)
      /\ \A x \in Factors : rows[t][x] \in {0, list[x]}
      /\ FactorRows(list) \subseteq session[t].required
  BY <1>1 DEF RequestInv, Reached, Stepping, Lists
<1>3. \A x \in Steps : list[x] \in {0, Position[x]}
  BY <1>2 DEF Shaped
<1>4. /\ {"EnterPassword", "EnterPasswordAndMigrateUser", "ValidateEmail"} \subseteq Factors
      /\ Factors \subseteq Steps
      /\ Position["EnterPassword"] = 2 /\ Position["EnterPasswordAndMigrateUser"] = 3
      /\ Position["ValidateEmail"] = 4
  BY FactorNames, PositionType DEF Position
<1>5. list["EnterPassword"] = 2 /\ list["ValidateEmail"] = 4
  BY <1>2, <1>3, <1>4 DEF Present
<1>6. ASSUME NEW x \in Present(list), 2 < list[x]
      PROVE  4 <= list[x]
  <2>1. x \in Steps /\ list[x] = Position[x] /\ Position[x] \in 1 .. 15
    BY <1>3, <1>6, PositionType DEF Present
  <2>2. x # "EnterPasswordAndMigrateUser"
    BY <1>2, <1>4, <1>6 DEF Chosen, FactorRows
  <2>3. list[x] # 3
    BY <1>4, <2>1, <2>2, PositionInjective
  <2>4. QED
    BY <1>6, <2>1, <2>3
<1>7. QED
  BY <1>4, <1>5, <1>6 DEF IsNext, Present

LEMMA PersistPass ==
    ASSUME IInv, OrderInv, PassInv, TypeOK', NEW r \in Requests, PersistStep(r),
           NEW t, t = req[r].session, NEW st, st = req[r].step
    PROVE  PassInv'
<1>1. /\ req[r].phase = "persist"
      /\ UNCHANGED <<rows, users, mfa, session, verified, reset, disturbed, halted>>
      /\ done' = [done EXCEPT ![t] = IF rows[t][st] # 0 THEN @ \cup {st} ELSE @]
      /\ emailToken' = IF st = "EnterPassword" /\ IsNext(req[r].list, st, "ValidateEmail")
                       THEN emailToken \cup {t} ELSE emailToken
  BY DEF PersistStep, history, outcome
<1>2. TypeOK /\ t \in Sessions /\ Active(r, t)
  BY <1>1, ActiveSession
<1>3. OthersSame(r)
  BY <1>2, NextStep
<1>4. /\ session[t].kind # "none" /\ Chosen(t) /\ Configured(t)
      /\ t \notin disturbed \cup reset => Lists(t)
      /\ t \notin disturbed \cup halted \cup reset /\ OnlyLogin(t) =>
             Account(t) /\ Mail(t) /\ Secret(t)
  BY <1>2, PassHere
<1>5. \/ req'[r].phase = "idle"
      \/ /\ req'[r].phase \in {"approve", "code", "sign"} /\ req'[r].session = t
         /\ \E next \in Redirects : IsNext(req[r].list, st, next)
  <2>1. ASSUME NEW next \in Redirects, IsNext(req[r].list, st, next),
               Become(r, [req[r] EXCEPT !.user = NoUser,
                      !.phase = CompletionPhase(next, req[r].device)])
        PROVE  req'[r].phase \in {"approve", "code", "sign"} /\ req'[r].session = t
    <3> DEFINE phase == CompletionPhase(next, req[r].device)
    <3>1. phase \in {"approve", "code", "sign"}
      BY DEF CompletionPhase
    <3> HIDE DEF phase
    <3>2. req'[r] = [req[r] EXCEPT !.user = NoUser, !.phase = phase]
      BY <1>2, <2>1, BecomeOthers DEF phase
    <3>3. QED
      BY <1>2, <3>1, <3>2, OwnerType DEF ReqStates
  <2>2. Finish(r) => req'[r].phase = "idle"
    BY <1>2, FinishHolder
  <2>3. QED
    BY <2>1, <2>2 DEF PersistStep
<1>6. /\ \A s \in Sessions \ {t} : done'[s] = done[s]
      /\ done'[t] = IF rows[t][st] # 0 THEN done[t] \cup {st} ELSE done[t]
  BY <1>1, <1>2 DEF TypeOK
<1>7. Configured(t)'
  BY <1>1, <1>4 DEF Configured
<1>8. ASSUME t \notin disturbed' \cup reset'
      PROVE  Lists(t)'
  <2>1. Lists(t) /\ FactorRows(rows[t])' = FactorRows(rows[t])
    BY <1>1, <1>4, <1>8 DEF FactorRows, Present
  <2>2. req'[r].phase \in Ending => Over(t)'
    <3>1. CASE req'[r].phase = "idle"
      BY <3>1 DEF Ending, Completing
    <3>2. CASE \E next \in Redirects : IsNext(req[r].list, st, next)
      <4>1. FactorRows(rows[t]) \subseteq done[t] \cup {st}
        BY <1>1, <1>2, <1>8, <2>1, <3>2, LastFactor
      <4>2. st \in FactorRows(rows[t]) => st \in done'[t]
        BY <1>6 DEF FactorRows, Present
      <4>3. QED
        BY <1>6, <2>1, <4>1, <4>2 DEF Over
    <3>3. QED
      BY <1>5, <3>1, <3>2
  <2>3. done[t] \subseteq done'[t]
    BY <1>6
  <2>4. QED
    BY <1>1, <1>2, <1>3, <1>5, <2>1, <2>2, <2>3, ListsStep DEF Stepping, Deleting
<1>9. ASSUME t \notin disturbed' \cup halted' \cup reset', OnlyLogin(t)
      PROVE  Account(t)' /\ Mail(t)' /\ Secret(t)'
  <2>1. Account(t) /\ Mail(t) /\ Secret(t) /\ Lists(t)
    BY <1>1, <1>4, <1>9
  <2>2. Account(t)'
    BY <1>1, <1>2, <1>3, <1>5, <2>1, AccountStep DEF Holding
  <2>3. Mail(t)'
    <3>1. CASE st = "EnterPassword"
      <4>1. ASSUME "ValidateEmail" \in Present(rows[t])
            PROVE  t \in emailToken'
        BY <1>1, <1>2, <1>4, <1>9, <2>1, <3>1, <4>1, MailFollows
      <4>2. QED
        BY <1>1, <4>1 DEF Mail, Present
    <3>2. CASE st # "EnterPassword"
      <4>1. "EnterPassword" \in done'[t] => "EnterPassword" \in done[t]
        BY <1>6, <3>2
      <4>2. "ValidateEmail" \in Present(rows'[t]) \ done'[t] =>
                "ValidateEmail" \in Present(rows[t]) \ done[t] /\ st # "ValidateEmail"
        BY <1>1, <1>6 DEF Present
      <4>3. QED
        BY <1>1, <1>2, <1>3, <2>1, <4>1, <4>2, MailStep
    <3>3. QED
      BY <3>1, <3>2
  <2>4. Secret(t)'
    <3>1. "ConfigureTotp" \in Present(rows'[t]) \ done'[t] =>
              "ConfigureTotp" \in Present(rows[t]) \ done[t] /\ st # "ConfigureTotp"
      BY <1>1, <1>6 DEF Present
    <3>2. QED
      BY <1>1, <1>2, <1>3, <2>1, <3>1, SecretStep
  <2>5. QED
    BY <2>2, <2>3, <2>4
<1>10. QED
  BY <1>1, <1>2, <1>3, <1>5, <1>6, <1>7, <1>8, <1>9, PassStep

(* The last row is none of the factors.                                    *)
LEMMA DuressPass ==
    ASSUME IInv, PassInv, TypeOK', NEW r \in Requests,
           AuthenticateUserUnderDuress(r) \/ InsertDuressEvent(r),
           NEW t, t = req[r].session, NEW event, event = "SendSecurityEventDuressLogon"
    PROVE  PassInv'
<1>1. /\ req[r].phase \in {"check", "duress"}
      /\ UNCHANGED <<users, mfa, emailToken, session, reset, disturbed, halted>>
      /\ req[r].phase = "check" => req[r].step = "EnterPassword"
      /\ verified' = verified \/ (Verified(r) /\ req[r].step = "EnterPassword")
  <2>1. CASE AuthenticateUserUnderDuress(r)
    BY <2>1 DEF AuthenticateUserUnderDuress, Checking, people, outcome
  <2>2. CASE InsertDuressEvent(r)
    BY <2>2 DEF InsertDuressEvent, people, history, outcome
  <2>3. QED
    BY <2>1, <2>2
<1>2. /\ TypeOK /\ t \in Sessions /\ Active(r, t) /\ req[r].list \in Orders
      /\ event \in Steps /\ event \notin Factors /\ SecurityEvents \cap Factors = {}
  BY <1>1, ActiveSession, OwnerType, DuressIsLast DEF SecurityEvents, Factors
<1>3. /\ session[t].kind # "none" /\ Configured(t)
      /\ t \notin disturbed \cup reset => Lists(t)
      /\ t \notin disturbed \cup halted \cup reset /\ OnlyLogin(t) =>
             Account(t) /\ Mail(t) /\ Secret(t)
  BY <1>2, PassHere
<1>4. /\ OthersSame(r)
      /\ \/ req'[r].phase = "idle"
         \/ /\ req'[r].phase \in {"persist", "duress"} /\ req'[r].session = t
            /\ \A x \in Factors : req'[r].list[x] = req[r].list[x]
  <2>1. CASE Finish(r)
    BY <1>2, <2>1, BecomeOthers, FinishHolder DEF Finish
  <2>2. CASE Goto(r, "persist")
    BY <1>2, <2>2, GotoState
  <2>3. ASSUME NEW last \in SecurityEvents \ {event},
               Become(r, [req[r] EXCEPT !.phase = "duress",
                   !.list = [req[r].list EXCEPT ![last] = 0,
                       ![event] = req[r].list[last] - Position[last] + Position[event]]])
        PROVE  /\ OthersSame(r) /\ req'[r].phase = "duress" /\ req'[r].session = t
               /\ \A x \in Factors : req'[r].list[x] = req[r].list[x]
    <3> DEFINE new == [req[r].list EXCEPT ![last] = 0,
                           ![event] = req[r].list[last] - Position[last] + Position[event]]
    <3>1. \A x \in Factors : new[x] = req[r].list[x]
      BY <1>2, PositionType DEF Orders
    <3> HIDE DEF new
    <3>2. OthersSame(r) /\ req'[r] = [req[r] EXCEPT !.phase = "duress", !.list = new]
      BY <1>2, <2>3, BecomeOthers DEF new
    <3>3. QED
      BY <1>2, <3>1, <3>2, OwnerType DEF ReqStates
  <2>4. QED
    BY <2>1, <2>2, <2>3 DEF AuthenticateUserUnderDuress, InsertDuressEvent
<1>5. /\ \A s \in Sessions \ {t} : rows'[s] = rows[s] /\ done'[s] = done[s]
      /\ \A x \in Factors : rows'[t][x] = rows[t][x] /\ (x \in done'[t] <=> x \in done[t])
  <2>1. rows \in [Sessions -> [Steps -> Nat]] /\ done \in [Sessions -> SUBSET Steps]
        /\ Factors \subseteq Steps
    BY <1>2, PositionType DEF TypeOK, Orders
  <2>2. CASE UNCHANGED <<rows, done>>
    BY <2>2
  <2>3. ASSUME NEW last \in Steps \ Factors, done' = [done EXCEPT ![t] = @ \ {last}],
               rows' = [rows EXCEPT ![t][last] = 0]
        PROVE  /\ \A s \in Sessions \ {t} : rows'[s] = rows[s] /\ done'[s] = done[s]
               /\ \A x \in Factors : rows'[t][x] = rows[t][x] /\ (x \in done'[t] <=> x \in done[t])
    BY <1>2, <2>1, <2>3
  <2>4. CASE rows' = [rows EXCEPT ![t][event] = req[r].list[event]] /\ UNCHANGED done
    BY <1>2, <2>1, <2>4
  <2>5. SecurityEvents \subseteq Steps \ Factors
    BY <1>2, PositionType
  <2>6. QED
    BY <2>2, <2>3, <2>4, <2>5 DEF AuthenticateUserUnderDuress, InsertDuressEvent
<1>6. /\ \A s \in Sessions \ {t} : verified'[s] = verified[s]
      /\ verified'[t] \subseteq verified[t] \cup {"EnterPassword"}
  BY <1>1, <1>2 DEF Verified, TypeOK
<1>7. Configured(t)'
  BY <1>1, <1>3, <1>6 DEF Configured
<1>8. FactorRows(rows[t])' = FactorRows(rows[t])
  BY <1>5, PositionType DEF FactorRows, Present
<1>9. ASSUME t \notin disturbed' \cup reset'
      PROVE  Lists(t)'
  <2>1. req'[r].phase \in Stepping => FactorRows(req[r].list)' = FactorRows(req[r].list)
    BY <1>4, PositionType DEF FactorRows, Present, Stepping
  <2>2. \A x \in done[t] : x \in done'[t] \/ x \notin FactorRows(rows[t])'
    BY <1>5, <1>8 DEF FactorRows
  <2>3. Lists(t)
    BY <1>1, <1>3, <1>9
  <2>4. QED
    BY <1>1, <1>2, <1>4, <1>8, <2>1, <2>2, <2>3, ListsStep
       DEF Ending, Completing, Deleting, Stepping
<1>10. ASSUME t \notin disturbed' \cup halted' \cup reset', OnlyLogin(t)
       PROVE  Account(t)' /\ Mail(t)' /\ Secret(t)'
  <2>1. Account(t) /\ Mail(t) /\ Secret(t)
    BY <1>1, <1>3, <1>10
  <2>2. Account(t)'
    BY <1>1, <1>2, <1>4, <2>1, AccountStep DEF Holding
  <2>3. {"EnterPassword", "ValidateEmail", "ConfigureTotp"} \subseteq Factors
    BY FactorNames
  <2>4. Mail(t)'
    BY <1>1, <1>2, <1>4, <1>5, <2>1, <2>3, MailStep DEF Present
  <2>5. Secret(t)'
    BY <1>1, <1>2, <1>4, <1>5, <2>1, <2>3, SecretStep DEF Present
  <2>6. QED
    BY <2>2, <2>4, <2>5
<1>11. QED
  BY <1>1, <1>2, <1>4, <1>5, <1>6, <1>7, <1>9, <1>10, PassStep

(* A row is deleted.                                                       *)
LEMMA DeletionPass ==
    ASSUME IInv, PassInv, TypeOK', NEW r \in Requests, DeleteUserAuthenticationState(r),
           NEW t, t = req[r].session
    PROVE  PassInv'
<1> PICK st \in Steps :
        /\ rows' = [rows EXCEPT ![t][st] = 0]
        /\ done' = [done EXCEPT ![t] = @ \ {st}]
        /\ Become(r, [req[r] EXCEPT !.todo = @ \ {st}])
  BY DEF DeleteUserAuthenticationState
<1>1. /\ req[r].phase \in {"cleanup", "replace", "expire", "cancel"}
      /\ UNCHANGED <<users, mfa, emailToken, session, verified, reset, disturbed, halted>>
  BY DEF DeleteUserAuthenticationState, people, history, outcome
<1>2. TypeOK /\ t \in Sessions /\ Active(r, t)
  BY <1>1, ActiveSession
<1>3. /\ session[t].kind # "none" /\ Configured(t)
      /\ t \notin disturbed \cup reset => Lists(t)
      /\ t \notin disturbed \cup halted \cup reset /\ OnlyLogin(t) =>
             Account(t) /\ Mail(t) /\ Secret(t)
  BY <1>2, PassHere
<1>4. OthersSame(r) /\ req'[r].phase = req[r].phase /\ req'[r].session = t
  <2>1. OthersSame(r) /\ req'[r] = [req[r] EXCEPT !.todo = @ \ {st}]
    BY <1>2, BecomeOthers
  <2>2. QED
    BY <1>2, <2>1, OwnerType DEF ReqStates
<1>5. /\ \A s \in Sessions \ {t} : rows'[s] = rows[s] /\ done'[s] = done[s]
      /\ rows'[t] = [rows[t] EXCEPT ![st] = 0] /\ done'[t] = done[t] \ {st}
      /\ rows[t] \in [Steps -> Nat]
  <2>1. DOMAIN rows = Sessions /\ DOMAIN done = Sessions /\ rows[t] \in [Steps -> Nat]
    BY <1>2 DEF TypeOK, Orders
  <2>2. QED
    BY <1>2, <2>1
<1>6. Present(rows'[t]) = Present(rows[t]) \ {st}
  BY <1>5 DEF Present
<1>7. Configured(t)'
  BY <1>1, <1>3 DEF Configured
<1>8. ASSUME t \notin disturbed' \cup reset'
      PROVE  Lists(t)'
  <2>1. Lists(t) /\ FactorRows(rows[t])' = FactorRows(rows[t]) \ {st}
    BY <1>1, <1>3, <1>6, <1>8 DEF FactorRows, Present
  <2>2. \A x \in done[t] : x \in done'[t] \/ x \notin FactorRows(rows[t])'
    BY <1>5, <2>1
  <2>3. req[r].phase = "cleanup" => Over(t)'
    BY <1>2, <1>5, <2>1 DEF Lists, Over, Ending
  <2>4. req[r].phase # "cleanup" => Active(r, t)' /\ req'[r].phase \in Deleting
    BY <1>1, <1>4 DEF Active, Deleting
  <2>5. QED
    BY <1>1, <1>2, <1>4, <2>1, <2>2, <2>3, <2>4, ListsStep DEF Stepping
<1>9. ASSUME t \notin disturbed' \cup halted' \cup reset', OnlyLogin(t)
      PROVE  Account(t)' /\ Mail(t)' /\ Secret(t)'
  <2>1. Account(t) /\ Mail(t) /\ Secret(t)
    BY <1>1, <1>3, <1>9
  <2>2. Account(t)'
    BY <1>1, <1>2, <1>4, <2>1, AccountStep DEF Holding
  <2>3. \A x \in Present(rows'[t]) \ done'[t] : x \in Present(rows[t]) \ done[t]
    BY <1>5, <1>6
  <2>4. Mail(t)'
    BY <1>1, <1>2, <1>4, <1>5, <2>1, <2>3, MailStep
  <2>5. Secret(t)'
    BY <1>1, <1>2, <1>4, <2>1, <2>3, SecretStep
  <2>6. QED
    BY <2>2, <2>4, <2>5
<1>10. QED
  BY <1>1, <1>2, <1>4, <1>5, <1>7, <1>8, <1>9, PassStep

(* A login started anew by "forgot password" is out of the question.       *)
LEMMA InsertPass ==
    ASSUME IInv, PassInv, TypeOK', NEW r \in Requests, InsertNewStates(r),
           NEW t, t = req[r].session
    PROVE  PassInv'
<1>1. /\ req[r].phase = "insert" /\ Finish(r) /\ reset' = reset \cup {t}
      /\ UNCHANGED <<users, mfa, emailToken, session, verified, disturbed, halted>>
  BY DEF InsertNewStates, people, outcome
<1>2. TypeOK /\ t \in Sessions /\ Active(r, t)
  BY <1>1, ActiveSession
<1>3. Configured(t)'
  BY <1>1, <1>2, PassHere DEF Configured
<1>4. OthersSame(r) /\ req'[r].phase = "idle"
  BY <1>1, <1>2, BecomeOthers, FinishHolder DEF Finish
<1>5. \A s \in Sessions \ {t} : rows'[s] = rows[s] /\ done'[s] = done[s]
  BY <1>2 DEF InsertNewStates, TypeOK
<1>6. QED
  BY <1>1, <1>2, <1>3, <1>4, <1>5, PassStep
-----------------------------------------------------------------------------
(* The other steps.                                                        *)

(* A request begins with the rows as they are.                             *)
LEMMA BeginPass ==
    ASSUME IInv, PassInv, TypeOK', NEW r \in Requests, NEW t \in Sessions, NEW st \in Steps,
           NEW phase \in {"readUser", "expire", "forgot", "cancelRead"}, Begin(r, t, st, phase)
    PROVE  PassInv'
<1> DEFINE todo == IF phase \in TearingDown THEN Present(rows[t]) ELSE {}
           carries == t \in deviceRows
           state == [Idle EXCEPT !.phase = phase, !.session = t, !.step = st,
                         !.list = rows[t], !.todo = todo, !.device = carries]
<1>1. /\ TypeOK /\ req[r].phase = "idle"
      /\ UNCHANGED <<rows, done, users, mfa, emailToken, session, verified, reset, halted>>
      /\ disturbed \subseteq disturbed'
  BY DEF Begin, Disturb, IInv, store, people, history, outcome
<1>2. OthersSame(r) /\ req'[r] = state
  BY <1>1, BecomeOthers DEF Begin
<1>3. /\ req'[r].phase = phase /\ req'[r].session = t /\ req'[r].list = rows[t]
  <2> HIDE DEF todo, carries
  <2>1. QED
    BY <1>2 DEF Idle
<1>4. ASSUME NEW s \in Sessions, NEW q \in Requests
      PROVE  /\ Active(q, s) => q # r /\ Active(q, s)' /\ req'[q] = req[q]
             /\ Active(q, s)' => (q = r /\ s = t) \/ (Active(q, s) /\ q # r)
  BY <1>1, <1>2, <1>3 DEF OthersSame, Active
<1>5. ASSUME NEW s \in Sessions
      PROVE  Settled(s)'
  BY <1>1 DEF PassInv, Settled, Chosen, Configured
<1>6. ASSUME NEW s \in Sessions \ (disturbed' \cup reset')
      PROVE  Lists(s)'
  <2>1. Lists(s)
    BY <1>1, <1>6 DEF PassInv
  <2>2. /\ FactorRows(rows[s])' = FactorRows(rows[s])
        /\ Whole(s) => Whole(s)'
        /\ Over(s) => Over(s)'
    BY <1>1 DEF FactorRows, Present, Whole, Over
  <2>3. ASSUME NEW q \in Requests, Active(q, s)'
        PROVE  /\ req'[q].phase \in Ending => Over(s)'
               /\ req'[q].phase \in Stepping =>
                      FactorRows(req[q].list)' \subseteq session'[s].required
    <3>1. CASE q = r
      <4>1. s = t
        BY <1>4, <2>3, <3>1
      <4>2. FactorRows(req[r].list)' = FactorRows(rows[s])
        BY <1>3, <4>1 DEF FactorRows, Present
      <4>3. QED
        BY <1>1, <1>3, <2>1, <3>1, <4>2 DEF Lists, Ending, Completing
    <3>2. CASE q # r
      <4>1. Active(q, s) /\ req'[q] = req[q]
        BY <1>4, <2>3, <3>2
      <4>2. FactorRows(req[q].list)' = FactorRows(req[q].list)
        BY <4>1 DEF FactorRows, Present
      <4>3. QED
        BY <1>1, <2>1, <2>2, <4>1, <4>2 DEF Lists
    <3>3. QED
      BY <3>1, <3>2
  <2>4. QED
    BY <1>1, <1>4, <2>1, <2>2, <2>3 DEF Lists
<1>7. ASSUME NEW s \in Sessions \ (disturbed' \cup halted' \cup reset'),
             session'[s].kind # "none", OnlyLogin(s)'
      PROVE  Account(s)' /\ Mail(s)' /\ Secret(s)'
  <2>1. Account(s) /\ Mail(s) /\ Secret(s)
    BY <1>1, <1>7 DEF PassInv, OnlyLogin
  <2>2. Account(s)'
    BY <1>1, <1>3, <1>4, <2>1 DEF Account, Holding
  <2>3. \A x, phases : At(s, x, phases) => At(s, x, phases)'
    BY <1>4 DEF At
  <2>4. QED
    BY <1>1, <2>1, <2>2, <2>3 DEF Mail, Secret, Present
<1>8. QED
  BY <1>5, <1>6, <1>7 DEF PassInv

LEMMA SubmitPass ==
    ASSUME IInv, PassInv, TypeOK', NEW r \in Requests, NEW s \in Sessions, Submit(r, s)
    PROVE  PassInv'
<1>1. "EnterPassword" \in Steps /\ Factors \subseteq Steps
  BY DuressIsLast, PositionType
<1>2. CASE \E st \in Factors : ValidateAuthenticationStep(r, s, st)
  BY <1>1, <1>2, BeginPass DEF ValidateAuthenticationStep
<1>3. CASE \E st \in Factors : ValidateExpiredStep(r, s, st)
  BY <1>1, <1>3, BeginPass DEF ValidateExpiredStep
<1>4. CASE BeginForgotPassword(r, s) \/ BeginCancel(r, s)
  BY <1>1, <1>4, BeginPass DEF BeginForgotPassword, BeginCancel
<1>5. QED
  BY <1>2, <1>3, <1>4 DEF Submit

(* The steps are chosen so that they can be passed.                        *)
LEMMA HandleUserNameInputPass ==
    ASSUME IInv, OrderInv, PassInv, TypeOK', NEW t \in Sessions, NEW u \in Users,
           NEW kind \in Kinds, NEW p \in PreAuths, NEW overdue \in Rotates,
           HandleUserNameInput(t, u, kind, p, overdue)
    PROVE  PassInv'
<1> DEFINE factors == {st \in Factors : NeedsFactor(st, u, kind, overdue)}
           list == factors \cup {st \in Steps : EndsWith(st, kind)}
           stored == [st \in Steps |-> IF st \in list THEN Position[st] ELSE 0]
           record == [kind |-> kind, owner |-> u, pre |-> p, required |-> factors]
<1>1. /\ TypeOK /\ session[t].kind = "none" /\ kind # "none"
      /\ UNCHANGED <<done, mfa, emailToken, req, verified, reset, disturbed, halted>>
      /\ IF users[u].exists THEN KnownUser(u) ELSE u \in LegacyUsers
      /\ rows' = [rows EXCEPT ![t] = stored]
      /\ session' = [session EXCEPT ![t] = record]
  BY ConstantsOk DEF HandleUserNameInput, IInv, outcome, ConstantsOk, LoginKinds
<1>2. /\ \A q \in Requests : ~Active(q, t)
      /\ done[t] = {} /\ verified[t] = {}
  BY <1>1 DEF IInv, Unused, OrderInv, PassInv, Settled
<1>3. /\ \A s \in Sessions \ {t} : rows'[s] = rows[s] /\ session'[s] = session[s]
      /\ rows'[t] = stored /\ session'[t].kind = kind /\ session'[t].owner = u
      /\ session'[t].required = factors
  <2> HIDE DEF factors, stored
  <2>1. QED
    BY <1>1 DEF TypeOK
<1>4. /\ \A x \in Users \ {u} : users'[x] = users[x]
      /\ users[u].exists => users' = users
  BY <1>1 DEF HandleUserNameInput, TypeOK
<1>5. FactorRows(rows[t])' = factors
  <2>1. stored \in [Steps -> Nat] /\ \A st \in Steps : stored[st] # 0 <=> st \in list
    BY PositionType
  <2>2. \A st \in Factors : st \in Steps /\ ~EndsWith(st, kind)
    BY PositionType DEF Factors, Redirects, SecurityEvents, EndsWith
  <2>3. \A st \in Factors : st \in list <=> st \in factors
    BY <2>2
  <2> HIDE DEF stored, list
  <2>4. QED
    BY <1>3, <2>1, <2>2, <2>3 DEF FactorRows, Present
<1>6. /\ "ValidatePasswordResetToken" \notin factors
      /\ "EnterPassword" \in factors => users[u].exists
      /\ "EnterPasswordAndMigrateUser" \in factors => ~users[u].exists
      /\ "ValidateEmail" \in factors => "EnterPassword" \in factors
      /\ "ConfigureTotp" \in factors => "TOTP" \notin mfa[u]
      /\ "ValidateTotp" \in factors => "ConfigureTotp" \in factors \/ "TOTP" \in mfa[u]
      /\ "ValidateSecurityKey" \in factors =>
             "ConfigureSecurityKey" \in factors \/ "FIDO2" \in mfa[u]
  BY FactorNames DEF NeedsFactor, MustConfigure, MustValidate
<1> HIDE DEF factors, stored, record
<1>7. ASSUME NEW s \in Sessions
      PROVE  Settled(s)'
  <2>1. CASE s # t
    BY <1>1, <1>3, <2>1 DEF PassInv, Settled, Chosen, Configured
  <2>2. CASE s = t
    BY <1>1, <1>2, <1>3, <1>6, <2>2 DEF Settled, Chosen, Configured
  <2>3. QED
    BY <2>1, <2>2
<1>8. ASSUME NEW s \in Sessions \ (disturbed' \cup reset')
      PROVE  Lists(s)'
  <2>1. CASE s # t
    BY <1>1, <1>3, <1>8, <2>1 DEF PassInv, Lists, Whole, Over, FactorRows, Present, Active
  <2>2. CASE s = t
    BY <1>1, <1>2, <1>3, <1>5, <2>2 DEF Lists, Whole, Active
  <2>3. QED
    BY <2>1, <2>2
<1>9. ASSUME NEW s \in Sessions \ (disturbed' \cup halted' \cup reset'),
             session'[s].kind # "none", OnlyLogin(s)'
      PROVE  Account(s)' /\ Mail(s)' /\ Secret(s)'
  <2>1. CASE s # t
    <3>1. session[s].owner # u /\ session[s].owner \in Users
      BY <1>1, <1>3, <1>9, <2>1 DEF OnlyLogin, TypeOK, SessionRows
    <3>2. OnlyLogin(s)
      BY <1>1, <1>3, <1>9, <2>1 DEF OnlyLogin
    <3>3. Account(s) /\ Mail(s) /\ Secret(s)
      BY <1>1, <1>3, <1>9, <2>1, <3>2 DEF PassInv
    <3>4. \A x, phases : At(s, x, phases) => At(s, x, phases)'
      BY <1>1 DEF At, Active
    <3>5. users'[session[s].owner] = users[session[s].owner]
      BY <1>4, <3>1
    <3>6. Account(s)'
      BY <1>1, <1>3, <2>1, <3>3, <3>5 DEF Account, Active
    <3>7. QED
      BY <1>1, <1>3, <2>1, <3>3, <3>4, <3>6 DEF Mail, Secret, Present
  <2>2. CASE s = t
    <3>1. Account(t)'
      BY <1>1, <1>2, <1>3, <1>4, <1>6 DEF Account, Active, Sound, KnownUser
    <3>2. Mail(t)'
      BY <1>1, <1>2 DEF Mail
    <3>3. Secret(t)'
      <4>1. ASSUME "ConfigureTotp" \in Present(rows'[t])
            PROVE  "TOTP" \notin mfa'[session'[t].owner]
        <5>1. "ConfigureTotp" \in FactorRows(rows[t])'
          BY <4>1, FactorNames DEF FactorRows, Present
        <5>2. QED
          BY <1>1, <1>3, <1>5, <1>6, <5>1
      <4>2. QED
        BY <4>1 DEF Secret, Present
    <3>4. QED
      BY <2>2, <3>1, <3>2, <3>3
  <2>3. QED
    BY <2>1, <2>2
<1>10. QED
  BY <1>7, <1>8, <1>9 DEF PassInv

(* Time and other people: rows may go, accounts stay enabled.              *)
LEMMA EnvironmentPass ==
    ASSUME IInv, PassInv,
           UNCHANGED <<mfa, emailToken, req, session, verified, reset, disturbed, halted>>,
           \A s \in Sessions :
               \/ rows'[s] = rows[s] /\ done'[s] = done[s]
               \/ Present(rows'[s]) = {} /\ done'[s] = {},
           \A u \in Users : Sound(users[u]) => Sound(users'[u])
    PROVE  PassInv'
<1>1. TypeOK /\ \A s \in Sessions : session[s].owner \in Users
  BY DEF IInv, TypeOK, SessionRows
<1>2. \A s \in Sessions, q \in Requests : Active(q, s)' <=> Active(q, s)
  BY DEF Active
<1>3. \A s \in Sessions : Settled(s)'
  BY DEF PassInv, Settled, Chosen, Configured
<1>4. ASSUME NEW s \in Sessions \ (disturbed' \cup reset')
      PROVE  Lists(s)'
  <2>1. Lists(s)
    BY <1>4 DEF PassInv
  <2>2. CASE rows'[s] = rows[s] /\ done'[s] = done[s]
    BY <1>2, <2>1, <2>2 DEF Lists, Whole, Over, FactorRows, Present
  <2>3. CASE Present(rows'[s]) = {} /\ done'[s] = {}
    <3>1. FactorRows(rows[s])' = {} /\ Over(s)'
      BY <2>3 DEF FactorRows, Present, Over
    <3>2. \A q \in Requests : FactorRows(req[q].list)' = FactorRows(req[q].list)
      BY DEF FactorRows, Present
    <3>3. QED
      BY <1>2, <2>1, <3>1, <3>2 DEF Lists
  <2>4. QED
    BY <2>2, <2>3
<1>5. ASSUME NEW s \in Sessions \ (disturbed' \cup halted' \cup reset'),
             session'[s].kind # "none", OnlyLogin(s)'
      PROVE  Account(s)' /\ Mail(s)' /\ Secret(s)'
  <2>1. Account(s) /\ Mail(s) /\ Secret(s)
    BY <1>5 DEF PassInv, OnlyLogin
  <2>2. Account(s)'
    BY <1>1, <1>2, <2>1 DEF Account
  <2>3. \A x, phases : At(s, x, phases) => At(s, x, phases)'
    BY <1>2 DEF At
  <2>4. \A x \in Present(rows'[s]) : /\ x \in Present(rows[s])
                                     /\ x \in done'[s] <=> x \in done[s]
                                     /\ done'[s] = done[s]
    BY DEF Present
  <2>5. Mail(s)' /\ Secret(s)'
    BY <2>1, <2>3, <2>4 DEF Mail, Secret, Present
  <2>6. QED
    BY <2>2, <2>5
<1>6. QED
  BY <1>3, <1>4, <1>5 DEF PassInv

LEMMA ContinuePass ==
    ASSUME IInv, OrderInv, PassInv, TypeOK', NEW r \in Requests, Continue(r) \/ Abort(r)
    PROVE  PassInv'
<1>1. CASE Check(r)
  BY <1>1, AttemptPass, HandlersPass, VerifyEmailPass, ConfigurePass, DuressPass DEF Check
<1>2. CASE ReadUser(r) \/ WriteUser(r) \/ InsertDuressEvent(r) \/ PersistStep(r)
  BY <1>2, ReadUserPass, WriteUserPass, DuressPass, PersistPass
<1>3. CASE \/ Complete(r) \/ RowsDeleted(r) \/ SavePasswordResetToken(r)
           \/ CancelDevice(r) \/ CancelDone(r) \/ Abort(r)
  BY <1>3, EndsPass
<1>4. CASE DeleteUserAuthenticationState(r) \/ InsertNewStates(r)
  BY <1>4, DeletionPass, InsertPass
<1>5. CASE DeleteCancelledPreAuth(r)
  <2>1. UNCHANGED <<rows, done, users, mfa, emailToken, req, session, verified, reset,
                    disturbed, halted>>
    BY <1>5 DEF DeleteCancelledPreAuth, store, people, history, outcome
  <2>2. QED
    BY <2>1, EnvironmentPass
<1>6. QED
  BY <1>1, <1>2, <1>3, <1>4, <1>5 DEF Continue

LEMMA PassNext == IInv /\ OrderInv /\ PassInv /\ [Next]_vars => PassInv'
<1> SUFFICES ASSUME IInv, OrderInv, PassInv, [Next]_vars PROVE PassInv'
  OBVIOUS
<1>0. TypeOK /\ TypeOK'
  BY NextType DEF IInv
<1>1. ASSUME NEW s \in Sessions, NEW u \in Users, NEW kind \in Kinds,
             NEW p \in PreAuths, NEW overdue \in Rotates,
             HandleUserNameInput(s, u, kind, p, overdue)
      PROVE  PassInv'
  BY <1>0, <1>1, HandleUserNameInputPass
<1>2. ASSUME NEW r \in Requests, NEW s \in Sessions, Submit(r, s)
      PROVE  PassInv'
  BY <1>0, <1>2, SubmitPass
<1>3. ASSUME NEW r \in Requests, Continue(r) \/ Abort(r)
      PROVE  PassInv'
  BY <1>0, <1>3, ContinuePass
<1>4. ASSUME \/ \E s \in Sessions : Expire(s) \/ ExpireResetToken(s)
             \/ \E p \in PreAuths : ExpirePreAuth(p)
             \/ UNCHANGED vars
      PROVE  PassInv'
  <2>1. UNCHANGED <<rows, done, users, mfa, emailToken, req, session, verified, reset,
                    disturbed, halted>>
    BY <1>4 DEF Expire, ExpireResetToken, ExpirePreAuth, vars, store, people, history,
                outcome
  <2>2. QED
    BY <2>1, EnvironmentPass
<1>5. ASSUME NEW u \in Users, UnlockUser(u)
      PROVE  PassInv'
  <2>1. /\ UNCHANGED <<rows, done, mfa, emailToken, req, session, verified, reset,
                       disturbed, halted>>
        /\ users' = [users EXCEPT ![u].locked = FALSE]
    BY <1>5 DEF UnlockUser, store, history, outcome
  <2>2. \A x \in Users : Sound(users[x]) => Sound(users'[x])
    BY <1>0, <2>1 DEF TypeOK, UserRows, Sound
  <2>3. QED
    BY <2>1, <2>2, EnvironmentPass
<1>6. CASE DeleteExpiredData
  <2>1. /\ UNCHANGED <<users, mfa, emailToken, req, session, verified, reset,
                       disturbed, halted>>
        /\ rows' = [s \in Sessions |-> IF s \in expired THEN NoRows ELSE rows[s]]
        /\ done' = [s \in Sessions |-> IF s \in expired THEN {} ELSE done[s]]
    BY <1>6 DEF DeleteExpiredData, people, history, outcome
  <2>2. Present(NoRows) = {}
    BY DEF Present, NoRows
  <2>3. QED
    BY <2>1, <2>2, EnvironmentPass
<1>7. QED
  BY <1>1, <1>2, <1>3, <1>4, <1>5, <1>6 DEF Next

(* Whatever the tenant requires and whatever requests do at the same time, *)
(* a login that nobody restarted, took apart or broke off in the middle of *)
(* a check always has a next step which its user can pass.                 *)
THEOREM NeverStuck == Spec => []NoDeadEnd
<1>1. Init => IInv /\ OrderInv /\ PassInv
  <2> SUFFICES ASSUME Init PROVE OrderInv /\ PassInv
    BY InitInv
  <2>1. \A s \in Sessions : /\ done[s] = {} /\ rows[s] = NoRows /\ session[s].kind = "none"
                            /\ verified[s] = {} /\ s \notin emailToken
                            /\ \A r \in Requests : ~Active(r, s)
    BY DEF Init, Active, Idle
  <2>2. Present(NoRows) = {}
    BY DEF Present, NoRows
  <2>3. OrderInv
    BY <2>1 DEF OrderInv, InOrder
  <2>4. \A s \in Sessions : FactorRows(rows[s]) = {}
    BY <2>1, <2>2 DEF FactorRows
  <2>5. \A s \in Sessions : Lists(s)
    BY <2>1, <2>4 DEF Lists, Over
  <2>6. QED
    BY <2>1, <2>3, <2>5 DEF PassInv, Settled
<1>2. IInv /\ OrderInv /\ PassInv /\ [Next]_vars => (IInv /\ OrderInv /\ PassInv)'
  BY NextInv, OrderNext, PassNext
<1>3. IInv /\ OrderInv /\ PassInv => NoDeadEnd
  BY NothingStuck
<1>4. QED
  BY <1>1, <1>2, <1>3, PTL DEF Spec

=============================================================================
