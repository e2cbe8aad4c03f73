------------------------ MODULE AuthenticationSession ------------------------
(***************************************************************************)
(* The login state machine of AuthenticateUserService.                     *)
(*                                                                         *)
(* A login is a list of steps, one row of user_authentication_state each,  *)
(* chosen when the user name is entered.  Every GraphQL mutation of the    *)
(* login page is one request: it reads the rows of the session token,      *)
(* checks that its step is reached, checks the factor, marks its own row   *)
(* COMPLETE and, when the next row is a redirect, completes the login.     *)
(* The server keeps nothing between requests and uses no transactions, so  *)
(* requests of several tabs, retries, instances of the server and the      *)
(* clean-up job interleave at every await.                                 *)
(*                                                                         *)
(* An action is the code between two awaits that matter.  A reply which    *)
(* changes nothing in the store is not a step of this module.              *)
(***************************************************************************)
EXTENDS Naturals, FiniteSets

CONSTANTS
    Sessions,       \* authentication session tokens that may be generated
    Requests,       \* requests that may be in flight at the same time
    Users,
    PreAuths,       \* pre-authentication tokens issued by the authorize endpoint
    Kinds,          \* the kinds of login of a run, a subset of LoginKinds
    LegacyUsers,    \* users known to the legacy identity provider only
    DuressUsers,    \* users who configured a duress password
    OfferedMfa,     \* MFA types a user may have enrolled beforehand
    RequiredMfa,    \* mfaTypesRequired of the tenant
    VerifyEmail,    \* verifyEmailOnSelfRegistration of the tenant
    RequireTerms,   \* registrationRequireTermsAndConditions of the tenant
    Rotates,        \* may a password have to be rotated, because it is overdue
                    \* or because an administrator asked for it
    Disruptions     \* what may come between, a subset of AllDisruptions

LoginKinds == {"application", "device", "portal"}
MfaTypes == {"TOTP", "FIDO2"}
AllDisruptions == {"forgot", "cancel", "lock", "abort"}

ASSUME ConstantsOk ==
    /\ Sessions # {} /\ Users # {} /\ PreAuths # {}
    /\ Kinds \subseteq LoginKinds
    /\ LegacyUsers \subseteq Users
    /\ DuressUsers \subseteq Users
    /\ OfferedMfa \subseteq MfaTypes
    /\ RequiredMfa \subseteq MfaTypes
    /\ {VerifyEmail, RequireTerms} \subseteq BOOLEAN
    /\ Disruptions \subseteq AllDisruptions
    /\ Rotates \subseteq BOOLEAN

-----------------------------------------------------------------------------
(* The steps, and the order in which a list of them is built.              *)

Position == [
    ValidatePasswordResetToken |-> 1,
    EnterPassword |-> 2,
    EnterPasswordAndMigrateUser |-> 3,
    ValidateEmail |-> 4,
    ConfigureTotp |-> 5,
    ValidateTotp |-> 6,
    ConfigureSecurityKey |-> 7,
    ValidateSecurityKey |-> 8,
    AcceptTermsAndConditions |-> 9,
    RotatePassword |-> 10,
    RedirectBackToApplication |-> 11,
    RedirectToIamPortal |-> 12,
    SendSecurityEventSuccessLogon |-> 13,
    SendSecurityEventDeviceRegistered |-> 14,
    SendSecurityEventDuressLogon |-> 15]

Steps == DOMAIN Position
Redirects == {"RedirectBackToApplication", "RedirectToIamPortal"}
SecurityEvents == {"SendSecurityEventSuccessLogon",
                   "SendSecurityEventDeviceRegistered",
                   "SendSecurityEventDuressLogon"}
Factors == Steps \ (Redirects \cup SecurityEvents)

(* Handlers that check a secret through validateAuthenticationAttempt.     *)
AttemptSteps == {"EnterPassword", "ValidateTotp", "ValidateSecurityKey"}

(* Handlers that call handleAuthenticationCompletion when the next row is a
   redirect; the others only answer with the next row.                     *)
CompletingSteps == AttemptSteps \cup
    {"EnterPasswordAndMigrateUser", "ValidateEmail",
     "AcceptTermsAndConditions", "RotatePassword"}

(* A stored list is a function from steps to authenticationStateOrder,     *)
(* zero for a step without a row.  A list rewritten by "forgot password"   *)
(* puts one step behind the redirect and one last: these have the greater  *)
(* values.                                                                 *)
Late == 20
Last == 40
Orders == {list \in [Steps -> 0 .. (Last + 15)] :
    \A st \in Steps :
        list[st] \in {0, Position[st], Late + Position[st], Last + Position[st]}}
NoRows == [st \in Steps |-> 0]

Present(list) == {st \in Steps : list[st] # 0}
Earlier(list, st) == {x \in Present(list) : list[x] < list[st]}
IsNext(list, st, next) ==
    /\ next \in Present(list)
    /\ list[st] < list[next]
    /\ \A x \in Present(list) : list[st] < list[x] => list[next] <= list[x]
IsFirst(list, st) == st \in Present(list) /\ Earlier(list, st) = {}
IsLast(list, st) ==
    st \in Present(list) /\ \A x \in Present(list) : list[x] <= list[st]

-----------------------------------------------------------------------------
VARIABLES
    \* the database
    rows,           \* [Sessions -> Orders]: rows of user_authentication_state
    done,           \* [Sessions -> SUBSET Steps]: rows whose status is COMPLETE
    expired,        \* sessions whose rows are past expiresAtMs
    deviceRows,     \* sessions whose rows carry a deviceCodeId
    device,         \* [Sessions -> status of the device code of the session]
    users,          \* [Users -> row of the user table]
    mfa,            \* [Users -> SUBSET MfaTypes]: rows of user_mfa_rel
    accepted,       \* users who accepted the terms of the tenant
    emailToken,     \* sessions whose e-mail confirmation token is outstanding
    resetToken,     \* sessions whose password reset token is outstanding
    preAuth,        \* [PreAuths -> "live" | "expired" | "gone"]
    \* the servers
    req,            \* [Requests -> what the request holds between two awaits]
    \* history
    session,        \* [Sessions -> how the session was started]
    verified,       \* [Sessions -> SUBSET Steps]: steps whose check succeeded
    reset,          \* sessions restarted by "forgot password"
    disturbed,      \* sessions whose list was taken apart under another
                    \* request, or by a request that did not finish
    codeFor,        \* pre-authentication tokens an authorization code exists for
    granted,        \* sessions that obtained a code, a token or a device approval
    halted          \* sessions in which a request died between its check
                    \* and the completion of its row

store == <<rows, done, expired, deviceRows>>
people == <<users, mfa, accepted, emailToken, resetToken>>
history == <<session, verified, reset>>
outcome == <<codeFor, granted, halted>>
vars == <<store, device, people, preAuth, req, history, disturbed, outcome>>

UserRows == [exists : BOOLEAN, active : BOOLEAN, locked : BOOLEAN,
             force : BOOLEAN, emailVerified : BOOLEAN]

NoUser == [exists |-> FALSE, active |-> FALSE, locked |-> FALSE,
           force |-> FALSE, emailVerified |-> FALSE]

(* active stands for enabled /\ ~markForDelete.                            *)
KnownUser(u) == users[u].exists /\ users[u].active /\ ~users[u].locked

(* What a request is about to do.                                          *)
Stepping == {"readUser", "check", "writeUser", "duress", "persist"}
Completing == {"approve", "code", "consume", "save", "sign"}
TearingDown == {"forgot", "replace", "insert", "cancelRead", "cancel", "expire"}
Phases == {"idle", "lockUser", "cleanup"} \cup Stepping \cup Completing
          \cup TearingDown

ReqStates == [
    phase : Phases,
    session : Sessions,
    step : Steps,
    list : Orders,            \* rows read at the start of the request
    todo : SUBSET Steps,      \* rows still to be deleted
    device : BOOLEAN,         \* the rows read carry a deviceCodeId
    locked : BOOLEAN,         \* user.locked of the user object of the handler
    user : UserRows]          \* user object the handler will write back

Idle == [phase |-> "idle", session |-> CHOOSE s \in Sessions : TRUE,
         step |-> "EnterPassword", list |-> NoRows, todo |-> {},
         device |-> FALSE, locked |-> FALSE, user |-> NoUser]

SessionRows == [
    kind : LoginKinds \cup {"none"},
    owner : Users,
    pre : PreAuths,
    required : SUBSET Factors]

Active(r, s) == req[r].phase # "idle" /\ req[r].session = s
OwnerOf(r) == session[req[r].session].owner
PreAuthOf(r) == session[req[r].session].pre
TokensOf(r, tokens) == {t \in tokens : session[t].owner = OwnerOf(r)}
Become(r, state) == req' = [req EXCEPT ![r] = state]
Goto(r, phase) == Become(r, [req[r] EXCEPT !.phase = phase])
StartCleanup(r) ==
    Become(r, [req[r] EXCEPT !.phase = "cleanup", !.todo = Present(req[r].list)])
Finish(r) == Become(r, Idle)

(* The steps a session has to verify before it may be completed: those     *)
(* chosen at the user name step, the password replaced by the e-mailed     *)
(* token when the user forgot it.                                          *)
Required(s) ==
    IF s \in reset
    THEN (session[s].required \ {"EnterPassword"})
             \cup {"ValidatePasswordResetToken"}
    ELSE session[s].required

-----------------------------------------------------------------------------
Init ==
    /\ rows = [s \in Sessions |-> NoRows]
    /\ done = [s \in Sessions |-> {}]
    /\ expired = {}
    /\ deviceRows = {}
    /\ device = [s \in Sessions |-> "Pending"]
    /\ \E force \in Rotates, emailVerified \in {TRUE, ~VerifyEmail} :
           users = [u \in Users |->
               IF u \in LegacyUsers THEN NoUser
               ELSE [exists |-> TRUE, active |-> TRUE, locked |-> FALSE,
                     force |-> force, emailVerified |-> emailVerified]]
    /\ mfa \in {m \in [Users -> SUBSET OfferedMfa] :
                    \A u \in LegacyUsers : m[u] = {}}
    /\ accepted = {}
    /\ emailToken = {}
    /\ resetToken = {}
    /\ preAuth = [p \in PreAuths |-> "live"]
    /\ req = [r \in Requests |-> Idle]
    /\ session = [s \in Sessions |->
           [kind |-> "none", owner |-> CHOOSE u \in Users : TRUE,
            pre |-> CHOOSE p \in PreAuths : TRUE, required |-> {}]]
    /\ verified = [s \in Sessions |-> {}]
    /\ reset = {}
    /\ disturbed = {}
    /\ codeFor = {}
    /\ granted = {}
    /\ halted = {}

-----------------------------------------------------------------------------
(* The user name step.                                                     *)

(* Operators whose names end in _Faulty are mistakes the code could contain;
   they are used only to see that the properties notice them.              *)
MustValidate_Faulty(type, u) == type \in MfaTypes

MustValidate(type, u) == type \in RequiredMfa \cup mfa[u]

MustConfigure(type, u) == type \in RequiredMfa \ mfa[u]

(* The factors a login has to go through: authenticateExternalUserNameHandler
   and authenticatePortalUserNameHandler.                                  *)
NeedsFactor(st, u, kind, overdue) ==
    \/ st = "EnterPassword" /\ users[u].exists
    \/ st = "EnterPasswordAndMigrateUser" /\ ~users[u].exists
    \/ st = "ValidateEmail" /\ users[u].exists
           /\ ~users[u].emailVerified /\ VerifyEmail
    \/ st = "ConfigureTotp" /\ MustConfigure("TOTP", u)
    \/ st = "ValidateTotp" /\ MustValidate("TOTP", u)
    \/ st = "ConfigureSecurityKey" /\ MustConfigure("FIDO2", u)
    \/ st = "ValidateSecurityKey" /\ MustValidate("FIDO2", u)
    \/ st = "AcceptTermsAndConditions" /\ kind = "portal"
           /\ RequireTerms /\ u \notin accepted
    \/ st = "RotatePassword" /\ users[u].exists
           /\ (users[u].force \/ overdue)

EndsWith(st, kind) ==
    \/ st = "RedirectBackToApplication" /\ kind = "application"
    \/ st = "RedirectToIamPortal" /\ kind \in {"device", "portal"}
    \/ st = "SendSecurityEventSuccessLogon" /\ kind \in {"application", "portal"}
    \/ st = "SendSecurityEventDeviceRegistered" /\ kind = "device"

(* A user name is entered for a user who can log in, or for one who is to
   be migrated: then a disabled placeholder user is stored as well.  The
   token of the new session is not known to anybody before the reply, so
   reading the settings and inserting the rows is one step.                *)
HandleUserNameInput(s, u, kind, p, overdue) ==
    /\ session[s].kind = "none"
    /\ IF users[u].exists THEN KnownUser(u) ELSE u \in LegacyUsers
    /\ kind = "application" => preAuth[p] # "gone"
    /\ LET factors == {st \in Factors : NeedsFactor(st, u, kind, overdue)}
           list == factors \cup {st \in Steps : EndsWith(st, kind)}
       IN /\ rows' = [rows EXCEPT ![s] =
                 [st \in Steps |-> IF st \in list THEN Position[st] ELSE 0]]
          /\ session' = [session EXCEPT ![s] =
                 [kind |-> kind, owner |-> u, pre |-> p, required |-> factors]]
    /\ deviceRows' = IF kind = "device" THEN deviceRows \cup {s} ELSE deviceRows
    /\ users' = IF users[u].exists THEN users
                ELSE [users EXCEPT ![u] = [NoUser EXCEPT !.exists = TRUE,
                                                         !.locked = TRUE]]
    /\ UNCHANGED <<done, expired, device, mfa, accepted, emailToken, resetToken,
                   preAuth, req, verified, reset, disturbed, outcome>>

-----------------------------------------------------------------------------
(* The beginning of a request: getSortedAuthenticationStates and           *)
(* validateAuthenticationStep.                                             *)

PreviousComplete_Faulty(s, st) ==
    \A x \in Earlier(rows[s], st) : IsNext(rows[s], x, st) \/ x \in done[s]

PreviousComplete(s, st) == Earlier(rows[s], st) \subseteq done[s]

(* History only: a list is taken apart row by row, and the rows left at a
   moment say little about the list; such sessions are told apart.         *)
Disturb(r, s, phase) ==
    disturbed' =
        IF \E q \in Requests \ {r} : Active(q, s)
               /\ (phase \in TearingDown \/ req[q].phase \in TearingDown)
        THEN disturbed \cup {s} ELSE disturbed

Begin(r, s, st, phase) ==
    /\ req[r].phase = "idle"
    /\ Become(r, [Idle EXCEPT !.phase = phase, !.session = s, !.step = st,
               !.list = rows[s],
               !.todo = IF phase \in TearingDown THEN Present(rows[s]) ELSE {},
               !.device = s \in deviceRows])
    /\ Disturb(r, s, phase)
    /\ UNCHANGED <<store, device, people, preAuth, history, outcome>>

(* The step asked for is in the list and every step before it is COMPLETE.
   Nothing asks whether the step itself still is INCOMPLETE.               *)
ValidateAuthenticationStep(r, s, st) ==
    /\ st \in Factors \cap Present(rows[s])
    /\ s \notin expired
    /\ PreviousComplete(s, st)
    /\ Begin(r, s, st, "readUser")

(* The session has expired: its rows are deleted.                          *)
ValidateExpiredStep(r, s, st) ==
    /\ st \in Factors \cap Present(rows[s])
    /\ s \in expired
    /\ Begin(r, s, st, "expire")

-----------------------------------------------------------------------------
(* The user row is read.                                                   *)

(* What each handler requires of the user before it checks the factor.     *)
AcceptsUser(st, u) ==
    /\ st \in AttemptSteps => ~u.locked
    /\ st \in {"EnterPassword", "ValidatePasswordResetToken"} => u.active

(* ValidatePasswordResetToken finds the user by the e-mailed token, any of
   those sent to the user, and uses it up before it looks at the user.     *)
ReadUser(r) ==
    /\ req[r].phase = "readUser"
    /\ LET u == users[OwnerOf(r)]
       IN /\ IF req[r].step = "ValidatePasswordResetToken"
             THEN \E t \in TokensOf(r, resetToken) : resetToken' = resetToken \ {t}
             ELSE UNCHANGED resetToken
          /\ IF AcceptsUser(req[r].step, u)
             THEN Become(r, [req[r] EXCEPT !.phase = "check",
                                           !.locked = u.locked, !.user = u])
             ELSE Finish(r)
    /\ UNCHANGED <<store, device, users, mfa, accepted, emailToken, preAuth,
                   history, disturbed, outcome>>

-----------------------------------------------------------------------------
(* The factor is checked, one action per handler.                          *)

Verified(r) ==
    verified' = [verified EXCEPT ![req[r].session] = @ \cup {req[r].step}]

Checking(r, st) == req[r].phase = "check" /\ req[r].step = st

(* validateAuthenticationAttempt with the right password, one-time password
   or security key.                                                        *)
AttemptSucceeds(r) ==
    /\ \/ Checking(r, "EnterPassword")
       \/ Checking(r, "ValidateTotp") /\ "TOTP" \in mfa[OwnerOf(r)]
       \/ Checking(r, "ValidateSecurityKey") /\ "FIDO2" \in mfa[OwnerOf(r)]
    /\ Verified(r)
    /\ Goto(r, "persist")
    /\ UNCHANGED <<store, device, people, preAuth, session, reset, disturbed, outcome>>

(* authenticateUser with the duress password: the last row is exchanged for
   the duress event, first deleted, then inserted again.                   *)
AuthenticateUserUnderDuress(r) ==
    /\ Checking(r, "EnterPassword")
    /\ OwnerOf(r) \in DuressUsers
    /\ Verified(r)
    /\ LET s == req[r].session
           list == req[r].list
           event == "SendSecurityEventDuressLogon"
       IN \/ \E last \in SecurityEvents \ {event} :
                 /\ IsLast(list, last)
                 /\ rows' = [rows EXCEPT ![s][last] = 0]
                 /\ done' = [done EXCEPT ![s] = @ \ {last}]
                 /\ Become(r, [req[r] EXCEPT !.phase = "duress",
                        !.list = [list EXCEPT ![last] = 0,
                            ![event] = list[last] - Position[last] + Position[event]]])
          \/ /\ \A last \in SecurityEvents \ {event} : ~IsLast(list, last)
             /\ Goto(r, "persist")
             /\ UNCHANGED <<rows, done>>
    /\ UNCHANGED <<expired, deviceRows, device, people, preAuth, session, reset,
                   disturbed, outcome>>

InsertDuressEvent(r) ==
    /\ req[r].phase = "duress"
    /\ LET s == req[r].session
           event == "SendSecurityEventDuressLogon"
       IN IF rows[s][event] = 0
          THEN /\ rows' = [rows EXCEPT ![s][event] = req[r].list[event]]
               /\ Goto(r, "persist")
          ELSE Finish(r) /\ UNCHANGED rows
    /\ UNCHANGED <<done, expired, deviceRows, device, people, preAuth, history,
                   disturbed, outcome>>

(* A failed attempt is recorded; at the threshold of the failure policy the
   user is to be locked (module LoginFailures has the counting).          *)
AttemptFails(r) ==
    /\ req[r].phase = "check"
    /\ req[r].step \in AttemptSteps
    /\ \/ Finish(r)
       \/ /\ "lock" \in Disruptions
          /\ Become(r, [req[r] EXCEPT !.phase = "lockUser", !.user.locked = TRUE])
    /\ UNCHANGED <<store, device, people, preAuth, history, disturbed, outcome>>

(* authenticateVerifyEmailAddress and validateEmailToken: the user is read
   once more, by the token, and that object is written back.               *)
AuthenticateVerifyEmailAddress(r) ==
    /\ Checking(r, "ValidateEmail")
    /\ \E t \in TokensOf(r, emailToken) : emailToken' = emailToken \ {t}
    /\ Verified(r)
    /\ Become(r, [req[r] EXCEPT !.phase = "writeUser",
                   !.user = [users[OwnerOf(r)] EXCEPT !.emailVerified = TRUE]])
    /\ UNCHANGED <<store, device, users, mfa, accepted, resetToken, preAuth,
                   session, reset, disturbed, outcome>>

(* A TOTP secret is created once; asking again is an error.                *)
AuthenticateConfigureTOTP(r) ==
    /\ Checking(r, "ConfigureTotp")
    /\ "TOTP" \notin mfa[OwnerOf(r)]
    /\ mfa' = [mfa EXCEPT ![OwnerOf(r)] = @ \cup {"TOTP"}]
    /\ Verified(r)
    /\ Goto(r, "persist")
    /\ UNCHANGED <<store, device, users, accepted, emailToken, resetToken, preAuth,
                   session, reset, disturbed, outcome>>

AuthenticateRegisterSecurityKey(r) ==
    /\ Checking(r, "ConfigureSecurityKey")
    /\ mfa' = [mfa EXCEPT ![OwnerOf(r)] = @ \cup {"FIDO2"}]
    /\ Verified(r)
    /\ Goto(r, "persist")
    /\ UNCHANGED <<store, device, users, accepted, emailToken, resetToken, preAuth,
                   session, reset, disturbed, outcome>>

AuthenticateAcceptTermsAndConditions(r) ==
    /\ Checking(r, "AcceptTermsAndConditions")
    /\ accepted' = accepted \cup {OwnerOf(r)}
    /\ Verified(r)
    /\ Goto(r, "persist")
    /\ UNCHANGED <<store, device, users, mfa, emailToken, resetToken, preAuth,
                   session, reset, disturbed, outcome>>

(* A new credential is stored; the user row is written only to clear
   forcePasswordResetAfterAuthentication.                                  *)
AuthenticateRotatePassword(r) ==
    /\ Checking(r, "RotatePassword")
    /\ Verified(r)
    /\ IF req[r].user.force
       THEN Become(r, [req[r] EXCEPT !.phase = "writeUser", !.user.force = FALSE])
       ELSE Goto(r, "persist")
    /\ UNCHANGED <<store, device, people, preAuth, session, reset, disturbed, outcome>>

(* The legacy profile fills the placeholder user.                          *)
AuthenticateUserAndMigrate(r) ==
    /\ Checking(r, "EnterPasswordAndMigrateUser")
    /\ Verified(r)
    /\ \E emailVerified \in BOOLEAN :
           Become(r, [req[r] EXCEPT !.phase = "writeUser", !.locked = FALSE,
               !.user = [exists |-> TRUE, active |-> TRUE, locked |-> FALSE,
                         force |-> FALSE, emailVerified |-> emailVerified]])
    /\ UNCHANGED <<store, device, people, preAuth, session, reset, disturbed, outcome>>

AuthenticateValidatePasswordResetToken(r) ==
    /\ Checking(r, "ValidatePasswordResetToken")
    /\ Verified(r)
    /\ Goto(r, "persist")
    /\ UNCHANGED <<store, device, people, preAuth, session, reset, disturbed, outcome>>

(* No valid token, a wrong one, a refused new password, a refused legacy
   password, an existing TOTP secret.                                      *)
CheckRefused(r) ==
    /\ \/ req[r].phase = "check" /\ req[r].step \notin AttemptSteps
       \/ req[r].phase = "readUser" /\ req[r].step = "ValidatePasswordResetToken"
    /\ Finish(r)
    /\ UNCHANGED <<store, device, people, preAuth, history, disturbed, outcome>>

(* identityDao.updateUser writes the whole object read earlier.            *)
WriteUser(r) ==
    /\ req[r].phase \in {"writeUser", "lockUser"}
    /\ users' = [users EXCEPT ![OwnerOf(r)] = req[r].user]
    /\ IF req[r].phase = "writeUser" THEN Goto(r, "persist") ELSE Finish(r)
    /\ UNCHANGED <<store, device, mfa, accepted, emailToken, resetToken, preAuth,
                   history, disturbed, outcome>>

-----------------------------------------------------------------------------
(* The row of the step is marked COMPLETE, if it still is there, and the   *)
(* row which followed it when the request began decides what comes next.   *)

CompletionPhase(next, carriesDevice) ==
    IF carriesDevice THEN "approve"
    ELSE IF next = "RedirectBackToApplication" THEN "code" ELSE "sign"

(* handleAuthenticationCompletion gives up on a user who was locked when
   the request read the user.                                              *)
MayComplete(r) == req[r].step \in CompletingSteps /\ ~req[r].locked

PersistStep(r) ==
    /\ req[r].phase = "persist"
    /\ LET s == req[r].session
           st == req[r].step
           list == req[r].list
       IN /\ done' = [done EXCEPT ![s] =
                 IF rows[s][st] # 0 THEN @ \cup {st} ELSE @]
          /\ emailToken' = IF /\ st = "EnterPassword"
                              /\ IsNext(list, st, "ValidateEmail")
                           THEN emailToken \cup {s} ELSE emailToken
          /\ \/ \E next \in Redirects :
                    /\ IsNext(list, st, next)
                    /\ MayComplete(r)
                    /\ Become(r, [req[r] EXCEPT !.user = NoUser,
                           !.phase = CompletionPhase(next, req[r].device)])
             \/ /\ ~(MayComplete(r) /\ \E next \in Redirects : IsNext(list, st, next))
                /\ Finish(r)
    /\ UNCHANGED <<rows, expired, deviceRows, device, users, mfa, accepted,
                   resetToken, preAuth, history, disturbed, outcome>>

-----------------------------------------------------------------------------
(* handleAuthenticationCompletion and generateAuthorizationCode.           *)

ApproveDevice(r) ==
    /\ req[r].phase = "approve"
    /\ device' = [device EXCEPT ![req[r].session] = "Approved"]
    /\ Goto(r, IF IsNext(req[r].list, req[r].step, "RedirectBackToApplication")
               THEN "code" ELSE "sign")
    /\ UNCHANGED <<store, people, preAuth, history, disturbed, outcome>>

(* An unknown pre-authentication token is an error.                        *)
ReadPreAuth(r) ==
    /\ req[r].phase = "code"
    /\ IF preAuth[PreAuthOf(r)] = "gone" THEN Finish(r) ELSE Goto(r, "consume")
    /\ UNCHANGED <<store, device, people, preAuth, history, disturbed, outcome>>

ConsumePreAuth_Faulty(r) ==
    /\ req[r].phase = "consume"
    /\ preAuth' = [preAuth EXCEPT ![PreAuthOf(r)] = "used"]
    /\ IF preAuth[PreAuthOf(r)] = "expired" THEN Finish(r) ELSE Goto(r, "save")
    /\ UNCHANGED <<store, device, people, history, disturbed, outcome>>

(* It is deleted before anything else, and an expired one is an error.     *)
ConsumePreAuth(r) ==
    /\ req[r].phase = "consume"
    /\ preAuth' = [preAuth EXCEPT ![PreAuthOf(r)] = "gone"]
    /\ IF preAuth[PreAuthOf(r)] = "expired" THEN Finish(r) ELSE Goto(r, "save")
    /\ UNCHANGED <<store, device, people, history, disturbed, outcome>>

SaveAuthorizationCode(r) ==
    /\ req[r].phase = "save"
    /\ codeFor' = codeFor \cup {PreAuthOf(r)}
    /\ granted' = granted \cup {req[r].session}
    /\ StartCleanup(r)
    /\ UNCHANGED <<store, device, people, preAuth, history, disturbed, halted>>

(* The redirect to the portal: a portal token, or nothing more for a
   device.  When no token could be signed the rows stay.  The security event
   of the last row is not modelled.                                        *)
SignPortalToken(r) ==
    /\ req[r].phase = "sign"
    /\ \/ granted' = granted \cup {req[r].session} /\ StartCleanup(r)
       \/ ~req[r].device /\ UNCHANGED granted /\ Finish(r)
    /\ UNCHANGED <<store, device, people, preAuth, history, disturbed, codeFor, halted>>

-----------------------------------------------------------------------------
(* Rows are deleted one by one, in their order; cancelAuthentication does  *)
(* not wait for its deletions, so their order is open.                     *)

RowToDelete(r, st) ==
    /\ st \in req[r].todo
    /\ req[r].phase \in {"cleanup", "replace", "expire"} =>
           \A x \in req[r].todo : req[r].list[st] <= req[r].list[x]

DeleteUserAuthenticationState(r) ==
    /\ req[r].phase \in {"cleanup", "replace", "expire", "cancel"}
    /\ \E st \in Steps :
           /\ RowToDelete(r, st)
           /\ rows' = [rows EXCEPT ![req[r].session][st] = 0]
           /\ done' = [done EXCEPT ![req[r].session] = @ \ {st}]
           /\ Become(r, [req[r] EXCEPT !.todo = @ \ {st}])
    /\ UNCHANGED <<expired, deviceRows, device, people, preAuth, history,
                   disturbed, outcome>>

RowsDeleted(r) ==
    /\ req[r].phase \in {"cleanup", "replace", "expire"}
    /\ req[r].todo = {}
    /\ IF req[r].phase = "replace" THEN Goto(r, "insert") ELSE Finish(r)
    /\ UNCHANGED <<store, device, people, preAuth, history, disturbed, outcome>>

-----------------------------------------------------------------------------
(* authenticateHandleForgotPassword.                                       *)

BeginForgotPassword(r, s) ==
    /\ "forgot" \in Disruptions
    /\ rows[s]["EnterPassword"] # 0
    /\ s \notin expired
    /\ PreviousComplete(s, "EnterPassword")
    /\ Begin(r, s, "EnterPassword", "forgot")

SavePasswordResetToken(r) ==
    /\ req[r].phase = "forgot"
    /\ IF users[OwnerOf(r)].active
       THEN resetToken' = resetToken \cup {req[r].session} /\ Goto(r, "replace")
       ELSE Finish(r) /\ UNCHANGED resetToken
    /\ UNCHANGED <<store, device, users, mfa, accepted, emailToken, preAuth,
                   history, disturbed, outcome>>

ResetOrder_Faulty(list) ==
    [st \in Steps |->
        IF IsLast(list, st) THEN Last + Position[st]
        ELSE IF st \in Present(list) /\ ~IsFirst(list, st) THEN list[st]
        ELSE IF st = "RotatePassword" THEN Late + Position[st]
        ELSE 0]

(* The new list: the e-mailed token, what stood between the first and the
   last row, the new password, and the last row.                           *)
ResetOrder(list) ==
    [st \in Steps |->
        IF IsLast(list, st) THEN Last + Position[st]
        ELSE IF st = "ValidatePasswordResetToken" THEN Position[st]
        ELSE IF st \in Present(list) /\ ~IsFirst(list, st) THEN list[st]
        ELSE IF st = "RotatePassword" THEN Late + Position[st]
        ELSE 0]

(* The insertions stop at the first primary key that exists already:
   (user, session, step) occurs once, so a list which rotates the password
   anyway is cut off where the second rotation would follow.               *)
InsertStopsAt(list, stored) ==
    {ResetOrder(list)[st] : st \in Present(ResetOrder(list)) \cap Present(stored)}
        \cup (IF "RotatePassword" \in Present(list) THEN {Late + 10} ELSE {})

Inserted(list, stored) ==
    {st \in Present(ResetOrder(list)) :
        \A stop \in InsertStopsAt(list, stored) : ResetOrder(list)[st] < stop}

(* The insertions are one step: what they have stored at any moment starts
   with the row of the e-mailed token, which is not complete.              *)
InsertNewStates(r) ==
    /\ req[r].phase = "insert"
    /\ LET s == req[r].session
           new == Inserted(req[r].list, rows[s])
       IN /\ rows' = [rows EXCEPT ![s] = [st \in Steps |->
                 IF st \in new THEN ResetOrder(req[r].list)[st] ELSE rows[s][st]]]
          /\ done' = [done EXCEPT ![s] = @ \ new]
          /\ expired' = IF new = {} THEN expired ELSE expired \ {s}
          /\ deviceRows' = IF new = {} THEN deviceRows ELSE deviceRows \ {s}
          /\ reset' = reset \cup {s}
    /\ Finish(r)
    /\ UNCHANGED <<device, people, preAuth, session, verified, disturbed, outcome>>

-----------------------------------------------------------------------------
(* cancelAuthentication.                                                   *)

BeginCancel(r, s) ==
    /\ "cancel" \in Disruptions
    /\ session[s].kind # "none"
    /\ Begin(r, s, "EnterPassword", "cancelRead")

CancelDevice(r) ==
    /\ req[r].phase = "cancelRead"
    /\ device' = IF req[r].device
                 THEN [device EXCEPT ![req[r].session] = "Cancelled"] ELSE device
    /\ Goto(r, "cancel")
    /\ UNCHANGED <<store, people, preAuth, history, disturbed, outcome>>

DeleteCancelledPreAuth(r) ==
    /\ req[r].phase = "cancel"
    /\ session[req[r].session].kind = "application"
    /\ preAuth[PreAuthOf(r)] # "gone"
    /\ preAuth' = [preAuth EXCEPT ![PreAuthOf(r)] = "gone"]
    /\ UNCHANGED <<store, device, people, req, history, disturbed, outcome>>

CancelDone(r) ==
    /\ req[r].phase = "cancel"
    /\ req[r].todo = {}
    /\ session[req[r].session].kind = "application" =>
           preAuth[PreAuthOf(r)] = "gone"
    /\ Finish(r)
    /\ UNCHANGED <<store, device, people, preAuth, history, disturbed, outcome>>

-----------------------------------------------------------------------------
(* Time, the clean-up job, the administrator and failures.                 *)

Expire(s) ==
    /\ s \notin expired
    /\ Present(rows[s]) # {}
    /\ expired' = expired \cup {s}
    /\ UNCHANGED <<rows, done, deviceRows, device, people, preAuth, req, history,
                   disturbed, outcome>>

(* Only a login back to an application looks at it.                        *)
ExpirePreAuth(p) ==
    /\ "application" \in Kinds
    /\ preAuth[p] = "live"
    /\ preAuth' = [preAuth EXCEPT ![p] = "expired"]
    /\ UNCHANGED <<store, device, people, req, history, disturbed, outcome>>

DeleteExpiredData_Faulty ==
    /\ \E s \in expired : Present(rows[s]) # {}
    /\ rows' = [s \in Sessions |-> IF s \in expired /\ done[s] = {}
                                  THEN NoRows ELSE rows[s]]
    /\ UNCHANGED <<done, expired, deviceRows, device, people, preAuth, req, history,
                   disturbed, outcome>>

(* deleteExpiredData: one DELETE statement per table.                      *)
DeleteExpiredData ==
    /\ \E s \in expired : Present(rows[s]) # {}
    /\ rows' = [s \in Sessions |-> IF s \in expired THEN NoRows ELSE rows[s]]
    /\ done' = [s \in Sessions |-> IF s \in expired THEN {} ELSE done[s]]
    /\ UNCHANGED <<expired, deviceRows, device, people, preAuth, req, history,
                   disturbed, outcome>>

ExpireResetToken(t) ==
    /\ t \in resetToken
    /\ resetToken' = resetToken \ {t}
    /\ UNCHANGED <<store, device, users, mfa, accepted, emailToken, preAuth, req,
                   history, disturbed, outcome>>

UnlockUser(u) ==
    /\ users[u].exists /\ users[u].locked
    /\ users' = [users EXCEPT ![u].locked = FALSE]
    /\ UNCHANGED <<store, device, mfa, accepted, emailToken, resetToken, preAuth,
                   req, history, disturbed, outcome>>

(* A request dies: an instance stops, or an await is rejected.             *)
Abort(r) ==
    /\ "abort" \in Disruptions
    /\ req[r].phase # "idle"
    /\ Finish(r)
    /\ disturbed' = IF req[r].phase \in TearingDown
                    THEN disturbed \cup {req[r].session} ELSE disturbed
    /\ halted' = IF req[r].phase \in Stepping \ {"readUser"}
                 THEN halted \cup {req[r].session} ELSE halted
    /\ UNCHANGED <<store, device, people, preAuth, history, codeFor, granted>>

-----------------------------------------------------------------------------
Check(r) ==
    \/ AttemptSucceeds(r)
    \/ AttemptFails(r)
    \/ AuthenticateUserUnderDuress(r)
    \/ AuthenticateUserAndMigrate(r)
    \/ AuthenticateVerifyEmailAddress(r)
    \/ AuthenticateConfigureTOTP(r)
    \/ AuthenticateRegisterSecurityKey(r)
    \/ AuthenticateAcceptTermsAndConditions(r)
    \/ AuthenticateRotatePassword(r)
    \/ AuthenticateValidatePasswordResetToken(r)
    \/ CheckRefused(r)

Complete(r) ==
    \/ ApproveDevice(r)
    \/ ReadPreAuth(r)
    \/ ConsumePreAuth(r)
    \/ SaveAuthorizationCode(r)
    \/ SignPortalToken(r)

(* The next await of a request in flight.                                  *)
Continue(r) ==
    \/ ReadUser(r)
    \/ Check(r)
    \/ WriteUser(r)
    \/ InsertDuressEvent(r)
    \/ PersistStep(r)
    \/ Complete(r)
    \/ DeleteUserAuthenticationState(r)
    \/ RowsDeleted(r)
    \/ SavePasswordResetToken(r)
    \/ InsertNewStates(r)
    \/ CancelDevice(r)
    \/ DeleteCancelledPreAuth(r)
    \/ CancelDone(r)

Submit(r, s) ==
    \/ \E st \in Factors : ValidateAuthenticationStep(r, s, st)
    \/ \E st \in Factors : ValidateExpiredStep(r, s, st)
    \/ BeginForgotPassword(r, s)
    \/ BeginCancel(r, s)

Next ==
    \/ \E s \in Sessions, u \in Users, kind \in Kinds, p \in PreAuths, overdue \in Rotates :
           HandleUserNameInput(s, u, kind, p, overdue)
    \/ \E r \in Requests, s \in Sessions : Submit(r, s)
    \/ \E r \in Requests : Continue(r)
    \/ \E r \in Requests : Abort(r)
    \/ \E s \in Sessions : Expire(s)
    \/ \E p \in PreAuths : ExpirePreAuth(p)
    \/ \E t \in Sessions : ExpireResetToken(t)
    \/ DeleteExpiredData
    \/ \E u \in Users : UnlockUser(u)

Spec == Init /\ [][Next]_vars

(* A request in flight goes on, rows pass their expiry and the clean-up job
   comes round: nothing is assumed of the people at the keyboard.          *)
FairSpec ==
    /\ Spec
    /\ \A r \in Requests : WF_vars(Continue(r))
    /\ \A s \in Sessions : WF_vars(Expire(s))
    /\ WF_vars(DeleteExpiredData)

-----------------------------------------------------------------------------
(* Properties.                                                             *)

(* The values the tables and the request objects may hold.                 *)
TypeOK ==
    /\ rows \in [Sessions -> Orders]
    /\ done \in [Sessions -> SUBSET Steps]
    /\ expired \subseteq Sessions
    /\ deviceRows \subseteq Sessions
    /\ device \in [Sessions -> {"Pending", "Approved", "Cancelled"}]
    /\ users \in [Users -> UserRows]
    /\ mfa \in [Users -> SUBSET MfaTypes]
    /\ accepted \subseteq Users
    /\ emailToken \subseteq Sessions
    /\ resetToken \subseteq Sessions
    /\ preAuth \in [PreAuths -> {"live", "expired", "gone"}]
    /\ req \in [Requests -> ReqStates]
    /\ session \in [Sessions -> SessionRows]
    /\ verified \in [Sessions -> SUBSET Factors]
    /\ reset \subseteq Sessions
    /\ disturbed \subseteq Sessions
    /\ codeFor \subseteq PreAuths
    /\ granted \subseteq Sessions
    /\ halted \subseteq Sessions

(* Whatever requests do to one session at the same time, a request starts
   to complete the login only when every factor chosen at the user name
   step, or by "forgot password", has been checked in that session.        *)
CompletionIsEarned ==
    \A r \in Requests :
        LET s == req[r].session
        IN req[r].phase \in Completing /\ s \notin disturbed
               => Required(s) \subseteq verified[s]

(* Rows are completed in their order: of a list nobody takes apart, the
   rows marked COMPLETE have only COMPLETE rows before them.               *)
CompletedInOrder ==
    \A s \in Sessions \ disturbed :
        \A st \in done[s] \cap Present(rows[s]) : Earlier(rows[s], st) \subseteq done[s]

(* A pre-authentication token buys no authorization code and stays: once a
   code was saved for it, no later login can use it again.                 *)
CodeUsesUpPreAuth ==
    \A p \in codeFor : preAuth[p] = "gone"

(* The step the login page should offer next can be passed by an honest
   user.                                                                   *)
Passable(s, st) ==
    LET u == session[s].owner
    IN \/ st \in {"EnterPasswordAndMigrateUser", "ConfigureSecurityKey",
                  "AcceptTermsAndConditions", "RotatePassword"}
       \/ st = "EnterPassword" /\ KnownUser(u)
       \/ st = "ValidatePasswordResetToken" /\ s \in resetToken
       \/ st = "ValidateEmail" /\ s \in emailToken
       \/ st = "ConfigureTotp" /\ "TOTP" \notin mfa[u]
       \/ st = "ValidateTotp" /\ "TOTP" \in mfa[u]
       \/ st = "ValidateSecurityKey" /\ "FIDO2" \in mfa[u]

(* No other login of the user of s has been started.                       *)
OnlyLogin(s) ==
    \A t \in Sessions \ {s} :
        session[t].kind = "none" \/ session[t].owner # session[s].owner

(* A login is never stuck half way: while its list is whole and as it was
   made, no request died between a check and its row, some factor is missing
   and no request is at work on it, there is a step which the server lets
   the user take, unless the login is too old, and which the user is able to
   pass.  A second login of the user may spoil this one: a TOTP secret is
   created once, and either login takes the other's e-mail token.           *)
NoDeadEnd ==
    \A s \in Sessions \ (disturbed \cup halted \cup reset) :
        LET open == (Factors \cap Present(rows[s])) \ done[s]
            u == session[s].owner
        IN /\ open # {} /\ OnlyLogin(s)
           /\ \A r \in Requests : ~Active(r, s)
           /\ users[u].locked => "EnterPasswordAndMigrateUser" \in open
           => \E st \in open : PreviousComplete(s, st) /\ Passable(s, st)

(* Every session is over some day, whatever is abandoned, cancelled or
   written late: no row of a login stays behind for good.                  *)
SessionsEnd ==
    \A s \in Sessions : []<>(Present(rows[s]) = {})

-----------------------------------------------------------------------------
(* The login as its user and the relying party see it.                     *)

LoginOf(s) ==
    IF session[s].kind = "none" THEN "none"
    ELSE IF s \in disturbed THEN "broken"
    ELSE IF s \in granted THEN "granted"
    ELSE "open"

MissingOf(s) == IF LoginOf(s) = "open" THEN Required(s) \ verified[s] ELSE {}

Promise == INSTANCE LoginPromise
    WITH login <- [s \in Sessions |-> LoginOf(s)],
         missing <- [s \in Sessions |-> MissingOf(s)]

(* Rows, requests in flight, retries and all, the server keeps the promise
   of LoginPromise: factors asked for once, shown one at a time, access only
   when none is missing.                                                   *)
PromiseKept == Promise!Spec

-----------------------------------------------------------------------------
(* What the code or its documentation says, and the code does not do.      *)

(* "Now we need to add the actual password reset action": a login in which
   the password was forgotten grants access after a new password was set.
   For logins one request at a time.                                       *)
ForgottenPasswordIsReplaced ==
    \A s \in granted \cap reset : "RotatePassword" \in verified[s]

=============================================================================
