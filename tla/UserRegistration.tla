--------------------------- MODULE UserRegistration ---------------------------
(***************************************************************************)
(* Self-registration: RegisterUserService.                                 *)
(*                                                                         *)
(* registerUser stores a disabled user and a list of steps, one row of     *)
(* user_registration_state each.  Every mutation of the registration page  *)
(* is one request on that list; the one that finds a redirect behind its   *)
(* own row enables the user and answers with a code or a token.  A         *)
(* registration that is cancelled, or touched after its twelve hours, is   *)
(* taken apart: its rows one by one, then the user.  Requests of several   *)
(* tabs, retries and the clean-up job interleave at every await.           *)
(*                                                                         *)
(* The user id is drawn anew by each registration, so a session stands for *)
(* its user as well.  The duress password is data that no step reads back: *)
(* its step is modelled, its row is not.  Requests carry the user id of    *)
(* their own session.                                                      *)
(***************************************************************************)
EXTENDS Naturals, FiniteSets

CONSTANTS
    Sessions,       \* registration session tokens (and users) that may arise
    Requests,       \* requests that may be in flight at the same time
    Addresses,      \* e-mail addresses people register
    Kinds,          \* [Sessions -> where the registration may come from]
    VerifyEmail,    \* verifyEmailOnSelfRegistration of the tenant
    RequiredMfa,    \* mfaTypesRequired; empty when the tenant requires none
    AllowRecovery,  \* allowRecoveryEmail of the system settings
    AllowDuress,    \* allowDuressPassword of the system settings
    Cancels,        \* may a registration be cancelled
    MaxMishaps      \* how often a request may be cancelled or die, or time
                    \* run out

RegistrationKinds == {"application", "device", "portal"}
MfaTypes == {"TOTP", "FIDO2"}

ASSUME ConstantsOk ==
    /\ Sessions # {} /\ Addresses # {}
    /\ Kinds \in [Sessions -> SUBSET RegistrationKinds]
    /\ RequiredMfa \subseteq MfaTypes
    /\ {VerifyEmail, AllowRecovery, AllowDuress, Cancels} \subseteq BOOLEAN
    /\ MaxMishaps \in Nat

-----------------------------------------------------------------------------
(* The list of steps, chosen by registerUser.                              *)

Steps == {"ValidateEmail", "ConfigureTotp", "ValidateTotp",
          "ConfigureSecurityKey", "ValidateSecurityKey", "AddRecoveryEmail",
          "ValidateRecoveryEmail", "AddDuressPassword", "Redirect"}

(* A tenant that requires security keys only asks for them first.          *)
KeyFirst == RequiredMfa = {"FIDO2"}
Position == [
    ValidateEmail |-> 1,
    ConfigureTotp |-> IF KeyFirst THEN 4 ELSE 2,
    ValidateTotp |-> IF KeyFirst THEN 5 ELSE 3,
    ConfigureSecurityKey |-> IF KeyFirst THEN 2 ELSE 4,
    ValidateSecurityKey |-> IF KeyFirst THEN 3 ELSE 5,
    AddRecoveryEmail |-> 6,
    ValidateRecoveryEmail |-> 7,
    AddDuressPassword |-> 8,
    Redirect |-> 9]

StepList == {st \in Steps :
    /\ st = "ValidateEmail" => VerifyEmail
    /\ st = "AddRecoveryEmail" => AllowRecovery
    /\ st = "ValidateRecoveryEmail" => AllowRecovery /\ VerifyEmail
    /\ st = "AddDuressPassword" => AllowDuress}

Earlier(list, st) == {x \in list : Position[x] < Position[st]}
IsNext(list, st, next) ==
    /\ next \in list
    /\ Position[st] < Position[next]
    /\ \A x \in list : Position[st] < Position[x] => Position[next] <= Position[x]

(* Steps with a secret to show: they are never skipped on their own.       *)
TypeOf == [st \in {"ConfigureTotp", "ConfigureSecurityKey"} |->
               IF st = "ConfigureTotp" THEN "TOTP" ELSE "FIDO2"]
ValidationOf == [
    ConfigureTotp |-> "ValidateTotp",
    ConfigureSecurityKey |-> "ValidateSecurityKey",
    AddRecoveryEmail |-> "ValidateRecoveryEmail"]
Optional(st) ==
    \/ st \in DOMAIN TypeOf /\ TypeOf[st] \notin RequiredMfa
    \/ st \in {"AddRecoveryEmail", "AddDuressPassword"}

(* The rows a skipped step completes: its own and that of its validation.  *)
Completes(st, skip) ==
    IF skip /\ st \in DOMAIN ValidationOf
    THEN {st, ValidationOf[st]} \cap StepList ELSE {st}

-----------------------------------------------------------------------------
VARIABLES
    \* the database
    users,          \* [Sessions -> row of the user table]
    indexed,        \* users with a document in the relation search index
    mfa,            \* [Sessions -> SUBSET MfaTypes]: rows of user_mfa_rel
    recovery,       \* users with a row of user_email_recovery
    emailToken,     \* users with an e-mail confirmation token outstanding
    rows,           \* [Sessions -> SUBSET Steps]: user_registration_state
    done,           \* [Sessions -> SUBSET Steps]: rows whose status is COMPLETE
    expired,        \* sessions whose rows are past expiresAtMs
    preAuth,        \* [Sessions -> pre-authentication state of an application]
    device,         \* [Sessions -> status of the device code of the session]
    \* the servers
    req,            \* [Requests -> what the request holds between two awaits]
    mishaps,        \* what went wrong so far
    \* history
    session,        \* [Sessions -> kind and address of the registration]
    known,          \* sessions whose token registerUser answered with
    verified,       \* [Sessions -> SUBSET Steps]: steps passed or skipped
    torn,           \* sessions whose taking apart stopped half-way
    finished,       \* sessions whose registration was answered with success
    overlapped      \* sessions with two requests in flight at some time

store == <<rows, done, expired>>
people == <<users, indexed, mfa, recovery, emailToken>>
history == <<session, known, verified, torn, finished, overlapped>>
vars == <<people, store, preAuth, device, req, mishaps, history>>

Phases == {"idle", "create", "index", "insert",
           "check", "useToken", "writeUser", "persist",
           "load", "enable", "approve", "code", "consume", "discard", "save",
           "sign", "cleanup", "reap", "unlink", "dropUser", "cancel"}

(* What follows when the rows and the user of a session are gone.          *)
Reasons == {"none", "answer", "create", "cancel"}

UserStates == {"none", "disabled", "enabled"}

ReqStates == [
    phase : Phases,
    session : Sessions,
    step : Steps,
    skip : BOOLEAN,
    list : SUBSET Steps,      \* rows read at the start of the request
    todo : SUBSET Steps,      \* rows still to be inserted, completed or deleted
    victim : Sessions,        \* session that is taken apart
    seen : UserStates,        \* user row the handler will write back
    reason : Reasons]

AnySession == CHOOSE s \in Sessions : TRUE
Idle == [phase |-> "idle", session |-> AnySession, step |-> "Redirect",
         skip |-> FALSE, list |-> {}, todo |-> {}, victim |-> AnySession,
         seen |-> "none", reason |-> "none"]

Active(r, s) == req[r].phase # "idle" /\ req[r].session = s
TearingDown(r, s) ==
    req[r].phase \in {"reap", "unlink", "dropUser"} /\ req[r].victim = s
Busy(s) == \E q \in Requests : Active(q, s) \/ TearingDown(q, s)
Overlap(s) == overlapped' = IF Busy(s) THEN overlapped \cup {s} ELSE overlapped
Become(r, state) == req' = [req EXCEPT ![r] = state]
Goto(r, phase) == Become(r, [req[r] EXCEPT !.phase = phase])
Finish(r) == Become(r, Idle)

(* The bound on what comes between.                                        *)
Mishap ==
    /\ mishaps < MaxMishaps
    /\ mishaps' = mishaps + 1

Init ==
    /\ users = [s \in Sessions |-> "none"]
    /\ indexed = {}
    /\ mfa = [s \in Sessions |-> {}]
    /\ recovery = {}
    /\ emailToken = {}
    /\ rows = [s \in Sessions |-> {}]
    /\ done = [s \in Sessions |-> {}]
    /\ expired = {}
    /\ preAuth = [s \in Sessions |-> "live"]
    /\ device = [s \in Sessions |-> "Pending"]
    /\ req = [r \in Requests |-> Idle]
    /\ mishaps = 0
    /\ session = [s \in Sessions |->
           [kind |-> "none", address |-> CHOOSE a \in Addresses : TRUE]]
    /\ known = {}
    /\ verified = [s \in Sessions |-> {}]
    /\ torn = {}
    /\ finished = {}
    /\ overlapped = {}

-----------------------------------------------------------------------------
(* registerUser.                                                           *)

HolderOf(a) == {t \in Sessions : session[t].address = a /\ users[t] # "none"}
RegisteredFor(a) == {t \in Sessions : session[t].address = a /\ rows[t] # {}}

(* Operators whose names end in _Faulty are mistakes the code could contain;
   they are used only to see that the properties notice them.              *)
Lapsed_Faulty(a) == RegisteredFor(a)

Lapsed(a) == RegisteredFor(a) \cap expired

AddressIsFree_Faulty(a) == RegisteredFor(a) = {}

AddressIsFree(a) == HolderOf(a) = {}

(* Taking a session apart begins with the rows that were read.             *)
TakeApart(r, s, victim, list, reason) ==
    Become(r, [Idle EXCEPT !.phase = "reap", !.session = s, !.victim = victim,
                           !.list = list, !.todo = list, !.reason = reason])

(* An address under registration is refused; one whose registration has
   expired is freed first.                                                 *)
RegisterUser(r, s, kind, a) ==
    /\ req[r].phase = "idle"
    /\ session[s].kind = "none"
    /\ \/ /\ RegisteredFor(a) = {}
          /\ Become(r, [Idle EXCEPT !.phase = "create", !.session = s])
          /\ UNCHANGED overlapped
       \/ \E t \in Lapsed(a) :
              TakeApart(r, s, t, rows[t], "create") /\ Overlap(t)
    /\ session' = [session EXCEPT ![s] = [kind |-> kind, address |-> a]]
    /\ UNCHANGED <<people, store, preAuth, device, mishaps, known, verified, torn,
                   finished>>

(* _createUser: the address must be free, which the UNIQUE column decides
   when two requests saw it free.  Relations, credentials and the e-mail
   token, which nobody waits for, come with the row.                       *)
CreateUser(r) ==
    /\ req[r].phase = "create"
    /\ LET s == req[r].session IN
       IF AddressIsFree(session[s].address)
       THEN /\ users' = [users EXCEPT ![s] = "disabled"]
            /\ emailToken' = IF VerifyEmail THEN emailToken \cup {s} ELSE emailToken
            /\ Goto(r, "index")
            /\ UNCHANGED session
       ELSE /\ session' = [session EXCEPT ![s].kind = "none"]
            /\ Finish(r)
            /\ UNCHANGED <<users, emailToken>>
    /\ UNCHANGED <<indexed, mfa, recovery, store, preAuth, device, mishaps, known,
                   verified, torn, finished, overlapped>>

IndexUser(r) ==
    /\ req[r].phase = "index"
    /\ indexed' = indexed \cup {req[r].session}
    /\ Become(r, [req[r] EXCEPT !.phase = "insert", !.todo = StepList])
    /\ UNCHANGED <<users, mfa, recovery, emailToken, store, preAuth, device,
                   mishaps, history>>

(* createUserRegistrationStates: one row after the other.  The person learns
   the token from the answer.                                              *)
InsertRow(r) ==
    /\ req[r].phase = "insert"
    /\ \E st \in req[r].todo :
           /\ Earlier(req[r].todo, st) = {}
           /\ rows' = [rows EXCEPT ![req[r].session] = @ \cup {st}]
           /\ IF req[r].todo = {st}
              THEN Finish(r) /\ known' = known \cup {req[r].session}
              ELSE Become(r, [req[r] EXCEPT !.todo = @ \ {st}]) /\ UNCHANGED known
    /\ UNCHANGED <<people, done, expired, preAuth, device, mishaps, session,
                   verified, torn, finished, overlapped>>

-----------------------------------------------------------------------------
(* A step of the registration page: getSortedRegistartionStates and        *)
(* validateRegistrationStep.                                               *)

PreviousComplete_Faulty(s, st) ==
    \A x \in Earlier(rows[s], st) : IsNext(rows[s], x, st) \/ x \in done[s]

PreviousComplete(s, st) == Earlier(rows[s], st) \subseteq done[s]

(* The rows are there up to the end, or what is left of them.  Nothing asks
   whether the step itself still is INCOMPLETE.                            *)
BeginStep(r, s, st, skip) ==
    /\ req[r].phase = "idle"
    /\ s \in known
    /\ st \in rows[s] \ {"Redirect"}
    /\ skip => Optional(st)
    /\ \/ /\ s \notin expired
          /\ PreviousComplete(s, st)
          /\ Become(r, [Idle EXCEPT !.phase = IF skip THEN "persist" ELSE "check",
                 !.session = s, !.step = st, !.skip = skip, !.list = rows[s],
                 !.todo = Completes(st, skip) \cap rows[s]])
          /\ verified' = IF skip
                 THEN [verified EXCEPT ![s] = @ \cup Completes(st, skip)]
                 ELSE verified
       \/ /\ s \in expired
          /\ TakeApart(r, s, s, rows[s], "answer")
          /\ UNCHANGED verified
    /\ Overlap(s)
    /\ UNCHANGED <<people, store, preAuth, device, mishaps, session, known, torn,
                   finished>>

(* One handler for each step.  Not every step can be skipped.              *)
RegisterVerifyEmailAddress(r, s) == BeginStep(r, s, "ValidateEmail", FALSE)
RegisterConfigureTOTP(r, s, skip) == BeginStep(r, s, "ConfigureTotp", skip)
RegisterValidateTOTP(r, s) == BeginStep(r, s, "ValidateTotp", FALSE)
RegisterConfigureSecurityKey(r, s, skip) ==
    BeginStep(r, s, "ConfigureSecurityKey", skip)
RegisterValidateSecurityKey(r, s) == BeginStep(r, s, "ValidateSecurityKey", FALSE)
RegisterAddRecoveryEmail(r, s, skip) == BeginStep(r, s, "AddRecoveryEmail", skip)
RegisterVerifyRecoveryEmail(r, s) == BeginStep(r, s, "ValidateRecoveryEmail", FALSE)
RegisterAddDuressPassword(r, s, skip) == BeginStep(r, s, "AddDuressPassword", skip)

HandleStep(r, s, skip) ==
    \/ RegisterConfigureTOTP(r, s, skip)
    \/ RegisterConfigureSecurityKey(r, s, skip)
    \/ RegisterAddRecoveryEmail(r, s, skip)
    \/ RegisterAddDuressPassword(r, s, skip)
    \/ /\ ~skip
       /\ \/ RegisterVerifyEmailAddress(r, s)
          \/ RegisterValidateTOTP(r, s)
          \/ RegisterValidateSecurityKey(r, s)
          \/ RegisterVerifyRecoveryEmail(r, s)

(* What each step asks for: the e-mailed token, a factor that is stored
   already, or nothing that this module tells apart.                       *)
Shows(st, s) ==
    CASE st = "ValidateEmail" -> s \in emailToken
      [] st = "ValidateRecoveryEmail" -> s \in emailToken \cap recovery
      [] st = "AddRecoveryEmail" -> users[s] # "none" /\ s \notin recovery
      [] st = "ConfigureTotp" -> users[s] # "none" /\ "TOTP" \notin mfa[s]
      [] st = "ConfigureSecurityKey" -> users[s] # "none"
      [] st = "ValidateTotp" -> "TOTP" \in mfa[s]
      [] st = "ValidateSecurityKey" -> "FIDO2" \in mfa[s]
      [] OTHER -> users[s] # "none"

AfterCheck(st) ==
    IF st \in {"ValidateEmail", "ValidateRecoveryEmail"} THEN "useToken"
    ELSE "persist"

CheckStep(r) ==
    /\ req[r].phase = "check"
    /\ LET s == req[r].session
           st == req[r].step
       IN /\ Shows(st, s)
          /\ verified' = [verified EXCEPT ![s] = @ \cup {st}]
          /\ mfa' = IF st \in DOMAIN TypeOf
                    THEN [mfa EXCEPT ![s] = @ \cup {TypeOf[st]}] ELSE mfa
          /\ recovery' = IF st = "AddRecoveryEmail" THEN recovery \cup {s} ELSE recovery
          /\ emailToken' = IF st = "AddRecoveryEmail" /\ VerifyEmail
                           THEN emailToken \cup {s} ELSE emailToken
          /\ Become(r, [req[r] EXCEPT !.phase = AfterCheck(st), !.seen = users[s]])
    /\ UNCHANGED <<users, indexed, store, preAuth, device, mishaps, session, known,
                   torn, finished, overlapped>>

(* A check that fails ends the request; so do the errors below.            *)
FailStep(r) ==
    /\ req[r].phase = "check"
    /\ Finish(r)
    /\ UNCHANGED <<people, store, preAuth, device, mishaps, history>>

(* The token is deleted before anything else is written.                   *)
UseToken(r) ==
    /\ req[r].phase = "useToken"
    /\ emailToken' = emailToken \ {req[r].session}
    /\ Goto(r, IF req[r].step = "ValidateEmail" THEN "writeUser" ELSE "persist")
    /\ UNCHANGED <<users, indexed, mfa, recovery, store, preAuth, device, mishaps,
                   history>>

(* updateUser writes the whole row back as it was read with the token; a
   row that is gone stays gone.                                            *)
WriteUser(r) ==
    /\ req[r].phase = "writeUser"
    /\ users' = [users EXCEPT ![req[r].session] =
           IF @ = "none" THEN @ ELSE req[r].seen]
    /\ Goto(r, "persist")
    /\ UNCHANGED <<indexed, mfa, recovery, emailToken, store, preAuth, device,
                   mishaps, history>>

(* registerAddDuressPassword writes the first row of the list instead of
   its own.                                                                *)
RowOf(r, st) ==
    IF req[r].step = "AddDuressPassword"
    THEN CHOOSE x \in req[r].list : Earlier(req[r].list, x) = {}
    ELSE st

(* The handlers that complete a registration when a redirect comes next;
   ValidateEmail only answers with the next row.                           *)
Completing(r) ==
    /\ req[r].step # "ValidateEmail"
    /\ \E st \in Completes(req[r].step, req[r].skip) : IsNext(req[r].list, st, "Redirect")

Updated_Faulty(s, st) == done[s] \cup {st}

Updated(s, st) == done[s] \cup ({st} \cap rows[s])

PersistRow(r) ==
    /\ req[r].phase = "persist"
    /\ \E st \in req[r].todo :
           /\ Earlier(req[r].todo, st) = {}
           /\ done' = [done EXCEPT ![req[r].session] =
                  Updated(req[r].session, RowOf(r, st))]
           /\ IF req[r].todo # {st}
              THEN Become(r, [req[r] EXCEPT !.todo = @ \ {st}])
              ELSE IF Completing(r) THEN Become(r, [req[r] EXCEPT !.phase = "load", !.todo = {}])
                   ELSE Finish(r)
    /\ UNCHANGED <<people, rows, expired, preAuth, device, mishaps, history>>

-----------------------------------------------------------------------------
(* handleRegistrationCompletion.                                           *)

LoadUser(r) ==
    /\ req[r].phase = "load"
    /\ IF users[req[r].session] = "none" THEN Finish(r) ELSE Goto(r, "enable")
    /\ UNCHANGED <<people, store, preAuth, device, mishaps, history>>

EnableUser(r) ==
    /\ req[r].phase = "enable"
    /\ LET s == req[r].session
       IN /\ users' = [users EXCEPT ![s] = IF @ = "none" THEN @ ELSE "enabled"]
          /\ Goto(r, CASE session[s].kind = "application" -> "code"
                       [] session[s].kind = "device" -> "approve"
                       [] OTHER -> "sign")
    /\ UNCHANGED <<indexed, mfa, recovery, emailToken, store, preAuth, device,
                   mishaps, history>>

StartCleanup(r) ==
    Become(r, [req[r] EXCEPT !.phase = "cleanup", !.todo = req[r].list])

ApproveDevice(r) ==
    /\ req[r].phase = "approve"
    /\ device' = [device EXCEPT ![req[r].session] = "Approved"]
    /\ StartCleanup(r)
    /\ UNCHANGED <<people, store, preAuth, mishaps, history>>

(* generateAuthorizationCode: the state is read, deleted, and looked at;
   a state that is gone or expired ends the request, the user enabled and
   the rows in place.                                                      *)
ReadPreAuth(r) ==
    /\ req[r].phase = "code"
    /\ CASE preAuth[req[r].session] = "gone" -> Finish(r)
         [] preAuth[req[r].session] = "expired" -> Goto(r, "discard")
         [] OTHER -> Goto(r, "consume")
    /\ UNCHANGED <<people, store, preAuth, device, mishaps, history>>

ConsumePreAuth(r) ==
    /\ req[r].phase \in {"consume", "discard"}
    /\ preAuth' = [preAuth EXCEPT ![req[r].session] = "gone"]
    /\ IF req[r].phase = "discard" THEN Finish(r) ELSE Goto(r, "save")
    /\ UNCHANGED <<people, store, device, mishaps, history>>

SaveCode(r) ==
    /\ req[r].phase \in {"save", "sign"}
    /\ StartCleanup(r)
    /\ UNCHANGED <<people, store, preAuth, device, mishaps, history>>

Without_Faulty(list, st) == list \ ({st} \ {"Redirect"})

Without(list, st) == list \ {st}

(* The rows that were read are deleted, one after the other.               *)
DeleteRow(r) ==
    /\ req[r].phase = "cleanup"
    /\ LET s == req[r].session IN
       \E st \in req[r].todo :
           /\ Earlier(req[r].todo, st) = {}
           /\ rows' = [rows EXCEPT ![s] = Without(@, st)]
           /\ done' = [done EXCEPT ![s] = @ \ {st}]
           /\ IF req[r].todo # {st}
              THEN /\ Become(r, [req[r] EXCEPT !.todo = @ \ {st}])
                   /\ UNCHANGED finished
              ELSE /\ Finish(r)
                   /\ finished' = finished \cup {s}
    /\ UNCHANGED <<people, expired, preAuth, device, mishaps, session, known,
                   verified, torn, overlapped>>

-----------------------------------------------------------------------------
(* A session is taken apart: by cancelRegistration, by a step that finds   *)
(* it expired, or by a new registration of the address.                    *)

CancelRegistration(r, s) ==
    /\ Cancels
    /\ req[r].phase = "idle"
    /\ s \in known
    /\ IF rows[s] # {} THEN TakeApart(r, s, s, rows[s], "cancel")
       ELSE Become(r, [Idle EXCEPT !.phase = "cancel", !.session = s])
    /\ Overlap(s)
    /\ Mishap
    /\ UNCHANGED <<people, store, preAuth, device, session, known, verified, torn,
                   finished>>

ReapRow(r) ==
    /\ req[r].phase = "reap"
    /\ \E st \in req[r].todo :
           /\ Earlier(req[r].todo, st) = {}
           /\ rows' = [rows EXCEPT ![req[r].victim] = Without(@, st)]
           /\ done' = [done EXCEPT ![req[r].victim] = @ \ {st}]
           /\ Become(r, [req[r] EXCEPT !.todo = @ \ {st},
                  !.phase = IF req[r].todo = {st} THEN "unlink" ELSE "reap"])
    /\ UNCHANGED <<people, expired, preAuth, device, mishaps, history>>

(* deleteRegisteredUser: the factors go first; then a search document is
   deleted, which throws when it is not there.                             *)
Unlink(r) ==
    /\ req[r].phase = "unlink"
    /\ LET v == req[r].victim
       IN /\ mfa' = [mfa EXCEPT ![v] = {}]
          /\ recovery' = recovery \ {v}
          /\ indexed' = indexed \ {v}
          /\ IF v \in indexed
             THEN Goto(r, "dropUser") /\ UNCHANGED torn
             ELSE Finish(r) /\ torn' = torn \cup {v}
    /\ UNCHANGED <<users, emailToken, store, preAuth, device, mishaps, session,
                   known, verified, finished, overlapped>>

(* IdentityDao.deleteUser, which leaves no row of the user behind.         *)
DropUser(r) ==
    /\ req[r].phase = "dropUser"
    /\ LET v == req[r].victim
       IN /\ users' = [users EXCEPT ![v] = "none"]
          /\ mfa' = [mfa EXCEPT ![v] = {}]
          /\ recovery' = recovery \ {v}
          /\ emailToken' = emailToken \ {v}
          /\ rows' = [rows EXCEPT ![v] = {}]
          /\ done' = [done EXCEPT ![v] = {}]
          /\ expired' = expired \ {v}
          /\ verified' = [verified EXCEPT ![v] = {}]
    /\ CASE req[r].reason = "create" -> Goto(r, "create")
         [] req[r].reason = "cancel" -> Goto(r, "cancel")
         [] OTHER -> Finish(r)
    /\ UNCHANGED <<indexed, preAuth, device, mishaps, session, known, torn,
                   finished, overlapped>>

(* What waits for the registration is told, whether or not there was one.  *)
TellCancelled(r) ==
    /\ req[r].phase = "cancel"
    /\ LET s == req[r].session
       IN /\ device' = IF session[s].kind = "device"
                       THEN [device EXCEPT ![s] = "Cancelled"] ELSE device
          /\ preAuth' = IF session[s].kind = "application"
                        THEN [preAuth EXCEPT ![s] = "gone"] ELSE preAuth
    /\ Finish(r)
    /\ UNCHANGED <<people, store, mishaps, history>>

-----------------------------------------------------------------------------
(* Time, the clean-up job, and requests that die.                          *)

(* Twelve hours; no request that inserts the rows takes that long.         *)
Expire(s) ==
    /\ rows[s] # {}
    /\ s \notin expired
    /\ \A q \in Requests : ~(Active(q, s) /\ req[q].phase = "insert")
    /\ expired' = expired \cup {s}
    /\ Mishap
    /\ UNCHANGED <<people, rows, done, preAuth, device, req, history>>

(* Five minutes.                                                           *)
ExpirePreAuth(s) ==
    /\ session[s].kind = "application"
    /\ preAuth[s] = "live"
    /\ preAuth' = [preAuth EXCEPT ![s] = "expired"]
    /\ Mishap
    /\ UNCHANGED <<people, store, device, req, history>>

(* IdentityDao.deleteExpiredData: one statement, and rows only.            *)
DeleteExpiredData ==
    /\ \E s \in expired : rows[s] # {}
    /\ rows' = [s \in Sessions |-> IF s \in expired THEN {} ELSE rows[s]]
    /\ done' = [s \in Sessions |-> IF s \in expired THEN {} ELSE done[s]]
    /\ UNCHANGED <<people, expired, preAuth, device, req, mishaps, history>>

(* The server stops, or the store or the search engine answers with an
   error.                                                                  *)
Die(r) ==
    /\ req[r].phase # "idle"
    /\ Mishap
    /\ torn' = IF TearingDown(r, req[r].victim) THEN torn \cup {req[r].victim} ELSE torn
    /\ Finish(r)
    /\ UNCHANGED <<people, store, preAuth, device, session, known, verified,
                   finished, overlapped>>

-----------------------------------------------------------------------------
Continue(r) ==
    \/ CreateUser(r) \/ IndexUser(r) \/ InsertRow(r)
    \/ CheckStep(r) \/ FailStep(r) \/ UseToken(r) \/ WriteUser(r) \/ PersistRow(r)
    \/ LoadUser(r) \/ EnableUser(r) \/ ApproveDevice(r)
    \/ ReadPreAuth(r) \/ ConsumePreAuth(r) \/ SaveCode(r) \/ DeleteRow(r)
    \/ ReapRow(r) \/ Unlink(r) \/ DropUser(r) \/ TellCancelled(r)

Request(r) ==
    \/ \E s \in Sessions, a \in Addresses : \E kind \in Kinds[s] :
           RegisterUser(r, s, kind, a)
    \/ \E s \in Sessions, skip \in BOOLEAN : HandleStep(r, s, skip)
    \/ \E s \in Sessions : CancelRegistration(r, s)

Next ==
    \/ \E r \in Requests : Continue(r) \/ Request(r) \/ Die(r)
    \/ \E s \in Sessions : Expire(s) \/ ExpirePreAuth(s)
    \/ DeleteExpiredData

Spec == Init /\ [][Next]_vars

-----------------------------------------------------------------------------
(* Types: a row, a user or a request never leaves its set of values, and a
   step is COMPLETE only as long as its row is there.                      *)
TypeOK ==
    /\ users \in [Sessions -> UserStates]
    /\ indexed \subseteq Sessions
    /\ mfa \in [Sessions -> SUBSET MfaTypes]
    /\ recovery \subseteq Sessions
    /\ emailToken \subseteq Sessions
    /\ rows \in [Sessions -> SUBSET StepList]
    /\ done \in [Sessions -> SUBSET StepList]
    /\ \A s \in Sessions : done[s] \subseteq rows[s]
    /\ expired \subseteq Sessions
    /\ preAuth \in [Sessions -> {"live", "expired", "gone"}]
    /\ device \in [Sessions -> {"Pending", "Approved", "Cancelled"}]
    /\ req \in [Requests -> ReqStates]
    /\ mishaps \in 0 .. MaxMishaps
    /\ session \in [Sessions ->
           [kind : RegistrationKinds \cup {"none"}, address : Addresses]]
    /\ known \subseteq Sessions
    /\ verified \in [Sessions -> SUBSET Steps]
    /\ torn \subseteq Sessions
    /\ finished \subseteq Sessions
    /\ overlapped \subseteq Sessions

Granting(r, s) ==
    req[r].phase \in {"approve", "save", "sign"} /\ req[r].session = s

Required == StepList \ {"Redirect"}

BeingTakenApart(s) == s \in torn \/ \E r \in Requests : TearingDown(r, s)

(* A user is enabled, and gets a code, a token or a device, only when each
   step of the registration was passed or, where it is optional, skipped:
   however requests of the session overlap, repeat steps or die, unless the
   session is taken apart at that very time, which ends with the user
   deleted (or stopped half-way).                                          *)
EnabledIsVerified ==
    \A s \in Sessions :
        (users[s] = "enabled" \/ \E r \in Requests : Granting(r, s)) =>
            \/ Required \subseteq verified[s]
            \/ users[s] = "none"
            \/ BeingTakenApart(s)

(* The rows of a registration never outlive its user: an address is under
   registration once, since the user's address is unique, and whoever takes
   the registration of an address apart finds the user to delete.          *)
RowsHaveTheirUser ==
    \A s \in Sessions : rows[s] # {} => users[s] # "none"

(* Once a registration was answered with success, and no two requests for it
   overlapped, its user is there, enabled, for good: neither its expiry
   nor a late cancel nor a new registration of the address undoes it.      *)
FinishedStays ==
    \A s \in finished \ overlapped : users[s] = "enabled" /\ rows[s] = {}

(* A registration as RegistrationPromise sees it.                          *)
StageOf(s) ==
    IF users[s] = "none" THEN "none"
    ELSE IF BeingTakenApart(s) THEN "closing"
    ELSE IF users[s] = "enabled" THEN "enabled"
    ELSE "pending"

MissingOf(s) == IF StageOf(s) = "pending" THEN Required \ verified[s] ELSE {}

Promise == INSTANCE RegistrationPromise
    WITH Registrations <- Sessions,
         Demands <- Required,
         holder <- [a \in Addresses |-> HolderOf(a)],
         stage <- [s \in Sessions |-> StageOf(s)],
         missing <- [s \in Sessions |-> MissingOf(s)]

(* However requests overlap, repeat, expire or die, the server keeps the
   promise of RegistrationPromise: one registration at a time holds an
   address, which it loses only by being taken apart; everything the tenant
   demands is asked for anew, and the account enabled when none is missing.  *)
RegistrationKept == Promise!Spec

(* A registration that was abandoned can be found by its rows and its user
   deleted for the next one, as registerUser says it does.                 *)
AbandonedIsFreed ==
    \A s \in Sessions : users[s] = "disabled" /\ s \in expired =>
        rows[s] # {} \/ BeingTakenApart(s)

=============================================================================
