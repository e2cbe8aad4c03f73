----------------------------- MODULE LoginFailures -----------------------------
(***************************************************************************)
(* The login-failure policy of a tenant:                                   *)
(* AuthenticateUserService.validateAuthenticationAttempt, which every      *)
(* password, one-time password and security key goes through.              *)
(*                                                                         *)
(* A wrong secret adds a row with the count of failures so far and removes *)
(* the rows that were read before; enough of them lock the user.  Nothing  *)
(* is atomic: the rows are read, the secret is checked, a row is added,    *)
(* the user row is written back whole, and two of the deletions are not    *)
(* waited for.  Other handlers write the same user row meanwhile.          *)
(*                                                                         *)
(* One user of one tenant.  A failure is dated by its rank among all the   *)
(* failures judged; Date.now() gives two of them the same time only when   *)
(* they are judged within a millisecond, which is left out.  So is an      *)
(* attempt whose secret cannot be judged (no credential is stored, or the  *)
(* check throws): it leaves nothing behind.                                *)
(***************************************************************************)
EXTENDS Naturals, FiniteSets

CONSTANTS
    Requests,       \* requests that may be in flight at the same time
    Threshold,      \* failureThreshold of the policy that locks
    PauseThreshold, \* failureThreshold of the policy that pauses
    Maximum,        \* maximumLoginFailures of the policy that pauses
    Writers,        \* handlers of the user row that may run
    MaxWrong,       \* bound on the failures judged
    MaxRight,       \* bound on the successful attempts
    MaxMishaps      \* bound on policy changes, administration and deaths

Policies == {"LOCK_USER_ACCOUNT", "PAUSE"}
RowWriters == {"unlockUser", "updateUser", "markForDelete", "swapEmails"}

ASSUME ConstantsOk ==
    /\ {Threshold, PauseThreshold, Maximum} \subseteq Nat \ {0}
    /\ Writers \subseteq RowWriters
    /\ {MaxWrong, MaxRight, MaxMishaps} \subseteq Nat

-----------------------------------------------------------------------------
VARIABLES
    user,           \* the row of the users table
    failed,         \* rows of user_failed_login
    policy,         \* loginFailurePolicyType of the tenant
    req,            \* [Requests -> what the request holds between two awaits]
    removals,       \* rows whose deletion was started and not waited for
    resets,         \* deletions of all rows started and not waited for
    mishaps,        \* how often the policy, the user or a request was disturbed
    wrong,          \* wrong secrets judged so far
    right,          \* right secrets judged so far
    overlapped,     \* were two attempts in flight at the same time
    disturbed       \* did an attempt succeed, a request die, or another
                    \* handler write the user row

vars == <<user, failed, policy, req, removals, resets, mishaps, wrong, right,
          overlapped, disturbed>>
history == <<wrong, right, overlapped, disturbed>>

Users == [locked : BOOLEAN, enabled : BOOLEAN, marked : BOOLEAN]

(* nextLoginNotBefore: the time of the failure itself, the end of a pause
   that has not passed, or Number.MAX_SAFE_INTEGER.                        *)
Untils == {"now", "pause", "never"}
Failures == [at : 1 .. MaxWrong, count : 1 .. MaxWrong, until : Untils]

AttemptPhases == {"list", "judge", "add", "lock", "complete"}
ReqStates == [
    phase : AttemptPhases \cup RowWriters \cup {"idle"},
    row : Users,                  \* the user row as it was read
    list : SUBSET Failures,       \* the failures as they were read
    at : 0 .. MaxWrong,           \* nowMs
    count : 0 .. MaxWrong,        \* failureCount
    until : Untils,               \* nextLoginTime
    lock : BOOLEAN]               \* lockUser

NewUser == [locked |-> FALSE, enabled |-> TRUE, marked |-> FALSE]
Idle == [phase |-> "idle", row |-> NewUser, list |-> {}, at |-> 0, count |-> 0,
         until |-> "now", lock |-> FALSE]

Attempting(r) == req[r].phase \in AttemptPhases
Become(r, state) == req' = [req EXCEPT ![r] = state]
Finish(r) == Become(r, Idle)

Mishap ==
    /\ mishaps < MaxMishaps
    /\ mishaps' = mishaps + 1

Init ==
    /\ user = NewUser
    /\ failed = {}
    /\ policy \in Policies
    /\ req = [r \in Requests |-> Idle]
    /\ removals = {}
    /\ resets = 0
    /\ mishaps = 0
    /\ wrong = 0
    /\ right = 0
    /\ overlapped = FALSE
    /\ disturbed = FALSE

-----------------------------------------------------------------------------
(* An attempt: authenticateUser, authenticateValidateTOTP or               *)
(* authenticateValidateSecurityKey.                                        *)

(* The user row is read; the password step looks at all three flags, the
   others, in validateAuthenticationAttempt, at the lock only.             *)
MayAttempt(row, password) ==
    /\ ~row.locked
    /\ password => row.enabled /\ ~row.marked

BeginAttempt(r, password) ==
    /\ req[r].phase = "idle"
    /\ MayAttempt(user, password)
    /\ Become(r, [Idle EXCEPT !.phase = "list", !.row = user])
    /\ overlapped' = (overlapped \/ \E q \in Requests : Attempting(q))
    /\ UNCHANGED <<user, failed, policy, removals, resets, mishaps, wrong, right,
                   disturbed>>

ListFailures(r) ==
    /\ req[r].phase = "list"
    /\ Become(r, [req[r] EXCEPT !.phase = "judge", !.list = failed])
    /\ UNCHANGED <<user, failed, policy, removals, resets, mishaps, history>>

(* Operators whose names end in _Faulty are mistakes the code could contain;
   they are used only to see that the properties notice them.              *)
NextCount_Faulty(list) ==
    IF list = {} THEN 1
    ELSE (CHOOSE f \in list : \A g \in list : g.at <= f.at).count
         + Cardinality(list) + 1

(* One more than the latest of the failures that were read.                *)
NextCount(list) ==
    IF list = {} THEN 1
    ELSE (CHOOSE f \in list : \A g \in list : g.at <= f.at).count + 1

Locks_Faulty(count) == count > Threshold
Locks_Early_Faulty(count) == count + 1 >= Threshold
Locks_Exact_Faulty(count) ==
    \/ policy = "LOCK_USER_ACCOUNT" /\ count = Threshold
    \/ policy = "PAUSE" /\ count >= Maximum

Locks(count) ==
    \/ policy = "LOCK_USER_ACCOUNT" /\ count >= Threshold
    \/ policy = "PAUSE" /\ count >= Maximum

Pauses(count) ==
    /\ policy = "PAUSE"
    /\ count < Maximum
    /\ count % PauseThreshold = 0

(* Under PAUSE the check of the pause indexes the list with a name that is
   not defined, which throws as soon as there is a failure to look at.     *)
PauseCheckThrows(r) == req[r].list # {} /\ policy = "PAUSE"

TurnAway(r) ==
    /\ req[r].phase = "judge"
    /\ PauseCheckThrows(r)
    /\ Finish(r)
    /\ UNCHANGED <<user, failed, policy, removals, resets, mishaps, history>>

JudgeWrong(r) ==
    /\ req[r].phase = "judge"
    /\ ~PauseCheckThrows(r)
    /\ wrong < MaxWrong
    /\ wrong' = wrong + 1
    /\ LET count == NextCount(req[r].list) IN
       Become(r, [req[r] EXCEPT !.phase = "add", !.at = wrong + 1, !.count = count,
           !.lock = Locks(count),
           !.until = IF Locks(count) THEN "never"
                     ELSE IF Pauses(count) THEN "pause" ELSE "now"])
    /\ UNCHANGED <<user, failed, policy, removals, resets, mishaps, right,
                   overlapped, disturbed>>

(* A right secret starts the deletion of all failures and goes on at once. *)
JudgeRight(r) ==
    /\ req[r].phase = "judge"
    /\ ~PauseCheckThrows(r)
    /\ right < MaxRight
    /\ right' = right + 1
    /\ resets' = resets + 1
    /\ disturbed' = TRUE
    /\ Become(r, [req[r] EXCEPT !.phase = "complete"])
    /\ UNCHANGED <<user, failed, policy, removals, mishaps, wrong, overlapped>>

(* The deletions the handler starts when it is done with a failure.        *)
Started(r) == req[r].list

AddFailedLogin(r) ==
    /\ req[r].phase = "add"
    /\ failed' = failed \cup
           {[at |-> req[r].at, count |-> req[r].count, until |-> req[r].until]}
    /\ IF req[r].lock
       THEN /\ Become(r, [req[r] EXCEPT !.phase = "lock"])
            /\ UNCHANGED removals
       ELSE /\ removals' = removals \cup Started(r)
            /\ Finish(r)
    /\ UNCHANGED <<user, policy, resets, mishaps, history>>

LockUser(r) ==
    /\ req[r].phase = "lock"
    /\ user' = [req[r].row EXCEPT !.locked = TRUE]
    /\ removals' = removals \cup Started(r)
    /\ Finish(r)
    /\ UNCHANGED <<failed, policy, resets, mishaps, history>>

(* The step is completed for the row as it was read.                       *)
CompleteAttempt(r) ==
    /\ req[r].phase = "complete"
    /\ Finish(r)
    /\ UNCHANGED <<user, failed, policy, removals, resets, mishaps, history>>

-----------------------------------------------------------------------------
(* What was started and not waited for.                                    *)

(* A row is found by the user and the time of the failure.                 *)
RemoveFailedLogin ==
    /\ \E f \in removals :
           /\ failed' = {g \in failed : g.at # f.at}
           /\ removals' = removals \ {f}
    /\ UNCHANGED <<user, policy, req, resets, mishaps, history>>

ResetFailedLoginAttempts ==
    /\ resets > 0
    /\ resets' = resets - 1
    /\ failed' = {}
    /\ UNCHANGED <<user, policy, req, removals, mishaps, history>>

-----------------------------------------------------------------------------
(* Other handlers that write the user row: each reads it, looks at it, and *)
(* writes all of it.                                                       *)

BeginWrite(r, writer) ==
    /\ req[r].phase = "idle"
    /\ writer \in Writers
    /\ Mishap
    /\ Become(r, [Idle EXCEPT !.phase = writer, !.row = user])
    /\ UNCHANGED <<user, failed, policy, removals, resets, history>>

(* The portal's form: the resolver builds a row that is neither locked nor
   marked, whatever the row was; the service refuses a marked one.         *)
UpdateUser(r) ==
    /\ ~user.marked
    /\ BeginWrite(r, "updateUser")

UnlockUser(r) == BeginWrite(r, "unlockUser")
MarkForDelete(r) == BeginWrite(r, "markForDelete")
SwapPrimaryAndRecoveryEmail(r) == BeginWrite(r, "swapEmails")

WriteRow(r) ==
    /\ LET row == req[r].row IN
       \/ /\ req[r].phase = "unlockUser"
          /\ user' = [row EXCEPT !.locked = FALSE]
       \/ /\ req[r].phase = "updateUser"
          /\ \E enabled \in BOOLEAN :
                 user' = [locked |-> FALSE, enabled |-> enabled, marked |-> FALSE]
       \/ /\ req[r].phase = "markForDelete"
          /\ user' = [row EXCEPT !.marked = TRUE, !.enabled = FALSE]
       \/ /\ req[r].phase = "swapEmails"
          /\ user' = row
    /\ disturbed' = TRUE
    /\ Finish(r)
    /\ UNCHANGED <<failed, policy, removals, resets, mishaps, wrong, right,
                   overlapped>>

(* setTenantLoginFailurePolicy; removing the policy leaves the default,
   which locks.                                                            *)
SetTenantLoginFailurePolicy(p) ==
    /\ p # policy
    /\ Mishap
    /\ policy' = p
    /\ UNCHANGED <<user, failed, req, removals, resets, history>>

(* A pause passes.                                                         *)
PassPause ==
    /\ \E f \in failed : f.until = "pause"
    /\ failed' = {IF f.until = "pause" THEN [f EXCEPT !.until = "now"] ELSE f :
                     f \in failed}
    /\ UNCHANGED <<user, policy, req, removals, resets, mishaps, history>>

Die(r) ==
    /\ req[r].phase # "idle"
    /\ Mishap
    /\ Finish(r)
    /\ disturbed' = TRUE
    /\ UNCHANGED <<user, failed, policy, removals, resets, wrong, right, overlapped>>

-----------------------------------------------------------------------------
Attempt(r) ==
    \/ \E password \in BOOLEAN : BeginAttempt(r, password)
    \/ ListFailures(r) \/ TurnAway(r) \/ JudgeWrong(r) \/ JudgeRight(r)
    \/ AddFailedLogin(r) \/ LockUser(r) \/ CompleteAttempt(r)

Write(r) ==
    \/ UpdateUser(r) \/ UnlockUser(r) \/ MarkForDelete(r)
    \/ SwapPrimaryAndRecoveryEmail(r) \/ WriteRow(r)

Next ==
    \/ \E r \in Requests : Attempt(r) \/ Write(r) \/ Die(r)
    \/ RemoveFailedLogin \/ ResetFailedLoginAttempts \/ PassPause
    \/ \E p \in Policies : SetTenantLoginFailurePolicy(p)

Spec == Init /\ [][Next]_vars

-----------------------------------------------------------------------------
Judged(f) == f.count <= f.at /\ f.at <= wrong

(* Types, and every failure that is stored, held by a request or about to be
   removed was judged and is counted no higher than the number of wrong
   secrets up to then.                                                     *)
TypeOK ==
    /\ user \in Users
    /\ failed \subseteq Failures
    /\ policy \in Policies
    /\ req \in [Requests -> ReqStates]
    /\ removals \subseteq Failures
    /\ resets \in Nat
    /\ mishaps \in 0 .. MaxMishaps
    /\ wrong \in 0 .. MaxWrong
    /\ right \in 0 .. MaxRight
    /\ overlapped \in BOOLEAN
    /\ disturbed \in BOOLEAN
    /\ \A f \in failed \cup removals : Judged(f)
    /\ \A r \in Requests :
           /\ \A f \in req[r].list : Judged(f)
           /\ req[r].phase \in {"add", "lock"} => Judged(req[r])

(* A user is locked only after as many wrong secrets as the policy asks
   for, however attempts interleave and whatever is left over of failures
   that were to be deleted.                                                *)
LockIsEarned ==
    user.locked => wrong >= Threshold \/ wrong >= Maximum

(* Attempts that never overlapped are counted without a gap: with the last
   wrong secret the policy allows, the user is locked or about to be.  The
   deletions nobody waits for never take the latest count away.            *)
LockedInTime ==
    (wrong >= Threshold /\ policy = "LOCK_USER_ACCOUNT" /\ mishaps = 0
        /\ ~overlapped /\ ~disturbed) =>
        \/ user.locked
        \/ \E r \in Requests : req[r].phase \in {"add", "lock"} /\ req[r].lock

(* Attempts that overlap read the same count, or bring an old one back, but
   two clients cannot go on for ever: T(T+1)/2 + 1 wrong secrets at most,
   where the code means T.  A policy that pauses never counts beyond one,
   so with T = 1 it must not be exchanged for the one that locks.          *)
TwoClients == \E r, q \in Requests : r # q /\ Requests = {r, q}

Counting ==
    /\ ~disturbed
    /\ Threshold > 1 \/ (policy = "LOCK_USER_ACCOUNT" /\ mishaps = 0)

GuessesAreBounded ==
    TwoClients /\ Counting => 2 * wrong <= Threshold * (Threshold + 1) + 2

=============================================================================
