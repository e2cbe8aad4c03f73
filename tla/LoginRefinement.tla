---------------------------- MODULE LoginRefinement ----------------------------
(* Proof that the login state machine keeps the promise of LoginPromise,   *)
(* whatever the sessions, requests, users and tenant settings are.         *)
EXTENDS AuthenticationSessionProofs

-----------------------------------------------------------------------------
(* What the safety invariant leaves open: a token nobody has been given    *)
(* has no past, and only a restarted login has shown the e-mailed token.   *)
Past(s) ==
    /\ session[s].kind = "none" => s \notin disturbed \cup granted
    /\ s \notin reset \cup disturbed => "ValidatePasswordResetToken" \notin verified[s]

PromiseInv == IInv /\ \A s \in Sessions : Past(s)

Abstract == <<[s \in Sessions |-> LoginOf(s)], [s \in Sessions |-> MissingOf(s)]>>

(* The promise sees nothing of the step in session s.                      *)
Unseen(s) == LoginOf(s)' = LoginOf(s) /\ MissingOf(s)' = MissingOf(s)

(* Only session t takes part in the step.                                  *)
Elsewhere(t) == \A s \in Sessions \ {t} : Unseen(s) /\ Past(s)'

LEMMA AllUnseen ==
    ASSUME \A s \in Sessions : Unseen(s)
    PROVE  UNCHANGED Abstract
  BY DEF Unseen, Abstract

LEMMA OneSession ==
    ASSUME NEW t \in Sessions, Elsewhere(t)
    PROVE  /\ [s \in Sessions |-> LoginOf(s)]' =
                  [[s \in Sessions |-> LoginOf(s)] EXCEPT ![t] = LoginOf(t)']
           /\ [s \in Sessions |-> MissingOf(s)]' =
                  [[s \in Sessions |-> MissingOf(s)] EXCEPT ![t] = MissingOf(t)']
  BY DEF Elsewhere, Unseen

(* A session keeps its past and its face when nothing of it changes.       *)
LEMMA SameSession ==
    ASSUME NEW s \in Sessions, Past(s), session'[s] = session[s],
           verified'[s] = verified[s], s \in reset' <=> s \in reset,
           s \in disturbed' <=> s \in disturbed, s \in granted' <=> s \in granted
    PROVE  Unseen(s) /\ Past(s)'
<1>1. Required(s)' = Required(s)
  BY RequiredSame
<1>2. QED
  BY <1>1 DEF Unseen, Past, LoginOf, MissingOf

LEMMA QuietKeeps ==
    ASSUME PromiseInv, UNCHANGED <<session, verified, reset, disturbed, granted>>
    PROVE  /\ UNCHANGED Abstract
           /\ \A s \in Sessions : Past(s)'
<1>1. \A s \in Sessions : Unseen(s) /\ Past(s)'
  BY SameSession DEF PromiseInv
<1>2. QED
  BY <1>1, AllUnseen

Kept == (Promise!Next \/ UNCHANGED Abstract) /\ \A s \in Sessions : Past(s)'

-----------------------------------------------------------------------------
(* One lemma per kind of step.                                             *)

(* A factor is shown, or shown again.                                      *)
LEMMA ShowKept ==
    ASSUME PromiseInv, NEW r \in Requests, NEW t \in Sessions, Active(r, t),
           NEW st, st = req[r].step, req[r].phase \in Stepping, Verified(r),
           UNCHANGED <<session, reset, disturbed, granted>>
    PROVE  Kept
<1>1. /\ TypeOK /\ session[t].kind # "none"
      /\ t \notin disturbed => RequestInv(r, t)
  BY ActiveSession DEF PromiseInv, Active
<1>2. verified' = [verified EXCEPT ![t] = @ \cup {st}]
  BY DEF Verified, Active
<1>3. verified'[t] = verified[t] \cup {st} /\ \A s \in Sessions \ {t} : verified'[s] = verified[s]
  BY <1>1, <1>2 DEF TypeOK
<1>4. Elsewhere(t)
  BY <1>3, SameSession DEF Elsewhere, PromiseInv
<1>5. Past(t)'
  <2>1. CASE t \in reset \cup disturbed
    BY <1>1, <2>1 DEF Past
  <2>2. CASE t \notin reset \cup disturbed
    <3>1. st \in Present(req[r].list) /\ Shaped(req[r].list, t)
      BY <1>1, <2>2 DEF RequestInv
    <3>2. st # "ValidatePasswordResetToken"
      BY <2>2, <3>1 DEF Present, Shaped
    <3>3. QED
      BY <1>1, <1>3, <2>2, <3>2 DEF Past, PromiseInv
  <2>3. QED
    BY <2>1, <2>2
<1>6. LoginOf(t)' = LoginOf(t) /\ Required(t)' = Required(t)
  BY <1>1, RequiredSame DEF LoginOf
<1>7. CASE LoginOf(t) = "open" /\ st \in MissingOf(t)
  <2>1. MissingOf(t)' = MissingOf(t) \ {st}
    BY <1>3, <1>6, <1>7 DEF MissingOf
  <2>2. Promise!Show(t)
    BY <1>1, <1>4, <1>6, <1>7, <2>1, OneSession DEF Promise!Show
  <2>3. QED
    BY <1>1, <1>4, <1>5, <2>2 DEF Kept, Elsewhere, Promise!Next
<1>8. CASE ~(LoginOf(t) = "open" /\ st \in MissingOf(t))
  <2>1. Unseen(t)
    BY <1>3, <1>6, <1>8 DEF MissingOf, Unseen
  <2>2. QED
    BY <1>4, <1>5, <2>1, AllUnseen DEF Kept, Elsewhere
<1>9. QED
  BY <1>7, <1>8

(* Access is granted by a request that completes the login.                *)
LEMMA GrantKept ==
    ASSUME PromiseInv, NEW r \in Requests, NEW t \in Sessions, Active(r, t),
           req[r].phase \in Completing, granted' = granted \cup {t},
           UNCHANGED <<session, verified, reset, disturbed>>
    PROVE  Kept
<1>1. /\ session[t].kind # "none"
      /\ t \notin disturbed => RequestInv(r, t)
  BY ActiveSession DEF PromiseInv, Active
<1>2. Elsewhere(t)
  BY SameSession DEF Elsewhere, PromiseInv
<1>3. Past(t)'
  BY <1>1 DEF Past, PromiseInv
<1>4. CASE LoginOf(t) = "open"
  <2>1. t \notin disturbed
    BY <1>4 DEF LoginOf
  <2>2. MissingOf(t) = {}
    BY <1>1, <2>1 DEF RequestInv, MissingOf
  <2>3. LoginOf(t)' = "granted" /\ MissingOf(t)' = {}
    BY <1>1, <2>1 DEF LoginOf, MissingOf
  <2>4. [s \in Sessions |-> MissingOf(s)]' = [s \in Sessions |-> MissingOf(s)]
    BY <1>2, <2>2, <2>3 DEF Elsewhere, Unseen
  <2>5. Promise!Grant(t)
    BY <1>1, <1>2, <1>4, <2>2, <2>3, <2>4, OneSession DEF Promise!Grant
  <2>6. QED
    BY <1>1, <1>2, <1>3, <2>5 DEF Kept, Elsewhere, Promise!Next
<1>5. CASE LoginOf(t) # "open"
  <2>1. Unseen(t)
    BY <1>1, <1>5 DEF LoginOf, MissingOf, Unseen
  <2>2. QED
    BY <1>2, <1>3, <2>1, AllUnseen DEF Kept, Elsewhere
<1>6. QED
  BY <1>4, <1>5

(* The list of a session is taken apart.                                   *)
LEMMA BreakKept ==
    ASSUME PromiseInv, NEW t \in Sessions, session[t].kind # "none",
           disturbed' = disturbed \cup {t},
           UNCHANGED <<session, verified, reset, granted>>
    PROVE  Kept
<1>1. Elsewhere(t)
  BY SameSession DEF Elsewhere, PromiseInv
<1>2. Past(t)'
  BY DEF Past
<1>3. LoginOf(t)' = "broken" /\ MissingOf(t)' = {}
  BY DEF LoginOf, MissingOf
<1>4. CASE LoginOf(t) \in {"open", "granted"}
  <2>1. Promise!Break(t)
    BY <1>1, <1>3, <1>4, OneSession DEF Promise!Break
  <2>2. QED
    BY <1>1, <1>2, <2>1 DEF Kept, Elsewhere, Promise!Next
<1>5. CASE LoginOf(t) \notin {"open", "granted"}
  <2>1. LoginOf(t) = "broken" /\ MissingOf(t) = {}
    BY <1>5 DEF LoginOf, MissingOf
  <2>2. QED
    BY <1>1, <1>2, <1>3, <2>1, AllUnseen DEF Kept, Elsewhere, Unseen
<1>6. QED
  BY <1>4, <1>5

LEMMA DisturbKept ==
    ASSUME PromiseInv, NEW t \in Sessions,
           \/ disturbed' = disturbed
           \/ session[t].kind # "none" /\ disturbed' = disturbed \cup {t},
           UNCHANGED <<session, verified, reset, granted>>
    PROVE  Kept
<1>1. CASE disturbed' = disturbed
  BY <1>1, QuietKeeps DEF Kept
<1>2. CASE session[t].kind # "none" /\ disturbed' = disturbed \cup {t}
  BY <1>2, BreakKept
<1>3. QED
  BY <1>1, <1>2

(* The rows of a login are replaced because the password was forgotten.    *)
LEMMA ForgetKept ==
    ASSUME PromiseInv, NEW r \in Requests, NEW t \in Sessions, Active(r, t),
           InsertNewStates(r)
    PROVE  Kept
<1>1. /\ session[t].kind # "none"
      /\ t \notin disturbed => RequestInv(r, t)
  BY ActiveSession DEF PromiseInv, Active
<1>2. /\ reset' = reset \cup {t}
      /\ UNCHANGED <<session, verified, disturbed, granted>>
  BY DEF InsertNewStates, outcome, Active
<1>3. Elsewhere(t)
  BY <1>2, SameSession DEF Elsewhere, PromiseInv
<1>4. Past(t)'
  BY <1>1, <1>2 DEF Past
<1>5. LoginOf(t)' = LoginOf(t)
  BY <1>1, <1>2 DEF LoginOf
<1>6. CASE LoginOf(t) = "open" /\ t \notin reset
  <2>1. "ValidatePasswordResetToken" \notin verified[t]
    BY <1>1, <1>6 DEF LoginOf, Past, PromiseInv
  <2>2. MissingOf(t)' =
            (MissingOf(t) \ {"EnterPassword"}) \cup {"ValidatePasswordResetToken"}
    BY <1>1, <1>2, <1>5, <1>6, <2>1 DEF MissingOf, Required
  <2>3. Promise!Forget(t)
    BY <1>1, <1>3, <1>5, <1>6, <2>2, OneSession DEF Promise!Forget
  <2>4. QED
    BY <1>1, <1>3, <1>4, <2>3 DEF Kept, Elsewhere, Promise!Next
<1>7. CASE ~(LoginOf(t) = "open" /\ t \notin reset)
  <2>1. Unseen(t)
    BY <1>1, <1>2, <1>5, <1>7 DEF MissingOf, Required, Unseen
  <2>2. QED
    BY <1>3, <1>4, <2>1, AllUnseen DEF Kept, Elsewhere
<1>8. QED
  BY <1>6, <1>7

(* A login begins: the factors it asks for are chosen.                     *)
LEMMA AskKept ==
    ASSUME PromiseInv, NEW t \in Sessions, NEW u \in Users, NEW kind \in Kinds,
           NEW p \in PreAuths, NEW overdue \in Rotates,
           HandleUserNameInput(t, u, kind, p, overdue), TypeOK'
    PROVE  Kept
<1>1. session[t].kind = "none" /\ UNCHANGED <<verified, reset, disturbed, granted>>
  BY DEF HandleUserNameInput, outcome
<1>2. t \notin disturbed \cup granted \cup reset
  BY <1>1 DEF PromiseInv, IInv, Past, Unused
<1>3. \A s \in Sessions \ {t} : session'[s] = session[s]
  BY DEF HandleUserNameInput, PromiseInv, IInv, TypeOK
<1>4. session'[t].kind = kind
  BY DEF HandleUserNameInput, PromiseInv, IInv, TypeOK
<1>5. kind # "none"
  BY ConstantsOk DEF LoginKinds
<1>6. Elsewhere(t)
  BY <1>1, <1>3, SameSession DEF Elsewhere, PromiseInv
<1>7. Past(t)'
  BY <1>1, <1>2, <1>4, <1>5 DEF Past, PromiseInv
<1>8. LoginOf(t) = "none" /\ LoginOf(t)' = "open"
  BY <1>1, <1>2, <1>4, <1>5 DEF LoginOf
<1>9. Required(t)' \in SUBSET Factors
  BY FactorNames DEF TypeOK, SessionRows, Required
<1>10. MissingOf(t)' \in SUBSET Factors
  BY <1>8, <1>9 DEF MissingOf
<1>11. Promise!Ask(t)
  BY <1>6, <1>8, <1>10, OneSession DEF Promise!Ask
<1>12. QED
  BY <1>6, <1>7, <1>11 DEF Kept, Elsewhere, Promise!Next

-----------------------------------------------------------------------------
(* Every step, action by action.                                           *)

LEMMA SubmitKept ==
    ASSUME PromiseInv, NEW r \in Requests, NEW s \in Sessions, Submit(r, s)
    PROVE  Kept
<1>1. PICK st \in Steps, phase \in Phases : Begin(r, s, st, phase)
  <2>1. {"readUser", "expire", "forgot", "cancelRead"} \subseteq Phases
    BY PhaseTypes DEF Phases, Stepping, TearingDown
  <2>2. Factors \subseteq Steps /\ "EnterPassword" \in Steps
    BY FactorNames DEF Factors
  <2>3. QED
    BY <2>1, <2>2 DEF Submit, ValidateAuthenticationStep, ValidateExpiredStep,
       BeginForgotPassword, BeginCancel
<1>2. UNCHANGED <<session, verified, reset, granted>>
  BY <1>1 DEF Begin, history, outcome
<1>3. disturbed' = disturbed \/ (disturbed' = disturbed \cup {s} /\ session[s].kind # "none")
  <2>1. CASE \E q \in Requests \ {r} : Active(q, s)
               /\ (phase \in TearingDown \/ req[q].phase \in TearingDown)
    <3>1. session[s].kind # "none"
      BY <2>1 DEF PromiseInv, IInv, Unused
    <3>2. QED
      BY <1>1, <2>1, <3>1 DEF Begin, Disturb
  <2>2. CASE ~(\E q \in Requests \ {r} : Active(q, s)
                 /\ (phase \in TearingDown \/ req[q].phase \in TearingDown))
    BY <1>1, <2>2 DEF Begin, Disturb
  <2>3. QED
    BY <2>1, <2>2
<1>4. QED
  BY <1>2, <1>3, DisturbKept

LEMMA AbortKept ==
    ASSUME PromiseInv, NEW r \in Requests, Abort(r)
    PROVE  Kept
<1>1. PICK t \in Sessions : t = req[r].session /\ session[t].kind # "none"
  BY ActiveSession DEF PromiseInv, Abort
<1>2. QED
  BY <1>1, DisturbKept DEF Abort, history, outcome

LEMMA CheckKept ==
    ASSUME PromiseInv, NEW r \in Requests, Check(r)
    PROVE  Kept
<1>1. CASE AttemptFails(r) \/ CheckRefused(r)
  <2>1. UNCHANGED <<session, verified, reset, disturbed, granted>>
    BY <1>1 DEF AttemptFails, CheckRefused, history, outcome
  <2>2. QED
    BY <2>1, QuietKeeps DEF Kept
<1>2. CASE ~(AttemptFails(r) \/ CheckRefused(r))
  <2>1. /\ req[r].phase = "check" /\ Verified(r)
        /\ UNCHANGED <<session, reset, disturbed, granted>>
    BY <1>2 DEF Check, Checking, AttemptSucceeds, AuthenticateUserUnderDuress,
       AuthenticateUserAndMigrate, AuthenticateVerifyEmailAddress,
       AuthenticateConfigureTOTP, AuthenticateRegisterSecurityKey,
       AuthenticateAcceptTermsAndConditions, AuthenticateRotatePassword,
       AuthenticateValidatePasswordResetToken, outcome
  <2>2. PICK t \in Sessions : Active(r, t)
    BY <2>1, ActiveSession DEF PromiseInv
  <2>3. QED
    BY <2>1, <2>2, ShowKept DEF Stepping
<1>3. QED
  BY <1>1, <1>2

LEMMA CompleteKept ==
    ASSUME PromiseInv, NEW r \in Requests, Complete(r)
    PROVE  Kept
<1>1. CASE ApproveDevice(r) \/ ReadPreAuth(r) \/ ConsumePreAuth(r)
  <2>1. UNCHANGED <<session, verified, reset, disturbed, granted>>
    BY <1>1 DEF ApproveDevice, ReadPreAuth, ConsumePreAuth, history, outcome
  <2>2. QED
    BY <2>1, QuietKeeps DEF Kept
<1>2. CASE SaveAuthorizationCode(r)
  <2>1. /\ req[r].phase \in Completing /\ granted' = granted \cup {req[r].session}
        /\ UNCHANGED <<session, verified, reset, disturbed>>
    BY <1>2 DEF SaveAuthorizationCode, Completing, history
  <2>2. PICK t \in Sessions : t = req[r].session /\ Active(r, t)
    BY <2>1, ActiveSession DEF PromiseInv, Completing
  <2>3. QED
    BY <2>1, <2>2, GrantKept
<1>3. CASE SignPortalToken(r)
  <2>1. /\ req[r].phase \in Completing
        /\ granted' = granted \cup {req[r].session} \/ granted' = granted
        /\ UNCHANGED <<session, verified, reset, disturbed>>
    BY <1>3 DEF SignPortalToken, Completing, history
  <2>2. PICK t \in Sessions : t = req[r].session /\ Active(r, t)
    BY <2>1, ActiveSession DEF PromiseInv, Completing
  <2>3. QED
    BY <2>1, <2>2, GrantKept, QuietKeeps DEF Kept
<1>4. QED
  BY <1>1, <1>2, <1>3 DEF Complete

LEMMA ContinueKept ==
    ASSUME PromiseInv, NEW r \in Requests, Continue(r)
    PROVE  Kept
<1>1. CASE Check(r)
  BY <1>1, CheckKept
<1>2. CASE Complete(r)
  BY <1>2, CompleteKept
<1>3. CASE InsertNewStates(r)
  <2>1. PICK t \in Sessions : Active(r, t)
    BY <1>3, ActiveSession DEF PromiseInv, InsertNewStates
  <2>2. QED
    BY <1>3, <2>1, ForgetKept
<1>4. CASE ~Check(r) /\ ~Complete(r) /\ ~InsertNewStates(r)
  <2>1. UNCHANGED <<session, verified, reset, disturbed, granted>>
    BY <1>4 DEF Continue, ReadUser, WriteUser, InsertDuressEvent, PersistStep,
       DeleteUserAuthenticationState, RowsDeleted, SavePasswordResetToken,
       CancelDevice, DeleteCancelledPreAuth, CancelDone, history, outcome
  <2>2. QED
    BY <2>1, QuietKeeps DEF Kept
<1>5. QED
  BY <1>1, <1>2, <1>3, <1>4

LEMMA NextKept == PromiseInv /\ [Next]_vars => PromiseInv' /\ [Promise!Next]_Abstract
<1> SUFFICES ASSUME PromiseInv, [Next]_vars
             PROVE  PromiseInv' /\ [Promise!Next]_Abstract
  OBVIOUS
<1>1. IInv' /\ TypeOK'
  BY NextInv DEF PromiseInv, IInv
<1>2. Kept
  <2>1. CASE \E s \in Sessions, u \in Users, kind \in Kinds, p \in PreAuths,
                overdue \in Rotates : HandleUserNameInput(s, u, kind, p, overdue)
    BY <1>1, <2>1, AskKept
  <2>2. CASE \E r \in Requests, s \in Sessions : Submit(r, s)
    BY <2>2, SubmitKept
  <2>3. CASE \E r \in Requests : Continue(r)
    BY <2>3, ContinueKept
  <2>4. CASE \E r \in Requests : Abort(r)
    BY <2>4, AbortKept
  <2>5. CASE \/ \E s \in Sessions : Expire(s)
             \/ \E p \in PreAuths : ExpirePreAuth(p)
             \/ \E t \in Sessions : ExpireResetToken(t)
             \/ DeleteExpiredData
             \/ \E u \in Users : UnlockUser(u)
    <3>1. UNCHANGED <<session, verified, reset, disturbed, granted>>
      BY <2>5 DEF Expire, ExpirePreAuth, ExpireResetToken, DeleteExpiredData,
         UnlockUser, history, outcome
    <3>2. QED
      BY <3>1, QuietKeeps DEF Kept
  <2>6. CASE UNCHANGED vars
    <3>1. UNCHANGED <<session, verified, reset, disturbed, granted>>
      BY <2>6 DEF vars, history, outcome
    <3>2. QED
      BY <3>1, QuietKeeps DEF Kept
  <2>7. QED
    BY <2>1, <2>2, <2>3, <2>4, <2>5, <2>6 DEF Next
<1>3. QED
  BY <1>1, <1>2 DEF Kept, PromiseInv

LEMMA InitKept == Init => PromiseInv /\ Promise!Init
<1> SUFFICES ASSUME Init PROVE PromiseInv /\ Promise!Init
  OBVIOUS
<1>1. IInv
  BY InitInv
<1>2. \A s \in Sessions : session[s].kind = "none" /\ verified[s] = {}
          /\ s \notin disturbed \cup granted
  BY DEF Init
<1>3. \A s \in Sessions : LoginOf(s) = "none" /\ MissingOf(s) = {}
  BY <1>2 DEF LoginOf, MissingOf
<1>4. QED
  BY <1>1, <1>2, <1>3 DEF PromiseInv, Past, Promise!Init

(* The login state machine implements the promise: for every number of
   sessions and requests, whatever is retried, forgotten, cancelled or dies,
   access is granted only to a login of which no factor is missing, unless
   the list of that login was taken apart under a request.                 *)
THEOREM KeepsPromise == Spec => PromiseKept
<1>1. Init => PromiseInv /\ Promise!Init
  BY InitKept
<1>2. PromiseInv /\ [Next]_vars => PromiseInv' /\ [Promise!Next]_(Promise!promise)
  BY NextKept DEF Abstract, Promise!promise
<1>3. QED
  BY <1>1, <1>2, PTL DEF Spec, PromiseKept, Promise!Spec

=============================================================================
