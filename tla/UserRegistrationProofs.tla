------------------------ MODULE UserRegistrationProofs ------------------------
(* Proofs about self-registration, whatever the sessions, requests,        *)
(* addresses, settings and mishaps are: only verified users are enabled,   *)
(* rows do not outlive their user, what was finished stays, and the        *)
(* promise of RegistrationPromise is kept.                                 *)
EXTENDS UserRegistration, TLAPS

-----------------------------------------------------------------------------
(* The inductive invariant.                                                *)

Tearing == {"reap", "unlink", "dropUser"}
Stepping == {"check", "useToken", "writeUser", "persist"}
Granted == {"approve", "code", "consume", "discard", "save", "sign", "cleanup"}
Closing == {"load", "enable"} \cup Granted

At(r, s) == Active(r, s) \/ TearingDown(r, s)

(* A request of registerUser which has not answered yet.                   *)
Making(r) ==
    \/ req[r].phase \in {"create", "index", "insert"}
    \/ req[r].phase \in Tearing /\ req[r].reason = "create"

(* The user may be enabled, or is on the way out.  Once true it stays true. *)
Excused(s) ==
    \/ Required \subseteq verified[s]
    \/ users[s] = "none"
    \/ BeingTakenApart(s)

(* A session of which nothing is stored yet.                               *)
Blank(s) ==
    /\ users[s] = "none"
    /\ rows[s] = {}
    /\ s \notin known \cup expired
    /\ \A q \in Requests : ~TearingDown(q, s)

(* The list is as it was made, or swept away by the clean-up job.          *)
Whole(s) == rows[s] \in {{}, StepList} /\ done[s] \subseteq verified[s]

Alone(s) == \A p, q \in Requests : At(p, s) /\ At(q, s) => p = q

Settled(s) ==
    /\ users[s] = "enabled"
    /\ rows[s] = {}
    /\ \A q \in Requests : At(q, s) => req[q].phase = "cancel"

SessionInv(s) ==
    /\ session[s].kind = "none" => Blank(s) /\ \A q \in Requests : ~Active(q, s)
    /\ rows[s] # {} \/ s \in emailToken => users[s] # "none"
    /\ users[s] = "enabled" => Excused(s)
    /\ s \in known => session[s].kind # "none" /\ (Excused(s) \/ Whole(s))
    /\ s \in finished => s \in known
    /\ s \notin overlapped => Alone(s) /\ (s \in finished => Settled(s))

(* registerUser has its session to itself.                                 *)
MakerInv(r, s) ==
    /\ session[s].kind # "none"
    /\ s \notin known \cup expired
    /\ done[s] = {}
    /\ \A q \in Requests : ~TearingDown(q, s)
    /\ \A q \in Requests \ {r} : ~Active(q, s)
    /\ req[r].phase \in Tearing \cup {"create"} => Blank(s)
    /\ req[r].phase \in {"index", "insert"} => users[s] = "disabled"
    /\ req[r].phase = "index" => rows[s] = {}
    /\ req[r].phase = "insert" => req[r].todo \subseteq StepList /\ rows[s] = StepList \ req[r].todo

(* What a step may rely on until it answers.                               *)
StepInv(r, s) ==
    /\ s \in known
    /\ req[r].step \in Required
    /\ rows[s] \subseteq req[r].list
    /\ req[r].phase # "persist" => ~req[r].skip
    /\ req[r].todo \subseteq Completes(req[r].step, req[r].skip)
    /\ req[r].phase \in {"useToken", "writeUser"} =>
           req[r].seen # "none" /\ (req[r].seen = "enabled" => Excused(s))
    /\ \/ Excused(s)
       \/ /\ req[r].list = StepList
          /\ Earlier(StepList, req[r].step) \subseteq verified[s]
          /\ req[r].phase # "check" => Completes(req[r].step, req[r].skip) \subseteq verified[s]

CloseInv(r, s) ==
    /\ s \in known
    /\ Excused(s)
    /\ rows[s] \subseteq req[r].list
    /\ req[r].phase = "cleanup" => rows[s] \subseteq req[r].todo
    /\ s \notin overlapped =>
           /\ req[r].phase = "enable" => users[s] # "none"
           /\ req[r].phase \in Granted => users[s] = "enabled"

RequestInv(r) ==
    /\ Making(r) => MakerInv(r, req[r].session)
    /\ req[r].phase \in Stepping => StepInv(r, req[r].session)
    /\ req[r].phase \in Closing => CloseInv(r, req[r].session)

IInv ==
    /\ TypeOK
    /\ \A s \in Sessions : SessionInv(s)
    /\ \A r \in Requests : RequestInv(r)

-----------------------------------------------------------------------------
(* Facts about the constants.                                              *)

LEMMA StepNames ==
    /\ StepList \subseteq Steps
    /\ "Redirect" \in StepList
    /\ \A st \in Steps : Position[st] \in 1 .. 9
    /\ \A st \in Steps \ {"Redirect"} : Position[st] < Position["Redirect"]
    /\ \A st1, st2 \in Steps : Position[st1] = Position[st2] => st1 = st2
    /\ {"ValidateEmail", "ConfigureTotp", "ValidateTotp", "ConfigureSecurityKey",
        "ValidateSecurityKey", "AddRecoveryEmail", "ValidateRecoveryEmail",
        "AddDuressPassword"} \subseteq Steps
  BY DEF StepList, Steps, Position

LEMMA AnySessionType == AnySession \in Sessions
  BY ConstantsOk DEF ConstantsOk, AnySession

LEMMA IdleType == Idle \in ReqStates
  BY AnySessionType, StepNames DEF Idle, ReqStates, Phases, UserStates, Reasons, Steps

LEMMA IdleFields ==
    /\ Idle.phase = "idle" /\ Idle.session = AnySession /\ Idle.step = "Redirect"
    /\ Idle.skip = FALSE /\ Idle.list = {} /\ Idle.todo = {}
    /\ Idle.victim = AnySession /\ Idle.seen = "none" /\ Idle.reason = "none"
  BY DEF Idle

LEMMA ReqType ==
    ASSUME TypeOK, NEW r \in Requests
    PROVE  /\ req[r] \in ReqStates
           /\ req[r].phase \in Phases /\ req[r].session \in Sessions
           /\ req[r].step \in Steps /\ req[r].skip \in BOOLEAN
           /\ req[r].list \subseteq Steps /\ req[r].todo \subseteq Steps
           /\ req[r].victim \in Sessions /\ req[r].seen \in UserStates
           /\ req[r].reason \in Reasons
  BY DEF TypeOK, ReqStates

OthersSame(r) == \A q \in Requests \ {r} : req'[q] = req[q]

LEMMA BecomeState ==
    ASSUME TypeOK, NEW r \in Requests, NEW state, Become(r, state)
    PROVE  /\ OthersSame(r) /\ req'[r] = state
           /\ state \in ReqStates => req' \in [Requests -> ReqStates]
  BY DEF TypeOK, Become, OthersSame

LEMMA GotoState ==
    ASSUME TypeOK, NEW r \in Requests, NEW phase \in Phases, Goto(r, phase)
    PROVE  /\ OthersSame(r) /\ req' \in [Requests -> ReqStates]
           /\ req'[r].phase = phase
           /\ req'[r].session = req[r].session /\ req'[r].step = req[r].step
           /\ req'[r].skip = req[r].skip /\ req'[r].list = req[r].list
           /\ req'[r].todo = req[r].todo /\ req'[r].victim = req[r].victim
           /\ req'[r].seen = req[r].seen /\ req'[r].reason = req[r].reason
<1>1. req[r] \in ReqStates
  BY ReqType
<1>2. [req[r] EXCEPT !.phase = phase] \in ReqStates
  BY <1>1 DEF ReqStates
<1>3. /\ OthersSame(r) /\ req'[r] = [req[r] EXCEPT !.phase = phase]
      /\ req' \in [Requests -> ReqStates]
  BY <1>2, BecomeState DEF Goto
<1>4. QED
  BY <1>1, <1>3 DEF ReqStates

LEMMA FinishState ==
    ASSUME TypeOK, NEW r \in Requests, Finish(r)
    PROVE  /\ OthersSame(r) /\ req' \in [Requests -> ReqStates]
           /\ req'[r].phase = "idle"
  BY IdleType, IdleFields, BecomeState DEF Finish

-----------------------------------------------------------------------------
(* Sessions and requests a step does not concern.                          *)

Steady(s) ==
    /\ users'[s] = users[s] /\ rows'[s] = rows[s] /\ done'[s] = done[s]
    /\ verified'[s] = verified[s] /\ session'[s].kind = session[s].kind
    /\ s \in known' <=> s \in known
    /\ s \in expired' => s \in expired
    /\ s \in emailToken' => s \in emailToken
    /\ s \in torn => s \in torn'
    /\ s \in finished' <=> s \in finished
    /\ s \in overlapped => s \in overlapped'

(* What any step does to a session with rows, as far as others are
   concerned who are at work on it.                                        *)
Moves(s) ==
    /\ rows'[s] \subseteq rows[s]
    /\ s \in known => s \in known'
    /\ s \in overlapped => s \in overlapped'
    /\ Excused(s) => Excused(s)'
    /\ verified[s] \subseteq verified'[s] \/ Excused(s)'

(* Who takes a session apart goes on, or has done it, or left it torn.     *)
TornOn(s) ==
    \A q \in Requests :
        TearingDown(q, s) => TearingDown(q, s)' \/ s \in torn' \/ users'[s] = "none"

LEMMA ExcusedStays ==
    ASSUME NEW s \in Sessions, TornOn(s), Excused(s),
           \/ users'[s] = "none"
           \/ /\ users[s] # "none"
              /\ verified[s] \subseteq verified'[s]
              /\ s \in torn => s \in torn'
    PROVE  Excused(s)'
  BY DEF Excused, BeingTakenApart, TornOn

LEMMA SteadyMoves ==
    ASSUME NEW s \in Sessions, Steady(s), TornOn(s)
    PROVE  Moves(s)
<1>1. Excused(s) => Excused(s)'
  BY ExcusedStays DEF Steady
<1>2. QED
  BY <1>1 DEF Steady, Moves

LEMMA SessionFrame ==
    ASSUME NEW s \in Sessions, SessionInv(s), Steady(s), TornOn(s),
           \A q \in Requests : At(q, s)' => At(q, s),
           \A q \in Requests : Active(q, s)' => Active(q, s),
           \A q \in Requests : TearingDown(q, s)' => TearingDown(q, s),
           \A q \in Requests : At(q, s)' /\ req[q].phase = "cancel" => req'[q].phase = "cancel"
    PROVE  SessionInv(s)'
<1>1. Excused(s) => Excused(s)'
  BY ExcusedStays DEF Steady
<1>2. Whole(s) => Whole(s)'
  BY DEF Whole, Steady
<1>3. Blank(s) => Blank(s)'
  BY DEF Blank, Steady
<1>4. Alone(s) => Alone(s)'
  BY DEF Alone
<1>5. Settled(s) => Settled(s)'
  BY DEF Settled, Steady
<1>6. QED
  BY <1>1, <1>2, <1>3, <1>4, <1>5 DEF SessionInv, Steady

(* A request which stays as it is.                                         *)
LEMMA RequestFrame ==
    ASSUME NEW q \in Requests, NEW s \in Sessions, s = req[q].session,
           req'[q] = req[q], RequestInv(q), Moves(s),
           s \notin overlapped' => users'[s] = users[s],
           Making(q) =>
               /\ Steady(s)
               /\ \A p \in Requests : TearingDown(p, s)' => TearingDown(p, s)
               /\ \A p \in Requests : Active(p, s)' => Active(p, s)
    PROVE  RequestInv(q)'
<1>1. ASSUME Making(q)
      PROVE  MakerInv(q, s)'
  <2>1. MakerInv(q, s)
    BY <1>1 DEF RequestInv
  <2>2. Blank(s) => Blank(s)'
    BY <1>1 DEF Blank, Steady
  <2>3. QED
    BY <1>1, <2>1, <2>2 DEF MakerInv, Steady
<1>2. ASSUME req[q].phase \in Stepping
      PROVE  StepInv(q, s)'
  BY <1>2 DEF RequestInv, StepInv, Moves
<1>3. ASSUME req[q].phase \in Closing
      PROVE  CloseInv(q, s)'
  BY <1>3 DEF RequestInv, CloseInv, Moves
<1>4. QED
  BY <1>1, <1>2, <1>3 DEF RequestInv, Making

(* A step of request r in session t.                                       *)
LEMMA Frame ==
    ASSUME IInv, TypeOK', NEW r \in Requests, OthersSame(r), NEW t \in Sessions, At(r, t),
           \A s \in Sessions \ {t} : Steady(s) /\ TornOn(s),
           Moves(t) \/ (Making(r) /\ t = req[r].session),
           \A s \in Sessions : Active(r, s)' => Active(r, s),
           \A s \in Sessions : TearingDown(r, s)' => TearingDown(r, s),
           req[r].phase = "cancel" => req'[r].phase \in {"cancel", "idle"},
           SessionInv(t)', RequestInv(r)'
    PROVE  IInv'
<1>1. \A s \in Sessions : SessionInv(s)
  BY DEF IInv
<1>2. \A q \in Requests, s \in Sessions :
          /\ Active(q, s)' => Active(q, s)
          /\ TearingDown(q, s)' => TearingDown(q, s)
          /\ At(q, s)' => At(q, s)
          /\ At(q, s)' /\ req[q].phase = "cancel" => req'[q].phase = "cancel"
  BY DEF OthersSame, Active, TearingDown, At
<1>3. ASSUME NEW s \in Sessions \ {t}
      PROVE  SessionInv(s)'
  BY <1>1, <1>2, <1>3, SessionFrame
<1>4. ASSUME NEW q \in Requests \ {r}
      PROVE  RequestInv(q)'
  <2> DEFINE s == req[q].session
  <2>1. s \in Sessions /\ req'[q] = req[q] /\ RequestInv(q)
    BY <1>4, ReqType DEF IInv, OthersSame
  <2>2. CASE s # t
    <3>1. Steady(s) /\ Moves(s)
      BY <2>1, <2>2, SteadyMoves
    <3>2. QED
      BY <1>2, <2>1, <3>1, RequestFrame DEF Steady
  <2>3. CASE s = t /\ req[q].phase # "idle"
    <3>1. Active(q, t)
      BY <2>3 DEF Active
    <3>2. ~Making(q)
      BY <1>4, <2>1, <2>3 DEF RequestInv, MakerInv, At
    <3>3. Moves(t)
      <4>1. ASSUME Making(r), t = req[r].session
            PROVE  FALSE
        BY <1>4, <3>1, <4>1 DEF IInv, RequestInv, MakerInv
      <4>2. QED
        BY <4>1
    <3>4. t \in overlapped
      BY <1>1, <1>4, <3>1 DEF SessionInv, Alone, At
    <3>5. t \in overlapped'
      BY <3>3, <3>4 DEF Moves
    <3>6. QED
      BY <2>1, <2>3, <3>2, <3>3, <3>5, RequestFrame
  <2>4. CASE req[q].phase = "idle"
    BY <2>1, <2>4 DEF RequestInv, Making, Stepping, Closing, Granted, Tearing
  <2>5. QED
    BY <2>2, <2>3, <2>4
<1>5. QED
  BY <1>3, <1>4 DEF IInv

-----------------------------------------------------------------------------
(* Steps that leave the rows and the user alone.                           *)

LEMMA IdleFine ==
    ASSUME NEW r \in Requests, req'[r].phase = "idle"
    PROVE  RequestInv(r)'
  BY DEF RequestInv, Making, Stepping, Closing, Granted, Tearing

Still(r) ==
    \/ req'[r].phase = "idle"
    \/ /\ req'[r].session = req[r].session /\ req'[r].victim = req[r].victim
       /\ req'[r].phase \in Tearing => req[r].phase \in Tearing

LEMMA StillThere ==
    ASSUME NEW r \in Requests, Still(r), req[r].phase # "idle"
    PROVE  \A s \in Sessions :
               /\ Active(r, s)' => Active(r, s)
               /\ TearingDown(r, s)' => TearingDown(r, s)
  BY DEF Still, Active, TearingDown, Tearing

LEMMA OthersTear ==
    ASSUME NEW r \in Requests, OthersSame(r), NEW s \in Sessions,
           TearingDown(r, s) => TearingDown(r, s)' \/ s \in torn' \/ users'[s] = "none"
    PROVE  TornOn(s)
  BY DEF OthersSame, TornOn, TearingDown

LEMMA QuietFrame ==
    ASSUME IInv, TypeOK', NEW r \in Requests, OthersSame(r), req[r].phase # "idle",
           UNCHANGED <<users, rows, done, expired, verified, session, known, finished,
                       overlapped>>,
           emailToken' \subseteq emailToken, torn \subseteq torn',
           Still(r),
           req[r].phase \in Tearing =>
               req[r].victim \in torn'
               \/ (req'[r].phase \in Tearing /\ req'[r].victim = req[r].victim),
           req[r].phase = "cancel" => req'[r].phase = "idle",
           RequestInv(r)'
    PROVE  IInv'
<1> PICK t \in Sessions : t = req[r].session
  BY ReqType DEF IInv
<1>1. TypeOK /\ Active(r, t) /\ At(r, t)
  BY DEF IInv, Active, At
<1>2. \A s \in Sessions : Steady(s)
  BY DEF Steady
<1>3. \A s \in Sessions : TornOn(s)
  BY OthersTear DEF TearingDown, Tearing
<1>4. \A s \in Sessions :
          /\ Active(r, s)' => Active(r, s)
          /\ TearingDown(r, s)' => TearingDown(r, s)
  BY StillThere
<1>5. \A q \in Requests : /\ Active(q, t)' => Active(q, t)
                          /\ TearingDown(q, t)' => TearingDown(q, t)
                          /\ At(q, t)' => At(q, t)
                          /\ At(q, t)' /\ req[q].phase = "cancel" => req'[q].phase = "cancel"
  <2>1. \A q \in Requests \ {r} : req'[q] = req[q]
    BY DEF OthersSame
  <2>2. req[r].phase = "cancel" => ~At(r, t)'
    BY DEF At, Active, TearingDown
  <2>3. QED
    BY <1>4, <2>1, <2>2 DEF Active, TearingDown, At
<1>6. SessionInv(t)'
  BY <1>1, <1>2, <1>3, <1>5, SessionFrame DEF IInv
<1>7. Moves(t)
  BY <1>1, <1>2, <1>3, SteadyMoves
<1>8. QED
  BY <1>1, <1>2, <1>3, <1>4, <1>6, <1>7, Frame

(* A maker takes another session apart.                                    *)
LEMMA StillMaking ==
    ASSUME NEW r \in Requests, NEW s \in Sessions, MakerInv(r, s), Steady(s),
           req[r].phase \in Tearing, req'[r].phase \in Tearing \cup {"create"},
           \A q \in Requests : TearingDown(q, s)' => TearingDown(q, s),
           \A q \in Requests \ {r} : Active(q, s)' => Active(q, s)
    PROVE  MakerInv(r, s)'
<1>1. Blank(s)
  BY DEF MakerInv
<1>2. Blank(s)'
  BY <1>1 DEF Blank, Steady
<1>3. QED
  BY <1>1, <1>2 DEF MakerInv, Steady, Tearing

(* A request goes on with its step or with the completion.                 *)
LEMMA GoesOn ==
    ASSUME IInv, NEW r \in Requests, NEW s \in Sessions, s = req[r].session,
           UNCHANGED <<users, rows, verified, known, overlapped>>, torn \subseteq torn',
           OthersSame(r), req[r].phase \notin Tearing,
           req'[r].session = s, req'[r].step = req[r].step, req'[r].list = req[r].list,
           req'[r].skip = req[r].skip, req'[r].seen = req[r].seen,
           \/ /\ req[r].phase = "useToken" /\ req'[r].phase \in {"writeUser", "persist"}
              /\ req'[r].todo = req[r].todo
           \/ req[r].phase = "load" /\ req'[r].phase = "enable" /\ users[s] # "none"
           \/ req[r].phase \in Granted /\ req'[r].phase \in Granted \ {"cleanup"}
           \/ /\ req[r].phase \in Granted /\ req'[r].phase = "cleanup"
              /\ req'[r].todo = req[r].list
    PROVE  RequestInv(r)'
<1>1. TornOn(s)
  BY OthersTear DEF TearingDown, Tearing
<1>2. Excused(s) => Excused(s)'
  BY <1>1, ExcusedStays
<1>3. CASE req[r].phase = "useToken"
  <2>1. StepInv(r, s)
    BY <1>3 DEF IInv, RequestInv, Stepping
  <2>2. StepInv(r, s)'
    BY <1>2, <1>3, <2>1 DEF StepInv, Granted
  <2>3. QED
    BY <1>3, <2>2 DEF RequestInv, Stepping, Closing, Granted, Making, Tearing
<1>4. CASE req[r].phase # "useToken"
  <2>1. CloseInv(r, s)
    BY <1>4 DEF IInv, RequestInv, Closing
  <2>2. CloseInv(r, s)'
    BY <1>2, <1>4, <2>1 DEF CloseInv, Granted
  <2>3. QED
    BY <1>4, <2>2 DEF RequestInv, Stepping, Closing, Granted, Making, Tearing
<1>5. QED
  BY <1>3, <1>4

(* Requests that end.                                                      *)
LEMMA EndInv ==
    ASSUME IInv, TypeOK', NEW r \in Requests, Finish(r), req[r].phase # "idle",
           UNCHANGED <<users, rows, done, expired, verified, session, known, finished,
                       overlapped>>,
           emailToken' \subseteq emailToken, torn \subseteq torn',
           req[r].phase \in Tearing => req[r].victim \in torn'
    PROVE  IInv'
<1>1. OthersSame(r) /\ req'[r].phase = "idle"
  BY FinishState DEF IInv
<1>2. RequestInv(r)'
  BY <1>1, IdleFine
<1>3. QED
  BY <1>1, <1>2, QuietFrame DEF Still

LEMMA FailInv ==
    ASSUME IInv, NEW r \in Requests, FailStep(r) \/ TellCancelled(r) \/ Die(r)
    PROVE  IInv'
<1>1. TypeOK /\ Finish(r) /\ req[r].phase # "idle"
  BY DEF IInv, FailStep, TellCancelled, Die
<1>2. req' \in [Requests -> ReqStates]
  BY <1>1, FinishState
<1>3. CASE FailStep(r)
  <2>1. UNCHANGED <<people, store, preAuth, device, mishaps, history>>
    BY <1>3 DEF FailStep
  <2>2. TypeOK'
    BY <1>1, <1>2, <2>1 DEF TypeOK, people, store, history
  <2>3. QED
    BY <1>1, <1>3, <2>1, <2>2, EndInv DEF people, store, history, FailStep, Tearing
<1>4. CASE TellCancelled(r)
  <2>1. /\ UNCHANGED <<people, store, mishaps, history>> /\ req[r].phase = "cancel"
        /\ device' = [device EXCEPT ![req[r].session] = "Cancelled"] \/ device' = device
        /\ preAuth' = [preAuth EXCEPT ![req[r].session] = "gone"] \/ preAuth' = preAuth
    BY <1>4 DEF TellCancelled
  <2>2. TypeOK'
    <3>1. device' \in [Sessions -> {"Pending", "Approved", "Cancelled"}]
      BY <1>1, <2>1 DEF TypeOK
    <3>2. preAuth' \in [Sessions -> {"live", "expired", "gone"}]
      BY <1>1, <2>1 DEF TypeOK
    <3>3. QED
      BY <1>1, <1>2, <2>1, <3>1, <3>2 DEF TypeOK, people, store, history
  <2>3. QED
    BY <1>1, <2>1, <2>2, EndInv DEF people, store, history, Tearing
<1>5. CASE Die(r)
  <2>1. /\ UNCHANGED <<people, store, preAuth, device, session, known, verified, finished,
                       overlapped>>
        /\ mishaps' = mishaps + 1 /\ mishaps < MaxMishaps
        /\ torn' = IF TearingDown(r, req[r].victim) THEN torn \cup {req[r].victim} ELSE torn
    BY <1>5 DEF Die, Mishap
  <2>2. mishaps' \in 0 .. MaxMishaps
    BY <1>1, <2>1, ConstantsOk DEF TypeOK, ConstantsOk
  <2>3. TypeOK'
    BY <1>1, <1>2, <2>1, <2>2, ReqType DEF TypeOK, people, store
  <2>4. QED
    BY <1>1, <2>1, <2>3, EndInv DEF people, store, Tearing, TearingDown
<1>6. QED
  BY <1>3, <1>4, <1>5

-----------------------------------------------------------------------------
(* Requests that go on, and leave rows and users alone.                    *)

LEMMA UseTokenInv ==
    ASSUME IInv, NEW r \in Requests, UseToken(r)
    PROVE  IInv'
<1> PICK s \in Sessions : s = req[r].session
  BY ReqType DEF IInv
<1> PICK ph \in {"writeUser", "persist"} : ph = IF req[r].step = "ValidateEmail" THEN "writeUser" ELSE "persist"
  OBVIOUS
<1>1. TypeOK /\ req[r].phase = "useToken" /\ Goto(r, ph) /\ emailToken' = emailToken \ {s}
      /\ UNCHANGED <<users, indexed, mfa, recovery, store, preAuth, device, mishaps, history>>
  BY DEF UseToken, IInv
<1>2. ph \in Phases
  BY DEF Phases
<1>3. /\ OthersSame(r) /\ req' \in [Requests -> ReqStates]
      /\ req'[r].phase = ph
      /\ req'[r].session = req[r].session /\ req'[r].step = req[r].step
      /\ req'[r].skip = req[r].skip /\ req'[r].list = req[r].list
      /\ req'[r].todo = req[r].todo /\ req'[r].victim = req[r].victim
      /\ req'[r].seen = req[r].seen /\ req'[r].reason = req[r].reason
  BY <1>1, <1>2, GotoState
<1>4. TypeOK'
  BY <1>1, <1>3 DEF TypeOK, store, history
<1>5. RequestInv(r)'
  BY <1>1, <1>3, GoesOn DEF Tearing, store, history
<1>6. QED
  BY <1>1, <1>3, <1>4, <1>5, QuietFrame DEF Still, Tearing, store, history

LEMMA LoadUserInv ==
    ASSUME IInv, NEW r \in Requests, LoadUser(r)
    PROVE  IInv'
<1> PICK s \in Sessions : s = req[r].session
  BY ReqType DEF IInv
<1>1. TypeOK /\ req[r].phase = "load"
      /\ UNCHANGED <<people, store, preAuth, device, mishaps, history>>
  BY DEF LoadUser, IInv
<1>2. CASE Finish(r)
  <2>1. req' \in [Requests -> ReqStates]
    BY <1>1, <1>2, FinishState
  <2>2. TypeOK'
    BY <1>1, <2>1 DEF TypeOK, people, store, history
  <2>3. QED
    BY <1>1, <1>2, <2>2, EndInv DEF people, store, history, Tearing
<1>3. CASE users[s] # "none" /\ Goto(r, "enable")
  <2>1. "enable" \in Phases
    BY DEF Phases
  <2>2. /\ OthersSame(r) /\ req' \in [Requests -> ReqStates]
        /\ req'[r].phase = "enable"
        /\ req'[r].session = req[r].session /\ req'[r].step = req[r].step
        /\ req'[r].skip = req[r].skip /\ req'[r].list = req[r].list
        /\ req'[r].todo = req[r].todo /\ req'[r].victim = req[r].victim
        /\ req'[r].seen = req[r].seen /\ req'[r].reason = req[r].reason
    BY <1>1, <1>3, <2>1, GotoState
  <2>3. TypeOK'
    BY <1>1, <2>2 DEF TypeOK, people, store, history
  <2>4. RequestInv(r)'
    BY <1>1, <1>3, <2>2, GoesOn DEF Tearing, people, store, history
  <2>5. QED
    BY <1>1, <2>2, <2>3, <2>4, QuietFrame DEF Still, Tearing, people, store, history
<1>4. QED
  BY <1>2, <1>3 DEF LoadUser

(* From one phase of the grant to the next.                                *)
LEMMA GrantInv ==
    ASSUME IInv, NEW r \in Requests, req[r].phase \in Granted,
           UNCHANGED <<people, store, mishaps, history>>,
           preAuth' \in [Sessions -> {"live", "expired", "gone"}],
           device' \in [Sessions -> {"Pending", "Approved", "Cancelled"}],
           \/ Finish(r)
           \/ \E ph \in Granted \ {"cleanup"} : Goto(r, ph)
           \/ StartCleanup(r)
    PROVE  IInv'
<1>1. TypeOK /\ req[r] \in ReqStates
  BY ReqType DEF IInv
<1>2. req[r].phase \notin Tearing /\ req[r].phase # "cancel" /\ req[r].phase # "idle"
  BY DEF Granted, Tearing
<1>3. CASE Finish(r)
  <2>1. req' \in [Requests -> ReqStates]
    BY <1>1, <1>3, FinishState
  <2>2. TypeOK'
    BY <1>1, <2>1 DEF TypeOK, people, store, history
  <2>3. QED
    BY <1>2, <1>3, <2>2, EndInv DEF people, store, history
<1>4. ASSUME NEW ph \in Granted \ {"cleanup"}, Goto(r, ph)
      PROVE  IInv'
  <2>1. ph \in Phases
    BY DEF Phases, Granted
  <2>2. /\ OthersSame(r) /\ req' \in [Requests -> ReqStates]
        /\ req'[r].phase = ph
        /\ req'[r].session = req[r].session /\ req'[r].step = req[r].step
        /\ req'[r].skip = req[r].skip /\ req'[r].list = req[r].list
        /\ req'[r].todo = req[r].todo /\ req'[r].victim = req[r].victim
        /\ req'[r].seen = req[r].seen /\ req'[r].reason = req[r].reason
    BY <1>1, <1>4, <2>1, GotoState
  <2>3. TypeOK'
    BY <1>1, <2>2 DEF TypeOK, people, store, history
  <2>4. RequestInv(r)'
    BY <1>1, <1>2, <2>2, ReqType, GoesOn DEF people, store, history
  <2>5. Still(r)
    BY <2>2 DEF Still, Granted, Tearing
  <2>6. QED
    BY <1>2, <2>2, <2>3, <2>4, <2>5, QuietFrame DEF people, store, history
<1>5. CASE StartCleanup(r)
  <2> PICK state \in ReqStates : state = [req[r] EXCEPT !.phase = "cleanup", !.todo = req[r].list]
    BY <1>1 DEF ReqStates, Phases
  <2>1. OthersSame(r) /\ req'[r] = state /\ req' \in [Requests -> ReqStates]
    BY <1>1, <1>5, BecomeState DEF StartCleanup
  <2>2. /\ state.phase = "cleanup" /\ state.todo = req[r].list
        /\ state.session = req[r].session /\ state.step = req[r].step
        /\ state.skip = req[r].skip /\ state.list = req[r].list
        /\ state.victim = req[r].victim /\ state.seen = req[r].seen
    BY <1>1 DEF ReqStates
  <2>3. TypeOK'
    BY <1>1, <2>1 DEF TypeOK, people, store, history
  <2>4. RequestInv(r)'
    BY <1>1, <1>2, <2>1, <2>2, ReqType, GoesOn DEF people, store, history
  <2>5. Still(r)
    BY <2>1, <2>2 DEF Still, Tearing
  <2>6. QED
    BY <1>2, <2>1, <2>3, <2>4, <2>5, QuietFrame DEF people, store, history
<1>6. QED
  BY <1>3, <1>4, <1>5

LEMMA GrantStepsInv ==
    ASSUME IInv, NEW r \in Requests,
           ApproveDevice(r) \/ ReadPreAuth(r) \/ ConsumePreAuth(r) \/ SaveCode(r)
    PROVE  IInv'
<1> TypeOK
  BY DEF IInv
<1>1. CASE ApproveDevice(r)
  <2>1. device' \in [Sessions -> {"Pending", "Approved", "Cancelled"}]
    BY <1>1 DEF TypeOK, ApproveDevice
  <2>2. QED
    BY <1>1, <2>1, GrantInv DEF TypeOK, ApproveDevice, Granted
<1>2. CASE ReadPreAuth(r)
  <2>1. Finish(r) \/ \E ph \in Granted \ {"cleanup"} : Goto(r, ph)
    BY <1>2 DEF ReadPreAuth, Granted
  <2>2. QED
    BY <1>2, <2>1, GrantInv DEF TypeOK, ReadPreAuth, Granted
<1>3. CASE ConsumePreAuth(r)
  <2>1. Finish(r) \/ \E ph \in Granted \ {"cleanup"} : Goto(r, ph)
    BY <1>3 DEF ConsumePreAuth, Granted
  <2>2. preAuth' \in [Sessions -> {"live", "expired", "gone"}]
    BY <1>3 DEF TypeOK, ConsumePreAuth
  <2>3. QED
    BY <1>3, <2>1, <2>2, GrantInv DEF TypeOK, ConsumePreAuth, Granted
<1>4. CASE SaveCode(r)
  BY <1>4, GrantInv DEF TypeOK, SaveCode, Granted
<1>5. QED
  BY <1>1, <1>2, <1>3, <1>4

LEMMA IndexUserInv ==
    ASSUME IInv, NEW r \in Requests, IndexUser(r)
    PROVE  IInv'
<1> PICK s \in Sessions : s = req[r].session
  BY ReqType DEF IInv
<1>1. TypeOK /\ req[r] \in ReqStates /\ req[r].phase = "index"
      /\ UNCHANGED <<users, mfa, recovery, emailToken, store, preAuth, device, mishaps, history>>
      /\ indexed' = indexed \cup {s}
  BY ReqType DEF IInv, IndexUser
<1> PICK state \in ReqStates : state = [req[r] EXCEPT !.phase = "insert", !.todo = StepList]
  BY <1>1, StepNames DEF ReqStates, Phases
<1>2. OthersSame(r) /\ req'[r] = state /\ req' \in [Requests -> ReqStates]
  BY <1>1, BecomeState DEF IndexUser
<1>3. /\ state.phase = "insert" /\ state.todo = StepList
      /\ state.session = req[r].session /\ state.victim = req[r].victim
  BY <1>1 DEF ReqStates
<1>4. TypeOK'
  BY <1>1, <1>2 DEF TypeOK, store, history
<1>5. MakerInv(r, s)
  BY <1>1 DEF IInv, RequestInv, Making
<1>6. MakerInv(r, s)'
  BY <1>1, <1>2, <1>3, <1>5 DEF MakerInv, store, history, OthersSame, Tearing, TearingDown, Active
<1>7. RequestInv(r)'
  BY <1>2, <1>3, <1>6 DEF RequestInv, Making, Stepping, Closing, Granted
<1>8. Still(r)
  BY <1>2, <1>3 DEF Still, Tearing
<1>9. QED
  BY <1>1, <1>2, <1>4, <1>7, <1>8, QuietFrame DEF store, history, Tearing

LEMMA UnlinkInv ==
    ASSUME IInv, NEW r \in Requests, Unlink(r)
    PROVE  IInv'
<1> PICK s \in Sessions : s = req[r].session
  BY ReqType DEF IInv
<1> PICK v \in Sessions : v = req[r].victim
  BY ReqType DEF IInv
<1>1. /\ TypeOK /\ req[r].phase = "unlink"
      /\ mfa' = [mfa EXCEPT ![v] = {}] /\ recovery' = recovery \ {v}
      /\ indexed' = indexed \ {v}
      /\ (Goto(r, "dropUser") /\ UNCHANGED torn) \/ (Finish(r) /\ torn' = torn \cup {v})
      /\ UNCHANGED <<users, emailToken, store, preAuth, device, mishaps, session,
                     known, verified, finished, overlapped>>
  BY DEF IInv, Unlink
<1>2. mfa' \in [Sessions -> SUBSET MfaTypes] /\ torn' \subseteq Sessions /\ torn \subseteq torn'
  BY <1>1 DEF TypeOK
<1>3. CASE Goto(r, "dropUser") /\ UNCHANGED torn
  <2>1. "dropUser" \in Phases
    BY DEF Phases
  <2>2. /\ OthersSame(r) /\ req' \in [Requests -> ReqStates]
        /\ req'[r].phase = "dropUser" /\ req'[r].session = req[r].session
        /\ req'[r].victim = req[r].victim /\ req'[r].reason = req[r].reason
    BY <1>1, <1>3, <2>1, GotoState
  <2>3. TypeOK'
    BY <1>1, <1>2, <2>2 DEF TypeOK, store
  <2>4. ASSUME req[r].reason = "create"
        PROVE  MakerInv(r, s)'
    <3>1. MakerInv(r, s)
      BY <1>1, <2>4 DEF IInv, RequestInv, Making, Tearing
    <3>2. Steady(s)
      BY <1>1, <1>2 DEF Steady, store
    <3>3. /\ \A q \in Requests : TearingDown(q, s)' => TearingDown(q, s)
          /\ \A q \in Requests \ {r} : Active(q, s)' => Active(q, s)
      BY <1>1, <2>2 DEF OthersSame, TearingDown, Active
    <3>4. QED
      BY <1>1, <2>2, <3>1, <3>2, <3>3, StillMaking DEF Tearing
  <2>5. RequestInv(r)'
    BY <2>2, <2>4 DEF RequestInv, Making, Stepping, Closing, Granted
  <2>6. Still(r)
    BY <1>1, <2>2 DEF Still, Tearing
  <2>7. QED
    BY <1>1, <1>2, <2>2, <2>3, <2>5, <2>6, QuietFrame DEF store, Tearing
<1>4. CASE Finish(r) /\ torn' = torn \cup {v}
  <2>1. req' \in [Requests -> ReqStates]
    BY <1>1, <1>4, FinishState
  <2>2. TypeOK'
    BY <1>1, <1>2, <2>1 DEF TypeOK, store
  <2>3. QED
    BY <1>1, <1>2, <1>4, <2>2, EndInv DEF store, Tearing
<1>5. QED
  BY <1>1, <1>3, <1>4

-----------------------------------------------------------------------------
(* A request at work on a session.                                         *)

LEMMA WorkInv ==
    ASSUME NEW r \in Requests, NEW t \in Sessions, SessionInv(t), At(r, t),
           req[r].phase # "cancel",
           session'[t].kind = session[t].kind,
           t \in overlapped => t \in overlapped',
           t \in finished' => t \in finished,
           t \in known => t \in known',
           \A q \in Requests : At(q, t)' => At(q, t),
           rows'[t] # {} \/ t \in emailToken' => users'[t] # "none",
           users'[t] = "enabled" => Excused(t)',
           t \in known' => Excused(t)' \/ Whole(t)'
    PROVE  SessionInv(t)'
<1>1. session[t].kind # "none"
  BY DEF SessionInv, At, Blank
<1>2. t \notin overlapped' => Alone(t)' /\ t \notin finished'
  <2>1. t \notin overlapped => Alone(t) /\ t \notin finished
    BY DEF SessionInv, Settled
  <2>2. Alone(t) => Alone(t)'
    BY DEF Alone
  <2>3. QED
    BY <2>1, <2>2
<1>3. QED
  BY <1>1, <1>2 DEF SessionInv

(* The kinds of session and victim do not change while a request goes on.  *)
LEMMA SameSession ==
    ASSUME NEW r \in Requests, OthersSame(r), Still(r), req[r].phase # "idle"
    PROVE  \A q \in Requests, s \in Sessions :
               /\ Active(q, s)' => Active(q, s)
               /\ TearingDown(q, s)' => TearingDown(q, s)
               /\ At(q, s)' => At(q, s)
<1>1. \A s \in Sessions : /\ Active(r, s)' => Active(r, s)
                          /\ TearingDown(r, s)' => TearingDown(r, s)
  BY StillThere
<1>2. \A q \in Requests \ {r} : req'[q] = req[q]
  BY DEF OthersSame
<1>3. QED
  BY <1>1, <1>2 DEF At, Active, TearingDown

(* A step of a request that concerns its own session only, neither tearing
   down nor telling anyone.                                                *)
LEMMA OwnFrame ==
    ASSUME IInv, TypeOK', NEW r \in Requests, NEW t \in Sessions, t = req[r].session,
           OthersSame(r), Still(r), req[r].phase \notin Tearing \cup {"idle", "cancel"},
           \A s \in Sessions \ {t} : Steady(s),
           Moves(t) \/ Making(r),
           SessionInv(t)', RequestInv(r)'
    PROVE  IInv'
<1>1. At(r, t)
  BY DEF At, Active
<1>2. \A s \in Sessions : TornOn(s)
  BY OthersTear DEF TearingDown, Tearing
<1>3. \A s \in Sessions : /\ Active(r, s)' => Active(r, s)
                          /\ TearingDown(r, s)' => TearingDown(r, s)
  BY StillThere
<1>4. QED
  BY <1>1, <1>2, <1>3, Frame

LEMMA CheckedRequest ==
    ASSUME TypeOK, NEW r \in Requests, CheckStep(r)
    PROVE  /\ AfterCheck(req[r].step) \in {"useToken", "persist"}
           /\ OthersSame(r) /\ req' \in [Requests -> ReqStates]
           /\ req'[r].phase = AfterCheck(req[r].step)
           /\ req'[r].seen = users[req[r].session]
           /\ req'[r].session = req[r].session /\ req'[r].step = req[r].step
           /\ req'[r].skip = req[r].skip /\ req'[r].list = req[r].list
           /\ req'[r].todo = req[r].todo /\ req'[r].victim = req[r].victim
<1>1. req[r] \in ReqStates /\ users[req[r].session] \in UserStates
  BY ReqType DEF TypeOK
<1>2. AfterCheck(req[r].step) \in {"useToken", "persist"}
  BY DEF AfterCheck
<1>3. PICK after, seen : after = AfterCheck(req[r].step) /\ seen = users[req[r].session]
  OBVIOUS
<1>4. after \in {"useToken", "persist"} /\ seen \in UserStates
  BY <1>1, <1>2, <1>3
<1>5. PICK state : state = [req[r] EXCEPT !.phase = after, !.seen = seen]
  OBVIOUS
<1>6. /\ state \in ReqStates
      /\ state.phase = after /\ state.seen = seen
      /\ state.session = req[r].session /\ state.step = req[r].step
      /\ state.skip = req[r].skip /\ state.list = req[r].list
      /\ state.todo = req[r].todo /\ state.victim = req[r].victim
  BY <1>1, <1>4, <1>5 DEF ReqStates, Phases
<1>7. Become(r, state)
  BY <1>3, <1>5, Zenon DEF CheckStep
<1>8. OthersSame(r) /\ req'[r] = state /\ req' \in [Requests -> ReqStates]
  BY <1>6, <1>7, BecomeState
<1>9. QED
  BY <1>2, <1>3, <1>6, <1>8

LEMMA CheckedStore ==
    ASSUME TypeOK, NEW r \in Requests, CheckStep(r),
           NEW s \in Sessions, s = req[r].session, NEW st \in Steps, st = req[r].step
    PROVE  /\ req[r].phase = "check"
           /\ st \in {"ValidateEmail", "ValidateRecoveryEmail"} => s \in emailToken
           /\ verified' \in [Sessions -> SUBSET Steps]
           /\ verified[s] \subseteq verified'[s] /\ st \in verified'[s]
           /\ \A x \in Sessions \ {s} : verified'[x] = verified[x]
           /\ mfa' \in [Sessions -> SUBSET MfaTypes]
           /\ recovery' \subseteq Sessions
           /\ emailToken' = emailToken
              \/ (users[s] # "none" /\ emailToken' = emailToken \cup {s})
           /\ UNCHANGED <<users, indexed, store, preAuth, device, mishaps, session, known,
                          torn, finished, overlapped>>
<1>1. req[r].phase = "check" /\ Shows(st, s)
  BY Zenon DEF CheckStep
<1>2. verified' = [verified EXCEPT ![s] = @ \cup {st}]
  BY Zenon DEF CheckStep
<1>3. mfa' = mfa \/ (st \in DOMAIN TypeOf /\ mfa' = [mfa EXCEPT ![s] = @ \cup {TypeOf[st]}])
  BY Zenon DEF CheckStep
<1>4. recovery' = recovery \/ recovery' = recovery \cup {s}
  BY Zenon DEF CheckStep
<1>5. emailToken' = emailToken
      \/ (st = "AddRecoveryEmail" /\ emailToken' = emailToken \cup {s})
  BY Zenon DEF CheckStep
<1>6. UNCHANGED <<users, indexed, store, preAuth, device, mishaps, session, known,
                  torn, finished, overlapped>>
  BY Zenon DEF CheckStep
<1>7. st \in {"ValidateEmail", "ValidateRecoveryEmail"} => s \in emailToken
  BY <1>1, SMT DEF Shows
<1>8. st = "AddRecoveryEmail" => users[s] # "none"
  BY <1>1, SMT DEF Shows
<1>9. mfa' \in [Sessions -> SUBSET MfaTypes]
  <2>1. st \in DOMAIN TypeOf => TypeOf[st] \in MfaTypes
    BY DEF TypeOf, MfaTypes
  <2>2. QED
    BY <1>3, <2>1 DEF TypeOK
<1>10. recovery' \subseteq Sessions
  BY <1>4 DEF TypeOK
<1>11. /\ verified' \in [Sessions -> SUBSET Steps]
       /\ verified[s] \subseteq verified'[s] /\ st \in verified'[s]
       /\ \A x \in Sessions \ {s} : verified'[x] = verified[x]
  BY <1>2 DEF TypeOK
<1>12. QED
  BY <1>1, <1>5, <1>6, <1>7, <1>8, <1>9, <1>10, <1>11

LEMMA CheckStepInv ==
    ASSUME IInv, NEW r \in Requests, CheckStep(r)
    PROVE  IInv'
<1> PICK s \in Sessions : s = req[r].session
  BY ReqType DEF IInv
<1> PICK st \in Steps : st = req[r].step
  BY ReqType DEF IInv
<1>1. /\ TypeOK /\ req[r].phase = "check"
      /\ st \in {"ValidateEmail", "ValidateRecoveryEmail"} => s \in emailToken
      /\ mfa' \in [Sessions -> SUBSET MfaTypes]
      /\ recovery' \subseteq Sessions
      /\ emailToken' = emailToken
         \/ (users[s] # "none" /\ emailToken' = emailToken \cup {s})
      /\ UNCHANGED <<users, indexed, store, preAuth, device, mishaps, session, known,
                     torn, finished, overlapped>>
  BY CheckedStore DEF IInv
<1>2. AfterCheck(st) \in {"useToken", "persist"}
  BY <1>1, CheckedRequest
<1>3. /\ OthersSame(r) /\ req' \in [Requests -> ReqStates]
      /\ req'[r].phase = AfterCheck(st) /\ req'[r].seen = users[s]
      /\ req'[r].session = s /\ req'[r].step = st /\ req'[r].skip = req[r].skip
      /\ req'[r].list = req[r].list /\ req'[r].todo = req[r].todo
      /\ req'[r].victim = req[r].victim
  BY <1>1, CheckedRequest
<1>4. /\ verified' \in [Sessions -> SUBSET Steps]
      /\ verified[s] \subseteq verified'[s] /\ st \in verified'[s]
      /\ \A x \in Sessions \ {s} : verified'[x] = verified[x]
  BY <1>1, CheckedStore
<1>5. TypeOK'
  BY <1>1, <1>3, <1>4 DEF TypeOK, store
<1>6. SessionInv(s) /\ StepInv(r, s) /\ At(r, s)
  BY <1>1 DEF IInv, RequestInv, Stepping, At, Active
<1>8. Still(r)
  BY <1>2, <1>3 DEF Still, Tearing
<1>9. Excused(s) => Excused(s)'
  <2>1. TornOn(s)
    BY <1>1, <1>3, OthersTear DEF TearingDown
  <2>2. QED
    BY <1>1, <1>4, <2>1, ExcusedStays
<1>11. Whole(s) => Whole(s)'
  BY <1>1, <1>4 DEF Whole, store
<1>12. SessionInv(s)'
  <2>1. \A q \in Requests : At(q, s)' => At(q, s)
    BY <1>1, <1>3, <1>8, SameSession
  <2>2. QED
    BY <1>1, <1>6, <1>9, <1>11, <2>1, WorkInv DEF SessionInv, store
<1>13. StepInv(r, s)'
  <2>1. req'[r].phase = "useToken" => users[s] # "none"
    BY <1>1, <1>3, <1>6 DEF AfterCheck, SessionInv
  <2>2. Completes(st, req[r].skip) = {st}
    BY <1>1, <1>6 DEF StepInv, Completes
  <2>3. users[s] = "enabled" => Excused(s)
    BY <1>6 DEF SessionInv
  <2>4. /\ s \in known' /\ req'[r].step \in Required /\ rows'[s] \subseteq req'[r].list
        /\ req'[r].phase # "persist" => ~req'[r].skip
        /\ req'[r].todo \subseteq Completes(req'[r].step, req'[r].skip)
    BY <1>1, <1>3, <1>6 DEF StepInv, store
  <2>5. req'[r].phase \in {"useToken", "writeUser"} =>
            req'[r].seen # "none" /\ (req'[r].seen = "enabled" => Excused(s)')
    BY <1>2, <1>3, <1>9, <2>1, <2>3
  <2>6. \/ Excused(s)'
        \/ /\ req'[r].list = StepList
           /\ Earlier(StepList, req'[r].step) \subseteq verified'[s]
           /\ Completes(req'[r].step, req'[r].skip) \subseteq verified'[s]
    BY <1>3, <1>6, <1>4, <1>9, <2>2 DEF StepInv
  <2>7. QED
    BY <2>4, <2>5, <2>6 DEF StepInv
<1>14. RequestInv(r)'
  BY <1>2, <1>3, <1>13 DEF RequestInv, Making, Stepping, Closing, Granted, Tearing
<1>15. \A x \in Sessions \ {s} : Steady(x)
  BY <1>1, <1>4 DEF Steady, store
<1>16. Moves(s)
  BY <1>1, <1>4, <1>9 DEF Moves, store
<1>17. QED
  BY <1>1, <1>3, <1>5, <1>8, <1>12, <1>14, <1>15, <1>16, OwnFrame DEF Tearing

LEMMA WriteUserInv ==
    ASSUME IInv, NEW r \in Requests, WriteUser(r)
    PROVE  IInv'
<1> PICK s \in Sessions : s = req[r].session
  BY ReqType DEF IInv
<1>1. TypeOK /\ req[r].phase = "writeUser" /\ Goto(r, "persist")
      /\ users' = [users EXCEPT ![s] = IF @ = "none" THEN @ ELSE req[r].seen]
      /\ UNCHANGED <<indexed, mfa, recovery, emailToken, store, preAuth, device,
                     mishaps, history>>
  BY DEF IInv, WriteUser
<1>2. "persist" \in Phases
  BY DEF Phases
<1>3. /\ OthersSame(r) /\ req' \in [Requests -> ReqStates]
      /\ req'[r].phase = "persist"
      /\ req'[r].session = req[r].session /\ req'[r].step = req[r].step
      /\ req'[r].skip = req[r].skip /\ req'[r].list = req[r].list
      /\ req'[r].todo = req[r].todo /\ req'[r].victim = req[r].victim
      /\ req'[r].seen = req[r].seen /\ req'[r].reason = req[r].reason
  BY <1>1, <1>2, GotoState
<1>4. users' \in [Sessions -> UserStates]
      /\ \A x \in Sessions \ {s} : users'[x] = users[x]
      /\ users'[s] = IF users[s] = "none" THEN "none" ELSE req[r].seen
  BY <1>1, ReqType DEF TypeOK
<1>5. TypeOK'
  BY <1>1, <1>3, <1>4 DEF TypeOK, store, history
<1>6. SessionInv(s) /\ StepInv(r, s) /\ At(r, s)
  BY <1>1 DEF IInv, RequestInv, Stepping, At, Active
<1>7. Still(r)
  BY <1>3 DEF Still, Tearing
<1>8. Excused(s) => Excused(s)'
  <2>1. TornOn(s)
    BY <1>1, <1>3, OthersTear DEF TearingDown
  <2>2. QED
    BY <1>1, <1>4, <2>1, ExcusedStays DEF history
<1>9. Whole(s) => Whole(s)'
  BY <1>1 DEF Whole, store, history
<1>10. users[s] # "none" => users'[s] # "none"
  BY <1>1, <1>4, <1>6 DEF StepInv
<1>11. users'[s] = "enabled" => Excused(s)'
  BY <1>1, <1>4, <1>6, <1>8 DEF StepInv
<1>12. SessionInv(s)'
  <2>1. \A q \in Requests : At(q, s)' => At(q, s)
    BY <1>1, <1>3, <1>7, SameSession
  <2>2. QED
    BY <1>1, <1>6, <1>8, <1>9, <1>10, <1>11, <2>1, WorkInv DEF SessionInv, store, history
<1>13. StepInv(r, s)'
  BY <1>1, <1>3, <1>6, <1>8 DEF StepInv, store, history
<1>14. RequestInv(r)'
  BY <1>3, <1>13 DEF RequestInv, Making, Stepping, Closing, Granted, Tearing
<1>15. \A x \in Sessions \ {s} : Steady(x)
  BY <1>1, <1>4 DEF Steady, store, history
<1>16. Moves(s)
  BY <1>1, <1>8 DEF Moves, store, history
<1>17. QED
  BY <1>1, <1>3, <1>5, <1>7, <1>12, <1>14, <1>15, <1>16, OwnFrame DEF Tearing

LEMMA EnableUserInv ==
    ASSUME IInv, NEW r \in Requests, EnableUser(r)
    PROVE  IInv'
<1> PICK s \in Sessions : s = req[r].session
  BY ReqType DEF IInv
<1> PICK ph \in {"code", "approve", "sign"} :
       ph = CASE session[s].kind = "application" -> "code"
              [] session[s].kind = "device" -> "approve"
              [] OTHER -> "sign"
  OBVIOUS
<1>1. TypeOK /\ req[r].phase = "enable" /\ Goto(r, ph)
      /\ users' = [users EXCEPT ![s] = IF @ = "none" THEN @ ELSE "enabled"]
      /\ UNCHANGED <<indexed, mfa, recovery, emailToken, store, preAuth, device,
                     mishaps, history>>
  BY DEF IInv, EnableUser
<1>2. ph \in Phases
  BY DEF Phases
<1>3. /\ OthersSame(r) /\ req' \in [Requests -> ReqStates]
      /\ req'[r].phase = ph
      /\ req'[r].session = req[r].session /\ req'[r].step = req[r].step
      /\ req'[r].skip = req[r].skip /\ req'[r].list = req[r].list
      /\ req'[r].todo = req[r].todo /\ req'[r].victim = req[r].victim
      /\ req'[r].seen = req[r].seen /\ req'[r].reason = req[r].reason
  BY <1>1, <1>2, GotoState
<1>4. users' \in [Sessions -> UserStates]
      /\ \A x \in Sessions \ {s} : users'[x] = users[x]
      /\ users'[s] = IF users[s] = "none" THEN "none" ELSE "enabled"
  BY <1>1 DEF TypeOK, UserStates
<1>5. TypeOK'
  BY <1>1, <1>3, <1>4 DEF TypeOK, store, history
<1>6. SessionInv(s) /\ CloseInv(r, s) /\ At(r, s)
  BY <1>1 DEF IInv, RequestInv, Closing, At, Active
<1>7. Still(r)
  BY <1>3 DEF Still, Tearing
<1>8. Excused(s)'
  <2>1. TornOn(s)
    BY <1>1, <1>3, OthersTear DEF TearingDown
  <2>2. QED
    BY <1>1, <1>4, <1>6, <2>1, ExcusedStays DEF history, CloseInv
<1>9. SessionInv(s)'
  <2>1. \A q \in Requests : At(q, s)' => At(q, s)
    BY <1>1, <1>3, <1>7, SameSession
  <2>2. QED
    BY <1>1, <1>4, <1>6, <1>8, <2>1, WorkInv DEF SessionInv, store, history
<1>10. CloseInv(r, s)'
  BY <1>1, <1>3, <1>4, <1>6, <1>8 DEF CloseInv, store, history
<1>11. RequestInv(r)'
  BY <1>3, <1>10 DEF RequestInv, Making, Stepping, Closing, Granted, Tearing
<1>12. \A x \in Sessions \ {s} : Steady(x)
  BY <1>1, <1>4 DEF Steady, store, history
<1>13. Moves(s)
  BY <1>1, <1>8 DEF Moves, store, history
<1>14. QED
  BY <1>1, <1>3, <1>5, <1>7, <1>9, <1>11, <1>12, <1>13, OwnFrame DEF Tearing

-----------------------------------------------------------------------------
(* Rows that are written, one after the other.                             *)

SameRequest(r) ==
    /\ req'[r].session = req[r].session /\ req'[r].step = req[r].step
    /\ req'[r].skip = req[r].skip /\ req'[r].list = req[r].list
    /\ req'[r].victim = req[r].victim /\ req'[r].seen = req[r].seen
    /\ req'[r].reason = req[r].reason

LEMMA TodoState ==
    ASSUME TypeOK, NEW r \in Requests, NEW phase \in Phases, NEW todo \in SUBSET Steps,
           Become(r, [req[r] EXCEPT !.phase = phase, !.todo = todo])
    PROVE  /\ OthersSame(r) /\ req' \in [Requests -> ReqStates] /\ SameRequest(r)
           /\ req'[r].phase = phase /\ req'[r].todo = todo
<1>1. req[r] \in ReqStates
  BY ReqType
<1>2. PICK state : state = [req[r] EXCEPT !.phase = phase, !.todo = todo]
  OBVIOUS
<1>3. /\ state \in ReqStates /\ state.phase = phase /\ state.todo = todo
      /\ state.session = req[r].session /\ state.step = req[r].step
      /\ state.skip = req[r].skip /\ state.list = req[r].list
      /\ state.victim = req[r].victim /\ state.seen = req[r].seen
      /\ state.reason = req[r].reason
  BY <1>1, <1>2 DEF ReqStates
<1>4. Become(r, state)
  BY <1>2, Zenon
<1>5. OthersSame(r) /\ req'[r] = state /\ req' \in [Requests -> ReqStates]
  BY <1>3, <1>4, BecomeState
<1>6. QED
  BY <1>3, <1>5 DEF SameRequest

LEMMA OneLess ==
    ASSUME TypeOK, NEW r \in Requests, NEW st,
           Become(r, [req[r] EXCEPT !.todo = @ \ {st}])
    PROVE  /\ OthersSame(r) /\ req' \in [Requests -> ReqStates] /\ SameRequest(r)
           /\ req'[r].phase = req[r].phase /\ req'[r].todo = req[r].todo \ {st}
<1>1. req[r] \in ReqStates
  BY ReqType
<1>2. PICK state : state = [req[r] EXCEPT !.todo = @ \ {st}]
  OBVIOUS
<1>3. /\ state \in ReqStates /\ state.phase = req[r].phase
      /\ state.todo = req[r].todo \ {st}
      /\ state.session = req[r].session /\ state.step = req[r].step
      /\ state.skip = req[r].skip /\ state.list = req[r].list
      /\ state.victim = req[r].victim /\ state.seen = req[r].seen
      /\ state.reason = req[r].reason
  BY <1>1, <1>2 DEF ReqStates
<1>4. Become(r, state)
  BY <1>2, Zenon
<1>5. OthersSame(r) /\ req'[r] = state /\ req' \in [Requests -> ReqStates]
  BY <1>3, <1>4, BecomeState
<1>6. QED
  BY <1>3, <1>5 DEF SameRequest

(* The first row of the whole list.                                        *)
LEMMA FirstRow ==
    \E x \in StepList : Earlier(StepList, x) = {}
<1>1. CASE VerifyEmail
  <2>1. "ValidateEmail" \in StepList
    BY <1>1 DEF StepList, Steps
  <2>2. \A x \in Steps : ~(Position[x] < Position["ValidateEmail"])
    BY DEF Steps, Position
  <2>3. QED
    BY <2>1, <2>2, StepNames DEF Earlier
<1>2. CASE ~VerifyEmail
  <2>1. "ValidateEmail" \notin StepList
    BY <1>2 DEF StepList
  <2>2. "ConfigureTotp" \in StepList /\ "ConfigureSecurityKey" \in StepList
    BY DEF StepList, Steps
  <2>3. CASE KeyFirst
    <3>1. \A x \in Steps \ {"ValidateEmail"} : ~(Position[x] < Position["ConfigureSecurityKey"])
      BY <2>3 DEF Steps, Position
    <3>2. QED
      BY <2>1, <2>2, <3>1, StepNames DEF Earlier
  <2>4. CASE ~KeyFirst
    <3>1. \A x \in Steps \ {"ValidateEmail"} : ~(Position[x] < Position["ConfigureTotp"])
      BY <2>4 DEF Steps, Position
    <3>2. QED
      BY <2>1, <2>2, <3>1, StepNames DEF Earlier
  <2>5. QED
    BY <2>3, <2>4
<1>3. QED
  BY <1>1, <1>2

(* A skipped step and its validation stand next to each other.             *)
LEMMA SkippedTogether ==
    ASSUME NEW st \in Steps, NEW skip, NEW x \in Completes(st, skip)
    PROVE  x \in Steps /\ Position[x] <= Position[st] + 1
<1>1. CASE x = st
  BY <1>1, StepNames
<1>2. CASE x # st
  <2>1. st \in DOMAIN ValidationOf /\ x = ValidationOf[st] /\ x \in StepList
    BY <1>2 DEF Completes
  <2>2. st \in {"ConfigureTotp", "ConfigureSecurityKey", "AddRecoveryEmail"}
    BY <2>1 DEF ValidationOf
  <2>3. CASE st = "ConfigureTotp"
    <3>1. x = "ValidateTotp"
      BY <2>1, <2>3 DEF ValidationOf
    <3>2. QED
      BY <2>1, <2>3, <3>1, StepNames DEF Position
  <2>4. CASE st = "ConfigureSecurityKey"
    <3>1. x = "ValidateSecurityKey"
      BY <2>1, <2>4 DEF ValidationOf
    <3>2. QED
      BY <2>1, <2>4, <3>1, StepNames DEF Position
  <2>5. CASE st = "AddRecoveryEmail"
    <3>1. x = "ValidateRecoveryEmail"
      BY <2>1, <2>5 DEF ValidationOf
    <3>2. QED
      BY <2>1, <2>5, <3>1, StepNames DEF Position
  <2>6. QED
    BY <2>2, <2>3, <2>4, <2>5
<1>3. QED
  BY <1>1, <1>2

LEMMA OwnCompleted ==
    ASSUME NEW st \in StepList, NEW skip
    PROVE  st \in Completes(st, skip)
  BY DEF Completes

(* The last step before the redirect has all the others behind it.         *)
LEMMA RedirectNext ==
    ASSUME NEW st \in Steps, NEW skip, NEW done1, NEW next \in Completes(st, skip),
           IsNext(StepList, next, "Redirect"),
           Earlier(StepList, st) \subseteq done1, Completes(st, skip) \subseteq done1
    PROVE  Required \subseteq done1
<1> SUFFICES ASSUME NEW x \in Required PROVE x \in done1
  OBVIOUS
<1>1. x \in StepList /\ x \in Steps /\ x # "Redirect"
  BY StepNames DEF Required
<1>2. next \in Steps /\ Position[next] <= Position[st] + 1
  BY SkippedTogether
<1>3. Position[x] \in 1 .. 9 /\ Position[next] \in 1 .. 9 /\ Position[st] \in 1 .. 9
  BY <1>1, <1>2, StepNames
<1>4. Position[x] < Position["Redirect"] /\ Position["Redirect"] \in 1 .. 9
  BY <1>1, StepNames
<1>5. Position[x] <= Position[next]
  BY <1>1, <1>3, <1>4 DEF IsNext
<1>6. CASE Position[x] < Position[st]
  BY <1>1, <1>6 DEF Earlier
<1>7. CASE Position[x] = Position[st]
  <2>1. x = st
    BY <1>1, <1>7, StepNames
  <2>2. QED
    BY <1>1, <2>1, OwnCompleted
<1>8. CASE Position[x] > Position[st]
  <2>1. Position[x] = Position[next]
    BY <1>2, <1>3, <1>5, <1>8
  <2>2. QED
    BY <1>1, <1>2, <2>1, StepNames
<1>9. QED
  BY <1>3, <1>6, <1>7, <1>8

(* The row that is written was passed, or skipped.                         *)
LEMMA WrittenRow ==
    ASSUME IInv, NEW r \in Requests, NEW s \in Sessions, s = req[r].session,
           StepInv(r, s), ~Excused(s), req[r].phase = "persist",
           NEW st \in req[r].todo
    PROVE  RowOf(r, st) \in verified[s]
<1>1. /\ req[r].list = StepList /\ req[r].step \in Required
      /\ Earlier(StepList, req[r].step) \subseteq verified[s]
      /\ Completes(req[r].step, req[r].skip) \subseteq verified[s]
      /\ req[r].todo \subseteq Completes(req[r].step, req[r].skip)
  BY DEF StepInv
<1>2. CASE req[r].step = "AddDuressPassword"
  <2>1. PICK x : x = CHOOSE y \in StepList : Earlier(StepList, y) = {}
    OBVIOUS
  <2>2. x \in StepList /\ Earlier(StepList, x) = {}
    BY <2>1, FirstRow
  <2>3. RowOf(r, st) = x
    BY <1>1, <1>2, <2>1 DEF RowOf
  <2>4. req[r].step \in StepList /\ ~(Position[req[r].step] < Position[x])
    BY <1>1, <2>2 DEF Required, Earlier
  <2>5. Position[x] \in 1 .. 9 /\ Position[req[r].step] \in 1 .. 9
    BY <2>2, <2>4, StepNames
  <2>6. CASE Position[x] < Position[req[r].step]
    BY <1>1, <2>2, <2>3, <2>6 DEF Earlier
  <2>7. CASE Position[x] = Position[req[r].step]
    <3>1. x = req[r].step
      BY <2>2, <2>4, <2>7, StepNames
    <3>2. QED
      BY <1>1, <2>3, <2>4, <3>1, OwnCompleted
  <2>8. QED
    BY <2>4, <2>5, <2>6, <2>7
<1>3. CASE req[r].step # "AddDuressPassword"
  BY <1>1, <1>3 DEF RowOf
<1>4. QED
  BY <1>2, <1>3

LEMMA PersistRowInv ==
    ASSUME IInv, NEW r \in Requests, PersistRow(r)
    PROVE  IInv'
<1> PICK s \in Sessions : s = req[r].session
  BY ReqType DEF IInv
<1>1. PICK st \in req[r].todo :
          /\ done' = [done EXCEPT ![s] = Updated(s, RowOf(r, st))]
          /\ \/ Become(r, [req[r] EXCEPT !.todo = @ \ {st}])
             \/ Completing(r) /\ Become(r, [req[r] EXCEPT !.phase = "load", !.todo = {}])
             \/ Finish(r)
  BY Zenon DEF PersistRow
<1>2. /\ TypeOK /\ req[r].phase = "persist"
      /\ UNCHANGED <<people, rows, expired, preAuth, device, mishaps, history>>
  BY DEF IInv, PersistRow
<1>3. SessionInv(s) /\ StepInv(r, s) /\ At(r, s)
  BY <1>2 DEF IInv, RequestInv, Stepping, At, Active
<1> PICK row : row = RowOf(r, st)
  OBVIOUS
<1>4. /\ done' \in [Sessions -> SUBSET StepList]
      /\ done'[s] = done[s] \cup ({row} \cap rows[s])
      /\ \A x \in Sessions \ {s} : done'[x] = done[x]
  BY <1>1, <1>2 DEF TypeOK, Updated
<1>5. \A x \in Sessions : done'[x] \subseteq rows'[x]
  BY <1>2, <1>4 DEF TypeOK
<1>6. "load" \in Phases /\ {} \in SUBSET Steps
  BY DEF Phases
<1>7. /\ OthersSame(r) /\ req' \in [Requests -> ReqStates]
      /\ \/ SameRequest(r) /\ req'[r].phase = "persist" /\ req'[r].todo \subseteq req[r].todo
         \/ SameRequest(r) /\ req'[r].phase = "load" /\ Completing(r)
         \/ req'[r].phase = "idle"
  <2>1. CASE Become(r, [req[r] EXCEPT !.todo = @ \ {st}])
    BY <1>2, <2>1, OneLess
  <2>2. CASE Completing(r) /\ Become(r, [req[r] EXCEPT !.phase = "load", !.todo = {}])
    BY <1>2, <1>6, <2>2, TodoState
  <2>3. CASE Finish(r)
    BY <1>2, <2>3, FinishState
  <2>4. QED
    BY <1>1, <2>1, <2>2, <2>3
<1>8. TypeOK'
  BY <1>2, <1>4, <1>5, <1>7 DEF TypeOK, people, history
<1>9. Still(r)
  BY <1>7 DEF Still, SameRequest, Tearing
<1>10. Excused(s) => Excused(s)'
  <2>1. TornOn(s)
    BY <1>2, <1>7, OthersTear DEF TearingDown
  <2>2. QED
    BY <1>2, <2>1, ExcusedStays DEF people, history
<1>11. ~Excused(s) /\ Whole(s) => Whole(s)'
  <2>1. ~Excused(s) => row \in verified[s]
    BY <1>2, <1>3, WrittenRow
  <2>2. QED
    BY <1>2, <1>4, <2>1 DEF Whole, history
<1>12. SessionInv(s)'
  <2>1. \A q \in Requests : At(q, s)' => At(q, s)
    BY <1>2, <1>7, <1>9, SameSession
  <2>2. QED
    BY <1>2, <1>3, <1>10, <1>11, <2>1, WorkInv DEF SessionInv, people, history
<1>13. RequestInv(r)'
  <2>1. CASE SameRequest(r) /\ req'[r].phase = "persist" /\ req'[r].todo \subseteq req[r].todo
    <3>1. StepInv(r, s)'
      BY <1>2, <1>3, <1>10, <2>1 DEF StepInv, SameRequest, history
    <3>2. QED
      BY <2>1, <3>1 DEF RequestInv, SameRequest, Making, Stepping, Closing, Granted, Tearing
  <2>2. CASE SameRequest(r) /\ req'[r].phase = "load" /\ Completing(r)
    <3>1. Excused(s)
      <4>1. SUFFICES ASSUME ~Excused(s) PROVE FALSE
        OBVIOUS
      <4>2. /\ req[r].list = StepList
            /\ Earlier(StepList, req[r].step) \subseteq verified[s]
            /\ Completes(req[r].step, req[r].skip) \subseteq verified[s]
        BY <1>2, <1>3, <4>1 DEF StepInv
      <4>3. PICK next \in Completes(req[r].step, req[r].skip) : IsNext(StepList, next, "Redirect")
        BY <2>2, <4>2 DEF Completing
      <4>4. Required \subseteq verified[s]
        BY <1>2, <4>2, <4>3, ReqType, RedirectNext
      <4>5. QED
        BY <4>1, <4>4 DEF Excused
    <3>2. CloseInv(r, s)'
      BY <1>2, <1>3, <1>10, <2>2, <3>1 DEF StepInv, CloseInv, SameRequest, Granted, history
    <3>3. QED
      BY <2>2, <3>2 DEF RequestInv, SameRequest, Making, Stepping, Closing, Granted, Tearing
  <2>3. QED
    BY <1>7, <2>1, <2>2, IdleFine
<1>14. \A x \in Sessions \ {s} : Steady(x)
  BY <1>2, <1>4 DEF Steady, people, history
<1>15. Moves(s)
  BY <1>2, <1>10 DEF Moves, people, history
<1>16. QED
  BY <1>2, <1>7, <1>8, <1>9, <1>12, <1>13, <1>14, <1>15, OwnFrame DEF Tearing

LEMMA DeleteRowInv ==
    ASSUME IInv, NEW r \in Requests, DeleteRow(r)
    PROVE  IInv'
<1> PICK s \in Sessions : s = req[r].session
  BY ReqType DEF IInv
<1>1. PICK st \in req[r].todo :
          /\ rows' = [rows EXCEPT ![s] = @ \ {st}]
          /\ done' = [done EXCEPT ![s] = @ \ {st}]
          /\ \/ /\ Become(r, [req[r] EXCEPT !.todo = @ \ {st}])
                /\ UNCHANGED finished
             \/ /\ req[r].todo = {st}
                /\ Finish(r)
                /\ finished' = finished \cup {s}
  BY Zenon DEF DeleteRow, Without
<1>2. /\ TypeOK /\ req[r].phase = "cleanup"
      /\ UNCHANGED <<people, expired, preAuth, device, mishaps, session, known,
                     verified, torn, overlapped>>
  BY DEF IInv, DeleteRow
<1>3. SessionInv(s) /\ CloseInv(r, s) /\ At(r, s)
  BY <1>2 DEF IInv, RequestInv, Closing, Granted, At, Active
<1>4. /\ rows' \in [Sessions -> SUBSET StepList] /\ done' \in [Sessions -> SUBSET StepList]
      /\ rows'[s] = rows[s] \ {st} /\ done'[s] = done[s] \ {st}
      /\ \A x \in Sessions \ {s} : rows'[x] = rows[x] /\ done'[x] = done[x]
  BY <1>1, <1>2 DEF TypeOK
<1>5. \A x \in Sessions : done'[x] \subseteq rows'[x]
  BY <1>2, <1>4 DEF TypeOK
<1>6. /\ OthersSame(r) /\ req' \in [Requests -> ReqStates]
      /\ \/ /\ SameRequest(r) /\ req'[r].phase = "cleanup" /\ req'[r].todo = req[r].todo \ {st}
            /\ UNCHANGED finished
         \/ req[r].todo = {st} /\ req'[r].phase = "idle" /\ finished' = finished \cup {s}
  <2>1. CASE Become(r, [req[r] EXCEPT !.todo = @ \ {st}]) /\ UNCHANGED finished
    BY <1>2, <2>1, OneLess
  <2>2. CASE req[r].todo = {st} /\ Finish(r) /\ finished' = finished \cup {s}
    BY <1>2, <2>2, FinishState
  <2>3. QED
    BY <1>1, <2>1, <2>2
<1>7. TypeOK'
  BY <1>2, <1>4, <1>5, <1>6 DEF TypeOK, people
<1>8. Still(r)
  BY <1>6 DEF Still, SameRequest, Tearing
<1>9. Excused(s)'
  <2>1. TornOn(s)
    BY <1>2, <1>6, OthersTear DEF TearingDown
  <2>2. QED
    BY <1>2, <1>3, <2>1, ExcusedStays DEF CloseInv, people
<1>10. SessionInv(s)'
  <2>1. \A q \in Requests : At(q, s)' => At(q, s)
    BY <1>2, <1>6, <1>8, SameSession
  <2>2. CASE UNCHANGED finished
    BY <1>2, <1>3, <1>4, <1>9, <2>1, <2>2, WorkInv DEF SessionInv, people
  <2>3. CASE req[r].todo = {st} /\ req'[r].phase = "idle" /\ finished' = finished \cup {s}
    <3>1. rows'[s] = {}
      BY <1>2, <1>3, <1>4, <2>3 DEF CloseInv
    <3>2. ASSUME s \notin overlapped'
          PROVE  Alone(s)' /\ Settled(s)'
      <4>1. Alone(s) /\ users[s] = "enabled"
        BY <1>2, <1>3, <3>2 DEF SessionInv, CloseInv, Granted
      <4>2. ~At(r, s)'
        BY <2>3 DEF At, Active, TearingDown
      <4>3. \A q \in Requests : ~At(q, s)'
        BY <1>3, <2>1, <4>1, <4>2 DEF Alone
      <4>4. Alone(s)'
        BY <4>3 DEF Alone
      <4>5. Settled(s)'
        BY <1>2, <3>1, <4>1, <4>3 DEF Settled, people
      <4>6. QED
        BY <4>4, <4>5
    <3>3. session[s].kind # "none" /\ s \in known
      BY <1>3 DEF SessionInv, CloseInv
    <3>4. QED
      BY <1>2, <1>3, <1>9, <3>1, <3>2, <3>3 DEF SessionInv, people
  <2>4. QED
    BY <1>6, <2>2, <2>3
<1>11. RequestInv(r)'
  <2>1. CASE SameRequest(r) /\ req'[r].phase = "cleanup" /\ req'[r].todo = req[r].todo \ {st}
    <3>1. CloseInv(r, s)'
      BY <1>2, <1>3, <1>4, <1>9, <2>1 DEF CloseInv, SameRequest, Granted, people
    <3>2. QED
      BY <2>1, <3>1 DEF RequestInv, SameRequest, Making, Stepping, Closing, Granted, Tearing
  <2>2. QED
    BY <1>6, <2>1, IdleFine
<1>12. \A x \in Sessions \ {s} : Steady(x)
  BY <1>2, <1>4, <1>6 DEF Steady, people
<1>13. Moves(s)
  BY <1>2, <1>4, <1>9 DEF Moves, people
<1>14. QED
  BY <1>2, <1>6, <1>7, <1>8, <1>10, <1>11, <1>12, <1>13, OwnFrame DEF Tearing

-----------------------------------------------------------------------------
(* registerUser has its session to itself.                                 *)

LEMMA CreateUserInv ==
    ASSUME IInv, NEW r \in Requests, CreateUser(r)
    PROVE  IInv'
<1> PICK s \in Sessions : s = req[r].session
  BY ReqType DEF IInv
<1>1. /\ TypeOK /\ req[r].phase = "create"
      /\ UNCHANGED <<indexed, mfa, recovery, store, preAuth, device, mishaps, known,
                     verified, torn, finished, overlapped>>
  BY DEF IInv, CreateUser
<1>2. SessionInv(s) /\ MakerInv(r, s) /\ At(r, s) /\ Making(r) /\ Blank(s)
  BY <1>1 DEF IInv, RequestInv, MakerInv, Making, At, Active
<1>3. \A q \in Requests : At(q, s) => q = r
  BY <1>2 DEF MakerInv, At
<1>4. s \notin known /\ s \notin finished
  BY <1>2 DEF SessionInv, MakerInv
<1>5. CASE /\ users' = [users EXCEPT ![s] = "disabled"]
           /\ emailToken' = emailToken \cup {s} \/ emailToken' = emailToken
           /\ Goto(r, "index")
           /\ UNCHANGED session
  <2>1. /\ users' \in [Sessions -> UserStates] /\ users'[s] = "disabled"
        /\ \A x \in Sessions \ {s} : users'[x] = users[x]
    BY <1>1, <1>5 DEF TypeOK, UserStates
  <2>2. "index" \in Phases
    BY DEF Phases
  <2>3. /\ OthersSame(r) /\ req' \in [Requests -> ReqStates]
        /\ req'[r].phase = "index" /\ req'[r].session = s /\ req'[r].victim = req[r].victim
    BY <1>1, <1>5, <2>2, GotoState
  <2>4. emailToken' \subseteq Sessions
    BY <1>1, <1>5 DEF TypeOK
  <2>5. TypeOK'
    BY <1>1, <1>5, <2>1, <2>3, <2>4 DEF TypeOK, store
  <2>6. Still(r)
    BY <2>3 DEF Still, Tearing
  <2>7. \A q \in Requests : /\ At(q, s)' => At(q, s)
                            /\ TearingDown(q, s)' => TearingDown(q, s)
                            /\ Active(q, s)' => Active(q, s)
    BY <1>1, <2>3, <2>6, SameSession
  <2>8. SessionInv(s)'
    BY <1>1, <1>2, <1>4, <1>5, <2>1, <2>7, WorkInv DEF SessionInv
  <2>9. MakerInv(r, s)'
    BY <1>1, <1>2, <1>5, <2>1, <2>3, <2>7 DEF MakerInv, Blank, store, Tearing
  <2>10. RequestInv(r)'
    BY <2>3, <2>9 DEF RequestInv, Making, Stepping, Closing, Granted, Tearing
  <2>11. \A x \in Sessions \ {s} : Steady(x)
    BY <1>1, <1>5, <2>1 DEF Steady, store
  <2>12. QED
    BY <1>1, <1>2, <2>3, <2>5, <2>6, <2>8, <2>10, <2>11, OwnFrame DEF Tearing
<1>6. CASE /\ session' = [session EXCEPT ![s].kind = "none"]
           /\ Finish(r)
           /\ UNCHANGED <<users, emailToken>>
  <2>1. /\ session' \in [Sessions -> [kind : RegistrationKinds \cup {"none"}, address : Addresses]]
        /\ session'[s].kind = "none"
        /\ \A x \in Sessions \ {s} : session'[x] = session[x]
    BY <1>1, <1>6 DEF TypeOK
  <2>2. OthersSame(r) /\ req' \in [Requests -> ReqStates] /\ req'[r].phase = "idle"
    BY <1>1, <1>6, FinishState
  <2>3. TypeOK'
    BY <1>1, <1>6, <2>1, <2>2 DEF TypeOK, store
  <2>4. Still(r)
    BY <2>2 DEF Still
  <2>5. \A q \in Requests : ~At(q, s)'
    <3>1. \A q \in Requests : At(q, s)' => At(q, s)
      BY <1>1, <2>2, <2>4, SameSession
    <3>2. ~At(r, s)'
      BY <2>2 DEF At, Active, TearingDown
    <3>3. QED
      BY <1>3, <3>1, <3>2
  <2>6. Blank(s)' /\ \A q \in Requests : ~Active(q, s)'
    BY <1>1, <1>2, <1>6, <2>5 DEF Blank, At, store
  <2>7. Alone(s)'
    BY <2>5 DEF Alone
  <2>8. SessionInv(s)'
    BY <1>1, <1>2, <1>4, <1>6, <2>6, <2>7 DEF SessionInv, Blank, store
  <2>9. RequestInv(r)'
    BY <2>2, IdleFine
  <2>10. \A x \in Sessions \ {s} : Steady(x)
    BY <1>1, <1>6, <2>1 DEF Steady, store
  <2>11. QED
    BY <1>1, <1>2, <2>2, <2>3, <2>4, <2>8, <2>9, <2>10, OwnFrame DEF Tearing
<1>7. QED
  BY <1>5, <1>6, Zenon DEF CreateUser

LEMMA InsertRowInv ==
    ASSUME IInv, NEW r \in Requests, InsertRow(r)
    PROVE  IInv'
<1> PICK s \in Sessions : s = req[r].session
  BY ReqType DEF IInv
<1>1. PICK st \in req[r].todo :
          /\ rows' = [rows EXCEPT ![s] = @ \cup {st}]
          /\ \/ req[r].todo = {st} /\ Finish(r) /\ known' = known \cup {s}
             \/ Become(r, [req[r] EXCEPT !.todo = @ \ {st}]) /\ UNCHANGED known
  BY Zenon DEF InsertRow
<1>2. /\ TypeOK /\ req[r].phase = "insert"
      /\ UNCHANGED <<people, done, expired, preAuth, device, mishaps, session,
                     verified, torn, finished, overlapped>>
  BY DEF IInv, InsertRow
<1>3. SessionInv(s) /\ MakerInv(r, s) /\ At(r, s) /\ Making(r)
  BY <1>2 DEF IInv, RequestInv, Making, At, Active
<1>4. /\ s \notin known /\ done[s] = {} /\ users[s] = "disabled"
      /\ req[r].todo \subseteq StepList /\ rows[s] = StepList \ req[r].todo
  BY <1>2, <1>3 DEF MakerInv
<1>5. /\ rows' \in [Sessions -> SUBSET StepList]
      /\ rows'[s] = StepList \ (req[r].todo \ {st})
      /\ \A x \in Sessions \ {s} : rows'[x] = rows[x]
  BY <1>1, <1>2, <1>4 DEF TypeOK
<1>6. /\ OthersSame(r) /\ req' \in [Requests -> ReqStates]
      /\ \/ req[r].todo = {st} /\ req'[r].phase = "idle" /\ known' = known \cup {s}
         \/ /\ SameRequest(r) /\ req'[r].phase = "insert" /\ req'[r].todo = req[r].todo \ {st}
            /\ UNCHANGED known
  <2>1. CASE req[r].todo = {st} /\ Finish(r) /\ known' = known \cup {s}
    BY <1>2, <2>1, FinishState
  <2>2. CASE Become(r, [req[r] EXCEPT !.todo = @ \ {st}]) /\ UNCHANGED known
    BY <1>2, <2>2, OneLess
  <2>3. QED
    BY <1>1, <2>1, <2>2
<1>7. known' \subseteq Sessions /\ \A x \in Sessions \ {s} : x \in known' <=> x \in known
  BY <1>2, <1>6 DEF TypeOK
<1>8. \A x \in Sessions : done'[x] \subseteq rows'[x]
  BY <1>2, <1>4, <1>5 DEF TypeOK
<1>9. TypeOK'
  BY <1>2, <1>5, <1>6, <1>7, <1>8 DEF TypeOK, people
<1>10. Still(r)
  BY <1>6 DEF Still, SameRequest, Tearing
<1>11. \A q \in Requests : /\ At(q, s)' => At(q, s)
                           /\ TearingDown(q, s)' => TearingDown(q, s)
                           /\ Active(q, s)' => Active(q, s)
  BY <1>2, <1>6, <1>10, SameSession
<1>12. s \in known' => Whole(s)'
  BY <1>2, <1>4, <1>5, <1>6 DEF Whole
<1>13. SessionInv(s)'
  <2>1. s \notin finished
    BY <1>3, <1>4 DEF SessionInv
  <2>2. QED
    BY <1>2, <1>3, <1>4, <1>11, <1>12, <2>1, WorkInv DEF people
<1>14. RequestInv(r)'
  <2>1. CASE SameRequest(r) /\ req'[r].phase = "insert" /\ req'[r].todo = req[r].todo \ {st}
             /\ UNCHANGED known
    <3>1. MakerInv(r, s)'
      BY <1>2, <1>3, <1>4, <1>5, <1>11, <2>1 DEF MakerInv, people, Tearing
    <3>2. QED
      BY <2>1, <3>1 DEF RequestInv, SameRequest, Making, Stepping, Closing, Granted, Tearing
  <2>2. QED
    BY <1>6, <2>1, IdleFine
<1>15. \A x \in Sessions \ {s} : Steady(x)
  BY <1>2, <1>5, <1>7 DEF Steady, people
<1>16. QED
  BY <1>2, <1>3, <1>6, <1>9, <1>10, <1>13, <1>14, <1>15, OwnFrame DEF Tearing

-----------------------------------------------------------------------------
(* A session is taken apart.                                               *)

(* What the request goes on with belongs to another session.               *)
LEMMA AfterTearing ==
    ASSUME IInv, NEW r \in Requests, OthersSame(r), req[r].phase \in Tearing,
           \A x \in Sessions \ {req[r].victim} : Steady(x),
           req'[r].session = req[r].session, req'[r].reason = req[r].reason,
           req'[r].victim = req[r].victim,
           \/ req'[r].phase \in Tearing
           \/ req'[r].phase = "create" /\ req[r].reason = "create"
           \/ req'[r].phase = "cancel"
    PROVE  RequestInv(r)'
<1> PICK s \in Sessions : s = req[r].session
  BY ReqType DEF IInv
<1>1. ASSUME req[r].reason = "create"
      PROVE  MakerInv(r, s)' \/ req'[r].phase = "cancel"
  <2>1. MakerInv(r, s)
    BY <1>1 DEF IInv, RequestInv, Making
  <2>2. s # req[r].victim
    BY <2>1 DEF MakerInv, TearingDown, Tearing
  <2>3. Steady(s)
    BY <2>2
  <2>4. Still(r) /\ req[r].phase # "idle"
    BY DEF Still, Tearing
  <2>5. /\ \A q \in Requests : TearingDown(q, s)' => TearingDown(q, s)
        /\ \A q \in Requests \ {r} : Active(q, s)' => Active(q, s)
    BY <2>4, SameSession
  <2>6. QED
    BY <2>1, <2>3, <2>5, StillMaking DEF Tearing
<1>2. QED
  BY <1>1 DEF RequestInv, Making, Stepping, Closing, Granted, Tearing

LEMMA ReapRowInv ==
    ASSUME IInv, NEW r \in Requests, ReapRow(r)
    PROVE  IInv'
<1> PICK v \in Sessions : v = req[r].victim
  BY ReqType DEF IInv
<1>1. PICK st \in req[r].todo, ph \in {"unlink", "reap"} :
          /\ rows' = [rows EXCEPT ![v] = @ \ {st}]
          /\ done' = [done EXCEPT ![v] = @ \ {st}]
          /\ Become(r, [req[r] EXCEPT !.todo = @ \ {st}, !.phase = ph])
  <2>1. PICK st \in req[r].todo :
          /\ rows' = [rows EXCEPT ![v] = @ \ {st}]
          /\ done' = [done EXCEPT ![v] = @ \ {st}]
          /\ Become(r, [req[r] EXCEPT !.todo = @ \ {st},
                 !.phase = IF req[r].todo = {st} THEN "unlink" ELSE "reap"])
    BY Zenon DEF ReapRow, Without
  <2>2. PICK ph : ph = IF req[r].todo = {st} THEN "unlink" ELSE "reap"
    OBVIOUS
  <2>3. ph \in {"unlink", "reap"}
    BY <2>2
  <2>4. Become(r, [req[r] EXCEPT !.todo = @ \ {st}, !.phase = ph])
    BY <2>1, <2>2, Zenon
  <2>5. QED
    BY <2>1, <2>3, <2>4, Zenon
<1>2. /\ TypeOK /\ req[r].phase = "reap"
      /\ UNCHANGED <<people, expired, preAuth, device, mishaps, history>>
  BY DEF IInv, ReapRow
<1>3. SessionInv(v) /\ At(r, v) /\ TearingDown(r, v)
  BY <1>2 DEF IInv, At, TearingDown
<1>4. /\ rows' \in [Sessions -> SUBSET StepList] /\ done' \in [Sessions -> SUBSET StepList]
      /\ rows'[v] = rows[v] \ {st} /\ done'[v] = done[v] \ {st}
      /\ \A x \in Sessions \ {v} : rows'[x] = rows[x] /\ done'[x] = done[x]
  BY <1>1, <1>2 DEF TypeOK
<1>5. \A x \in Sessions : done'[x] \subseteq rows'[x]
  BY <1>2, <1>4 DEF TypeOK
<1>6. /\ OthersSame(r) /\ req' \in [Requests -> ReqStates] /\ SameRequest(r)
      /\ req'[r].phase = ph
  <2>1. req[r] \in ReqStates
    BY <1>2, ReqType
  <2>2. PICK todo : todo = req[r].todo \ {st}
    OBVIOUS
  <2>3. todo \in SUBSET Steps
    BY <2>1, <2>2 DEF ReqStates
  <2>4. ph \in Phases
    BY DEF Phases
  <2>5. [req[r] EXCEPT !.todo = @ \ {st}, !.phase = ph] = [req[r] EXCEPT !.phase = ph, !.todo = todo]
    BY <2>1, <2>2, <2>3, <2>4 DEF ReqStates
  <2>6. Become(r, [req[r] EXCEPT !.phase = ph, !.todo = todo])
    BY <1>1, <2>5, Zenon
  <2>7. QED
    BY <1>2, <2>3, <2>4, <2>6, TodoState
<1>7. TypeOK'
  BY <1>2, <1>4, <1>5, <1>6 DEF TypeOK, people, history
<1>8. Still(r)
  BY <1>2, <1>6 DEF Still, SameRequest, Tearing
<1>9. \A x \in Sessions \ {v} : Steady(x)
  BY <1>2, <1>4 DEF Steady, people, history
<1>10. \A x \in Sessions : TornOn(x)
  BY <1>6, OthersTear DEF TearingDown, SameRequest
<1>11. Excused(v)'
  BY <1>3, <1>6 DEF Excused, BeingTakenApart, TearingDown, SameRequest
<1>12. \A q \in Requests, x \in Sessions :
           /\ Active(q, x)' => Active(q, x)
           /\ TearingDown(q, x)' => TearingDown(q, x)
           /\ At(q, x)' => At(q, x)
  BY <1>2, <1>6, <1>8, SameSession
<1>13. SessionInv(v)'
  BY <1>2, <1>3, <1>4, <1>11, <1>12, WorkInv DEF SessionInv, people, history
<1>14. RequestInv(r)'
  BY <1>2, <1>6, <1>9, AfterTearing DEF SameRequest, Tearing
<1>15. Moves(v)
  BY <1>2, <1>4, <1>11 DEF Moves, people, history
<1>16. QED
  BY <1>2, <1>3, <1>6, <1>7, <1>9, <1>10, <1>12, <1>13, <1>14, <1>15, Frame

LEMMA DropUserInv ==
    ASSUME IInv, NEW r \in Requests, DropUser(r)
    PROVE  IInv'
<1> PICK v \in Sessions : v = req[r].victim
  BY ReqType DEF IInv
<1>1. /\ users' = [users EXCEPT ![v] = "none"]
      /\ mfa' = [mfa EXCEPT ![v] = {}]
      /\ recovery' = recovery \ {v}
      /\ emailToken' = emailToken \ {v}
      /\ rows' = [rows EXCEPT ![v] = {}]
      /\ done' = [done EXCEPT ![v] = {}]
      /\ expired' = expired \ {v}
      /\ verified' = [verified EXCEPT ![v] = {}]
  BY Zenon DEF DropUser
<1>2. /\ TypeOK /\ req[r].phase = "dropUser"
      /\ UNCHANGED <<indexed, preAuth, device, mishaps, session, known, torn,
                     finished, overlapped>>
  BY DEF IInv, DropUser
<1>3. \/ req[r].reason = "create" /\ Goto(r, "create")
      \/ Goto(r, "cancel")
      \/ Finish(r)
  BY DEF DropUser
<1>4. SessionInv(v) /\ At(r, v) /\ TearingDown(r, v)
  BY <1>2 DEF IInv, At, TearingDown
<1>5. /\ users' \in [Sessions -> UserStates] /\ users'[v] = "none"
      /\ rows' \in [Sessions -> SUBSET StepList] /\ rows'[v] = {}
      /\ done' \in [Sessions -> SUBSET StepList] /\ done'[v] = {}
      /\ verified' \in [Sessions -> SUBSET Steps]
      /\ mfa' \in [Sessions -> SUBSET MfaTypes]
      /\ \A x \in Sessions \ {v} : /\ users'[x] = users[x] /\ rows'[x] = rows[x]
                                   /\ done'[x] = done[x] /\ verified'[x] = verified[x]
  BY <1>1, <1>2 DEF TypeOK, UserStates
<1>6. \A x \in Sessions : done'[x] \subseteq rows'[x]
  BY <1>2, <1>5 DEF TypeOK
<1>7. "create" \in Phases /\ "cancel" \in Phases
  BY DEF Phases
<1>8. /\ OthersSame(r) /\ req' \in [Requests -> ReqStates]
      /\ \/ req'[r].phase = "idle"
         \/ /\ req'[r].session = req[r].session /\ req'[r].reason = req[r].reason
            /\ req'[r].victim = req[r].victim
            /\ \/ req'[r].phase = "create" /\ req[r].reason = "create"
               \/ req'[r].phase = "cancel"
  <2>1. CASE req[r].reason = "create" /\ Goto(r, "create")
    BY <1>2, <1>7, <2>1, GotoState
  <2>2. CASE Goto(r, "cancel")
    BY <1>2, <1>7, <2>2, GotoState
  <2>3. CASE Finish(r)
    BY <1>2, <2>3, FinishState
  <2>4. QED
    BY <1>3, <2>1, <2>2, <2>3
<1>9. /\ recovery' \subseteq Sessions /\ emailToken' \subseteq Sessions
      /\ expired' \subseteq Sessions
  BY <1>1, <1>2 DEF TypeOK
<1>10. TypeOK'
  BY <1>2, <1>5, <1>6, <1>8, <1>9 DEF TypeOK
<1>11. Still(r)
  BY <1>8 DEF Still, Tearing
<1>12. \A x \in Sessions \ {v} : Steady(x)
  BY <1>1, <1>2, <1>5 DEF Steady
<1>13. \A x \in Sessions : TornOn(x)
  BY <1>5, <1>8, OthersTear DEF TearingDown
<1>14. Excused(v)'
  BY <1>5 DEF Excused
<1>15. \A q \in Requests, x \in Sessions :
           /\ Active(q, x)' => Active(q, x)
           /\ TearingDown(q, x)' => TearingDown(q, x)
           /\ At(q, x)' => At(q, x)
  BY <1>2, <1>8, <1>11, SameSession
<1>16. SessionInv(v)'
  BY <1>1, <1>2, <1>4, <1>5, <1>14, <1>15, WorkInv
<1>17. RequestInv(r)'
  BY <1>2, <1>8, <1>12, AfterTearing, IdleFine DEF Tearing
<1>18. Moves(v)
  BY <1>2, <1>5, <1>14 DEF Moves
<1>19. QED
  BY <1>2, <1>4, <1>8, <1>10, <1>12, <1>13, <1>15, <1>16, <1>17, <1>18, Frame

-----------------------------------------------------------------------------
(* Requests that arrive.                                                   *)

LEMMA ArrivalFrame ==
    ASSUME IInv, TypeOK', NEW r \in Requests, OthersSame(r), req[r].phase = "idle",
           NEW near \in SUBSET Sessions,
           \A s \in Sessions : At(r, s)' => s \in near,
           UNCHANGED <<users, torn>>,
           \A s \in Sessions \ near : Steady(s),
           \A s \in near : Moves(s) /\ SessionInv(s)',
           \A q \in Requests \ {r} : Making(q) => req[q].session \notin near,
           RequestInv(r)'
    PROVE  IInv'
<1>1. \A s \in Sessions : SessionInv(s) /\ TornOn(s)
  BY OthersTear DEF IInv, TearingDown
<1>2. \A q \in Requests \ {r}, s \in Sessions :
          /\ Active(q, s)' => Active(q, s)
          /\ TearingDown(q, s)' => TearingDown(q, s)
          /\ At(q, s)' => At(q, s)
          /\ At(q, s)' /\ req[q].phase = "cancel" => req'[q].phase = "cancel"
  BY DEF OthersSame, Active, TearingDown, At
<1>3. \A s \in Sessions \ near : ~At(r, s)' /\ ~Active(r, s)' /\ ~TearingDown(r, s)'
  BY DEF At
<1>4. ASSUME NEW s \in Sessions \ near
      PROVE  SessionInv(s)' /\ Moves(s)
  BY <1>1, <1>2, <1>3, <1>4, SessionFrame, SteadyMoves
<1>5. ASSUME NEW q \in Requests \ {r}
      PROVE  RequestInv(q)'
  <2> PICK s \in Sessions : s = req[q].session
    BY ReqType DEF IInv
  <2>1. req'[q] = req[q] /\ RequestInv(q) /\ Moves(s)
    BY <1>4, <1>5 DEF IInv, OthersSame
  <2>2. Making(q) =>
            /\ Steady(s)
            /\ \A p \in Requests : TearingDown(p, s)' => TearingDown(p, s)
            /\ \A p \in Requests : Active(p, s)' => Active(p, s)
    BY <1>2, <1>3, <1>5
  <2>3. QED
    BY <2>1, <2>2, RequestFrame
<1>6. QED
  BY <1>4, <1>5 DEF IInv

(* A session that is joined by a request.                                  *)
LEMMA JoinedInv ==
    ASSUME NEW r \in Requests, NEW s \in Sessions, SessionInv(s), OthersSame(r),
           req[r].phase = "idle", session[s].kind # "none", session'[s] = session[s],
           UNCHANGED <<users, rows, done, emailToken, known, torn, finished>>,
           verified[s] \subseteq verified'[s],
           Overlap(s),
           rows[s] # {} \/ req'[r].phase = "cancel"
    PROVE  SessionInv(s)' /\ Moves(s)
<1>1. Excused(s) => Excused(s)'
  <2>1. TornOn(s)
    BY OthersTear DEF TearingDown
  <2>2. QED
    BY <2>1, ExcusedStays
<1>2. Whole(s) => Whole(s)'
  BY DEF Whole
<1>3. \A q \in Requests \ {r} : At(q, s)' => At(q, s)
  BY DEF OthersSame, At, Active, TearingDown
<1>4. (s \in overlapped => s \in overlapped') /\ (Busy(s) => s \in overlapped')
  BY DEF Overlap
<1>5. ASSUME s \notin overlapped'
      PROVE  Alone(s)' /\ (s \in finished' => Settled(s)')
  <2>1. \A q \in Requests : At(q, s)' => q = r
    BY <1>3, <1>4, <1>5 DEF Busy, At
  <2>2. Alone(s)'
    BY <2>1 DEF Alone
  <2>3. s \in finished => Settled(s)
    BY <1>4, <1>5 DEF SessionInv
  <2>4. s \in finished' => Settled(s)'
    BY <2>1, <2>3 DEF Settled
  <2>5. QED
    BY <2>2, <2>4
<1>6. SessionInv(s)'
  BY <1>1, <1>2, <1>5 DEF SessionInv
<1>7. Moves(s)
  BY <1>1, <1>4 DEF Moves
<1>8. QED
  BY <1>6, <1>7

LEMMA TakeApartState ==
    ASSUME TypeOK, NEW r \in Requests, NEW s \in Sessions, NEW victim \in Sessions,
           NEW list \in SUBSET Steps, NEW reason \in Reasons,
           TakeApart(r, s, victim, list, reason)
    PROVE  /\ OthersSame(r) /\ req' \in [Requests -> ReqStates]
           /\ req'[r].phase = "reap" /\ req'[r].session = s /\ req'[r].victim = victim
           /\ req'[r].reason = reason
<1>1. PICK state : state = [Idle EXCEPT !.phase = "reap", !.session = s, !.victim = victim,
                                        !.list = list, !.todo = list, !.reason = reason]
  OBVIOUS
<1>2. state \in ReqStates /\ state.phase = "reap" /\ state.session = s
      /\ state.victim = victim /\ state.reason = reason
  BY <1>1, IdleType DEF ReqStates, Phases
<1>3. Become(r, state)
  BY <1>1, Zenon DEF TakeApart
<1>4. QED
  BY <1>2, <1>3, BecomeState

LEMMA KnownArrival ==
    ASSUME IInv, TypeOK', NEW r \in Requests, OthersSame(r), req[r].phase = "idle",
           NEW s \in Sessions, s \in known, Overlap(s),
           \A x \in Sessions : At(r, x)' => x = s,
           UNCHANGED <<people, store, session, known, torn, finished>>,
           verified[s] \subseteq verified'[s],
           \A x \in Sessions \ {s} : verified'[x] = verified[x],
           rows[s] # {} \/ req'[r].phase = "cancel",
           RequestInv(r)'
    PROVE  IInv'
<1> PICK near \in SUBSET Sessions : near = {s}
  OBVIOUS
<1>1. SessionInv(s) /\ session[s].kind # "none"
  BY DEF IInv, SessionInv
<1>2. SessionInv(s)' /\ Moves(s)
  BY <1>1, JoinedInv DEF people, store
<1>3. \A x \in Sessions \ near : Steady(x)
  BY DEF Steady, Overlap, people, store
<1>4. \A q \in Requests \ {r} : Making(q) => req[q].session \notin near
  BY DEF IInv, RequestInv, MakerInv
<1>5. QED
  BY <1>2, <1>3, <1>4, ArrivalFrame DEF people

LEMMA BeginStepInv ==
    ASSUME IInv, NEW r \in Requests, NEW s \in Sessions, NEW st \in Steps,
           NEW skip \in BOOLEAN, BeginStep(r, s, st, skip)
    PROVE  IInv'
<1>1. /\ TypeOK /\ req[r].phase = "idle" /\ s \in known /\ st \in rows[s] \ {"Redirect"}
      /\ Overlap(s)
      /\ UNCHANGED <<people, store, preAuth, device, mishaps, session, known, torn,
                     finished>>
  BY DEF IInv, BeginStep
<1>2. SessionInv(s) /\ rows[s] # {} /\ rows[s] \subseteq StepList /\ rows[s] \in SUBSET Steps
  BY <1>1, StepNames DEF IInv, TypeOK
<1>3. overlapped' \subseteq Sessions
  BY <1>1 DEF Overlap, TypeOK
<1>4. CASE /\ PreviousComplete(s, st)
           /\ Become(r, [Idle EXCEPT !.phase = IF skip THEN "persist" ELSE "check",
                  !.session = s, !.step = st, !.skip = skip, !.list = rows[s],
                  !.todo = Completes(st, skip) \cap rows[s]])
           /\ verified' = IF skip
                  THEN [verified EXCEPT ![s] = @ \cup Completes(st, skip)]
                  ELSE verified
  <2>1. PICK ph, todo, list : /\ ph = (IF skip THEN "persist" ELSE "check")
                              /\ todo = Completes(st, skip) \cap rows[s]
                              /\ list = rows[s]
    OBVIOUS
  <2>2. /\ ph \in Phases /\ todo \in SUBSET Steps /\ todo \subseteq Completes(st, skip)
        /\ list \in SUBSET Steps
    BY <1>2, <2>1 DEF Phases
  <2>3. PICK state : state = [Idle EXCEPT !.phase = ph, !.session = s, !.step = st,
                                  !.skip = skip, !.list = list, !.todo = todo]
    OBVIOUS
  <2>4. /\ state \in ReqStates /\ state.phase = ph /\ state.session = s /\ state.step = st
        /\ state.skip = skip /\ state.list = list /\ state.todo = todo
    BY <2>2, <2>3, IdleType DEF ReqStates
  <2>5. Become(r, state)
    BY <1>4, <2>1, <2>3, Zenon
  <2>6. OthersSame(r) /\ req' \in [Requests -> ReqStates] /\ req'[r] = state
    BY <1>1, <2>4, <2>5, BecomeState
  <2>7. Completes(st, skip) \subseteq Steps
    BY SkippedTogether
  <2>8. /\ verified' \in [Sessions -> SUBSET Steps]
        /\ verified[s] \subseteq verified'[s]
        /\ skip => Completes(st, skip) \subseteq verified'[s]
        /\ \A x \in Sessions \ {s} : verified'[x] = verified[x]
    BY <1>1, <1>4, <2>7 DEF TypeOK
  <2>9. TypeOK'
    BY <1>1, <1>3, <2>6, <2>8 DEF TypeOK, people, store
  <2>10. ph \in {"persist", "check"} /\ (ph = "check" => ~skip) /\ (ph = "persist" => skip)
    BY <2>1
  <2>11. Excused(s) => Excused(s)'
    <3>1. TornOn(s)
      BY <1>1, <2>6, OthersTear DEF TearingDown
    <3>2. QED
      BY <1>1, <2>8, <3>1, ExcusedStays DEF people
  <2>12. ~Excused(s) => list = StepList /\ Earlier(StepList, st) \subseteq verified[s]
    BY <1>1, <1>2, <1>4, <2>1 DEF SessionInv, Whole, PreviousComplete
  <2>13. StepInv(r, s)'
    <3>1. /\ s \in known' /\ req'[r].step \in Required /\ rows'[s] \subseteq req'[r].list
          /\ req'[r].phase # "persist" => ~req'[r].skip
          /\ req'[r].todo \subseteq Completes(req'[r].step, req'[r].skip)
          /\ req'[r].phase \notin {"useToken", "writeUser"}
      BY <1>1, <1>2, <2>1, <2>2, <2>4, <2>6, <2>10 DEF Required, store
    <3>2. \/ Excused(s)'
          \/ /\ req'[r].list = StepList
             /\ Earlier(StepList, req'[r].step) \subseteq verified'[s]
             /\ req'[r].phase # "check" =>
                    Completes(req'[r].step, req'[r].skip) \subseteq verified'[s]
      BY <2>4, <2>6, <2>8, <2>10, <2>11, <2>12
    <3>3. QED
      BY <3>1, <3>2 DEF StepInv
  <2>14. RequestInv(r)'
    BY <2>4, <2>6, <2>10, <2>13 DEF RequestInv, Making, Stepping, Closing, Granted, Tearing
  <2>15. \A x \in Sessions : At(r, x)' => x = s
    BY <2>4, <2>6, <2>10 DEF At, Active, TearingDown
  <2>16. QED
    BY <1>1, <1>2, <2>6, <2>8, <2>9, <2>14, <2>15, KnownArrival
<1>5. CASE TakeApart(r, s, s, rows[s], "answer") /\ UNCHANGED verified
  <2>1. "answer" \in Reasons /\ "answer" # "create"
    BY DEF Reasons
  <2>2. /\ OthersSame(r) /\ req' \in [Requests -> ReqStates]
        /\ req'[r].phase = "reap" /\ req'[r].session = s /\ req'[r].victim = s
        /\ req'[r].reason = "answer"
    BY <1>1, <1>2, <1>5, <2>1, TakeApartState
  <2>3. TypeOK'
    BY <1>1, <1>3, <1>5, <2>2 DEF TypeOK, people, store
  <2>4. RequestInv(r)'
    BY <2>2 DEF RequestInv, Making, Stepping, Closing, Granted, Tearing
  <2>5. \A x \in Sessions : At(r, x)' => x = s
    BY <2>2 DEF At, Active, TearingDown
  <2>6. QED
    BY <1>1, <1>2, <1>5, <2>2, <2>3, <2>4, <2>5, KnownArrival
<1>6. QED
  BY <1>4, <1>5, Zenon DEF BeginStep

LEMMA HandleStepInv ==
    ASSUME IInv, NEW r \in Requests, NEW s \in Sessions, NEW skip \in BOOLEAN,
           HandleStep(r, s, skip)
    PROVE  IInv'
<1>1. PICK st \in Steps, b \in BOOLEAN : BeginStep(r, s, st, b)
  <2>1. FALSE \in BOOLEAN /\ skip \in BOOLEAN
    OBVIOUS
  <2>2. QED
    BY <2>1, StepNames, Zenon DEF HandleStep, RegisterVerifyEmailAddress,
       RegisterConfigureTOTP, RegisterValidateTOTP, RegisterConfigureSecurityKey,
       RegisterValidateSecurityKey, RegisterAddRecoveryEmail,
       RegisterVerifyRecoveryEmail, RegisterAddDuressPassword, Steps
<1>2. QED
  BY <1>1, BeginStepInv

LEMMA CancelRegistrationInv ==
    ASSUME IInv, NEW r \in Requests, NEW s \in Sessions, CancelRegistration(r, s)
    PROVE  IInv'
<1>1. /\ TypeOK /\ req[r].phase = "idle" /\ s \in known /\ Overlap(s)
      /\ mishaps < MaxMishaps /\ mishaps' = mishaps + 1
      /\ UNCHANGED <<people, store, preAuth, device, session, known, verified, torn,
                     finished>>
  BY DEF IInv, CancelRegistration, Mishap
<1>2. rows[s] \in SUBSET Steps
  BY <1>1, StepNames DEF TypeOK
<1>3. overlapped' \subseteq Sessions /\ mishaps' \in 0 .. MaxMishaps
  BY <1>1, ConstantsOk DEF Overlap, TypeOK, ConstantsOk
<1>4. /\ OthersSame(r) /\ req' \in [Requests -> ReqStates] /\ req'[r].session = s
      /\ \/ /\ req'[r].phase = "reap" /\ rows[s] # {}
            /\ req'[r].reason = "cancel" /\ req'[r].victim = s
         \/ req'[r].phase = "cancel"
  <2>1. CASE rows[s] # {} /\ TakeApart(r, s, s, rows[s], "cancel")
    <3>1. "cancel" \in Reasons
      BY DEF Reasons
    <3>2. QED
      BY <1>1, <1>2, <2>1, <3>1, TakeApartState
  <2>2. CASE Become(r, [Idle EXCEPT !.phase = "cancel", !.session = s])
    <3>1. PICK state : state = [Idle EXCEPT !.phase = "cancel", !.session = s]
      OBVIOUS
    <3>2. state \in ReqStates /\ state.phase = "cancel" /\ state.session = s
      BY <3>1, IdleType DEF ReqStates, Phases
    <3>3. Become(r, state)
      BY <2>2, <3>1, Zenon
    <3>4. QED
      BY <1>1, <3>2, <3>3, BecomeState
  <2>3. QED
    BY <2>1, <2>2, Zenon DEF CancelRegistration
<1>5. TypeOK'
  BY <1>1, <1>3, <1>4 DEF TypeOK, people, store
<1>6. RequestInv(r)'
  BY <1>4 DEF RequestInv, Making, Stepping, Closing, Granted, Tearing
<1>7. \A x \in Sessions : At(r, x)' => x = s
  BY <1>4 DEF At, Active, TearingDown
<1>8. QED
  BY <1>1, <1>4, <1>5, <1>6, <1>7, KnownArrival

LEMMA RegisterUserInv ==
    ASSUME IInv, NEW r \in Requests, NEW s \in Sessions, NEW a \in Addresses,
           NEW kind \in Kinds[s], RegisterUser(r, s, kind, a)
    PROVE  IInv'
<1>1. /\ TypeOK /\ req[r].phase = "idle" /\ session[s].kind = "none"
      /\ session' = [session EXCEPT ![s] = [kind |-> kind, address |-> a]]
      /\ UNCHANGED <<people, store, preAuth, device, mishaps, known, verified, torn,
                     finished>>
  BY DEF IInv, RegisterUser
<1>2. kind \in RegistrationKinds /\ kind # "none"
  BY ConstantsOk DEF ConstantsOk, RegistrationKinds
<1>3. /\ session' \in [Sessions -> [kind : RegistrationKinds \cup {"none"}, address : Addresses]]
      /\ session'[s].kind # "none"
      /\ \A x \in Sessions \ {s} : session'[x] = session[x]
  BY <1>1, <1>2 DEF TypeOK
<1>4. SessionInv(s) /\ Blank(s) /\ \A q \in Requests : ~Active(q, s)
  BY <1>1 DEF IInv, SessionInv
<1>5. /\ users[s] = "none" /\ rows[s] = {} /\ done[s] = {} /\ s \notin emailToken
      /\ s \notin known \cup expired /\ s \notin finished
  BY <1>1, <1>4 DEF Blank, SessionInv, TypeOK
<1>6. \A q \in Requests : ~At(q, s)
  BY <1>4 DEF At, Blank
<1>7. \A q \in Requests \ {r} : Making(q) => req[q].session # s
  BY <1>4 DEF Making, Active, Tearing
(* Whichever way it begins, the new session has one request.               *)
<1>8. ASSUME OthersSame(r), req'[r].session = s, req'[r].phase \in Tearing \cup {"create"},
             req'[r].phase \in Tearing => req'[r].reason = "create" /\ req'[r].victim # s,
             \A x \in overlapped : x \in overlapped'
      PROVE  SessionInv(s)' /\ Moves(s) /\ RequestInv(r)'
  <2>1. \A q \in Requests : At(q, s)' => q = r
    BY <1>6, <1>8 DEF OthersSame, At, Active, TearingDown
  <2>2. \A q \in Requests : ~TearingDown(q, s)'
    BY <1>4, <1>8 DEF OthersSame, Blank, TearingDown, Tearing
  <2>3. Blank(s)'
    BY <1>1, <1>4, <2>2 DEF Blank, people, store
  <2>4. Excused(s)'
    BY <1>1, <1>5 DEF Excused, people
  <2>5. SessionInv(s)'
    BY <1>1, <1>3, <1>5, <2>1, <2>4 DEF SessionInv, Alone, people, store
  <2>6. MakerInv(r, s)'
    BY <1>1, <1>3, <1>5, <1>8, <2>1, <2>2, <2>3 DEF MakerInv, At, people, store, Tearing
  <2>7. RequestInv(r)'
    BY <1>8, <2>6 DEF RequestInv, Making, Stepping, Closing, Granted, Tearing
  <2>8. Moves(s)
    BY <1>1, <1>8, <2>4 DEF Moves, people, store
  <2>9. QED
    BY <2>5, <2>7, <2>8
<1>9. CASE Become(r, [Idle EXCEPT !.phase = "create", !.session = s]) /\ UNCHANGED overlapped
  <2>1. PICK state : state = [Idle EXCEPT !.phase = "create", !.session = s]
    OBVIOUS
  <2>2. state \in ReqStates /\ state.phase = "create" /\ state.session = s
    BY <2>1, IdleType DEF ReqStates, Phases
  <2>3. Become(r, state)
    BY <1>9, <2>1, Zenon
  <2>4. OthersSame(r) /\ req' \in [Requests -> ReqStates] /\ req'[r] = state
    BY <1>1, <2>2, <2>3, BecomeState
  <2>5. TypeOK'
    BY <1>1, <1>3, <1>9, <2>4 DEF TypeOK, people, store
  <2>6. SessionInv(s)' /\ Moves(s) /\ RequestInv(r)'
    BY <1>8, <1>9, <2>2, <2>4 DEF Tearing
  <2> PICK near \in SUBSET Sessions : near = {s}
    OBVIOUS
  <2>7. \A x \in Sessions : At(r, x)' => x \in near
    BY <2>2, <2>4 DEF At, Active, TearingDown
  <2>8. \A x \in Sessions \ near : Steady(x)
    BY <1>1, <1>3, <1>9 DEF Steady, people, store
  <2>9. QED
    BY <1>1, <1>7, <2>4, <2>5, <2>6, <2>7, <2>8, ArrivalFrame DEF people
<1>10. ASSUME NEW t \in Lapsed(a), TakeApart(r, s, t, rows[t], "create"), Overlap(t)
       PROVE  IInv'
  <2>1. t \in Sessions /\ rows[t] # {} /\ t \in expired /\ t # s
    BY <1>5, <1>10 DEF Lapsed, RegisteredFor
  <2>2. rows[t] \in SUBSET Steps /\ "create" \in Reasons
    BY <1>1, <2>1, StepNames DEF TypeOK, Reasons
  <2>3. /\ OthersSame(r) /\ req' \in [Requests -> ReqStates]
        /\ req'[r].phase = "reap" /\ req'[r].session = s /\ req'[r].victim = t
        /\ req'[r].reason = "create"
    BY <1>1, <1>10, <2>1, <2>2, TakeApartState
  <2>4. overlapped' \subseteq Sessions /\ (\A x \in overlapped : x \in overlapped')
        /\ \A x \in Sessions \ {t} : x \in overlapped' => x \in overlapped
    BY <1>1, <1>10, <2>1 DEF Overlap, TypeOK
  <2>5. TypeOK'
    BY <1>1, <1>3, <2>3, <2>4 DEF TypeOK, people, store
  <2>6. SessionInv(s)' /\ Moves(s) /\ RequestInv(r)'
    BY <1>8, <2>1, <2>3, <2>4 DEF Tearing
  <2>7. SessionInv(t)' /\ Moves(t)
    <3>1. SessionInv(t) /\ session[t].kind # "none" /\ session'[t] = session[t]
      BY <1>3, <2>1 DEF IInv, SessionInv, Blank
    <3>2. QED
      BY <1>1, <1>10, <2>1, <2>3, <3>1, JoinedInv DEF people, store
  <2> PICK near \in SUBSET Sessions : near = {s, t}
    BY <2>1
  <2>8. \A x \in Sessions : At(r, x)' => x \in near
    BY <2>3 DEF At, Active, TearingDown
  <2>9. \A x \in Sessions \ near : Steady(x)
    BY <1>1, <1>3, <2>4 DEF Steady, people, store
  <2>10. \A q \in Requests \ {r} : Making(q) => req[q].session \notin near
    BY <1>7, <2>1 DEF IInv, RequestInv, MakerInv
  <2>11. QED
    BY <1>1, <2>3, <2>5, <2>6, <2>7, <2>8, <2>9, <2>10, ArrivalFrame DEF people
<1>11. QED
  BY <1>9, <1>10 DEF RegisterUser

-----------------------------------------------------------------------------
(* Time and the clean-up job.                                              *)

LEMMA QuietEnvironment ==
    ASSUME IInv, TypeOK',
           UNCHANGED <<users, emailToken, req, session, known, verified, torn, finished,
                       overlapped>>,
           NEW S \in SUBSET Sessions,
           \A s \in Sessions \ S :
               rows'[s] = rows[s] /\ done'[s] = done[s] /\ (s \in expired' => s \in expired),
           \A s \in S : rows'[s] \subseteq rows[s] /\ SessionInv(s)',
           \A q \in Requests : Making(q) => req[q].session \notin S
    PROVE  IInv'
<1>1. \A q \in Requests, s \in Sessions :
          /\ Active(q, s)' <=> Active(q, s)
          /\ TearingDown(q, s)' <=> TearingDown(q, s)
          /\ At(q, s)' <=> At(q, s)
  BY DEF Active, TearingDown, At
<1>2. \A s \in Sessions : SessionInv(s) /\ TornOn(s) /\ (s \notin S => Steady(s))
  BY <1>1 DEF IInv, TornOn, Steady
<1>3. \A s \in Sessions : Moves(s)
  <2>1. ASSUME NEW s \in Sessions
        PROVE  Excused(s) => Excused(s)'
    BY <1>2, <2>1, ExcusedStays
  <2>2. QED
    BY <2>1 DEF Moves
<1>4. ASSUME NEW s \in Sessions
      PROVE  SessionInv(s)'
  <2>1. CASE s \in S
    BY <2>1
  <2>2. CASE s \notin S
    BY <1>1, <1>2, <1>4, <2>2, SessionFrame
  <2>3. QED
    BY <2>1, <2>2
<1>5. ASSUME NEW q \in Requests
      PROVE  RequestInv(q)'
  <2> PICK s \in Sessions : s = req[q].session
    BY <1>5, ReqType DEF IInv
  <2>1. RequestInv(q) /\ req'[q] = req[q] /\ users'[s] = users[s] /\ Moves(s)
    BY <1>3, <1>5 DEF IInv
  <2>2. Making(q) => /\ Steady(s)
                     /\ \A p \in Requests : TearingDown(p, s)' => TearingDown(p, s)
                     /\ \A p \in Requests : Active(p, s)' => Active(p, s)
    BY <1>1, <1>2, <1>5
  <2>3. QED
    BY <1>5, <2>1, <2>2, RequestFrame
<1>6. QED
  BY <1>4, <1>5 DEF IInv

LEMMA ExpireInv ==
    ASSUME IInv, NEW s \in Sessions, Expire(s)
    PROVE  IInv'
<1>1. /\ TypeOK /\ rows[s] # {}
      /\ \A q \in Requests : ~(Active(q, s) /\ req[q].phase = "insert")
      /\ expired' = expired \cup {s}
      /\ mishaps < MaxMishaps /\ mishaps' = mishaps + 1
      /\ UNCHANGED <<people, rows, done, preAuth, device, req, history>>
  BY DEF IInv, Expire, Mishap
<1>2. expired' \subseteq Sessions /\ mishaps' \in 0 .. MaxMishaps
  BY <1>1, ConstantsOk DEF TypeOK, ConstantsOk
<1>3. TypeOK'
  BY <1>1, <1>2 DEF TypeOK, people, history
<1>4. \A q \in Requests : Making(q) => req[q].session # s
  BY <1>1 DEF IInv, RequestInv, MakerInv, Making, Active, Blank
<1>5. SessionInv(s)'
  <2>1. SessionInv(s) /\ session[s].kind # "none"
    BY <1>1 DEF IInv, SessionInv, Blank
  <2>2. /\ Excused(s)' <=> Excused(s)
        /\ Whole(s)' <=> Whole(s)
        /\ Alone(s)' <=> Alone(s)
        /\ Settled(s)' <=> Settled(s)
    BY <1>1 DEF Excused, BeingTakenApart, Whole, Alone, Settled, At, Active, TearingDown,
         people, history
  <2>3. QED
    BY <1>1, <2>1, <2>2 DEF SessionInv, people, history
<1> PICK S \in SUBSET Sessions : S = {s}
  OBVIOUS
<1>6. \A x \in Sessions \ S : x \in expired' => x \in expired
  BY <1>1
<1>7. QED
  BY <1>1, <1>3, <1>4, <1>5, <1>6, QuietEnvironment DEF people, history

LEMMA ExpirePreAuthInv ==
    ASSUME IInv, NEW s \in Sessions, ExpirePreAuth(s)
    PROVE  IInv'
<1>1. /\ TypeOK /\ preAuth' = [preAuth EXCEPT ![s] = "expired"]
      /\ mishaps < MaxMishaps /\ mishaps' = mishaps + 1
      /\ UNCHANGED <<people, store, device, req, history>>
  BY DEF IInv, ExpirePreAuth, Mishap
<1>2. mishaps' \in 0 .. MaxMishaps /\ preAuth' \in [Sessions -> {"live", "expired", "gone"}]
  BY <1>1, ConstantsOk DEF TypeOK, ConstantsOk
<1>3. TypeOK'
  BY <1>1, <1>2 DEF TypeOK, people, store, history
<1> PICK S \in SUBSET Sessions : S = {}
  OBVIOUS
<1>4. QED
  BY <1>1, <1>3, QuietEnvironment DEF people, store, history

LEMMA DeleteExpiredDataInv ==
    ASSUME IInv, DeleteExpiredData
    PROVE  IInv'
<1>1. /\ TypeOK
      /\ rows' = [s \in Sessions |-> IF s \in expired THEN {} ELSE rows[s]]
      /\ done' = [s \in Sessions |-> IF s \in expired THEN {} ELSE done[s]]
      /\ UNCHANGED <<people, expired, preAuth, device, req, mishaps, history>>
  BY DEF IInv, DeleteExpiredData
<1>2. rows' \in [Sessions -> SUBSET StepList] /\ done' \in [Sessions -> SUBSET StepList]
  BY <1>1 DEF TypeOK
<1>3. \A s \in Sessions : done'[s] \subseteq rows'[s]
  BY <1>1 DEF TypeOK
<1>4. TypeOK'
  BY <1>1, <1>2, <1>3 DEF TypeOK, people, history
<1> PICK S \in SUBSET Sessions : S = expired
  BY <1>1 DEF TypeOK
<1>5. \A q \in Requests : Making(q) => req[q].session \notin S
  BY DEF IInv, RequestInv, MakerInv
<1>6. ASSUME NEW s \in S
      PROVE  rows'[s] \subseteq rows[s] /\ SessionInv(s)'
  <2>1. rows'[s] = {} /\ done'[s] = {}
    BY <1>1, <1>6
  <2>2. SessionInv(s) /\ session[s].kind # "none"
    BY <1>6 DEF IInv, SessionInv, Blank
  <2>3. Whole(s)'
    BY <2>1 DEF Whole
  <2>4. /\ Excused(s)' <=> Excused(s)
        /\ Alone(s)' <=> Alone(s)
        /\ Settled(s) => Settled(s)'
    BY <1>1, <2>1 DEF Excused, BeingTakenApart, Alone, Settled, At, Active, TearingDown,
         people, history
  <2>5. QED
    BY <1>1, <2>1, <2>2, <2>3, <2>4 DEF SessionInv, people, history
<1>7. \A s \in Sessions \ S :
          rows'[s] = rows[s] /\ done'[s] = done[s] /\ (s \in expired' => s \in expired)
  BY <1>1
<1>8. QED
  BY <1>1, <1>4, <1>5, <1>6, <1>7, QuietEnvironment DEF people, history

-----------------------------------------------------------------------------
LEMMA InitInv == Init => IInv
<1> SUFFICES ASSUME Init PROVE IInv
  OBVIOUS
<1>1. \A r \in Requests : req[r].phase = "idle"
  BY IdleFields DEF Init
<1>2. TypeOK
  <2>1. mishaps \in 0 .. MaxMishaps
    BY ConstantsOk DEF Init, ConstantsOk
  <2>2. req \in [Requests -> ReqStates]
    BY IdleType DEF Init
  <2>3. (CHOOSE a \in Addresses : TRUE) \in Addresses
    BY ConstantsOk DEF ConstantsOk
  <2>4. session \in [Sessions -> [kind : RegistrationKinds \cup {"none"}, address : Addresses]]
    BY <2>3 DEF Init
  <2>5. QED
    BY <2>1, <2>2, <2>4 DEF Init, TypeOK, UserStates
<1>3. ASSUME NEW s \in Sessions
      PROVE  SessionInv(s)
  <2>1. \A q \in Requests : ~Active(q, s) /\ ~TearingDown(q, s)
    BY <1>1 DEF Active, TearingDown
  <2>2. Blank(s) /\ Alone(s)
    BY <1>3, <2>1 DEF Init, Blank, Alone, At
  <2>3. users[s] = "none" /\ rows[s] = {} /\ s \notin emailToken /\ s \notin known
        /\ s \notin finished
    BY <1>3 DEF Init
  <2>4. QED
    BY <2>1, <2>2, <2>3 DEF SessionInv
<1>4. \A r \in Requests : RequestInv(r)
  BY <1>1 DEF RequestInv, Making, Stepping, Closing, Granted, Tearing
<1>5. QED
  BY <1>2, <1>3, <1>4 DEF IInv

LEMMA NextInv ==
    ASSUME IInv, [Next]_vars
    PROVE  IInv'
<1>1. ASSUME NEW r \in Requests, Continue(r)
      PROVE  IInv'
  BY <1>1, CreateUserInv, IndexUserInv, InsertRowInv, CheckStepInv, FailInv, UseTokenInv,
     WriteUserInv, PersistRowInv, LoadUserInv, EnableUserInv, GrantStepsInv, DeleteRowInv,
     ReapRowInv, UnlinkInv, DropUserInv DEF Continue
<1>2. ASSUME NEW r \in Requests, Request(r)
      PROVE  IInv'
  BY <1>2, RegisterUserInv, HandleStepInv, CancelRegistrationInv DEF Request
<1>3. ASSUME NEW r \in Requests, Die(r)
      PROVE  IInv'
  BY <1>3, FailInv
<1>4. ASSUME NEW s \in Sessions, Expire(s) \/ ExpirePreAuth(s)
      PROVE  IInv'
  BY <1>4, ExpireInv, ExpirePreAuthInv
<1>5. CASE UNCHANGED vars
  <2>1. UNCHANGED <<people, store, preAuth, device, req, mishaps, history>>
    BY <1>5 DEF vars
  <2>2. TypeOK'
    BY <2>1 DEF IInv, TypeOK, people, store, history
  <2> PICK S \in SUBSET Sessions : S = {}
    OBVIOUS
  <2>3. QED
    BY <2>1, <2>2, QuietEnvironment DEF people, store, history
<1>6. QED
  BY <1>1, <1>2, <1>3, <1>4, <1>5, DeleteExpiredDataInv DEF Next

(* Of the invariant, what the properties say.                              *)
LEMMA Consequences ==
    ASSUME IInv
    PROVE  TypeOK /\ EnabledIsVerified /\ RowsHaveTheirUser /\ FinishedStays
<1>1. \A s \in Sessions : SessionInv(s)
  BY DEF IInv
<1>2. EnabledIsVerified
  <2> SUFFICES ASSUME NEW s \in Sessions,
                      users[s] = "enabled" \/ \E r \in Requests : Granting(r, s)
               PROVE  Excused(s)
    BY DEF EnabledIsVerified, Excused
  <2>1. ASSUME NEW r \in Requests, Granting(r, s)
        PROVE  Excused(s)
    BY <2>1 DEF IInv, RequestInv, CloseInv, Granting, Closing, Granted
  <2>2. QED
    BY <1>1, <2>1 DEF SessionInv
<1>3. RowsHaveTheirUser
  BY <1>1 DEF RowsHaveTheirUser, SessionInv
<1>4. FinishedStays
  BY <1>1 DEF IInv, TypeOK, FinishedStays, SessionInv, Settled
<1>5. QED
  BY <1>2, <1>3, <1>4 DEF IInv

-----------------------------------------------------------------------------
(* The properties, whatever the constants are.                             *)

LEMMA Invariance == Spec => []IInv
<1>1. IInv /\ [Next]_vars => IInv'
  BY NextInv
<1>2. QED
  BY <1>1, InitInv, PTL DEF Spec

(* Types: users, rows and requests of RegisterUserService never leave their
   sets of values, and a step is COMPLETE only as long as its row is there. *)
THEOREM TypeCorrect == Spec => []TypeOK
<1>1. IInv => TypeOK
  BY Consequences
<1>2. QED
  BY <1>1, Invariance, PTL

(* handleRegistrationCompletion enables and lets in only users who passed
   (or, where that is allowed, skipped) each step, unless the session is
   being taken apart.                                                      *)
THEOREM EnabledAreVerified == Spec => []EnabledIsVerified
<1>1. IInv => EnabledIsVerified
  BY Consequences
<1>2. QED
  BY <1>1, Invariance, PTL

(* Rows of user_registration_state never outlive their user.               *)
THEOREM RowsKeepUser == Spec => []RowsHaveTheirUser
<1>1. IInv => RowsHaveTheirUser
  BY Consequences
<1>2. QED
  BY <1>1, Invariance, PTL

(* A registration answered with success is final, if no two requests for it
   overlapped: no expiry, late cancel or new registration undoes it.       *)
THEOREM FinishedForGood == Spec => []FinishedStays
<1>1. IInv => FinishedStays
  BY Consequences
<1>2. QED
  BY <1>1, Invariance, PTL

-----------------------------------------------------------------------------
(* Registration implements RegistrationPromise.                            *)

(* What the invariant leaves open: a token nobody was told has shown        *)
(* nothing, and what is being made was not torn before.                     *)
Past(s) ==
    /\ s \notin known => verified[s] = {}
    /\ s \in torn =>
           /\ session[s].kind # "none"
           /\ \A r \in Requests : Making(r) => req[r].session # s

PromiseInv == IInv /\ \A s \in Sessions : Past(s)

Abstract == <<[a \in Addresses |-> HolderOf(a)], [s \in Sessions |-> StageOf(s)],
              [s \in Sessions |-> MissingOf(s)]>>

(* The promise sees nothing of the step in session s, or in no address.    *)
Unseen(s) == StageOf(s)' = StageOf(s) /\ MissingOf(s)' = MissingOf(s)
SameHolders == \A a \in Addresses : HolderOf(a)' = HolderOf(a)

Kept == Promise!Next \/ UNCHANGED Abstract

LEMMA AllUnseen ==
    ASSUME SameHolders, \A s \in Sessions : Unseen(s)
    PROVE  Kept
  BY DEF SameHolders, Unseen, Abstract, Kept

(* A user keeps the address as long as there is a row.                      *)
LEMMA HoldersStay ==
    ASSUME \A s \in Sessions : /\ users'[s] = "none" <=> users[s] = "none"
                               /\ users[s] = "none" \/ session'[s].address = session[s].address
    PROVE  SameHolders
  BY DEF SameHolders, HolderOf

SameApart == \A s \in Sessions : BeingTakenApart(s)' <=> BeingTakenApart(s)

LEMMA UnseenSession ==
    ASSUME NEW s \in Sessions, users'[s] = users[s],
           \/ users[s] = "none"
           \/ /\ BeingTakenApart(s)' <=> BeingTakenApart(s)
              /\ BeingTakenApart(s) \/ verified'[s] = verified[s]
    PROVE  Unseen(s)
<1>1. StageOf(s)' = StageOf(s)
  BY DEF StageOf
<1>2. QED
  BY <1>1 DEF Unseen, MissingOf, StageOf

(* Only session t takes part in the step, and its address stays.           *)
LEMMA OneSession ==
    ASSUME NEW t \in Sessions, SameHolders, \A s \in Sessions \ {t} : Unseen(s)
    PROVE  /\ [a \in Addresses |-> HolderOf(a)]' = [a \in Addresses |-> HolderOf(a)]
           /\ [s \in Sessions |-> StageOf(s)]' =
                  [[s \in Sessions |-> StageOf(s)] EXCEPT ![t] = StageOf(t)']
           /\ [s \in Sessions |-> MissingOf(s)]' =
                  [[s \in Sessions |-> MissingOf(s)] EXCEPT ![t] = MissingOf(t)']
  BY DEF SameHolders, Unseen

(* What a step may do to the requests that take sessions apart.            *)
LEMMA ApartStays ==
    ASSUME NEW r \in Requests, OthersSame(r), UNCHANGED torn,
           \A s \in Sessions : TearingDown(r, s)' <=> TearingDown(r, s)
    PROVE  SameApart
  BY DEF SameApart, BeingTakenApart, OthersSame, TearingDown

(* Steps the promise sees nothing of.                                      *)
LEMMA QuietKept ==
    ASSUME UNCHANGED <<users, verified>>, SameApart,
           \A s \in Sessions : users[s] = "none" \/ session'[s].address = session[s].address
    PROVE  Kept
<1>1. SameHolders
  BY HoldersStay
<1>2. \A s \in Sessions : Unseen(s)
  BY UnseenSession DEF SameApart
<1>3. QED
  BY <1>1, <1>2, AllUnseen

(* Steps are shown or skipped.                                             *)
LEMMA ShowKept ==
    ASSUME TypeOK, NEW t \in Sessions, NEW shown,
           verified' = [verified EXCEPT ![t] = @ \cup shown],
           UNCHANGED <<users, session>>, SameApart
    PROVE  Kept
<1>1. /\ verified'[t] = verified[t] \cup shown
      /\ \A s \in Sessions \ {t} : verified'[s] = verified[s]
  BY DEF TypeOK
<1>2. SameHolders
  BY HoldersStay
<1>3. \A s \in Sessions \ {t} : Unseen(s)
  BY <1>1, UnseenSession DEF SameApart
<1>4. StageOf(t)' = StageOf(t)
  BY DEF StageOf, SameApart
<1>5. CASE StageOf(t) = "pending"
  <2>1. MissingOf(t)' = MissingOf(t) \ (shown \cap MissingOf(t))
    BY <1>1, <1>4, <1>5 DEF MissingOf
  <2>2. [s \in Sessions |-> StageOf(s)]' = [s \in Sessions |-> StageOf(s)]
    BY <1>3, <1>4 DEF Unseen
  <2>3. Promise!Show(t)
    BY <1>2, <1>3, <1>5, <2>1, <2>2, OneSession DEF Promise!Show
  <2>4. QED
    BY <2>3 DEF Promise!Next, Kept
<1>6. CASE StageOf(t) # "pending"
  <2>1. Unseen(t)
    BY <1>4, <1>6 DEF MissingOf, Unseen
  <2>2. QED
    BY <1>2, <1>3, <2>1, AllUnseen
<1>7. QED
  BY <1>5, <1>6

(* The user's row is written: enabled when everything was shown, or back.  *)
LEMMA WriteKept ==
    ASSUME IInv, NEW t \in Sessions, NEW value \in {"disabled", "enabled"},
           users' = [users EXCEPT ![t] = IF @ = "none" THEN @ ELSE value],
           UNCHANGED <<verified, session>>, SameApart,
           value = "enabled" => Excused(t)
    PROVE  Kept
<1>1. /\ users'[t] = IF users[t] = "none" THEN "none" ELSE value
      /\ \A s \in Sessions \ {t} : users'[s] = users[s]
      /\ users[t] \in UserStates
  BY DEF IInv, TypeOK
<1>2. SameHolders
  BY <1>1, HoldersStay
<1>3. \A s \in Sessions \ {t} : Unseen(s)
  BY <1>1, UnseenSession DEF SameApart
<1>4. CASE users[t] = "none" \/ BeingTakenApart(t)
  <2>1. StageOf(t)' = StageOf(t) /\ StageOf(t) # "pending"
    BY <1>1, <1>4 DEF StageOf, SameApart
  <2>2. Unseen(t)
    BY <2>1 DEF MissingOf, Unseen
  <2>3. QED
    BY <1>2, <1>3, <2>2, AllUnseen
<1>5. CASE users[t] # "none" /\ ~BeingTakenApart(t)
  <2>1. StageOf(t) = IF users[t] = "enabled" THEN "enabled" ELSE "pending"
    BY <1>5 DEF StageOf
  <2>2. StageOf(t)' = IF value = "enabled" THEN "enabled" ELSE "pending"
    BY <1>1, <1>5 DEF StageOf, SameApart
  <2>3. CASE users[t] = value
    <3>1. Unseen(t)
      BY <2>1, <2>2, <2>3 DEF MissingOf, Unseen
    <3>2. QED
      BY <1>2, <1>3, <3>1, AllUnseen
  <2>4. CASE users[t] # value
    <3>1. Required \subseteq verified[t]
      BY <1>1, <1>5, <2>4 DEF IInv, SessionInv, Excused, UserStates
    <3>2. MissingOf(t) = {} /\ MissingOf(t)' = {}
      BY <3>1 DEF MissingOf, Required
    <3>3. [s \in Sessions |-> MissingOf(s)]' = [s \in Sessions |-> MissingOf(s)]
      BY <1>3, <3>2 DEF Unseen
    <3>4. Promise!Enable(t) \/ Promise!Withdraw(t)
      BY <1>1, <1>2, <1>3, <1>5, <2>1, <2>2, <2>4, <3>2, <3>3, OneSession
      DEF Promise!Enable, Promise!Withdraw, UserStates
    <3>5. QED
      BY <3>4 DEF Promise!Next, Kept
  <2>5. QED
    BY <2>3, <2>4
<1>6. QED
  BY <1>4, <1>5

(* A request begins to take a session apart.                               *)
LEMMA CloseKept ==
    ASSUME TypeOK, NEW r \in Requests, req[r].phase = "idle", OthersSame(r),
           NEW t \in Sessions, req'[r].phase = "reap", req'[r].victim = t,
           UNCHANGED <<users, verified, torn>>,
           \A s \in Sessions : users[s] = "none" \/ session'[s].address = session[s].address
    PROVE  Kept
<1>1. SameHolders
  BY HoldersStay
<1>2. \A s \in Sessions \ {t} : BeingTakenApart(s)' <=> BeingTakenApart(s)
  BY DEF BeingTakenApart, TearingDown, OthersSame
<1>3. \A s \in Sessions \ {t} : Unseen(s)
  BY <1>2, UnseenSession
<1>4. BeingTakenApart(t)'
  BY DEF BeingTakenApart, TearingDown
<1>5. CASE StageOf(t) \in {"pending", "enabled"}
  <2>1. StageOf(t)' = "closing" /\ MissingOf(t)' = {}
    BY <1>4, <1>5 DEF StageOf, MissingOf
  <2>2. Promise!Close(t)
    BY <1>1, <1>3, <1>5, <2>1, OneSession DEF Promise!Close
  <2>3. QED
    BY <2>2 DEF Promise!Next, Kept
<1>6. CASE StageOf(t) \notin {"pending", "enabled"}
  <2>1. Unseen(t)
    BY <1>4, <1>6 DEF StageOf, MissingOf, Unseen
  <2>2. QED
    BY <1>1, <1>3, <2>1, AllUnseen
<1>7. QED
  BY <1>5, <1>6

(* What a step leaves of the past.                                         *)
LEMMA PastFrame ==
    ASSUME PromiseInv, NEW r \in Requests, OthersSame(r), known \subseteq known',
           \A s \in Sessions : s \in torn' => s \in torn \/ TearingDown(r, s),
           \A s \in Sessions : session'[s].kind = "none" =>
               session[s].kind = "none" \/ (Making(r) /\ s = req[r].session),
           \A s \in Sessions : s \notin known => verified'[s] \in {verified[s], {}},
           Making(r)' =>
               \/ Making(r) /\ req'[r].session = req[r].session
               \/ \E s \in Sessions : s = req'[r].session /\ session[s].kind = "none"
    PROVE  \A s \in Sessions : Past(s)'
<1>1. ASSUME NEW q \in Requests, Making(q), NEW s \in Sessions, s = req[q].session
      PROVE  s \notin torn /\ ~TearingDown(r, s)
  <2>1. MakerInv(q, s)
    BY <1>1 DEF PromiseInv, IInv, RequestInv
  <2>2. QED
    BY <1>1, <2>1 DEF MakerInv, PromiseInv, Past
<1>2. ASSUME NEW s \in Sessions, session[s].kind = "none"
      PROVE  s \notin torn /\ ~TearingDown(r, s)
  <2>1. Blank(s)
    BY <1>2 DEF PromiseInv, IInv, SessionInv
  <2>2. QED
    BY <1>2, <2>1 DEF Blank, PromiseInv, Past
<1>3. ASSUME NEW s \in Sessions, s \in torn'
      PROVE  session'[s].kind # "none"
  BY <1>1, <1>2, <1>3
<1>4. ASSUME NEW s \in Sessions, s \in torn', NEW q \in Requests, Making(q)'
      PROVE  req'[q].session # s
  <2>1. CASE q = r
    BY <1>1, <1>2, <1>4, <2>1
  <2>2. CASE q # r
    <3>1. req'[q] = req[q]
      BY <2>2 DEF OthersSame
    <3>2. Making(q)
      BY <1>4, <3>1 DEF Making
    <3>3. QED
      BY <1>1, <1>4, <3>1, <3>2
  <2>3. QED
    BY <2>1, <2>2
<1>5. \A s \in Sessions : s \notin known' => verified'[s] = {}
  BY DEF PromiseInv, Past
<1>6. QED
  BY <1>3, <1>4, <1>5 DEF Past

-----------------------------------------------------------------------------
(* Requests that take nothing apart.                                       *)

Plain(r) ==
    /\ req[r].phase \notin Tearing
    /\ OthersSame(r)
    /\ \/ req'[r].phase = "idle"
       \/ /\ req'[r].session = req[r].session
          /\ req'[r].phase \notin Tearing
          /\ req'[r].phase \in {"create", "index", "insert"} =>
                 req[r].phase \in {"create", "index", "insert"}

LEMMA PlainApart ==
    ASSUME NEW r \in Requests, Plain(r), UNCHANGED torn
    PROVE  SameApart
  BY ApartStays DEF Plain, TearingDown, Tearing

LEMMA PlainPast ==
    ASSUME PromiseInv, NEW r \in Requests, Plain(r), UNCHANGED torn, known \subseteq known',
           \A s \in Sessions : session'[s].kind = "none" =>
               session[s].kind = "none" \/ (Making(r) /\ s = req[r].session),
           \A s \in Sessions : s \notin known => verified'[s] = verified[s]
    PROVE  \A s \in Sessions : Past(s)'
<1>1. Making(r)' => Making(r) /\ req'[r].session = req[r].session
  BY DEF Plain, Making, Tearing
<1>2. QED
  BY <1>1, PastFrame DEF Plain

LEMMA GotoPlain ==
    ASSUME TypeOK, NEW r \in Requests, req[r].phase \notin Tearing, NEW phase \in Phases,
           Goto(r, phase), phase \notin Tearing,
           phase \in {"create", "index", "insert"} =>
               req[r].phase \in {"create", "index", "insert"}
    PROVE  Plain(r)
  BY GotoState DEF Plain

LEMMA FinishPlain ==
    ASSUME TypeOK, NEW r \in Requests, req[r].phase \notin Tearing, Finish(r)
    PROVE  Plain(r)
  BY FinishState DEF Plain

LEMMA TodoPlain ==
    ASSUME TypeOK, NEW r \in Requests, req[r].phase \notin Tearing,
           NEW phase \in Phases, NEW todo \in SUBSET Steps,
           Become(r, [req[r] EXCEPT !.phase = phase, !.todo = todo]), phase \notin Tearing,
           phase \in {"create", "index", "insert"} =>
               req[r].phase \in {"create", "index", "insert"}
    PROVE  Plain(r)
  BY TodoState DEF Plain, SameRequest

LEMMA LessPlain ==
    ASSUME TypeOK, NEW r \in Requests, req[r].phase \notin Tearing, NEW st,
           Become(r, [req[r] EXCEPT !.todo = @ \ {st}])
    PROVE  Plain(r)
  BY OneLess DEF Plain, SameRequest

(* Making a registration, the rows, the check that fails, the completion.  *)
LEMMA QuietPlain ==
    ASSUME TypeOK, NEW r \in Requests,
           \/ IndexUser(r) \/ InsertRow(r) \/ FailStep(r) \/ UseToken(r) \/ PersistRow(r)
           \/ LoadUser(r) \/ ApproveDevice(r) \/ ReadPreAuth(r) \/ ConsumePreAuth(r)
           \/ SaveCode(r) \/ DeleteRow(r) \/ TellCancelled(r)
    PROVE  Plain(r) /\ known \subseteq known' /\ UNCHANGED <<users, verified, session, torn>>
<1>1. CASE IndexUser(r)
  <2>1. "insert" \in Phases /\ StepList \in SUBSET Steps
    BY DEF Phases, StepList
  <2>2. Plain(r)
    BY <1>1, <2>1, TodoPlain DEF IndexUser, Tearing
  <2>3. QED
    BY <1>1, <2>2 DEF IndexUser, history
<1>2. CASE InsertRow(r)
  <2>1. /\ req[r].phase = "insert" /\ known \subseteq known'
        /\ \/ Finish(r)
           \/ \E st \in req[r].todo : Become(r, [req[r] EXCEPT !.todo = @ \ {st}])
        /\ UNCHANGED <<users, verified, session, torn>>
    BY <1>2, Zenon DEF InsertRow, people
  <2>2. Plain(r)
    BY <2>1, FinishPlain, LessPlain DEF Tearing
  <2>3. QED
    BY <2>1, <2>2
<1>3. CASE FailStep(r) \/ TellCancelled(r)
  <2>1. Plain(r)
    BY <1>3, FinishPlain DEF FailStep, TellCancelled, Tearing
  <2>2. QED
    BY <1>3, <2>1 DEF FailStep, TellCancelled, people, history
<1>4. CASE UseToken(r)
  <2>1. req[r].phase = "useToken" /\ (Goto(r, "writeUser") \/ Goto(r, "persist"))
    BY <1>4 DEF UseToken
  <2>2. Plain(r)
    BY <2>1, GotoPlain DEF Tearing, Phases
  <2>3. QED
    BY <1>4, <2>2 DEF UseToken, history
<1>5. CASE PersistRow(r)
  <2>1. /\ req[r].phase = "persist"
        /\ \/ \E st \in req[r].todo : Become(r, [req[r] EXCEPT !.todo = @ \ {st}])
           \/ Become(r, [req[r] EXCEPT !.phase = "load", !.todo = {}])
           \/ Finish(r)
        /\ UNCHANGED <<people, history>>
    BY <1>5, Zenon DEF PersistRow
  <2>2. "load" \in Phases /\ {} \in SUBSET Steps
    BY DEF Phases
  <2>3. Plain(r)
    BY <2>1, <2>2, FinishPlain, LessPlain, TodoPlain DEF Tearing
  <2>4. QED
    BY <2>1, <2>3 DEF people, history
<1>6. CASE LoadUser(r)
  <2>1. req[r].phase = "load" /\ (Goto(r, "enable") \/ Finish(r))
    BY <1>6 DEF LoadUser
  <2>2. Plain(r)
    BY <2>1, GotoPlain, FinishPlain DEF Tearing, Phases
  <2>3. QED
    BY <1>6, <2>2 DEF LoadUser, people, history
<1>7. CASE ApproveDevice(r) \/ SaveCode(r)
  <2>1. "cleanup" \in Phases /\ req[r].list \in SUBSET Steps
    BY ReqType DEF Phases
  <2>2. Become(r, [req[r] EXCEPT !.phase = "cleanup", !.todo = req[r].list])
    BY <1>7, Zenon DEF ApproveDevice, SaveCode, StartCleanup
  <2>3. req[r].phase \notin Tearing
    BY <1>7 DEF ApproveDevice, SaveCode, Tearing
  <2>4. Plain(r)
    BY <2>1, <2>2, <2>3, TodoPlain DEF Tearing
  <2>5. QED
    BY <1>7, <2>4 DEF ApproveDevice, SaveCode, people, history
<1>8. CASE ReadPreAuth(r)
  <2>1. req[r].phase = "code" /\ (Goto(r, "discard") \/ Goto(r, "consume") \/ Finish(r))
    BY <1>8 DEF ReadPreAuth
  <2>2. Plain(r)
    BY <2>1, GotoPlain, FinishPlain DEF Tearing, Phases
  <2>3. QED
    BY <1>8, <2>2 DEF ReadPreAuth, people, history
<1>9. CASE ConsumePreAuth(r)
  <2>1. req[r].phase \in {"consume", "discard"} /\ (Goto(r, "save") \/ Finish(r))
    BY <1>9 DEF ConsumePreAuth
  <2>2. Plain(r)
    BY <2>1, GotoPlain, FinishPlain DEF Tearing, Phases
  <2>3. QED
    BY <1>9, <2>2 DEF ConsumePreAuth, people, history
<1>10. CASE DeleteRow(r)
  <2>1. /\ req[r].phase = "cleanup"
        /\ \/ \E st \in req[r].todo : Become(r, [req[r] EXCEPT !.todo = @ \ {st}])
           \/ Finish(r)
        /\ UNCHANGED <<people, session, known, verified, torn>>
    BY <1>10, Zenon DEF DeleteRow
  <2>2. Plain(r)
    BY <2>1, FinishPlain, LessPlain DEF Tearing
  <2>3. QED
    BY <2>1, <2>2 DEF people
<1>11. QED
  BY <1>1, <1>2, <1>3, <1>4, <1>5, <1>6, <1>7, <1>8, <1>9, <1>10

PastKept == \A s \in Sessions : Past(s)'

LEMMA QuietStepKept ==
    ASSUME PromiseInv, NEW r \in Requests, Plain(r), known \subseteq known',
           UNCHANGED <<users, verified, session, torn>>
    PROVE  Kept /\ PastKept
<1>1. Kept
  BY PlainApart, QuietKept
<1>2. QED
  BY <1>1, PlainPast DEF PastKept

LEMMA CheckStepKept ==
    ASSUME PromiseInv, NEW r \in Requests, CheckStep(r)
    PROVE  Kept /\ PastKept
<1> PICK s \in Sessions : s = req[r].session
  BY ReqType DEF PromiseInv, IInv
<1>1. /\ TypeOK /\ req[r].phase = "check"
      /\ verified' = [verified EXCEPT ![s] = @ \cup {req[r].step}]
      /\ UNCHANGED <<users, session, known, torn>>
  BY Zenon DEF PromiseInv, IInv, CheckStep
<1>2. Plain(r)
  BY <1>1, CheckedRequest DEF Plain, Tearing
<1>3. s \in known
  BY <1>1 DEF PromiseInv, IInv, RequestInv, StepInv, Stepping
<1>4. \A x \in Sessions : x \notin known => verified'[x] = verified[x]
  BY <1>1, <1>3 DEF TypeOK
<1>5. Kept
  BY <1>1, <1>2, PlainApart, ShowKept
<1>6. QED
  BY <1>1, <1>2, <1>4, <1>5, PlainPast DEF PastKept

LEMMA WriteStepKept ==
    ASSUME PromiseInv, NEW r \in Requests, WriteUser(r) \/ EnableUser(r)
    PROVE  Kept /\ PastKept
<1> PICK s \in Sessions : s = req[r].session
  BY ReqType DEF PromiseInv, IInv
<1>1. /\ TypeOK /\ req[r].phase \in {"writeUser", "enable"}
      /\ UNCHANGED <<session, known, verified, torn>>
  BY DEF PromiseInv, IInv, WriteUser, EnableUser, history
<1>2. \E phase \in {"persist", "code", "approve", "sign"} : Goto(r, phase)
  BY DEF WriteUser, EnableUser
<1>3. Plain(r)
  BY <1>1, <1>2, GotoPlain DEF Tearing, Phases
<1>4. \E value \in {"disabled", "enabled"} :
          /\ users' = [users EXCEPT ![s] = IF @ = "none" THEN @ ELSE value]
          /\ value = "enabled" => Excused(s)
  <2>1. CASE WriteUser(r)
    <3>1. /\ req[r].seen \in {"disabled", "enabled"}
          /\ req[r].seen = "enabled" => Excused(s)
      BY <1>1, <2>1, ReqType
      DEF WriteUser, PromiseInv, IInv, RequestInv, StepInv, Stepping, UserStates
    <3>2. QED
      BY <2>1, <3>1 DEF WriteUser
  <2>2. CASE EnableUser(r)
    <3>1. Excused(s)
      BY <2>2 DEF EnableUser, PromiseInv, IInv, RequestInv, CloseInv, Closing
    <3>2. QED
      BY <2>2, <3>1 DEF EnableUser
  <2>3. QED
    BY <2>1, <2>2
<1>5. SameApart
  BY <1>1, <1>3, PlainApart
<1>6. Kept
  BY <1>1, <1>4, <1>5, WriteKept DEF PromiseInv
<1>7. QED
  BY <1>1, <1>3, <1>6, PlainPast DEF PastKept

(* The address is taken.                                                   *)
LEMMA CreateUserKept ==
    ASSUME PromiseInv, NEW r \in Requests, CreateUser(r)
    PROVE  Kept /\ PastKept
<1> PICK t \in Sessions : t = req[r].session
  BY ReqType DEF PromiseInv, IInv
<1>1. /\ TypeOK /\ req[r].phase = "create"
      /\ UNCHANGED <<known, verified, torn>>
  BY DEF PromiseInv, IInv, CreateUser
<1>2. Making(r) /\ MakerInv(r, t) /\ Blank(t)
  BY <1>1 DEF PromiseInv, IInv, RequestInv, MakerInv, Making
<1>3. verified[t] = {} /\ t \notin torn
  BY <1>2 DEF PromiseInv, Past, Blank
<1>4. CASE /\ AddressIsFree(session[t].address)
           /\ users' = [users EXCEPT ![t] = "disabled"]
           /\ Goto(r, "index") /\ UNCHANGED session
  <2>1. Plain(r)
    BY <1>1, <1>4, GotoPlain DEF Tearing, Phases
  <2>2. SameApart
    BY <1>1, <2>1, PlainApart
  <2>3. ~BeingTakenApart(t)
    BY <1>2, <1>3 DEF BeingTakenApart, Blank
  <2>4. users'[t] = "disabled" /\ \A s \in Sessions \ {t} : users'[s] = users[s]
    BY <1>1, <1>4 DEF TypeOK
  <2>5. /\ StageOf(t) = "none" /\ StageOf(t)' = "pending"
        /\ MissingOf(t) = {} /\ MissingOf(t)' = Required
    BY <1>1, <1>2, <1>3, <2>2, <2>3, <2>4 DEF StageOf, MissingOf, Blank, SameApart, Required
  <2>6. \A s \in Sessions \ {t} : Unseen(s)
    BY <1>1, <2>2, <2>4, UnseenSession DEF SameApart
  <2> PICK a \in Addresses : a = session[t].address
    BY <1>1 DEF TypeOK
  <2>7. HolderOf(a) = {} /\ HolderOf(a)' = {t}
    BY <1>4, <2>4 DEF HolderOf, AddressIsFree
  <2>8. \A b \in Addresses \ {a} : HolderOf(b)' = HolderOf(b)
    BY <1>4, <2>4 DEF HolderOf
  <2>9. Promise!Reserve(a, t)
    BY <2>5, <2>6, <2>7, <2>8 DEF Promise!Reserve, Unseen
  <2>10. Kept
    BY <2>9 DEF Promise!Next, Kept
  <2>11. QED
    BY <1>1, <1>4, <2>1, <2>10, PlainPast DEF PastKept
<1>5. CASE /\ session' = [session EXCEPT ![t].kind = "none"]
           /\ Finish(r) /\ UNCHANGED users
  <2>1. Plain(r)
    BY <1>1, <1>5, FinishPlain DEF Tearing
  <2>2. /\ \A s \in Sessions : session'[s].address = session[s].address
        /\ \A s \in Sessions \ {t} : session'[s].kind = session[s].kind
    BY <1>1, <1>5 DEF TypeOK
  <2>3. Kept
    BY <1>1, <1>5, <2>1, <2>2, PlainApart, QuietKept
  <2>4. QED
    BY <1>1, <1>2, <2>1, <2>2, <2>3, PlainPast DEF PastKept
<1>6. QED
  BY <1>4, <1>5, Zenon DEF CreateUser

-----------------------------------------------------------------------------
(* Requests that take a session apart.                                     *)

(* They go on, one row or the search document less.                        *)
LEMMA TearOnKept ==
    ASSUME PromiseInv, NEW r \in Requests, OthersSame(r),
           req[r].phase \in Tearing, req'[r].phase \in Tearing,
           req'[r].session = req[r].session, req'[r].victim = req[r].victim,
           req'[r].reason = req[r].reason,
           UNCHANGED <<users, verified, session, known, torn>>
    PROVE  Kept /\ PastKept
<1>1. \A s \in Sessions : TearingDown(r, s)' <=> TearingDown(r, s)
  BY DEF TearingDown, Tearing
<1>2. Kept
  BY <1>1, ApartStays, QuietKept
<1>3. Making(r)' => Making(r)
  BY DEF Making, Tearing
<1>4. QED
  BY <1>2, <1>3, PastFrame DEF PastKept

(* They stop half-way, or die.                                             *)
LEMMA StopKept ==
    ASSUME PromiseInv, NEW r \in Requests, Finish(r),
           UNCHANGED <<users, verified, session, known>>,
           \A s \in Sessions : s \in torn' <=> s \in torn \/ TearingDown(r, s)
    PROVE  Kept /\ PastKept
<1>1. OthersSame(r) /\ req'[r].phase = "idle"
  BY FinishState DEF PromiseInv, IInv
<1>2. \A s \in Sessions : ~TearingDown(r, s)'
  BY <1>1 DEF TearingDown
<1>3. \A q \in Requests \ {r}, s \in Sessions : TearingDown(q, s)' <=> TearingDown(q, s)
  BY <1>1 DEF OthersSame, TearingDown
<1>4. SameApart
  BY <1>2, <1>3 DEF SameApart, BeingTakenApart
<1>5. Kept
  BY <1>4, QuietKept
<1>6. ~Making(r)'
  BY <1>1 DEF Making, Tearing
<1>7. QED
  BY <1>1, <1>5, <1>6, PastFrame DEF PastKept

LEMMA ReapRowKept ==
    ASSUME PromiseInv, NEW r \in Requests, ReapRow(r)
    PROVE  Kept /\ PastKept
<1>1. /\ TypeOK /\ req[r].phase = "reap"
      /\ UNCHANGED <<users, verified, session, known, torn>>
  BY DEF PromiseInv, IInv, ReapRow, people, history
<1>2. PICK st \in req[r].todo, ph \in {"unlink", "reap"} :
          Become(r, [req[r] EXCEPT !.todo = @ \ {st}, !.phase = ph])
  <2>1. PICK st \in req[r].todo :
          Become(r, [req[r] EXCEPT !.todo = @ \ {st},
                 !.phase = IF req[r].todo = {st} THEN "unlink" ELSE "reap"])
    BY Zenon DEF ReapRow
  <2>2. PICK ph : ph = IF req[r].todo = {st} THEN "unlink" ELSE "reap"
    OBVIOUS
  <2>3. ph \in {"unlink", "reap"}
    BY <2>2
  <2>4. Become(r, [req[r] EXCEPT !.todo = @ \ {st}, !.phase = ph])
    BY <2>1, <2>2, Zenon
  <2>5. QED
    BY <2>3, <2>4, Zenon
<1>3. PICK state : state = [req[r] EXCEPT !.todo = @ \ {st}, !.phase = ph]
  OBVIOUS
<1>4. /\ state.phase = ph /\ state.session = req[r].session
      /\ state.victim = req[r].victim /\ state.reason = req[r].reason
  BY <1>1, <1>3, ReqType DEF ReqStates
<1>5. Become(r, state)
  BY <1>2, <1>3, Zenon
<1>6. OthersSame(r) /\ req'[r] = state
  BY <1>1, <1>5, BecomeState
<1>7. req[r].phase \in Tearing /\ req'[r].phase \in Tearing
  BY <1>1, <1>2, <1>4, <1>6 DEF Tearing
<1>8. QED
  BY <1>1, <1>4, <1>6, <1>7, TearOnKept

LEMMA UnlinkKept ==
    ASSUME PromiseInv, NEW r \in Requests, Unlink(r)
    PROVE  Kept /\ PastKept
<1> PICK v \in Sessions : v = req[r].victim
  BY ReqType DEF PromiseInv, IInv
<1>1. /\ TypeOK /\ req[r].phase = "unlink"
      /\ UNCHANGED <<users, verified, session, known>>
      /\ (Goto(r, "dropUser") /\ UNCHANGED torn) \/ (Finish(r) /\ torn' = torn \cup {v})
  BY DEF PromiseInv, IInv, Unlink
<1>2. CASE Goto(r, "dropUser") /\ UNCHANGED torn
  <2>1. "dropUser" \in Phases
    BY DEF Phases
  <2>2. /\ OthersSame(r) /\ req'[r].phase = "dropUser" /\ req'[r].session = req[r].session
        /\ req'[r].victim = req[r].victim /\ req'[r].reason = req[r].reason
    BY <1>1, <1>2, <2>1, GotoState
  <2>3. QED
    BY <1>1, <1>2, <2>2, TearOnKept DEF Tearing
<1>3. CASE Finish(r) /\ torn' = torn \cup {v}
  <2>1. \A s \in Sessions : s \in torn' <=> s \in torn \/ TearingDown(r, s)
    BY <1>1, <1>3 DEF TearingDown
  <2>2. QED
    BY <1>1, <1>3, <2>1, StopKept
<1>4. QED
  BY <1>1, <1>2, <1>3

LEMMA DieKept ==
    ASSUME PromiseInv, NEW r \in Requests, Die(r)
    PROVE  Kept /\ PastKept
<1> PICK v \in Sessions : v = req[r].victim
  BY ReqType DEF PromiseInv, IInv
<1>1. /\ UNCHANGED <<users, verified, session, known>> /\ Finish(r)
      /\ torn' = IF TearingDown(r, v) THEN torn \cup {v} ELSE torn
  BY DEF Die, people
<1>2. \A s \in Sessions : s \in torn' <=> s \in torn \/ TearingDown(r, s)
  BY <1>1 DEF TearingDown
<1>3. QED
  BY <1>1, <1>2, StopKept

(* The user is deleted: the address is free.                               *)
LEMMA DropUserKept ==
    ASSUME PromiseInv, NEW r \in Requests, DropUser(r)
    PROVE  Kept /\ PastKept
<1> PICK v \in Sessions : v = req[r].victim
  BY ReqType DEF PromiseInv, IInv
<1>1. /\ TypeOK /\ req[r].phase = "dropUser"
      /\ users' = [users EXCEPT ![v] = "none"]
      /\ verified' = [verified EXCEPT ![v] = {}]
      /\ UNCHANGED <<session, known, torn>>
  BY Zenon DEF PromiseInv, IInv, DropUser
<1>2. \/ req[r].reason = "create" /\ Goto(r, "create")
      \/ Goto(r, "cancel")
      \/ Finish(r)
  BY DEF DropUser
<1>3. /\ OthersSame(r)
      /\ \/ req'[r].phase = "create" /\ req[r].reason = "create"
            /\ req'[r].session = req[r].session
         \/ req'[r].phase \in {"cancel", "idle"}
  <2>1. "create" \in Phases /\ "cancel" \in Phases
    BY DEF Phases
  <2>2. CASE req[r].reason = "create" /\ Goto(r, "create")
    BY <1>1, <2>1, <2>2, GotoState
  <2>3. CASE Goto(r, "cancel")
    BY <1>1, <2>1, <2>3, GotoState
  <2>4. CASE Finish(r)
    BY <1>1, <2>4, FinishState
  <2>5. QED
    BY <1>2, <2>2, <2>3, <2>4
<1>4. /\ users'[v] = "none" /\ verified'[v] = {}
      /\ \A s \in Sessions \ {v} : users'[s] = users[s] /\ verified'[s] = verified[s]
  BY <1>1 DEF TypeOK
<1>5. PastKept
  <2>1. Making(r)' => Making(r) /\ req'[r].session = req[r].session
    BY <1>1, <1>3 DEF Making, Tearing
  <2>2. \A s \in Sessions : s \notin known => verified'[s] \in {verified[s], {}}
    BY <1>4
  <2>3. QED
    BY <1>1, <1>3, <2>1, <2>2, PastFrame DEF PastKept
<1>6. TearingDown(r, v) /\ \A s \in Sessions : ~TearingDown(r, s)'
  BY <1>1, <1>3 DEF TearingDown
<1>7. \A q \in Requests \ {r}, s \in Sessions : TearingDown(q, s)' <=> TearingDown(q, s)
  BY <1>3 DEF OthersSame, TearingDown
<1>8. \A s \in Sessions \ {v} : BeingTakenApart(s)' <=> BeingTakenApart(s)
  BY <1>1, <1>6, <1>7 DEF BeingTakenApart, TearingDown
<1>9. \A s \in Sessions \ {v} : Unseen(s)
  BY <1>4, <1>8, UnseenSession
<1>10. CASE users[v] = "none"
  <2>1. SameHolders
    BY <1>1, <1>4, <1>10, HoldersStay
  <2>2. Unseen(v)
    BY <1>4, <1>10, UnseenSession
  <2>3. Kept
    BY <1>9, <2>1, <2>2, AllUnseen
  <2>4. QED
    BY <1>5, <2>3
<1>11. CASE users[v] # "none"
  <2>1. StageOf(v) = "closing" /\ StageOf(v)' = "none"
    BY <1>4, <1>6, <1>11 DEF StageOf, BeingTakenApart
  <2>2. MissingOf(v) = {} /\ MissingOf(v)' = {}
    BY <2>1 DEF MissingOf
  <2> PICK a \in Addresses : a = session[v].address
    BY <1>1 DEF TypeOK
  <2>3. v \in HolderOf(a) /\ HolderOf(a)' = HolderOf(a) \ {v}
    BY <1>1, <1>4, <1>11 DEF HolderOf
  <2>4. \A b \in Addresses \ {a} : HolderOf(b)' = HolderOf(b)
    BY <1>1, <1>4 DEF HolderOf
  <2>5. Promise!Free(a, v)
    BY <1>9, <2>1, <2>2, <2>3, <2>4 DEF Promise!Free, Unseen
  <2>6. Kept
    BY <2>5 DEF Promise!Next, Kept
  <2>7. QED
    BY <1>5, <2>6
<1>12. QED
  BY <1>10, <1>11

-----------------------------------------------------------------------------
(* Requests that arrive.                                                   *)

(* A request that is not about to take something apart.                    *)
LEMMA ArrivesApart ==
    ASSUME NEW r \in Requests, OthersSame(r), req[r].phase = "idle",
           req'[r].phase \notin Tearing, UNCHANGED torn
    PROVE  SameApart
  BY ApartStays DEF TearingDown, Tearing

LEMMA TakeApartKept ==
    ASSUME PromiseInv, NEW r \in Requests, req[r].phase = "idle",
           NEW s \in Sessions, NEW t \in Sessions, NEW reason \in Reasons,
           TakeApart(r, s, t, rows[t], reason),
           reason = "create" => session[s].kind = "none",
           UNCHANGED <<users, verified, known, torn>>,
           \A x \in Sessions : session'[x].kind = "none" => session[x].kind = "none",
           \A x \in Sessions : users[x] = "none" \/ session'[x].address = session[x].address
    PROVE  Kept /\ PastKept
<1>1. TypeOK /\ rows[t] \in SUBSET Steps
  BY StepNames DEF PromiseInv, IInv, TypeOK
<1>2. /\ OthersSame(r) /\ req'[r].phase = "reap" /\ req'[r].session = s
      /\ req'[r].victim = t /\ req'[r].reason = reason
  <2>1. PICK list \in SUBSET Steps : list = rows[t]
    BY <1>1
  <2>2. TakeApart(r, s, t, list, reason)
    BY <2>1, Zenon
  <2>3. QED
    BY <1>1, <2>2, TakeApartState
<1>3. Kept
  BY <1>1, <1>2, CloseKept
<1>4. Making(r)' => \E x \in Sessions : x = req'[r].session /\ session[x].kind = "none"
  BY <1>2 DEF Making, Tearing
<1>5. QED
  BY <1>2, <1>3, <1>4, PastFrame DEF PastKept

LEMMA BeginStepKept ==
    ASSUME PromiseInv, NEW r \in Requests, NEW s \in Sessions, NEW st \in Steps,
           NEW skip \in BOOLEAN, BeginStep(r, s, st, skip)
    PROVE  Kept /\ PastKept
<1>1. /\ TypeOK /\ req[r].phase = "idle" /\ s \in known
      /\ UNCHANGED <<users, session, known, torn>>
  BY Zenon DEF PromiseInv, IInv, BeginStep, people
<1>2. CASE /\ Become(r, [Idle EXCEPT !.phase = IF skip THEN "persist" ELSE "check",
                  !.session = s, !.step = st, !.skip = skip, !.list = rows[s],
                  !.todo = Completes(st, skip) \cap rows[s]])
           /\ verified' = IF skip
                  THEN [verified EXCEPT ![s] = @ \cup Completes(st, skip)]
                  ELSE verified
  <2>1. PICK state : state = [Idle EXCEPT !.phase = IF skip THEN "persist" ELSE "check",
                  !.session = s, !.step = st, !.skip = skip, !.list = rows[s],
                  !.todo = Completes(st, skip) \cap rows[s]]
    OBVIOUS
  <2>2. state.phase \in {"persist", "check"}
    BY <2>1 DEF Idle
  <2>3. Become(r, state)
    BY <1>2, <2>1, Zenon
  <2>4. OthersSame(r) /\ req'[r].phase \in {"persist", "check"}
    BY <1>1, <2>2, <2>3, BecomeState
  <2>5. SameApart
    BY <1>1, <2>4, ArrivesApart DEF Tearing
  <2>6. Kept
    BY <1>1, <1>2, <2>5, QuietKept, ShowKept
  <2>7. \A x \in Sessions : x \notin known => verified'[x] = verified[x]
    BY <1>1, <1>2 DEF TypeOK
  <2>8. ~Making(r)'
    BY <2>4 DEF Making, Tearing
  <2>9. QED
    BY <1>1, <2>4, <2>6, <2>7, <2>8, PastFrame DEF PastKept
<1>3. CASE TakeApart(r, s, s, rows[s], "answer") /\ UNCHANGED verified
  <2>1. "answer" \in Reasons /\ "answer" # "create"
    BY DEF Reasons
  <2>2. QED
    BY <1>1, <1>3, <2>1, TakeApartKept
<1>4. QED
  BY <1>2, <1>3, Zenon DEF BeginStep

LEMMA CancelRegistrationKept ==
    ASSUME PromiseInv, NEW r \in Requests, NEW s \in Sessions, CancelRegistration(r, s)
    PROVE  Kept /\ PastKept
<1>1. /\ TypeOK /\ req[r].phase = "idle"
      /\ UNCHANGED <<users, session, known, verified, torn>>
  BY DEF PromiseInv, IInv, CancelRegistration, people
<1>2. CASE TakeApart(r, s, s, rows[s], "cancel")
  <2>1. "cancel" \in Reasons /\ "cancel" # "create"
    BY DEF Reasons
  <2>2. QED
    BY <1>1, <1>2, <2>1, TakeApartKept
<1>3. CASE Become(r, [Idle EXCEPT !.phase = "cancel", !.session = s])
  <2>1. PICK state : state = [Idle EXCEPT !.phase = "cancel", !.session = s]
    OBVIOUS
  <2>2. state.phase = "cancel"
    BY <2>1 DEF Idle
  <2>3. Become(r, state)
    BY <1>3, <2>1, Zenon
  <2>4. OthersSame(r) /\ req'[r].phase = "cancel"
    BY <1>1, <2>2, <2>3, BecomeState
  <2>5. Kept
    BY <1>1, <2>4, ArrivesApart, QuietKept DEF Tearing
  <2>6. ~Making(r)'
    BY <2>4 DEF Making, Tearing
  <2>7. QED
    BY <1>1, <2>4, <2>5, <2>6, PastFrame DEF PastKept
<1>4. QED
  BY <1>2, <1>3, Zenon DEF CancelRegistration

LEMMA RegisterUserKept ==
    ASSUME PromiseInv, NEW r \in Requests, NEW s \in Sessions, NEW a \in Addresses,
           NEW kind \in Kinds[s], RegisterUser(r, s, kind, a)
    PROVE  Kept /\ PastKept
<1>1. /\ TypeOK /\ req[r].phase = "idle" /\ session[s].kind = "none"
      /\ session' = [session EXCEPT ![s] = [kind |-> kind, address |-> a]]
      /\ UNCHANGED <<users, known, verified, torn>>
  BY DEF PromiseInv, IInv, RegisterUser, people
<1>2. users[s] = "none"
  BY <1>1 DEF PromiseInv, IInv, SessionInv, Blank
<1>3. kind # "none"
  BY ConstantsOk DEF ConstantsOk, RegistrationKinds
<1>4. session'[s].kind # "none" /\ \A x \in Sessions \ {s} : session'[x] = session[x]
  BY <1>1, <1>3 DEF TypeOK
<1>5. /\ \A x \in Sessions : session'[x].kind = "none" => session[x].kind = "none"
      /\ \A x \in Sessions : users[x] = "none" \/ session'[x].address = session[x].address
  BY <1>2, <1>4
<1>6. CASE Become(r, [Idle EXCEPT !.phase = "create", !.session = s])
  <2>1. PICK state : state = [Idle EXCEPT !.phase = "create", !.session = s]
    OBVIOUS
  <2>2. state.phase = "create" /\ state.session = s
    BY <2>1 DEF Idle
  <2>3. Become(r, state)
    BY <1>6, <2>1, Zenon
  <2>4. OthersSame(r) /\ req'[r].phase = "create" /\ req'[r].session = s
    BY <1>1, <2>2, <2>3, BecomeState
  <2>5. Kept
    BY <1>1, <1>5, <2>4, ArrivesApart, QuietKept DEF Tearing
  <2>6. \E x \in Sessions : x = req'[r].session /\ session[x].kind = "none"
    BY <1>1, <2>4
  <2>7. QED
    BY <1>1, <1>5, <2>4, <2>5, <2>6, PastFrame DEF PastKept
<1>7. ASSUME NEW t \in Lapsed(a), TakeApart(r, s, t, rows[t], "create")
      PROVE  Kept /\ PastKept
  <2>1. t \in Sessions /\ "create" \in Reasons
    BY <1>7 DEF Lapsed, RegisteredFor, Reasons
  <2>2. QED
    BY <1>1, <1>5, <1>7, <2>1, TakeApartKept
<1>8. QED
  BY <1>6, <1>7, Zenon DEF RegisterUser

-----------------------------------------------------------------------------
(* Time and the clean-up job touch nothing that is promised.               *)
LEMMA EnvironmentKept ==
    ASSUME PromiseInv, UNCHANGED <<req, users, verified, session, known, torn>>
    PROVE  Kept /\ PastKept
<1>1. SameApart
  BY DEF SameApart, BeingTakenApart, TearingDown
<1>2. Kept
  BY <1>1, QuietKept
<1>3. PastKept
  BY DEF PastKept, PromiseInv, Past, Making
<1>4. QED
  BY <1>2, <1>3

LEMMA ContinueKept ==
    ASSUME PromiseInv, NEW r \in Requests, Continue(r)
    PROVE  Kept /\ PastKept
<1>1. CASE \/ IndexUser(r) \/ InsertRow(r) \/ FailStep(r) \/ UseToken(r) \/ PersistRow(r)
           \/ LoadUser(r) \/ ApproveDevice(r) \/ ReadPreAuth(r) \/ ConsumePreAuth(r)
           \/ SaveCode(r) \/ DeleteRow(r) \/ TellCancelled(r)
  <2>1. Plain(r) /\ known \subseteq known' /\ UNCHANGED <<users, verified, session, torn>>
    BY <1>1, QuietPlain DEF PromiseInv, IInv
  <2>2. QED
    BY <2>1, QuietStepKept
<1>2. CASE CreateUser(r) \/ CheckStep(r) \/ WriteUser(r) \/ EnableUser(r)
  BY <1>2, CreateUserKept, CheckStepKept, WriteStepKept
<1>3. CASE ReapRow(r) \/ Unlink(r) \/ DropUser(r)
  BY <1>3, ReapRowKept, UnlinkKept, DropUserKept
<1>4. QED
  BY <1>1, <1>2, <1>3 DEF Continue

LEMMA RequestKept ==
    ASSUME PromiseInv, NEW r \in Requests, Request(r)
    PROVE  Kept /\ PastKept
<1>1. ASSUME NEW s \in Sessions, NEW skip \in BOOLEAN, HandleStep(r, s, skip)
      PROVE  Kept /\ PastKept
  <2>1. FALSE \in BOOLEAN /\ skip \in BOOLEAN
    OBVIOUS
  <2>2. PICK st \in Steps, b \in BOOLEAN : BeginStep(r, s, st, b)
    BY <1>1, <2>1, StepNames, Zenon DEF HandleStep, RegisterVerifyEmailAddress,
       RegisterConfigureTOTP, RegisterValidateTOTP, RegisterConfigureSecurityKey,
       RegisterValidateSecurityKey, RegisterAddRecoveryEmail,
       RegisterVerifyRecoveryEmail, RegisterAddDuressPassword, Steps
  <2>3. QED
    BY <2>2, BeginStepKept
<1>2. QED
  BY <1>1, RegisterUserKept, CancelRegistrationKept DEF Request

LEMMA NextKept ==
    ASSUME PromiseInv, [Next]_vars
    PROVE  Kept /\ PromiseInv'
<1>1. ASSUME NEW s \in Sessions, Expire(s) \/ ExpirePreAuth(s)
      PROVE  UNCHANGED <<req, users, verified, session, known, torn>>
  BY <1>1 DEF Expire, ExpirePreAuth, people, history
<1>2. DeleteExpiredData => UNCHANGED <<req, users, verified, session, known, torn>>
  BY DEF DeleteExpiredData, people, history
<1>3. UNCHANGED vars => UNCHANGED <<req, users, verified, session, known, torn>>
  BY DEF vars, people, history
<1>4. Kept /\ PastKept
  BY <1>1, <1>2, <1>3, ContinueKept, RequestKept, DieKept, EnvironmentKept DEF Next
<1>5. IInv'
  BY NextInv DEF PromiseInv
<1>6. QED
  BY <1>4, <1>5 DEF PastKept, PromiseInv

LEMMA InitKept == Init => PromiseInv /\ Promise!Init
<1> SUFFICES ASSUME Init PROVE PromiseInv /\ Promise!Init
  OBVIOUS
<1>1. \A s \in Sessions : Past(s)
  BY DEF Init, Past
<1>2. \A s \in Sessions : StageOf(s) = "none" /\ MissingOf(s) = {}
  BY DEF Init, StageOf, MissingOf
<1>3. \A a \in Addresses : HolderOf(a) = {}
  BY DEF Init, HolderOf
<1>4. QED
  BY <1>1, <1>2, <1>3, InitInv DEF PromiseInv, Promise!Init

(* RegisterUserService keeps the promise of RegistrationPromise: each of its
   steps reserves an address, shows or skips what is asked for, enables the
   user, closes the registration or frees the address as that says, or is
   not seen.                                                               *)
THEOREM KeepsPromise == Spec => RegistrationKept
<1>1. PromiseInv /\ [Next]_vars => [Promise!Next]_(Promise!promise) /\ PromiseInv'
  BY NextKept DEF Kept, Abstract, Promise!promise
<1>2. QED
  BY <1>1, InitKept, PTL DEF Spec, RegistrationKept, Promise!Spec

=============================================================================
