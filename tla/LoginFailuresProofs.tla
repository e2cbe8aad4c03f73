-------------------------- MODULE LoginFailuresProofs --------------------------
(***************************************************************************)
(* Proofs about LoginFailures, for any thresholds and any number of wrong  *)
(* secrets: the types, that a lock was earned, and that attempts one after *)
(* the other are counted without a gap, all for any number of requests;    *)
(* and the bound on what two clients gain by overlapping.                  *)
(***************************************************************************)
EXTENDS LoginFailures, WellFoundedInduction, TLAPS

(* As many wrong secrets as a policy asks for.                             *)
Enough(w) == w >= Threshold \/ w >= Maximum

(* What a request holds after w wrong secrets: failures that were judged,
   counted from one, and a lock only if it was earned.                     *)
ReqFits(state, w) ==
    /\ state \in ReqStates
    /\ \A f \in state.list : f.count <= f.at /\ f.at <= w
    /\ state.phase \in {"add", "lock"} =>
           /\ 1 <= state.count /\ state.count <= state.at /\ state.at <= w
    /\ state.row.locked \/ state.lock => Enough(w)
    /\ state.phase = "lock" => state.lock

Earned ==
    /\ user.locked => Enough(wrong)
    /\ \A r \in Requests : ReqFits(req[r], wrong)

(* Attempts have come one after the other, under the policy that locks.    *)
Calm ==
    /\ policy = "LOCK_USER_ACCOUNT"
    /\ mishaps = 0
    /\ ~overlapped
    /\ ~disturbed

(* The number of the last failure that has been stored.                    *)
Stored == IF \E r \in Requests : req[r].phase = "add" THEN wrong - 1 ELSE wrong

(* One attempt at a time, and no other handler.                            *)
Alone ==
    /\ \A r \in Requests : req[r].phase \in {"idle", "list", "judge", "add", "lock"}
    /\ \A q, r \in Requests : Attempting(q) /\ Attempting(r) => q = r
    /\ resets = 0

(* The last failure is in the table and no deletion is under way for it.   *)
LastStays ==
    /\ \A f \in failed : f.count = f.at /\ f.at <= Stored
    /\ Stored > 0 => \E f \in failed : f.at = Stored
    /\ \A f \in removals : f.at < Stored

(* What the attempt holds.                                                 *)
HoldsLast(r) ==
    /\ req[r].phase = "judge" =>
           /\ \A f \in req[r].list : f.count = f.at /\ f.at <= wrong
           /\ wrong > 0 => \E f \in req[r].list : f.at = wrong
    /\ req[r].phase \in {"add", "lock"} =>
           /\ req[r].at = wrong /\ req[r].count = wrong
           /\ \A f \in req[r].list : f.at < wrong
           /\ req[r].lock <=> wrong >= Threshold

(* Once the threshold is reached, the lock is set or on its way.           *)
Caught ==
    wrong >= Threshold =>
        \/ user.locked
        \/ \E r \in Requests : req[r].phase \in {"add", "lock"} /\ req[r].lock

Counted == Alone /\ LastStays /\ (\A r \in Requests : HoldsLast(r)) /\ Caught

IInv == TypeOK /\ Earned /\ (Calm => Counted)

-----------------------------------------------------------------------------
(* The count of the next failure.                                          *)

Below == {pair \in Nat \X Nat : pair[1] < pair[2]}

LEMMA BelowWellFounded == IsWellFoundedOn(Below, Nat)
BY NatLessThanWellFounded, Zenon DEF OpToRel, Below

(* A list of failures has a latest one.                                    *)
LEMMA LatestExists ==
    ASSUME NEW list \in SUBSET Failures, list # {}
    PROVE  \E f \in list : \A g \in list : g.at <= f.at
<1>. DEFINE Left == {MaxWrong - f.at : f \in list}
<1>1. \A f \in list : f.at \in 1 .. MaxWrong
    BY DEF Failures
<1>2. Left \subseteq Nat /\ Left # {}
    BY <1>1, ConstantsOk DEF ConstantsOk
<1>3. PICK least \in Left : \A m \in Left : ~(<<m, least>> \in Below)
    <2>. HIDE DEF Left
    <2>. QED  BY <1>2, BelowWellFounded, WFMin
<1>4. \A m \in Left : ~(m < least)
    <2>. HIDE DEF Left
    <2>. QED  BY <1>2, <1>3 DEF Below
<1>5. PICK f \in list : least = MaxWrong - f.at
    OBVIOUS
<1>6. ASSUME NEW g \in list
      PROVE  g.at <= f.at
    <2>1. MaxWrong - g.at \in Left
        OBVIOUS
    <2>2. ~(MaxWrong - g.at < MaxWrong - f.at)
        BY <1>4, <1>5, <2>1
    <2>. QED  BY <1>1, <2>2, ConstantsOk DEF ConstantsOk
<1>. QED  BY <1>6

(* The next count is one more than that of a latest failure.               *)
LEMMA CountFollows ==
    ASSUME NEW list \in SUBSET Failures, list # {}
    PROVE  \E f \in list :
               /\ \A g \in list : g.at <= f.at
               /\ NextCount(list) = f.count + 1
BY LatestExists DEF NextCount

(* It is at least one, and no more than the failures judged, this one too. *)
LEMMA CountFits ==
    ASSUME NEW list \in SUBSET Failures, wrong \in 0 .. MaxWrong, wrong < MaxWrong,
           \A f \in list : Judged(f)
    PROVE  NextCount(list) \in 1 .. MaxWrong /\ NextCount(list) <= wrong + 1
<1>1. CASE list = {}
    BY <1>1, ConstantsOk DEF NextCount, ConstantsOk
<1>2. CASE list # {}
    <2>1. PICK f \in list : NextCount(list) = f.count + 1
        BY <1>2, CountFollows
    <2>. QED  BY <2>1, ConstantsOk DEF Failures, Judged, ConstantsOk
<1>. QED  BY <1>1, <1>2

-----------------------------------------------------------------------------
(* Types.                                                                  *)

LEMMA IdleHas ==
    /\ Idle \in ReqStates
    /\ Idle.list = {} /\ ~Idle.row.locked /\ ~Idle.lock /\ Idle.phase = "idle"
BY ConstantsOk DEF Idle, NewUser, ReqStates, Users, Untils, ConstantsOk

LEMMA IdleFits ==
    ASSUME NEW w \in Nat
    PROVE  ReqFits(Idle, w)
BY IdleHas DEF ReqFits

(* A request that has read the user row.                                   *)
LEMMA FreshHas ==
    ASSUME NEW row \in Users, NEW phase \in {"list"} \cup RowWriters
    PROVE  LET state == [Idle EXCEPT !.phase = phase, !.row = row] IN
           /\ state \in ReqStates
           /\ state.list = {} /\ state.row = row /\ ~state.lock /\ state.phase = phase
<1>. DEFINE half == [Idle EXCEPT !.phase = phase]
            state == [half EXCEPT !.row = row]
<1>1. /\ half \in ReqStates
      /\ half.list = {} /\ ~half.lock /\ half.phase = phase
    BY IdleHas DEF ReqStates, AttemptPhases
<1>2. /\ state \in ReqStates
      /\ state.list = {} /\ state.row = row /\ ~state.lock /\ state.phase = phase
    <2>. HIDE DEF half
    <2>. QED  BY <1>1 DEF ReqStates
<1>3. state = [Idle EXCEPT !.phase = phase, !.row = row]
    OBVIOUS
<1>. QED  BY <1>2, <1>3

LEMMA FreshFits ==
    ASSUME NEW w \in Nat, NEW row \in Users, row.locked => Enough(w),
           NEW phase \in {"list"} \cup RowWriters
    PROVE  ReqFits([Idle EXCEPT !.phase = phase, !.row = row], w)
<1>1. phase \notin {"add", "lock"}
    BY DEF RowWriters
<1>. QED  BY <1>1, FreshHas DEF ReqFits

(* A step changes one request, and what fitted goes on to.                 *)
LEMMA OneMoves ==
    ASSUME TypeOK, Earned, NEW r \in Requests, NEW state, Become(r, state),
           wrong' \in 0 .. MaxWrong, wrong <= wrong', ReqFits(state, wrong')
    PROVE  /\ req' \in [Requests -> ReqStates]
           /\ \A q \in Requests : ReqFits(req'[q], wrong')
<1>1. req' \in [Requests -> ReqStates]
    BY DEF Become, ReqFits, TypeOK
<1>2. ASSUME NEW q \in Requests, q # r
      PROVE  ReqFits(req'[q], wrong')
    <2>1. req'[q] = req[q]
        BY <1>2 DEF Become, TypeOK
    <2>2. \A f \in req[q].list : f.at \in Nat /\ f.count \in Nat
        BY DEF TypeOK, ReqStates, Failures
    <2>3. /\ req[q].at \in Nat /\ req[q].count \in Nat /\ wrong \in Nat /\ wrong' \in Nat
          /\ Threshold \in Nat /\ Maximum \in Nat
        BY ConstantsOk DEF TypeOK, ReqStates, ConstantsOk
    <2>4. ReqFits(req[q], wrong)
        BY DEF Earned
    <2>5. ReqFits(req[q], wrong')
        BY <2>2, <2>3, <2>4 DEF ReqFits, Enough
    <2>. QED  BY <2>1, <2>5
<1>3. req'[r] = state
    BY DEF Become, TypeOK
<1>. QED  BY <1>1, <1>2, <1>3

(* The parts a step leaves to be shown.                                    *)
LEMMA PartsFit ==
    ASSUME user' \in Users, failed' \subseteq Failures, policy' \in Policies,
           req' \in [Requests -> ReqStates], removals' \subseteq Failures, resets' \in Nat,
           mishaps' \in 0 .. MaxMishaps, wrong' \in 0 .. MaxWrong, right' \in 0 .. MaxRight,
           overlapped' \in BOOLEAN, disturbed' \in BOOLEAN,
           \A f \in failed' \cup removals' : f.count <= f.at /\ f.at <= wrong',
           \A q \in Requests : ReqFits(req'[q], wrong'),
           user'.locked => Enough(wrong')
    PROVE  TypeOK' /\ Earned'
<1>1. ASSUME NEW q \in Requests
      PROVE  /\ \A f \in req'[q].list : f.count <= f.at /\ f.at <= wrong'
             /\ req'[q].phase \in {"add", "lock"} =>
                    req'[q].count <= req'[q].at /\ req'[q].at <= wrong'
    BY DEF ReqFits
<1>2. TypeOK'
    BY <1>1 DEF TypeOK, Judged
<1>3. Earned'
    BY DEF Earned
<1>. QED  BY <1>2, <1>3

(* A step of a request that judges nothing.                                *)
LEMMA ReqKeeps ==
    ASSUME TypeOK, Earned, NEW r \in Requests, NEW state, Become(r, state),
           ReqFits(state, wrong), UNCHANGED <<policy, wrong>>,
           user' \in Users, user'.locked => Enough(wrong),
           failed' \subseteq Failures, removals' \subseteq Failures,
           \A f \in failed' \cup removals' : f.count <= f.at /\ f.at <= wrong,
           resets' \in Nat, mishaps' \in 0 .. MaxMishaps, right' \in 0 .. MaxRight,
           overlapped' \in BOOLEAN, disturbed' \in BOOLEAN
    PROVE  TypeOK' /\ Earned'
<1>1. wrong' = wrong /\ wrong \in 0 .. MaxWrong /\ wrong <= wrong /\ policy' \in Policies
    BY ConstantsOk DEF TypeOK, ConstantsOk
<1>2. /\ req' \in [Requests -> ReqStates]
      /\ \A q \in Requests : ReqFits(req'[q], wrong')
    BY <1>1, OneMoves
<1>. QED  BY <1>1, <1>2, PartsFit

-----------------------------------------------------------------------------
(* Every step keeps the types, and no lock is set that was not earned.     *)

(* What the numbers are.                                                   *)
LEMMA Numbers ==
    ASSUME TypeOK
    PROVE  /\ wrong \in Nat /\ right \in Nat /\ mishaps \in Nat
           /\ {MaxWrong, MaxRight, MaxMishaps} \subseteq Nat
           /\ {Threshold, PauseThreshold, Maximum} \subseteq Nat \ {0}
           /\ wrong <= MaxWrong /\ right <= MaxRight /\ mishaps <= MaxMishaps
           /\ 0 <= wrong /\ wrong <= wrong
BY ConstantsOk DEF TypeOK, ConstantsOk

(* What was judged.                                                        *)
LEMMA JudgedFits ==
    ASSUME TypeOK
    PROVE  \A f \in failed \cup removals : f.count <= f.at /\ f.at <= wrong
BY DEF TypeOK, Judged

LEMMA BeginFits ==
    ASSUME TypeOK, Earned, NEW r \in Requests, NEW password \in BOOLEAN,
           BeginAttempt(r, password)
    PROVE  TypeOK' /\ Earned'
<1>1. ReqFits([Idle EXCEPT !.phase = "list", !.row = user], wrong)
    BY FreshFits, Numbers DEF TypeOK, Earned
<1>2. /\ UNCHANGED <<policy, wrong, user, failed, removals, resets, mishaps, right, disturbed>>
      /\ overlapped' \in BOOLEAN
      /\ Become(r, [Idle EXCEPT !.phase = "list", !.row = user])
    BY DEF BeginAttempt
<1>. QED  BY <1>1, <1>2, JudgedFits, ReqKeeps, Numbers DEF TypeOK, Earned

LEMMA ListFits ==
    ASSUME TypeOK, Earned, NEW r \in Requests, ListFailures(r)
    PROVE  TypeOK' /\ Earned'
<1>. DEFINE half == [req[r] EXCEPT !.phase = "judge"]
            state == [half EXCEPT !.list = failed]
<1>1. /\ half \in ReqStates
      /\ half.phase = "judge" /\ half.row = req[r].row /\ half.lock = req[r].lock
    BY DEF TypeOK, ReqStates, AttemptPhases
<1>2. /\ state \in ReqStates
      /\ state.phase = "judge" /\ state.row = req[r].row /\ state.lock = req[r].lock
      /\ state.list = failed
    <2>. HIDE DEF half
    <2>. QED  BY <1>1 DEF TypeOK, ReqStates
<1>3. Become(r, state)
    BY DEF ListFailures
<1>. HIDE DEF state
<1>4. ReqFits(state, wrong)
    BY <1>2, JudgedFits DEF Earned, ReqFits
<1>5. UNCHANGED <<policy, wrong, user, failed, removals, resets, mishaps, right, overlapped, disturbed>>
    BY DEF ListFailures, history
<1>. QED  BY <1>3, <1>4, <1>5, JudgedFits, ReqKeeps, Numbers DEF TypeOK, Earned

(* A request that ends and changes nothing else.                           *)
LEMMA EndFits ==
    ASSUME TypeOK, Earned, NEW r \in Requests, Finish(r),
           UNCHANGED <<user, failed, policy, removals, resets, wrong, right, overlapped>>,
           mishaps' \in 0 .. MaxMishaps, disturbed' \in BOOLEAN
    PROVE  TypeOK' /\ Earned'
<1>1. ReqFits(Idle, wrong) /\ Become(r, Idle)
    BY IdleFits, Numbers DEF Finish
<1>. QED  BY <1>1, JudgedFits, ReqKeeps, Numbers DEF TypeOK, Earned

LEMMA QuietFits ==
    ASSUME TypeOK, Earned, NEW r \in Requests,
           TurnAway(r) \/ CompleteAttempt(r) \/ Die(r)
    PROVE  TypeOK' /\ Earned'
<1>1. CASE TurnAway(r) \/ CompleteAttempt(r)
    BY <1>1, EndFits, Numbers DEF TurnAway, CompleteAttempt, history, TypeOK
<1>2. CASE Die(r)
    <2>1. mishaps' \in 0 .. MaxMishaps
        BY <1>2, Numbers DEF Die, Mishap
    <2>. QED  BY <1>2, <2>1, EndFits DEF Die
<1>. QED  BY <1>1, <1>2

(* The state of a request that has judged a wrong secret.                  *)
LEMMA JudgeWrongMoves ==
    ASSUME TypeOK, NEW r \in Requests, JudgeWrong(r)
    PROVE  \E state \in ReqStates :
               /\ Become(r, state)
               /\ state.phase = "add" /\ state.list = req[r].list /\ state.row = req[r].row
               /\ state.at = wrong + 1 /\ state.count = NextCount(req[r].list)
               /\ state.lock = Locks(NextCount(req[r].list))
<1>. DEFINE list == req[r].list
            count == NextCount(list)
            until == IF Locks(count) THEN "never" ELSE IF Pauses(count) THEN "pause" ELSE "now"
            lock == Locks(count)
<1>1. list \in SUBSET Failures /\ \A f \in list : Judged(f)
    BY DEF TypeOK, ReqStates
<1>2. count \in 0 .. MaxWrong /\ wrong + 1 \in 0 .. MaxWrong
    <2>1. wrong < MaxWrong /\ wrong \in 0 .. MaxWrong
        BY DEF JudgeWrong, TypeOK
    <2>2. count \in 1 .. MaxWrong
        <3>. HIDE DEF list
        <3>. QED  BY <1>1, <2>1, CountFits
    <2>. HIDE DEF count, list
    <2>. QED  BY <2>1, <2>2, Numbers
<1>3. until \in Untils /\ lock \in BOOLEAN
    BY DEF Untils, Locks
<1>4. Become(r, [req[r] EXCEPT !.phase = "add", !.at = wrong + 1, !.count = count,
                               !.lock = lock, !.until = until])
    BY DEF JudgeWrong
<1>5. req[r] \in ReqStates
    BY DEF TypeOK
<1>. HIDE DEF count, until, lock
<1>. DEFINE one == [req[r] EXCEPT !.phase = "add"]
            two == [one EXCEPT !.at = wrong + 1]
            three == [two EXCEPT !.count = count]
            four == [three EXCEPT !.lock = lock]
            five == [four EXCEPT !.until = until]
<1>6. one \in ReqStates /\ one.phase = "add" /\ one.list = list /\ one.row = req[r].row
    BY <1>5 DEF ReqStates, AttemptPhases
<1>7. /\ two \in ReqStates /\ two.phase = "add" /\ two.list = list /\ two.row = req[r].row
      /\ two.at = wrong + 1
    <2>. HIDE DEF one
    <2>. QED  BY <1>2, <1>6 DEF ReqStates
<1>8. /\ three \in ReqStates /\ three.phase = "add" /\ three.list = list
      /\ three.row = req[r].row /\ three.at = wrong + 1 /\ three.count = count
    <2>. HIDE DEF two
    <2>. QED  BY <1>2, <1>7 DEF ReqStates
<1>9. /\ four \in ReqStates /\ four.phase = "add" /\ four.list = list
      /\ four.row = req[r].row /\ four.at = wrong + 1 /\ four.count = count /\ four.lock = lock
    <2>. HIDE DEF three
    <2>. QED  BY <1>3, <1>8 DEF ReqStates
<1>10. /\ five \in ReqStates /\ five.phase = "add" /\ five.list = list
       /\ five.row = req[r].row /\ five.at = wrong + 1 /\ five.count = count /\ five.lock = lock
    <2>. HIDE DEF four
    <2>. QED  BY <1>3, <1>9 DEF ReqStates
<1>11. Become(r, five)
    BY <1>4
<1>. HIDE DEF five
<1>. QED  BY <1>10, <1>11 DEF count, lock

LEMMA JudgeWrongFits ==
    ASSUME TypeOK, Earned, NEW r \in Requests, JudgeWrong(r)
    PROVE  TypeOK' /\ Earned'
<1>1. PICK state \in ReqStates :
          /\ Become(r, state)
          /\ state.phase = "add" /\ state.list = req[r].list /\ state.row = req[r].row
          /\ state.at = wrong + 1 /\ state.count = NextCount(req[r].list)
          /\ state.lock = Locks(NextCount(req[r].list))
    BY JudgeWrongMoves
<1>2. /\ wrong' = wrong + 1 /\ wrong < MaxWrong
      /\ UNCHANGED <<user, failed, policy, removals, resets, mishaps, right, overlapped, disturbed>>
    BY DEF JudgeWrong
<1>3. /\ req[r].list \in SUBSET Failures
      /\ \A f \in req[r].list : Judged(f)
    BY DEF TypeOK, ReqStates
<1>4. /\ NextCount(req[r].list) \in 1 .. MaxWrong
      /\ NextCount(req[r].list) <= wrong + 1
    BY <1>2, <1>3, CountFits DEF TypeOK
<1>5. wrong' \in 0 .. MaxWrong /\ wrong <= wrong'
    BY <1>2, Numbers
<1>6. \A w \in 0 .. wrong : Enough(w) => Enough(wrong')
    BY <1>2, Numbers DEF Enough
<1>7. ReqFits(state, wrong')
    <2>1. \A f \in state.list : f.count <= f.at /\ f.at <= wrong'
        BY <1>1, <1>2, <1>3, Numbers DEF Judged, Failures
    <2>2. 1 <= state.count /\ state.count <= state.at /\ state.at <= wrong'
        BY <1>1, <1>2, <1>4, Numbers
    <2>3. Locks(NextCount(req[r].list)) => Enough(wrong')
        BY <1>2, <1>4, Numbers DEF Locks, Enough
    <2>4. state.lock => Enough(wrong')
        BY <1>1, <2>3, Zenon
    <2>5. state.row.locked => Enough(wrong')
        BY <1>1, <1>6, Numbers DEF Earned, ReqFits
    <2>. QED  BY <1>1, <2>1, <2>2, <2>4, <2>5 DEF ReqFits
<1>8. \A f \in failed' \cup removals' : f.count <= f.at /\ f.at <= wrong'
    BY <1>2, JudgedFits, Numbers DEF TypeOK, Failures
<1>9. user'.locked => Enough(wrong')
    BY <1>2, <1>6, Numbers DEF Earned
<1>10. /\ req' \in [Requests -> ReqStates]
       /\ \A q \in Requests : ReqFits(req'[q], wrong')
    BY <1>1, <1>5, <1>7, OneMoves
<1>. QED  BY <1>2, <1>5, <1>8, <1>9, <1>10, PartsFit DEF TypeOK

(* The state of a request that only goes on.                               *)
LEMMA PhaseHas ==
    ASSUME NEW state \in ReqStates, NEW phase \in {"lock", "complete"}
    PROVE  LET next == [state EXCEPT !.phase = phase] IN
           /\ next \in ReqStates
           /\ next.phase = phase /\ next.list = state.list /\ next.row = state.row
           /\ next.at = state.at /\ next.count = state.count /\ next.lock = state.lock
BY DEF ReqStates, AttemptPhases

LEMMA JudgeRightFits ==
    ASSUME TypeOK, Earned, NEW r \in Requests, JudgeRight(r)
    PROVE  TypeOK' /\ Earned'
<1>. DEFINE state == [req[r] EXCEPT !.phase = "complete"]
<1>1. /\ state \in ReqStates
      /\ state.phase = "complete" /\ state.list = req[r].list /\ state.row = req[r].row
      /\ state.lock = req[r].lock
    BY PhaseHas DEF TypeOK
<1>2. /\ Become(r, state)
      /\ right < MaxRight /\ right' = right + 1 /\ resets' = resets + 1 /\ disturbed' = TRUE
      /\ UNCHANGED <<user, failed, policy, removals, mishaps, wrong, overlapped>>
    BY DEF JudgeRight
<1>. HIDE DEF state
<1>3. ReqFits(state, wrong)
    BY <1>1 DEF Earned, ReqFits
<1>4. right' \in 0 .. MaxRight /\ resets' \in Nat
    BY <1>2, Numbers DEF TypeOK
<1>. QED  BY <1>2, <1>3, <1>4, JudgedFits, ReqKeeps, Numbers DEF TypeOK, Earned

(* The row that is stored is one of the failures judged.                   *)
LEMMA StoredFits ==
    ASSUME TypeOK, Earned, NEW r \in Requests, AddFailedLogin(r)
    PROVE  /\ failed' \subseteq Failures
           /\ \A f \in failed' : f.count <= f.at /\ f.at <= wrong
<1>. DEFINE row == [at |-> req[r].at, count |-> req[r].count, until |-> req[r].until]
<1>1. req[r] \in ReqStates /\ ReqFits(req[r], wrong) /\ req[r].phase \in {"add", "lock"}
    BY DEF TypeOK, Earned, AddFailedLogin
<1>2. /\ req[r].at \in 0 .. MaxWrong /\ req[r].count \in 0 .. MaxWrong
      /\ req[r].until \in Untils
      /\ 1 <= req[r].count /\ req[r].count <= req[r].at /\ req[r].at <= wrong
    BY <1>1 DEF ReqStates, ReqFits
<1>3. row \in Failures /\ row.count <= row.at /\ row.at <= wrong
    BY <1>2, Numbers DEF Failures
<1>4. failed' = failed \cup {row}
    BY DEF AddFailedLogin
<1>. HIDE DEF row
<1>. QED  BY <1>3, <1>4, JudgedFits DEF TypeOK

(* The failures that were read are failures judged.                        *)
LEMMA StartedFits ==
    ASSUME TypeOK, Earned, NEW r \in Requests
    PROVE  /\ removals \cup Started(r) \subseteq Failures
           /\ \A f \in removals \cup Started(r) : f.count <= f.at /\ f.at <= wrong
BY JudgedFits DEF TypeOK, Earned, ReqFits, ReqStates, Started

LEMMA AddFits ==
    ASSUME TypeOK, Earned, NEW r \in Requests, AddFailedLogin(r)
    PROVE  TypeOK' /\ Earned'
<1>1. UNCHANGED <<user, policy, resets, mishaps, wrong, right, overlapped, disturbed>>
    BY DEF AddFailedLogin, history
<1>2. /\ failed' \subseteq Failures
      /\ \A f \in failed' : f.count <= f.at /\ f.at <= wrong
    BY StoredFits
<1>3. CASE req[r].lock
    <2>. DEFINE state == [req[r] EXCEPT !.phase = "lock"]
    <2>1. Become(r, state) /\ UNCHANGED removals
        BY <1>3 DEF AddFailedLogin
    <2>2. /\ state \in ReqStates
          /\ state.phase = "lock" /\ state.list = req[r].list /\ state.row = req[r].row
          /\ state.at = req[r].at /\ state.count = req[r].count /\ state.lock = req[r].lock
        BY PhaseHas DEF TypeOK
    <2>3. req[r].phase = "add"
        BY DEF AddFailedLogin
    <2>. HIDE DEF state
    <2>4. ReqFits(req[r], wrong)
        BY DEF Earned
    <2>5. state.lock
        BY <1>3, <2>2, Zenon
    <2>6. ReqFits(state, wrong)
        BY <2>2, <2>3, <2>4, <2>5 DEF ReqFits
    <2>. QED  BY <1>1, <1>2, <2>1, <2>6, JudgedFits, ReqKeeps, Numbers DEF TypeOK, Earned
<1>4. CASE ~req[r].lock
    <2>1. Become(r, Idle) /\ removals' = removals \cup Started(r)
        BY <1>4 DEF AddFailedLogin, Finish
    <2>2. ReqFits(Idle, wrong)
        BY IdleFits, Numbers
    <2>. QED  BY <1>1, <1>2, <2>1, <2>2, StartedFits, ReqKeeps, Numbers DEF TypeOK, Earned
<1>. QED  BY <1>3, <1>4

LEMMA LockFits ==
    ASSUME TypeOK, Earned, NEW r \in Requests, LockUser(r)
    PROVE  TypeOK' /\ Earned'
<1>1. /\ Become(r, Idle) /\ removals' = removals \cup Started(r)
      /\ user' = [req[r].row EXCEPT !.locked = TRUE]
      /\ UNCHANGED <<failed, policy, resets, mishaps, wrong, right, overlapped, disturbed>>
    BY DEF LockUser, Finish, history
<1>2. req[r].row \in Users
    BY DEF TypeOK, ReqStates
<1>3. user' \in Users
    BY <1>1, <1>2 DEF Users
<1>4. Enough(wrong)
    BY DEF LockUser, Earned, ReqFits
<1>5. ReqFits(Idle, wrong)
    BY IdleFits, Numbers
<1>. QED  BY <1>1, <1>3, <1>4, <1>5, StartedFits, JudgedFits, ReqKeeps, Numbers DEF TypeOK

(* Another handler reads the user row.                                     *)
LEMMA BeginWriteFits ==
    ASSUME TypeOK, Earned, NEW r \in Requests, NEW writer \in RowWriters, BeginWrite(r, writer)
    PROVE  TypeOK' /\ Earned'
<1>1. ReqFits([Idle EXCEPT !.phase = writer, !.row = user], wrong)
    BY FreshFits, Numbers DEF TypeOK, Earned
<1>2. /\ UNCHANGED <<policy, wrong, user, failed, removals, resets, right, overlapped, disturbed>>
      /\ Become(r, [Idle EXCEPT !.phase = writer, !.row = user])
      /\ mishaps < MaxMishaps /\ mishaps' = mishaps + 1
    BY DEF BeginWrite, history, Mishap
<1>3. mishaps' \in 0 .. MaxMishaps
    BY <1>2, Numbers
<1>. QED  BY <1>1, <1>2, <1>3, JudgedFits, ReqKeeps, Numbers DEF TypeOK, Earned

(* It writes the row it read, and never a lock of its own.                 *)
LEMMA WriteRowFits ==
    ASSUME TypeOK, Earned, NEW r \in Requests, WriteRow(r)
    PROVE  TypeOK' /\ Earned'
<1>1. /\ Become(r, Idle) /\ disturbed' = TRUE
      /\ UNCHANGED <<failed, policy, removals, resets, mishaps, wrong, right, overlapped>>
    BY DEF WriteRow, Finish
<1>2. req[r].row \in Users
    BY DEF TypeOK, ReqStates
<1>3. user' \in Users /\ (user'.locked => req[r].row.locked)
    <2>1. CASE user' = [req[r].row EXCEPT !.locked = FALSE]
        BY <1>2, <2>1 DEF Users
    <2>2. CASE \E enabled \in BOOLEAN : user' = [locked |-> FALSE, enabled |-> enabled, marked |-> FALSE]
        BY <2>2 DEF Users
    <2>3. CASE user' = [req[r].row EXCEPT !.marked = TRUE, !.enabled = FALSE]
        <3>. DEFINE half == [req[r].row EXCEPT !.marked = TRUE]
        <3>1. half \in Users /\ half.locked = req[r].row.locked
            BY <1>2 DEF Users
        <3>2. user' = [half EXCEPT !.enabled = FALSE]
            BY <2>3
        <3>. HIDE DEF half
        <3>. QED  BY <3>1, <3>2 DEF Users
    <2>4. CASE user' = req[r].row
        BY <1>2, <2>4
    <2>. QED  BY <2>1, <2>2, <2>3, <2>4 DEF WriteRow
<1>4. user'.locked => Enough(wrong)
    BY <1>3 DEF Earned, ReqFits
<1>5. ReqFits(Idle, wrong)
    BY IdleFits, Numbers
<1>. QED  BY <1>1, <1>3, <1>4, <1>5, JudgedFits, ReqKeeps, Numbers DEF TypeOK

(* What nobody waits for, the policy and a pause that passes.              *)
LEMMA RestFits ==
    ASSUME TypeOK, Earned,
           \/ RemoveFailedLogin \/ ResetFailedLoginAttempts
           \/ \E p \in Policies : SetTenantLoginFailurePolicy(p)
    PROVE  TypeOK' /\ Earned'
<1>1. /\ UNCHANGED <<user, req, wrong, right, overlapped, disturbed>>
      /\ failed' \subseteq failed /\ removals' \subseteq removals /\ policy' \in Policies
    BY DEF RemoveFailedLogin, ResetFailedLoginAttempts, SetTenantLoginFailurePolicy, history, TypeOK
<1>2. resets' \in Nat /\ mishaps' \in 0 .. MaxMishaps
    BY Numbers DEF RemoveFailedLogin, ResetFailedLoginAttempts, SetTenantLoginFailurePolicy,
       Mishap, TypeOK
<1>. QED  BY <1>1, <1>2, JudgedFits, PartsFit DEF TypeOK, Earned

(* The failure once its pause is over.                                     *)
Later(f) == IF f.until = "pause" THEN [f EXCEPT !.until = "now"] ELSE f

LEMMA LaterHas ==
    ASSUME NEW f \in Failures
    PROVE  Later(f) \in Failures /\ Later(f).at = f.at /\ Later(f).count = f.count
BY DEF Later, Failures, Untils

LEMMA PassPauseMoves ==
    ASSUME TypeOK, PassPause
    PROVE  /\ failed' = {Later(f) : f \in failed}
           /\ UNCHANGED <<user, policy, req, removals, resets, mishaps, wrong, right, overlapped, disturbed>>
BY DEF PassPause, Later, history

LEMMA PassPauseFits ==
    ASSUME TypeOK, Earned, PassPause
    PROVE  TypeOK' /\ Earned'
<1>1. ASSUME NEW f \in failed \cup removals
      PROVE  Later(f) \in Failures /\ Later(f).count <= Later(f).at /\ Later(f).at <= wrong
    <2>1. f \in Failures /\ f.count <= f.at /\ f.at <= wrong
        BY JudgedFits DEF TypeOK
    <2>. QED  BY <2>1, LaterHas
<1>2. /\ failed' \subseteq Failures
      /\ \A f \in failed' \cup removals' : f.count <= f.at /\ f.at <= wrong
    BY <1>1, JudgedFits, PassPauseMoves
<1>. QED  BY <1>2, PassPauseMoves, PartsFit DEF TypeOK, Earned

LEMMA Fits ==
    ASSUME TypeOK, Earned, [Next]_vars
    PROVE  TypeOK' /\ Earned'
<1>1. ASSUME NEW r \in Requests, Attempt(r)
      PROVE  TypeOK' /\ Earned'
    BY <1>1, BeginFits, ListFits, QuietFits, JudgeWrongFits, JudgeRightFits, AddFits, LockFits
       DEF Attempt
<1>2. ASSUME NEW r \in Requests, Write(r)
      PROVE  TypeOK' /\ Earned'
    <2>1. CASE WriteRow(r)
        BY <2>1, WriteRowFits
    <2>2. CASE UpdateUser(r) \/ UnlockUser(r) \/ MarkForDelete(r) \/ SwapPrimaryAndRecoveryEmail(r)
        <3>1. PICK writer \in RowWriters : BeginWrite(r, writer)
            BY <2>2 DEF UpdateUser, UnlockUser, MarkForDelete, SwapPrimaryAndRecoveryEmail, RowWriters
        <3>. QED  BY <3>1, BeginWriteFits
    <2>. QED  BY <1>2, <2>1, <2>2 DEF Write
<1>3. ASSUME UNCHANGED vars
      PROVE  TypeOK' /\ Earned'
    <2>1. UNCHANGED <<user, failed, policy, req, removals, resets, mishaps, wrong, right,
                      overlapped, disturbed>>
        BY <1>3 DEF vars
    <2>. QED  BY <2>1, JudgedFits, PartsFit DEF TypeOK, Earned
<1>. QED  BY <1>1, <1>2, <1>3, QuietFits, RestFits, PassPauseFits DEF Next

LEMMA InitFits == Init => TypeOK /\ Earned
<1>. SUFFICES ASSUME Init
              PROVE  TypeOK /\ Earned
    OBVIOUS
<1>1. /\ Idle \in ReqStates /\ Idle.list = {} /\ Idle.phase = "idle"
    BY IdleHas
<1>2. user \in Users /\ ~user.locked
    BY DEF Init, NewUser, Users
<1>3. wrong = 0 /\ wrong \in 0 .. MaxWrong /\ right \in 0 .. MaxRight /\ mishaps \in 0 .. MaxMishaps
    BY ConstantsOk DEF Init, ConstantsOk
<1>4. ReqFits(Idle, wrong)
    BY <1>3, IdleFits
<1>. QED  BY <1>1, <1>2, <1>3, <1>4 DEF Init, TypeOK, Earned

(* The tables and requests keep their types, and every failure stored, held
   or about to be removed was judged and counted from one.                 *)
THEOREM TypeCorrect == Spec => []TypeOK
<1>1. TypeOK /\ Earned /\ [Next]_vars => TypeOK' /\ Earned'
    BY Fits
<1>. QED  BY <1>1, InitFits, PTL DEF Spec

(* No interleaving of attempts, deletions and other writers of the user
   row locks a user who has not earned it.                                 *)
THEOREM LocksAreEarned == Spec => []LockIsEarned
<1>1. TypeOK /\ Earned /\ [Next]_vars => TypeOK' /\ Earned'
    BY Fits
<1>2. Earned => LockIsEarned
    BY DEF Earned, Enough, LockIsEarned
<1>. QED  BY <1>1, <1>2, InitFits, PTL DEF Spec

-----------------------------------------------------------------------------
(* Attempts one after the other are counted without a gap.                 *)

(* A calm state was calm before, and only some steps lead to one.          *)
LEMMA CalmSteps ==
    ASSUME TypeOK, [Next]_vars, Calm'
    PROVE  /\ Calm
           /\ \/ \E r \in Requests :
                     \/ \E password \in BOOLEAN : BeginAttempt(r, password)
                     \/ ListFailures(r) \/ TurnAway(r) \/ JudgeWrong(r)
                     \/ AddFailedLogin(r) \/ LockUser(r) \/ CompleteAttempt(r)
              \/ RemoveFailedLogin \/ ResetFailedLoginAttempts \/ PassPause
              \/ UNCHANGED vars
<1>1. mishaps' = 0 /\ ~disturbed' /\ ~overlapped' /\ policy' = "LOCK_USER_ACCOUNT"
    BY DEF Calm
<1>2. ~Mishap
    BY <1>1, Numbers DEF Mishap
<1>3. \A r \in Requests : ~Write(r) /\ ~Die(r) /\ ~JudgeRight(r)
    BY <1>1, <1>2 DEF Write, WriteRow, Die, JudgeRight, UpdateUser, UnlockUser, MarkForDelete,
       SwapPrimaryAndRecoveryEmail, BeginWrite
<1>4. \A p \in Policies : ~SetTenantLoginFailurePolicy(p)
    BY <1>2 DEF SetTenantLoginFailurePolicy
<1>5. \/ \E r \in Requests :
             \/ \E password \in BOOLEAN : BeginAttempt(r, password)
             \/ ListFailures(r) \/ TurnAway(r) \/ JudgeWrong(r)
             \/ AddFailedLogin(r) \/ LockUser(r) \/ CompleteAttempt(r)
      \/ RemoveFailedLogin \/ ResetFailedLoginAttempts \/ PassPause
      \/ UNCHANGED vars
    BY <1>3, <1>4 DEF Next, Attempt
<1>6. UNCHANGED <<policy, mishaps, disturbed>>
    BY <1>5 DEF BeginAttempt, ListFailures, TurnAway, JudgeWrong, AddFailedLogin, LockUser,
       CompleteAttempt, RemoveFailedLogin, ResetFailedLoginAttempts, PassPause, history, vars
<1>7. ~overlapped
    <2>1. CASE \E r \in Requests, password \in BOOLEAN : BeginAttempt(r, password)
        BY <1>1, <2>1, Zenon DEF BeginAttempt
    <2>2. CASE UNCHANGED overlapped
        BY <1>1, <2>2
    <2>3. UNCHANGED overlapped \/ \E r \in Requests, password \in BOOLEAN : BeginAttempt(r, password)
        BY <1>5, Zenon DEF ListFailures, TurnAway, JudgeWrong, AddFailedLogin, LockUser,
           CompleteAttempt, RemoveFailedLogin, ResetFailedLoginAttempts, PassPause, history, vars
    <2>. QED  BY <2>1, <2>2, <2>3
<1>. QED  BY <1>1, <1>5, <1>6, <1>7 DEF Calm

(* One request moves; nobody else is at work.                              *)
LEMMA StaysAlone ==
    ASSUME TypeOK, Alone, NEW r \in Requests, NEW state, Become(r, state), UNCHANGED resets,
           state.phase \in {"idle", "list", "judge", "add", "lock"},
           \/ state.phase = "idle"
           \/ \A q \in Requests \ {r} : ~Attempting(q)
    PROVE  Alone' /\ req'[r] = state /\ \A q \in Requests \ {r} : req'[q] = req[q]
<1>1. req'[r] = state /\ \A q \in Requests \ {r} : req'[q] = req[q]
    BY DEF Become, TypeOK
<1>2. \A q \in Requests \ {r} : Attempting(q)' <=> Attempting(q)
    BY <1>1 DEF Attempting
<1>3. state.phase = "idle" => ~Attempting(r)'
    BY <1>1 DEF Attempting, AttemptPhases
<1>. QED  BY <1>1, <1>2, <1>3 DEF Alone

(* While one request attempts, no other does.                              *)
LEMMA OthersRest ==
    ASSUME TypeOK, Alone, NEW r \in Requests, Attempting(r)
    PROVE  \A q \in Requests \ {r} : ~Attempting(q) /\ req[q].phase = "idle"
<1>1. \A q \in Requests \ {r} : ~Attempting(q)
    BY DEF Alone
<1>. QED  BY <1>1 DEF Alone, Attempting, AttemptPhases

(* The table after a step that stores nothing and judges nothing.          *)
LEMMA TableStays ==
    ASSUME LastStays, UNCHANGED <<failed, removals>>, Stored' = Stored
    PROVE  LastStays'
BY DEF LastStays

LEMMA BeginCounts ==
    ASSUME TypeOK, Counted, Calm', NEW r \in Requests, NEW password \in BOOLEAN,
           BeginAttempt(r, password)
    PROVE  Counted'
<1>. DEFINE state == [Idle EXCEPT !.phase = "list", !.row = user]
<1>1. state.phase = "list"
    BY DEF Idle
<1>2. Become(r, state) /\ UNCHANGED <<user, failed, removals, resets, wrong>> /\ ~user.locked
    BY DEF BeginAttempt, MayAttempt
<1>3. \A q \in Requests : ~Attempting(q)
    BY DEF BeginAttempt, Calm
<1>. HIDE DEF state
<1>4. Alone' /\ req'[r] = state /\ \A q \in Requests \ {r} : req'[q] = req[q]
    BY <1>1, <1>2, <1>3, StaysAlone DEF Counted
<1>5. \A q \in Requests : req[q].phase = "idle"
    BY <1>3 DEF Counted, Alone, Attempting, AttemptPhases
<1>6. \A q \in Requests : req'[q].phase \in {"idle", "list"}
    BY <1>1, <1>4, <1>5
<1>7. LastStays'
    <2>1. Stored' = Stored
        BY <1>2, <1>5, <1>6 DEF Stored
    <2>. QED  BY <1>2, <2>1, TableStays DEF Counted
<1>8. Caught'
    BY <1>2, <1>5 DEF Counted, Caught
<1>9. \A q \in Requests : HoldsLast(q)'
    BY <1>6 DEF HoldsLast
<1>. QED  BY <1>4, <1>7, <1>8, <1>9 DEF Counted

LEMMA ListCounts ==
    ASSUME TypeOK, Counted, NEW r \in Requests, ListFailures(r)
    PROVE  Counted'
<1>. DEFINE half == [req[r] EXCEPT !.phase = "judge"]
            state == [half EXCEPT !.list = failed]
<1>1. half \in ReqStates /\ half.phase = "judge"
    BY DEF TypeOK, ReqStates, AttemptPhases
<1>2. state.phase = "judge" /\ state.list = failed
    <2>. HIDE DEF half
    <2>. QED  BY <1>1 DEF TypeOK, ReqStates
<1>3. /\ Become(r, state) /\ UNCHANGED <<user, failed, removals, resets, wrong>>
      /\ req[r].phase = "list"
    BY DEF ListFailures, history
<1>. HIDE DEF state
<1>4. \A q \in Requests \ {r} : ~Attempting(q) /\ req[q].phase = "idle"
    BY <1>3, OthersRest DEF Counted, Attempting, AttemptPhases
<1>5. Alone' /\ req'[r] = state /\ \A q \in Requests \ {r} : req'[q] = req[q]
    BY <1>2, <1>3, <1>4, StaysAlone DEF Counted
<1>6. Stored = wrong /\ Stored' = wrong
    BY <1>2, <1>3, <1>4, <1>5 DEF Stored
<1>7. LastStays'
    BY <1>3, <1>6, TableStays DEF Counted
<1>8. Caught'
    BY <1>3, <1>4 DEF Counted, Caught
<1>9. \A q \in Requests : HoldsLast(q)'
    <2>1. HoldsLast(r)'
        BY <1>2, <1>3, <1>5, <1>6 DEF Counted, LastStays, HoldsLast
    <2>. QED  BY <1>4, <1>5, <2>1 DEF HoldsLast
<1>. QED  BY <1>5, <1>7, <1>8, <1>9 DEF Counted

(* The attempt counts one more than the last failure.                      *)
LEMMA NextCountIs ==
    ASSUME TypeOK, NEW list \in SUBSET Failures,
           \A f \in list : f.count = f.at /\ f.at <= wrong,
           wrong > 0 => \E f \in list : f.at = wrong
    PROVE  NextCount(list) = wrong + 1
<1>1. CASE list = {}
    BY <1>1, Numbers DEF NextCount
<1>2. CASE list # {}
    <2>1. PICK f \in list : /\ \A g \in list : g.at <= f.at
                            /\ NextCount(list) = f.count + 1
        BY <1>2, CountFollows
    <2>2. \A g \in list : g.at \in Nat /\ g.at >= 1
        BY Numbers DEF Failures
    <2>3. f.at = wrong
        BY <2>1, <2>2, Numbers
    <2>. QED  BY <2>1, <2>3
<1>. QED  BY <1>1, <1>2

LEMMA JudgeWrongCounts ==
    ASSUME TypeOK, Counted, policy = "LOCK_USER_ACCOUNT", NEW r \in Requests, JudgeWrong(r)
    PROVE  Counted'
<1>1. PICK state \in ReqStates :
          /\ Become(r, state)
          /\ state.phase = "add" /\ state.list = req[r].list /\ state.row = req[r].row
          /\ state.at = wrong + 1 /\ state.count = NextCount(req[r].list)
          /\ state.lock = Locks(NextCount(req[r].list))
    BY JudgeWrongMoves
<1>2. /\ req[r].phase = "judge" /\ wrong' = wrong + 1
      /\ UNCHANGED <<user, failed, removals, resets>>
    BY DEF JudgeWrong
<1>3. \A q \in Requests \ {r} : ~Attempting(q) /\ req[q].phase = "idle"
    BY <1>2, OthersRest DEF Counted, Attempting, AttemptPhases
<1>4. Alone' /\ req'[r] = state /\ \A q \in Requests \ {r} : req'[q] = req[q]
    BY <1>1, <1>2, <1>3, StaysAlone DEF Counted
<1>5. Stored = wrong /\ Stored' = wrong
    BY <1>1, <1>2, <1>3, <1>4, Numbers DEF Stored
<1>6. LastStays'
    BY <1>2, <1>5, TableStays DEF Counted
<1>7. /\ req[r].list \in SUBSET Failures
      /\ \A f \in req[r].list : f.count = f.at /\ f.at <= wrong
      /\ wrong > 0 => \E f \in req[r].list : f.at = wrong
    BY <1>2 DEF TypeOK, ReqStates, Counted, HoldsLast
<1>8. NextCount(req[r].list) = wrong'
    BY <1>2, <1>7, NextCountIs
<1>9. Locks(wrong') <=> wrong' >= Threshold
    BY DEF Locks
<1>10. state.lock <=> wrong' >= Threshold
    BY <1>1, <1>8, <1>9, Zenon
<1>11. \A q \in Requests : HoldsLast(q)'
    <2>1. \A f \in req[r].list : f.at < wrong'
        BY <1>2, <1>7, Numbers DEF Failures
    <2>2. HoldsLast(r)'
        BY <1>1, <1>2, <1>4, <1>8, <1>10, <2>1 DEF HoldsLast
    <2>. QED  BY <1>3, <1>4, <2>2 DEF HoldsLast
<1>12. Caught'
    BY <1>1, <1>4, <1>10 DEF Caught
<1>. QED  BY <1>4, <1>6, <1>11, <1>12 DEF Counted

(* The table once the failure of the attempt has been stored.              *)
LEMMA TableGrows ==
    ASSUME TypeOK, Counted, NEW r \in Requests, AddFailedLogin(r), Stored' = wrong
    PROVE  /\ \A f \in failed' : f.count = f.at /\ f.at <= Stored'
           /\ \E f \in failed' : f.at = Stored'
<1>. DEFINE row == [at |-> req[r].at, count |-> req[r].count, until |-> req[r].until]
<1>1. req[r].phase = "add" /\ failed' = failed \cup {row}
    BY DEF AddFailedLogin
<1>2. row.at = wrong /\ row.count = wrong
    BY <1>1 DEF Counted, HoldsLast
<1>. HIDE DEF row
<1>3. Stored = wrong - 1
    BY <1>1 DEF Stored
<1>4. \A f \in failed : f.count = f.at /\ f.at <= wrong
    BY <1>3, Numbers DEF Counted, LastStays, TypeOK, Failures
<1>. QED  BY <1>1, <1>2, <1>4, Numbers

LEMMA AddCounts ==
    ASSUME TypeOK, Counted, NEW r \in Requests, AddFailedLogin(r)
    PROVE  Counted'
<1>1. /\ req[r].phase = "add"
      /\ UNCHANGED <<user, wrong, resets>>
    BY DEF AddFailedLogin, history
<1>2. \A q \in Requests \ {r} : ~Attempting(q) /\ req[q].phase = "idle"
    BY <1>1, OthersRest DEF Counted, Attempting, AttemptPhases
<1>3. Stored = wrong - 1
    BY <1>1 DEF Stored
<1>4. /\ req[r].at = wrong /\ req[r].count = wrong
      /\ \A f \in req[r].list : f.at < wrong
      /\ req[r].lock <=> wrong >= Threshold
    BY <1>1 DEF Counted, HoldsLast
<1>5. \A f \in removals : f.at < wrong
    BY <1>3, Numbers DEF Counted, LastStays, TypeOK, Failures
<1>6. CASE req[r].lock
    <2>. DEFINE state == [req[r] EXCEPT !.phase = "lock"]
    <2>1. Become(r, state) /\ UNCHANGED removals
        BY <1>6 DEF AddFailedLogin
    <2>2. /\ state.phase = "lock" /\ state.list = req[r].list
          /\ state.at = req[r].at /\ state.count = req[r].count /\ state.lock = req[r].lock
        BY PhaseHas DEF TypeOK
    <2>. HIDE DEF state
    <2>3. Alone' /\ req'[r] = state /\ \A q \in Requests \ {r} : req'[q] = req[q]
        BY <1>1, <1>2, <2>1, <2>2, StaysAlone DEF Counted
    <2>4. Stored' = wrong
        BY <1>1, <1>2, <2>2, <2>3 DEF Stored
    <2>5. LastStays'
        BY <1>5, <2>1, <2>4, TableGrows DEF LastStays
    <2>6. state.lock
        BY <1>6, <2>2, Zenon
    <2>7. HoldsLast(r)'
        BY <1>1, <1>4, <1>6, <2>2, <2>3, <2>6 DEF HoldsLast
    <2>8. \A q \in Requests : HoldsLast(q)'
        BY <1>2, <2>3, <2>7 DEF HoldsLast
    <2>9. Caught'
        BY <2>2, <2>3, <2>6 DEF Caught
    <2>. QED  BY <2>3, <2>5, <2>8, <2>9 DEF Counted
<1>7. CASE ~req[r].lock
    <2>1. Become(r, Idle) /\ removals' = removals \cup req[r].list
        BY <1>7 DEF AddFailedLogin, Finish, Started
    <2>2. Alone' /\ req'[r] = Idle /\ \A q \in Requests \ {r} : req'[q] = req[q]
        BY <1>1, <1>2, <2>1, IdleHas, StaysAlone DEF Counted
    <2>3. \A q \in Requests : req'[q].phase = "idle"
        BY <1>2, <2>2, IdleHas
    <2>4. Stored' = wrong
        BY <1>1, <2>3 DEF Stored
    <2>5. LastStays'
        BY <1>4, <1>5, <2>1, <2>4, TableGrows DEF LastStays
    <2>6. Caught'
        BY <1>1, <1>4, <1>7 DEF Caught
    <2>7. \A q \in Requests : HoldsLast(q)'
        BY <2>3 DEF HoldsLast
    <2>. QED  BY <2>2, <2>5, <2>6, <2>7 DEF Counted
<1>. QED  BY <1>6, <1>7

LEMMA LockCounts ==
    ASSUME TypeOK, Counted, NEW r \in Requests, LockUser(r)
    PROVE  Counted'
<1>1. /\ req[r].phase = "lock" /\ Become(r, Idle) /\ removals' = removals \cup req[r].list
      /\ user' = [req[r].row EXCEPT !.locked = TRUE]
      /\ UNCHANGED <<failed, wrong, resets>>
    BY DEF LockUser, Finish, Started, history
<1>2. user'.locked
    BY <1>1 DEF TypeOK, ReqStates, Users
<1>3. \A q \in Requests \ {r} : ~Attempting(q) /\ req[q].phase = "idle"
    BY <1>1, OthersRest DEF Counted, Attempting, AttemptPhases
<1>4. Alone' /\ req'[r] = Idle /\ \A q \in Requests \ {r} : req'[q] = req[q]
    BY <1>1, <1>3, IdleHas, StaysAlone DEF Counted
<1>5. \A q \in Requests : req'[q].phase = "idle"
    BY <1>3, <1>4, IdleHas
<1>6. Stored = wrong /\ Stored' = wrong
    BY <1>1, <1>3, <1>5 DEF Stored
<1>7. \A f \in req[r].list : f.at < wrong
    BY <1>1 DEF Counted, HoldsLast
<1>8. LastStays'
    BY <1>1, <1>6, <1>7 DEF Counted, LastStays
<1>9. \A q \in Requests : HoldsLast(q)'
    BY <1>5 DEF HoldsLast
<1>10. Caught'
    BY <1>2 DEF Caught
<1>. QED  BY <1>4, <1>8, <1>9, <1>10 DEF Counted

(* Deletions and time change neither the counts nor the last failure.      *)
LEMMA RestCounts ==
    ASSUME TypeOK, Counted, UNCHANGED <<user, req, wrong, resets>>,
           \/ RemoveFailedLogin
           \/ PassPause
           \/ UNCHANGED <<failed, removals>>
    PROVE  Counted'
<1>1. Stored' = Stored
    BY DEF Stored
<1>2. LastStays'
    <2>1. CASE RemoveFailedLogin
        <3>1. PICK f \in removals : /\ failed' = {g \in failed : g.at # f.at}
                                   /\ removals' = removals \ {f}
            BY <2>1 DEF RemoveFailedLogin
        <3>2. f.at < Stored /\ f.at \in Nat
            BY <3>1 DEF Counted, LastStays, TypeOK, Failures
        <3>3. Stored > 0 => \E g \in failed : g.at = Stored /\ g.at # f.at
            BY <3>2, Numbers DEF Counted, LastStays, Stored
        <3>. QED  BY <1>1, <3>1, <3>3 DEF Counted, LastStays
    <2>2. CASE PassPause
        <3>1. \A f \in failed \cup removals : Later(f).at = f.at /\ Later(f).count = f.count
            BY LaterHas DEF TypeOK
        <3>. QED  BY <1>1, <2>2, <3>1, PassPauseMoves DEF Counted, LastStays
    <2>3. CASE UNCHANGED <<failed, removals>>
        BY <1>1, <2>3, TableStays DEF Counted
    <2>. QED  BY <2>1, <2>2, <2>3
<1>3. Alone' /\ Caught' /\ \A q \in Requests : HoldsLast(q)'
    BY DEF Counted, Alone, Caught, HoldsLast, Attempting
<1>. QED  BY <1>2, <1>3 DEF Counted

LEMMA Counts ==
    ASSUME IInv, [Next]_vars
    PROVE  (Calm => Counted)'
<1>. SUFFICES ASSUME Calm'
              PROVE  Counted'
    OBVIOUS
<1>1. TypeOK /\ Calm /\ Counted /\ policy = "LOCK_USER_ACCOUNT"
    BY CalmSteps DEF IInv, Calm
<1>2. \/ \E r \in Requests :
             \/ \E password \in BOOLEAN : BeginAttempt(r, password)
             \/ ListFailures(r) \/ TurnAway(r) \/ JudgeWrong(r)
             \/ AddFailedLogin(r) \/ LockUser(r) \/ CompleteAttempt(r)
      \/ RemoveFailedLogin \/ ResetFailedLoginAttempts \/ PassPause
      \/ UNCHANGED vars
    BY <1>1, CalmSteps
<1>3. \A r \in Requests : ~TurnAway(r) /\ ~CompleteAttempt(r)
    BY <1>1 DEF TurnAway, PauseCheckThrows, CompleteAttempt, Counted, Alone
<1>4. ~ResetFailedLoginAttempts
    BY <1>1 DEF ResetFailedLoginAttempts, Counted, Alone
<1>5. CASE RemoveFailedLogin \/ PassPause \/ UNCHANGED vars
    <2>1. UNCHANGED <<user, req, wrong, resets>>
        BY <1>5 DEF RemoveFailedLogin, PassPause, history, vars
    <2>2. RemoveFailedLogin \/ PassPause \/ UNCHANGED <<failed, removals>>
        BY <1>5 DEF vars
    <2>. QED  BY <1>1, <2>1, <2>2, RestCounts
<1>. QED  BY <1>1, <1>2, <1>3, <1>4, <1>5, BeginCounts, ListCounts, JudgeWrongCounts, AddCounts,
          LockCounts

LEMMA InitCounts == Init => (Calm => Counted)
<1>. SUFFICES ASSUME Init
              PROVE  Counted
    OBVIOUS
<1>1. \A r \in Requests : req[r].phase = "idle"
    BY IdleHas DEF Init
<1>2. wrong = 0 /\ failed = {} /\ removals = {} /\ resets = 0
    BY DEF Init
<1>3. Stored = 0
    BY <1>1, <1>2 DEF Stored
<1>4. Threshold > 0
    BY ConstantsOk DEF ConstantsOk
<1>. QED  BY <1>1, <1>2, <1>3, <1>4, ConstantsOk
          DEF Counted, Alone, LastStays, HoldsLast, Caught, Attempting, AttemptPhases, ConstantsOk

(* As long as attempts come one after the other and nobody disturbs the
   user, the wrong secret that reaches the threshold locks the user.       *)
THEOREM LocksComeInTime == Spec => []LockedInTime
<1>1. Init => IInv
    BY InitFits, InitCounts DEF IInv
<1>2. IInv /\ [Next]_vars => IInv'
    BY Fits, Counts DEF IInv
<1>3. IInv => LockedInTime
    BY DEF IInv, Calm, Counted, Caught, LockedInTime
<1>. QED  BY <1>1, <1>2, <1>3, PTL DEF Spec

-----------------------------------------------------------------------------
(* What two clients gain by overlapping.                                   *)

(* The date of the latest failure of a list.                               *)
LastAt(list) ==
    IF list = {} THEN 0
    ELSE (CHOOSE f \in list : \A g \in list : g.at <= f.at).at

(* How far the count of a list has come, of the failures the policy allows. *)
Level(list) ==
    IF NextCount(list) > Threshold THEN Threshold ELSE NextCount(list) - 1

(* What two clients that stand at levels a and b can still gain: wrong
   secrets, doubled, with one more for each lock that is on its way.       *)
Down(a) == (Threshold - a - 1) * (Threshold - a)
Slack(a, b) ==
    IF a <= b THEN Down(a) + 2 * (Threshold - b) + 2
    ELSE Down(b) + 2 * (Threshold - a) + 2
Bound == Threshold * (Threshold + 1) + 2

LEMMA DownSteps ==
    ASSUME NEW a \in 0 .. Threshold
    PROVE  /\ Down(a) \in Nat
           /\ \A b \in 0 .. a : Down(a) <= Down(b)
           /\ a < Threshold => Down(a) = Down(a + 1) + 2 * (Threshold - a - 1)
<1>1. Threshold \in Nat \ {0}
    BY ConstantsOk DEF ConstantsOk
<1>2. Down(a) \in Nat
    <2>1. CASE a = Threshold
        BY <1>1, <2>1 DEF Down
    <2>2. CASE a # Threshold
        <3>1. Threshold - a - 1 \in Nat /\ Threshold - a \in Nat
            BY <1>1, <2>2
        <3>2. \A m, n \in Nat : m * n \in Nat
            OBVIOUS
        <3>. QED  BY <3>1, <3>2 DEF Down
    <2>. QED  BY <2>1, <2>2
<1>3. ASSUME NEW b \in 0 .. a
      PROVE  Down(a) <= Down(b)
    <2>. DEFINE v == Threshold - a
                d == a - b
    <2>1. v \in Nat /\ d \in Nat /\ Threshold - b = v + d
        BY <1>1
    <2>2. Down(a) = (v - 1) * v /\ Down(b) = (v + d - 1) * (v + d)
        BY <1>1 DEF Down
    <2>. HIDE DEF v, d
    <2>3. (v + d - 1) * (v + d) = (v - 1) * v + 2 * (v * d) + (d * d - d)
        BY <2>1
    <2>4. v * d \in Nat
        BY <2>1
    <2>5. d * d - d \in Nat
        <3>1. CASE d = 0
            BY <3>1
        <3>2. CASE d # 0
            <4>1. d - 1 \in Nat
                BY <2>1, <3>2
            <4>2. d * (d - 1) \in Nat /\ d * d - d = d * (d - 1)
                BY <2>1, <4>1
            <4>. QED  BY <4>2
        <3>. QED  BY <3>1, <3>2
    <2>6. (v - 1) * v \in Int
        BY <2>1
    <2>. QED  BY <2>2, <2>3, <2>4, <2>5, <2>6
<1>4. a < Threshold => Down(a) = Down(a + 1) + 2 * (Threshold - a - 1)
    BY <1>1 DEF Down
<1>. QED  BY <1>2, <1>3, <1>4

(* It is the same for both, and less the further they have come.           *)
LEMMA SlackFalls ==
    ASSUME NEW a \in 0 .. Threshold, NEW b \in 0 .. Threshold
    PROVE  /\ Slack(a, b) \in Nat /\ Slack(a, b) >= 2
           /\ Slack(a, b) = Slack(b, a)
           /\ \A c \in 0 .. a : Slack(a, b) <= Slack(c, b)
<1>1. Threshold \in Nat \ {0}
    BY ConstantsOk DEF ConstantsOk
<1>2. ASSUME NEW c \in 0 .. Threshold
      PROVE  Down(c) \in Nat /\ \A e \in 0 .. c : Down(c) <= Down(e)
    BY DownSteps
<1>3. Slack(a, b) \in Nat /\ Slack(a, b) >= 2
    BY <1>1, <1>2 DEF Slack
<1>4. Slack(a, b) = Slack(b, a)
    <2>1. CASE a < b
        BY <2>1 DEF Slack
    <2>2. CASE b < a
        BY <2>2 DEF Slack
    <2>3. CASE a = b
        BY <2>3
    <2>. QED  BY <1>1, <2>1, <2>2, <2>3
<1>5. ASSUME NEW c \in 0 .. a
      PROVE  Slack(a, b) <= Slack(c, b)
    <2>0. c \in 0 .. Threshold /\ Down(a) \in Nat /\ Down(b) \in Nat /\ Down(c) \in Nat
        BY <1>1, <1>2
    <2>1. CASE a <= b
        <3>1. Down(a) <= Down(c)
            BY <1>2
        <3>. QED  BY <1>1, <2>0, <2>1, <3>1 DEF Slack
    <2>2. CASE b < a /\ c <= b
        <3>1. Down(b) <= Down(c)
            BY <1>1, <1>2, <2>0, <2>2
        <3>. QED  BY <1>1, <2>0, <2>2, <3>1 DEF Slack
    <2>3. CASE b < a /\ b < c
        BY <1>1, <2>0, <2>3 DEF Slack
    <2>. QED  BY <1>1, <2>0, <2>1, <2>2, <2>3
<1>. QED  BY <1>3, <1>4, <1>5

(* A wrong secret costs one: who judges it comes a level further, ...      *)
LEMMA SlackCosts ==
    ASSUME NEW a \in 0 .. Threshold - 1, NEW b \in 0 .. Threshold,
           a < Threshold - 1 \/ b < Threshold
    PROVE  Slack(a + 1, b) + 2 <= Slack(a, b)
<1>1. Threshold \in Nat \ {0} /\ a + 1 \in 0 .. Threshold /\ a \in 0 .. Threshold
    BY ConstantsOk DEF ConstantsOk
<1>2. Down(a) \in Nat /\ Down(b) \in Nat /\ Down(a + 1) \in Nat
    BY <1>1, DownSteps
<1>3. Down(a) = Down(a + 1) + 2 * (Threshold - a - 1)
    BY <1>1, DownSteps
<1>4. CASE a + 1 <= b
    BY <1>1, <1>2, <1>3, <1>4 DEF Slack
<1>5. CASE b <= a
    <2>1. CASE a = b
        BY <1>1, <1>2, <1>3, <2>1 DEF Slack
    <2>2. CASE b < a
        BY <1>1, <1>2, <2>2 DEF Slack
    <2>. QED  BY <1>1, <1>5, <2>1, <2>2
<1>. QED  BY <1>1, <1>4, <1>5

(* ... and the other may read the row that will be stored.                 *)
LEMMA SlackCostsBoth ==
    ASSUME NEW a \in 0 .. Threshold - 1, NEW b \in 0 .. Threshold - 1
    PROVE  Slack(a + 1, a + 1) + 2 <= Slack(a, b)
<1>1. Threshold \in Nat \ {0} /\ a + 1 \in 0 .. Threshold /\ a \in 0 .. Threshold
      /\ b \in 0 .. Threshold
    BY ConstantsOk DEF ConstantsOk
<1>2. Down(a) \in Nat /\ Down(b) \in Nat /\ Down(a + 1) \in Nat
    BY <1>1, DownSteps
<1>3. Down(a) = Down(a + 1) + 2 * (Threshold - a - 1)
    BY <1>1, DownSteps
<1>4. b <= a => Down(a) <= Down(b)
    BY <1>1, DownSteps
<1>. QED  BY <1>1, <1>2, <1>3, <1>4 DEF Slack

LEMMA SlackStarts ==
    Slack(0, 0) = Bound /\ Bound \in Nat /\ Slack(Threshold, Threshold) = 2
    /\ Slack(Threshold - 1, Threshold) = 2
<1>1. Threshold \in Nat \ {0}
    BY ConstantsOk DEF ConstantsOk
<1>2. Threshold * (Threshold + 1) \in Nat
    BY <1>1
<1>. QED  BY <1>1, <1>2 DEF Slack, Down, Bound

-----------------------------------------------------------------------------
(* The latest failure of a list.                                           *)

LEMMA LastHas ==
    ASSUME NEW list \in SUBSET Failures
    PROVE  /\ LastAt(list) \in Nat
           /\ \A g \in list : g.at <= LastAt(list)
           /\ list = {} => LastAt(list) = 0 /\ NextCount(list) = 1
           /\ list # {} => \E f \in list : f.at = LastAt(list) /\ NextCount(list) = f.count + 1
<1>1. CASE list = {}
    BY <1>1 DEF LastAt, NextCount
<1>2. CASE list # {}
    <2>. DEFINE top == CHOOSE f \in list : \A g \in list : g.at <= f.at
    <2>1. top \in list /\ \A g \in list : g.at <= top.at
        BY <1>2, LatestExists
    <2>2. LastAt(list) = top.at /\ NextCount(list) = top.count + 1
        BY <1>2 DEF LastAt, NextCount
    <2>3. top.at \in Nat
        BY <2>1, ConstantsOk DEF Failures, ConstantsOk
    <2>. HIDE DEF top
    <2>. QED  BY <1>2, <2>1, <2>2, <2>3
<1>. QED  BY <1>1, <1>2

(* A failure that no other is as late as.                                  *)
LEMMA LastIs ==
    ASSUME NEW list \in SUBSET Failures, NEW f \in list,
           \A g \in list : g.at <= f.at /\ (g.at = f.at => g.count = f.count)
    PROVE  LastAt(list) = f.at /\ NextCount(list) = f.count + 1
<1>1. PICK h \in list : h.at = LastAt(list) /\ NextCount(list) = h.count + 1
    BY LastHas
<1>2. f.at <= LastAt(list)
    BY LastHas
<1>3. f.at \in Nat /\ h.at \in Nat
    BY ConstantsOk DEF Failures, ConstantsOk
<1>4. h.at = f.at /\ h.count = f.count
    BY <1>1, <1>2, <1>3
<1>. QED  BY <1>1, <1>4

(* Failures have dates of their own.                                       *)
Dated(list) == \A f, g \in list : f.at = g.at => f = g

(* The latest failure stays when an earlier one goes.                      *)
LEMMA LastAtStays ==
    ASSUME NEW list \in SUBSET Failures, Dated(list), NEW at \in Nat, at < LastAt(list)
    PROVE  LET fewer == {g \in list : g.at # at} IN
           LastAt(fewer) = LastAt(list) /\ NextCount(fewer) = NextCount(list)
<1>. DEFINE fewer == {g \in list : g.at # at}
<1>1. list # {}
    BY LastHas
<1>2. PICK f \in list : f.at = LastAt(list) /\ NextCount(list) = f.count + 1
    BY <1>1, LastHas
<1>3. f \in fewer /\ \A g \in fewer : g.at <= f.at
    BY <1>2, LastHas
<1>4. \A g \in fewer : g.at = f.at => g.count = f.count
    BY DEF Dated
<1>5. fewer \in SUBSET Failures
    OBVIOUS
<1>6. LastAt(fewer) = f.at /\ NextCount(fewer) = f.count + 1
    <2>. HIDE DEF fewer
    <2>. QED  BY <1>3, <1>4, <1>5, LastIs
<1>. QED  BY <1>2, <1>6

(* It stays the latest when a pause is over.                               *)
LEMMA LastPauses ==
    ASSUME NEW list \in SUBSET Failures, Dated(list)
    PROVE  LET later == {Later(f) : f \in list} IN
           /\ Dated(later)
           /\ LastAt(later) = LastAt(list) /\ NextCount(later) = NextCount(list)
<1>. DEFINE later == {Later(f) : f \in list}
<1>1. \A f \in list : Later(f) \in Failures /\ Later(f).at = f.at /\ Later(f).count = f.count
    BY LaterHas
<1>2. later \in SUBSET Failures
    BY <1>1
<1>3. Dated(later)
    BY <1>1 DEF Dated
<1>4. CASE list = {}
    <2>1. later = {}
        BY <1>4
    <2>. HIDE DEF later
    <2>. QED  BY <1>2, <1>3, <1>4, <2>1, LastHas
<1>5. CASE list # {}
    <2>1. PICK f \in list : f.at = LastAt(list) /\ NextCount(list) = f.count + 1
        BY <1>5, LastHas
    <2>2. Later(f) \in later /\ \A g \in later : g.at <= Later(f).at
        BY <1>1, <2>1, LastHas
    <2>3. \A g \in later : g.at = Later(f).at => g.count = Later(f).count
        BY <1>3, <2>2 DEF Dated
    <2>4. LastAt(later) = Later(f).at /\ NextCount(later) = Later(f).count + 1
        <3>. HIDE DEF later
        <3>. QED  BY <1>2, <2>2, <2>3, LastIs
    <2>. QED  BY <1>1, <1>3, <2>1, <2>4
<1>. QED  BY <1>4, <1>5

(* A new failure is the latest, or leaves the latest as it is.             *)
LEMMA LastGrows ==
    ASSUME NEW list \in SUBSET Failures, Dated(list), NEW row \in Failures,
           \A f \in list : f.at # row.at
    PROVE  LET more == list \cup {row} IN
           /\ Dated(more)
           /\ LastAt(list) < row.at =>
                  LastAt(more) = row.at /\ NextCount(more) = row.count + 1
           /\ ~(LastAt(list) < row.at) =>
                  LastAt(more) = LastAt(list) /\ NextCount(more) = NextCount(list)
<1>. DEFINE more == list \cup {row}
<1>1. more \in SUBSET Failures /\ row.at \in Nat /\ \A f \in list : f.at \in Nat
    BY ConstantsOk DEF Failures, ConstantsOk
<1>2. Dated(more)
    BY DEF Dated
<1>3. CASE LastAt(list) < row.at
    <2>1. row \in more /\ \A g \in more : g.at <= row.at /\ (g.at = row.at => g.count = row.count)
        BY <1>1, <1>3, LastHas
    <2>2. LastAt(more) = row.at /\ NextCount(more) = row.count + 1
        <3>. HIDE DEF more
        <3>. QED  BY <1>1, <2>1, LastIs
    <2>. QED  BY <1>2, <1>3, <2>2
<1>4. CASE ~(LastAt(list) < row.at)
    <2>1. row.at >= 1
        BY ConstantsOk DEF Failures, ConstantsOk
    <2>2. list # {}
        BY <1>1, <1>4, <2>1, LastHas
    <2>3. PICK f \in list : f.at = LastAt(list) /\ NextCount(list) = f.count + 1
        BY <2>2, LastHas
    <2>4. f \in more /\ \A g \in more : g.at <= f.at /\ (g.at = f.at => g.count = f.count)
        BY <1>1, <1>2, <1>4, <2>3, LastHas DEF Dated
    <2>5. LastAt(more) = f.at /\ NextCount(more) = f.count + 1
        <3>. HIDE DEF more
        <3>. QED  BY <1>1, <2>4, LastIs
    <2>. QED  BY <1>2, <1>4, <2>3, <2>5
<1>. QED  BY <1>3, <1>4

-----------------------------------------------------------------------------
(* The order of the failures while nobody disturbs the count.              *)

(* No reset is under way; failures, stored or about to be, have dates of
   their own; and what is about to be deleted is not the latest.           *)
Ordered ==
    /\ resets = 0
    /\ \A r \in Requests : req[r].phase # "complete"
    /\ Dated(failed)
    /\ \A r \in Requests : req[r].phase = "add" =>
           /\ \A f \in failed : f.at # req[r].at
           /\ \A f \in req[r].list : f.at < req[r].at
           /\ \A q \in Requests : q # r /\ req[q].phase = "add" => req[q].at # req[r].at
    /\ \A f \in removals : f.at < LastAt(failed)
    /\ \A r \in Requests : req[r].phase = "lock" =>
           \A f \in req[r].list : f.at < LastAt(failed)

(* The steps of a request that do not disturb.                             *)
Keeps(r) ==
    \/ \E password \in BOOLEAN : BeginAttempt(r, password)
    \/ ListFailures(r) \/ TurnAway(r) \/ JudgeWrong(r) \/ AddFailedLogin(r) \/ LockUser(r)
    \/ \E writer \in RowWriters : BeginWrite(r, writer)

LEMMA WasUndisturbed ==
    ASSUME TypeOK, [Next]_vars, ~disturbed'
    PROVE  ~disturbed
<1>1. ASSUME NEW r \in Requests, Attempt(r)
      PROVE  UNCHANGED disturbed
    BY <1>1, Zenon DEF Attempt, BeginAttempt, ListFailures, TurnAway, JudgeWrong, JudgeRight,
       AddFailedLogin, LockUser, CompleteAttempt, history
<1>2. ASSUME NEW r \in Requests, Write(r)
      PROVE  UNCHANGED disturbed
    BY <1>2, Zenon DEF Write, UpdateUser, UnlockUser, MarkForDelete, SwapPrimaryAndRecoveryEmail,
       BeginWrite, WriteRow, history
<1>3. \A r \in Requests : ~Die(r)
    BY DEF Die
<1>. QED  BY <1>1, <1>2, <1>3
       DEF Next, RemoveFailedLogin, ResetFailedLoginAttempts, PassPause,
       SetTenantLoginFailurePolicy, history, vars

LEMMA UndisturbedSteps ==
    ASSUME TypeOK, Ordered, [Next]_vars, ~disturbed'
    PROVE  \/ \E r \in Requests : Keeps(r)
           \/ RemoveFailedLogin \/ PassPause
           \/ \E p \in Policies : SetTenantLoginFailurePolicy(p)
           \/ UNCHANGED vars
<1>1. ~ResetFailedLoginAttempts /\ \A r \in Requests : ~CompleteAttempt(r)
    BY DEF ResetFailedLoginAttempts, CompleteAttempt, Ordered
<1>2. \A r \in Requests : ~JudgeRight(r) /\ ~WriteRow(r) /\ ~Die(r)
    BY DEF JudgeRight, WriteRow, Die
<1>3. ASSUME NEW r \in Requests, Attempt(r)
      PROVE  Keeps(r)
    BY <1>1, <1>2, <1>3 DEF Attempt, Keeps
<1>4. ASSUME NEW r \in Requests, Write(r)
      PROVE  Keeps(r)
    BY <1>2, <1>4 DEF Write, UpdateUser, UnlockUser, MarkForDelete,
       SwapPrimaryAndRecoveryEmail, RowWriters, Keeps
<1>. QED  BY <1>1, <1>2, <1>3, <1>4 DEF Next

(* What a failure that is about to be stored is.                           *)
LEMMA AddsHave ==
    ASSUME TypeOK, Earned, NEW r \in Requests
    PROVE  /\ req[r].list \in SUBSET Failures
           /\ req[r].at \in Nat /\ req[r].count \in Nat
           /\ \A f \in req[r].list : f.at <= wrong /\ f.at \in Nat
           /\ req[r].phase \in {"add", "lock"} =>
                  req[r].at <= wrong /\ req[r].at >= 1 /\ req[r].count >= 1
<1>1. req[r] \in ReqStates /\ ReqFits(req[r], wrong)
    BY DEF TypeOK, Earned
<1>2. \A f \in req[r].list : f.at \in Nat
    BY <1>1, Numbers DEF ReqStates, Failures
<1>3. req[r].at \in Nat /\ req[r].count \in Nat /\ req[r].list \in SUBSET Failures
    BY <1>1, Numbers DEF ReqStates
<1>. QED  BY <1>1, <1>2, <1>3, Numbers DEF ReqFits

(* A request moves, and the dates of the rest stay apart.                  *)
LEMMA OrderMoves ==
    ASSUME TypeOK, Ordered, NEW r \in Requests, NEW state, Become(r, state), UNCHANGED resets,
           failed' \in SUBSET Failures, Dated(failed'), LastAt(failed) <= LastAt(failed'),
           \A f \in removals' : f.at < LastAt(failed'),
           state.phase # "complete",
           state.phase = "add" =>
               /\ \A f \in failed' : f.at # state.at
               /\ \A f \in state.list : f.at < state.at
               /\ \A q \in Requests : q # r /\ req[q].phase = "add" => req[q].at # state.at,
           state.phase = "lock" => \A f \in state.list : f.at < LastAt(failed'),
           \A q \in Requests : q # r /\ req[q].phase = "add" =>
               \A f \in failed' : f.at # req[q].at
    PROVE  Ordered'
<1>1. req'[r] = state /\ \A q \in Requests \ {r} : req'[q] = req[q]
    BY DEF Become, TypeOK
<1>2. LastAt(failed) \in Nat /\ LastAt(failed') \in Nat
    BY LastHas DEF TypeOK
<1>3. resets' = 0 /\ \A q \in Requests : req'[q].phase # "complete"
    BY <1>1 DEF Ordered
<1>4. ASSUME NEW q \in Requests, req'[q].phase = "add"
      PROVE  /\ \A f \in failed' : f.at # req'[q].at
             /\ \A f \in req'[q].list : f.at < req'[q].at
             /\ \A p \in Requests : p # q /\ req'[p].phase = "add" => req'[p].at # req'[q].at
    <2>1. CASE q = r
        BY <1>1, <1>4, <2>1
    <2>2. CASE q # r
        <3>1. req'[q] = req[q] /\ req[q].phase = "add"
            BY <1>1, <1>4, <2>2
        <3>2. ASSUME NEW p \in Requests, p # q, req'[p].phase = "add"
              PROVE  req'[p].at # req'[q].at
            <4>1. CASE p = r
                BY <1>1, <2>2, <3>1, <3>2, <4>1
            <4>2. CASE p # r
                BY <1>1, <3>1, <3>2, <4>2 DEF Ordered
            <4>. QED  BY <4>1, <4>2
        <3>3. \A f \in req[q].list : f.at < req[q].at
            BY <3>1 DEF Ordered
        <3>. QED  BY <2>2, <3>1, <3>2, <3>3
    <2>. QED  BY <2>1, <2>2
<1>5. ASSUME NEW q \in Requests, req'[q].phase = "lock", NEW f \in req'[q].list
      PROVE  f.at < LastAt(failed')
    <2>1. CASE q = r
        BY <1>1, <1>5, <2>1
    <2>2. CASE q # r
        <3>1. f \in req[q].list /\ req[q].phase = "lock" /\ req[q].list \in SUBSET Failures
            BY <1>1, <1>5, <2>2 DEF TypeOK, ReqStates
        <3>2. f.at < LastAt(failed) /\ f.at \in Nat
            BY <3>1, Numbers DEF Ordered, Failures
        <3>. QED  BY <1>2, <3>2
    <2>. QED  BY <2>1, <2>2
<1>. QED  BY <1>3, <1>4, <1>5 DEF Ordered

(* A request moves that stores nothing.                                    *)
LEMMA OrderKeeps ==
    ASSUME TypeOK, Earned, Ordered, NEW r \in Requests, NEW state, Become(r, state),
           UNCHANGED <<failed, resets>>,
           \A f \in removals' : f.at < LastAt(failed),
           state.phase \notin {"complete", "lock"},
           state.phase = "add" => /\ state.at = wrong + 1
                                  /\ \A f \in state.list : f.at < state.at
    PROVE  Ordered'
<1>1. /\ failed \in SUBSET Failures /\ Dated(failed) /\ LastAt(failed) \in Nat
      /\ \A f \in removals' : f.at < LastAt(failed')
      /\ failed' = failed
    BY LastHas DEF TypeOK, Ordered
<1>2. LastAt(failed) <= LastAt(failed')
    BY <1>1
<1>3. \A f \in failed : f.at <= wrong /\ f.at \in Nat
    BY JudgedFits, Numbers DEF TypeOK, Failures
<1>4. \A q \in Requests : req[q].phase = "add" => req[q].at <= wrong /\ req[q].at \in Nat
    BY AddsHave
<1>5. state.phase = "add" =>
          /\ \A f \in failed' : f.at # state.at
          /\ \A f \in state.list : f.at < state.at
          /\ \A q \in Requests : q # r /\ req[q].phase = "add" => req[q].at # state.at
    BY <1>1, <1>3, <1>4, Numbers
<1>6. \A q \in Requests : q # r /\ req[q].phase = "add" => \A f \in failed' : f.at # req[q].at
    BY <1>1 DEF Ordered
<1>. QED  BY <1>1, <1>2, <1>5, <1>6, OrderMoves

(* A failure that is stored.                                               *)
LEMMA AddHas ==
    ASSUME TypeOK, Earned, Ordered, NEW r \in Requests, AddFailedLogin(r)
    PROVE  \E row \in Failures :
               /\ row.at = req[r].at /\ row.count = req[r].count
               /\ failed' = failed \cup {row}
               /\ \A f \in failed : f.at # row.at
<1>. DEFINE row == [at |-> req[r].at, count |-> req[r].count, until |-> req[r].until]
<1>1. req[r] \in ReqStates /\ req[r].phase = "add"
    BY DEF TypeOK, AddFailedLogin
<1>2. /\ req[r].at \in 0 .. MaxWrong /\ req[r].count \in 0 .. MaxWrong
      /\ req[r].until \in Untils
      /\ req[r].at >= 1 /\ req[r].count >= 1
    BY <1>1, AddsHave DEF ReqStates
<1>3. row \in Failures
    BY <1>2, Numbers DEF Failures
<1>4. failed' = failed \cup {row} /\ row.at = req[r].at /\ row.count = req[r].count
    BY DEF AddFailedLogin
<1>. HIDE DEF row
<1>. QED  BY <1>1, <1>3, <1>4 DEF Ordered

LEMMA AddOrders ==
    ASSUME TypeOK, Earned, Ordered, NEW r \in Requests, AddFailedLogin(r)
    PROVE  Ordered'
<1>1. PICK row \in Failures :
          /\ row.at = req[r].at /\ row.count = req[r].count
          /\ failed' = failed \cup {row}
          /\ \A f \in failed : f.at # row.at
    BY AddHas
<1>2. failed \in SUBSET Failures /\ Dated(failed) /\ LastAt(failed) \in Nat /\ row.at \in Nat
    BY LastHas, Numbers DEF TypeOK, Ordered, Failures
<1>3. /\ Dated(failed')
      /\ LastAt(failed) < row.at => LastAt(failed') = row.at
      /\ ~(LastAt(failed) < row.at) => LastAt(failed') = LastAt(failed)
    BY <1>1, <1>2, LastGrows
<1>4. LastAt(failed) <= LastAt(failed') /\ row.at <= LastAt(failed') /\ LastAt(failed') \in Nat
    BY <1>2, <1>3
<1>5. /\ \A f \in removals : f.at < LastAt(failed) /\ f.at \in Nat
      /\ \A f \in req[r].list : f.at < row.at /\ f.at \in Nat
    BY <1>1, AddsHave, Numbers DEF AddFailedLogin, Ordered, TypeOK, Failures
<1>6. /\ \A f \in removals : f.at < LastAt(failed')
      /\ \A f \in req[r].list : f.at < LastAt(failed')
    BY <1>2, <1>4, <1>5
<1>7. \A q \in Requests : q # r /\ req[q].phase = "add" => \A f \in failed' : f.at # req[q].at
    BY <1>1 DEF Ordered, AddFailedLogin
<1>8. CASE req[r].lock
    <2>. DEFINE state == [req[r] EXCEPT !.phase = "lock"]
    <2>1. Become(r, state) /\ UNCHANGED <<removals, resets>>
        BY <1>8 DEF AddFailedLogin
    <2>2. state.phase = "lock" /\ state.list = req[r].list
        BY PhaseHas DEF TypeOK
    <2>. HIDE DEF state
    <2>. QED  BY <1>1, <1>2, <1>3, <1>4, <1>6, <1>7, <2>1, <2>2, OrderMoves
<1>9. CASE ~req[r].lock
    <2>1. Become(r, Idle) /\ removals' = removals \cup req[r].list /\ UNCHANGED resets
        BY <1>9 DEF AddFailedLogin, Finish, Started
    <2>. QED  BY <1>1, <1>2, <1>3, <1>4, <1>6, <1>7, <2>1, IdleHas, OrderMoves
<1>. QED  BY <1>8, <1>9

(* The other steps of a request.                                           *)
LEMMA KeepsOrder ==
    ASSUME TypeOK, Earned, Ordered, NEW r \in Requests, Keeps(r)
    PROVE  Ordered'
<1>1. \A f \in removals : f.at < LastAt(failed)
    BY DEF Ordered
<1>2. ASSUME NEW password \in BOOLEAN, BeginAttempt(r, password)
      PROVE  Ordered'
    <2>. DEFINE state == [Idle EXCEPT !.phase = "list", !.row = user]
    <2>1. state.phase = "list"
        BY DEF Idle
    <2>2. Become(r, state) /\ UNCHANGED <<failed, resets, removals>>
        BY <1>2 DEF BeginAttempt
    <2>. HIDE DEF state
    <2>. QED  BY <1>1, <2>1, <2>2, OrderKeeps
<1>3. ASSUME NEW writer \in RowWriters, BeginWrite(r, writer)
      PROVE  Ordered'
    <2>. DEFINE state == [Idle EXCEPT !.phase = writer, !.row = user]
    <2>1. state.phase = writer
        BY DEF Idle
    <2>2. Become(r, state) /\ UNCHANGED <<failed, resets, removals>>
        BY <1>3 DEF BeginWrite
    <2>3. writer \notin {"complete", "lock", "add"}
        BY DEF RowWriters
    <2>. HIDE DEF state
    <2>. QED  BY <1>1, <2>1, <2>2, <2>3, OrderKeeps
<1>4. CASE ListFailures(r)
    <2>. DEFINE half == [req[r] EXCEPT !.phase = "judge"]
                state == [half EXCEPT !.list = failed]
    <2>1. half \in ReqStates /\ half.phase = "judge"
        BY DEF TypeOK, ReqStates, AttemptPhases
    <2>2. state.phase = "judge"
        <3>. HIDE DEF half
        <3>. QED  BY <2>1 DEF ReqStates
    <2>3. Become(r, state) /\ UNCHANGED <<failed, resets, removals>>
        BY <1>4 DEF ListFailures
    <2>. HIDE DEF state
    <2>. QED  BY <1>1, <2>2, <2>3, OrderKeeps
<1>5. CASE TurnAway(r)
    <2>1. Become(r, Idle) /\ UNCHANGED <<failed, resets, removals>>
        BY <1>5 DEF TurnAway, Finish
    <2>. QED  BY <1>1, <2>1, IdleHas, OrderKeeps
<1>6. CASE JudgeWrong(r)
    <2>1. PICK state \in ReqStates :
              /\ Become(r, state) /\ state.phase = "add"
              /\ state.list = req[r].list /\ state.at = wrong + 1
        BY <1>6, JudgeWrongMoves
    <2>2. UNCHANGED <<failed, resets, removals>>
        BY <1>6 DEF JudgeWrong
    <2>3. \A f \in state.list : f.at < state.at
        BY <2>1, AddsHave, Numbers
    <2>. QED  BY <1>1, <2>1, <2>2, <2>3, OrderKeeps
<1>7. CASE LockUser(r)
    <2>1. /\ Become(r, Idle) /\ UNCHANGED <<failed, resets>>
          /\ removals' = removals \cup req[r].list
          /\ req[r].phase = "lock"
        BY <1>7 DEF LockUser, Finish, Started
    <2>2. \A f \in removals' : f.at < LastAt(failed)
        BY <1>1, <2>1 DEF Ordered
    <2>. QED  BY <2>1, <2>2, IdleHas, OrderKeeps
<1>. QED  BY <1>2, <1>3, <1>4, <1>5, <1>6, <1>7, AddOrders DEF Keeps

(* A deletion that arrives or a pause that is over changes neither the
   date nor the count of the latest failure.                               *)
LEMMA LatestRests ==
    ASSUME TypeOK, Ordered, RemoveFailedLogin \/ PassPause
    PROVE  /\ failed' \in SUBSET Failures /\ Dated(failed')
           /\ LastAt(failed') = LastAt(failed) /\ NextCount(failed') = NextCount(failed)
           /\ \A g \in failed' : \E f \in failed : g.at = f.at
           /\ removals' \subseteq removals
           /\ UNCHANGED <<user, req, resets, wrong, policy, mishaps, disturbed>>
<1>1. failed \in SUBSET Failures /\ Dated(failed) /\ \A f \in failed : Later(f).at = f.at
    BY LaterHas DEF TypeOK, Ordered
<1>2. CASE RemoveFailedLogin
    <2>1. PICK f \in removals : failed' = {g \in failed : g.at # f.at}
        BY <1>2 DEF RemoveFailedLogin
    <2>2. f.at \in Nat /\ f.at < LastAt(failed)
        BY Numbers DEF TypeOK, Ordered, Failures
    <2>3. Dated(failed') /\ failed' \in SUBSET Failures
        BY <1>1, <2>1 DEF Dated
    <2>4. LastAt(failed') = LastAt(failed) /\ NextCount(failed') = NextCount(failed)
        BY <1>1, <2>1, <2>2, LastAtStays
    <2>. QED  BY <1>2, <2>1, <2>3, <2>4 DEF RemoveFailedLogin, history
<1>3. CASE PassPause
    <2>1. failed' = {Later(f) : f \in failed}
        BY <1>3, PassPauseMoves
    <2>2. /\ Dated(failed')
          /\ LastAt(failed') = LastAt(failed) /\ NextCount(failed') = NextCount(failed)
        BY <1>1, <2>1, LastPauses
    <2>3. failed' \in SUBSET Failures /\ \A g \in failed' : \E f \in failed : g.at = f.at
        BY <1>1, <2>1, LaterHas
    <2>. QED  BY <1>3, <2>2, <2>3 DEF PassPause, history
<1>. QED  BY <1>2, <1>3

LEMMA Orders ==
    ASSUME TypeOK, Earned, Ordered, [Next]_vars, ~disturbed'
    PROVE  Ordered'
<1>1. CASE RemoveFailedLogin \/ PassPause
    BY <1>1, LatestRests DEF Ordered
<1>2. CASE UNCHANGED vars \/ \E p \in Policies : SetTenantLoginFailurePolicy(p)
    <2>1. UNCHANGED <<failed, req, removals, resets>>
        BY <1>2 DEF vars, SetTenantLoginFailurePolicy
    <2>. QED  BY <2>1 DEF Ordered, Dated
<1>. QED  BY <1>1, <1>2, KeepsOrder, UndisturbedSteps

-----------------------------------------------------------------------------
(* Where two clients stand.                                                *)

(* A failure is about to become the latest, and does not lock.             *)
Pending(r) ==
    /\ req[r].phase = "add"
    /\ LastAt(failed) < req[r].at
    /\ req[r].count < Threshold

(* A client that guesses no more: it is about to lock the user, or it
   begins anew and the user is locked.                                     *)
Shut(r) ==
    \/ req[r].phase \in {"add", "lock"} /\ req[r].count >= Threshold
    \/ ~Attempting(r) /\ user.locked

(* The levels from which r may count on, next to q.                        *)
StandsAt(r, q, x) ==
    \/ Shut(r) /\ x = Threshold
    \/ /\ Pending(r)
       /\ \/ x = req[r].count
          \/ Pending(q) /\ req[r].at < req[q].at /\ x = req[q].count
    \/ /\ ~Shut(r) /\ ~Pending(r)
       /\ \/ x = Level(failed)
          \/ Pending(q) /\ x = req[q].count
          \/ req[r].phase = "judge" /\ x = Level(req[r].list)

(* The wrong secrets judged and those still to be gained are bounded.      *)
Within(r, q) ==
    \/ \A a, b \in 0 .. Threshold :
           StandsAt(r, q, a) /\ StandsAt(q, r, b) => 2 * wrong + Slack(a, b) <= Bound
    \/ Shut(r) /\ Shut(q) /\ 2 * wrong <= Bound

(* What reaches the threshold carries the lock.                            *)
Armed ==
    \A r \in Requests :
        req[r].phase \in {"add", "lock"} /\ req[r].count >= Threshold => req[r].lock

(* A count at the threshold was not overlooked by everyone.                *)
Noticed ==
    (\/ Level(failed) = Threshold
     \/ \E r \in Requests : req[r].phase = "judge" /\ Level(req[r].list) = Threshold)
    => \E r \in Requests : Shut(r)

LEMMA LevelFits ==
    ASSUME NEW list \in SUBSET Failures
    PROVE  /\ Level(list) \in 0 .. Threshold
           /\ NextCount(list) \in Nat /\ NextCount(list) >= 1
<1>1. NextCount(list) \in Nat /\ NextCount(list) >= 1
    BY LastHas, ConstantsOk DEF Failures, ConstantsOk
<1>. QED  BY <1>1, ConstantsOk DEF Level, ConstantsOk

(* There is such a level, ...                                              *)
LEMMA Stands ==
    ASSUME TypeOK, Earned, NEW r \in Requests, NEW q \in Requests
    PROVE  /\ \E x \in 0 .. Threshold : StandsAt(r, q, x)
           /\ \A x : StandsAt(r, q, x) => x \in 0 .. Threshold
<1>1. /\ Threshold \in Nat /\ Level(failed) \in 0 .. Threshold
      /\ Level(req[r].list) \in 0 .. Threshold
    BY LevelFits, AddsHave, ConstantsOk DEF TypeOK, ConstantsOk
<1>2. ASSUME NEW p \in Requests, Pending(p)
      PROVE  req[p].count \in 0 .. Threshold
    BY <1>1, <1>2, AddsHave DEF Pending
<1>. QED  BY <1>1, <1>2 DEF StandsAt

(* ... and the order of the clients does not matter.                       *)
LEMMA WithinTurns ==
    ASSUME NEW r \in Requests, NEW q \in Requests
    PROVE  /\ Within(r, q) <=> Within(q, r)
           /\ Within(r, q)' <=> Within(q, r)'
<1>1. \A a, b \in 0 .. Threshold : Slack(a, b) = Slack(b, a)
    BY SlackFalls
<1>. QED  BY <1>1 DEF Within

(* A step after which both may only count on from where they could before. *)
LEMMA WithinStays ==
    ASSUME TypeOK, Earned, NEW r \in Requests, NEW q \in Requests, Within(r, q),
           UNCHANGED wrong, Shut(r) => Shut(r)', Shut(q) => Shut(q)',
           \A x \in 0 .. Threshold : StandsAt(r, q, x)' =>
               \E y \in 0 .. x : StandsAt(r, q, y),
           \A x \in 0 .. Threshold : StandsAt(q, r, x)' =>
               \E y \in 0 .. x : StandsAt(q, r, y)
    PROVE  Within(r, q)'
<1>1. CASE Shut(r) /\ Shut(q) /\ 2 * wrong <= Bound
    BY <1>1 DEF Within, Bound
<1>2. CASE \A a, b \in 0 .. Threshold :
               StandsAt(r, q, a) /\ StandsAt(q, r, b) => 2 * wrong + Slack(a, b) <= Bound
    <2>. SUFFICES ASSUME NEW a \in 0 .. Threshold, NEW b \in 0 .. Threshold,
                         StandsAt(r, q, a)', StandsAt(q, r, b)'
                  PROVE  2 * wrong' + Slack(a, b) <= Bound
        BY DEF Within, Bound, Slack, Down
    <2>1. PICK y \in 0 .. a : StandsAt(r, q, y)
        OBVIOUS
    <2>2. PICK z \in 0 .. b : StandsAt(q, r, z)
        OBVIOUS
    <2>3. y \in 0 .. Threshold /\ z \in 0 .. Threshold /\ Threshold \in Nat
        BY ConstantsOk DEF ConstantsOk
    <2>4. 2 * wrong + Slack(y, z) <= Bound
        BY <1>2, <2>1, <2>2, <2>3
    <2>5. Slack(a, b) <= Slack(y, b) /\ Slack(b, y) <= Slack(z, y)
        BY <2>3, SlackFalls
    <2>6. Slack(y, b) = Slack(b, y) /\ Slack(z, y) = Slack(y, z)
        BY <2>3, SlackFalls
    <2>7. /\ Slack(a, b) \in Nat /\ Slack(y, b) \in Nat /\ Slack(y, z) \in Nat
          /\ wrong \in Nat /\ Bound \in Nat
        BY <2>3, SlackFalls, SlackStarts, Numbers
    <2>. QED  BY <2>4, <2>5, <2>6, <2>7
<1>. QED  BY <1>1, <1>2 DEF Within

(* What the count is relied upon for, it was before.                       *)
LEMMA WasCounting ==
    ASSUME TypeOK, [Next]_vars, Counting'
    PROVE  Counting
<1>1. ~disturbed' /\ ~disturbed
    BY WasUndisturbed DEF Counting
<1>2. mishaps \in Nat /\ ((UNCHANGED policy /\ mishaps <= mishaps') \/ mishaps' = mishaps + 1)
    <2>1. ASSUME NEW r \in Requests, Attempt(r) \/ Write(r) \/ Die(r)
          PROVE  UNCHANGED policy /\ (UNCHANGED mishaps \/ mishaps' = mishaps + 1)
        BY <2>1, Zenon DEF Attempt, BeginAttempt, ListFailures, TurnAway, JudgeWrong, JudgeRight,
           AddFailedLogin, LockUser, CompleteAttempt, Write, UpdateUser, UnlockUser,
           MarkForDelete, SwapPrimaryAndRecoveryEmail, BeginWrite, WriteRow, Die, Mishap
    <2>2. ASSUME RemoveFailedLogin \/ ResetFailedLoginAttempts \/ PassPause \/ UNCHANGED vars
          PROVE  UNCHANGED <<policy, mishaps>>
        BY <2>2 DEF RemoveFailedLogin, ResetFailedLoginAttempts, PassPause, vars
    <2>3. ASSUME NEW p \in Policies, SetTenantLoginFailurePolicy(p)
          PROVE  mishaps' = mishaps + 1
        BY <2>3 DEF SetTenantLoginFailurePolicy, Mishap
    <2>. QED  BY <2>1, <2>2, <2>3, Numbers DEF Next
<1>. QED  BY <1>1, <1>2 DEF Counting

(* What reaches the threshold was judged under the policy that locks.      *)
LEMMA JudgeArms ==
    ASSUME TypeOK, Earned, Counting, NEW r \in Requests, JudgeWrong(r),
           NextCount(req[r].list) >= Threshold
    PROVE  Locks(NextCount(req[r].list))
<1>1. /\ policy \in Policies /\ Threshold \in Nat \ {0} /\ req[r].list \in SUBSET Failures
    BY AddsHave, ConstantsOk DEF TypeOK, ConstantsOk
<1>2. policy = "LOCK_USER_ACCOUNT"
    <2>1. CASE Threshold > 1
        <3>1. req[r].list # {}
            BY <1>1, <2>1, LastHas
        <3>. QED  BY <1>1, <3>1 DEF JudgeWrong, PauseCheckThrows, Policies
    <2>2. CASE ~(Threshold > 1)
        BY <2>2 DEF Counting
    <2>. QED  BY <2>1, <2>2
<1>. QED  BY <1>2 DEF Locks

(* What a step of a request does to that request.                          *)
LEMMA KeepsMoves ==
    ASSUME TypeOK, Earned, Ordered, NEW r \in Requests, Keeps(r)
    PROVE  /\ \A q \in Requests \ {r} : req'[q] = req[q]
           /\ \/ /\ JudgeWrong(r) /\ req[r].phase = "judge"
                 /\ req'[r].phase = "add" /\ req'[r].list = req[r].list
                 /\ req'[r].at = wrong + 1 /\ req'[r].count = NextCount(req[r].list)
                 /\ req'[r].lock = Locks(NextCount(req[r].list))
                 /\ wrong' = wrong + 1 /\ UNCHANGED <<user, failed>>
              \/ /\ AddFailedLogin(r) /\ req[r].phase = "add"
                 /\ req'[r].phase = IF req[r].lock THEN "lock" ELSE "idle"
                 /\ req[r].lock =>
                        req'[r].lock /\ req'[r].count = req[r].count /\ req'[r].list = req[r].list
                 /\ UNCHANGED <<user, wrong>>
              \/ /\ req[r].phase = "lock" /\ req'[r].phase = "idle" /\ user'.locked
                 /\ UNCHANGED <<failed, wrong>>
              \/ /\ req[r].phase = "judge" /\ req'[r].phase = "idle"
                 /\ UNCHANGED <<user, failed, wrong>>
              \/ /\ req[r].phase = "list" /\ req'[r].phase = "judge" /\ req'[r].list = failed
                 /\ UNCHANGED <<user, failed, wrong>>
              \/ /\ req[r].phase = "idle" /\ req'[r].phase \in RowWriters
                 /\ UNCHANGED <<user, failed, wrong>>
              \/ /\ req[r].phase = "idle" /\ req'[r].phase = "list" /\ ~user.locked
                 /\ UNCHANGED <<user, failed, wrong>>
<1>1. ASSUME NEW state, Become(r, state)
      PROVE  req'[r] = state /\ \A q \in Requests \ {r} : req'[q] = req[q]
    BY <1>1 DEF Become, TypeOK
<1>. DEFINE Others == \A q \in Requests \ {r} : req'[q] = req[q]
<1>2. ASSUME NEW password \in BOOLEAN, BeginAttempt(r, password)
      PROVE  /\ Others /\ req[r].phase = "idle" /\ req'[r].phase = "list" /\ ~user.locked
             /\ UNCHANGED <<user, failed, wrong>>
    <2>. DEFINE state == [Idle EXCEPT !.phase = "list", !.row = user]
    <2>1. state.phase = "list"
        BY DEF Idle
    <2>2. Become(r, state) /\ req[r].phase = "idle" /\ ~user.locked
          /\ UNCHANGED <<user, failed, wrong>>
        BY <1>2 DEF BeginAttempt, MayAttempt
    <2>. HIDE DEF state
    <2>. QED  BY <1>1, <2>1, <2>2
<1>3. ASSUME NEW writer \in RowWriters, BeginWrite(r, writer)
      PROVE  /\ Others /\ req[r].phase = "idle" /\ req'[r].phase \in RowWriters
             /\ UNCHANGED <<user, failed, wrong>>
    <2>. DEFINE state == [Idle EXCEPT !.phase = writer, !.row = user]
    <2>1. state.phase = writer
        BY DEF Idle
    <2>2. Become(r, state) /\ req[r].phase = "idle" /\ UNCHANGED <<user, failed, wrong>>
        BY <1>3 DEF BeginWrite, history
    <2>. HIDE DEF state
    <2>. QED  BY <1>1, <2>1, <2>2
<1>4. ASSUME ListFailures(r)
      PROVE  /\ Others /\ req[r].phase = "list" /\ req'[r].phase = "judge"
             /\ req'[r].list = failed /\ UNCHANGED <<user, failed, wrong>>
    <2>. DEFINE half == [req[r] EXCEPT !.phase = "judge"]
                state == [half EXCEPT !.list = failed]
    <2>1. half \in ReqStates /\ half.phase = "judge"
        BY DEF TypeOK, ReqStates, AttemptPhases
    <2>2. state.phase = "judge" /\ state.list = failed
        <3>. HIDE DEF half
        <3>. QED  BY <2>1 DEF ReqStates
    <2>3. Become(r, state) /\ req[r].phase = "list" /\ UNCHANGED <<user, failed, wrong>>
        BY <1>4 DEF ListFailures, history
    <2>. HIDE DEF state
    <2>. QED  BY <1>1, <2>2, <2>3
<1>5. ASSUME TurnAway(r)
      PROVE  /\ Others /\ req[r].phase = "judge" /\ req'[r].phase = "idle"
             /\ UNCHANGED <<user, failed, wrong>>
    BY <1>1, <1>5, IdleHas DEF TurnAway, Finish, history
<1>6. ASSUME JudgeWrong(r)
      PROVE  /\ Others /\ req[r].phase = "judge"
             /\ req'[r].phase = "add" /\ req'[r].list = req[r].list
             /\ req'[r].at = wrong + 1 /\ req'[r].count = NextCount(req[r].list)
             /\ req'[r].lock = Locks(NextCount(req[r].list))
             /\ wrong' = wrong + 1 /\ UNCHANGED <<user, failed>>
    <2>1. PICK state \in ReqStates :
              /\ Become(r, state)
              /\ state.phase = "add" /\ state.list = req[r].list /\ state.row = req[r].row
              /\ state.at = wrong + 1 /\ state.count = NextCount(req[r].list)
              /\ state.lock = Locks(NextCount(req[r].list))
        BY <1>6, JudgeWrongMoves
    <2>2. req[r].phase = "judge" /\ wrong' = wrong + 1 /\ UNCHANGED <<user, failed>>
        BY <1>6 DEF JudgeWrong
    <2>3. req'[r] = state /\ Others
        BY <1>1, <2>1
    <2>. QED  BY <2>1, <2>2, <2>3, Zenon
<1>7. ASSUME AddFailedLogin(r)
      PROVE  /\ Others /\ req[r].phase = "add"
             /\ req'[r].phase = IF req[r].lock THEN "lock" ELSE "idle"
             /\ req[r].lock =>
                    req'[r].lock /\ req'[r].count = req[r].count /\ req'[r].list = req[r].list
             /\ UNCHANGED <<user, wrong>>
    <2>1. req[r].phase = "add" /\ UNCHANGED <<user, wrong>>
        BY <1>7 DEF AddFailedLogin, history
    <2>2. CASE req[r].lock
        <3>. DEFINE state == [req[r] EXCEPT !.phase = "lock"]
        <3>1. /\ state.phase = "lock" /\ state.list = req[r].list
              /\ state.count = req[r].count /\ state.lock = req[r].lock
            BY PhaseHas DEF TypeOK
        <3>2. Become(r, state)
            BY <1>7, <2>2 DEF AddFailedLogin
        <3>. HIDE DEF state
        <3>3. req'[r] = state /\ Others
            BY <1>1, <3>2
        <3>. QED  BY <2>1, <2>2, <3>1, <3>3, Zenon
    <2>3. CASE ~req[r].lock
        <3>1. Become(r, Idle)
            BY <1>7, <2>3 DEF AddFailedLogin, Finish
        <3>. QED  BY <1>1, <2>1, <2>3, <3>1, IdleHas
    <2>. QED  BY <2>2, <2>3
<1>8. ASSUME LockUser(r)
      PROVE  /\ Others /\ req[r].phase = "lock" /\ req'[r].phase = "idle" /\ user'.locked
             /\ UNCHANGED <<failed, wrong>>
    <2>1. /\ Become(r, Idle) /\ req[r].phase = "lock"
          /\ user' = [req[r].row EXCEPT !.locked = TRUE] /\ UNCHANGED <<failed, wrong>>
        BY <1>8 DEF LockUser, Finish, history
    <2>2. user'.locked
        BY <2>1 DEF TypeOK, ReqStates, Users
    <2>. QED  BY <1>1, <2>1, <2>2, IdleHas
<1>. HIDE DEF Others
<1>9. Others
    BY <1>2, <1>3, <1>4, <1>5, <1>6, <1>7, <1>8 DEF Keeps
<1>. QED  BY <1>2, <1>3, <1>4, <1>5, <1>6, <1>7, <1>8, <1>9 DEF Keeps, Others

LEMMA Arms ==
    ASSUME TypeOK, Earned, Ordered, Counting, Armed, NEW r \in Requests, Keeps(r)
    PROVE  Armed'
<1>1. ASSUME NEW q \in Requests \ {r}, req'[q].phase \in {"add", "lock"},
             req'[q].count >= Threshold
      PROVE  req'[q].lock
    BY <1>1, KeepsMoves DEF Armed
<1>2. ASSUME req'[r].phase \in {"add", "lock"}, req'[r].count >= Threshold
      PROVE  req'[r].lock
    <2>1. CASE JudgeWrong(r) /\ req'[r].count = NextCount(req[r].list)
               /\ req'[r].lock = Locks(NextCount(req[r].list))
        <3>1. NextCount(req[r].list) >= Threshold
            BY <1>2, <2>1
        <3>2. Locks(NextCount(req[r].list))
            BY <2>1, <3>1, JudgeArms
        <3>. QED  BY <2>1, <3>2, Zenon
    <2>. QED  BY <1>2, <2>1, KeepsMoves DEF RowWriters
<1>. QED  BY <1>1, <1>2 DEF Armed

(* Who is shut stays so.                                                   *)
LEMMA StaysShut ==
    ASSUME TypeOK, Earned, Ordered, Armed, NEW r \in Requests, Keeps(r),
           NEW p \in Requests, Shut(p)
    PROVE  Shut(p)'
<1>1. user.locked => user'.locked
    BY KeepsMoves
<1>2. CASE p # r
    <2>1. req'[p] = req[p]
        BY <1>2, KeepsMoves
    <2>. QED  BY <1>1, <2>1 DEF Shut, Attempting
<1>3. CASE p = r
    <2>1. CASE req[r].phase \in {"add", "lock"} /\ req[r].count >= Threshold
        <3>1. req[r].lock
            BY <2>1 DEF Armed
        <3>2. \/ req'[r].phase = "lock" /\ req'[r].count = req[r].count
              \/ req'[r].phase = "idle" /\ user'.locked
            BY <2>1, <3>1, KeepsMoves
        <3>. QED  BY <1>3, <2>1, <3>2 DEF Shut, Attempting, AttemptPhases
    <2>2. CASE ~Attempting(r) /\ user.locked
        <3>1. req'[r].phase \in RowWriters /\ user'.locked
            BY <2>2, KeepsMoves DEF Attempting, AttemptPhases
        <3>. QED  BY <1>3, <3>1 DEF Shut, Attempting, AttemptPhases, RowWriters
    <2>. QED  BY <1>3, <2>1, <2>2 DEF Shut
<1>. QED  BY <1>2, <1>3

(* The table after a failure has been stored.                              *)
LEMMA AddLevels ==
    ASSUME TypeOK, Earned, Ordered, NEW r \in Requests, AddFailedLogin(r)
    PROVE  /\ failed' \in SUBSET Failures
           /\ LastAt(failed) < req[r].at =>
                  /\ LastAt(failed') = req[r].at
                  /\ NextCount(failed') = req[r].count + 1
           /\ ~(LastAt(failed) < req[r].at) =>
                  /\ LastAt(failed') = LastAt(failed)
                  /\ NextCount(failed') = NextCount(failed)
<1>1. PICK row \in Failures :
          /\ row.at = req[r].at /\ row.count = req[r].count
          /\ failed' = failed \cup {row}
          /\ \A f \in failed : f.at # row.at
    BY AddHas
<1>2. failed \in SUBSET Failures /\ Dated(failed)
    BY DEF TypeOK, Ordered
<1>. QED  BY <1>1, <1>2, LastGrows

LEMMA Notices ==
    ASSUME TypeOK, Earned, Ordered, Armed, Noticed, NEW r \in Requests, Keeps(r)
    PROVE  Noticed'
<1>1. (\E p \in Requests : Shut(p)) => Noticed'
    BY StaysShut DEF Noticed
<1>2. SUFFICES ASSUME \A p \in Requests : ~Shut(p)
               PROVE  Noticed'
    BY <1>1
<1>3. /\ Level(failed) # Threshold
      /\ \A p \in Requests : req[p].phase = "judge" => Level(req[p].list) # Threshold
    BY <1>2 DEF Noticed
<1>4. Level(failed') # Threshold
    <2>1. CASE AddFailedLogin(r)
        <3>1. req[r].count < Threshold /\ req[r].count \in Nat
            BY <1>2, <2>1, AddsHave, ConstantsOk DEF Shut, AddFailedLogin, ConstantsOk
        <3>2. Threshold \in Nat
            BY ConstantsOk DEF ConstantsOk
        <3>. QED  BY <1>3, <2>1, <3>1, <3>2, AddLevels DEF Level
    <2>2. CASE UNCHANGED failed
        BY <1>3, <2>2
    <2>. QED  BY <2>1, <2>2, KeepsMoves
<1>5. ASSUME NEW p \in Requests, req'[p].phase = "judge"
      PROVE  Level(req'[p].list) # Threshold
    <2>1. CASE p = r
        BY <1>3, <1>5, <2>1, KeepsMoves DEF RowWriters
    <2>2. CASE p # r
        BY <1>3, <1>5, <2>2, KeepsMoves
    <2>. QED  BY <2>1, <2>2
<1>. QED  BY <1>4, <1>5 DEF Noticed

-----------------------------------------------------------------------------
(* Each step keeps the bound.                                              *)

(* A step that leaves the latest failure as it is and judges nothing.      *)
LEMMA WithinRests ==
    ASSUME TypeOK, Earned, Ordered, Armed, NEW r \in Requests, NEW q \in Requests, r # q,
           Within(r, q), Keeps(r), UNCHANGED wrong, ~Pending(r), req'[r].phase # "add",
           LastAt(failed') = LastAt(failed), NextCount(failed') = NextCount(failed),
           req'[r].phase = "judge" => req'[r].list = failed
    PROVE  Within(r, q)'
<1>1. req'[q] = req[q] /\ Level(failed') = Level(failed)
    BY KeepsMoves DEF Level
<1>2. Pending(q)' <=> Pending(q)
    BY <1>1 DEF Pending
<1>3. ~Pending(r)'
    BY DEF Pending
<1>4. (Shut(r) => Shut(r)') /\ (Shut(q) => Shut(q)')
    BY StaysShut
<1>5. ASSUME NEW x \in 0 .. Threshold, StandsAt(r, q, x)'
      PROVE  \E y \in 0 .. x : StandsAt(r, q, y)
    <2>1. CASE Shut(r)'
        BY <1>3, <1>5, <2>1, Stands DEF StandsAt
    <2>2. CASE ~Shut(r)'
        <3>1. StandsAt(r, q, x)
            BY <1>1, <1>2, <1>3, <1>4, <1>5, <2>2 DEF StandsAt
        <3>. QED  BY <3>1
    <2>. QED  BY <2>1, <2>2
<1>6. ASSUME NEW x \in 0 .. Threshold, StandsAt(q, r, x)'
      PROVE  \E y \in 0 .. x : StandsAt(q, r, y)
    <2>1. CASE Shut(q)'
        <3>1. x = Threshold
            <4>1. ~Pending(q)'
                <5>1. req[q].count \in Nat /\ Threshold \in Nat
                    BY AddsHave, ConstantsOk DEF ConstantsOk
                <5>. QED  BY <1>1, <2>1, <5>1 DEF Shut, Pending, Attempting, AttemptPhases
            <4>. QED  BY <1>6, <2>1, <4>1 DEF StandsAt
        <3>. QED  BY <3>1, Stands
    <2>2. CASE ~Shut(q)'
        <3>1. StandsAt(q, r, x)
            BY <1>1, <1>2, <1>3, <1>4, <1>6, <2>2 DEF StandsAt
        <3>. QED  BY <3>1
    <2>. QED  BY <2>1, <2>2
<1>. QED  BY <1>4, <1>5, <1>6, WithinStays

(* The failure becomes the latest; the others count on from it.            *)
LEMMA WithinAdds ==
    ASSUME TypeOK, Earned, Ordered, Armed, NEW r \in Requests, NEW q \in Requests, r # q,
           Within(r, q), Keeps(r), AddFailedLogin(r), LastAt(failed) < req[r].at,
           req'[r].phase \in {"idle", "lock"}, UNCHANGED <<user, wrong>>
    PROVE  Within(r, q)'
<1>1. /\ req'[q] = req[q] /\ req[r].phase = "add"
      /\ LastAt(failed') = req[r].at /\ NextCount(failed') = req[r].count + 1
    BY AddLevels, KeepsMoves DEF AddFailedLogin
<1>2. /\ req[r].at \in Nat /\ req[q].at \in Nat /\ LastAt(failed) \in Nat
      /\ req[r].count \in Nat /\ req[q].count \in Nat /\ Threshold \in Nat
    BY AddsHave, LastHas, ConstantsOk DEF TypeOK, ConstantsOk
<1>3. Level(failed') = IF req[r].count < Threshold THEN req[r].count ELSE Threshold
    BY <1>1, <1>2 DEF Level
<1>4. ~Pending(r)' /\ (Pending(q)' <=> Pending(q) /\ req[r].at < req[q].at)
    BY <1>1, <1>2 DEF Pending
<1>5. (Shut(r) => Shut(r)') /\ (Shut(q) => Shut(q)')
    BY StaysShut
<1>6. Shut(q)' <=> Shut(q)
    BY <1>1 DEF Shut, Attempting
<1>7. Pending(r) <=> ~Shut(r)
    BY <1>1, <1>2 DEF Pending, Shut, Attempting, AttemptPhases
<1>8. Shut(q) => ~Pending(q)
    BY <1>2 DEF Pending, Shut, Attempting, AttemptPhases
<1>9. ASSUME NEW x \in 0 .. Threshold, StandsAt(r, q, x)'
      PROVE  \E y \in 0 .. x : StandsAt(r, q, y)
    <2>1. CASE Shut(r)'
        BY <1>4, <1>9, <2>1, Stands DEF StandsAt
    <2>2. CASE ~Shut(r)'
        <3>1. Pending(r) /\ req[r].count < Threshold
            BY <1>5, <1>7, <2>2 DEF Pending
        <3>2. x = req[r].count \/ (Pending(q) /\ req[r].at < req[q].at /\ x = req[q].count)
            <4>1. x = Level(failed') \/ (Pending(q)' /\ x = req[q].count)
                BY <1>1, <1>4, <1>9, <2>2 DEF StandsAt
            <4>2. Level(failed') = req[r].count
                BY <1>3, <3>1
            <4>. QED  BY <1>4, <4>1, <4>2
        <3>3. StandsAt(r, q, x)
            BY <3>1, <3>2 DEF StandsAt
        <3>. QED  BY <3>3
    <2>. QED  BY <2>1, <2>2
<1>10. ASSUME NEW x \in 0 .. Threshold, StandsAt(q, r, x)'
       PROVE  \E y \in 0 .. x : StandsAt(q, r, y)
    <2>1. CASE Shut(q) \/ x = Threshold
        <3>1. x = Threshold
            BY <1>4, <1>6, <1>8, <1>10, <2>1 DEF StandsAt
        <3>. QED  BY <3>1, Stands
    <2>2. CASE ~Shut(q) /\ x # Threshold
        <3>1. CASE Pending(q)'
            <4>1. x = req[q].count /\ Pending(q)
                BY <1>1, <1>4, <1>6, <1>10, <2>2, <3>1 DEF StandsAt
            <4>. QED  BY <4>1 DEF StandsAt
        <3>2. CASE ~Pending(q)'
            <4>1. \/ x = req[r].count /\ Pending(r)
                  \/ req[q].phase = "judge" /\ x = Level(req[q].list)
                <5>1. \/ x = Level(failed')
                      \/ req[q].phase = "judge" /\ x = Level(req[q].list)
                    BY <1>1, <1>4, <1>6, <1>10, <2>2, <3>2 DEF StandsAt
                <5>2. req[r].count < Threshold => Pending(r)
                    BY <1>1 DEF Pending
                <5>. QED  BY <1>3, <2>2, <5>1, <5>2
            <4>2. Pending(q) => req[q].phase # "judge" /\ req[q].at < req[r].at
                <5>1. req[q].phase = "add" => req[q].at # req[r].at
                    BY <1>1 DEF Ordered
                <5>. QED  BY <1>2, <1>4, <3>2, <5>1 DEF Pending
            <4>3. StandsAt(q, r, x)
                BY <2>2, <4>1, <4>2 DEF StandsAt
            <4>. QED  BY <4>3
        <3>. QED  BY <3>1, <3>2
    <2>. QED  BY <2>1, <2>2
<1>. QED  BY <1>5, <1>9, <1>10, WithinStays

(* A wrong secret is judged: one less may follow.                          *)
LEMMA WithinJudges ==
    ASSUME TypeOK, Earned, Ordered, Counting, Armed, Noticed, NEW r \in Requests,
           NEW q \in Requests, r # q, Requests = {r, q}, Within(r, q), Keeps(r),
           JudgeWrong(r), req[r].phase = "judge", req'[r].phase = "add",
           req'[r].at = wrong + 1, req'[r].count = NextCount(req[r].list),
           wrong' = wrong + 1, UNCHANGED <<user, failed>>
    PROVE  Within(r, q)'
<1>. DEFINE l == Level(req[r].list)
<1>1. /\ Threshold \in Nat \ {0} /\ wrong \in Nat /\ wrong' = wrong + 1 /\ Bound \in Nat
      /\ req[q].at \in Nat /\ req[q].count \in Nat /\ LastAt(failed) \in Nat
      /\ l \in 0 .. Threshold /\ Level(failed) \in 0 .. Threshold
      /\ Level(req[q].list) \in 0 .. Threshold
    BY AddsHave, LevelFits, LastHas, Numbers, SlackStarts DEF TypeOK
<1>2. req'[q] = req[q]
    BY KeepsMoves
<1>3. /\ NextCount(req[r].list) \in Nat /\ NextCount(req[r].list) >= 1
      /\ NextCount(req[r].list) < Threshold => l + 1 = NextCount(req[r].list)
      /\ ~(NextCount(req[r].list) < Threshold) => l >= Threshold - 1
      /\ NextCount(req[r].list) < Threshold => l + 1 < Threshold
    BY <1>1, AddsHave, LevelFits DEF Level
<1>4. LastAt(failed) <= wrong
    <2>1. CASE failed = {}
        BY <1>1, <2>1, LastHas DEF TypeOK
    <2>2. CASE failed # {}
        BY <2>2, LastHas, JudgedFits DEF TypeOK
    <2>. QED  BY <2>1, <2>2
<1>5. /\ ~Shut(r) /\ ~Pending(r)
      /\ Pending(r)' <=> NextCount(req[r].list) < Threshold
      /\ Shut(r)' <=> ~(NextCount(req[r].list) < Threshold)
    BY <1>1, <1>3, <1>4 DEF Shut, Pending, Attempting, AttemptPhases
<1>6. (Shut(q)' <=> Shut(q)) /\ (Pending(q)' <=> Pending(q)) /\ (Shut(q) => ~Pending(q))
    BY <1>1, <1>2 DEF Shut, Pending, Attempting, AttemptPhases
<1>7. Pending(q) => /\ req[q].at < wrong + 1 /\ req[q].phase = "add"
                    /\ req[q].count \in 0 .. Threshold - 1
    BY <1>1, AddsHave DEF Pending
<1>8. /\ StandsAt(r, q, l) /\ StandsAt(r, q, Level(failed))
      /\ Pending(q) => StandsAt(r, q, req[q].count)
    BY <1>5 DEF StandsAt
<1>9. ~Shut(q) =>
          /\ l < Threshold /\ Level(failed) < Threshold
          /\ req[q].phase = "judge" => Level(req[q].list) < Threshold
    BY <1>1, <1>5 DEF Noticed
<1>10. \A a, b \in 0 .. Threshold :
           StandsAt(r, q, a) /\ StandsAt(q, r, b) => 2 * wrong + Slack(a, b) <= Bound
    BY <1>5 DEF Within
<1>11. \A x : StandsAt(q, r, x) => x \in 0 .. Threshold
    BY Stands
<1>. HIDE DEF l
(* The request that judged stands a level further.                         *)
<1>12. CASE NextCount(req[r].list) < Threshold
    <2>1. l + 1 < Threshold /\ req'[r].count = l + 1
        BY <1>3, <1>12
    <2>2. ASSUME NEW a \in 0 .. Threshold, StandsAt(r, q, a)'
          PROVE  a = l + 1
        <3>1. Pending(r)' /\ ~Shut(r)'
            BY <1>5, <1>12
        <3>2. ~(Pending(q) /\ wrong + 1 < req[q].at)
            BY <1>1, <1>7
        <3>. QED  BY <1>2, <1>6, <2>1, <2>2, <3>1, <3>2 DEF StandsAt
    <2>3. ASSUME NEW b \in 0 .. Threshold, StandsAt(q, r, b)'
          PROVE  StandsAt(q, r, b) \/ (b = l + 1 /\ ~Shut(q))
        <3>1. CASE Shut(q)
            BY <1>6, <2>3, <3>1 DEF StandsAt
        <3>2. CASE Pending(q)
            BY <1>2, <1>6, <2>1, <2>3, <3>2 DEF StandsAt
        <3>3. CASE ~Shut(q) /\ ~Pending(q)
            BY <1>2, <1>6, <2>1, <2>3, <3>3 DEF StandsAt
        <3>. QED  BY <3>1, <3>2, <3>3
    <2>4. ASSUME NEW b \in 0 .. Threshold, StandsAt(q, r, b)
          PROVE  2 * wrong' + Slack(l + 1, b) <= Bound
        <3>1. 2 * wrong + Slack(l, b) <= Bound
            BY <1>1, <1>8, <1>10, <2>4
        <3>2. Slack(l + 1, b) + 2 <= Slack(l, b)
            <4>1. l \in 0 .. Threshold - 1 /\ l < Threshold - 1
                BY <1>1, <2>1
            <4>. QED  BY <4>1, SlackCosts
        <3>3. Slack(l + 1, b) \in Nat /\ Slack(l, b) \in Nat
            BY <1>1, <2>1, SlackFalls
        <3>. QED  BY <1>1, <3>1, <3>2, <3>3
    <2>5. ASSUME ~Shut(q)
          PROVE  2 * wrong' + Slack(l + 1, l + 1) <= Bound
        <3>1. \E b \in 0 .. Threshold - 1 : StandsAt(q, r, b)
            <4>1. CASE Pending(q)
                BY <1>7, <4>1 DEF StandsAt
            <4>2. CASE ~Pending(q)
                <5>1. StandsAt(q, r, Level(failed)) /\ Level(failed) \in 0 .. Threshold - 1
                    BY <1>1, <1>9, <2>5, <4>2 DEF StandsAt
                <5>. QED  BY <5>1
            <4>. QED  BY <4>1, <4>2
        <3>2. PICK b \in 0 .. Threshold - 1 : StandsAt(q, r, b)
            BY <3>1
        <3>3. b \in 0 .. Threshold
            BY <1>1
        <3>4. 2 * wrong + Slack(l, b) <= Bound
            BY <1>1, <1>8, <1>10, <3>2, <3>3
        <3>5. Slack(l + 1, l + 1) + 2 <= Slack(l, b)
            <4>1. l \in 0 .. Threshold - 1
                BY <1>1, <2>1
            <4>. QED  BY <4>1, SlackCostsBoth
        <3>6. Slack(l + 1, l + 1) \in Nat /\ Slack(l, b) \in Nat
            BY <1>1, <2>1, <3>3, SlackFalls
        <3>. QED  BY <1>1, <3>4, <3>5, <3>6
    <2>6. ASSUME NEW a \in 0 .. Threshold, NEW b \in 0 .. Threshold,
                 StandsAt(r, q, a)', StandsAt(q, r, b)'
          PROVE  2 * wrong' + Slack(a, b) <= Bound
        BY <2>2, <2>3, <2>4, <2>5, <2>6
    <2>. QED  BY <2>6 DEF Within, Bound, Slack, Down
(* It locks the user, and guesses no more.                                 *)
<1>13. CASE ~(NextCount(req[r].list) < Threshold)
    <2>1. Shut(r)' /\ ~Pending(r)' /\ l >= Threshold - 1
        BY <1>3, <1>5, <1>13
    <2>2. CASE Shut(q)
        <3>1. StandsAt(q, r, Threshold)
            BY <2>2 DEF StandsAt
        <3>2. 2 * wrong + Slack(l, Threshold) <= Bound
            BY <1>1, <1>8, <1>10, <3>1
        <3>3. Slack(l, Threshold) = 2
            BY <1>1, <2>1, SlackStarts
        <3>4. 2 * wrong' <= Bound
            BY <1>1, <3>2, <3>3
        <3>. QED  BY <1>6, <2>1, <2>2, <3>4 DEF Within, Bound
    <2>3. CASE ~Shut(q)
        <3>1. l = Threshold - 1
            BY <1>1, <1>9, <2>1, <2>3
        <3>2. ASSUME NEW a \in 0 .. Threshold, StandsAt(r, q, a)'
              PROVE  a = Threshold
            BY <2>1, <3>2 DEF StandsAt
        <3>3. ASSUME NEW b \in 0 .. Threshold, StandsAt(q, r, b)'
              PROVE  StandsAt(q, r, b) /\ b < Threshold
            <4>1. CASE Pending(q)
                <5>1. b = req[q].count /\ StandsAt(q, r, b)
                    BY <1>2, <1>6, <2>1, <3>3, <4>1 DEF StandsAt
                <5>. QED  BY <1>1, <1>7, <4>1, <5>1
            <4>2. CASE ~Pending(q)
                BY <1>2, <1>6, <1>9, <2>1, <2>3, <3>3, <4>2 DEF StandsAt
            <4>. QED  BY <4>1, <4>2
        <3>4. ASSUME NEW b \in 0 .. Threshold, StandsAt(q, r, b)'
              PROVE  2 * wrong' + Slack(Threshold, b) <= Bound
            <4>1. StandsAt(q, r, b) /\ b < Threshold
                BY <3>3, <3>4
            <4>2. 2 * wrong + Slack(l, b) <= Bound
                BY <1>1, <1>8, <1>10, <4>1
            <4>3. Slack(l + 1, b) + 2 <= Slack(l, b)
                <5>1. l \in 0 .. Threshold - 1
                    BY <1>1, <3>1
                <5>. QED  BY <4>1, <5>1, SlackCosts
            <4>4. l + 1 = Threshold /\ Threshold \in 0 .. Threshold
                BY <1>1, <3>1
            <4>5. Slack(Threshold, b) \in Nat /\ Slack(l, b) \in Nat
                BY <1>1, <4>4, SlackFalls
            <4>. QED  BY <1>1, <4>2, <4>3, <4>4, <4>5
        <3>5. ASSUME NEW a \in 0 .. Threshold, NEW b \in 0 .. Threshold,
                     StandsAt(r, q, a)', StandsAt(q, r, b)'
              PROVE  2 * wrong' + Slack(a, b) <= Bound
            BY <3>2, <3>4, <3>5
        <3>. QED  BY <3>5 DEF Within, Bound, Slack, Down
    <2>. QED  BY <2>2, <2>3
<1>. QED  BY <1>12, <1>13

(* A step of one of the two clients.                                       *)
LEMMA WithinMoves ==
    ASSUME TypeOK, Earned, Ordered, Counting, Armed, Noticed, NEW r \in Requests,
           NEW q \in Requests, r # q, Requests = {r, q}, Within(r, q), Keeps(r)
    PROVE  Within(r, q)'
<1>1. CASE JudgeWrong(r)
    <2>1. wrong' = wrong + 1 /\ wrong' # wrong /\ req[r].phase = "judge"
        BY <1>1, Numbers DEF JudgeWrong
    <2>2. /\ req'[r].phase = "add" /\ req'[r].at = wrong + 1
          /\ req'[r].count = NextCount(req[r].list) /\ UNCHANGED <<user, failed>>
        BY <2>1, KeepsMoves
    <2>. QED  BY <1>1, <2>1, <2>2, WithinJudges
<1>2. CASE AddFailedLogin(r)
    <2>1. /\ req'[r].phase \in {"idle", "lock"} /\ UNCHANGED <<user, wrong>>
          /\ req[r].phase = "add"
        BY <1>2, KeepsMoves DEF AddFailedLogin
    <2>2. CASE LastAt(failed) < req[r].at
        BY <1>2, <2>1, <2>2, WithinAdds
    <2>3. CASE ~(LastAt(failed) < req[r].at)
        <3>1. LastAt(failed') = LastAt(failed) /\ NextCount(failed') = NextCount(failed)
            BY <1>2, <2>3, AddLevels
        <3>2. ~Pending(r)
            BY <2>3 DEF Pending
        <3>. QED  BY <2>1, <3>1, <3>2, WithinRests
    <2>. QED  BY <2>2, <2>3
<1>3. CASE ~JudgeWrong(r) /\ ~AddFailedLogin(r)
    <2>1. /\ req[r].phase # "add" /\ req'[r].phase # "add" /\ UNCHANGED <<failed, wrong>>
          /\ req'[r].phase = "judge" => req'[r].list = failed
        BY <1>3, KeepsMoves DEF RowWriters
    <2>. QED  BY <2>1, WithinRests DEF Pending
<1>. QED  BY <1>1, <1>2, <1>3

(* A step of no client.                                                    *)
LEMMA BoundRests ==
    ASSUME TypeOK, Earned, UNCHANGED <<user, req, wrong>>, Armed, Noticed,
           LastAt(failed') = LastAt(failed), NextCount(failed') = NextCount(failed)
    PROVE  /\ Armed' /\ Noticed'
           /\ \A r, q \in Requests : Within(r, q) => Within(r, q)'
<1>1. Level(failed') = Level(failed)
    BY DEF Level
<1>2. /\ \A r \in Requests : (Pending(r)' <=> Pending(r)) /\ (Shut(r)' <=> Shut(r))
      /\ Armed'
    BY DEF Pending, Shut, Attempting, Armed
<1>3. \A r, q \in Requests : \A x : StandsAt(r, q, x)' <=> StandsAt(r, q, x)
    BY <1>1, <1>2 DEF StandsAt
<1>4. Noticed'
    BY <1>1, <1>2 DEF Noticed
<1>. QED  BY <1>2, <1>3, <1>4 DEF Within, Bound, Slack, Down

-----------------------------------------------------------------------------
Bounded ==
    /\ Armed /\ Noticed
    /\ \A r, q \in Requests : r # q /\ Requests = {r, q} => Within(r, q)

BInv ==
    /\ TypeOK /\ Earned
    /\ ~disturbed => Ordered
    /\ Counting => Bounded

LEMMA Bounds ==
    ASSUME BInv, [Next]_vars, Counting'
    PROVE  Bounded'
<1>1. TypeOK /\ Earned /\ Counting /\ Ordered /\ Armed /\ Noticed /\ ~disturbed'
    BY WasCounting DEF BInv, Bounded, Counting
<1>2. ASSUME NEW p \in Requests, Keeps(p)
      PROVE  Bounded'
    <2>1. Armed' /\ Noticed'
        BY <1>1, <1>2, Arms, Notices
    <2>2. ASSUME NEW r \in Requests, NEW q \in Requests, r # q, Requests = {r, q}
          PROVE  Within(r, q)'
        <3>1. Within(r, q) /\ Within(q, r) /\ q # r /\ Requests = {q, r}
            BY <1>1, <2>2 DEF BInv, Bounded
        <3>2. CASE p = r
            BY <1>1, <1>2, <2>2, <3>1, <3>2, WithinMoves
        <3>3. CASE p = q
            <4>1. Within(q, r)'
                BY <1>1, <1>2, <3>1, <3>3, WithinMoves
            <4>. QED  BY <4>1, WithinTurns
        <3>. QED  BY <2>2, <3>2, <3>3
    <2>. QED  BY <2>1, <2>2 DEF Bounded
<1>3. ASSUME RemoveFailedLogin \/ PassPause
      PROVE  Bounded'
    BY <1>1, <1>3, LatestRests, BoundRests DEF BInv, Bounded
<1>4. ASSUME UNCHANGED vars \/ \E p \in Policies : SetTenantLoginFailurePolicy(p)
      PROVE  Bounded'
    <2>1. UNCHANGED <<user, req, wrong, failed>>
        BY <1>4 DEF vars, SetTenantLoginFailurePolicy, history
    <2>. QED  BY <1>1, <2>1, BoundRests DEF BInv, Bounded
<1>. QED  BY <1>1, <1>2, <1>3, <1>4, UndisturbedSteps

LEMMA InitBounds == Init => BInv
<1>. SUFFICES ASSUME Init
              PROVE  BInv
    OBVIOUS
<1>1. TypeOK /\ Earned
    BY InitFits
<1>2. \A r \in Requests : req[r].phase = "idle"
    BY IdleHas DEF Init
<1>3. /\ failed = {} /\ removals = {} /\ resets = 0 /\ wrong = 0 /\ ~user.locked
    BY DEF Init, NewUser
<1>4. LastAt({}) = 0 /\ Level({}) = 0 /\ Threshold \in Nat \ {0}
    BY ConstantsOk DEF LastAt, Level, NextCount, ConstantsOk
<1>5. Ordered
    BY <1>2, <1>3 DEF Ordered, Dated
<1>6. Armed
    BY <1>2 DEF Armed
<1>7. \A r \in Requests : ~Shut(r) /\ ~Pending(r)
    BY <1>2, <1>3 DEF Shut, Pending
<1>8. Noticed
    BY <1>2, <1>3, <1>4 DEF Noticed
<1>9. ASSUME NEW r \in Requests, NEW q \in Requests
      PROVE  Within(r, q)
    <2>1. \A x : (StandsAt(r, q, x) => x = 0) /\ (StandsAt(q, r, x) => x = 0)
        BY <1>2, <1>3, <1>4, <1>7 DEF StandsAt
    <2>2. 2 * wrong + Slack(0, 0) <= Bound
        BY <1>3, SlackStarts
    <2>. QED  BY <2>1, <2>2 DEF Within
<1>. QED  BY <1>1, <1>5, <1>6, <1>8, <1>9 DEF BInv, Bounded

(* Two clients that overlap as they please are locked out after
   T(T+1)/2 + 1 wrong secrets at the latest, for every threshold T.        *)
THEOREM OverlapIsBounded == Spec => []GuessesAreBounded
<1>1. BInv /\ [Next]_vars => BInv'
    <2>. SUFFICES ASSUME BInv, [Next]_vars
                  PROVE  BInv'
        OBVIOUS
    <2>1. TypeOK' /\ Earned'
        BY Fits DEF BInv
    <2>2. ~disturbed' => Ordered'
        BY WasUndisturbed, Orders DEF BInv
    <2>3. Counting' => Bounded'
        BY Bounds
    <2>. QED  BY <2>1, <2>2, <2>3 DEF BInv
<1>2. BInv => GuessesAreBounded
    <2>. SUFFICES ASSUME BInv, TwoClients, Counting
                  PROVE  2 * wrong <= Threshold * (Threshold + 1) + 2
        BY DEF GuessesAreBounded
    <2>1. PICK r \in Requests, q \in Requests : r # q /\ Requests = {r, q}
        BY DEF TwoClients
    <2>2. Within(r, q) /\ TypeOK /\ Earned
        BY <2>1 DEF BInv, Bounded
    <2>3. \E a \in 0 .. Threshold : StandsAt(r, q, a)
        BY <2>2, Stands
    <2>4. \E b \in 0 .. Threshold : StandsAt(q, r, b)
        BY <2>2, Stands
    <2>5. \A a, b \in 0 .. Threshold : Slack(a, b) \in Nat
        BY SlackFalls
    <2>6. wrong \in Nat /\ Bound \in Nat
        BY <2>2, Numbers, SlackStarts
    <2>7. 2 * wrong <= Bound
        BY <2>2, <2>3, <2>4, <2>5, <2>6 DEF Within
    <2>. QED  BY <2>7 DEF Bound
<1>. QED  BY <1>1, <1>2, InitBounds, PTL DEF Spec

=============================================================================
