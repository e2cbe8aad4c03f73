-------------------------- MODULE DeletionJobsProofs --------------------------
(* Proofs about DeletionJobs for every number of jobs, runs and mishaps.    *)
EXTENDS DeletionJobs, TLAPS

-----------------------------------------------------------------------------
(* Type correctness.                                                       *)

(* What TypeOK says of the state of one run.                               *)
Fits(r, state) ==
    /\ state \in RunStates
    /\ state # Idle =>
           IF r \in Workers THEN state.phase \in WorkerPhases /\ state.name \in Jobs
                            ELSE state.phase \in ReaperPhases /\ state.name = DeleteExpiredData

LEMMA IdleType == Idle \in RunStates
  BY DEF Idle, RunStates, Phases, Names

LEMMA PhaseTypes ==
    /\ WorkerPhases \subseteq Phases
    /\ ReaperPhases \subseteq Phases
    /\ "idle" \notin WorkerPhases \cup ReaperPhases
    /\ {"lock", "elect", "release", "start", "delete", "finish"} \subseteq WorkerPhases
    /\ {"lock", "elect", "release", "purge", "sweep", "scan", "reset"} \subseteq ReaperPhases
    /\ WorkerPhases \cap {"purge", "sweep", "scan", "reset"} = {}
    /\ ReaperPhases \cap {"start", "delete", "finish"} = {}
  BY DEF Phases, WorkerPhases, ReaperPhases, LockPhases

LEMMA RunFits ==
    ASSUME TypeOK, NEW r \in Runs
    PROVE  Fits(r, run[r])
  BY ConstantsOk DEF TypeOK, Fits, Runs, ConstantsOk

(* What a run that is not idle is, by its phase.                           *)
LEMMA RunKind ==
    ASSUME TypeOK, NEW r \in Runs, run[r].phase # "idle"
    PROVE  /\ run[r].name \in Names
           /\ run[r].phase \in {"start", "delete", "finish"} =>
                  r \in Workers /\ run[r].name \in Jobs
           /\ run[r].phase \in {"purge", "sweep", "scan", "reset"} =>
                  r \in Reapers /\ r \notin Workers /\ run[r].name = DeleteExpiredData
<1>1. run[r] # Idle
  BY DEF Idle
<1>2. Fits(r, run[r])
  BY RunFits
<1>3. QED
  BY <1>1, <1>2, PhaseTypes, ConstantsOk DEF Fits, Runs, Names, ConstantsOk, RunStates

LEMMA BecomeType ==
    ASSUME TypeOK, NEW r \in Runs, NEW state, Fits(r, state), Become(r, state)
    PROVE  /\ run' \in [Runs -> RunStates]
           /\ \A s \in Runs : Fits(s, run'[s])
<1>1. run' = [run EXCEPT ![r] = state]
  BY DEF Become
<1>2. \A s \in Runs : Fits(s, run[s])
  BY RunFits
<1>3. QED
  BY <1>1, <1>2 DEF TypeOK, Fits

(* A run that goes on in a phase of its kind.                              *)
LEMMA StateType ==
    ASSUME TypeOK, NEW r \in Runs, run[r].phase # "idle",
           NEW phase, r \in Workers => phase \in WorkerPhases,
           r \notin Workers => phase \in ReaperPhases,
           NEW stalled \in SUBSET Jobs, NEW todo \in SUBSET {"complete", "unlock"}
    PROVE  Fits(r, [run[r] EXCEPT !.phase = phase, !.stalled = stalled, !.todo = todo])
<1>1. run[r] # Idle /\ Fits(r, run[r])
  BY RunFits DEF Idle
<1>2. phase \in Phases
  BY PhaseTypes
<1>3. QED
  BY <1>1, <1>2 DEF Fits, RunStates

LEMMA GotoType ==
    ASSUME TypeOK, NEW r \in Runs, run[r].phase # "idle",
           NEW phase, r \in Workers => phase \in WorkerPhases,
           r \notin Workers => phase \in ReaperPhases,
           Goto(r, phase)
    PROVE  /\ run' \in [Runs -> RunStates]
           /\ \A s \in Runs : Fits(s, run'[s])
<1>1. run[r] # Idle /\ Fits(r, run[r])
  BY RunFits DEF Idle
<1>2. phase \in Phases
  BY PhaseTypes
<1>3. Fits(r, [run[r] EXCEPT !.phase = phase])
  BY <1>1, <1>2 DEF Fits, RunStates
<1>4. QED
  BY <1>3, BecomeType DEF Goto

LEMMA BecomeIdleType ==
    ASSUME TypeOK, NEW r \in Runs, Become(r, Idle)
    PROVE  /\ run' \in [Runs -> RunStates]
           /\ \A s \in Runs : Fits(s, run'[s])
<1>1. Fits(r, Idle)
  BY IdleType DEF Fits
<1>2. QED
  BY <1>1, BecomeType

LEMMA TypeFromParts ==
    ASSUME jobs' \in [Jobs -> JobRows],
           objects' \in [Jobs -> {"live", "flagged", "deleted"}],
           locks' \in [Names -> [Rows -> StartTimes \cup {0}]],
           expired' \subseteq Names \X Rows,
           run' \in [Runs -> RunStates],
           \A s \in Runs : Fits(s, run'[s]),
           submitted' \subseteq Jobs,
           mishaps' \in 0 .. MaxMishaps
    PROVE  TypeOK'
<1>1. \A r \in Reapers : r \in Runs /\ r \notin Workers
  BY ConstantsOk DEF Runs, ConstantsOk
<1>2. \A r \in Workers : r \in Runs
  BY DEF Runs
<1>3. QED
  BY <1>1, <1>2 DEF TypeOK, Fits

LEMMA RowTypes ==
    \A r \in Runs : Held(r) \in Rows /\ Left(r) \in Rows
  BY DEF Held, Left, Rows

LEMMA UnlockedType ==
    ASSUME TypeOK, NEW r \in Runs
    PROVE  Unlocked(r) \in [Names -> [Rows -> StartTimes \cup {0}]]
  BY RowTypes DEF TypeOK, Unlocked

LEMMA AbandonedType ==
    ASSUME TypeOK, NEW r \in Runs, Abandoned(r)
    PROVE  /\ locks' \in [Names -> [Rows -> StartTimes \cup {0}]]
           /\ expired' \subseteq Names \X Rows
           /\ run' \in [Runs -> RunStates]
           /\ \A s \in Runs : Fits(s, run'[s])
<1>1. Become(r, Idle)
  BY DEF Abandoned
<1>2. locks' \in [Names -> [Rows -> StartTimes \cup {0}]]
  BY RowTypes DEF TypeOK, Abandoned
<1>3. expired' \subseteq Names \X Rows
  BY DEF TypeOK, Abandoned
<1>4. QED
  BY <1>1, <1>2, <1>3, BecomeIdleType

LEMMA MishapType ==
    ASSUME TypeOK, Mishap
    PROVE  mishaps' \in 0 .. MaxMishaps /\ mishaps' # 0
  BY ConstantsOk DEF TypeOK, Mishap, ConstantsOk

LEMMA InitType == Init => TypeOK
<1> SUFFICES ASSUME Init PROVE TypeOK
  OBVIOUS
<1>1. run \in [Runs -> RunStates]
  BY IdleType DEF Init
<1>2. \A r \in Runs : run[r] = Idle
  BY DEF Init
<1>3. mishaps \in 0 .. MaxMishaps
  BY ConstantsOk DEF Init, ConstantsOk
<1>4. NoJob \in JobRows
  BY DEF NoJob, JobRows
<1>5. QED
  BY <1>1, <1>2, <1>3, <1>4 DEF Init, TypeOK, Runs

LEMMA JobRowTypes ==
    /\ NoJob \in JobRows
    /\ [NoJob EXCEPT !.stored = TRUE] \in JobRows
    /\ \A j \in Jobs, started \in {"no", "recent", "stalled"} :
           TypeOK => [jobs[j] EXCEPT !.started = started] \in JobRows
<1>1. NoJob \in JobRows /\ [NoJob EXCEPT !.stored = TRUE] \in JobRows
  BY DEF NoJob, JobRows
<1>2. ASSUME TypeOK, NEW j \in Jobs, NEW started \in {"no", "recent", "stalled"}
      PROVE  [jobs[j] EXCEPT !.started = started] \in JobRows
  <2>1. jobs[j] \in JobRows
    BY <1>2 DEF TypeOK
  <2>2. QED
    BY <2>1 DEF JobRows
<1>3. QED
  BY <1>1, <1>2

LEMMA UpdateType ==
    ASSUME TypeOK, NEW j \in Jobs, NEW started \in {"no", "recent", "stalled"},
           NEW completed \in BOOLEAN, UpdateMarkForDelete(j, started, completed)
    PROVE  jobs' \in [Jobs -> JobRows]
<1>1. [stored |-> TRUE, started |-> started, completed |-> completed] \in JobRows
  BY DEF JobRows
<1>2. QED
  BY <1>1 DEF TypeOK, UpdateMarkForDelete

LEMMA ContinueType ==
    ASSUME TypeOK, NEW r \in Runs, Continue(r)
    PROVE  TypeOK'
<1>1. CASE CreateSchedulerLock(r)
  <2>1. run[r].phase = "lock" /\ Goto(r, "elect")
    BY <1>1 DEF CreateSchedulerLock
  <2>2. run' \in [Runs -> RunStates] /\ \A s \in Runs : Fits(s, run'[s])
    BY <2>1, GotoType, PhaseTypes
  <2>3. locks' \in [Names -> [Rows -> StartTimes \cup {0}]]
    <3>1. PICK time \in StartTimes :
              locks' = [locks EXCEPT ![run[r].name][Held(r)] = time]
      BY <1>1 DEF CreateSchedulerLock
    <3>2. QED
      BY <3>1, RowTypes DEF TypeOK
  <2>4. QED
    BY <1>1, <2>2, <2>3, TypeFromParts DEF CreateSchedulerLock, TypeOK
<1>2. CASE GetSchedulerLocksByName(r)
  <2>1. run[r].phase = "elect"
    BY <1>2 DEF GetSchedulerLocksByName
  <2>2. \E phase \in {"release", IF r \in Workers THEN "start" ELSE "purge"} :
            Goto(r, phase)
    BY <1>2 DEF GetSchedulerLocksByName
  <2>3. run' \in [Runs -> RunStates] /\ \A s \in Runs : Fits(s, run'[s])
    BY <2>1, <2>2, GotoType, PhaseTypes
  <2>4. QED
    BY <1>2, <2>3, TypeFromParts DEF GetSchedulerLocksByName, TypeOK
<1>3. CASE DeleteSchedulerLock(r)
  <2>1. run' \in [Runs -> RunStates] /\ \A s \in Runs : Fits(s, run'[s])
    BY <1>3, BecomeIdleType DEF DeleteSchedulerLock
  <2>2. QED
    BY <1>3, <2>1, UnlockedType, TypeFromParts DEF DeleteSchedulerLock, TypeOK
<1>4. CASE StartJob(r)
  <2>1. r \in Workers /\ run[r].name \in Jobs /\ run[r].phase = "start"
    BY <1>4, RunKind DEF StartJob
  <2>2. run' \in [Runs -> RunStates] /\ \A s \in Runs : Fits(s, run'[s])
    BY <1>4, <2>1, GotoType, PhaseTypes DEF StartJob
  <2>3. jobs' \in [Jobs -> JobRows]
    BY <1>4, <2>1, UpdateType DEF StartJob
  <2>4. QED
    BY <1>4, <2>2, <2>3, TypeFromParts DEF StartJob, TypeOK
<1>5. CASE DeleteObject(r)
  <2>1. r \in Workers /\ run[r].name \in Jobs /\ run[r].phase = "delete"
    BY <1>5, RunKind DEF DeleteObject
  <2>2. run[r] # Idle /\ Fits(r, run[r])
    BY <2>1, RunFits DEF Idle
  <2>3. Fits(r, [run[r] EXCEPT !.phase = "finish", !.todo = {"complete", "unlock"}])
    BY <2>1, <2>2, PhaseTypes DEF Fits, RunStates
  <2>4. run' \in [Runs -> RunStates] /\ \A s \in Runs : Fits(s, run'[s])
    BY <1>5, <2>3, BecomeType DEF DeleteObject
  <2>5. objects' \in [Jobs -> {"live", "flagged", "deleted"}]
    BY <1>5, <2>1 DEF DeleteObject, TypeOK
  <2>6. QED
    BY <1>5, <2>4, <2>5, TypeFromParts DEF DeleteObject, TypeOK
<1>6. CASE DeletionFails(r)
  <2>1. Abandoned(r)
    BY <1>6 DEF DeletionFails
  <2>2. mishaps' \in 0 .. MaxMishaps
    BY <1>6, MishapType DEF DeletionFails, TypeOK
  <2>3. QED
    BY <1>6, <2>1, <2>2, AbandonedType, TypeFromParts DEF DeletionFails, TypeOK
<1>7. CASE CompleteJob(r)
  <2>1. r \in Workers /\ run[r].name \in Jobs /\ run[r].phase = "finish"
    BY <1>7, RunKind DEF CompleteJob
  <2>2. run[r] # Idle /\ Fits(r, run[r])
    BY <2>1, RunFits DEF Idle
  <2>3. Fits(r, [run[r] EXCEPT !.todo = @ \ {"complete"}])
    BY <2>1, <2>2, PhaseTypes DEF Fits, RunStates
  <2>4. run' \in [Runs -> RunStates] /\ \A s \in Runs : Fits(s, run'[s])
    BY <1>7, <2>3, BecomeType DEF CompleteJob
  <2>5. jobs' \in [Jobs -> JobRows]
    BY <1>7, <2>1, UpdateType DEF CompleteJob
  <2>6. QED
    BY <1>7, <2>4, <2>5, TypeFromParts DEF CompleteJob, TypeOK
<1>8. CASE UnlockJob(r)
  <2>1. run[r] # Idle /\ Fits(r, run[r])
    BY <1>8, RunFits DEF UnlockJob, Idle
  <2>2. Fits(r, [run[r] EXCEPT !.todo = @ \ {"unlock"}])
    BY <2>1 DEF Fits, RunStates
  <2>3. run' \in [Runs -> RunStates] /\ \A s \in Runs : Fits(s, run'[s])
    BY <1>8, <2>2, BecomeType DEF UnlockJob
  <2>4. QED
    BY <1>8, <2>3, UnlockedType, TypeFromParts DEF UnlockJob, TypeOK
<1>9. CASE FinishJob(r)
  <2>1. run' \in [Runs -> RunStates] /\ \A s \in Runs : Fits(s, run'[s])
    BY <1>9, BecomeIdleType DEF FinishJob
  <2>2. QED
    BY <1>9, <2>1, TypeFromParts DEF FinishJob, TypeOK
<1>10. CASE DeleteExpiredLocks(r)
  <2>1. r \notin Workers
    BY <1>10, RunKind DEF DeleteExpiredLocks
  <2>2. run' \in [Runs -> RunStates] /\ \A s \in Runs : Fits(s, run'[s])
    BY <1>10, <2>1, GotoType, PhaseTypes DEF DeleteExpiredLocks
  <2>3. locks' \in [Names -> [Rows -> StartTimes \cup {0}]]
    BY <1>10 DEF DeleteExpiredLocks, TypeOK
  <2>4. QED
    BY <1>10, <2>2, <2>3, TypeFromParts DEF DeleteExpiredLocks, TypeOK
<1>11. CASE DeleteCompletedRecords(r)
  <2>1. r \notin Workers
    BY <1>11, RunKind DEF DeleteCompletedRecords
  <2>2. run' \in [Runs -> RunStates] /\ \A s \in Runs : Fits(s, run'[s])
    BY <1>11, <2>1, GotoType, PhaseTypes DEF DeleteCompletedRecords
  <2>3. jobs' \in [Jobs -> JobRows]
    BY <1>11, JobRowTypes DEF DeleteCompletedRecords, TypeOK
  <2>4. QED
    BY <1>11, <2>2, <2>3, TypeFromParts DEF DeleteCompletedRecords, TypeOK
<1>12. CASE FindStalledJobs(r)
  <2> DEFINE found == {j \in Jobs : /\ jobs[j].stored /\ ~jobs[j].completed
                                    /\ jobs[j].started = "stalled"}
  <2>1. r \notin Workers /\ run[r] # Idle /\ Fits(r, run[r])
    BY <1>12, RunKind, RunFits DEF FindStalledJobs, Idle
  <2>2. found \subseteq Jobs
    OBVIOUS
  <2>3. Become(r, [run[r] EXCEPT !.phase = "reset", !.stalled = found])
    BY <1>12 DEF FindStalledJobs
  <2> HIDE DEF found
  <2>4. Fits(r, [run[r] EXCEPT !.phase = "reset", !.stalled = found])
    BY <2>1, <2>2, PhaseTypes DEF Fits, RunStates
  <2>5. run' \in [Runs -> RunStates] /\ \A s \in Runs : Fits(s, run'[s])
    BY <2>3, <2>4, BecomeType
  <2>6. QED
    BY <1>12, <2>5, TypeFromParts DEF FindStalledJobs, TypeOK
<1>13. CASE \E j \in Jobs : ResetStalledJob(r, j)
  <2>1. PICK j \in Jobs : ResetStalledJob(r, j)
    BY <1>13
  <2>2. run[r] # Idle /\ Fits(r, run[r])
    BY <2>1, RunFits DEF ResetStalledJob, Idle
  <2>3. Fits(r, [run[r] EXCEPT !.stalled = @ \ {j}])
    BY <2>2 DEF Fits, RunStates
  <2>4. run' \in [Runs -> RunStates] /\ \A s \in Runs : Fits(s, run'[s])
    BY <2>1, <2>3, BecomeType DEF ResetStalledJob
  <2>5. jobs' \in [Jobs -> JobRows]
    BY <2>1, UpdateType DEF ResetStalledJob
  <2>6. QED
    BY <2>1, <2>4, <2>5, TypeFromParts DEF ResetStalledJob, TypeOK
<1>14. CASE StalledJobsReset(r)
  <2>1. run' \in [Runs -> RunStates] /\ \A s \in Runs : Fits(s, run'[s])
    BY <1>14, GotoType, PhaseTypes DEF StalledJobsReset
  <2>2. QED
    BY <1>14, <2>1, TypeFromParts DEF StalledJobsReset, TypeOK
<1>15. CASE RoundFails(r)
  <2>1. run[r] # Idle /\ Fits(r, run[r])
    BY <1>15, RunFits DEF RoundFails, Idle
  <2>2. Fits(r, [run[r] EXCEPT !.phase = "release", !.stalled = {}])
    BY <2>1, PhaseTypes DEF Fits, RunStates
  <2>3. run' \in [Runs -> RunStates] /\ \A s \in Runs : Fits(s, run'[s])
    BY <1>15, <2>2, BecomeType DEF RoundFails
  <2>4. mishaps' \in 0 .. MaxMishaps
    BY <1>15, MishapType DEF RoundFails
  <2>5. QED
    BY <1>15, <2>3, <2>4, TypeFromParts DEF RoundFails, TypeOK
<1>16. QED
  BY <1>1, <1>2, <1>3, <1>4, <1>5, <1>6, <1>7, <1>8, <1>9, <1>10, <1>11, <1>12,
     <1>13, <1>14, <1>15 DEF Continue

LEMMA NextType ==
    ASSUME TypeOK, [Next]_vars
    PROVE  TypeOK'
<1>0. \A s \in Runs : Fits(s, run[s])
  BY RunFits
<1>1. CASE \E j \in Jobs : FlagObject(j)
  BY <1>0, <1>1, TypeFromParts DEF FlagObject, TypeOK
<1>2. CASE \E j \in Jobs : StoreJob(j)
  BY <1>0, <1>2, JobRowTypes, TypeFromParts DEF StoreJob, TypeOK
<1>3. CASE \E r \in Workers, j \in Jobs : GetLatestMarkForDeleteRecords(r, j)
  <2>1. PICK r \in Workers, j \in Jobs : GetLatestMarkForDeleteRecords(r, j)
    BY <1>3
  <2>2. Fits(r, [Idle EXCEPT !.phase = "lock", !.name = j])
    BY PhaseTypes DEF Fits, RunStates, Idle, Names
  <2>3. run' \in [Runs -> RunStates] /\ \A s \in Runs : Fits(s, run'[s])
    BY <2>1, <2>2, BecomeType DEF GetLatestMarkForDeleteRecords, Runs
  <2>4. QED
    BY <2>1, <2>3, TypeFromParts DEF GetLatestMarkForDeleteRecords, TypeOK
<1>4. CASE \E r \in Reapers : DeleteExpiredRecords(r)
  <2>1. PICK r \in Reapers : DeleteExpiredRecords(r)
    BY <1>4
  <2>2. r \in Runs /\ r \notin Workers /\ run[r] = Idle
    <3>1. r \in Runs /\ r \notin Workers
      BY ConstantsOk DEF Runs, ConstantsOk
    <3>2. run[r].phase = "idle"
      BY <2>1 DEF DeleteExpiredRecords
    <3>3. QED
      BY <1>0, <3>1, <3>2, PhaseTypes DEF Fits
  <2>3. Fits(r, [run[r] EXCEPT !.phase = "lock"])
    BY <2>2, PhaseTypes DEF Fits, RunStates, Idle, Names
  <2>4. run' \in [Runs -> RunStates] /\ \A s \in Runs : Fits(s, run'[s])
    BY <2>1, <2>2, <2>3, BecomeType DEF DeleteExpiredRecords, Goto
  <2>5. QED
    BY <2>1, <2>4, TypeFromParts DEF DeleteExpiredRecords, TypeOK
<1>5. CASE \E r \in Runs : Continue(r)
  BY <1>5, ContinueType
<1>6. CASE \E n \in Names, row \in Rows : LockExpires(n, row)
  <2>1. PICK n \in Names, row \in Rows : LockExpires(n, row)
    BY <1>6
  <2>2. mishaps' \in 0 .. MaxMishaps
    BY <2>1, MishapType DEF LockExpires, TypeOK
  <2>3. QED
    BY <1>0, <2>1, <2>2, TypeFromParts DEF LockExpires, TypeOK
<1>7. CASE \E j \in Jobs : JobStalls(j)
  <2>1. PICK j \in Jobs : JobStalls(j)
    BY <1>7
  <2>2. mishaps' \in 0 .. MaxMishaps
    BY <2>1, MishapType DEF JobStalls, TypeOK
  <2>3. jobs' \in [Jobs -> JobRows]
    BY <2>1 DEF JobStalls, TypeOK, JobRows
  <2>4. QED
    BY <1>0, <2>1, <2>2, <2>3, TypeFromParts DEF JobStalls, TypeOK
<1>8. CASE \E r \in Runs : Stop(r)
  <2>1. PICK r \in Runs : Stop(r)
    BY <1>8
  <2>2. Abandoned(r) /\ Mishap
    BY <2>1 DEF Stop
  <2>3. QED
    BY <2>1, <2>2, AbandonedType, MishapType, TypeFromParts DEF Stop, TypeOK
<1>9. CASE UNCHANGED vars
  BY <1>9, <1>0, TypeFromParts DEF vars, TypeOK
<1>10. QED
  BY <1>1, <1>2, <1>3, <1>4, <1>5, <1>6, <1>7, <1>8, <1>9 DEF Next

(* The tables, and what the rounds hold between their awaits, keep their
   types: a worker holds the lock of a job, a reaper that of the clean-up. *)
THEOREM TypeCorrect == Spec => []TypeOK
<1>1. Init => TypeOK
  BY InitType
<1>2. TypeOK /\ [Next]_vars => TypeOK'
  BY NextType
<1>3. QED
  BY <1>1, <1>2, PTL DEF Spec

-----------------------------------------------------------------------------
(* What the deletion jobs promise.                                         *)

(* A run only gets to onFinished after the deletion of its object.         *)
Finished ==
    \A r \in Runs : run[r].phase = "finish" => objects[run[r].name] = "deleted"

(* After onFinished removed the row of a run, the run has none.            *)
UnlockedOnce ==
    \A r \in Runs : run[r].phase = "finish" /\ "unlock" \notin run[r].todo =>
        locks[run[r].name][Held(r)] = 0

JobInv == Finished /\ CompletedIsDeleted /\ JobKeptUntilDone
LockInv == UnlockedOnce /\ LocksAreReleased

(* What every step does to the run that takes it, and to no other.         *)
LEMMA BecomeRuns ==
    ASSUME TypeOK, NEW r \in Runs, NEW state, Become(r, state)
    PROVE  /\ run'[r] = state
           /\ \A s \in Runs : s # r => run'[s] = run[s]
  BY DEF TypeOK, Become

LEMMA GotoRuns ==
    ASSUME TypeOK, NEW r \in Runs, NEW phase, Goto(r, phase)
    PROVE  /\ run'[r].phase = phase
           /\ run'[r].name = run[r].name
           /\ run'[r].todo = run[r].todo
           /\ \A s \in Runs : s # r => run'[s] = run[s]
<1>1. run'[r] = [run[r] EXCEPT !.phase = phase] /\ \A s \in Runs : s # r => run'[s] = run[s]
  BY DEF TypeOK, Become, Goto
<1>2. run[r] \in RunStates
  BY DEF TypeOK
<1>3. QED
  BY <1>1, <1>2 DEF RunStates

LEMMA IdlePhase == Idle.phase = "idle" /\ Idle.name = DeleteExpiredData
  BY DEF Idle

(* Finished is kept by a step that keeps the objects and leads no run into
   "finish".                                                               *)
LEMMA FinishedKept ==
    ASSUME TypeOK, Finished, NEW r \in Runs,
           \A s \in Runs : s # r => run'[s] = run[s],
           \/ run'[r].phase # "finish"
           \/ run[r].phase = "finish" /\ run'[r].name = run[r].name,
           objects' = objects
    PROVE  Finished'
  BY DEF Finished

LEMMA SameJobs ==
    ASSUME JobInv, UNCHANGED <<jobs, objects, submitted>>
    PROVE  CompletedIsDeleted' /\ JobKeptUntilDone'
  BY DEF JobInv, CompletedIsDeleted, JobKeptUntilDone

LEMMA ContinueJobs ==
    ASSUME TypeOK, JobInv, NEW r \in Runs, Continue(r)
    PROVE  JobInv'
<1>0. Finished /\ CompletedIsDeleted /\ JobKeptUntilDone /\ run[r] \in RunStates
  BY DEF JobInv, TypeOK
<1>1. CASE CreateSchedulerLock(r)
  <2>1. Goto(r, "elect") /\ UNCHANGED <<jobs, objects, submitted>>
    BY <1>1 DEF CreateSchedulerLock
  <2>2. QED
    BY <1>0, <2>1, GotoRuns, FinishedKept, SameJobs DEF JobInv
<1>2. CASE GetSchedulerLocksByName(r)
  <2>1. \E phase \in {"release", "start", "purge"} : Goto(r, phase)
    BY <1>2 DEF GetSchedulerLocksByName
  <2>2. PICK phase \in {"release", "start", "purge"} : Goto(r, phase)
    BY <2>1
  <2>3. run'[r].phase # "finish" /\ \A s \in Runs : s # r => run'[s] = run[s]
    BY <2>2, GotoRuns
  <2>4. UNCHANGED <<jobs, objects, submitted>>
    BY <1>2 DEF GetSchedulerLocksByName
  <2>5. QED
    BY <1>0, <2>3, <2>4, FinishedKept, SameJobs DEF JobInv
<1>3. CASE DeleteSchedulerLock(r)
  <2>1. Become(r, Idle) /\ UNCHANGED <<jobs, objects, submitted>>
    BY <1>3 DEF DeleteSchedulerLock
  <2>2. QED
    BY <1>0, <2>1, IdlePhase, BecomeRuns, FinishedKept, SameJobs DEF JobInv
<1>4. CASE StartJob(r)
  <2>1. Goto(r, "delete") /\ UpdateMarkForDelete(run[r].name, "recent", FALSE)
        /\ UNCHANGED <<objects, submitted>> /\ run[r].name \in Jobs
    BY <1>4, RunKind DEF StartJob
  <2>2. Finished'
    BY <1>0, <2>1, GotoRuns, FinishedKept
  <2>3. CompletedIsDeleted' /\ JobKeptUntilDone'
    BY <1>0, <2>1 DEF UpdateMarkForDelete, CompletedIsDeleted, JobKeptUntilDone, TypeOK, JobRows
  <2>4. QED
    BY <2>2, <2>3 DEF JobInv
<1>5. CASE DeleteObject(r)
  <2>1. run[r].name \in Jobs /\ run[r].phase = "delete"
    BY <1>5, RunKind DEF DeleteObject
  <2>2. objects' = [objects EXCEPT ![run[r].name] = "deleted"] /\ UNCHANGED <<jobs, submitted>>
    BY <1>5 DEF DeleteObject
  <2>3. \A j \in Jobs : objects[j] = "deleted" => objects'[j] = "deleted"
    BY <2>1, <2>2 DEF TypeOK
  <2>4. objects'[run[r].name] = "deleted"
    BY <2>1, <2>2 DEF TypeOK
  <2>5. Become(r, [run[r] EXCEPT !.phase = "finish", !.todo = {"complete", "unlock"}])
    BY <1>5 DEF DeleteObject
  <2>6. run'[r].name = run[r].name /\ \A s \in Runs : s # r => run'[s] = run[s]
    BY <1>0, <2>5 DEF Become, TypeOK, RunStates
  <2>7. \A s \in Runs : run[s].phase = "finish" => run[s].name \in Jobs
    BY RunKind
  <2>8. Finished'
    BY <1>0, <2>3, <2>4, <2>6, <2>7 DEF Finished
  <2>9. QED
    BY <1>0, <2>2, <2>3, <2>8 DEF JobInv, CompletedIsDeleted, JobKeptUntilDone, TypeOK
<1>6. CASE DeletionFails(r)
  <2>1. Become(r, Idle) /\ UNCHANGED <<jobs, objects, submitted>>
    BY <1>6 DEF DeletionFails, Abandoned
  <2>2. QED
    BY <1>0, <2>1, IdlePhase, BecomeRuns, FinishedKept, SameJobs DEF JobInv
<1>7. CASE CompleteJob(r)
  <2>1. run[r].name \in Jobs /\ run[r].phase = "finish" /\ objects[run[r].name] = "deleted"
    BY <1>0, <1>7, RunKind DEF CompleteJob, Finished
  <2>2. UpdateMarkForDelete(run[r].name, "recent", TRUE) /\ UNCHANGED <<objects, submitted>>
    BY <1>7 DEF CompleteJob
  <2>3. CompletedIsDeleted' /\ JobKeptUntilDone'
    BY <1>0, <2>1, <2>2 DEF UpdateMarkForDelete, CompletedIsDeleted, JobKeptUntilDone, TypeOK, JobRows
  <2>4. run'[r].name = run[r].name /\ \A s \in Runs : s # r => run'[s] = run[s]
    BY <1>0, <1>7 DEF CompleteJob, Become, TypeOK, RunStates
  <2>5. QED
    BY <1>0, <2>1, <2>2, <2>3, <2>4, FinishedKept DEF JobInv
<1>8. CASE UnlockJob(r)
  <2>1. run[r].phase = "finish" /\ UNCHANGED <<jobs, objects, submitted>>
    BY <1>8 DEF UnlockJob
  <2>2. run'[r].name = run[r].name /\ \A s \in Runs : s # r => run'[s] = run[s]
    BY <1>0, <1>8 DEF UnlockJob, Become, TypeOK, RunStates
  <2>3. QED
    BY <1>0, <2>1, <2>2, FinishedKept, SameJobs DEF JobInv
<1>9. CASE FinishJob(r)
  <2>1. Become(r, Idle) /\ UNCHANGED <<jobs, objects, submitted>>
    BY <1>9 DEF FinishJob
  <2>2. QED
    BY <1>0, <2>1, IdlePhase, BecomeRuns, FinishedKept, SameJobs DEF JobInv
<1>10. CASE DeleteExpiredLocks(r)
  <2>1. Goto(r, "sweep") /\ UNCHANGED <<jobs, objects, submitted>>
    BY <1>10 DEF DeleteExpiredLocks
  <2>2. QED
    BY <1>0, <2>1, GotoRuns, FinishedKept, SameJobs DEF JobInv
<1>11. CASE DeleteCompletedRecords(r)
  <2>1. Goto(r, "scan") /\ UNCHANGED <<objects, submitted>>
        /\ jobs' = [j \in Jobs |-> IF jobs[j].completed THEN NoJob ELSE jobs[j]]
    BY <1>11 DEF DeleteCompletedRecords
  <2>2. Finished'
    BY <1>0, <2>1, GotoRuns, FinishedKept
  <2>3. CompletedIsDeleted' /\ JobKeptUntilDone'
    BY <1>0, <2>1 DEF CompletedIsDeleted, JobKeptUntilDone, TypeOK, NoJob
  <2>4. QED
    BY <2>2, <2>3 DEF JobInv
<1>12. CASE FindStalledJobs(r)
  <2>1. UNCHANGED <<jobs, objects, submitted>>
    BY <1>12 DEF FindStalledJobs
  <2>2. \E stalled \in SUBSET Jobs :
            Become(r, [run[r] EXCEPT !.phase = "reset", !.stalled = stalled])
    BY <1>12 DEF FindStalledJobs
  <2>3. run'[r].phase = "reset" /\ \A s \in Runs : s # r => run'[s] = run[s]
    BY <1>0, <2>2 DEF Become, TypeOK, RunStates
  <2>4. QED
    BY <1>0, <2>1, <2>3, FinishedKept, SameJobs DEF JobInv
<1>13. CASE \E j \in Jobs : ResetStalledJob(r, j)
  <2>1. PICK j \in Jobs : ResetStalledJob(r, j)
    BY <1>13
  <2>2. UpdateMarkForDelete(j, "no", FALSE) /\ UNCHANGED <<objects, submitted>>
    BY <2>1 DEF ResetStalledJob
  <2>3. CompletedIsDeleted' /\ JobKeptUntilDone'
    BY <1>0, <2>2 DEF UpdateMarkForDelete, CompletedIsDeleted, JobKeptUntilDone, TypeOK, JobRows
  <2>4. run'[r].phase = "reset" /\ \A s \in Runs : s # r => run'[s] = run[s]
    BY <1>0, <2>1 DEF ResetStalledJob, Become, TypeOK, RunStates
  <2>5. QED
    BY <1>0, <2>2, <2>3, <2>4, FinishedKept DEF JobInv
<1>14. CASE StalledJobsReset(r)
  <2>1. Goto(r, "release") /\ UNCHANGED <<jobs, objects, submitted>>
    BY <1>14 DEF StalledJobsReset
  <2>2. QED
    BY <1>0, <2>1, GotoRuns, FinishedKept, SameJobs DEF JobInv
<1>15. CASE RoundFails(r)
  <2>1. UNCHANGED <<jobs, objects, submitted>>
    BY <1>15 DEF RoundFails
  <2>2. run'[r].phase = "release" /\ \A s \in Runs : s # r => run'[s] = run[s]
    BY <1>0, <1>15 DEF RoundFails, Become, TypeOK, RunStates
  <2>3. QED
    BY <1>0, <2>1, <2>2, FinishedKept, SameJobs DEF JobInv
<1>16. QED
  BY <1>1, <1>2, <1>3, <1>4, <1>5, <1>6, <1>7, <1>8, <1>9, <1>10, <1>11, <1>12,
     <1>13, <1>14, <1>15 DEF Continue

LEMMA NextJobs ==
    ASSUME TypeOK, JobInv, [Next]_vars
    PROVE  JobInv'
<1>0. Finished /\ CompletedIsDeleted /\ JobKeptUntilDone
  BY DEF JobInv
<1>1. CASE \E j \in Jobs : FlagObject(j)
  <2>1. PICK j \in Jobs : FlagObject(j)
    BY <1>1
  <2>2. \A k \in Jobs : objects[k] = "deleted" => objects'[k] = "deleted"
    BY <2>1 DEF FlagObject, TypeOK
  <2>3. \A s \in Runs : run[s].phase = "finish" => run[s].name \in Jobs
    BY RunKind
  <2>4. UNCHANGED <<jobs, run, submitted>>
    BY <2>1 DEF FlagObject
  <2>5. QED
    BY <1>0, <2>2, <2>3, <2>4 DEF JobInv, Finished, CompletedIsDeleted, JobKeptUntilDone, TypeOK
<1>2. CASE \E j \in Jobs : StoreJob(j)
  <2>1. PICK j \in Jobs : StoreJob(j)
    BY <1>2
  <2>2. QED
    BY <1>0, <2>1 DEF StoreJob, JobInv, Finished, CompletedIsDeleted, JobKeptUntilDone,
                      TypeOK, NoJob, JobRows
<1>3. CASE \E r \in Workers, j \in Jobs : GetLatestMarkForDeleteRecords(r, j)
  <2>1. PICK r \in Workers, j \in Jobs : GetLatestMarkForDeleteRecords(r, j)
    BY <1>3
  <2>2. UNCHANGED <<jobs, objects, submitted>> /\ r \in Runs
    BY <2>1 DEF GetLatestMarkForDeleteRecords, Runs
  <2>3. run'[r].phase = "lock" /\ \A s \in Runs : s # r => run'[s] = run[s]
    BY <2>1, <2>2 DEF GetLatestMarkForDeleteRecords, Become, TypeOK, Idle
  <2>4. QED
    BY <1>0, <2>2, <2>3, FinishedKept, SameJobs DEF JobInv
<1>4. CASE \E r \in Reapers : DeleteExpiredRecords(r)
  <2>1. PICK r \in Reapers : DeleteExpiredRecords(r)
    BY <1>4
  <2>2. r \in Runs /\ Goto(r, "lock") /\ UNCHANGED <<jobs, objects, submitted>>
    BY <2>1 DEF DeleteExpiredRecords, Runs
  <2>3. QED
    BY <1>0, <2>2, GotoRuns, FinishedKept, SameJobs DEF JobInv
<1>5. CASE \E r \in Runs : Continue(r)
  BY <1>5, ContinueJobs
<1>6. CASE \E n \in Names, row \in Rows : LockExpires(n, row)
  BY <1>0, <1>6, SameJobs DEF LockExpires, JobInv, Finished
<1>7. CASE \E j \in Jobs : JobStalls(j)
  <2>1. PICK j \in Jobs : JobStalls(j)
    BY <1>7
  <2>2. \A k \in Jobs : /\ jobs'[k].completed = jobs[k].completed
                        /\ jobs'[k].stored = jobs[k].stored
    BY <2>1 DEF JobStalls, TypeOK, JobRows
  <2>3. QED
    BY <1>0, <2>1, <2>2 DEF JobStalls, JobInv, Finished, CompletedIsDeleted, JobKeptUntilDone
<1>8. CASE \E r \in Runs : Stop(r)
  <2>1. PICK r \in Runs : Stop(r)
    BY <1>8
  <2>2. Become(r, Idle) /\ UNCHANGED <<jobs, objects, submitted>>
    BY <2>1 DEF Stop, Abandoned
  <2>3. QED
    BY <1>0, <2>2, IdlePhase, BecomeRuns, FinishedKept, SameJobs DEF JobInv
<1>9. CASE UNCHANGED vars
  BY <1>0, <1>9 DEF vars, JobInv, Finished, CompletedIsDeleted, JobKeptUntilDone
<1>10. QED
  BY <1>1, <1>2, <1>3, <1>4, <1>5, <1>6, <1>7, <1>8, <1>9 DEF Next

LEMMA InitJobs == Init => JobInv
  BY DEF Init, JobInv, Finished, CompletedIsDeleted, JobKeptUntilDone, Idle, NoJob

(* A job is only shown as completed after its object was deleted, and a job
   that was submitted stays in the table until then: for any number of jobs,
   overlapping rounds and mishaps.                                         *)
THEOREM NothingIsForgotten == Spec => [](CompletedIsDeleted /\ JobKeptUntilDone)
<1>1. Init => TypeOK /\ JobInv
  BY InitType, InitJobs
<1>2. TypeOK /\ JobInv /\ [Next]_vars => TypeOK' /\ JobInv'
  BY NextType, NextJobs
<1>3. JobInv => CompletedIsDeleted /\ JobKeptUntilDone
  BY DEF JobInv
<1>4. QED
  BY <1>1, <1>2, <1>3, PTL DEF Spec

-----------------------------------------------------------------------------
(* The rows of scheduler_lock.                                             *)

LEMMA RowsApart ==
    \A r, s \in Runs : /\ Held(r) # Left(s)
                       /\ r # s => Held(r) # Held(s) /\ Left(r) # Left(s)
  BY DEF Held, Left

(* LockInv is kept when rows only disappear, when the run that moves still
   has what it needs, and when rows without owner come with a mishap.      *)
LEMMA LockStep ==
    ASSUME LockInv, NEW r \in Runs,
           \A s \in Runs : s # r => run'[s] = run[s],
           \A s \in Runs, n \in Names : s # r => locks'[n][Held(s)] \in {0, locks[n][Held(s)]},
           \A n \in Names : locks'[n][Held(r)] # 0 =>
               run'[r].phase # "idle" /\ run'[r].name = n,
           run'[r].phase = "finish" /\ "unlock" \notin run'[r].todo =>
               locks'[run'[r].name][Held(r)] = 0,
           \A s \in Runs : run[s].phase = "finish" => run[s].name \in Names,
           mishaps' = 0 => mishaps = 0,
           mishaps' = 0 /\ Broken = {} =>
               \A s \in Runs, n \in Names : locks'[n][Left(s)] \in {0, locks[n][Left(s)]}
    PROVE  LockInv'
<1>1. UnlockedOnce'
  BY DEF LockInv, UnlockedOnce
<1>2. LocksAreReleased'
  BY DEF LockInv, LocksAreReleased
<1>3. QED
  BY <1>1, <1>2 DEF LockInv

LEMMA FinishNames ==
    ASSUME TypeOK
    PROVE  \A s \in Runs : run[s].phase = "finish" => run[s].name \in Names
  BY RunKind

(* A step of a run that changes no lock row.                               *)
LEMMA SameLocks ==
    ASSUME TypeOK, LockInv, NEW r \in Runs,
           \A s \in Runs : s # r => run'[s] = run[s],
           run[r].phase # "idle",
           run'[r].phase # "idle", run'[r].name = run[r].name,
           run'[r].phase = "finish" /\ "unlock" \notin run'[r].todo =>
               run[r].phase = "finish" /\ "unlock" \notin run[r].todo,
           locks' = locks, mishaps' = 0 => mishaps = 0
    PROVE  LockInv'
<1>1. \A n \in Names : locks[n][Held(r)] # 0 => run[r].name = n
  BY DEF LockInv, LocksAreReleased
<1>2. run[r].phase = "finish" /\ "unlock" \notin run[r].todo =>
          locks[run[r].name][Held(r)] = 0
  BY DEF LockInv, UnlockedOnce
<1>3. QED
  BY <1>1, <1>2, FinishNames, LockStep

(* A run removes its row and is done with it.                              *)
LEMMA UnlockStep ==
    ASSUME TypeOK, LockInv, NEW r \in Runs, run[r].phase # "idle",
           \A s \in Runs : s # r => run'[s] = run[s],
           locks' = Unlocked(r), mishaps' = mishaps,
           run'[r].phase = "finish" => run'[r].name = run[r].name
    PROVE  LockInv'
<1>1. run[r].name \in Names
  BY RunKind
<1>2. \A n \in Names, row \in Rows :
          locks'[n][row] = IF n = run[r].name /\ row = Held(r) THEN 0 ELSE locks[n][row]
  BY <1>1 DEF Unlocked, TypeOK
<1>3. \A n \in Names : locks'[n][Held(r)] = 0
  BY <1>2, RowTypes DEF LockInv, LocksAreReleased
<1>4. \A s \in Runs, n \in Names : s # r => locks'[n][Held(s)] = locks[n][Held(s)]
  BY <1>2, RowTypes, RowsApart
<1>5. \A s \in Runs, n \in Names : locks'[n][Left(s)] = locks[n][Left(s)]
  BY <1>2, RowTypes, RowsApart
<1>6. QED
  BY <1>1, <1>3, <1>4, <1>5, FinishNames, LockStep

(* A run stops and leaves its row without owner.                           *)
LEMMA AbandonStep ==
    ASSUME TypeOK, LockInv, NEW r \in Runs, run[r].phase # "idle", Abandoned(r),
           mishaps' # 0 \/ Broken # {}, mishaps' = 0 => mishaps = 0
    PROVE  LockInv'
<1>1. run[r].name \in Names
  BY RunKind
<1>2. run'[r].phase = "idle" /\ \A s \in Runs : s # r => run'[s] = run[s]
  BY BecomeRuns, IdlePhase DEF Abandoned
<1>3. \A n \in Names, row \in Rows :
          row # Left(r) => locks'[n][row] =
              IF n = run[r].name /\ row = Held(r) THEN 0 ELSE locks[n][row]
  <2>1. CASE locks[run[r].name][Held(r)] = 0
    BY <1>1, <2>1 DEF Abandoned
  <2>2. CASE locks[run[r].name][Held(r)] # 0
    <3>1. locks' = [locks EXCEPT ![run[r].name][Left(r)] = locks[run[r].name][Held(r)],
                                 ![run[r].name][Held(r)] = 0]
      BY <2>2 DEF Abandoned
    <3>2. QED
      BY <1>1, <3>1, RowTypes DEF TypeOK
  <2>3. QED
    BY <2>1, <2>2
<1>4. \A n \in Names : locks'[n][Held(r)] = 0
  BY <1>3, RowTypes, RowsApart DEF LockInv, LocksAreReleased
<1>5. \A s \in Runs, n \in Names : s # r => locks'[n][Held(s)] = locks[n][Held(s)]
  BY <1>3, RowTypes, RowsApart
<1>6. QED
  BY <1>2, <1>4, <1>5, FinishNames, LockStep

LEMMA ContinueLocks ==
    ASSUME TypeOK, LockInv, NEW r \in Runs, Continue(r)
    PROVE  LockInv'
<1>0. run[r] \in RunStates
  BY DEF TypeOK
<1>1. CASE CreateSchedulerLock(r)
  <2>1. run[r].phase = "lock" /\ Goto(r, "elect") /\ mishaps' = mishaps
    BY <1>1 DEF CreateSchedulerLock
  <2>2. run[r].name \in Names
    BY <2>1, RunKind
  <2>3. PICK time \in StartTimes :
            locks' = [locks EXCEPT ![run[r].name][Held(r)] = time]
    BY <1>1 DEF CreateSchedulerLock
  <2>4. \A n \in Names, row \in Rows :
            locks'[n][row] = IF n = run[r].name /\ row = Held(r) THEN time ELSE locks[n][row]
    BY <2>2, <2>3 DEF TypeOK
  <2>5. \A s \in Runs, n \in Names : s # r => locks'[n][Held(s)] = locks[n][Held(s)]
    BY <2>4, RowTypes, RowsApart
  <2>6. \A s \in Runs, n \in Names : locks'[n][Left(s)] = locks[n][Left(s)]
    BY <2>4, RowTypes, RowsApart
  <2>7. \A n \in Names : locks'[n][Held(r)] # 0 => run[r].name = n
    BY <2>4, RowTypes DEF LockInv, LocksAreReleased
  <2>8. /\ run'[r].phase = "elect" /\ run'[r].name = run[r].name
        /\ \A s \in Runs : s # r => run'[s] = run[s]
    BY <2>1, GotoRuns
  <2>9. QED
    BY <2>1, <2>5, <2>6, <2>7, <2>8, FinishNames, LockStep
<1>2. CASE GetSchedulerLocksByName(r)
  <2>1. run[r].phase = "elect" /\ locks' = locks /\ mishaps' = mishaps
    BY <1>2 DEF GetSchedulerLocksByName
  <2>2. \E phase \in {"release", "start", "purge"} : Goto(r, phase)
    BY <1>2 DEF GetSchedulerLocksByName
  <2>3. /\ run'[r].phase \notin {"idle", "finish"} /\ run'[r].name = run[r].name
        /\ \A s \in Runs : s # r => run'[s] = run[s]
    BY <2>2, GotoRuns
  <2>4. QED
    BY <2>1, <2>3, SameLocks
<1>3. CASE DeleteSchedulerLock(r)
  <2>1. run[r].phase # "idle" /\ Become(r, Idle) /\ locks' = Unlocked(r) /\ mishaps' = mishaps
    BY <1>3 DEF DeleteSchedulerLock
  <2>2. run'[r].phase = "idle" /\ \A s \in Runs : s # r => run'[s] = run[s]
    BY <2>1, BecomeRuns, IdlePhase
  <2>3. QED
    BY <2>1, <2>2, UnlockStep
<1>4. CASE StartJob(r)
  <2>1. run[r].phase = "start" /\ Goto(r, "delete") /\ locks' = locks /\ mishaps' = mishaps
    BY <1>4 DEF StartJob
  <2>2. QED
    BY <2>1, GotoRuns, SameLocks
<1>5. CASE DeleteObject(r)
  <2>1. run[r].phase = "delete" /\ locks' = locks /\ mishaps' = mishaps
    BY <1>5 DEF DeleteObject
  <2>2. /\ run'[r].phase = "finish" /\ "unlock" \in run'[r].todo
        /\ run'[r].name = run[r].name
        /\ \A s \in Runs : s # r => run'[s] = run[s]
    BY <1>0, <1>5 DEF DeleteObject, Become, TypeOK, RunStates
  <2>3. QED
    BY <2>1, <2>2, SameLocks
<1>6. CASE DeletionFails(r)
  <2>1. run[r].phase # "idle" /\ Abandoned(r)
    BY <1>6 DEF DeletionFails
  <2>2. (mishaps' # 0 \/ Broken # {}) /\ (mishaps' = 0 => mishaps = 0)
    BY <1>6, MishapType DEF DeletionFails
  <2>3. QED
    BY <2>1, <2>2, AbandonStep
<1>7. CASE CompleteJob(r)
  <2>1. run[r].phase = "finish" /\ locks' = locks /\ mishaps' = mishaps
    BY <1>7 DEF CompleteJob
  <2>2. /\ run'[r].phase = "finish" /\ run'[r].name = run[r].name
        /\ run'[r].todo = run[r].todo \ {"complete"}
        /\ \A s \in Runs : s # r => run'[s] = run[s]
    BY <1>0, <1>7 DEF CompleteJob, Become, TypeOK, RunStates
  <2>3. QED
    BY <2>1, <2>2, SameLocks
<1>8. CASE UnlockJob(r)
  <2>1. run[r].phase = "finish" /\ locks' = Unlocked(r) /\ mishaps' = mishaps
    BY <1>8 DEF UnlockJob
  <2>2. run'[r].name = run[r].name /\ \A s \in Runs : s # r => run'[s] = run[s]
    BY <1>0, <1>8 DEF UnlockJob, Become, TypeOK, RunStates
  <2>3. QED
    BY <2>1, <2>2, UnlockStep
<1>9. CASE FinishJob(r)
  <2>1. /\ run[r].phase = "finish" /\ run[r].todo = {} /\ Become(r, Idle)
        /\ locks' = locks /\ mishaps' = mishaps
    BY <1>9 DEF FinishJob
  <2>2. \A n \in Names : locks[n][Held(r)] = 0
    BY <2>1 DEF LockInv, UnlockedOnce, LocksAreReleased
  <2>3. run'[r].phase = "idle" /\ \A s \in Runs : s # r => run'[s] = run[s]
    BY <2>1, BecomeRuns, IdlePhase
  <2>4. QED
    BY <2>1, <2>2, <2>3, FinishNames, LockStep
<1>10. CASE DeleteExpiredLocks(r)
  <2>1. run[r].phase = "purge" /\ Goto(r, "sweep") /\ mishaps' = mishaps
    BY <1>10 DEF DeleteExpiredLocks
  <2>2. \A n \in Names, row \in Rows : locks'[n][row] \in {0, locks[n][row]}
    BY <1>10 DEF DeleteExpiredLocks
  <2>3. /\ run'[r].phase = "sweep" /\ run'[r].name = run[r].name
        /\ \A s \in Runs : s # r => run'[s] = run[s]
    BY <2>1, GotoRuns
  <2>4. \A n \in Names : locks'[n][Held(r)] # 0 => run[r].name = n
    BY <2>2, RowTypes DEF LockInv, LocksAreReleased
  <2>5. QED
    BY <2>1, <2>2, <2>3, <2>4, RowTypes, FinishNames, LockStep
<1>11. CASE DeleteCompletedRecords(r)
  <2>1. run[r].phase = "sweep" /\ Goto(r, "scan") /\ locks' = locks /\ mishaps' = mishaps
    BY <1>11 DEF DeleteCompletedRecords
  <2>2. QED
    BY <2>1, GotoRuns, SameLocks
<1>12. CASE FindStalledJobs(r)
  <2>1. run[r].phase = "scan" /\ locks' = locks /\ mishaps' = mishaps
    BY <1>12 DEF FindStalledJobs
  <2>2. \E stalled \in SUBSET Jobs :
            Become(r, [run[r] EXCEPT !.phase = "reset", !.stalled = stalled])
    BY <1>12 DEF FindStalledJobs
  <2>3. /\ run'[r].phase = "reset" /\ run'[r].name = run[r].name
        /\ \A s \in Runs : s # r => run'[s] = run[s]
    BY <1>0, <2>2 DEF Become, TypeOK, RunStates
  <2>4. QED
    BY <2>1, <2>3, SameLocks
<1>13. CASE \E j \in Jobs : ResetStalledJob(r, j)
  <2>1. run[r].phase = "reset" /\ locks' = locks /\ mishaps' = mishaps
    BY <1>13 DEF ResetStalledJob
  <2>2. /\ run'[r].phase = "reset" /\ run'[r].name = run[r].name
        /\ \A s \in Runs : s # r => run'[s] = run[s]
    BY <1>0, <1>13 DEF ResetStalledJob, Become, TypeOK, RunStates
  <2>3. QED
    BY <2>1, <2>2, SameLocks
<1>14. CASE StalledJobsReset(r)
  <2>1. run[r].phase = "reset" /\ Goto(r, "release") /\ locks' = locks /\ mishaps' = mishaps
    BY <1>14 DEF StalledJobsReset
  <2>2. QED
    BY <2>1, GotoRuns, SameLocks
<1>15. CASE RoundFails(r)
  <2>1. run[r].phase # "idle" /\ locks' = locks /\ mishaps' # 0
    BY <1>15, MishapType DEF RoundFails
  <2>2. /\ run'[r].phase = "release" /\ run'[r].name = run[r].name
        /\ \A s \in Runs : s # r => run'[s] = run[s]
    BY <1>0, <1>15 DEF RoundFails, Become, TypeOK, RunStates
  <2>3. QED
    BY <2>1, <2>2, SameLocks
<1>16. QED
  BY <1>1, <1>2, <1>3, <1>4, <1>5, <1>6, <1>7, <1>8, <1>9, <1>10, <1>11, <1>12,
     <1>13, <1>14, <1>15 DEF Continue

LEMMA NextLocks ==
    ASSUME TypeOK, LockInv, [Next]_vars
    PROVE  LockInv'
<1>0. UnlockedOnce /\ LocksAreReleased
  BY DEF LockInv
<1>1. CASE \/ \E j \in Jobs : FlagObject(j) \/ StoreJob(j)
           \/ UNCHANGED vars
  <2>1. UNCHANGED <<locks, run, mishaps>>
    BY <1>1 DEF FlagObject, StoreJob, vars
  <2>2. QED
    BY <1>0, <2>1 DEF LockInv, UnlockedOnce, LocksAreReleased
<1>2. CASE \/ \E n \in Names, row \in Rows : LockExpires(n, row)
           \/ \E j \in Jobs : JobStalls(j)
  <2>1. UNCHANGED <<locks, run>> /\ (mishaps' = 0 => mishaps = 0)
    BY <1>2, MishapType DEF LockExpires, JobStalls
  <2>2. QED
    BY <1>0, <2>1 DEF LockInv, UnlockedOnce, LocksAreReleased
<1>3. CASE \E r \in Workers, j \in Jobs : GetLatestMarkForDeleteRecords(r, j)
  <2>1. PICK r \in Workers, j \in Jobs : GetLatestMarkForDeleteRecords(r, j)
    BY <1>3
  <2>2. r \in Runs /\ run[r].phase = "idle" /\ locks' = locks /\ mishaps' = mishaps
    BY <2>1 DEF GetLatestMarkForDeleteRecords, Runs
  <2>3. \A n \in Names : locks[n][Held(r)] = 0
    BY <1>0, <2>2 DEF LocksAreReleased
  <2>4. run'[r].phase = "lock" /\ \A s \in Runs : s # r => run'[s] = run[s]
    BY <2>1, <2>2 DEF GetLatestMarkForDeleteRecords, Become, TypeOK, Idle
  <2>5. QED
    BY <2>2, <2>3, <2>4, FinishNames, LockStep
<1>4. CASE \E r \in Reapers : DeleteExpiredRecords(r)
  <2>1. PICK r \in Reapers : DeleteExpiredRecords(r)
    BY <1>4
  <2>2. /\ r \in Runs /\ run[r].phase = "idle" /\ Goto(r, "lock")
        /\ locks' = locks /\ mishaps' = mishaps
    BY <2>1 DEF DeleteExpiredRecords, Runs
  <2>3. \A n \in Names : locks[n][Held(r)] = 0
    BY <1>0, <2>2 DEF LocksAreReleased
  <2>4. run'[r].phase = "lock" /\ \A s \in Runs : s # r => run'[s] = run[s]
    BY <2>2, GotoRuns
  <2>5. QED
    BY <2>2, <2>3, <2>4, FinishNames, LockStep
<1>5. CASE \E r \in Runs : Continue(r)
  BY <1>5, ContinueLocks
<1>6. CASE \E r \in Runs : Stop(r)
  <2>1. PICK r \in Runs : Stop(r)
    BY <1>6
  <2>2. run[r].phase # "idle" /\ Abandoned(r) /\ mishaps' # 0
    BY <2>1, MishapType DEF Stop
  <2>3. QED
    BY <2>2, AbandonStep
<1>7. QED
  BY <1>1, <1>2, <1>3, <1>4, <1>5, <1>6 DEF Next

LEMMA InitLocks == Init => LockInv
  BY RowTypes DEF Init, LockInv, UnlockedOnce, LocksAreReleased, Idle

(* Every run removes its lock row before it ends, winner or loser; a row
   without owner is left by a run that stopped or a deletion that failed,
   and by nothing else.                                                    *)
THEOREM NoRowIsLeftBehind == Spec => []LocksAreReleased
<1>1. Init => TypeOK /\ LockInv
  BY InitType, InitLocks
<1>2. TypeOK /\ LockInv /\ [Next]_vars => TypeOK' /\ LockInv'
  BY NextType, NextLocks
<1>3. LockInv => LocksAreReleased
  BY DEF LockInv
<1>4. QED
  BY <1>1, <1>2, <1>3, PTL DEF Spec

=============================================================================
