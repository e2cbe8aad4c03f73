----------------------------- MODULE DeletionJobs -----------------------------
(***************************************************************************)
(* The deletion jobs of DeletionService and the lock rows that elect the   *)
(* run which does the work.                                                *)
(*                                                                         *)
(* Every instance of the server starts the same cron jobs.  A round of a   *)
(* job inserts a row of its own into scheduler_lock, reads all rows of     *)
(* that lock name in the order of their start times, and goes on only when *)
(* its own row comes first.  Rounds of one instance overlap as well: the   *)
(* scheduler does not wait for the one before.  The module calls a round a *)
(* run; a worker is a run of deleteMarkForDeleteRecords, a reaper one of   *)
(* deleteExpiredRecords.                                                   *)
(*                                                                         *)
(* The statements are those of the relational DAOs, one action for each    *)
(* awaited call that the tables of this module are changed by.             *)
(***************************************************************************)
EXTENDS Naturals, FiniteSets

CONSTANTS
    Jobs,           \* deletion jobs, numbered from 1 in the order of submittedDate
    Workers,
    Reapers,
    Limit,          \* number of records a worker looks at, 20 in the code
    StartTimes,     \* positions a lock row can take among those of its name
    Broken,         \* jobs whose deletion always fails
    Mortal,         \* runs that may stop half way with their instance
    MaxMishaps      \* bound on what goes wrong once: a run that stops, a
                    \* statement or deletion that fails, a run that outlives its
                    \* lock or takes more than a day

ASSUME ConstantsOk ==
    /\ Jobs \subseteq Nat \ {0}
    /\ Limit \in Nat \ {0}
    /\ StartTimes \subseteq Nat \ {0}
    /\ Workers \cap Reapers = {}
    /\ Broken \subseteq Jobs
    /\ Mortal \subseteq Workers \cup Reapers
    /\ MaxMishaps \in Nat

Runs == Workers \cup Reapers

(* One lock for all reapers, and one for every job.                        *)
DeleteExpiredData == 0
Names == Jobs \cup {DeleteExpiredData}

(* A lock row belongs to a run, or was left by a run that stopped.         *)
Rows == [run : Runs, left : BOOLEAN]

VARIABLES
    jobs,           \* [Jobs -> row of mark_for_delete]
    objects,        \* [Jobs -> what became of the object of the job]
    locks,          \* [Names -> [Rows -> start time, 0 for a row not stored]]
    expired,        \* SUBSET (Names \X Rows): rows past lockExpiresAtMS
    run,            \* [Runs -> what a run holds between two awaits]
    submitted,      \* history: jobs that were stored
    mishaps         \* number of mishaps so far

vars == <<jobs, objects, locks, expired, run, submitted, mishaps>>

JobRows == [stored : BOOLEAN, started : {"no", "recent", "stalled"},
            completed : BOOLEAN]
NoJob == [stored |-> FALSE, started |-> "no", completed |-> FALSE]

LockPhases == {"lock", "elect", "release"}
WorkerPhases == LockPhases \cup {"start", "delete", "finish"}
ReaperPhases == LockPhases \cup {"purge", "sweep", "scan", "reset"}
Phases == {"idle"} \cup WorkerPhases \cup ReaperPhases

RunStates == [phase : Phases, name : Names, stalled : SUBSET Jobs,
              todo : SUBSET {"complete", "unlock"}]

Idle == [phase |-> "idle", name |-> DeleteExpiredData, stalled |-> {}, todo |-> {}]

Held(r) == [run |-> r, left |-> FALSE]
Left(r) == [run |-> r, left |-> TRUE]

Stored(n) == {row \in Rows : locks[n][row] # 0}
Become(r, state) == run' = [run EXCEPT ![r] = state]
Goto(r, phase) == Become(r, [run[r] EXCEPT !.phase = phase])
Mishap == mishaps < MaxMishaps /\ mishaps' = mishaps + 1

Init ==
    /\ jobs = [j \in Jobs |-> NoJob]
    /\ objects = [j \in Jobs |-> "live"]
    /\ locks = [n \in Names |-> [row \in Rows |-> 0]]
    /\ expired = {}
    /\ run = [r \in Runs |-> Idle]
    /\ submitted = {}
    /\ mishaps = 0

-----------------------------------------------------------------------------
(* MarkForDeleteService.markForDelete: the object is flagged first, then    *)
(* the job is stored.                                                      *)

FlagObject(j) ==
    /\ objects[j] = "live"
    /\ objects' = [objects EXCEPT ![j] = "flagged"]
    /\ UNCHANGED <<jobs, locks, expired, run, submitted, mishaps>>

StoreJob(j) ==
    /\ objects[j] = "flagged"
    /\ j \notin submitted
    /\ jobs' = [jobs EXCEPT ![j] = [NoJob EXCEPT !.stored = TRUE]]
    /\ submitted' = submitted \cup {j}
    /\ UNCHANGED <<objects, locks, expired, run, mishaps>>

-----------------------------------------------------------------------------
(* The lock rows.                                                          *)

(* Start times come from the clocks of several instances, and are taken
   before the row is inserted: a later row may well sort before an earlier
   one.  Equal times are ordered by the key, so no two rows are alike.     *)
CreateSchedulerLock(r) ==
    /\ run[r].phase = "lock"
    /\ LET n == run[r].name
       IN \E time \in StartTimes :
              /\ \A row \in Rows : locks[n][row] # time
              /\ locks' = [locks EXCEPT ![n][Held(r)] = time]
    /\ Goto(r, "elect")
    /\ UNCHANGED <<jobs, objects, expired, submitted, mishaps>>

Wins(r) ==
    LET lock == locks[run[r].name]
    IN /\ lock[Held(r)] # 0
       /\ \A row \in Stored(run[r].name) : lock[Held(r)] <= lock[row]

GetSchedulerLocksByName_Faulty(r) ==
    /\ run[r].phase = "elect"
    /\ Goto(r, IF ~Wins(r) THEN "release" ELSE "purge")
    /\ UNCHANGED <<jobs, objects, locks, expired, submitted, mishaps>>

GetSchedulerLocksByName(r) ==
    /\ run[r].phase = "elect"
    /\ Goto(r, IF ~Wins(r) THEN "release"
               ELSE IF r \in Workers THEN "start" ELSE "purge")
    /\ UNCHANGED <<jobs, objects, locks, expired, submitted, mishaps>>

Unlocked(r) == [locks EXCEPT ![run[r].name][Held(r)] = 0]

DeleteSchedulerLock_Faulty(r) ==
    /\ run[r].phase = "release"
    /\ locks' = IF Wins(r) THEN Unlocked(r) ELSE locks
    /\ expired' = expired \ {<<run[r].name, Held(r)>>}
    /\ Become(r, Idle)
    /\ UNCHANGED <<jobs, objects, submitted, mishaps>>

DeleteSchedulerLock(r) ==
    /\ run[r].phase = "release"
    /\ locks' = Unlocked(r)
    /\ expired' = expired \ {<<run[r].name, Held(r)>>}
    /\ Become(r, Idle)
    /\ UNCHANGED <<jobs, objects, submitted, mishaps>>

(* A run that stops keeps its row in the table, and the row has no owner.  *)
Abandoned(r) ==
    LET n == run[r].name
    IN /\ locks' = IF locks[n][Held(r)] = 0 THEN locks
                   ELSE [locks EXCEPT ![n][Left(r)] = locks[n][Held(r)],
                                      ![n][Held(r)] = 0]
       /\ expired' = expired \ {<<n, Held(r)>>, <<n, Left(r)>>}
       /\ Become(r, Idle)

-----------------------------------------------------------------------------
(* deleteMarkForDeleteRecords.                                             *)

(* The Limit oldest jobs in the table.                                     *)
Latest ==
    {j \in Jobs : /\ jobs[j].stored
                  /\ Cardinality({k \in Jobs : jobs[k].stored /\ k < j}) < Limit}

Unstarted(j) == j \in Latest /\ jobs[j].started = "no"

(* A worker takes the first that has not been started.                     *)
GetLatestMarkForDeleteRecords(r, j) ==
    /\ r \in Workers
    /\ run[r].phase = "idle"
    /\ Unstarted(j)
    /\ \A k \in Jobs : Unstarted(k) => j <= k
    /\ Become(r, [Idle EXCEPT !.phase = "lock", !.name = j])
    /\ UNCHANGED <<jobs, objects, locks, expired, submitted, mishaps>>

(* The whole row is written, as it was read, and nothing if it is gone.    *)
UpdateMarkForDelete(j, started, completed) ==
    jobs' = IF jobs[j].stored
            THEN [jobs EXCEPT ![j] = [stored |-> TRUE, started |-> started,
                                      completed |-> completed]]
            ELSE jobs

StartJob(r) ==
    /\ run[r].phase = "start"
    /\ UpdateMarkForDelete(run[r].name, "recent", FALSE)
    /\ Goto(r, "delete")
    /\ UNCHANGED <<objects, locks, expired, submitted, mishaps>>

DeleteObject(r) ==
    /\ run[r].phase = "delete"
    /\ run[r].name \notin Broken
    /\ objects' = [objects EXCEPT ![run[r].name] = "deleted"]
    /\ Become(r, [run[r] EXCEPT !.phase = "finish", !.todo = {"complete", "unlock"}])
    /\ UNCHANGED <<jobs, locks, expired, submitted, mishaps>>

DeletionFails_Faulty(r) ==
    /\ run[r].phase = "delete"
    /\ IF run[r].name \in Broken THEN UNCHANGED mishaps ELSE Mishap
    /\ Become(r, [run[r] EXCEPT !.phase = "finish", !.todo = {"complete", "unlock"}])
    /\ UNCHANGED <<jobs, objects, locks, expired, submitted>>

(* The error is logged, onFinished is not called: the job stays started
   and the lock row stays.                                                 *)
DeletionFails(r) ==
    /\ run[r].phase = "delete"
    /\ IF run[r].name \in Broken THEN UNCHANGED mishaps ELSE Mishap
    /\ Abandoned(r)
    /\ UNCHANGED <<jobs, objects, submitted>>

(* onFinished waits for neither of its two statements.                     *)
CompleteJob(r) ==
    /\ run[r].phase = "finish"
    /\ "complete" \in run[r].todo
    /\ UpdateMarkForDelete(run[r].name, "recent", TRUE)
    /\ Become(r, [run[r] EXCEPT !.todo = @ \ {"complete"}])
    /\ UNCHANGED <<objects, locks, expired, submitted, mishaps>>

UnlockJob(r) ==
    /\ run[r].phase = "finish"
    /\ "unlock" \in run[r].todo
    /\ locks' = Unlocked(r)
    /\ expired' = expired \ {<<run[r].name, Held(r)>>}
    /\ Become(r, [run[r] EXCEPT !.todo = @ \ {"unlock"}])
    /\ UNCHANGED <<jobs, objects, submitted, mishaps>>

FinishJob(r) ==
    /\ run[r].phase = "finish"
    /\ run[r].todo = {}
    /\ Become(r, Idle)
    /\ UNCHANGED <<jobs, objects, locks, expired, submitted, mishaps>>

-----------------------------------------------------------------------------
(* deleteExpiredRecords.                                                   *)

DeleteExpiredRecords(r) ==
    /\ r \in Reapers
    /\ run[r].phase = "idle"
    /\ Goto(r, "lock")
    /\ UNCHANGED <<jobs, objects, locks, expired, submitted, mishaps>>

(* schedulerDao.deleteExpiredData: the only statement that ever removes a
   row whose owner is gone.                                                *)
DeleteExpiredLocks(r) ==
    /\ run[r].phase = "purge"
    /\ locks' = [n \in Names |-> [row \in Rows |->
                    IF <<n, row>> \in expired THEN 0 ELSE locks[n][row]]]
    /\ expired' = {}
    /\ Goto(r, "sweep")
    /\ UNCHANGED <<jobs, objects, submitted, mishaps>>

DeleteCompletedRecords_Faulty(r) ==
    /\ run[r].phase = "sweep"
    /\ jobs' = [j \in Jobs |->
                    IF jobs[j].started # "no" THEN NoJob ELSE jobs[j]]
    /\ Goto(r, "scan")
    /\ UNCHANGED <<objects, locks, expired, submitted, mishaps>>

DeleteCompletedRecords(r) ==
    /\ run[r].phase = "sweep"
    /\ jobs' = [j \in Jobs |-> IF jobs[j].completed THEN NoJob ELSE jobs[j]]
    /\ Goto(r, "scan")
    /\ UNCHANGED <<objects, locks, expired, submitted, mishaps>>

(* resetStalledJobs reads the stalled jobs, then writes each of them back. *)
FindStalledJobs(r) ==
    /\ run[r].phase = "scan"
    /\ Become(r, [run[r] EXCEPT !.phase = "reset",
           !.stalled = {j \in Jobs : /\ jobs[j].stored /\ ~jobs[j].completed
                                     /\ jobs[j].started = "stalled"}])
    /\ UNCHANGED <<jobs, objects, locks, expired, submitted, mishaps>>

ResetStalledJob_Faulty(r, j) ==
    /\ run[r].phase = "reset"
    /\ j \in run[r].stalled
    /\ UpdateMarkForDelete(j, "recent", FALSE)
    /\ Become(r, [run[r] EXCEPT !.stalled = @ \ {j}])
    /\ UNCHANGED <<objects, locks, expired, submitted, mishaps>>

ResetStalledJob(r, j) ==
    /\ run[r].phase = "reset"
    /\ j \in run[r].stalled
    /\ UpdateMarkForDelete(j, "no", FALSE)
    /\ Become(r, [run[r] EXCEPT !.stalled = @ \ {j}])
    /\ UNCHANGED <<objects, locks, expired, submitted, mishaps>>

StalledJobsReset(r) ==
    /\ run[r].phase = "reset"
    /\ run[r].stalled = {}
    /\ Goto(r, "release")
    /\ UNCHANGED <<jobs, objects, locks, expired, submitted, mishaps>>

(* Any of the statements is rejected, those on other tables included: the
   rest of the round is skipped.  So is a worker's when it cannot start.   *)
RoundFails(r) ==
    /\ run[r].phase \in {"start", "purge", "sweep", "scan", "reset"}
    /\ Mishap
    /\ Become(r, [run[r] EXCEPT !.phase = "release", !.stalled = {}])
    /\ UNCHANGED <<jobs, objects, locks, expired, submitted>>

-----------------------------------------------------------------------------
(* Time and failures.                                                      *)

(* A run that takes longer than its lock lives, half an hour or two hours,
   counts as a mishap.                                                     *)
LockExpires(n, row) ==
    /\ locks[n][row] # 0 /\ <<n, row>> \notin expired
    /\ expired' = expired \cup {<<n, row>>}
    /\ IF row.left THEN UNCHANGED mishaps ELSE Mishap
    /\ UNCHANGED <<jobs, objects, locks, run, submitted>>

WorksOn(r, j) ==
    r \in Workers /\ run[r].phase \in {"start", "delete", "finish"} /\ run[r].name = j

(* A day passes since the job was started.  That a deletion is still under
   way by then happens, but not all the time.                              *)
JobStalls(j) ==
    /\ jobs[j].stored /\ jobs[j].started = "recent"
    /\ jobs' = [jobs EXCEPT ![j].started = "stalled"]
    /\ IF \E r \in Runs : WorksOn(r, j) THEN Mishap ELSE UNCHANGED mishaps
    /\ UNCHANGED <<objects, locks, expired, run, submitted>>

(* The instance of a run stops, or the insertion or the reading of the
   lock rows is rejected.                                                  *)
Stop(r) ==
    /\ r \in Mortal
    /\ run[r].phase # "idle"
    /\ Mishap
    /\ Abandoned(r)
    /\ UNCHANGED <<jobs, objects, submitted>>

-----------------------------------------------------------------------------
Continue(r) ==
    \/ CreateSchedulerLock(r)
    \/ GetSchedulerLocksByName(r)
    \/ DeleteSchedulerLock(r)
    \/ StartJob(r)
    \/ DeleteObject(r)
    \/ DeletionFails(r)
    \/ CompleteJob(r)
    \/ UnlockJob(r)
    \/ FinishJob(r)
    \/ DeleteExpiredLocks(r)
    \/ DeleteCompletedRecords(r)
    \/ FindStalledJobs(r)
    \/ \E j \in Jobs : ResetStalledJob(r, j)
    \/ StalledJobsReset(r)
    \/ RoundFails(r)

Next ==
    \/ \E j \in Jobs : FlagObject(j)
    \/ \E j \in Jobs : StoreJob(j)
    \/ \E r \in Workers, j \in Jobs : GetLatestMarkForDeleteRecords(r, j)
    \/ \E r \in Reapers : DeleteExpiredRecords(r)
    \/ \E r \in Runs : Continue(r)
    \/ \E n \in Names, row \in Rows : LockExpires(n, row)
    \/ \E j \in Jobs : JobStalls(j)
    \/ \E r \in Runs : Stop(r)

Spec == Init /\ [][Next]_vars

(* Runs go on, a reaper starts again after each round, time passes.  A
   worker starts every five minutes and a job stalls after a day: a job that
   is the next one to be taken again and again is taken.                   *)
FairSpec ==
    /\ Spec
    /\ \A r \in Runs : WF_vars(Continue(r))
    /\ \A r \in Reapers : WF_vars(DeleteExpiredRecords(r))
    /\ \A r \in Workers, j \in Jobs : SF_vars(GetLatestMarkForDeleteRecords(r, j))
    /\ \A n \in Names, r \in Runs : WF_vars(LockExpires(n, Left(r)))
    /\ \A j \in Jobs : WF_vars(JobStalls(j))

-----------------------------------------------------------------------------
(* Properties.                                                             *)

(* The values of the tables and the runs: a worker holds the lock of a job,
   a reaper that of the clean-up, and an idle run holds nothing.           *)
TypeOK ==
    /\ jobs \in [Jobs -> JobRows]
    /\ objects \in [Jobs -> {"live", "flagged", "deleted"}]
    /\ locks \in [Names -> [Rows -> StartTimes \cup {0}]]
    /\ expired \subseteq Names \X Rows
    /\ run \in [Runs -> RunStates]
    /\ \A r \in Workers :
           run[r] # Idle => run[r].phase \in WorkerPhases /\ run[r].name \in Jobs
    /\ \A r \in Reapers :
           run[r] # Idle => run[r].phase \in ReaperPhases /\ run[r].name = DeleteExpiredData
    /\ submitted \subseteq Jobs
    /\ mishaps \in 0 .. MaxMishaps

(* A job is shown as completed, and so removed from the table, only after
   its object was deleted, whatever stops, fails or is written back stale. *)
CompletedIsDeleted ==
    \A j \in Jobs : jobs[j].completed => objects[j] = "deleted"

(* A job that was stored stays in the table until its object is deleted.   *)
JobKeptUntilDone ==
    \A j \in submitted : ~jobs[j].stored => objects[j] = "deleted"

(* Between rounds no run has a row of its own in scheduler_lock: the winner
   and the losers remove theirs.  Rows without owner come from mishaps and
   from broken jobs only.                                                  *)
LocksAreReleased ==
    /\ \A r \in Runs, n \in Names :
           locks[n][Held(r)] # 0 => run[r].phase # "idle" /\ run[r].name = n
    /\ mishaps = 0 /\ Broken = {} =>
           \A r \in Runs, n \in Names : locks[n][Left(r)] = 0

(* Every object that can be deleted is deleted some day, and its job leaves
   the table, also when fewer than Limit jobs before it fail for ever.     *)
JobsGetDone ==
    \A j \in Jobs \ Broken :
        j \in submitted ~> objects[j] = "deleted" /\ ~jobs[j].stored

(* "Any job which has started but not completed within 24 hours ... should
   be restarted on the next round of delete operations."                   *)
StalledJobsRestart ==
    \A j \in Jobs :
        jobs[j] = [stored |-> TRUE, started |-> "stalled", completed |-> FALSE] ~>
            jobs[j].started # "stalled" \/ jobs[j].completed

=============================================================================
