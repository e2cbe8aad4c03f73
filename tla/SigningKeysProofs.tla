--------------------------- MODULE SigningKeysProofs ---------------------------
(***************************************************************************)
(* Proofs about SigningKeys, for any number of servers, requests, keys and *)
(* months.                                                                 *)
(*                                                                         *)
(* Everything rests on what one step may do to a key (KeyStep): its dates  *)
(* never change, a deleted key stays deleted.  From that follow what a     *)
(* copy of the keys and a token have in common with the table (CopyFits,   *)
(* TokenFits), and, with the election by lock rows, that a month without a *)
(* server that stopped brings a fresh key (JobInv).                        *)
(***************************************************************************)
EXTENDS SigningKeys, FiniteSetTheorems, TLAPS

Live == {"ACTIVE", "REVOKED"}

(* A list of keys that was read in the month loaded, against the table.    *)
CopyFits(list, loaded) ==
    /\ loaded <= month
    /\ month <= loaded + 1
    /\ \A k \in list : keys[k].status # "unborn"
    /\ \A k \in list : keys[k].status \in Live =>
           keys[k].created <= loaded /\ loaded < keys[k].expires
    /\ \A k \in KeyIds :
           (keys[k].status \in Live /\ keys[k].created < loaded /\ loaded < keys[k].expires)
               => k \in list

CopiesFit ==
    /\ \A k \in KeyIds : keys[k].status \in Live => keys[k].created <= month
    /\ \A s \in Servers : cache[s].here => CopyFits(cache[s].list, cache[s].loaded)
    /\ \A s \in Servers : ~cache[s].here => cache[s].list = {}
    /\ \A r \in Requests : req[r].phase = "store" =>
           /\ CopyFits(req[r].list, req[r].loaded)
           /\ req[r].loaded = month
           /\ req[r].server \in Servers

TokenFits ==
    \/ token = NoToken
    \/ /\ token.key \in KeyIds
       /\ token.from <= month
       /\ month <= token.from + 1
       /\ keys[token.key].status # "unborn"
       /\ keys[token.key].status \in Live =>
              keys[token.key].created <= token.from /\ token.from < keys[token.key].expires

(* A row that is going to be written has the dates of the row it replaces,
   and its status, unless somebody else is at work on the key.             *)
WritesFit ==
    /\ \A r \in Requests : req[r].phase = "write" =>
           LET row == req[r].row
               key == keys[req[r].key]
           IN /\ row.status \in Live
              /\ key.status # "unborn"
              /\ key.status \in Live => row.created = key.created /\ row.expires = key.expires
              /\ (key.status = "REVOKED" /\ req[r].key \notin crossed) => row.status = "REVOKED"
    /\ \A r, q \in Requests :
           (r # q /\ req[r].phase = "write" /\ req[q].phase = "write"
               /\ req[r].key = req[q].key) => req[r].key \in crossed

(* A key that lives that long; or an administrator deleted one.            *)
Fresh(table, n) ==
    \E k \in KeyIds :
        \/ table[k].status = "deleted"
        \/ table[k].status \in Live /\ n <= table[k].expires

JobInv ==
    /\ lost <= month
    /\ \A s \in Servers : run[s].phase = "due" => run[s].start = 0
    /\ \A s \in Servers :
           run[s].phase \in {"insert", "list", "create", "unlock"} => run[s].start # 0
    /\ (\E s \in Servers : run[s].start # 0) => \E s \in Servers : run[s].start = 1
    /\ \A s \in Servers :
           (run[s].phase \in {"unlock", "done"} /\ run[s].start \in {0, 1})
               => Fresh(keys, month + KeyMonths)
    /\ Fresh(keys, month + KeyMonths - (lost + 1))

IInv == TypeOK /\ CopiesFit /\ TokenFits /\ WritesFit /\ JobInv

(* What a step may do to a key.                                            *)
KeyStep ==
    \A k \in KeyIds :
        /\ keys[k].status \in Live /\ keys'[k].status # "deleted" =>
               /\ keys'[k].status \in Live
               /\ keys'[k].created = keys[k].created
               /\ keys'[k].expires = keys[k].expires
        /\ keys[k].status = "deleted" => keys'[k].status = "deleted"
        /\ keys[k].status = "unborn" => keys'[k].status \in {"unborn", "ACTIVE"}
        /\ keys[k].status = "unborn" /\ keys'[k].status = "ACTIVE" => keys'[k].created = month

-----------------------------------------------------------------------------
(* What was there in the beginning.                                        *)

LEMMA Values ==
    /\ Unborn \in Rows /\ Idle \in ReqStates /\ NoCache \in Caches
    /\ NoToken \in Tokens /\ NotStarted \in Runs
    /\ 1 \in KeyIds /\ 0 \in Months /\ MaxMonth \in Nat /\ MaxKeys \in Nat
    /\ MaxMishaps \in Nat /\ KeyMonths \in Nat /\ KeyMonths # 0
    /\ Cardinality(Servers) \in Nat
BY ConstantsOk, FS_CardinalityType DEF Unborn, Rows, Idle, ReqStates, NoCache, Caches, NoToken,
   Tokens, NotStarted, Runs, RunPhases, KeyIds, Months, Expiries

LEMMA InitType == Init => TypeOK
<1>. SUFFICES ASSUME Init PROVE TypeOK
    OBVIOUS
<1>1. keys \in [KeyIds -> Rows]
    BY Values DEF Init, Rows, Months, Expiries
<1>2. run \in [Servers -> Runs]
    BY Values DEF Init, Runs, RunPhases, NotStarted
<1>3. cache \in [Servers -> Caches] /\ req \in [Requests -> ReqStates] /\ token \in Tokens
    BY Values DEF Init
<1>4. \A s \in Servers, k \in KeyIds : k \notin cache[s].list
    BY DEF Init, NoCache
<1>5. month \in Months /\ lost \in Months /\ mishaps \in 0 .. MaxMishaps
    BY Values DEF Init
<1>6. locks = {} /\ crossed = {}
    BY DEF Init
<1>. QED  BY <1>1, <1>2, <1>3, <1>4, <1>5, <1>6 DEF TypeOK

LEMMA InitFits == Init => CopiesFit /\ TokenFits /\ WritesFit /\ JobInv
<1>. SUFFICES ASSUME Init PROVE CopiesFit /\ TokenFits /\ WritesFit /\ JobInv
    OBVIOUS
<1>1. CopiesFit
    BY Values DEF Init, CopiesFit, NoCache, Idle, Live, Unborn
<1>2. TokenFits
    BY DEF Init, TokenFits
<1>3. WritesFit
    BY DEF Init, WritesFit, Idle
<1>4. \A n \in Int : n <= KeyMonths => Fresh(keys, n)
    BY Values DEF Init, Fresh, Live, Unborn
<1>5. JobInv
    BY <1>4, Values DEF Init, JobInv, NotStarted
<1>. QED  BY <1>1, <1>2, <1>3, <1>5

-----------------------------------------------------------------------------
(* Keys.                                                                   *)

LEMMA CreateKeyMoves ==
    ASSUME TypeOK, NEW expires \in Expiries, CreateKey(expires)
    PROVE  /\ keys' \in [KeyIds -> Rows]
           /\ KeyStep
           /\ \E k \in KeyIds : keys'[k].status = "ACTIVE" /\ keys'[k].expires = expires
<1>1. PICK k \in KeyIds :
          /\ keys[k].status = "unborn"
          /\ keys' = [keys EXCEPT ![k] = [status |-> "ACTIVE", marked |-> FALSE,
                                         created |-> month, expires |-> expires]]
    BY DEF CreateKey
<1>2. [status |-> "ACTIVE", marked |-> FALSE, created |-> month, expires |-> expires] \in Rows
    BY DEF TypeOK, Rows
<1>3. keys' \in [KeyIds -> Rows]
    BY <1>1, <1>2 DEF TypeOK
<1>4. /\ keys'[k].status = "ACTIVE" /\ keys'[k].created = month /\ keys'[k].expires = expires
      /\ \A j \in KeyIds \ {k} : keys'[j] = keys[j]
    BY <1>1 DEF TypeOK
<1>5. \A j \in KeyIds : keys[j].status \in {"unborn", "ACTIVE", "REVOKED", "deleted"}
    BY DEF TypeOK, Rows
<1>. QED  BY <1>1, <1>3, <1>4, <1>5 DEF KeyStep, Live

LEMMA WriteKeyMoves ==
    ASSUME TypeOK, WritesFit, NEW r \in Requests, WriteKey(r)
    PROVE  keys' \in [KeyIds -> Rows] /\ KeyStep
<1>. DEFINE k == req[r].key
<1>1. /\ req[r] \in ReqStates
      /\ \A j \in KeyIds : keys[j].status \in {"unborn", "ACTIVE", "REVOKED", "deleted"}
    BY DEF TypeOK, Rows
<1>2. k \in KeyIds /\ req[r].row \in Rows
    BY <1>1 DEF ReqStates
<1>3. /\ req[r].row.status \in Live
      /\ keys[k].status \in Live => /\ req[r].row.created = keys[k].created
                                    /\ req[r].row.expires = keys[k].expires
    BY DEF WritesFit, WriteKey
<1>4. CASE k \in Stored
    <2>1. /\ keys' = [keys EXCEPT ![k] = req[r].row]
          /\ keys[k].status \in Live
        BY <1>4 DEF WriteKey, Stored, Live
    <2>2. keys' \in [KeyIds -> Rows]
        BY <2>1, <1>2 DEF TypeOK
    <2>3. keys'[k] = req[r].row /\ \A j \in KeyIds \ {k} : keys'[j] = keys[j]
        BY <2>1, <1>2 DEF TypeOK
    <2>. QED  BY <1>1, <1>2, <1>3, <2>1, <2>2, <2>3 DEF KeyStep, Live
<1>5. CASE k \notin Stored
    BY <1>1, <1>5 DEF WriteKey, TypeOK, KeyStep, Live
<1>. QED  BY <1>4, <1>5

LEMMA DeleteKeyMoves ==
    ASSUME TypeOK, NEW k \in KeyIds, DeleteSigningKey(k)
    PROVE  keys' \in [KeyIds -> Rows] /\ KeyStep
<1>1. [Unborn EXCEPT !.status = "deleted"] \in Rows
    BY Values DEF Rows
<1>2. keys' = [keys EXCEPT ![k] = [Unborn EXCEPT !.status = "deleted"]]
    BY DEF DeleteSigningKey
<1>3. [Unborn EXCEPT !.status = "deleted"].status = "deleted"
    BY Values DEF Unborn
<1>4. keys' \in [KeyIds -> Rows]
    BY <1>1, <1>2 DEF TypeOK
<1>5. keys'[k].status = "deleted" /\ \A j \in KeyIds \ {k} : keys'[j] = keys[j]
    BY <1>2, <1>3 DEF TypeOK
<1>6. /\ keys[k].status \in Live
      /\ \A j \in KeyIds : keys[j].status \in {"unborn", "ACTIVE", "REVOKED", "deleted"}
    BY DEF TypeOK, Rows, DeleteSigningKey, Stored, Live
<1>. QED  BY <1>4, <1>5, <1>6 DEF KeyStep, Live

LEMMA SameKeys ==
    ASSUME TypeOK, keys' = keys
    PROVE  keys' \in [KeyIds -> Rows] /\ KeyStep
<1>1. \A k \in KeyIds : keys[k].status \in {"unborn", "ACTIVE", "REVOKED", "deleted"}
    BY DEF TypeOK, Rows
<1>. QED  BY <1>1 DEF TypeOK, KeyStep, Live

(* The steps that write no key.                                            *)
LEMMA OtherSteps ==
    /\ \A s \in Servers : Job(s) => RunCreate(s) \/ keys' = keys
    /\ \A s \in Servers : Copies(s) \/ StopServer(s) => keys' = keys
    /\ \A r \in Requests : StoreKeys(r) => keys' = keys
    /\ DeleteExpiredLocks \/ NextMonth => keys' = keys
<1>1. \A s \in Servers : Job(s) => RunCreate(s) \/ keys' = keys
    BY DEF Job, RunStart, CreateSchedulerLock, ListLocks, DeleteSchedulerLock
<1>2. \A s \in Servers : Copies(s) \/ StopServer(s) => keys' = keys
    BY DEF Copies, LoadKeys, SignJwt, ExpireArray, StopServer
<1>. QED  BY <1>1, <1>2 DEF StoreKeys, DeleteExpiredLocks, NextMonth

LEMMA LaterExpiries ==
    ASSUME TypeOK
    PROVE  /\ month + KeyMonths \in Expiries
           /\ \A expires \in AdminExpiries : month + expires \in Expiries
BY Values, ConstantsOk DEF TypeOK, Months, Expiries

LEMMA KeysMove ==
    ASSUME TypeOK, WritesFit, Next
    PROVE  keys' \in [KeyIds -> Rows] /\ KeyStep
<1>1. ASSUME NEW s \in Servers, RunCreate(s)
      PROVE  keys' \in [KeyIds -> Rows] /\ KeyStep
    BY <1>1, LaterExpiries, CreateKeyMoves DEF RunCreate
<1>2. ASSUME Administration
      PROVE  keys' \in [KeyIds -> Rows] /\ KeyStep
    <2>1. ASSUME NEW expires \in AdminExpiries, CreateSigningKey(month + expires)
          PROVE  keys' \in [KeyIds -> Rows] /\ KeyStep
        BY <2>1, LaterExpiries, CreateKeyMoves DEF CreateSigningKey
    <2>2. ASSUME NEW r \in Requests, NEW k \in Stored, NEW status,
                 UpdateSigningKey(r, k, status) \/ MarkForDelete(r, k)
          PROVE  keys' \in [KeyIds -> Rows] /\ KeyStep
        BY <2>2, SameKeys DEF UpdateSigningKey, MarkForDelete
    <2>3. ASSUME NEW k \in Stored, DeleteSigningKey(k)
          PROVE  keys' \in [KeyIds -> Rows] /\ KeyStep
        BY <2>3, DeleteKeyMoves DEF Stored
    <2>. QED  BY <1>2, <2>1, <2>2, <2>3 DEF Administration
<1>3. CASE keys' = keys
    BY <1>3, SameKeys
<1>4. ASSUME NEW r \in Requests, WriteKey(r)
      PROVE  keys' \in [KeyIds -> Rows] /\ KeyStep
    BY <1>4, WriteKeyMoves
<1>. QED  BY <1>1, <1>2, <1>3, <1>4, OtherSteps DEF Next

-----------------------------------------------------------------------------
(* The steps that leave a part of the state alone.                         *)

LEMMA Quiet ==
    ASSUME Next
    PROVE  /\ (month' = month /\ lost' = lost) \/ NextMonth
           /\ run' = run \/ NextMonth \/ \E s \in Servers : Job(s) \/ StopServer(s)
           /\ token' = token \/ NextMonth \/ (\E s \in Servers : SignJwt(s))
              \/ (\E r \in Requests : StoreKeys(r))
<1>1. ASSUME NEW s \in Servers, Job(s)
      PROVE  month' = month /\ lost' = lost /\ token' = token
    BY <1>1 DEF Job, RunStart, CreateSchedulerLock, ListLocks, RunCreate, DeleteSchedulerLock
<1>2. ASSUME NEW s \in Servers, Copies(s)
      PROVE  month' = month /\ lost' = lost /\ run' = run /\ (token' = token \/ SignJwt(s))
    BY <1>2 DEF Copies, LoadKeys, SignJwt, ExpireArray
<1>3. ASSUME NEW s \in Servers, StopServer(s)
      PROVE  month' = month /\ lost' = lost /\ token' = token
    BY <1>3 DEF StopServer
<1>4. ASSUME NEW r \in Requests, StoreKeys(r) \/ WriteKey(r)
      PROVE  month' = month /\ lost' = lost /\ run' = run /\ (token' = token \/ StoreKeys(r))
    BY <1>4 DEF StoreKeys, WriteKey
<1>5. ASSUME DeleteExpiredLocks \/ Administration
      PROVE  month' = month /\ lost' = lost /\ run' = run /\ token' = token
    BY <1>5 DEF DeleteExpiredLocks, Administration, CreateSigningKey, UpdateSigningKey,
                MarkForDelete, DeleteSigningKey
<1>. QED  BY <1>1, <1>2, <1>3, <1>4, <1>5 DEF Next

LEMMA TimeType ==
    ASSUME TypeOK, JobInv, Next
    PROVE  month' \in Months /\ lost' \in Months /\ lost' <= month'
<1>1. CASE month' = month /\ lost' = lost
    BY <1>1 DEF TypeOK, JobInv
<1>2. CASE NextMonth
    BY <1>2, Values DEF NextMonth, TypeOK, JobInv, Months
<1>. QED  BY <1>1, <1>2, Quiet

-----------------------------------------------------------------------------
(* The job and its locks.                                                  *)

(* The rank a run gets: one more than the runs that took theirs.           *)
LEMMA NextRank ==
    ASSUME TypeOK, NEW s \in Servers, run[s].start = 0
    PROVE  LET started == {q \in Servers : run[q].start # 0}
           IN /\ Cardinality(started) \in Nat
              /\ 1 + Cardinality(started) \in Ranks
              /\ started = {} => 1 + Cardinality(started) = 1
<1>. DEFINE started == {q \in Servers : run[q].start # 0}
<1>1. started \subseteq Servers \ {s}
    OBVIOUS
<1>2. /\ IsFiniteSet(Servers \ {s})
      /\ Cardinality(Servers \ {s}) = Cardinality(Servers) - 1
    BY ConstantsOk, FS_RemoveElement
<1>3. /\ IsFiniteSet(started)
      /\ Cardinality(started) <= Cardinality(Servers \ {s})
    BY <1>1, <1>2, FS_Subset
<1>4. Cardinality(started) \in Nat
    BY <1>3, FS_CardinalityType
<1>5. started = {} => Cardinality(started) = 0
    BY FS_EmptySet
<1>. HIDE DEF started
<1>6. /\ Cardinality(started) \in Nat
      /\ 1 + Cardinality(started) \in Ranks
      /\ started = {} => 1 + Cardinality(started) = 1
    BY <1>2, <1>3, <1>4, <1>5, Values DEF Ranks
<1>. QED  BY <1>6 DEF started

(* What a step does to a run.                                              *)
RunStep(s) ==
    \/ run'[s] = run[s]
    \/ run[s].phase = "due" /\ run'[s].phase = "insert" /\ run'[s].start # 0
       /\ run'[s].start = 1 + Cardinality({q \in Servers : run[q].start # 0})
    \/ /\ run'[s].start = run[s].start
       /\ \/ run[s].phase = "insert" /\ run'[s].phase = "list"
          \/ run[s].phase = "list" /\ run'[s].phase = AfterList(s)
          \/ run[s].phase = "create" /\ run'[s].phase = "unlock"
             /\ CreateKey(month + KeyMonths)
          \/ run[s].phase = "unlock" /\ run'[s].phase = "done"
          \/ run[s].phase # "done" /\ run'[s].phase = "dead"

LEMMA PhaseStep ==
    ASSUME TypeOK, NEW s \in Servers, NEW phase \in RunPhases, Step(s, phase)
    PROVE  /\ run' \in [Servers -> Runs]
           /\ run'[s].phase = phase /\ run'[s].start = run[s].start
           /\ \A q \in Servers \ {s} : run'[q] = run[q]
<1>1. run[s] \in Runs
    BY DEF TypeOK
<1>2. /\ [run[s] EXCEPT !.phase = phase] \in Runs
      /\ [run[s] EXCEPT !.phase = phase].phase = phase
      /\ [run[s] EXCEPT !.phase = phase].start = run[s].start
    BY <1>1 DEF Runs
<1>3. run' = [run EXCEPT ![s] = [run[s] EXCEPT !.phase = phase]]
    BY DEF Step, TypeOK
<1>. QED  BY <1>2, <1>3 DEF TypeOK

LEMMA JobMoves ==
    ASSUME TypeOK, JobInv, NEW s \in Servers, Job(s)
    PROVE  /\ run' \in [Servers -> Runs]
           /\ RunStep(s)
           /\ \A q \in Servers \ {s} : run'[q] = run[q]
<1>1. CASE RunStart(s)
    <2>1. run[s].start = 0
        BY <1>1 DEF RunStart, JobInv
    <2>. DEFINE rank == 1 + Cardinality({q \in Servers : run[q].start # 0})
    <2>2. rank \in Ranks
        BY <2>1, NextRank
    <2>3. run' = [run EXCEPT ![s] = [phase |-> "insert", start |-> rank]]
        BY <1>1 DEF RunStart
    <2>4. rank # 0 /\ [phase |-> "insert", start |-> rank] \in Runs
        <3>. HIDE DEF rank
        <3>. QED  BY <2>2, Values DEF Runs, RunPhases, Ranks
    <2>5. run[s].phase = "due"
        BY <1>1 DEF RunStart
    <2>. QED  BY <2>3, <2>4, <2>5 DEF TypeOK, RunStep
<1>2. CASE CreateSchedulerLock(s)
    BY <1>2, PhaseStep DEF CreateSchedulerLock, RunStep, RunPhases
<1>3. CASE ListLocks(s)
    <2>1. AfterList(s) \in RunPhases
        BY DEF AfterList, RunPhases
    <2>. QED  BY <1>3, <2>1, PhaseStep DEF ListLocks, RunStep
<1>4. CASE RunCreate(s)
    BY <1>4, PhaseStep DEF RunCreate, RunStep, RunPhases
<1>5. CASE DeleteSchedulerLock(s)
    BY <1>5, PhaseStep DEF DeleteSchedulerLock, RunStep, RunPhases
<1>. QED  BY <1>1, <1>2, <1>3, <1>4, <1>5 DEF Job

LEMMA StopMoves ==
    ASSUME TypeOK, NEW s \in Servers, StopServer(s)
    PROVE  /\ run' \in [Servers -> Runs]
           /\ RunStep(s)
           /\ \A q \in Servers \ {s} : run'[q] = run[q]
<1>1. CASE run[s].phase = "done"
    BY <1>1 DEF StopServer, RunStep, TypeOK
<1>2. CASE run[s].phase # "done"
    <2>1. Step(s, "dead")
        BY <1>2 DEF StopServer, Step
    <2>. QED  BY <1>2, <2>1, PhaseStep DEF RunStep, RunPhases
<1>. QED  BY <1>1, <1>2

LEMMA RunsMove ==
    ASSUME TypeOK, JobInv, Next
    PROVE  /\ run' \in [Servers -> Runs]
           /\ ~NextMonth => \A s \in Servers : RunStep(s)
<1>1. ASSUME NEW s \in Servers, Job(s) \/ StopServer(s)
      PROVE  run' \in [Servers -> Runs] /\ \A q \in Servers : RunStep(q)
    BY <1>1, JobMoves, StopMoves DEF RunStep
<1>2. CASE run' = run
    BY <1>2 DEF TypeOK, RunStep
<1>3. CASE NextMonth
    BY <1>3, Values DEF NextMonth
<1>. QED  BY <1>1, <1>2, <1>3, Quiet

LEMMA LocksMove ==
    ASSUME TypeOK, JobInv, Next
    PROVE  locks' \subseteq Locks
           /\ \A l \in locks' : run'[l.of].phase \in {"list", "create", "unlock", "dead"}
<1>0. /\ \A s \in Servers : run[s] \in Runs
      /\ \A l \in locks : l.of \in Servers
    BY DEF TypeOK, Locks
<1>1. ASSUME NEW s \in Servers, CreateSchedulerLock(s)
      PROVE  locks' \subseteq Locks
             /\ \A l \in locks' : run'[l.of].phase \in {"list", "create", "unlock", "dead"}
    <2>1. /\ run'[s].phase = "list"
          /\ \A q \in Servers \ {s} : run'[q] = run[q]
        BY <1>1, PhaseStep DEF CreateSchedulerLock, RunPhases
    <2>2. run[s].start \in Ranks
        BY <1>0, <1>1, Values DEF CreateSchedulerLock, JobInv, Runs, Ranks
    <2>3. locks' = locks \cup {[of |-> s, start |-> run[s].start]}
        BY <1>1 DEF CreateSchedulerLock
    <2>4. [of |-> s, start |-> run[s].start] \in Locks
        BY <2>2 DEF Locks
    <2>. QED  BY <1>0, <2>1, <2>3, <2>4 DEF TypeOK
<1>2. ASSUME NEW s \in Servers, DeleteSchedulerLock(s)
      PROVE  locks' \subseteq Locks
             /\ \A l \in locks' : run'[l.of].phase \in {"list", "create", "unlock", "dead"}
    <2>1. \A q \in Servers \ {s} : run'[q] = run[q]
        BY <1>2, PhaseStep DEF DeleteSchedulerLock, RunPhases
    <2>. QED  BY <1>0, <1>2, <2>1 DEF DeleteSchedulerLock, TypeOK
<1>3. ASSUME locks' \subseteq locks, \A s \in Servers : RunStep(s),
             \A s \in Servers : ~DeleteSchedulerLock(s), \A s \in Servers :
                 run[s].phase = "unlock" => run'[s].phase \in {"unlock", "dead"}
      PROVE  locks' \subseteq Locks
             /\ \A l \in locks' : run'[l.of].phase \in {"list", "create", "unlock", "dead"}
    BY <1>0, <1>3 DEF RunStep, AfterList, TypeOK
<1>4. CASE NextMonth
    BY <1>4 DEF NextMonth
<1>5. ASSUME NEW s \in Servers, RunStart(s) \/ ListLocks(s) \/ RunCreate(s) \/ StopServer(s)
      PROVE  locks' = locks /\ \A q \in Servers :
                 run[q].phase = "unlock" => run'[q].phase \in {"unlock", "dead"}
    <2>1. CASE StopServer(s)
        BY <2>1, StopMoves DEF StopServer, TypeOK
    <2>2. CASE RunStart(s) \/ ListLocks(s) \/ RunCreate(s)
        <3>1. locks' = locks /\ run[s].phase # "unlock"
            BY <2>2 DEF RunStart, ListLocks, RunCreate
        <3>2. \A q \in Servers \ {s} : run'[q] = run[q]
            BY <2>2, JobMoves DEF Job
        <3>. QED  BY <3>1, <3>2
    <2>. QED  BY <1>5, <2>1, <2>2
<1>6. ASSUME NEW s \in Servers, Copies(s)
      PROVE  locks' = locks /\ run' = run
    BY <1>6 DEF Copies, LoadKeys, SignJwt, ExpireArray
<1>7. ASSUME NEW r \in Requests, StoreKeys(r) \/ WriteKey(r)
      PROVE  locks' = locks /\ run' = run
    BY <1>7 DEF StoreKeys, WriteKey
<1>8. ASSUME DeleteExpiredLocks \/ Administration
      PROVE  locks' \subseteq locks /\ run' = run
    BY <1>8 DEF DeleteExpiredLocks, Administration, CreateSigningKey, UpdateSigningKey,
                MarkForDelete, DeleteSigningKey
<1>9. ASSUME ~NextMonth, \A s \in Servers : ~CreateSchedulerLock(s) /\ ~DeleteSchedulerLock(s)
      PROVE  /\ locks' \subseteq locks
             /\ \A s \in Servers :
                    run[s].phase = "unlock" => run'[s].phase \in {"unlock", "dead"}
    BY <1>5, <1>6, <1>7, <1>8, <1>9 DEF Next, Job
<1>. QED  BY <1>1, <1>2, <1>3, <1>4, <1>9, RunsMove

LEMMA FreshRemains ==
    ASSUME TypeOK, KeyStep, NEW n, Fresh(keys, n)
    PROVE  Fresh(keys', n)
BY DEF Fresh, KeyStep

(* No run with the oldest lock ends without a key: the filter keeps none.  *)
LEMMA ElectedCreates ==
    ASSUME TypeOK, NEW s \in Servers, run[s].start = 1
    PROVE  AfterList(s) = "create"
<1>1. \A l \in locks : l.start >= 1
    BY Values DEF TypeOK, Locks, Ranks
<1>2. Elected(s)
    BY <1>1 DEF Elected
<1>3. ShouldCreateKey
    BY DEF ShouldCreateKey, Considered, KeyType, KeyUse
<1>. QED  BY <1>2, <1>3 DEF AfterList

LEMMA JobStep ==
    ASSUME TypeOK, JobInv, KeyStep, run' \in [Servers -> Runs], month' = month, lost' = lost,
           keys' \in [KeyIds -> Rows], \A s \in Servers : RunStep(s)
    PROVE  JobInv'
<1>0. /\ \A s \in Servers : run[s] \in Runs /\ run'[s] \in Runs
      /\ month \in Nat /\ lost \in Nat
    BY Values DEF TypeOK, Months
<1>1. lost' <= month'
    BY DEF JobInv
<1>2. \A s \in Servers : run'[s].phase = "due" => run'[s].start = 0
    BY DEF RunStep, JobInv, AfterList
<1>3. ASSUME NEW s \in Servers, run'[s].phase \in {"insert", "list", "create", "unlock"}
      PROVE  run'[s].start # 0
    BY <1>3 DEF RunStep, JobInv
<1>4. ASSUME NEW s \in Servers, run'[s].start # 0
      PROVE  \E q \in Servers : run'[q].start = 1
    <2>1. CASE \E q \in Servers : run[q].start # 0
        <3>1. PICK q \in Servers : run[q].start = 1
            BY <2>1 DEF JobInv
        <3>2. run[q].phase # "due"
            BY <3>1 DEF JobInv
        <3>3. run'[q].start = 1
            BY <3>1, <3>2 DEF RunStep
        <3>. QED  BY <3>3
    <2>2. CASE \A q \in Servers : run[q].start = 0
        <3>1. run[s].start # run'[s].start
            BY <1>4, <2>2
        <3>2. run'[s].start = 1 + Cardinality({q \in Servers : run[q].start # 0})
            BY <3>1 DEF RunStep
        <3>3. 1 + Cardinality({q \in Servers : run[q].start # 0}) = 1
            BY <2>2, NextRank
        <3>. QED  BY <3>2, <3>3
    <2>. QED  BY <2>1, <2>2
<1>5. ASSUME NEW s \in Servers, run'[s].phase \in {"unlock", "done"}, run'[s].start \in {0, 1}
      PROVE  Fresh(keys', month + KeyMonths)
    <2>1. CASE run[s].phase \in {"unlock", "done"} /\ run[s].start = run'[s].start
        <3>1. Fresh(keys, month + KeyMonths)
            BY <2>1, <1>5 DEF JobInv
        <3>. QED  BY <3>1, FreshRemains
    <2>2. CASE run[s].phase = "list" /\ run'[s].phase = AfterList(s)
               /\ run'[s].start = run[s].start
        <3>1. run[s].start = 1
            BY <1>5, <2>2 DEF JobInv
        <3>. QED  BY <3>1, <1>5, <2>2, ElectedCreates
    <2>3. CASE CreateKey(month + KeyMonths)
        <3>1. PICK k \in KeyIds : keys'[k].status = "ACTIVE" /\ keys'[k].expires = month + KeyMonths
            BY <2>3, LaterExpiries, CreateKeyMoves
        <3>2. month + KeyMonths \in Nat
            BY <1>0, Values
        <3>. QED  BY <3>1, <3>2 DEF Fresh, Live
    <2>. QED  BY <1>5, <2>1, <2>2, <2>3 DEF RunStep
<1>6. Fresh(keys', month + KeyMonths - (lost + 1))
    BY FreshRemains DEF JobInv
<1>. QED  BY <1>1, <1>2, <1>3, <1>4, <1>5, <1>6 DEF JobInv

(* When nobody stopped, whose lock was the oldest has made a key.          *)
LEMMA JobNextMonth ==
    ASSUME TypeOK, JobInv, KeyStep, NextMonth, lost' <= month'
    PROVE  JobInv'
<1>0. /\ month \in Nat /\ lost \in Nat
      /\ \A s \in Servers : run[s] \in Runs
    BY Values DEF TypeOK, Months
<1>1. \A s \in Servers : run'[s].phase = "due" /\ run'[s].start = 0
    BY DEF NextMonth, NotStarted
<1>2. month' = month + 1
    BY DEF NextMonth
<1>3. CASE \E s \in Servers : run[s].phase = "dead"
    <2>1. lost' = lost + 1
        BY <1>3 DEF NextMonth
    <2>2. Fresh(keys', month + KeyMonths - (lost + 1))
        BY FreshRemains DEF JobInv
    <2>3. month' + KeyMonths - (lost' + 1) = month + KeyMonths - (lost + 1)
        BY <1>0, <1>2, <2>1, Values
    <2>. QED  BY <1>1, <2>2, <2>3 DEF JobInv
<1>4. CASE \A s \in Servers : run[s].phase # "dead"
    <2>1. lost' = 0 /\ \A s \in Servers : run[s].phase = "done"
        BY <1>4 DEF NextMonth
    <2>2. PICK s \in Servers : run[s].start \in {0, 1}
        BY ConstantsOk DEF JobInv
    <2>3. Fresh(keys, month + KeyMonths)
        BY <2>1, <2>2 DEF JobInv
    <2>4. keys' = keys
        BY DEF NextMonth
    <2>5. month' + KeyMonths - (lost' + 1) = month + KeyMonths
        BY <1>0, <1>2, <2>1, Values
    <2>. QED  BY <1>1, <2>1, <2>3, <2>4, <2>5 DEF JobInv
<1>. QED  BY <1>3, <1>4

-----------------------------------------------------------------------------
(* Copies and tokens.                                                      *)

LEMMA MonthsPass ==
    ASSUME TypeOK
    PROVE  /\ month \in Nat
           /\ \A k \in KeyIds : keys[k].created \in Nat /\ keys[k].expires \in Nat
                  /\ keys[k].status \in {"unborn", "ACTIVE", "REVOKED", "deleted"}
           /\ \A s \in Servers : /\ cache[s].here \in BOOLEAN /\ cache[s].list \subseteq KeyIds
                  /\ cache[s].loaded \in Nat /\ cache[s].loaded \in Months
           /\ \A r \in Requests : /\ req[r].list \subseteq KeyIds /\ req[r].key \in KeyIds
                  /\ req[r].loaded \in Months /\ req[r].loaded \in Nat
BY Values DEF TypeOK, Rows, Months, Expiries, Caches, ReqStates

LEMMA CopyRemains ==
    ASSUME TypeOK, KeyStep, month' = month,
           NEW list \in SUBSET KeyIds, NEW loaded \in Nat, CopyFits(list, loaded)
    PROVE  CopyFits(list, loaded)'
<1>1. \A k \in list : keys'[k].status # "unborn"
    BY MonthsPass DEF CopyFits, KeyStep, Live
<1>2. \A k \in list : keys'[k].status \in Live =>
          keys'[k].created <= loaded /\ loaded < keys'[k].expires
    BY MonthsPass DEF CopyFits, KeyStep, Live
<1>3. ASSUME NEW k \in KeyIds,
             keys'[k].status \in Live /\ keys'[k].created < loaded /\ loaded < keys'[k].expires
      PROVE  k \in list
    <2>1. CASE keys[k].status = "unborn"
        BY <1>3, <2>1, MonthsPass DEF CopyFits, KeyStep, Live
    <2>2. CASE keys[k].status # "unborn"
        BY <1>3, <2>2, MonthsPass DEF CopyFits, KeyStep, Live
    <2>. QED  BY <2>1, <2>2
<1>. QED  BY <1>1, <1>2, <1>3 DEF CopyFits

(* What is read now.                                                       *)
LEMMA LoadableFits ==
    ASSUME TypeOK, CopiesFit
    PROVE  Loadable \subseteq KeyIds /\ CopyFits(Loadable, month)
BY MonthsPass DEF Loadable, Stored, CopyFits, CopiesFit, Live

(* A copy made in the month that ends.                                     *)
LEMMA CopyAges ==
    ASSUME TypeOK, keys' = keys, month' = month + 1,
           NEW list \in SUBSET KeyIds, NEW loaded \in Nat, CopyFits(list, loaded), ~(loaded < month)
    PROVE  CopyFits(list, loaded)'
BY MonthsPass DEF CopyFits

CacheFits(s) ==
    /\ cache[s].here => CopyFits(cache[s].list, cache[s].loaded)
    /\ ~cache[s].here => cache[s].list = {}

LoadFits(r) ==
    req[r].phase = "store" =>
        /\ CopyFits(req[r].list, req[r].loaded)
        /\ req[r].loaded = month
        /\ req[r].server \in Servers

(* What a step does to the copy of a server.                               *)
CacheStep(s) ==
    \/ cache'[s] = cache[s]
    \/ cache'[s] = NoCache
    \/ \E r \in Requests :
           /\ req[r].phase = "store"
           /\ cache'[s] = [here |-> TRUE, list |-> req[r].list, loaded |-> req[r].loaded]

(* What a step does to a request.                                          *)
LoadStep(r) ==
    \/ req'[r].phase # "store"
    \/ req'[r] = req[r]
    \/ /\ req'[r].list = Loadable /\ req'[r].loaded = month
       /\ req'[r].server \in Servers

LEMMA CachesMove ==
    ASSUME TypeOK, Next
    PROVE  /\ cache' \in [Servers -> Caches]
           /\ \A s \in Servers : CacheStep(s)
<1>1. ASSUME NEW s \in Servers, Job(s) \/ Copies(s) \/ StopServer(s)
      PROVE  cache' = cache \/ cache' = [cache EXCEPT ![s] = NoCache]
    BY <1>1 DEF Job, RunStart, CreateSchedulerLock, ListLocks, RunCreate, DeleteSchedulerLock,
                Copies, LoadKeys, SignJwt, ExpireArray, StopServer
<1>2. ASSUME NEW s \in Servers, cache' = [cache EXCEPT ![s] = NoCache]
      PROVE  cache' \in [Servers -> Caches] /\ \A q \in Servers : CacheStep(q)
    BY <1>2, Values DEF TypeOK, CacheStep
<1>3. CASE cache' = cache
    BY <1>3 DEF TypeOK, CacheStep
<1>4. ASSUME NEW r \in Requests, StoreKeys(r)
      PROVE  cache' \in [Servers -> Caches] /\ \A q \in Servers : CacheStep(q)
    <2>. DEFINE copy == [here |-> TRUE, list |-> req[r].list, loaded |-> req[r].loaded]
    <2>1. cache' = [cache EXCEPT ![req[r].server] = copy] /\ req[r].phase = "store"
        BY <1>4 DEF StoreKeys
    <2>2. copy \in Caches
        BY MonthsPass DEF Caches
    <2>. QED  BY <2>1, <2>2 DEF TypeOK, CacheStep
<1>5. ASSUME NextMonth
      PROVE  cache' \in [Servers -> Caches] /\ \A q \in Servers : CacheStep(q)
    BY <1>5, Values DEF NextMonth, TypeOK, CacheStep
<1>6. ASSUME NEW r \in Requests, WriteKey(r)
      PROVE  cache' = cache
    BY <1>6 DEF WriteKey
<1>7. ASSUME DeleteExpiredLocks \/ Administration
      PROVE  cache' = cache
    BY <1>7 DEF DeleteExpiredLocks, Administration, CreateSigningKey, UpdateSigningKey,
                MarkForDelete, DeleteSigningKey
<1>. QED  BY <1>1, <1>2, <1>3, <1>4, <1>5, <1>6, <1>7 DEF Next

-----------------------------------------------------------------------------
(* Requests.                                                               *)

(* Nobody begins to write.                                                 *)
NoneBegins == \A r \in Requests : req'[r] = req[r] \/ req'[r].phase # "write"

(* A key that is revoked now was revoked, or others who write are crossed. *)
RevokedNow ==
    \A k \in KeyIds : keys'[k].status = "REVOKED" =>
        \/ keys[k].status = "REVOKED"
        \/ \A r \in Requests : req'[r].phase = "write" /\ req'[r].key = k => k \in crossed

LEMMA WritesRemain ==
    ASSUME TypeOK, WritesFit, KeyStep, crossed' = crossed, NoneBegins, RevokedNow
    PROVE  WritesFit'
<1>1. ASSUME NEW r \in Requests, req'[r].phase = "write"
      PROVE  /\ req'[r] = req[r] /\ req[r].key \in KeyIds
             /\ req[r].row.status \in Live
             /\ keys'[req[r].key].status # "unborn"
             /\ keys'[req[r].key].status \in Live =>
                    /\ req[r].row.created = keys'[req[r].key].created
                    /\ req[r].row.expires = keys'[req[r].key].expires
             /\ (keys'[req[r].key].status = "REVOKED" /\ req[r].key \notin crossed)
                    => req[r].row.status = "REVOKED"
    <2>1. req'[r] = req[r] /\ req[r].key \in KeyIds
        BY <1>1, MonthsPass DEF NoneBegins
    <2>2. keys[req[r].key].status \in {"ACTIVE", "REVOKED", "deleted"}
        BY <1>1, <2>1, MonthsPass DEF WritesFit
    <2>3. /\ keys[req[r].key].status \in Live =>
                 /\ req[r].row.created = keys[req[r].key].created
                 /\ req[r].row.expires = keys[req[r].key].expires
          /\ req[r].row.status \in Live
          /\ (keys[req[r].key].status = "REVOKED" /\ req[r].key \notin crossed)
                 => req[r].row.status = "REVOKED"
        BY <1>1, <2>1 DEF WritesFit
    <2>4. /\ keys[req[r].key].status \in Live /\ keys'[req[r].key].status # "deleted" =>
                 /\ keys'[req[r].key].status \in Live
                 /\ keys'[req[r].key].created = keys[req[r].key].created
                 /\ keys'[req[r].key].expires = keys[req[r].key].expires
          /\ keys[req[r].key].status = "deleted" => keys'[req[r].key].status = "deleted"
        BY <2>1 DEF KeyStep
    <2>5. keys'[req[r].key].status = "REVOKED" /\ req[r].key \notin crossed
              => keys[req[r].key].status = "REVOKED"
        BY <1>1, <2>1 DEF RevokedNow
    <2>. QED  BY <2>1, <2>2, <2>3, <2>4, <2>5 DEF Live
<1>2. \A r, q \in Requests :
          (r # q /\ req'[r].phase = "write" /\ req'[q].phase = "write"
              /\ req'[r].key = req'[q].key) => req'[r].key \in crossed
    BY <1>1 DEF WritesFit
<1>. QED  BY <1>1, <1>2 DEF WritesFit

(* Somebody begins to write.                                               *)
LEMMA WriteBegins ==
    ASSUME TypeOK, WritesFit, keys' = keys,
           NEW r \in Requests, NEW k \in Stored, NEW status \in Live, NEW marked \in BOOLEAN,
           NEW row, row = [keys[k] EXCEPT !.status = status] \/ row = [keys[k] EXCEPT !.marked = TRUE],
           row.status = keys[k].status \/ keys[k].status = "ACTIVE",
           BeginWrite(r, k, row)
    PROVE  /\ req' \in [Requests -> ReqStates]
           /\ WritesFit'
           /\ crossed' \subseteq KeyIds
           /\ \A q \in Requests : LoadStep(q)
<1>1. k \in KeyIds /\ keys[k] \in Rows /\ keys[k].status \in Live
    BY DEF TypeOK, Stored, Live
<1>2. row \in Rows /\ row.status \in Live
      /\ row.created = keys[k].created /\ row.expires = keys[k].expires
    BY <1>1 DEF Rows, Live
<1>. DEFINE begun == [Idle EXCEPT !.phase = "write", !.key = k, !.row = row]
<1>3. req' = [req EXCEPT ![r] = begun]
    BY DEF BeginWrite
<1>4. /\ begun \in ReqStates
      /\ begun.phase = "write" /\ begun.key = k /\ begun.row = row
    BY <1>1, <1>2, Values DEF ReqStates
<1>5. /\ req' \in [Requests -> ReqStates]
      /\ req'[r].phase = "write" /\ req'[r].key = k /\ req'[r].row = row
      /\ \A q \in Requests \ {r} : req'[q] = req[q]
    BY <1>3, <1>4 DEF TypeOK
<1>. HIDE DEF begun
<1>6. /\ crossed \subseteq crossed' /\ crossed' \subseteq KeyIds
      /\ \A q \in Requests : req[q].phase = "write" /\ req[q].key = k => k \in crossed'
    BY <1>1 DEF BeginWrite, TypeOK
<1>7. ASSUME NEW q \in Requests, req'[q].phase = "write"
      PROVE  /\ req'[q].row.status \in Live
             /\ keys'[req'[q].key].status # "unborn"
             /\ keys'[req'[q].key].status \in Live =>
                    /\ req'[q].row.created = keys'[req'[q].key].created
                    /\ req'[q].row.expires = keys'[req'[q].key].expires
             /\ (keys'[req'[q].key].status = "REVOKED" /\ req'[q].key \notin crossed')
                    => req'[q].row.status = "REVOKED"
    <2>1. CASE q = r
        BY <1>1, <1>2, <1>5, <2>1 DEF Live
    <2>2. CASE q # r
        BY <1>5, <1>6, <1>7, <2>2 DEF WritesFit
    <2>. QED  BY <2>1, <2>2
<1>8. \A p, q \in Requests :
          (p # q /\ req'[p].phase = "write" /\ req'[q].phase = "write"
              /\ req'[p].key = req'[q].key) => req'[p].key \in crossed'
    BY <1>5, <1>6 DEF WritesFit
<1>9. \A q \in Requests : LoadStep(q)
    BY <1>5 DEF LoadStep
<1>. QED  BY <1>5, <1>6, <1>7, <1>8, <1>9 DEF WritesFit

ReqFits ==
    /\ req' \in [Requests -> ReqStates]
    /\ WritesFit'
    /\ crossed' \subseteq KeyIds
    /\ \A q \in Requests : LoadStep(q)

(* One request is on its way to its next await, and writes no key.         *)
LEMMA OneMoves ==
    ASSUME TypeOK, WritesFit, KeyStep, RevokedNow, crossed' = crossed,
           NEW r \in Requests, NEW next \in ReqStates, next.phase # "write",
           \/ next.phase # "store"
           \/ next.list = Loadable /\ next.loaded = month /\ next.server \in Servers,
           req' = [req EXCEPT ![r] = next]
    PROVE  ReqFits
<1>1. req' \in [Requests -> ReqStates] /\ req'[r] = next /\ \A q \in Requests \ {r} : req'[q] = req[q]
    BY DEF TypeOK
<1>2. NoneBegins /\ \A q \in Requests : LoadStep(q)
    BY <1>1 DEF NoneBegins, LoadStep
<1>. QED  BY <1>1, <1>2, WritesRemain DEF ReqFits, TypeOK

LEMMA NoneMoves ==
    ASSUME TypeOK, WritesFit, KeyStep, RevokedNow, crossed' = crossed, req' = req
    PROVE  ReqFits
<1>1. NoneBegins /\ \A q \in Requests : LoadStep(q)
    BY DEF NoneBegins, LoadStep
<1>. QED  BY <1>1, WritesRemain DEF ReqFits, TypeOK

LEMMA NotRevoked ==
    ASSUME TypeOK, keys' = keys \/ (\E expires : CreateKey(expires)) \/ (\E k \in KeyIds : DeleteSigningKey(k))
    PROVE  RevokedNow
<1>1. ASSUME NEW expires, CreateKey(expires)
      PROVE  \A k \in KeyIds : keys'[k].status = "REVOKED" => keys[k].status = "REVOKED"
    BY <1>1 DEF CreateKey, TypeOK
<1>2. ASSUME NEW j \in KeyIds, DeleteSigningKey(j)
      PROVE  \A k \in KeyIds : keys'[k].status = "REVOKED" => keys[k].status = "REVOKED"
    <2>1. [Unborn EXCEPT !.status = "deleted"].status = "deleted"
        BY DEF Unborn
    <2>2. keys' = [keys EXCEPT ![j] = [Unborn EXCEPT !.status = "deleted"]]
        BY <1>2 DEF DeleteSigningKey
    <2>3. keys'[j].status = "deleted" /\ \A k \in KeyIds \ {j} : keys'[k] = keys[k]
        BY <2>1, <2>2 DEF TypeOK
    <2>. QED  BY <2>3
<1>. QED  BY <1>1, <1>2 DEF RevokedNow

(* Whoever else writes to the key of a request that writes is crossed.     *)
LEMMA WriterRevokes ==
    ASSUME TypeOK, WritesFit, NEW r \in Requests, WriteKey(r)
    PROVE  RevokedNow
<1>1. req[r].key \in KeyIds /\ req[r].phase = "write"
    BY MonthsPass DEF WriteKey
<1>2. \A k \in KeyIds \ {req[r].key} : keys'[k] = keys[k]
    BY <1>1 DEF WriteKey, TypeOK
<1>3. req'[r].phase = "idle" /\ \A q \in Requests \ {r} : req'[q] = req[q]
    BY DEF WriteKey, TypeOK, Idle
<1>4. ASSUME NEW q \in Requests, req'[q].phase = "write", req'[q].key = req[r].key
      PROVE  req[r].key \in crossed
    BY <1>1, <1>3, <1>4 DEF WritesFit
<1>. QED  BY <1>2, <1>4 DEF RevokedNow

LEMMA AdministrationFits ==
    ASSUME TypeOK, WritesFit, KeyStep, Administration
    PROVE  ReqFits /\ mishaps' \in 0 .. MaxMishaps
<1>1. ASSUME NEW expires, CreateSigningKey(expires)
      PROVE  ReqFits /\ mishaps' \in 0 .. MaxMishaps
    <2>1. RevokedNow
        BY <1>1, NotRevoked DEF CreateSigningKey
    <2>. QED  BY <1>1, <2>1, NoneMoves, Values DEF CreateSigningKey, Mishap, TypeOK
<1>2. ASSUME NEW r \in Requests, NEW k \in Stored, NEW status \in Live, UpdateSigningKey(r, k, status)
      PROVE  ReqFits /\ mishaps' \in 0 .. MaxMishaps
    <2>1. mishaps' \in 0 .. MaxMishaps
        BY <1>2, Values DEF UpdateSigningKey, Mishap, TypeOK
    <2>2. ReqFits
        BY <1>2, WriteBegins DEF UpdateSigningKey, MayUpdate, ReqFits
    <2>. QED  BY <2>1, <2>2
<1>3. ASSUME NEW r \in Requests, NEW k \in Stored, MarkForDelete(r, k)
      PROVE  ReqFits /\ mishaps' \in 0 .. MaxMishaps
    <2>1. mishaps' \in 0 .. MaxMishaps
        BY <1>3, Values DEF MarkForDelete, Mishap, TypeOK
    <2>2. k \in KeyIds /\ keys[k] \in Rows /\ keys[k].status \in Live
        BY DEF TypeOK, Stored, Live
    <2>3. [keys[k] EXCEPT !.marked = TRUE].status = keys[k].status
        BY <2>2 DEF Rows
    <2>4. ReqFits
        BY <1>3, <2>2, <2>3, WriteBegins DEF MarkForDelete, ReqFits
    <2>. QED  BY <2>1, <2>4
<1>4. ASSUME NEW k \in Stored, DeleteSigningKey(k)
      PROVE  ReqFits /\ mishaps' \in 0 .. MaxMishaps
    <2>1. RevokedNow
        BY <1>4, NotRevoked DEF Stored
    <2>. QED  BY <1>4, <2>1, NoneMoves DEF DeleteSigningKey, TypeOK
<1>. QED  BY <1>1, <1>2, <1>3, <1>4 DEF Administration, Live

LEMMA RequestsMove ==
    ASSUME TypeOK, WritesFit, KeyStep, Next
    PROVE  ReqFits /\ mishaps' \in 0 .. MaxMishaps
<1>1. ASSUME NEW s \in Servers, Job(s)
      PROVE  ReqFits /\ mishaps' \in 0 .. MaxMishaps
    <2>1. req' = req /\ crossed' = crossed /\ mishaps' = mishaps
        BY <1>1 DEF Job, RunStart, CreateSchedulerLock, ListLocks, RunCreate, DeleteSchedulerLock
    <2>2. RevokedNow
        BY <1>1, OtherSteps, NotRevoked DEF RunCreate
    <2>. QED  BY <2>1, <2>2, NoneMoves DEF TypeOK
<1>2. ASSUME NEW s \in Servers, NEW r \in Requests, LoadKeys(r, s)
      PROVE  ReqFits /\ mishaps' \in 0 .. MaxMishaps
    <2>. DEFINE next == [Idle EXCEPT !.phase = "store", !.server = s, !.list = Loadable, !.loaded = month]
    <2>1. req' = [req EXCEPT ![r] = next] /\ crossed' = crossed /\ mishaps' = mishaps
        BY <1>2 DEF LoadKeys
    <2>2. Loadable \subseteq KeyIds /\ month \in Months
        BY DEF Loadable, Stored, TypeOK
    <2>3. /\ next \in ReqStates
          /\ next.phase = "store" /\ next.server = s /\ next.list = Loadable /\ next.loaded = month
        BY <2>2, Values DEF ReqStates
    <2>4. RevokedNow
        BY <1>2, NotRevoked DEF LoadKeys
    <2>. HIDE DEF next
    <2>. QED  BY <2>1, <2>3, <2>4, OneMoves DEF TypeOK
<1>3. ASSUME NEW s \in Servers, SignJwt(s) \/ ExpireArray(s)
      PROVE  ReqFits /\ mishaps' \in 0 .. MaxMishaps
    BY <1>3, NotRevoked, NoneMoves DEF SignJwt, ExpireArray, TypeOK
<1>4. ASSUME NEW s \in Servers, StopServer(s)
      PROVE  ReqFits /\ mishaps' \in 0 .. MaxMishaps
    <2>1. \A q \in Requests : req'[q] = Idle \/ req'[q] = req[q]
        BY <1>4 DEF StopServer
    <2>2. req' \in [Requests -> ReqStates]
        BY <1>4, Values DEF StopServer, TypeOK
    <2>3. NoneBegins /\ \A q \in Requests : LoadStep(q)
        BY <2>1 DEF NoneBegins, LoadStep, Idle
    <2>4. RevokedNow
        BY <1>4, NotRevoked DEF StopServer
    <2>5. crossed' = crossed /\ mishaps' \in 0 .. MaxMishaps
        BY <1>4, Values DEF StopServer, Mishap, TypeOK
    <2>. QED  BY <2>2, <2>3, <2>4, <2>5, WritesRemain DEF ReqFits, TypeOK
<1>5. ASSUME NEW r \in Requests, StoreKeys(r)
      PROVE  ReqFits /\ mishaps' \in 0 .. MaxMishaps
    <2>1. req' = [req EXCEPT ![r] = Idle] /\ crossed' = crossed /\ mishaps' = mishaps
        BY <1>5 DEF StoreKeys
    <2>2. RevokedNow
        BY <1>5, NotRevoked DEF StoreKeys
    <2>3. Idle.phase = "idle"
        BY DEF Idle
    <2>. QED  BY <2>1, <2>2, <2>3, OneMoves, Values DEF TypeOK
<1>6. ASSUME NEW r \in Requests, WriteKey(r)
      PROVE  ReqFits /\ mishaps' \in 0 .. MaxMishaps
    <2>1. req' = [req EXCEPT ![r] = Idle] /\ crossed' = crossed /\ mishaps' = mishaps
        BY <1>6 DEF WriteKey
    <2>2. RevokedNow
        BY <1>6, WriterRevokes
    <2>3. Idle.phase = "idle"
        BY DEF Idle
    <2>. QED  BY <2>1, <2>2, <2>3, OneMoves, Values DEF TypeOK
<1>7. ASSUME DeleteExpiredLocks \/ NextMonth
      PROVE  ReqFits /\ mishaps' \in 0 .. MaxMishaps
    BY <1>7, NotRevoked, NoneMoves DEF DeleteExpiredLocks, NextMonth, TypeOK
<1>. QED  BY <1>1, <1>2, <1>3, <1>4, <1>5, <1>6, <1>7, AdministrationFits DEF Next, Copies

-----------------------------------------------------------------------------
(* The parts of the invariant.                                             *)

LEMMA NextType ==
    ASSUME IInv, Next
    PROVE  TypeOK'
<1>1. keys' \in [KeyIds -> Rows] /\ KeyStep
    BY KeysMove DEF IInv
<1>2. month' \in Months /\ lost' \in Months
    BY TimeType DEF IInv
<1>3. run' \in [Servers -> Runs]
    BY RunsMove DEF IInv
<1>4. locks' \subseteq Locks
      /\ \A l \in locks' : run'[l.of].phase \in {"list", "create", "unlock", "dead"}
    BY LocksMove DEF IInv
<1>5. cache' \in [Servers -> Caches] /\ \A s \in Servers : CacheStep(s)
    BY CachesMove DEF IInv
<1>6. req' \in [Requests -> ReqStates] /\ crossed' \subseteq KeyIds /\ mishaps' \in 0 .. MaxMishaps
    BY <1>1, RequestsMove DEF IInv, ReqFits
<1>7. token' \in Tokens
    <2>1. ASSUME NEW list \in SUBSET KeyIds, NEW loaded \in Months, Sign(list, loaded)
          PROVE  token' \in Tokens
        BY <2>1 DEF Sign, First, Tokens
    <2>2. ASSUME NEW s \in Servers, SignJwt(s)
          PROVE  token' \in Tokens
        BY <2>1, <2>2, MonthsPass DEF SignJwt, IInv
    <2>3. ASSUME NEW r \in Requests, StoreKeys(r)
          PROVE  token' \in Tokens
        BY <2>1, <2>3, MonthsPass DEF StoreKeys, IInv, TypeOK
    <2>. QED  BY <2>2, <2>3, Quiet, Values DEF IInv, TypeOK, NextMonth
<1>8. ASSUME NEW s \in Servers, NEW k \in KeyIds, k \in cache'[s].list
      PROVE  keys'[k].status # "unborn"
    <2>1. keys[k].status # "unborn"
        BY <1>5, <1>8 DEF CacheStep, NoCache, IInv, TypeOK, CopiesFit, CopyFits
    <2>. QED  BY <1>1, <2>1, MonthsPass DEF KeyStep, Live, IInv
<1>. QED  BY <1>1, <1>2, <1>3, <1>4, <1>5, <1>6, <1>7, <1>8 DEF TypeOK

LEMMA NextCopies ==
    ASSUME IInv, Next
    PROVE  CopiesFit'
<1>1. TypeOK /\ CopiesFit /\ KeyStep
    BY KeysMove DEF IInv
<1>2. \A s \in Servers : CacheStep(s)
    BY CachesMove DEF IInv
<1>3. \A r \in Requests : LoadStep(r)
    BY <1>1, RequestsMove DEF IInv, ReqFits
<1>4. \A s \in Servers : cache[s].list \in SUBSET KeyIds /\ cache[s].loaded \in Nat
    BY <1>1, MonthsPass
<1>5. \A r \in Requests : req[r].list \in SUBSET KeyIds /\ req[r].loaded \in Nat
    BY <1>1, MonthsPass
<1>6. CASE month' = month
    <2>1. ASSUME NEW list \in SUBSET KeyIds, NEW loaded \in Nat, CopyFits(list, loaded)
          PROVE  CopyFits(list, loaded)'
        BY <1>1, <1>6, <2>1, CopyRemains
    <2>2. \A k \in KeyIds : keys'[k].status \in Live => keys'[k].created <= month'
        BY <1>1, <1>6, MonthsPass DEF KeyStep, CopiesFit, Live
    <2>3. ASSUME NEW s \in Servers, cache'[s].here
          PROVE  CopyFits(cache[s].list, cache[s].loaded)'
        <3>1. CASE cache'[s] = cache[s]
            <4>1. CopyFits(cache[s].list, cache[s].loaded)
                BY <1>1, <2>3, <3>1 DEF CopiesFit
            <4>2. PICK list \in SUBSET KeyIds, loaded \in Nat :
                      CopyFits(list, loaded) /\ cache'[s].list = list /\ cache'[s].loaded = loaded
                BY <1>4, <3>1, <4>1
            <4>3. CopyFits(list, loaded)'
                BY <2>1, <4>2
            <4>. QED  BY <4>2, <4>3 DEF CopyFits
        <3>2. ASSUME NEW r \in Requests, req[r].phase = "store",
                     cache'[s] = [here |-> TRUE, list |-> req[r].list, loaded |-> req[r].loaded]
              PROVE  CopyFits(cache[s].list, cache[s].loaded)'
            <4>1. CopyFits(req[r].list, req[r].loaded)
                BY <1>1, <3>2 DEF CopiesFit
            <4>2. PICK list \in SUBSET KeyIds, loaded \in Nat :
                      CopyFits(list, loaded) /\ cache'[s].list = list /\ cache'[s].loaded = loaded
                BY <1>5, <3>2, <4>1
            <4>3. CopyFits(list, loaded)'
                BY <2>1, <4>2
            <4>. QED  BY <4>2, <4>3 DEF CopyFits
        <3>3. cache'[s] # NoCache
            BY <2>3 DEF NoCache
        <3>. QED  BY <1>2, <3>1, <3>2, <3>3 DEF CacheStep
    <2>4. ASSUME NEW s \in Servers, ~cache'[s].here
          PROVE  cache'[s].list = {}
        <3>1. CASE cache'[s] = cache[s]
            BY <1>1, <2>4, <3>1 DEF CopiesFit
        <3>2. CASE cache'[s] = NoCache
            BY <3>2 DEF NoCache
        <3>3. ASSUME NEW r \in Requests,
                     cache'[s] = [here |-> TRUE, list |-> req[r].list, loaded |-> req[r].loaded]
              PROVE  cache'[s].here
            BY <3>3
        <3>. QED  BY <1>2, <2>4, <3>1, <3>2, <3>3 DEF CacheStep
    <2>5. ASSUME NEW r \in Requests, req'[r].phase = "store"
          PROVE  /\ CopyFits(req[r].list, req[r].loaded)'
                 /\ req'[r].loaded = month'
                 /\ req'[r].server \in Servers
        <3>1. Loadable \in SUBSET KeyIds /\ CopyFits(Loadable, month) /\ month \in Nat
            BY <1>1, LoadableFits, MonthsPass
        <3>2. PICK list \in SUBSET KeyIds, loaded \in Nat :
                  /\ CopyFits(list, loaded)
                  /\ req'[r].list = list /\ req'[r].loaded = loaded /\ loaded = month
                  /\ req'[r].server \in Servers
            BY <1>1, <1>3, <1>5, <2>5, <3>1 DEF LoadStep, CopiesFit
        <3>3. CopyFits(list, loaded)'
            BY <2>1, <3>2
        <3>. QED  BY <1>6, <3>2, <3>3 DEF CopyFits
    <2>. QED  BY <2>2, <2>3, <2>4, <2>5 DEF CopiesFit
<1>7. CASE NextMonth
    <2>1. /\ keys' = keys /\ month' = month + 1 /\ req' = req
          /\ \A r \in Requests : req[r].phase = "idle"
          /\ cache' = [s \in Servers |-> IF cache[s].loaded < month THEN NoCache ELSE cache[s]]
        BY <1>7 DEF NextMonth
    <2>2. \A k \in KeyIds : keys'[k].status \in Live => keys'[k].created <= month'
        BY <1>1, <2>1, MonthsPass DEF CopiesFit
    <2>3. ASSUME NEW s \in Servers, cache'[s].here
          PROVE  CopyFits(cache[s].list, cache[s].loaded)'
        <3>1. /\ cache'[s] = cache[s] /\ ~(cache[s].loaded < month)
              /\ CopyFits(cache[s].list, cache[s].loaded)
            BY <1>1, <2>1, <2>3 DEF NoCache, CopiesFit
        <3>2. PICK list \in SUBSET KeyIds, loaded \in Nat :
                  /\ CopyFits(list, loaded) /\ ~(loaded < month)
                  /\ cache'[s].list = list /\ cache'[s].loaded = loaded
            BY <1>4, <3>1
        <3>3. CopyFits(list, loaded)'
            BY <1>1, <2>1, <3>2, CopyAges
        <3>. QED  BY <3>2, <3>3 DEF CopyFits
    <2>4. \A s \in Servers : ~cache'[s].here => cache'[s].list = {}
        BY <1>1, <2>1 DEF NoCache, CopiesFit
    <2>. QED  BY <2>1, <2>2, <2>3, <2>4 DEF CopiesFit
<1>. QED  BY <1>6, <1>7, Quiet

(* The token of one step and of the next.                                  *)
LEMMA NextToken ==
    ASSUME IInv, Next
    PROVE  TokenFits'
<1>1. TypeOK /\ CopiesFit /\ TokenFits /\ KeyStep
    BY KeysMove DEF IInv
<1>2. ASSUME NEW list \in SUBSET KeyIds, NEW loaded \in Nat, CopyFits(list, loaded),
             Sign(list, loaded), keys' = keys, month' = month
      PROVE  TokenFits'
    <2>1. PICK k \in list : token' = [key |-> k, from |-> loaded]
        BY <1>2 DEF Sign, First
    <2>2. token'.key = k /\ token'.from = loaded
        BY <2>1
    <2>. QED  BY <1>2, <2>2 DEF CopyFits, TokenFits
<1>3. ASSUME NEW s \in Servers, SignJwt(s)
      PROVE  TokenFits'
    <2>1. CopyFits(cache[s].list, cache[s].loaded) /\ Sign(cache[s].list, cache[s].loaded)
          /\ keys' = keys /\ month' = month
        BY <1>1, <1>3 DEF SignJwt, CopiesFit
    <2>2. cache[s].list \in SUBSET KeyIds /\ cache[s].loaded \in Nat
        BY <1>1, MonthsPass
    <2>. QED  BY <1>2, <2>1, <2>2
<1>4. ASSUME token' = token, month' = month
      PROVE  TokenFits'
    <2>1. CASE token = NoToken
        BY <1>4, <2>1 DEF TokenFits
    <2>2. CASE token # NoToken
        <3>1. /\ token.key \in KeyIds /\ token.from <= month /\ month <= token.from + 1
              /\ keys[token.key].status # "unborn"
              /\ keys[token.key].status \in Live =>
                     keys[token.key].created <= token.from /\ token.from < keys[token.key].expires
            BY <1>1, <2>2 DEF TokenFits
        <3>2. keys'[token.key].status # "unborn"
            BY <1>1, <3>1, MonthsPass DEF KeyStep, Live
        <3>3. keys'[token.key].status \in Live =>
                  keys'[token.key].created <= token.from /\ token.from < keys'[token.key].expires
            BY <1>1, <3>1, MonthsPass DEF KeyStep, Live
        <3>. QED  BY <1>4, <3>1, <3>2, <3>3 DEF TokenFits
    <2>. QED  BY <2>1, <2>2
<1>5. ASSUME NEW r \in Requests, StoreKeys(r)
      PROVE  TokenFits'
    <2>1. CopyFits(req[r].list, req[r].loaded) /\ keys' = keys /\ month' = month
          /\ (token' = token \/ Sign(req[r].list, req[r].loaded))
        BY <1>1, <1>5 DEF StoreKeys, CopiesFit
    <2>2. req[r].list \in SUBSET KeyIds /\ req[r].loaded \in Nat
        BY <1>1, MonthsPass
    <2>. QED  BY <1>2, <1>4, <2>1, <2>2
<1>6. CASE NextMonth
    <2>1. /\ keys' = keys /\ month' = month + 1
          /\ token' = IF token.from < month THEN NoToken ELSE token
        BY <1>6 DEF NextMonth
    <2>2. month \in Nat /\ (token # NoToken => token.from \in Nat)
        BY <1>1, MonthsPass, Values DEF TypeOK, Tokens, Months
    <2>. QED  BY <1>1, <2>1, <2>2 DEF TokenFits
<1>7. CASE token' = token /\ month' = month
    BY <1>4, <1>7
<1>. QED  BY <1>3, <1>5, <1>6, <1>7, Quiet

LEMMA NextJob ==
    ASSUME IInv, Next
    PROVE  JobInv'
<1>1. TypeOK /\ JobInv /\ KeyStep /\ keys' \in [KeyIds -> Rows]
    BY KeysMove DEF IInv
<1>2. run' \in [Servers -> Runs] /\ (~NextMonth => \A s \in Servers : RunStep(s))
    BY <1>1, RunsMove
<1>3. CASE NextMonth
    BY <1>1, <1>3, TimeType, JobNextMonth
<1>4. CASE ~NextMonth
    BY <1>1, <1>2, <1>4, Quiet, JobStep
<1>. QED  BY <1>3, <1>4

LEMMA NextInvariant == IInv /\ [Next]_vars => IInv'
<1>1. ASSUME IInv, Next
      PROVE  IInv'
    <2>1. WritesFit'
        BY <1>1, KeysMove, RequestsMove DEF IInv, ReqFits
    <2>. QED  BY <1>1, <2>1, NextType, NextCopies, NextToken, NextJob DEF IInv
<1>2. ASSUME IInv, UNCHANGED vars
      PROVE  IInv'
    <2>1. TypeOK'
        BY <1>2 DEF vars, IInv, TypeOK
    <2>2. CopiesFit' /\ TokenFits'
        BY <1>2 DEF vars, IInv, CopiesFit, CopyFits, TokenFits
    <2>3. WritesFit' /\ JobInv'
        BY <1>2 DEF vars, IInv, WritesFit, JobInv, Fresh
    <2>. QED  BY <2>1, <2>2, <2>3 DEF IInv
<1>. QED  BY <1>1, <1>2

LEMMA Invariant == Spec => []IInv
<1>1. Init => IInv
    BY InitType, InitFits DEF IInv
<1>. QED  BY <1>1, NextInvariant, PTL DEF Spec

-----------------------------------------------------------------------------
(* Types, and that locks are left only by runs on their way or dead.       *)
THEOREM TypeCorrect == Spec => []TypeOK
<1>1. IInv => TypeOK
    BY DEF IInv
<1>. QED  BY <1>1, Invariant, PTL

(* Servers may stop during the job: unless they do in as many months in a
   row as a key lives, some key can be signed with.                        *)
THEOREM AlwaysAKey == Spec => []NeverWithoutKey
<1>1. ASSUME IInv, lost + 1 < KeyMonths, \A k \in KeyIds : keys[k].status \in {"unborn", "ACTIVE"}
      PROVE  Loadable # {}
    <2>1. PICK k \in KeyIds : keys[k].status \in Live /\ month + KeyMonths - (lost + 1) <= keys[k].expires
        BY <1>1 DEF IInv, JobInv, Fresh
    <2>2. keys[k].expires \in Nat /\ month \in Nat /\ lost \in Nat
        BY <1>1, MonthsPass, Values DEF IInv, TypeOK, Months
    <2>3. keys[k].expires > month
        BY <1>1, <2>1, <2>2, Values
    <2>. QED  BY <2>1, <2>3 DEF Loadable, Stored, Live
<1>2. IInv => NeverWithoutKey
    BY <1>1 DEF NeverWithoutKey
<1>. QED  BY <1>2, Invariant, PTL

(* A token outlives its key by less than the key stays published.          *)
THEOREM TokensAreVerified == Spec => []TokensVerify
<1>1. ASSUME IInv, token # NoToken, keys[token.key].status = "ACTIVE"
      PROVE  Published(token.key)
    <2>1. /\ token.key \in KeyIds /\ month <= token.from + 1
          /\ token.from < keys[token.key].expires
        BY <1>1 DEF IInv, TokenFits, Live
    <2>2. month \in Nat /\ token.from \in Nat /\ keys[token.key].expires \in Nat
        BY <1>1, <2>1, MonthsPass, Values DEF IInv, TypeOK, Tokens, Months
    <2>. QED  BY <1>1, <2>1, <2>2 DEF Published
<1>2. IInv => TokensVerify
    BY <1>1 DEF TokensVerify
<1>. QED  BY <1>2, Invariant, PTL

(* Every later copy of the keys has the key of a token that lives.         *)
THEOREM TokensAccepted == Spec => []TokensAreAccepted
<1>1. ASSUME IInv, token # NoToken, keys[token.key].status # "deleted",
             NEW s \in Servers, cache[s].here,
             token.from < cache[s].loaded, cache[s].loaded < keys[token.key].expires
      PROVE  token.key \in cache[s].list
    <2>1. /\ token.key \in KeyIds /\ keys[token.key].status # "unborn"
          /\ keys[token.key].status \in Live => keys[token.key].created <= token.from
        BY <1>1 DEF IInv, TokenFits
    <2>2. /\ keys[token.key].status \in Live /\ keys[token.key].created \in Nat
          /\ token.from \in Nat /\ cache[s].loaded \in Nat
        BY <1>1, <2>1, MonthsPass, Values DEF IInv, TypeOK, Tokens, Months, Live
    <2>3. keys[token.key].created < cache[s].loaded
        BY <1>1, <2>1, <2>2
    <2>. QED  BY <1>1, <2>1, <2>2, <2>3 DEF IInv, CopiesFit, CopyFits
<1>2. IInv => TokensAreAccepted
    BY <1>1 DEF TokensAreAccepted
<1>. QED  BY <1>2, Invariant, PTL

(* A row that was read before a revocation is not written after it, unless
   the two requests were at work at the same time.                         *)
THEOREM RevokedKeysStay == Spec => RevokedStays
<1>1. ASSUME IInv, Next, NEW k \in KeyIds, k \notin crossed', keys[k].status = "REVOKED"
      PROVE  keys'[k].status \in {"REVOKED", "deleted"}
    <2>1. TypeOK /\ WritesFit /\ KeyStep
        BY <1>1, KeysMove DEF IInv
    <2>2. ASSUME NEW r \in Requests, WriteKey(r)
          PROVE  keys'[k].status \in {"REVOKED", "deleted"}
        <3>1. crossed' = crossed /\ req[r].key \in KeyIds /\ req[r].phase = "write"
            BY <2>1, <2>2, MonthsPass DEF WriteKey
        <3>2. keys'[k] = keys[k] \/ (req[r].key = k /\ keys'[k] = req[r].row)
            BY <2>1, <2>2, <3>1 DEF WriteKey, TypeOK
        <3>. QED  BY <1>1, <2>1, <3>1, <3>2 DEF WritesFit
    <2>3. ASSUME NEW j \in KeyIds, DeleteSigningKey(j)
          PROVE  keys'[k].status \in {"REVOKED", "deleted"}
        <3>1. [Unborn EXCEPT !.status = "deleted"].status = "deleted"
            BY DEF Unborn
        <3>2. keys' = [keys EXCEPT ![j] = [Unborn EXCEPT !.status = "deleted"]]
            BY <2>3 DEF DeleteSigningKey
        <3>3. keys'[j].status = "deleted" /\ \A i \in KeyIds \ {j} : keys'[i] = keys[i]
            BY <2>1, <3>1, <3>2 DEF TypeOK
        <3>. QED  BY <1>1, <3>3
    <2>4. ASSUME NEW expires, CreateKey(expires)
          PROVE  keys'[k].status \in {"REVOKED", "deleted"}
        BY <1>1, <2>1, <2>4 DEF CreateKey, TypeOK
    <2>5. CASE keys' = keys
        BY <1>1, <2>5
    <2>6. ASSUME Administration
          PROVE  \/ keys' = keys
                 \/ \E expires : CreateKey(expires)
                 \/ \E j \in KeyIds : DeleteSigningKey(j)
        BY <2>6 DEF Administration, CreateSigningKey, UpdateSigningKey, MarkForDelete, Stored
    <2>. QED  BY <1>1, <2>2, <2>3, <2>4, <2>5, <2>6, OtherSteps DEF Next, RunCreate
<1>2. IInv /\ [Next]_vars =>
          [\A k \in KeyIds \ crossed' :
               keys[k].status = "REVOKED" => keys'[k].status \in {"REVOKED", "deleted"}]_vars
    BY <1>1
<1>. QED  BY <1>2, Invariant, PTL DEF Spec, RevokedStays

=============================================================================
