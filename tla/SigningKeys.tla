------------------------------ MODULE SigningKeys ------------------------------
(***************************************************************************)
(* The keys that sign the tokens of all tenants: the monthly job that      *)
(* makes a new one, the requests of administrators that make, revoke, mark *)
(* and delete them, and the copies every server keeps in its memory        *)
(* (createNewJwtSigningKey, SigningKeysService, JwtServiceUtils, and the   *)
(* key set the keys end point publishes).                                  *)
(*                                                                         *)
(* Time passes in months.  Six hours, the life of a copy, and the life of  *)
(* a token are shorter: a token that was signed from a copy made in one    *)
(* month is gone before the month after the next one begins.               *)
(***************************************************************************)
EXTENDS Naturals, FiniteSets

CONSTANTS
    Servers,
    Requests,       \* requests that may be in flight at the same time
    KeyMonths,      \* life of a key the job makes
    AdminExpiries,  \* months until a key an administrator makes may expire
    MaxKeys,        \* bound on the keys made
    MaxMonth,       \* bound on the time
    MaxMishaps      \* bound on servers that stop and on steps of administrators

ASSUME ConstantsOk ==
    /\ IsFiniteSet(Servers) /\ Servers # {}
    /\ KeyMonths \in Nat \ {0}
    /\ {MaxKeys, MaxMonth, MaxMishaps} \subseteq Nat
    /\ MaxKeys # 0
    /\ AdminExpiries \subseteq 1 .. KeyMonths

-----------------------------------------------------------------------------
VARIABLES
    keys,           \* signing_key: [KeyIds -> its row, or what became of it]
    month,          \* the time
    locks,          \* scheduler_lock, the rows of the job
    run,            \* [Servers -> how far the job of this month has come there]
    lost,           \* months in a row in which a server stopped during its job
    cache,          \* [Servers -> SigningKeyCache]
    token,          \* one of the signed tokens that have not expired
    req,            \* [Requests -> what the request holds between two awaits]
    mishaps,        \* how often a server stopped or an administrator acted
    crossed         \* keys two requests were at work on at the same time

vars == <<keys, month, locks, run, lost, cache, token, req, mishaps, crossed>>

KeyIds == 1 .. MaxKeys
Months == 0 .. MaxMonth
Expiries == 0 .. MaxMonth + KeyMonths

Rows == [status : {"unborn", "ACTIVE", "REVOKED", "deleted"}, marked : BOOLEAN,
         created : Months, expires : Expiries]

Unborn == [status |-> "unborn", marked |-> FALSE, created |-> 0, expires |-> 0]

Stored == {k \in KeyIds : keys[k].status \in {"ACTIVE", "REVOKED"}}

(* Whose lock, and the rank of lockStartTimeMS among those of the month.   *)
Ranks == 1 .. Cardinality(Servers)
Locks == [of : Servers, start : Ranks]

RunPhases == {"due", "insert", "list", "create", "unlock", "done", "dead"}
Runs == [phase : RunPhases, start : 0 .. Cardinality(Servers)]
NotStarted == [phase |-> "due", start |-> 0]

(* A copy of the keys, and when it was made: the array and the keys under
   their ids, which are put there together and end together.               *)
Caches == [here : BOOLEAN, list : SUBSET KeyIds, loaded : Months]
(* The key of a token, and the month of the copy it was signed from.       *)
Tokens == [key : KeyIds \cup {0}, from : Months]
NoToken == [key |-> 0, from |-> 0]

NoCache == [here |-> FALSE, list |-> {}, loaded |-> 0]

ReqStates == [
    phase : {"idle", "store", "write"},
    server : Servers \cup {"none"},
    list : SUBSET KeyIds,         \* the keys that were read
    loaded : Months,              \* when they were read
    key : KeyIds,                 \* the key an administrator is at work on
    row : Rows]                   \* its row as it is going to be written

Idle == [phase |-> "idle", server |-> "none", list |-> {},
         loaded |-> 0, key |-> 1, row |-> Unborn]

(* System initialisation makes the first key.                              *)
Init ==
    /\ keys = [k \in KeyIds |->
                  IF k = 1 THEN [status |-> "ACTIVE", marked |-> FALSE,
                                 created |-> 0, expires |-> KeyMonths]
                  ELSE Unborn]
    /\ month = 0
    /\ locks = {}
    /\ run = [s \in Servers |-> [NotStarted EXCEPT !.phase = "done"]]
    /\ lost = 0
    /\ cache = [s \in Servers |-> NoCache]
    /\ token = NoToken
    /\ req = [r \in Requests |-> Idle]
    /\ mishaps = 0
    /\ crossed = {}

Mishap ==
    /\ mishaps < MaxMishaps
    /\ mishaps' = mishaps + 1

(* A new row under a new id.                                               *)
CreateKey(expires) ==
    \E k \in KeyIds :
        /\ keys[k].status = "unborn"
        /\ \A j \in KeyIds : j < k => keys[j].status # "unborn"
        /\ keys' = [keys EXCEPT ![k] = [status |-> "ACTIVE", marked |-> FALSE,
                                        created |-> month, expires |-> expires]]

-----------------------------------------------------------------------------
(* createNewJwtSigningKey, on the first day of a month, on every server.   *)

Step(s, phase) == run' = [run EXCEPT ![s].phase = phase]

(* lockStartTimeMS is taken before the row is written.                     *)
RunStart(s) ==
    /\ run[s].phase = "due"
    /\ run' = [run EXCEPT ![s] =
                  [phase |-> "insert",
                   start |-> 1 + Cardinality({q \in Servers : run[q].start # 0})]]
    /\ UNCHANGED <<keys, month, locks, lost, cache, token, req, mishaps, crossed>>

CreateSchedulerLock(s) ==
    /\ run[s].phase = "insert"
    /\ locks' = locks \cup {[of |-> s, start |-> run[s].start]}
    /\ Step(s, "list")
    /\ UNCHANGED <<keys, month, lost, cache, token, req, mishaps, crossed>>

(* The run with the oldest lock goes on.                                   *)
Elected(s) == \A l \in locks : run[s].start <= l.start

KeyType == "RSA"
KeyUse == "JWT_SIGNING"

(* The filter compares a key's type with a use: it keeps no key.           *)
Considered == {k \in Stored : KeyType = KeyUse}

ShouldCreateKey_Faulty == Stored = {}

ShouldCreateKey ==
    \/ Considered = {}
    \/ \E k \in Considered :
           /\ \A j \in Considered : keys[j].expires <= keys[k].expires
           /\ \/ keys[k].status = "REVOKED"
              \/ month - keys[k].created >= 3
              \/ keys[k].expires <= month + 1

AfterList_Faulty(s) == IF Elected(s) /\ ShouldCreateKey THEN "create" ELSE "done"

(* Elected or not, a run removes its lock.                                 *)
AfterList(s) == IF Elected(s) /\ ShouldCreateKey THEN "create" ELSE "unlock"

ListLocks(s) ==
    /\ run[s].phase = "list"
    /\ Step(s, AfterList(s))
    /\ UNCHANGED <<keys, month, locks, lost, cache, token, req, mishaps, crossed>>

RunCreate(s) ==
    /\ run[s].phase = "create"
    /\ CreateKey(month + KeyMonths)
    /\ Step(s, "unlock")
    /\ UNCHANGED <<month, locks, lost, cache, token, req, mishaps, crossed>>

DeleteSchedulerLock(s) ==
    /\ run[s].phase = "unlock"
    /\ locks' = {l \in locks : l.of # s}
    /\ Step(s, "done")
    /\ UNCHANGED <<keys, month, lost, cache, token, req, mishaps, crossed>>

(* The clean-up job removes the lock of a run that died when it expires.   *)
DeleteExpiredLocks ==
    /\ \E l \in locks : run[l.of].phase = "dead"
    /\ locks' = {l \in locks : run[l.of].phase # "dead"}
    /\ UNCHANGED <<keys, month, run, lost, cache, token, req, mishaps, crossed>>

-----------------------------------------------------------------------------
(* Copies of the keys.                                                     *)

Loadable_Faulty ==
    {k \in Stored : /\ keys[k].expires > month
                    /\ \A j \in Stored : keys[j].expires <= keys[k].expires}

(* What a server would sign with: revoked keys are not left out.           *)
Loadable == {k \in Stored : keys[k].expires > month}

(* Any of those that expire last is the first of the array.                *)
First(list) == {k \in list : \A j \in list : keys[j].expires <= keys[k].expires}

(* Signing, or looking for the key of a token, without a copy: the keys are
   read; their passwords are decrypted before the copy is kept.            *)
LoadKeys(r, s) ==
    /\ req[r].phase = "idle"
    /\ ~cache[s].here
    /\ req' = [req EXCEPT ![r] = [Idle EXCEPT !.phase = "store", !.server = s,
                                  !.list = Loadable, !.loaded = month]]
    /\ UNCHANGED <<keys, month, locks, run, lost, cache, token, mishaps, crossed>>

(* Of the tokens signed, any one is followed.                              *)
Sign(list, loaded) ==
    /\ token = NoToken
    /\ \E k \in First(list) : token' = [key |-> k, from |-> loaded]

(* Who signs goes on with the first key of the array just made.            *)
StoreKeys(r) ==
    /\ req[r].phase = "store"
    /\ LET s == req[r].server
           list == req[r].list
       IN /\ cache' = [cache EXCEPT ![s] =
                 [here |-> TRUE, list |-> list, loaded |-> req[r].loaded]]
          /\ UNCHANGED token \/ Sign(list, req[r].loaded)
    /\ req' = [req EXCEPT ![r] = Idle]
    /\ UNCHANGED <<keys, month, locks, run, lost, mishaps, crossed>>

(* signJwt with the copy; with an empty one nothing is signed.             *)
SignJwt(s) ==
    /\ cache[s].here
    /\ Sign(cache[s].list, cache[s].loaded)
    /\ UNCHANGED <<keys, month, locks, run, lost, cache, req, mishaps, crossed>>

(* The time of a copy is up.                                               *)
ExpireArray(s) ==
    /\ cache[s].here
    /\ cache' = [cache EXCEPT ![s] = NoCache]
    /\ UNCHANGED <<keys, month, locks, run, lost, token, req, mishaps, crossed>>

Published_Faulty(k) == keys[k].status = "ACTIVE" /\ keys[k].expires > month

(* The key set other parties verify tokens with: keys that are not revoked,
   until a month after they expire.                                        *)
Published(k) == keys[k].status = "ACTIVE" /\ keys[k].expires + 1 > month

-----------------------------------------------------------------------------
(* Administrators.                                                         *)

(* createSigningKey and autoCreateSigningKey, with an expiry of their own. *)
CreateSigningKey(expires) ==
    /\ Mishap
    /\ CreateKey(expires)
    /\ UNCHANGED <<month, locks, run, lost, cache, token, req, crossed>>

(* A row is read and will be written; a request that dies in between does
   nothing at all and is left out.                                         *)
BeginWrite(r, k, row) ==
    /\ req[r].phase = "idle"
    /\ req' = [req EXCEPT ![r] = [Idle EXCEPT !.phase = "write", !.key = k,
                                              !.row = row]]
    /\ crossed' = IF \E q \in Requests : req[q].phase = "write" /\ req[q].key = k
                  THEN crossed \cup {k} ELSE crossed

MayUpdate_Faulty(k) == k \in Stored
MayUpdate(k) == keys[k].status = "ACTIVE"

(* updateSigningKey: a revoked key stays as it is.                         *)
UpdateSigningKey(r, k, status) ==
    /\ MayUpdate(k)
    /\ Mishap
    /\ BeginWrite(r, k, [keys[k] EXCEPT !.status = status])
    /\ UNCHANGED <<keys, month, locks, run, lost, cache, token>>

(* markForDelete writes the row with the status it has read.               *)
MarkForDelete(r, k) ==
    /\ k \in Stored
    /\ Mishap
    /\ BeginWrite(r, k, [keys[k] EXCEPT !.marked = TRUE])
    /\ UNCHANGED <<keys, month, locks, run, lost, cache, token>>

(* Status and mark are written together; a row that is gone stays so.      *)
WriteKey(r) ==
    /\ req[r].phase = "write"
    /\ keys' = IF req[r].key \in Stored
               THEN [keys EXCEPT ![req[r].key] = req[r].row] ELSE keys
    /\ req' = [req EXCEPT ![r] = Idle]
    /\ UNCHANGED <<month, locks, run, lost, cache, token, mishaps, crossed>>

(* The deletion job, at some time after the key was marked.                *)
DeleteSigningKey(k) ==
    /\ k \in Stored
    /\ keys[k].marked
    /\ keys' = [keys EXCEPT ![k] = [Unborn EXCEPT !.status = "deleted"]]
    /\ UNCHANGED <<month, locks, run, lost, cache, token, req, mishaps, crossed>>

-----------------------------------------------------------------------------
(* A server stops and starts again: its memory is empty, its part of this
   month's job is not made up for, and its lock stays.                     *)
StopServer(s) ==
    /\ Mishap
    /\ run' = IF run[s].phase = "done" THEN run
              ELSE [run EXCEPT ![s].phase = "dead"]
    /\ cache' = [cache EXCEPT ![s] = NoCache]
    /\ req' = [r \in Requests |-> IF req[r].server = s THEN Idle ELSE req[r]]
    /\ UNCHANGED <<keys, month, locks, lost, token, crossed>>

(* A month has passed: the job was due everywhere, its locks have expired
   and were removed, and what is a matter of hours is over.                *)
NextMonth ==
    /\ month < MaxMonth
    /\ \A s \in Servers : run[s].phase \in {"done", "dead"}
    /\ locks = {}
    /\ \A r \in Requests : req[r].phase = "idle"
    /\ month' = month + 1
    /\ lost' = IF \E s \in Servers : run[s].phase = "dead" THEN lost + 1 ELSE 0
    /\ run' = [s \in Servers |-> NotStarted]
    /\ cache' = [s \in Servers |->
                    IF cache[s].loaded < month THEN NoCache ELSE cache[s]]
    /\ token' = IF token.from < month THEN NoToken ELSE token
    /\ UNCHANGED <<keys, locks, req, mishaps, crossed>>

Job(s) ==
    \/ RunStart(s) \/ CreateSchedulerLock(s) \/ ListLocks(s)
    \/ RunCreate(s) \/ DeleteSchedulerLock(s)

Copies(s) ==
    \/ \E r \in Requests : LoadKeys(r, s)
    \/ SignJwt(s) \/ ExpireArray(s)

Administration ==
    \/ \E expires \in AdminExpiries : CreateSigningKey(month + expires)
    \/ \E r \in Requests, k \in Stored :
           \/ \E status \in {"ACTIVE", "REVOKED"} : UpdateSigningKey(r, k, status)
           \/ MarkForDelete(r, k)
    \/ \E k \in Stored : DeleteSigningKey(k)

Next ==
    \/ \E s \in Servers : Job(s) \/ Copies(s) \/ StopServer(s)
    \/ \E r \in Requests : StoreKeys(r) \/ WriteKey(r)
    \/ DeleteExpiredLocks \/ Administration \/ NextMonth

Spec == Init /\ [][Next]_vars

-----------------------------------------------------------------------------
(* Types; only keys that were made are copied, and only a run that is on its
   way or has died leaves a lock behind.                                   *)
TypeOK ==
    /\ keys \in [KeyIds -> Rows]
    /\ month \in Months
    /\ locks \subseteq Locks
    /\ run \in [Servers -> Runs]
    /\ lost \in Months
    /\ cache \in [Servers -> Caches]
    /\ token \in Tokens
    /\ req \in [Requests -> ReqStates]
    /\ mishaps \in 0 .. MaxMishaps
    /\ crossed \subseteq KeyIds
    /\ \A s \in Servers, k \in KeyIds :
           k \in cache[s].list => keys[k].status # "unborn"
    /\ \A l \in locks : run[l.of].phase \in {"list", "create", "unlock", "dead"}

(* Months in which a server stopped during the job are made up for: unless
   there were as many in a row as a key lives, some key can be signed with.
   Where no administrator revoked or deleted one.                          *)
NeverWithoutKey ==
    (lost + 1 < KeyMonths /\ \A k \in KeyIds : keys[k].status \in {"unborn", "ACTIVE"})
        => Loadable # {}

(* A token whose key was neither revoked nor deleted is verified with the
   published keys as long as it lives, though the key expires meanwhile and
   is signed with from copies after that.                                  *)
TokensVerify ==
    token # NoToken /\ keys[token.key].status = "ACTIVE" => Published(token.key)

(* A revoked key never comes back, unless two administrators were at work
   on it at the same time.                                                 *)
RevokedStays ==
    [][\A k \in KeyIds \ crossed' :
           keys[k].status = "REVOKED" => keys'[k].status \in {"REVOKED", "deleted"}]_vars

(* While it lives, a token is accepted by every server whose copy of the
   keys was made in a later month than the copy it was signed from, however
   many newer keys there are: as long as its key had not expired when that
   copy was made, and is not deleted.                                      *)
TokensAreAccepted ==
    token # NoToken /\ keys[token.key].status # "deleted" =>
        \A s \in Servers :
            /\ cache[s].here
            /\ token.from < cache[s].loaded
            /\ cache[s].loaded < keys[token.key].expires
            => token.key \in cache[s].list

=============================================================================
