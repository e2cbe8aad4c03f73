SPECIFICATION FairSpec
CONSTANTS
    Jobs = {1}
    Workers = {w1, w2}
    Reapers = {d1}
    Limit = 1
    StartTimes = {1, 2, 3}
    Broken = {}
    Mortal = {w1, w2}
    MaxMishaps = 1
CHECK_DEADLOCK FALSE
INVARIANTS
    TypeOK
    CompletedIsDeleted
    JobKeptUntilDone
    LocksAreReleased
 
