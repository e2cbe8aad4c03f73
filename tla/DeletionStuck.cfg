SPECIFICATION FairSpec
CONSTANTS
    Jobs = {1}
    Workers = {w1}
    Reapers = {d1}
    Limit = 1
    StartTimes = {1, 2, 3}
    Broken = {}
    Mortal = {w1, d1}
    MaxMishaps = 2
CHECK_DEADLOCK FALSE
PROPERTY StalledJobsRestart
