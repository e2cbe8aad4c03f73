CONSTANTS
    s1 = s1
    s2 = s2
    Sessions = {s1, s2}
    Requests = {r1}
    Addresses = {a1}
    Kinds <- KindsByTurns
    VerifyEmail = TRUE
    RequiredMfa = {}
    AllowRecovery = FALSE
    AllowDuress = FALSE
    Cancels = FALSE
    MaxMishaps = 1
SPECIFICATION Spec
INVARIANT AbandonedIsFreed
CHECK_DEADLOCK FALSE
