CONSTANTS
    s1 = s1
    s2 = s2
    Sessions = {s1, s2}
    Requests = {r1, r2}
    Addresses = {a1}
    Kinds <- KindsByTurns
    VerifyEmail = TRUE
    RequiredMfa = {"TOTP"}
    AllowRecovery = TRUE
    AllowDuress = TRUE
    Cancels = TRUE
    MaxMishaps = 1
SPECIFICATION Spec
SYMMETRY RequestSymmetry
INVARIANTS TypeOK  RowsHaveTheirUser FinishedStays
 
CHECK_DEADLOCK FALSE
