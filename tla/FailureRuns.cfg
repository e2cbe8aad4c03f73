CONSTANTS
    Requests = {r1, r2}
    Threshold = 2
    PauseThreshold = 1
    Maximum = 3
    Writers = {"unlockUser", "updateUser", "markForDelete", "swapEmails"}
    MaxWrong = 5
    MaxRight = 1
    MaxMishaps = 1
SPECIFICATION Spec
SYMMETRY RequestSymmetry
INVARIANTS TypeOK LockIsEarned  GuessesAreBounded
CHECK_DEADLOCK FALSE
