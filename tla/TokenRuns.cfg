SPECIFICATION Spec
CONSTANTS
    Requests = {r1, r2}
    Users = {u1}
    Codes = {c1}
    Devices = {d1}
    Tokens = {t1, t2, t3}
    MaxRefreshTokenCount = 1
    Unlimited = FALSE
    NoGrant = NoGrant
    MaxMishaps = 1
    CountsAreText = FALSE
SYMMETRY Alike
CHECK_DEADLOCK FALSE
INVARIANTS
    TypeOK
    
    LockedUsersGetNothing
    ChainsAreShort
    UsedUp
