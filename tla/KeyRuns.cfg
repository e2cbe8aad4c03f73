CONSTANTS
    Servers = {a, b}
    Requests = {r1}
    KeyMonths = 3
    AdminExpiries = {1}
    MaxKeys = 3
    MaxMonth = 3
    MaxMishaps = 2
SPECIFICATION Spec
SYMMETRY Alike
INVARIANTS TypeOK  TokensVerify 
 
CHECK_DEADLOCK FALSE
