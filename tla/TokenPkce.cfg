SPECIFICATION Spec
CONSTANTS
    Requests = {r1}
    Users = {u1}
    Codes = {c1}
    Devices = {}
    Tokens = {t1}
    MaxRefreshTokenCount = 1
    Unlimited = FALSE
    CountsAreText = TRUE
    NoGrant = NoGrant
    MaxMishaps = 0
CHECK_DEADLOCK FALSE
PROPERTIES
    PublicClientsRefresh
