CONSTANTS
    Requests = {r1, r2}
    Users = {u1}
    Tenants = {t1, t2}
    Home = t2
    Scopes = {s1}
    AuthzGroups = {g1}
    AuthnGroups = {}
    Clients = {}
    IdentityClients = {}
    RefreshToken = RefreshToken
    MaxMishaps = 1
SPECIFICATION Spec
SYMMETRY RequestSymmetry
INVARIANTS TypeOK PrimaryRemains OnePrimary LeavingIsComplete DefaultGroupsAreEmpty RemovalGoesThrough
CHECK_DEADLOCK FALSE
