SPECIFICATION FairSpec
CONSTANTS
    Sessions = {s1}
    Requests = {r1}
    Users = {u1, u2}
    PreAuths = {p1}
    Kinds = {"portal"}
    LegacyUsers = {u2}
    DuressUsers = {u1}
    OfferedMfa = {}
    RequiredMfa = {"TOTP"}
    VerifyEmail = TRUE
    RequireTerms = TRUE
    Rotates = {TRUE}
    Disruptions = {"forgot", "abort"}
CHECK_DEADLOCK FALSE

    
    
PROPERTIES
    SessionsEnd
    
