SPECIFICATION Spec
CONSTANTS
    Sessions = {s1}
    Requests = {r1}
    Users = {u1}
    PreAuths = {p1}
    Kinds = {"application"}
    LegacyUsers = {}
    DuressUsers = {}
    OfferedMfa = {"TOTP"}
    RequiredMfa = {}
    VerifyEmail = FALSE
    RequireTerms = FALSE
    Rotates = {FALSE}
    Disruptions = {"forgot"}
CHECK_DEADLOCK FALSE
INVARIANT ForgottenPasswordIsReplaced
