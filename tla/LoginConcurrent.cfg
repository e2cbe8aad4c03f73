SPECIFICATION Spec
CONSTANTS
    Sessions = {s1}
    Requests = {r1, r2}
    Users = {u1}
    PreAuths = {p1}
    Kinds = {"application", "device"}
    LegacyUsers = {}
    DuressUsers = {}
    OfferedMfa = {"FIDO2"}
    RequiredMfa = {"FIDO2"}
    VerifyEmail = FALSE
    RequireTerms = FALSE
    Rotates = {FALSE}
    Disruptions = {"cancel", "lock"}
SYMMETRY Alike
CHECK_DEADLOCK FALSE
INVARIANTS
    TypeOK
    
    CompletedInOrder
    CodeUsesUpPreAuth
    
 
