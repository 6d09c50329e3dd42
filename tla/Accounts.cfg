CONSTANTS
    Requests    = {r1, r2}
    MaxRequests = 3
    MaxUsers    = 3
    Handles     = {ada, bob, cyd}
    Operator    = ada
    Member      = bob
    Emails      = {e1}
    Blank       = Blank
    NoEmail     = NoEmail
    NoUser      = NoUser
    NoHandle    = NoHandle
    None        = None
    OpenSignup  = TRUE
SPECIFICATION Spec
SYMMETRY RequestSymmetry
INVARIANTS
    CredentialsCurrent
    SpentOnce
PROPERTIES
    AdminsByAdmins
    DeletedAsTyped
CHECK_DEADLOCK FALSE
