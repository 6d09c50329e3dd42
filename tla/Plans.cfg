CONSTANTS
    Users       = {u1}
    PlanNames   = {free, pro, lab}
    Free        = free
    Pro         = pro
    Quotas      = {1}
    Customers   = {c1, c2}
    Requests    = {r1, r2}
    MaxRequests = 3
    MaxEvents   = 3
    NoPlan      = NoPlan
    NoQuota     = NoQuota
    NoCustomer  = NoCustomer
    NoStatus    = NoStatus
    None        = None
SPECIFICATION Spec
SYMMETRY PlansSymmetry
INVARIANTS
    StatusReconciled
    PlanReconciled
CHECK_DEADLOCK FALSE
