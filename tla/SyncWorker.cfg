CONSTANTS
    Roots <- TwoRoots
    Accounts <- TwoAccounts
    None = None
    MaxVaults = 2
    MaxCommands = 3
    MaxFaults = 2
SPECIFICATION Spec
INVARIANTS
    PublishedOnce
    DeletedIsUnbound
    FlagsKept
PROPERTIES
    StatusSettles
