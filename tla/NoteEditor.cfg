CONSTANTS
    Notes <- TwoNotes
    AtFirst <- OneAtFirst
    Absent = Absent
    None = None
    MaxTyped = 2
    MaxRemote = 1
    MaxFailures = 2
    MaxTreeSteps = 1
SPECIFICATION Spec
INVARIANTS
    TypedKept
    RemoteKept
    Settled
PROPERTIES
    SavedEventually
