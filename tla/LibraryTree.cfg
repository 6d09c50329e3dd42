CONSTANTS
    Paths <- LibraryPaths
    Notes <- LibraryNotes
    Parent <- LibraryParent
    Above <- LibraryAbove
    Twin <- LibraryTwin
    VaultPaths <- LibraryVaults
    AtFirst <- LibraryAtFirst
    Palette <- Dots
    NewBook <- LibraryBook
    NewNote <- LibraryNote
    OldVaults <- LibraryOld
    Outside = Outside
    None = None
    MaxSteps = 3
    MaxChanges = 1
SPECIFICATION Spec
INVARIANTS
    VaultsKept
PROPERTIES
    OpenKept
    SettlesFresh
CHECK_DEADLOCK FALSE
