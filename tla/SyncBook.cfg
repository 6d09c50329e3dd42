CONSTANTS
    Devices = {d1, d2}
    Copies = {3, 4, 5}
    CopyNames <- BookNames
    Missing = Missing
    Blank = Blank
    Mangled = Mangled
    Environments <- Environs
    MaxChoices = 2
SPECIFICATION Spec
INVARIANTS
    ChoicesKept
PROPERTIES
    KeysSurvive
    Converges
