CONSTANTS
    Devices = {d1, d2}
    NumPaths = 9
    Created = {4, 8, 9}
    Images = {9}
    CopyNames <- ThreeNames
    Missing = Missing
    Environments <- Environs
    MaxEdits = 3
SPECIFICATION Spec
SYMMETRY DeviceSymmetry
INVARIANTS
    AstrayOnly
    CursorCovers
    LostOnlyExposed
