CONSTANTS
    Hashes = {b1, b2, b3}
    Writers = {w1, w2}
    NoBase = NoBase
    None = None
    K = 2
SPECIFICATION BlobSpec
CHECK_DEADLOCK FALSE
SYMMETRY BlobSymmetry
INVARIANTS
    ChainsBounded
    UncontestedMatches
    NeverTornAlone
