CONSTANTS
    Vaults   = {v1}
    Paths    = {p1, p2}
    Blobs    = {b1}
    Requests = {r1}
    NoBlob   = NoBlob
    NoPath   = NoPath
    Size    <- UnitSize
    Limit    = Unlimited
    Unlimited = Unlimited
    Disposable = {v1}
    MaxSeq   = 3
    Readers  = {d1}
    Follows <- FollowOne
SPECIFICATION FeedSpec
SYMMETRY FeedSymmetry
INVARIANTS
    FeedLosesOnlyRaces
    MovesArriveWhole
