CONSTANTS
    Vaults   = {v1}
    Paths    = {p1, p2}
    Blobs    = {b1}
    Requests = {r1, r2}
    NoBlob   = NoBlob
    NoPath   = NoPath
    Size    <- UnitSize
    Limit    = 2
    Unlimited = Unlimited
    Disposable = {v1}
    MaxSeq   = 3
SPECIFICATION Spec
SYMMETRY Symmetric
INVARIANTS
    TypeOK
    HistoryMatchesState
    SeqOrdersMutations
    ReferencedBlobsStored
    UploadedNeverMissing
    ReadsSeen
PROPERTIES
    NoLostUpdate
    Linearizable
