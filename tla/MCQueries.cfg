\* The parts a request is answered from, one at a time.
SPECIFICATION MCSpec
CONSTANTS
    None = None
    NoModule = NoModule
    UriOrder <- MCUriOrder
    TextsOf <- MCTextsOf
    NewName = "h"
    MaxEdits = 2
    ChunkBytes = 6
    CheckpointBytes = 4
    LookaheadBytes = 3
    KernelPolicies = {"capsule", "relation", "status"}
INVARIANTS
    IndexExact
    QueriesExact
    Mirrored
    PositionsExact
    FormatSettles
    SnapshotsHonest
    FastPathSound
    IndexedWhenCached
    
    WalkExact
    WindowsExact
    ServedKernelCurrent
    CapsuleAdmission
\* A part stops when it is done or at its bounds; the service does not.
CHECK_DEADLOCK FALSE
