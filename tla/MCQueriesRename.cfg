\* A rename where another document declares the same name at the same place.
SPECIFICATION MCSpec
CONSTANTS
    None = None
    NoModule = NoModule
    UriOrder <- MCUriOrder
    TextsOf <- MCTextsOf
    NewName = "h"
    MaxEdits = 2
    ChunkBytes = 6
    CheckpointBytes = 4
    LookaheadBytes = 3
    KernelPolicies = {"capsule"}
INVARIANTS
    RenameTouchesOnlyBound
\* A part stops when it is done or at its bounds; the service does not.
CHECK_DEADLOCK FALSE
