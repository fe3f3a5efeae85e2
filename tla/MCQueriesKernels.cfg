\* A kernel that is labelled before it is compiled.
SPECIFICATION MCSpec
CONSTANTS
    None = None
    NoModule = NoModule
    UriOrder <- MCUriOrder
    TextsOf <- MCTextsOf
    NewName = "h"
    MaxEdits = 2
    ChunkBytes = 6
    CheckpointBytes = 4
    LookaheadBytes = 3
    KernelPolicies = {"status"}
INVARIANTS
    ReusedWhileUnchanged
\* A part stops when it is done or at its bounds; the service does not.
CHECK_DEADLOCK FALSE
