\* The hub by itself, and the capsules read along with it.
SPECIFICATION MCSpec
CONSTANTS
    s1 = s1
    s2 = s2
    NoStream = NoStream
    Capacity = 3
    MaxCursor = 7
    Streams <- MCStreams
    Uris <- MCUris
    Identities <- MCIdentities
    Checkpoints <- MCCheckpoints
    Cursors <- MCCursors
    PageSizes <- MCPageSizes
INVARIANTS
    WindowInv
    PollExact
    ResumeWhenRetained
    CapsuleCoversItsCursor
\* The models stop at their bounds; the host does not.
CHECK_DEADLOCK FALSE
