\* Two request threads, one crash, one consumer.
SPECIFICATION FairSpec
CONSTANTS
    c1 = c1
    w1 = w1
    w2 = w2
    Capacity = 2
    Uris = {"u1"}
    Identities = {1, 2}
    PageSizes = {0, 2}
    Workers = {w1, w2}
    Consumers = {c1}
    MaxCursor = 3
    MaxStarts = 2
INVARIANTS
    NoSilentGap
    CheckpointIsHistory
PROPERTIES
    ImplementsChangeStream
    CatchesUp
\* The model stops at its bounds; the host does not.
CHECK_DEADLOCK FALSE
