\* A ranged edit whose answer is late.
SPECIFICATION Spec
CONSTANTS
    Ranged = TRUE
    MaxCalls = 1
    MaxConnections = 2
INVARIANTS
    IdempotentInEffect
\* The model stops at its bounds; clients and hosts do not.
CHECK_DEADLOCK FALSE
