\* What clients meet: a host to start, failing connections, an editor, other repositories.
SPECIFICATION MCSpec
CONSTANTS
    Agents = {1}
    Pids = {p1, p2}
    p1 = p1
    p2 = p2
    NoPid = NoPid
    Bindings = {old, new}
    old = old
    new = new
    Foreign = Foreign
    Interruptible <- MCUnlessStarted
    MaxBirths = 5
    MaxMishaps = 3
    None = None
    Garbled = Garbled
    Invalid = Invalid
    Absent = Absent
    Broken = Broken
    NoRepository = NoRepository
INVARIANTS
    SignalsOnlyOwn
    OneHost
    AcknowledgedIsApplied
    DiagnosticsOfVersion
    DeltaTellsEveryChange
    CompleteIsVouched
PROPERTIES
    HostsKeepTheirSocket
    CommandConverges
    CallsReturn
    DiagnosticsSettle
    QueryEnds
\* The models stop when they are done or at their bounds; the service does not.
CHECK_DEADLOCK FALSE
