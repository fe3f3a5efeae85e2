\* One request at a time, one file changed between two refreshes, buffers saved before they are closed.
SPECIFICATION Spec
CONSTANTS
    a = a
    b = b
    t1 = t1
    t2 = t2
    c1 = c1
    c2 = c2
    m1 = m1
    None = None
    NoModule = NoModule
    EmptyText = c1
    UriOrder <- MCUriOrder
    FileUris = {a, b}
    Contents = {c1, c2}
    Modules = {m1}
    ModuleOf <- MCModuleOf
    Edits = {}
    Edited <- MCEdited
    Threads = {t1}
    FilesSettle = TRUE
    MaxGeneration = 2
    Practices = {"editing", "new files", "queries", "crashes"}
    MaxChanged = 1
    MaxStarts = 2
INVARIANTS
    EventsTellTheWorkspace
    DeltasFold
    CheckpointTellsItsDocuments
\* The model stops at its bounds; the service does not.
CHECK_DEADLOCK FALSE
