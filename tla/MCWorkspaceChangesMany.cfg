\* Two known files change between two refreshes.
SPECIFICATION Spec
CONSTANTS
    a = a
    b = b
    t1 = t1
    t2 = t2
    c1 = c1
    c2 = c2
    m1 = m1
    None = None
    NoModule = NoModule
    EmptyText = c1
    UriOrder <- MCUriOrder
    FileUris = {a, b}
    Contents = {c1, c2}
    Modules = {m1}
    ModuleOf <- MCModuleOf
    Edits = {}
    Edited <- MCEdited
    Threads = {t1}
    FilesSettle = TRUE
    MaxGeneration = 2
    Practices = {}
    MaxChanged = 2
    MaxStarts = 1
PROPERTIES
    RefreshTellsTheWorkspace
\* The model stops at its bounds; the service does not.
CHECK_DEADLOCK FALSE
