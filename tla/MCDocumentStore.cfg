\* Two request threads and files that change at any time; one thread, and files between
\* requests; one editor among other requests.
SPECIFICATION MCSpec
CONSTANTS
    a = a
    b = b
    t1 = t1
    t2 = t2
    e1 = e1
    e2 = e2
    m1 = m1
    m2 = m2
    None = None
    NoModule = NoModule
    EmptyText = {}
    UriOrder <- MCUriOrder
    FileUris = {a}
    Contents <- MCContents
    Modules = {m1, m2}
    ModuleOf <- MCModuleOf
    Edits = {e1}
    Edited <- MCEdited
    Threads = {t1, t2}
    FilesSettle = FALSE
    MaxGeneration = 3
SYMMETRY MCSymmetry
INVARIANTS
    ClaimsComplete
    RefreshConverges
    ClaimsExactAlone
PROPERTIES
    OpenBuffersStay
    EditsComposeOneEditor
\* The model stops at its bounds; the store does not.
CHECK_DEADLOCK FALSE
