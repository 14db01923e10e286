SPECIFICATION Spec
CONSTANTS
    r1 = r1  r2 = r2  r3 = r3
    RedirectIds = {r1, r2, r3}
    Sites = {1}
    Procs = {"p", "q"}
    Segments = {"", "a", "b", "en"}
    MaxSegments = 3
    Urls <- MCUrls
    Asked <- MCAsked
    Names = {"q"}
    Lang = "en"
    Starts <- MCStarts
    Verbs = {"create", "patch", "delete", "record", "rename", "resolve"}
    MaxCalls = 2
    NoRow = NoRow
    None = None
INVARIANTS
    RoutingInv
    LiveRowsAnswer
    NormalisingEnds
PROPERTIES
    PatchValidatesResult
CHECK_DEADLOCK FALSE
