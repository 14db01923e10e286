SPECIFICATION Spec
CONSTANTS
    p1 = p1  p2 = p2
    m1 = m1  m2 = m2  m3 = m3  m4 = m4  m5 = m5  m6 = m6
    k1 = k1  a = a
    NoRow = NoRow
    None = None
    Keep = Keep
    PageIds = {p1, p2}
    MenuIds = {m1, m2, m3, m4}
    RedirectIds = {}
    Sites = {1}
    Keys = {k1}
    Urls = {a}
    Procs = {"p"}
    Catalogs <- TwoRoots
    Verbs = {"patch"}
    Actors = {"officer", "system"}
    Drafts <- MCDrafts
    Patches <- MovesOnly
    Viewers <- MCViewers
    MaxCalls = 2
INVARIANT
    DepthBounded
CHECK_DEADLOCK FALSE
