SPECIFICATION Spec
CONSTANTS
    p1 = p1  p2 = p2  p3 = p3  p4 = p4  p5 = p5  p6 = p6
    m1 = m1  m2 = m2  m3 = m3  r1 = r1  r2 = r2  r3 = r3
    k1 = k1  k2 = k2  a = a  b = b  c = c
    NoRow = NoRow
    None = None
    PageIds <- MCPageIds
    MenuIds = {m1, m2, m3}
    RedirectIds = {r1}
    Sites = {1, 2, 3}
    Keys = {k1, k2}
    Urls = {a, b}
    Procs = {"p", "q"}
    Catalogs <- MCVersioningCatalogs
    Verbs = {"fork", "fanout"}
    Actors = {"officer"}
    Listings = {}
    MaxCalls = 3
INVARIANTS
    MenusBoundToLive
PROPERTIES
    ImplementsCatalog
    ForkNeverInternal
    NoSiteLosesAPage
CHECK_DEADLOCK FALSE
