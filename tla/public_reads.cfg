SPECIFICATION FairSpec
CONSTANTS
    p1 = p1  p2 = p2  p3 = p3  k1 = k1  k2 = k2
    PageIds = {p1, p2, p3}
    MenuIds = {}
    RedirectIds = {}
    Sites = {1, 2}
    Keys = {k1, k2}
    Urls = {1, 2}
    NoRow = NoRow
    None = None
    Readers = {"a"}
    Users = {"ann"}
    Roles = {"editor"}
    Cap = 1
    Starts <- MCStarts
    MaxEdits = 2
    MaxReads = 2
INVARIANTS
    AnswersAreTrue
    SitemapComplete
PROPERTIES
    WalksEnd
CHECK_DEADLOCK FALSE
