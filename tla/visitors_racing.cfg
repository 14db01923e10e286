SPECIFICATION FairSpec
CONSTANTS
    v1 = v1  v2 = v2  v3 = v3  v4 = v4  v5 = v5
    t1 = t1  t2 = t2  t3 = t3  t4 = t4  t5 = t5
    b1 = b1  b2 = b2  u1 = u1  u2 = u2  home = home
    NoRow = NoRow  Gone = Gone  None = None
    VisitorIds = {v1, v2, v3, v4}
    TrackIds = {t1, t2, t3, t4}
    Sites = {1}
    Browsers = {b1, b2}
    Principals = {u1, u2}
    PageUrls = {home}
    Procs = {"p", "q"}
    Peppers = {"pepper", ""}
    VisitWindow = 1
    TrackDedup = 1
    Retention = 1
    Batch = 1
    Starts <- MCStarts
    Verbs = {"heartbeat", "merge", "sweep"}
    MaxCalls = 2
    MaxNow = 2
INVARIANTS
    VisitorsInv
PROPERTIES
    VisitsCountOnce
    SweepTakesOnlyStale
    AbsorbedNotLost
    EveryCallEnds
CHECK_DEADLOCK FALSE
