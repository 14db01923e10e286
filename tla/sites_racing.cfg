SPECIFICATION Spec
CONSTANTS
    g1 = g1  g2 = g2  g3 = g3
    SiteIds = {1, 2, 3, 4, 5}
    GenericIds = {g1, g2, g3}
    Companies = {"acme", "bolt"}
    Users = {1, 2, 3, 4}
    Urls = {"/", "/home", "/about"}
    Hosts <- MCHosts
    Inputs <- MCInputs
    Patches <- MCPatches
    TakenUrls = {"/about"}
    Starts <- MCStarts
    Procs = {"p", "q"}
    MaxCalls = 3
    NoRow = NoRow
    None = None
    Keep = Keep
INVARIANTS
    SitesInv
    HostFindsItsWebsite
PROPERTY
    DeletionSparesPrimary
CHECK_DEADLOCK FALSE
