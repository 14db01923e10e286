SPECIFICATION FairSpec
CONSTANTS
    ann = ann  bob = bob  s1 = s1
    Calls = {1, 2}
    Requests <- AllRequests
    Configs <- MCConfigs
    Sites = {1}
    Clients = {ann, bob}
    Ports = {1, 2}
    Sessions = {s1}
    None = None
    IdentityLimit = 1
    IpLimit = 1
    MaxHour = 1
    MaxLives = 1
INVARIANTS
    IntakeInv
    ClientWithinLimit
    AuditTellsOutcome
PROPERTIES
    RefusedOnlyWhenFull
    VerifiedCallEnds
CHECK_DEADLOCK FALSE
