SPECIFICATION FairSpec
CONSTANTS
    TourIds = {t1, t2, t3}
    Names = {"intro", "menus"}
    Users = {u1, u2}
    Procs = {p, q}
    MaxCalls = 3
    NoRow = NoRow
    None = None
INVARIANT
    ToursInv
PROPERTIES
    FactsStand
    ToursAnswered
CHECK_DEADLOCK FALSE
