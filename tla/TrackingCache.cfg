SPECIFICATION FairSpec
CONSTANTS
    Vehicles = {v1}
    Times = {1, 2}
    c1 = c1
    c2 = c2
    Calls = {c1, c2}
    GeofenceEnabled = TRUE
    None = None
    Roles <- MCRoles
    MaxUpdates = 2
    MaxCrashes = 1
INVARIANTS
    TypeOK
    TableAnswerIsRecent
    PageWithinTable
PROPERTIES
    GoesBackToStored
    CacheSettles
CHECK_DEADLOCK FALSE
