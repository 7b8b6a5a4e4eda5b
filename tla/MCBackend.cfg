SPECIFICATION FairSpec
CONSTANTS
    None = "none"
    Located = {"Mumbai", "Delhi"}
    HighRisk = {"Medicine"}
    Customers = {"ann", "bob"}
    Bookers = {"ann"}
    TrackingNos = {1, 2}
    ProfileUsers = {"ann"}
    Addresses = {"here", "there"}
    MaxBudget = 3
    Workloads <- MCWorkloads
    PageAsks <- MCPageAsks
    Forms <- MCForms
    RoadKm <- MCRoadKm
    CityWithId <- MCCityWithId
INVARIANTS
    TypeOK
    NoOrphans
    CleanStartComplete
    OnePrice
    TrackingNamesOneOrder
    PageFull
    PartsWithinWhole
    OnTimeIsARate
    UpdatesAreKept
PROPERTIES
    Idempotent
    DeliveredStands
    ServesInTheEnd
CHECK_DEADLOCK FALSE
