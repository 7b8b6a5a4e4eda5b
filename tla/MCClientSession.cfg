SPECIFICATION FairSpec
CONSTANTS
    Screens = {"s1", "s2"}
    MaxTokens = 3
    MaxBudget = 4
INVARIANTS
    TypeOK
    NotPresentedAgain
    StoreFollowsScreen
PROPERTIES
    NoNeedlessExpiry
    EveryTaskEnds
CHECK_DEADLOCK FALSE
