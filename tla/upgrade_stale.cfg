SPECIFICATION PlanSpec
CONSTANTS
    anna = anna
    r1 = r1
    r2 = r2
    c1 = c1
    c2 = c2
    NoPlan = NoPlan
    NoUser = NoUser
    Users = {anna}
    Requests = {r1, r2}
    Changes = {c1}
    Signup <- NoFreeHint
    Days <- ThreeDays
    DailyLimit = 1
    Packs = {}
    Plans <- TokenPlans
    Priced <- TokenPlans
    PaddleModes = {TRUE}
    InitialPlan <- OnLite
    Overlapping = FALSE
    MayCrash = FALSE
    RolloverCapCycles = 2
    MonthDays = 1
    YearMonths = 1
    LastDay = 3
    MaxTopUp = 0
SYMMETRY AnyCall
CHECK_DEADLOCK FALSE
PROPERTIES
    UpgradeSetsMaximum
