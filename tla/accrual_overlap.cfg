SPECIFICATION Spec
CONSTANTS
    anna = anna
    r1 = r1
    r2 = r2
    r3 = r3
    NoPlan = NoPlan
    NoUser = NoUser
    Users = {anna}
    Requests = {r1, r2, r3}
    Signup <- OneHint
    Days <- FourDays
    DailyLimit = 1
    Packs = {1}
    Plans <- LiteOnly
    InitialPlan <- OnLite
    Overlapping = TRUE
    MayCrash = FALSE
    RolloverCapCycles = 2
    MonthDays = 1
    YearMonths = 2
    LastDay = 4
    MaxTopUp = 0
SYMMETRY AnyRequest
CHECK_DEADLOCK FALSE
INVARIANTS
    DripOncePerMonth
