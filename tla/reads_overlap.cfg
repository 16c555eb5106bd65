SPECIFICATION Spec
CONSTANTS
    anna = anna
    r1 = r1
    r2 = r2
    r3 = r3
    NoPlan = NoPlan
    NoUser = NoUser
    Users = {anna}
    Requests = {r1, r2, r3}
    Signup <- OneHint
    Days <- FourDays
    DailyLimit = 1
    Packs = {1}
    Plans <- LiteOrUltimate
    InitialPlan <- OnLite
    Overlapping = TRUE
    MayCrash = TRUE
    RolloverCapCycles = 2
    MonthDays = 1
    YearMonths = 2
    LastDay = 4
    MaxTopUp = 1
SYMMETRY AnyRequest
CHECK_DEADLOCK FALSE
INVARIANTS
    ReadsTypeOK
    LedgerCoversBalance
    PaidHintsConserved
    OneChargePerRead
    SubBucketBounded
    AccruedWithinPaid
    FairUseUnlessLate
