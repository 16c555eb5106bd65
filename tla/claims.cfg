SPECIFICATION FairSpec
CONSTANTS
    anna = anna
    boris = boris
    carla = carla
    s1 = s1
    s2 = s2
    c1 = c1
    c2 = c2
    None = None
    Users = {anna, boris, carla}
    Signup <- OneHint
    Days = {}
    DailyLimit = 0
    Subs = {s1, s2}
    CycleHints <- OnePerCycle
    Permanent = {boris, carla}
    Claims = {c1, c2}
    Rank <- ByName
    MayLink = TRUE
    Paying <- CarlaPays
    Revivals <- LateUltimate
CHECK_DEADLOCK FALSE
INVARIANTS
    ClaimTypeOK
    FreeHintsConserved
    OneOwner
PROPERTIES
    ClaimsEnd
    DrainedOnlyInChain
    PaidAllAlongKept
