SPECIFICATION Spec
CONSTANTS
    anna = anna
    boris = boris
    t1 = t1
    t2 = t2
    s1 = s1
    s2 = s2
    paid = paid
    paidAgain = paidAgain
    activated = activated
    updated = updated
    canceled = canceled
    empty = empty
    c1 = c1
    c2 = c2
    None = None
    Users = {anna}
    Signup <- NoSignupHints
    Days = {}
    DailyLimit = 0
    Txs = {}
    Subs = {s1, s2}
    Events = {activated, updated, canceled, empty}
    EventData <- SomeEvents
    PackHints <- Pack
    CycleHints <- Plan
    PaddleLive = TRUE
    Calls = {c1, c2}
    MaxCrashes = 1
CHECK_DEADLOCK FALSE
SYMMETRY AnyCall
INVARIANTS
    ActiveIsGranted
