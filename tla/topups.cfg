SPECIFICATION FairSpec
CONSTANTS
    anna = anna
    boris = boris
    t1 = t1
    t2 = t2
    s1 = s1
    s2 = s2
    paid = paid
    paidAgain = paidAgain
    activated = activated
    updated = updated
    canceled = canceled
    empty = empty
    c1 = c1
    c2 = c2
    None = None
    Users = {anna, boris}
    Signup <- NoSignupHints
    Days = {}
    DailyLimit = 0
    Txs = {t1}
    Subs = {s1}
    Events = {paid}
    EventData <- SomeEvents
    PackHints <- Pack
    CycleHints <- Plan
    PaddleLive = FALSE
    Calls = {c1, c2}
    MaxCrashes = 1
CHECK_DEADLOCK FALSE
INVARIANTS
    PaymentsTypeOK
    AckedIsHandled
PROPERTIES
    TopUpsCreditedOnce
    TopUpsSettle
