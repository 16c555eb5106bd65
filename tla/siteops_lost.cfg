SPECIFICATION Spec
CONSTANTS
    news = news
    later = later
    ping = ping
    p1 = p1
    a = a
    c1 = c1
    c2 = c2
    None = None
    Posts = {p1}
    Slugs = {a}
    Sources = {later}
    Editors = {}
    MaxTime = 1
    MaxCrashes = 0
    DeliveryIds = {later}
    Payload <- SomePayloads
    Calls = {c1, c2}
    Tries = 2
CHECK_DEADLOCK FALSE
INVARIANTS
    DuplicateWasProcessed
