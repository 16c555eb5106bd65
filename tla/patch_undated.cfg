SPECIFICATION ContentSpec
CONSTANTS
    Posts = {p1}
    Slugs = {a, b}
    Sources = {d1}
    Editors = {e1}
    MaxTime = 1
    MaxCrashes = 0
    None = None
CHECK_DEADLOCK FALSE
INVARIANTS
    PublishedIsDated
