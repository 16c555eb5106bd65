SPECIFICATION ContentSpec
CONSTANTS
    Posts = {p1}
    Slugs = {a, b, s}
    Sources = {d1}
    Editors = {e1, e2}
    MaxTime = 1
    MaxCrashes = 0
    None = None
CHECK_DEADLOCK FALSE
PROPERTIES
    OldUrlsResolve
