SPECIFICATION ContentSpec
CONSTANTS
    Posts = {p1, p2}
    Slugs = {a, b, s}
    Sources = {d1}
    Editors = {e1, e2}
    MaxTime = 1
    MaxCrashes = 0
    None = None
SYMMETRY AnyNames
CHECK_DEADLOCK FALSE
PROPERTIES
    RedirectsResolve
