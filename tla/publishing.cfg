SPECIFICATION PublishingSpec
CONSTANTS
    Posts = {p1}
    Slugs = {a, b}
    Sources = {d1}
    Editors = {e1, e2}
    MaxTime = 2
    MaxCrashes = 1
    None = None
    Upserts <- UsualUpserts
    Patches <- UsualPatches
    Files <- OldFiles
SYMMETRY AnyNames
CHECK_DEADLOCK FALSE
INVARIANTS
    PublishingTypeOK
    SiteFollows
    WithdrawnIsTold
PROPERTIES
    PublishingDates
    RedirectsResolve
