SPECIFICATION Spec
CONSTANTS
    Users = {u1, u2}
    Devices = {d1, d2}
    Ids = {m1}
    Calls = {c1, c2}
    Screenshots = {0, 3}
    MaxPhotos = 2
    MaxReads = 2
    Nothing = Nothing
SYMMETRY AnyNames
INVARIANTS
    ArchiveTypeOK
    PhotosAllOrNone
PROPERTIES
    OpenersKept
