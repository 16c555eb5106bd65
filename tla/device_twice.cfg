SPECIFICATION Spec
CONSTANTS
    Users = {u1, u2, u3}
    Emails = {e1, e2}
    Devices = {d1}
    Calls = {c1, c2}
    FreeGrant = 3
    MaxCrashes = 0
    None = None
SYMMETRY AnyNames
INVARIANTS
    GrantedOncePerDevice
