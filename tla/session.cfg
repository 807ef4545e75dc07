SPECIFICATION Spec
CONSTANTS
    b1 = b1
    b2 = b2
    r1 = r1
    r2 = r2
    r3 = r3
    Browsers = {b1, b2}
    Users = {ann, bob}
    Reqs = {r1, r2, r3}
    Owner <- MCOwner
    Ids = {i1, i2}
    Empty = Empty
    NoCookie = NoCookie
SYMMETRY Symmetry
INVARIANT OwnUser
PROPERTY SeenSpec
