SPECIFICATION Spec
CONSTANTS
    u1 = u1
    u2 = u2
    a = a
    b = b
    i1 = i1
    i2 = i2
    None = None
    Users = {u1, u2}
    Shops = {a, b}
    Slots = {i1, i2}
    Limit = 1
    Window = 1
    MaxTime = 1
    MaxActs = 3
SYMMETRY Symmetry
INVARIANTS
    OwnerRemains
    AnswersTrue
    WindowsBounded
PROPERTIES
    ActsAtOnce
CHECK_DEADLOCK FALSE
