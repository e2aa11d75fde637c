SPECIFICATION Spec
CONSTANTS
    a1 = a1
    h1 = h1
    h2 = h2
    p1 = p1
    p2 = p2
    i1 = i1
    i2 = i2
    u1 = u1
    u2 = u2
    Nil = Nil
    Handles = {h1, h2}
    Ids = {i1, i2}
    Users = {u1, u2}
    Agents = {a1}
    Callers = {p1, p2}
    SessionTTL = 1
    MaxClock = 3
SYMMETRY Symm
INVARIANTS
    IndexesAgree
    LiveCredentialsKept
PROPERTIES
    RevocationFinal
