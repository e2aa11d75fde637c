SPECIFICATION FairSpec
CONSTANTS
    a1 = a1
    c1 = c1
    c2 = c2
    d1 = d1
    Nil = Nil
    Agents = {a1}
    Conns = {c1, c2}
    Admins = {d1}
    Ops = {"rotate", "edit", "delete"}
    Messages = {"heartbeat", "ping", "traceroute"}
INVARIANTS
    SupersededClosed
    OnlineJustified
    RotationEnforced
    TunnelsDropped
PROPERTIES
    OnlineHeals
    DeletedDropped
CHECK_DEADLOCK FALSE
