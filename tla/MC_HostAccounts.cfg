SPECIFICATION HostSpec
CONSTANTS
    p1 = p1
    p2 = p2
    g1 = g1
    g2 = g2
    d1 = d1
    d2 = d2
    i1 = i1
    i2 = i2
    e1 = e1
    e2 = e2
    s1 = s1
    s2 = s2
    Nil = Nil
    Absent = Absent
    Replicas = {p1, p2}
    Logins = {g1, g2}
    Admins = {d1, d2}
    Editors = {s1, s2}
    Identities = {i1, i2}
    Emails = {e1, e2}
    Verified <- VerifiedEmails
    Primary <- PrimaryEmail
SYMMETRY HostSymmetry
INVARIANTS
    OneSuperadmin
    TokensVerify
    WhitelistKept
    ClientAsMeant
PROPERTIES
    SuperadminKeepsRole
CHECK_DEADLOCK FALSE
