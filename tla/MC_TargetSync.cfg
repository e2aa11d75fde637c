SPECIFICATION FairSpec
CONSTANTS
    t1 = t1
    a1 = a1
    j1 = j1
    j2 = j2
    j3 = j3
    Nil = Nil
    Targets = {t1}
    Agents = {a1}
    Jobs = {j1, j2, j3}
    May <- Requests
    Updates <- UpdatesMade
    Edits <- EditsMade
INVARIANTS
    ProbeFollowsTables
    TablesFollowAdmins
PROPERTIES
    OrphansCleaned
CHECK_DEADLOCK FALSE
