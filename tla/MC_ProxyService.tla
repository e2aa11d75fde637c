--------------------------- MODULE MC_ProxyService ---------------------------
(* Requests through one probe or two.                                       *)
EXTENDS ProxyService, TLC

CONSTANTS r1, r2, r3, s1, s2, a1, a2, p1, p2, k1, k2

\* Each session and each readPump belongs to the probe of its number.
OwnAgent == [x \in {s1, s2, p1, p2} |-> IF x \in {s1, p1} THEN a1 ELSE a2]
AgentsOfSessions == [s \in Sessions |-> OwnAgent[s]]
AgentsOfPumps == [p \in Pumps |-> OwnAgent[p]]

RequestSymmetry == Permutations(Requests)
=============================================================================
