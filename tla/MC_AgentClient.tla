--------------------------- MODULE MC_AgentClient ---------------------------
(* Two workers, three reports and a queue of two.                          *)
EXTENDS AgentClient

CONSTANTS m1, m2, m3, w1, w2
=============================================================================
