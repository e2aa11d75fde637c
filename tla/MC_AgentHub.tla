----------------------------- MODULE MC_AgentHub -----------------------------
(* One probe, two racing connections and an admin request of any kind.      *)
EXTENDS AgentHub

CONSTANTS a1, c1, c2, d1
=============================================================================
