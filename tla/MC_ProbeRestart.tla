-------------------------- MODULE MC_ProbeRestart --------------------------
(* Small instances of ProbeRestart.                                        *)
EXTENDS ProbeRestart

CONSTANTS h1, auto
=============================================================================
