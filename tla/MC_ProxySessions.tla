--------------------------- MODULE MC_ProxySessions ---------------------------
(* Two goroutines on a store of at most two credentials, two ids and two
   usernames (so that ids and names are contended and reused after a purge).  *)
EXTENDS ProxySessions, TLC

CONSTANTS a1, h1, h2, p1, p2, i1, i2, u1, u2

Symm == Permutations({h1, h2}) \cup Permutations({p1, p2})
            \cup Permutations({i1, i2}) \cup Permutations({u1, u2})
=============================================================================
