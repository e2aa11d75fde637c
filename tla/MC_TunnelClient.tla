-------------------------- MODULE MC_TunnelClient --------------------------
(* A connection through the local proxy or a forward beside one that the
   console opened, and a listener that can be stopped and started again.     *)
EXTENDS TunnelClient, TLC

CONSTANTS k1, k2, l1

LocalAndConsole ==
    (k1 :> {"socks", "connect", "forward"}) @@ (k2 :> {"console", "request"})
=============================================================================
