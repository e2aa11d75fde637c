--------------------------- MODULE MC_ProxyTunnel ---------------------------
(* One tunnel with short streams and queues of one chunk.                   *)
EXTENDS ProxyTunnel
=============================================================================
