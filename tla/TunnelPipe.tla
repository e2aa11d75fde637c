----------------------------- MODULE TunnelPipe -----------------------------
(***************************************************************************)
(* What one proxy tunnel promises its client, whatever the host, the link  *)
(* and the probe do: a pair of FIFO byte pipes that may be cut short, and  *)
(* an orderly end only after the client has everything the target sent.    *)
(* "From here the endpoint is a byte pipe" (host/internal/proxy/tunnel.go).*)
(***************************************************************************)
EXTENDS Naturals, Sequences

CONSTANT Chunks

VARIABLES
    upIn,     \* what has been read from the client
    upOut,    \* what has been written to the target
    downIn,   \* what has been read from the target
    downOut,  \* what has been written to the client
    fate      \* how the client's connection ended: "open", "eof" or "cut"

vars == <<upIn, upOut, downIn, downOut, fate>>

Init == upIn = <<>> /\ upOut = <<>> /\ downIn = <<>> /\ downOut = <<>> /\ fate = "open"

ClientSends ==
    /\ fate = "open"
    /\ \E x \in Chunks : upIn' = Append(upIn, x)
    /\ UNCHANGED <<upOut, downIn, downOut, fate>>

TargetReceives ==
    /\ Len(upOut) < Len(upIn)
    /\ upOut' = Append(upOut, upIn[Len(upOut) + 1])
    /\ UNCHANGED <<upIn, downIn, downOut, fate>>

TargetSends ==
    /\ fate # "eof"
    /\ \E x \in Chunks : downIn' = Append(downIn, x)
    /\ UNCHANGED <<upIn, upOut, downOut, fate>>

ClientReceives ==
    /\ fate = "open" /\ Len(downOut) < Len(downIn)
    /\ downOut' = Append(downOut, downIn[Len(downOut) + 1])
    /\ UNCHANGED <<upIn, upOut, downIn, fate>>

\* The orderly end: nothing the target sent is missing.
Eof ==
    /\ fate = "open" /\ downOut = downIn
    /\ fate' = "eof"
    /\ UNCHANGED <<upIn, upOut, downIn, downOut>>

\* Revocation, expiry, a failed peer, a lost link.
Cut ==
    /\ fate = "open"
    /\ fate' = "cut"
    /\ UNCHANGED <<upIn, upOut, downIn, downOut>>

Next == ClientSends \/ TargetReceives \/ TargetSends \/ ClientReceives \/ Eof \/ Cut

Spec == Init /\ [][Next]_vars
=============================================================================
