----------------------------- MODULE RouteTrace -----------------------------
(***************************************************************************)
(* One TraceTarget of the probe's tracer (agent/internal/traceroute/       *)
(* tracer.go): echo requests of rising TTL, a few per hop, and waitReply,  *)
(* which takes what arrives on a raw ICMP socket.                          *)
(*                                                                         *)
(* The route is a line of nodes 1, 2, ...; the last of them is the         *)
(* destination or a router that has no way further.  A message is the      *)
(* answer to one request, or a stray: a message to another program, to     *)
(* the probe's own pings or to nobody's request.  An answer that is not    *)
(* taken before the time-out is lost or late: it stays in the air.  The    *)
(* round-trip times and host names of a hop are left out.                  *)
(***************************************************************************)
EXTENDS Naturals, Sequences

CONSTANTS
    MaxHops,       \* 30 in the code
    ProbesPerHop,  \* 3 in the code
    Nowhere        \* no address

ASSUME TracerAssumption ==
    {MaxHops, ProbesPerHop} \subseteq Nat \ {0} /\ Nowhere \notin Nat

VARIABLES
    route,    \* how many nodes it has and whether the last is the destination
    air,      \* answers that have not been taken
    step,     \* where TraceTarget is
    ttl, attempt,
    hop,      \* hopIP and recvCount
    hops,     \* report.Hops
    reached,
    expired,  \* ctx is cancelled
    tardy,    \* history: a late answer was taken for that of a later request
    misled    \* history: a stray was taken for an answer

tracer == <<route, air, step, ttl, attempt, hop, hops, reached, expired, tardy, misled>>

Nodes == 1..(MaxHops + 1)
Elsewhere == 0
Unanswered == [addr |-> Nowhere, answers |-> 0]

TracerInit ==
    /\ route = [nodes |-> 1, open |-> TRUE]
    /\ air = {} /\ step = "resolve" /\ ttl = 1 /\ attempt = 0
    /\ hop = Unanswered /\ hops = <<>> /\ reached = FALSE
    /\ expired = FALSE /\ tardy = FALSE /\ misled = FALSE

Destination(node) == route.open /\ node = route.nodes

-----------------------------------------------------------------------------
(* The network                                                             *)

\* How far a request of this TTL gets, and what it is answered with.
NodeAt(n) == IF n < route.nodes THEN n ELSE route.nodes
KindAt(n) == IF n < route.nodes THEN "exceeded" ELSE IF route.open THEN "echo" ELSE "unreachable"
Answer == [from |-> NodeAt(ttl), kind |-> KindAt(ttl), of |-> <<ttl, attempt>>]

\* A ping of the same target by the probe itself, and another program's trace.
Strays ==
    {[from |-> Elsewhere, kind |-> "exceeded", of |-> <<0, 0>>]}
        \cup {[from |-> n, kind |-> "echo", of |-> <<0, 0>>] : n \in {m \in Nodes : Destination(m)}}

-----------------------------------------------------------------------------
(* TraceTarget                                                             *)

\* The name has no address, or there is no socket: the report is empty.
Unresolved ==
    /\ step = "resolve"
    /\ step' = "done"
    /\ UNCHANGED <<route, air, ttl, attempt, hop, hops, reached, expired, tardy, misled>>

\* The route is whatever the network has.
Resolved ==
    /\ step = "resolve"
    /\ step' = "hop"
    /\ route' \in [nodes : Nodes, open : BOOLEAN]
    /\ UNCHANGED <<air, ttl, attempt, hop, hops, reached, expired, tardy, misled>>

\* Mutant: a hop starts with what is known of the one before.
HopBeginsKept ==
    /\ step = "hop" /\ ttl <= MaxHops /\ ~expired
    /\ step' = "probe" /\ attempt' = 0
    /\ UNCHANGED <<route, air, ttl, hop, hops, reached, expired, tardy, misled>>

HopBegins ==
    /\ step = "hop" /\ ttl <= MaxHops /\ ~expired
    /\ step' = "probe" /\ attempt' = 0 /\ hop' = Unanswered
    /\ UNCHANGED <<route, air, ttl, hops, reached, expired, tardy, misled>>

HopsEnd ==
    /\ step = "hop" /\ (ttl > MaxHops \/ expired)
    /\ step' = "done"
    /\ UNCHANGED <<route, air, ttl, attempt, hop, hops, reached, expired, tardy, misled>>

Probing == step = "probe" /\ attempt < ProbesPerHop /\ ~expired

Probe ==
    /\ Probing
    /\ air' = air \cup {Answer}
    /\ step' = "wait"
    /\ UNCHANGED <<route, ttl, attempt, hop, hops, reached, expired, tardy, misled>>

ProbeFails ==
    /\ Probing
    /\ attempt' = attempt + 1
    /\ UNCHANGED <<route, air, step, ttl, hop, hops, reached, expired, tardy, misled>>

\* waitReply takes any message of these kinds: it never looks at the sequence
\* number.  An echo of another host with another id is passed over.
WaitReply(m) ==
    /\ step = "wait"
    /\ air' = air \ {m}
    /\ hop' = [addr |-> m.from, answers |-> hop.answers + 1]
    /\ reached' = (reached \/ m.kind = "echo" \/ Destination(m.from))
    /\ tardy' = (tardy \/ m.of # <<ttl, attempt>>)
    /\ misled' = (misled \/ m \in Strays)
    /\ attempt' = attempt + 1 /\ step' = "probe"
    /\ UNCHANGED <<route, ttl, hops, expired>>

ProbeTimeout ==
    /\ step = "wait"
    /\ attempt' = attempt + 1 /\ step' = "probe"
    /\ UNCHANGED <<route, air, ttl, hop, hops, reached, expired, tardy, misled>>

\* The hop is reported, with the requests never sent as lost.
HopEnds ==
    /\ step = "probe" /\ ~Probing
    /\ hops' = Append(hops, hop)
    /\ IF reached THEN step' = "done" /\ UNCHANGED ttl ELSE step' = "hop" /\ ttl' = ttl + 1
    /\ UNCHANGED <<route, air, attempt, hop, reached, expired, tardy, misled>>

\* The probe stops.
Expire ==
    /\ ~expired
    /\ expired' = TRUE
    /\ UNCHANGED <<route, air, step, ttl, attempt, hop, hops, reached, tardy, misled>>

TracerNext ==
    \/ Unresolved \/ Resolved \/ HopBegins \/ HopsEnd \/ Probe \/ ProbeFails
    \/ \E m \in air \cup Strays : WaitReply(m)
    \/ ProbeTimeout \/ HopEnds \/ Expire

TracerSpec == TracerInit /\ [][TracerNext]_tracer

-----------------------------------------------------------------------------
(* Properties                                                              *)

\* What a report says of the route, as long as no stray was taken for an answer.
\* Late answers move routers to later hops, never to earlier ones: a hop names a
\* node at most that far away, a route is not reported as reached before a request
\* could get there, nor traced past the destination.  Without late answers each
\* hop names its own node or nothing.
TraceSound ==
    ~misled =>
        /\ \A k \in DOMAIN hops : hops[k].addr # Nowhere =>
              /\ hops[k].addr \in 1..k
              /\ ~tardy => hops[k].addr = NodeAt(k)
              /\ Destination(hops[k].addr) => reached /\ k = Len(hops)
        /\ (step = "done" /\ reached) => route.open /\ Len(hops) >= route.nodes

\* The inductive invariant.  Types of the variables.
Hop == [addr : Nodes \cup {Elsewhere, Nowhere}, answers : Nat]

TracerTypeOK ==
    /\ route \in [nodes : Nodes, open : BOOLEAN]
    /\ step \in {"resolve", "hop", "probe", "wait", "done"}
    /\ ttl \in 1..(MaxHops + 1) /\ attempt \in Nat
    /\ hop \in Hop /\ hops \in Seq(Hop)
    /\ reached \in BOOLEAN /\ expired \in BOOLEAN /\ tardy \in BOOLEAN /\ misled \in BOOLEAN

\* Everything in the air answers a request that was sent, of this hop or before.
AirAnswers ==
    \A m \in air : \E n \in 1..ttl :
        m.from = NodeAt(n) /\ m.kind = KindAt(n) /\ m.of \in {n} \X Nat

\* A hop is reported for each TTL, and the trace ends at the first that reached.
HopsCounted ==
    /\ step = "resolve" => air = {} /\ ~reached /\ hops = <<>>
    /\ step # "done" => Len(hops) = ttl - 1
    /\ step = "done" /\ reached => Len(hops) = ttl
    /\ step = "hop" => ~reached
    /\ step \in {"probe", "wait"} => ttl <= MaxHops

\* What is known of the hop under way ...
ThisHopSound ==
    ~misled =>
        /\ reached => route.open /\ ttl >= route.nodes
        /\ (step \in {"probe", "wait"} /\ hop.addr # Nowhere) =>
              /\ hop.addr \in 1..ttl
              /\ ~tardy => hop.addr = NodeAt(ttl)
              /\ Destination(hop.addr) => reached

\* ... and of those reported.
PastHopsSound ==
    ~misled =>
        \A k \in DOMAIN hops : hops[k].addr # Nowhere =>
            /\ hops[k].addr \in 1..k
            /\ ~tardy => hops[k].addr = NodeAt(k)
            /\ Destination(hops[k].addr) => reached /\ step = "done" /\ k = Len(hops)

TracerInv == TracerTypeOK /\ AirAnswers /\ HopsCounted /\ ThisHopSound /\ PastHopsSound
=============================================================================
