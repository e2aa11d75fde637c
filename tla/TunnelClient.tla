--------------------------- MODULE TunnelClient ---------------------------
(* The console client of the exit proxy: its Dialer and table of tunnels, the
   loopback listener that serves SOCKS5 and HTTP CONNECT, the port forwards,
   the request console, and the relay between a local socket and a tunnel.
   A connection k is one use of Dialer.Dial.  The process's exit, after
   cleanup, is not modelled.                                               *)
EXTENDS FiniteSets

CONSTANTS
    Conns,      \* uses of Dialer.Dial
    Listeners,  \* loopback addresses to listen on
    Ways,       \* Ways[k]: what connection k may be opened for
    Nil

Local == {"socks", "connect", "forward"}
Kinds == Local \cup {"console", "request"}

ASSUME ClientAssumption ==
    /\ Ways \in [Conns -> SUBSET Kinds]
    /\ Nil \notin Listeners

VARIABLES
    kind,       \* what k serves: a way in of the local proxy, a forward, ...
    pc,         \* the goroutine that dials and then uses the tunnel
    ws,         \* k's WebSocket: ended by the Host, or closed by the client
    tool,       \* the local program's end of the socket, until the client closes it
    told,       \* its program has seen the end of the stream, or an answer
    copies,     \* the directions of relay still copying
    abandoned,  \* DialContext returned ctx.Err() before the dial arrived
    tunnels,    \* Dialer.tunnels
    forgotten,  \* countedConn.once of k has run onClose
    closing,    \* what CloseAll's snapshot still has to close
    listener,   \* LocalProxy.listener
    bound,      \* addresses a listener of the client holds
    stopping    \* the one Stop has taken out and not closed yet

sockets == <<kind, pc, tool, told, copies, abandoned>>
dialer == <<ws, tunnels, forgotten, closing>>
ports == <<listener, bound, stopping>>
vars == <<sockets, dialer, ports>>

TypeOK ==
    /\ kind \in [Conns -> Kinds \cup {Nil}]
    /\ pc \in [Conns -> {"idle", "negotiate", "dial", "handshake", "opened",
                         "relay", "held", "use", "done"}]
    /\ ws \in [Conns -> {"none", "open", "ended", "closed"}]
    /\ tool \in [Conns -> {"none", "open", "half", "gone"}]
    /\ told \in [Conns -> BOOLEAN]
    /\ copies \in [Conns -> SUBSET {"up", "down"}]
    /\ abandoned \in [Conns -> BOOLEAN]
    /\ tunnels \subseteq Conns /\ forgotten \subseteq Conns /\ closing \subseteq Conns
    /\ \A k \in Conns : copies[k] # {} => pc[k] = "relay"
    /\ listener \in Listeners \cup {Nil} /\ stopping \in Listeners \cup {Nil}
    /\ bound \subseteq Listeners

Init ==
    /\ kind = [k \in Conns |-> Nil]
    /\ pc = [k \in Conns |-> "idle"]
    /\ ws = [k \in Conns |-> "none"]
    /\ tool = [k \in Conns |-> "none"]
    /\ told = [k \in Conns |-> FALSE]
    /\ copies = [k \in Conns |-> {}]
    /\ abandoned = [k \in Conns |-> FALSE]
    /\ tunnels = {} /\ forgotten = {} /\ closing = {}
    /\ listener = Nil /\ bound = {} /\ stopping = Nil

\* The tunnel carries bytes.
Up(k) == ws[k] = "open"

\* The user of the tunnel is through: it has an answer or the end of the stream,
\* and its local socket, if any, is closed.
Leave(k) ==
    /\ pc' = [pc EXCEPT ![k] = "done"]
    /\ tool' = [tool EXCEPT ![k] = "none"]
    /\ told' = [told EXCEPT ![k] = TRUE]

(***************************************************************************)
(* The listener: Start runs in a command's goroutine, Stop in the console.  *)

\* An address that is refused or taken changes nothing.
Start(l) ==
    /\ listener = Nil /\ l \notin bound
    /\ listener' = l /\ bound' = bound \cup {l}
    /\ UNCHANGED <<stopping, sockets, dialer>>

Stop ==
    /\ listener # Nil /\ stopping = Nil
    /\ listener' = Nil /\ stopping' = listener
    /\ UNCHANGED <<bound, sockets, dialer>>

\* close(closed) and ln.Close, outside the lock.
StopClose ==
    /\ stopping # Nil
    /\ bound' = bound \ {stopping} /\ stopping' = Nil
    /\ UNCHANGED <<listener, sockets, dialer>>

(***************************************************************************)
(* Ways into the dialer                                                     *)

\* serve and serveConn: the first byte tells SOCKS5 from HTTP.
Accept(k, way) ==
    /\ pc[k] = "idle"
    /\ way \in Local \ {"forward"} /\ bound # {}
    /\ kind' = [kind EXCEPT ![k] = way]
    /\ tool' = [tool EXCEPT ![k] = "open"]
    /\ pc' = [pc EXCEPT ![k] = "negotiate"]
    /\ UNCHANGED <<told, copies, abandoned, dialer, ports>>

\* A forward rule has a listener of its own, and its target is known.
AcceptForward(k) ==
    /\ pc[k] = "idle"
    /\ kind' = [kind EXCEPT ![k] = "forward"]
    /\ tool' = [tool EXCEPT ![k] = "open"]
    /\ pc' = [pc EXCEPT ![k] = "dial"]
    /\ UNCHANGED <<told, copies, abandoned, dialer, ports>>

\* openTunnel and doRequest.
Ask(k, way) ==
    /\ pc[k] = "idle"
    /\ way \in Kinds \ Local
    /\ kind' = [kind EXCEPT ![k] = way]
    /\ pc' = [pc EXCEPT ![k] = "dial"]
    /\ UNCHANGED <<tool, told, copies, abandoned, dialer, ports>>

\* The first byte, then socksNegotiate and socksReadRequest, or the HTTP header.
Negotiated(k) ==
    /\ pc[k] = "negotiate" /\ tool[k] # "gone"
    /\ pc' = [pc EXCEPT ![k] = "dial"]
    /\ UNCHANGED <<kind, tool, told, copies, abandoned, dialer, ports>>

\* The program hung up, asked for something unsupported or was too slow.
NegotiationFails(k) ==
    /\ pc[k] = "negotiate"
    /\ Leave(k)
    /\ UNCHANGED <<kind, copies, abandoned, dialer, ports>>

(***************************************************************************)
(* dialTarget                                                               *)

Dialed(k) ==
    /\ pc[k] = "dial"
    /\ ws' = [ws EXCEPT ![k] = "open"]
    /\ pc' = [pc EXCEPT ![k] = "handshake"]
    /\ UNCHANGED <<kind, tool, told, copies, abandoned>>
    /\ UNCHANGED <<tunnels, forgotten, closing, ports>>

\* What each caller of Dial does with an error: answer and leave.
DialFails(k) ==
    /\ pc[k] = "dial"
    /\ Leave(k)
    /\ UNCHANGED <<kind, copies, abandoned, dialer, ports>>

\* Mutant: the tunnel is handed over and not listed.
OpenedUnlisted(k) ==
    /\ pc[k] = "handshake" /\ ws[k] = "open"
    /\ pc' = [pc EXCEPT ![k] = "opened"]
    /\ UNCHANGED <<kind, tool, told, copies, abandoned, dialer, ports>>

\* reply.OK: the tunnel is in the table before Dial returns it.
Opened(k) ==
    /\ pc[k] = "handshake" /\ ws[k] = "open"
    /\ tunnels' = tunnels \cup {k}
    /\ pc' = [pc EXCEPT ![k] = "opened"]
    /\ UNCHANGED <<kind, tool, told, copies, abandoned>>
    /\ UNCHANGED <<ws, forgotten, closing, ports>>

\* No reply within handshakeTimeout, or a refusal: tracked.Close.
Refused(k) ==
    /\ pc[k] = "handshake"
    /\ ws' = [ws EXCEPT ![k] = "closed"]
    /\ Leave(k)
    /\ UNCHANGED <<kind, copies, abandoned>>
    /\ UNCHANGED <<tunnels, forgotten, closing, ports>>

\* countedConn.Close runs onClose once, after the WebSocket is closed.
Forget(k) ==
    /\ ws[k] = "closed" /\ k \notin forgotten
    /\ forgotten' = forgotten \cup {k}
    /\ tunnels' = tunnels \ {k}
    /\ UNCHANGED <<ws, closing, sockets, ports>>

(***************************************************************************)
(* DialContext, for the request console and the proxy's plain requests       *)

\* ctx.Done() is chosen: a goroutine stays to receive the dial.
Abandon(k) ==
    /\ kind[k] = "request" /\ pc[k] \in {"dial", "handshake", "opened"}
    /\ ~abandoned[k]
    /\ abandoned' = [abandoned EXCEPT ![k] = TRUE]
    /\ UNCHANGED <<kind, pc, tool, told, copies, dialer, ports>>

\* Mutant: nobody receives the dial that arrives late.
DropLate(k) == FALSE /\ UNCHANGED vars

\* The late dial is received and closed.
ReleaseLate(k) ==
    /\ pc[k] = "opened" /\ abandoned[k]
    /\ ws' = [ws EXCEPT ![k] = "closed"]
    /\ Leave(k)
    /\ UNCHANGED <<kind, copies, abandoned>>
    /\ UNCHANGED <<tunnels, forgotten, closing, ports>>

\* http.Transport takes the connection ...
Receive(k) ==
    /\ kind[k] = "request" /\ pc[k] = "opened" /\ ~abandoned[k]
    /\ pc' = [pc EXCEPT ![k] = "use"]
    /\ UNCHANGED <<kind, tool, told, copies, abandoned, dialer, ports>>

\* ... and closes it after an error or IdleConnTimeout.
TransportCloses(k) ==
    /\ pc[k] = "use"
    /\ ws' = [ws EXCEPT ![k] = "closed"]
    /\ Leave(k)
    /\ UNCHANGED <<kind, copies, abandoned>>
    /\ UNCHANGED <<tunnels, forgotten, closing, ports>>

\* openTunnel: nobody reads the tunnel; the console keeps it.
Hold(k) ==
    /\ kind[k] = "console" /\ pc[k] = "opened"
    /\ pc' = [pc EXCEPT ![k] = "held"]
    /\ UNCHANGED <<kind, tool, told, copies, abandoned, dialer, ports>>

(***************************************************************************)
(* The relay                                                                *)

\* socksWriteReply or the 200 line, and what the program had pipelined.
RelayBegins(k) ==
    /\ kind[k] \in Local /\ pc[k] = "opened"
    /\ pc' = [pc EXCEPT ![k] = "relay"]
    /\ copies' = [copies EXCEPT ![k] = {"up", "down"}]
    /\ UNCHANGED <<kind, tool, told, abandoned, dialer, ports>>

\* That write fails, or what was pipelined to a SOCKS connection cannot be sent
\* on: both ends are closed.  A forward writes nothing.
ReplyFails(k) ==
    /\ kind[k] \in Local \ {"forward"} /\ pc[k] = "opened"
    /\ tool[k] = "gone" \/ (kind[k] = "socks" /\ ~Up(k))
    /\ ws' = [ws EXCEPT ![k] = "closed"]
    /\ Leave(k)
    /\ UNCHANGED <<kind, copies, abandoned>>
    /\ UNCHANGED <<tunnels, forgotten, closing, ports>>

\* Mutant: the copy just ends.
HalfClosesNot(k) == FALSE

\* Only a *net.TCPConn has CloseWrite: the socket of a SOCKS or a forwarded
\* connection, not the peekConn that Hijack returns, not the tunnel.
HalfCloses(k) == kind[k] \in {"socks", "forward"}

EndDown(k) ==
    /\ "down" \in copies[k]
    /\ copies' = [copies EXCEPT ![k] = @ \ {"down"}]
    /\ told' = [told EXCEPT ![k] = @ \/ HalfCloses(k)]
    /\ UNCHANGED <<kind, pc, tool, abandoned, dialer, ports>>

EndUp(k) ==
    /\ "up" \in copies[k]
    /\ copies' = [copies EXCEPT ![k] = @ \ {"up"}]
    /\ UNCHANGED <<kind, pc, tool, told, abandoned, dialer, ports>>

\* Reading the tunnel fails: closed by either end, or the keepalive ran out.
DownEof(k) == ~Up(k) /\ EndDown(k)

\* Something arrives for a program that has gone.
DownUnwritable(k) == tool[k] = "gone" /\ Up(k) /\ EndDown(k)

\* The program has sent all it had.
UpEof(k) == tool[k] \in {"half", "gone"} /\ EndUp(k)

\* The program sends into a tunnel that is closed.
UpUnwritable(k) == tool[k] = "open" /\ ~Up(k) /\ EndUp(k)

\* Both directions are done: both ends are closed.
RelayEnds(k) ==
    /\ pc[k] = "relay" /\ copies[k] = {}
    /\ Leave(k)
    /\ ws' = [ws EXCEPT ![k] = "closed"]
    /\ UNCHANGED <<kind, copies, abandoned>>
    /\ UNCHANGED <<tunnels, forgotten, closing, ports>>

(***************************************************************************)
(* CloseAll, from the console or cleanup                                    *)

CloseAll ==
    /\ closing = {} /\ tunnels # {}
    /\ closing' = tunnels
    /\ UNCHANGED <<ws, tunnels, forgotten, sockets, ports>>

CloseOne(k) ==
    /\ k \in closing
    /\ closing' = closing \ {k}
    /\ ws' = [ws EXCEPT ![k] = "closed"]
    /\ UNCHANGED <<tunnels, forgotten, sockets, ports>>

(***************************************************************************)
(* Outside                                                                  *)

\* The Host ends the tunnel, or the link to it is lost.
HostCloses(k) ==
    /\ ws[k] = "open"
    /\ ws' = [ws EXCEPT ![k] = "ended"]
    /\ UNCHANGED <<tunnels, forgotten, closing, sockets, ports>>

\* The program finishes sending, or goes.
ToolEnds(k, how) ==
    /\ tool[k] \in {"open", "half"} /\ tool[k] # how
    /\ tool' = [tool EXCEPT ![k] = how]
    /\ UNCHANGED <<kind, pc, told, copies, abandoned, dialer, ports>>

Step(k) ==
    \/ Negotiated(k) \/ NegotiationFails(k)
    \/ Dialed(k) \/ DialFails(k) \/ Opened(k) \/ Refused(k) \/ Forget(k)
    \/ Abandon(k) \/ ReleaseLate(k) \/ Receive(k) \/ TransportCloses(k) \/ Hold(k)
    \/ RelayBegins(k) \/ ReplyFails(k)
    \/ DownEof(k) \/ DownUnwritable(k) \/ UpEof(k) \/ UpUnwritable(k) \/ RelayEnds(k)
    \/ CloseOne(k) \/ HostCloses(k)

Next ==
    \/ \E l \in Listeners : Start(l)
    \/ Stop \/ StopClose \/ CloseAll
    \/ \E k \in Conns :
          \/ Step(k)
          \/ \E way \in Ways[k] : Accept(k, way) \/ Ask(k, way)
          \/ "forward" \in Ways[k] /\ AcceptForward(k)
          \/ \E how \in {"half", "gone"} : ToolEnds(k, how)

Spec == Init /\ [][Next]_vars

\* A goroutine that can run does, and every wait that has a timeout ends: the
\* dial and the handshake.  Nothing is assumed of the Host, of local programs
\* (serveConn waits for a first byte without a deadline), or of traffic arriving
\* on an idle connection.
FairSpec ==
    /\ Spec
    /\ WF_vars(StopClose)
    /\ \A k \in Conns :
          /\ WF_vars(Dialed(k) \/ DialFails(k))
          /\ WF_vars(Opened(k) \/ Refused(k)) /\ WF_vars(Forget(k))
          /\ WF_vars(ReleaseLate(k)) /\ WF_vars(Receive(k) \/ Hold(k) \/ RelayBegins(k))
          /\ WF_vars(TransportCloses(k))
          /\ WF_vars(DownEof(k)) /\ WF_vars(UpEof(k)) /\ WF_vars(RelayEnds(k))
          /\ WF_vars(CloseOne(k))

(***************************************************************************)
(* Properties                                                               *)

\* Dial hands over a tunnel: it is in the table, where CloseAll and the console
\* find it, for as long as its WebSocket is open; an entry whose onClose has
\* run is gone for good.
TableExact ==
    \A k \in Conns :
       /\ pc[k] \in {"opened", "relay", "held", "use"} /\ ws[k] # "closed" => k \in tunnels
       /\ k \in tunnels => k \notin forgotten

\* DialContext: "release the tunnel whenever it eventually arrives rather than
\* leaking it".
LateDialReleased ==
    \A k \in Conns : abandoned[k] ~> ws[k] \in {"none", "closed"} /\ k \notin tunnels

\* A tunnel the Host ends is seen to end by the program behind a SOCKS or a
\* forwarded connection, even if that program keeps its own side open.
HostEndReachesTool ==
    \A k \in Conns :
       pc[k] = "relay" /\ kind[k] \in {"socks", "forward"} /\ ~Up(k) ~> told[k]

\* The comment on relay: "copies bytes both ways until either side closes".
RelayUntilEitherCloses ==
    \A k \in Conns :
       pc[k] = "relay" /\ (~Up(k) \/ tool[k] = "gone") ~> pc[k] # "relay"

\* The inductive invariant of TableExact.  A connection that has not been dialed
\* has no WebSocket, onClose runs after the WebSocket was closed, and only what
\* Dial handed over is listed or closed by CloseAll.
NotDialed == \A k \in Conns : pc[k] \in {"idle", "negotiate", "dial"} => ws[k] = "none"
ForgottenClosed == \A k \in forgotten : ws[k] = "closed"
ListedOpened == \A k \in tunnels \cup closing : pc[k] \in {"opened", "relay", "held", "use", "done"}

ClientInv == TypeOK /\ TableExact /\ NotDialed /\ ForgottenClosed /\ ListedOpened
=============================================================================
