------------------------ MODULE TunnelClient_proofs ------------------------
(* The console client's table of tunnels is exact, for any number of
   connections, ways in and listeners.                                       *)
EXTENDS TunnelClient, TLAPS

\* The client starts without a connection.
LEMMA ClientStart == Init => ClientInv
  BY DEF Init, ClientInv, TypeOK, TableExact, NotDialed, ForgottenClosed, ListedOpened

\* The goroutines of a connection keep the types.
LEMMA StepTypes ==
    ASSUME TypeOK, NEW k \in Conns, Step(k)
    PROVE  TypeOK'
  <1>1. CASE Negotiated(k)
    BY <1>1 DEF TypeOK, dialer, ports, Negotiated
  <1>2. CASE NegotiationFails(k)
    BY <1>2 DEF TypeOK, dialer, ports, NegotiationFails, Leave
  <1>3. CASE Dialed(k)
    BY <1>3 DEF TypeOK, ports, Dialed
  <1>4. CASE DialFails(k)
    BY <1>4 DEF TypeOK, dialer, ports, DialFails, Leave
  <1>5. CASE Opened(k)
    BY <1>5 DEF TypeOK, ports, Opened
  <1>6. CASE Refused(k)
    BY <1>6 DEF TypeOK, ports, Refused, Leave
  <1>7. CASE Forget(k)
    BY <1>7 DEF TypeOK, sockets, ports, Forget
  <1>8. CASE Abandon(k)
    BY <1>8 DEF TypeOK, dialer, ports, Abandon
  <1>9. CASE ReleaseLate(k)
    BY <1>9 DEF TypeOK, ports, ReleaseLate, Leave
  <1>10. CASE Receive(k)
    BY <1>10 DEF TypeOK, dialer, ports, Receive
  <1>11. CASE TransportCloses(k)
    BY <1>11 DEF TypeOK, ports, TransportCloses, Leave
  <1>12. CASE Hold(k)
    BY <1>12 DEF TypeOK, dialer, ports, Hold
  <1>13. CASE RelayBegins(k)
    BY <1>13 DEF TypeOK, dialer, ports, RelayBegins
  <1>14. CASE ReplyFails(k)
    BY <1>14 DEF TypeOK, ports, ReplyFails, Leave
  <1>15. CASE DownEof(k)
    BY <1>15 DEF TypeOK, dialer, ports, DownEof, EndDown
  <1>16. CASE DownUnwritable(k)
    BY <1>16 DEF TypeOK, dialer, ports, DownUnwritable, EndDown
  <1>17. CASE UpEof(k)
    BY <1>17 DEF TypeOK, dialer, ports, UpEof, EndUp
  <1>18. CASE UpUnwritable(k)
    BY <1>18 DEF TypeOK, dialer, ports, UpUnwritable, EndUp
  <1>19. CASE RelayEnds(k)
    BY <1>19 DEF TypeOK, ports, RelayEnds, Leave
  <1>20. CASE CloseOne(k)
    BY <1>20 DEF TypeOK, sockets, ports, CloseOne
  <1>21. CASE HostCloses(k)
    BY <1>21 DEF TypeOK, sockets, ports, HostCloses
  <1> QED BY <1>1, <1>2, <1>3, <1>4, <1>5, <1>6, <1>7, <1>8, <1>9, <1>10, <1>11,
             <1>12, <1>13, <1>14, <1>15, <1>16, <1>17, <1>18, <1>19, <1>20, <1>21 DEF Step

\* ... and the table: Opened lists, Forget removes, and every other end of a
\* tunnel closes its WebSocket first.
LEMMA StepTable ==
    ASSUME ClientInv, NEW k \in Conns, Step(k)
    PROVE  TableExact' /\ NotDialed' /\ ForgottenClosed' /\ ListedOpened'
  <1>1. CASE Negotiated(k)
    BY <1>1 DEF ClientInv, TableExact, NotDialed, ForgottenClosed, ListedOpened, TypeOK, dialer,
       Negotiated
  <1>2. CASE NegotiationFails(k)
    BY <1>2 DEF ClientInv, TableExact, NotDialed, ForgottenClosed, ListedOpened, TypeOK, dialer,
       NegotiationFails, Leave
  <1>3. CASE Dialed(k)
    BY <1>3 DEF ClientInv, TableExact, NotDialed, ForgottenClosed, ListedOpened, TypeOK, Dialed
  <1>4. CASE DialFails(k)
    BY <1>4 DEF ClientInv, TableExact, NotDialed, ForgottenClosed, ListedOpened, TypeOK, dialer,
       DialFails, Leave
  <1>5. CASE Opened(k)
    BY <1>5 DEF ClientInv, TableExact, NotDialed, ForgottenClosed, ListedOpened, TypeOK, Opened
  <1>6. CASE Refused(k)
    BY <1>6 DEF ClientInv, TableExact, NotDialed, ForgottenClosed, ListedOpened, TypeOK,
       Refused, Leave
  <1>7. CASE Forget(k)
    BY <1>7 DEF ClientInv, TableExact, NotDialed, ForgottenClosed, ListedOpened, TypeOK,
       sockets, Forget
  <1>8. CASE Abandon(k)
    BY <1>8 DEF ClientInv, TableExact, NotDialed, ForgottenClosed, ListedOpened, TypeOK, dialer,
       Abandon
  <1>9. CASE ReleaseLate(k)
    BY <1>9 DEF ClientInv, TableExact, NotDialed, ForgottenClosed, ListedOpened, TypeOK,
       ReleaseLate, Leave
  <1>10. CASE Receive(k)
    BY <1>10 DEF ClientInv, TableExact, NotDialed, ForgottenClosed, ListedOpened, TypeOK,
       dialer, Receive
  <1>11. CASE TransportCloses(k)
    BY <1>11 DEF ClientInv, TableExact, NotDialed, ForgottenClosed, ListedOpened, TypeOK,
       TransportCloses, Leave
  <1>12. CASE Hold(k)
    BY <1>12 DEF ClientInv, TableExact, NotDialed, ForgottenClosed, ListedOpened, TypeOK,
       dialer, Hold
  <1>13. CASE RelayBegins(k)
    BY <1>13 DEF ClientInv, TableExact, NotDialed, ForgottenClosed, ListedOpened, TypeOK,
       dialer, RelayBegins
  <1>14. CASE ReplyFails(k)
    BY <1>14 DEF ClientInv, TableExact, NotDialed, ForgottenClosed, ListedOpened, TypeOK,
       ReplyFails, Leave
  <1>15. CASE DownEof(k)
    BY <1>15 DEF ClientInv, TableExact, NotDialed, ForgottenClosed, ListedOpened, TypeOK,
       dialer, DownEof, EndDown
  <1>16. CASE DownUnwritable(k)
    BY <1>16 DEF ClientInv, TableExact, NotDialed, ForgottenClosed, ListedOpened, TypeOK,
       dialer, DownUnwritable, EndDown
  <1>17. CASE UpEof(k)
    BY <1>17 DEF ClientInv, TableExact, NotDialed, ForgottenClosed, ListedOpened, TypeOK,
       dialer, UpEof, EndUp
  <1>18. CASE UpUnwritable(k)
    BY <1>18 DEF ClientInv, TableExact, NotDialed, ForgottenClosed, ListedOpened, TypeOK,
       dialer, UpUnwritable, EndUp
  <1>19. CASE RelayEnds(k)
    BY <1>19 DEF ClientInv, TableExact, NotDialed, ForgottenClosed, ListedOpened, TypeOK,
       RelayEnds, Leave
  <1>20. CASE CloseOne(k)
    BY <1>20 DEF ClientInv, TableExact, NotDialed, ForgottenClosed, ListedOpened, TypeOK,
       sockets, CloseOne
  <1>21. CASE HostCloses(k)
    BY <1>21 DEF ClientInv, TableExact, NotDialed, ForgottenClosed, ListedOpened, TypeOK,
       sockets, HostCloses
  <1> QED BY <1>1, <1>2, <1>3, <1>4, <1>5, <1>6, <1>7, <1>8, <1>9, <1>10, <1>11,
             <1>12, <1>13, <1>14, <1>15, <1>16, <1>17, <1>18, <1>19, <1>20, <1>21 DEF Step

\* A connection begins before there is a tunnel, and a local program's end of it
\* is not the tunnel's.
LEMMA BeginKeeps ==
    ASSUME ClientInv, NEW k \in Conns,
           \/ \E way \in Ways[k] : Accept(k, way) \/ Ask(k, way)
           \/ AcceptForward(k)
           \/ \E how \in {"half", "gone"} : ToolEnds(k, how)
    PROVE  ClientInv'
  <1>1. CASE \E way \in Ways[k] : Accept(k, way)
    <2>1. PICK way \in Kinds : Accept(k, way)
      BY <1>1, ClientAssumption
    <2> QED BY <2>1 DEF ClientInv, TypeOK, TableExact, NotDialed, ForgottenClosed, ListedOpened,
               Accept, dialer, ports
  <1>2. CASE \E way \in Ways[k] : Ask(k, way)
    <2>1. PICK way \in Kinds : Ask(k, way)
      BY <1>2, ClientAssumption
    <2> QED BY <2>1 DEF ClientInv, TypeOK, TableExact, NotDialed, ForgottenClosed, ListedOpened,
               Ask, dialer, ports
  <1>3. CASE AcceptForward(k)
    BY <1>3 DEF ClientInv, TypeOK, TableExact, NotDialed, ForgottenClosed, ListedOpened,
       AcceptForward, Kinds, Local, dialer, ports
  <1>4. CASE \E how \in {"half", "gone"} : ToolEnds(k, how)
    BY <1>4 DEF ClientInv, TypeOK, TableExact, NotDialed, ForgottenClosed, ListedOpened,
       ToolEnds, dialer, ports
  <1> QED BY <1>1, <1>2, <1>3, <1>4

\* The listener and CloseAll's snapshot.
LEMMA ConsoleKeeps ==
    ASSUME ClientInv, Stop \/ StopClose \/ CloseAll \/ \E l \in Listeners : Start(l)
    PROVE  ClientInv'
  <1>1. CASE Stop \/ StopClose \/ \E l \in Listeners : Start(l)
    BY <1>1 DEF ClientInv, TypeOK, TableExact, NotDialed, ForgottenClosed, ListedOpened,
       Stop, StopClose, Start, sockets, dialer
  <1>2. CASE CloseAll
    BY <1>2 DEF ClientInv, TypeOK, TableExact, NotDialed, ForgottenClosed, ListedOpened,
       CloseAll, sockets, ports
  <1> QED BY <1>1, <1>2

\* Every step keeps the invariant.
LEMMA ClientStep == ClientInv /\ [Next]_vars => ClientInv'
  <1> SUFFICES ASSUME ClientInv, [Next]_vars PROVE ClientInv'
    OBVIOUS
  <1>1. CASE UNCHANGED vars
    BY <1>1 DEF vars, sockets, dialer, ports, ClientInv, TypeOK, TableExact, NotDialed,
       ForgottenClosed, ListedOpened
  <1>2. ASSUME NEW k \in Conns, Step(k) PROVE ClientInv'
    <2>1. TypeOK'
      BY <1>2, StepTypes DEF ClientInv
    <2> QED BY <1>2, <2>1, StepTable DEF ClientInv
  <1> QED BY <1>1, <1>2, BeginKeeps, ConsoleKeeps DEF Next

\* The invariant holds whatever local programs, the Host and the console do.
THEOREM ClientInvariant == Spec => []ClientInv
  BY ClientStart, ClientStep, PTL DEF Spec

\* Dial lists a tunnel before it hands it over and countedConn.Close removes it
\* once: CloseAll and the console see exactly the tunnels that are open.
THEOREM ClientTableExact == Spec => []TableExact
  <1>1. ClientInv => TableExact
    BY DEF ClientInv
  <1> QED BY <1>1, ClientInvariant, PTL

\* onClose runs once: an entry that was removed never comes back.
THEOREM ClientForgetsOnce == Spec => [][forgotten \subseteq forgotten' /\ forgotten' \cap tunnels' = {}]_vars
  <1>1. ClientInv' => forgotten' \cap tunnels' = {}
    BY DEF ClientInv, TableExact, TypeOK
  <1>2. Next => forgotten \subseteq forgotten'
    <2>1. ASSUME NEW k \in Conns, Step(k) PROVE forgotten \subseteq forgotten'
      BY <2>1 DEF Step, Negotiated, NegotiationFails, Dialed, DialFails, Opened, Refused, Forget,
         Abandon, ReleaseLate, Receive, TransportCloses, Hold, RelayBegins, ReplyFails, DownEof,
         DownUnwritable, EndDown, UpEof, UpUnwritable, EndUp, RelayEnds, CloseOne, HostCloses,
         sockets, dialer
    <2>2. ASSUME NEW k \in Conns, AcceptForward(k) \/ \E way : Accept(k, way) \/ Ask(k, way)
                                  \/ ToolEnds(k, way)
          PROVE  forgotten \subseteq forgotten'
      BY <2>2 DEF AcceptForward, Accept, Ask, ToolEnds, dialer
    <2>3. ASSUME Stop \/ StopClose \/ CloseAll \/ \E l \in Listeners : Start(l)
          PROVE  forgotten \subseteq forgotten'
      BY <2>3 DEF Stop, StopClose, CloseAll, Start, dialer
    <2> QED BY <2>1, <2>2, <2>3 DEF Next
  <1> QED BY <1>1, <1>2, ClientInvariant, PTL DEF Spec
=============================================================================
