----------------------------- MODULE ProxyTunnel -----------------------------
(***************************************************************************)
(* One proxy tunnel end to end: the host's handler and pump                *)
(* (host/internal/proxy/service.go), the WebSocket between host and probe, *)
(* and the probe's proxyManager (agent/internal/client/proxy.go).          *)
(*                                                                         *)
(* Goroutines.  Host: the request's handler and writer (hpc), the reader   *)
(* of pump (rdr), the readPump of the probe's connection (hand).  Probe:   *)
(* the connection loop, the goroutine of open with its readLoop (apc), and *)
(* writeLoop.  A finish or dropIf that notifies sends its proxy_close in a *)
(* step of its own (hnote, anote).  A deletion from the table and the      *)
(* close of the tunnel object are one step: no code looks at both.         *)
(*                                                                         *)
(* Abstractions.  A chunk is its position in the stream.  The tunnel lives *)
(* within one connection of the probe, which may be lost; what a reconnect *)
(* does to tunnels is in AgentHub.  Several tunnels, the credential and    *)
(* its limit are in ProxyService: here another goroutine may finish the    *)
(* tunnel at any time (HostFinishes).                                      *)
(***************************************************************************)
EXTENDS Naturals, Sequences

CONSTANTS
    MaxUp,         \* bound: chunks the client sends
    MaxDown,       \* bound: chunks the target sends
    InboundQueue,  \* capacity of the host's t.inbound, 32 in the code
    WriteQueue     \* capacity of the probe's tab.writes, 32 in the code

ASSUME TunnelAssumption ==
    /\ MaxUp \in Nat /\ MaxDown \in Nat
    /\ InboundQueue \in Nat \ {0} /\ WriteQueue \in Nat \ {0}

VARIABLES
    hpc, htab, hdone, hcause, hnote,    \* handler; in Service.tunnels; t.done; who finished; proxy_close due
    opened, inb, hand,                  \* t.opened; t.inbound; chunk that readPump holds
    rdr, csent, copen, cgone, cgot,     \* reader; chunks read; client's connection; client hung up; written to it
    up, h2a, a2h,                       \* the link and the messages in flight
    apc, tab, tclosed, acause, anote,   \* open's goroutine; in m.tabs; closed; EOF ended it; proxy_close due
    writes, tconn, tsent, teof, tgot,   \* tab.writes; target's connection; chunks read; target closed; written to it
    fate, lost                          \* history: how the client's connection ended; a send timed out

hvars == <<hpc, htab, hdone, hcause, hnote, opened, inb, hand>>
cvars == <<rdr, csent, copen, cgone, cgot, fate>>
lvars == <<up, h2a, a2h, lost>>
avars == <<apc, tab, tclosed, acause, anote>>
tvars == <<writes, tconn, tsent, teof, tgot>>
vars == <<hvars, cvars, lvars, avars, tvars>>

Msg(kind, chunk) == [kind |-> kind, chunk |-> chunk]
First(n) == [i \in 1..n |-> i]

-----------------------------------------------------------------------------
(* Host                                                                    *)

\* finish(id, reason, notify).
Finish(cause, notify) ==
    IF htab
    THEN htab' = FALSE /\ hdone' = TRUE /\ hcause' = cause /\ hnote' = notify
    ELSE UNCHANGED <<htab, hdone, hcause, hnote>>

\* bridge.Send of the proxy_close: an error is ignored.
HostNotifies ==
    /\ hnote
    /\ hnote' = FALSE
    /\ \/ up /\ h2a' = Append(h2a, Msg("close", 0)) /\ UNCHANGED lost
       \/ lost' = (lost \/ up) /\ UNCHANGED h2a
    /\ UNCHANGED <<hpc, htab, hdone, hcause, opened, inb, hand, up, a2h>>
    /\ UNCHANGED <<cvars, avars, tvars>>

AwaitOpened ==
    /\ hpc = "waiting" /\ opened = "ok"
    /\ hpc' = "establishing" /\ opened' = "empty"
    /\ UNCHANGED <<htab, hdone, hcause, hnote, inb, hand>>
    /\ UNCHANGED <<cvars, lvars, avars, tvars>>

AwaitRefused ==
    /\ hpc = "waiting" /\ opened = "failed"
    /\ hpc' = "ended" /\ opened' = "empty" /\ Finish("refused", FALSE)
    /\ UNCHANGED <<inb, hand>>
    /\ UNCHANGED <<cvars, lvars, avars, tvars>>

\* Mutant: the probe is not told that the host gave up.
AwaitTimeoutSilent ==
    /\ hpc = "waiting"
    /\ hpc' = "ended" /\ Finish("timeout", FALSE)
    /\ UNCHANGED <<opened, inb, hand>>
    /\ UNCHANGED <<cvars, lvars, avars, tvars>>

AwaitTimeout ==
    /\ hpc = "waiting"
    /\ hpc' = "ended" /\ Finish("timeout", TRUE)
    /\ UNCHANGED <<opened, inb, hand>>
    /\ UNCHANGED <<cvars, lvars, avars, tvars>>

AwaitDone ==
    /\ hpc = "waiting" /\ hdone
    /\ hpc' = "ended"
    /\ UNCHANGED <<htab, hdone, hcause, hnote, opened, inb, hand>>
    /\ UNCHANGED <<cvars, lvars, avars, tvars>>

Establish ==
    /\ hpc = "establishing"
    /\ hpc' = "pumping" /\ rdr' = "reading" /\ copen' = TRUE
    /\ UNCHANGED <<htab, hdone, hcause, hnote, opened, inb, hand, csent, cgone, cgot, fate>>
    /\ UNCHANGED <<lvars, avars, tvars>>

EstablishFails ==
    /\ hpc = "establishing"
    /\ hpc' = "ended" /\ Finish("client", TRUE)
    /\ UNCHANGED <<opened, inb, hand>>
    /\ UNCHANGED <<cvars, lvars, avars, tvars>>

\* The reader of pump: one chunk is read, then sent.
ReadClient ==
    /\ rdr = "reading" /\ copen /\ ~cgone /\ csent < MaxUp
    /\ csent' = csent + 1 /\ rdr' = "sending"
    /\ UNCHANGED <<copen, cgone, cgot, fate>>
    /\ UNCHANGED <<hvars, lvars, avars, tvars>>

SendUp ==
    /\ rdr = "sending"
    /\ \/ /\ up /\ h2a' = Append(h2a, Msg("data", csent))
          /\ rdr' = "reading"
          /\ UNCHANGED <<htab, hdone, hcause, hnote, lost>>
       \/ /\ Finish("send", FALSE) /\ rdr' = "ended"
          /\ lost' = (lost \/ up)
          /\ UNCHANGED h2a
    /\ UNCHANGED <<hpc, opened, inb, hand, csent, copen, cgone, cgot, fate, up, a2h>>
    /\ UNCHANGED <<avars, tvars>>

ReadClientEnds ==
    /\ rdr = "reading" /\ (cgone \/ ~copen)
    /\ rdr' = "ended" /\ Finish("client", TRUE)
    /\ UNCHANGED <<hpc, opened, inb, hand, csent, copen, cgone, cgot, fate>>
    /\ UNCHANGED <<lvars, avars, tvars>>

WriteClient ==
    /\ hpc \in {"pumping", "draining"} /\ inb # <<>> /\ copen
    /\ inb' = Tail(inb) /\ cgot' = Append(cgot, Head(inb))
    /\ UNCHANGED <<hpc, htab, hdone, hcause, hnote, opened, hand, rdr, csent, copen, cgone, fate>>
    /\ UNCHANGED <<lvars, avars, tvars>>

WriteClientFails ==
    /\ hpc \in {"pumping", "draining"} /\ inb # <<>> /\ (cgone \/ ~copen)
    /\ inb' = Tail(inb) /\ hpc' = "joining" /\ Finish("client", TRUE)
    /\ copen' = FALSE /\ fate' = "cut"
    /\ UNCHANGED <<opened, hand, rdr, csent, cgone, cgot>>
    /\ UNCHANGED <<lvars, avars, tvars>>

StartDrain ==
    /\ hpc = "pumping" /\ hdone
    /\ hpc' = "draining"
    /\ UNCHANGED <<htab, hdone, hcause, hnote, opened, inb, hand>>
    /\ UNCHANGED <<cvars, lvars, avars, tvars>>

\* What the client saw: the end of the target's stream, or a cut.
FateNow == IF copen /\ hcause = "agent" /\ acause THEN "eof" ELSE "cut"

\* Mutant: the client is closed as soon as t.done is, queued chunks or not.
DrainNothing ==
    /\ hpc = "draining"
    /\ hpc' = "joining" /\ copen' = FALSE /\ fate' = FateNow
    /\ UNCHANGED <<htab, hdone, hcause, hnote, opened, inb, hand, rdr, csent, cgone, cgot>>
    /\ UNCHANGED <<lvars, avars, tvars>>

DrainEnds ==
    /\ hpc = "draining" /\ inb = <<>>
    /\ hpc' = "joining" /\ copen' = FALSE /\ fate' = FateNow
    /\ UNCHANGED <<htab, hdone, hcause, hnote, opened, inb, hand, rdr, csent, cgone, cgot>>
    /\ UNCHANGED <<lvars, avars, tvars>>

Join ==
    /\ hpc = "joining" /\ rdr = "ended"
    /\ hpc' = "ended"
    /\ UNCHANGED <<htab, hdone, hcause, hnote, opened, inb, hand>>
    /\ UNCHANGED <<cvars, lvars, avars, tvars>>

\* pump's deadline.
Deadline ==
    /\ hpc \in {"pumping", "draining"} /\ copen
    /\ copen' = FALSE /\ fate' = "cut"
    /\ UNCHANGED <<rdr, csent, cgone, cgot>>
    /\ UNCHANGED <<hvars, lvars, avars, tvars>>

\* HandleAgent, by readPump.
HostReceives ==
    /\ up /\ hand = 0 /\ a2h # <<>>
    /\ a2h' = Tail(a2h)
    /\ LET m == Head(a2h)
       IN \/ /\ m.kind \in {"ok", "failed"}
             /\ opened' = IF htab /\ opened = "empty" THEN m.kind ELSE opened
             /\ UNCHANGED <<htab, hdone, hcause, hnote, hand>>
          \/ /\ m.kind = "data"
             /\ hand' = IF htab THEN m.chunk ELSE 0
             /\ UNCHANGED <<htab, hdone, hcause, hnote, opened>>
          \/ /\ m.kind = "close"
             /\ Finish("agent", FALSE)
             /\ UNCHANGED <<hand, opened>>
    /\ UNCHANGED <<hpc, inb, up, h2a, lost>>
    /\ UNCHANGED <<cvars, avars, tvars>>

\* t.inbound <- data.
Deliver ==
    /\ hand # 0 /\ Len(inb) < InboundQueue
    /\ inb' = Append(inb, hand) /\ hand' = 0
    /\ UNCHANGED <<hpc, htab, hdone, hcause, hnote, opened>>
    /\ UNCHANGED <<cvars, lvars, avars, tvars>>

DeliverDone ==
    /\ hand # 0 /\ hdone
    /\ hand' = 0
    /\ UNCHANGED <<hpc, htab, hdone, hcause, hnote, opened, inb>>
    /\ UNCHANGED <<cvars, lvars, avars, tvars>>

DeliverTimeout ==
    /\ hand # 0
    /\ hand' = 0 /\ Finish("slow", TRUE)
    /\ UNCHANGED <<hpc, opened, inb>>
    /\ UNCHANGED <<cvars, lvars, avars, tvars>>

\* dropSession; DropAgent, once the link is lost.
HostFinishes ==
    /\ htab
    /\ \/ Finish("revoked", TRUE)
       \/ ~up /\ Finish("disconnected", FALSE)
    /\ UNCHANGED <<hpc, opened, inb, hand>>
    /\ UNCHANGED <<cvars, lvars, avars, tvars>>

-----------------------------------------------------------------------------
(* Probe                                                                   *)

\* dropIf: close marks the tunnel, closes the queue and the connection that
\* setConn has set; queued writes are lost with it.
Drop(notify, eof) ==
    IF tab
    THEN /\ tab' = FALSE /\ tclosed' = TRUE /\ anote' = notify /\ acause' = eof
         /\ tconn' = IF tconn = "open" /\ apc # "dialed" THEN "closed" ELSE tconn
         /\ writes' = <<>>
    ELSE UNCHANGED <<tab, tclosed, anote, acause, tconn, writes>>

\* m.send of the proxy_close.
ProbeNotifies ==
    /\ anote
    /\ anote' = FALSE
    /\ a2h' = IF up THEN Append(a2h, Msg("close", 0)) ELSE a2h
    /\ UNCHANGED <<up, h2a, lost, apc, tab, tclosed, acause>>
    /\ UNCHANGED <<hvars, cvars, tvars>>

\* enqueue never blocks; a tunnel whose queue is full is dropped.
CanEnqueue == ~tclosed /\ Len(writes) < WriteQueue

Write(chunk) ==
    IF tab /\ CanEnqueue
    THEN writes' = Append(writes, chunk) /\ UNCHANGED <<tab, tclosed, anote, acause, tconn>>
    ELSE Drop(TRUE, FALSE)

\* handleProxyMessage, by the connection loop: open, write, drop.
ProbeReceives ==
    /\ up /\ h2a # <<>>
    /\ h2a' = Tail(h2a)
    /\ LET m == Head(h2a)
       IN \/ /\ m.kind = "open"
             /\ tab' = TRUE /\ apc' = "dialing"
             /\ UNCHANGED <<tclosed, anote, acause, tconn, writes>>
          \/ /\ m.kind = "data"
             /\ Write(m.chunk)
             /\ UNCHANGED apc
          \/ /\ m.kind = "close"
             /\ Drop(FALSE, FALSE)
             /\ UNCHANGED apc
    /\ UNCHANGED <<up, a2h, lost, tsent, teof, tgot>>
    /\ UNCHANGED <<hvars, cvars>>

Dialed ==
    /\ apc = "dialing"
    /\ apc' = "dialed" /\ tconn' = "open"
    /\ UNCHANGED <<tab, tclosed, acause, anote, writes, tsent, teof, tgot>>
    /\ UNCHANGED <<hvars, cvars, lvars>>

\* The dial fails, times out or is cancelled by close.
DialFails ==
    /\ apc = "dialing"
    /\ apc' = "refusing" /\ Drop(FALSE, FALSE)
    /\ UNCHANGED <<tsent, teof, tgot>>
    /\ UNCHANGED <<hvars, cvars, lvars>>

Refuse ==
    /\ apc = "refusing"
    /\ apc' = "ended"
    /\ a2h' = IF up THEN Append(a2h, Msg("failed", 0)) ELSE a2h
    /\ UNCHANGED <<up, h2a, lost, tab, tclosed, acause, anote>>
    /\ UNCHANGED <<hvars, cvars, tvars>>

\* setConn, or the close of a connection that came too late.
SetConn ==
    /\ apc = "dialed"
    /\ IF tclosed
       THEN apc' = "ended" /\ tconn' = "closed"
       ELSE apc' = "answering" /\ UNCHANGED tconn
    /\ UNCHANGED <<tab, tclosed, acause, anote, writes, tsent, teof, tgot>>
    /\ UNCHANGED <<hvars, cvars, lvars>>

Answer ==
    /\ apc = "answering"
    /\ IF up
       THEN /\ a2h' = Append(a2h, Msg("ok", 0)) /\ apc' = "reading"
            /\ UNCHANGED <<tab, tclosed, acause, anote, tconn, writes>>
       ELSE Drop(FALSE, FALSE) /\ apc' = "ended" /\ UNCHANGED a2h
    /\ UNCHANGED <<up, h2a, lost, tsent, teof, tgot>>
    /\ UNCHANGED <<hvars, cvars>>

\* readLoop: one chunk is read, then sent.
ReadTarget ==
    /\ apc = "reading" /\ tconn = "open" /\ ~teof /\ tsent < MaxDown
    /\ tsent' = tsent + 1 /\ apc' = "sending"
    /\ UNCHANGED <<tab, tclosed, acause, anote, writes, tconn, teof, tgot>>
    /\ UNCHANGED <<hvars, cvars, lvars>>

SendDown ==
    /\ apc = "sending"
    /\ IF up
       THEN /\ a2h' = Append(a2h, Msg("data", tsent)) /\ apc' = "reading"
            /\ UNCHANGED <<tab, tclosed, acause, anote, tconn, writes>>
       ELSE Drop(FALSE, FALSE) /\ apc' = "ended" /\ UNCHANGED a2h
    /\ UNCHANGED <<up, h2a, lost, tsent, teof, tgot>>
    /\ UNCHANGED <<hvars, cvars>>

\* Mutant: the end of the stream is not reported to the host.
ReadTargetEndsSilent ==
    /\ apc = "reading" /\ (teof \/ tconn = "closed")
    /\ apc' = "ended" /\ Drop(FALSE, TRUE)
    /\ UNCHANGED <<tsent, teof, tgot>>
    /\ UNCHANGED <<hvars, cvars, lvars>>

ReadTargetEnds ==
    /\ apc = "reading" /\ (teof \/ tconn = "closed")
    /\ apc' = "ended" /\ Drop(TRUE, TRUE)
    /\ UNCHANGED <<tsent, teof, tgot>>
    /\ UNCHANGED <<hvars, cvars, lvars>>

\* writeLoop runs from setConn on.
WriteTarget ==
    /\ apc \notin {"dialing", "dialed"} /\ tconn = "open" /\ writes # <<>>
    /\ writes' = Tail(writes) /\ tgot' = Append(tgot, Head(writes))
    /\ UNCHANGED <<tconn, tsent, teof>>
    /\ UNCHANGED <<hvars, cvars, lvars, avars>>

\* The write fails or its deadline passes.
WriteTargetFails ==
    /\ apc \notin {"dialing", "dialed"} /\ tconn = "open" /\ writes # <<>>
    /\ Drop(TRUE, FALSE)
    /\ UNCHANGED <<apc, tsent, teof, tgot>>
    /\ UNCHANGED <<hvars, cvars, lvars>>

\* connectAndServe returns: dropAll.
DropAll ==
    /\ ~up /\ tab
    /\ Drop(FALSE, FALSE)
    /\ UNCHANGED <<apc, tsent, teof, tgot>>
    /\ UNCHANGED <<hvars, cvars, lvars>>

-----------------------------------------------------------------------------
(* The client, the target and the link                                     *)

ClientHangsUp ==
    /\ copen /\ ~cgone
    /\ cgone' = TRUE
    /\ UNCHANGED <<rdr, csent, copen, cgot, fate>>
    /\ UNCHANGED <<hvars, lvars, avars, tvars>>

TargetCloses ==
    /\ tconn = "open" /\ ~teof
    /\ teof' = TRUE
    /\ UNCHANGED <<writes, tconn, tsent, tgot>>
    /\ UNCHANGED <<hvars, cvars, lvars, avars>>

LinkLost ==
    /\ up
    /\ up' = FALSE /\ h2a' = <<>> /\ a2h' = <<>>
    /\ UNCHANGED lost
    /\ UNCHANGED <<hvars, cvars, avars, tvars>>

-----------------------------------------------------------------------------
\* The handler has put proxy_open in the connection's queue.
Init ==
    /\ hpc = "waiting" /\ htab = TRUE /\ hdone = FALSE /\ hcause = "none" /\ hnote = FALSE
    /\ opened = "empty" /\ inb = <<>> /\ hand = 0
    /\ rdr = "none" /\ csent = 0 /\ copen = FALSE /\ cgone = FALSE /\ cgot = <<>> /\ fate = "open"
    /\ up = TRUE /\ h2a = <<Msg("open", 0)>> /\ a2h = <<>> /\ lost = FALSE
    /\ apc = "none" /\ tab = FALSE /\ tclosed = FALSE /\ acause = FALSE /\ anote = FALSE
    /\ writes = <<>> /\ tconn = "none" /\ tsent = 0 /\ teof = FALSE /\ tgot = <<>>

HostHandler ==
    \/ AwaitOpened \/ AwaitRefused \/ AwaitTimeout \/ AwaitDone \/ Establish \/ EstablishFails
    \/ WriteClient \/ WriteClientFails \/ StartDrain \/ DrainEnds \/ Join
HostReader == SendUp \/ ReadClientEnds
HostReadPump == HostReceives \/ Deliver \/ DeliverDone \/ DeliverTimeout
ProbeOpen ==
    \/ Dialed \/ DialFails \/ Refuse \/ SetConn \/ Answer \/ SendDown \/ ReadTargetEnds
ProbeWriteLoop == WriteTarget \/ WriteTargetFails

Next ==
    \/ HostHandler \/ HostReader \/ ReadClient \/ HostReadPump \/ HostNotifies \/ HostFinishes
    \/ Deadline
    \/ ProbeReceives \/ ProbeOpen \/ ReadTarget \/ ProbeWriteLoop \/ ProbeNotifies \/ DropAll
    \/ ClientHangsUp \/ TargetCloses \/ LinkLost

Spec == Init /\ [][Next]_vars

\* Every goroutine runs, messages on a live link arrive, a client that has not
\* hung up reads, a lost link is noticed by both sides.  Nobody has to send,
\* hang up, revoke or expire.
Fairness ==
    /\ WF_vars(HostHandler) /\ WF_vars(HostReader) /\ WF_vars(HostReadPump) /\ WF_vars(HostNotifies)
    /\ WF_vars(~up /\ HostFinishes)
    /\ WF_vars(ProbeReceives) /\ WF_vars(ProbeOpen) /\ WF_vars(ProbeWriteLoop)
    /\ WF_vars(ProbeNotifies) /\ WF_vars(DropAll)

FairSpec == Spec /\ Fairness

-----------------------------------------------------------------------------
(* Properties                                                              *)

Message == [kind : {"open", "ok", "failed", "data", "close"}, chunk : Nat]

\* Types of the variables, and the capacities of the two queues.
Causes == {"refused", "timeout", "client", "send", "agent", "slow", "revoked", "disconnected"}
HostTypes ==
    /\ hpc \in {"waiting", "establishing", "pumping", "draining", "joining", "ended"}
    /\ htab \in BOOLEAN /\ hdone \in BOOLEAN /\ hcause \in Causes \cup {"none"} /\ hnote \in BOOLEAN
    /\ opened \in {"empty", "ok", "failed"}
    /\ inb \in Seq(Nat) /\ Len(inb) <= InboundQueue /\ hand \in Nat
ClientTypes ==
    /\ rdr \in {"none", "reading", "sending", "ended"}
    /\ csent \in 0..MaxUp /\ copen \in BOOLEAN /\ cgone \in BOOLEAN /\ cgot \in Seq(Nat)
    /\ fate \in {"open", "eof", "cut"}
LinkTypes ==
    /\ up \in BOOLEAN /\ h2a \in Seq(Message) /\ a2h \in Seq(Message) /\ lost \in BOOLEAN
ProbeTypes ==
    /\ apc \in {"none", "dialing", "dialed", "refusing", "answering", "reading", "sending", "ended"}
    /\ tab \in BOOLEAN /\ tclosed \in BOOLEAN /\ acause \in BOOLEAN /\ anote \in BOOLEAN
TargetTypes ==
    /\ writes \in Seq(Nat) /\ Len(writes) <= WriteQueue
    /\ tconn \in {"none", "open", "closed"}
    /\ tsent \in 0..MaxDown /\ teof \in BOOLEAN /\ tgot \in Seq(Nat)
TypeOK == HostTypes /\ ClientTypes /\ LinkTypes /\ ProbeTypes /\ TargetTypes

\* Both directions are FIFO prefixes, and an orderly end misses nothing.
Pipe == INSTANCE TunnelPipe
            WITH Chunks <- 1..(MaxUp + MaxDown), upIn <- First(csent), upOut <- tgot,
                 downIn <- First(tsent), downOut <- cgot
PipeSpec == Pipe!Spec

\* Once the host has finished a tunnel, for whatever reason, the probe lets go
\* of the target, unless the host's send to a live probe timed out.
TargetReleased == hdone ~> (lost \/ (~tab /\ tconn # "open"))

\* The end of the target's stream ends the client's request.
EofPropagates == (teof /\ apc = "reading") ~> (hpc = "ended")

-----------------------------------------------------------------------------
(* Why it is a pair of pipes: the inductive invariant.                      *)

One(b) == IF b THEN 1 ELSE 0
NoClose(q, n) == \A j \in 1..n : q[j].kind # "close"

\* After its first u messages and up to a close, a link holds the chunks from
\* n + 1 on; its close comes right after chunk t.
Follows(q, u, n) == \A i \in 1..Len(q) : i > u /\ NoClose(q, i) => q[i].chunk = n + i - u
ClosesAt(q, u, n, t) == \A i \in 1..Len(q) : q[i].kind = "close" => t = n + i - 1 - u

\* Chunks taken from the link by each side; whether the host's loop has still
\* to read the answer; whether the client may still be written to.
UpTaken == Len(tgot) + Len(writes)
DownTaken == Len(cgot) + Len(inb) + One(hand # 0)
Unread == One(a2h # <<>> /\ a2h[1].kind \in {"ok", "failed"})
Active == hpc \in {"waiting", "establishing", "pumping", "draining"}

\* Until the probe has answered, no data moves in either direction.
Unanswered ==
    apc \in {"none", "dialing", "dialed", "refusing", "answering"} =>
        /\ a2h = <<>> /\ ~anote /\ ~acause /\ hcause # "agent"
        /\ writes = <<>> /\ tgot = <<>> /\ tsent = 0
        /\ opened = "empty" /\ inb = <<>> /\ hand = 0 /\ cgot = <<>>
        /\ rdr = "none" /\ hpc \in {"waiting", "ended"}

\* What may be on the link to the probe, on the link to the host, and where.
UpLink ==
    /\ apc = "none" /\ up => h2a # <<>>
    /\ \A i \in 1..Len(h2a) :
          /\ h2a[i].kind = "data" => h2a[i].chunk \in 1..csent
          /\ apc = "none" => h2a[i].kind = IF i = 1 THEN "open" ELSE "close"
          /\ apc # "none" => h2a[i].kind \in {"data", "close"}
DownLink ==
    /\ apc = "sending" => tsent > 0
    /\ \A i \in 1..Len(a2h) :
          /\ a2h[i].kind = "data" => a2h[i].chunk \in 1..tsent
          /\ a2h[i].kind \in {"data", "close"} \/ (i = 1 /\ a2h[i].kind \in {"ok", "failed"})

\* The client is read once the tunnel is established.
ReaderFits ==
    /\ rdr = "none" => csent = 0
    /\ rdr = "sending" => csent > 0
    /\ hpc \in {"waiting", "establishing"} => rdr = "none"

\* To the target: what it has, what is queued for it and what is on the link
\* before a close are the client's chunks in order, and none is missing while
\* the reader goes on.
UpInOrder ==
    /\ UpTaken <= csent
    /\ \A i \in 1..Len(tgot) : tgot[i] = i
    /\ \A i \in 1..Len(writes) : writes[i] = Len(tgot) + i
    /\ tab => Follows(h2a, 0, UpTaken)
    /\ tab /\ up /\ rdr # "ended" /\ NoClose(h2a, Len(h2a))
          => csent = UpTaken + Len(h2a) + One(rdr = "sending")

\* To the client: likewise, as long as the tunnel is in the host's table.
DownInOrder ==
    /\ \A i \in 1..Len(cgot) : cgot[i] = i
    /\ Len(cgot) <= tsent /\ hand <= tsent /\ \A i \in 1..Len(inb) : inb[i] <= tsent
    /\ Active => /\ \A i \in 1..Len(inb) : inb[i] = Len(cgot) + i
                 /\ hand # 0 => hand = DownTaken
    /\ Active /\ htab =>
          /\ Follows(a2h, Unread, DownTaken)
          /\ up /\ apc \in {"reading", "sending"} /\ NoClose(a2h, Len(a2h))
                => tsent = DownTaken + Len(a2h) - Unread + One(apc = "sending")

\* A close that reports the end of the target's stream follows all of it.
CloseIsLast ==
    /\ acause => apc = "ended" /\ ~tab
    /\ anote => ~tab
    /\ tab => apc # "none" /\ NoClose(a2h, Len(a2h)) /\ hcause # "agent"
    /\ hcause = "agent" \/ hdone => ~htab
    /\ acause /\ up /\ htab /\ Active =>
          /\ anote => NoClose(a2h, Len(a2h)) /\ tsent = DownTaken + Len(a2h) - Unread
          /\ ClosesAt(a2h, Unread, DownTaken, tsent)
    /\ acause /\ hcause = "agent" /\ Active => hand = 0 /\ tsent = Len(cgot) + Len(inb)

\* How the client's connection ended, by where its handler is.
FateFits ==
    /\ copen => fate = "open" /\ hpc \in {"pumping", "draining"}
    /\ hpc \in {"waiting", "establishing"} => fate = "open"
    /\ fate = "eof" => acause /\ ~Active

TunnelInv ==
    /\ TypeOK /\ Unanswered /\ UpLink /\ DownLink /\ ReaderFits
    /\ UpInOrder /\ DownInOrder /\ CloseIsLast /\ FateFits
=============================================================================
