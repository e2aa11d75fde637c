---------------------------- MODULE ProxyService ----------------------------
(***************************************************************************)
(* The host's proxy service: every CONNECT (service.go, HandleConnect) and *)
(* WebSocket tunnel request (tunnel.go, HandleTunnel) authenticates a      *)
(* credential, opens a tunnel through one probe and pumps bytes.           *)
(*                                                                         *)
(* Goroutines and what is atomic.  A request's handler moves pc[r], its    *)
(* pump's reader goroutine rdr[r]; the readPump of a probe's connection    *)
(* moves hand[p] in HandleAgent; a Revoke moves rev[s]; a DropAgent call,  *)
(* which Hub.Unregister and Hub.Disconnect end with, moves drops[k].  A    *)
(* step is one critical section of Service.mu or one channel operation;    *)
(* finish's deletion and the close of t.done are one step, because no code *)
(* looks at both.  The two entry points differ in their errors only and    *)
(* share the actions.                                                      *)
(*                                                                         *)
(* Abstractions.  A request has at most one tunnel and stands for its id.  *)
(* The store is what ProxySessions shows of it: a revoked or expired       *)
(* credential is never accepted.  Chunks are counted, not named:           *)
(* ProxyTunnel has them.  The proxy_close that finish may send is a step   *)
(* of its own on a readPump, which it holds up with everything behind it;  *)
(* elsewhere it delays only the goroutine that sends it and is left out.   *)
(***************************************************************************)
EXTENDS Naturals, FiniteSets

CONSTANTS
    Requests,              \* HTTP requests, each with the tunnel it may open
    Sessions,              \* credentials, all issued
    Agents,                \* probes
    Pumps,                 \* readPump goroutines of the probes' connections
    Droppers,              \* DropAgent calls that may run at once
    SessionAgent,          \* Session.AgentID
    PumpAgent,             \* AgentConn.AgentID of a readPump
    MaxTunnelsPerSession,  \* 64 in the code
    InboundQueue,          \* capacity of t.inbound, 32 in the code
    Nil

ASSUME ServiceAssumption ==
    /\ IsFiniteSet(Requests)
    /\ SessionAgent \in [Sessions -> Agents]
    /\ PumpAgent \in [Pumps -> Agents]
    /\ MaxTunnelsPerSession \in Nat \ {0}
    /\ InboundQueue \in Nat \ {0}
    /\ Nil \notin Requests \cup Sessions \cup Agents

VARIABLES
    pc,       \* the handler of a request
    cred,     \* the session it authenticated with
    table,    \* Service.tunnels
    done,     \* t.done is closed
    opened,   \* t.opened, a channel of capacity 1
    inbound,  \* number of chunks in t.inbound
    client,   \* the client's connection is open on the host's side
    rdr,      \* the goroutine of pump that reads the client
    hand,     \* what a readPump is at, and the tunnels it has waited out inboundWait for
    online,   \* the hub has a connection for the probe
    drops,    \* the DropAgent calls
    rev,      \* progress of Revoke, and the tunnels it has still to finish
    expired   \* the credential's ExpiresAt has passed

vars == <<pc, cred, table, done, opened, inbound, client, rdr, hand, online, drops, rev, expired>>

\* HandleConnect/HandleTunnel: idle -> authed; openTunnel: checked -> sending ->
\* enqueueing -> waiting; then establishing; pump: pumping -> draining -> joining.
HandlerStep == {"idle", "authed", "checked", "sending", "enqueueing", "waiting",
                "establishing", "pumping", "draining", "joining", "ended"}

AgentOf(r) == SessionAgent[cred[r]]

\* The tunnels of the table that belong to a credential.
TunnelsOf(s) == {r \in table : cred[r] = s}

\* finish: whoever deletes the tunnel from the table closes t.done.
Finish(r) ==
    /\ table' = table \ {r}
    /\ done' = IF r \in table THEN [done EXCEPT ![r] = TRUE] ELSE done

End(r) == pc' = [pc EXCEPT ![r] = "ended"]

-----------------------------------------------------------------------------
(* The handler of a request, up to the tunnel's establishment              *)

Authenticate(r, s) ==
    /\ pc[r] = "idle"
    /\ IF rev[s].step = "no" /\ ~expired[s]
       THEN /\ cred' = [cred EXCEPT ![r] = s]
            /\ pc' = [pc EXCEPT ![r] = "authed"]
       ELSE End(r) /\ UNCHANGED cred
    /\ UNCHANGED <<table, done, opened, inbound, client, rdr, hand, online, drops, rev, expired>>

\* The upgrade fails, the client names no valid target in time, or the probe
\* is offline.
Reject(r) ==
    /\ pc[r] = "authed"
    /\ End(r)
    /\ UNCHANGED <<cred, table, done, opened, inbound, client, rdr, hand, online, drops, rev, expired>>

CheckOnline(r) ==
    /\ pc[r] = "authed" /\ online[AgentOf(r)]
    /\ pc' = [pc EXCEPT ![r] = "checked"]
    /\ UNCHANGED <<cred, table, done, opened, inbound, client, rdr, hand, online, drops, rev, expired>>

\* Mutant: one tunnel too many.
AddTunnelOver(r) ==
    /\ pc[r] = "checked"
    /\ IF Cardinality(TunnelsOf(cred[r])) > MaxTunnelsPerSession
       THEN End(r) /\ UNCHANGED table
       ELSE /\ table' = table \cup {r}
            /\ pc' = [pc EXCEPT ![r] = "sending"]
    /\ UNCHANGED <<cred, done, opened, inbound, client, rdr, hand, online, drops, rev, expired>>

\* addTunnel: counts and inserts under the lock.
AddTunnel(r) ==
    /\ pc[r] = "checked"
    /\ IF Cardinality(TunnelsOf(cred[r])) >= MaxTunnelsPerSession
       THEN End(r) /\ UNCHANGED table
       ELSE /\ table' = table \cup {r}
            /\ pc' = [pc EXCEPT ![r] = "sending"]
    /\ UNCHANGED <<cred, done, opened, inbound, client, rdr, hand, online, drops, rev, expired>>

\* bridgeSend of proxy_open: the connection is looked up, then SendWait puts
\* the message in its queue unless it is closed or stays full.
SendOpen(r) ==
    /\ pc[r] = "sending" /\ online[AgentOf(r)]
    /\ pc' = [pc EXCEPT ![r] = "enqueueing"]
    /\ UNCHANGED <<cred, table, done, opened, inbound, client, rdr, hand, online, drops, rev, expired>>

SendOpenQueued(r) ==
    /\ pc[r] = "enqueueing"
    /\ pc' = [pc EXCEPT ![r] = "waiting"]
    /\ UNCHANGED <<cred, table, done, opened, inbound, client, rdr, hand, online, drops, rev, expired>>

SendOpenFails(r) ==
    /\ pc[r] = "enqueueing" \/ (pc[r] = "sending" /\ ~online[AgentOf(r)])
    /\ Finish(r) /\ End(r)
    /\ UNCHANGED <<cred, opened, inbound, client, rdr, hand, online, drops, rev, expired>>

\* The select of openTunnel: any of its ready cases.
AwaitOpened(r) ==
    /\ pc[r] = "waiting" /\ opened[r] = "ok"
    /\ opened' = [opened EXCEPT ![r] = "empty"]
    /\ pc' = [pc EXCEPT ![r] = "establishing"]
    /\ UNCHANGED <<cred, table, done, inbound, client, rdr, hand, online, drops, rev, expired>>

AwaitRefused(r) ==
    /\ pc[r] = "waiting" /\ opened[r] = "failed"
    /\ opened' = [opened EXCEPT ![r] = "empty"]
    /\ Finish(r) /\ End(r)
    /\ UNCHANGED <<cred, inbound, client, rdr, hand, online, drops, rev, expired>>

AwaitTimeout(r) ==
    /\ pc[r] = "waiting"
    /\ Finish(r) /\ End(r)
    /\ UNCHANGED <<cred, opened, inbound, client, rdr, hand, online, drops, rev, expired>>

AwaitDone(r) ==
    /\ pc[r] = "waiting" /\ done[r]
    /\ End(r)
    /\ UNCHANGED <<cred, table, done, opened, inbound, client, rdr, hand, online, drops, rev, expired>>

\* The client is told; pump starts its reader.
Establish(r) ==
    /\ pc[r] = "establishing"
    /\ pc' = [pc EXCEPT ![r] = "pumping"]
    /\ client' = [client EXCEPT ![r] = TRUE]
    /\ rdr' = [rdr EXCEPT ![r] = "reading"]
    /\ UNCHANGED <<cred, table, done, opened, inbound, hand, online, drops, rev, expired>>

\* Mutant: the handler returns without finish.
EstablishLeaks(r) ==
    /\ pc[r] = "establishing"
    /\ End(r)
    /\ UNCHANGED <<cred, table, done, opened, inbound, client, rdr, hand, online, drops, rev, expired>>

\* The hijack or the reply fails.
EstablishFails(r) ==
    /\ pc[r] = "establishing"
    /\ Finish(r) /\ End(r)
    /\ UNCHANGED <<cred, opened, inbound, client, rdr, hand, online, drops, rev, expired>>

-----------------------------------------------------------------------------
(* pump and writeToClient                                                  *)

\* A chunk read from the client goes to the probe: the send may fail.
ReaderSendFails(r) ==
    /\ rdr[r] = "reading" /\ client[r]
    /\ Finish(r)
    /\ rdr' = [rdr EXCEPT ![r] = "ended"]
    /\ UNCHANGED <<pc, cred, opened, inbound, client, hand, online, drops, rev, expired>>

\* Read fails: the client hung up, or the host closed the connection.
ReaderEnds(r) ==
    /\ rdr[r] = "reading"
    /\ Finish(r)
    /\ rdr' = [rdr EXCEPT ![r] = "ended"]
    /\ UNCHANGED <<pc, cred, opened, inbound, client, hand, online, drops, rev, expired>>

\* writeToClient takes a chunk and writes it; a write may block for as long
\* as the client does not read.
WriteChunk(r) ==
    /\ pc[r] \in {"pumping", "draining"} /\ inbound[r] > 0 /\ client[r]
    /\ inbound' = [inbound EXCEPT ![r] = @ - 1]
    /\ UNCHANGED <<pc, cred, table, done, opened, client, rdr, hand, online, drops, rev, expired>>

WriteChunkFails(r) ==
    /\ pc[r] \in {"pumping", "draining"} /\ inbound[r] > 0
    /\ inbound' = [inbound EXCEPT ![r] = @ - 1]
    /\ Finish(r)
    /\ client' = [client EXCEPT ![r] = FALSE]
    /\ pc' = [pc EXCEPT ![r] = "joining"]
    /\ UNCHANGED <<cred, opened, rdr, hand, online, drops, rev, expired>>

\* The case <-t.done.
StartDrain(r) ==
    /\ pc[r] = "pumping" /\ done[r]
    /\ pc' = [pc EXCEPT ![r] = "draining"]
    /\ UNCHANGED <<cred, table, done, opened, inbound, client, rdr, hand, online, drops, rev, expired>>

\* Nothing is queued: writeToClient returns and pump closes the client.
DrainEnds(r) ==
    /\ pc[r] = "draining" /\ inbound[r] = 0
    /\ client' = [client EXCEPT ![r] = FALSE]
    /\ pc' = [pc EXCEPT ![r] = "joining"]
    /\ UNCHANGED <<cred, table, done, opened, inbound, rdr, hand, online, drops, rev, expired>>

\* wg.Wait.
Join(r) ==
    /\ pc[r] = "joining" /\ rdr[r] = "ended"
    /\ End(r)
    /\ UNCHANGED <<cred, table, done, opened, inbound, client, rdr, hand, online, drops, rev, expired>>

\* Mutant: the deadline does not close the client.
DeadlineIgnored(r) == FALSE /\ UNCHANGED vars

\* pump's timer at the credential's ExpiresAt.
Deadline(r) ==
    /\ pc[r] \in {"pumping", "draining", "joining"} /\ expired[cred[r]] /\ client[r]
    /\ client' = [client EXCEPT ![r] = FALSE]
    /\ UNCHANGED <<pc, cred, table, done, opened, inbound, rdr, hand, online, drops, rev, expired>>

-----------------------------------------------------------------------------
(* HandleAgent, run by the readPump p of a probe's connection              *)

\* t == nil || t.agentID != agentID returns; only tunnels past this are acted on.
Known(p, r) == hand[p].step = "idle" /\ r \in table /\ AgentOf(r) = PumpAgent[p]

\* readPump goes on to its next message, or to another step of this one.
Hand(p, step, r) == hand' = [hand EXCEPT ![p].step = step, ![p].on = r]

\* The first result is kept, later ones are discarded.
OpenResult(p, r, res) ==
    /\ Known(p, r)
    /\ opened[r] = "empty"
    /\ opened' = [opened EXCEPT ![r] = res]
    /\ UNCHANGED <<pc, cred, table, done, inbound, client, rdr, hand, online, drops, rev, expired>>

\* proxy_data: readPump holds t and waits for room in t.inbound.
Data(p, r) ==
    /\ Known(p, r)
    /\ Hand(p, "deliver", r)
    /\ UNCHANGED <<pc, cred, table, done, opened, inbound, client, rdr, online, drops, rev, expired>>

\* t.inbound <- data.
Deliver(p) ==
    /\ hand[p].step = "deliver" /\ inbound[hand[p].on] < InboundQueue
    /\ inbound' = [inbound EXCEPT ![hand[p].on] = @ + 1]
    /\ Hand(p, "idle", Nil)
    /\ UNCHANGED <<pc, cred, table, done, opened, client, rdr, online, drops, rev, expired>>

DeliverDone(p) ==
    /\ hand[p].step = "deliver" /\ done[hand[p].on]
    /\ Hand(p, "idle", Nil)
    /\ UNCHANGED <<pc, cred, table, done, opened, inbound, client, rdr, online, drops, rev, expired>>

\* Mutant: the chunk is dropped and the tunnel kept.
DeliverDrops(p) ==
    /\ hand[p].step = "deliver"
    /\ hand' = [hand EXCEPT ![p] = [step |-> "idle", on |-> Nil, slow |-> @.slow \cup {@.on}]]
    /\ UNCHANGED <<pc, cred, table, done, opened, inbound, client, rdr, online, drops, rev, expired>>

\* inboundWait passes: slow consumer.
DeliverTimeout(p) ==
    /\ hand[p].step = "deliver"
    /\ Finish(hand[p].on)
    /\ hand' = [hand EXCEPT ![p] = [step |-> IF @.on \in table THEN "notify" ELSE "idle",
                                    on |-> Nil, slow |-> @.slow \cup {@.on}]]
    /\ UNCHANGED <<pc, cred, opened, inbound, client, rdr, online, drops, rev, expired>>

\* A payload that does not decode, or is too long.
BadPayload(p, r) ==
    /\ Known(p, r)
    /\ Finish(r)
    /\ Hand(p, "notify", Nil)
    /\ UNCHANGED <<pc, cred, opened, inbound, client, rdr, online, drops, rev, expired>>

\* bridge.Send of the proxy_close returns: queued, refused or timed out.
Notified(p) ==
    /\ hand[p].step = "notify"
    /\ Hand(p, "idle", Nil)
    /\ UNCHANGED <<pc, cred, table, done, opened, inbound, client, rdr, online, drops, rev, expired>>

\* proxy_close.
AgentCloses(p, r) ==
    /\ Known(p, r)
    /\ Finish(r)
    /\ UNCHANGED <<pc, cred, opened, inbound, client, rdr, hand, online, drops, rev, expired>>

-----------------------------------------------------------------------------
(* DropAgent and Revoke                                                    *)

\* The hub loses the probe's connection; its DropAgent call comes later.
AgentLeaves(k, a) ==
    /\ online[a] /\ drops[k].step = "idle"
    /\ online' = [online EXCEPT ![a] = FALSE]
    /\ drops' = [drops EXCEPT ![k] = [step |-> "due", agent |-> a, ids |-> {}]]
    /\ UNCHANGED <<pc, cred, table, done, opened, inbound, client, rdr, hand, rev, expired>>

AgentReturns(a) ==
    /\ ~online[a]
    /\ online' = [online EXCEPT ![a] = TRUE]
    /\ UNCHANGED <<pc, cred, table, done, opened, inbound, client, rdr, hand, drops, rev, expired>>

\* Mutant: only established tunnels are dropped.
DropEstablished(k) ==
    /\ drops[k].step = "due"
    /\ drops' = [drops EXCEPT ![k].step = "finishing",
                              ![k].ids = {r \in table : AgentOf(r) = drops[k].agent /\ pc[r] = "pumping"}]
    /\ UNCHANGED <<pc, cred, table, done, opened, inbound, client, rdr, hand, online, rev, expired>>

\* The ids are collected under the lock, then finished one by one.
DropCollect(k) ==
    /\ drops[k].step = "due"
    /\ drops' = [drops EXCEPT ![k].step = "finishing",
                              ![k].ids = {r \in table : AgentOf(r) = drops[k].agent}]
    /\ UNCHANGED <<pc, cred, table, done, opened, inbound, client, rdr, hand, online, rev, expired>>

DropFinish(k, r) ==
    /\ drops[k].step = "finishing" /\ r \in drops[k].ids
    /\ Finish(r)
    /\ drops' = [drops EXCEPT ![k].ids = @ \ {r}]
    /\ UNCHANGED <<pc, cred, opened, inbound, client, rdr, hand, online, rev, expired>>

DropReturns(k) ==
    /\ drops[k].step = "finishing" /\ drops[k].ids = {}
    /\ drops' = [drops EXCEPT ![k].step = "idle"]
    /\ UNCHANGED <<pc, cred, table, done, opened, inbound, client, rdr, hand, online, rev, expired>>

\* Store.Revoke, then dropSession.
Revoke(s) ==
    /\ rev[s].step = "no" /\ ~expired[s]
    /\ rev' = [rev EXCEPT ![s].step = "invalid"]
    /\ UNCHANGED <<pc, cred, table, done, opened, inbound, client, rdr, hand, online, drops, expired>>

RevokeCollect(s) ==
    /\ rev[s].step = "invalid"
    /\ rev' = [rev EXCEPT ![s] = [step |-> "finishing", ids |-> TunnelsOf(s)]]
    /\ UNCHANGED <<pc, cred, table, done, opened, inbound, client, rdr, hand, online, drops, expired>>

RevokeFinish(s, r) ==
    /\ rev[s].step = "finishing" /\ r \in rev[s].ids
    /\ Finish(r)
    /\ rev' = [rev EXCEPT ![s].ids = @ \ {r}]
    /\ UNCHANGED <<pc, cred, opened, inbound, client, rdr, hand, online, drops, expired>>

RevokeReturns(s) ==
    /\ rev[s].step = "finishing" /\ rev[s].ids = {}
    /\ rev' = [rev EXCEPT ![s].step = "returned"]
    /\ UNCHANGED <<pc, cred, table, done, opened, inbound, client, rdr, hand, online, drops, expired>>

Expire(s) ==
    /\ ~expired[s]
    /\ expired' = [expired EXCEPT ![s] = TRUE]
    /\ UNCHANGED <<pc, cred, table, done, opened, inbound, client, rdr, hand, online, drops, rev>>

-----------------------------------------------------------------------------
Init ==
    /\ pc = [r \in Requests |-> "idle"]
    /\ cred = [r \in Requests |-> Nil]
    /\ table = {}
    /\ done = [r \in Requests |-> FALSE]
    /\ opened = [r \in Requests |-> "empty"]
    /\ inbound = [r \in Requests |-> 0]
    /\ client = [r \in Requests |-> FALSE]
    /\ rdr = [r \in Requests |-> "none"]
    /\ hand = [p \in Pumps |-> [step |-> "idle", on |-> Nil, slow |-> {}]]
    /\ online = [a \in Agents |-> TRUE]
    /\ drops = [k \in Droppers |-> [step |-> "idle", agent |-> Nil, ids |-> {}]]
    /\ rev = [s \in Sessions |-> [step |-> "no", ids |-> {}]]
    /\ expired = [s \in Sessions |-> FALSE]

\* Steps of a handler that need nobody else.
Proceed(r) ==
    \/ Reject(r) \/ CheckOnline(r) \/ AddTunnel(r)
    \/ SendOpen(r) \/ SendOpenQueued(r) \/ SendOpenFails(r)
    \/ AwaitOpened(r) \/ AwaitRefused(r) \/ AwaitTimeout(r) \/ AwaitDone(r)
    \/ Establish(r) \/ EstablishFails(r)
    \/ StartDrain(r) \/ DrainEnds(r) \/ Join(r)

\* HandleConnect, or HandleTunnel over a WebSocket: the same steps in the same
\* order, and a request that is malformed is a rejected one.
RequestNext(r) ==
    \/ \E s \in Sessions : Authenticate(r, s)
    \/ Proceed(r)
    \/ ReaderSendFails(r) \/ ReaderEnds(r)
    \/ WriteChunk(r) \/ WriteChunkFails(r) \/ Deadline(r)

PumpNext(p) ==
    \/ \E r \in Requests : \/ \E res \in {"ok", "failed"} : OpenResult(p, r, res)
                           \/ Data(p, r)
                           \/ BadPayload(p, r)
                           \/ AgentCloses(p, r)
    \/ Deliver(p) \/ DeliverDone(p) \/ DeliverTimeout(p) \/ Notified(p)

DropNext(k) ==
    \/ DropCollect(k)
    \/ \E r \in Requests : DropFinish(k, r)
    \/ DropReturns(k)

RevokeNext(s) ==
    \/ RevokeCollect(s)
    \/ \E r \in Requests : RevokeFinish(s, r)
    \/ RevokeReturns(s)

Next ==
    \/ \E r \in Requests : RequestNext(r)
    \/ \E p \in Pumps : PumpNext(p)
    \/ \E k \in Droppers : DropNext(k) \/ (\E a \in Agents : AgentLeaves(k, a))
    \/ \E a \in Agents : AgentReturns(a)
    \/ \E s \in Sessions : Revoke(s) \/ RevokeNext(s) \/ Expire(s)

Spec == Init /\ [][Next]_vars

\* Goroutines run and timers fire; a write or a read on a connection that the
\* host closed fails.  Nothing is assumed of the clients, who may never read or
\* hang up, of the probes, or of when a credential expires.
Fairness ==
    /\ \A r \in Requests :
          /\ WF_vars(Proceed(r))
          /\ WF_vars(Deadline(r))
          /\ WF_vars(~client[r] /\ ReaderEnds(r))
          /\ WF_vars(~client[r] /\ WriteChunkFails(r))
    /\ \A p \in Pumps : WF_vars(DeliverDone(p) \/ DeliverTimeout(p)) /\ WF_vars(Notified(p))
    /\ \A k \in Droppers : WF_vars(DropNext(k))
    /\ \A s \in Sessions : WF_vars(RevokeNext(s))

FairSpec == Spec /\ Fairness

-----------------------------------------------------------------------------
(* Properties                                                              *)

\* A readPump between messages, in HandleAgent's select, or in finish's send.
PumpAt == [step : {"idle", "deliver", "notify"}, on : Requests \cup {Nil}, slow : SUBSET Requests]

DropCall == [step : {"idle", "due", "finishing"}, agent : Agents \cup {Nil}, ids : SUBSET Requests]

\* Types of the variables.
TypeOK ==
    /\ pc \in [Requests -> HandlerStep]
    /\ cred \in [Requests -> Sessions \cup {Nil}]
    /\ table \in SUBSET Requests
    /\ done \in [Requests -> BOOLEAN]
    /\ opened \in [Requests -> {"empty", "ok", "failed"}]
    /\ inbound \in [Requests -> 0..InboundQueue]
    /\ client \in [Requests -> BOOLEAN]
    /\ rdr \in [Requests -> {"none", "reading", "ended"}]
    /\ hand \in [Pumps -> PumpAt]
    /\ online \in [Agents -> BOOLEAN]
    /\ drops \in [Droppers -> DropCall]
    /\ rev \in [Sessions -> [step : {"no", "invalid", "finishing", "returned"}, ids : SUBSET Requests]]
    /\ expired \in [Sessions -> BOOLEAN]

\* A credential never holds more than maxTunnelsPerSession tunnels, however
\* many of its requests are counted and inserted at once.
LimitHeld == \A s \in Sessions : Cardinality(TunnelsOf(s)) <= MaxTunnelsPerSession

\* A handler that has not returned, past addTunnel.
Active(r) == pc[r] \in {"sending", "enqueueing", "waiting", "establishing",
                        "pumping", "draining", "joining"}

\* A slot of the table is always owned by a handler that has not returned, and
\* a handler that has a tunnel either finds it in the table or has been told
\* by t.done: no path (timeout, refusal, failed reply, revocation, probe gone)
\* leaks a slot or leaves a handler waiting for a tunnel nobody can finish.
SlotsOwned ==
    \A r \in Requests : /\ r \in table => Active(r) /\ ~done[r] /\ rdr[r] # "ended"
                        /\ Active(r) => r \in table \/ done[r]

\* DropAgent closes every tunnel of a probe that disconnected: when no call is
\* under way and the probe has not come back, the only tunnels left were added
\* since, and their proxy_open is about to be refused.
OfflineDropped ==
    \A a \in Agents :
        (~online[a] /\ \A k \in Droppers : drops[k].step # "idle" => drops[k].agent # a)
        => \A r \in table : AgentOf(r) = a => pc[r] = "sending"

\* A request ends some time after its credential expired, even if its client
\* neither reads nor hangs up and its probe never answers.
RequestsEnd ==
    \A r \in Requests : (cred[r] # Nil /\ expired[cred[r]]) ~> (pc[r] = "ended")

\* A client that does not read holds up the readPump of its probe, which also
\* carries the probe's heartbeats and every other tunnel, for one inboundWait at
\* most: once a readPump has waited that long for a tunnel it never waits for
\* it again, whatever the probe has queued behind the chunk.
SlowClientOnce ==
    \A p \in Pumps : hand[p].step = "deliver" => hand[p].on \notin hand[p].slow

\* The inductive invariant of the safety properties.  A request that has not
\* reached addTunnel has no tunnel that could have ended.
Untouched == \A r \in Requests : pc[r] \in {"idle", "authed", "checked"} => ~done[r] /\ rdr[r] = "none"

\* Past authentication a request has its credential.
CredKnown == \A r \in Requests : pc[r] \notin {"idle", "ended"} => cred[r] \in Sessions

\* The call k will finish the tunnel r of the probe a.
Covers(k, a, r) ==
    /\ drops[k].agent = a
    /\ drops[k].step = "due" \/ (drops[k].step = "finishing" /\ r \in drops[k].ids)

\* Every tunnel of a probe that left, unless its proxy_open is about to be refused,
\* is on the list of a DropAgent call, or the call has still to make its list.
DropsCover ==
    \A a \in Agents, r \in table :
        (~online[a] /\ AgentOf(r) = a /\ pc[r] # "sending") =>
            \E k \in Droppers : Covers(k, a, r)

\* A readPump holds a tunnel that is in the table or has ended since, and the
\* ones it gave up on have ended.
PumpsHold ==
    \A p \in Pumps :
        /\ hand[p].step = "deliver" =>
              hand[p].on \in Requests /\ (hand[p].on \in table \/ done[hand[p].on])
        /\ \A r \in hand[p].slow : done[r]

ServiceInv ==
    TypeOK /\ Untouched /\ CredKnown /\ SlotsOwned /\ LimitHeld /\ DropsCover
    /\ PumpsHold /\ SlowClientOnce

-----------------------------------------------------------------------------
(* What a comment of the code promises, and the code does not keep.        *)

\* "Revoke invalidates a credential and drops tunnels opened with it"
\* (service.go): once Revoke has returned, no tunnel of the credential is left.
RevokedDropped == \A s \in Sessions : rev[s].step = "returned" => TunnelsOf(s) = {}
=============================================================================
