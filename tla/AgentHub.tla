------------------------------ MODULE AgentHub ------------------------------
(***************************************************************************)
(* The host's registry of live probe connections and the probe's row in    *)
(* the database: host/internal/ws/hub.go, handler.go, conn.go and the      *)
(* admin handlers that act on both (host/internal/api/admin_agents.go).    *)
(*                                                                         *)
(* Goroutines and what is atomic.  A connection's HandleWebSocket, then    *)
(* its readPump, move stage[c]; its writePump only closes; an admin        *)
(* request moves adm[d].  A step is one critical section of Hub.mu or      *)
(* AgentConn.closeMu, or one database statement: everything in between may *)
(* interleave.  The database is assumed to be available; a row that is not *)
(* found is modelled.                                                      *)
(*                                                                         *)
(* Abstractions.  A token is named by the rotation that wrote it (Nil: the *)
(* one the agent was created with).  Target lists, override lists, metrics *)
(* and what is queued on a connection are in module TargetSync; names and  *)
(* addresses are left out.                                                 *)
(***************************************************************************)
EXTENDS Naturals

CONSTANTS
    Agents,     \* probe ids
    Conns,      \* AgentConn objects: one per accepted WebSocket
    Admins,     \* admin HTTP requests: each performs one operation
    Ops,        \* operations the admins may perform
    Messages,   \* kinds of messages the probes send
    Nil

ASSUME HubAssumption ==
    /\ Nil \notin Agents \cup Conns \cup Admins
    /\ Ops \subseteq {"rotate", "edit", "delete"}
    /\ Messages \subseteq {"heartbeat", "ping", "traceroute"}

VARIABLES
    row,      \* the agents table
    reg,      \* Hub.agents
    stage,    \* where the goroutine that owns a connection is
    owner,    \* AgentConn.AgentID
    tok,      \* the token the connection authenticated with
    snap,     \* the row HandleWebSocket loaded
    closed,   \* AgentConn.closed (and gone: Close sets both)
    reports,     \* the message readPump is handling
    traces,   \* connections with a detached persistTracerouteReport goroutine
    tunnels,  \* connections of a probe that tunnels may have been opened over
    adm,      \* the admin requests
    late,     \* history: is_online = true was last written while the probe
              \* had no registered connection
    raced,    \* history: probes with a rotation that a handshake or another
              \* edit of the same row overlapped
    replaced  \* history: connections that a later Register took over from

vars == <<row, reg, stage, owner, tok, snap, closed, reports, traces, tunnels, adm, late, raced, replaced>>

Values == Admins \cup {Nil}
Row == [exists : BOOLEAN, online : BOOLEAN, token : Values]
NoRow == [exists |-> FALSE, online |-> FALSE, token |-> Nil]

\* HandleWebSocket: new -> loaded -> saved -> registered; readPump: serving -> leaving; Hub.Unregister: unlinked -> marking -> dropping -> ended.
Stages == {"new", "loaded", "saved", "registered", "serving",
           "leaving", "unlinked", "marking", "dropping", "ended"}

\* A connection that has been registered and whose readPump has still to
\* run Unregister.
Served == {"registered", "serving", "leaving"}

AdminStep == {"start", "loaded", "unlink", "closing", "marking", "dropping",
              "deleting", "done"}
Admin == [op : Ops, agent : Agents, pc : AdminStep, snap : Row, held : Conns \cup {Nil}]

\* UPDATE agents SET is_online = b WHERE id = a: no effect without the row.
SetOnline(a, b) == row' = [row EXCEPT ![a].online = IF row[a].exists THEN b ELSE @]

\* gorm's Save: update every column of the row, insert it when there is none.
SaveRow(a, r) == row' = [row EXCEPT ![a] = [r EXCEPT !.exists = TRUE]]

\* Drops the tunnels of the probe; others are opened at once over a registered
\* connection that is open.
DropAgent(a) ==
    tunnels' = [tunnels EXCEPT ![a] = {c \in @ : reg[a] = c /\ ~closed[c]}]

-----------------------------------------------------------------------------
(* HandleWebSocket                                                         *)

\* The first message carries token n of agent a; the row is looked up by it.
Lookup(c, a, n) ==
    /\ stage[c] = "new"
    /\ IF row[a].exists /\ row[a].token = n
       THEN /\ stage' = [stage EXCEPT ![c] = "loaded"]
            /\ owner' = [owner EXCEPT ![c] = a]
            /\ tok' = [tok EXCEPT ![c] = n]
            /\ snap' = [snap EXCEPT ![c] = row[a]]
            /\ UNCHANGED closed
       ELSE /\ stage' = [stage EXCEPT ![c] = "ended"]
            /\ closed' = [closed EXCEPT ![c] = TRUE]
            /\ UNCHANGED <<owner, tok, snap>>
    /\ UNCHANGED <<row, reg, reports, traces, tunnels, adm, late, raced, replaced>>

\* db.DB.Save(&agent) writes the whole row loaded before.
SaveAgent(c) ==
    /\ stage[c] = "loaded"
    /\ SaveRow(owner[c], [snap[c] EXCEPT !.online = TRUE])
    /\ stage' = [stage EXCEPT ![c] = "saved"]
    /\ snap' = [snap EXCEPT ![c] = NoRow]
    /\ late' = [late EXCEPT ![owner[c]] = FALSE]
    /\ UNCHANGED <<reg, owner, tok, closed, reports, traces, tunnels, adm, raced, replaced>>

\* Mutant: a reconnect replaces its predecessor without closing it.
RegisterWithoutClose(c) ==
    /\ stage[c] = "saved"
    /\ reg' = [reg EXCEPT ![owner[c]] = c]
    /\ stage' = [stage EXCEPT ![c] = "registered"]
    /\ tunnels' = [tunnels EXCEPT ![owner[c]] = @ \cup {c}]
    /\ UNCHANGED <<row, owner, tok, snap, closed, reports, traces, adm, late, raced, replaced>>

\* Hub.Register: closes a predecessor under the lock and replaces it.  From now
\* on tunnels may be opened over c.
Register(c) ==
    /\ stage[c] = "saved"
    /\ LET old == reg[owner[c]]
       IN /\ closed' = [e \in Conns |-> closed[e] \/ e = old]
          /\ replaced' = replaced \cup ({old} \ {Nil})
    /\ tunnels' = [tunnels EXCEPT ![owner[c]] = @ \cup {c}]
    /\ reg' = [reg EXCEPT ![owner[c]] = c]
    /\ stage' = [stage EXCEPT ![c] = "registered"]
    /\ UNCHANGED <<row, owner, tok, snap, reports, traces, adm, late, raced>>

\* After SyncSingleAgent (module TargetSync) the pumps start.
StartPumps(c) ==
    /\ stage[c] = "registered"
    /\ stage' = [stage EXCEPT ![c] = "serving"]
    /\ UNCHANGED <<row, reg, owner, tok, snap, closed, reports, traces, tunnels, adm, late, raced, replaced>>

-----------------------------------------------------------------------------
(* readPump, handleIncomingMessage and writePump                           *)

\* The loop of readPump.  Frames that gorilla has buffered are still read after
\* the connection was closed.
Reading(c) == stage[c] = "serving" /\ c \notin reports

\* Mutant: refreshes last_seen_at only.
ReportSeen(c) == UNCHANGED <<row, late>>

\* Writes is_online = true on behalf of connection c.
ReportOnline(c) ==
    /\ SetOnline(owner[c], TRUE)
    /\ late' = [late EXCEPT ![owner[c]] = reg[owner[c]] = Nil]

HandleHeartbeat(c) ==
    /\ "heartbeat" \in Messages /\ Reading(c)
    /\ ReportOnline(c)
    /\ UNCHANGED <<reg, stage, owner, tok, snap, closed, reports, traces, tunnels, adm, raced, replaced>>

\* Mutant: persists without counting the agent's rows.
HandlePingUnchecked(c) ==
    /\ "ping" \in Messages /\ Reading(c)
    /\ reports' = reports \cup {c}
    /\ UNCHANGED <<row, reg, stage, owner, tok, snap, closed, traces, tunnels, adm, late, raced, replaced>>

\* A ping report first counts the agent's rows: none closes the connection.
HandlePing(c) ==
    /\ "ping" \in Messages /\ Reading(c)
    /\ IF row[owner[c]].exists
       THEN /\ reports' = reports \cup {c}
            /\ UNCHANGED closed
       ELSE /\ closed' = [closed EXCEPT ![c] = TRUE]
            /\ UNCHANGED reports
    /\ UNCHANGED <<row, reg, stage, owner, tok, snap, traces, tunnels, adm, late, raced, replaced>>

PersistPing(c) ==
    /\ c \in reports
    /\ ReportOnline(c)
    /\ reports' = reports \ {c}
    /\ UNCHANGED <<reg, stage, owner, tok, snap, closed, traces, tunnels, adm, raced, replaced>>

\* A traceroute report is persisted by a goroutine of its own.  One without hops
\* and without a host is dropped by it, as a ping report without results is by
\* readPump: neither is a step.
HandleTraceroute(c) ==
    /\ "traceroute" \in Messages /\ Reading(c)
    /\ traces' = traces \cup {c}
    /\ UNCHANGED <<row, reg, stage, owner, tok, snap, closed, reports, tunnels, adm, late, raced, replaced>>

PersistTraceroute(c) ==
    /\ c \in traces
    /\ ReportOnline(c)
    /\ traces' = traces \ {c}
    /\ UNCHANGED <<reg, stage, owner, tok, snap, closed, reports, tunnels, adm, raced, replaced>>

\* The peer vanishes or the read deadline passes: ReadMessage fails.
ReadFails(c) ==
    /\ Reading(c)
    /\ stage' = [stage EXCEPT ![c] = "leaving"]
    /\ UNCHANGED <<row, reg, owner, tok, snap, closed, reports, traces, tunnels, adm, late, raced, replaced>>

\* A failed write or ping: writePump's deferred Close.
WriteFails(c) ==
    /\ stage[c] \in {"serving", "leaving"} /\ ~closed[c]
    /\ closed' = [closed EXCEPT ![c] = TRUE]
    /\ UNCHANGED <<row, reg, stage, owner, tok, snap, reports, traces, tunnels, adm, late, raced, replaced>>

-----------------------------------------------------------------------------
(* Hub.Unregister, run when readPump returns                               *)

\* The instance check and the delete, under the lock.
Unregister(c) ==
    /\ stage[c] = "leaving"
    /\ IF reg[owner[c]] = c
       THEN /\ reg' = [reg EXCEPT ![owner[c]] = Nil]
            /\ stage' = [stage EXCEPT ![c] = "unlinked"]
       ELSE /\ stage' = [stage EXCEPT ![c] = "ended"]
            /\ UNCHANGED reg
    /\ UNCHANGED <<row, owner, tok, snap, closed, reports, traces, tunnels, adm, late, raced, replaced>>

UnregisterClose(c) ==
    /\ stage[c] = "unlinked"
    /\ closed' = [closed EXCEPT ![c] = TRUE]
    /\ stage' = [stage EXCEPT ![c] = "marking"]
    /\ UNCHANGED <<row, reg, owner, tok, snap, reports, traces, tunnels, adm, late, raced, replaced>>

\* Mutant: leaves is_online as it is.
UnregisterUnmarked(c) ==
    /\ stage[c] = "marking"
    /\ stage' = [stage EXCEPT ![c] = "dropping"]
    /\ UNCHANGED <<row, reg, owner, tok, snap, closed, reports, traces, tunnels, adm, late, raced, replaced>>

UnregisterMark(c) ==
    /\ stage[c] = "marking"
    /\ SetOnline(owner[c], FALSE)
    /\ late' = [late EXCEPT ![owner[c]] = FALSE]
    /\ stage' = [stage EXCEPT ![c] = "dropping"]
    /\ UNCHANGED <<reg, owner, tok, snap, closed, reports, traces, tunnels, adm, raced, replaced>>

\* Mutant: Unregister returns once the row is marked.
UnregisterUndropped(c) ==
    /\ stage[c] = "dropping"
    /\ stage' = [stage EXCEPT ![c] = "ended"]
    /\ UNCHANGED <<row, reg, owner, tok, snap, closed, reports, traces, tunnels, adm, late, raced, replaced>>

UnregisterDrop(c) ==
    /\ stage[c] = "dropping"
    /\ DropAgent(owner[c])
    /\ stage' = [stage EXCEPT ![c] = "ended"]
    /\ UNCHANGED <<row, reg, owner, tok, snap, closed, reports, traces, adm, late, raced, replaced>>

-----------------------------------------------------------------------------
(* Admin requests                                                          *)

\* db.DB.First: adminRotateAgentToken and adminUpdateAgent; not found is a 404.
AdminLoad(d) ==
    /\ adm[d].pc = "start" /\ adm[d].op # "delete"
    /\ adm' = IF row[adm[d].agent].exists
              THEN [adm EXCEPT ![d].pc = "loaded", ![d].snap = row[adm[d].agent]]
              ELSE [adm EXCEPT ![d].pc = "done"]
    /\ UNCHANGED <<row, reg, stage, owner, tok, snap, closed, reports, traces, tunnels, late, raced, replaced>>

\* The row loaded before, with the new token of a rotation; adminUpdateAgent
\* changes columns of module TargetSync.
Edited(d) == LET r == adm[d].snap
             IN IF adm[d].op = "rotate" THEN [r EXCEPT !.token = d] ELSE r

\* Somebody else holds a copy of the row that is older than the rotation d,
\* or is about to register with the token d replaces.
Overlapped(d) ==
    \/ \E c \in Conns : owner[c] = adm[d].agent /\ stage[c] \in {"loaded", "saved"}
    \/ \E e \in Admins \ {d} : adm[e].agent = adm[d].agent /\ adm[e].pc = "loaded"

\* Mutant: a rotation ends without Disconnect.
AdminSaveUnkicked(d) ==
    /\ adm[d].pc = "loaded"
    /\ SaveRow(adm[d].agent, Edited(d))
    /\ late' = [late EXCEPT ![adm[d].agent] = reg[adm[d].agent] = Nil]
    /\ adm' = [adm EXCEPT ![d].pc = "done", ![d].snap = NoRow]
    /\ UNCHANGED <<reg, stage, owner, tok, snap, closed, reports, traces, tunnels, raced, replaced>>

\* db.DB.Save: the whole row, not the changed column.
AdminSave(d) ==
    /\ adm[d].pc = "loaded"
    /\ SaveRow(adm[d].agent, Edited(d))
    /\ late' = [late EXCEPT ![adm[d].agent] = reg[adm[d].agent] = Nil]
    /\ raced' = IF adm[d].op = "rotate" /\ Overlapped(d) THEN raced \cup {adm[d].agent} ELSE raced
    /\ adm' = [adm EXCEPT ![d].pc = IF adm[d].op = "rotate" THEN "unlink" ELSE "done",
                          ![d].snap = NoRow]
    /\ UNCHANGED <<reg, stage, owner, tok, snap, closed, reports, traces, tunnels, replaced>>

\* Hub.Disconnect, after a rotation and first thing in a deletion.
Disconnect(d) ==
    /\ adm[d].pc = "unlink" \/ (adm[d].pc = "start" /\ adm[d].op = "delete")
    /\ adm' = [adm EXCEPT ![d].pc = "closing", ![d].held = reg[adm[d].agent]]
    /\ reg' = [reg EXCEPT ![adm[d].agent] = Nil]
    /\ UNCHANGED <<row, stage, owner, tok, snap, closed, reports, traces, tunnels, late, raced, replaced>>

DisconnectClose(d) ==
    /\ adm[d].pc = "closing"
    /\ closed' = [c \in Conns |-> closed[c] \/ c = adm[d].held]
    /\ adm' = [adm EXCEPT ![d].pc = "marking", ![d].held = Nil]
    /\ UNCHANGED <<row, reg, stage, owner, tok, snap, reports, traces, tunnels, late, raced, replaced>>

DisconnectMark(d) ==
    /\ adm[d].pc = "marking"
    /\ SetOnline(adm[d].agent, FALSE)
    /\ late' = [late EXCEPT ![adm[d].agent] = FALSE]
    /\ adm' = [adm EXCEPT ![d].pc = "dropping"]
    /\ UNCHANGED <<reg, stage, owner, tok, snap, closed, reports, traces, tunnels, raced, replaced>>

DisconnectDrop(d) ==
    /\ adm[d].pc = "dropping"
    /\ DropAgent(adm[d].agent)
    /\ adm' = [adm EXCEPT ![d].pc = IF adm[d].op = "delete" THEN "deleting" ELSE "done"]
    /\ UNCHANGED <<row, reg, stage, owner, tok, snap, closed, reports, traces, late, raced, replaced>>

\* adminDeleteAgent then deletes the row: what is left of it in the model means
\* nothing, as every reader looks at exists first.
DeleteRow(d) ==
    /\ adm[d].pc = "deleting"
    /\ row' = [row EXCEPT ![adm[d].agent].exists = FALSE]
    /\ late' = [late EXCEPT ![adm[d].agent] = FALSE]
    /\ adm' = [adm EXCEPT ![d].pc = "done"]
    /\ UNCHANGED <<reg, stage, owner, tok, snap, closed, reports, traces, tunnels, raced, replaced>>

-----------------------------------------------------------------------------
Init ==
    /\ row = [a \in Agents |-> [NoRow EXCEPT !.exists = TRUE]]
    /\ reg = [a \in Agents |-> Nil]
    /\ stage = [c \in Conns |-> "new"]
    /\ owner = [c \in Conns |-> Nil]
    /\ tok = [c \in Conns |-> Nil]
    /\ snap = [c \in Conns |-> NoRow]
    /\ closed = [c \in Conns |-> FALSE]
    /\ reports = {}
    /\ traces = {}
    /\ tunnels = [a \in Agents |-> {}]
    /\ adm \in [Admins -> {[op |-> o, agent |-> a, pc |-> "start", snap |-> NoRow, held |-> Nil] :
                              o \in Ops, a \in Agents}]
    /\ late = [a \in Agents |-> FALSE]
    /\ raced = {}
    /\ replaced = {}

\* What the goroutine of a connection does once it is scheduled.
ConnStep(c) ==
    \/ SaveAgent(c) \/ Register(c) \/ StartPumps(c) \/ PersistPing(c)
    \/ Unregister(c) \/ UnregisterClose(c) \/ UnregisterMark(c) \/ UnregisterDrop(c)

\* What the probe and the network make it do.
ConnEvent(c) ==
    \/ \E a \in Agents, n \in Values : Lookup(c, a, n)
    \/ HandleHeartbeat(c) \/ HandlePing(c) \/ HandleTraceroute(c) \/ PersistTraceroute(c)
    \/ ReadFails(c) \/ WriteFails(c)

AdminStepOf(d) ==
    \/ AdminLoad(d) \/ AdminSave(d) \/ Disconnect(d) \/ DisconnectClose(d) \/ DisconnectMark(d) \/ DisconnectDrop(d)
    \/ DeleteRow(d)

Next ==
    \/ \E c \in Conns : ConnStep(c) \/ ConnEvent(c)
    \/ \E d \in Admins : AdminStepOf(d)

Spec == Init /\ [][Next]_vars

\* Goroutines run; a probe that stays connected and has targets keeps sending
\* reports; the frames buffered before a connection was closed are finitely many,
\* so that its read fails in the end.
Fairness ==
    /\ \A c \in Conns :
          /\ WF_vars(ConnStep(c))
          /\ WF_vars(PersistTraceroute(c))
          /\ SF_vars(HandlePing(c))
          /\ SF_vars(closed[c] /\ ReadFails(c))
    /\ \A d \in Admins : WF_vars(AdminStepOf(d))

FairSpec == Spec /\ Fairness

-----------------------------------------------------------------------------
(* Properties                                                              *)

\* Types of the variables.
TypeOK ==
    /\ row \in [Agents -> Row]
    /\ reg \in [Agents -> Conns \cup {Nil}]
    /\ stage \in [Conns -> Stages]
    /\ owner \in [Conns -> Agents \cup {Nil}]
    /\ tok \in [Conns -> Values]
    /\ snap \in [Conns -> Row]
    /\ closed \in [Conns -> BOOLEAN]
    /\ reports \in SUBSET Conns
    /\ traces \in SUBSET Conns
    /\ tunnels \in [Agents -> SUBSET Conns]
    /\ adm \in [Admins -> Admin]
    /\ late \in [Agents -> BOOLEAN]
    /\ raced \in SUBSET Agents
    /\ replaced \in SUBSET Conns

\* No ghost probes: a connection in Hub.agents is registered under its own id
\* and its readPump has still to run Unregister, so something will remove it.
NoGhostProbe ==
    \A a \in Agents, c \in Conns : reg[a] = c => owner[c] = a /\ stage[c] \in Served

\* An admin request has taken c out of the hub and is about to close it.
BeingDisconnected(c) == \E d \in Admins : adm[d].pc = "closing" /\ adm[d].held = c

\* A connection that lost its registration (replaced by Register, taken out by
\* Disconnect or Unregister) is closed, or is about to be by whoever took it
\* out: a probe never has two open connections that the host serves.
SupersededClosed ==
    \A c \in Conns :
        (stage[c] \in Served /\ ~closed[c]) => reg[owner[c]] = c \/ BeingDisconnected(c)

\* Some goroutine will still write is_online = false, or register.
OnlinePending(a) ==
    \/ \E c \in Conns : owner[c] = a /\ stage[c] \in {"saved", "unlinked", "marking"}
    \/ \E d \in Admins : adm[d].agent = a /\ adm[d].pc \in {"closing", "marking"}

\* A probe shown online has a registered connection, or a goroutine is on its
\* way to change that, or the last write came when it had none (a report in
\* flight, a detached traceroute goroutine, a stale whole-row save).
OnlineJustified ==
    \A a \in Agents :
        (row[a].exists /\ row[a].online) => reg[a] # Nil \/ OnlinePending(a) \/ late[a]

\* A rotation has saved its token and is about to close c.
BeingKicked(c) ==
    \/ BeingDisconnected(c)
    \/ \E d \in Admins : adm[d].agent = owner[c] /\ adm[d].pc = "unlink"

\* "Kick active connection to enforce new token" (admin_agents.go): unless a
\* handshake or another edit of the row overlapped a rotation, an open
\* connection the host serves authenticated with the token of the row, or the
\* rotation is about to close it.
RotationEnforced ==
    \A c \in Conns :
        (/\ stage[c] \in Served /\ ~closed[c]
         /\ row[owner[c]].exists /\ owner[c] \notin raced)
        => tok[c] = row[owner[c]].token \/ BeingKicked(c)

\* "DropAgent closes every tunnel for a probe that just disconnected"
\* (proxy/service.go): a tunnel only outlives the connection it was opened over
\* when a reconnect replaced that connection, whose Unregister then returns
\* early, or while a Disconnect has still to drop it.
TunnelsDropped ==
    \A a \in Agents, c \in Conns :
        (c \in tunnels[a] /\ stage[c] = "ended") =>
            \/ c \in replaced
            \/ \E d \in Admins : adm[d].agent = a /\ adm[d].pc \in {"closing", "marking", "dropping"}

\* A probe that stays connected is shown online again and again, although the
\* late writes of its earlier connections may have marked it offline.
OnlineHeals ==
    \A a \in Agents : <>[](reg[a] # Nil /\ row[a].exists) => []<>(row[a].online)

\* A connection that slipped in while its agent was being deleted does not
\* stay: its next report finds no row and closes it.
DeletedDropped ==
    \A a \in Agents : (~row[a].exists) ~> (reg[a] = Nil \/ row[a].exists)

\* The inductive invariant of the hub's safety properties: a connection past
\* authentication knows its probe.
OwnerKnown ==
    \A c \in Conns : stage[c] \notin {"new", "ended"} => owner[c] \in Agents

\* And one before it does not.
NewUnowned == \A c \in Conns : stage[c] = "new" => owner[c] = Nil

\* A deletion loads no row.
DeletionsLoadNothing == \A d \in Admins : adm[d].pc = "loaded" => adm[d].op # "delete"

\* A tunnel is over the registered connection, over one that was replaced, or
\* over one whose end somebody is still working on.
TunnelsHeld ==
    \A a \in Agents : \A c \in tunnels[a] :
        /\ owner[c] = a
        /\ \/ reg[a] = c \/ c \in replaced
           \/ stage[c] \in {"unlinked", "marking", "dropping"}
           \/ \E d \in Admins : adm[d].agent = a /\ adm[d].pc \in {"closing", "marking", "dropping"}

\* Without an overlapping edit every copy of the token agrees with the row: the
\* one HandleWebSocket loaded, the one a handshake in progress authenticated
\* with and the one an admin request loaded.
CopiesAgree ==
    /\ \A c \in Conns : stage[c] = "loaded" => snap[c].token = tok[c]
    /\ \A c \in Conns :
          (stage[c] \in {"loaded", "saved"} /\ owner[c] \notin raced) => tok[c] = row[owner[c]].token
    /\ \A d \in Admins :
          (adm[d].pc = "loaded" /\ adm[d].agent \notin raced) => adm[d].snap.token = row[adm[d].agent].token

\* RotationEnforced, for a row that is gone as well: a stale save may bring it back.
ServedAgree ==
    \A c \in Conns :
        (stage[c] \in Served /\ ~closed[c] /\ owner[c] \notin raced)
        => tok[c] = row[owner[c]].token \/ BeingKicked(c)

HubInv ==
    /\ TypeOK /\ OwnerKnown /\ NewUnowned /\ DeletionsLoadNothing
    /\ NoGhostProbe /\ SupersededClosed /\ OnlineJustified
    /\ TunnelsHeld /\ CopiesAgree /\ ServedAgree

-----------------------------------------------------------------------------
(* What comments of the code promise, and the code does not keep.          *)

\* "Kick active connection to enforce new token" (admin_agents.go), whatever
\* overlaps the rotation: refuted by a handshake that loaded the row before it.
RotationAlwaysEnforced ==
    \A c \in Conns :
        (stage[c] \in Served /\ ~closed[c] /\ row[owner[c]].exists)
        => tok[c] = row[owner[c]].token \/ BeingKicked(c)

\* The token enforced from then on is the new one: the token of a row only
\* changes by a rotation saving its own.
RotationKept ==
    [][\A a \in Agents : row'[a].token # row[a].token =>
          \/ ~row'[a].exists
          \/ \E d \in Admins : adm[d].op = "rotate" /\ adm[d].pc = "loaded" /\ row'[a].token = d]_vars

\* "DropAgent closes every tunnel for a probe that just disconnected"
\* (proxy/service.go): no tunnel outlives the connection it was opened over.
NoStrandedTunnel ==
    \A a \in Agents, c \in Conns : stage[c] = "ended" => c \notin tunnels[a]
=============================================================================
