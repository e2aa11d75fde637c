----------------------------- MODULE TargetSync -----------------------------
(***************************************************************************)
(* How the target list gets from the admins to the probes: the target      *)
(* table (host/internal/api/admin_targets.go), the probes' pause and route *)
(* overrides (adminUpdateAgent), the syncs that ws/hub.go builds from both *)
(* and queues on a probe's connection, what the probe then measures, and   *)
(* the metrics that its reports leave behind (ws/conn.go, db/db.go).       *)
(*                                                                         *)
(* A job is the goroutine of one admin request or of one HandleWebSocket.  *)
(* A step of it is one database statement, one critical section of Hub.mu  *)
(* or one SafeSend: everything in between may interleave.                  *)
(*                                                                         *)
(* Abstractions.  Of a target's columns two are kept, which one request    *)
(* may change without the other: enabled and disable_route.  Name, host,   *)
(* packet count and interval travel in the same row and the same sync.     *)
(* The agents' rows exist throughout (AgentHub models their deletion).     *)
(* SafeSend also fails when messages of other kinds fill the buffer of     *)
(* 256, so a sync may be lost whatever the number of syncs queued.         *)
(***************************************************************************)
EXTENDS Naturals, Sequences

CONSTANTS
    Targets,    \* target ids
    Agents,     \* probe ids
    Jobs,       \* admin requests and accepted WebSockets
    May,        \* what a job may turn out to be
    Updates,    \* the column an update of a target carries, and its value
    Edits,      \* the override list an edit of a probe carries, and its value
    Nil

ASSUME SyncAssumption ==
    /\ Nil \notin Targets \cup Agents \cup Jobs
    /\ Targets \cap Agents = {}
    /\ May \in [Jobs -> SUBSET {"create", "update", "delete", "edit", "connect"}]
    /\ Updates \subseteq {"enabled", "noRoute"} \X BOOLEAN
    /\ Edits \subseteq {"paused", "noRoute"} \X SUBSET Targets

VARIABLES
    table,      \* the targets table
    over,       \* disabled_route_targets and paused_targets of the agents table
    linked,     \* probes with a registered connection
    queue,      \* target_syncs in AgentConn.Send and on the wire
    config,     \* the list a probe works by: it survives a reconnect
    job,        \* the goroutines
    report,     \* the ping report readPump is persisting, per probe
    metrics,    \* timestamps of the ping_metrics rows of a target
    asked,      \* history: the rows as the requests that wrote them meant them,
    overlapped, \* except those written while another job held a copy of them
    defaulted,  \* history: targets created disabled, and stored enabled
    lost,       \* history: probes whose connection missed a sync
    overtaken   \* history: probes whose connection was sent a list read before one sent
                \* to them earlier, or a list without their overrides

vars == <<table, over, linked, queue, config, job, report, metrics, asked, overlapped, defaulted,
          lost, overtaken>>

hostVars == <<table, over, asked, overlapped, defaulted>>
probeVars == <<linked, queue, config, lost, overtaken>>
metricVars == <<report, metrics>>

\* An id is created once; "gone" is a row that was deleted.
TargetRow == [life : {"unborn", "stored", "gone"}, enabled : BOOLEAN, noRoute : BOOLEAN]
OverrideRow == [noRoute : SUBSET Targets, paused : SUBSET Targets]
Rows == Targets \cup Agents

\* What a sync says of a target: omitted, probed with route tracing off, probed.
List == [Targets -> {"off", "ping", "trace"}]
AllOff == [t \in Targets |-> "off"]

\* The local variables of a goroutine.
Job == [pc : {"idle", "update", "purge", "edit", "loaded", "register", "single", "broadcast",
              "collect", "build", "send", "done"},
        on : Rows \cup {Nil}, snap : TargetRow \cup OverrideRow \cup {Nil}, seen : List,
        ids : SUBSET Agents, list : List, older : SUBSET Jobs, behind : BOOLEAN]

NoJob == [pc |-> "idle", on |-> Nil, snap |-> Nil, seen |-> AllOff, ids |-> {}, list |-> AllOff,
          older |-> {}, behind |-> FALSE]

Step(j, pc) == job' = [job EXCEPT ![j].pc = pc]

\* Jobs that have loaded row r and have still to save it.
Holding(r) == {j \in Jobs : job[j].pc \in {"update", "edit", "loaded"} /\ job[j].on = r}
Overlap(j, r) == overlapped' = IF Holding(r) \ {j} = {} THEN overlapped ELSE overlapped \cup {r}

\* gorm's Create writes the column's default for a false with "default:true".
Inserted(r) == [r EXCEPT !.life = "stored", !.enabled = TRUE]

-----------------------------------------------------------------------------
(* admin_targets.go                                                        *)

\* What a request to create a target says of it, its own defaults applied.
Creations == [life : {"stored"}, enabled : BOOLEAN, noRoute : BOOLEAN]

\* adminCreateTarget.
CreateTarget(j, t, c) ==
    /\ job[j].pc = "idle" /\ table[t].life = "unborn"
    /\ table' = [table EXCEPT ![t] = Inserted(c)]
    /\ asked' = [asked EXCEPT ![t] = c]
    /\ defaulted' = IF c.enabled THEN defaulted \ {t} ELSE defaulted \cup {t}
    /\ Step(j, "broadcast")
    /\ UNCHANGED <<over, overlapped, probeVars, metricVars>>

\* adminUpdateTarget: First, or 404.
UpdateLoad(j, t) ==
    /\ job[j].pc = "idle"
    /\ IF table[t].life = "stored"
       THEN job' = [job EXCEPT ![j].pc = "update", ![j].on = t, ![j].snap = table[t]]
       ELSE Step(j, "done")
    /\ UNCHANGED <<hostVars, probeVars, metricVars>>

\* Mutant: a field the request does not carry is saved as false.
ChangedBlanked(r, c) ==
    [r EXCEPT !.enabled = IF c[1] = "enabled" THEN c[2] ELSE @, !.noRoute = c[1] = "noRoute" /\ c[2]]

\* The pointer fields of the request: what it lacks keeps the value loaded.
Changed(r, c) == IF c[1] = "enabled" THEN [r EXCEPT !.enabled = c[2]] ELSE [r EXCEPT !.noRoute = c[2]]

\* Save: every column; a row deleted meanwhile is inserted again.
UpdateSave(j, c) ==
    /\ job[j].pc = "update"
    /\ LET t == job[j].on
           r == Changed(job[j].snap, c)
       IN /\ table' = [table EXCEPT ![t] = IF @.life = "stored" THEN r ELSE Inserted(r)]
          /\ Overlap(j, t)
          /\ asked' = [asked EXCEPT ![t] =
                          IF t \in overlapped' THEN table'[t]
                          ELSE IF c[1] = "enabled" THEN [@ EXCEPT !.enabled = c[2]]
                          ELSE [@ EXCEPT !.noRoute = c[2]]]
          /\ defaulted' = IF c[1] = "enabled" THEN defaulted \ {t} ELSE defaulted
    /\ job' = [job EXCEPT ![j].pc = "broadcast", ![j].on = Nil, ![j].snap = Nil]
    /\ UNCHANGED <<over, probeVars, metricVars>>

\* The Save of a target or of an agent fails: an error, and no sync.
SaveFails(j) ==
    /\ job[j].pc \in {"update", "edit"}
    /\ job' = [job EXCEPT ![j] = [NoJob EXCEPT !.pc = "done"]]
    /\ UNCHANGED <<hostVars, probeVars, metricVars>>

\* adminDeleteTarget: the row, then its metrics, whose deletion may fail unseen.
DeleteTarget(j, t) ==
    /\ job[j].pc = "idle" /\ table[t].life # "unborn"
    /\ table' = [table EXCEPT ![t].life = "gone"]
    /\ Overlap(j, t)
    /\ asked' = [asked EXCEPT ![t] = IF t \in overlapped' THEN table'[t] ELSE [@ EXCEPT !.life = "gone"]]
    /\ job' = [job EXCEPT ![j].pc = "purge", ![j].on = t]
    /\ UNCHANGED <<over, defaulted, probeVars, metricVars>>

PurgeMetrics(j) ==
    /\ job[j].pc = "purge"
    /\ \/ metrics' = [metrics EXCEPT ![job[j].on] = {}]
       \/ UNCHANGED metrics
    /\ job' = [job EXCEPT ![j].pc = "broadcast", ![j].on = Nil]
    /\ UNCHANGED <<hostVars, probeVars, report>>

-----------------------------------------------------------------------------
(* adminUpdateAgent and HandleWebSocket                                    *)

EditLoad(j, a) ==
    /\ job[j].pc = "idle"
    /\ job' = [job EXCEPT ![j].pc = "edit", ![j].on = a, ![j].snap = over[a]]
    /\ UNCHANGED <<hostVars, probeVars, metricVars>>

\* Only the list the request carries is replaced.
With(r, field, s) ==
    IF field = "paused" THEN [r EXCEPT !.paused = s] ELSE [r EXCEPT !.noRoute = s]

EditSave(j, field, s) ==
    /\ job[j].pc = "edit"
    /\ LET a == job[j].on
       IN /\ over' = [over EXCEPT ![a] = With(job[j].snap, field, s)]
          /\ Overlap(j, a)
          /\ asked' = [asked EXCEPT ![a] = IF a \in overlapped' THEN over'[a]
                                           ELSE IF field = "paused" THEN [@ EXCEPT !.paused = s]
                                           ELSE [@ EXCEPT !.noRoute = s]]
    /\ job' = [job EXCEPT ![j].pc = "single", ![j].snap = Nil]
    /\ UNCHANGED <<table, defaulted, probeVars, metricVars>>

\* A probe connects: its row is looked up by the token ...
Connect(j, a) ==
    /\ job[j].pc = "idle"
    /\ job' = [job EXCEPT ![j].pc = "loaded", ![j].on = a, ![j].snap = over[a]]
    /\ UNCHANGED <<hostVars, probeVars, metricVars>>

\* ... and saved whole, with the override lists as they were then; an error is
\* ignored.
ConnectSave(j) ==
    /\ job[j].pc = "loaded"
    /\ \/ LET a == job[j].on
          IN /\ over' = [over EXCEPT ![a] = job[j].snap]
             /\ Overlap(j, a)
             /\ asked' = [asked EXCEPT ![a] = IF a \in overlapped' THEN over'[a] ELSE @]
       \/ UNCHANGED <<over, overlapped, asked>>
    /\ job' = [job EXCEPT ![j].pc = "register", ![j].snap = Nil]
    /\ UNCHANGED <<table, defaulted, probeVars, metricVars>>

\* Hub.Register: a new connection starts with an empty buffer.
Register(j) ==
    /\ job[j].pc = "register"
    /\ LET a == job[j].on
       IN /\ linked' = linked \cup {a}
          /\ queue' = [queue EXCEPT ![a] = <<>>]
          /\ lost' = lost \ {a}
          /\ overtaken' = overtaken \ {a}
    /\ Step(j, "single")
    /\ UNCHANGED <<config, hostVars, metricVars>>

-----------------------------------------------------------------------------
(* SyncSingleAgent and BroadcastTargetSync                                 *)

\* Jobs that have read the targets and have still to send.
Syncing == {j \in Jobs : job[j].pc \in {"collect", "build", "send"}}

\* Where enabled = true, of the whole table.
EnabledTargets ==
    [t \in Targets |-> IF table[t].life = "stored" /\ table[t].enabled
                       THEN IF table[t].noRoute THEN "ping" ELSE "trace"
                       ELSE "off"]

ReadTargets(j) ==
    /\ job[j].pc \in {"single", "broadcast"}
    /\ job' = [job EXCEPT ![j].pc = IF @ = "single" THEN "build" ELSE "collect",
                          ![j].ids = IF job[j].pc = "single" THEN {job[j].on} ELSE {},
                          ![j].seen = EnabledTargets,
                          ![j].older = Syncing]
    /\ UNCHANGED <<hostVars, probeVars, metricVars>>

\* The read fails: nobody is sent anything.
ReadTargetsFails(j) ==
    /\ job[j].pc \in {"single", "broadcast"}
    /\ lost' = lost \cup {a \in linked : job[j].pc = "broadcast" \/ a = job[j].on}
    /\ job' = [job EXCEPT ![j] = [NoJob EXCEPT !.pc = "done"]]
    /\ UNCHANGED <<linked, queue, config, overtaken, hostVars, metricVars>>

\* The ids registered now, under the read lock.
CollectIDs(j) ==
    /\ job[j].pc = "collect"
    /\ LET ids == linked
       IN job' = IF ids = {} THEN [job EXCEPT ![j] = [NoJob EXCEPT !.pc = "done"]]
                             ELSE [job EXCEPT ![j].pc = "build", ![j].ids = ids]
    /\ UNCHANGED <<hostVars, probeVars, metricVars>>

\* buildTargetConfigsWithOverrides.
WithOverrides(seen, r) ==
    [t \in Targets |-> IF t \in r.paused THEN "off"
                       ELSE IF t \in r.noRoute /\ seen[t] = "trace" THEN "ping"
                       ELSE seen[t]]

\* Mutant: the overrides are left to the probe's next sync.
BuildPlain(j, a) ==
    /\ job[j].pc = "build" /\ a \in job[j].ids
    /\ job' = [job EXCEPT ![j].pc = "send", ![j].on = a, ![j].list = job[j].seen]
    /\ UNCHANGED <<hostVars, probeVars, metricVars>>

\* buildTargetConfigs reads the overrides of one probe.
Build(j, a) ==
    /\ job[j].pc = "build" /\ a \in job[j].ids
    /\ job' = [job EXCEPT ![j].pc = "send", ![j].on = a,
                          ![j].list = WithOverrides(job[j].seen, over[a]),
                          ![j].seen = IF job[j].ids = {a} THEN AllOff ELSE @]
    /\ UNCHANGED <<hostVars, probeVars, metricVars>>

\* The read fails: the list is sent without overrides, as bad as an old one.
BuildBlind(j, a) ==
    /\ job[j].pc = "build" /\ a \in job[j].ids
    /\ job' = [job EXCEPT ![j].pc = "send", ![j].on = a, ![j].list = job[j].seen, ![j].behind = TRUE,
                          ![j].seen = IF job[j].ids = {a} THEN AllOff ELSE @]
    /\ UNCHANGED <<hostVars, probeVars, metricVars>>

\* SendToAgent: to the connection registered now, or to nobody; ok says whether
\* its buffer has room.
SendList(j, ok) ==
    /\ job[j].pc = "send"
    /\ LET a == job[j].on
           rest == job[j].ids \ {a}
       IN /\ IF a \notin linked
             THEN ok /\ UNCHANGED <<queue, lost, overtaken>>
             ELSE /\ queue' = IF ok THEN [queue EXCEPT ![a] = Append(@, job[j].list)] ELSE queue
                  /\ lost' = IF ok THEN lost ELSE lost \cup {a}
                  /\ overtaken' = IF job[j].behind THEN overtaken \cup {a} ELSE overtaken
          /\ job' = [k \in Jobs |->
                       IF k = j THEN IF rest = {} THEN [NoJob EXCEPT !.pc = "done"]
                                     ELSE [job[j] EXCEPT !.pc = "build", !.ids = rest]
                       ELSE IF k \in job[j].older /\ k \in Syncing THEN [job[k] EXCEPT !.behind = TRUE]
                       ELSE job[k]]
    /\ UNCHANGED <<linked, config, hostVars, metricVars>>

-----------------------------------------------------------------------------
(* The probe and its link                                                  *)

Apply(a) ==
    /\ queue[a] # <<>>
    /\ config' = [config EXCEPT ![a] = Head(queue[a])]
    /\ queue' = [queue EXCEPT ![a] = Tail(@)]
    /\ UNCHANGED <<linked, lost, overtaken, job, hostVars, metricVars>>

\* The connection ends and what it still carried is gone.
LoseLink(a) ==
    /\ a \in linked
    /\ linked' = linked \ {a}
    /\ queue' = [queue EXCEPT ![a] = <<>>]
    /\ lost' = lost \ {a} /\ overtaken' = overtaken \ {a}
    /\ UNCHANGED <<config, job, hostVars, metricVars>>

-----------------------------------------------------------------------------
(* persistPingReport and StartRetentionCleaner                             *)

\* The probe's clock may be wrong by days or by years.
Stamps == {"recent", "astray"}

\* Mutant: the probe's timestamp is stored as it came.
StampKept(s) == s

\* A timestamp more than 5 minutes ahead or 48 hours old is replaced by now.
Stamp(s) == IF s = "astray" THEN "recent" ELSE s

\* A report arrives, maybe of a target the probe should no longer have: results
\* of targets that are not enabled now are dropped.
ReceiveReport(a, t, s) ==
    /\ a \in linked /\ report[a] = Nil
    /\ EnabledTargets[t] # "off"
    /\ report' = [report EXCEPT ![a] = [target |-> t, stamp |-> Stamp(s)]]
    /\ UNCHANGED <<job, metrics, hostVars, probeVars>>

InsertMetrics(a) ==
    /\ report[a] # Nil
    /\ metrics' = [metrics EXCEPT ![report[a].target] = @ \cup {report[a].stamp}]
    /\ report' = [report EXCEPT ![a] = Nil]
    /\ UNCHANGED <<job, hostVars, probeVars>>

\* The retention cleaner deletes the rows whose timestamp has become old; one far
\* ahead would not become so.
Prune(t) ==
    /\ "recent" \in metrics[t]
    /\ metrics' = [metrics EXCEPT ![t] = @ \ {"recent"}]
    /\ UNCHANGED <<report, job, hostVars, probeVars>>

-----------------------------------------------------------------------------
\* What a probe should do, by the tables.
Desired(a) == WithOverrides(EnabledTargets, over[a])

Init ==
    /\ table \in [Targets -> {[life |-> l, enabled |-> TRUE, noRoute |-> FALSE] : l \in {"unborn", "stored"}}]
    /\ over = [a \in Agents |-> [noRoute |-> {}, paused |-> {}]]
    /\ linked = Agents
    /\ queue = [a \in Agents |-> <<>>]
    /\ config = [a \in Agents |-> Desired(a)]
    /\ job = [j \in Jobs |-> NoJob]
    /\ report = [a \in Agents |-> Nil]
    /\ metrics = [t \in Targets |-> {}]
    /\ asked = [r \in Rows |-> IF r \in Targets THEN table[r] ELSE over[r]]
    /\ overlapped = {} /\ defaulted = {} /\ lost = {} /\ overtaken = {}

\* What the goroutine of a job does once it has begun.
JobStep(j) ==
    \/ \E c \in Updates : UpdateSave(j, c)
    \/ SaveFails(j) \/ PurgeMetrics(j)
    \/ \E e \in Edits : EditSave(j, e[1], e[2])
    \/ ConnectSave(j) \/ Register(j)
    \/ ReadTargets(j) \/ ReadTargetsFails(j) \/ CollectIDs(j)
    \/ \E a \in Agents : Build(j, a) \/ BuildBlind(j, a)
    \/ \E ok \in BOOLEAN : SendList(j, ok)

Begin(j) ==
    \/ \E t \in Targets : \/ "create" \in May[j] /\ \E c \in Creations : CreateTarget(j, t, c)
                          \/ "update" \in May[j] /\ UpdateLoad(j, t)
                          \/ "delete" \in May[j] /\ DeleteTarget(j, t)
    \/ \E a \in Agents : \/ "edit" \in May[j] /\ EditLoad(j, a)
                         \/ "connect" \in May[j] /\ Connect(j, a)

Next ==
    \/ \E j \in Jobs : Begin(j) \/ JobStep(j)
    \/ \E a \in Agents :
          \/ Apply(a) \/ LoseLink(a) \/ InsertMetrics(a)
          \/ \E t \in Targets, s \in Stamps : ReceiveReport(a, t, s)
    \/ \E t \in Targets : Prune(t)

Spec == Init /\ [][Next]_vars

\* A report that is being persisted gets there, and the cleaner comes round.
Fairness ==
    /\ \A a \in Agents : WF_vars(InsertMetrics(a))
    /\ \A t \in Targets : WF_vars(Prune(t))

FairSpec == Spec /\ Fairness

-----------------------------------------------------------------------------
(* Properties                                                              *)

\* Types of the variables.
TypeOK ==
    /\ table \in [Targets -> TargetRow]
    /\ over \in [Agents -> OverrideRow]
    /\ linked \in SUBSET Agents
    /\ queue \in [Agents -> Seq(List)]
    /\ config \in [Agents -> List]
    /\ job \in [Jobs -> Job]
    /\ metrics \in [Targets -> SUBSET Stamps]
    /\ asked \in [Rows -> TargetRow \cup OverrideRow]
    /\ \A r \in Rows : asked[r] \in IF r \in Targets THEN TargetRow ELSE OverrideRow
    /\ overlapped \in SUBSET Rows
    /\ defaulted \in SUBSET Targets
    /\ lost \in SUBSET Agents
    /\ overtaken \in SUBSET Agents
    /\ report \in [Agents -> [target : Targets, stamp : Stamps] \cup {Nil}]

\* No request and no handshake is under way.
Quiet == \A j \in Jobs : job[j].pc \in {"idle", "done"}

\* "A paused target is omitted from the sync entirely: the probe then stops"
\* (hub.go).  Once the requests are answered and its queue is empty a connected
\* probe works by the tables as they are, unless a full buffer or a failed read
\* cost it a sync or its overrides, or a list read earlier was sent after a newer
\* one; a reconnect heals all of these.
ProbeFollowsTables ==
    Quiet => \A a \in Agents :
        (a \in linked /\ queue[a] = <<>> /\ a \notin lost \cup overtaken) => config[a] = Desired(a)

\* What the requests meant, going by the row that is stored.
Meant(r) ==
    IF r \in defaulted THEN [table[r] EXCEPT !.enabled = FALSE]
    ELSE IF r \in Targets THEN table[r] ELSE over[r]

\* "a caller that only edits one override never blanks the others"
\* (admin_agents.go), and the same for a target's columns: a row is what the
\* requests made of it, unless one saved it while another request or a handshake
\* held an older copy.  One column departs from that: a target created with
\* enabled false is stored enabled, until an update says which it is
\* (adminCreateTarget, and the default of models.go).
TablesFollowAdmins == \A r \in Rows \ overlapped : asked[r] = Meant(r)

\* Every column of a created target is as the request had it.
CreatedAsAsked == \A t \in Targets \ overlapped : asked[t] = table[t]

\* "Clean up associated historical metrics to prevent orphan rows"
\* (admin_targets.go): a deletion may miss the rows of a report that is being
\* persisted, but none outlive the retention period.
OrphansCleaned ==
    \A t \in Targets : <>[](table[t].life = "gone") => <>[](metrics[t] = {})

-----------------------------------------------------------------------------
(* The inductive invariant                                                 *)

\* What a job holds at each step.
JobOK(j) ==
    /\ job[j].pc = "update" =>
          job[j].on \in Targets /\ job[j].snap \in TargetRow /\ job[j].snap.life = "stored"
    /\ job[j].pc \in {"edit", "loaded"} => job[j].on \in Agents /\ job[j].snap \in OverrideRow
    /\ job[j].pc = "purge" => job[j].on \in Targets
    /\ job[j].pc \in {"register", "single"} => job[j].on \in Agents
    /\ job[j].pc = "send" => job[j].on \in job[j].ids
    /\ j \notin Syncing => job[j].older = {} /\ ~job[j].behind

JobsOK == \A j \in Jobs : JobOK(j)

\* The copy a request has loaded is the row, unless another one has saved it since.
SnapCurrent(j) ==
    job[j].on \notin overlapped =>
        /\ job[j].pc = "update" => job[j].snap = table[job[j].on]
        /\ job[j].pc \in {"edit", "loaded"} => job[j].snap = over[job[j].on]

SnapsCurrent == \A j \in Jobs : SnapCurrent(j)

AdminInv == TypeOK /\ JobsOK /\ SnapsCurrent /\ TablesFollowAdmins

\* Job j will read the targets for probe a.
WillRead(j, a) ==
    \/ job[j].pc \in {"purge", "broadcast"}
    \/ job[j].pc \in {"register", "single"} /\ job[j].on = a

\* It has read them and will send them to a; what it has read is what a should do.
Serves(j, a) ==
    \/ job[j].pc = "collect"
    \/ job[j].pc \in {"build", "send"} /\ a \in job[j].ids

Fresh(j, a) ==
    /\ Serves(j, a)
    /\ IF job[j].pc = "send" /\ job[j].on = a THEN job[j].list = Desired(a)
       ELSE job[j].seen = EnabledTargets

\* The last list on its way to a, or the one it has.
Latest(a) == IF queue[a] = <<>> THEN config[a] ELSE queue[a][Len(queue[a])]

\* Probe a has the tables' list, or gets it; and whoever sends it an old one does so
\* before a job that read the targets later.
Served(a) ==
    /\ Latest(a) = Desired(a) \/ \E j \in Jobs : WillRead(j, a) \/ Fresh(j, a)
    /\ \A k \in Jobs : Serves(k, a) /\ ~Fresh(k, a) =>
          \E j \in Jobs : WillRead(j, a) \/ (Fresh(j, a) /\ k \in job[j].older)

\* A list that was overtaken, or lacks the overrides, will be sent to a.
Doomed(a) == \E j \in Jobs : Serves(j, a) /\ job[j].behind

SyncsCover == \A a \in linked \ (lost \cup overtaken) : Served(a) \/ Doomed(a)

SyncInv == TypeOK /\ JobsOK /\ SyncsCover
=============================================================================
