--------------------------- MODULE TargetScheduler ---------------------------
(***************************************************************************)
(* The probe's scheduler (agent/cmd/agent/scheduler.go): a ping worker per *)
(* target, replaced by every target_sync, and one goroutine that traces    *)
(* routes, one target after another.                                       *)
(*                                                                         *)
(* Goroutines.  SyncTargets runs on the connection's read loop; a worker   *)
(* is named by the sync that started it and its target; trace is the       *)
(* traceroute loop.  A step is one critical section of s.mu or one channel *)
(* operation.                                                              *)
(*                                                                         *)
(* Abstractions.  A target's configuration is what the scheduler branches  *)
(* on: absent, or present with or without route tracing.  The thirty       *)
(* minutes since a target's last trace are a flag that may fall at any     *)
(* time.  The latency detector (LatencyShift) may report a shift on any    *)
(* ping that was answered; the tracer is RouteTrace.  Every host answers   *)
(* every packet: the only losses are those the probe makes itself.         *)
(***************************************************************************)
EXTENDS Naturals, Sequences, FiniteSets

CONSTANTS
    Targets,
    MaxSyncs,    \* bound: target_sync messages received
    ShiftQueue,  \* capacity of shiftTriggers, 64 in the code
    WindowSize,  \* samples a TargetWindow keeps, 20 by default
    Nil

ASSUME SchedulerAssumption ==
    /\ IsFiniteSet(Targets) /\ Nil \notin Targets
    /\ MaxSyncs \in Nat /\ ShiftQueue \in Nat \ {0} /\ WindowSize \in Nat \ {0}

Config == [Targets -> {"absent", "plain", "route"}]
NoTargets == [t \in Targets |-> "absent"]

VARIABLES
    syncs,      \* syncs received: the generation of the running workers
    config,     \* s.targets
    given,      \* the configuration each running worker was started with
    worker,     \* runTargetLoop of each generation and target
    window,     \* the TargetWindow of a target, which outlives its workers
    trigger,    \* traceTrigger holds a token
    shifts,     \* shiftTriggers
    trace,      \* where runSerialTracerouteLoop is
    left,       \* what it has still to visit of its copy of the list
    current,    \* the target it is tracing
    cooling,    \* targets traced less than MinTraceCooldown ago
    traced,     \* history: targets traced at least once
    stopped     \* s.ctx is cancelled

vars == <<syncs, config, given, worker, window, trigger, shifts, trace, left, current, cooling, traced, stopped>>

Syncs == 1..MaxSyncs

\* Stop and the next sync cancel a worker's context.
Cancelled(g) == g < syncs \/ stopped

-----------------------------------------------------------------------------
\* Mutant: the traceroute loop is not told of the new list.
SyncQuietly(c) ==
    /\ syncs < MaxSyncs
    /\ syncs' = syncs + 1
    /\ config' = c
    /\ given' = [given EXCEPT ![syncs + 1] = c]
    /\ worker' = [worker EXCEPT ![syncs + 1] =
                     [t \in Targets |-> IF c[t] = "absent" THEN "none" ELSE "pinging"]]
    /\ UNCHANGED <<trigger, shifts, trace, left, current, cooling, traced, stopped, window>>

\* Stops the workers of the last sync, starts one per target and leaves a
\* token, unless there is one.
SyncTargets(c) ==
    /\ syncs < MaxSyncs
    /\ syncs' = syncs + 1
    /\ config' = c
    /\ given' = [given EXCEPT ![syncs + 1] = c]
    /\ worker' = [worker EXCEPT ![syncs + 1] =
                     [t \in Targets |-> IF c[t] = "absent" THEN "none" ELSE "pinging"]]
    /\ trigger' = TRUE
    /\ UNCHANGED <<shifts, trace, left, current, cooling, traced, stopped, window>>

\* Stop: cancels the loop's context and every worker.
Stop ==
    /\ ~stopped
    /\ stopped' = TRUE
    /\ UNCHANGED <<syncs, config, given, worker, trigger, shifts, trace, left, current, cooling, traced, window>>

-----------------------------------------------------------------------------
(* runTargetLoop                                                           *)

\* Mutant: a full window keeps the samples it has.
AddKept(w, sample) == IF Len(w) < WindowSize THEN Append(w, sample) ELSE w

\* TargetWindow.Add: the last WindowSize samples.
Add(w, sample) ==
    IF Len(w) < WindowSize THEN Append(w, sample) ELSE Append(Tail(w), sample)

\* PingTargetOnce, whose result goes into the window and the report.  A context
\* that is cancelled before the answer is there ends the ping with an error: a
\* sample like that of a lost packet.
PingEnds(g, t, sample) ==
    /\ worker[g][t] = "pinging"
    /\ worker' = [worker EXCEPT ![g][t] = "waiting"]
    /\ window' = [window EXCEPT ![t] = Add(@, sample)]
    /\ UNCHANGED <<syncs, config, given, trigger, trace, left, current, cooling, traced, stopped>>

PingCut(g, t) ==
    /\ Cancelled(g)
    /\ PingEnds(g, t, "cut")
    /\ UNCHANGED shifts

\* checkLatencyShift may find a shift; a full channel drops it.
PingReported(g, t) ==
    /\ PingEnds(g, t, "ok")
    /\ \/ UNCHANGED shifts
       \/ /\ given[g][t] = "route" /\ Len(shifts) < ShiftQueue
          /\ shifts' = Append(shifts, t)

\* The ticker fires: select may prefer it to a cancelled context.
Tick(g, t) ==
    /\ worker[g][t] = "waiting"
    /\ worker' = [worker EXCEPT ![g][t] = "pinging"]
    /\ UNCHANGED <<syncs, config, given, trigger, shifts, trace, left, current, cooling, traced, stopped, window>>

\* Mutant: a worker of an earlier sync is not cancelled.
WorkerStays(g, t) ==
    /\ worker[g][t] = "waiting" /\ stopped
    /\ worker' = [worker EXCEPT ![g][t] = "none"]
    /\ given' = [given EXCEPT ![g][t] = "absent"]
    /\ UNCHANGED <<syncs, config, trigger, shifts, trace, left, current, cooling, traced, stopped, window>>

WorkerEnds(g, t) ==
    /\ worker[g][t] = "waiting" /\ Cancelled(g)
    /\ worker' = [worker EXCEPT ![g][t] = "none"]
    /\ given' = [given EXCEPT ![g][t] = "absent"]
    /\ UNCHANGED <<syncs, config, trigger, shifts, trace, left, current, cooling, traced, stopped, window>>

-----------------------------------------------------------------------------
(* runSerialTracerouteLoop                                                 *)

\* executeSerialTraces copies the list and returns if it is empty.
CopyTargets ==
    /\ trace' = IF config = NoTargets THEN "idle" ELSE "serial"
    /\ left' = config

GraceOver ==
    /\ trace = "grace" /\ ~stopped
    /\ CopyTargets
    /\ UNCHANGED <<syncs, config, given, worker, trigger, shifts, current, cooling, traced, stopped, window>>

Triggered ==
    /\ trace \in {"grace", "idle"} /\ trigger
    /\ trigger' = FALSE
    /\ CopyTargets
    /\ UNCHANGED <<syncs, config, given, worker, shifts, current, cooling, traced, stopped, window>>

\* The twelve-hour ticker.
Periodic ==
    /\ trace = "idle"
    /\ CopyTargets
    /\ UNCHANGED <<syncs, config, given, worker, trigger, shifts, current, cooling, traced, stopped, window>>

SerialSkip(t) ==
    /\ trace = "serial" /\ ~stopped
    /\ left[t] = "plain" \/ (left[t] = "route" /\ t \in cooling)
    /\ left' = [left EXCEPT ![t] = "absent"]
    /\ UNCHANGED <<syncs, config, given, worker, trigger, shifts, trace, current, cooling, traced, stopped, window>>

SerialTrace(t) ==
    /\ trace = "serial" /\ ~stopped
    /\ left[t] = "route" /\ t \notin cooling
    /\ left' = [left EXCEPT ![t] = "absent"]
    /\ trace' = "tracing" /\ current' = t
    /\ UNCHANGED <<syncs, config, given, worker, trigger, shifts, cooling, traced, stopped, window>>

SerialEnd ==
    /\ trace = "serial" /\ left = NoTargets
    /\ trace' = "idle"
    /\ UNCHANGED <<syncs, config, given, worker, trigger, shifts, left, current, cooling, traced, stopped, window>>

\* executeSingleShiftTrace looks the target up in the list of now.
ShiftSkip ==
    /\ trace = "idle" /\ shifts # <<>>
    /\ config[Head(shifts)] # "route" \/ Head(shifts) \in cooling
    /\ shifts' = Tail(shifts)
    /\ UNCHANGED <<syncs, config, given, worker, trigger, trace, left, current, cooling, traced, stopped, window>>

ShiftTrace ==
    /\ trace = "idle" /\ shifts # <<>>
    /\ config[Head(shifts)] = "route" /\ Head(shifts) \notin cooling
    /\ shifts' = Tail(shifts)
    /\ trace' = "shift" /\ current' = Head(shifts)
    /\ UNCHANGED <<syncs, config, given, worker, trigger, left, cooling, traced, stopped, window>>

\* The trace is reported and lastTracedAt set.
TraceDone ==
    /\ trace \in {"tracing", "shift"}
    /\ trace' = IF trace = "shift" THEN "idle" ELSE "serial"
    /\ cooling' = cooling \cup {current} /\ traced' = traced \cup {current}
    /\ current' = Nil
    /\ UNCHANGED <<syncs, config, given, worker, trigger, shifts, left, stopped, window>>

\* ctx.Done.
TraceLoopEnds ==
    /\ trace \in {"grace", "idle", "serial"} /\ stopped
    /\ trace' = "ended" /\ left' = NoTargets
    /\ UNCHANGED <<syncs, config, given, worker, trigger, shifts, current, cooling, traced, stopped, window>>

\* Thirty minutes have passed since the target's last trace.
CooldownOver(t) ==
    /\ t \in cooling
    /\ cooling' = cooling \ {t}
    /\ UNCHANGED <<syncs, config, given, worker, trigger, shifts, trace, left, current, traced, stopped, window>>

-----------------------------------------------------------------------------
Init ==
    /\ syncs = 0 /\ config = NoTargets
    /\ given = [g \in Syncs |-> NoTargets]
    /\ worker = [g \in Syncs |-> [t \in Targets |-> "none"]]
    /\ window = [t \in Targets |-> <<>>]
    /\ trigger = FALSE /\ shifts = <<>>
    /\ trace = "grace" /\ left = NoTargets /\ current = Nil
    /\ cooling = {} /\ traced = {} /\ stopped = FALSE

TraceLoop ==
    \/ GraceOver \/ Triggered \/ SerialEnd \/ ShiftSkip \/ ShiftTrace \/ TraceDone \/ TraceLoopEnds
    \/ \E t \in Targets : SerialSkip(t) \/ SerialTrace(t)

WorkerStep(g, t) == PingReported(g, t) \/ PingCut(g, t) \/ Tick(g, t) \/ WorkerEnds(g, t)

Next ==
    \/ \E c \in Config : SyncTargets(c)
    \/ Stop
    \/ \E g \in Syncs, t \in Targets : WorkerStep(g, t)
    \/ TraceLoop
    \/ Periodic
    \/ \E t \in Targets : CooldownOver(t)

Spec == Init /\ [][Next]_vars

\* Goroutines run and a worker's ticker fires; select chooses at random among its
\* ready cases, so neither a token nor a cancelled context is passed over for
\* ever.  Nothing is assumed of the twelve-hour ticker, the host or the detector.
Fairness ==
    /\ WF_vars(TraceLoop) /\ SF_vars(Triggered)
    /\ \A g \in Syncs, t \in Targets : WF_vars(WorkerStep(g, t)) /\ SF_vars(WorkerEnds(g, t))

FairSpec == Spec /\ Fairness

-----------------------------------------------------------------------------
(* Properties                                                              *)

\* Types of the variables.
TypeOK ==
    /\ syncs \in 0..MaxSyncs /\ config \in Config /\ given \in [Syncs -> Config]
    /\ worker \in [Syncs -> [Targets -> {"none", "pinging", "waiting"}]]
    /\ \A t \in Targets : window[t] \in Seq({"ok", "cut"}) /\ Len(window[t]) <= WindowSize
    /\ trigger \in BOOLEAN /\ stopped \in BOOLEAN
    /\ shifts \in Seq(Targets) /\ Len(shifts) <= ShiftQueue
    /\ trace \in {"grace", "idle", "serial", "tracing", "shift", "ended"}
    /\ left \in Config /\ current \in Targets \cup {Nil}
    /\ cooling \in SUBSET Targets /\ traced \in SUBSET Targets

\* The traceroute loop follows the list, whatever it was doing when the syncs came
\* and however many of them share one token: a target that stays on it with route
\* tracing is traced, and one that is gone for good is not traced for ever, though
\* a serial pass works on an old copy.
TracingFollowsList ==
    \A t \in Targets :
        /\ <>[](config[t] = "route" /\ ~stopped) => <>(t \in traced)
        /\ <>[](config[t] = "absent") => <>[](current # t)

\* A sync cancels the ping of a worker it replaces, and the window counts it as a
\* lost packet; a target that stays on the list sheds such losses again.
LossHeals ==
    \A t \in Targets :
        <>[](config[t] # "absent" /\ ~stopped)
            => <>[](\A i \in DOMAIN window[t] : window[t][i] = "ok")

\* The workers of an earlier sync end: a target is not pinged by two workers
\* for ever, and a paused one is not pinged for ever.
StaleWorkersEnd ==
    \A g \in Syncs, t \in Targets : Cancelled(g) ~> (Cancelled(g) /\ worker[g][t] = "none")

-----------------------------------------------------------------------------
(* What a comment of the code promises, and the code does not keep.        *)

\* "A paused target is omitted from the sync entirely: the probe then stops
\* both pinging and route-tracing it until the pause is lifted" (hub.go): no
\* trace of a target starts while the list does not have it.
PausedNotTraced ==
    [][\A t \in Targets : (current # t /\ current' = t) => config[t] # "absent"]_vars
=============================================================================
