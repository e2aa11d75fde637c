----------------------------- MODULE AgentClient -----------------------------
(***************************************************************************)
(* The probe's connection loop and its queue of ping reports               *)
(* (agent/internal/client/loop.go, queue.go, client.go).                   *)
(*                                                                         *)
(* Goroutines.  connectionLoop moves cpc; a target's worker that calls     *)
(* QueueReport moves call[p].  queueMu is held across the whole of         *)
(* QueueReport and of flushQueuedReports, and a send or a look at the      *)
(* connection in between takes c.mu: each such section is one step.        *)
(*                                                                         *)
(* Abstractions.  A report is a name.  A connection is a number; one that  *)
(* is no longer alive may still accept a write before it fails.  Backoff   *)
(* is a step that may take any time.  Heartbeats, traceroute reports (sent *)
(* or dropped, never queued) and the messages of the host are left out.    *)
(***************************************************************************)
EXTENDS Naturals, Sequences, FiniteSets

CONSTANTS
    Reports,    \* ping reports, each handed to QueueReport once
    Workers,    \* target workers that may call QueueReport at once
    QueueSize,  \* 500 in the code
    MaxConns,   \* bound: dials of the probe
    Nil

ASSUME ClientAssumption ==
    /\ IsFiniteSet(Reports) /\ IsFiniteSet(Workers)
    /\ QueueSize \in Nat \ {0} /\ MaxConns \in Nat
    /\ Nil \notin Reports \cup Workers \cup {"flush"} /\ "flush" \notin Workers

VARIABLES
    cpc,      \* connectionLoop and connectAndServe
    conn,     \* c.conn, 0 when nil
    dialed,   \* dials so far
    alive,    \* the current connection still reaches the host
    online,   \* c.online
    queue,    \* c.reportQueue
    todo,     \* reports flushQueuedReports has still to try
    kept,     \* its remaining slice
    holder,   \* who holds queueMu: a worker, "flush" or Nil
    call,     \* the QueueReport calls
    fresh,    \* reports not produced yet
    written,  \* history: reports a send returned nil for
    evicted,  \* history: reports dropped by the full queue
    stopped   \* c.stopCh is closed

vars == <<cpc, conn, dialed, alive, online, queue, todo, kept, holder, call, fresh, written,
          evicted, stopped>>

Elems(s) == {s[i] : i \in DOMAIN s}

\* sendEnvelope: an error without a connection; a write on a connection that
\* is not alive may succeed or fail.
SendOK == conn # 0
SendFails == conn = 0 \/ ~alive

-----------------------------------------------------------------------------
(* connectionLoop and connectAndServe                                      *)

\* The loop looks at stopCh, then dials: Stop may come in between.
DialBegin ==
    /\ cpc = "retry" /\ ~stopped /\ dialed < MaxConns
    /\ dialed' = dialed + 1
    /\ cpc' = "dialing"
    /\ UNCHANGED <<conn, alive, online, queue, todo, kept, holder, call, fresh, written, evicted,
                   stopped>>

Dialed ==
    /\ cpc = "dialing"
    /\ conn' = dialed /\ alive' = TRUE /\ online' = FALSE
    /\ cpc' = "registering"
    /\ UNCHANGED <<dialed, queue, todo, kept, holder, call, fresh, written, evicted, stopped>>

DialFails ==
    /\ cpc = "dialing"
    /\ cpc' = "retry"
    /\ UNCHANGED <<conn, dialed, alive, online, queue, todo, kept, holder, call, fresh, written,
                   evicted, stopped>>

RegisterFails ==
    /\ cpc = "registering"
    /\ cpc' = "teardown"
    /\ UNCHANGED <<conn, dialed, alive, online, queue, todo, kept, holder, call, fresh, written,
                   evicted, stopped>>

Registered ==
    /\ cpc = "registering" /\ alive
    /\ online' = TRUE
    /\ cpc' = "registered"
    /\ UNCHANGED <<conn, dialed, alive, queue, todo, kept, holder, call, fresh, written, evicted,
                   stopped>>

\* flushQueuedReports: an empty queue returns at once.
FlushBegin ==
    /\ cpc = "registered" /\ holder = Nil
    /\ IF queue = <<>>
       THEN cpc' = "serving" /\ UNCHANGED <<todo, kept, holder>>
       ELSE /\ cpc' = "flushing"
            /\ holder' = "flush" /\ todo' = queue /\ kept' = <<>>
    /\ UNCHANGED <<conn, dialed, alive, online, queue, call, fresh, written, evicted, stopped>>

FlushOne ==
    /\ cpc = "flushing" /\ todo # <<>>
    /\ todo' = Tail(todo)
    /\ \/ SendOK /\ written' = written \cup {Head(todo)} /\ UNCHANGED kept
       \/ SendFails /\ kept' = Append(kept, Head(todo)) /\ UNCHANGED written
    /\ UNCHANGED <<cpc, conn, dialed, alive, online, queue, holder, call, fresh, evicted, stopped>>

\* Mutant: the queue is not replaced by what remains.
FlushForgets ==
    /\ cpc = "flushing" /\ todo = <<>>
    /\ kept' = <<>> /\ holder' = Nil
    /\ cpc' = "serving"
    /\ UNCHANGED <<conn, dialed, alive, online, queue, todo, call, fresh, written, evicted, stopped>>

FlushEnd ==
    /\ cpc = "flushing" /\ todo = <<>>
    /\ queue' = kept /\ kept' = <<>> /\ holder' = Nil
    /\ cpc' = "serving"
    /\ UNCHANGED <<conn, dialed, alive, online, todo, call, fresh, written, evicted, stopped>>

\* Mutant: the read loop goes on after an error.
ReadOn ==
    /\ cpc = "serving" /\ ~alive
    /\ UNCHANGED vars

\* ReadJSON fails: the deferred function runs.
ReadFails ==
    /\ cpc = "serving" /\ ~alive
    /\ cpc' = "teardown"
    /\ UNCHANGED <<conn, dialed, alive, online, queue, todo, kept, holder, call, fresh, written,
                   evicted, stopped>>

Teardown ==
    /\ cpc = "teardown"
    /\ online' = FALSE /\ conn' = 0 /\ alive' = FALSE
    /\ cpc' = IF stopped THEN "stopped" ELSE "retry"
    /\ UNCHANGED <<dialed, queue, todo, kept, holder, call, fresh, written, evicted, stopped>>

\* The loop finds stopCh closed in its backoff.
LoopEnds ==
    /\ cpc = "retry" /\ stopped
    /\ cpc' = "stopped"
    /\ UNCHANGED <<conn, dialed, alive, online, queue, todo, kept, holder, call, fresh, written,
                   evicted, stopped>>

\* Client.Stop: closes the connection there is now.
Stop ==
    /\ ~stopped
    /\ stopped' = TRUE /\ alive' = FALSE
    /\ UNCHANGED <<cpc, conn, dialed, online, queue, todo, kept, holder, call, fresh, written, evicted>>

LinkFails ==
    /\ alive
    /\ alive' = FALSE
    /\ UNCHANGED <<cpc, conn, dialed, online, queue, todo, kept, holder, call, fresh, written,
                   evicted, stopped>>

-----------------------------------------------------------------------------
(* QueueReport                                                             *)

\* A worker has a result.
Report(p, r) ==
    /\ call[p].step = "idle" /\ r \in fresh
    /\ fresh' = fresh \ {r}
    /\ call' = [call EXCEPT ![p] = [step |-> "locking", report |-> r]]
    /\ UNCHANGED <<cpc, conn, dialed, alive, online, queue, todo, kept, holder, written, evicted,
                   stopped>>

\* Mutant: looks at the connection before it takes queueMu.
LookFirst(p) ==
    /\ call[p].step = "locking"
    /\ call' = [call EXCEPT ![p].step = IF online /\ conn # 0 THEN "sending" ELSE "storing"]
    /\ UNCHANGED <<cpc, conn, dialed, alive, online, queue, todo, kept, holder, fresh, written,
                   evicted, stopped>>

\* queueMu, then the state of the connection under c.mu.
LockAndLook(p) ==
    /\ call[p].step = "locking" /\ holder = Nil
    /\ holder' = p
    /\ call' = [call EXCEPT ![p].step = IF online /\ conn # 0 THEN "sending" ELSE "storing"]
    /\ UNCHANGED <<cpc, conn, dialed, alive, online, queue, todo, kept, fresh, written, evicted,
                   stopped>>

Returned == [step |-> "idle", report |-> Nil]

ReportSent(p) ==
    /\ call[p].step = "sending" /\ SendOK
    /\ written' = written \cup {call[p].report}
    /\ call' = [call EXCEPT ![p] = Returned]
    /\ holder' = Nil
    /\ UNCHANGED <<cpc, conn, dialed, alive, online, queue, todo, kept, fresh, evicted, stopped>>

ReportUnsent(p) ==
    /\ call[p].step = "sending" /\ SendFails
    /\ call' = [call EXCEPT ![p].step = "storing"]
    /\ UNCHANGED <<cpc, conn, dialed, alive, online, queue, todo, kept, holder, fresh, written,
                   evicted, stopped>>

\* A full queue drops its oldest report.
ReportStored(p) ==
    /\ call[p].step = "storing"
    /\ IF Len(queue) >= QueueSize
       THEN /\ queue' = Append(Tail(queue), call[p].report)
            /\ evicted' = evicted \cup {Head(queue)}
       ELSE queue' = Append(queue, call[p].report) /\ UNCHANGED evicted
    /\ call' = [call EXCEPT ![p] = Returned]
    /\ holder' = Nil
    /\ UNCHANGED <<cpc, conn, dialed, alive, online, todo, kept, fresh, written, stopped>>

-----------------------------------------------------------------------------
Init ==
    /\ cpc = "retry" /\ conn = 0 /\ dialed = 0 /\ alive = FALSE /\ online = FALSE
    /\ queue = <<>> /\ todo = <<>> /\ kept = <<>> /\ holder = Nil
    /\ call = [p \in Workers |-> Returned]
    /\ fresh = Reports /\ written = {} /\ evicted = {} /\ stopped = FALSE

Loop ==
    \/ DialBegin \/ Dialed \/ DialFails \/ RegisterFails \/ Registered \/ FlushBegin \/ FlushOne \/ FlushEnd
    \/ ReadFails \/ Teardown \/ LoopEnds

QueueReport(p) ==
    LockAndLook(p) \/ ReportSent(p) \/ ReportUnsent(p) \/ ReportStored(p)

Next ==
    \/ Loop
    \/ Stop
    \/ LinkFails
    \/ \E p \in Workers : QueueReport(p) \/ (\E r \in Reports : Report(p, r))

Spec == Init /\ [][Next]_vars

\* The loop keeps dialing and every goroutine runs; a QueueReport call takes
\* queueMu at some time (Go's mutex does not starve its waiters), and so does
\* the flush.
Fairness ==
    /\ WF_vars(Loop) /\ SF_vars(FlushBegin)
    /\ \A p \in Workers : WF_vars(QueueReport(p)) /\ SF_vars(LockAndLook(p))

FairSpec == Spec /\ Fairness

-----------------------------------------------------------------------------
(* Properties                                                              *)

\* Types of the variables, and the bound of the queue.
TypeOK ==
    /\ cpc \in {"retry", "dialing", "registering", "registered", "flushing", "serving", "teardown", "stopped"}
    /\ dialed \in 0..MaxConns /\ conn \in 0..MaxConns
    /\ alive \in BOOLEAN /\ online \in BOOLEAN /\ stopped \in BOOLEAN
    /\ queue \in Seq(Reports) /\ Len(queue) <= QueueSize
    /\ todo \in Seq(Reports) /\ kept \in Seq(Reports)
    /\ holder \in Workers \cup {"flush", Nil}
    /\ call \in [Workers -> [step : {"idle", "locking", "sending", "storing"},
                             report : Reports \cup {Nil}]]
    /\ fresh \in SUBSET Reports /\ written \in SUBSET Reports /\ evicted \in SUBSET Reports

\* Where the unsent reports are: the queue, or what a flush has left of it.
Pending == IF cpc = "flushing" THEN kept \o todo ELSE queue

\* Reports are neither lost nor sent twice: each is still to be produced, in a
\* worker's hands, waiting, written, or dropped by the full queue, and only one
\* of them, through any sequence of failed sends and reconnects.
Conserved ==
    \A r \in Reports :
        Cardinality({x \in {"fresh", "written", "evicted"} :
                        r \in CASE x = "fresh" -> fresh [] x = "written" -> written
                                [] x = "evicted" -> evicted})
        + Cardinality({p \in Workers : call[p].report = r})
        + Cardinality({i \in DOMAIN Pending : Pending[i] = r}) = 1

\* A report queued while the probe came online is not left behind: a probe
\* that serves a working connection has an empty queue.
NoneStranded == (cpc = "serving" /\ alive) => queue = <<>>

\* A queued report leaves the queue at the next working connection, unless the
\* probe is stopped (or has used the dials of the bound up).
QueueDrains ==
    \A r \in Reports :
        (r \in Elems(queue)) ~> (r \notin Elems(queue) \/ stopped \/ (dialed = MaxConns /\ ~alive))

\* The inductive invariant.  The reports in the hands of QueueReport calls, and
\* those that wait.
Hands == {call[p].report : p \in Workers} \ {Nil}
Waiting == IF cpc = "flushing" THEN Elems(kept) \cup Elems(todo) ELSE Elems(queue)
Distinct(s) == \A i, j \in DOMAIN s : s[i] = s[j] => i = j

\* Every report is in one place.
InOnePlace ==
    /\ Reports = fresh \cup written \cup evicted \cup Hands \cup Waiting
    /\ fresh \cap (written \cup evicted \cup Hands \cup Waiting) = {}
    /\ written \cap (evicted \cup Hands \cup Waiting) = {}
    /\ evicted \cap (Hands \cup Waiting) = {}
    /\ Hands \cap Waiting = {}

\* ... and there only once.
HeldOnce ==
    /\ \A p \in Workers : call[p].step = "idle" <=> call[p].report = Nil
    /\ \A p, q \in Workers : call[p].report = call[q].report /\ call[p].report # Nil => p = q
    /\ Distinct(queue)
    /\ cpc = "flushing" =>
          /\ Distinct(kept) /\ Distinct(todo) /\ Elems(kept) \cap Elems(todo) = {}
          /\ Len(kept) + Len(todo) <= QueueSize

\* queueMu is held by the flush, or by the call that sends or stores.
LockHeld ==
    /\ cpc = "flushing" <=> holder = "flush"
    /\ \A p \in Workers : call[p].step \in {"sending", "storing"} => holder = p

\* A report only stays unsent where the connection is not alive, or where the
\* flush is still to come.
UnsentWhenDead ==
    /\ cpc = "dialing" => dialed # 0
    /\ cpc \in {"registering", "registered", "flushing", "serving"} => conn # 0
    /\ cpc \in {"registered", "flushing", "serving"} => online
    /\ cpc = "flushing" /\ alive => kept = <<>>
    /\ cpc = "serving" /\ alive => \A p \in Workers : call[p].step # "storing"

QueueInv == TypeOK /\ InOnePlace /\ HeldOnce /\ LockHeld /\ UnsentWhenDead /\ NoneStranded
=============================================================================
