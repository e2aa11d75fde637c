---------------------------- MODULE ProbeRestart ----------------------------
(***************************************************************************)
(* How a probe is moved to a new release, from both ends: the Host's       *)
(* forced restart and update check (host/internal/ws/restart.go,           *)
(* update.go, feature/), and on the probe the update goroutines, the       *)
(* executable they replace and the shutdown path of main                   *)
(* (agent/internal/updater/updater.go, agent/cmd/agent/main.go), under a   *)
(* service supervisor that restarts the probe only when it failed.         *)
(*                                                                         *)
(* There is one probe.  Releases are numbered in the order of              *)
(* version.Compare.  A probe may also start as a build that carries no     *)
(* version, made from the source of some release: it does what that        *)
(* release does and reports nothing the Host can compare. Only the hub's   *)
(* current connection is kept: a connection that left the hub is never     *)
(* read again, and what was queued on it is lost. The probe runs on        *)
(* Linux, where the executable is replaced by one rename.                  *)
(***************************************************************************)
EXTENDS Integers, Sequences, FiniteSets

CONSTANTS Hooks,        \* goroutines serving update_check requests
          Timer,        \* the background updater's goroutine
          MaxRelease,   \* releases that are ever published
          Unlabelled,   \* the releases unidentified builds are made from
          CrashMin,     \* first release the malformed sync crashes
          UpdateMin,    \* first release that serves update_check
          SoftMin,      \* first release that serves soft_exit
          SendBuffer,   \* capacity of AgentConn.Send
          MaxAsks       \* update_check requests in one behaviour

Releases == 1 .. MaxRelease
SelfBuilt == {MaxRelease + i : i \in Unlabelled}
Images == Releases \cup SelfBuilt
Updaters == Hooks \cup {Timer}
Messages == {"soft", "crash", "update"}

\* What a file or a download holds besides a release.
NoFile == 0
Partial == -1
Corrupt == -2
Contents == Images \cup {NoFile, Partial, Corrupt}

\* version.IsUnknown: "dev", "unknown" or nothing at all.
Unknown == 0

\* The release an image was made from, and the version it reports.
Source(i) == IF i \in Releases THEN i ELSE i - MaxRelease
Reported(i) == IF i \in Releases THEN i ELSE Unknown

ASSUME RestartConstants ==
    /\ MaxRelease \in Nat \ {0} /\ SendBuffer \in Nat \ {0} /\ MaxAsks \in Nat
    /\ CrashMin \in Nat /\ UpdateMin \in Nat /\ SoftMin \in Nat
    /\ Unlabelled \subseteq Releases
    /\ Timer \notin Hooks

VARIABLES
    \* The Host.
    here,       \* the hub has a connection for the probe
    build,      \* the version that connection registered with
    box,        \* messages queued on it
    wired,      \* its link works
    req,        \* the forced restart being carried out
    asks,       \* update_check requests still to be made
    \* The probe.
    proc,       \* "up", "stopping" (main is past its select) or "down"
    ver,        \* the version the process runs
    linked,     \* the probe takes itself to be connected
    updating,   \* isUpdating
    softExit,   \* softExit
    softHook,   \* the soft exit hook has marked and not yet cancelled
    cancelled,  \* the root context
    goro,       \* the update goroutines
    \* The machine.
    wide,       \* its GOARCH has 64-bit ints; never changes
    disk,       \* what the executable's path holds
    runnable,   \* that file has its execute permission
    execFailed, \* an updated process could not execute the new image
    failed,     \* the process that is down ended with a status other than 0
    signalled,  \* an operator has sent SIGTERM
    restarted,  \* the process has been replaced since the restart was requested
    published   \* the newest release

hostVars == <<here, build, box, wired, req, asks>>
flagVars == <<updating, softExit, softHook, cancelled>>
machineVars == <<wide, disk, runnable, execFailed, failed, signalled, restarted, published>>
restartVars == <<hostVars, proc, ver, linked, flagVars, goro, machineVars>>

Rest == [pc |-> "idle", v |-> 0, tmp |-> NoFile]
NoRequest == [pc |-> "idle", mode |-> "none", out |-> "none",
              gone |-> FALSE,   \* the connection looked up has left the hub
              lost |-> FALSE]   \* an order may not have reached the probe

RestartInit ==
    /\ here = FALSE /\ wired = FALSE /\ build = 0 /\ box = <<>>
    /\ req = NoRequest /\ asks = MaxAsks
    /\ published \in Releases /\ disk \in (1 .. published) \cup SelfBuilt /\ ver = disk
    /\ wide \in BOOLEAN /\ runnable = TRUE /\ execFailed = FALSE
    /\ proc = "up" /\ linked = FALSE
    /\ updating = FALSE /\ softExit = FALSE /\ softHook = FALSE /\ cancelled = FALSE
    /\ goro = [u \in Updaters |-> Rest]
    /\ failed = FALSE /\ signalled = FALSE /\ restarted = FALSE

-----------------------------------------------------------------------------
(* The Host.                                                               *)

\* feature.Supports: a probe that reported no version is taken to serve
\* everything.
Supports(v, first) == v = Unknown \/ v >= first

\* feature.ForceRestartModeFor
ForceRestartMode(v) ==
    IF Supports(v, SoftMin) THEN "soft"
    ELSE IF v >= CrashMin /\ wide THEN "crash" ELSE "unsupported"

\* Hub.SendToAgent looks the connection up by the probe's id: an absent probe
\* is not an error, and a full buffer is.
SendErr == here /\ Len(box) = SendBuffer

SendToAgent(m) == IF here /\ ~SendErr THEN Append(box, m) ELSE box

\* RequestRestart (and one probe's share of BroadcastRestart): the probe is
\* looked up and its route chosen.  A behaviour has one such request.
RestartLook ==
    /\ req.pc = "idle"
    /\ here
    /\ LET mode == ForceRestartMode(build)
       IN req' = [req EXCEPT !.mode = mode,
                             !.pc = IF mode = "unsupported" THEN "done" ELSE "send",
                             !.out = IF mode = "unsupported" THEN mode ELSE "none"]
    /\ UNCHANGED <<here, build, box, wired, asks, proc, ver, linked, flagVars, goro,
                   machineVars>>

\* soft_exit, or the crash for a probe too old for it, is queued on whichever
\* connection the probe has by now, if any, dead or not.
RestartSend ==
    /\ req.pc = "send"
    /\ box' = SendToAgent(req.mode)
    /\ req' = [req EXCEPT
                 !.pc = IF SendErr \/ req.mode = "crash" THEN "done" ELSE "wait",
                 !.out = IF SendErr THEN "failed"
                         ELSE IF req.mode = "crash" THEN "crash" ELSE @,
                 !.lost = @ \/ req.gone \/ ~wired]
    /\ UNCHANGED <<here, build, wired, asks, proc, ver, linked, flagVars, goro, machineVars>>

\* The wait ends because the connection that was asked is torn down.
RestartGone ==
    /\ req.pc = "wait" /\ req.gone
    /\ req' = [req EXCEPT !.pc = "done", !.out = "soft"]
    /\ UNCHANGED <<here, build, box, wired, asks, proc, ver, linked, flagVars, goro,
                   machineVars>>

\* SoftExitEscalationTimeout: the crash is sent.  BroadcastRestart looks at the
\* connection only every softExitPollInterval, so it may be gone by then.
RestartEscalate ==
    /\ req.pc = "wait"
    /\ box' = SendToAgent("crash")
    /\ req' = [req EXCEPT !.pc = "done", !.out = IF SendErr THEN "failed" ELSE "crash"]
    /\ UNCHANGED <<here, build, wired, asks, proc, ver, linked, flagVars, goro, machineVars>>

\* RequestUpdateCheck, and one probe's share of BroadcastUpdateCheck.
UpdateCheck ==
    /\ asks > 0 /\ asks' = asks - 1
    /\ here /\ Supports(build, UpdateMin)
    /\ box' = SendToAgent("update")
    /\ UNCHANGED <<here, build, wired, req, proc, ver, linked, flagVars, goro, machineVars>>

\* The hub lets go of the connection, which closes its Gone channel.
Leaves == [req EXCEPT !.gone = @ \/ req.pc \in {"send", "wait"}]

\* readPump fails on a dead link: Hub.Unregister.
HostNotices ==
    /\ here /\ ~wired
    /\ here' = FALSE /\ build' = 0 /\ box' = <<>>
    /\ req' = Leaves
    /\ UNCHANGED <<wired, asks, proc, ver, linked, flagVars, goro, machineVars>>

-----------------------------------------------------------------------------
(* The probe's connection.                                                 *)

\* The new connection replaces the one the hub may still have.
Connect ==
    /\ proc = "up" /\ ~cancelled /\ ~linked
    /\ here' = TRUE /\ wired' = TRUE /\ linked' = TRUE
    /\ build' = Reported(ver) /\ box' = <<>>
    /\ req' = IF here THEN Leaves ELSE req
    /\ UNCHANGED <<asks, proc, ver, flagVars, goro, machineVars>>

\* A link that dies for any reason but the probe's exit may take a restart
\* order with it.
LinkLost ==
    /\ wired
    /\ wired' = FALSE
    /\ req' = [req EXCEPT !.lost = @ \/ req.pc # "idle"]
    /\ UNCHANGED <<here, build, box, asks, proc, ver, linked, flagVars, goro, machineVars>>

AgentNotices ==
    /\ linked /\ ~wired
    /\ linked' = FALSE
    /\ UNCHANGED <<hostVars, proc, ver, flagVars, goro, machineVars>>

\* What the process leaves behind when it ends: its link is dead and its
\* goroutines are gone, wherever they were.
NoFlags == updating' = FALSE /\ softExit' = FALSE /\ softHook' = FALSE /\ cancelled' = FALSE
Ended ==
    /\ proc' = "down"
    /\ linked' = FALSE /\ wired' = FALSE
    /\ goro' = [u \in Updaters |-> Rest] /\ NoFlags

\* Whether the image has the handler, and whether the malformed sync panics it:
\* a 32-bit probe cannot decode it and drops it.
Serves(i, first) == Source(i) >= first
Panics(i) == Source(i) >= CrashMin /\ wide

\* readLoop takes the next message.  soft_exit and update_check start their
\* hook's goroutine; the malformed sync panics the process.
HandleSoftExit ==
    /\ IF Serves(ver, SoftMin)
       THEN softExit' = TRUE /\ softHook' = TRUE
       ELSE UNCHANGED <<softExit, softHook>>
    /\ UNCHANGED <<proc, wired, linked, updating, cancelled, goro, failed>>

HandleUpdateCheck ==
    /\ IF Serves(ver, UpdateMin)
       THEN \E u \in Hooks : /\ goro[u].pc = "idle"
                             /\ goro' = [goro EXCEPT ![u].pc = "fetch"]
       ELSE UNCHANGED goro
    /\ UNCHANGED <<proc, wired, linked, flagVars, failed>>

\* A mutant: the clamps on the sync's numbers are hardened.
HandleTargetSyncClamped == UNCHANGED <<proc, failed, linked, wired, goro, flagVars>>

HandleTargetSync ==
    IF Panics(ver)
    THEN Ended /\ failed' = TRUE
    ELSE UNCHANGED <<proc, failed, linked, wired, goro, flagVars>>

Receive(m) ==
    /\ proc = "up" /\ wired
    /\ box # <<>> /\ Head(box) = m
    /\ box' = Tail(box)
    /\ CASE m = "soft" -> HandleSoftExit
         [] m = "update" -> HandleUpdateCheck
         [] m = "crash" -> HandleTargetSync
    /\ UNCHANGED <<here, build, req, asks, ver, wide, disk, runnable, execFailed, signalled,
                   restarted, published>>

-----------------------------------------------------------------------------
(* The updater.  An error at any step ends the attempt, and the deferred   *)
(* remove takes the temporary file away.                                   *)

Alive == proc \in {"up", "stopping"}
Set(u, r) == goro' = [goro EXCEPT ![u] = r]
OnlyGoro == UNCHANGED <<hostVars, proc, ver, linked, flagVars, machineVars>>

\* StartAutoUpdate: the first check and every tick after it.
AutoCheck ==
    /\ Alive /\ ~cancelled /\ goro[Timer].pc = "idle"
    /\ Set(Timer, [Rest EXCEPT !.pc = "fetch"])
    /\ OnlyGoro

\* FetchLatestVersion answers with a published tag, not always the newest when
\* it comes from a mirror.  The background check installs a newer one only,
\* RunUpdate any other one; both replace a build that has no version.
NeedsUpdate(u, v) == IF u = Timer THEN v > Reported(ver) ELSE v # Reported(ver)
FetchLatestVersion(u) ==
    /\ Alive /\ goro[u].pc = "fetch"
    /\ \E v \in 1 .. published :
          Set(u, IF NeedsUpdate(u, v) THEN [Rest EXCEPT !.pc = "download", !.v = v]
                                      ELSE Rest)
    /\ OnlyGoro

\* DownloadAndVerify keeps only data that has the published checksum.
Verified(data, v) == data = v
DownloadAndVerify(u) ==
    /\ Alive /\ goro[u].pc = "download"
    /\ \E data \in {goro[u].v, Corrupt} :
          /\ Verified(data, goro[u].v)
          /\ Set(u, [goro[u] EXCEPT !.pc = "write", !.v = data])
    /\ OnlyGoro

\* ReplaceCurrentExecutable: the temporary file is created beside the
\* executable, written, and renamed over it; if that fails it is copied to a
\* second temporary file that is renamed.
CreateTemp(u) ==
    /\ Alive /\ goro[u].pc = "write"
    /\ Set(u, [goro[u] EXCEPT !.pc = "writing", !.tmp = Partial])
    /\ OnlyGoro

\* A mutant: a short write goes unnoticed.
WriteTempUnchecked(u) ==
    /\ Alive /\ goro[u].pc = "writing"
    /\ \E written \in {Partial, goro[u].v} :
          Set(u, [goro[u] EXCEPT !.pc = "rename", !.tmp = written])
    /\ OnlyGoro

WriteTemp(u) ==
    /\ Alive /\ goro[u].pc = "writing"
    /\ Set(u, [goro[u] EXCEPT !.pc = "rename", !.tmp = goro[u].v])
    /\ OnlyGoro

Rename(u) ==
    /\ Alive /\ goro[u].pc = "rename"
    /\ disk' = goro[u].tmp /\ runnable' = TRUE
    /\ Set(u, [Rest EXCEPT !.pc = "installed"])
    /\ UNCHANGED <<hostVars, proc, ver, linked, flagVars, wide, execFailed, failed, signalled,
                   restarted, published>>

RenameFails(u) ==
    /\ Alive /\ goro[u].pc = "rename"
    /\ Set(u, [goro[u] EXCEPT !.pc = "copy"])
    /\ OnlyGoro

\* The copy's chmod may fail, and its error is dropped.
CopyFileAtomic(u) ==
    /\ Alive /\ goro[u].pc = "copy"
    /\ disk' = goro[u].tmp /\ runnable' \in BOOLEAN
    /\ Set(u, [Rest EXCEPT !.pc = "installed"])
    /\ UNCHANGED <<hostVars, proc, ver, linked, flagVars, wide, execFailed, failed, signalled,
                   restarted, published>>

UpdateFails(u) ==
    /\ Alive /\ goro[u].pc \in {"fetch", "download", "write", "writing", "copy"}
    /\ Set(u, Rest)
    /\ OnlyGoro

\* The update hook reports to the Host (best effort) and gives it half a second.
SendUpdateResult(u) ==
    /\ Alive /\ u \in Hooks /\ goro[u].pc = "installed"
    /\ Set(u, [goro[u] EXCEPT !.pc = "told"])
    /\ OnlyGoro

\* A mutant: the context is cancelled and the mark forgotten.
CancelUnmarked(u) ==
    /\ Alive /\ goro[u].pc = IF u = Timer THEN "installed" ELSE "told"
    /\ cancelled' = TRUE
    /\ Set(u, [goro[u] EXCEPT !.pc = "marked"])
    /\ UNCHANGED <<hostVars, proc, ver, linked, updating, softExit, softHook, machineVars>>

\* markUpdating, then cancel: in that order, so that main finds the mark.
MarkUpdating(u) ==
    /\ Alive /\ goro[u].pc = IF u = Timer THEN "installed" ELSE "told"
    /\ updating' = TRUE
    /\ Set(u, [goro[u] EXCEPT !.pc = "marked"])
    /\ UNCHANGED <<hostVars, proc, ver, linked, softExit, softHook, cancelled, machineVars>>

Cancel(u) ==
    /\ Alive /\ goro[u].pc = "marked"
    /\ cancelled' = TRUE
    /\ Set(u, IF u = Timer THEN [Rest EXCEPT !.pc = "ended"] ELSE Rest)
    /\ UNCHANGED <<hostVars, proc, ver, linked, updating, softExit, softHook, machineVars>>

-----------------------------------------------------------------------------
(* main's shutdown path, and what stands around the process.               *)

SoftExitCancels ==
    /\ Alive /\ softHook
    /\ softHook' = FALSE /\ cancelled' = TRUE
    /\ UNCHANGED <<hostVars, proc, ver, linked, updating, softExit, goro, machineVars>>

\* SIGTERM.
Signal ==
    /\ proc = "up" /\ ~signalled
    /\ signalled' = TRUE
    /\ UNCHANGED <<hostVars, proc, ver, linked, flagVars, goro, wide, disk, runnable, execFailed,
                   failed, restarted, published>>

\* main's select returns; the scheduler and the client are stopped, which
\* closes the link.
Shutdown ==
    /\ proc = "up" /\ (cancelled \/ signalled)
    /\ proc' = "stopping" /\ cancelled' = TRUE
    /\ linked' = FALSE /\ wired' = FALSE
    /\ UNCHANGED <<here, build, box, req, asks, ver, updating, softExit, softHook, goro,
                   machineVars>>

\* A new image of the executable runs.
Run ==
    /\ disk \in Images /\ runnable
    /\ proc' = "up" /\ ver' = disk /\ failed' = FALSE
    /\ restarted' = (restarted \/ req.pc # "idle")
    /\ goro' = [u \in Updaters |-> Rest] /\ NoFlags

\* An update was installed: the process executes the new image in its place.
ExecNew ==
    /\ proc = "stopping" /\ updating
    /\ Run
    /\ UNCHANGED <<hostVars, linked, wide, disk, runnable, execFailed, signalled, published>>

\* The executable cannot be found or executed: main drops the error and exits 0.
ExecFails ==
    /\ proc = "stopping" /\ updating
    /\ Ended /\ failed' = FALSE /\ execFailed' = TRUE
    /\ UNCHANGED <<here, build, box, req, asks, ver, wide, disk, runnable, signalled, restarted,
                   published>>

\* Otherwise: status 1 after a soft exit, 0 when main simply returns.
Exit ==
    /\ proc = "stopping" /\ ~updating
    /\ Ended /\ failed' = softExit
    /\ UNCHANGED <<here, build, box, req, asks, ver, wide, disk, runnable, execFailed, signalled,
                   restarted, published>>

\* The process is killed (or panics for a reason of its own).
Killed ==
    /\ Alive
    /\ Ended /\ failed' = TRUE
    /\ UNCHANGED <<here, build, box, req, asks, ver, wide, disk, runnable, execFailed, signalled,
                   restarted, published>>

\* A supervisor that restarts on failure only, and never what an operator
\* stopped.
Supervise ==
    /\ proc = "down" /\ failed /\ ~signalled
    /\ Run
    /\ UNCHANGED <<hostVars, linked, wide, disk, runnable, execFailed, signalled, published>>

Publish ==
    /\ published < MaxRelease
    /\ published' = published + 1
    /\ UNCHANGED <<hostVars, proc, ver, linked, flagVars, goro, wide, disk, runnable, execFailed,
                   failed, signalled, restarted>>

-----------------------------------------------------------------------------
UpdateStep(u) ==
    \/ FetchLatestVersion(u) \/ DownloadAndVerify(u) \/ CreateTemp(u) \/ WriteTemp(u)
    \/ Rename(u) \/ RenameFails(u) \/ CopyFileAtomic(u) \/ UpdateFails(u)
    \/ SendUpdateResult(u) \/ MarkUpdating(u) \/ Cancel(u)

HostStep == RestartSend \/ RestartGone \/ RestartEscalate \/ HostNotices
MainStep == SoftExitCancels \/ Shutdown \/ ExecNew \/ ExecFails \/ Exit

RestartNext ==
    \/ RestartLook \/ UpdateCheck \/ HostStep
    \/ Connect \/ LinkLost \/ AgentNotices
    \/ \E m \in Messages : Receive(m)
    \/ AutoCheck \/ \E u \in Updaters : UpdateStep(u)
    \/ MainStep \/ Signal \/ Killed \/ Supervise \/ Publish

RestartSpec == RestartInit /\ [][RestartNext]_restartVars

\* Goroutines run, a live connection is read, dead links are noticed and the
\* supervisor acts.  Nothing is assumed of the operator, the network, the
\* background updater's timer or the release process.
RestartFairSpec ==
    /\ RestartSpec
    /\ WF_restartVars(HostStep) /\ WF_restartVars(MainStep) /\ WF_restartVars(Supervise)
    /\ WF_restartVars(AgentNotices) /\ WF_restartVars(Connect)
    /\ WF_restartVars(\E m \in Messages : Receive(m))
    /\ \A u \in Updaters : WF_restartVars(UpdateStep(u))

-----------------------------------------------------------------------------
\* Types, and no connection's queue outgrows its channel.
RestartTypeOK ==
    /\ here \in BOOLEAN /\ wired \in BOOLEAN /\ linked \in BOOLEAN
    /\ build \in 0 .. MaxRelease /\ asks \in 0 .. MaxAsks
    /\ box \in Seq(Messages) /\ Len(box) <= SendBuffer
    /\ req.pc \in {"idle", "send", "wait", "done"}
    /\ req.out \in {"none", "soft", "crash", "failed", "unsupported"}
    /\ proc \in {"up", "stopping", "down"} /\ ver \in Images
    /\ \A u \in Updaters : /\ goro[u].v \in Contents
                           /\ goro[u].tmp \in Contents
    /\ disk \in Contents /\ published \in Releases
    /\ {wide, runnable, execFailed, failed, signalled, restarted} \subseteq BOOLEAN

\* Whatever the update goroutines of one process are doing, together or not,
\* and wherever the process is killed, the executable's path holds a complete
\* image: the one the probe was set up with, or a release with the published
\* checksum (updater.go, ReplaceCurrentExecutable).
ExecutableWhole == disk \in Images

\* Why the executable stays whole: an attempt that is past the choice of a
\* release works on a published one, and the file it is about to put in place
\* is all of it.
Attempt == [pc : {"idle", "fetch", "download", "write", "writing", "rename", "copy",
                  "installed", "told", "marked", "ended"},
            v : Contents, tmp : Contents]
AttemptsWhole ==
    /\ goro \in [Updaters -> Attempt]
    /\ \A u \in Updaters :
          /\ goro[u].pc \in {"download", "write", "writing", "rename", "copy"}
                => goro[u].v \in Releases
          /\ goro[u].pc \in {"rename", "copy"} => goro[u].tmp = goro[u].v

\* Every cancellation has left its mark: who cancels the root context has noted
\* an update or a soft exit before, unless a signal did it.
Marked ==
    /\ softHook => softExit
    /\ \A u \in Updaters : goro[u].pc = "marked" => updating
    /\ cancelled => updating \/ softExit \/ signalled
    /\ proc = "stopping" => cancelled
    /\ {softHook, softExit, updating, cancelled, signalled, failed} \subseteq BOOLEAN

\* A process that ended unasked ended with a failure, the one kind of end that
\* the supervisor answers (main.go, exit status 1 after a soft exit), unless it
\* had been updated and could not execute the new image.
EndsAsFailure == proc = "down" /\ ~signalled /\ ~execFailed => failed

\* The inductive invariant.
RestartInv == published \in Releases /\ ExecutableWhole /\ AttemptsWhole /\ Marked /\ EndsAsFailure

\* The update itself has stopped the probe: the copied executable lacks its
\* permission (updater.go, copyFileAtomic), or could not be executed (main.go).
Stranded == execFailed \/ ~runnable

\* A probe that no operator stopped and no update has stranded comes back, under
\* a supervisor that only restarts what failed: the update path re-executes, the
\* soft exit path exits 1, and no other way to exit 0 is open to it (main.go, the
\* hooks mark their reason before they cancel).
ProbeComesBack == (proc = "down" /\ ~signalled /\ ~Stranded) ~> (proc = "up" \/ signalled)

\* An unidentified build that neither of the Host's orders moves: too old for
\* soft_exit, and too old or too narrow for the crash.
Deaf == ver \in SelfBuilt /\ ~Serves(ver, SoftMin) /\ ~Panics(ver)

\* When the Host reports that it restarted a probe, by either route, the probe
\* does get a new process: one that reports no version and does not know
\* soft_exit is reached by the escalation.  Excepted are a link lost or changed
\* under the order, an operator who stops the probe, an update that strands it,
\* and a deaf build (restart.go, RequestRestart; main.go, SetSoftExitHook).
RestartHappens ==
    (req.pc = "done" /\ req.out \in {"soft", "crash"})
        ~> (restarted \/ req.lost \/ signalled \/ Stranded \/ Deaf)

\* restart.go, of a probe that ignored the soft exit: "it was crashed instead".
\* A deaf build drops the crash too.
EscalationMeansCrash ==
    (req.pc = "done" /\ req.out = "crash") ~> (restarted \/ req.lost \/ signalled \/ Stranded)

\* main.go: "the service supervisor restarts the agent".  A process that could not
\* execute its update has exited 0.
UpdateComesBack == (proc = "down" /\ ~signalled) ~> (proc = "up" \/ signalled)

\* restart.go: "SoftExit counts probes that exited cleanly on request."
SoftExitMeansExit ==
    (req.pc = "done" /\ req.out = "soft") ~> (restarted \/ proc # "up" \/ signalled)
=============================================================================
