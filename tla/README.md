# JustPing: TLA+ models, checks and proofs

JustPing measures latency from many *probes* (the `agent`) and shows it on a
*Host*. Probes hold one WebSocket to the Host; over it they receive target
lists, send ping and traceroute reports, update themselves, and serve as exits
of an HTTPS proxy that people use through the Host or through the console
client `tunnel`. This directory models the parts of the program in which
several goroutines, processes or machines meet, checks them with TLC, and
proves their safety properties with TLAPS for every value of the constants, the
refinement of the byte pipe by a proxy tunnel among them.

Line numbers refer to the commit the models were written from. `PROJECT.json`
maps every modelling definition to its lines, lists the hazards the properties
are aimed at, and names the code change ("mutant") that breaks each property.

## 1. The system

| Part | State it keeps | Operations | Talks to |
|---|---|---|---|
| Credential store, `host/internal/proxy/session.go` | maps `byID`, `byUser` of sessions; one mutex | Issue, Authenticate, List, Revoke, lazy purge | called by the proxy service and the admin API |
| Proxy service, `host/internal/proxy/service.go`, `tunnel.go` | table of tunnels; per tunnel `opened` (cap 1), `inbound` (cap 32), `done` | HandleConnect, HandleTunnel, HandleAgent, DropAgent, Revoke | the hub as its bridge; the probe by `proxy_*` messages |
| Hub, `host/internal/ws` | `agents` map; per connection `Send` (cap 256), `closed`, `gone` | HandleWebSocket, Register, Unregister, Disconnect, sends, the two pumps | the database row of the agent; DropAgent |
| Agent administration, `host/internal/api/admin_agents.go` | the `agents` row | rotate token, edit overrides, delete | Disconnect, SyncSingleAgent |
| Target administration, `api/admin_targets.go` | the `targets` rows, the metrics of a deleted one | create, update, delete | BroadcastTargetSync |
| Setup wizard and settings, `api/setup.go`, `api/admin_settings.go` | rows of `system_settings` | save the first OAuth client, show masked, save | `db.SetSetting`, one row at a time |
| Forced restart and updates, `ws/restart.go`, `ws/update.go`, `feature` | none of its own | RequestRestart, BroadcastRestart, RequestUpdateCheck | the probe by `soft_exit`, `update_check` and the malformed sync |
| Accounts, `api/oauth_shared.go`, `api/admin_whitelist.go`, `db`, `auth` | settings, users, whitelist | seed, login, sign, edit whitelist | PostgreSQL, shared by replicas |
| Probe client, `agent/internal/client` | connection, online flag, report queue (500), proxy tunnels | connection loop, QueueReport, flush, Stop; open, data, close | the Host |
| Probe scheduler, `agent/cmd/agent/scheduler.go` | target list, a worker per target, trace triggers | SyncTargets, ping workers, serial traceroute loop | the client, pinger, detector and tracer |
| Pinger, `agent/internal/pinger` | a sliding window of results per target | PingTargetOnce | ICMP |
| Latency shift detector, `agent/internal/traceroute/detector.go` | baseline samples, candidate samples | Feed | called by the workers |
| Tracer, `agent/internal/traceroute/tracer.go` | the report being filled | TraceTarget, waitReply | a raw ICMP socket that everyone's replies reach |
| Updater and main, `agent/internal/updater`, `cmd/agent/main.go` | the executable on disk, `isUpdating`, `softExit`, root context | fetch, verify, replace, re-execute or exit | release server, service supervisor |
| Console client, `tunnel/cmd/tunnel` | table of tunnels, listener, relays | Dial, DialContext, local SOCKS/CONNECT proxy, forwards, CloseAll | the Host's tunnel endpoint, local programs |

The rest (web console, OAuth exchanges, installers, geolocation, metrics
queries, server start-up) is listed in `PROJECT.json` with the reason it is not
modelled; section 7 says what it would take.

**What is hard here.** No call is atomic across a mutex and the database, so
almost every handler reads, releases and then writes (hub, admin handlers,
login, whitelist, targets, settings), and most errors of the database are
ignored. The hub may meet two connections of one probe. A tunnel ends
in a dozen ways, from seven goroutines on two machines, and its slot, its
client and its target must all be released. The probe's read loop is shared by
everything the probe does. A report queue is filled by workers while the
connection loop flushes it. The probe replaces its own executable while it may
be killed, and leaves `main` by a flag that another goroutine sets.

**What makes each part correct.** Store: the two indexes are one relation, live
credentials stay, revoked ones never come back. Service: the limit, no leaked
slot, every request ends. Tunnel: a pair of FIFO pipes, released at both ends.
Hub: what is registered is served and will be unregistered, what is superseded
is closed, a replaced token gives no access, the tunnels of a probe that left
are dropped, `is_online` is right again soon. Targets: the probe works by the
tables, the tables say what the admins asked for, deleted targets leave nothing.
Client: each report is accounted for once. Scheduler: tracing follows the list,
old workers end, losses the probe makes itself heal. Detector: shifts are
genuine, and found. Tracer: a late answer is never credited to an earlier hop.
Updater: the executable is always whole, the probe comes back. Accounts: one
superadmin, who stays; tokens verify; the whitelist is not emptied. Settings: id
and secret are what the last to write each of them meant. Console client: the
table lists what is open.

## 2. Modules

| Module | Models | A step is |
|---|---|---|
| `ProxySessions` | the credential store | the clock read before the lock, or one critical section |
| `ProxyService` | many requests, one probe or several, Revoke, DropAgent | one critical section of `Service.mu` or one channel operation |
| `ProxyTunnel` | one tunnel, Host to target, with the messages in flight | one channel operation, socket operation or message |
| `TunnelPipe` | the abstract byte pipe that `ProxyTunnel` implements | |
| `AgentHub` | hub, connections, the agent's row, admin requests | one critical section or one database statement |
| `TargetSync` | target and override administration, the syncs built from both, the probe's list, ping metrics and their retention | one database statement, critical section of `Hub.mu` or send |
| `AgentClient` | connection loop and report queue | one critical section of `c.mu` under `queueMu` |
| `TargetScheduler` | scheduler, with the pinger's windows | one critical section of `s.mu`, one channel operation, or the end of a ping |
| `LatencyShift` | the latency shift detector | one call of Feed, by its outcome |
| `RouteTrace` | one trace | one send, one read of the socket or one time-out |
| `TunnelClient` | console client | one table operation, dial, copy or close |
| `HostAccounts` | seeding, login, tokens, whitelist | one SQL statement |
| `HostSettings` | setup wizard and settings page | one SetSetting |
| `ProbeRestart` | forced restart, updater, main, supervisor | one send, file operation or branch of main |
| `ProxySessions_proofs`, `ProxyService_proofs`, `ProxyTunnel_proofs`, `AgentHub_proofs`, `TargetSync_proofs`, `TunnelClient_proofs` | theorems about the module of that name | |
| `HostAccounts_proofs` | theorems about `HostAccounts` and `HostSettings` | |
| `Probe_proofs` | theorems about `AgentClient`, `RouteTrace`, `LatencyShift` and `ProbeRestart` | |
| `MC_*` | model values and symmetry sets for TLC | |

How they fit: `ProxyService` uses the store only through what `ProxySessions`
shows (a revoked or expired credential is not accepted). `ProxyTunnel` is one
tunnel of `ProxyService` in full, with the probe added; the other goroutines of
the service appear as `HostFinishes`. `AgentHub` ends every connection with
`DropAgent`, which `ProxyService` expands (`AgentLeaves`). `TargetSync` is the
hub seen from the target list: of a connection it keeps whether it is
registered and what is queued on it. `TargetScheduler` takes over where
`Apply` of `TargetSync` hands the probe a list, and calls the detector
(`LatencyShift`) and the tracer (`RouteTrace`). `ProbeRestart` sees one
connection of the hub with its bounded `Send` channel.

Components that share no variable are checked side by side in one run: a
behaviour of `MC_TargetScheduler` is one of the scheduler, or of the detector,
or of the tracer, with the other two at rest; `MC_HostAccounts` does the same
with accounts and settings. No state is reachable in such a run that is not
reachable in one of the parts alone.

Names follow the source (`Register`, `Unregister`, `AddTunnel` for `addTunnel`,
`DropAgent`...). Where one function has several steps, each is named after
what it does (`UnregisterClose`, `UnregisterMark`, `UnregisterDrop`), and the
process variable (`stage`, `pc`, `hpc`, `cpc`...) says where the goroutine is.
Definitions introduced by "Mutant" are plausible mistakes in the definition
that follows, kept to show that a property would notice; no specification uses
them.

Variables marked "history" are not in the program. They record what a property
has to exempt: `raced`, `replaced` and `late` in `AgentHub`, `overlapped`,
`defaulted`, `lost` and `overtaken` in `TargetSync`, `mishaps` in `HostAccounts`,
`torn` in `HostSettings`, `tardy` and `misled` in `RouteTrace`, `execFailed` in
`ProbeRestart`. Each is set by exactly the step that makes the code miss its
promise, so the property says both what is guaranteed and what the only ways
out of it are. To the step itself the code is exposed: section 6 lists the
promises without the exemptions. Other history variables record what to compare
with: `asked` (`TargetSync`) and `meant` (`HostSettings`) are the rows as the
requests had them, `hand[p].slow` (`ProxyService`) the tunnels whose client let
`inboundWait` pass.

Main abstractions: tokens, passwords, names and chunks are values compared for
equality; time is either a small clock (`ProxySessions`) or a step that may
happen at any time (timeouts, expiry, cooldown, backoff, retention); a statement
of the database may fail in `HostAccounts`, `HostSettings` and `TargetSync`
wherever the code's reaction to the error matters; a lost link is noticed by
each side separately and may swallow messages (`ProxyTunnel`, `AgentClient`,
`ProbeRestart`, `TargetSync`). `LatencyShift` doubles medians and quadruples
deviations so that the detector's comparisons, halves and quarters included,
are exact.

## 3. What TLC checks

| Run | Instance | Properties |
|---|---|---|
| `sessions` | 2 callers, 2 sessions, 2 ids, 2 usernames, lifetime 1, clock to 3 | `IndexesAgree`, `LiveCredentialsKept`, `RevocationFinal` |
| `hub` | 1 probe, 2 connections, 1 admin request of any kind, all messages | `SupersededClosed`, `OnlineJustified`, `RotationEnforced`, `TunnelsDropped`, `OnlineHeals`, `DeletedDropped` |
| `targets` | 1 target, stored or not, 1 probe, a request that creates, deletes or edits overrides, one that updates, and a reconnect | `ProbeFollowsTables`, `TablesFollowAdmins`, `OrphansCleaned` |
| `service` | 2 requests, 1 credential, 1 slot, queue of 1, 1 DropAgent | `LimitHeld`, `SlotsOwned` |
| `service_live` | 1 request, 2 DropAgent calls at once | `OfflineDropped`, `RequestsEnd`, `SlowClientOnce` |
| `tunnel` | 2 chunks each way, queues of 1 | `PipeSpec`, `TargetReleased`, `EofPropagates` |
| `client` | 2 workers, 3 reports, queue of 2, 3 dials | `Conserved`, `NoneStranded`, `QueueDrains` |
| `scheduler` | 1 target, 3 syncs, shift queue of 1, window of 2; detector with warm-up 2, history 3, streak 2, six samples of 20, 60, 100 or 220 ms; routes of up to 3 nodes, 2 hops, 2 probes each | `TracingFollowsList`, `LossHeals`, `StaleWorkersEnd`, `ShiftGenuine`, `ShiftFound`, `TraceSound` |
| `tunnel_client` | 1 local connection (SOCKS, CONNECT or forward), 1 console tunnel or request, 1 listener | `TableExact`, `LateDialReleased`, `HostEndReachesTool` |
| `accounts` | 2 replicas, 2 logins, 2 identities, 2 addresses, one of the identities with an unverified primary address, 2 whitelist requests; 2 editors of the settings, each of the id, the secret or both | `OneSuperadmin`, `TokensVerify`, `WhitelistKept`, `SuperadminKeepsRole`, `ClientAsMeant` |
| `restart` | 3 releases (too old, crash only, everything), an unidentified build of the second, 32 or 64 bits, 1 hook and the background updater, send buffer of 1 | `ExecutableWhole`, `ProbeComesBack`, `RestartHappens` |
| `revoke` | 1 request, 1 credential | `RevokedDropped`, violated: see section 6 |

The modules that have a `TypeOK` keep it for the proofs; no run spends its time
on it.

**Why the bounds are enough to be interesting.** Every race in the list of
hazards is between two parties, and each run has two of the party that races:
callers, connections, requests for one slot, DropAgent calls, workers, replicas,
logins, deletions, editors, updaters. `targets` has three goroutines that read
and write the same rows, so that a handshake can fall between an edit's load and
its save while a third request broadcasts; it leaves out the updates that write
back the value a row already has. Queues have capacity 1 or 2 so that full and
empty both occur; a session lives one tick of a clock that counts to three, so
that it expires, is purged and its id is reused; three syncs let a worker be two
generations stale; three releases are the three rungs of the restart ladder, and
the unidentified build is one that does not know `soft_exit` and is reached by
the crash on a 64-bit machine only; three dials let a flush fail and be retried.
The four round-trip times are a baseline, a step of exactly the 40 ms threshold,
a larger one and an outlier; with a streak of 2, six samples are warm-up, jitter
and 2 * Streak - 1 equal samples, which is the least in which `ShiftFound` says
something. A route may end before, at or beyond the hop limit. Every action and
every disjunct of every next-state relation fires in these runs. Deadlock is
checked in `sessions`, whose callers never stop; the other systems may
legitimately come to rest (all requests served, the probe stopped, the bounded
input used up).

**Properties in short.** `IndexesAgree`, `LiveCredentialsKept` and
`RevocationFinal` say that the store behaves as one map from live credentials,
although callers bring clocks of different ages.
`SupersededClosed` is "one served connection per probe". `OnlineJustified`
bounds the races of `is_online`: an online row without a connection is always
the work of a goroutine in flight or of a late write, and `OnlineHeals` says the
opposite error does not last. `RotationEnforced` and `TunnelsDropped` say when a
kick and a drop do reach everybody.
`ProbeFollowsTables` compares, at rest, what the probe does with what the tables
say: the exemptions are a sync that was lost and one that overtook a newer.
`TablesFollowAdmins` compares the tables with a second copy to which each
request's own change alone is applied; the second copy has the columns the
request had, so that the one the database's default changes (`enabled` of a
target created disabled) is named in the property and nowhere else allowed.
`ClientAsMeant` does the same for the OAuth client, whose requests may carry
either row or both. `OrphansCleaned` needs the clamp on the
probe's timestamps: a row dated far ahead would never be pruned.
`SlotsOwned` relates the table, `t.done` and the handlers: no slot without a
handler, no handler waiting on a tunnel that nobody can finish. `RequestsEnd`
holds even if client and probe do nothing. `SlowClientOnce` says that the probe's
read loop, which waits up to `inboundWait` for a client that does not read, never
waits for the same tunnel again: its first timeout took the tunnel out of the
table. `PipeSpec` is refinement: the Host,
the link and the probe together implement `TunnelPipe`, in which data arrives in
order, may be cut short, and an orderly end means nothing is missing.
`Conserved` counts each report exactly once over six places. `LossHeals` is
about losses the probe causes itself, by cancelling a ping whose window the next
worker shares. `ShiftGenuine` and `ShiftFound` are the two directions of the
detector's comment. `TraceSound` says what a report is worth although
`waitReply` compares no sequence number. `ExecutableWhole`, `ProbeComesBack` and
`RestartHappens` follow a release from the Host's order to the new process.
A probe that an update stranded (its new image lacks its permission or could not
be executed) does not come back, and a build that knows neither of the Host's
orders is not restarted: both are exempt, and in section 6.

## 4. Fairness

Liveness is checked under these assumptions, each stated at the module's
`Fairness` or `FairSpec`:

- a goroutine that can run does (weak fairness), which Go's scheduler gives;
- a wait with a timer ends (`openTimeout`, `inboundWait`, the send of a
  `proxy_close` by a read loop, dial and handshake
  timeouts, the credential's deadline, a ping's timeout), and a ticker comes
  round (ping workers, the retention cleaner);
- a read or write on a connection that was closed locally fails, and a dead
  link is noticed (read deadlines and pings); a closed connection has finitely
  many frames left (strong fairness on its failing read in `AgentHub`);
- a lock that is requested is obtained although others keep taking it, and a
  `select` with several ready cases does not pass one over for ever (strong
  fairness on `FlushBegin`, `LockAndLook`, `Triggered`, `WorkerEnds`): Go's
  mutex hands over to a starving waiter, and `select` picks at random;
- in `AgentHub`, a probe that stays connected keeps sending ping reports (strong
  fairness on `HandlePing`), as the agent's tickers do.

Nothing is assumed of operators, the network or the release process, and in
`ProxyService` nothing of clients: they may act at any time or never. In
`ProxyTunnel` a client that has not hung up reads what is written to it (the
write to it is fair), without which `EofPropagates` could not hold; that a client
may stop reading is in `ProxyService`. In `TargetScheduler` targets answer every
ping that is not cancelled, so that the only losses are those `LossHeals` is
about; nothing else there depends on the answer.

## 5. What is proved

Every safety property of the passing runs is a theorem, checked by TLAPS to the
last leaf. Each rests on an inductive invariant stated at the end of the
component's module, because none of the properties is inductive by itself; TLC
checked the invariants on the instances of section 3 before they were proved.

**`ProxySessions_proofs`** assumes only `StoreAssumption` (clock values are
natural, nil is not a session). `StoreInv` is inductive: types; `CallOK` (a call
in flight holds the arguments of its operation and a time not later than now);
`IndexesAgree`; `LiveCredentialsKept`; `RevokedUnreachable` (what a Revoke
reported is marked, and what is marked is in neither map). The heart is the
purge: with a time not later than the clock it removes only dead sessions, and
since the indexes agree, removing a session's id removes exactly its username.
From it follow `StoreTypeCorrect`, `StoreIndexesAgree`, `StoreKeepsLive`,
`StoreRevocationFinal` and `StoreListExact`; the last two are action properties.

**`ProxyService_proofs`**: `ServiceInv` adds to the properties that a request
which has not reached `addTunnel` has no tunnel that could have ended
(`Untouched`), that past authentication it has its credential (`CredKnown`), and
`DropsCover`: every tunnel of a probe that left is on the list of a DropAgent
call, or the call has still to make its list, or the tunnel's `proxy_open` is
about to be refused. The last is what makes `OfflineDropped` inductive. For
`SlowClientOnce` it has `PumpsHold`: a read loop waits only for a tunnel that has
reached the table, and a tunnel that was once too slow has left it and has
`t.done` closed, so that it never comes back. The
limit is a statement about the cardinality of a set that `addTunnel` extends by
one and `finish` shrinks. `ServiceLimitHeld`, `ServiceSlotsOwned`,
`ServiceSlowClientOnce` and `ServiceOfflineDropped` hold for any number of
requests, credentials, probes, read loops and DropAgent calls.

**`ProxyTunnel_proofs`** shows that `ProxyTunnel` implements `TunnelPipe`
(`TunnelIsPipe`, whose conclusion is the `PipeSpec` that TLC checks), for any
number of chunks and any capacities of the two queues (`TunnelAssumption`). The
mapping forgets everything but what was read from and written to the two peers
and how the client's connection ended. `TunnelInv` is what the mapping needs:

- `UpInOrder`: the target's chunks, then the probe's queue, then the data on the
  link before a close, are consecutive, and none is missing while the Host's
  reader goes on. `DownInOrder` is the same towards the client over one more
  place, the chunk `readPump` holds. What is still on the link follows only while
  the tunnel is in the Host's table: after that chunks are thrown away, and the
  invariant says that none is queued behind a gap.
- `CloseIsLast`: a `proxy_close` that reports the end of the target's stream is
  behind every chunk of it, in whichever of three places it is (noted by the
  probe, on the link, taken by the Host). It is what turns "the Host drained its
  queue" into "the client has everything".
- `Unanswered`, `UpLink`, `DownLink`, `ReaderFits`, `FateFits`: what may be
  where. An answer can only be at the head of the link, no data moves before it,
  and a connection that ended in order does not end again.

Each conjunct has a lemma that every step keeps it; the queues' part is in
lemmas about `Append` and `Tail` of a link (`FollowsAppended`, `ClosesTaken`...).
Of the tunnel's steps, seven show outside (`PipeStep`); all others stutter.
`TunnelTypes` has the capacities of `t.inbound` and `tab.writes`.

**`AgentHub_proofs`** assumes `HubAssumption`. `HubInv` adds to the properties
that a connection past authentication knows its probe, that a deletion never
holds a loaded row (a deletion would otherwise reach the steps of an edit),
`TunnelsHeld` (a tunnel is over the registered connection, a replaced one, or
one whose end somebody is still working on) and `CopiesAgree` (unless edits
overlapped, every copy of a token in a handshake or a request is the row's).
`ServedAgree` extends `RotationEnforced` to rows that are gone, because a stale
save may bring one back with its old token. `HubNoGhostProbe`,
`HubSupersededClosed`, `HubOnlineJustified`, `HubRotationEnforced` and
`HubTunnelsDropped` follow, for any number of probes, connections and admin
requests.

**`TargetSync_proofs`** assumes `SyncAssumption` (targets and probes are
different things). `JobsOK` says what a request or handshake holds at each of
its steps. `AdminInv` adds `SnapsCurrent`: unless something overlapped, the copy
of a row that a request loaded is still the row, so that saving it changes only
the fields it edits; `SyncTablesFollowAdmins` follows, with `Meant` putting back
the one column that creation does not store as asked. `SyncInv` adds
`SyncsCover`: whenever the probe's view differs from the tables, a sync that will
correct it is queued, or some request has still to build it, or one that will be
overtaken is on its way; `SyncProbeFollowsTables` is the case in which nothing
is under way.

**`Probe_proofs`** has four parts that share no state.
*Report queue* (`ClientAssumption`: finite sets, a queue of at least one, and
nil and `"flush"` name no worker): `QueueInv` says that each report is in one
place and there once, who holds the lock, and that reports stay unsent only
where the connection is dead or a flush is to come; `QueueConserved` turns this
into the count, and `QueueNoneStranded` is a conjunct.
*Tracer*: `TracerInv` says that everything in the air answers a request of this
hop or an earlier one, and what is known of each hop in terms of the route;
`TracerTraceSound` holds for every route.
*Detector* (`ShiftAssumption`: Warmup <= Streak <= MaxHistory; the code has 8, 30
and 30): `ShiftInv` says that the candidates are the last samples, each far from
the baseline, and that a route which changed for good is among them.
`ShiftIsGenuine` and `ShiftIsFound` follow. That the median of equal samples is
that sample is proved from the definition of the median by counting.
*Updater*: `RestartInv` says that what an attempt has verified or staged is
complete (`AttemptsWhole`) and that whoever cancelled the root context had left
its mark, unless a signal did it (`Marked`). `RestartExecutableWhole` follows,
and `RestartEndsAsFailure`: a process that no operator stopped exits 0 only if it
had installed an update and could not execute it, which is the part of
`ProbeComesBack` that is safety. That an update can be executed is not claimed.

**`TunnelClient_proofs`**: `ClientInv` adds to `TableExact` that a connection not
dialed has no WebSocket, that `onClose` runs after the WebSocket was closed, and
that only what Dial handed over is listed. `ClientForgetsOnce` is the action
property that an entry which left the table stays out of it.

**`HostAccounts_proofs`** assumes `AccountAssumption` (every identity has a
primary address and a set of verified ones, which need not hold it) and
`SettingsAssumption` (the mask is nobody's secret). `AccountsInv` says what each
login knows: past the transaction it has seen an initialised Host, inside the
bootstrap it has not, and the role `upsertAdminUser` is about to write back is
still the one in the row. `RolesOK` states uniqueness by a witness, from which
`AccountsOneSuperadmin` derives the cardinality; `DeletionsOK` says that a
deletion that has counted still finds two addresses, which is what
`AccountsWhitelistKept` needs; `AccountsTokensVerify` needs that seeding never
replaces a secret; `AccountsSuperadminKept` is the action property. The row lock
is what makes `Bootstrap` preserve uniqueness, and it is there only because
seeding inserts the row before the Host serves. For the settings, `SettingsInv`
says of each row that it is what was last meant for it, or that the request
under way has still to write it (`AsMeant`), and that only a submitted request
has rows to write; `SettingsClientAsMeant` is what that means at rest.

Only model-checked: all liveness (out of the prover's reach, as is `ENABLED`):
`OnlineHeals`, `DeletedDropped`, `OrphansCleaned`, `RequestsEnd`,
`TargetReleased`, `EofPropagates`, `QueueDrains`,
`TracingFollowsList`, `LossHeals`, `StaleWorkersEnd`, `LateDialReleased`,
`HostEndReachesTool`, `ProbeComesBack` and `RestartHappens`. `TargetScheduler`
has only such properties, so it has no theorem.

## 6. Where code and comments part

`revoke` reproduces one disagreement: `service.go:89` promises that Revoke
"drops tunnels opened with it", but a request that authenticated before the
revocation and calls `addTunnel` after `dropSession` has collected the ids keeps
its tunnel until the credential expires.

The modules also state other promises that the code does not keep. They are
definitions without a run; putting one in a copy of the module's `.cfg` shows
the behaviour. Where a property of section 3 exempts the steps that break the
promise, the table names the history variable to drop from it.

| Definition | Promise | What happens |
|---|---|---|
| `AgentHub!RotationAlwaysEnforced` | `admin_agents.go:106` "Kick active connection to enforce new token" | a connection that looked up the old token registers after the kick |
| `AgentHub!RotationKept` | the same | its whole-row `Save` writes the old token back |
| `AgentHub!NoStrandedTunnel` | `service.go:150` DropAgent "closes every tunnel for a probe that just disconnected" | a replaced connection's Unregister returns early, without DropAgent |
| `TargetSync!TablesFollowAdmins` without `overlapped` | `admin_agents.go:130-131` "never blanks the others" | two edits load the same row and the second save reverts the first; a handshake reverts an edit; an update brings a deleted target back |
| `TargetSync!ProbeFollowsTables` without `lost` and `overtaken` | `hub.go:177-178` a paused target is omitted from the sync | an older list is queued after a newer one; a failed read of the overrides sends paused targets |
| `HostSettings!ClientAsMeant` without `torn` | the page's rows are saved as sent, `admin_settings.go:62` "Settings updated" | two editors interleave, or one of two writes fails unseen |
| `TargetScheduler!PausedNotTraced` | `hub.go:177-178` | the traceroute loop works on an old copy of the list |
| `TunnelClient!RelayUntilEitherCloses` | `localproxy.go:330` "until either side closes" | relay waits for both directions; a CONNECT client has no CloseWrite to be told by |
| `HostAccounts!WhitelistKept` without `mishaps` | `admin_whitelist.go:68` "Cannot delete the last whitelisted email" | two deletions each count two |
| `HostAccounts!TokensVerify` without `mishaps` | `db.go:84` "consistently across replicas" | `GetJWTSecret` saves a new secret when its read fails |
| `TargetSync!CreatedAsAsked` | `admin_targets.go:66-69` the request's `enabled` | gorm writes the default of `models.go:46` for a zero value: a target created with `enabled: false` is stored enabled |
| `ProbeRestart!UpdateComesBack` | `main.go:287` "the service supervisor restarts the agent" | main drops the error of `syscall.Exec` and exits 0 (`main.go:281-283`); one cause is the chmod whose error `updater.go:325` drops |
| `ProbeRestart!EscalationMeansCrash` | `restart.go:44` "it was crashed instead" | a build without a version that is 32-bit or older than 1.0.3 is sent the crash and drops it, although `legacy.go:63-65` knows such builds |
| `ProbeRestart!SoftExitMeansExit` | `restart.go:99` "exited cleanly on request" | a lost link counts as a clean exit |

Read, and not stated as properties:

- `ErrSoftExitEscalated` is documented (`restart.go:55-57`) and never returned;
  "Unreachable counts probes whose send failed (already gone)"
  (`restart.go:107`), while a send to an absent probe succeeds.
- Two concurrent first logins of one whitelisted identity leave the second with
  a token for user 0 (`oauth_shared.go:145`; the `"zero"` row of
  `HostAccounts`).
- The bootstrap whitelists `AuthUser.Email` (`oauth_shared.go:113`). For GitHub
  that may be the public address of the profile, which nobody verified
  (`github.go:95-111`), while later logins look only at verified addresses
  (`oauth_shared.go:62-68`): such a superadmin is refused the next time.
- Creation accepts an interval from 5 s (`admin_targets.go:59`), an update only
  from 10 s (`admin_targets.go:126`).
- A window keeps the size it was created with and survives the target's
  worker (`GetOrCreateWindow`): a changed packet count does not resize it, and
  a changed host keeps the old host's window, detector and trace cooldown, all
  of which are keyed by the target's id.
- `waitReply` takes an `expectedSeq` and never compares it; a stray echo reply
  from the destination (of the probe's own ping worker, on the same raw socket)
  ends a trace early. `RouteTrace` has both; `TraceSound` exempts strays.

## 7. Limits and what is not modelled

- `ProxyTunnel` covers one connection of the probe. A `readLoop` that survives
  into the next connection is not covered.
- `AgentHub` has a database that is available and no full `Send` buffer;
  `TargetSync` has both failures. A failing `Save` of an admin request changes
  nothing there. Agents' names and tags, and their creation, are left out.
- `TargetSync` abstracts a sync to what the probe does with each target. The
  messages of other kinds that fill a buffer appear as a send that fails.
- `ProbeRestart` is Linux: one rename. On Windows the executable is moved away
  first (`updater.go:282-296`). Its supervisor restarts only failures, the
  weakest one `main.go:178-180` means to support; the systemd unit restarts
  always. Power loss (no fsync before the rename) is not modelled. That a build
  reports no version is a property of the build: it starts as one, and the first
  update replaces it by a release.
- `HostAccounts` is a deployment without `JWT_SECRET`.
- `LatencyShift` has whole milliseconds; the code's floating-point comparisons
  are exact there.
- Not modelled: the OAuth exchanges (request and response with third parties),
  the public and metrics API (read-only queries and floating-point
  aggregation), the geolocation cache (one map that only grows, and keeps a
  failed answer for ever, `ipgeo.go:66`) and the classifier's tables, the
  installers (unit files and shell commands), traceroute and update records,
  server start-up, `version.Compare` (releases are numbers in its order),
  ICMP, HTTP and SOCKS formats, rendering, and the web console.

## 8. Plan

Done: the core (store, service, tunnel, hub) and its neighbours (client,
scheduler, updater, accounts, console client); the way of the target list from
the admins to the probe; settings, pinger windows, detector and tracer; the
inductive invariants of all of them but the scheduler, every safety property of
the runs as a theorem, and the refinement of `TunnelPipe`.

Next: the safety part of liveness properties, as `RestartEndsAsFailure` is for
`ProbeComesBack`: that `TargetScheduler` has at most one current worker per
target, and that a stale one never starts another ping; that in `TunnelClient` a
late tunnel of an abandoned dial always has somebody who will close it.
