--------------------------- MODULE TargetSync_proofs ---------------------------
(* Proofs about the way of the target list from the admins to the probes, for   *)
(* any number of targets, probes, requests and handshakes.                      *)
EXTENDS TargetSync, TLAPS

-----------------------------------------------------------------------------
(* The steps of a job                                                        *)

\* The record of a goroutine that has not begun, or is done.
LEMMA NoJobType ==
    /\ NoJob \in Job /\ [NoJob EXCEPT !.pc = "done"] \in Job
    /\ [NoJob EXCEPT !.pc = "done"].pc = "done" /\ [NoJob EXCEPT !.pc = "done"].older = {}
    /\ [NoJob EXCEPT !.pc = "done"].behind = FALSE
  <1>1. AllOff \in List
    BY DEF AllOff, List
  <1> QED BY <1>1 DEF NoJob, Job

\* The lists that are built are lists.
LEMMA ListTypes ==
    ASSUME TypeOK
    PROVE  /\ AllOff \in List /\ EnabledTargets \in List
           /\ \A l \in List, r \in OverrideRow : WithOverrides(l, r) \in List
           /\ Syncing \in SUBSET Jobs
  BY DEF AllOff, EnabledTargets, List, WithOverrides, Syncing

\* One step of job j leaves the others alone.
OnlyJob(j) == job' \in [Jobs -> Job] /\ \A k \in Jobs \ {j} : job'[k] = job[k]

\* Replacing the record of a job.
LEMMA ReplaceJob ==
    ASSUME TypeOK, NEW j \in Jobs, NEW r \in Job, job' = [job EXCEPT ![j] = r]
    PROVE  OnlyJob(j) /\ job'[j] = r
  BY DEF TypeOK, OnlyJob

\* A request that loads a row, or fails, has read no list and will send none.
Aside(j) ==
    /\ OnlyJob(j) /\ job'[j].older = {} /\ ~job'[j].behind
    /\ job[j].pc \in {"idle", "update", "edit"} /\ UNCHANGED <<hostVars, probeVars>>
    /\ \/ job'[j].pc = "done"
       \/ /\ job'[j].pc = "update" /\ job'[j].on \in Targets
          /\ job'[j].snap = table[job'[j].on] /\ job'[j].snap.life = "stored"
       \/ /\ job'[j].pc \in {"edit", "loaded"} /\ job'[j].on \in Agents
          /\ job'[j].snap = over[job'[j].on]

\* adminUpdateTarget loads its row.
LEMMA UpdateLoadAside ==
    ASSUME TypeOK, JobsOK, NEW j \in Jobs, NEW t \in Targets, UpdateLoad(j, t)
    PROVE  Aside(j)
  <1>0. /\ job[j] \in Job /\ job[j].pc = "idle" /\ job[j].older = {} /\ ~job[j].behind
        /\ UNCHANGED <<hostVars, probeVars>>
    BY DEF TypeOK, JobsOK, JobOK, UpdateLoad, Syncing
  <1>1. CASE table[t].life = "stored"
    <2> DEFINE r == [job[j] EXCEPT !.pc = "update", !.on = t, !.snap = table[t]]
    <2>1. /\ r \in Job /\ r.pc = "update" /\ r.on = t /\ r.snap = table[t]
          /\ r.older = job[j].older /\ r.behind = job[j].behind
      BY <1>0 DEF TypeOK, Rows, Job
    <2>2. job' = [job EXCEPT ![j] = r]
      BY <1>1 DEF TypeOK, UpdateLoad
    <2> HIDE DEF r
    <2>3. OnlyJob(j) /\ job'[j] = r
      BY <2>1, <2>2, ReplaceJob
    <2> QED BY <1>0, <1>1, <2>1, <2>3 DEF Aside
  <1>2. CASE table[t].life # "stored"
    <2> DEFINE r == [job[j] EXCEPT !.pc = "done"]
    <2>1. r \in Job /\ r.pc = "done" /\ r.older = job[j].older /\ r.behind = job[j].behind
      BY <1>0 DEF Job
    <2>2. job' = [job EXCEPT ![j] = r]
      BY <1>2 DEF TypeOK, UpdateLoad, Step
    <2> HIDE DEF r
    <2>3. OnlyJob(j) /\ job'[j] = r
      BY <2>1, <2>2, ReplaceJob
    <2> QED BY <1>0, <2>1, <2>3 DEF Aside
  <1> QED BY <1>1, <1>2

\* adminUpdateAgent and HandleWebSocket load the probe's row.
LEMMA OverrideLoadAside ==
    ASSUME TypeOK, JobsOK, NEW j \in Jobs, NEW a \in Agents, EditLoad(j, a) \/ Connect(j, a)
    PROVE  Aside(j)
  <1>0. /\ job[j] \in Job /\ job[j].pc = "idle" /\ job[j].older = {} /\ ~job[j].behind
        /\ UNCHANGED <<hostVars, probeVars>>
    BY DEF TypeOK, JobsOK, JobOK, EditLoad, Connect, Syncing
  <1>1. PICK q \in {"edit", "loaded"} :
           job' = [job EXCEPT ![j].pc = q, ![j].on = a, ![j].snap = over[a]]
    BY DEF EditLoad, Connect
  <1> DEFINE r == [job[j] EXCEPT !.pc = q, !.on = a, !.snap = over[a]]
  <1>2. /\ r \in Job /\ r.pc = q /\ r.on = a /\ r.snap = over[a]
        /\ r.older = job[j].older /\ r.behind = job[j].behind
    BY <1>0 DEF TypeOK, Rows, Job
  <1>3. job' = [job EXCEPT ![j] = r]
    BY <1>1 DEF TypeOK
  <1> HIDE DEF r
  <1>4. OnlyJob(j) /\ job'[j] = r
    BY <1>2, <1>3, ReplaceJob
  <1> QED BY <1>0, <1>2, <1>4 DEF Aside

\* The Save fails.
LEMMA SaveFailsAside ==
    ASSUME TypeOK, NEW j \in Jobs, SaveFails(j)
    PROVE  Aside(j)
  <1>1. OnlyJob(j) /\ job'[j] = [NoJob EXCEPT !.pc = "done"]
    BY NoJobType, ReplaceJob DEF SaveFails
  <1> QED BY <1>1, NoJobType DEF SaveFails, Aside

\* A request that has written a row will read the list for the probes it is about.
Announces(j) ==
    /\ OnlyJob(j) /\ job'[j].older = {} /\ ~job'[j].behind /\ j \notin Syncing
    /\ job[j].pc \in {"idle", "update", "purge", "edit", "loaded", "register"}
    /\ \/ job'[j].pc = "broadcast"
       \/ job'[j].pc = "purge" /\ job'[j].on \in Targets
       \/ job'[j].pc \in {"register", "single"} /\ job'[j].on \in Agents /\ job'[j].on = job[j].on

\* The steps that end in a broadcast.
LEMMA BroadcastAnnounces ==
    ASSUME TypeOK, JobsOK, NEW j \in Jobs,
           \/ \E t \in Targets, b \in Creations : CreateTarget(j, t, b)
           \/ \E c \in Updates : UpdateSave(j, c)
           \/ PurgeMetrics(j)
    PROVE  Announces(j) /\ job'[j].pc = "broadcast"
  <1>0. /\ job[j] \in Job /\ job[j].pc \in {"idle", "update", "purge"} /\ j \notin Syncing
        /\ job[j].older = {} /\ ~job[j].behind
    BY DEF TypeOK, JobsOK, JobOK, CreateTarget, UpdateSave, PurgeMetrics, Syncing
  <1>1. PICK r : /\ job' = [job EXCEPT ![j] = r] /\ r \in Job /\ r.pc = "broadcast"
                 /\ r.older = job[j].older /\ r.behind = job[j].behind
    <2>1. CASE \E t \in Targets, b \in Creations : CreateTarget(j, t, b)
      <3> DEFINE r == [job[j] EXCEPT !.pc = "broadcast"]
      <3>1. /\ r \in Job /\ r.pc = "broadcast" /\ r.older = job[j].older /\ r.behind = job[j].behind
        BY <1>0 DEF Job
      <3>2. job' = [job EXCEPT ![j] = r]
        BY <2>1 DEF TypeOK, CreateTarget, Step
      <3> QED BY <3>1, <3>2
    <2>2. CASE \E c \in Updates : UpdateSave(j, c)
      <3> DEFINE r == [job[j] EXCEPT !.pc = "broadcast", !.on = Nil, !.snap = Nil]
      <3>1. /\ r \in Job /\ r.pc = "broadcast" /\ r.older = job[j].older /\ r.behind = job[j].behind
        BY <1>0 DEF Job
      <3>2. job' = [job EXCEPT ![j] = r]
        BY <2>2 DEF TypeOK, UpdateSave
      <3> QED BY <3>1, <3>2
    <2>3. CASE PurgeMetrics(j)
      <3> DEFINE r == [job[j] EXCEPT !.pc = "broadcast", !.on = Nil]
      <3>1. /\ r \in Job /\ r.pc = "broadcast" /\ r.older = job[j].older /\ r.behind = job[j].behind
        BY <1>0 DEF Job
      <3>2. job' = [job EXCEPT ![j] = r]
        BY <2>3 DEF TypeOK, PurgeMetrics
      <3> QED BY <3>1, <3>2
    <2> QED BY <2>1, <2>2, <2>3
  <1>2. OnlyJob(j) /\ job'[j] = r
    BY <1>1, ReplaceJob
  <1> QED BY <1>0, <1>1, <1>2 DEF Announces

\* adminDeleteTarget.
LEMMA DeleteAnnounces ==
    ASSUME TypeOK, JobsOK, NEW j \in Jobs, NEW t \in Targets, DeleteTarget(j, t)
    PROVE  Announces(j) /\ job'[j].pc = "purge"
  <1>0. /\ job[j] \in Job /\ job[j].pc = "idle" /\ j \notin Syncing
        /\ job[j].older = {} /\ ~job[j].behind
    BY DEF TypeOK, JobsOK, JobOK, DeleteTarget, Syncing
  <1> DEFINE r == [job[j] EXCEPT !.pc = "purge", !.on = t]
  <1>1. /\ r \in Job /\ r.pc = "purge" /\ r.on = t /\ r.older = job[j].older /\ r.behind = job[j].behind
    BY <1>0 DEF Job, Rows
  <1>2. job' = [job EXCEPT ![j] = r]
    BY DEF TypeOK, DeleteTarget
  <1> HIDE DEF r
  <1>3. OnlyJob(j) /\ job'[j] = r
    BY <1>1, <1>2, ReplaceJob
  <1> QED BY <1>0, <1>1, <1>3 DEF Announces

\* The steps of a handshake, and of an edit of a probe.
LEMMA ProbeAnnounces ==
    ASSUME TypeOK, JobsOK, NEW j \in Jobs,
           ConnectSave(j) \/ Register(j) \/ \E e \in Edits : EditSave(j, e[1], e[2])
    PROVE  /\ Announces(j) /\ job'[j].pc \in {"register", "single"}
           /\ job[j].on \in Agents /\ job'[j].on = job[j].on
           /\ job[j].pc \in {"edit", "loaded", "register"}
  <1>0. /\ job[j] \in Job /\ job[j].pc \in {"edit", "loaded", "register"} /\ j \notin Syncing
        /\ job[j].older = {} /\ ~job[j].behind /\ job[j].on \in Agents
    BY DEF TypeOK, JobsOK, JobOK, ConnectSave, Register, EditSave, Syncing
  <1>1. PICK r : /\ job' = [job EXCEPT ![j] = r] /\ r \in Job /\ r.pc \in {"register", "single"}
                 /\ r.on = job[j].on /\ r.older = job[j].older /\ r.behind = job[j].behind
    <2>1. CASE Register(j)
      <3> DEFINE r == [job[j] EXCEPT !.pc = "single"]
      <3>1. /\ r \in Job /\ r.pc = "single" /\ r.on = job[j].on
            /\ r.older = job[j].older /\ r.behind = job[j].behind
        BY <1>0 DEF Job
      <3>2. job' = [job EXCEPT ![j] = r]
        BY <2>1 DEF TypeOK, Register, Step
      <3> QED BY <3>1, <3>2
    <2>2. CASE ConnectSave(j) \/ \E e \in Edits : EditSave(j, e[1], e[2])
      <3>1. PICK q \in {"register", "single"} : job' = [job EXCEPT ![j].pc = q, ![j].snap = Nil]
        BY <2>2 DEF ConnectSave, EditSave
      <3> DEFINE r == [job[j] EXCEPT !.pc = q, !.snap = Nil]
      <3>2. /\ r \in Job /\ r.pc = q /\ r.on = job[j].on
            /\ r.older = job[j].older /\ r.behind = job[j].behind
        BY <1>0 DEF Job
      <3>3. job' = [job EXCEPT ![j] = r]
        BY <3>1 DEF TypeOK
      <3> QED BY <3>2, <3>3
    <2> QED BY <2>1, <2>2
  <1>2. OnlyJob(j) /\ job'[j] = r
    BY <1>1, ReplaceJob
  <1> QED BY <1>0, <1>1, <1>2 DEF Announces

\* The targets are read.
LEMMA ReadTargetsJob ==
    ASSUME TypeOK, JobsOK, NEW j \in Jobs, ReadTargets(j)
    PROVE  /\ OnlyJob(j) /\ j \notin Syncing /\ UNCHANGED <<hostVars, probeVars>>
           /\ job'[j].seen = EnabledTargets /\ job'[j].older = Syncing /\ ~job'[j].behind
           /\ \/ job[j].pc = "broadcast" /\ job'[j].pc = "collect"
              \/ /\ job[j].pc = "single" /\ job[j].on \in Agents
                 /\ job'[j].pc = "build" /\ job'[j].ids = {job[j].on}
  <1>0. /\ job[j] \in Job /\ job[j].pc \in {"single", "broadcast"} /\ j \notin Syncing
        /\ ~job[j].behind /\ UNCHANGED <<hostVars, probeVars>>
        /\ job[j].pc = "single" => job[j].on \in Agents
    BY DEF TypeOK, JobsOK, JobOK, ReadTargets, Syncing
  <1> DEFINE ids == IF job[j].pc = "single" THEN {job[j].on} ELSE {}
             pc == IF job[j].pc = "single" THEN "build" ELSE "collect"
             r == [job[j] EXCEPT !.pc = pc, !.ids = ids, !.seen = EnabledTargets, !.older = Syncing]
  <1>1. ids \in SUBSET Agents /\ pc \in {"build", "collect"}
    BY <1>0
  <1>2. job' = [job EXCEPT ![j] = r]
    BY <1>0 DEF TypeOK, ReadTargets
  <1>3. /\ r \in Job /\ r.pc = pc /\ r.ids = ids /\ r.seen = EnabledTargets
        /\ r.older = Syncing /\ r.behind = job[j].behind
    <2> HIDE DEF ids, pc
    <2> QED BY <1>0, <1>1, ListTypes DEF Job
  <1> HIDE DEF r
  <1>4. OnlyJob(j) /\ job'[j] = r
    BY <1>2, <1>3, ReplaceJob
  <1> QED BY <1>0, <1>3, <1>4

\* Reading them fails.
LEMMA ReadFailsJob ==
    ASSUME TypeOK, NEW j \in Jobs, ReadTargetsFails(j)
    PROVE  /\ OnlyJob(j) /\ job'[j].pc = "done" /\ job'[j].older = {} /\ ~job'[j].behind
           /\ j \notin Syncing /\ job[j].pc \in {"single", "broadcast"}
  <1>1. OnlyJob(j) /\ job'[j] = [NoJob EXCEPT !.pc = "done"]
    BY NoJobType, ReplaceJob DEF ReadTargetsFails
  <1> QED BY <1>1, NoJobType DEF ReadTargetsFails, Syncing

\* The ids are collected.
LEMMA CollectJob ==
    ASSUME TypeOK, NEW j \in Jobs, CollectIDs(j)
    PROVE  /\ OnlyJob(j) /\ job[j].pc = "collect" /\ UNCHANGED <<hostVars, probeVars>>
           /\ \/ linked = {} /\ job'[j].pc = "done" /\ job'[j].older = {} /\ ~job'[j].behind
              \/ /\ job'[j].pc = "build" /\ job'[j].ids = linked /\ job'[j].seen = job[j].seen
                 /\ job'[j].older = job[j].older /\ job'[j].behind = job[j].behind
  <1>0. job[j] \in Job /\ job[j].pc = "collect" /\ UNCHANGED <<hostVars, probeVars>>
    BY DEF TypeOK, CollectIDs
  <1>1. CASE linked = {}
    <2>1. OnlyJob(j) /\ job'[j] = [NoJob EXCEPT !.pc = "done"]
      BY <1>1, NoJobType, ReplaceJob DEF CollectIDs
    <2> QED BY <1>0, <1>1, <2>1, NoJobType
  <1>2. CASE linked # {}
    <2> DEFINE r == [job[j] EXCEPT !.pc = "build", !.ids = linked]
    <2>1. /\ r \in Job /\ r.pc = "build" /\ r.ids = linked /\ r.seen = job[j].seen
          /\ r.older = job[j].older /\ r.behind = job[j].behind
      BY <1>0 DEF TypeOK, Job
    <2>2. job' = [job EXCEPT ![j] = r]
      BY <1>2 DEF TypeOK, CollectIDs
    <2> HIDE DEF r
    <2>3. OnlyJob(j) /\ job'[j] = r
      BY <2>1, <2>2, ReplaceJob
    <2> QED BY <1>0, <2>1, <2>3
  <1> QED BY <1>1, <1>2

\* A list is built, with the overrides or without.
LEMMA BuildJob ==
    ASSUME TypeOK, NEW j \in Jobs, NEW a \in Agents, Build(j, a) \/ BuildBlind(j, a)
    PROVE  /\ OnlyJob(j) /\ job[j].pc = "build" /\ a \in job[j].ids /\ UNCHANGED <<hostVars, probeVars>>
           /\ job'[j].pc = "send" /\ job'[j].on = a /\ job'[j].ids = job[j].ids
           /\ job'[j].older = job[j].older
           /\ job[j].ids # {a} => job'[j].seen = job[j].seen
           /\ \/ job'[j].behind = TRUE
              \/ /\ job'[j].behind = job[j].behind
                 /\ job'[j].list = WithOverrides(job[j].seen, over[a])
  <1>0. /\ job[j] \in Job /\ job[j].pc = "build" /\ a \in job[j].ids
        /\ UNCHANGED <<hostVars, probeVars>>
    BY DEF TypeOK, Build, BuildBlind
  <1> DEFINE seen == IF job[j].ids = {a} THEN AllOff ELSE job[j].seen
  <1>1. /\ seen \in List /\ job[j].seen \in List
        /\ WithOverrides(job[j].seen, over[a]) \in List
    <2>1. job[j].seen \in List /\ over[a] \in OverrideRow
      BY <1>0 DEF TypeOK, Job
    <2> QED BY <2>1, ListTypes
  <1>2. CASE Build(j, a)
    <2> DEFINE l == WithOverrides(job[j].seen, over[a])
               r == [job[j] EXCEPT !.pc = "send", !.on = a, !.list = l, !.seen = seen]
    <2>1. job' = [job EXCEPT ![j] = r]
      BY <1>2 DEF TypeOK, Build
    <2>2. /\ r \in Job /\ r.pc = "send" /\ r.on = a /\ r.ids = job[j].ids /\ r.older = job[j].older
          /\ r.seen = seen /\ r.behind = job[j].behind /\ r.list = l
      <3> HIDE DEF l, seen
      <3> QED BY <1>0, <1>1 DEF Job, Rows, l
    <2> HIDE DEF r
    <2>3. OnlyJob(j) /\ job'[j] = r
      BY <2>1, <2>2, ReplaceJob
    <2> QED BY <1>0, <2>2, <2>3
  <1>3. CASE BuildBlind(j, a)
    <2> DEFINE r == [job[j] EXCEPT !.pc = "send", !.on = a, !.list = job[j].seen, !.behind = TRUE,
                                   !.seen = seen]
    <2>1. job' = [job EXCEPT ![j] = r]
      BY <1>3 DEF TypeOK, BuildBlind
    <2>2. /\ r \in Job /\ r.pc = "send" /\ r.on = a /\ r.ids = job[j].ids /\ r.older = job[j].older
          /\ r.seen = seen /\ r.behind = TRUE
      <3> HIDE DEF seen
      <3> QED BY <1>0, <1>1 DEF Job, Rows
    <2> HIDE DEF r
    <2>3. OnlyJob(j) /\ job'[j] = r
      BY <2>1, <2>2, ReplaceJob
    <2> QED BY <1>0, <2>2, <2>3
  <1> QED BY <1>2, <1>3

\* A list is sent: the jobs that read the targets earlier are behind.
LEMMA SendOthers ==
    ASSUME TypeOK, NEW j \in Jobs, NEW ok \in BOOLEAN, SendList(j, ok), NEW k \in Jobs \ {j}
    PROVE  /\ job'[k] \in Job
           /\ job'[k].pc = job[k].pc /\ job'[k].on = job[k].on /\ job'[k].snap = job[k].snap
           /\ job'[k].seen = job[k].seen /\ job'[k].ids = job[k].ids
           /\ job'[k].list = job[k].list /\ job'[k].older = job[k].older
           /\ k \in job[j].older /\ k \in Syncing => job'[k].behind = TRUE
           /\ ~(k \in job[j].older /\ k \in Syncing) => job'[k].behind = job[k].behind
  <1>1. job[k] \in Job
    BY DEF TypeOK
  <1>2. CASE k \in job[j].older /\ k \in Syncing
    <2>1. job'[k] = [job[k] EXCEPT !.behind = TRUE]
      BY <1>2 DEF SendList
    <2> QED BY <1>1, <1>2, <2>1 DEF Job
  <1>3. CASE ~(k \in job[j].older /\ k \in Syncing)
    <2>1. job'[k] = job[k]
      BY <1>3 DEF SendList
    <2> QED BY <1>1, <1>3, <2>1
  <1> QED BY <1>2, <1>3

\* The sender goes on to the next probe, or is done.
LEMMA SendJob ==
    ASSUME TypeOK, JobsOK, NEW j \in Jobs, NEW ok \in BOOLEAN, SendList(j, ok)
    PROVE  /\ job' \in [Jobs -> Job] /\ job[j].pc = "send"
           /\ job[j].on \in Agents /\ job[j].on \in job[j].ids
           /\ \/ /\ job[j].ids = {job[j].on}
                 /\ job'[j].pc = "done" /\ job'[j].older = {} /\ ~job'[j].behind
              \/ /\ job'[j].pc = "build" /\ job'[j].ids = job[j].ids \ {job[j].on}
                 /\ job'[j].seen = job[j].seen /\ job'[j].older = job[j].older
                 /\ job'[j].behind = job[j].behind
  <1>0. /\ job[j] \in Job /\ job[j].pc = "send" /\ job[j].on \in Agents /\ job[j].on \in job[j].ids
        /\ job[j].ids \in SUBSET Agents
    BY DEF TypeOK, JobsOK, JobOK, SendList, Job
  <1>1. \A k \in Jobs \ {j} : job'[k] \in Job
    BY SendOthers
  <1>2. DOMAIN job' = Jobs /\ job' = [k \in Jobs |-> job'[k]]
    BY DEF SendList
  <1> DEFINE rest == job[j].ids \ {job[j].on}
  <1>3. CASE rest = {}
    <2>1. job'[j] = [NoJob EXCEPT !.pc = "done"]
      BY <1>3 DEF SendList
    <2>2. /\ job'[j] \in Job /\ job'[j].pc = "done" /\ job'[j].older = {} /\ ~job'[j].behind
      BY <2>1, NoJobType
    <2>3. job' \in [Jobs -> Job]
      BY <1>1, <1>2, <2>2
    <2>4. job[j].ids = {job[j].on}
      BY <1>0, <1>3
    <2> QED BY <1>0, <2>2, <2>3, <2>4
  <1>4. CASE rest # {}
    <2>1. job'[j] = [job[j] EXCEPT !.pc = "build", !.ids = rest]
      BY <1>4 DEF SendList
    <2>2. /\ job'[j] \in Job /\ job'[j].pc = "build" /\ job'[j].ids = rest
          /\ job'[j].seen = job[j].seen /\ job'[j].older = job[j].older
          /\ job'[j].behind = job[j].behind
      <3>1. rest \in SUBSET Agents
        BY <1>0
      <3> HIDE DEF rest
      <3> QED BY <1>0, <2>1, <3>1 DEF Job
    <2>3. job' \in [Jobs -> Job]
      BY <1>1, <1>2, <2>2
    <2> QED BY <1>0, <2>2, <2>3
  <1> QED BY <1>3, <1>4

-----------------------------------------------------------------------------
(* The variables keep their types, and the jobs what they hold               *)

\* The steps of the whole system, one job at a time.
LEMMA Cases ==
    ASSUME TypeOK, JobsOK, [Next]_vars
    PROVE  \/ \E j \in Jobs : Aside(j)
           \/ \E j \in Jobs, t \in Targets, b \in Creations : CreateTarget(j, t, b)
           \/ \E j \in Jobs, c \in Updates : UpdateSave(j, c)
           \/ \E j \in Jobs, t \in Targets : DeleteTarget(j, t)
           \/ \E j \in Jobs : PurgeMetrics(j)
           \/ \E j \in Jobs, e \in Edits : EditSave(j, e[1], e[2])
           \/ \E j \in Jobs : ConnectSave(j)
           \/ \E j \in Jobs : Register(j)
           \/ \E j \in Jobs : ReadTargets(j)
           \/ \E j \in Jobs : ReadTargetsFails(j)
           \/ \E j \in Jobs : CollectIDs(j)
           \/ \E j \in Jobs, a \in Agents : Build(j, a) \/ BuildBlind(j, a)
           \/ \E j \in Jobs, ok \in BOOLEAN : SendList(j, ok)
           \/ \E a \in Agents : Apply(a)
           \/ \E a \in Agents : LoseLink(a)
           \/ UNCHANGED <<job, hostVars, probeVars>>
  <1>1. ASSUME NEW j \in Jobs, Begin(j)
        PROVE  \/ Aside(j)
               \/ \E t \in Targets, b \in Creations : CreateTarget(j, t, b)
               \/ \E t \in Targets : DeleteTarget(j, t)
    BY <1>1, UpdateLoadAside, OverrideLoadAside DEF Begin
  <1>2. ASSUME NEW j \in Jobs, JobStep(j)
        PROVE  \/ Aside(j)
               \/ \E c \in Updates : UpdateSave(j, c)
               \/ PurgeMetrics(j)
               \/ \E e \in Edits : EditSave(j, e[1], e[2])
               \/ ConnectSave(j) \/ Register(j) \/ ReadTargets(j) \/ ReadTargetsFails(j)
               \/ CollectIDs(j)
               \/ \E a \in Agents : Build(j, a) \/ BuildBlind(j, a)
               \/ \E ok \in BOOLEAN : SendList(j, ok)
    BY <1>2, SaveFailsAside DEF JobStep
  <1>3. ASSUME \/ \E a \in Agents : InsertMetrics(a)
               \/ \E a \in Agents, t \in Targets, s \in Stamps : ReceiveReport(a, t, s)
               \/ \E t \in Targets : Prune(t)
        PROVE  UNCHANGED <<job, hostVars, probeVars>>
    BY <1>3 DEF InsertMetrics, ReceiveReport, Prune
  <1>4. CASE UNCHANGED vars
    BY <1>4 DEF vars, hostVars, probeVars
  <1>5. CASE \E j \in Jobs : Begin(j)
    BY <1>1, <1>5
  <1>6. CASE \E j \in Jobs : JobStep(j)
    BY <1>2, <1>6
  <1> QED BY <1>3, <1>4, <1>5, <1>6 DEF Next

\* The rows that are written are rows.
LEMMA RowTypes ==
    /\ \A r \in TargetRow : Inserted(r) \in TargetRow /\ \A b \in BOOLEAN : [r EXCEPT !.noRoute = b] \in TargetRow
    /\ \A r \in TargetRow : [r EXCEPT !.life = "gone"] \in TargetRow
    /\ \A r \in TargetRow, c \in Updates : Changed(r, c) \in TargetRow
    /\ \A r \in OverrideRow, e \in Edits : With(r, e[1], e[2]) \in OverrideRow
  <1>1. \A r \in TargetRow : Inserted(r) \in TargetRow /\ \A b \in BOOLEAN : [r EXCEPT !.noRoute = b] \in TargetRow
    BY DEF TargetRow, Inserted
  <1>2. \A r \in TargetRow : [r EXCEPT !.life = "gone"] \in TargetRow
    BY DEF TargetRow
  <1>3. ASSUME NEW r \in TargetRow, NEW c \in Updates PROVE Changed(r, c) \in TargetRow
    <2>1. c[2] \in BOOLEAN
      BY SyncAssumption
    <2> QED BY <2>1 DEF TargetRow, Changed
  <1>4. ASSUME NEW r \in OverrideRow, NEW e \in Edits PROVE With(r, e[1], e[2]) \in OverrideRow
    <2>1. e[2] \in SUBSET Targets
      BY SyncAssumption
    <2> QED BY <2>1 DEF OverrideRow, With
  <1> QED BY <1>1, <1>2, <1>3, <1>4

\* A new connection, or none: an empty queue.
LEMMA LinkTypes ==
    ASSUME TypeOK, NEW a \in Agents, queue' = [queue EXCEPT ![a] = <<>>]
    PROVE  queue' \in [Agents -> Seq(List)]
  <1>1. <<>> \in Seq(List)
    OBVIOUS
  <1> QED BY <1>1 DEF TypeOK

\* What a job does to the tables of the probes.
LEMMA ProbeTypes ==
    ASSUME TypeOK, JobsOK, [Next]_vars
    PROVE  /\ linked' \in SUBSET Agents /\ queue' \in [Agents -> Seq(List)]
           /\ config' \in [Agents -> List] /\ lost' \in SUBSET Agents /\ overtaken' \in SUBSET Agents
  <1>0. /\ linked \in SUBSET Agents /\ queue \in [Agents -> Seq(List)]
        /\ config \in [Agents -> List] /\ lost \in SUBSET Agents /\ overtaken \in SUBSET Agents
    BY DEF TypeOK
  <1> DEFINE Typed == /\ linked' \in SUBSET Agents /\ queue' \in [Agents -> Seq(List)]
                      /\ config' \in [Agents -> List]
                      /\ lost' \in SUBSET Agents /\ overtaken' \in SUBSET Agents
  <1>1. ASSUME UNCHANGED probeVars
        PROVE  Typed
    BY <1>0, <1>1 DEF probeVars
  <1>2. ASSUME NEW j \in Jobs, Register(j)
        PROVE  Typed
    <2>1. job[j].on \in Agents
      BY <1>2 DEF Register, JobsOK, JobOK
    <2> QED BY <1>0, <1>2, <2>1, LinkTypes DEF Register
  <1>3. ASSUME NEW j \in Jobs, NEW ok \in BOOLEAN, SendList(j, ok)
        PROVE  Typed
    <2>1. job[j].on \in Agents /\ job[j].list \in List
      <3>1. job[j] \in Job
        BY DEF TypeOK
      <3>2. job[j].list \in List
        BY <3>1 DEF Job
      <3>3. job[j].on \in Agents
        BY <1>3, SendJob
      <3> QED BY <3>2, <3>3
    <2>2. Append(queue[job[j].on], job[j].list) \in Seq(List)
      BY <1>0, <2>1
    <2>3. queue' = queue \/ queue' = [queue EXCEPT ![job[j].on] = Append(@, job[j].list)]
      BY <1>3 DEF SendList
    <2>4. queue' \in [Agents -> Seq(List)]
      BY <1>0, <2>1, <2>2, <2>3
    <2>5. /\ linked' = linked /\ config' = config
          /\ lost' = lost \/ lost' = lost \cup {job[j].on}
          /\ overtaken' = overtaken \/ overtaken' = overtaken \cup {job[j].on}
      BY <1>3 DEF SendList
    <2> QED BY <1>0, <2>1, <2>4, <2>5
  <1>4. ASSUME NEW a \in Agents, Apply(a)
        PROVE  Typed
    <2>1. Head(queue[a]) \in List /\ Tail(queue[a]) \in Seq(List)
      BY <1>0, <1>4 DEF Apply
    <2> QED BY <1>0, <1>4, <2>1 DEF Apply
  <1>5. ASSUME NEW a \in Agents, LoseLink(a)
        PROVE  Typed
    BY <1>0, <1>5, LinkTypes DEF LoseLink
  <1>6. ASSUME NEW j \in Jobs, ReadTargetsFails(j)
        PROVE  Typed
    BY <1>0, <1>6 DEF ReadTargetsFails
  <1>7. ASSUME \/ \E j \in Jobs : Aside(j)
               \/ \E j \in Jobs, t \in Targets, b \in Creations : CreateTarget(j, t, b)
               \/ \E j \in Jobs, c \in Updates : UpdateSave(j, c)
               \/ \E j \in Jobs, t \in Targets : DeleteTarget(j, t)
               \/ \E j \in Jobs : PurgeMetrics(j) \/ ConnectSave(j)
               \/ \E j \in Jobs, e \in Edits : EditSave(j, e[1], e[2])
        PROVE  UNCHANGED probeVars
    BY <1>7 DEF Aside, CreateTarget, UpdateSave, DeleteTarget, PurgeMetrics, ConnectSave, EditSave
  <1>8. ASSUME \/ \E j \in Jobs : ReadTargets(j) \/ CollectIDs(j)
               \/ \E j \in Jobs, a \in Agents : Build(j, a) \/ BuildBlind(j, a)
        PROVE  UNCHANGED probeVars
    <2>1. CASE \E j \in Jobs : ReadTargets(j) \/ CollectIDs(j)
      BY <2>1 DEF ReadTargets, CollectIDs
    <2>2. CASE \E j \in Jobs, a \in Agents : Build(j, a) \/ BuildBlind(j, a)
      BY <2>2 DEF Build, BuildBlind
    <2> QED BY <1>8, <2>1, <2>2
  <1> HIDE DEF Typed
  <1>9. Typed
    BY <1>1, <1>2, <1>3, <1>4, <1>5, <1>6, <1>7, <1>8, Cases
  <1> QED BY <1>9 DEF Typed

\* The reports being persisted and the metrics.
LEMMA MetricTypes ==
    ASSUME TypeOK, JobsOK, [Next]_vars
    PROVE  /\ metrics' \in [Targets -> SUBSET Stamps]
           /\ report' \in [Agents -> [target : Targets, stamp : Stamps] \cup {Nil}]
  <1> DEFINE Typed == /\ metrics' \in [Targets -> SUBSET Stamps]
                      /\ report' \in [Agents -> [target : Targets, stamp : Stamps] \cup {Nil}]
  <1>0. /\ metrics \in [Targets -> SUBSET Stamps]
        /\ report \in [Agents -> [target : Targets, stamp : Stamps] \cup {Nil}]
    BY DEF TypeOK
  <1>1. ASSUME UNCHANGED metricVars PROVE Typed
    BY <1>0, <1>1 DEF metricVars
  <1>2. ASSUME NEW j \in Jobs, PurgeMetrics(j) PROVE Typed
    BY <1>0, <1>2 DEF PurgeMetrics
  <1>3. ASSUME NEW a \in Agents, InsertMetrics(a) PROVE Typed
    <2>1. report[a].target \in Targets /\ report[a].stamp \in Stamps
      BY <1>0, <1>3 DEF InsertMetrics
    <2>2. metrics' = [metrics EXCEPT ![report[a].target] = @ \cup {report[a].stamp}]
      BY <1>3 DEF InsertMetrics
    <2>3. metrics' \in [Targets -> SUBSET Stamps]
      BY <1>0, <2>1, <2>2
    <2> QED BY <1>0, <1>3, <2>3 DEF InsertMetrics
  <1>4. ASSUME NEW a \in Agents, NEW t \in Targets, NEW s \in Stamps, ReceiveReport(a, t, s) PROVE Typed
    <2>1. [target |-> t, stamp |-> Stamp(s)] \in [target : Targets, stamp : Stamps]
      BY DEF Stamp, Stamps
    <2> QED BY <1>0, <1>4, <2>1 DEF ReceiveReport
  <1>5. ASSUME NEW t \in Targets, Prune(t) PROVE Typed
    BY <1>0, <1>5 DEF Prune
  <1>6. ASSUME NEW j \in Jobs, Begin(j) PROVE UNCHANGED metricVars
    <2>1. ASSUME NEW t \in Targets, NEW b \in Creations, CreateTarget(j, t, b) PROVE UNCHANGED metricVars
      BY <2>1 DEF CreateTarget
    <2>2. ASSUME NEW t \in Targets, UpdateLoad(j, t) \/ DeleteTarget(j, t) PROVE UNCHANGED metricVars
      BY <2>2 DEF UpdateLoad, DeleteTarget
    <2>3. ASSUME NEW a \in Agents, EditLoad(j, a) \/ Connect(j, a) PROVE UNCHANGED metricVars
      BY <2>3 DEF EditLoad, Connect
    <2> QED BY <1>6, <2>1, <2>2, <2>3 DEF Begin
  <1>7. ASSUME NEW j \in Jobs, JobStep(j), ~PurgeMetrics(j) PROVE UNCHANGED metricVars
    <2>1. ASSUME NEW c \in Updates, UpdateSave(j, c) PROVE UNCHANGED metricVars
      BY <2>1 DEF UpdateSave
    <2>2. ASSUME NEW e \in Edits, EditSave(j, e[1], e[2]) PROVE UNCHANGED metricVars
      BY <2>2 DEF EditSave
    <2>3. ASSUME SaveFails(j) \/ ConnectSave(j) \/ Register(j) PROVE UNCHANGED metricVars
      BY <2>3 DEF SaveFails, ConnectSave, Register
    <2>4. ASSUME ReadTargets(j) \/ ReadTargetsFails(j) \/ CollectIDs(j) PROVE UNCHANGED metricVars
      BY <2>4 DEF ReadTargets, ReadTargetsFails, CollectIDs
    <2>5. ASSUME NEW a \in Agents, Build(j, a) \/ BuildBlind(j, a) PROVE UNCHANGED metricVars
      BY <2>5 DEF Build, BuildBlind
    <2>6. ASSUME NEW ok \in BOOLEAN, SendList(j, ok) PROVE UNCHANGED metricVars
      BY <2>6 DEF SendList
    <2> QED BY <1>7, <2>1, <2>2, <2>3, <2>4, <2>5, <2>6 DEF JobStep
  <1>8. ASSUME NEW a \in Agents, Apply(a) \/ LoseLink(a) PROVE UNCHANGED metricVars
    BY <1>8 DEF Apply, LoseLink
  <1>9. CASE UNCHANGED vars
    <2>1. UNCHANGED metricVars
      BY <1>9 DEF vars, metricVars
    <2> QED BY <1>1, <2>1
  <1> HIDE DEF Typed
  <1>10. ASSUME NEW j \in Jobs, Begin(j) \/ JobStep(j) PROVE Typed
    <2>1. PurgeMetrics(j) \/ UNCHANGED metricVars
      BY <1>6, <1>7, <1>10
    <2>2. CASE PurgeMetrics(j)
      BY <1>2, <2>2
    <2>3. CASE UNCHANGED metricVars
      BY <1>1, <2>3
    <2> QED BY <2>1, <2>2, <2>3
  <1>11. ASSUME NEW a \in Agents, \/ Apply(a) \/ LoseLink(a) \/ InsertMetrics(a)
                                  \/ \E t \in Targets, s \in Stamps : ReceiveReport(a, t, s)
         PROVE  Typed
    <2>1. CASE Apply(a) \/ LoseLink(a)
      BY <1>1, <1>8, <2>1
    <2>2. CASE InsertMetrics(a)
      BY <1>3, <2>2
    <2>3. CASE \E t \in Targets, s \in Stamps : ReceiveReport(a, t, s)
      BY <1>4, <2>3
    <2> QED BY <1>11, <2>1, <2>2, <2>3
  <1>12. ASSUME Next PROVE Typed
    BY <1>5, <1>10, <1>11, <1>12 DEF Next
  <1> QED BY <1>9, <1>12 DEF Typed

\* The rows.
LEMMA HostTypes ==
    ASSUME TypeOK, JobsOK, [Next]_vars
    PROVE  /\ table' \in [Targets -> TargetRow] /\ over' \in [Agents -> OverrideRow]
           /\ asked' \in [Rows -> TargetRow \cup OverrideRow] /\ overlapped' \in SUBSET Rows
           /\ defaulted' \in SUBSET Targets
           /\ \A r \in Rows : asked'[r] \in IF r \in Targets THEN TargetRow ELSE OverrideRow
  <1> DEFINE Typed == /\ table' \in [Targets -> TargetRow] /\ over' \in [Agents -> OverrideRow]
                      /\ asked' \in [Rows -> TargetRow \cup OverrideRow] /\ overlapped' \in SUBSET Rows
                      /\ defaulted' \in SUBSET Targets
                      /\ \A r \in Rows : asked'[r] \in IF r \in Targets THEN TargetRow ELSE OverrideRow
  <1>0. /\ table \in [Targets -> TargetRow] /\ over \in [Agents -> OverrideRow]
        /\ asked \in [Rows -> TargetRow \cup OverrideRow] /\ overlapped \in SUBSET Rows
        /\ \A r \in Rows : asked[r] \in IF r \in Targets THEN TargetRow ELSE OverrideRow
        /\ defaulted \in SUBSET Targets
        /\ Targets \subseteq Rows /\ Agents \subseteq Rows /\ Targets \cap Agents = {}
    BY SyncAssumption DEF TypeOK, Rows
  <1>1. ASSUME UNCHANGED hostVars PROVE Typed
    BY <1>0, <1>1 DEF hostVars
  <1>2. ASSUME NEW r \in Rows, NEW j, Overlap(j, r) PROVE overlapped' \in SUBSET Rows
    BY <1>0, <1>2 DEF Overlap
  <1>3. ASSUME NEW r \in Rows, NEW v \in IF r \in Targets THEN TargetRow ELSE OverrideRow,
               asked' = [asked EXCEPT ![r] = v]
        PROVE  /\ asked' \in [Rows -> TargetRow \cup OverrideRow]
               /\ \A q \in Rows : asked'[q] \in IF q \in Targets THEN TargetRow ELSE OverrideRow
    BY <1>0, <1>3
  <1>4. ASSUME NEW t \in Targets, NEW v \in TargetRow, NEW w \in TargetRow,
               table' = [table EXCEPT ![t] = v], asked' = [asked EXCEPT ![t] = w],
               over' = over, overlapped' \in SUBSET Rows, defaulted' \in SUBSET Targets
        PROVE  Typed
    BY <1>0, <1>3, <1>4
  <1>5. ASSUME NEW a \in Agents, NEW v \in OverrideRow, NEW w \in OverrideRow,
               over' = [over EXCEPT ![a] = v], asked' = [asked EXCEPT ![a] = w],
               table' = table, overlapped' \in SUBSET Rows, defaulted' = defaulted
        PROVE  Typed
    BY <1>0, <1>3, <1>5
  <1>6. ASSUME NEW j \in Jobs, NEW t \in Targets, NEW b \in Creations, CreateTarget(j, t, b) PROVE Typed
    <2> DEFINE v == Inserted(b)
    <2>1. b \in TargetRow
      BY DEF Creations, TargetRow
    <2>2. v \in TargetRow
      BY <2>1, RowTypes
    <2>3. table' = [table EXCEPT ![t] = v] /\ over' = over /\ overlapped' = overlapped
      BY <1>6 DEF CreateTarget
    <2>4. asked' = [asked EXCEPT ![t] = b] /\ defaulted' \in SUBSET Targets
      BY <1>0, <1>6 DEF CreateTarget
    <2> HIDE DEF v
    <2> QED BY <1>0, <1>4, <2>1, <2>2, <2>3, <2>4
  <1>7. ASSUME NEW j \in Jobs, NEW c \in Updates, UpdateSave(j, c) PROVE Typed
    <2> DEFINE t == job[j].on
               r == Changed(job[j].snap, c)
    <2>1. t \in Targets /\ job[j].snap \in TargetRow
      BY <1>7 DEF UpdateSave, JobsOK, JobOK
    <2>2. r \in TargetRow /\ Inserted(r) \in TargetRow
      BY <2>1, RowTypes
    <2> HIDE DEF r, t
    <2>3. PICK v \in TargetRow : table' = [table EXCEPT ![t] = v]
      BY <1>0, <1>7, <2>1, <2>2 DEF UpdateSave, r, t
    <2>4. over' = over /\ overlapped' \in SUBSET Rows /\ defaulted' \in SUBSET Targets
      BY <1>0, <1>2, <1>7, <2>1 DEF UpdateSave, t
    <2>5. asked[t] \in TargetRow
      BY <1>0, <2>1
    <2>6. Changed(asked[t], c) \in TargetRow
      BY <2>5, RowTypes
    <2>7. PICK w \in TargetRow : asked' = [asked EXCEPT ![t] = w]
      <3>1. table'[t] \in TargetRow
        BY <1>0, <2>1, <2>3
      <3>2. asked' = [asked EXCEPT ![t] = IF t \in overlapped' THEN table'[t] ELSE Changed(asked[t], c)]
        BY <1>7 DEF UpdateSave, Changed, t
      <3> QED BY <2>6, <3>1, <3>2
    <2> QED BY <1>4, <2>1, <2>3, <2>4, <2>7
  <1>8. ASSUME NEW j \in Jobs, NEW t \in Targets, DeleteTarget(j, t) PROVE Typed
    <2> DEFINE v == [table[t] EXCEPT !.life = "gone"]
               w == [asked[t] EXCEPT !.life = "gone"]
    <2>1. v \in TargetRow /\ w \in TargetRow
      BY <1>0, RowTypes
    <2>2. table' = [table EXCEPT ![t] = v] /\ over' = over /\ defaulted' = defaulted
      BY <1>8 DEF DeleteTarget
    <2>3. overlapped' \in SUBSET Rows
      BY <1>0, <1>2, <1>8 DEF DeleteTarget
    <2>4. asked' = [asked EXCEPT ![t] = IF t \in overlapped' THEN table'[t] ELSE w]
      BY <1>8 DEF DeleteTarget
    <2> HIDE DEF v, w
    <2>5. (IF t \in overlapped' THEN table'[t] ELSE w) \in TargetRow
      BY <1>0, <2>1, <2>2
    <2> QED BY <1>0, <1>4, <2>1, <2>2, <2>3, <2>4, <2>5
  <1>9. ASSUME NEW j \in Jobs, NEW e \in Edits, EditSave(j, e[1], e[2]) PROVE Typed
    <2> DEFINE a == job[j].on
               v == With(job[j].snap, e[1], e[2])
               w == With(asked[a], e[1], e[2])
    <2>1. a \in Agents /\ job[j].snap \in OverrideRow
      BY <1>9 DEF EditSave, JobsOK, JobOK
    <2>2. asked[a] \in OverrideRow
      BY <1>0, <2>1
    <2>3. v \in OverrideRow /\ w \in OverrideRow
      BY <2>1, <2>2, RowTypes
    <2>4. over' = [over EXCEPT ![a] = v] /\ table' = table /\ defaulted' = defaulted
      BY <1>9 DEF EditSave
    <2>5. overlapped' \in SUBSET Rows
      BY <1>0, <1>2, <1>9, <2>1 DEF EditSave
    <2>6. asked' = [asked EXCEPT ![a] = IF a \in overlapped' THEN over'[a] ELSE w]
      BY <1>9 DEF EditSave, With
    <2> HIDE DEF a, v, w
    <2>7. (IF a \in overlapped' THEN over'[a] ELSE w) \in OverrideRow
      BY <1>0, <2>1, <2>3, <2>4
    <2> QED BY <1>5, <2>1, <2>3, <2>4, <2>5, <2>6, <2>7
  <1>10. ASSUME NEW j \in Jobs, ConnectSave(j) PROVE Typed
    <2> DEFINE a == job[j].on
    <2>1. a \in Agents /\ job[j].snap \in OverrideRow
      BY <1>10 DEF ConnectSave, JobsOK, JobOK
    <2>2. asked[a] \in OverrideRow
      BY <1>0, <2>1
    <2>3. CASE UNCHANGED <<over, overlapped, asked>>
      BY <1>0, <1>10, <2>3 DEF ConnectSave
    <2>4. CASE ~UNCHANGED <<over, overlapped, asked>>
      <3>1. /\ over' = [over EXCEPT ![a] = job[j].snap] /\ table' = table /\ Overlap(j, a)
            /\ defaulted' = defaulted
            /\ asked' = [asked EXCEPT ![a] = IF a \in overlapped' THEN over'[a] ELSE asked[a]]
        BY <1>10, <2>4 DEF ConnectSave
      <3> HIDE DEF a
      <3>2. overlapped' \in SUBSET Rows
        BY <1>0, <1>2, <2>1, <3>1
      <3>3. (IF a \in overlapped' THEN over'[a] ELSE asked[a]) \in OverrideRow
        BY <1>0, <2>1, <2>2, <3>1
      <3> QED BY <1>5, <2>1, <3>1, <3>2, <3>3
    <2> QED BY <2>3, <2>4
  <1>11. ASSUME NEW j \in Jobs, Aside(j) \/ PurgeMetrics(j) \/ Register(j) PROVE UNCHANGED hostVars
    BY <1>11 DEF Aside, PurgeMetrics, Register
  <1>12. ASSUME NEW j \in Jobs, ReadTargets(j) \/ ReadTargetsFails(j) \/ CollectIDs(j) PROVE UNCHANGED hostVars
    BY <1>12 DEF ReadTargets, ReadTargetsFails, CollectIDs
  <1>13. ASSUME NEW j \in Jobs, NEW a \in Agents, Build(j, a) \/ BuildBlind(j, a) PROVE UNCHANGED hostVars
    BY <1>13 DEF Build, BuildBlind
  <1>14. ASSUME NEW j \in Jobs, NEW ok \in BOOLEAN, SendList(j, ok) PROVE UNCHANGED hostVars
    BY <1>14 DEF SendList
  <1>15. ASSUME NEW a \in Agents, Apply(a) \/ LoseLink(a) PROVE UNCHANGED hostVars
    BY <1>15 DEF Apply, LoseLink
  <1> HIDE DEF Typed
  <1>16. UNCHANGED hostVars \/ Typed
    BY <1>6, <1>7, <1>8, <1>9, <1>10, <1>11, <1>12, <1>13, <1>14, <1>15, Cases
  <1> QED BY <1>1, <1>16 DEF Typed

\* A step of one job leaves what the others hold alone.
LEMMA OneJobOK ==
    ASSUME TypeOK, JobsOK, NEW j \in Jobs, OnlyJob(j), JobOK(j)'
    PROVE  job' \in [Jobs -> Job] /\ JobsOK'
  <1>1. ASSUME NEW k \in Jobs \ {j} PROVE JobOK(k)'
    <2>1. job'[k] = job[k] /\ JobOK(k)
      BY DEF OnlyJob, JobsOK
    <2> QED BY <2>1 DEF JobOK, Syncing
  <1> QED BY <1>1 DEF OnlyJob, JobsOK

\* The jobs keep what they hold.
LEMMA JobsStep ==
    ASSUME TypeOK, JobsOK, [Next]_vars
    PROVE  job' \in [Jobs -> Job] /\ JobsOK'
  <1> DEFINE Kept == job' \in [Jobs -> Job] /\ JobsOK'
  <1>1. ASSUME NEW j \in Jobs, Aside(j) PROVE Kept
    <2>1. JobOK(j)'
      <3>1. /\ \A t \in Targets : table[t] \in TargetRow
            /\ \A a \in Agents : over[a] \in OverrideRow
        BY DEF TypeOK
      <3> QED BY <1>1, <3>1 DEF Aside, JobOK, Syncing
    <2> QED BY <1>1, <2>1, OneJobOK DEF Aside
  <1>2. ASSUME NEW j \in Jobs, Announces(j) PROVE Kept
    <2>1. JobOK(j)'
      BY <1>2 DEF Announces, JobOK, Syncing
    <2> QED BY <1>2, <2>1, OneJobOK DEF Announces
  <1>3. ASSUME NEW j \in Jobs, ReadTargets(j) PROVE Kept
    <2>1. OnlyJob(j) /\ job'[j].pc \in {"collect", "build"}
      BY <1>3, ReadTargetsJob
    <2>2. JobOK(j)'
      BY <2>1 DEF JobOK, Syncing
    <2> QED BY <2>1, <2>2, OneJobOK
  <1>4. ASSUME NEW j \in Jobs, ReadTargetsFails(j) PROVE Kept
    <2>1. OnlyJob(j) /\ job'[j].pc = "done" /\ job'[j].older = {} /\ ~job'[j].behind
      BY <1>4, ReadFailsJob
    <2>2. JobOK(j)'
      BY <2>1 DEF JobOK, Syncing
    <2> QED BY <2>1, <2>2, OneJobOK
  <1>5. ASSUME NEW j \in Jobs, CollectIDs(j) PROVE Kept
    <2>1. /\ OnlyJob(j)
          /\ \/ job'[j].pc = "done" /\ job'[j].older = {} /\ ~job'[j].behind
             \/ job'[j].pc = "build"
      BY <1>5, CollectJob
    <2>2. JobOK(j)'
      BY <2>1 DEF JobOK, Syncing
    <2> QED BY <2>1, <2>2, OneJobOK
  <1>6. ASSUME NEW j \in Jobs, NEW a \in Agents, Build(j, a) \/ BuildBlind(j, a) PROVE Kept
    <2>1. OnlyJob(j) /\ job'[j].pc = "send" /\ job'[j].on \in job'[j].ids
      BY <1>6, BuildJob
    <2>2. JobOK(j)'
      BY <2>1 DEF JobOK, Syncing
    <2> QED BY <2>1, <2>2, OneJobOK
  <1>7. ASSUME NEW j \in Jobs, NEW ok \in BOOLEAN, SendList(j, ok) PROVE Kept
    <2>1. job' \in [Jobs -> Job]
      BY <1>7, SendJob
    <2>2. JobOK(j)'
      <3>1. \/ job'[j].pc = "done" /\ job'[j].older = {} /\ ~job'[j].behind
            \/ job'[j].pc = "build"
        BY <1>7, SendJob
      <3> QED BY <3>1 DEF JobOK, Syncing
    <2>3. ASSUME NEW k \in Jobs \ {j} PROVE JobOK(k)'
      <3>1. /\ job'[k].pc = job[k].pc /\ job'[k].on = job[k].on /\ job'[k].snap = job[k].snap
            /\ job'[k].ids = job[k].ids /\ job'[k].older = job[k].older
            /\ ~(k \in job[j].older /\ k \in Syncing) => job'[k].behind = job[k].behind
        BY <1>7, SendOthers
      <3> QED BY <3>1 DEF JobsOK, JobOK, Syncing
    <2> QED BY <2>1, <2>2, <2>3 DEF JobsOK
  <1>8. ASSUME job' = job PROVE Kept
    BY <1>8 DEF TypeOK, JobsOK, JobOK, Syncing
  <1>9. ASSUME \/ \E j \in Jobs, t \in Targets, b \in Creations : CreateTarget(j, t, b)
               \/ \E j \in Jobs, c \in Updates : UpdateSave(j, c)
               \/ \E j \in Jobs, t \in Targets : DeleteTarget(j, t)
               \/ \E j \in Jobs : PurgeMetrics(j)
               \/ \E j \in Jobs, e \in Edits : EditSave(j, e[1], e[2])
               \/ \E j \in Jobs : ConnectSave(j)
               \/ \E j \in Jobs : Register(j)
        PROVE  \E j \in Jobs : Announces(j)
    BY <1>9, BroadcastAnnounces, DeleteAnnounces, ProbeAnnounces
  <1>10. ASSUME UNCHANGED <<job, hostVars, probeVars>> \/ \E a \in Agents : Apply(a) \/ LoseLink(a)
         PROVE  job' = job
    BY <1>10 DEF Apply, LoseLink
  <1> HIDE DEF Kept
  <1>11. Kept
    BY <1>1, <1>2, <1>3, <1>4, <1>5, <1>6, <1>7, <1>8, <1>9, <1>10, Cases
  <1> QED BY <1>11 DEF Kept

\* The types.
LEMMA TypeStep ==
    ASSUME TypeOK, JobsOK, [Next]_vars
    PROVE  TypeOK'
  BY JobsStep, HostTypes, ProbeTypes, MetricTypes DEF TypeOK

\* The program starts well typed, with no job begun.
LEMMA InitTypes ==
    ASSUME Init
    PROVE  TypeOK /\ JobsOK
  <1>1. table \in [Targets -> TargetRow] /\ over \in [Agents -> OverrideRow]
    <2>1. \A l \in {"unborn", "stored"} : [life |-> l, enabled |-> TRUE, noRoute |-> FALSE] \in TargetRow
      BY DEF TargetRow
    <2>2. table \in [Targets -> TargetRow]
      BY <2>1 DEF Init
    <2>3. [noRoute |-> {}, paused |-> {}] \in OverrideRow
      BY DEF OverrideRow
    <2> QED BY <2>2, <2>3 DEF Init
  <1>2. job \in [Jobs -> Job] /\ \A j \in Jobs : job[j] = NoJob
    BY NoJobType DEF Init
  <1>3. config \in [Agents -> List]
    <2>1. EnabledTargets \in List
      BY DEF EnabledTargets, List
    <2>2. \A a \in Agents : Desired(a) \in List
      BY <1>1, <2>1 DEF Desired, WithOverrides, List
    <2> QED BY <2>2 DEF Init
  <1>4. queue \in [Agents -> Seq(List)]
    BY DEF Init
  <1>5. /\ asked \in [Rows -> TargetRow \cup OverrideRow]
        /\ \A r \in Rows : asked[r] \in IF r \in Targets THEN TargetRow ELSE OverrideRow
    <2>1. asked = [r \in Rows |-> IF r \in Targets THEN table[r] ELSE over[r]]
      BY DEF Init
    <2> QED BY <1>1, <2>1 DEF Rows
  <1>6. /\ linked \in SUBSET Agents /\ metrics \in [Targets -> SUBSET Stamps]
        /\ overlapped \in SUBSET Rows /\ defaulted \in SUBSET Targets /\ lost \in SUBSET Agents /\ overtaken \in SUBSET Agents
        /\ report \in [Agents -> [target : Targets, stamp : Stamps] \cup {Nil}]
    BY DEF Init
  <1>7. TypeOK
    BY <1>1, <1>2, <1>3, <1>4, <1>5, <1>6 DEF TypeOK
  <1>8. JobsOK
    BY <1>2 DEF JobsOK, JobOK, NoJob
  <1> QED BY <1>7, <1>8

\* The variables of the model have their types, and a job holds what it needs.
THEOREM SyncTypes == Spec => [](TypeOK /\ JobsOK)
  <1>1. Init => TypeOK /\ JobsOK
    BY InitTypes
  <1>2. (TypeOK /\ JobsOK) /\ [Next]_vars => (TypeOK /\ JobsOK)'
    BY TypeStep, JobsStep
  <1> QED BY <1>1, <1>2, PTL DEF Spec

-----------------------------------------------------------------------------
(* A row is what the requests made of it                                     *)

\* While nobody saves a row, the copies of it stay what it is.
LEMMA SnapsQuiet ==
    ASSUME TypeOK, JobsOK, SnapsCurrent, TablesFollowAdmins, UNCHANGED hostVars, NEW j \in Jobs,
           \A k \in Jobs \ {j} : /\ job'[k].pc = job[k].pc /\ job'[k].on = job[k].on
                                 /\ job'[k].snap = job[k].snap,
           \/ job'[j].pc \notin {"update", "edit", "loaded"}
           \/ job'[j].pc = "update" /\ job'[j].snap = table[job'[j].on]
           \/ job'[j].pc \in {"edit", "loaded"} /\ job'[j].snap = over[job'[j].on]
    PROVE  SnapsCurrent' /\ TablesFollowAdmins'
  <1>1. UNCHANGED <<table, over, asked, overlapped, defaulted>>
    BY DEF hostVars
  <1>2. TablesFollowAdmins'
    BY <1>1 DEF TablesFollowAdmins, Meant
  <1>3. ASSUME NEW k \in Jobs \ {j} PROVE SnapCurrent(k)'
    BY <1>1 DEF SnapsCurrent, SnapCurrent
  <1>4. SnapCurrent(j)'
    BY <1>1 DEF SnapCurrent
  <1> QED BY <1>2, <1>3, <1>4 DEF SnapsCurrent

\* Job j saves row q: the copies others hold of it are old, and said to be.
LEMMA SnapsSaved ==
    ASSUME TypeOK, JobsOK, SnapsCurrent, TablesFollowAdmins, NEW j \in Jobs, NEW q \in Rows,
           OnlyJob(j), job'[j].pc \notin {"update", "edit", "loaded"},
           Overlap(j, q) \/ (overlapped' = overlapped /\ (q \in overlapped \/ Holding(q) = {})),
           \A t \in Targets \ {q} : table'[t] = table[t],
           \A a \in Agents \ {q} : over'[a] = over[a],
           \A r \in Rows \ {q} : asked'[r] = asked[r],
           \A r \in Rows \ {q} : r \in defaulted' <=> r \in defaulted,
           q \notin overlapped' => asked'[q] = Meant(q)'
    PROVE  SnapsCurrent' /\ TablesFollowAdmins'
  <1>0. overlapped \subseteq overlapped'
    BY DEF Overlap
  <1>1. TablesFollowAdmins'
    <2> SUFFICES ASSUME NEW r \in Rows \ overlapped'
                 PROVE  asked'[r] = Meant(r)'
      BY DEF TablesFollowAdmins
    <2>1. CASE r = q
      BY <2>1
    <2>2. CASE r # q
      <3>1. asked[r] = Meant(r)
        BY <1>0 DEF TablesFollowAdmins
      <3>2. Meant(r)' = Meant(r)
        BY <2>2 DEF Meant, Rows, TypeOK
      <3> QED BY <2>2, <3>1, <3>2
    <2> QED BY <2>1, <2>2
  <1>2. ASSUME NEW k \in Jobs \ {j} PROVE SnapCurrent(k)'
    <2>1. job'[k] = job[k]
      BY DEF OnlyJob
    <2> SUFFICES ASSUME job[k].on \notin overlapped', job[k].pc \in {"update", "edit", "loaded"}
                 PROVE  /\ job[k].pc = "update" => job[k].snap = table'[job[k].on]
                        /\ job[k].pc \in {"edit", "loaded"} => job[k].snap = over'[job[k].on]
      BY <2>1 DEF SnapCurrent
    <2>2. job[k].on # q
      BY <1>0 DEF Overlap, Holding
    <2>3. /\ job[k].pc = "update" => job[k].snap = table[job[k].on] /\ job[k].on \in Targets
          /\ job[k].pc \in {"edit", "loaded"} => job[k].snap = over[job[k].on] /\ job[k].on \in Agents
      BY <1>0 DEF SnapsCurrent, SnapCurrent, JobsOK, JobOK
    <2> QED BY <2>2, <2>3
  <1>3. SnapCurrent(j)'
    BY DEF SnapCurrent
  <1> QED BY <1>1, <1>2, <1>3 DEF SnapsCurrent

\* A row's columns are written independently of each other.
LEMMA ColumnsApart ==
    ASSUME NEW r \in TargetRow, NEW b
    PROVE  /\ [[r EXCEPT !.enabled = FALSE] EXCEPT !.noRoute = b] =
                 [[r EXCEPT !.noRoute = b] EXCEPT !.enabled = FALSE]
           /\ [[r EXCEPT !.enabled = FALSE] EXCEPT !.life = b] =
                 [[r EXCEPT !.life = b] EXCEPT !.enabled = FALSE]
           /\ [[r EXCEPT !.enabled = FALSE] EXCEPT !.enabled = b] = [r EXCEPT !.enabled = b]
  BY DEF TargetRow

\* Every step keeps the copies and the rows.
LEMMA AdminStep ==
    ASSUME TypeOK, JobsOK, SnapsCurrent, TablesFollowAdmins, [Next]_vars
    PROVE  SnapsCurrent' /\ TablesFollowAdmins'
  <1> DEFINE Kept == SnapsCurrent' /\ TablesFollowAdmins'
  <1>0. /\ table \in [Targets -> TargetRow] /\ over \in [Agents -> OverrideRow]
        /\ asked \in [Rows -> TargetRow \cup OverrideRow] /\ overlapped \in SUBSET Rows
        /\ defaulted \in SUBSET Targets
        /\ Targets \subseteq Rows /\ Agents \subseteq Rows /\ Targets \cap Agents = {}
    BY SyncAssumption DEF TypeOK, Rows
  <1>1. ASSUME NEW j \in Jobs, Aside(j) PROVE Kept
    <2>1. /\ UNCHANGED hostVars /\ \A k \in Jobs \ {j} : job'[k] = job[k]
          /\ \/ job'[j].pc = "done"
             \/ job'[j].pc = "update" /\ job'[j].snap = table[job'[j].on]
             \/ job'[j].pc \in {"edit", "loaded"} /\ job'[j].snap = over[job'[j].on]
      BY <1>1 DEF Aside, OnlyJob
    <2> QED BY <2>1, SnapsQuiet
  <1>2. ASSUME NEW j \in Jobs, PurgeMetrics(j) \/ Register(j) PROVE Kept
    <2>1. OnlyJob(j) /\ job'[j].pc \in {"broadcast", "register", "single"}
      BY <1>2, BroadcastAnnounces, ProbeAnnounces DEF Announces
    <2>2. UNCHANGED hostVars
      BY <1>2 DEF PurgeMetrics, Register
    <2> QED BY <2>1, <2>2, SnapsQuiet DEF OnlyJob
  <1>3. ASSUME NEW j \in Jobs, ReadTargets(j) \/ ReadTargetsFails(j) \/ CollectIDs(j) PROVE Kept
    <2>1. OnlyJob(j) /\ job'[j].pc \in {"collect", "build", "done"}
      BY <1>3, ReadTargetsJob, ReadFailsJob, CollectJob
    <2>2. UNCHANGED hostVars
      BY <1>3 DEF ReadTargets, ReadTargetsFails, CollectIDs
    <2> QED BY <2>1, <2>2, SnapsQuiet DEF OnlyJob
  <1>4. ASSUME NEW j \in Jobs, NEW a \in Agents, Build(j, a) \/ BuildBlind(j, a) PROVE Kept
    <2>1. OnlyJob(j) /\ job'[j].pc = "send"
      BY <1>4, BuildJob
    <2>2. UNCHANGED hostVars
      BY <1>4 DEF Build, BuildBlind
    <2> QED BY <2>1, <2>2, SnapsQuiet DEF OnlyJob
  <1>5. ASSUME NEW j \in Jobs, NEW ok \in BOOLEAN, SendList(j, ok) PROVE Kept
    <2>1. job'[j].pc \in {"done", "build"}
      BY <1>5, SendJob
    <2>2. UNCHANGED hostVars
      BY <1>5 DEF SendList
    <2>3. ASSUME NEW k \in Jobs \ {j}
          PROVE  job'[k].pc = job[k].pc /\ job'[k].on = job[k].on /\ job'[k].snap = job[k].snap
      BY <1>5, SendOthers
    <2> QED BY <2>1, <2>2, <2>3, SnapsQuiet
  <1>6. ASSUME job' = job, UNCHANGED hostVars PROVE Kept
    BY <1>6 DEF hostVars, SnapsCurrent, SnapCurrent, TablesFollowAdmins, Meant
  <1>7. ASSUME NEW j \in Jobs, NEW t \in Targets, NEW b \in Creations, CreateTarget(j, t, b) PROVE Kept
    <2>1. OnlyJob(j) /\ job'[j].pc = "broadcast"
      BY <1>7, BroadcastAnnounces DEF Announces
    <2>2. /\ table[t].life = "unborn" /\ over' = over /\ overlapped' = overlapped
          /\ \A u \in Targets \ {t} : table'[u] = table[u]
          /\ asked' = [asked EXCEPT ![t] = b] /\ table'[t] = Inserted(b)
          /\ defaulted' = IF b.enabled THEN defaulted \ {t} ELSE defaulted \cup {t}
      BY <1>0, <1>7 DEF CreateTarget
    <2>3. t \in overlapped \/ Holding(t) = {}
      <3> SUFFICES ASSUME NEW k \in Holding(t), t \notin overlapped PROVE FALSE
        OBVIOUS
      <3>1. k \in Jobs /\ job[k].on = t /\ job[k].pc = "update"
        BY <1>0 DEF Holding, JobsOK, JobOK
      <3>2. job[k].snap = table[t] /\ job[k].snap.life = "stored"
        BY <3>1 DEF SnapsCurrent, SnapCurrent, JobsOK, JobOK
      <3> QED BY <2>2, <3>2
    <2>4. \A r \in Rows \ {t} : asked'[r] = asked[r] /\ (r \in defaulted' <=> r \in defaulted)
      BY <1>0, <2>2
    <2>5. asked'[t] = Meant(t)'
      <3>1. asked'[t] = b /\ (t \in defaulted' <=> ~b.enabled)
        BY <1>0, <2>2
      <3>2. b = IF b.enabled THEN Inserted(b) ELSE [Inserted(b) EXCEPT !.enabled = FALSE]
        BY DEF Inserted, Creations
      <3> QED BY <2>2, <3>1, <3>2 DEF Meant
    <2> QED BY <1>0, <2>1, <2>2, <2>3, <2>4, <2>5, SnapsSaved
  <1>8. ASSUME NEW j \in Jobs, NEW c \in Updates, UpdateSave(j, c) PROVE Kept
    <2>0. PICK t \in Targets : t = job[j].on
      BY <1>8 DEF UpdateSave, JobsOK, JobOK
    <2>1. OnlyJob(j) /\ job'[j].pc = "broadcast"
      BY <1>8, BroadcastAnnounces DEF Announces
    <2>2. /\ t \in Targets /\ job[j].snap.life = "stored"
          /\ t \notin overlapped => job[j].snap = table[t]
      BY <1>8, <2>0 DEF UpdateSave, JobsOK, JobOK, SnapsCurrent, SnapCurrent
    <2>3. /\ over' = over /\ Overlap(j, t)
          /\ table' = [table EXCEPT ![t] = IF @.life = "stored" THEN Changed(job[j].snap, c)
                                           ELSE Inserted(Changed(job[j].snap, c))]
          /\ asked' = [asked EXCEPT ![t] = IF t \in overlapped' THEN table'[t] ELSE Changed(@, c)]
          /\ defaulted' = IF c[1] = "enabled" THEN defaulted \ {t} ELSE defaulted
      BY <1>8, <2>0 DEF UpdateSave, Changed
    <2>4. /\ \A u \in Targets \ {t} : table'[u] = table[u]
          /\ \A r \in Rows \ {t} : asked'[r] = asked[r] /\ (r \in defaulted' <=> r \in defaulted)
      BY <1>0, <2>3
    <2>5. ASSUME t \notin overlapped' PROVE asked'[t] = Meant(t)'
      <3>1. t \notin overlapped
        BY <2>3, <2>5 DEF Overlap
      <3>2. asked[t] = IF t \in defaulted THEN [table[t] EXCEPT !.enabled = FALSE] ELSE table[t]
        BY <1>0, <2>2, <3>1 DEF TablesFollowAdmins, Meant
      <3>3. table'[t] = Changed(table[t], c)
        BY <1>0, <2>2, <2>3, <3>1
      <3>4. asked'[t] = Changed(asked[t], c)
        BY <1>0, <2>2, <2>3, <2>5
      <3>5. table[t] \in TargetRow
        BY <1>0, <2>2
      <3>6. CASE c[1] = "enabled"
        <4>1. t \notin defaulted'
          BY <2>3, <3>6
        <4>2. asked'[t] = table'[t]
          <5>1. [[table[t] EXCEPT !.enabled = FALSE] EXCEPT !.enabled = c[2]]
                  = [table[t] EXCEPT !.enabled = c[2]]
            BY <3>5, ColumnsApart
          <5>2. \A row : Changed(row, c) = [row EXCEPT !.enabled = c[2]]
            BY <3>6 DEF Changed
          <5> QED BY <3>2, <3>3, <3>4, <5>1, <5>2
        <4> QED BY <2>2, <4>1, <4>2 DEF Meant
      <3>7. CASE c[1] # "enabled"
        <4>1. t \in defaulted' <=> t \in defaulted
          BY <2>3, <3>7
        <4>2. asked'[t] = IF t \in defaulted THEN [table'[t] EXCEPT !.enabled = FALSE] ELSE table'[t]
          <5>1. [[table[t] EXCEPT !.enabled = FALSE] EXCEPT !.noRoute = c[2]]
                  = [[table[t] EXCEPT !.noRoute = c[2]] EXCEPT !.enabled = FALSE]
            BY <3>5, ColumnsApart
          <5>2. \A row : Changed(row, c) = [row EXCEPT !.noRoute = c[2]]
            BY <3>7 DEF Changed
          <5> QED BY <3>2, <3>3, <3>4, <5>1, <5>2
        <4> QED BY <2>2, <4>1, <4>2 DEF Meant
      <3> QED BY <3>6, <3>7
    <2> QED BY <1>0, <2>1, <2>2, <2>3, <2>4, <2>5, SnapsSaved
  <1>9. ASSUME NEW j \in Jobs, NEW t \in Targets, DeleteTarget(j, t) PROVE Kept
    <2>1. OnlyJob(j) /\ job'[j].pc = "purge"
      BY <1>9, DeleteAnnounces DEF Announces
    <2>2. /\ over' = over /\ Overlap(j, t) /\ defaulted' = defaulted
          /\ table' = [table EXCEPT ![t] = [@ EXCEPT !.life = "gone"]]
          /\ asked' = [asked EXCEPT ![t] = IF t \in overlapped' THEN table'[t]
                                           ELSE [@ EXCEPT !.life = "gone"]]
      BY <1>9 DEF DeleteTarget
    <2>3. /\ \A u \in Targets \ {t} : table'[u] = table[u]
          /\ \A r \in Rows \ {t} : asked'[r] = asked[r]
      BY <1>0, <2>2
    <2>4. ASSUME t \notin overlapped' PROVE asked'[t] = Meant(t)'
      <3>1. t \notin overlapped
        BY <2>2, <2>4 DEF Overlap
      <3>2. asked[t] = IF t \in defaulted THEN [table[t] EXCEPT !.enabled = FALSE] ELSE table[t]
        BY <1>0, <3>1 DEF TablesFollowAdmins, Meant
      <3>3. /\ asked'[t] = [asked[t] EXCEPT !.life = "gone"]
            /\ table'[t] = [table[t] EXCEPT !.life = "gone"] /\ table[t] \in TargetRow
        BY <1>0, <2>2, <2>4
      <3>4. asked'[t] = IF t \in defaulted THEN [table'[t] EXCEPT !.enabled = FALSE] ELSE table'[t]
        <4>1. [[table[t] EXCEPT !.enabled = FALSE] EXCEPT !.life = "gone"]
                = [[table[t] EXCEPT !.life = "gone"] EXCEPT !.enabled = FALSE]
          BY <3>3, ColumnsApart
        <4> QED BY <3>2, <3>3, <4>1
      <3> QED BY <2>2, <3>4 DEF Meant
    <2> QED BY <1>0, <2>1, <2>2, <2>3, <2>4, SnapsSaved
  <1>10. ASSUME NEW j \in Jobs, NEW e \in Edits, EditSave(j, e[1], e[2]) PROVE Kept
    <2>0. PICK a \in Agents : a = job[j].on
      BY <1>10 DEF EditSave, JobsOK, JobOK
    <2>1. OnlyJob(j) /\ job'[j].pc \in {"register", "single"}
      BY <1>10, ProbeAnnounces DEF Announces
    <2>2. a \in Agents /\ (a \notin overlapped => job[j].snap = over[a])
      BY <1>10, <2>0 DEF EditSave, JobsOK, JobOK, SnapsCurrent, SnapCurrent
    <2>3. /\ table' = table /\ Overlap(j, a) /\ defaulted' = defaulted
          /\ over' = [over EXCEPT ![a] = With(job[j].snap, e[1], e[2])]
          /\ asked' = [asked EXCEPT ![a] = IF a \in overlapped' THEN over'[a] ELSE With(@, e[1], e[2])]
      BY <1>10, <2>0 DEF EditSave, With
    <2>4. /\ \A u \in Agents \ {a} : over'[u] = over[u]
          /\ \A r \in Rows \ {a} : asked'[r] = asked[r]
      BY <1>0, <2>3
    <2>5. ASSUME a \notin overlapped' PROVE asked'[a] = Meant(a)'
      <3>1. a \notin overlapped
        BY <2>3, <2>5 DEF Overlap
      <3>2. asked[a] = over[a]
        BY <1>0, <2>2, <3>1 DEF TablesFollowAdmins, Meant
      <3>3. asked'[a] = over'[a]
        BY <1>0, <2>2, <2>3, <2>5, <3>1, <3>2
      <3> QED BY <1>0, <2>2, <2>3, <3>3 DEF Meant
    <2> QED BY <1>0, <2>1, <2>2, <2>3, <2>4, <2>5, SnapsSaved
  <1>11. ASSUME NEW j \in Jobs, ConnectSave(j) PROVE Kept
    <2>0. PICK a \in Agents : a = job[j].on
      BY <1>11 DEF ConnectSave, JobsOK, JobOK
    <2>1. OnlyJob(j) /\ job'[j].pc \in {"register", "single"}
      BY <1>11, ProbeAnnounces DEF Announces
    <2>2. a \in Agents /\ (a \notin overlapped => job[j].snap = over[a])
      BY <1>11, <2>0 DEF ConnectSave, JobsOK, JobOK, SnapsCurrent, SnapCurrent
    <2>3. CASE UNCHANGED <<over, overlapped, asked>>
      <3>1. UNCHANGED hostVars
        BY <1>11, <2>3 DEF ConnectSave, hostVars
      <3> QED BY <2>1, <3>1, SnapsQuiet DEF OnlyJob
    <2>4. CASE ~UNCHANGED <<over, overlapped, asked>>
      <3>1. /\ over' = [over EXCEPT ![a] = job[j].snap] /\ table' = table /\ Overlap(j, a)
            /\ defaulted' = defaulted
            /\ asked' = [asked EXCEPT ![a] = IF a \in overlapped' THEN over'[a] ELSE @]
        BY <1>11, <2>0, <2>4 DEF ConnectSave
      <3>2. /\ \A u \in Agents \ {a} : over'[u] = over[u]
            /\ \A r \in Rows \ {a} : asked'[r] = asked[r]
        BY <1>0, <3>1
      <3>3. ASSUME a \notin overlapped' PROVE asked'[a] = Meant(a)'
        <4>1. a \notin overlapped
          BY <3>1, <3>3 DEF Overlap
        <4>2. asked[a] = over[a]
          BY <1>0, <2>2, <4>1 DEF TablesFollowAdmins, Meant
        <4>3. asked'[a] = over'[a]
          BY <1>0, <2>2, <3>1, <3>3, <4>1, <4>2
        <4> QED BY <1>0, <2>2, <3>1, <4>3 DEF Meant
      <3> QED BY <1>0, <2>1, <2>2, <3>1, <3>2, <3>3, SnapsSaved
    <2> QED BY <2>3, <2>4
  <1>12. ASSUME UNCHANGED <<job, hostVars, probeVars>> \/ \E a \in Agents : Apply(a) \/ LoseLink(a)
         PROVE  job' = job /\ UNCHANGED hostVars
    BY <1>12 DEF Apply, LoseLink
  <1> HIDE DEF Kept
  <1>13. Kept
    BY <1>1, <1>2, <1>3, <1>4, <1>5, <1>6, <1>7, <1>8, <1>9, <1>10, <1>11, <1>12, Cases
  <1> QED BY <1>13 DEF Kept

\* A row of the tables is what the requests made of it, field by field, unless one
\* of them saved it while another held an older copy; all but the enabled column of
\* a target that was created disabled and not updated since.
THEOREM SyncTablesFollowAdmins == Spec => []TablesFollowAdmins
  <1>1. Init => AdminInv
    <2> SUFFICES ASSUME Init PROVE AdminInv
      OBVIOUS
    <2>1. TablesFollowAdmins
      BY DEF Init, TablesFollowAdmins, Meant
    <2>2. SnapsCurrent
      BY DEF Init, SnapsCurrent, SnapCurrent, NoJob
    <2> QED BY <2>1, <2>2, InitTypes DEF AdminInv
  <1>2. AdminInv /\ [Next]_vars => AdminInv'
    BY TypeStep, JobsStep, AdminStep DEF AdminInv
  <1>3. AdminInv => TablesFollowAdmins
    BY DEF AdminInv
  <1> QED BY <1>1, <1>2, <1>3, PTL DEF Spec

-----------------------------------------------------------------------------
(* A probe works by the tables                                               *)

\* A job that does not move, for a probe whose rows stay.
LEMMA JobSame ==
    ASSUME NEW k \in Jobs, NEW a \in Agents,
           job'[k].pc = job[k].pc, job'[k].on = job[k].on, job'[k].ids = job[k].ids,
           job'[k].seen = job[k].seen, job'[k].list = job[k].list,
           table' = table, over'[a] = over[a]
    PROVE  /\ WillRead(k, a)' <=> WillRead(k, a)
           /\ Serves(k, a)' <=> Serves(k, a)
           /\ Fresh(k, a)' <=> Fresh(k, a)
           /\ Desired(a)' = Desired(a) /\ EnabledTargets' = EnabledTargets
  <1>1. EnabledTargets' = EnabledTargets
    BY DEF EnabledTargets
  <1>2. Desired(a)' = Desired(a)
    BY <1>1 DEF Desired, WithOverrides
  <1>3. WillRead(k, a)' <=> WillRead(k, a)
    BY DEF WillRead
  <1>4. Serves(k, a)' <=> Serves(k, a)
    BY DEF Serves
  <1>5. Fresh(k, a)' <=> Fresh(k, a)
    BY <1>1, <1>2, <1>4 DEF Fresh
  <1> QED BY <1>1, <1>2, <1>3, <1>4, <1>5

\* One job's part in what keeps probe a covered.
KeepsPart(k, a) ==
    /\ WillRead(k, a) => WillRead(k, a)'
    /\ Serves(k, a)' <=> Serves(k, a)
    /\ Serves(k, a) => job'[k].older = job[k].older /\ (job[k].behind => job'[k].behind)
    /\ Fresh(k, a) => Fresh(k, a)' \/ job'[k].behind

\* When every job does its part, and probe a's list does not change, a stays covered.
LEMMA CoverKept ==
    ASSUME NEW a \in Agents, Served(a) \/ Doomed(a), Desired(a)' = Desired(a),
           Latest(a)' = Latest(a), \A k \in Jobs : KeepsPart(k, a)
    PROVE  Served(a)' \/ Doomed(a)'
  <1>1. CASE Doomed(a)
    BY <1>1 DEF Doomed, KeepsPart
  <1>2. CASE \E k \in Jobs : Fresh(k, a) /\ ~Fresh(k, a)'
    <2>1. PICK k \in Jobs : Fresh(k, a) /\ ~Fresh(k, a)'
      BY <1>2
    <2>2. Serves(k, a)' /\ job'[k].behind
      BY <2>1 DEF KeepsPart, Fresh
    <2> QED BY <2>2 DEF Doomed
  <1>3. CASE Served(a) /\ \A k \in Jobs : Fresh(k, a) => Fresh(k, a)'
    <2>1. Latest(a)' = Desired(a)' \/ \E j \in Jobs : WillRead(j, a)' \/ Fresh(j, a)'
      BY <1>3 DEF Served, KeepsPart
    <2>2. ASSUME NEW k \in Jobs, Serves(k, a)', ~Fresh(k, a)'
          PROVE  \E j \in Jobs : WillRead(j, a)' \/ (Fresh(j, a)' /\ k \in job'[j].older)
      <3>1. Serves(k, a) /\ ~Fresh(k, a)
        BY <1>3, <2>2 DEF KeepsPart
      <3>2. PICK j \in Jobs : WillRead(j, a) \/ (Fresh(j, a) /\ k \in job[j].older)
        BY <1>3, <3>1 DEF Served
      <3>3. CASE WillRead(j, a)
        BY <3>3 DEF KeepsPart
      <3>4. CASE Fresh(j, a) /\ k \in job[j].older
        <4>1. Serves(j, a)
          BY <3>4 DEF Fresh
        <4>2. job'[j].older = job[j].older
          BY <4>1 DEF KeepsPart
        <4> QED BY <1>3, <3>4, <4>2
      <3> QED BY <3>2, <3>3, <3>4
    <2> QED BY <2>1, <2>2 DEF Served
  <1> QED BY <1>1, <1>2, <1>3

\* A probe for which a job will read the targets is covered.
LEMMA CoverAnnounced ==
    ASSUME NEW a \in Agents, NEW j \in Jobs, WillRead(j, a)'
    PROVE  Served(a)'
  BY DEF Served

\* The other jobs of a step do their part.
LEMMA OthersKeep ==
    ASSUME NEW k \in Jobs, NEW a \in Agents, job'[k] = job[k], table' = table, over'[a] = over[a]
    PROVE  KeepsPart(k, a)
  BY JobSame DEF KeepsPart

\* Job j, which has nothing to do with probe a before or after.
LEMMA IdleKeeps ==
    ASSUME NEW j \in Jobs, NEW a \in Agents,
           ~WillRead(j, a), ~Serves(j, a), ~Serves(j, a)'
    PROVE  KeepsPart(j, a)
  BY DEF KeepsPart, Fresh

\* A step of job j that leaves probe a's rows and queue alone and does its part.
LEMMA CoverOne ==
    ASSUME NEW a \in Agents, NEW j \in Jobs, OnlyJob(j), KeepsPart(j, a),
           table' = table, over'[a] = over[a], queue'[a] = queue[a], config'[a] = config[a],
           Served(a) \/ Doomed(a)
    PROVE  Served(a)' \/ Doomed(a)'
  <1>1. \A k \in Jobs : KeepsPart(k, a)
    <2> SUFFICES ASSUME NEW k \in Jobs PROVE KeepsPart(k, a)
      OBVIOUS
    <2>1. CASE k = j
      BY <2>1
    <2>2. CASE k # j
      <3>1. job'[k] = job[k]
        BY <2>2 DEF OnlyJob
      <3> QED BY <3>1, OthersKeep
    <2> QED BY <2>1, <2>2
  <1>2. Latest(a)' = Latest(a)
    BY DEF Latest
  <1>3. Desired(a)' = Desired(a)
    BY DEF Desired, WithOverrides, EnabledTargets
  <1> QED BY <1>1, <1>2, <1>3, CoverKept

\* A request that is not about probe a, yet or any more.
LEMMA CoverAside ==
    ASSUME TypeOK, SyncsCover, NEW j \in Jobs, Aside(j)
    PROVE  SyncsCover'
  <1>1. /\ OnlyJob(j) /\ UNCHANGED <<table, over, linked, queue, config, lost, overtaken>>
        /\ job[j].pc \in {"idle", "update", "edit"} /\ job'[j].pc \in {"done", "update", "edit", "loaded"}
    BY DEF Aside, hostVars, probeVars
  <1> SUFFICES ASSUME NEW a \in linked \ (lost \cup overtaken) PROVE Served(a)' \/ Doomed(a)'
    BY <1>1 DEF SyncsCover
  <1>2. a \in Agents /\ (Served(a) \/ Doomed(a))
    BY DEF SyncsCover, TypeOK
  <1>3. KeepsPart(j, a)
    <2>1. ~WillRead(j, a) /\ ~Serves(j, a) /\ ~Serves(j, a)'
      BY <1>1 DEF WillRead, Serves
    <2> QED BY <1>2, <2>1, IdleKeeps
  <1> QED BY <1>1, <1>2, <1>3, CoverOne

\* A write of the targets table is announced to every probe.
LEMMA CoverBroadcast ==
    ASSUME TypeOK, linked' \in SUBSET Agents, NEW j \in Jobs, job'[j].pc \in {"purge", "broadcast"}
    PROVE  SyncsCover'
  <1> SUFFICES ASSUME NEW a \in (linked \ (lost \cup overtaken))' PROVE Served(a)'
    BY DEF SyncsCover
  <1>1. a \in Agents
    OBVIOUS
  <1>2. WillRead(j, a)'
    BY DEF WillRead
  <1> QED BY <1>1, <1>2, CoverAnnounced

\* A write of a probe's row, or its registration, is announced to that probe.
LEMMA CoverProbe ==
    ASSUME TypeOK, JobsOK, SyncsCover, NEW j \in Jobs,
           ConnectSave(j) \/ Register(j) \/ \E e \in Edits : EditSave(j, e[1], e[2])
    PROVE  SyncsCover'
  <1> DEFINE b == job[j].on
  <1>1. /\ OnlyJob(j) /\ job'[j].pc \in {"register", "single"} /\ b \in Agents /\ job'[j].on = b
        /\ job[j].pc \in {"edit", "loaded", "register"}
    BY ProbeAnnounces DEF Announces
  <1>2. /\ table' = table /\ config' = config /\ linked' \subseteq linked \cup {b}
        /\ \A a \in Agents \ {b} : over'[a] = over[a] /\ queue'[a] = queue[a]
        /\ lost \ {b} \subseteq lost' /\ overtaken \ {b} \subseteq overtaken'
        /\ linked' \subseteq Agents
    <2>0. /\ over \in [Agents -> OverrideRow] /\ queue \in [Agents -> Seq(List)]
          /\ linked \subseteq Agents
      BY DEF TypeOK
    <2>1. CASE ConnectSave(j)
      <3>1. over' = over \/ over' = [over EXCEPT ![b] = job[j].snap]
        BY <2>1 DEF ConnectSave
      <3>2. /\ table' = table /\ config' = config /\ linked' = linked /\ queue' = queue
            /\ lost' = lost /\ overtaken' = overtaken
        BY <2>1 DEF ConnectSave, probeVars
      <3> HIDE DEF b
      <3> QED BY <2>0, <3>1, <3>2
    <2>2. CASE Register(j)
      <3>1. /\ table' = table /\ over' = over /\ config' = config /\ linked' = linked \cup {b}
            /\ queue' = [queue EXCEPT ![b] = <<>>]
            /\ lost' = lost \ {b} /\ overtaken' = overtaken \ {b}
        BY <2>2 DEF Register, hostVars
      <3> HIDE DEF b
      <3> QED BY <1>1, <2>0, <3>1
    <2>3. CASE \E e \in Edits : EditSave(j, e[1], e[2])
      <3>1. \E v : over' = [over EXCEPT ![b] = v]
        BY <2>3 DEF EditSave
      <3>2. /\ table' = table /\ config' = config /\ linked' = linked /\ queue' = queue
            /\ lost' = lost /\ overtaken' = overtaken
        BY <2>3 DEF EditSave, probeVars
      <3> HIDE DEF b
      <3> QED BY <2>0, <3>1, <3>2
    <2> QED BY <2>1, <2>2, <2>3
  <1> HIDE DEF b
  <1> SUFFICES ASSUME NEW a \in (linked \ (lost \cup overtaken))' PROVE Served(a)' \/ Doomed(a)'
    BY DEF SyncsCover
  <1>3. a \in Agents
    BY <1>2
  <1>4. CASE a = b
    <2>1. WillRead(j, a)'
      BY <1>1, <1>4 DEF WillRead
    <2> QED BY <1>3, <2>1, CoverAnnounced
  <1>5. CASE a # b
    <2>1. Served(a) \/ Doomed(a)
      BY <1>2, <1>5 DEF SyncsCover
    <2>2. ~WillRead(j, a) /\ ~Serves(j, a) /\ ~Serves(j, a)'
      BY <1>1, <1>5 DEF WillRead, Serves, b
    <2>3. KeepsPart(j, a)
      BY <1>3, <2>2, IdleKeeps
    <2>4. over'[a] = over[a] /\ queue'[a] = queue[a] /\ table' = table /\ config'[a] = config[a]
      BY <1>2, <1>3, <1>5
    <2> QED BY <1>1, <1>3, <2>1, <2>3, <2>4, CoverOne
  <1> QED BY <1>4, <1>5

\* The list just read is fresh, and whoever read one before knows that it is older.
LEMMA CoverRead ==
    ASSUME TypeOK, JobsOK, SyncsCover, NEW j \in Jobs, ReadTargets(j)
    PROVE  SyncsCover'
  <1>1. /\ OnlyJob(j) /\ UNCHANGED <<table, over, linked, queue, config, lost, overtaken>>
        /\ j \notin Syncing
        /\ job'[j].seen = EnabledTargets /\ job'[j].older = Syncing /\ ~job'[j].behind
        /\ \/ job[j].pc = "broadcast" /\ job'[j].pc = "collect"
           \/ /\ job[j].pc = "single" /\ job[j].on \in Agents
              /\ job'[j].pc = "build" /\ job'[j].ids = {job[j].on}
    BY ReadTargetsJob DEF hostVars, probeVars
  <1> SUFFICES ASSUME NEW a \in linked \ (lost \cup overtaken) PROVE Served(a)' \/ Doomed(a)'
    BY <1>1 DEF SyncsCover
  <1>2. a \in Agents /\ (Served(a) \/ Doomed(a))
    BY DEF SyncsCover, TypeOK
  <1>3. CASE WillRead(j, a)
    <2>1. Serves(j, a)' /\ job'[j].pc # "send"
      BY <1>1, <1>3 DEF WillRead, Serves
    <2>2. EnabledTargets' = EnabledTargets
      BY <1>1 DEF EnabledTargets
    <2>3. Fresh(j, a)'
      BY <1>1, <2>1, <2>2 DEF Fresh
    <2>4. ASSUME NEW k \in Jobs, Serves(k, a)', ~Fresh(k, a)' PROVE k \in job'[j].older
      <3>1. job'[k] = job[k]
        BY <1>1, <2>3, <2>4 DEF OnlyJob
      <3>2. k \in Syncing
        BY <2>4, <3>1 DEF Serves, Syncing
      <3> QED BY <1>1, <3>2
    <2> QED BY <2>3, <2>4 DEF Served
  <1>4. CASE ~WillRead(j, a)
    <2>1. ~Serves(j, a) /\ ~Serves(j, a)'
      BY <1>1, <1>4 DEF WillRead, Serves
    <2>2. KeepsPart(j, a)
      BY <1>2, <1>4, <2>1, IdleKeeps
    <2> QED BY <1>1, <1>2, <2>2, CoverOne
  <1> QED BY <1>3, <1>4

\* A read that fails costs the probes it was for a sync.
LEMMA CoverReadFails ==
    ASSUME TypeOK, JobsOK, SyncsCover, NEW j \in Jobs, ReadTargetsFails(j)
    PROVE  SyncsCover'
  <1>1. /\ OnlyJob(j) /\ UNCHANGED <<table, over, linked, queue, config, overtaken>>
        /\ job'[j].pc = "done" /\ job[j].pc \in {"single", "broadcast"}
        /\ lost' = lost \cup {a \in linked : job[j].pc = "broadcast" \/ a = job[j].on}
    <2>1. OnlyJob(j) /\ job'[j].pc = "done" /\ job[j].pc \in {"single", "broadcast"}
      BY ReadFailsJob
    <2> QED BY <2>1 DEF ReadTargetsFails, hostVars
  <1> SUFFICES ASSUME NEW a \in linked, a \notin lost', a \notin overtaken PROVE Served(a)' \/ Doomed(a)'
    BY <1>1 DEF SyncsCover
  <1>2. a \in Agents /\ (Served(a) \/ Doomed(a))
    BY <1>1 DEF SyncsCover, TypeOK
  <1>3. ~WillRead(j, a) /\ ~Serves(j, a) /\ ~Serves(j, a)'
    BY <1>1 DEF WillRead, Serves
  <1>4. KeepsPart(j, a)
    BY <1>2, <1>3, IdleKeeps
  <1> QED BY <1>1, <1>2, <1>4, CoverOne

\* The probes registered when the ids are collected are served.
LEMMA CoverCollect ==
    ASSUME TypeOK, SyncsCover, NEW j \in Jobs, CollectIDs(j)
    PROVE  SyncsCover'
  <1>1. /\ OnlyJob(j) /\ UNCHANGED <<table, over, linked, queue, config, lost, overtaken>>
        /\ job[j].pc = "collect"
        /\ \/ linked = {}
           \/ /\ job'[j].pc = "build" /\ job'[j].ids = linked /\ job'[j].seen = job[j].seen
              /\ job'[j].older = job[j].older /\ job'[j].behind = job[j].behind
    BY CollectJob DEF hostVars, probeVars
  <1> SUFFICES ASSUME NEW a \in linked \ (lost \cup overtaken) PROVE Served(a)' \/ Doomed(a)'
    BY <1>1 DEF SyncsCover
  <1>2. a \in Agents /\ (Served(a) \/ Doomed(a))
    BY DEF SyncsCover, TypeOK
  <1>3. KeepsPart(j, a)
    <2>1. Serves(j, a)' /\ Serves(j, a) /\ ~WillRead(j, a)
      BY <1>1 DEF Serves, WillRead
    <2>2. EnabledTargets' = EnabledTargets
      BY <1>1 DEF EnabledTargets
    <2>3. Fresh(j, a) => Fresh(j, a)'
      BY <1>1, <2>1, <2>2 DEF Fresh
    <2> QED BY <1>1, <2>1, <2>3 DEF KeepsPart
  <1> QED BY <1>1, <1>2, <1>3, CoverOne

\* A list is built from what was read and the probe's overrides.
LEMMA CoverBuild ==
    ASSUME TypeOK, SyncsCover, NEW j \in Jobs, NEW b \in Agents, Build(j, b) \/ BuildBlind(j, b)
    PROVE  SyncsCover'
  <1>1. /\ OnlyJob(j) /\ UNCHANGED <<table, over, linked, queue, config, lost, overtaken>>
        /\ job[j].pc = "build" /\ b \in job[j].ids
        /\ job'[j].pc = "send" /\ job'[j].on = b /\ job'[j].ids = job[j].ids
        /\ job'[j].older = job[j].older
        /\ job[j].ids # {b} => job'[j].seen = job[j].seen
        /\ \/ job'[j].behind = TRUE
           \/ /\ job'[j].behind = job[j].behind
              /\ job'[j].list = WithOverrides(job[j].seen, over[b])
    BY BuildJob DEF hostVars, probeVars
  <1> SUFFICES ASSUME NEW a \in linked \ (lost \cup overtaken) PROVE Served(a)' \/ Doomed(a)'
    BY <1>1 DEF SyncsCover
  <1>2. a \in Agents /\ (Served(a) \/ Doomed(a))
    BY DEF SyncsCover, TypeOK
  <1>3. KeepsPart(j, a)
    <2>1. (Serves(j, a)' <=> Serves(j, a)) /\ ~WillRead(j, a)
      BY <1>1 DEF Serves, WillRead
    <2>2. EnabledTargets' = EnabledTargets /\ Desired(a)' = Desired(a)
      BY <1>1 DEF EnabledTargets, Desired, WithOverrides
    <2>3. ASSUME Fresh(j, a) PROVE Fresh(j, a)' \/ job'[j].behind
      <3>1. a \in job[j].ids /\ job[j].seen = EnabledTargets
        BY <1>1, <2>3 DEF Fresh, Serves
      <3>2. CASE a = b
        <4>1. job'[j].behind \/ job'[j].list = Desired(a)
          BY <1>1, <3>1, <3>2 DEF Desired
        <4> QED BY <1>1, <2>1, <2>2, <2>3, <3>2, <4>1 DEF Fresh
      <3>3. CASE a # b
        <4>1. job'[j].seen = EnabledTargets
          BY <1>1, <3>1, <3>3
        <4> QED BY <1>1, <2>1, <2>2, <2>3, <3>3, <4>1 DEF Fresh
      <3> QED BY <3>2, <3>3
    <2> QED BY <1>1, <2>1, <2>3 DEF KeepsPart
  <1> QED BY <1>1, <1>2, <1>3, CoverOne

\* The last of a queue.
LEMMA QueueLast ==
    ASSUME NEW q \in Seq(List), NEW l \in List
    PROVE  Append(q, l) # <<>> /\ Append(q, l)[Len(Append(q, l))] = l
  <1>1. Len(Append(q, l)) = Len(q) + 1 /\ Len(q) \in Nat
    OBVIOUS
  <1>2. Append(q, l)[Len(q) + 1] = l
    OBVIOUS
  <1> QED BY <1>1, <1>2

\* The rest of a queue.
LEMMA QueueRest ==
    ASSUME NEW q \in Seq(List), q # <<>>
    PROVE  /\ Len(q) \in Nat /\ Len(Tail(q)) = Len(q) - 1 /\ Head(q) = q[1]
           /\ Tail(q) \in Seq(List)
  OBVIOUS

\* What the send leaves of the other jobs' part in probe a.
LEMMA SendOthersPart ==
    ASSUME TypeOK, NEW j \in Jobs, NEW ok \in BOOLEAN, SendList(j, ok), NEW k \in Jobs \ {j}, NEW a \in Agents
    PROVE  /\ WillRead(k, a)' <=> WillRead(k, a)
           /\ Serves(k, a)' <=> Serves(k, a)
           /\ Fresh(k, a)' <=> Fresh(k, a)
           /\ job'[k].older = job[k].older
           /\ job[k].behind => job'[k].behind
           /\ k \in job[j].older /\ k \in Syncing => job'[k].behind
  <1>1. /\ job'[k].pc = job[k].pc /\ job'[k].on = job[k].on /\ job'[k].ids = job[k].ids
        /\ job'[k].seen = job[k].seen /\ job'[k].list = job[k].list
        /\ job'[k].older = job[k].older
    BY SendOthers
  <1>2. /\ k \in job[j].older /\ k \in Syncing => job'[k].behind = TRUE
        /\ ~(k \in job[j].older /\ k \in Syncing) => job'[k].behind = job[k].behind
    BY SendOthers
  <1>3. table' = table /\ over' = over
    BY DEF SendList, hostVars
  <1>4. /\ WillRead(k, a)' <=> WillRead(k, a)
        /\ Serves(k, a)' <=> Serves(k, a)
        /\ Fresh(k, a)' <=> Fresh(k, a)
    BY <1>1, <1>3, JobSame
  <1> QED BY <1>1, <1>2, <1>4

\* To the probes still to come, a send changes nothing but who is behind.
LEMMA SendOtherProbes ==
    ASSUME TypeOK, JobsOK, NEW j \in Jobs, NEW ok \in BOOLEAN, SendList(j, ok),
           NEW a \in Agents, a # job[j].on, Served(a) \/ Doomed(a)
    PROVE  Served(a)' \/ Doomed(a)'
  <1>1. /\ table' = table /\ over' = over /\ config' = config /\ queue'[a] = queue[a]
    <2>1. table' = table /\ over' = over /\ config' = config
      BY DEF SendList, hostVars
    <2>2. queue' = queue \/ queue' = [queue EXCEPT ![job[j].on] = Append(@, job[j].list)]
      BY DEF SendList
    <2> QED BY <2>1, <2>2 DEF TypeOK
  <1>2. EnabledTargets' = EnabledTargets /\ Desired(a)' = Desired(a) /\ Latest(a)' = Latest(a)
    BY <1>1 DEF EnabledTargets, Desired, WithOverrides, Latest
  <1>3. KeepsPart(j, a)
    <2>1. /\ job[j].pc = "send"
          /\ \/ /\ job[j].ids = {job[j].on} /\ job'[j].pc = "done"
             \/ /\ job'[j].pc = "build" /\ job'[j].ids = job[j].ids \ {job[j].on}
                /\ job'[j].seen = job[j].seen /\ job'[j].older = job[j].older
                /\ job'[j].behind = job[j].behind
      BY SendJob
    <2>2. ~WillRead(j, a) /\ (Serves(j, a)' <=> Serves(j, a))
      BY <2>1 DEF WillRead, Serves
    <2>3. Serves(j, a) => /\ job'[j].pc = "build" /\ job'[j].seen = job[j].seen
                          /\ job'[j].older = job[j].older /\ job'[j].behind = job[j].behind
      BY <2>1 DEF Serves
    <2>4. Fresh(j, a) => Fresh(j, a)'
      BY <1>2, <2>1, <2>2, <2>3 DEF Fresh
    <2> QED BY <2>2, <2>3, <2>4 DEF KeepsPart
  <1>4. ASSUME NEW k \in Jobs \ {j} PROVE KeepsPart(k, a)
    BY SendOthersPart DEF KeepsPart
  <1>5. \A k \in Jobs : KeepsPart(k, a)
    BY <1>3, <1>4
  <1> QED BY <1>2, <1>5, CoverKept

\* The probe that is sent a list by a job that nobody has overtaken: the list is
\* fresh, or a fresher one follows; and what was read earlier is behind.
LEMMA SendThisProbe ==
    ASSUME TypeOK, JobsOK, NEW j \in Jobs, NEW ok \in BOOLEAN, SendList(j, ok), ok,
           NEW a \in linked, a = job[j].on, ~job[j].behind, Served(a) \/ Doomed(a)
    PROVE  Served(a)' \/ Doomed(a)'
  <1>0. a \in Agents
    BY DEF TypeOK
  <1>1. /\ job[j].pc = "send" /\ a \in job[j].ids
        /\ job'[j].pc = "done" \/ (job'[j].pc = "build" /\ a \notin job'[j].ids)
    BY SendJob
  <1>2. ~WillRead(j, a) /\ Serves(j, a) /\ ~Serves(j, a)' /\ (Fresh(j, a) <=> job[j].list = Desired(a))
    BY <1>1 DEF WillRead, Serves, Fresh
  <1>3. table' = table /\ over' = over /\ queue' = [queue EXCEPT ![a] = Append(@, job[j].list)]
    BY DEF SendList, hostVars
  <1>4. Desired(a)' = Desired(a)
    BY <1>3 DEF EnabledTargets, Desired, WithOverrides
  <1>5. Latest(a)' = job[j].list
    <2>1. queue'[a] = Append(queue[a], job[j].list) /\ queue[a] \in Seq(List)
      BY <1>0, <1>3 DEF TypeOK
    <2>2. job[j].list \in List
      BY DEF TypeOK, Job
    <2>3. queue'[a] # <<>> /\ queue'[a][Len(queue'[a])] = job[j].list
      <3> DEFINE q == queue[a]
                 l == job[j].list
      <3>1. q \in Seq(List) /\ l \in List /\ queue'[a] = Append(q, l)
        BY <2>1, <2>2
      <3> HIDE DEF q, l
      <3>2. Append(q, l) # <<>> /\ Append(q, l)[Len(Append(q, l))] = l
        BY <3>1, QueueLast
      <3>3. queue'[a] # <<>> /\ queue'[a][Len(queue'[a])] = l
        BY <3>1, <3>2, Zenon
      <3> QED BY <3>3 DEF l
    <2> QED BY <2>3 DEF Latest
  <1>6. ASSUME NEW k \in Jobs \ {j}
        PROVE  /\ WillRead(k, a)' <=> WillRead(k, a)
               /\ Serves(k, a)' <=> Serves(k, a)
               /\ Fresh(k, a)' <=> Fresh(k, a)
               /\ job'[k].older = job[k].older
               /\ job[k].behind => job'[k].behind
               /\ k \in job[j].older /\ k \in Syncing => job'[k].behind
    BY <1>0, SendOthersPart, Zenon
  <1>7. CASE Doomed(a)
    <2>1. PICK k \in Jobs : Serves(k, a) /\ job[k].behind
      BY <1>7 DEF Doomed
    <2> QED BY <1>6, <2>1 DEF Doomed
  <1>8. CASE \E k \in Jobs \ {j} : Serves(k, a) /\ k \in job[j].older
    <2>1. PICK k \in Jobs \ {j} : Serves(k, a) /\ k \in job[j].older
      BY <1>8
    <2>2. k \in Syncing
      BY <2>1 DEF Serves, Syncing
    <2> QED BY <1>6, <2>1, <2>2 DEF Doomed
  <1>9. CASE Served(a) /\ \A k \in Jobs \ {j} : Serves(k, a) => k \notin job[j].older
    <2>1. ASSUME NEW k \in Jobs, Serves(k, a)', ~Fresh(k, a)'
          PROVE  \E i \in Jobs : WillRead(i, a)' \/ (Fresh(i, a)' /\ k \in job'[i].older)
      <3>1. k # j /\ Serves(k, a) /\ ~Fresh(k, a)
        BY <1>2, <1>6, <2>1
      <3>2. PICK i \in Jobs : WillRead(i, a) \/ (Fresh(i, a) /\ k \in job[i].older)
        BY <1>9, <3>1 DEF Served
      <3>3. i # j
        BY <1>2, <1>9, <3>1, <3>2
      <3> QED BY <1>6, <3>2, <3>3
    <2>2. Latest(a)' = Desired(a)' \/ \E i \in Jobs : WillRead(i, a)' \/ Fresh(i, a)'
      <3>1. CASE Fresh(j, a)
        BY <1>2, <1>4, <1>5, <3>1
      <3>2. CASE ~Fresh(j, a)
        <4>1. PICK i \in Jobs : WillRead(i, a) \/ Fresh(i, a)
          BY <1>2, <1>9, <3>2 DEF Served
        <4>2. i # j
          BY <1>2, <3>2, <4>1
        <4> QED BY <1>6, <4>1, <4>2
      <3> QED BY <3>1, <3>2
    <2> QED BY <2>1, <2>2 DEF Served
  <1> QED BY <1>7, <1>8, <1>9

\* A send keeps every probe covered, or marks it.
LEMMA CoverSend ==
    ASSUME TypeOK, JobsOK, SyncsCover, NEW j \in Jobs, NEW ok \in BOOLEAN, SendList(j, ok)
    PROVE  SyncsCover'
  <1>1. linked' = linked /\ lost \subseteq lost' /\ overtaken \subseteq overtaken'
    BY DEF SendList
  <1> SUFFICES ASSUME NEW a \in linked, a \notin lost', a \notin overtaken' PROVE Served(a)' \/ Doomed(a)'
    BY <1>1 DEF SyncsCover
  <1>2. a \in Agents /\ (Served(a) \/ Doomed(a))
    BY <1>1 DEF SyncsCover, TypeOK
  <1>3. CASE a = job[j].on
    <2>1. ok /\ ~job[j].behind
      BY <1>3 DEF SendList
    <2> QED BY <1>2, <1>3, <2>1, SendThisProbe
  <1>4. CASE a # job[j].on
    BY <1>2, <1>4, SendOtherProbes
  <1> QED BY <1>3, <1>4

\* Taking a list from the queue does not change the last one.
LEMMA CoverApply ==
    ASSUME TypeOK, SyncsCover, NEW b \in Agents, Apply(b)
    PROVE  SyncsCover'
  <1>1. /\ table' = table /\ over' = over /\ linked' = linked /\ lost' = lost /\ overtaken' = overtaken
        /\ job' = job /\ queue[b] # <<>>
        /\ config' = [config EXCEPT ![b] = Head(queue[b])] /\ queue' = [queue EXCEPT ![b] = Tail(@)]
    BY DEF Apply, hostVars
  <1> SUFFICES ASSUME NEW a \in linked \ (lost \cup overtaken) PROVE Served(a)' \/ Doomed(a)'
    BY <1>1 DEF SyncsCover
  <1>2. a \in Agents /\ (Served(a) \/ Doomed(a))
    BY DEF SyncsCover, TypeOK
  <1>3. Latest(a)' = Latest(a)
    <2>1. CASE a # b
      BY <1>1, <1>2, <2>1 DEF Latest, TypeOK
    <2>2. CASE a = b
      <3> DEFINE q == queue[b]
      <3>1. q \in Seq(List) /\ q # <<>> /\ queue'[a] = Tail(q) /\ config'[a] = Head(q)
        BY <1>1, <2>2 DEF TypeOK
      <3>2. Latest(a) = q[Len(q)]
        BY <1>1, <2>2 DEF Latest
      <3> HIDE DEF q
      <3>3. CASE Tail(q) = <<>>
        <4>1. Len(q) = 1 /\ Head(q) = q[1]
          <5>1. Len(Tail(q)) = Len(q) - 1 /\ Len(q) \in Nat /\ Head(q) = q[1]
            BY <3>1, QueueRest
          <5>2. Len(Tail(q)) = 0
            <6>1. Len(<<>>) = 0
              OBVIOUS
            <6> QED BY <3>3, <6>1, Zenon
          <5> QED BY <5>1, <5>2
        <4> QED BY <3>1, <3>2, <3>3, <4>1 DEF Latest
      <3>4. CASE Tail(q) # <<>>
        <4>1. Len(Tail(q)) = Len(q) - 1 /\ Len(q) - 1 \in 1..Len(Tail(q))
          <5>1. Len(Tail(q)) = Len(q) - 1 /\ Tail(q) \in Seq(List)
            BY <3>1, QueueRest
          <5> QED BY <3>4, <5>1
        <4>2. Tail(q)[Len(q) - 1] = q[Len(q)]
          BY <3>1, <4>1
        <4> QED BY <3>1, <3>2, <3>4, <4>1, <4>2 DEF Latest
      <3> QED BY <3>3, <3>4
    <2> QED BY <2>1, <2>2
  <1>4. Desired(a)' = Desired(a)
    BY <1>1 DEF EnabledTargets, Desired, WithOverrides
  <1>5. \A k \in Jobs : KeepsPart(k, a)
    BY <1>1, <1>2, OthersKeep
  <1> QED BY <1>2, <1>3, <1>4, <1>5, CoverKept

\* Steps that leave every other probe alone: a lost connection, and none.
LEMMA CoverQuiet ==
    ASSUME TypeOK, SyncsCover, job' = job, table' = table, over' = over, config' = config,
           linked' \subseteq linked,
           \A a \in linked' : /\ queue'[a] = queue[a] /\ (a \in lost' <=> a \in lost)
                              /\ (a \in overtaken' <=> a \in overtaken)
    PROVE  SyncsCover'
  <1> SUFFICES ASSUME NEW a \in (linked \ (lost \cup overtaken))' PROVE Served(a)' \/ Doomed(a)'
    BY DEF SyncsCover
  <1>1. a \in Agents /\ (Served(a) \/ Doomed(a))
    BY DEF SyncsCover, TypeOK
  <1>2. Desired(a)' = Desired(a) /\ Latest(a)' = Latest(a)
    BY DEF EnabledTargets, Desired, WithOverrides, Latest
  <1>3. \A k \in Jobs : KeepsPart(k, a)
    BY <1>1, OthersKeep
  <1> QED BY <1>1, <1>2, <1>3, CoverKept

\* Every step keeps the probes covered.
LEMMA CoverStep ==
    ASSUME TypeOK, JobsOK, SyncsCover, [Next]_vars
    PROVE  SyncsCover'
  <1>1. ASSUME \/ \E j \in Jobs, t \in Targets, b \in Creations : CreateTarget(j, t, b)
               \/ \E j \in Jobs, c \in Updates : UpdateSave(j, c)
               \/ \E j \in Jobs : PurgeMetrics(j)
               \/ \E j \in Jobs, t \in Targets : DeleteTarget(j, t)
        PROVE  SyncsCover'
    <2>1. \E j \in Jobs : job'[j].pc \in {"purge", "broadcast"}
      BY <1>1, BroadcastAnnounces, DeleteAnnounces
    <2>2. linked' \in SUBSET Agents
      BY ProbeTypes
    <2> QED BY <2>1, <2>2, CoverBroadcast
  <1>2. ASSUME NEW b \in Agents, LoseLink(b) PROVE SyncsCover'
    <2>1. /\ job' = job /\ table' = table /\ over' = over /\ config' = config
          /\ linked' = linked \ {b} /\ queue' = [queue EXCEPT ![b] = <<>>]
          /\ lost' = lost \ {b} /\ overtaken' = overtaken \ {b}
      BY <1>2 DEF LoseLink, hostVars
    <2>2. \A a \in linked' : queue'[a] = queue[a]
      BY <2>1 DEF TypeOK
    <2> QED BY <2>1, <2>2, CoverQuiet
  <1>3. ASSUME UNCHANGED <<job, hostVars, probeVars>> PROVE SyncsCover'
    <2>1. UNCHANGED <<job, table, over, linked, queue, config, lost, overtaken>>
      BY <1>3 DEF hostVars, probeVars
    <2> QED BY <2>1, CoverQuiet
  <1> QED BY <1>1, <1>2, <1>3, Cases, CoverAside, CoverProbe, CoverRead, CoverReadFails,
             CoverCollect, CoverBuild, CoverSend, CoverApply

\* The inductive invariant of the syncs.
THEOREM SyncInvariant == Spec => []SyncInv
  <1>1. Init => SyncInv
    <2> SUFFICES ASSUME Init PROVE SyncInv
      OBVIOUS
    <2>1. /\ \A a \in Agents : queue[a] = <<>> /\ config[a] = Desired(a)
          /\ linked = Agents /\ \A j \in Jobs : job[j].pc = "idle"
      BY DEF Init, NoJob
    <2>2. SyncsCover
      BY <2>1 DEF SyncsCover, Served, Latest, Serves
    <2> QED BY <2>2, InitTypes DEF SyncInv
  <1>2. SyncInv /\ [Next]_vars => SyncInv'
    BY TypeStep, JobsStep, CoverStep DEF SyncInv
  <1> QED BY <1>1, <1>2, PTL DEF Spec

\* When no request is under way, a connected probe with an empty queue works by the
\* tables as they are, unless a sync was lost or overtaken on this connection.
THEOREM SyncProbeFollowsTables == Spec => []ProbeFollowsTables
  <1>1. SyncInv => ProbeFollowsTables
    <2> SUFFICES ASSUME SyncInv, Quiet, NEW a \in Agents, a \in linked, queue[a] = <<>>,
                        a \notin lost \cup overtaken
                 PROVE  config[a] = Desired(a)
      BY DEF ProbeFollowsTables
    <2>1. Served(a) \/ Doomed(a)
      BY DEF SyncInv, SyncsCover
    <2>2. ASSUME NEW j \in Jobs PROVE ~WillRead(j, a) /\ ~Serves(j, a) /\ ~Fresh(j, a)
      BY DEF Quiet, WillRead, Serves, Fresh
    <2>3. Latest(a) = Desired(a)
      BY <2>1, <2>2 DEF Served, Doomed
    <2> QED BY <2>3 DEF Latest
  <1> QED BY <1>1, SyncInvariant, PTL
=============================================================================
