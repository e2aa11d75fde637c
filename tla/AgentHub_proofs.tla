--------------------------- MODULE AgentHub_proofs ---------------------------
(* Proofs about the hub, for any number of probes, connections and admin     *)
(* requests.                                                                 *)
EXTENDS AgentHub, TLAPS

\* The row of an agent that does not exist is a row.
LEMMA NoRowType == NoRow \in Row
  BY DEF NoRow, Row, Values

\* Writing one flag of a row leaves a row.
LEMMA FlagUpdates ==
    ASSUME NEW r \in Row, NEW b \in BOOLEAN
    PROVE  /\ [r EXCEPT !.exists = b] \in Row
           /\ [r EXCEPT !.online = b] \in Row
  BY DEF Row

\* Writing one value of a row leaves a row.
LEMMA ValueUpdates ==
    ASSUME NEW r \in Row, NEW v \in Values
    PROVE  [r EXCEPT !.token = v] \in Row
  BY DEF Row

\* The program starts well typed.
LEMMA InitTypes == Init => TypeOK
  <1> SUFFICES ASSUME Init PROVE TypeOK
    OBVIOUS
  <1> USE NoRowType, HubAssumption
  <1>1. [NoRow EXCEPT !.exists = TRUE] \in Row
    BY FlagUpdates
  <1>2. row \in [Agents -> Row] /\ snap \in [Conns -> Row]
    BY <1>1 DEF Init
  <1>3. adm \in [Admins -> Admin]
    <2>1. \A o \in Ops, a \in Agents :
             [op |-> o, agent |-> a, pc |-> "start", snap |-> NoRow, held |-> Nil] \in Admin
      BY DEF Admin, AdminStep
    <2> QED BY <2>1 DEF Init
  <1>4. /\ reg \in [Agents -> Conns \cup {Nil}]
        /\ stage \in [Conns -> Stages]
        /\ owner \in [Conns -> Agents \cup {Nil}]
        /\ tok \in [Conns -> Values]
        /\ closed \in [Conns -> BOOLEAN]
        /\ reports \in SUBSET Conns
        /\ traces \in SUBSET Conns
        /\ tunnels \in [Agents -> SUBSET Conns]
        /\ late \in [Agents -> BOOLEAN]
        /\ raced \in SUBSET Agents /\ replaced \in SUBSET Conns
    BY DEF Init, Stages, Values
  <1> QED BY <1>2, <1>3, <1>4 DEF TypeOK

\* An update of is_online keeps the table well typed.
LEMMA SetOnlineType ==
    ASSUME row \in [Agents -> Row], NEW a, NEW b \in BOOLEAN, SetOnline(a, b)
    PROVE  row' \in [Agents -> Row]
  <1>1. a \in Agents => [row[a] EXCEPT !.online = IF row[a].exists THEN b ELSE row[a].online] \in Row
    BY DEF Row
  <1> QED BY <1>1 DEF SetOnline

\* So does saving a whole row.
LEMMA SaveRowType ==
    ASSUME row \in [Agents -> Row], NEW a, NEW r \in Row, SaveRow(a, r)
    PROVE  row' \in [Agents -> Row]
  <1>1. [r EXCEPT !.exists = TRUE] \in Row
    BY FlagUpdates
  <1> QED BY <1>1 DEF SaveRow

\* The typing of each goroutine's steps.
LEMMA ConnTypes ==
    ASSUME TypeOK, OwnerKnown, NEW c \in Conns, ConnStep(c)
    PROVE  TypeOK'
  <1> USE DEF TypeOK
  <1>1. CASE SaveAgent(c)
    <2>1. [snap[c] EXCEPT !.online = TRUE] \in Row
      BY FlagUpdates
    <2>2. row' \in [Agents -> Row]
      BY <1>1, <2>1, SaveRowType DEF SaveAgent
    <2> QED BY <1>1, <2>2, NoRowType DEF SaveAgent, Stages
  <1>2. CASE Register(c)
    <2>1. replaced' \in SUBSET Conns /\ tunnels' \in [Agents -> SUBSET Conns]
      BY <1>2 DEF Register, OwnerKnown
    <2> QED BY <1>2, <2>1 DEF Register, Stages
  <1>3. CASE StartPumps(c)
    BY <1>3 DEF StartPumps, Stages
  <1>4. CASE PersistPing(c)
    <2>1. row' \in [Agents -> Row]
      BY <1>4, SetOnlineType DEF PersistPing, ReportOnline
    <2> QED BY <1>4, <2>1 DEF PersistPing, ReportOnline
  <1>5. CASE Unregister(c)
    BY <1>5 DEF Unregister, Stages
  <1>6. CASE UnregisterClose(c)
    BY <1>6 DEF UnregisterClose, Stages
  <1>7. CASE UnregisterMark(c)
    <2>1. row' \in [Agents -> Row]
      BY <1>7, SetOnlineType DEF UnregisterMark
    <2> QED BY <1>7, <2>1 DEF UnregisterMark, Stages
  <1>8. CASE UnregisterDrop(c)
    BY <1>8 DEF UnregisterDrop, DropAgent, Stages
  <1> QED BY <1>1, <1>2, <1>3, <1>4, <1>5, <1>6, <1>7, <1>8 DEF ConnStep

\* The typing of what the probe and the network do to a connection.
LEMMA EventTypes ==
    ASSUME TypeOK, NEW c \in Conns, ConnEvent(c)
    PROVE  TypeOK'
  <1> USE DEF TypeOK
  <1>1. CASE \E a \in Agents, n \in Values : Lookup(c, a, n)
    <2>1. PICK a \in Agents, n \in Values : Lookup(c, a, n)
      BY <1>1
    <2>2. row[a] \in Row
      OBVIOUS
    <2>3. snap' \in [Conns -> Row]
      BY <2>1, <2>2 DEF Lookup
    <2>4. stage' \in [Conns -> Stages] /\ closed' \in [Conns -> BOOLEAN]
      BY <2>1 DEF Lookup, Stages
    <2>5. owner' \in [Conns -> Agents \cup {Nil}] /\ tok' \in [Conns -> Values]
      BY <2>1 DEF Lookup
    <2> QED BY <2>1, <2>3, <2>4, <2>5 DEF Lookup
  <1>2. CASE HandleHeartbeat(c) \/ PersistTraceroute(c)
    <2>1. row' \in [Agents -> Row]
      BY <1>2, SetOnlineType DEF HandleHeartbeat, PersistTraceroute, ReportOnline
    <2> QED BY <1>2, <2>1 DEF HandleHeartbeat, PersistTraceroute, ReportOnline
  <1>3. CASE HandlePing(c)
    BY <1>3 DEF HandlePing
  <1>4. CASE HandleTraceroute(c)
    BY <1>4 DEF HandleTraceroute
  <1>5. CASE ReadFails(c)
    BY <1>5 DEF ReadFails, Stages
  <1>6. CASE WriteFails(c)
    BY <1>6 DEF WriteFails
  <1> QED BY <1>1, <1>2, <1>3, <1>4, <1>5, <1>6 DEF ConnEvent

\* Moving an admin request on keeps it well typed.
LEMMA AdminUpdates ==
    ASSUME adm \in [Admins -> Admin], NEW d \in Admins, NEW p \in AdminStep,
           NEW r \in Row
    PROVE  /\ [adm EXCEPT ![d].pc = p] \in [Admins -> Admin]
           /\ [adm EXCEPT ![d].pc = p, ![d].snap = r] \in [Admins -> Admin]
  BY DEF Admin

\* So does taking a connection out of the hub.
LEMMA AdminHolds ==
    ASSUME adm \in [Admins -> Admin], NEW d \in Admins, NEW p \in AdminStep,
           NEW h \in Conns \cup {Nil}
    PROVE  [adm EXCEPT ![d].pc = p, ![d].held = h] \in [Admins -> Admin]
  BY DEF Admin

\* It leaves the other requests, its operation and its agent alone.
LEMMA AdminFields ==
    ASSUME adm \in [Admins -> Admin], NEW d \in Admins, NEW p, NEW r, NEW h,
           NEW new, \/ new = [adm EXCEPT ![d].pc = p]
                    \/ new = [adm EXCEPT ![d].pc = p, ![d].snap = r]
                    \/ new = [adm EXCEPT ![d].pc = p, ![d].held = h]
    PROVE  /\ \A e \in Admins : e # d => new[e] = adm[e]
           /\ new[d].pc = p /\ new[d].op = adm[d].op /\ new[d].agent = adm[d].agent
           /\ new = [adm EXCEPT ![d].pc = p, ![d].held = h] => new[d].held = h
  BY DEF Admin

\* The row an admin request saves is a row.
LEMMA EditedType ==
    ASSUME adm \in [Admins -> Admin], NEW d \in Admins, adm[d].op # "delete"
    PROVE  Edited(d) \in Row
  <1>1. adm[d].snap \in Row /\ d \in Values
    BY DEF Admin, Values
  <1>2. [adm[d].snap EXCEPT !.token = d] \in Row
    BY <1>1, ValueUpdates
  <1> QED BY <1>1, <1>2 DEF Edited

\* The typing of the admin handlers' steps.
LEMMA AdminTypes ==
    ASSUME TypeOK, DeletionsLoadNothing, NEW d \in Admins, AdminStepOf(d)
    PROVE  TypeOK'
  <1> USE DEF TypeOK
  <1>0. adm[d].agent \in Agents /\ adm[d].snap \in Row
    BY DEF Admin
  <1>1. CASE AdminLoad(d)
    <2>1. row[adm[d].agent] \in Row
      BY <1>0
    <2>2. "loaded" \in AdminStep /\ "done" \in AdminStep /\ Nil \in Conns \cup {Nil}
      BY DEF AdminStep
    <2>3. adm' \in [Admins -> Admin]
      BY <1>1, <2>1, <2>2, AdminUpdates DEF AdminLoad
    <2> QED BY <1>1, <2>3 DEF AdminLoad
  <1>2. CASE AdminSave(d)
    <2>1. Edited(d) \in Row
      BY <1>2, EditedType DEF AdminSave, DeletionsLoadNothing
    <2>2. row' \in [Agents -> Row]
      BY <1>2, <2>1, SaveRowType DEF AdminSave
    <2>3. (IF adm[d].op = "rotate" THEN "unlink" ELSE "done") \in AdminStep
      BY DEF AdminStep
    <2>4. adm' \in [Admins -> Admin]
      BY <1>2, <2>3, NoRowType, AdminUpdates DEF AdminSave
    <2>5. raced' \in SUBSET Agents
      BY <1>0, <1>2 DEF AdminSave
    <2> QED BY <1>2, <2>2, <2>4, <2>5 DEF AdminSave
  <1>3. CASE Disconnect(d)
    <2>1. reg[adm[d].agent] \in Conns \cup {Nil} /\ "closing" \in AdminStep
      BY <1>0 DEF AdminStep
    <2>2. adm' \in [Admins -> Admin]
      BY <1>3, <2>1, AdminHolds DEF Disconnect
    <2> QED BY <1>3, <2>2 DEF Disconnect
  <1>4. CASE DisconnectClose(d)
    <2>1. "marking" \in AdminStep /\ Nil \in Conns \cup {Nil}
      BY DEF AdminStep
    <2>2. adm' \in [Admins -> Admin]
      BY <1>4, <2>1, AdminHolds DEF DisconnectClose
    <2> QED BY <1>4, <2>2 DEF DisconnectClose
  <1>5. CASE DisconnectMark(d)
    <2>1. row' \in [Agents -> Row]
      BY <1>5, SetOnlineType DEF DisconnectMark
    <2>2. "dropping" \in AdminStep /\ Nil \in Conns \cup {Nil}
      BY DEF AdminStep
    <2>3. adm' \in [Admins -> Admin]
      BY <1>5, <2>2, NoRowType, AdminUpdates DEF DisconnectMark
    <2> QED BY <1>5, <2>1, <2>3 DEF DisconnectMark
  <1>6. CASE DisconnectDrop(d)
    <2>1. (IF adm[d].op = "delete" THEN "deleting" ELSE "done") \in AdminStep
      BY DEF AdminStep
    <2>2. adm' \in [Admins -> Admin]
      BY <1>6, <2>1, NoRowType, AdminUpdates DEF DisconnectDrop
    <2> QED BY <1>6, <2>2 DEF DisconnectDrop, DropAgent
  <1>7. CASE DeleteRow(d)
    <2>1. "done" \in AdminStep
      BY DEF AdminStep
    <2>2. adm' \in [Admins -> Admin]
      BY <1>7, <2>1, NoRowType, AdminUpdates DEF DeleteRow
    <2>3. row' \in [Agents -> Row]
      BY <1>0, <1>7, FlagUpdates DEF DeleteRow
    <2> QED BY <1>7, <2>2, <2>3 DEF DeleteRow
  <1> QED BY <1>1, <1>2, <1>3, <1>4, <1>5, <1>6, <1>7 DEF AdminStepOf

\* What the steps of a connection may do to the rest of the invariant.
LEMMA ConnKeeps ==
    ASSUME HubInv, NEW c \in Conns, ConnStep(c)
    PROVE  OwnerKnown' /\ NewUnowned' /\ DeletionsLoadNothing' /\ NoGhostProbe' /\ SupersededClosed'
  <1> USE HubAssumption DEF HubInv, TypeOK, OwnerKnown, NewUnowned, DeletionsLoadNothing, NoGhostProbe,
                            SupersededClosed, BeingDisconnected, Served
  <1>1. CASE SaveAgent(c)
    BY <1>1 DEF SaveAgent
  <1>2. CASE Register(c)
    <2>1. stage[c] = "saved" /\ owner[c] \in Agents /\ UNCHANGED <<owner, adm>>
      BY <1>2 DEF Register
    <2>2. /\ \A e \in Conns : stage'[e] = IF e = c THEN "registered" ELSE stage[e]
          /\ \A a \in Agents : reg'[a] = IF a = owner[c] THEN c ELSE reg[a]
          /\ \A e \in Conns : closed'[e] = (closed[e] \/ e = reg[owner[c]])
      BY <1>2 DEF Register
    <2>3. NoGhostProbe'
      BY <2>1, <2>2
    <2>4. ASSUME NEW e \in Conns, stage'[e] \in Served, ~closed'[e]
          PROVE  reg'[owner[e]] = e \/ BeingDisconnected(e)
      <3>1. CASE e = c
        BY <2>1, <2>2, <3>1
      <3>2. CASE e # c
        <4>1. stage[e] \in Served /\ ~closed[e] /\ e # reg[owner[c]]
          BY <2>2, <2>4, <3>2
        <4>2. owner[e] \in Agents /\ (reg[owner[e]] = e \/ BeingDisconnected(e))
          BY <4>1
        <4> QED BY <2>2, <4>1, <4>2
      <3> QED BY <3>1, <3>2
    <2>5. SupersededClosed'
      BY <2>1, <2>4
    <2> QED BY <2>1, <2>2, <2>3, <2>5
  <1>3. CASE StartPumps(c)
    BY <1>3 DEF StartPumps
  <1>4. CASE PersistPing(c)
    BY <1>4 DEF PersistPing
  <1>5. CASE Unregister(c)
    <2>1. stage[c] = "leaving" /\ owner[c] \in Agents /\ UNCHANGED <<owner, closed, adm>>
      BY <1>5 DEF Unregister
    <2>2. \A e \in Conns : IF e = c THEN stage'[e] \in {"unlinked", "ended"} ELSE stage'[e] = stage[e]
      BY <1>5 DEF Unregister
    <2>3. \A a \in Agents : reg'[a] = IF reg[a] = c /\ a = owner[c] THEN Nil ELSE reg[a]
      BY <1>5 DEF Unregister
    <2>4. NoGhostProbe'
      BY <2>1, <2>2, <2>3
    <2>5. SupersededClosed'
      BY <2>1, <2>2, <2>3
    <2> QED BY <2>1, <2>2, <2>4, <2>5
  <1>6. CASE UnregisterClose(c)
    BY <1>6 DEF UnregisterClose
  <1>7. CASE UnregisterMark(c)
    BY <1>7 DEF UnregisterMark
  <1>8. CASE UnregisterDrop(c)
    BY <1>8 DEF UnregisterDrop
  <1> QED BY <1>1, <1>2, <1>3, <1>4, <1>5, <1>6, <1>7, <1>8 DEF ConnStep

\* What the probe and the network may do to it.
LEMMA EventKeeps ==
    ASSUME HubInv, NEW c \in Conns, ConnEvent(c)
    PROVE  OwnerKnown' /\ NewUnowned' /\ DeletionsLoadNothing' /\ NoGhostProbe' /\ SupersededClosed'
  <1> USE HubAssumption DEF HubInv, TypeOK, OwnerKnown, NewUnowned, DeletionsLoadNothing, NoGhostProbe,
                            SupersededClosed, BeingDisconnected, Served
  <1>1. CASE \E a \in Agents, n \in Values : Lookup(c, a, n)
    <2>1. PICK a \in Agents, n \in Values : Lookup(c, a, n)
      BY <1>1
    <2>2. /\ stage[c] = "new" /\ UNCHANGED <<reg, adm>>
          /\ \A e \in Conns : e # c => /\ stage'[e] = stage[e] /\ owner'[e] = owner[e]
                                       /\ closed'[e] = closed[e]
          /\ stage'[c] = "ended" \/ (stage'[c] = "loaded" /\ owner'[c] = a)
      BY <2>1 DEF Lookup
    <2>3. NoGhostProbe' /\ SupersededClosed'
      BY <2>2
    <2> QED BY <2>2, <2>3
  <1>2. CASE HandleHeartbeat(c) \/ PersistTraceroute(c)
    BY <1>2 DEF HandleHeartbeat, PersistTraceroute
  <1>3. CASE HandlePing(c)
    BY <1>3 DEF HandlePing
  <1>4. CASE HandleTraceroute(c)
    BY <1>4 DEF HandleTraceroute
  <1>5. CASE ReadFails(c)
    BY <1>5 DEF ReadFails, Reading
  <1>6. CASE WriteFails(c)
    BY <1>6 DEF WriteFails
  <1> QED BY <1>1, <1>2, <1>3, <1>4, <1>5, <1>6 DEF ConnEvent

\* What the admin handlers may do to it.
LEMMA AdminKeeps ==
    ASSUME HubInv, NEW d \in Admins, AdminStepOf(d)
    PROVE  OwnerKnown' /\ NewUnowned' /\ DeletionsLoadNothing' /\ NoGhostProbe' /\ SupersededClosed'
  <1> USE HubAssumption DEF HubInv, TypeOK
  <1>1. CASE \/ AdminLoad(d) \/ AdminSave(d)
             \/ DisconnectMark(d) \/ DisconnectDrop(d) \/ DeleteRow(d)
    <2>1. /\ \A e \in Admins : e # d => adm'[e] = adm[e]
          /\ adm[d].pc # "closing"
          /\ adm'[d].pc = "loaded" => adm'[d].op # "delete"
      <3>1. CASE AdminLoad(d)
        BY <3>1, AdminFields DEF AdminLoad
      <3>2. CASE AdminSave(d)
        BY <3>2 DEF AdminSave, Admin
      <3>3. CASE DisconnectMark(d)
        BY <3>3 DEF DisconnectMark, Admin
      <3>4. CASE DisconnectDrop(d)
        BY <3>4 DEF DisconnectDrop, Admin
      <3>5. CASE DeleteRow(d)
        BY <3>5 DEF DeleteRow, Admin
      <3> QED BY <1>1, <3>1, <3>2, <3>3, <3>4, <3>5
    <2>2. UNCHANGED <<reg, stage, owner, closed>>
      BY <1>1 DEF AdminLoad, AdminSave, DisconnectMark, DisconnectDrop, DeleteRow
    <2>3. \A c \in Conns : BeingDisconnected(c) => BeingDisconnected(c)'
      BY <2>1 DEF BeingDisconnected
    <2> QED BY <2>1, <2>2, <2>3
            DEF OwnerKnown, NewUnowned, DeletionsLoadNothing, NoGhostProbe, SupersededClosed
  <1>2. CASE Disconnect(d)
    <2>1. /\ \A e \in Admins : e # d => adm'[e] = adm[e]
          /\ adm[d].pc # "closing" /\ adm'[d].pc = "closing" /\ adm'[d].held = reg[adm[d].agent]
      BY <1>2, AdminFields DEF Disconnect
    <2>2. UNCHANGED <<stage, owner, closed>> /\ adm[d].agent \in Agents
      BY <1>2 DEF Disconnect, Admin
    <2>3. \A c \in Conns : BeingDisconnected(c) => BeingDisconnected(c)'
      BY <2>1 DEF BeingDisconnected
    <2>4. \A c \in Conns : reg[adm[d].agent] = c => BeingDisconnected(c)'
      BY <2>1 DEF BeingDisconnected
    <2>5. \A a \in Agents : reg'[a] = IF a = adm[d].agent THEN Nil ELSE reg[a]
      BY <1>2 DEF Disconnect
    <2>6. SupersededClosed'
      BY <2>2, <2>3, <2>4, <2>5 DEF SupersededClosed, OwnerKnown, Served
    <2>7. OwnerKnown' /\ NewUnowned' /\ DeletionsLoadNothing' /\ NoGhostProbe'
      BY <2>1, <2>2, <2>5 DEF OwnerKnown, NewUnowned, DeletionsLoadNothing, NoGhostProbe
    <2> QED BY <2>6, <2>7
  <1>3. CASE DisconnectClose(d)
    <2>1. /\ \A e \in Admins : e # d => adm'[e] = adm[e]
          /\ adm'[d].pc = "marking"
      BY <1>3, AdminFields DEF DisconnectClose
    <2>2. /\ UNCHANGED <<reg, stage, owner>>
          /\ \A c \in Conns : closed'[c] = (closed[c] \/ c = adm[d].held)
      BY <1>3 DEF DisconnectClose
    <2>3. \A c \in Conns : BeingDisconnected(c) => BeingDisconnected(c)' \/ closed'[c]
      BY <2>1, <2>2 DEF BeingDisconnected
    <2>4. SupersededClosed'
      BY <2>2, <2>3 DEF SupersededClosed
    <2> QED BY <2>1, <2>2, <2>4 DEF OwnerKnown, NewUnowned, DeletionsLoadNothing, NoGhostProbe
  <1> QED BY <1>1, <1>2, <1>3 DEF AdminStepOf

\* What an update of is_online changes in the table.
LEMMA SetOnlineFields ==
    ASSUME row \in [Agents -> Row], NEW a \in Agents, NEW b \in BOOLEAN, SetOnline(a, b)
    PROVE  \A x \in Agents :
              /\ row'[x].exists = row[x].exists /\ row'[x].token = row[x].token
              /\ row'[x].online = IF x = a /\ row[a].exists THEN b ELSE row[x].online
  <1>1. /\ row'[a] = [row[a] EXCEPT !.online = IF row[a].exists THEN b ELSE row[a].online]
        /\ \A x \in Agents \ {a} : row'[x] = row[x]
    BY DEF SetOnline
  <1>2. row[a] \in Row
    OBVIOUS
  <1>3. /\ row'[a].exists = row[a].exists /\ row'[a].token = row[a].token
        /\ row'[a].online = IF row[a].exists THEN b ELSE row[a].online
    BY <1>1, <1>2 DEF Row
  <1> QED BY <1>1, <1>3

\* It leaves every token alone.
LEMMA TokenKept ==
    ASSUME row \in [Agents -> Row], NEW a, NEW b \in BOOLEAN, SetOnline(a, b)
    PROVE  \A x \in Agents : row'[x].token = row[x].token
  <1>1. CASE a \in Agents
    BY <1>1, SetOnlineFields
  <1>2. CASE a \notin Agents
    BY <1>2 DEF SetOnline
  <1> QED BY <1>1, <1>2

\* What saving a whole row changes.
LEMMA SaveRowFields ==
    ASSUME row \in [Agents -> Row], NEW a \in Agents, NEW r \in Row, SaveRow(a, r)
    PROVE  /\ row'[a].exists /\ row'[a].token = r.token /\ row'[a].online = r.online
           /\ \A x \in Agents \ {a} : row'[x] = row[x]
  <1>1. /\ row'[a] = [r EXCEPT !.exists = TRUE]
        /\ \A x \in Agents \ {a} : row'[x] = row[x]
    BY DEF SaveRow
  <1> QED BY <1>1 DEF Row

\* How a step moves an admin request on.
LEMMA AdminMoves ==
    ASSUME adm \in [Admins -> Admin], NEW d \in Admins, AdminStepOf(d)
    PROVE  /\ \A e \in Admins \ {d} : adm'[e] = adm[e]
           /\ adm'[d].agent = adm[d].agent /\ adm'[d].op = adm[d].op
           /\ adm[d].agent \in Agents
           /\ AdminLoad(d) => /\ adm[d].pc = "start" /\ adm'[d].pc \in {"loaded", "done"}
                              /\ adm'[d].pc = "loaded" => adm'[d].snap = row[adm[d].agent]
           /\ AdminSave(d) => /\ adm[d].pc = "loaded"
                              /\ adm'[d].pc = IF adm[d].op = "rotate" THEN "unlink" ELSE "done"
           /\ Disconnect(d) => /\ adm[d].pc \in {"unlink", "start"} /\ adm'[d].pc = "closing"
                               /\ adm'[d].held = reg[adm[d].agent]
           /\ DisconnectClose(d) => adm[d].pc = "closing" /\ adm'[d].pc = "marking"
           /\ DisconnectMark(d) => adm[d].pc = "marking" /\ adm'[d].pc = "dropping"
           /\ DisconnectDrop(d) => adm[d].pc = "dropping" /\ adm'[d].pc \in {"deleting", "done"}
           /\ DeleteRow(d) => adm[d].pc = "deleting" /\ adm'[d].pc = "done"
  <1>0. adm[d] \in Admin /\ adm[d].agent \in Agents
    BY DEF Admin
  <1>1. CASE AdminLoad(d)
    BY <1>0, <1>1 DEF AdminLoad, Admin, AdminSave, Disconnect, DisconnectClose, DisconnectMark,
                      DisconnectDrop, DeleteRow
  <1>2. CASE AdminSave(d)
    BY <1>0, <1>2 DEF AdminSave, Admin, AdminLoad, Disconnect, DisconnectClose, DisconnectMark,
                      DisconnectDrop, DeleteRow
  <1>3. CASE Disconnect(d)
    BY <1>0, <1>3 DEF Disconnect, Admin, AdminLoad, AdminSave, DisconnectClose, DisconnectMark,
                      DisconnectDrop, DeleteRow
  <1>4. CASE DisconnectClose(d)
    BY <1>0, <1>4 DEF DisconnectClose, Admin, AdminLoad, AdminSave, Disconnect, DisconnectMark,
                      DisconnectDrop, DeleteRow
  <1>5. CASE DisconnectMark(d)
    BY <1>0, <1>5 DEF DisconnectMark, Admin, AdminLoad, AdminSave, Disconnect, DisconnectClose,
                      DisconnectDrop, DeleteRow
  <1>6. CASE DisconnectDrop(d)
    BY <1>0, <1>6 DEF DisconnectDrop, Admin, AdminLoad, AdminSave, Disconnect, DisconnectClose,
                      DisconnectMark, DeleteRow
  <1>7. CASE DeleteRow(d)
    BY <1>0, <1>7 DEF DeleteRow, Admin, AdminLoad, AdminSave, Disconnect, DisconnectClose,
                      DisconnectMark, DisconnectDrop
  <1> QED BY <1>1, <1>2, <1>3, <1>4, <1>5, <1>6, <1>7 DEF AdminStepOf

\* A write of is_online = true is justified or late.
LEMMA ReportJustified ==
    ASSUME TypeOK, OnlineJustified, NEW c \in Conns, ReportOnline(c), UNCHANGED <<reg, owner, stage, adm>>
    PROVE  OnlineJustified'
  <1>1. SUFFICES ASSUME NEW a \in Agents, row'[a].exists, row'[a].online, reg[a] = Nil, ~OnlinePending(a)
                 PROVE  late'[a]
    BY DEF OnlineJustified, OnlinePending
  <1>2. late \in [Agents -> BOOLEAN] /\ row \in [Agents -> Row]
    BY DEF TypeOK
  <1>3. CASE a = owner[c]
    BY <1>1, <1>2, <1>3, Zenon DEF ReportOnline
  <1>4. CASE a # owner[c]
    <2>1. row'[a] = row[a] /\ late'[a] = late[a]
      BY <1>2, <1>4 DEF ReportOnline, SetOnline
    <2> QED BY <1>1, <2>1 DEF OnlineJustified
  <1> QED BY <1>3, <1>4

\* A step that leaves the table alone only has to keep the justification.
LEMMA OnlineUntouched ==
    ASSUME OnlineJustified, UNCHANGED <<row, late>>,
           \A a \in Agents : reg[a] # Nil \/ OnlinePending(a) => reg'[a] # Nil \/ OnlinePending(a)'
    PROVE  OnlineJustified'
  BY DEF OnlineJustified

\* The goroutine of a connection keeps the online mark justified.
LEMMA ConnOnline ==
    ASSUME HubInv, NEW c \in Conns, ConnStep(c)
    PROVE  OnlineJustified'
  <1> USE HubAssumption DEF HubInv, TypeOK
  <1>0. stage[c] \notin {"new", "ended"} => owner[c] \in Agents
    BY DEF OwnerKnown
  <1>1. CASE SaveAgent(c)
    <2>1. [snap[c] EXCEPT !.online = TRUE] \in Row
      BY FlagUpdates
    <2>2. \A x \in Agents \ {owner[c]} : row'[x] = row[x] /\ late'[x] = late[x]
      BY <1>0, <1>1, <2>1, SaveRowFields DEF SaveAgent
    <2> QED BY <1>0, <1>1, <2>2 DEF SaveAgent, OnlineJustified, OnlinePending
  <1>2. CASE Register(c)
    BY <1>0, <1>2, OnlineUntouched DEF Register, OnlinePending
  <1>3. CASE StartPumps(c)
    BY <1>3, OnlineUntouched DEF StartPumps, OnlinePending
  <1>4. CASE PersistPing(c)
    BY <1>4, ReportJustified DEF PersistPing
  <1>5. CASE Unregister(c)
    BY <1>0, <1>5, OnlineUntouched DEF Unregister, OnlinePending
  <1>6. CASE UnregisterClose(c)
    BY <1>6, OnlineUntouched DEF UnregisterClose, OnlinePending
  <1>7. CASE UnregisterMark(c)
    <2>1. owner[c] \in Agents /\ SetOnline(owner[c], FALSE)
      BY <1>0, <1>7 DEF UnregisterMark
    <2>2. ~(row'[owner[c]].exists /\ row'[owner[c]].online)
      BY <2>1, SetOnlineFields
    <2>3. \A x \in Agents \ {owner[c]} : row'[x] = row[x] /\ late'[x] = late[x]
      BY <1>7, <2>1 DEF UnregisterMark, SetOnline
    <2>4. \A x \in Agents \ {owner[c]} : OnlinePending(x) => OnlinePending(x)'
      BY <1>7 DEF UnregisterMark, OnlinePending
    <2>5. UNCHANGED reg
      BY <1>7 DEF UnregisterMark
    <2> QED BY <2>2, <2>3, <2>4, <2>5 DEF OnlineJustified
  <1>8. CASE UnregisterDrop(c)
    BY <1>8, OnlineUntouched DEF UnregisterDrop, OnlinePending
  <1> QED BY <1>1, <1>2, <1>3, <1>4, <1>5, <1>6, <1>7, <1>8 DEF ConnStep

\* So do the probe and the network.
LEMMA EventOnline ==
    ASSUME HubInv, NEW c \in Conns, ConnEvent(c)
    PROVE  OnlineJustified'
  <1> USE HubAssumption DEF HubInv, TypeOK
  <1>1. CASE \E a \in Agents, n \in Values : Lookup(c, a, n)
    BY <1>1, OnlineUntouched DEF Lookup, OnlinePending
  <1>2. CASE HandleHeartbeat(c)
    BY <1>2, ReportJustified DEF HandleHeartbeat
  <1>3. CASE PersistTraceroute(c)
    BY <1>3, ReportJustified DEF PersistTraceroute
  <1>4. CASE HandlePing(c) \/ HandleTraceroute(c) \/ WriteFails(c)
    BY <1>4, OnlineUntouched DEF HandlePing, HandleTraceroute, WriteFails, OnlinePending
  <1>5. CASE ReadFails(c)
    BY <1>5, OnlineUntouched DEF ReadFails, Reading, OnlinePending
  <1> QED BY <1>1, <1>2, <1>3, <1>4, <1>5 DEF ConnEvent

\* And the admin requests.
LEMMA AdminOnline ==
    ASSUME HubInv, NEW d \in Admins, AdminStepOf(d)
    PROVE  OnlineJustified'
  <1> USE HubAssumption
  <1> DEFINE a == adm[d].agent
  <1>0. /\ a \in Agents /\ adm'[d].agent = a
        /\ \A e \in Admins \ {d} : adm'[e] = adm[e]
        /\ row \in [Agents -> Row] /\ late \in [Agents -> BOOLEAN] /\ adm \in [Admins -> Admin]
        /\ reg \in [Agents -> Conns \cup {Nil}]
    BY AdminMoves DEF HubInv, TypeOK
  <1>1. CASE AdminLoad(d)
    <2>1. /\ adm[d].pc = "start" /\ UNCHANGED <<row, late, reg, owner, stage>>
      BY <1>1 DEF AdminLoad
    <2>2. \A x \in Agents : OnlinePending(x) => OnlinePending(x)'
      BY <1>0, <2>1 DEF OnlinePending
    <2> QED BY <2>1, <2>2, OnlineUntouched DEF HubInv
  <1>2. CASE AdminSave(d)
    <2>1. Edited(d) \in Row
      BY <1>0, <1>2, EditedType DEF AdminSave, DeletionsLoadNothing, HubInv
    <2>2. \A x \in Agents \ {a} : row'[x] = row[x] /\ late'[x] = late[x]
      BY <1>0, <1>2, <2>1, SaveRowFields DEF AdminSave
    <2>3. late'[a] <=> reg[a] = Nil
      BY <1>0, <1>2, Zenon DEF AdminSave
    <2>4. adm[d].pc = "loaded" /\ UNCHANGED <<reg, owner, stage>>
      BY <1>2 DEF AdminSave
    <2>5. \A x \in Agents : OnlinePending(x) => OnlinePending(x)'
      BY <1>0, <2>4 DEF OnlinePending
    <2> QED BY <2>2, <2>3, <2>4, <2>5 DEF OnlineJustified, HubInv
  <1>3. CASE Disconnect(d)
    <2>1. /\ adm[d].pc \in {"unlink", "start"} /\ adm'[d].pc = "closing"
          /\ UNCHANGED <<row, late, owner, stage>>
      BY <1>0, <1>3, AdminMoves DEF Disconnect
    <2>2. \A x \in Agents \ {a} : reg'[x] = reg[x]
      BY <1>0, <1>3 DEF Disconnect
    <2>3. \A x \in Agents : x = a \/ OnlinePending(x) => OnlinePending(x)'
      BY <1>0, <2>1 DEF OnlinePending
    <2> QED BY <2>1, <2>2, <2>3, OnlineUntouched DEF HubInv
  <1>4. CASE DisconnectClose(d)
    <2>1. adm'[d].pc = "marking" /\ UNCHANGED <<row, late, reg, owner, stage>>
      BY <1>0, <1>4, AdminMoves DEF DisconnectClose
    <2>2. \A x \in Agents : OnlinePending(x) => OnlinePending(x)'
      BY <1>0, <2>1 DEF OnlinePending
    <2> QED BY <2>1, <2>2, OnlineUntouched DEF HubInv
  <1>5. CASE DisconnectMark(d)
    <2>1. SetOnline(a, FALSE) /\ UNCHANGED <<reg, owner, stage>>
      BY <1>5 DEF DisconnectMark
    <2>2. ~(row'[a].exists /\ row'[a].online)
      BY <1>0, <2>1, SetOnlineFields
    <2>3. \A x \in Agents \ {a} : row'[x] = row[x] /\ late'[x] = late[x]
      BY <1>0, <1>5, <2>1 DEF DisconnectMark, SetOnline
    <2>4. \A x \in Agents \ {a} : OnlinePending(x) => OnlinePending(x)'
      BY <1>0, <2>1 DEF OnlinePending
    <2> QED BY <2>1, <2>2, <2>3, <2>4 DEF OnlineJustified, HubInv
  <1>6. CASE DisconnectDrop(d)
    <2>1. adm[d].pc = "dropping" /\ UNCHANGED <<row, late, reg, owner, stage>>
      BY <1>6 DEF DisconnectDrop
    <2>2. \A x \in Agents : OnlinePending(x) => OnlinePending(x)'
      BY <1>0, <2>1 DEF OnlinePending
    <2> QED BY <2>1, <2>2, OnlineUntouched DEF HubInv
  <1>7. CASE DeleteRow(d)
    <2>1. adm[d].pc = "deleting" /\ UNCHANGED <<reg, owner, stage>>
      BY <1>7 DEF DeleteRow
    <2>2. ~row'[a].exists /\ \A x \in Agents \ {a} : row'[x] = row[x] /\ late'[x] = late[x]
      <3>1. row \in [Agents -> Row] /\ late \in [Agents -> BOOLEAN]
        BY DEF HubInv, TypeOK
      <3>2. /\ row' = [row EXCEPT ![a].exists = FALSE]
            /\ late' = [late EXCEPT ![a] = FALSE]
        BY <1>7 DEF DeleteRow
      <3> HIDE DEF a
      <3> QED BY <1>0, <3>1, <3>2 DEF Row
    <2>3. \A x \in Agents : OnlinePending(x) => OnlinePending(x)'
      BY <1>0, <2>1 DEF OnlinePending
    <2> QED BY <2>1, <2>2, <2>3 DEF OnlineJustified, HubInv
  <1> QED BY <1>1, <1>2, <1>3, <1>4, <1>5, <1>6, <1>7 DEF AdminStepOf

\* No step of a connection's goroutine loses track of a tunnel.
LEMMA ConnTunnels ==
    ASSUME HubInv, NEW c \in Conns, ConnStep(c)
    PROVE  TunnelsHeld'
  <1> USE HubAssumption DEF HubInv, TypeOK, TunnelsHeld
  <1>0. stage[c] \notin {"new", "ended"} => owner[c] \in Agents
    BY DEF OwnerKnown
  <1>1. CASE SaveAgent(c)
    BY <1>1 DEF SaveAgent
  <1>2. CASE Register(c)
    <2>0. tunnels' = [tunnels EXCEPT ![owner[c]] = @ \cup {c}] /\ tunnels \in [Agents -> SUBSET Conns]
      BY <1>2 DEF Register
    <2>1. \A a \in Agents : \A e \in tunnels'[a] : e \in Conns /\ (e \in tunnels[a] \/ (e = c /\ a = owner[c]))
      BY ONLY <2>0, c \in Conns
    <2>2. \A a \in Agents : IF a = owner[c] THEN reg'[a] = c /\ (reg[a] # Nil => reg[a] \in replaced')
                                            ELSE reg'[a] = reg[a]
      BY <1>0, <1>2 DEF Register
    <2>3. replaced \subseteq replaced' /\ UNCHANGED <<owner, adm>>
      BY <1>2 DEF Register
    <2>4. \A e \in Conns : e # c => stage'[e] = stage[e]
      BY <1>2 DEF Register
    <2>5. stage[c] = "saved"
      BY <1>2 DEF Register
    <2>6. ASSUME NEW a \in Agents, NEW e \in tunnels'[a] PROVE owner'[e] = a
      BY <2>1, <2>3
    <2>7. ASSUME NEW a \in Agents, NEW e \in tunnels'[a], reg'[a] # e, e \notin replaced'
          PROVE  \/ stage'[e] \in {"unlinked", "marking", "dropping"}
                 \/ \E d \in Admins : adm'[d].agent = a /\ adm'[d].pc \in {"closing", "marking", "dropping"}
      <3>1. e \in tunnels[a] /\ e \notin replaced /\ e \in Conns
        BY <2>1, <2>2, <2>3, <2>7
      <3>2. reg[a] # e
        BY <2>2, <2>7, <3>1
      <3> QED BY <2>3, <2>4, <2>5, <3>1, <3>2
    <2> QED BY <2>6, <2>7
  <1>3. CASE StartPumps(c)
    BY <1>3 DEF StartPumps
  <1>4. CASE PersistPing(c)
    BY <1>4 DEF PersistPing
  <1>5. CASE Unregister(c)
    <2>1. stage[c] = "leaving" /\ UNCHANGED <<owner, tunnels, adm, replaced>>
      BY <1>5 DEF Unregister
    <2>2. \A e \in Conns : e # c => stage'[e] = stage[e]
      BY <1>5 DEF Unregister
    <2>3. \A a \in Agents : reg[a] = c => stage'[c] = "unlinked"
      BY <1>5 DEF Unregister, NoGhostProbe
    <2>4. \A a \in Agents : reg[a] # c => reg'[a] = reg[a]
      BY <1>5 DEF Unregister
    <2> QED BY <2>1, <2>2, <2>3, <2>4
  <1>6. CASE UnregisterClose(c)
    BY <1>6 DEF UnregisterClose
  <1>7. CASE UnregisterMark(c)
    BY <1>7 DEF UnregisterMark
  <1>8. CASE UnregisterDrop(c)
    <2>0. /\ tunnels' = [tunnels EXCEPT ![owner[c]] = {e \in @ : reg[owner[c]] = e /\ ~closed[e]}]
          /\ tunnels \in [Agents -> SUBSET Conns]
      BY <1>8 DEF UnregisterDrop, DropAgent
    <2>1. \A a \in Agents : \A e \in tunnels'[a] :
             e \in Conns /\ e \in tunnels[a] /\ (a = owner[c] => reg[a] = e)
      BY ONLY <2>0
    <2>2. \A e \in Conns : e # c => stage'[e] = stage[e]
      BY <1>8 DEF UnregisterDrop
    <2>3. UNCHANGED <<reg, owner, adm, replaced>>
      BY <1>8 DEF UnregisterDrop
    <2>4. \A a \in Agents : \A e \in tunnels'[a] : e = c => a = owner[c]
      BY <2>1
    <2> QED BY <2>1, <2>2, <2>3, <2>4
  <1> QED BY <1>1, <1>2, <1>3, <1>4, <1>5, <1>6, <1>7, <1>8 DEF ConnStep

\* Nor does a message or a failure.
LEMMA EventTunnels ==
    ASSUME HubInv, NEW c \in Conns, ConnEvent(c)
    PROVE  TunnelsHeld'
  <1> USE HubAssumption DEF HubInv, TypeOK, TunnelsHeld
  <1>1. CASE \E a \in Agents, n \in Values : Lookup(c, a, n)
    <2>1. stage[c] = "new" /\ UNCHANGED <<reg, tunnels, adm, replaced>>
      BY <1>1 DEF Lookup
    <2>2. \A e \in Conns : e # c => stage'[e] = stage[e] /\ owner'[e] = owner[e]
      BY <1>1 DEF Lookup
    <2>3. owner[c] \notin Agents
      BY <2>1 DEF NewUnowned
    <2> QED BY <2>1, <2>2, <2>3
  <1>2. CASE HandleHeartbeat(c) \/ PersistTraceroute(c)
    BY <1>2 DEF HandleHeartbeat, PersistTraceroute
  <1>3. CASE HandlePing(c) \/ HandleTraceroute(c) \/ WriteFails(c)
    BY <1>3 DEF HandlePing, HandleTraceroute, WriteFails
  <1>4. CASE ReadFails(c)
    BY <1>4 DEF ReadFails, Reading
  <1> QED BY <1>1, <1>2, <1>3, <1>4 DEF ConnEvent

\* Nor does an admin request.
LEMMA AdminTunnels ==
    ASSUME HubInv, NEW d \in Admins, AdminStepOf(d)
    PROVE  TunnelsHeld'
  <1> USE HubAssumption
  <1> DEFINE Dropping(x) == \E e \in Admins : adm[e].agent = x /\ adm[e].pc \in {"closing", "marking", "dropping"}
  <1>0. /\ adm[d].agent \in Agents /\ adm'[d].agent = adm[d].agent
        /\ \A e \in Admins \ {d} : adm'[e] = adm[e]
        /\ reg \in [Agents -> Conns \cup {Nil}] /\ tunnels \in [Agents -> SUBSET Conns]
    BY AdminMoves DEF HubInv, TypeOK
  <1>1. CASE AdminLoad(d) \/ AdminSave(d) \/ DisconnectClose(d) \/ DisconnectMark(d) \/ DeleteRow(d)
    <2>1. UNCHANGED <<reg, stage, owner, tunnels, replaced>>
      BY <1>1 DEF AdminLoad, AdminSave, DisconnectClose, DisconnectMark, DeleteRow
    <2>2. adm[d].pc \in {"closing", "marking", "dropping"} => adm'[d].pc \in {"closing", "marking", "dropping"}
      BY <1>1, AdminMoves DEF HubInv, TypeOK
    <2>3. \A x \in Agents : Dropping(x) => Dropping(x)'
      BY <1>0, <2>2
    <2> QED BY <2>1, <2>3 DEF HubInv, TunnelsHeld
  <1>2. CASE Disconnect(d)
    <2>1. UNCHANGED <<stage, owner, tunnels, replaced>>
      BY <1>2 DEF Disconnect
    <2>2. adm'[d].pc = "closing"
      BY <1>2, AdminMoves DEF HubInv, TypeOK
    <2>3. \A x \in Agents : x = adm[d].agent \/ Dropping(x) => Dropping(x)'
      BY <1>0, <2>2
    <2>4. \A x \in Agents : x # adm[d].agent => reg'[x] = reg[x]
      BY <1>0, <1>2 DEF Disconnect
    <2> QED BY <2>1, <2>3, <2>4 DEF HubInv, TunnelsHeld
  <1>3. CASE DisconnectDrop(d)
    <2>1. UNCHANGED <<stage, owner, reg, replaced>>
      BY <1>3 DEF DisconnectDrop
    <2>0. tunnels' = [tunnels EXCEPT ![adm[d].agent] = {e \in @ : reg[adm[d].agent] = e /\ ~closed[e]}]
      BY <1>3 DEF DisconnectDrop, DropAgent
    <2>2. \A x \in Agents : \A e \in tunnels'[x] : e \in tunnels[x] /\ (x = adm[d].agent => reg[x] = e)
      BY <1>0, <2>0
    <2>3. \A x \in Agents : x # adm[d].agent /\ Dropping(x) => Dropping(x)'
      BY <1>0
    <2>4. ASSUME NEW x \in Agents, NEW e \in tunnels'[x], reg[x] # e, e \notin replaced,
                 stage[e] \notin {"unlinked", "marking", "dropping"}
          PROVE  Dropping(x)'
      BY <2>2, <2>3, <2>4 DEF HubInv, TunnelsHeld
    <2> QED BY <2>1, <2>2, <2>4 DEF HubInv, TunnelsHeld
  <1> QED BY <1>1, <1>2, <1>3 DEF AdminStepOf

\* The copies of a token and the row agree after a step that leaves the tokens
\* of the table, the requests and what is raced alone, when the connections it
\* moves agree.
LEMMA TokensUntouched ==
    ASSUME HubInv, UNCHANGED <<tok, snap, adm, raced, reg>>,
           \A a \in Agents : row'[a].token = row[a].token,
           \A c \in Conns : stage[c] # "new" => owner'[c] = owner[c],
           \A c \in Conns : stage[c] = "new" <=> stage'[c] = "new",
           \A c \in Conns : stage'[c] \in {"loaded", "saved"} => stage[c] = stage'[c],
           \A c \in Conns : stage'[c] \in Served /\ ~closed'[c] => stage[c] \in Served /\ ~closed[c]
    PROVE  CopiesAgree' /\ ServedAgree'
  <1>1. \A c \in Conns : stage[c] \notin {"new", "ended"} => owner[c] \in Agents
    BY DEF HubInv, OwnerKnown
  <1>2. \A d \in Admins : adm[d].agent \in Agents
    BY DEF HubInv, TypeOK, Admin
  <1>3. CopiesAgree'
    BY <1>1, <1>2 DEF HubInv, CopiesAgree
  <1>4. \A c \in Conns : stage[c] # "new" => (BeingKicked(c) => BeingKicked(c)')
    BY DEF BeingKicked, BeingDisconnected
  <1>5. ServedAgree'
    BY <1>1, <1>4 DEF HubInv, ServedAgree, Served
  <1> QED BY <1>3, <1>5

\* A connection's goroutine keeps the tokens in agreement.
LEMMA ConnTokens ==
    ASSUME HubInv, NEW c \in Conns, ConnStep(c)
    PROVE  CopiesAgree' /\ ServedAgree'
  <1> USE HubAssumption
  <1>0. /\ row \in [Agents -> Row] /\ stage \in [Conns -> Stages] /\ closed \in [Conns -> BOOLEAN]
        /\ snap \in [Conns -> Row] /\ reg \in [Agents -> Conns \cup {Nil}]
    BY DEF HubInv, TypeOK
  <1>9. \A e \in Conns : stage[e] \notin {"new", "ended"} => owner[e] \in Agents
    BY DEF HubInv, OwnerKnown
  <1>1. CASE SaveAgent(c)
    <2>1. [snap[c] EXCEPT !.online = TRUE] \in Row /\ [snap[c] EXCEPT !.online = TRUE].token = snap[c].token
      <3>1. snap[c] \in Row
        BY <1>0
      <3>2. [snap[c] EXCEPT !.online = TRUE] \in Row
        BY <3>1, FlagUpdates
      <3>3. [snap[c] EXCEPT !.online = TRUE].token = snap[c].token
        BY <3>1 DEF Row
      <3> QED BY <3>2, <3>3
    <2>2. /\ row'[owner[c]].token = snap[c].token
          /\ \A x \in Agents \ {owner[c]} : row'[x] = row[x]
      BY <1>0, <1>9, <1>1, <2>1, SaveRowFields DEF SaveAgent
    <2>3. stage[c] = "loaded" /\ stage'[c] = "saved" /\ owner[c] \in Agents
      BY <1>0, <1>9, <1>1 DEF SaveAgent
    <2>4. \A x \in Agents \ raced : row'[x].token = row[x].token
      BY <2>2, <2>3 DEF HubInv, CopiesAgree
    <2>5. /\ UNCHANGED <<owner, tok, adm, raced, closed, reg>>
          /\ \A e \in Conns : e # c => stage'[e] = stage[e] /\ snap'[e] = snap[e]
      BY <1>0, <1>1 DEF SaveAgent
    <2>6. \A d \in Admins : adm[d].agent \in Agents
      BY DEF HubInv, TypeOK, Admin
    <2>7. CopiesAgree'
      BY <1>9, <2>3, <2>4, <2>5, <2>6 DEF HubInv, CopiesAgree
    <2>8. \A e \in Conns : BeingKicked(e) => BeingKicked(e)'
      BY <2>5 DEF BeingKicked, BeingDisconnected
    <2>9. ServedAgree'
      BY <1>9, <2>3, <2>4, <2>5, <2>8 DEF HubInv, ServedAgree, Served
    <2> QED BY <2>7, <2>9
  <1>2. CASE Register(c)
    <2>1. /\ stage[c] = "saved" /\ stage'[c] = "registered" /\ owner[c] \in Agents
          /\ \A e \in Conns : e # c => stage'[e] = stage[e]
          /\ \A e \in Conns : closed[e] => closed'[e]
      BY <1>0, <1>9, <1>2 DEF Register
    <2>2. UNCHANGED <<row, owner, tok, snap, adm, raced>>
      BY <1>2 DEF Register
    <2>3. CopiesAgree'
      BY <2>1, <2>2 DEF HubInv, CopiesAgree
    <2>4. \A e \in Conns : BeingKicked(e) => BeingKicked(e)'
      BY <2>2 DEF BeingKicked, BeingDisconnected
    <2>5. ServedAgree'
      BY <2>1, <2>2, <2>4 DEF HubInv, ServedAgree, CopiesAgree
    <2> QED BY <2>3, <2>5
  <1>3. CASE StartPumps(c) \/ UnregisterClose(c) \/ UnregisterDrop(c)
    <2>1. UNCHANGED <<row, owner, tok, snap, adm, raced, reg>>
      BY <1>3 DEF StartPumps, UnregisterClose, UnregisterDrop
    <2>2. /\ \A e \in Conns : e # c => stage'[e] = stage[e]
          /\ \A e \in Conns : closed[e] => closed'[e]
      BY <1>0, <1>3 DEF StartPumps, UnregisterClose, UnregisterDrop
    <2>3. \/ stage[c] = "registered" /\ stage'[c] = "serving" /\ UNCHANGED closed
          \/ stage[c] = "unlinked" /\ stage'[c] = "marking"
          \/ stage[c] = "dropping" /\ stage'[c] = "ended"
      BY <1>0, <1>3 DEF StartPumps, UnregisterClose, UnregisterDrop
    <2> QED BY <2>1, <2>2, <2>3, TokensUntouched DEF Served
  <1>4. CASE PersistPing(c)
    <2>1. /\ UNCHANGED <<stage, closed, owner, tok, snap, adm, raced, reg>>
          /\ \A a \in Agents : row'[a].token = row[a].token
      BY <1>0, <1>4, TokenKept DEF PersistPing, ReportOnline
    <2> QED BY <2>1, TokensUntouched DEF Served
  <1>5. CASE Unregister(c)
    <2>1. /\ stage[c] = "leaving" /\ stage'[c] \in {"unlinked", "ended"}
          /\ \A e \in Conns : e # c => stage'[e] = stage[e]
      BY <1>0, <1>5 DEF Unregister
    <2>2. UNCHANGED <<row, owner, tok, snap, adm, raced, closed>>
      BY <1>5 DEF Unregister
    <2>3. CopiesAgree'
      BY <2>1, <2>2 DEF HubInv, CopiesAgree
    <2>4. \A e \in Conns : BeingKicked(e) => BeingKicked(e)'
      BY <2>2 DEF BeingKicked, BeingDisconnected
    <2>5. ServedAgree'
      BY <2>1, <2>2, <2>4 DEF HubInv, ServedAgree, Served
    <2> QED BY <2>3, <2>5
  <1>6. CASE UnregisterMark(c)
    <2>1. /\ UNCHANGED <<closed, owner, tok, snap, adm, raced, reg>>
          /\ \A a \in Agents : row'[a].token = row[a].token
      BY <1>0, <1>6, TokenKept DEF UnregisterMark
    <2>2. /\ stage[c] = "marking" /\ stage'[c] = "dropping"
          /\ \A e \in Conns : e # c => stage'[e] = stage[e]
      BY <1>0, <1>6 DEF UnregisterMark
    <2> QED BY <2>1, <2>2, TokensUntouched DEF Served
  <1> QED BY <1>1, <1>2, <1>3, <1>4, <1>5, <1>6 DEF ConnStep

\* So does what the probe and the network do.
LEMMA EventTokens ==
    ASSUME HubInv, NEW c \in Conns, ConnEvent(c)
    PROVE  CopiesAgree' /\ ServedAgree'
  <1> USE HubAssumption
  <1>0. /\ row \in [Agents -> Row] /\ stage \in [Conns -> Stages] /\ closed \in [Conns -> BOOLEAN]
        /\ snap \in [Conns -> Row] /\ tok \in [Conns -> Values] /\ owner \in [Conns -> Agents \cup {Nil}]
    BY DEF HubInv, TypeOK
  <1>1. CASE \E a \in Agents, n \in Values : Lookup(c, a, n)
    <2>1. PICK a \in Agents, n \in Values : Lookup(c, a, n)
      BY <1>1
    <2>2. /\ stage[c] = "new" /\ UNCHANGED <<row, reg, adm, raced>>
          /\ \A e \in Conns : e # c => /\ stage'[e] = stage[e] /\ owner'[e] = owner[e] /\ closed'[e] = closed[e]
                                       /\ tok'[e] = tok[e] /\ snap'[e] = snap[e]
      BY <1>0, <2>1 DEF Lookup
    <2>3. \/ stage'[c] = "ended"
          \/ /\ stage'[c] = "loaded" /\ owner'[c] = a /\ tok'[c] = row[a].token
             /\ snap'[c].token = tok'[c]
      BY <1>0, <2>1 DEF Lookup
    <2>4. CopiesAgree'
      BY <2>2, <2>3 DEF HubInv, CopiesAgree
    <2>5. \A e \in Conns : e # c /\ BeingKicked(e) => BeingKicked(e)'
      BY <2>2 DEF BeingKicked, BeingDisconnected
    <2>6. ServedAgree'
      BY <2>2, <2>3, <2>5 DEF HubInv, ServedAgree, Served
    <2> QED BY <2>4, <2>6
  <1>2. CASE HandleHeartbeat(c) \/ PersistTraceroute(c)
    <2>1. /\ UNCHANGED <<stage, closed, owner, tok, snap, adm, raced, reg>>
          /\ \A a \in Agents : row'[a].token = row[a].token
      BY <1>0, <1>2, TokenKept DEF HandleHeartbeat, PersistTraceroute, ReportOnline
    <2> QED BY <2>1, TokensUntouched DEF Served
  <1>3. CASE HandlePing(c) \/ HandleTraceroute(c) \/ WriteFails(c)
    <2>1. /\ UNCHANGED <<row, stage, owner, tok, snap, adm, raced, reg>>
          /\ \A e \in Conns : closed[e] => closed'[e]
      BY <1>0, <1>3 DEF HandlePing, HandleTraceroute, WriteFails
    <2> QED BY <2>1, TokensUntouched DEF Served
  <1>4. CASE ReadFails(c)
    <2>1. /\ UNCHANGED <<row, closed, owner, tok, snap, adm, raced, reg>>
          /\ stage[c] = "serving" /\ stage'[c] = "leaving"
          /\ \A e \in Conns : e # c => stage'[e] = stage[e]
      BY <1>0, <1>4 DEF ReadFails, Reading
    <2> QED BY <2>1, TokensUntouched DEF Served
  <1> QED BY <1>1, <1>2, <1>3, <1>4 DEF ConnEvent

\* And what the admin requests do: a rotation that nobody overlaps finds no other
\* copy of the row, and everybody served is about to be kicked.
LEMMA AdminTokens ==
    ASSUME HubInv, NEW d \in Admins, AdminStepOf(d)
    PROVE  CopiesAgree' /\ ServedAgree'
  <1> USE HubAssumption
  <1> DEFINE a == adm[d].agent
  <1>0. /\ a \in Agents /\ adm'[d].agent = a /\ adm'[d].op = adm[d].op
        /\ \A e \in Admins \ {d} : adm'[e] = adm[e]
        /\ row \in [Agents -> Row] /\ adm \in [Admins -> Admin] /\ closed \in [Conns -> BOOLEAN]
        /\ reg \in [Agents -> Conns \cup {Nil}] /\ \A e \in Admins : adm[e].agent \in Agents
    BY AdminMoves DEF HubInv, TypeOK, Admin
  <1>9. \A c \in Conns : stage[c] \notin {"new", "ended"} => owner[c] \in Agents
    BY DEF HubInv, OwnerKnown
  <1>1. CASE AdminLoad(d)
    <2>1. /\ UNCHANGED <<row, stage, owner, closed, tok, snap, raced>>
          /\ adm[d].pc = "start" /\ adm'[d].pc \in {"loaded", "done"}
          /\ adm'[d].pc = "loaded" => adm'[d].snap = row[a]
      BY <1>0, <1>1, AdminMoves DEF AdminLoad
    <2>2. CopiesAgree'
      BY <1>0, <2>1 DEF HubInv, CopiesAgree
    <2>3. \A c \in Conns : BeingKicked(c) => BeingKicked(c)'
      BY <1>0, <2>1 DEF BeingKicked, BeingDisconnected
    <2>4. ServedAgree'
      BY <2>1, <2>3 DEF HubInv, ServedAgree
    <2> QED BY <2>2, <2>4
  <1>2. CASE AdminSave(d)
    <2>1. Edited(d) \in Row
      BY <1>0, <1>2, EditedType DEF AdminSave, DeletionsLoadNothing, HubInv
    <2>2. row'[a].token = Edited(d).token /\ \A x \in Agents \ {a} : row'[x] = row[x]
      BY <1>0, <1>2, <2>1, SaveRowFields DEF AdminSave
    <2>3. /\ UNCHANGED <<stage, owner, closed, tok, snap>> /\ raced \subseteq raced'
          /\ adm[d].pc = "loaded" /\ adm'[d].pc = IF adm[d].op = "rotate" THEN "unlink" ELSE "done"
      BY <1>0, <1>2, AdminMoves DEF AdminSave
    <2>4. CASE adm[d].op # "rotate"
      <3>1. \A x \in Agents \ raced' : row'[x].token = row[x].token
        BY <1>0, <2>2, <2>3, <2>4 DEF Edited, HubInv, CopiesAgree
      <3>2. CopiesAgree'
        BY <1>0, <1>9, <2>3, <2>4, <3>1 DEF HubInv, CopiesAgree
      <3>3. \A c \in Conns : BeingKicked(c) => BeingKicked(c)'
        BY <1>0, <2>3, <2>4 DEF BeingKicked, BeingDisconnected
      <3>4. ServedAgree'
        BY <1>9, <2>3, <3>1, <3>3 DEF HubInv, ServedAgree, Served
      <3> QED BY <3>2, <3>4
    <2>5. CASE adm[d].op = "rotate"
      <3>1. a \notin raced' => ~Overlapped(d)
        BY <1>0, <1>2, <2>5 DEF AdminSave
      <3>2. \A x \in Agents \ {a} : row'[x].token = row[x].token
        BY <2>2
      <3>3. CopiesAgree'
        BY <1>0, <1>9, <2>3, <2>5, <3>1, <3>2 DEF HubInv, CopiesAgree, Overlapped
      <3>4. \A c \in Conns : owner[c] = a \/ BeingKicked(c) => BeingKicked(c)'
        BY <1>0, <2>3, <2>5 DEF BeingKicked, BeingDisconnected
      <3>5. ServedAgree'
        BY <1>9, <2>3, <3>2, <3>4 DEF HubInv, ServedAgree, Served
      <3> QED BY <3>3, <3>5
    <2> QED BY <2>4, <2>5
  <1>3. CASE Disconnect(d)
    <2>1. /\ UNCHANGED <<row, stage, owner, closed, tok, snap, raced>>
          /\ adm'[d].pc = "closing" /\ adm'[d].held = reg[a] /\ adm[d].pc \in {"unlink", "start"}
      BY <1>0, <1>3, AdminMoves DEF Disconnect
    <2>2. CopiesAgree'
      BY <1>0, <2>1 DEF HubInv, CopiesAgree
    <2>3. \A c \in Conns : BeingDisconnected(c) \/ reg[a] = c => BeingDisconnected(c)'
      BY <1>0, <2>1 DEF BeingDisconnected
    <2>4. ASSUME NEW c \in Conns, stage[c] \in Served, ~closed[c], BeingKicked(c)
          PROVE  BeingKicked(c)'
      <3>1. owner[c] \in Agents /\ (reg[owner[c]] = c \/ BeingDisconnected(c))
        BY <1>9, <2>4 DEF HubInv, SupersededClosed, Served
      <3>2. CASE owner[c] = a
        BY <2>3, <3>1, <3>2 DEF BeingKicked
      <3>3. CASE owner[c] # a /\ ~BeingDisconnected(c)
        BY <1>0, <2>1, <2>4, <3>3 DEF BeingKicked
      <3> QED BY <2>3, <3>2, <3>3 DEF BeingKicked
    <2>5. ServedAgree'
      BY <2>1, <2>4 DEF HubInv, ServedAgree
    <2> QED BY <2>2, <2>5
  <1>4. CASE DisconnectClose(d)
    <2>1. /\ UNCHANGED <<row, stage, owner, tok, snap, raced>>
          /\ adm'[d].pc = "marking" /\ adm[d].pc = "closing"
          /\ \A c \in Conns : closed'[c] = (closed[c] \/ c = adm[d].held)
      BY <1>0, <1>4, AdminMoves DEF DisconnectClose
    <2>2. CopiesAgree'
      BY <1>0, <2>1 DEF HubInv, CopiesAgree
    <2>3. ASSUME NEW c \in Conns, BeingKicked(c), ~closed'[c] PROVE BeingKicked(c)'
      <3>1. c # adm[d].held
        BY <2>1, <2>3
      <3>2. PICK e \in Admins : \/ adm[e].pc = "closing" /\ adm[e].held = c
                                \/ adm[e].agent = owner[c] /\ adm[e].pc = "unlink"
        BY <2>3 DEF BeingKicked, BeingDisconnected
      <3>3. e # d
        BY <2>1, <3>1, <3>2
      <3>4. adm'[e] = adm[e]
        BY <1>0, <3>3
      <3> QED BY <2>1, <3>2, <3>4 DEF BeingKicked, BeingDisconnected
    <2>4. \A c \in Conns : closed[c] => closed'[c]
      BY <2>1
    <2>5. ServedAgree'
      BY <2>1, <2>3, <2>4 DEF HubInv, ServedAgree
    <2> QED BY <2>2, <2>5
  <1>5. CASE DisconnectMark(d) \/ DisconnectDrop(d) \/ DeleteRow(d)
    <2>1. /\ UNCHANGED <<stage, owner, closed, tok, snap, raced>>
          /\ adm[d].pc \in {"marking", "dropping", "deleting"}
          /\ adm'[d].pc \in {"dropping", "deleting", "done"}
      BY <1>0, <1>5, AdminMoves DEF DisconnectMark, DisconnectDrop, DeleteRow
    <2>2. \A x \in Agents : row'[x].token = row[x].token
      <3>1. CASE DisconnectMark(d)
        BY <1>0, <3>1, TokenKept DEF DisconnectMark
      <3>2. CASE DisconnectDrop(d)
        BY <3>2 DEF DisconnectDrop
      <3>3. CASE DeleteRow(d)
        BY <1>0, <3>3 DEF DeleteRow, Row
      <3> QED BY <1>5, <3>1, <3>2, <3>3
    <2>3. CopiesAgree'
      BY <1>0, <1>9, <2>1, <2>2 DEF HubInv, CopiesAgree
    <2>4. \A c \in Conns : BeingKicked(c) => BeingKicked(c)'
      BY <1>0, <2>1 DEF BeingKicked, BeingDisconnected
    <2>5. ServedAgree'
      BY <1>9, <2>1, <2>2, <2>4 DEF HubInv, ServedAgree, Served
    <2> QED BY <2>3, <2>5
  <1> QED BY <1>1, <1>2, <1>3, <1>4, <1>5 DEF AdminStepOf

\* The invariant holds in every reachable state.
THEOREM HubInvariant == Spec => []HubInv
  <1>1. Init => HubInv
    <2> SUFFICES ASSUME Init PROVE HubInv
      OBVIOUS
    <2> USE HubAssumption
    <2>1. TypeOK
      BY InitTypes
    <2>2. OwnerKnown /\ NewUnowned /\ NoGhostProbe /\ SupersededClosed
      BY DEF Init, OwnerKnown, NewUnowned, NoGhostProbe, SupersededClosed, Served
    <2>3. DeletionsLoadNothing
      BY DEF Init, DeletionsLoadNothing
    <2>4. OnlineJustified
      <3>1. \A x \in Agents : ~row[x].online
        BY DEF Init, NoRow
      <3> QED BY <3>1 DEF OnlineJustified
    <2>5. TunnelsHeld
      BY DEF Init, TunnelsHeld
    <2>6. CopiesAgree /\ ServedAgree
      BY DEF Init, CopiesAgree, ServedAgree, Served
    <2> QED BY <2>1, <2>2, <2>3, <2>4, <2>5, <2>6 DEF HubInv
  <1>2. HubInv /\ [Next]_vars => HubInv'
    <2> SUFFICES ASSUME HubInv, [Next]_vars PROVE HubInv'
      OBVIOUS
    <2>1. CASE UNCHANGED vars
      BY <2>1 DEF vars, HubInv, TypeOK, OwnerKnown, NewUnowned, DeletionsLoadNothing, NoGhostProbe,
                  SupersededClosed, OnlineJustified, OnlinePending, TunnelsHeld, CopiesAgree,
                  ServedAgree, BeingKicked, BeingDisconnected
    <2>2. ASSUME NEW d \in Admins, AdminStepOf(d) PROVE HubInv'
      BY <2>2, AdminTypes, AdminKeeps, AdminOnline, AdminTunnels, AdminTokens DEF HubInv
    <2>3. ASSUME NEW c \in Conns, ConnStep(c) PROVE HubInv'
      BY <2>3, ConnTypes, ConnKeeps, ConnOnline, ConnTunnels, ConnTokens DEF HubInv
    <2>4. ASSUME NEW c \in Conns, ConnEvent(c) PROVE HubInv'
      BY <2>4, EventTypes, EventKeeps, EventOnline, EventTunnels, EventTokens DEF HubInv
    <2> QED BY <2>1, <2>2, <2>3, <2>4 DEF Next
  <1> QED BY <1>1, <1>2, PTL DEF Spec

\* Every variable keeps its type.
THEOREM HubTypeCorrect == Spec => []TypeOK
  <1>1. HubInv => TypeOK
    BY DEF HubInv
  <1> QED BY <1>1, HubInvariant, PTL

\* Whatever the order in which reconnects, disconnections and the read pumps
\* run, Hub.agents only holds connections whose readPump will remove them.
THEOREM HubNoGhostProbe == Spec => []NoGhostProbe
  <1>1. HubInv => NoGhostProbe
    BY DEF HubInv
  <1> QED BY <1>1, HubInvariant, PTL

\* A connection the hub no longer knows is closed, or the Disconnect that took
\* it out is about to close it.
THEOREM HubSupersededClosed == Spec => []SupersededClosed
  <1>1. HubInv => SupersededClosed
    BY DEF HubInv
  <1> QED BY <1>1, HubInvariant, PTL

\* A probe is shown online only when it is connected, is about to be, or when
\* the write that says so came late.
THEOREM HubOnlineJustified == Spec => []OnlineJustified
  <1>1. HubInv => OnlineJustified
    BY DEF HubInv
  <1> QED BY <1>1, HubInvariant, PTL

\* A rotation that neither a handshake nor another edit of the row overlaps is
\* enforced: no connection with the old token stays.
THEOREM HubRotationEnforced == Spec => []RotationEnforced
  <1>1. HubInv => RotationEnforced
    BY DEF HubInv, ServedAgree, RotationEnforced
  <1> QED BY <1>1, HubInvariant, PTL

\* Only the connections that a reconnect replaced leave tunnels behind.
THEOREM HubTunnelsDropped == Spec => []TunnelsDropped
  <1>1. HubInv => TunnelsDropped
    BY HubAssumption DEF HubInv, TunnelsHeld, NoGhostProbe, Served, TunnelsDropped
  <1> QED BY <1>1, HubInvariant, PTL

==============================================================================
