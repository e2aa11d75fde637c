------------------------ MODULE ProxyService_proofs ------------------------
(* Proofs about the proxy service: the limit of tunnels per credential, the    *)
(* ownership of slots, the tunnels of a probe that left and the waits of the   *)
(* readPumps, for any number of requests, credentials, probes and goroutines.  *)
EXTENDS ProxyService, FiniteSetTheorems, TLAPS

\* The service starts without a request.
LEMMA ServiceStart == Init => ServiceInv
  <1> SUFFICES ASSUME Init PROVE ServiceInv
    OBVIOUS
  <1> USE ServiceAssumption
  <1>1. TypeOK
    BY DEF Init, TypeOK, HandlerStep, DropCall, PumpAt
  <1>2. Untouched /\ CredKnown /\ SlotsOwned /\ DropsCover /\ PumpsHold /\ SlowClientOnce
    BY DEF Init, Untouched, CredKnown, SlotsOwned, Active, DropsCover, PumpsHold, SlowClientOnce
  <1>3. LimitHeld
    <2>1. \A s \in Sessions : TunnelsOf(s) = {}
      BY DEF Init, TunnelsOf
    <2> QED BY <2>1, FS_EmptySet DEF LimitHeld
  <1> QED BY <1>1, <1>2, <1>3 DEF ServiceInv

-----------------------------------------------------------------------------
(* Types                                                                       *)

\* The goroutines of a request keep the types.
LEMMA RequestTypes ==
    ASSUME TypeOK, NEW r \in Requests, RequestNext(r)
    PROVE  TypeOK'
  <1> USE ServiceAssumption
  <1>1. CASE \E s \in Sessions : Authenticate(r, s)
    <2>1. PICK s \in Sessions : Authenticate(r, s)
      BY <1>1
    <2>2. pc' \in [Requests -> HandlerStep]
      <3>1. \E to \in {"authed", "ended"} : pc' = [pc EXCEPT ![r] = to]
        BY <2>1 DEF End, Authenticate
      <3> QED BY <3>1 DEF TypeOK, HandlerStep
    <2>3. cred' \in [Requests -> Sessions \cup {Nil}]
      BY <2>1 DEF TypeOK, Authenticate
    <2> QED BY <2>1, <2>2, <2>3 DEF TypeOK, Authenticate
  <1>2. CASE Reject(r)
    BY <1>2 DEF TypeOK, HandlerStep, End, Reject
  <1>3. CASE CheckOnline(r)
    BY <1>3 DEF TypeOK, HandlerStep, CheckOnline
  <1>4. CASE AddTunnel(r)
    BY <1>4 DEF TypeOK, HandlerStep, End, AddTunnel
  <1>5. CASE SendOpen(r)
    BY <1>5 DEF TypeOK, HandlerStep, SendOpen
  <1>6. CASE SendOpenQueued(r)
    BY <1>6 DEF TypeOK, HandlerStep, SendOpenQueued
  <1>7. CASE SendOpenFails(r)
    BY <1>7 DEF TypeOK, HandlerStep, Finish, End, SendOpenFails
  <1>8. CASE AwaitOpened(r)
    BY <1>8 DEF TypeOK, HandlerStep, AwaitOpened
  <1>9. CASE AwaitRefused(r)
    BY <1>9 DEF TypeOK, HandlerStep, Finish, End, AwaitRefused
  <1>10. CASE AwaitTimeout(r)
    BY <1>10 DEF TypeOK, HandlerStep, Finish, End, AwaitTimeout
  <1>11. CASE AwaitDone(r)
    BY <1>11 DEF TypeOK, HandlerStep, End, AwaitDone
  <1>12. CASE Establish(r)
    BY <1>12 DEF TypeOK, HandlerStep, Establish
  <1>13. CASE EstablishFails(r)
    BY <1>13 DEF TypeOK, HandlerStep, Finish, End, EstablishFails
  <1>14. CASE StartDrain(r)
    BY <1>14 DEF TypeOK, HandlerStep, StartDrain
  <1>15. CASE DrainEnds(r)
    BY <1>15 DEF TypeOK, HandlerStep, DrainEnds
  <1>16. CASE Join(r)
    BY <1>16 DEF TypeOK, HandlerStep, End, Join
  <1>17. CASE ReaderSendFails(r)
    BY <1>17 DEF TypeOK, Finish, ReaderSendFails
  <1>18. CASE ReaderEnds(r)
    BY <1>18 DEF TypeOK, Finish, ReaderEnds
  <1>19. CASE WriteChunk(r)
    BY <1>19 DEF TypeOK, WriteChunk
  <1>20. CASE WriteChunkFails(r)
    BY <1>20 DEF TypeOK, HandlerStep, Finish, WriteChunkFails
  <1>21. CASE Deadline(r)
    BY <1>21 DEF TypeOK, Deadline
  <1> QED BY <1>1, <1>2, <1>3, <1>4, <1>5, <1>6, <1>7, <1>8, <1>9, <1>10, <1>11, <1>12,
             <1>13, <1>14, <1>15, <1>16, <1>17, <1>18, <1>19, <1>20, <1>21 DEF RequestNext, Proceed

\* A readPump that moves on has the type of one.
LEMMA HandType ==
    ASSUME TypeOK, NEW p \in Pumps, NEW step \in {"idle", "deliver", "notify"},
           NEW r \in Requests \cup {Nil}, Hand(p, step, r)
    PROVE  hand' \in [Pumps -> PumpAt]
  <1>1. hand[p] \in PumpAt
    BY DEF TypeOK
  <1>2. [hand[p] EXCEPT !.step = step, !.on = r] \in PumpAt
    BY <1>1 DEF PumpAt
  <1> QED BY <1>2 DEF TypeOK, Hand

\* HandleAgent keeps the types; it only delivers where t.inbound has room.
LEMMA PumpTypes ==
    ASSUME TypeOK, PumpsHold, NEW p \in Pumps, PumpNext(p)
    PROVE  TypeOK'
  <1> USE ServiceAssumption
  <1>1. CASE \E r \in Requests, res \in {"ok", "failed"} : OpenResult(p, r, res)
    BY <1>1 DEF TypeOK, OpenResult, Known
  <1>2. CASE \E r \in Requests : Data(p, r)
    BY <1>2, HandType DEF TypeOK, Data
  <1>3. CASE \E r \in Requests : AgentCloses(p, r)
    BY <1>3 DEF TypeOK, Finish, AgentCloses, Known
  <1>4. CASE \E r \in Requests : BadPayload(p, r)
    BY <1>4, HandType DEF TypeOK, Finish, BadPayload
  <1>5. CASE Deliver(p)
    <2>1. hand' \in [Pumps -> PumpAt]
      BY <1>5, HandType DEF Deliver
    <2>2. inbound' \in [Requests -> 0..InboundQueue]
      <3>1. hand[p].on \in Requests /\ inbound[hand[p].on] \in 0..InboundQueue
        BY <1>5 DEF PumpsHold, TypeOK, Deliver
      <3>2. inbound[hand[p].on] + 1 \in 0..InboundQueue
        BY <1>5, <3>1 DEF Deliver
      <3> QED BY <1>5, <3>1, <3>2 DEF TypeOK, Deliver
    <2> QED BY <1>5, <2>1, <2>2 DEF TypeOK, Deliver
  <1>6. CASE DeliverDone(p)
    BY <1>6, HandType DEF TypeOK, DeliverDone
  <1>7. CASE DeliverTimeout(p)
    <2>1. hand[p] \in PumpAt /\ hand[p].on \in Requests
      BY <1>7 DEF TypeOK, PumpsHold, DeliverTimeout
    <2>2. hand' \in [Pumps -> PumpAt]
      BY <1>7, <2>1 DEF TypeOK, PumpAt, DeliverTimeout
    <2> QED BY <1>7, <2>1, <2>2 DEF TypeOK, Finish, DeliverTimeout
  <1>8. CASE Notified(p)
    BY <1>8, HandType DEF TypeOK, Notified
  <1> QED BY <1>1, <1>2, <1>3, <1>4, <1>5, <1>6, <1>7, <1>8 DEF PumpNext

\* DropAgent and the loss of a probe keep the types.
LEMMA DropTypes ==
    ASSUME TypeOK, NEW k \in Droppers, DropNext(k) \/ \E a \in Agents : AgentLeaves(k, a)
    PROVE  TypeOK'
  <1> USE ServiceAssumption
  <1>1. CASE DropCollect(k)
    <2> DEFINE ids == {r \in table : AgentOf(r) = drops[k].agent}
    <2>1. ids \in SUBSET Requests
      BY DEF TypeOK
    <2>2. /\ drops' = [drops EXCEPT ![k].step = "finishing", ![k].ids = ids]
          /\ UNCHANGED <<pc, cred, table, done, opened, inbound, client, rdr, hand, online, rev, expired>>
      BY <1>1 DEF DropCollect
    <2> HIDE DEF ids
    <2>3. drops[k] \in DropCall
      BY DEF TypeOK
    <2>4. [drops[k] EXCEPT !.step = "finishing", !.ids = ids] \in DropCall
      BY <2>1, <2>3 DEF DropCall
    <2>5. drops' \in [Droppers -> DropCall]
      BY <2>2, <2>4 DEF TypeOK
    <2> QED BY <2>2, <2>5 DEF TypeOK
  <1>2. CASE \E r \in Requests : DropFinish(k, r)
    <2>1. PICK r \in Requests : DropFinish(k, r)
      BY <1>2
    <2>2. drops[k] \in DropCall
      BY DEF TypeOK
    <2>3. [drops[k] EXCEPT !.ids = @ \ {r}] \in DropCall
      BY <2>2 DEF DropCall
    <2>4. drops' \in [Droppers -> DropCall]
      BY <2>1, <2>3 DEF TypeOK, DropFinish
    <2>5. table' \in SUBSET Requests /\ done' \in [Requests -> BOOLEAN]
      BY <2>1 DEF TypeOK, Finish, DropFinish
    <2> QED BY <2>1, <2>4, <2>5 DEF TypeOK, DropFinish
  <1>3. CASE DropReturns(k)
    <2>1. /\ drops' = [drops EXCEPT ![k].step = "idle"]
          /\ UNCHANGED <<pc, cred, table, done, opened, inbound, client, rdr, hand, online, rev, expired>>
      BY <1>3 DEF DropReturns
    <2>2. drops[k] \in DropCall
      BY DEF TypeOK
    <2>3. [drops[k] EXCEPT !.step = "idle"] \in DropCall
      BY <2>2 DEF DropCall
    <2>4. drops' \in [Droppers -> DropCall]
      BY <2>1, <2>3 DEF TypeOK
    <2> QED BY <2>1, <2>4 DEF TypeOK
  <1>4. CASE \E a \in Agents : AgentLeaves(k, a)
    BY <1>4 DEF TypeOK, DropCall, AgentLeaves
  <1> QED BY <1>1, <1>2, <1>3, <1>4 DEF DropNext

\* Revoke and expiry keep the types.
LEMMA RevokeTypes ==
    ASSUME TypeOK, NEW s \in Sessions, Revoke(s) \/ RevokeNext(s) \/ Expire(s)
    PROVE  TypeOK'
  <1> USE ServiceAssumption
  <1>1. CASE Revoke(s)
    BY <1>1 DEF TypeOK, Revoke
  <1>2. CASE RevokeCollect(s)
    BY <1>2 DEF TypeOK, RevokeCollect, TunnelsOf
  <1>3. CASE \E r \in Requests : RevokeFinish(s, r)
    BY <1>3 DEF TypeOK, Finish, RevokeFinish
  <1>4. CASE RevokeReturns(s)
    BY <1>4 DEF TypeOK, RevokeReturns
  <1>5. CASE Expire(s)
    BY <1>5 DEF TypeOK, Expire
  <1> QED BY <1>1, <1>2, <1>3, <1>4, <1>5 DEF RevokeNext

-----------------------------------------------------------------------------
(* Slots                                                                       *)

\* finish: the slot goes and t.done tells the handler that owned it.
LEMMA FinishSlots ==
    ASSUME ServiceInv, NEW r \in Requests, Finish(r), UNCHANGED <<pc, cred, rdr>>
    PROVE  SlotsOwned' /\ Untouched' /\ CredKnown'
  BY DEF ServiceInv, TypeOK, SlotsOwned, Untouched, CredKnown, Active, Finish

\* A handler leaves the table before it returns, and its reader before it ends.
LEMMA RequestSlots ==
    ASSUME ServiceInv, NEW r \in Requests, RequestNext(r)
    PROVE  SlotsOwned' /\ Untouched' /\ CredKnown'
  <1> USE ServiceAssumption
  <1>1. CASE \E s \in Sessions : Authenticate(r, s)
    <2>1. PICK s \in Sessions : Authenticate(r, s)
      BY <1>1
    <2>2. /\ UNCHANGED <<table, done, rdr>> /\ r \notin table
          /\ pc'[r] \in {"authed", "ended"} /\ (pc'[r] = "authed" => cred'[r] = s)
          /\ ~done[r] /\ rdr[r] = "none"
          /\ \A q \in Requests \ {r} : pc'[q] = pc[q] /\ cred'[q] = cred[q]
      BY <2>1 DEF ServiceInv, TypeOK, SlotsOwned, Untouched, Active, End, Authenticate
    <2> QED BY <2>2 DEF ServiceInv, SlotsOwned, Untouched, CredKnown, Active
  <1>2. CASE Reject(r)
    BY <1>2 DEF ServiceInv, TypeOK, SlotsOwned, Untouched, CredKnown, Active, End, Reject
  <1>3. CASE CheckOnline(r)
    BY <1>3 DEF ServiceInv, TypeOK, SlotsOwned, Untouched, CredKnown, Active, CheckOnline
  <1>4. CASE AddTunnel(r)
    <2>1. /\ UNCHANGED <<cred, done, rdr>> /\ ~done[r] /\ rdr[r] = "none"
          /\ cred[r] \in Sessions /\ r \notin table
          /\ \A q \in Requests \ {r} : pc'[q] = pc[q]
          /\ \/ pc'[r] = "ended" /\ table' = table
             \/ pc'[r] = "sending" /\ table' = table \cup {r}
      BY <1>4 DEF ServiceInv, TypeOK, SlotsOwned, Untouched, CredKnown, Active, End, AddTunnel
    <2> QED BY <2>1 DEF ServiceInv, SlotsOwned, Untouched, CredKnown, Active
  <1>5. CASE SendOpen(r)
    BY <1>5 DEF ServiceInv, TypeOK, SlotsOwned, Untouched, CredKnown, Active, SendOpen
  <1>6. CASE SendOpenQueued(r)
    BY <1>6 DEF ServiceInv, TypeOK, SlotsOwned, Untouched, CredKnown, Active,
       SendOpenQueued
  <1>7. CASE SendOpenFails(r)
    BY <1>7 DEF ServiceInv, TypeOK, SlotsOwned, Untouched, CredKnown, Active, Finish, End,
       SendOpenFails
  <1>8. CASE AwaitOpened(r)
    BY <1>8 DEF ServiceInv, TypeOK, SlotsOwned, Untouched, CredKnown, Active, AwaitOpened
  <1>9. CASE AwaitRefused(r)
    BY <1>9 DEF ServiceInv, TypeOK, SlotsOwned, Untouched, CredKnown, Active, Finish, End,
       AwaitRefused
  <1>10. CASE AwaitTimeout(r)
    BY <1>10 DEF ServiceInv, TypeOK, SlotsOwned, Untouched, CredKnown, Active, Finish,
       End, AwaitTimeout
  <1>11. CASE AwaitDone(r)
    BY <1>11 DEF ServiceInv, TypeOK, SlotsOwned, Untouched, CredKnown, Active, End,
       AwaitDone
  <1>12. CASE Establish(r)
    BY <1>12 DEF ServiceInv, TypeOK, SlotsOwned, Untouched, CredKnown, Active, Establish
  <1>13. CASE EstablishFails(r)
    BY <1>13 DEF ServiceInv, TypeOK, SlotsOwned, Untouched, CredKnown, Active, Finish,
       End, EstablishFails
  <1>14. CASE StartDrain(r)
    BY <1>14 DEF ServiceInv, TypeOK, SlotsOwned, Untouched, CredKnown, Active, StartDrain
  <1>15. CASE DrainEnds(r)
    BY <1>15 DEF ServiceInv, TypeOK, SlotsOwned, Untouched, CredKnown, Active, DrainEnds
  <1>16. CASE Join(r)
    BY <1>16 DEF ServiceInv, TypeOK, SlotsOwned, Untouched, CredKnown, Active, End, Join
  <1>17. CASE ReaderSendFails(r)
    BY <1>17 DEF ServiceInv, TypeOK, SlotsOwned, Untouched, CredKnown, Active, Finish,
       ReaderSendFails
  <1>18. CASE ReaderEnds(r)
    BY <1>18 DEF ServiceInv, TypeOK, SlotsOwned, Untouched, CredKnown, Active, Finish,
       ReaderEnds
  <1>19. CASE WriteChunk(r)
    BY <1>19 DEF ServiceInv, TypeOK, SlotsOwned, Untouched, CredKnown, Active, WriteChunk
  <1>20. CASE WriteChunkFails(r)
    BY <1>20 DEF ServiceInv, TypeOK, SlotsOwned, Untouched, CredKnown, Active, Finish,
       WriteChunkFails
  <1>21. CASE Deadline(r)
    BY <1>21 DEF ServiceInv, TypeOK, SlotsOwned, Untouched, CredKnown, Active, Deadline
  <1> QED BY <1>1, <1>2, <1>3, <1>4, <1>5, <1>6, <1>7, <1>8, <1>9, <1>10, <1>11, <1>12,
             <1>13, <1>14, <1>15, <1>16, <1>17, <1>18, <1>19, <1>20, <1>21 DEF RequestNext, Proceed

\* HandleAgent finishes tunnels, and its handler is told by t.done.
LEMMA PumpSlots ==
    ASSUME ServiceInv, NEW p \in Pumps, PumpNext(p)
    PROVE  SlotsOwned' /\ Untouched' /\ CredKnown'
  <1> USE ServiceAssumption
  <1>1. CASE \E r \in Requests, res \in {"ok", "failed"} : OpenResult(p, r, res)
    BY <1>1 DEF ServiceInv, TypeOK, SlotsOwned, Untouched, CredKnown, Active, OpenResult,
       Known
  <1>2. CASE \E r \in Requests : Data(p, r)
    BY <1>2 DEF ServiceInv, TypeOK, SlotsOwned, Untouched, CredKnown, Active, Data, Known
  <1>3. CASE \E r \in Requests : AgentCloses(p, r)
    BY <1>3, FinishSlots DEF AgentCloses
  <1>4. CASE \E r \in Requests : BadPayload(p, r)
    BY <1>4, FinishSlots DEF BadPayload
  <1>5. CASE Deliver(p) \/ DeliverDone(p) \/ Notified(p)
    BY <1>5 DEF ServiceInv, SlotsOwned, Untouched, CredKnown, Active, Deliver, DeliverDone, Notified
  <1>6. CASE DeliverTimeout(p)
    <2>1. hand[p].on \in Requests
      BY <1>6 DEF ServiceInv, PumpsHold, DeliverTimeout
    <2> QED BY <1>6, <2>1, FinishSlots DEF DeliverTimeout
  <1> QED BY <1>1, <1>2, <1>3, <1>4, <1>5, <1>6 DEF PumpNext

\* So does DropAgent ...
LEMMA DropSlots ==
    ASSUME ServiceInv, NEW k \in Droppers, DropNext(k) \/ \E a \in Agents : AgentLeaves(k, a)
    PROVE  SlotsOwned' /\ Untouched' /\ CredKnown'
  <1> USE ServiceAssumption
  <1>1. CASE DropCollect(k)
    BY <1>1 DEF ServiceInv, TypeOK, SlotsOwned, Untouched, CredKnown, Active, DropCollect
  <1>2. CASE \E r \in Requests : DropFinish(k, r)
    BY <1>2, FinishSlots DEF DropFinish
  <1>3. CASE DropReturns(k)
    BY <1>3 DEF ServiceInv, TypeOK, SlotsOwned, Untouched, CredKnown, Active, DropReturns
  <1>4. CASE \E a \in Agents : AgentLeaves(k, a)
    BY <1>4 DEF ServiceInv, TypeOK, SlotsOwned, Untouched, CredKnown, Active, AgentLeaves
  <1> QED BY <1>1, <1>2, <1>3, <1>4 DEF DropNext

\* ... and Revoke.
LEMMA RevokeSlots ==
    ASSUME ServiceInv, NEW s \in Sessions, Revoke(s) \/ RevokeNext(s) \/ Expire(s)
    PROVE  SlotsOwned' /\ Untouched' /\ CredKnown'
  <1> USE ServiceAssumption
  <1>1. CASE Revoke(s)
    BY <1>1 DEF ServiceInv, TypeOK, SlotsOwned, Untouched, CredKnown, Active, Revoke
  <1>2. CASE RevokeCollect(s)
    BY <1>2 DEF ServiceInv, TypeOK, SlotsOwned, Untouched, CredKnown, Active,
       RevokeCollect, TunnelsOf
  <1>3. CASE \E r \in Requests : RevokeFinish(s, r)
    BY <1>3, FinishSlots DEF RevokeFinish
  <1>4. CASE RevokeReturns(s)
    BY <1>4 DEF ServiceInv, TypeOK, SlotsOwned, Untouched, CredKnown, Active,
       RevokeReturns
  <1>5. CASE Expire(s)
    BY <1>5 DEF ServiceInv, TypeOK, SlotsOwned, Untouched, CredKnown, Active, Expire
  <1> QED BY <1>1, <1>2, <1>3, <1>4, <1>5 DEF RevokeNext
-----------------------------------------------------------------------------
(* DropAgent's lists                                                           *)

\* A request only moves past "sending" while its probe is online.
LEMMA RequestCover ==
    ASSUME ServiceInv, NEW r \in Requests, RequestNext(r)
    PROVE  DropsCover'
  <1> USE ServiceAssumption
  <1>1. CASE \E s \in Sessions : Authenticate(r, s)
    <2>1. PICK s \in Sessions : Authenticate(r, s)
      BY <1>1
    <2>2. /\ UNCHANGED <<table, online, drops>>
          /\ \A q \in table : pc'[q] = pc[q] /\ cred'[q] = cred[q]
      <3>1. r \notin table
        BY <2>1 DEF ServiceInv, SlotsOwned, Active, Authenticate
      <3> QED BY <2>1, <3>1 DEF ServiceInv, TypeOK, End, Authenticate
    <2> QED BY <2>2 DEF ServiceInv, DropsCover, Covers, AgentOf
  <1>2. CASE Reject(r)
    BY <1>2 DEF ServiceInv, TypeOK, SlotsOwned, Active, DropsCover, Covers, AgentOf, End, Reject
  <1>3. CASE CheckOnline(r)
    BY <1>3 DEF ServiceInv, TypeOK, SlotsOwned, Active, DropsCover, Covers, AgentOf, CheckOnline
  <1>4. CASE AddTunnel(r)
    BY <1>4 DEF ServiceInv, TypeOK, SlotsOwned, Active, DropsCover, Covers, AgentOf, End,
       AddTunnel
  <1>5. CASE SendOpen(r)
    BY <1>5 DEF ServiceInv, TypeOK, SlotsOwned, Active, DropsCover, Covers, AgentOf, SendOpen
  <1>6. CASE SendOpenQueued(r)
    BY <1>6 DEF ServiceInv, TypeOK, SlotsOwned, Active, DropsCover, Covers, AgentOf,
       SendOpenQueued
  <1>7. CASE SendOpenFails(r)
    BY <1>7 DEF ServiceInv, TypeOK, SlotsOwned, Active, DropsCover, Covers, AgentOf, Finish, End,
       SendOpenFails
  <1>8. CASE AwaitOpened(r)
    BY <1>8 DEF ServiceInv, TypeOK, SlotsOwned, Active, DropsCover, Covers, AgentOf, AwaitOpened
  <1>9. CASE AwaitRefused(r)
    BY <1>9 DEF ServiceInv, TypeOK, SlotsOwned, Active, DropsCover, Covers, AgentOf, Finish, End,
       AwaitRefused
  <1>10. CASE AwaitTimeout(r)
    BY <1>10 DEF ServiceInv, TypeOK, SlotsOwned, Active, DropsCover, Covers, AgentOf, Finish, End,
       AwaitTimeout
  <1>11. CASE AwaitDone(r)
    BY <1>11 DEF ServiceInv, TypeOK, SlotsOwned, Active, DropsCover, Covers, AgentOf, End,
       AwaitDone
  <1>12. CASE Establish(r)
    BY <1>12 DEF ServiceInv, TypeOK, SlotsOwned, Active, DropsCover, Covers, AgentOf, Establish
  <1>13. CASE EstablishFails(r)
    BY <1>13 DEF ServiceInv, TypeOK, SlotsOwned, Active, DropsCover, Covers, AgentOf, Finish, End,
       EstablishFails
  <1>14. CASE StartDrain(r)
    BY <1>14 DEF ServiceInv, TypeOK, SlotsOwned, Active, DropsCover, Covers, AgentOf, StartDrain
  <1>15. CASE DrainEnds(r)
    BY <1>15 DEF ServiceInv, TypeOK, SlotsOwned, Active, DropsCover, Covers, AgentOf, DrainEnds
  <1>16. CASE Join(r)
    BY <1>16 DEF ServiceInv, TypeOK, SlotsOwned, Active, DropsCover, Covers, AgentOf, End, Join
  <1>17. CASE ReaderSendFails(r)
    BY <1>17 DEF ServiceInv, TypeOK, SlotsOwned, Active, DropsCover, Covers, AgentOf, Finish,
       ReaderSendFails
  <1>18. CASE ReaderEnds(r)
    BY <1>18 DEF ServiceInv, TypeOK, SlotsOwned, Active, DropsCover, Covers, AgentOf, Finish,
       ReaderEnds
  <1>19. CASE WriteChunk(r)
    BY <1>19 DEF ServiceInv, TypeOK, SlotsOwned, Active, DropsCover, Covers, AgentOf, WriteChunk
  <1>20. CASE WriteChunkFails(r)
    BY <1>20 DEF ServiceInv, TypeOK, SlotsOwned, Active, DropsCover, Covers, AgentOf, Finish,
       WriteChunkFails
  <1>21. CASE Deadline(r)
    BY <1>21 DEF ServiceInv, TypeOK, SlotsOwned, Active, DropsCover, Covers, AgentOf, Deadline
  <1> QED BY <1>1, <1>2, <1>3, <1>4, <1>5, <1>6, <1>7, <1>8, <1>9, <1>10, <1>11, <1>12,
             <1>13, <1>14, <1>15, <1>16, <1>17, <1>18, <1>19, <1>20, <1>21 DEF RequestNext, Proceed

\* HandleAgent only takes tunnels out.
LEMMA PumpCover ==
    ASSUME ServiceInv, NEW p \in Pumps, PumpNext(p)
    PROVE  DropsCover'
  <1> USE ServiceAssumption
  <1>1. CASE \E r \in Requests, res \in {"ok", "failed"} : OpenResult(p, r, res)
    BY <1>1 DEF ServiceInv, TypeOK, SlotsOwned, Active, DropsCover, Covers, AgentOf, OpenResult,
       Known
  <1>2. CASE \E r \in Requests : Data(p, r)
    BY <1>2 DEF ServiceInv, TypeOK, SlotsOwned, Active, DropsCover, Covers, AgentOf, Data, Known
  <1>3. CASE \E r \in Requests : AgentCloses(p, r)
    BY <1>3 DEF ServiceInv, TypeOK, SlotsOwned, Active, DropsCover, Covers, AgentOf, Finish,
       AgentCloses, Known
  <1>4. CASE \E r \in Requests : BadPayload(p, r)
    BY <1>4 DEF ServiceInv, DropsCover, Covers, AgentOf, Finish, BadPayload
  <1>5. CASE Deliver(p) \/ DeliverDone(p) \/ Notified(p)
    BY <1>5 DEF ServiceInv, DropsCover, Covers, AgentOf, Deliver, DeliverDone, Notified
  <1>6. CASE DeliverTimeout(p)
    BY <1>6 DEF ServiceInv, DropsCover, Covers, AgentOf, Finish, DeliverTimeout
  <1> QED BY <1>1, <1>2, <1>3, <1>4, <1>5, <1>6 DEF PumpNext

\* A call that makes its list has all of them, and returns when none is left.
LEMMA DropCover ==
    ASSUME ServiceInv, NEW k \in Droppers, DropNext(k) \/ \E a \in Agents : AgentLeaves(k, a)
    PROVE  DropsCover'
  <1> USE ServiceAssumption
  <1>1. CASE DropCollect(k)
    <2> DEFINE ids == {r \in table : AgentOf(r) = drops[k].agent}
    <2>1. /\ drops' = [drops EXCEPT ![k].step = "finishing", ![k].ids = ids]
          /\ drops[k].step = "due" /\ UNCHANGED <<pc, cred, table, online>>
      BY <1>1 DEF DropCollect
    <2>2. /\ drops'[k].agent = drops[k].agent /\ drops'[k].step = "finishing" /\ drops'[k].ids = ids
          /\ \A l \in Droppers \ {k} : drops'[l] = drops[l]
      BY <2>1 DEF ServiceInv, TypeOK
    <2>3. SUFFICES ASSUME NEW a \in Agents, NEW r \in table,
                          ~online[a], AgentOf(r) = a, pc[r] # "sending"
                   PROVE  \E l \in Droppers : Covers(l, a, r)'
      BY <2>1 DEF DropsCover, AgentOf
    <2>4. PICK l \in Droppers : Covers(l, a, r)
      BY <2>3 DEF ServiceInv, DropsCover
    <2>5. CASE l = k
      <3>1. drops[k].agent = a
        BY <2>4, <2>5 DEF Covers
      <3>2. r \in ids
        BY <2>3, <3>1
      <3> QED BY <2>2, <3>1, <3>2 DEF Covers
    <2>6. CASE l # k
      BY <2>2, <2>4, <2>6 DEF Covers
    <2> QED BY <2>5, <2>6
  <1>2. CASE \E r \in Requests : DropFinish(k, r)
    <2>1. PICK r \in Requests : DropFinish(k, r)
      BY <1>2
    <2>2. /\ table' = table \ {r} /\ UNCHANGED <<pc, cred, online>>
          /\ drops' = [drops EXCEPT ![k].ids = @ \ {r}]
      BY <2>1 DEF DropFinish, Finish
    <2>3. /\ drops'[k].agent = drops[k].agent /\ drops'[k].step = drops[k].step
          /\ drops'[k].ids = drops[k].ids \ {r}
          /\ \A l \in Droppers \ {k} : drops'[l] = drops[l]
      BY <2>2 DEF ServiceInv, TypeOK, DropCall
    <2>4. \A b \in Agents, q \in table', l \in Droppers : Covers(l, b, q) => Covers(l, b, q)'
      BY <2>2, <2>3 DEF Covers
    <2> QED BY <2>2, <2>4 DEF ServiceInv, DropsCover, AgentOf
  <1>3. CASE DropReturns(k)
    <2>1. /\ drops' = [drops EXCEPT ![k].step = "idle"]
          /\ drops[k].step = "finishing" /\ drops[k].ids = {}
          /\ UNCHANGED <<pc, cred, table, online>>
      BY <1>3 DEF DropReturns
    <2>2. \A l \in Droppers \ {k} : drops'[l] = drops[l]
      BY <2>1 DEF ServiceInv, TypeOK
    <2>3. SUFFICES ASSUME NEW a \in Agents, NEW r \in table,
                          ~online[a], AgentOf(r) = a, pc[r] # "sending"
                   PROVE  \E l \in Droppers : Covers(l, a, r)'
      BY <2>1 DEF DropsCover, AgentOf
    <2>4. PICK l \in Droppers : Covers(l, a, r)
      BY <2>3 DEF ServiceInv, DropsCover
    <2>5. l # k
      BY <2>1, <2>4 DEF Covers
    <2>6. Covers(l, a, r)'
      BY <2>2, <2>4, <2>5 DEF Covers
    <2> QED BY <2>6
  <1>4. CASE \E a \in Agents : AgentLeaves(k, a)
    <2>1. PICK a \in Agents : AgentLeaves(k, a)
      BY <1>4
    <2>2. /\ drops' = [drops EXCEPT ![k] = [step |-> "due", agent |-> a, ids |-> {}]]
          /\ online' = [online EXCEPT ![a] = FALSE]
          /\ drops[k].step = "idle" /\ UNCHANGED <<pc, cred, table>>
      BY <2>1 DEF AgentLeaves
    <2>3. /\ drops'[k].agent = a /\ drops'[k].step = "due"
          /\ \A l \in Droppers \ {k} : drops'[l] = drops[l]
          /\ \A b \in Agents \ {a} : online'[b] = online[b]
      BY <2>2 DEF ServiceInv, TypeOK
    <2>4. \A b \in Agents, r \in table, l \in Droppers : Covers(l, b, r) => Covers(l, b, r)'
      BY <2>2, <2>3 DEF Covers
    <2>5. \A r \in table : Covers(k, a, r)'
      BY <2>3 DEF Covers
    <2> QED BY <2>2, <2>3, <2>4, <2>5 DEF ServiceInv, DropsCover, AgentOf
  <1> QED BY <1>1, <1>2, <1>3, <1>4 DEF DropNext

\* Revoke only takes tunnels out.
LEMMA RevokeCover ==
    ASSUME ServiceInv, NEW s \in Sessions, Revoke(s) \/ RevokeNext(s) \/ Expire(s)
    PROVE  DropsCover'
  <1> USE ServiceAssumption
  <1>1. CASE Revoke(s)
    BY <1>1 DEF ServiceInv, TypeOK, SlotsOwned, Active, DropsCover, Covers, AgentOf, Revoke
  <1>2. CASE RevokeCollect(s)
    BY <1>2 DEF ServiceInv, TypeOK, SlotsOwned, Active, DropsCover, Covers, AgentOf,
       RevokeCollect, TunnelsOf
  <1>3. CASE \E r \in Requests : RevokeFinish(s, r)
    BY <1>3 DEF ServiceInv, TypeOK, SlotsOwned, Active, DropsCover, Covers, AgentOf, Finish,
       RevokeFinish
  <1>4. CASE RevokeReturns(s)
    BY <1>4 DEF ServiceInv, TypeOK, SlotsOwned, Active, DropsCover, Covers, AgentOf, RevokeReturns
  <1>5. CASE Expire(s)
    BY <1>5 DEF ServiceInv, TypeOK, SlotsOwned, Active, DropsCover, Covers, AgentOf, Expire
  <1> QED BY <1>1, <1>2, <1>3, <1>4, <1>5 DEF RevokeNext

\* No other step touches the table, the handlers' credentials or the calls.
LEMMA ReturnsKeeps ==
    ASSUME ServiceInv, NEW a \in Agents, AgentReturns(a)
    PROVE  TypeOK' /\ SlotsOwned' /\ Untouched' /\ CredKnown' /\ DropsCover'
  <1>1. TypeOK'
    BY DEF ServiceInv, TypeOK, AgentReturns
  <1>2. SlotsOwned' /\ Untouched' /\ CredKnown'
    BY DEF ServiceInv, SlotsOwned, Untouched, CredKnown, Active, AgentReturns
  <1>3. DropsCover'
    BY DEF ServiceInv, TypeOK, DropsCover, Covers, AgentOf, AgentReturns
  <1> QED BY <1>1, <1>2, <1>3

-----------------------------------------------------------------------------
(* The limit of tunnels per credential                                         *)

\* Taking tunnels out of the table keeps the limit.
LEMMA FewerTunnels ==
    ASSUME ServiceInv, table' \subseteq table, \A r \in table : cred'[r] = cred[r]
    PROVE  LimitHeld'
  <1> USE ServiceAssumption
  <1> SUFFICES ASSUME NEW s \in Sessions
               PROVE  Cardinality(TunnelsOf(s)') <= MaxTunnelsPerSession
    BY DEF LimitHeld
  <1>1. TunnelsOf(s) \subseteq Requests /\ TunnelsOf(s)' \subseteq TunnelsOf(s)
    BY DEF ServiceInv, TypeOK, TunnelsOf
  <1>2. IsFiniteSet(TunnelsOf(s))
    BY <1>1, FS_Subset
  <1>3. /\ IsFiniteSet(TunnelsOf(s)')
        /\ Cardinality(TunnelsOf(s)') <= Cardinality(TunnelsOf(s))
    BY <1>1, <1>2, FS_Subset
  <1>4. Cardinality(TunnelsOf(s)) \in Nat /\ Cardinality(TunnelsOf(s)') \in Nat
    BY <1>2, <1>3, FS_CardinalityType
  <1>5. Cardinality(TunnelsOf(s)) <= MaxTunnelsPerSession
    BY DEF ServiceInv, LimitHeld
  <1> QED BY <1>3, <1>4, <1>5

\* addTunnel counts and inserts in one critical section.
LEMMA AddTunnelLimit ==
    ASSUME ServiceInv, NEW r \in Requests, AddTunnel(r)
    PROVE  LimitHeld'
  <1> USE ServiceAssumption
  <1>1. CASE table' = table
    BY <1>1, FewerTunnels DEF AddTunnel
  <1>2. CASE table' # table
    <2>1. /\ ~(Cardinality(TunnelsOf(cred[r])) >= MaxTunnelsPerSession)
          /\ table' = table \cup {r} /\ cred' = cred /\ r \notin table
      BY <1>2 DEF AddTunnel
    <2> SUFFICES ASSUME NEW s \in Sessions
                 PROVE  Cardinality(TunnelsOf(s)') <= MaxTunnelsPerSession
      BY DEF LimitHeld
    <2>2. TunnelsOf(s) \subseteq Requests
      BY DEF ServiceInv, TypeOK, TunnelsOf
    <2>3. IsFiniteSet(TunnelsOf(s))
      BY <2>2, FS_Subset
    <2>4. Cardinality(TunnelsOf(s)) \in Nat
      BY <2>3, FS_CardinalityType
    <2>5. CASE cred[r] = s
      <3>1. TunnelsOf(s)' = TunnelsOf(s) \cup {r} /\ r \notin TunnelsOf(s)
        BY <2>1, <2>5 DEF TunnelsOf
      <3>2. Cardinality(TunnelsOf(s)') = Cardinality(TunnelsOf(s)) + 1
        BY <2>3, <3>1, FS_AddElement
      <3> QED BY <2>1, <2>4, <2>5, <3>2
    <2>6. CASE cred[r] # s
      <3>1. TunnelsOf(s)' = TunnelsOf(s)
        BY <2>1, <2>6 DEF TunnelsOf
      <3> QED BY <3>1 DEF ServiceInv, LimitHeld
    <2> QED BY <2>5, <2>6
  <1> QED BY <1>1, <1>2

\* Only addTunnel adds a tunnel to the table, and a request of the table keeps
\* its credential.
LEMMA OnlyAddTunnelAdds ==
    ASSUME ServiceInv, Next, ~(\E r \in Requests : AddTunnel(r))
    PROVE  table' \subseteq table /\ \A q \in table : cred'[q] = cred[q]
  <1>1. ASSUME NEW r \in Requests, RequestNext(r)
        PROVE  table' \subseteq table /\ \A q \in table : cred'[q] = cred[q]
    <2>1. CASE \E s \in Sessions : Authenticate(r, s)
      BY <2>1 DEF ServiceInv, TypeOK, SlotsOwned, Active, Authenticate
    <2>2. CASE Proceed(r)
      BY <2>2 DEF Proceed, Finish, Reject, CheckOnline, SendOpen, SendOpenQueued, SendOpenFails,
         AwaitOpened, AwaitRefused, AwaitTimeout, AwaitDone, Establish, EstablishFails,
         StartDrain, DrainEnds, Join
    <2>3. CASE ReaderSendFails(r) \/ ReaderEnds(r) \/ WriteChunk(r) \/ WriteChunkFails(r) \/ Deadline(r)
      BY <2>3 DEF Finish, ReaderSendFails, ReaderEnds, WriteChunk, WriteChunkFails, Deadline
    <2> QED BY <1>1, <2>1, <2>2, <2>3 DEF RequestNext
  <1>2. ASSUME NEW p \in Pumps, PumpNext(p)
        PROVE  table' \subseteq table /\ cred' = cred
    BY <1>2 DEF PumpNext, Finish, OpenResult, Data, AgentCloses, BadPayload, Deliver, DeliverDone,
       DeliverTimeout, Notified
  <1>3. ASSUME NEW k \in Droppers, DropNext(k) \/ \E a \in Agents : AgentLeaves(k, a)
        PROVE  table' \subseteq table /\ cred' = cred
    BY <1>3 DEF DropNext, Finish, DropCollect, DropFinish, DropReturns, AgentLeaves
  <1>4. ASSUME NEW a \in Agents, AgentReturns(a)
        PROVE  table' \subseteq table /\ cred' = cred
    BY <1>4 DEF AgentReturns
  <1>5. ASSUME NEW s \in Sessions, Revoke(s) \/ RevokeNext(s) \/ Expire(s)
        PROVE  table' \subseteq table /\ cred' = cred
    BY <1>5 DEF Revoke, RevokeNext, Finish, RevokeCollect, RevokeFinish, RevokeReturns, Expire
  <1> QED BY <1>1, <1>2, <1>3, <1>4, <1>5 DEF Next

-----------------------------------------------------------------------------
(* The readPumps                                                               *)

\* t.done is closed for good, and a tunnel only leaves the table with it.
LEMMA TunnelsEndDone ==
    ASSUME ServiceInv, Next, NEW r \in Requests
    PROVE  (done[r] => done'[r]) /\ (r \in table => r \in table' \/ done'[r])
  <1> DEFINE Told == (done[r] => done'[r]) /\ (r \in table => r \in table' \/ done'[r])
  <1>1. ASSUME NEW q, Finish(q) PROVE Told
    BY <1>1 DEF ServiceInv, TypeOK, Finish
  <1>2. ASSUME table \subseteq table', UNCHANGED done PROVE Told
    BY <1>2
  <1> HIDE DEF Told
  <1>3. ASSUME NEW q \in Requests, RequestNext(q) PROVE Told
    <2>1. CASE SendOpenFails(q) \/ AwaitRefused(q) \/ AwaitTimeout(q) \/ EstablishFails(q)
      BY <1>1, <2>1 DEF SendOpenFails, AwaitRefused, AwaitTimeout, EstablishFails
    <2>2. CASE ReaderSendFails(q) \/ ReaderEnds(q) \/ WriteChunkFails(q)
      BY <1>1, <2>2 DEF ReaderSendFails, ReaderEnds, WriteChunkFails
    <2>3. CASE \E s \in Sessions : Authenticate(q, s)
      BY <1>2, <2>3 DEF Authenticate
    <2>4. CASE AddTunnel(q)
      BY <1>2, <2>4 DEF AddTunnel
    <2>5. CASE Reject(q) \/ CheckOnline(q) \/ SendOpen(q) \/ SendOpenQueued(q) \/ AwaitOpened(q)
      BY <1>2, <2>5 DEF Reject, CheckOnline, SendOpen, SendOpenQueued, AwaitOpened
    <2>6. CASE AwaitDone(q) \/ Establish(q) \/ StartDrain(q) \/ DrainEnds(q) \/ Join(q)
      BY <1>2, <2>6 DEF AwaitDone, Establish, StartDrain, DrainEnds, Join
    <2>7. CASE WriteChunk(q) \/ Deadline(q)
      BY <1>2, <2>7 DEF WriteChunk, Deadline
    <2> QED BY <1>3, <2>1, <2>2, <2>3, <2>4, <2>5, <2>6, <2>7 DEF RequestNext, Proceed
  <1>4. ASSUME NEW p \in Pumps, PumpNext(p) PROVE Told
    <2>1. CASE \E q \in Requests : AgentCloses(p, q) \/ BadPayload(p, q)
      BY <1>1, <2>1 DEF AgentCloses, BadPayload
    <2>2. CASE DeliverTimeout(p)
      BY <1>1, <2>2 DEF DeliverTimeout
    <2>3. CASE \E q \in Requests : Data(p, q) \/ \E res \in {"ok", "failed"} : OpenResult(p, q, res)
      BY <1>2, <2>3 DEF Data, OpenResult
    <2>4. CASE Deliver(p) \/ DeliverDone(p) \/ Notified(p)
      BY <1>2, <2>4 DEF Deliver, DeliverDone, Notified
    <2> QED BY <1>4, <2>1, <2>2, <2>3, <2>4 DEF PumpNext
  <1>5. ASSUME NEW k \in Droppers, DropNext(k) \/ \E a \in Agents : AgentLeaves(k, a) PROVE Told
    BY <1>1, <1>2, <1>5 DEF DropNext, DropCollect, DropFinish, DropReturns, AgentLeaves
  <1>6. ASSUME NEW a \in Agents, AgentReturns(a) PROVE Told
    BY <1>2, <1>6 DEF AgentReturns
  <1>7. ASSUME NEW s \in Sessions, Revoke(s) \/ RevokeNext(s) \/ Expire(s) PROVE Told
    BY <1>1, <1>2, <1>7 DEF Revoke, RevokeNext, RevokeCollect, RevokeFinish, RevokeReturns, Expire
  <1>8. Told
    BY <1>3, <1>4, <1>5, <1>6, <1>7 DEF Next
  <1> QED BY <1>8 DEF Told

\* Only HandleAgent moves a readPump.
LEMMA OnlyPumpsMove ==
    ASSUME Next, ~(\E p \in Pumps : PumpNext(p))
    PROVE  hand' = hand
  <1>1. ASSUME NEW r \in Requests, RequestNext(r) PROVE hand' = hand
    <2>1. CASE \E s \in Sessions : Authenticate(r, s)
      BY <2>1 DEF Authenticate
    <2>2. CASE Proceed(r)
      BY <2>2 DEF Proceed, Reject, CheckOnline, AddTunnel, SendOpen, SendOpenQueued,
         SendOpenFails, AwaitOpened, AwaitRefused, AwaitTimeout, AwaitDone, Establish,
         EstablishFails, StartDrain, DrainEnds, Join
    <2>3. CASE ReaderSendFails(r) \/ ReaderEnds(r) \/ WriteChunk(r) \/ WriteChunkFails(r) \/ Deadline(r)
      BY <2>3 DEF ReaderSendFails, ReaderEnds, WriteChunk, WriteChunkFails, Deadline
    <2> QED BY <1>1, <2>1, <2>2, <2>3 DEF RequestNext
  <1>2. ASSUME NEW k \in Droppers, DropNext(k) \/ \E a \in Agents : AgentLeaves(k, a)
        PROVE  hand' = hand
    BY <1>2 DEF DropNext, DropCollect, DropFinish, DropReturns, AgentLeaves
  <1>3. ASSUME NEW a \in Agents, AgentReturns(a) PROVE hand' = hand
    BY <1>3 DEF AgentReturns
  <1>4. ASSUME NEW s \in Sessions, Revoke(s) \/ RevokeNext(s) \/ Expire(s) PROVE hand' = hand
    BY <1>4 DEF Revoke, RevokeNext, RevokeCollect, RevokeFinish, RevokeReturns, Expire
  <1> QED BY <1>1, <1>2, <1>3, <1>4 DEF Next

\* What HandleAgent does with its own hand: it takes up a tunnel of the table, and
\* gives one up only as it finishes it.
LEMMA PumpMoves ==
    ASSUME ServiceInv, NEW p \in Pumps, PumpNext(p)
    PROVE  /\ \A q \in Pumps \ {p} : hand'[q] = hand[q]
           /\ \/ hand'[p] = hand[p]
              \/ /\ hand'[p].slow = hand[p].slow
                 /\ hand'[p].step = "deliver" => hand'[p].on \in table /\ table' = table
              \/ /\ hand'[p].step # "deliver" /\ hand[p].step = "deliver"
                 /\ hand'[p].slow = hand[p].slow \cup {hand[p].on} /\ Finish(hand[p].on)
  <1> DEFINE Moves == /\ \A q \in Pumps \ {p} : hand'[q] = hand[q]
                      /\ \/ hand'[p] = hand[p]
                         \/ /\ hand'[p].slow = hand[p].slow
                            /\ hand'[p].step = "deliver" => hand'[p].on \in table /\ table' = table
                         \/ /\ hand'[p].step # "deliver" /\ hand[p].step = "deliver"
                            /\ hand'[p].slow = hand[p].slow \cup {hand[p].on} /\ Finish(hand[p].on)
  <1> SUFFICES Moves
    OBVIOUS
  <1>1. hand \in [Pumps -> PumpAt] /\ hand[p] \in PumpAt
    BY DEF ServiceInv, TypeOK
  <1>2. ASSUME NEW step, NEW r, Hand(p, step, r),
               step = "deliver" => r \in table /\ table' = table
        PROVE  Moves
    <2>1. /\ \A q \in Pumps \ {p} : hand'[q] = hand[q]
          /\ hand'[p] = [hand[p] EXCEPT !.step = step, !.on = r]
      BY <1>1, <1>2 DEF Hand
    <2>2. hand'[p].slow = hand[p].slow /\ hand'[p].step = step /\ hand'[p].on = r
      BY <1>1, <2>1 DEF PumpAt
    <2> QED BY <1>2, <2>1, <2>2
  <1>3. CASE DeliverTimeout(p)
    <2>1. /\ \A q \in Pumps \ {p} : hand'[q] = hand[q]
          /\ hand'[p].step # "deliver" /\ hand'[p].slow = hand[p].slow \cup {hand[p].on}
      BY <1>1, <1>3 DEF DeliverTimeout
    <2> QED BY <1>3, <2>1 DEF DeliverTimeout
  <1>4. CASE UNCHANGED hand
    BY <1>4
  <1> HIDE DEF Moves
  <1>5. CASE \E r \in Requests : Data(p, r)
    BY <1>2, <1>5 DEF Data, Known
  <1>6. CASE (\E r \in Requests : BadPayload(p, r)) \/ Deliver(p) \/ DeliverDone(p) \/ Notified(p)
    BY <1>2, <1>6 DEF BadPayload, Deliver, DeliverDone, Notified
  <1>7. CASE \E r \in Requests : AgentCloses(p, r) \/ \E res \in {"ok", "failed"} : OpenResult(p, r, res)
    BY <1>4, <1>7 DEF AgentCloses, OpenResult
  <1> QED BY <1>3, <1>5, <1>6, <1>7 DEF PumpNext

\* A readPump that gives a tunnel up has ended it, so that it meets it no more.
LEMMA PumpsStep ==
    ASSUME ServiceInv, Next
    PROVE  PumpsHold' /\ SlowClientOnce'
  <1>1. \A r \in Requests : (done[r] => done'[r]) /\ (r \in table => r \in table' \/ done'[r])
    BY TunnelsEndDone
  <1>2. \A p \in Pumps : hand[p].slow \subseteq Requests
    BY DEF ServiceInv, TypeOK, PumpAt
  <1>3. table \subseteq Requests /\ \A r \in table : ~done[r]
    BY DEF ServiceInv, TypeOK, SlotsOwned
  <1> DEFINE Holds(p) == /\ hand[p].step = "deliver" =>
                               hand[p].on \in Requests /\ (hand[p].on \in table \/ done[hand[p].on])
                         /\ \A r \in hand[p].slow : done[r]
             Once(p) == hand[p].step = "deliver" => hand[p].on \notin hand[p].slow
  <1>4. \A p \in Pumps : Holds(p) /\ Once(p)
    BY DEF ServiceInv, PumpsHold, SlowClientOnce
  <1>5. ASSUME NEW p \in Pumps, hand'[p] = hand[p] PROVE Holds(p)' /\ Once(p)'
    BY <1>1, <1>2, <1>4, <1>5
  <1>6. ASSUME NEW p \in Pumps, PumpNext(p) PROVE Holds(p)' /\ Once(p)'
    <2>1. CASE hand'[p] = hand[p]
      BY <1>5, <2>1
    <2>2. CASE /\ hand'[p].slow = hand[p].slow
               /\ hand'[p].step = "deliver" => hand'[p].on \in table /\ table' = table
      BY <1>1, <1>2, <1>3, <1>4, <2>2
    <2>3. CASE /\ hand'[p].step # "deliver" /\ hand[p].step = "deliver"
               /\ hand'[p].slow = hand[p].slow \cup {hand[p].on} /\ Finish(hand[p].on)
      <3>1. hand[p].on \in Requests /\ done'[hand[p].on]
        BY <1>4, <2>3 DEF ServiceInv, TypeOK, Finish
      <3> QED BY <1>1, <1>2, <1>4, <2>3, <3>1
    <2> QED BY <1>6, <2>1, <2>2, <2>3, PumpMoves
  <1>7. ASSUME NEW p \in Pumps PROVE Holds(p)' /\ Once(p)'
    <2>1. CASE PumpNext(p)
      BY <1>6, <2>1
    <2>2. CASE ~PumpNext(p)
      <3>1. hand'[p] = hand[p]
        BY <2>2, PumpMoves, OnlyPumpsMove
      <3> QED BY <1>5, <3>1
    <2> QED BY <2>1, <2>2
  <1> QED BY <1>7 DEF PumpsHold, SlowClientOnce

-----------------------------------------------------------------------------
(* The theorems                                                                *)

\* Every step keeps the invariant.
LEMMA ServiceStep == ServiceInv /\ [Next]_vars => ServiceInv'
  <1> SUFFICES ASSUME ServiceInv, [Next]_vars PROVE ServiceInv'
    OBVIOUS
  <1>1. CASE UNCHANGED vars
    BY <1>1 DEF vars, ServiceInv, TypeOK, Untouched, CredKnown, SlotsOwned, Active, LimitHeld,
       TunnelsOf, DropsCover, Covers, AgentOf, PumpsHold, SlowClientOnce
  <1>2. CASE Next
    <2>1. LimitHeld' /\ PumpsHold' /\ SlowClientOnce'
      BY <1>2, AddTunnelLimit, OnlyAddTunnelAdds, FewerTunnels, PumpsStep
    <2>2. TypeOK /\ PumpsHold
      BY DEF ServiceInv
    <2>3. ASSUME NEW r \in Requests, RequestNext(r) PROVE ServiceInv'
      BY <2>1, <2>2, <2>3, RequestTypes, RequestSlots, RequestCover DEF ServiceInv
    <2>4. ASSUME NEW p \in Pumps, PumpNext(p) PROVE ServiceInv'
      BY <2>1, <2>2, <2>4, PumpTypes, PumpSlots, PumpCover DEF ServiceInv
    <2>5. ASSUME NEW k \in Droppers, DropNext(k) \/ \E a \in Agents : AgentLeaves(k, a)
          PROVE  ServiceInv'
      BY <2>1, <2>2, <2>5, DropTypes, DropSlots, DropCover DEF ServiceInv
    <2>6. ASSUME NEW a \in Agents, AgentReturns(a) PROVE ServiceInv'
      BY <2>1, <2>6, ReturnsKeeps DEF ServiceInv
    <2>7. ASSUME NEW s \in Sessions, Revoke(s) \/ RevokeNext(s) \/ Expire(s)
          PROVE  ServiceInv'
      BY <2>1, <2>2, <2>7, RevokeTypes, RevokeSlots, RevokeCover DEF ServiceInv
    <2> QED BY <1>2, <2>3, <2>4, <2>5, <2>6, <2>7 DEF Next
  <1> QED BY <1>1, <1>2

\* The invariant holds of the service whatever its requests, probes and
\* goroutines do.
THEOREM ServiceInvariant == Spec => []ServiceInv
  BY ServiceStart, ServiceStep, PTL DEF Spec

\* Type correctness of the service: t.inbound never holds more than its capacity.
THEOREM ServiceTypes == Spec => []TypeOK
  <1>1. ServiceInv => TypeOK
    BY DEF ServiceInv
  <1> QED BY <1>1, ServiceInvariant, PTL

\* addTunnel: a credential never holds more than maxTunnelsPerSession tunnels.
THEOREM ServiceLimitHeld == Spec => []LimitHeld
  <1>1. ServiceInv => LimitHeld
    BY DEF ServiceInv
  <1> QED BY <1>1, ServiceInvariant, PTL

\* finish: no path leaks a slot of the table, and every handler whose slot is
\* gone has been told by t.done.
THEOREM ServiceSlotsOwned == Spec => []SlotsOwned
  <1>1. ServiceInv => SlotsOwned
    BY DEF ServiceInv
  <1> QED BY <1>1, ServiceInvariant, PTL

\* DropAgent leaves no tunnel of a probe that disconnected, whatever DropAgent
\* calls, deliveries and handlers run at once.
THEOREM ServiceOfflineDropped == Spec => []OfflineDropped
  <1>1. ServiceInv => OfflineDropped
    BY DEF ServiceInv, DropsCover, Covers, OfflineDropped
  <1> QED BY <1>1, ServiceInvariant, PTL

\* HandleAgent: a client that does not read costs the readPump of its probe one
\* inboundWait at most.
THEOREM ServiceSlowClientOnce == Spec => []SlowClientOnce
  <1>1. ServiceInv => SlowClientOnce
    BY DEF ServiceInv
  <1> QED BY <1>1, ServiceInvariant, PTL
=============================================================================
