------------------------ MODULE ProxySessions_proofs ------------------------
(* Proofs about the credential store, for any sets of handles, ids, users,  *)
(* callers and any time to live.                                            *)
EXTENDS ProxySessions, TLAPS

\* NewStore returns an empty store, which satisfies the invariant.
LEMMA InitInv == Init => StoreInv
  BY StoreAssumption
     DEF Init, StoreInv, TypeOK, CallOK, IndexesAgree, LiveCredentialsKept,
         RevokedUnreachable, Idle, Call, Reply, Session

\* A call that begins changes neither the store nor the clock.
LEMMA BeginInv ==
    ASSUME StoreInv, NEW p \in Callers, NEW c \in Call, Begin(p, c),
           c.now <= clock,
           c.op \in {"issue", "revoke"} => c.id \in Ids,
           c.op = "issue" => c.agent \in Agents,
           c.op = "authenticate" => c.user \in Users
    PROVE  StoreInv'
  BY StoreAssumption
     DEF StoreInv, TypeOK, CallOK, IndexesAgree, LiveCredentialsKept, DeadAt,
         RevokedUnreachable, Begin, Reply

\* purgeLocked removes dead sessions only, from both maps, and keeps the maps
\* in agreement: stated for the maps it returns.
LEMMA PurgeMaps ==
    ASSUME StoreInv, NEW now \in Nat, now <= clock,
           NEW idMap, idMap = IDsWithout(PurgedAt(now)),
           NEW usrMap, usrMap = UsersWithout(PurgedAt(now))
    PROVE  /\ idMap \in [Ids -> DOMAIN sess \cup {Nil}]
           /\ usrMap \in [Users -> DOMAIN sess \cup {Nil}]
           /\ \A i \in Ids : idMap[i] # Nil =>
                 /\ idMap[i] = byID[i]
                 /\ sess[idMap[i]].id = i
                 /\ usrMap[sess[idMap[i]].user] = idMap[i]
                 /\ ~DeadAt(idMap[i], now)
           /\ \A u \in Users : usrMap[u] # Nil =>
                 /\ usrMap[u] = byUser[u]
                 /\ sess[usrMap[u]].user = u
                 /\ idMap[sess[usrMap[u]].id] = usrMap[u]
           /\ \A h \in DOMAIN sess : ~DeadAt(h, clock) =>
                 idMap[sess[h].id] = h /\ usrMap[sess[h].user] = h
  <1> USE StoreAssumption DEF StoreInv, TypeOK, Session
  <1>1. \A h \in DOMAIN sess : DeadAt(h, now) => DeadAt(h, clock)
    BY DEF DeadAt
  <1>2. \A h : h \in PurgedAt(now) <=>
            h \in DOMAIN sess /\ byID[sess[h].id] = h /\ DeadAt(h, now)
    BY DEF PurgedAt
  <1>3. \A i \in Ids : /\ idMap[i] # Nil => idMap[i] = byID[i] /\ byID[i] \notin PurgedAt(now)
                       /\ byID[i] \notin PurgedAt(now) => idMap[i] = byID[i]
    BY DEF IDsWithout
  <1>4. \A u \in Users : /\ usrMap[u] # Nil => usrMap[u] = byUser[u] /\ byUser[u] \notin PurgedAt(now)
                         /\ byUser[u] \notin PurgedAt(now) => usrMap[u] = byUser[u]
    BY DEF UsersWithout, IndexesAgree, PurgedAt
  <1>5. idMap \in [Ids -> DOMAIN sess \cup {Nil}] /\ usrMap \in [Users -> DOMAIN sess \cup {Nil}]
    BY DEF IDsWithout, UsersWithout
  <1>6. ASSUME NEW i \in Ids, idMap[i] # Nil
        PROVE  /\ idMap[i] = byID[i]
               /\ sess[idMap[i]].id = i
               /\ usrMap[sess[idMap[i]].user] = idMap[i]
               /\ ~DeadAt(idMap[i], now)
    BY <1>6, <1>2, <1>3, <1>4 DEF IndexesAgree
  <1>7. ASSUME NEW u \in Users, usrMap[u] # Nil
        PROVE  /\ usrMap[u] = byUser[u]
               /\ sess[usrMap[u]].user = u
               /\ idMap[sess[usrMap[u]].id] = usrMap[u]
    BY <1>7, <1>2, <1>3, <1>4 DEF IndexesAgree
  <1>8. ASSUME NEW h \in DOMAIN sess, ~DeadAt(h, clock)
        PROVE  idMap[sess[h].id] = h /\ usrMap[sess[h].user] = h
    BY <1>8, <1>1, <1>2, <1>3, <1>4 DEF LiveCredentialsKept
  <1> QED BY <1>5, <1>6, <1>7, <1>8

\* A step that only replaces the two maps by the purged ones and returns
\* (List, and an Issue that fails after its purge).
LEMMA PurgeOnlyInv ==
    ASSUME StoreInv, NEW p \in Callers, NEW kind, NEW objs, call[p].now \in Nat,
           byID' = IDsWithout(PurgedAt(call[p].now)),
           byUser' = UsersWithout(PurgedAt(call[p].now)),
           Return(p, kind, objs), [kind |-> kind, objs |-> objs] \in Reply,
           kind # "revoked", UNCHANGED <<clock, sess>>
    PROVE  StoreInv'
  <1> USE StoreAssumption DEF StoreInv
  <1>1. call[p].now <= clock
    BY DEF CallOK
  <1>2. /\ byID' \in [Ids -> DOMAIN sess \cup {Nil}]
        /\ byUser' \in [Users -> DOMAIN sess \cup {Nil}]
        /\ \A i \in Ids : byID'[i] # Nil =>
              /\ byID'[i] = byID[i]
              /\ sess[byID'[i]].id = i
              /\ byUser'[sess[byID'[i]].user] = byID'[i]
        /\ \A u \in Users : byUser'[u] # Nil =>
              /\ byUser'[u] = byUser[u]
              /\ sess[byUser'[u]].user = u
              /\ byID'[sess[byUser'[u]].id] = byUser'[u]
        /\ \A h \in DOMAIN sess : ~DeadAt(h, clock) =>
              byID'[sess[h].id] = h /\ byUser'[sess[h].user] = h
    BY <1>1, PurgeMaps
  <1>3. TypeOK'
    BY <1>2 DEF TypeOK, Return, Idle, Call, Reply
  <1>4. CallOK'
    BY DEF TypeOK, CallOK, Return, Idle
  <1>5. IndexesAgree' /\ LiveCredentialsKept'
    BY <1>2 DEF IndexesAgree, LiveCredentialsKept, DeadAt
  <1>6. RevokedUnreachable'
    <2>1. /\ \A i \in Ids : byID[i] # Nil => ~sess[byID[i]].revoked
          /\ \A u \in Users : byUser[u] # Nil => ~sess[byUser[u]].revoked
          /\ \A q \in Callers : reply[q].kind = "revoked" =>
                \A h \in reply[q].objs : h \in DOMAIN sess /\ sess[h].revoked
      BY DEF RevokedUnreachable
    <2>2. \A q \in Callers : reply'[q].kind = "revoked" => reply'[q] = reply[q]
      BY DEF TypeOK, Return
    <2>3. \A q \in Callers : reply'[q].kind = "revoked" =>
             \A h \in reply'[q].objs : h \in DOMAIN sess' /\ sess'[h].revoked
      BY <2>1, <2>2
    <2>4. /\ \A i \in Ids : byID'[i] # Nil => byID'[i] = byID[i]
          /\ \A u \in Users : byUser'[u] # Nil => byUser'[u] = byUser[u]
      BY <1>2
    <2> HIDE DEF StoreInv
    <2> QED BY <2>1, <2>3, <2>4 DEF RevokedUnreachable
  <1> QED BY <1>3, <1>4, <1>5, <1>6

\* List purges and returns: the invariant is kept by PurgeOnlyInv.
LEMMA ListInv ==
    ASSUME StoreInv, NEW p \in Callers, ListLocked(p)
    PROVE  StoreInv'
  <1>1. call[p].now \in Nat
    BY DEF StoreInv, TypeOK, Call
  <1>2. [kind |-> "listing", objs |-> {h \in DOMAIN sess : \E i \in Ids : byID'[i] = h}] \in Reply
    BY DEF StoreInv, TypeOK, Reply
  <1> QED BY <1>1, <1>2, PurgeOnlyInv DEF ListLocked

\* Authenticate only reads the store; its reply names sessions of the store.
LEMMA AuthenticateInv ==
    ASSUME StoreInv, NEW p \in Callers, AuthenticateLocked(p)
    PROVE  StoreInv'
  <1>1. Accepted(p) \in SUBSET Handles
    BY DEF StoreInv, TypeOK, Accepted
  <1>2. TypeOK'
    BY <1>1, StoreAssumption DEF StoreInv, TypeOK, AuthenticateLocked, Return, Idle, Call, Reply
  <1>3. CallOK' /\ IndexesAgree' /\ LiveCredentialsKept'
    BY DEF StoreInv, TypeOK, CallOK, IndexesAgree, LiveCredentialsKept, DeadAt,
           AuthenticateLocked, Return, Idle
  <1>4. RevokedUnreachable'
    BY DEF StoreInv, TypeOK, RevokedUnreachable, AuthenticateLocked, Return
  <1> QED BY <1>2, <1>3, <1>4 DEF StoreInv

\* Revoke marks a session and removes it from both maps, or changes nothing.
LEMMA RevokeInv ==
    ASSUME StoreInv, NEW p \in Callers, RevokeLocked(p)
    PROVE  StoreInv'
  <1> USE StoreAssumption DEF StoreInv
  <1> DEFINE h == byID[call[p].id]
  <1>0. call[p].id \in Ids /\ call[p].now \in Nat /\ call[p].now <= clock
    BY DEF RevokeLocked, CallOK, TypeOK, Call
  <1>1. CASE ~Revocable(p)
    <2>1. UNCHANGED <<clock, sess, byID, byUser>> /\ Return(p, "refused", {})
      BY <1>1 DEF RevokeLocked
    <2> QED BY <2>1 DEF TypeOK, CallOK, IndexesAgree, LiveCredentialsKept, DeadAt,
                        RevokedUnreachable, Return, Idle, Call, Reply
  <1>2. CASE Revocable(p)
    <2>1. /\ h \in DOMAIN sess /\ h \in Handles /\ sess[h] \in Session
          /\ sess[h].id = call[p].id /\ byUser[sess[h].user] = h
          /\ sess' = [sess EXCEPT ![h].revoked = TRUE]
          /\ byID' = [byID EXCEPT ![sess[h].id] = Nil]
          /\ byUser' = [byUser EXCEPT ![sess[h].user] = Nil]
          /\ Return(p, "revoked", {h})
          /\ clock' = clock
      <3>1. h # Nil /\ h \in DOMAIN sess
        BY <1>0, <1>2 DEF Revocable, TypeOK
      <3>2. h \in Handles /\ sess[h] \in Session
        BY <3>1 DEF TypeOK
      <3>3. sess[h].id = call[p].id /\ byUser[sess[h].user] = h
        BY <1>0, <3>1 DEF IndexesAgree
      <3>4. /\ sess' = [sess EXCEPT ![h].revoked = TRUE]
            /\ byID' = [byID EXCEPT ![call[p].id] = Nil]
            /\ byUser' = [byUser EXCEPT ![sess[h].user] = IF @ = h THEN Nil ELSE @]
            /\ Return(p, "revoked", {h})
            /\ clock' = clock
        BY <1>2 DEF RevokeLocked
      <3> HIDE DEF h, StoreInv
      <3> QED BY <3>1, <3>2, <3>3, <3>4
    <2> HIDE DEF h
    <2>2. /\ DOMAIN sess' = DOMAIN sess
          /\ \A g \in DOMAIN sess : /\ sess'[g] \in Session
                                    /\ sess'[g].id = sess[g].id
                                    /\ sess'[g].user = sess[g].user
                                    /\ sess'[g].expires = sess[g].expires
                                    /\ sess'[g].revoked = (g = h \/ sess[g].revoked)
      BY <2>1 DEF TypeOK, Session
    <2>3. TypeOK'
      <3>1. sess' \in [DOMAIN sess' -> Session]
        BY <2>1, <2>2 DEF TypeOK
      <3>2. byID' \in [Ids -> DOMAIN sess' \cup {Nil}] /\ byUser' \in [Users -> DOMAIN sess' \cup {Nil}]
        BY <2>1, <2>2 DEF TypeOK
      <3>3. call' \in [Callers -> Call] /\ reply' \in [Callers -> Reply]
        BY <2>1 DEF TypeOK, Return, Idle, Call, Reply
      <3> QED BY <2>1, <2>2, <3>1, <3>2, <3>3 DEF TypeOK
    <2>4. CallOK'
      BY <2>1 DEF TypeOK, CallOK, Return, Idle
    <2>5. IndexesAgree'
      BY <2>1, <2>2 DEF TypeOK, IndexesAgree, Session
    <2>6. LiveCredentialsKept'
      BY <2>1, <2>2 DEF TypeOK, LiveCredentialsKept, DeadAt, Session, IndexesAgree
    <2>7. RevokedUnreachable'
      <3>1. ASSUME NEW q \in Callers, reply'[q].kind = "revoked", NEW g \in reply'[q].objs
            PROVE  g \in DOMAIN sess' /\ sess'[g].revoked
        BY <3>1, <2>1, <2>2 DEF RevokedUnreachable, Return, TypeOK
      <3>2. ASSUME NEW i \in Ids, byID'[i] # Nil
            PROVE  ~sess'[byID'[i]].revoked
        BY <3>2, <2>1, <2>2 DEF RevokedUnreachable, TypeOK, IndexesAgree
      <3>3. ASSUME NEW u \in Users, byUser'[u] # Nil
            PROVE  ~sess'[byUser'[u]].revoked
        BY <3>3, <2>1, <2>2 DEF RevokedUnreachable, TypeOK, IndexesAgree
      <3> QED BY <3>1, <3>2, <3>3 DEF RevokedUnreachable
    <2> QED BY <2>3, <2>4, <2>5, <2>6, <2>7
  <1> QED BY <1>1, <1>2

\* Issue purges and adds one session to both maps, or fails after its purge.
LEMMA IssueInv ==
    ASSUME StoreInv, NEW p \in Callers, IssueLocked(p)
    PROVE  StoreInv'
  <1> USE StoreAssumption DEF StoreInv
  <1> DEFINE now    == call[p].now
             id     == call[p].id
             idMap  == IDsWithout(PurgedAt(now))
             usrMap == UsersWithout(PurgedAt(now))
  <1>0. /\ now \in Nat /\ now <= clock /\ id \in Ids /\ call[p].agent \in Agents
        /\ clock' = clock /\ clock \in Nat
    BY DEF IssueLocked, CallOK, TypeOK, Call
  <1>1. CASE /\ byID' = idMap /\ byUser' = usrMap
             /\ Return(p, "refused", {}) /\ UNCHANGED sess
    <2>1. [kind |-> "refused", objs |-> {}] \in Reply
      BY DEF Reply
    <2> QED BY <1>0, <1>1, <2>1, PurgeOnlyInv
  <1>2. ASSUME NEW h \in Handles \ DOMAIN sess, NEW u \in Users,
               idMap[id] = Nil, usrMap[u] = Nil,
               sess' = [g \in DOMAIN sess \cup {h} |->
                          IF g = h THEN [id |-> id, user |-> u, agent |-> call[p].agent,
                                         expires |-> now + SessionTTL, revoked |-> FALSE]
                          ELSE sess[g]],
               byID' = [idMap EXCEPT ![id] = h],
               byUser' = [usrMap EXCEPT ![u] = h],
               Return(p, "issued", {h})
        PROVE  StoreInv'
    <2>1. /\ idMap \in [Ids -> DOMAIN sess \cup {Nil}]
          /\ usrMap \in [Users -> DOMAIN sess \cup {Nil}]
          /\ \A i \in Ids : idMap[i] # Nil =>
                /\ idMap[i] = byID[i]
                /\ sess[idMap[i]].id = i
                /\ usrMap[sess[idMap[i]].user] = idMap[i]
          /\ \A v \in Users : usrMap[v] # Nil =>
                /\ usrMap[v] = byUser[v]
                /\ sess[usrMap[v]].user = v
                /\ idMap[sess[usrMap[v]].id] = usrMap[v]
          /\ \A g \in DOMAIN sess : ~DeadAt(g, clock) =>
                idMap[sess[g].id] = g /\ usrMap[sess[g].user] = g
      BY <1>0, PurgeMaps
    <2>2. /\ DOMAIN sess' = DOMAIN sess \cup {h}
          /\ sess'[h] \in Session /\ sess'[h].id = id /\ sess'[h].user = u
          /\ ~sess'[h].revoked
          /\ \A g \in DOMAIN sess : g # h /\ sess'[g] = sess[g]
      BY <1>0, <1>2 DEF TypeOK, Session
    <2> HIDE DEF now, id, idMap, usrMap
    <2>3. TypeOK'
      <3>1. sess' \in [DOMAIN sess' -> Session] /\ DOMAIN sess' \in SUBSET Handles
        BY <1>2, <2>2 DEF TypeOK
      <3>2. byID' \in [Ids -> DOMAIN sess' \cup {Nil}] /\ byUser' \in [Users -> DOMAIN sess' \cup {Nil}]
        BY <1>0, <1>2, <2>1, <2>2 DEF TypeOK
      <3>3. call' \in [Callers -> Call] /\ reply' \in [Callers -> Reply]
        BY <1>2 DEF TypeOK, Return, Idle, Call, Reply
      <3> QED BY <1>0, <3>1, <3>2, <3>3 DEF TypeOK
    <2>4. CallOK'
      BY <1>0, <1>2 DEF TypeOK, CallOK, Return, Idle
    <2>5. IndexesAgree'
      <3>1. ASSUME NEW i \in Ids, byID'[i] # Nil
            PROVE  sess'[byID'[i]].id = i /\ byUser'[sess'[byID'[i]].user] = byID'[i]
        <4>1. CASE i = id
          BY <4>1, <1>0, <1>2, <2>1, <2>2
        <4>2. CASE i # id
          <5>1. byID'[i] = idMap[i] /\ idMap[i] \in DOMAIN sess
            BY <4>2, <3>1, <1>2, <2>1
          <5>2. sess'[byID'[i]] = sess[idMap[i]] /\ sess[idMap[i]].user \in Users
            BY <5>1, <2>2 DEF TypeOK, Session
          <5>3. sess[idMap[i]].user # u
            BY <5>1, <2>1, <1>2 DEF TypeOK
          <5>4. sess[idMap[i]].id = i /\ usrMap[sess[idMap[i]].user] = idMap[i]
            BY <5>1, <3>1, <2>1
          <5>5. byUser'[sess[idMap[i]].user] = usrMap[sess[idMap[i]].user]
            BY <5>2, <5>3, <1>2, <2>1
          <5> QED BY <5>1, <5>2, <5>4, <5>5
        <4> QED BY <4>1, <4>2
      <3>2. ASSUME NEW v \in Users, byUser'[v] # Nil
            PROVE  sess'[byUser'[v]].user = v /\ byID'[sess'[byUser'[v]].id] = byUser'[v]
        <4>1. CASE v = u
          BY <4>1, <1>0, <1>2, <2>1, <2>2
        <4>2. CASE v # u
          <5>1. byUser'[v] = usrMap[v] /\ usrMap[v] \in DOMAIN sess
            BY <4>2, <3>2, <1>2, <2>1
          <5>2. sess'[byUser'[v]] = sess[usrMap[v]] /\ sess[usrMap[v]].id \in Ids
            BY <5>1, <2>2 DEF TypeOK, Session
          <5>3. sess[usrMap[v]].id # id
            BY <5>1, <2>1, <1>2 DEF TypeOK
          <5>4. sess[usrMap[v]].user = v /\ idMap[sess[usrMap[v]].id] = usrMap[v]
            BY <5>1, <3>2, <2>1
          <5>5. byID'[sess[usrMap[v]].id] = idMap[sess[usrMap[v]].id]
            BY <5>2, <5>3, <1>2, <2>1
          <5> QED BY <5>1, <5>2, <5>4, <5>5
        <4> QED BY <4>1, <4>2
      <3> QED BY <3>1, <3>2 DEF IndexesAgree
    <2>6. LiveCredentialsKept'
      <3> SUFFICES ASSUME NEW g \in DOMAIN sess', ~DeadAt(g, clock)'
                   PROVE  byID'[sess'[g].id] = g /\ byUser'[sess'[g].user] = g
        BY DEF LiveCredentialsKept
      <3>1. CASE g = h
        BY <3>1, <1>0, <1>2, <2>1, <2>2
      <3>2. CASE g # h
        <4>1. g \in DOMAIN sess /\ sess'[g] = sess[g] /\ ~DeadAt(g, clock)
          BY <3>2, <1>0, <2>2 DEF DeadAt
        <4>2. idMap[sess[g].id] = g /\ usrMap[sess[g].user] = g /\ g # Nil
          BY <4>1, <2>1 DEF TypeOK
        <4>3. sess[g].id \in Ids /\ sess[g].user \in Users /\ sess[g].id # id /\ sess[g].user # u
          BY <4>1, <4>2, <1>2 DEF TypeOK, Session
        <4> QED BY <4>1, <4>2, <4>3, <1>2, <2>1
      <3> QED BY <3>1, <3>2
    <2>7. RevokedUnreachable'
      <3>1. ASSUME NEW q \in Callers, reply'[q].kind = "revoked", NEW g \in reply'[q].objs
            PROVE  g \in DOMAIN sess' /\ sess'[g].revoked
        BY <3>1, <1>2, <2>2 DEF RevokedUnreachable, Return, TypeOK
      <3>2. ASSUME NEW i \in Ids, byID'[i] # Nil
            PROVE  ~sess'[byID'[i]].revoked
        BY <3>2, <1>0, <1>2, <2>1, <2>2 DEF RevokedUnreachable, TypeOK
      <3>3. ASSUME NEW v \in Users, byUser'[v] # Nil
            PROVE  ~sess'[byUser'[v]].revoked
        BY <3>3, <1>0, <1>2, <2>1, <2>2 DEF RevokedUnreachable, TypeOK
      <3> QED BY <3>1, <3>2, <3>3 DEF RevokedUnreachable
    <2> QED BY <2>3, <2>4, <2>5, <2>6, <2>7
  <1> QED BY <1>1, <1>2 DEF IssueLocked

\* One case per action of Next.
LEMMA NextInv == StoreInv /\ [Next]_vars => StoreInv'
  <1> SUFFICES ASSUME StoreInv, [Next]_vars PROVE StoreInv'
    OBVIOUS
  <1> USE StoreAssumption
  <1>0. clock \in Nat
    BY DEF StoreInv, TypeOK
  <1>1. CASE Tick
    BY <1>1 DEF Tick, StoreInv, TypeOK, CallOK, IndexesAgree, LiveCredentialsKept,
                DeadAt, RevokedUnreachable, Session, Call
  <1>2. ASSUME NEW p \in Callers, NEW a \in Agents, NEW i \in Ids, IssueBegin(p, a, i)
        PROVE  StoreInv'
    BY <1>0, <1>2, BeginInv DEF IssueBegin, Pending, Call
  <1>3. ASSUME NEW p \in Callers, IssueLocked(p)
        PROVE  StoreInv'
    BY <1>3, IssueInv
  <1>4. ASSUME NEW p \in Callers, NEW u \in Users, NEW w \in Handles \cup {Nil},
               AuthenticateBegin(p, u, w)
        PROVE  StoreInv'
    BY <1>0, <1>4, BeginInv DEF AuthenticateBegin, Pending, Call
  <1>5. ASSUME NEW p \in Callers, AuthenticateLocked(p)
        PROVE  StoreInv'
    BY <1>5, AuthenticateInv
  <1>6. ASSUME NEW p \in Callers, ListBegin(p)
        PROVE  StoreInv'
    BY <1>0, <1>6, BeginInv DEF ListBegin, Pending, Call
  <1>7. ASSUME NEW p \in Callers, ListLocked(p)
        PROVE  StoreInv'
    BY <1>7, ListInv
  <1>8. ASSUME NEW p \in Callers, NEW i \in Ids, RevokeBegin(p, i)
        PROVE  StoreInv'
    BY <1>0, <1>8, BeginInv DEF RevokeBegin, Pending, Call
  <1>9. ASSUME NEW p \in Callers, RevokeLocked(p)
        PROVE  StoreInv'
    BY <1>9, RevokeInv
  <1>10. CASE UNCHANGED vars
    BY <1>10 DEF vars, StoreInv, TypeOK, CallOK, IndexesAgree, LiveCredentialsKept,
                 DeadAt, RevokedUnreachable
  <1> QED BY <1>1, <1>2, <1>3, <1>4, <1>5, <1>6, <1>7, <1>8, <1>9, <1>10 DEF Next

\* The inductive invariant holds in every reachable state.
THEOREM StoreInvariant == Spec => []StoreInv
  BY InitInv, NextInv, PTL DEF Spec

\* The maps only point at allocated sessions, and no reply holds a nil one.
THEOREM StoreTypeCorrect == Spec => []TypeOK
  <1>1. StoreInv => TypeOK
    BY DEF StoreInv
  <1> QED BY <1>1, StoreInvariant, PTL

\* byID and byUser index the same credentials, whatever goroutines issue,
\* purge and revoke them.
THEOREM StoreIndexesAgree == Spec => []IndexesAgree
  <1>1. StoreInv => IndexesAgree
    BY DEF StoreInv
  <1> QED BY <1>1, StoreInvariant, PTL

\* No purge with a stale clock evicts a credential that can still be used.
THEOREM StoreKeepsLive == Spec => []LiveCredentialsKept
  <1>1. StoreInv => LiveCredentialsKept
    BY DEF StoreInv
  <1> QED BY <1>1, StoreInvariant, PTL

\* What a step may add to a goroutine's reply: the credential it just issued,
\* or credentials that are in the store and not revoked.
LEMMA ReplyStep ==
    ASSUME StoreInv, [Next]_vars, NEW p \in Callers,
           NEW h \in reply'[p].objs, h \notin reply[p].objs
    PROVE  h \in DOMAIN sess => ~sess[h].revoked
  <1> USE StoreAssumption DEF StoreInv, TypeOK
  <1>1. ASSUME NEW q \in Callers, NEW c, Begin(q, c)
        PROVE  FALSE
    BY <1>1 DEF Begin
  <1>2. ASSUME NEW q \in Callers, IssueLocked(q)
        PROVE  h \notin DOMAIN sess
    <2>1. CASE \E g \in Handles \ DOMAIN sess : Return(q, "issued", {g})
      BY <2>1 DEF Return
    <2>2. CASE Return(q, "refused", {})
      BY <2>2 DEF Return
    <2> QED BY <1>2, <2>1, <2>2 DEF IssueLocked
  <1>3. ASSUME NEW q \in Callers, AuthenticateLocked(q)
        PROVE  ~sess[h].revoked
    BY <1>3 DEF AuthenticateLocked, Return, Accepted, DeadAt
  <1>4. ASSUME NEW q \in Callers, ListLocked(q)
        PROVE  ~sess[h].revoked
    <2>1. PICK i \in Ids : byID'[i] = h
      BY <1>4 DEF ListLocked, Return
    <2>2. byID[i] = h
      BY <1>4, <2>1 DEF ListLocked, IDsWithout, Return
    <2> QED BY <2>1, <2>2, <1>4 DEF RevokedUnreachable, ListLocked, Return
  <1>5. ASSUME NEW q \in Callers, RevokeLocked(q)
        PROVE  ~sess[h].revoked
    <2>1. CASE Return(q, "refused", {})
      BY <2>1 DEF Return
    <2>2. CASE Revocable(q) /\ Return(q, "revoked", {byID[call[q].id]})
      BY <2>2 DEF Return, Revocable, DeadAt
    <2> QED BY <1>5, <2>1, <2>2 DEF RevokeLocked
  <1>6. CASE Tick \/ UNCHANGED vars
    BY <1>6 DEF Tick, vars
  <1> QED BY <1>1, <1>2, <1>3, <1>4, <1>5, <1>6
          DEF Next, IssueBegin, AuthenticateBegin, ListBegin, RevokeBegin

\* After a Revoke has returned true, no call of any goroutine returns that
\* credential again.
THEOREM StoreRevocationFinal == Spec => RevocationFinal
  <1> DEFINE Final == \A p, q \in Callers, h \in Handles :
                         (reply[q].kind = "revoked" /\ h \in reply[q].objs /\ h \in reply'[p].objs)
                            => h \in reply[p].objs
  <1>1. StoreInv /\ [Next]_vars => [Final]_vars
    BY ReplyStep DEF StoreInv, RevokedUnreachable
  <1> QED BY <1>1, StoreInvariant, PTL DEF Spec, RevocationFinal

\* List neither hides a usable credential nor shows one that was revoked or
\* had expired when the call read the clock.
THEOREM StoreListExact == Spec => ListExact
  <1> DEFINE Exact == \A p \in Callers : (call[p].op = "list" /\ reply'[p].kind = "listing") =>
                         /\ {h \in DOMAIN sess : ~DeadAt(h, clock)} \subseteq reply'[p].objs
                         /\ \A h \in reply'[p].objs : ~DeadAt(h, call[p].now)
  <1>1. ASSUME StoreInv, Next, NEW p \in Callers, call[p].op = "list",
               reply'[p].kind = "listing"
        PROVE  ListLocked(p)
    <2> USE <1>1 DEF StoreInv, TypeOK
    <2>0. reply[p].kind = "none"
      BY DEF CallOK
    <2>1. ASSUME NEW q \in Callers, NEW k, NEW o, Return(q, k, o)
          PROVE  q = p /\ k = "listing"
      BY <2>0, <2>1 DEF Return
    <2>2. ASSUME NEW q \in Callers, NEW c, Begin(q, c)
          PROVE  FALSE
      BY <2>0, <2>2 DEF Begin
    <2>3. ASSUME NEW q \in Callers, IssueLocked(q) \/ AuthenticateLocked(q) \/ RevokeLocked(q)
          PROVE  FALSE
      BY <2>1, <2>3 DEF IssueLocked, AuthenticateLocked, RevokeLocked
    <2>4. ASSUME NEW q \in Callers, ListLocked(q)
          PROVE  q = p
      BY <2>1, <2>4 DEF ListLocked
    <2>5. ~Tick
      BY <2>0 DEF Tick
    <2> QED BY <2>2, <2>3, <2>4, <2>5
            DEF Next, IssueBegin, AuthenticateBegin, ListBegin, RevokeBegin
  <1>2. ASSUME StoreInv, NEW p \in Callers, ListLocked(p)
        PROVE  /\ {h \in DOMAIN sess : ~DeadAt(h, clock)} \subseteq reply'[p].objs
               /\ \A h \in reply'[p].objs : ~DeadAt(h, call[p].now)
    <2> USE <1>2 DEF StoreInv
    <2>1. reply'[p].objs = {h \in DOMAIN sess : \E i \in Ids : byID'[i] = h}
      BY DEF ListLocked, Return, TypeOK
    <2>2. call[p].now \in Nat /\ call[p].now <= clock
      BY DEF TypeOK, Call, CallOK
    <2>3. /\ \A i \in Ids : byID'[i] # Nil => ~DeadAt(byID'[i], call[p].now)
          /\ \A h \in DOMAIN sess : ~DeadAt(h, clock) => byID'[sess[h].id] = h
      BY <2>2, PurgeMaps DEF ListLocked
    <2> QED BY <2>1, <2>3, StoreAssumption DEF TypeOK, Session
  <1>3. StoreInv /\ [Next]_vars => [Exact]_vars
    BY <1>1, <1>2
  <1> QED BY <1>3, StoreInvariant, PTL DEF Spec, ListExact
=============================================================================
