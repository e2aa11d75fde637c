----------------------------- MODULE Probe_proofs -----------------------------
(*****************************************************************************)
(* Proofs about four parts of the probe that share no state: the report queue *)
(* (AgentClient), the path tracer (RouteTrace), the detector of latency       *)
(* shifts (LatencyShift), and the updater with the process it replaces        *)
(* (ProbeRestart).                                                            *)
(*****************************************************************************)
EXTENDS AgentClient, LatencyShift, RouteTrace, ProbeRestart, FiniteSetTheorems,
        WellFoundedInduction, TLAPS

-----------------------------------------------------------------------------
(* Sequences without repetition                                                *)

\* What is left without the first element.
LEMMA TailDistinct ==
    ASSUME NEW S, NEW s \in Seq(S), s # <<>>, Distinct(s)
    PROVE  /\ Tail(s) \in Seq(S) /\ Len(Tail(s)) = Len(s) - 1 /\ Distinct(Tail(s))
           /\ Head(s) \in Elems(s) /\ Head(s) \in S
           /\ Elems(Tail(s)) = Elems(s) \ {Head(s)}
  <1>1. /\ Tail(s) \in Seq(S) /\ Len(Tail(s)) = Len(s) - 1 /\ Len(s) \in Nat \ {0}
        /\ DOMAIN Tail(s) = 1..(Len(s) - 1) /\ DOMAIN s = 1..Len(s)
        /\ \A i \in 1..(Len(s) - 1) : Tail(s)[i] = s[i + 1]
        /\ Head(s) = s[1] /\ Head(s) \in S
    OBVIOUS
  <1>2. Distinct(Tail(s))
    BY <1>1 DEF Distinct
  <1>3. Head(s) \in Elems(s)
    BY <1>1 DEF Elems
  <1>4. ASSUME NEW x \in Elems(Tail(s)) PROVE x \in Elems(s) \ {Head(s)}
    <2>1. PICK i \in 1..(Len(s) - 1) : x = s[i + 1]
      BY <1>1 DEF Elems
    <2>2. i + 1 \in DOMAIN s /\ i + 1 # 1
      BY <1>1
    <2> QED BY <1>1, <2>1, <2>2 DEF Elems, Distinct
  <1>5. ASSUME NEW x \in Elems(s) \ {Head(s)} PROVE x \in Elems(Tail(s))
    <2>1. PICK i \in 1..Len(s) : x = s[i]
      BY <1>1 DEF Elems
    <2>2. i # 1
      BY <1>1, <2>1
    <2>3. i - 1 \in 1..(Len(s) - 1) /\ Tail(s)[i - 1] = x
      BY <1>1, <2>1, <2>2
    <2> QED BY <1>1, <2>3 DEF Elems
  <1> QED BY <1>1, <1>2, <1>3, <1>4, <1>5

\* A new element at the end.
LEMMA AppendDistinct ==
    ASSUME NEW S, NEW s \in Seq(S), NEW x \in S, Distinct(s), x \notin Elems(s)
    PROVE  /\ Append(s, x) \in Seq(S) /\ Len(Append(s, x)) = Len(s) + 1
           /\ Distinct(Append(s, x)) /\ Elems(Append(s, x)) = Elems(s) \cup {x}
  <1> DEFINE t == Append(s, x)
  <1>1. /\ t \in Seq(S) /\ Len(t) = Len(s) + 1 /\ Len(s) \in Nat
        /\ DOMAIN t = 1..(Len(s) + 1) /\ DOMAIN s = 1..Len(s)
        /\ \A i \in 1..Len(s) : t[i] = s[i]
        /\ t[Len(s) + 1] = x
    OBVIOUS
  <1> HIDE DEF t
  <1>2. \A i \in 1..Len(s) : s[i] # x
    BY <1>1 DEF Elems
  <1>3. \A i \in DOMAIN t : i \in 1..Len(s) \/ i = Len(s) + 1
    BY <1>1
  <1>4. Distinct(t)
    <2> SUFFICES ASSUME NEW i \in DOMAIN t, NEW j \in DOMAIN t, t[i] = t[j] PROVE i = j
      BY DEF Distinct
    <2> QED BY <1>1, <1>2, <1>3 DEF Distinct
  <1>5. Elems(t) = Elems(s) \cup {x}
    <2>1. ASSUME NEW y \in Elems(t) PROVE y \in Elems(s) \cup {x}
      BY <1>1, <1>3, <2>1 DEF Elems
    <2>2. ASSUME NEW y \in Elems(s) PROVE y \in Elems(t)
      <3>1. PICK i \in 1..Len(s) : y = s[i]
        BY <1>1 DEF Elems
      <3>2. i \in DOMAIN t /\ t[i] = y
        BY <1>1, <3>1
      <3> QED BY <3>2 DEF Elems
    <2>3. x \in Elems(t)
      BY <1>1 DEF Elems
    <2> QED BY <2>1, <2>2, <2>3
  <1> QED BY <1>1, <1>4, <1>5 DEF t

\* Two that have nothing in common, one after the other.
LEMMA ConcatDistinct ==
    ASSUME NEW S, NEW s \in Seq(S), NEW t \in Seq(S), Distinct(s), Distinct(t),
           Elems(s) \cap Elems(t) = {}
    PROVE  Distinct(s \o t) /\ Elems(s \o t) = Elems(s) \cup Elems(t)
  <1> DEFINE u == s \o t
  <1>1. /\ Len(s) \in Nat /\ Len(t) \in Nat /\ DOMAIN s = 1..Len(s) /\ DOMAIN t = 1..Len(t)
        /\ DOMAIN u = 1..(Len(s) + Len(t))
        /\ \A i \in 1..Len(s) : u[i] = s[i]
        /\ \A i \in (Len(s) + 1)..(Len(s) + Len(t)) : u[i] = t[i - Len(s)]
    OBVIOUS
  <1> HIDE DEF u
  <1>2. \A i \in DOMAIN u : \/ i \in 1..Len(s) /\ u[i] = s[i]
                            \/ i - Len(s) \in 1..Len(t) /\ u[i] = t[i - Len(s)]
    BY <1>1
  <1>3. \A i \in 1..Len(s), j \in 1..Len(t) : s[i] # t[j]
    BY <1>1 DEF Elems
  <1>4. Distinct(u)
    <2> SUFFICES ASSUME NEW i \in DOMAIN u, NEW j \in DOMAIN u, u[i] = u[j] PROVE i = j
      BY DEF Distinct
    <2>1. CASE i \in 1..Len(s) /\ u[i] = s[i]
      <3>1. j \in 1..Len(s) /\ u[j] = s[j]
        BY <1>2, <1>3, <2>1
      <3> QED BY <1>1, <2>1, <3>1 DEF Distinct
    <2>2. CASE i - Len(s) \in 1..Len(t) /\ u[i] = t[i - Len(s)]
      <3>1. j - Len(s) \in 1..Len(t) /\ u[j] = t[j - Len(s)]
        BY <1>2, <1>3, <2>2
      <3>2. i - Len(s) = j - Len(s)
        BY <1>1, <2>2, <3>1 DEF Distinct
      <3> QED BY <1>1, <3>2
    <2> QED BY <1>2, <2>1, <2>2
  <1>5. Elems(u) = Elems(s) \cup Elems(t)
    <2>1. ASSUME NEW y \in Elems(u) PROVE y \in Elems(s) \cup Elems(t)
      BY <1>1, <1>2, <2>1 DEF Elems
    <2>2. ASSUME NEW y \in Elems(s) PROVE y \in Elems(u)
      <3>1. PICK i \in 1..Len(s) : y = s[i]
        BY <1>1 DEF Elems
      <3>2. i \in DOMAIN u /\ u[i] = y
        BY <1>1, <3>1
      <3> QED BY <3>2 DEF Elems
    <2>3. ASSUME NEW y \in Elems(t) PROVE y \in Elems(u)
      <3>1. PICK i \in 1..Len(t) : y = t[i]
        BY <1>1 DEF Elems
      <3>2. Len(s) + i \in DOMAIN u /\ u[Len(s) + i] = y
        BY <1>1, <3>1
      <3> QED BY <3>2 DEF Elems
    <2> QED BY <2>1, <2>2, <2>3
  <1> QED BY <1>4, <1>5 DEF u

-----------------------------------------------------------------------------
(* The queue of reports                                                        *)

\* The probe starts with nothing to send.
LEMMA QueueStart == Init => QueueInv
  <1> SUFFICES ASSUME Init PROVE QueueInv
    OBVIOUS
  <1>1. TypeOK
    <2>1. call \in [Workers -> [step : {"idle", "locking", "sending", "storing"},
                                report : Reports \cup {Nil}]]
      BY DEF Init, Returned
    <2>2. queue \in Seq(Reports) /\ Len(queue) = 0 /\ todo \in Seq(Reports) /\ kept \in Seq(Reports)
      BY DEF Init
    <2>3. Len(queue) <= QueueSize /\ 0 \in 0..MaxConns
      BY <2>2, ClientAssumption
    <2> QED BY <2>1, <2>2, <2>3 DEF Init, TypeOK
  <1>2. Hands = {} /\ Waiting = {}
    BY DEF Init, Hands, Waiting, Elems, Returned
  <1>3. InOnePlace
    BY <1>2 DEF Init, InOnePlace
  <1>4. HeldOnce
    BY DEF Init, HeldOnce, Distinct, Returned
  <1>5. LockHeld /\ UnsentWhenDead /\ NoneStranded
    BY ClientAssumption DEF Init, LockHeld, UnsentWhenDead, NoneStranded, Returned
  <1> QED BY <1>1, <1>3, <1>4, <1>5 DEF QueueInv

\* Steps of the connection that leave the queue and the calls alone.
QuietStep ==
    \/ DialBegin \/ Dialed \/ DialFails \/ RegisterFails \/ Registered
    \/ ReadFails \/ Teardown \/ LoopEnds \/ Stop \/ LinkFails

\* Such a step keeps the invariant.
LEMMA QuietKeeps ==
    ASSUME QueueInv, QuietStep
    PROVE  QueueInv'
  <1>1. /\ UNCHANGED <<queue, todo, kept, holder, call, fresh, written, evicted>>
        /\ cpc # "flushing" => cpc' # "flushing"
        /\ cpc = "flushing" => cpc' = "flushing"
    BY DEF QuietStep, DialBegin, Dialed, DialFails, RegisterFails, Registered, ReadFails, Teardown,
       LoopEnds, Stop, LinkFails
  <1>2. TypeOK'
    <2>1. /\ cpc' \in {"retry", "dialing", "registering", "registered", "flushing", "serving",
                        "teardown", "stopped"}
          /\ alive' \in BOOLEAN /\ online' \in BOOLEAN /\ stopped' \in BOOLEAN
      BY DEF QueueInv, TypeOK, QuietStep, DialBegin, Dialed, DialFails, RegisterFails, Registered,
         ReadFails, Teardown, LoopEnds, Stop, LinkFails
    <2>2. dialed' \in 0..MaxConns /\ conn' \in 0..MaxConns
      BY ClientAssumption DEF QueueInv, TypeOK, QuietStep, DialBegin, Dialed, DialFails, RegisterFails,
         Registered, ReadFails, Teardown, LoopEnds, Stop, LinkFails
    <2> QED BY <1>1, <2>1, <2>2 DEF QueueInv, TypeOK
  <1>3. Hands' = Hands /\ Waiting' = Waiting
    BY <1>1 DEF Hands, Waiting
  <1>4. InOnePlace'
    BY <1>1, <1>3 DEF QueueInv, InOnePlace
  <1>5. HeldOnce' /\ LockHeld'
    BY <1>1 DEF QueueInv, HeldOnce, LockHeld
  <1>6. UnsentWhenDead' /\ NoneStranded'
    BY <1>1 DEF QueueInv, TypeOK, UnsentWhenDead, NoneStranded, QuietStep, DialBegin, Dialed,
       DialFails, RegisterFails, Registered, ReadFails, Teardown, LoopEnds, Stop, LinkFails
  <1> QED BY <1>2, <1>4, <1>5, <1>6 DEF QueueInv

\* flushQueuedReports takes the whole queue, under queueMu.
LEMMA FlushBegins ==
    ASSUME QueueInv, FlushBegin
    PROVE  QueueInv'
  <1>1. CASE queue = <<>>
    <2>1. /\ cpc = "registered" /\ holder = Nil /\ cpc' = "serving"
          /\ UNCHANGED <<conn, dialed, alive, online, queue, todo, kept, holder, call, fresh, written,
                         evicted, stopped>>
      BY <1>1 DEF FlushBegin
    <2>2. TypeOK' /\ HeldOnce'
      BY <2>1 DEF QueueInv, TypeOK, HeldOnce
    <2>3. Hands' = Hands /\ Waiting' = Waiting
      BY <2>1 DEF Hands, Waiting
    <2>4. InOnePlace'
      BY <2>1, <2>3 DEF QueueInv, InOnePlace
    <2>5. \A p \in Workers : call[p].step # "storing"
      BY <2>1, ClientAssumption DEF QueueInv, LockHeld
    <2>6. LockHeld' /\ UnsentWhenDead' /\ NoneStranded'
      BY <1>1, <2>1, <2>5, ClientAssumption DEF QueueInv, LockHeld, UnsentWhenDead, NoneStranded
    <2> QED BY <2>2, <2>4, <2>6 DEF QueueInv
  <1>2. CASE queue # <<>>
    <2>1. /\ cpc = "registered" /\ holder = Nil /\ cpc' = "flushing"
          /\ holder' = "flush" /\ todo' = queue /\ kept' = <<>>
          /\ UNCHANGED <<conn, dialed, alive, online, queue, call, fresh, written, evicted, stopped>>
      BY <1>2 DEF FlushBegin
    <2>2. TypeOK'
      BY <2>1 DEF QueueInv, TypeOK
    <2>3. /\ Elems(kept') = {} /\ Distinct(kept') /\ Len(kept') = 0
          /\ Len(todo') \in Nat /\ Len(todo') <= QueueSize
      BY <2>1 DEF QueueInv, TypeOK, Elems, Distinct
    <2>4. Hands' = Hands /\ Waiting' = Waiting
      BY <2>1, <2>3 DEF Hands, Waiting
    <2>5. InOnePlace'
      BY <2>1, <2>4 DEF QueueInv, InOnePlace
    <2>6. HeldOnce'
      BY <2>1, <2>3 DEF QueueInv, HeldOnce
    <2>7. LockHeld' /\ UnsentWhenDead' /\ NoneStranded'
      BY <2>1, ClientAssumption DEF QueueInv, LockHeld, UnsentWhenDead, NoneStranded
    <2> QED BY <2>2, <2>5, <2>6, <2>7 DEF QueueInv
  <1> QED BY <1>1, <1>2

\* A report of the flush is written or kept, never both.
LEMMA FlushMoves ==
    ASSUME QueueInv, FlushOne
    PROVE  QueueInv'
  <1> DEFINE r == Head(todo)
  <1>1. /\ cpc = "flushing" /\ todo # <<>> /\ todo' = Tail(todo)
        /\ UNCHANGED <<cpc, conn, dialed, alive, online, queue, holder, call, fresh, evicted, stopped>>
        /\ \/ SendOK /\ written' = written \cup {r} /\ kept' = kept
           \/ SendFails /\ kept' = Append(kept, r) /\ written' = written
    BY DEF FlushOne
  <1>2. /\ todo \in Seq(Reports) /\ kept \in Seq(Reports) /\ Distinct(todo) /\ Distinct(kept)
        /\ Elems(kept) \cap Elems(todo) = {} /\ Len(kept) + Len(todo) <= QueueSize
    BY <1>1 DEF QueueInv, TypeOK, HeldOnce
  <1>3. /\ todo' \in Seq(Reports) /\ Len(todo') = Len(todo) - 1 /\ Distinct(todo')
        /\ r \in Elems(todo) /\ r \in Reports /\ Elems(todo') = Elems(todo) \ {r}
    BY <1>1, <1>2, TailDistinct
  <1> HIDE DEF r
  <1>4. Hands' = Hands /\ Waiting = Elems(kept) \cup Elems(todo) /\ Waiting' = Elems(kept') \cup Elems(todo')
    BY <1>1 DEF Hands, Waiting
  <1>5. /\ kept' \in Seq(Reports) /\ Distinct(kept') /\ Elems(kept') \cap Elems(todo') = {}
        /\ Len(kept') + Len(todo') <= QueueSize
        /\ Waiting' \cup written' = Waiting \cup written
        /\ \/ written' = written /\ Waiting' = Waiting
           \/ written' = written \cup {r} /\ Waiting' = Waiting \ {r}
    <2>1. CASE written' = written \cup {r} /\ kept' = kept
      BY <1>2, <1>3, <1>4, <2>1, ClientAssumption
    <2>2. CASE kept' = Append(kept, r) /\ written' = written
      <3>1. /\ kept' \in Seq(Reports) /\ Len(kept') = Len(kept) + 1 /\ Distinct(kept')
            /\ Elems(kept') = Elems(kept) \cup {r}
        BY <1>2, <1>3, <2>2, AppendDistinct
      <3>2. Elems(kept') \cap Elems(todo') = {} /\ Waiting' = Waiting
        BY <1>2, <1>3, <1>4, <3>1
      <3>3. Len(kept') + Len(todo') <= QueueSize
        BY <1>2, <1>3, <3>1
      <3> QED BY <2>2, <3>1, <3>2, <3>3
    <2> QED BY <1>1, <2>1, <2>2
  <1>6. TypeOK'
    BY <1>1, <1>3, <1>5 DEF QueueInv, TypeOK
  <1>7. InOnePlace'
    BY <1>1, <1>3, <1>4, <1>5 DEF QueueInv, InOnePlace
  <1>8. HeldOnce'
    BY <1>1, <1>3, <1>5 DEF QueueInv, HeldOnce
  <1>9. LockHeld' /\ UnsentWhenDead' /\ NoneStranded'
    BY <1>1 DEF QueueInv, LockHeld, UnsentWhenDead, NoneStranded, SendFails
  <1> QED BY <1>6, <1>7, <1>8, <1>9 DEF QueueInv

\* What is left is the queue.
LEMMA FlushEnds ==
    ASSUME QueueInv, FlushEnd
    PROVE  QueueInv'
  <1>1. /\ cpc = "flushing" /\ todo = <<>> /\ queue' = kept /\ kept' = <<>> /\ holder' = Nil
        /\ cpc' = "serving"
        /\ UNCHANGED <<conn, dialed, alive, online, todo, call, fresh, written, evicted, stopped>>
    BY DEF FlushEnd
  <1>2. /\ Distinct(kept) /\ Elems(todo) = {} /\ Len(todo) = 0 /\ Len(kept) \in Nat
        /\ Len(kept) + Len(todo) <= QueueSize
    BY <1>1 DEF QueueInv, TypeOK, HeldOnce, Elems
  <1>3. TypeOK'
    BY <1>1, <1>2, ClientAssumption DEF QueueInv, TypeOK
  <1>4. Hands' = Hands /\ Waiting' = Waiting
    BY <1>1, <1>2 DEF Hands, Waiting
  <1>5. InOnePlace'
    BY <1>1, <1>4 DEF QueueInv, InOnePlace
  <1>6. HeldOnce'
    BY <1>1, <1>2 DEF QueueInv, HeldOnce
  <1>7. \A p \in Workers : call[p].step \notin {"sending", "storing"}
    BY <1>1, ClientAssumption DEF QueueInv, LockHeld
  <1>8. LockHeld' /\ UnsentWhenDead' /\ NoneStranded'
    BY <1>1, <1>7, ClientAssumption DEF QueueInv, LockHeld, UnsentWhenDead, NoneStranded
  <1> QED BY <1>3, <1>5, <1>6, <1>8 DEF QueueInv

\* A worker has a result, looks at the connection under queueMu, or its send fails.
LEMMA CallMoves ==
    ASSUME QueueInv, NEW p \in Workers,
           \/ \E r \in Reports : Report(p, r)
           \/ LockAndLook(p) \/ ReportUnsent(p)
    PROVE  QueueInv'
  <1>1. CASE \E r \in Reports : Report(p, r)
    <2>1. PICK r \in Reports : Report(p, r)
      BY <1>1
    <2>2. /\ call[p].step = "idle" /\ r \in fresh /\ fresh' = fresh \ {r}
          /\ call' = [call EXCEPT ![p] = [step |-> "locking", report |-> r]]
          /\ UNCHANGED <<cpc, conn, dialed, alive, online, queue, todo, kept, holder, written, evicted,
                         stopped>>
      BY <2>1 DEF Report
    <2>3. TypeOK'
      BY <2>2 DEF QueueInv, TypeOK
    <2>4. /\ call'[p].report = r /\ call'[p].step = "locking"
          /\ \A q \in Workers \ {p} : call'[q] = call[q]
      BY <2>2 DEF QueueInv, TypeOK
    <2>5. call[p].report = Nil /\ r # Nil
      BY <2>2, ClientAssumption DEF QueueInv, HeldOnce
    <2>6. Hands' = Hands \cup {r} /\ Waiting' = Waiting
      BY <2>2, <2>4, <2>5 DEF Hands, Waiting
    <2>7. InOnePlace'
      BY <2>2, <2>6 DEF QueueInv, InOnePlace
    <2>8. \A q \in Workers : call[q].report # r
      BY <2>2, <2>5 DEF QueueInv, InOnePlace, Hands
    <2>9. HeldOnce'
      BY <2>2, <2>4, <2>5, <2>8 DEF QueueInv, HeldOnce
    <2>10. LockHeld' /\ UnsentWhenDead' /\ NoneStranded'
      BY <2>2, <2>4 DEF QueueInv, LockHeld, UnsentWhenDead, NoneStranded
    <2> QED BY <2>3, <2>7, <2>9, <2>10 DEF QueueInv
  <1>2. CASE LockAndLook(p) \/ ReportUnsent(p)
    <2>1. /\ UNCHANGED <<cpc, conn, dialed, alive, online, queue, todo, kept, fresh, written, evicted,
                         stopped>>
          /\ \/ /\ call[p].step = "locking" /\ holder = Nil /\ holder' = p
                /\ call' = [call EXCEPT ![p].step = IF online /\ conn # 0 THEN "sending" ELSE "storing"]
             \/ /\ call[p].step = "sending" /\ SendFails /\ holder' = holder
                /\ call' = [call EXCEPT ![p].step = "storing"]
      BY <1>2 DEF LockAndLook, ReportUnsent
    <2>2. TypeOK'
      BY <2>1 DEF QueueInv, TypeOK
    <2>3. /\ call'[p].report = call[p].report /\ call'[p].step \in {"sending", "storing"}
          /\ call[p].step # "idle"
          /\ (call'[p].step = "storing" => ~online \/ conn = 0 \/ ~alive)
          /\ \A q \in Workers \ {p} : call'[q] = call[q]
      BY <2>1 DEF QueueInv, TypeOK, SendFails
    <2>4. Hands' = Hands /\ Waiting' = Waiting
      BY <2>1, <2>3 DEF Hands, Waiting
    <2>5. InOnePlace'
      BY <2>1, <2>4 DEF QueueInv, InOnePlace
    <2>6. HeldOnce'
      BY <2>1, <2>3 DEF QueueInv, HeldOnce
    <2>7. holder' = p /\ cpc # "flushing"
      BY <2>1, ClientAssumption DEF QueueInv, LockHeld
    <2>8. \A q \in Workers \ {p} : call[q].step \notin {"sending", "storing"}
      BY <2>1, ClientAssumption DEF QueueInv, LockHeld
    <2>9. LockHeld'
      BY <2>1, <2>3, <2>7, <2>8, ClientAssumption DEF LockHeld
    <2>10. UnsentWhenDead' /\ NoneStranded'
      BY <2>1, <2>3, <2>8 DEF QueueInv, UnsentWhenDead, NoneStranded
    <2> QED BY <2>2, <2>5, <2>6, <2>9, <2>10 DEF QueueInv
  <1> QED BY <1>1, <1>2

\* QueueReport returns: its report was written, or is the last of the queue, from
\* which the first went if it was full.
LEMMA CallReturns ==
    ASSUME QueueInv, NEW p \in Workers, ReportSent(p) \/ ReportStored(p)
    PROVE  QueueInv'
  <1> DEFINE r == call[p].report
  <1>1. /\ call[p].step \in {"sending", "storing"} /\ call' = [call EXCEPT ![p] = Returned] /\ holder' = Nil
        /\ UNCHANGED <<cpc, conn, dialed, alive, online, todo, kept, fresh, stopped>>
    BY DEF ReportSent, ReportStored
  <1>2. /\ call'[p].report = Nil /\ call'[p].step = "idle"
        /\ \A q \in Workers \ {p} : call'[q] = call[q]
        /\ call' \in [Workers -> [step : {"idle", "locking", "sending", "storing"},
                                   report : Reports \cup {Nil}]]
    BY <1>1 DEF QueueInv, TypeOK, Returned
  <1>3. r \in Reports /\ r # Nil /\ r \in Hands
    BY <1>1 DEF QueueInv, TypeOK, HeldOnce, Hands
  <1>4. \A q \in Workers \ {p} : call[q].report # r
    BY <1>3 DEF QueueInv, HeldOnce
  <1>5. Hands' = Hands \ {r}
    BY <1>2, <1>4 DEF Hands
  <1>6. holder = p /\ cpc # "flushing" /\ \A q \in Workers \ {p} : call[q].step \notin {"sending", "storing"}
    BY <1>1, ClientAssumption DEF QueueInv, LockHeld
  <1>7. Waiting = Elems(queue) /\ Waiting' = Elems(queue') /\ r \notin Elems(queue)
    BY <1>1, <1>3, <1>6 DEF QueueInv, InOnePlace, Waiting
  <1>8. LockHeld'
    BY <1>1, <1>2, <1>6, ClientAssumption DEF QueueInv, LockHeld
  <1>9. UnsentWhenDead'
    BY <1>1, <1>2, <1>6 DEF QueueInv, UnsentWhenDead
  <1>10. CASE ReportSent(p)
    <2>1. written' = written \cup {r} /\ UNCHANGED <<queue, evicted>>
      BY <1>10 DEF ReportSent
    <2> HIDE DEF r
    <2>2. TypeOK'
      BY <1>1, <1>2, <1>3, <2>1 DEF QueueInv, TypeOK
    <2>3. InOnePlace'
      BY <1>1, <1>3, <1>5, <1>7, <2>1 DEF QueueInv, InOnePlace
    <2>4. HeldOnce'
      BY <1>1, <1>2, <2>1 DEF QueueInv, HeldOnce
    <2>5. NoneStranded'
      BY <1>1, <2>1 DEF QueueInv, NoneStranded
    <2> QED BY <1>8, <1>9, <2>2, <2>3, <2>4, <2>5 DEF QueueInv
  <1>11. CASE ReportStored(p)
    <2>1. /\ written' = written /\ call[p].step = "storing"
          /\ IF Len(queue) >= QueueSize
             THEN queue' = Append(Tail(queue), r) /\ evicted' = evicted \cup {Head(queue)}
             ELSE queue' = Append(queue, r) /\ evicted' = evicted
      BY <1>11 DEF ReportStored
    <2>2. queue \in Seq(Reports) /\ Distinct(queue) /\ Len(queue) \in Nat /\ Len(queue) <= QueueSize
      BY DEF QueueInv, TypeOK, HeldOnce
    <2> HIDE DEF r
    <2>3. /\ queue' \in Seq(Reports) /\ Len(queue') <= QueueSize /\ Distinct(queue')
          /\ evicted' \in SUBSET Reports
          /\ \/ evicted' = evicted /\ Elems(queue') = Elems(queue) \cup {r}
             \/ \E h \in Elems(queue) : /\ evicted' = evicted \cup {h}
                                        /\ Elems(queue') = (Elems(queue) \ {h}) \cup {r}
      <3>1. CASE Len(queue) >= QueueSize
        <4>1. queue # <<>>
          BY <3>1, ClientAssumption
        <4>2. /\ Tail(queue) \in Seq(Reports) /\ Len(Tail(queue)) = Len(queue) - 1
              /\ Distinct(Tail(queue)) /\ Head(queue) \in Elems(queue) /\ Head(queue) \in Reports
              /\ Elems(Tail(queue)) = Elems(queue) \ {Head(queue)}
          BY <2>2, <4>1, TailDistinct
        <4> DEFINE rest == Tail(queue)
        <4>3. rest \in Seq(Reports) /\ Distinct(rest) /\ r \notin Elems(rest) /\ queue' = Append(rest, r)
          BY <1>7, <2>1, <3>1, <4>2
        <4> HIDE DEF rest
        <4>4. /\ queue' \in Seq(Reports) /\ Len(queue') = Len(rest) + 1 /\ Distinct(queue')
              /\ Elems(queue') = Elems(rest) \cup {r}
          BY <1>3, <4>3, AppendDistinct
        <4> USE DEF rest
        <4>5. Len(queue') <= QueueSize
          BY <2>2, <4>2, <4>4
        <4>6. evicted' = evicted \cup {Head(queue)} /\ evicted' \in SUBSET Reports
          BY <2>1, <3>1, <4>2 DEF QueueInv, TypeOK
        <4> QED BY <4>2, <4>4, <4>5, <4>6
      <3>2. CASE ~(Len(queue) >= QueueSize)
        <4>1. /\ queue' \in Seq(Reports) /\ Len(queue') = Len(queue) + 1 /\ Distinct(queue')
              /\ Elems(queue') = Elems(queue) \cup {r}
          <5>1. queue' = Append(queue, r)
            BY <2>1, <3>2
          <5> QED BY <1>3, <1>7, <2>2, <5>1, AppendDistinct
        <4>2. Len(queue') <= QueueSize
          BY <2>2, <3>2, <4>1, ClientAssumption
        <4>3. evicted' = evicted /\ evicted \in SUBSET Reports
          BY <2>1, <3>2 DEF QueueInv, TypeOK
        <4> QED BY <4>1, <4>2, <4>3
      <3> QED BY <3>1, <3>2
    <2>4. TypeOK'
      BY <1>1, <1>2, <2>1, <2>3 DEF QueueInv, TypeOK
    <2>5. InOnePlace'
      BY <1>1, <1>3, <1>5, <1>7, <2>1, <2>3 DEF QueueInv, InOnePlace
    <2>6. HeldOnce'
      BY <1>1, <1>2, <1>6, <2>3 DEF QueueInv, HeldOnce
    <2>7. NoneStranded'
      BY <1>1, <2>1 DEF QueueInv, UnsentWhenDead, NoneStranded
    <2> QED BY <1>8, <1>9, <2>4, <2>5, <2>6, <2>7 DEF QueueInv
  <1> QED BY <1>10, <1>11

\* Every step keeps the invariant.
LEMMA QueueStep == QueueInv /\ [Next]_vars => QueueInv'
  <1> SUFFICES ASSUME QueueInv, [Next]_vars PROVE QueueInv'
    OBVIOUS
  <1>1. CASE UNCHANGED vars
    <2>1. Hands' = Hands /\ Waiting' = Waiting
      BY <1>1 DEF vars, Hands, Waiting
    <2>2. TypeOK' /\ InOnePlace'
      BY <1>1, <2>1 DEF vars, QueueInv, TypeOK, InOnePlace
    <2>3. HeldOnce' /\ LockHeld' /\ UnsentWhenDead' /\ NoneStranded'
      BY <1>1 DEF vars, QueueInv, HeldOnce, LockHeld, UnsentWhenDead, NoneStranded
    <2> QED BY <2>2, <2>3 DEF QueueInv
  <1>2. CASE Next
    <2>1. CASE Loop \/ Stop \/ LinkFails
      BY <2>1, QuietKeeps, FlushBegins, FlushMoves, FlushEnds DEF Loop, QuietStep
    <2>2. ASSUME NEW p \in Workers, QueueReport(p) \/ \E r \in Reports : Report(p, r)
          PROVE  QueueInv'
      BY <2>2, CallMoves, CallReturns DEF QueueReport
    <2> QED BY <1>2, <2>1, <2>2 DEF Next
  <1> QED BY <1>1, <1>2

\* The invariant holds through any sequence of failed sends, reconnects and calls.
THEOREM QueueInvariant == Spec => []QueueInv
  BY QueueStart, QueueStep, PTL DEF Spec

\* A report is in exactly one place.
LEMMA CountedOnce == QueueInv => Conserved
  <1> SUFFICES ASSUME QueueInv, NEW r \in Reports
               PROVE  Cardinality({x \in {"fresh", "written", "evicted"} :
                                    r \in CASE x = "fresh" -> fresh [] x = "written" -> written
                                            [] x = "evicted" -> evicted})
                      + Cardinality({p \in Workers : call[p].report = r})
                      + Cardinality({i \in DOMAIN Pending : Pending[i] = r}) = 1
    BY DEF Conserved
  <1> DEFINE A == {x \in {"fresh", "written", "evicted"} :
                    r \in CASE x = "fresh" -> fresh [] x = "written" -> written
                            [] x = "evicted" -> evicted}
             B == {p \in Workers : call[p].report = r}
             C == {i \in DOMAIN Pending : Pending[i] = r}
  <1>0. SUFFICES Cardinality(A) + Cardinality(B) + Cardinality(C) = 1
    OBVIOUS
  <1>1. Distinct(Pending) /\ Elems(Pending) = Waiting
    <2>1. CASE cpc = "flushing"
      <3>1. /\ kept \in Seq(Reports) /\ todo \in Seq(Reports) /\ Distinct(kept) /\ Distinct(todo)
            /\ Elems(kept) \cap Elems(todo) = {}
        BY <2>1 DEF QueueInv, TypeOK, HeldOnce
      <3>2. Distinct(kept \o todo) /\ Elems(kept \o todo) = Elems(kept) \cup Elems(todo)
        BY <3>1, ConcatDistinct
      <3> QED BY <2>1, <3>2 DEF Pending, Waiting
    <2>2. CASE cpc # "flushing"
      BY <2>2 DEF QueueInv, HeldOnce, Pending, Waiting
    <2> QED BY <2>1, <2>2
  <1>2. r # Nil
    BY ClientAssumption
  <1>3. r \in Hands => \E p \in Workers : B = {p}
    BY <1>2 DEF Hands, QueueInv, HeldOnce
  <1>4. r \notin Hands => B = {}
    BY <1>2 DEF Hands
  <1>5. r \in Waiting => \E i \in DOMAIN Pending : C = {i}
    BY <1>1 DEF Elems, Distinct
  <1>6. r \notin Waiting => C = {}
    BY <1>1 DEF Elems
  <1>7. /\ "fresh" \in A <=> r \in fresh
        /\ "written" \in A <=> r \in written
        /\ "evicted" \in A <=> r \in evicted
        /\ A \subseteq {"fresh", "written", "evicted"}
    OBVIOUS
  <1> HIDE DEF A, B, C
  <1>8. /\ Cardinality({}) = 0
        /\ \A x : Cardinality({x}) = 1
    BY FS_EmptySet, FS_Singleton
  <1>9. CASE r \in fresh \cup written \cup evicted
    <2>1. A = {"fresh"} \/ A = {"written"} \/ A = {"evicted"}
      BY <1>7, <1>9 DEF QueueInv, InOnePlace
    <2>2. B = {} /\ C = {}
      BY <1>4, <1>6, <1>9 DEF QueueInv, InOnePlace
    <2>3. Cardinality(A) = 1
      BY <1>8, <2>1
    <2> QED BY <1>8, <2>2, <2>3
  <1>10. CASE r \in Hands
    <2>1. A = {} /\ C = {}
      BY <1>6, <1>7, <1>10 DEF QueueInv, InOnePlace
    <2>2. Cardinality(B) = 1
      BY <1>3, <1>8, <1>10
    <2> QED BY <1>8, <2>1, <2>2
  <1>11. CASE r \in Waiting
    <2>1. A = {} /\ B = {}
      BY <1>4, <1>7, <1>11 DEF QueueInv, InOnePlace
    <2>2. Cardinality(C) = 1
      BY <1>5, <1>8, <1>11
    <2> QED BY <1>8, <2>1, <2>2
  <1> QED BY <1>9, <1>10, <1>11 DEF QueueInv, InOnePlace

\* QueueReport and flushQueuedReports: no report is lost or sent twice.
THEOREM QueueConserved == Spec => []Conserved
  BY CountedOnce, QueueInvariant, PTL

\* A probe that serves a working connection has sent all it had queued.
THEOREM QueueNoneStranded == Spec => []NoneStranded
  <1>1. QueueInv => NoneStranded
    BY DEF QueueInv
  <1> QED BY <1>1, QueueInvariant, PTL

-----------------------------------------------------------------------------
(* The tracer                                                                  *)

\* Nothing is known before the first request.
LEMMA TracerStart == TracerInit => TracerInv
  <1> SUFFICES ASSUME TracerInit PROVE TracerInv
    OBVIOUS
  <1>1. TracerTypeOK
    <2>1. 1 \in Nodes /\ 1 \in 1..(MaxHops + 1)
      BY TracerAssumption DEF Nodes
    <2>2. Unanswered \in Hop /\ <<>> \in Seq(Hop)
      BY DEF Unanswered, Hop
    <2> QED BY <2>1, <2>2 DEF TracerInit, TracerTypeOK
  <1>2. AirAnswers /\ HopsCounted /\ ThisHopSound /\ PastHopsSound
    BY DEF TracerInit, AirAnswers, HopsCounted, ThisHopSound, PastHopsSound
  <1> QED BY <1>1, <1>2 DEF TracerInv

\* A node is a number of the route, the destination the last.
LEMMA NodeFacts ==
    ASSUME TracerTypeOK, NEW n \in Nat \ {0}
    PROVE  /\ NodeAt(n) \in Nodes /\ NodeAt(n) \in 1..n
           /\ Destination(NodeAt(n)) => route.open /\ n >= route.nodes
           /\ KindAt(n) = "echo" => route.open /\ n >= route.nodes
  BY TracerAssumption DEF TracerTypeOK, Nodes, NodeAt, KindAt, Destination

\* Steps that neither learn nor report anything.
LEMMA TracerQuiet ==
    ASSUME TracerInv, HopsEnd \/ ProbeFails \/ ProbeTimeout \/ Expire
    PROVE  TracerInv'
  <1>1. /\ UNCHANGED <<route, air, ttl, hop, hops, reached, tardy, misled>>
        /\ attempt' \in Nat /\ expired' \in BOOLEAN
        /\ step' = step \/ (step = "hop" /\ step' = "done") \/ (step = "wait" /\ step' = "probe")
    <2>1. attempt \in Nat /\ expired \in BOOLEAN
      BY DEF TracerInv, TracerTypeOK
    <2>2. CASE HopsEnd
      BY <2>1, <2>2 DEF HopsEnd
    <2>3. CASE ProbeFails
      BY <2>1, <2>3 DEF ProbeFails
    <2>4. CASE ProbeTimeout
      BY <2>1, <2>4 DEF ProbeTimeout
    <2>5. CASE Expire
      BY <2>1, <2>5 DEF Expire
    <2> QED BY <2>2, <2>3, <2>4, <2>5
  <1>2. TracerTypeOK'
    BY <1>1 DEF TracerInv, TracerTypeOK
  <1>3. \A n : NodeAt(n)' = NodeAt(n) /\ KindAt(n)' = KindAt(n) /\ Destination(n)' = Destination(n)
    BY <1>1 DEF NodeAt, KindAt, Destination
  <1>4. AirAnswers'
    BY <1>1, <1>3 DEF TracerInv, AirAnswers
  <1>5. HopsCounted'
    BY <1>1 DEF TracerInv, HopsCounted
  <1>6. ThisHopSound' /\ PastHopsSound'
    BY <1>1, <1>3 DEF TracerInv, ThisHopSound, PastHopsSound
  <1> QED BY <1>2, <1>4, <1>5, <1>6 DEF TracerInv

\* Beginnings: of the trace, of a hop.
LEMMA TracerBegins ==
    ASSUME TracerInv, Unresolved \/ Resolved \/ HopBegins
    PROVE  TracerInv'
  <1>1. CASE Unresolved \/ Resolved
    <2>1. /\ step = "resolve" /\ step' \in {"done", "hop"} /\ air = {} /\ ~reached /\ hops = <<>>
          /\ UNCHANGED <<air, ttl, attempt, hop, hops, reached, expired, tardy, misled>>
          /\ route' \in [nodes : Nodes, open : BOOLEAN]
      BY <1>1 DEF TracerInv, TracerTypeOK, HopsCounted, Unresolved, Resolved
    <2>2. TracerTypeOK'
      BY <2>1 DEF TracerInv, TracerTypeOK
    <2>3. AirAnswers' /\ HopsCounted' /\ ThisHopSound' /\ PastHopsSound'
      BY <2>1 DEF TracerInv, AirAnswers, HopsCounted, ThisHopSound, PastHopsSound
    <2> QED BY <2>2, <2>3 DEF TracerInv
  <1>2. CASE HopBegins
    <2>1. /\ step = "hop" /\ step' = "probe" /\ attempt' = 0 /\ hop' = Unanswered /\ ttl <= MaxHops
          /\ UNCHANGED <<route, air, ttl, hops, reached, expired, tardy, misled>>
      BY <1>2 DEF HopBegins
    <2>2. hop' \in Hop /\ hop'.addr = Nowhere
      BY <2>1 DEF Unanswered, Hop
    <2>3. TracerTypeOK'
      BY <2>1, <2>2 DEF TracerInv, TracerTypeOK
    <2>4. \A n : NodeAt(n)' = NodeAt(n) /\ KindAt(n)' = KindAt(n) /\ Destination(n)' = Destination(n)
      BY <2>1 DEF NodeAt, KindAt, Destination
    <2>5. AirAnswers' /\ HopsCounted'
      BY <2>1, <2>4 DEF TracerInv, AirAnswers, HopsCounted
    <2>6. ThisHopSound' /\ PastHopsSound'
      BY <2>1, <2>2, <2>4 DEF TracerInv, ThisHopSound, PastHopsSound
    <2> QED BY <2>3, <2>5, <2>6 DEF TracerInv
  <1> QED BY <1>1, <1>2

\* The answer to a request joins what is in the air.
LEMMA TracerProbes ==
    ASSUME TracerInv, Probe
    PROVE  TracerInv'
  <1>1. /\ step = "probe" /\ step' = "wait" /\ air' = air \cup {Answer}
        /\ UNCHANGED <<route, ttl, attempt, hop, hops, reached, expired, tardy, misled>>
    BY DEF Probe, Probing
  <1>2. TracerTypeOK'
    BY <1>1 DEF TracerInv, TracerTypeOK
  <1>3. \A n : NodeAt(n)' = NodeAt(n) /\ KindAt(n)' = KindAt(n) /\ Destination(n)' = Destination(n)
    BY <1>1 DEF NodeAt, KindAt, Destination
  <1>4. /\ Answer.from = NodeAt(ttl) /\ Answer.kind = KindAt(ttl) /\ Answer.of \in {ttl} \X Nat
        /\ ttl \in 1..ttl
    BY TracerAssumption DEF TracerInv, TracerTypeOK, Answer
  <1>5. AirAnswers'
    BY <1>1, <1>3, <1>4 DEF TracerInv, AirAnswers
  <1>6. HopsCounted' /\ ThisHopSound' /\ PastHopsSound'
    BY <1>1, <1>3 DEF TracerInv, HopsCounted, ThisHopSound, PastHopsSound
  <1> QED BY <1>2, <1>5, <1>6 DEF TracerInv

\* What waitReply takes, unless it is a stray, answers a request that got as far
\* as it says.
LEMMA TracerTakes ==
    ASSUME TracerInv, NEW m \in air \cup Strays, WaitReply(m)
    PROVE  TracerInv'
  <1>1. /\ step = "wait" /\ step' = "probe" /\ air' = air \ {m}
        /\ hop' = [addr |-> m.from, answers |-> hop.answers + 1]
        /\ reached' = (reached \/ m.kind = "echo" \/ Destination(m.from))
        /\ tardy' = (tardy \/ m.of # <<ttl, attempt>>)
        /\ misled' = (misled \/ m \in Strays)
        /\ attempt' = attempt + 1 /\ UNCHANGED <<route, ttl, hops, expired>>
    BY DEF WaitReply
  <1>2. \A n : NodeAt(n)' = NodeAt(n) /\ KindAt(n)' = KindAt(n) /\ Destination(n)' = Destination(n)
    BY <1>1 DEF NodeAt, KindAt, Destination
  <1>3. ASSUME m \in air
        PROVE  \E n \in 1..ttl : /\ n \in Nat \ {0} /\ m.from = NodeAt(n) /\ m.kind = KindAt(n)
                                 /\ (m.of = <<ttl, attempt>> => n = ttl)
    <2>1. PICK n \in 1..ttl : m.from = NodeAt(n) /\ m.kind = KindAt(n) /\ m.of \in {n} \X Nat
      BY <1>3 DEF TracerInv, AirAnswers
    <2>2. n \in Nat \ {0}
      BY DEF TracerInv, TracerTypeOK
    <2>3. m.of[1] = n
      BY <2>1
    <2>4. m.of = <<ttl, attempt>> => n = ttl
      BY <2>3
    <2> QED BY <2>1, <2>2, <2>4
  <1>4. m.from \in Nodes \cup {Elsewhere}
    <2>1. CASE m \in air
      BY <1>3, <2>1, NodeFacts DEF TracerInv
    <2>2. CASE m \in Strays
      BY <2>2 DEF Strays
    <2> QED BY <2>1, <2>2
  <1>5. TracerTypeOK'
    <2>1. hop' \in Hop
      BY <1>1, <1>4 DEF TracerInv, TracerTypeOK, Hop
    <2>2. reached' \in BOOLEAN /\ expired' \in BOOLEAN /\ tardy' \in BOOLEAN /\ misled' \in BOOLEAN
      BY <1>1 DEF TracerInv, TracerTypeOK
    <2> QED BY <1>1, <2>1, <2>2 DEF TracerInv, TracerTypeOK
  <1>6. AirAnswers'
    BY <1>1, <1>2 DEF TracerInv, AirAnswers
  <1>7. HopsCounted'
    BY <1>1 DEF TracerInv, HopsCounted
  <1>8. ThisHopSound'
    <2> SUFFICES ASSUME ~misled' PROVE ThisHopSound'
      BY DEF ThisHopSound
    <2>1. ~misled /\ m \in air
      BY <1>1
    <2>2. PICK n \in 1..ttl : /\ n \in Nat \ {0} /\ m.from = NodeAt(n) /\ m.kind = KindAt(n)
                             /\ (m.of = <<ttl, attempt>> => n = ttl)
      BY <1>3, <2>1
    <2>3. /\ NodeAt(n) \in 1..n
          /\ Destination(NodeAt(n)) \/ KindAt(n) = "echo" => route.open /\ n >= route.nodes
      BY <2>2, NodeFacts DEF TracerInv
    <2>4. ttl \in Nat /\ route.nodes \in Nat
      BY TracerAssumption DEF TracerInv, TracerTypeOK, Nodes
    <2>5. hop'.addr = NodeAt(n) /\ hop'.addr \in 1..ttl
      BY <1>1, <2>2, <2>3, <2>4
    <2>6. reached' => route.open /\ ttl >= route.nodes
      <3>1. CASE reached
        BY <2>1, <3>1 DEF TracerInv, ThisHopSound
      <3>2. CASE m.kind = "echo" \/ Destination(m.from)
        BY <2>2, <2>3, <2>4, <3>2
      <3> QED BY <1>1, <3>1, <3>2
    <2>7. ~tardy' => hop'.addr = NodeAt(ttl)
      BY <1>1, <2>2, <2>5
    <2>8. Destination(hop'.addr) => reached'
      BY <1>1, <2>2, <2>5
    <2> QED BY <1>1, <1>2, <2>5, <2>6, <2>7, <2>8 DEF ThisHopSound
  <1>9. PastHopsSound'
    BY <1>1, <1>2 DEF TracerInv, PastHopsSound
  <1> QED BY <1>5, <1>6, <1>7, <1>8, <1>9 DEF TracerInv

\* A hop is reported with what is known of it.
LEMMA TracerReports ==
    ASSUME TracerInv, HopEnds
    PROVE  TracerInv'
  <1>1. /\ step = "probe" /\ hops' = Append(hops, hop)
        /\ UNCHANGED <<route, air, attempt, hop, reached, expired, tardy, misled>>
        /\ \/ reached /\ step' = "done" /\ ttl' = ttl
           \/ ~reached /\ step' = "hop" /\ ttl' = ttl + 1
    BY DEF TracerInv, TracerTypeOK, HopEnds
  <1>2. /\ hops \in Seq(Hop) /\ Len(hops) = ttl - 1 /\ Len(hops) \in Nat /\ ttl \in 1..MaxHops
        /\ MaxHops \in Nat /\ hop \in Hop
    BY <1>1, TracerAssumption DEF TracerInv, TracerTypeOK, HopsCounted
  <1>3. /\ hops' \in Seq(Hop) /\ Len(hops') = ttl /\ DOMAIN hops = 1..(ttl - 1) /\ DOMAIN hops' = 1..ttl
        /\ hops'[ttl] = hop /\ \A k \in 1..(ttl - 1) : hops'[k] = hops[k]
    BY <1>1, <1>2
  <1>4. TracerTypeOK'
    <2>1. ttl' \in 1..(MaxHops + 1)
      BY <1>1, <1>2
    <2> QED BY <1>1, <1>3, <2>1 DEF TracerInv, TracerTypeOK
  <1>5. \A n : NodeAt(n)' = NodeAt(n) /\ KindAt(n)' = KindAt(n) /\ Destination(n)' = Destination(n)
    BY <1>1 DEF NodeAt, KindAt, Destination
  <1>6. AirAnswers'
    <2>1. 1..ttl \subseteq 1..ttl'
      BY <1>1, <1>2
    <2> QED BY <1>1, <1>5, <2>1 DEF TracerInv, AirAnswers
  <1>7. HopsCounted'
    BY <1>1, <1>2, <1>3 DEF HopsCounted
  <1>8. ThisHopSound'
    BY <1>1 DEF TracerInv, ThisHopSound
  <1>9. PastHopsSound'
    <2> SUFFICES ASSUME ~misled', NEW k \in DOMAIN hops', hops'[k].addr # Nowhere
                 PROVE  /\ hops'[k].addr \in 1..k
                        /\ ~tardy' => hops'[k].addr = NodeAt(k)'
                        /\ Destination(hops[k].addr)' => reached' /\ step' = "done" /\ k = Len(hops')
      BY DEF PastHopsSound
    <2>1. CASE k = ttl
      <3>1. /\ hop.addr \in 1..ttl /\ (~tardy => hop.addr = NodeAt(ttl))
            /\ (Destination(hop.addr) => reached)
        BY <1>1, <1>3, <2>1 DEF TracerInv, ThisHopSound
      <3>2. Destination(hops[k].addr)' <=> Destination(hop.addr)
        BY <1>1, <1>3, <2>1 DEF Destination
      <3> QED BY <1>1, <1>3, <1>5, <2>1, <3>1, <3>2
    <2>2. CASE k # ttl
      <3>1. k \in DOMAIN hops /\ hops'[k] = hops[k]
        BY <1>2, <1>3, <2>2
      <3>2. /\ hops[k].addr \in 1..k /\ (~tardy => hops[k].addr = NodeAt(k))
            /\ ~Destination(hops[k].addr)
        BY <1>1, <3>1 DEF TracerInv, PastHopsSound
      <3>3. ~(Destination(hops[k].addr)')
        BY <1>1, <3>1, <3>2 DEF Destination
      <3> QED BY <1>1, <1>5, <3>1, <3>2, <3>3
    <2> QED BY <2>1, <2>2
  <1> QED BY <1>4, <1>6, <1>7, <1>8, <1>9 DEF TracerInv

\* Every step keeps the invariant.
LEMMA TracerStep == TracerInv /\ [TracerNext]_tracer => TracerInv'
  <1> SUFFICES ASSUME TracerInv, [TracerNext]_tracer PROVE TracerInv'
    OBVIOUS
  <1>1. CASE UNCHANGED tracer
    <2>1. \A n : NodeAt(n)' = NodeAt(n) /\ KindAt(n)' = KindAt(n) /\ Destination(n)' = Destination(n)
      BY <1>1 DEF tracer, NodeAt, KindAt, Destination
    <2>2. TracerTypeOK' /\ AirAnswers' /\ HopsCounted'
      BY <1>1, <2>1 DEF tracer, TracerInv, TracerTypeOK, AirAnswers, HopsCounted
    <2>3. ThisHopSound' /\ PastHopsSound'
      BY <1>1, <2>1 DEF tracer, TracerInv, ThisHopSound, PastHopsSound
    <2> QED BY <2>2, <2>3 DEF TracerInv
  <1> QED BY <1>1, TracerQuiet, TracerBegins, TracerProbes, TracerTakes, TracerReports DEF TracerNext

\* waitReply never looks at the sequence number: late answers move routers to
\* later hops, never to earlier ones, and a trace that no stray misled ends at the
\* destination, after as many hops as the route has.
THEOREM TracerTraceSound == TracerSpec => []TraceSound
  <1>1. TracerInv => TraceSound
    BY DEF TracerInv, HopsCounted, ThisHopSound, PastHopsSound, TraceSound
  <1> QED BY <1>1, TracerStart, TracerStep, PTL DEF TracerSpec

-----------------------------------------------------------------------------
(* Medians                                                                     *)

\* A family of subsets of a finite set has a smallest one.
LEMMA MinimalSubset ==
    ASSUME NEW D, IsFiniteSet(D), NEW F, F \subseteq SUBSET D, F # {}
    PROVE  \E X \in F : \A Y \in F : Y \subseteq X => Y = X
  <1>1. FiniteSubsetsOf(D) = SUBSET D
    BY FS_FiniteSubsetsOfFinite
  <1>2. IsWellFoundedOn(StrictSubsetOrdering(D), SUBSET D)
    BY <1>1, FS_StrictSubsetOrderingWellFounded
  <1>3. PICK X \in F : \A Y \in F : ~(<<Y, X>> \in StrictSubsetOrdering(D))
    BY <1>2, WFMin
  <1>4. ASSUME NEW Y \in F, Y \subseteq X, Y # X PROVE FALSE
    <2>1. <<Y, X>> \in StrictSubsetOrdering(D)
      BY <1>4 DEF StrictSubsetOrdering
    <2> QED BY <1>3, <2>1
  <1> QED BY <1>4

\* The largest of finitely many numbers.
LEMMA LargestExists ==
    ASSUME NEW D, IsFiniteSet(D), D # {}, NEW s, \A i \in D : s[i] \in Nat
    PROVE  \E j \in D : \A i \in D : s[i] <= s[j]
  <1> DEFINE Above(j) == {i \in D : s[i] > s[j]}
             F == {Above(j) : j \in D}
  <1>1. F \subseteq SUBSET D /\ F # {}
    OBVIOUS
  <1>2. PICK X \in F : \A Y \in F : Y \subseteq X => Y = X
    <2> HIDE DEF F
    <2> QED BY <1>1, MinimalSubset
  <1>3. PICK j \in D : X = Above(j)
    BY <1>2
  <1>4. ASSUME NEW i \in D, ~(s[i] <= s[j]) PROVE FALSE
    <2>1. s[i] > s[j] /\ s[i] \in Nat /\ s[j] \in Nat
      BY <1>4
    <2>2. Above(i) \subseteq X /\ i \in X /\ i \notin Above(i)
      BY <1>3, <2>1
    <2>3. Above(i) \in F
      OBVIOUS
    <2> HIDE DEF Above, F
    <2> QED BY <1>2, <2>2, <2>3
  <1> QED BY <1>4

\* How many places a sequence has.
LEMMA PlacesCounted ==
    ASSUME NEW n \in Nat
    PROVE  IsFiniteSet(1..n) /\ Cardinality(1..n) = n
  <1>1. /\ IsFiniteSet(1..n)
        /\ Cardinality(1..n) = IF 1 > n THEN 0 ELSE n - 1 + 1
    BY 1 \in Int, n \in Int, FS_Interval
  <1>2. (IF 1 > n THEN 0 ELSE n - 1 + 1) = n
    OBVIOUS
  <1> QED BY <1>1, <1>2

\* Ranked finds the k-th smallest: there is one.
LEMMA RankedExists ==
    ASSUME NEW s \in Seq(Nat), NEW k \in 1..Len(s)
    PROVE  Ranked(s, k) \in Nat
  <1> DEFINE D == DOMAIN s
             UpTo(v) == {i \in D : s[i] <= v}
             F == {UpTo(s[j]) : j \in {i \in D : Cardinality(UpTo(s[i])) >= k}}
  <1>1. D = 1..Len(s) /\ Len(s) \in Nat /\ \A i \in D : s[i] \in Nat
    OBVIOUS
  <1>2. IsFiniteSet(D) /\ Cardinality(D) = Len(s) /\ D # {}
    <2>1. IsFiniteSet(1..Len(s)) /\ Cardinality(1..Len(s)) = Len(s)
      BY <1>1, PlacesCounted
    <2>2. 1..Len(s) # {}
      BY <1>1
    <2> HIDE DEF D
    <2> QED BY <1>1, <2>1, <2>2
  <1>3. PICK top \in D : \A i \in D : s[i] <= s[top]
    BY <1>1, <1>2, LargestExists
  <1>4. UpTo(s[top]) = D
    BY <1>3
  <1>5. F # {} /\ F \subseteq SUBSET D
    <2>1. Cardinality(UpTo(s[top])) >= k
      <3>1. Len(s) >= k
        OBVIOUS
      <3> HIDE DEF UpTo, D
      <3> QED BY <1>2, <1>4, <3>1
    <2> QED BY <2>1
  <1>6. PICK X \in F : \A Y \in F : Y \subseteq X => Y = X
    <2> HIDE DEF F, D
    <2> QED BY <1>2, <1>5, MinimalSubset
  <1>7. PICK j \in D : X = UpTo(s[j]) /\ Cardinality(UpTo(s[j])) >= k
    BY <1>6
  <1> DEFINE L == {i \in D : s[i] < s[j]}
  <1>8. IsFiniteSet(L) /\ Cardinality(L) \in Nat
    BY <1>2, FS_Subset, FS_CardinalityType
  <1>9. Cardinality(L) < k
    <2> SUFFICES ASSUME Cardinality(L) >= k PROVE FALSE
      BY <1>1, <1>8
    <2>1. L # {}
      <3>1. k > 0 /\ k \in Nat
        BY <1>1
      <3> HIDE DEF L, D, F
      <3>2. Cardinality(L) # 0
        BY <1>8, <3>1
      <3> QED BY <3>2, FS_EmptySet
    <2>2. PICK m \in L : \A i \in L : s[i] <= s[m]
      <3>1. \A i \in L : s[i] \in Nat
        BY <1>1
      <3> HIDE DEF L
      <3> QED BY <1>8, <2>1, <3>1, LargestExists
    <2>3. m \in D /\ s[m] < s[j]
      BY <2>2
    <2>4. UpTo(s[m]) = L
      BY <1>1, <2>2, <2>3
    <2>5. UpTo(s[m]) \in F
      BY <2>3, <2>4
    <2>6. L \subseteq X /\ j \in X /\ j \notin L
      BY <1>1, <1>7
    <2> HIDE DEF F, UpTo, L
    <2> QED BY <1>6, <2>4, <2>5, <2>6
  <1>10. \E v \in {s[i] : i \in DOMAIN s} :
            /\ Cardinality({i \in DOMAIN s : s[i] < v}) < k
            /\ Cardinality({i \in DOMAIN s : s[i] <= v}) >= k
    BY <1>7, <1>9
  <1>11. Ranked(s, k) \in {s[i] : i \in DOMAIN s}
    BY <1>10 DEF Ranked
  <1> QED BY <1>1, <1>11

\* The two ranks of a median.
LEMMA MiddleRanks ==
    ASSUME NEW n \in Nat \ {0}
    PROVE  (n + 1) \div 2 \in 1..n /\ n \div 2 + 1 \in 1..n
  OBVIOUS

\* The median of times is a time (calcMedian).
LEMMA MedianType ==
    ASSUME NEW s \in Seq(Nat)
    PROVE  Median2(s) \in Nat
  <1>1. CASE s = <<>>
    BY <1>1 DEF Median2
  <1>2. CASE s # <<>>
    <2>1. Len(s) \in Nat \ {0}
      BY <1>2
    <2>2. (Len(s) + 1) \div 2 \in 1..Len(s) /\ Len(s) \div 2 + 1 \in 1..Len(s)
      BY <2>1, MiddleRanks
    <2>3. Ranked(s, (Len(s) + 1) \div 2) \in Nat /\ Ranked(s, Len(s) \div 2 + 1) \in Nat
      BY <2>2, RankedExists
    <2> QED BY <1>2, <2>3 DEF Median2
  <1> QED BY <1>1, <1>2

\* The deviation of times from a time is a time (calcMAD).
LEMMA DeviationType ==
    ASSUME NEW s \in Seq(Nat), NEW c \in Nat
    PROVE  Deviation4(s, c) \in Nat
  <1> DEFINE d == [i \in DOMAIN s |-> Distance(2 * s[i], c)]
  <1>1. \A i \in DOMAIN s : Distance(2 * s[i], c) \in Nat
    <2> SUFFICES ASSUME NEW i \in DOMAIN s PROVE Distance(2 * s[i], c) \in Nat
      OBVIOUS
    <2>1. s[i] \in Nat
      OBVIOUS
    <2> QED BY <2>1 DEF Distance
  <1>2. d \in Seq(Nat)
    BY <1>1
  <1> QED BY <1>2, MedianType DEF Deviation4

\* The median of samples that are all the same.
LEMMA ConstantMedian ==
    ASSUME NEW s \in Seq(Nat), s # <<>>, NEW x \in Nat, \A i \in DOMAIN s : s[i] = x
    PROVE  Median2(s) = 2 * x
  <1>1. DOMAIN s = 1..Len(s) /\ Len(s) \in Nat \ {0}
    OBVIOUS
  <1>2. ASSUME NEW k \in 1..Len(s) PROVE Ranked(s, k) = x
    <2>1. {s[i] : i \in DOMAIN s} = {x}
      BY <1>1
    <2>2. {i \in DOMAIN s : s[i] < x} = {} /\ {i \in DOMAIN s : s[i] <= x} = 1..Len(s)
      BY <1>1
    <2>3. Cardinality({}) = 0 /\ Cardinality(1..Len(s)) = Len(s)
      BY <1>1, FS_EmptySet, PlacesCounted
    <2>4. /\ Cardinality({i \in DOMAIN s : s[i] < x}) < k
          /\ Cardinality({i \in DOMAIN s : s[i] <= x}) >= k
      <3>1. 0 < k /\ Len(s) >= k
        BY <1>1
      <3> QED BY <2>2, <2>3, <3>1
    <2> QED BY <2>1, <2>4 DEF Ranked
  <1>3. (Len(s) + 1) \div 2 \in 1..Len(s) /\ Len(s) \div 2 + 1 \in 1..Len(s)
    BY <1>1, MiddleRanks
  <1>4. Ranked(s, (Len(s) + 1) \div 2) = x /\ Ranked(s, Len(s) \div 2 + 1) = x
    BY <1>2, <1>3
  <1> QED BY <1>4 DEF Median2

\* Samples that are all the same are a stable plateau.
LEMMA ConstantStable ==
    ASSUME NEW s \in Seq(Nat), s # <<>>, NEW x \in Nat, \A i \in DOMAIN s : s[i] = x
    PROVE  Stable(s)
  <1> DEFINE d == [i \in DOMAIN s |-> Distance(2 * s[i], 2 * x)]
  <1>1. d \in Seq(Nat) /\ d # <<>> /\ DOMAIN d = DOMAIN s /\ \A i \in DOMAIN d : d[i] = 0
    <2>1. \A i \in DOMAIN s : Distance(2 * s[i], 2 * x) = 0
      BY DEF Distance
    <2> QED BY <2>1
  <1>2. Median2(s) = 2 * x
    BY ConstantMedian
  <1> HIDE DEF d
  <1>3. Median2(d) = 0
    BY <1>1, ConstantMedian
  <1>4. Deviation4(s, Median2(s)) = 0
    BY <1>2, <1>3 DEF Deviation4, d
  <1> QED BY <1>4 DEF Stable

-----------------------------------------------------------------------------
(* The detector                                                                *)

\* The constants are numbers.
LEMMA ShiftConstants ==
    /\ Times \subseteq Nat /\ MaxFeeds \in Nat
    /\ Warmup \in Nat /\ MaxHistory \in Nat /\ Streak \in Nat
    /\ 0 < Warmup /\ 0 < Streak /\ Warmup <= Streak /\ Streak <= MaxHistory
  BY ShiftAssumption

\* The baseline and its jitter are numbers.
LEMMA BaseTypes ==
    ASSUME ShiftTypeOK
    PROVE  Base2 \in Nat /\ Jitter4 \in Nat
  <1>1. history \in Seq(Nat)
    <2>1. /\ Len(history) \in Nat /\ history = [i \in 1..Len(history) |-> history[i]]
          /\ \A i \in 1..Len(history) : history[i] \in Times
      BY DEF ShiftTypeOK
    <2>2. \A i \in 1..Len(history) : history[i] \in Nat
      BY <2>1, ShiftConstants
    <2> QED BY <2>1, <2>2
  <1>2. Base2 \in Nat
    BY <1>1, MedianType DEF Base2
  <1> QED BY <1>1, <1>2, DeviationType DEF Jitter4

\* Every outcome of Feed puts the sample and the baseline it met at the end.
LEMMA LogStep ==
    ASSUME ShiftTypeOK, NEW x \in Times, NEW h \in BOOLEAN, Log(x, h)
    PROVE  /\ log' \in Seq([rtt : Times, base2 : Nat, jitter4 : Nat, hit : BOOLEAN])
           /\ Len(log) \in Nat /\ Len(log') = Len(log) + 1 /\ log' # <<>>
           /\ \A i \in 1..Len(log) : log'[i] = log[i]
           /\ log'[Len(log) + 1].rtt = x /\ log'[Len(log) + 1].base2 = Base2
           /\ log'[Len(log) + 1].jitter4 = Jitter4 /\ log'[Len(log) + 1].hit = h
  <1> DEFINE R == [rtt : Times, base2 : Nat, jitter4 : Nat, hit : BOOLEAN]
             e == [rtt |-> x, base2 |-> Base2, jitter4 |-> Jitter4, hit |-> h]
  <1>1. e \in R
    BY BaseTypes
  <1>2. log \in Seq(R) /\ log' = Append(log, e)
    BY DEF ShiftTypeOK, Log
  <1> HIDE DEF R, e
  <1>3. /\ log' \in Seq(R) /\ Len(log) \in Nat /\ Len(log') = Len(log) + 1 /\ log' # <<>>
        /\ \A i \in 1..Len(log) : log'[i] = log[i]
        /\ log'[Len(log) + 1] = e
    BY <1>1, <1>2
  <1>4. e.rtt = x /\ e.base2 = Base2 /\ e.jitter4 = Jitter4 /\ e.hit = h
    BY DEF e
  <1> QED BY <1>3, <1>4 DEF R

\* What every outcome but FeedShift logs.
LEMMA Quiet ==
    ASSUME NEW x \in Times, Feed(x)
    PROVE  Log(x, FALSE) \/ (FeedShift(x) /\ Log(x, TRUE))
  <1>1. CASE FeedWarmup(x)
    BY <1>1 DEF FeedWarmup
  <1>2. CASE FeedNormal(x)
    BY <1>2 DEF FeedNormal
  <1>3. CASE FeedCollect(x)
    BY <1>3 DEF FeedCollect
  <1>4. CASE FeedSpurious(x)
    BY <1>4 DEF FeedSpurious
  <1>5. CASE FeedUnstable(x)
    BY <1>5 DEF FeedUnstable
  <1>6. CASE FeedShift(x)
    BY <1>6 DEF FeedShift
  <1> QED BY <1>1, <1>2, <1>3, <1>4, <1>5, <1>6 DEF Feed

\* The sequences Feed builds are sequences of times.
LEMMA FeedSequences ==
    ASSUME ShiftTypeOK, NEW x \in Times
    PROVE  /\ history \in Seq(Times) /\ candidates \in Seq(Times)
           /\ Len(history) \in Nat /\ Len(candidates) \in Nat
           /\ Append(history, x) \in Seq(Times)
           /\ Len(Append(history, x)) = Len(history) + 1
           /\ Len(history) > 0 => /\ Append(Tail(history), x) \in Seq(Times)
                                  /\ Len(Append(Tail(history), x)) = Len(history)
           /\ Append(candidates, x) \in Seq(Times)
           /\ Len(Append(candidates, x)) = Len(candidates) + 1
           /\ Tail(Append(candidates, x)) \in Seq(Times)
           /\ Len(Tail(Append(candidates, x))) = Len(candidates)
  <1>1. /\ history \in Seq(Times) /\ candidates \in Seq(Times)
        /\ Len(history) \in Nat /\ Len(candidates) \in Nat
    BY DEF ShiftTypeOK
  <1>2. /\ Append(history, x) \in Seq(Times)
        /\ Len(Append(history, x)) = Len(history) + 1
    BY <1>1
  <1>3. ASSUME Len(history) > 0
        PROVE  /\ Append(Tail(history), x) \in Seq(Times)
               /\ Len(Append(Tail(history), x)) = Len(history)
    <2>1. history # <<>>
      BY <1>3
    <2>2. Tail(history) \in Seq(Times) /\ Len(Tail(history)) = Len(history) - 1
      BY <1>1, <2>1
    <2> QED BY <1>1, <2>2
  <1>4. /\ Append(candidates, x) \in Seq(Times) /\ Append(candidates, x) # <<>>
        /\ Len(Append(candidates, x)) = Len(candidates) + 1
    BY <1>1
  <1>5. /\ Tail(Append(candidates, x)) \in Seq(Times)
        /\ Len(Tail(Append(candidates, x))) = Len(candidates)
    <2> DEFINE p == Append(candidates, x)
    <2>1. p \in Seq(Times) /\ p # <<>> /\ Len(p) = Len(candidates) + 1
      BY <1>4
    <2> HIDE DEF p
    <2>2. Tail(p) \in Seq(Times) /\ Len(Tail(p)) = Len(candidates)
      BY <1>1, <2>1
    <2> QED BY <2>2 DEF p
  <1> QED BY <1>1, <1>2, <1>3, <1>4, <1>5

\* The variables keep their types.
LEMMA ShiftTypeStep ==
    ASSUME ShiftTypeOK, NEW x \in Times, Feed(x)
    PROVE  ShiftTypeOK'
  <1>1. log' \in Seq([rtt : Times, base2 : Nat, jitter4 : Nat, hit : BOOLEAN])
    BY Quiet, LogStep
  <1>2. Len(history) >= Warmup => Len(history) > 0
    BY ShiftConstants, FeedSequences
  <1>3. <<>> \in Seq(Times)
    OBVIOUS
  <1>4. history' \in Seq(Times) /\ candidates' \in Seq(Times)
    <2>1. CASE FeedWarmup(x)
      BY <2>1, FeedSequences DEF FeedWarmup
    <2>2. CASE FeedNormal(x)
      BY <2>2, <1>2, <1>3, FeedSequences DEF FeedNormal
    <2>3. CASE FeedCollect(x)
      BY <2>3, FeedSequences DEF FeedCollect
    <2>4. CASE FeedSpurious(x)
      BY <2>4, <1>3, FeedSequences DEF FeedSpurious
    <2>5. CASE FeedUnstable(x)
      BY <2>5, FeedSequences DEF FeedUnstable
    <2>6. CASE FeedShift(x)
      BY <2>6, <1>3, FeedSequences DEF FeedShift
    <2> QED BY <2>1, <2>2, <2>3, <2>4, <2>5, <2>6 DEF Feed
  <1> QED BY <1>1, <1>4 DEF ShiftTypeOK

\* A baseline that is complete stays complete.
LEMMA WarmedUpStep ==
    ASSUME ShiftTypeOK, WarmedUp, NEW x \in Times, Feed(x)
    PROVE  WarmedUp'
  <1>1. Len(log') = Len(log) + 1
    BY Quiet, LogStep
  <1>2. CASE FeedWarmup(x)
    BY <1>1, <1>2, FeedSequences DEF FeedWarmup, WarmedUp
  <1>3. CASE FeedNormal(x)
    <2>1. Len(history) >= Warmup /\ Len(history) > 0
      BY <1>3, ShiftConstants, FeedSequences DEF FeedNormal
    <2>2. history' = Append(history, x) \/ history' = Append(Tail(history), x)
      BY <1>3 DEF FeedNormal
    <2>3. Len(history') >= Warmup /\ Len(history') \in Nat
      BY <2>1, <2>2, ShiftConstants, FeedSequences
    <2> QED BY <2>3, ShiftConstants DEF WarmedUp
  <1>4. ASSUME FeedCollect(x) \/ FeedSpurious(x) \/ FeedUnstable(x) PROVE WarmedUp'
    <2>1. Len(history) >= Warmup /\ history' = history
      BY <1>4 DEF FeedCollect, FeedSpurious, FeedUnstable, Completes
    <2> QED BY <2>1, ShiftConstants, FeedSequences DEF WarmedUp
  <1>5. CASE FeedShift(x)
    <2>1. Len(candidates) + 1 >= Streak /\ history' = Append(candidates, x)
      BY <1>5 DEF FeedShift, Completes
    <2>2. Len(history') >= Warmup /\ Len(history') \in Nat
      BY <2>1, ShiftConstants, FeedSequences
    <2> QED BY <2>2, ShiftConstants DEF WarmedUp
  <1> QED BY <1>2, <1>3, <1>4, <1>5 DEF Feed

\* A candidate is 25 ms or more from the baseline.
LEMMA CandidateFar ==
    ASSUME ShiftTypeOK, NEW x \in Times, Candidate(x)
    PROVE  Distance(2 * x, Base2) >= 50
  <1>1. x \in Nat /\ Base2 \in Nat
    BY ShiftConstants, BaseTypes
  <1>2. Distance(2 * x, Base2) \in Nat
    BY <1>1 DEF Distance
  <1> QED BY <1>2 DEF Candidate

\* Collecting keeps the collected ones far from a baseline that does not change.
LEMMA CollectedGrows ==
    ASSUME ShiftTypeOK, Collected, NEW x \in Times, Log(x, FALSE), Candidate(x),
           history' = history, Len(candidates') \in Nat,
           Len(candidates') <= Len(candidates) + 1, Len(candidates') < Streak
    PROVE  Collected'
  <1>1. /\ Len(log') = Len(log) + 1 /\ Len(log) \in Nat
        /\ \A i \in 1..Len(log) : log'[i] = log[i]
        /\ log'[Len(log) + 1].rtt = x /\ log'[Len(log) + 1].base2 = Base2
    BY LogStep
  <1>2. Len(candidates) \in Nat /\ Len(candidates) <= Len(log)
    BY FeedSequences DEF Collected
  <1>3. Base2' = Base2
    BY DEF Base2
  <1>4. Distance(2 * x, Base2) >= 50
    BY CandidateFar
  <1>5. ASSUME NEW i \in Last(Len(candidates))'
        PROVE  log'[i].base2 = Base2 /\ Distance(2 * log'[i].rtt, Base2) >= 50
    <2>1. i = Len(log) + 1 \/ (i \in Last(Len(candidates)) /\ i \in 1..Len(log))
      <3>1. /\ i \in Int /\ Len(log) - Len(candidates') + 2 <= i /\ i <= Len(log) + 1
        BY <1>1 DEF Last
      <3>2. i = Len(log) + 1 \/ (Len(log) - Len(candidates) + 1 <= i /\ i <= Len(log))
        BY <1>1, <1>2, <3>1
      <3> QED BY <1>1, <1>2, <3>1, <3>2 DEF Last
    <2>2. CASE i = Len(log) + 1
      BY <1>1, <1>4, <2>2
    <2>3. CASE i \in Last(Len(candidates)) /\ i \in 1..Len(log)
      BY <1>1, <2>3 DEF Collected
    <2> QED BY <2>1, <2>2, <2>3
  <1>6. Len(candidates') <= Len(log')
    BY <1>1, <1>2
  <1> QED BY <1>3, <1>5, <1>6 DEF Collected

\* Nothing is collected.
LEMMA CollectedEmpty ==
    ASSUME ShiftTypeOK', candidates' = <<>>
    PROVE  Collected'
  <1>1. Len(candidates') = 0 /\ Len(log') \in Nat
    BY DEF ShiftTypeOK
  <1>2. Last(0)' = {}
    BY <1>1 DEF Last
  <1>3. 0 < Streak
    BY ShiftConstants
  <1> QED BY <1>1, <1>2, <1>3 DEF Collected

\* What is collected stays the last samples, far from the baseline.
LEMMA CollectedStep ==
    ASSUME ShiftTypeOK, Collected, WarmedUp, NEW x \in Times, Feed(x)
    PROVE  Collected'
  <1>0. ShiftTypeOK'
    BY ShiftTypeStep
  <1>1. CASE FeedWarmup(x)
    <2>1. candidates' = <<>>
      BY <1>1 DEF FeedWarmup, WarmedUp
    <2> QED BY <1>0, <2>1, CollectedEmpty
  <1>2. CASE FeedNormal(x) \/ FeedSpurious(x) \/ FeedShift(x)
    <2>1. candidates' = <<>>
      BY <1>2 DEF FeedNormal, FeedSpurious, FeedShift
    <2> QED BY <1>0, <2>1, CollectedEmpty
  <1>3. CASE FeedCollect(x)
    <2>1. /\ Log(x, FALSE) /\ Candidate(x) /\ history' = history
          /\ candidates' = Append(candidates, x) /\ Len(candidates) + 1 < Streak
      BY <1>3 DEF FeedCollect
    <2>2. /\ Len(candidates') \in Nat /\ Len(candidates') <= Len(candidates) + 1
          /\ Len(candidates') < Streak
      BY <2>1, ShiftConstants, FeedSequences
    <2> QED BY <2>1, <2>2, CollectedGrows
  <1>4. CASE FeedUnstable(x)
    <2>1. /\ Log(x, FALSE) /\ Candidate(x) /\ history' = history
          /\ candidates' = Tail(Append(candidates, x))
      BY <1>4 DEF FeedUnstable, Completes
    <2>2. /\ Len(candidates') \in Nat /\ Len(candidates') <= Len(candidates) + 1
          /\ Len(candidates') < Streak
      BY <2>1, ShiftConstants, FeedSequences DEF Collected
    <2> QED BY <2>1, <2>2, CollectedGrows
  <1> QED BY <1>1, <1>2, <1>3, <1>4 DEF Feed

\* A report is of Streak samples far from one baseline.
LEMMA GenuineStep ==
    ASSUME ShiftTypeOK, Collected, NEW x \in Times, Feed(x)
    PROVE  ShiftGenuine'
  <1>1. CASE Log(x, FALSE)
    <2>1. Len(log') = Len(log) + 1 /\ ~log'[Len(log) + 1].hit
      BY <1>1, LogStep
    <2> QED BY <2>1 DEF ShiftGenuine
  <1>2. CASE FeedShift(x) /\ Log(x, TRUE)
    <2>1. /\ Len(log') = Len(log) + 1 /\ Len(log) \in Nat
          /\ \A i \in 1..Len(log) : log'[i] = log[i]
          /\ log'[Len(log) + 1].rtt = x /\ log'[Len(log) + 1].base2 = Base2
      BY <1>2, LogStep
    <2>2. Len(candidates) + 1 = Streak /\ Len(candidates) \in Nat /\ Len(candidates) <= Len(log)
      BY <1>2, ShiftConstants, FeedSequences DEF FeedShift, Completes, Collected
    <2>3. Distance(2 * x, Base2) >= 50
      BY <1>2, CandidateFar DEF FeedShift, Completes
    <2>4. ASSUME NEW i \in Last(Streak)'
          PROVE  log'[i].base2 = Base2 /\ Distance(2 * log'[i].rtt, log'[i].base2) >= 50
      <3>1. i = Len(log) + 1 \/ (i \in Last(Len(candidates)) /\ i \in 1..Len(log))
        <4>1. /\ i \in Int /\ Len(log) - Streak + 2 <= i /\ i <= Len(log) + 1
          BY <2>1, ShiftConstants DEF Last
        <4>2. i = Len(log) + 1 \/ (Len(log) - Len(candidates) + 1 <= i /\ i <= Len(log))
          BY <2>1, <2>2, <4>1, ShiftConstants
        <4> QED BY <2>1, <2>2, <4>1, <4>2 DEF Last
      <3>2. CASE i = Len(log) + 1
        BY <2>1, <2>3, <3>2
      <3>3. CASE i \in Last(Len(candidates)) /\ i \in 1..Len(log)
        BY <2>1, <3>3 DEF Collected
      <3> QED BY <3>1, <3>2, <3>3
    <2>5. Len(log') >= Streak
      BY <2>1, <2>2
    <2> QED BY <2>1, <2>4, <2>5 DEF ShiftGenuine
  <1> QED BY <1>1, <1>2, Quiet

\* A sample far off by the first rule is a candidate.
LEMMA FarOffCandidate ==
    ASSUME NEW x, FarOff(x, Base2, Jitter4)
    PROVE  Candidate(x)
  BY DEF FarOff, Candidate

\* A streak of equal samples far off is neither spurious nor unstable.
LEMMA ConstantShift ==
    ASSUME ShiftTypeOK, NEW x \in Times, FarOff(x, Base2, Jitter4),
           NEW p \in Seq(Times), p # <<>>, \A i \in 1..Len(p) : p[i] = x
    PROVE  ~Spurious(p) /\ Stable(p)
  <1>1. x \in Nat /\ Base2 \in Nat
    BY ShiftConstants, BaseTypes
  <1>2. p \in Seq(Nat) /\ \A i \in DOMAIN p : p[i] = x
    <2>1. Len(p) \in Nat /\ DOMAIN p = 1..Len(p) /\ p = [i \in 1..Len(p) |-> p[i]]
      OBVIOUS
    <2>2. \A i \in 1..Len(p) : p[i] \in Nat
      BY <1>1
    <2> QED BY <2>1, <2>2
  <1>3. Median2(p) = 2 * x
    BY <1>1, <1>2, ConstantMedian
  <1>4. Distance(2 * x, Base2) >= 80 /\ Distance(2 * x, Base2) \in Nat
    BY <1>1 DEF FarOff, Distance
  <1>5. ~Spurious(p)
    BY <1>3, <1>4 DEF Spurious
  <1>6. Stable(p)
    BY <1>1, <1>2, ConstantStable
  <1> QED BY <1>5, <1>6

\* One more equal sample that is not reported: it is collected after the others, or
\* all of them are forgotten while they are fewer than a streak.
LEMMA TrailingStep ==
    ASSUME ShiftTypeOK, Collected, NEW x \in Times, Feed(x), Log(x, FALSE),
           Len(history) >= Warmup, FarOff(x, Base2, Jitter4),
           NEW m \in Nat, Trailing(x, m)
    PROVE  history' = history /\ Trailing(x, m + 1)'
  <1> DEFINE p == Append(candidates, x)
             n == Len(candidates)
  <1>1. /\ candidates \in Seq(Times) /\ n \in Nat /\ n < Streak /\ Streak \in Nat
        /\ p \in Seq(Times) /\ p # <<>> /\ Len(p) = n + 1
        /\ \A i \in 1..n : p[i] = candidates[i]
        /\ p[n + 1] = x
    <2>1. /\ candidates \in Seq(Times) /\ n \in Nat /\ p \in Seq(Times) /\ Len(p) = n + 1
      BY FeedSequences
    <2>2. p # <<>> /\ (\A i \in 1..n : p[i] = candidates[i]) /\ p[n + 1] = x
      BY <2>1
    <2>3. n < Streak /\ Streak \in Nat
      BY ShiftConstants DEF Collected
    <2> QED BY <2>1, <2>2, <2>3
  <1>2. /\ n >= m - Streak + 1
        /\ \A i \in 1..n : i > n - m => candidates[i] = x
    BY DEF Trailing
  <1>3. \A i \in 1..(n + 1) : i > n - m => p[i] = x
    <2> SUFFICES ASSUME NEW i \in 1..(n + 1), i > n - m PROVE p[i] = x
      OBVIOUS
    <2>1. CASE i = n + 1
      BY <1>1, <2>1
    <2>2. CASE i # n + 1
      <3>1. i \in 1..n
        BY <1>1, <2>2
      <3> QED BY <1>1, <1>2, <3>1
    <2> QED BY <2>1, <2>2
  <1>4. Candidate(x)
    BY FarOffCandidate
  <1>5. ~FeedShift(x)
    <2> SUFFICES ASSUME FeedShift(x) PROVE FALSE
      OBVIOUS
    <2>1. Log(x, TRUE)
      BY DEF FeedShift
    <2>2. log'[Len(log) + 1].hit = TRUE
      BY <2>1, LogStep
    <2>3. log'[Len(log) + 1].hit = FALSE
      BY LogStep
    <2> QED BY <2>2, <2>3
  <1>6. ~FeedWarmup(x) /\ ~FeedNormal(x)
    <2>1. ~(Len(history) < Warmup)
      BY ShiftConstants, FeedSequences
    <2> QED BY <1>4, <2>1 DEF FeedWarmup, FeedNormal
  <1>7. CASE FeedCollect(x)
    <2>1. history' = history /\ candidates' = p
      BY <1>7 DEF FeedCollect
    <2> HIDE DEF p
    <2>2. Len(candidates') = n + 1
      BY <1>1, <2>1
    <2>3. Len(candidates') >= (m + 1) - Streak + 1
      BY <1>1, <1>2, <2>2
    <2>4. ASSUME NEW i \in 1..Len(candidates'), i > Len(candidates') - (m + 1)
          PROVE  candidates'[i] = x
      <3>1. i \in 1..(n + 1) /\ i > n - m
        BY <1>1, <2>2, <2>4
      <3> QED BY <1>3, <2>1, <3>1
    <2> QED BY <2>1, <2>3, <2>4 DEF Trailing
  <1>8. ASSUME Completes(x), n <= m PROVE Spurious(p) = FALSE /\ Stable(p)
    <2>1. \A i \in 1..Len(p) : p[i] = x
      BY <1>1, <1>3, <1>8
    <2> HIDE DEF p
    <2>2. ~Spurious(p) /\ Stable(p)
      BY <1>1, <2>1, ConstantShift
    <2> QED BY <2>2
  <1>9. CASE FeedSpurious(x)
    <2>1. /\ history' = history /\ candidates' = <<>> /\ Spurious(p)
          /\ Completes(x) /\ n + 1 >= Streak
      BY <1>9 DEF FeedSpurious, Completes
    <2>2. m < n
      <3>1. ~(n <= m)
        BY <1>8, <2>1
      <3> QED BY <1>1, <3>1
    <2>3. Len(candidates') = 0
      BY <2>1
    <2>4. Len(candidates') >= (m + 1) - Streak + 1
      BY <1>1, <2>2, <2>3
    <2>5. 1..Len(candidates') = {}
      BY <2>3
    <2> QED BY <2>1, <2>4, <2>5 DEF Trailing
  <1>10. CASE FeedUnstable(x)
    <2>1. /\ history' = history /\ candidates' = Tail(p) /\ ~Stable(p)
          /\ Completes(x) /\ n + 1 >= Streak
      BY <1>10 DEF FeedUnstable, Completes
    <2>2. m < n
      <3>1. ~(n <= m)
        BY <1>8, <2>1
      <3> QED BY <1>1, <3>1
    <2> HIDE DEF p
    <2>3. Len(candidates') = n /\ \A i \in 1..n : candidates'[i] = p[i + 1]
      BY <1>1, <2>1
    <2>4. Len(candidates') >= (m + 1) - Streak + 1
      BY <1>1, <2>1, <2>2, <2>3
    <2>5. ASSUME NEW i \in 1..Len(candidates'), i > Len(candidates') - (m + 1)
          PROVE  candidates'[i] = x
      <3>1. i \in 1..n /\ i + 1 \in 1..(n + 1) /\ i + 1 > n - m
        BY <1>1, <2>3, <2>5
      <3> QED BY <1>3, <2>3, <3>1
    <2> QED BY <2>1, <2>4, <2>5 DEF Trailing
  <1> QED BY <1>5, <1>6, <1>7, <1>9, <1>10 DEF Feed

\* A route that has changed and was not reported is still being collected.
LEMMA UnfoundStep ==
    ASSUME ShiftTypeOK, Collected, WarmedUp, UnfoundCollected, NEW x \in Times, Feed(x)
    PROVE  UnfoundCollected'
  <1> SUFFICES ASSUME NEW j \in DOMAIN log', Unfound(j)'
               PROVE  /\ Len(history') >= Warmup /\ Base2' = log'[j].base2
                      /\ Jitter4' = log'[j].jitter4
                      /\ Trailing(log[j].rtt, Len(log) - j + 1)'
    BY DEF UnfoundCollected
  <1>1. /\ log' \in Seq([rtt : Times, base2 : Nat, jitter4 : Nat, hit : BOOLEAN])
        /\ Len(log) \in Nat /\ Len(log') = Len(log) + 1
        /\ \A i \in 1..Len(log) : log'[i] = log[i]
        /\ log'[Len(log) + 1].rtt = x /\ log'[Len(log) + 1].base2 = Base2
        /\ log'[Len(log) + 1].jitter4 = Jitter4
    BY Quiet, LogStep
  <1>2. j \in 1..(Len(log) + 1)
    BY <1>1
  <1>3. /\ j > Warmup /\ FarOff(log'[j].rtt, log'[j].base2, log'[j].jitter4)
        /\ \A i \in j..(Len(log) + 1) : log'[i].rtt = log'[j].rtt /\ ~log'[i].hit
    BY <1>1 DEF Unfound
  <1>4. log'[j].rtt = x /\ ~log'[Len(log) + 1].hit
    BY <1>1, <1>2, <1>3
  <1>5. Log(x, FALSE)
    BY <1>4, Quiet, LogStep
  <1>6. ASSUME NEW m \in Nat, m = Len(log) - j + 1, Len(history) >= Warmup,
               Base2 = log'[j].base2, Jitter4 = log'[j].jitter4, Trailing(x, m)
        PROVE  /\ Len(history') >= Warmup /\ Base2' = log'[j].base2
               /\ Jitter4' = log'[j].jitter4
               /\ Trailing(log[j].rtt, Len(log) - j + 1)'
    <2>1. FarOff(x, Base2, Jitter4)
      BY <1>3, <1>4, <1>6
    <2>2. history' = history /\ Trailing(x, m + 1)'
      BY <1>5, <1>6, <2>1, TrailingStep
    <2>3. Base2' = Base2 /\ Jitter4' = Jitter4
      BY <2>2 DEF Base2, Jitter4
    <2>4. Len(log') - j + 1 = m + 1
      BY <1>1, <1>2, <1>6
    <2> QED BY <1>4, <1>6, <2>2, <2>3, <2>4
  <1>7. CASE j = Len(log) + 1
    <2>1. Len(history) >= Warmup
      <3>1. Len(log) >= Warmup /\ Warmup \in Nat /\ Len(history) \in Nat
        BY <1>1, <1>3, <1>7, ShiftConstants, FeedSequences
      <3> QED BY <3>1 DEF WarmedUp
    <2>2. Trailing(x, 0)
      BY ShiftConstants, FeedSequences DEF Trailing
    <2>3. 0 = Len(log) - j + 1 /\ 0 \in Nat
      BY <1>1, <1>7
    <2> QED BY <1>1, <1>6, <1>7, <2>1, <2>2, <2>3
  <1>8. CASE j # Len(log) + 1
    <2>1. j \in 1..Len(log) /\ j \in DOMAIN log /\ log'[j] = log[j]
      <3>1. j \in 1..Len(log)
        BY <1>1, <1>2, <1>8
      <3>2. DOMAIN log = 1..Len(log)
        BY DEF ShiftTypeOK
      <3> QED BY <1>1, <3>1, <3>2
    <2>2. Unfound(j)
      <3>1. ASSUME NEW i \in j..Len(log) PROVE log[i].rtt = log[j].rtt /\ ~log[i].hit
        <4>1. i \in j..(Len(log) + 1) /\ i \in 1..Len(log)
          BY <1>1, <2>1
        <4> QED BY <1>1, <1>3, <2>1, <4>1
      <3> QED BY <1>3, <2>1, <3>1 DEF Unfound
    <2>3. /\ Len(history) >= Warmup /\ Base2 = log[j].base2 /\ Jitter4 = log[j].jitter4
          /\ Trailing(log[j].rtt, Len(log) - j + 1)
      BY <2>1, <2>2 DEF UnfoundCollected
    <2>4. Len(log) - j + 1 \in Nat
      BY <1>1, <2>1
    <2>5. Trailing(x, Len(log) - j + 1)
      BY <1>4, <2>1, <2>3
    <2> QED BY <1>6, <2>1, <2>3, <2>4, <2>5
  <1> QED BY <1>7, <1>8

\* The invariant holds before the first sample.
LEMMA ShiftStart ==
    ASSUME ShiftInit
    PROVE  ShiftInv
  <1>1. history = <<>> /\ candidates = <<>> /\ log = <<>>
    BY DEF ShiftInit
  <1>2. Len(<<>>) = 0 /\ DOMAIN <<>> = {}
    OBVIOUS
  <1>3. ShiftTypeOK
    BY <1>1 DEF ShiftTypeOK
  <1>4. Collected
    <2>1. Last(0) = {}
      BY <1>1, <1>2 DEF Last
    <2> QED BY <1>1, <1>2, <2>1, ShiftConstants DEF Collected
  <1>5. WarmedUp /\ ShiftGenuine /\ UnfoundCollected
    BY <1>1, <1>2 DEF WarmedUp, ShiftGenuine, UnfoundCollected
  <1> QED BY <1>3, <1>4, <1>5 DEF ShiftInv

\* Every call of Feed keeps it.
LEMMA ShiftStep ==
    ASSUME ShiftInv, [ShiftNext]_detector
    PROVE  ShiftInv'
  <1>1. CASE ShiftNext
    <2>1. PICK x \in Times : Feed(x)
      BY <1>1 DEF ShiftNext
    <2> QED BY <2>1, ShiftTypeStep, CollectedStep, WarmedUpStep, GenuineStep, UnfoundStep DEF ShiftInv
  <1>2. CASE UNCHANGED detector
    <2>1. history' = history /\ candidates' = candidates /\ log' = log
      BY <1>2 DEF detector
    <2>2. Base2' = Base2 /\ Jitter4' = Jitter4
      BY <2>1 DEF Base2, Jitter4
    <2>3. ShiftTypeOK'
      BY <2>1 DEF ShiftInv, ShiftTypeOK
    <2>4. Collected' /\ WarmedUp' /\ ShiftGenuine'
      BY <2>1, <2>2 DEF ShiftInv, Collected, WarmedUp, ShiftGenuine, Last
    <2>5. UnfoundCollected'
      BY <2>1, <2>2 DEF ShiftInv, UnfoundCollected, Unfound, Trailing
    <2> QED BY <2>3, <2>4, <2>5 DEF ShiftInv
  <1> QED BY <1>1, <1>2

\* The detector's invariant: what is collected are the last samples, far from the
\* baseline, and a route that changed for good is among them.
THEOREM ShiftInvariant == ShiftSpec => []ShiftInv
  <1>1. ShiftInit => ShiftInv
    BY ShiftStart
  <1>2. ShiftInv /\ [ShiftNext]_detector => ShiftInv'
    BY ShiftStep
  <1> QED BY <1>1, <1>2, PTL DEF ShiftSpec

\* Feed says TRUE only when each of the last Streak samples was 25 ms or more from
\* the baseline (its comment: "only when a genuine, persistent" shift).
THEOREM ShiftIsGenuine == ShiftSpec => []ShiftGenuine
  <1>1. ShiftInv => ShiftGenuine
    BY DEF ShiftInv
  <1> QED BY <1>1, ShiftInvariant, PTL

\* A route that changes for good is reported within 2 * Streak - 1 samples: after
\* so many, a full streak of them would still be waiting to be judged.
THEOREM ShiftIsFound == ShiftSpec => []ShiftFound
  <1>1. ShiftInv => ShiftFound
    <2> SUFFICES ASSUME ShiftInv, ~ShiftFound PROVE FALSE
      OBVIOUS
    <2> DEFINE j == Len(log) - 2 * Streak + 2
    <2>1. /\ Len(log) >= Warmup + 2 * Streak - 1
          /\ \A i \in Last(2 * Streak - 1) : log[i].rtt = log[j].rtt /\ ~log[i].hit
          /\ Distance(2 * log[j].rtt, log[j].base2) >= 80
          /\ 2 * Distance(2 * log[j].rtt, log[j].base2) >= 3 * log[j].jitter4
      BY DEF ShiftFound
    <2>2. Len(log) \in Nat /\ DOMAIN log = 1..Len(log) /\ Len(candidates) \in Nat
      BY DEF ShiftInv, ShiftTypeOK
    <2>3. j \in DOMAIN log /\ j > Warmup /\ Last(2 * Streak - 1) = j..Len(log)
      BY <2>1, <2>2, ShiftConstants DEF Last
    <2>4. Len(log) - j + 1 = 2 * Streak - 1
      BY <2>2, ShiftConstants
    <2> HIDE DEF j
    <2>5. Unfound(j)
      BY <2>1, <2>3 DEF Unfound, FarOff
    <2>6. Trailing(log[j].rtt, 2 * Streak - 1)
      BY <2>3, <2>4, <2>5 DEF ShiftInv, UnfoundCollected
    <2>7. Len(candidates) >= 2 * Streak - 1 - Streak + 1
      BY <2>6 DEF Trailing
    <2>8. Len(candidates) < Streak
      BY DEF ShiftInv, Collected
    <2> QED BY <2>2, <2>7, <2>8, ShiftConstants
  <1> QED BY <1>1, ShiftInvariant, PTL

-----------------------------------------------------------------------------
(* The probe's executable and the ways its process ends                        *)

\* What is known of the releases and of an attempt at rest.
LEMMA RestartFacts ==
    /\ MaxRelease \in Nat /\ Releases \subseteq Nat /\ Releases \subseteq Contents
    /\ Releases \subseteq Images
    /\ Rest \in Attempt /\ Rest.pc = "idle" /\ Partial \in Contents /\ NoFile \in Contents
    /\ 0 \in Contents /\ Timer \in Updaters /\ Hooks \subseteq Updaters
  <1>1. /\ MaxRelease \in Nat /\ Releases \subseteq Nat /\ Releases \subseteq Contents
        /\ Releases \subseteq Images
        /\ Partial \in Contents /\ NoFile \in Contents /\ 0 \in Contents
    BY RestartConstants DEF Releases, Images, Contents, Partial, NoFile
  <1>2. Rest \in Attempt /\ Rest.pc = "idle"
    BY <1>1 DEF Rest, Attempt
  <1>3. Timer \in Updaters /\ Hooks \subseteq Updaters
    BY DEF Updaters
  <1> QED
    BY <1>1, <1>2, <1>3

\* Every probe starts with a whole image on its disk, and nothing under way.
LEMMA RestartStart == RestartInit => RestartInv
  <1> SUFFICES ASSUME RestartInit PROVE RestartInv
    OBVIOUS
  <1>1. published \in Releases /\ ExecutableWhole
    BY RestartConstants DEF RestartInit, ExecutableWhole, Releases, Images
  <1>2. AttemptsWhole
    BY RestartFacts DEF RestartInit, AttemptsWhole
  <1>3. Marked
    BY RestartFacts DEF RestartInit, Marked
  <1>4. EndsAsFailure
    BY DEF RestartInit, EndsAsFailure
  <1> QED
    BY <1>1, <1>2, <1>3, <1>4 DEF RestartInv

\* What the Host, the link and the readers do touches none of it.
LEMMA RestartQuiet ==
    ASSUME RestartInv, published' = published, UNCHANGED <<disk, goro, proc, failed, signalled, execFailed>>,
           UNCHANGED flagVars
    PROVE  RestartInv'
  <1>1. AttemptsWhole'
    BY DEF RestartInv, AttemptsWhole
  <1>2. Marked'
    BY DEF RestartInv, Marked, flagVars
  <1> QED
    BY <1>1, <1>2 DEF RestartInv, ExecutableWhole, EndsAsFailure

\* One updater moves on: to a state in which it knows what the invariant asks.
LEMMA UpdaterMoves ==
    ASSUME RestartInv, NEW u \in Updaters, NEW r \in Attempt, goro' = [goro EXCEPT ![u] = r],
           r.pc \in {"download", "write", "writing", "rename", "copy"} => r.v \in Releases,
           r.pc \in {"rename", "copy"} => r.tmp = r.v
    PROVE  AttemptsWhole'
  <1>1. goro \in [Updaters -> Attempt]
    BY DEF RestartInv, AttemptsWhole
  <1>2. /\ goro' \in [Updaters -> Attempt] /\ goro'[u] = r
        /\ \A w \in Updaters \ {u} : goro'[w] = goro[w]
    BY <1>1
  <1> QED
    BY <1>2 DEF RestartInv, AttemptsWhole

\* An updater that has only itself changed, and not set its mark.
LEMMA UpdaterSteps ==
    ASSUME RestartInv, NEW u \in Updaters, NEW r \in Attempt, Set(u, r), OnlyGoro,
           r.pc \in {"download", "write", "writing", "rename", "copy"} => r.v \in Releases,
           r.pc \in {"rename", "copy"} => r.tmp = r.v,
           r.pc # "marked"
    PROVE  RestartInv'
  <1>1. goro' = [goro EXCEPT ![u] = r]
    BY DEF Set
  <1>2. AttemptsWhole'
    BY <1>1, UpdaterMoves
  <1>3. /\ UNCHANGED <<disk, published, proc, failed, signalled, execFailed>>
        /\ UNCHANGED <<updating, softExit, softHook, cancelled>>
    BY DEF OnlyGoro, machineVars, flagVars
  <1>4. \A w \in Updaters : goro'[w].pc = "marked" => goro[w].pc = "marked"
    BY <1>1 DEF RestartInv, AttemptsWhole
  <1>5. Marked'
    BY <1>3, <1>4 DEF RestartInv, Marked
  <1> QED
    BY <1>2, <1>3, <1>5 DEF RestartInv, ExecutableWhole, EndsAsFailure

\* The steps of an attempt before its file is put in place.
LEMMA AttemptGoesOn ==
    ASSUME RestartInv, NEW u \in Updaters,
           \/ AutoCheck \/ FetchLatestVersion(u) \/ DownloadAndVerify(u) \/ CreateTemp(u)
           \/ WriteTemp(u) \/ RenameFails(u) \/ UpdateFails(u) \/ SendUpdateResult(u)
    PROVE  RestartInv'
  <1>0. goro[u] \in Attempt /\ Rest \in Attempt /\ Rest.pc = "idle"
    BY RestartFacts DEF RestartInv, AttemptsWhole
  <1>1. CASE AutoCheck
    <2> DEFINE r == [Rest EXCEPT !.pc = "fetch"]
    <2>1. r \in Attempt /\ r.pc = "fetch"
      BY <1>0 DEF Attempt
    <2>2. Set(Timer, r) /\ OnlyGoro
      BY <1>1 DEF AutoCheck, Set
    <2> HIDE DEF r
    <2> QED
      BY <2>1, <2>2, RestartFacts, UpdaterSteps
  <1>2. CASE FetchLatestVersion(u)
    <2>1. PICK v \in 1 .. published :
             Set(u, IF NeedsUpdate(u, v) THEN [Rest EXCEPT !.pc = "download", !.v = v] ELSE Rest)
      BY <1>2 DEF FetchLatestVersion
    <2>2. v \in Releases
      BY RestartConstants DEF RestartInv, Releases
    <2> DEFINE r == [Rest EXCEPT !.pc = "download", !.v = v]
    <2>3. r \in Attempt /\ r.pc = "download" /\ r.v = v
      BY <1>0, <2>2, RestartFacts DEF Attempt
    <2>4. OnlyGoro
      BY <1>2 DEF FetchLatestVersion
    <2>5. Set(u, r) \/ Set(u, Rest)
      BY <2>1
    <2> HIDE DEF r
    <2> QED
      BY <1>0, <2>2, <2>3, <2>4, <2>5, UpdaterSteps
  <1>3. CASE DownloadAndVerify(u)
    <2> DEFINE r == [goro[u] EXCEPT !.pc = "write", !.v = goro[u].v]
    <2>1. Set(u, r) /\ OnlyGoro /\ goro[u].v \in Releases
      BY <1>3 DEF DownloadAndVerify, Verified, RestartInv, AttemptsWhole
    <2>2. r \in Attempt /\ r.pc = "write" /\ r.v \in Releases
      BY <1>0, <2>1, RestartFacts DEF Attempt
    <2> HIDE DEF r
    <2> QED
      BY <2>1, <2>2, UpdaterSteps
  <1>4. CASE CreateTemp(u)
    <2> DEFINE r == [goro[u] EXCEPT !.pc = "writing", !.tmp = Partial]
    <2>1. Set(u, r) /\ OnlyGoro /\ goro[u].v \in Releases
      BY <1>4 DEF CreateTemp, RestartInv, AttemptsWhole
    <2>2. r \in Attempt /\ r.pc = "writing" /\ r.v \in Releases
      BY <1>0, <2>1, RestartFacts DEF Attempt
    <2> HIDE DEF r
    <2> QED
      BY <2>1, <2>2, UpdaterSteps
  <1>5. CASE WriteTemp(u)
    <2> DEFINE r == [goro[u] EXCEPT !.pc = "rename", !.tmp = goro[u].v]
    <2>1. Set(u, r) /\ OnlyGoro /\ goro[u].v \in Releases
      BY <1>5 DEF WriteTemp, RestartInv, AttemptsWhole
    <2>2. r \in Attempt /\ r.pc = "rename" /\ r.v \in Releases /\ r.tmp = r.v
      BY <1>0, <2>1, RestartFacts DEF Attempt
    <2> HIDE DEF r
    <2> QED
      BY <2>1, <2>2, UpdaterSteps
  <1>6. CASE RenameFails(u)
    <2> DEFINE r == [goro[u] EXCEPT !.pc = "copy"]
    <2>1. Set(u, r) /\ OnlyGoro /\ goro[u].v \in Releases /\ goro[u].tmp = goro[u].v
      BY <1>6 DEF RenameFails, RestartInv, AttemptsWhole
    <2>2. r \in Attempt /\ r.pc = "copy" /\ r.v \in Releases /\ r.tmp = r.v
      BY <1>0, <2>1, RestartFacts DEF Attempt
    <2> HIDE DEF r
    <2> QED
      BY <2>1, <2>2, UpdaterSteps
  <1>7. CASE UpdateFails(u)
    <2>1. Set(u, Rest) /\ OnlyGoro
      BY <1>7 DEF UpdateFails
    <2> QED
      BY <1>0, <2>1, UpdaterSteps
  <1>8. CASE SendUpdateResult(u)
    <2> DEFINE r == [goro[u] EXCEPT !.pc = "told"]
    <2>1. Set(u, r) /\ OnlyGoro
      BY <1>8 DEF SendUpdateResult
    <2>2. r \in Attempt /\ r.pc = "told"
      BY <1>0 DEF Attempt
    <2> HIDE DEF r
    <2> QED
      BY <2>1, <2>2, UpdaterSteps
  <1> QED
    BY <1>1, <1>2, <1>3, <1>4, <1>5, <1>6, <1>7, <1>8

\* Only a whole release is renamed over the executable.
LEMMA AttemptInstalls ==
    ASSUME RestartInv, NEW u \in Updaters, Rename(u) \/ CopyFileAtomic(u)
    PROVE  RestartInv'
  <1> DEFINE r == [Rest EXCEPT !.pc = "installed"]
  <1>1. /\ Set(u, r) /\ disk' = goro[u].tmp /\ goro[u].pc \in {"rename", "copy"}
        /\ UNCHANGED <<published, proc, failed, signalled, execFailed>>
        /\ UNCHANGED <<updating, softExit, softHook, cancelled>>
    BY DEF Rename, CopyFileAtomic, flagVars
  <1>2. disk' \in Images
    BY <1>1, RestartFacts DEF RestartInv, AttemptsWhole
  <1>4. r \in Attempt /\ r.pc = "installed"
    BY RestartFacts DEF Attempt
  <1> HIDE DEF r
  <1>5. goro' = [goro EXCEPT ![u] = r]
    BY <1>1 DEF Set
  <1>6. AttemptsWhole'
    BY <1>4, <1>5, UpdaterMoves
  <1>7. \A w \in Updaters : goro'[w].pc = "marked" => goro[w].pc = "marked"
    BY <1>4, <1>5 DEF RestartInv, AttemptsWhole
  <1>8. Marked'
    BY <1>1, <1>7 DEF RestartInv, Marked
  <1> QED
    BY <1>1, <1>2, <1>6, <1>8 DEF RestartInv, ExecutableWhole, EndsAsFailure

\* The mark comes before the cancellation.
LEMMA AttemptMarks ==
    ASSUME RestartInv, NEW u \in Updaters, MarkUpdating(u) \/ Cancel(u)
    PROVE  RestartInv'
  <1>0. goro[u] \in Attempt /\ Rest \in Attempt /\ Rest.pc = "idle"
    BY RestartFacts DEF RestartInv, AttemptsWhole
  <1>1. CASE MarkUpdating(u)
    <2> DEFINE r == [goro[u] EXCEPT !.pc = "marked"]
    <2>1. /\ Set(u, r) /\ updating' = TRUE /\ UNCHANGED <<softExit, softHook, cancelled>>
          /\ UNCHANGED <<disk, published, proc, failed, signalled, execFailed>>
      BY <1>1 DEF MarkUpdating, machineVars
    <2>2. r \in Attempt /\ r.pc = "marked"
      BY <1>0 DEF Attempt
    <2> HIDE DEF r
    <2>3. goro' = [goro EXCEPT ![u] = r]
      BY <2>1 DEF Set
    <2>4. AttemptsWhole'
      BY <2>2, <2>3, UpdaterMoves
    <2>5. Marked'
      BY <2>1 DEF RestartInv, Marked
    <2> QED
      BY <2>1, <2>4, <2>5 DEF RestartInv, ExecutableWhole, EndsAsFailure
  <1>2. CASE Cancel(u)
    <2> DEFINE r == IF u = Timer THEN [Rest EXCEPT !.pc = "ended"] ELSE Rest
    <2>1. /\ Set(u, r) /\ cancelled' = TRUE /\ UNCHANGED <<softExit, softHook, updating>>
          /\ UNCHANGED <<disk, published, proc, failed, signalled, execFailed>> /\ goro[u].pc = "marked"
      BY <1>2 DEF Cancel, Set, machineVars
    <2>2. r \in Attempt /\ r.pc \in {"idle", "ended"}
      BY <1>0 DEF Attempt
    <2> HIDE DEF r
    <2>3. goro' = [goro EXCEPT ![u] = r]
      BY <2>1 DEF Set
    <2>4. AttemptsWhole'
      BY <2>2, <2>3, UpdaterMoves
    <2>5. \A w \in Updaters : goro'[w].pc = "marked" => goro[w].pc = "marked"
      BY <2>2, <2>3 DEF RestartInv, AttemptsWhole
    <2>6. updating
      BY <2>1 DEF RestartInv, Marked
    <2>7. Marked'
      BY <2>1, <2>5, <2>6 DEF RestartInv, Marked
    <2> QED
      BY <2>1, <2>4, <2>7 DEF RestartInv, ExecutableWhole, EndsAsFailure
  <1> QED
    BY <1>1, <1>2

\* A process that ends, or another that begins, leaves no updater and no mark.
LEMMA ProcessReplaced ==
    ASSUME RestartInv, goro' = [u \in Updaters |-> Rest], NoFlags,
           proc' \in {"up", "down"}, UNCHANGED <<disk, published, signalled>>,
           failed' \in BOOLEAN, proc' = "down" /\ ~signalled /\ ~execFailed' => failed'
    PROVE  RestartInv'
  <1>1. AttemptsWhole'
    BY RestartFacts DEF AttemptsWhole
  <1>2. Marked'
    BY RestartFacts DEF RestartInv, Marked, NoFlags
  <1> QED
    BY <1>1, <1>2 DEF RestartInv, ExecutableWhole, EndsAsFailure

\* What the probe does with a message.
LEMMA ProbeTakes ==
    ASSUME RestartInv, NEW m \in Messages, Receive(m)
    PROVE  RestartInv'
  <1>0. UNCHANGED <<disk, signalled, published, execFailed>>
    BY DEF Receive
  <1>1. HandleSoftExit \/ HandleUpdateCheck \/ HandleTargetSync
    BY DEF Receive, Messages
  <1>2. CASE HandleSoftExit
    <2>1. /\ UNCHANGED <<proc, updating, cancelled, goro, failed>>
          /\ \/ softExit' = TRUE /\ softHook' = TRUE
             \/ UNCHANGED <<softExit, softHook>>
      BY <1>2 DEF HandleSoftExit
    <2>2. AttemptsWhole'
      BY <2>1 DEF RestartInv, AttemptsWhole
    <2>3. ASSUME softExit' = TRUE, softHook' = TRUE PROVE Marked'
      BY <1>0, <2>1, <2>3 DEF RestartInv, Marked
    <2>4. CASE UNCHANGED <<softExit, softHook>>
      BY <1>0, <2>1, <2>4, RestartQuiet DEF flagVars
    <2>5. Marked'
      BY <2>1, <2>3, <2>4 DEF RestartInv
    <2> QED
      BY <1>0, <2>1, <2>2, <2>5 DEF RestartInv, ExecutableWhole, EndsAsFailure
  <1>3. CASE HandleUpdateCheck
    <2>1. UNCHANGED <<proc, failed>> /\ UNCHANGED flagVars
      BY <1>3 DEF HandleUpdateCheck
    <2>2. CASE UNCHANGED goro
      BY <1>0, <2>1, <2>2, RestartQuiet
    <2>3. ASSUME NEW u \in Hooks, goro' = [goro EXCEPT ![u].pc = "fetch"]
          PROVE  RestartInv'
      <3> DEFINE r == [goro[u] EXCEPT !.pc = "fetch"]
      <3>1. u \in Updaters
        BY RestartFacts
      <3>2. goro[u] \in Attempt
        BY <3>1 DEF RestartInv, AttemptsWhole
      <3>3. r \in Attempt /\ r.pc = "fetch" /\ goro' = [goro EXCEPT ![u] = r]
        BY <2>3, <3>2 DEF Attempt
      <3> HIDE DEF r
      <3>4. AttemptsWhole'
        BY <3>1, <3>3, UpdaterMoves
      <3>5. \A w \in Updaters : goro'[w].pc = "marked" => goro[w].pc = "marked"
        BY <3>1, <3>3 DEF RestartInv, AttemptsWhole
      <3>6. Marked'
        BY <1>0, <2>1, <3>5 DEF RestartInv, Marked, flagVars
      <3> QED
        BY <1>0, <2>1, <3>4, <3>6 DEF RestartInv, ExecutableWhole, EndsAsFailure
    <2> QED
      BY <1>3, <2>2, <2>3 DEF HandleUpdateCheck
  <1>4. CASE HandleTargetSync
    <2>1. CASE Ended /\ failed' = TRUE
      BY <1>0, <2>1, ProcessReplaced DEF Ended
    <2>2. CASE UNCHANGED <<proc, failed, linked, wired, goro, flagVars>>
      BY <1>0, <2>2, RestartQuiet
    <2> QED
      BY <1>4, <2>1, <2>2 DEF HandleTargetSync
  <1> QED
    BY <1>1, <1>2, <1>3, <1>4

\* main's way out, and what stands around the process.
LEMMA MainMoves ==
    ASSUME RestartInv, MainStep \/ Signal \/ Killed \/ Supervise \/ Publish
    PROVE  RestartInv'
  <1>1. CASE SoftExitCancels
    <2>1. /\ softHook /\ softHook' = FALSE /\ cancelled' = TRUE
          /\ UNCHANGED <<proc, updating, softExit, goro>>
          /\ UNCHANGED <<disk, published, failed, signalled, execFailed>>
      BY <1>1 DEF SoftExitCancels, machineVars
    <2>2. AttemptsWhole'
      BY <2>1 DEF RestartInv, AttemptsWhole
    <2>3. Marked'
      BY <2>1 DEF RestartInv, Marked
    <2> QED
      BY <2>1, <2>2, <2>3 DEF RestartInv, ExecutableWhole, EndsAsFailure
  <1>2. CASE Shutdown
    <2>1. /\ cancelled \/ signalled
          /\ proc' = "stopping" /\ cancelled' = TRUE
          /\ UNCHANGED <<updating, softExit, softHook, goro>>
          /\ UNCHANGED <<disk, published, failed, signalled, execFailed>>
      BY <1>2 DEF Shutdown, machineVars
    <2>2. AttemptsWhole'
      BY <2>1 DEF RestartInv, AttemptsWhole
    <2>3. Marked'
      BY <2>1 DEF RestartInv, Marked
    <2> QED
      BY <2>1, <2>2, <2>3 DEF RestartInv, ExecutableWhole, EndsAsFailure
  <1>3. CASE ExecNew \/ Supervise
    <2>1. Run /\ UNCHANGED <<disk, signalled, published>>
      BY <1>3 DEF ExecNew, Supervise
    <2> QED
      BY <2>1, ProcessReplaced DEF Run
  <1>7. CASE ExecFails
    BY <1>7, ProcessReplaced DEF ExecFails, Ended
  <1>4. CASE Exit
    <2>1. /\ Ended /\ failed' = softExit /\ ~updating /\ proc = "stopping"
          /\ UNCHANGED <<disk, published, signalled>>
      BY <1>4 DEF Exit
    <2>2. softExit \in BOOLEAN /\ (~signalled => softExit)
      BY <2>1 DEF RestartInv, Marked
    <2> QED
      BY <2>1, <2>2, ProcessReplaced DEF Ended
  <1>5. CASE Signal
    <2>1. /\ signalled' = TRUE /\ UNCHANGED <<updating, softExit, softHook, cancelled>>
          /\ UNCHANGED <<disk, published, failed, goro, proc, execFailed>>
      BY <1>5 DEF Signal, flagVars
    <2>2. AttemptsWhole'
      BY <2>1 DEF RestartInv, AttemptsWhole
    <2>3. Marked'
      BY <2>1 DEF RestartInv, Marked
    <2> QED
      BY <2>1, <2>2, <2>3 DEF RestartInv, ExecutableWhole, EndsAsFailure
  <1>6. CASE Killed
    BY <1>6, ProcessReplaced DEF Killed, Ended
  <1>8. CASE Publish
    <2>1. published' \in Releases
      BY <1>8, RestartConstants DEF Publish, RestartInv, Releases
    <2>2. UNCHANGED <<disk, goro, proc, failed, signalled, execFailed>> /\ UNCHANGED flagVars
      BY <1>8 DEF Publish
    <2>3. AttemptsWhole'
      BY <2>2 DEF RestartInv, AttemptsWhole
    <2>4. Marked'
      BY <2>2 DEF RestartInv, Marked, flagVars
    <2> QED
      BY <2>1, <2>2, <2>3, <2>4 DEF RestartInv, ExecutableWhole, EndsAsFailure
  <1> QED
    BY <1>1, <1>2, <1>3, <1>4, <1>5, <1>6, <1>7, <1>8 DEF MainStep

\* The invariant is inductive.
LEMMA RestartStep == RestartInv /\ [RestartNext]_restartVars => RestartInv'
  <1> SUFFICES ASSUME RestartInv, [RestartNext]_restartVars PROVE RestartInv'
    OBVIOUS
  <1>1. CASE \/ RestartLook \/ UpdateCheck \/ HostStep \/ Connect \/ LinkLost \/ AgentNotices
             \/ UNCHANGED restartVars
    <2>1. published' = published /\ UNCHANGED <<disk, goro, proc, failed, signalled, execFailed>>
      BY <1>1 DEF RestartLook, UpdateCheck, HostStep, RestartSend, RestartGone, RestartEscalate,
                  HostNotices, Connect, LinkLost, AgentNotices, restartVars, machineVars
    <2>2. UNCHANGED flagVars
      BY <1>1 DEF RestartLook, UpdateCheck, HostStep, RestartSend, RestartGone, RestartEscalate,
                  HostNotices, Connect, LinkLost, AgentNotices, restartVars
    <2> QED
      BY <2>1, <2>2, RestartQuiet
  <1>2. CASE \E m \in Messages : Receive(m)
    BY <1>2, ProbeTakes
  <1>3. CASE AutoCheck
    BY <1>3, RestartFacts, AttemptGoesOn
  <1>4. ASSUME NEW u \in Updaters, UpdateStep(u) PROVE RestartInv'
    BY <1>4, AttemptGoesOn, AttemptInstalls, AttemptMarks DEF UpdateStep
  <1>5. CASE MainStep \/ Signal \/ Killed \/ Supervise \/ Publish
    BY <1>5, MainMoves
  <1> QED
    BY <1>1, <1>2, <1>3, <1>4, <1>5 DEF RestartNext

\* The invariant holds in every reachable state, however many updaters run at
\* once and however many releases are published.
THEOREM RestartInvariant == RestartSpec => []RestartInv
  BY RestartStart, RestartStep, PTL DEF RestartSpec

\* The executable's path always holds a complete image, whatever kills the
\* process in the middle of an update (updater.go, ReplaceCurrentExecutable).
THEOREM RestartExecutableWhole == RestartSpec => []ExecutableWhole
  <1>1. RestartInv => ExecutableWhole
    BY DEF RestartInv
  <1> QED
    BY RestartInvariant, <1>1, PTL

\* A process that no operator stopped exits 0 in one case only, an update whose
\* new image could not be executed: every other end is a failure, which the
\* supervisor answers with a new process (main.go, the end of main).
THEOREM RestartEndsAsFailure == RestartSpec => []EndsAsFailure
  <1>1. RestartInv => EndsAsFailure
    BY DEF RestartInv
  <1> QED
    BY RestartInvariant, <1>1, PTL
=============================================================================
