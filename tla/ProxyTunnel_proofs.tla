------------------------ MODULE ProxyTunnel_proofs ------------------------
(***************************************************************************)
(* One proxy tunnel is the pair of pipes its client was promised:          *)
(* ProxyTunnel implements TunnelPipe, for any number of chunks and any     *)
(* capacity of the two queues.                                             *)
(***************************************************************************)
EXTENDS ProxyTunnel, TLAPS

-----------------------------------------------------------------------------
(* Queues                                                                     *)

\* What a queue holds once something is appended to it.
LEMMA Appended ==
    ASSUME NEW S, NEW q \in Seq(S), NEW x \in S
    PROVE  /\ Append(q, x) \in Seq(S) /\ Len(Append(q, x)) = Len(q) + 1 /\ Len(q) \in Nat
           /\ \A i \in 1..Len(q) : Append(q, x)[i] = q[i]
           /\ Append(q, x)[Len(q) + 1] = x
  OBVIOUS

\* What a queue holds once its head is taken.
LEMMA Taken ==
    ASSUME NEW S, NEW q \in Seq(S), q # <<>>
    PROVE  /\ Tail(q) \in Seq(S) /\ Len(Tail(q)) = Len(q) - 1 /\ Len(q) \in Nat \ {0}
           /\ \A i \in 1..(Len(q) - 1) : Tail(q)[i] = q[i + 1]
           /\ Head(q) = q[1] /\ Head(q) \in S
  OBVIOUS

\* Nothing is queued in an empty queue.
LEMMA Emptied ==
    ASSUME NEW S
    PROVE  <<>> \in Seq(S) /\ Len(<<>>) = 0
  OBVIOUS

\* A prefix without a close, in a queue that grew.
LEMMA NoCloseAppended ==
    ASSUME NEW q \in Seq(Message), NEW x \in Message
    PROVE  /\ \A n \in 0..Len(q) : NoClose(Append(q, x), n) <=> NoClose(q, n)
           /\ NoClose(Append(q, x), Len(q) + 1) <=> (NoClose(q, Len(q)) /\ x.kind # "close")
  <1> DEFINE r == Append(q, x)
  <1>1. /\ Len(q) \in Nat /\ \A i \in 1..Len(q) : r[i] = q[i]
        /\ r[Len(q) + 1] = x
    BY Appended
  <1> HIDE DEF r
  <1>2. ASSUME NEW n \in 0..Len(q) PROVE NoClose(r, n) <=> NoClose(q, n)
    BY <1>1 DEF NoClose
  <1>3. NoClose(r, Len(q) + 1) => NoClose(q, Len(q)) /\ x.kind # "close"
    BY <1>1 DEF NoClose
  <1>4. ASSUME NoClose(q, Len(q)), x.kind # "close" PROVE NoClose(r, Len(q) + 1)
    <2> SUFFICES ASSUME NEW j \in 1..(Len(q) + 1) PROVE r[j].kind # "close"
      BY DEF NoClose
    <2>1. j \in 1..Len(q) \/ j = Len(q) + 1
      BY <1>1
    <2> QED
      BY <1>1, <1>4, <2>1 DEF NoClose
  <1> QED
    BY <1>2, <1>3, <1>4 DEF r

\* A prefix without a close, in a queue whose head was taken.
LEMMA NoCloseTaken ==
    ASSUME NEW q \in Seq(Message), q # <<>>, q[1].kind # "close", NEW n \in 0..(Len(q) - 1)
    PROVE  NoClose(Tail(q), n) <=> NoClose(q, n + 1)
  <1>1. /\ Len(q) \in Nat \ {0} /\ \A i \in 1..(Len(q) - 1) : Tail(q)[i] = q[i + 1]
    BY Taken
  <1>2. ASSUME NoClose(q, n + 1), NEW j \in 1..n PROVE Tail(q)[j].kind # "close"
    <2>1. j + 1 \in 1..(n + 1) /\ Tail(q)[j] = q[j + 1]
      BY <1>1
    <2> QED
      BY <1>2, <2>1 DEF NoClose
  <1>3. ASSUME NoClose(Tail(q), n), NEW j \in 1..(n + 1) PROVE q[j].kind # "close"
    <2>1. CASE j = 1
      BY <2>1
    <2>2. CASE j # 1
      <3>1. j - 1 \in 1..n /\ (j - 1) + 1 = j /\ j - 1 \in 1..(Len(q) - 1)
        BY <1>1, <2>2
      <3>2. Tail(q)[j - 1] = q[j]
        BY <1>1, <3>1
      <3> QED
        BY <1>3, <3>1, <3>2 DEF NoClose
    <2> QED
      BY <2>1, <2>2
  <1> QED
    BY <1>2, <1>3 DEF NoClose

\* A chunk sent in its turn, or a close, keeps the order of a link.
LEMMA FollowsAppended ==
    ASSUME NEW q \in Seq(Message), NEW x \in Message, NEW u \in 0..1, NEW n \in Nat,
           Follows(q, u, n), u <= Len(q),
           x.kind = "close" \/ (NoClose(q, Len(q)) => x.chunk = n + Len(q) + 1 - u)
    PROVE  Follows(Append(q, x), u, n)
  <1> DEFINE r == Append(q, x)
  <1>1. /\ Len(q) \in Nat /\ \A i \in 1..Len(q) : r[i] = q[i]
        /\ r[Len(q) + 1] = x /\ Len(r) = Len(q) + 1
    BY Appended
  <1>2. /\ \A i \in 0..Len(q) : NoClose(r, i) <=> NoClose(q, i)
        /\ NoClose(r, Len(q) + 1) <=> (NoClose(q, Len(q)) /\ x.kind # "close")
    BY NoCloseAppended
  <1> HIDE DEF r
  <1>3. ASSUME NEW i \in 1..Len(r), i > u, NoClose(r, i) PROVE r[i].chunk = n + i - u
    <2>1. i \in 1..Len(q) \/ i = Len(q) + 1
      BY <1>1
    <2>2. CASE i \in 1..Len(q)
      BY <1>1, <1>2, <1>3, <2>2 DEF Follows
    <2>3. CASE i = Len(q) + 1
      <3>1. NoClose(q, Len(q)) /\ x.kind # "close"
        BY <1>2, <1>3, <2>3
      <3>2. x.chunk = n + Len(q) + 1 - u
        BY <3>1
      <3>3. n + Len(q) + 1 - u = n + i - u
        BY <1>1, <2>3
      <3> QED
        BY <1>1, <2>3, <3>2, <3>3
    <2> QED
      BY <2>1, <2>2, <2>3
  <1> QED
    BY <1>3 DEF Follows, r

\* A chunk taken from a link is the next one, and the others follow it.
LEMMA FollowsTaken ==
    ASSUME NEW q \in Seq(Message), q # <<>>, q[1].kind # "close", NEW n \in Nat,
           Follows(q, 0, n)
    PROVE  q[1].chunk = n + 1 /\ Follows(Tail(q), 0, n + 1)
  <1>1. /\ Len(q) \in Nat \ {0} /\ \A i \in 1..(Len(q) - 1) : Tail(q)[i] = q[i + 1]
        /\ Len(Tail(q)) = Len(q) - 1
    BY Taken
  <1>2. NoClose(q, 1)
    BY DEF NoClose
  <1>3. q[1].chunk = n + 1
    BY <1>1, <1>2 DEF Follows
  <1>4. ASSUME NEW i \in 1..(Len(q) - 1), NoClose(Tail(q), i) PROVE Tail(q)[i].chunk = n + 1 + i - 0
    <2>1. NoClose(q, i + 1) /\ i + 1 \in 1..Len(q) /\ i + 1 > 0
      BY <1>1, <1>4, NoCloseTaken
    <2> QED
      BY <1>1, <2>1 DEF Follows
  <1> QED
    BY <1>1, <1>3, <1>4 DEF Follows

\* The answer, taken from the link, leaves the chunks in their places.
LEMMA FollowsAnswered ==
    ASSUME NEW q \in Seq(Message), q # <<>>, q[1].kind # "close", NEW n \in Nat,
           Follows(q, 1, n)
    PROVE  Follows(Tail(q), 0, n)
  <1>1. /\ Len(q) \in Nat \ {0} /\ \A i \in 1..(Len(q) - 1) : Tail(q)[i] = q[i + 1]
        /\ Len(Tail(q)) = Len(q) - 1
    BY Taken
  <1>4. ASSUME NEW i \in 1..(Len(q) - 1), NoClose(Tail(q), i) PROVE Tail(q)[i].chunk = n + i - 0
    <2>1. NoClose(q, i + 1) /\ i + 1 \in 1..Len(q) /\ i + 1 > 1
      BY <1>1, <1>4, NoCloseTaken
    <2> QED
      BY <1>1, <2>1 DEF Follows
  <1> QED
    BY <1>1, <1>4 DEF Follows

\* The place of the close, when its link grows or is read.
LEMMA ClosesAppended ==
    ASSUME NEW q \in Seq(Message), NEW x \in Message, NEW u \in 0..1, NEW n \in Nat, NEW t \in Nat,
           ClosesAt(q, u, n, t), x.kind = "close" => t = n + Len(q) - u
    PROVE  ClosesAt(Append(q, x), u, n, t)
  <1> DEFINE r == Append(q, x)
  <1>1. /\ Len(q) \in Nat /\ \A i \in 1..Len(q) : r[i] = q[i]
        /\ r[Len(q) + 1] = x /\ Len(r) = Len(q) + 1
    BY Appended
  <1> HIDE DEF r
  <1>2. ASSUME NEW i \in 1..Len(r), r[i].kind = "close" PROVE t = n + i - 1 - u
    <2>1. i \in 1..Len(q) \/ i = Len(q) + 1
      BY <1>1
    <2> QED
      BY <1>1, <1>2, <2>1 DEF ClosesAt
  <1> QED
    BY <1>2 DEF ClosesAt, r

\* A link read by one message: a chunk counts, the answer does not.
LEMMA ClosesTaken ==
    ASSUME NEW q \in Seq(Message), q # <<>>, NEW u \in 0..1, NEW n \in Nat, NEW t \in Nat,
           ClosesAt(q, u, n, t)
    PROVE  ClosesAt(Tail(q), 0, n + 1 - u, t)
  <1>1. /\ Len(q) \in Nat \ {0} /\ \A i \in 1..(Len(q) - 1) : Tail(q)[i] = q[i + 1]
        /\ Len(Tail(q)) = Len(q) - 1
    BY Taken
  <1>2. ASSUME NEW i \in 1..(Len(q) - 1), Tail(q)[i].kind = "close"
        PROVE  t = (n + 1 - u) + i - 1 - 0
    <2>1. i + 1 \in 1..Len(q) /\ q[i + 1].kind = "close"
      BY <1>1, <1>2
    <2>2. t = n + (i + 1) - 1 - u
      BY <2>1 DEF ClosesAt
    <2> QED
      BY <2>2
  <1> QED
    BY <1>1, <1>2 DEF ClosesAt

-----------------------------------------------------------------------------
(* Types                                                                      *)

\* What a message is.
LEMMA MessageType ==
    ASSUME NEW k \in {"open", "ok", "failed", "data", "close"}, NEW c \in Nat
    PROVE  Msg(k, c) \in Message /\ Msg(k, c).kind = k /\ Msg(k, c).chunk = c
  BY DEF Msg, Message

\* finish takes the tunnel out of the table, and the first reason stands.
LEMMA Finished ==
    ASSUME HostTypes, NEW cause \in Causes, NEW notify \in BOOLEAN, Finish(cause, notify)
    PROVE  /\ hdone' \in BOOLEAN /\ hnote' \in BOOLEAN /\ hcause' \in Causes \cup {"none"}
           /\ htab' = FALSE
           /\ hcause' = hcause \/ (hcause' = cause /\ htab)
  BY DEF Finish, HostTypes

\* drop takes the tunnel out of the probe's table, with its queue.
LEMMA Dropped ==
    ASSUME ProbeTypes, TargetTypes, NEW notify \in BOOLEAN, NEW eof \in BOOLEAN, Drop(notify, eof)
    PROVE  /\ tab' = FALSE /\ tclosed' \in BOOLEAN /\ anote' \in BOOLEAN /\ acause' \in BOOLEAN
           /\ writes' \in Seq(Nat) /\ Len(writes') <= WriteQueue
           /\ tconn' \in {"none", "open", "closed"}
           /\ \/ tab /\ writes' = <<>> /\ anote' = notify /\ acause' = eof
              \/ ~tab /\ UNCHANGED <<writes, anote, acause>>
  <1>1. CASE tab
    <2>1. /\ tab' = FALSE /\ tclosed' = TRUE /\ anote' = notify /\ acause' = eof
          /\ writes' = <<>>
          /\ tconn' \in {tconn, "closed"}
      BY <1>1 DEF Drop
    <2>2. writes' \in Seq(Nat) /\ Len(writes') = 0
      BY <2>1, Emptied
    <2>3. Len(writes') <= WriteQueue
      BY <2>2, TunnelAssumption
    <2> QED
      BY <1>1, <2>1, <2>2, <2>3 DEF TargetTypes
  <1>2. CASE ~tab
    <2>1. UNCHANGED <<tab, tclosed, anote, acause, tconn, writes>>
      BY <1>2 DEF Drop
    <2> QED
      BY <1>2, <2>1 DEF ProbeTypes, TargetTypes
  <1> QED
    BY <1>1, <1>2

\* What a step leaves alone keeps its types.
LEMMA TypesKept ==
    ASSUME TypeOK
    PROVE  /\ UNCHANGED hvars => HostTypes'
           /\ UNCHANGED cvars => ClientTypes'
           /\ UNCHANGED lvars => LinkTypes'
           /\ UNCHANGED avars => ProbeTypes'
           /\ UNCHANGED tvars => TargetTypes'
  <1>1. UNCHANGED hvars => HostTypes'
    BY DEF TypeOK, HostTypes, hvars
  <1>2. UNCHANGED cvars => ClientTypes'
    BY DEF TypeOK, ClientTypes, cvars
  <1>3. UNCHANGED lvars => LinkTypes'
    BY DEF TypeOK, LinkTypes, lvars
  <1>4. UNCHANGED avars => ProbeTypes'
    BY DEF TypeOK, ProbeTypes, avars
  <1>5. UNCHANGED tvars => TargetTypes'
    BY DEF TypeOK, TargetTypes, tvars
  <1> QED
    BY <1>1, <1>2, <1>3, <1>4, <1>5

\* The counters are numbers and the queues are sequences.
LEMMA Numbers ==
    ASSUME TypeOK
    PROVE  /\ csent \in Nat /\ tsent \in Nat /\ hand \in Nat
           /\ inb \in Seq(Nat) /\ cgot \in Seq(Nat) /\ writes \in Seq(Nat) /\ tgot \in Seq(Nat)
           /\ h2a \in Seq(Message) /\ a2h \in Seq(Message)
           /\ Len(inb) \in Nat /\ Len(cgot) \in Nat /\ Len(writes) \in Nat /\ Len(tgot) \in Nat
           /\ Len(h2a) \in Nat /\ Len(a2h) \in Nat
           /\ UpTaken \in Nat /\ DownTaken \in Nat /\ Unread \in 0..1
  <1>1. csent \in Nat /\ tsent \in Nat /\ hand \in Nat
    BY TunnelAssumption DEF TypeOK, ClientTypes, TargetTypes, HostTypes
  <1>2. /\ inb \in Seq(Nat) /\ cgot \in Seq(Nat) /\ writes \in Seq(Nat) /\ tgot \in Seq(Nat)
        /\ h2a \in Seq(Message) /\ a2h \in Seq(Message)
    BY DEF TypeOK, HostTypes, ClientTypes, LinkTypes, TargetTypes
  <1>3. /\ Len(inb) \in Nat /\ Len(cgot) \in Nat /\ Len(writes) \in Nat /\ Len(tgot) \in Nat
        /\ Len(h2a) \in Nat /\ Len(a2h) \in Nat
    BY <1>2
  <1>4. UpTaken \in Nat /\ DownTaken \in Nat /\ Unread \in 0..1
    BY <1>3 DEF UpTaken, DownTaken, Unread, One
  <1> QED
    BY <1>1, <1>2, <1>3, <1>4

\* The host's steps keep the types.
LEMMA HostTypesStep ==
    ASSUME TypeOK, HostHandler \/ HostReader \/ ReadClient \/ HostReadPump \/ HostNotifies
                   \/ HostFinishes \/ Deadline
    PROVE  TypeOK'
  <1>0. ASSUME NEW c \in Causes, NEW b \in BOOLEAN, Finish(c, b)
        PROVE  htab' \in BOOLEAN /\ hdone' \in BOOLEAN /\ hnote' \in BOOLEAN
               /\ hcause' \in Causes \cup {"none"}
    BY <1>0, Finished DEF TypeOK
  <1>1. CASE AwaitOpened \/ AwaitDone \/ StartDrain \/ Join
    <2>1. HostTypes'
      BY <1>1 DEF AwaitOpened, AwaitDone, StartDrain, Join, TypeOK, HostTypes
    <2> QED
      BY <1>1, <2>1, TypesKept DEF AwaitOpened, AwaitDone, StartDrain, Join, TypeOK
  <1>2. CASE AwaitRefused \/ AwaitTimeout \/ EstablishFails
    <2>1. \E c \in Causes, b \in BOOLEAN : Finish(c, b)
      BY <1>2 DEF AwaitRefused, AwaitTimeout, EstablishFails, Causes
    <2>2. HostTypes'
      BY <1>0, <1>2, <2>1 DEF AwaitRefused, AwaitTimeout, EstablishFails, TypeOK, HostTypes
    <2> QED
      BY <1>2, <2>2, TypesKept DEF AwaitRefused, AwaitTimeout, EstablishFails, TypeOK
  <1>3. CASE Establish \/ DrainEnds
    <2>1. HostTypes'
      BY <1>3 DEF Establish, DrainEnds, TypeOK, HostTypes
    <2>2. ClientTypes'
      BY <1>3 DEF Establish, DrainEnds, FateNow, TypeOK, ClientTypes
    <2> QED
      BY <1>3, <2>1, <2>2, TypesKept DEF Establish, DrainEnds, TypeOK
  <1>4. CASE WriteClient \/ WriteClientFails
    <2>1. inb \in Seq(Nat) /\ inb # <<>> /\ inb' = Tail(inb)
      BY <1>4 DEF WriteClient, WriteClientFails, TypeOK, HostTypes
    <2>2. inb' \in Seq(Nat) /\ Len(inb') <= InboundQueue /\ Head(inb) \in Nat
      BY <2>1, Taken, TunnelAssumption DEF TypeOK, HostTypes
    <2>3. CASE WriteClient
      <3>1. cgot' \in Seq(Nat)
        BY <2>2, <2>3, Appended DEF WriteClient, TypeOK, ClientTypes
      <3>2. ClientTypes'
        BY <2>3, <3>1 DEF WriteClient, TypeOK, ClientTypes
      <3>3. HostTypes'
        BY <2>2, <2>3 DEF WriteClient, TypeOK, HostTypes
      <3> QED
        BY <2>3, <3>2, <3>3, TypesKept DEF WriteClient, TypeOK
    <2>4. CASE WriteClientFails
      <3>1. /\ htab' \in BOOLEAN /\ hdone' \in BOOLEAN /\ hnote' \in BOOLEAN
            /\ hcause' \in Causes \cup {"none"}
        BY <1>0, <2>4 DEF WriteClientFails, Causes
      <3>2. HostTypes'
        BY <2>2, <2>4, <3>1 DEF WriteClientFails, TypeOK, HostTypes
      <3>3. ClientTypes'
        BY <2>4 DEF WriteClientFails, TypeOK, ClientTypes
      <3> QED
        BY <2>4, <3>2, <3>3, TypesKept DEF WriteClientFails, TypeOK
    <2> QED
      BY <1>4, <2>3, <2>4
  <1>5. CASE SendUp
    <2>1. CASE up /\ h2a' = Append(h2a, Msg("data", csent)) /\ rdr' = "reading"
               /\ UNCHANGED <<htab, hdone, hcause, hnote, lost>>
      <3>0. csent \in Nat /\ h2a \in Seq(Message)
        BY Numbers
      <3>1. h2a' \in Seq(Message)
        BY <2>1, <3>0, MessageType, Appended
      <3>2. LinkTypes'
        BY <1>5, <2>1, <3>1 DEF SendUp, TypeOK, LinkTypes
      <3>3. HostTypes' /\ ClientTypes'
        BY <1>5, <2>1 DEF SendUp, TypeOK, HostTypes, ClientTypes
      <3> QED
        BY <1>5, <3>2, <3>3, TypesKept DEF SendUp, TypeOK
    <2>2. CASE Finish("send", FALSE) /\ rdr' = "ended" /\ lost' = (lost \/ up) /\ UNCHANGED h2a
      <3>1. /\ htab' \in BOOLEAN /\ hdone' \in BOOLEAN /\ hnote' \in BOOLEAN
            /\ hcause' \in Causes \cup {"none"}
        BY <1>0, <2>2 DEF Causes
      <3>2. LinkTypes'
        BY <1>5, <2>2 DEF SendUp, TypeOK, LinkTypes
      <3>3. HostTypes' /\ ClientTypes'
        BY <1>5, <2>2, <3>1 DEF SendUp, TypeOK, HostTypes, ClientTypes
      <3> QED
        BY <1>5, <3>2, <3>3, TypesKept DEF SendUp, TypeOK
    <2> QED
      BY <1>5, <2>1, <2>2 DEF SendUp
  <1>6. CASE ReadClientEnds
    <2>1. /\ htab' \in BOOLEAN /\ hdone' \in BOOLEAN /\ hnote' \in BOOLEAN
          /\ hcause' \in Causes \cup {"none"}
      BY <1>0, <1>6 DEF ReadClientEnds, Causes
    <2>2. HostTypes' /\ ClientTypes'
      BY <1>6, <2>1 DEF ReadClientEnds, TypeOK, HostTypes, ClientTypes
    <2> QED
      BY <1>6, <2>2, TypesKept DEF ReadClientEnds, TypeOK
  <1>7. CASE ReadClient
    <2>1. ClientTypes'
      BY <1>7, TunnelAssumption DEF ReadClient, TypeOK, ClientTypes
    <2> QED
      BY <1>7, <2>1, TypesKept DEF ReadClient, TypeOK
  <1>8. CASE HostReceives
    <2>1. a2h # <<>> /\ a2h' = Tail(a2h) /\ up' = up /\ h2a' = h2a /\ lost' = lost
      BY <1>8 DEF HostReceives
    <2>2. a2h' \in Seq(Message) /\ Head(a2h) \in Message
      BY <2>1, Numbers, Taken
    <2>3. LinkTypes'
      BY <2>1, <2>2 DEF TypeOK, LinkTypes
    <2>4. CASE Finish("agent", FALSE) /\ UNCHANGED <<hand, opened>>
      <3>1. /\ htab' \in BOOLEAN /\ hdone' \in BOOLEAN /\ hnote' \in BOOLEAN
            /\ hcause' \in Causes \cup {"none"}
        BY <1>0, <2>4 DEF Causes
      <3>2. HostTypes'
        BY <1>8, <2>4, <3>1 DEF HostReceives, TypeOK, HostTypes
      <3> QED
        BY <1>8, <2>3, <3>2, TypesKept DEF HostReceives, TypeOK
    <2>5. CASE UNCHANGED <<htab, hdone, hcause, hnote>>
      <3>1. hand' \in Nat /\ opened' \in {"empty", "ok", "failed"}
        BY <1>8, <2>2, Numbers DEF HostReceives, TypeOK, HostTypes, Message
      <3>2. HostTypes'
        BY <1>8, <2>5, <3>1 DEF HostReceives, TypeOK, HostTypes
      <3> QED
        BY <1>8, <2>3, <3>2, TypesKept DEF HostReceives, TypeOK
    <2> QED
      BY <1>8, <2>4, <2>5 DEF HostReceives
  <1>9. CASE Deliver
    <2>0. inb \in Seq(Nat) /\ hand \in Nat
      BY Numbers
    <2>1. inb' \in Seq(Nat) /\ Len(inb') = Len(inb) + 1 /\ Len(inb) \in Nat
      BY <1>9, <2>0, Appended DEF Deliver
    <2>2. HostTypes'
      BY <1>9, <2>1, TunnelAssumption DEF Deliver, TypeOK, HostTypes
    <2> QED
      BY <1>9, <2>2, TypesKept DEF Deliver, TypeOK
  <1>10. CASE DeliverDone
    <2>1. HostTypes'
      BY <1>10 DEF DeliverDone, TypeOK, HostTypes
    <2> QED
      BY <1>10, <2>1, TypesKept DEF DeliverDone, TypeOK
  <1>11. CASE DeliverTimeout
    <2>1. /\ htab' \in BOOLEAN /\ hdone' \in BOOLEAN /\ hnote' \in BOOLEAN
          /\ hcause' \in Causes \cup {"none"}
      BY <1>0, <1>11 DEF DeliverTimeout, Causes
    <2>2. HostTypes'
      BY <1>11, <2>1 DEF DeliverTimeout, TypeOK, HostTypes
    <2> QED
      BY <1>11, <2>2, TypesKept DEF DeliverTimeout, TypeOK
  <1>12. CASE HostNotifies
    <2>1. Append(h2a, Msg("close", 0)) \in Seq(Message)
      BY MessageType, Appended, Numbers
    <2>2. h2a' \in Seq(Message) /\ a2h' = a2h /\ up' = up
      BY <1>12, <2>1, Numbers DEF HostNotifies
    <2>3. lost' \in BOOLEAN
      BY <1>12 DEF HostNotifies, TypeOK, LinkTypes
    <2>4. LinkTypes'
      BY <2>2, <2>3 DEF TypeOK, LinkTypes
    <2>5. HostTypes'
      BY <1>12 DEF HostNotifies, TypeOK, HostTypes
    <2> QED
      BY <1>12, <2>4, <2>5, TypesKept DEF HostNotifies, TypeOK
  <1>13. CASE HostFinishes
    <2>1. \E c \in Causes, b \in BOOLEAN : Finish(c, b)
      BY <1>13 DEF HostFinishes, Causes
    <2>2. HostTypes'
      BY <1>0, <1>13, <2>1 DEF HostFinishes, TypeOK, HostTypes
    <2> QED
      BY <1>13, <2>2, TypesKept DEF HostFinishes, TypeOK
  <1>14. CASE Deadline
    <2>1. ClientTypes'
      BY <1>14 DEF Deadline, TypeOK, ClientTypes
    <2> QED
      BY <1>14, <2>1, TypesKept DEF Deadline, TypeOK
  <1> QED
    BY <1>1, <1>2, <1>3, <1>4, <1>5, <1>6, <1>7, <1>8, <1>9, <1>10, <1>11, <1>12, <1>13, <1>14
       DEF HostHandler, HostReader, HostReadPump

\* The probe's steps, and those of the world around the two, keep the types.
LEMMA ProbeTypesStep ==
    ASSUME TypeOK, ProbeReceives \/ ProbeOpen \/ ReadTarget \/ ProbeWriteLoop \/ ProbeNotifies
                   \/ DropAll \/ ClientHangsUp \/ TargetCloses \/ LinkLost \/ UNCHANGED vars
    PROVE  TypeOK'
  <1>0. ASSUME NEW n \in BOOLEAN, NEW e \in BOOLEAN, Drop(n, e),
               UNCHANGED <<tsent, teof, tgot>>, apc' \in {apc, "refusing", "ended"}
        PROVE  ProbeTypes' /\ TargetTypes'
    <2>1. /\ tab' \in BOOLEAN /\ tclosed' \in BOOLEAN /\ anote' \in BOOLEAN /\ acause' \in BOOLEAN
          /\ writes' \in Seq(Nat) /\ Len(writes') <= WriteQueue
          /\ tconn' \in {"none", "open", "closed"}
      BY <1>0, Dropped DEF TypeOK
    <2>2. ProbeTypes'
      BY <1>0, <2>1 DEF TypeOK, ProbeTypes
    <2>3. TargetTypes'
      BY <1>0, <2>1 DEF TypeOK, TargetTypes
    <2> QED
      BY <2>2, <2>3
  <1>1. CASE ProbeNotifies \/ Refuse
    <2>1. /\ Append(a2h, Msg("close", 0)) \in Seq(Message)
          /\ Append(a2h, Msg("failed", 0)) \in Seq(Message)
      BY MessageType, Appended, Numbers
    <2>2. a2h' \in Seq(Message)
      BY <1>1, <2>1, Numbers DEF ProbeNotifies, Refuse
    <2>3. LinkTypes'
      BY <1>1, <2>2 DEF ProbeNotifies, Refuse, TypeOK, LinkTypes
    <2>4. ProbeTypes'
      BY <1>1 DEF ProbeNotifies, Refuse, TypeOK, ProbeTypes
    <2> QED
      BY <1>1, <2>3, <2>4, TypesKept DEF ProbeNotifies, Refuse, TypeOK
  <1>2. CASE Dialed \/ SetConn
    <2>1. ProbeTypes'
      BY <1>2 DEF Dialed, SetConn, TypeOK, ProbeTypes
    <2>2. TargetTypes'
      BY <1>2 DEF Dialed, SetConn, TypeOK, TargetTypes
    <2> QED
      BY <1>2, <2>1, <2>2, TypesKept DEF Dialed, SetConn, TypeOK
  <1>3. CASE ReadTarget
    <2>1. ProbeTypes'
      BY <1>3 DEF ReadTarget, TypeOK, ProbeTypes
    <2>2. TargetTypes'
      BY <1>3, TunnelAssumption DEF ReadTarget, TypeOK, TargetTypes
    <2> QED
      BY <1>3, <2>1, <2>2, TypesKept DEF ReadTarget, TypeOK
  <1>4. CASE WriteTarget
    <2>1. writes # <<>> /\ writes' = Tail(writes) /\ tgot' = Append(tgot, Head(writes))
      BY <1>4 DEF WriteTarget
    <2>2. writes' \in Seq(Nat) /\ Len(writes') <= WriteQueue /\ Head(writes) \in Nat
      BY <2>1, Taken, TunnelAssumption DEF TypeOK, TargetTypes
    <2>3. tgot' \in Seq(Nat)
      BY <2>1, <2>2, Appended, Numbers
    <2>4. TargetTypes'
      BY <1>4, <2>2, <2>3 DEF WriteTarget, TypeOK, TargetTypes
    <2> QED
      BY <1>4, <2>4, TypesKept DEF WriteTarget, TypeOK
  <1>5. CASE DialFails \/ ReadTargetEnds \/ WriteTargetFails \/ DropAll
    <2>1. /\ \E n \in BOOLEAN, e \in BOOLEAN : Drop(n, e)
          /\ UNCHANGED <<tsent, teof, tgot>> /\ apc' \in {apc, "refusing", "ended"}
      BY <1>5 DEF DialFails, ReadTargetEnds, WriteTargetFails, DropAll
    <2>2. ProbeTypes' /\ TargetTypes'
      BY <1>0, <2>1
    <2> QED
      BY <1>5, <2>2, TypesKept DEF DialFails, ReadTargetEnds, WriteTargetFails, DropAll, TypeOK
  <1>6. CASE Answer \/ SendDown
    <2>1. /\ Append(a2h, Msg("ok", 0)) \in Seq(Message)
          /\ Append(a2h, Msg("data", tsent)) \in Seq(Message)
      <3>1. tsent \in Nat /\ a2h \in Seq(Message)
        BY Numbers
      <3> QED
        BY <3>1, MessageType, Appended
    <2>2. a2h' \in Seq(Message)
      BY <1>6, <2>1, Numbers DEF Answer, SendDown
    <2>3. LinkTypes'
      BY <1>6, <2>2 DEF Answer, SendDown, TypeOK, LinkTypes
    <2>4. CASE up
      <3>1. ProbeTypes'
        BY <1>6, <2>4 DEF Answer, SendDown, TypeOK, ProbeTypes
      <3>2. TargetTypes'
        BY <1>6, <2>4 DEF Answer, SendDown, TypeOK, TargetTypes
      <3> QED
        BY <1>6, <2>3, <3>1, <3>2, TypesKept DEF Answer, SendDown, TypeOK
    <2>5. CASE ~up
      <3>1. Drop(FALSE, FALSE) /\ UNCHANGED <<tsent, teof, tgot>> /\ apc' = "ended"
        BY <1>6, <2>5 DEF Answer, SendDown
      <3>2. ProbeTypes' /\ TargetTypes'
        BY <1>0, <3>1
      <3> QED
        BY <1>6, <2>3, <3>2, TypesKept DEF Answer, SendDown, TypeOK
    <2> QED
      BY <2>4, <2>5
  <1>7. CASE ProbeReceives
    <2>1. /\ h2a # <<>> /\ h2a' = Tail(h2a) /\ UNCHANGED <<up, a2h, lost>>
          /\ UNCHANGED <<tsent, teof, tgot>>
      BY <1>7 DEF ProbeReceives
    <2>2. h2a' \in Seq(Message) /\ Head(h2a) \in Message
      BY <2>1, Taken, Numbers
    <2>3. LinkTypes'
      BY <2>1, <2>2 DEF TypeOK, LinkTypes
    <2>4. ProbeTypes' /\ TargetTypes'
      <3>1. CASE /\ tab' = TRUE /\ apc' = "dialing"
                 /\ UNCHANGED <<tclosed, anote, acause, tconn, writes>>
        BY <2>1, <3>1 DEF TypeOK, ProbeTypes, TargetTypes
      <3>2. CASE Drop(FALSE, FALSE) /\ UNCHANGED apc
        BY <1>0, <2>1, <3>2
      <3>3. CASE Write(Head(h2a).chunk) /\ UNCHANGED apc
        <4>1. CASE Drop(TRUE, FALSE)
          BY <1>0, <2>1, <3>3, <4>1
        <4>2. CASE /\ CanEnqueue /\ writes' = Append(writes, Head(h2a).chunk)
                   /\ UNCHANGED <<tab, tclosed, anote, acause, tconn>>
          <5>1. Head(h2a).chunk \in Nat
            BY <2>2 DEF Message
          <5>2. writes' \in Seq(Nat) /\ Len(writes') = Len(writes) + 1 /\ Len(writes) \in Nat
            BY <4>2, <5>1, Appended, Numbers
          <5>3. Len(writes') <= WriteQueue
            BY <4>2, <5>2, TunnelAssumption DEF CanEnqueue
          <5> QED
            BY <2>1, <3>3, <4>2, <5>2, <5>3 DEF TypeOK, ProbeTypes, TargetTypes
        <4> QED
          BY <3>3, <4>1, <4>2 DEF Write
      <3> QED
        BY <1>7, <3>1, <3>2, <3>3 DEF ProbeReceives
    <2> QED
      BY <1>7, <2>3, <2>4, TypesKept DEF ProbeReceives, TypeOK
  <1>8. CASE ClientHangsUp
    <2>1. ClientTypes'
      BY <1>8 DEF ClientHangsUp, TypeOK, ClientTypes
    <2> QED
      BY <1>8, <2>1, TypesKept DEF ClientHangsUp, TypeOK
  <1>9. CASE TargetCloses
    <2>1. TargetTypes'
      BY <1>9 DEF TargetCloses, TypeOK, TargetTypes
    <2> QED
      BY <1>9, <2>1, TypesKept DEF TargetCloses, TypeOK
  <1>10. CASE LinkLost
    <2>1. h2a' \in Seq(Message) /\ a2h' \in Seq(Message)
      BY <1>10, Emptied DEF LinkLost
    <2>2. LinkTypes'
      BY <1>10, <2>1 DEF LinkLost, TypeOK, LinkTypes
    <2> QED
      BY <1>10, <2>2, TypesKept DEF LinkLost, TypeOK
  <1>11. CASE UNCHANGED vars
    BY <1>11, TypesKept DEF vars, TypeOK
  <1> QED
    BY <1>1, <1>2, <1>3, <1>4, <1>5, <1>6, <1>7, <1>8, <1>9, <1>10, <1>11
       DEF ProbeOpen, ProbeWriteLoop

\* Every step keeps the types and the capacities of the queues.
LEMMA TypesStep ==
    ASSUME TypeOK, [Next]_vars
    PROVE  TypeOK'
  BY HostTypesStep, ProbeTypesStep DEF Next

-----------------------------------------------------------------------------
(* From the client to the target                                              *)

\* Steps that leave the stream alone, or end its reader.
LEMMA UpSame ==
    ASSUME TunnelInv, UNCHANGED <<tgot, writes, csent, h2a, up>>, tab' = tab \/ tab' = FALSE,
           rdr' \in {rdr, "ended"} \/ (rdr = "none" /\ rdr' = "reading")
    PROVE  UpInOrder'
  <1>1. UpTaken' = UpTaken
    BY DEF UpTaken
  <1>2. UpInOrder
    BY DEF TunnelInv
  <1>3. /\ UpTaken' <= csent'
        /\ \A i \in 1..Len(tgot') : tgot'[i] = i
        /\ \A i \in 1..Len(writes') : writes'[i] = Len(tgot') + i
    BY <1>1, <1>2 DEF UpInOrder
  <1>4. tab' => Follows(h2a', 0, UpTaken')
    BY <1>1, <1>2 DEF UpInOrder
  <1>5. tab' /\ up' /\ rdr' # "ended" /\ NoClose(h2a', Len(h2a'))
          => csent' = UpTaken' + Len(h2a') + One(rdr' = "sending")
    BY <1>1, <1>2 DEF UpInOrder, One
  <1> QED
    BY <1>3, <1>4, <1>5 DEF UpInOrder

\* A tunnel that is not in the probe's table has no queue to fill.
LEMMA UpDropped ==
    ASSUME TunnelInv, UNCHANGED <<tgot, csent>>, tab' = FALSE, writes' = <<>> \/ writes' = writes
    PROVE  UpInOrder'
  <1>1. UpInOrder
    BY DEF TunnelInv
  <1>2. Len(tgot) \in Nat /\ csent \in Nat /\ Len(writes) \in Nat
    BY Numbers DEF TunnelInv
  <1>3. CASE writes' = writes
    BY <1>1, <1>3 DEF UpInOrder, UpTaken
  <1>4. CASE writes' = <<>>
    <2>1. Len(writes') = 0
      BY <1>4
    <2>2. UpTaken' <= csent'
      BY <1>1, <1>2, <2>1 DEF UpInOrder, UpTaken
    <2> QED
      BY <1>1, <1>2, <2>1, <2>2 DEF UpInOrder
  <1> QED
    BY <1>3, <1>4

\* The host sends: a chunk in its turn, or its close.
LEMMA UpSends ==
    ASSUME TunnelInv, NEW x \in Message, h2a' = Append(h2a, x),
           UNCHANGED <<tgot, writes, csent, tab, up>>, up,
           \/ x.kind = "close" /\ rdr' = rdr
           \/ x.kind = "data" /\ x.chunk = csent /\ rdr = "sending" /\ rdr' = "reading"
    PROVE  UpInOrder'
  <1>0. UpInOrder
    BY DEF TunnelInv
  <1>1. /\ h2a \in Seq(Message) /\ Len(h2a) \in Nat /\ UpTaken \in Nat /\ csent \in Nat
        /\ 0 \in 0..1 /\ 0 <= Len(h2a)
    BY Numbers DEF TunnelInv
  <1>2. UpTaken' = UpTaken
    BY DEF UpTaken
  <1>3. /\ UpTaken' <= csent'
        /\ \A i \in 1..Len(tgot') : tgot'[i] = i
        /\ \A i \in 1..Len(writes') : writes'[i] = Len(tgot') + i
    BY <1>0, <1>2 DEF UpInOrder
  <1>4. /\ Len(h2a') = Len(h2a) + 1
        /\ NoClose(h2a', Len(h2a) + 1) <=> (NoClose(h2a, Len(h2a)) /\ x.kind # "close")
    BY <1>1, Appended, NoCloseAppended
  <1>5. ASSUME tab PROVE Follows(h2a', 0, UpTaken')
    <2>1. Follows(h2a, 0, UpTaken)
      BY <1>0, <1>5 DEF UpInOrder
    <2>2. x.kind = "close" \/ (NoClose(h2a, Len(h2a)) => x.chunk = UpTaken + Len(h2a) + 1 - 0)
      BY <1>0, <1>1, <1>5 DEF UpInOrder, One
    <2> QED
      BY <1>1, <1>2, <2>1, <2>2, FollowsAppended
  <1>6. tab' /\ up' /\ rdr' # "ended" /\ NoClose(h2a', Len(h2a'))
          => csent' = UpTaken' + Len(h2a') + One(rdr' = "sending")
    BY <1>0, <1>1, <1>2, <1>4 DEF UpInOrder, One
  <1> QED
    BY <1>3, <1>5, <1>6 DEF UpInOrder

\* The host reads one more chunk from the client.
LEMMA UpReads ==
    ASSUME TunnelInv, ReadClient
    PROVE  UpInOrder'
  <1>0. UpInOrder
    BY DEF TunnelInv
  <1>1. /\ rdr = "reading" /\ rdr' = "sending" /\ csent' = csent + 1
        /\ UNCHANGED <<tgot, writes, tab, up, h2a>>
    BY DEF ReadClient, hvars, lvars, avars, tvars
  <1>2. UpTaken' = UpTaken /\ UpTaken \in Nat /\ csent \in Nat /\ Len(h2a) \in Nat
    BY <1>1, Numbers DEF UpTaken, TunnelInv
  <1>3. tab' => Follows(h2a', 0, UpTaken')
    BY <1>0, <1>1, <1>2 DEF UpInOrder
  <1>4. tab' /\ up' /\ rdr' # "ended" /\ NoClose(h2a', Len(h2a'))
          => csent' = UpTaken' + Len(h2a') + One(rdr' = "sending")
    BY <1>0, <1>1, <1>2 DEF UpInOrder, One
  <1>5. /\ UpTaken' <= csent'
        /\ \A i \in 1..Len(tgot') : tgot'[i] = i
        /\ \A i \in 1..Len(writes') : writes'[i] = Len(tgot') + i
    BY <1>0, <1>1, <1>2 DEF UpInOrder
  <1> QED
    BY <1>3, <1>4, <1>5 DEF UpInOrder

\* The probe writes the next chunk to the target.
LEMMA UpWrites ==
    ASSUME TunnelInv, WriteTarget
    PROVE  /\ UpInOrder' /\ Len(tgot) < csent /\ Head(writes) = Len(tgot) + 1
  <1>0. UpInOrder
    BY DEF TunnelInv
  <1>1. /\ writes # <<>> /\ writes' = Tail(writes) /\ tgot' = Append(tgot, Head(writes))
        /\ UNCHANGED <<tab, up, h2a, csent, rdr>>
    BY DEF WriteTarget, hvars, cvars, lvars, avars
  <1>2. /\ writes \in Seq(Nat) /\ tgot \in Seq(Nat) /\ csent \in Nat /\ Len(tgot) \in Nat
        /\ Len(h2a) \in Nat /\ UpTaken \in Nat
    BY Numbers DEF TunnelInv
  <1>3. /\ Len(writes') = Len(writes) - 1 /\ Len(writes) \in Nat \ {0}
        /\ \A i \in 1..(Len(writes) - 1) : writes'[i] = writes[i + 1]
        /\ Head(writes) = writes[1] /\ Head(writes) \in Nat
    BY <1>1, <1>2, Taken
  <1>4. /\ Len(tgot') = Len(tgot) + 1 /\ \A i \in 1..Len(tgot) : tgot'[i] = tgot[i]
        /\ tgot'[Len(tgot) + 1] = Head(writes)
    BY <1>1, <1>2, <1>3, Appended
  <1>5. Head(writes) = Len(tgot) + 1 /\ Len(tgot) < csent
    BY <1>0, <1>2, <1>3 DEF UpInOrder, UpTaken
  <1>6. UpTaken' = UpTaken
    BY <1>2, <1>3, <1>4 DEF UpTaken
  <1>7. ASSUME NEW i \in 1..Len(tgot') PROVE tgot'[i] = i
    <2>1. i \in 1..Len(tgot) \/ i = Len(tgot) + 1
      BY <1>2, <1>4
    <2> QED
      BY <1>0, <1>4, <1>5, <2>1 DEF UpInOrder
  <1>8. ASSUME NEW i \in 1..Len(writes') PROVE writes'[i] = Len(tgot') + i
    <2>1. i \in 1..(Len(writes) - 1) /\ i + 1 \in 1..Len(writes)
      BY <1>3
    <2>2. writes'[i] = writes[i + 1]
      BY <1>3, <2>1
    <2>3. writes[i + 1] = Len(tgot) + (i + 1)
      BY <1>0, <2>1 DEF UpInOrder
    <2> QED
      BY <1>2, <1>4, <2>2, <2>3
  <1>9. tab' => Follows(h2a', 0, UpTaken')
    BY <1>0, <1>1, <1>6 DEF UpInOrder
  <1>10. tab' /\ up' /\ rdr' # "ended" /\ NoClose(h2a', Len(h2a'))
           => csent' = UpTaken' + Len(h2a') + One(rdr' = "sending")
    BY <1>0, <1>1, <1>6 DEF UpInOrder
  <1>11. UpTaken' <= csent'
    BY <1>0, <1>1, <1>6 DEF UpInOrder
  <1> QED
    BY <1>5, <1>7, <1>8, <1>9, <1>10, <1>11 DEF UpInOrder

\* The probe takes a message: the first chunk comes after the open, a chunk
\* joins the queue in its turn or drops the tunnel, a close drops it.
LEMMA UpTakes ==
    ASSUME TunnelInv, ProbeReceives
    PROVE  UpInOrder'
  <1>0. UpInOrder /\ UpLink /\ TypeOK /\ ReaderFits /\ Unanswered
    BY DEF TunnelInv
  <1>1. /\ h2a # <<>> /\ h2a' = Tail(h2a) /\ UNCHANGED <<up, tgot, csent, rdr>> /\ up
    BY DEF ProbeReceives, cvars
  <1>2. /\ h2a \in Seq(Message) /\ writes \in Seq(Nat) /\ UpTaken \in Nat /\ csent \in Nat
        /\ Len(tgot) \in Nat /\ Len(writes) \in Nat
    BY <1>0, Numbers
  <1>3. /\ Len(h2a') = Len(h2a) - 1 /\ Len(h2a) \in Nat \ {0}
        /\ \A i \in 1..(Len(h2a) - 1) : h2a'[i] = h2a[i + 1]
        /\ Head(h2a) = h2a[1] /\ Head(h2a) \in Message
    BY <1>1, <1>2, Taken
  <1>4. ASSUME Head(h2a).kind = "open", tab' = TRUE, UNCHANGED writes
        PROVE  UpInOrder'
    <2>1. apc = "none"
      BY <1>0, <1>3, <1>4 DEF UpLink
    <2>2. tgot = <<>> /\ writes = <<>> /\ rdr = "none" /\ csent = 0
      BY <1>0, <2>1 DEF Unanswered, ReaderFits
    <2>3. Len(tgot') = 0 /\ Len(writes') = 0 /\ UpTaken' = 0
      BY <1>1, <1>4, <2>2 DEF UpTaken
    <2>4. ASSUME NEW i \in 1..Len(h2a') PROVE h2a'[i].kind = "close" /\ i \in 1..i
      <3>1. i + 1 \in 1..Len(h2a) /\ i + 1 # 1 /\ h2a'[i] = h2a[i + 1]
        BY <1>3
      <3> QED
        BY <1>0, <2>1, <3>1 DEF UpLink
    <2>5. Follows(h2a', 0, UpTaken')
      BY <2>4 DEF Follows, NoClose
    <2>6. NoClose(h2a', Len(h2a')) => Len(h2a') = 0
      BY <1>3, <2>4 DEF NoClose
    <2> QED
      BY <1>1, <2>2, <2>3, <2>5, <2>6 DEF UpInOrder, One
  <1>5. ASSUME NEW n \in BOOLEAN, Drop(n, FALSE) PROVE UpInOrder'
    <2>1. tab' = FALSE /\ (writes' = <<>> \/ writes' = writes)
      BY <1>0, <1>5, Dropped DEF TypeOK
    <2> QED
      BY <1>1, <2>1, UpDropped
  <1>6. ASSUME Head(h2a).kind = "data", tab, tab' = tab, writes' = Append(writes, Head(h2a).chunk)
        PROVE  UpInOrder'
    <2>1. h2a[1].kind # "close" /\ h2a[1].chunk \in 1..csent /\ 1 \in 1..Len(h2a)
      BY <1>0, <1>3, <1>6 DEF UpLink
    <2>2. h2a[1].chunk = UpTaken + 1 /\ Follows(h2a', 0, UpTaken + 1)
      BY <1>0, <1>1, <1>2, <1>6, <2>1, FollowsTaken DEF UpInOrder
    <2>3. /\ Len(writes') = Len(writes) + 1 /\ writes'[Len(writes) + 1] = UpTaken + 1
          /\ \A i \in 1..Len(writes) : writes'[i] = writes[i]
      BY <1>2, <1>3, <1>6, <2>2, Appended
    <2>4. UpTaken' = UpTaken + 1 /\ UpTaken' <= csent'
      BY <1>1, <1>2, <2>1, <2>2, <2>3 DEF UpTaken
    <2>5. ASSUME NEW i \in 1..Len(writes') PROVE writes'[i] = Len(tgot') + i
      <3>1. i \in 1..Len(writes) \/ i = Len(writes) + 1
        BY <1>2, <2>3
      <3>2. CASE i \in 1..Len(writes)
        BY <1>0, <1>1, <2>3, <3>2 DEF UpInOrder
      <3>3. CASE i = Len(writes) + 1
        BY <1>1, <1>2, <2>3, <3>3 DEF UpTaken
      <3> QED
        BY <3>1, <3>2, <3>3
    <2>6. NoClose(h2a', Len(h2a')) <=> NoClose(h2a, Len(h2a))
      <3>1. Len(h2a) - 1 \in 0..(Len(h2a) - 1) /\ (Len(h2a) - 1) + 1 = Len(h2a)
        BY <1>3
      <3> QED
        BY <1>1, <1>2, <1>3, <2>1, <3>1, NoCloseTaken
    <2>7. up' /\ rdr' # "ended" /\ NoClose(h2a', Len(h2a'))
             => csent' = UpTaken' + Len(h2a') + One(rdr' = "sending")
      <3> SUFFICES ASSUME up', rdr' # "ended", NoClose(h2a', Len(h2a'))
                   PROVE  csent' = UpTaken' + Len(h2a') + One(rdr' = "sending")
        OBVIOUS
      <3>1. csent = UpTaken + Len(h2a) + One(rdr = "sending")
        BY <1>0, <1>1, <1>6, <2>6 DEF UpInOrder
      <3>2. One(rdr = "sending") \in Nat /\ One(rdr' = "sending") = One(rdr = "sending")
        BY <1>1 DEF One
      <3> QED
        BY <1>1, <1>2, <1>3, <2>4, <3>1, <3>2
    <2>8. \A i \in 1..Len(tgot') : tgot'[i] = i
      BY <1>0, <1>1 DEF UpInOrder
    <2> QED
      BY <2>2, <2>4, <2>5, <2>7, <2>8 DEF UpInOrder
  <1>7. CASE Head(h2a).kind = "data" /\ Write(Head(h2a).chunk)
    BY <1>5, <1>6, <1>7 DEF Write
  <1> QED
    BY <1>4, <1>5, <1>7 DEF ProbeReceives

\* Every step keeps the stream to the target in order.
LEMMA UpStep ==
    ASSUME TunnelInv, [Next]_vars
    PROVE  UpInOrder'
  <1> USE DEF hvars, cvars, lvars, avars, tvars
  <1>0. TypeOK /\ ReaderFits
    BY DEF TunnelInv
  <1>1. CASE \/ AwaitOpened \/ AwaitRefused \/ AwaitTimeout \/ AwaitDone \/ EstablishFails
             \/ WriteClient \/ WriteClientFails \/ StartDrain \/ DrainEnds \/ Join
    <2>1. UNCHANGED <<tgot, writes, csent, h2a, up, tab, rdr>>
      BY <1>1 DEF AwaitOpened, AwaitRefused, AwaitTimeout, AwaitDone, EstablishFails,
                  WriteClient, WriteClientFails, StartDrain, DrainEnds, Join
    <2> QED
      BY <2>1, UpSame
  <1>2. CASE Establish
    <2>1. /\ UNCHANGED <<tgot, writes, csent, h2a, up, tab>> /\ rdr' = "reading"
          /\ hpc = "establishing"
      BY <1>2 DEF Establish
    <2>2. rdr = "none"
      BY <1>0, <2>1 DEF ReaderFits
    <2> QED
      BY <2>1, <2>2, UpSame
  <1>3. CASE \/ HostReceives \/ Deliver \/ DeliverDone \/ DeliverTimeout \/ HostFinishes
             \/ Deadline \/ ClientHangsUp \/ TargetCloses \/ UNCHANGED vars
    <2>1. UNCHANGED <<tgot, writes, csent, h2a, up, tab, rdr>>
      BY <1>3 DEF HostReceives, Deliver, DeliverDone, DeliverTimeout, HostFinishes, Deadline,
                  ClientHangsUp, TargetCloses, vars
    <2> QED
      BY <2>1, UpSame
  <1>4. CASE Dialed \/ Refuse \/ SetConn \/ ReadTarget \/ ProbeNotifies
    <2>1. UNCHANGED <<tgot, writes, csent, h2a, up, tab, rdr>>
      BY <1>4 DEF Dialed, Refuse, SetConn, ReadTarget, ProbeNotifies
    <2> QED
      BY <2>1, UpSame
  <1>5. CASE ReadClientEnds
    <2>1. UNCHANGED <<tgot, writes, csent, h2a, up, tab>> /\ rdr' = "ended"
      BY <1>5 DEF ReadClientEnds
    <2> QED
      BY <2>1, UpSame
  <1>6. CASE SendUp
    <2>1. UNCHANGED <<tgot, writes, csent, up, tab>> /\ rdr = "sending"
      BY <1>6 DEF SendUp
    <2>2. CASE rdr' = "ended" /\ UNCHANGED h2a
      BY <2>1, <2>2, UpSame
    <2>3. CASE up /\ h2a' = Append(h2a, Msg("data", csent)) /\ rdr' = "reading"
      <3>1. csent \in Nat
        BY <1>0, Numbers
      <3>2. /\ Msg("data", csent) \in Message /\ Msg("data", csent).kind = "data"
            /\ Msg("data", csent).chunk = csent
        BY <3>1, MessageType
      <3> QED
        BY <2>1, <2>3, <3>2, UpSends
    <2> QED
      BY <1>6, <2>2, <2>3 DEF SendUp
  <1>7. CASE HostNotifies
    <2>1. UNCHANGED <<tgot, writes, csent, up, tab, rdr>>
      BY <1>7 DEF HostNotifies
    <2>2. CASE UNCHANGED h2a
      BY <2>1, <2>2, UpSame
    <2>3. CASE up /\ h2a' = Append(h2a, Msg("close", 0))
      <3>1. Msg("close", 0) \in Message /\ Msg("close", 0).kind = "close"
        BY MessageType
      <3> QED
        BY <2>1, <2>3, <3>1, UpSends
    <2> QED
      BY <1>7, <2>2, <2>3 DEF HostNotifies
  <1>8. ASSUME NEW n \in BOOLEAN, NEW e \in BOOLEAN, Drop(n, e), UNCHANGED <<tgot, csent>>
        PROVE  UpInOrder'
    <2>1. tab' = FALSE /\ (writes' = <<>> \/ writes' = writes)
      BY <1>0, <1>8, Dropped DEF TypeOK
    <2> QED
      BY <1>8, <2>1, UpDropped
  <1>9. CASE DialFails \/ ReadTargetEnds \/ WriteTargetFails \/ DropAll
    <2>1. UNCHANGED <<tgot, csent>> /\ \E n \in BOOLEAN, e \in BOOLEAN : Drop(n, e)
      BY <1>9 DEF DialFails, ReadTargetEnds, WriteTargetFails, DropAll
    <2> QED
      BY <1>8, <2>1
  <1>10. CASE Answer \/ SendDown
    <2>1. CASE up
      <3>1. UNCHANGED <<tgot, writes, csent, h2a, up, tab, rdr>>
        BY <1>10, <2>1 DEF Answer, SendDown
      <3> QED
        BY <3>1, UpSame
    <2>2. CASE ~up
      <3>1. UNCHANGED <<tgot, csent>> /\ Drop(FALSE, FALSE)
        BY <1>10, <2>2 DEF Answer, SendDown
      <3> QED
        BY <1>8, <3>1
    <2> QED
      BY <2>1, <2>2
  <1>11. CASE LinkLost
    <2>1. UNCHANGED <<tgot, writes, csent, tab, rdr>> /\ up' = FALSE /\ h2a' = <<>>
      BY <1>11 DEF LinkLost
    <2>2. UpTaken' = UpTaken /\ Follows(h2a', 0, UpTaken')
      BY <2>1 DEF UpTaken, Follows
    <2> QED
      BY <2>1, <2>2 DEF TunnelInv, UpInOrder
  <1> QED
    BY <1>1, <1>2, <1>3, <1>4, <1>5, <1>6, <1>7, <1>9, <1>10, <1>11, UpReads, UpWrites, UpTakes
       DEF Next, HostHandler, HostReader, HostReadPump, ProbeOpen, ProbeWriteLoop

-----------------------------------------------------------------------------
(* The links, and the reader                                                  *)

\* Every step keeps the link to the probe in shape.
LEMMA UpLinkStep ==
    ASSUME TunnelInv, [Next]_vars
    PROVE  UpLink'
  <1> USE DEF hvars, cvars, lvars, avars, tvars
  <1>0. UpLink /\ TypeOK /\ Unanswered /\ ReaderFits /\ CloseIsLast
    BY DEF TunnelInv
  <1>1. h2a \in Seq(Message) /\ Len(h2a) \in Nat /\ csent \in Nat
    BY <1>0, Numbers
  <1>2. ASSUME UNCHANGED <<h2a, csent, up>>, apc' = apc \/ (apc # "none" /\ apc' # "none")
        PROVE  UpLink'
    BY <1>0, <1>2 DEF UpLink
  <1>3. CASE \/ AwaitOpened \/ AwaitRefused \/ AwaitTimeout \/ AwaitDone \/ EstablishFails
             \/ Establish \/ WriteClient \/ WriteClientFails \/ StartDrain \/ DrainEnds \/ Join
    <2>1. UNCHANGED <<h2a, csent, up, apc>>
      BY <1>3 DEF AwaitOpened, AwaitRefused, AwaitTimeout, AwaitDone, EstablishFails, Establish,
                  WriteClient, WriteClientFails, StartDrain, DrainEnds, Join
    <2> QED
      BY <1>2, <2>1
  <1>4. CASE \/ HostReceives \/ Deliver \/ DeliverDone \/ DeliverTimeout \/ HostFinishes
             \/ Deadline \/ ReadClientEnds \/ ClientHangsUp \/ TargetCloses \/ UNCHANGED vars
    <2>1. UNCHANGED <<h2a, csent, up, apc>>
      BY <1>4 DEF HostReceives, Deliver, DeliverDone, DeliverTimeout, HostFinishes, Deadline,
                  ReadClientEnds, ClientHangsUp, TargetCloses, vars
    <2> QED
      BY <1>2, <2>1
  <1>5. CASE ProbeOpen \/ ReadTarget
    <2>1. UNCHANGED <<h2a, csent, up>> /\ apc # "none" /\ apc' # "none"
      BY <1>5 DEF ProbeOpen, Dialed, DialFails, Refuse, SetConn, Answer, SendDown, ReadTargetEnds,
                  ReadTarget
    <2> QED
      BY <1>2, <2>1
  <1>6. CASE ProbeWriteLoop \/ ProbeNotifies \/ DropAll
    <2>1. UNCHANGED <<h2a, csent, up, apc>>
      BY <1>6 DEF ProbeWriteLoop, WriteTarget, WriteTargetFails, ProbeNotifies, DropAll
    <2> QED
      BY <1>2, <2>1
  <1>7. ASSUME NEW x \in Message, h2a' = Append(h2a, x), csent' = csent, apc' = apc,
               \/ x.kind = "close"
               \/ x.kind = "data" /\ x.chunk \in 1..csent /\ apc # "none",
               apc = "none" => Len(h2a) > 0
        PROVE  UpLink'
    <2>1. /\ Len(h2a') = Len(h2a) + 1 /\ h2a'[Len(h2a) + 1] = x
          /\ \A i \in 1..Len(h2a) : h2a'[i] = h2a[i]
      BY <1>1, <1>7, Appended
    <2>2. ASSUME NEW i \in 1..Len(h2a')
          PROVE  /\ h2a'[i].kind = "data" => h2a'[i].chunk \in 1..csent'
                 /\ apc' = "none" => h2a'[i].kind = IF i = 1 THEN "open" ELSE "close"
                 /\ apc' # "none" => h2a'[i].kind \in {"data", "close"}
      <3>1. i \in 1..Len(h2a) \/ i = Len(h2a) + 1
        BY <1>1, <2>1
      <3>2. CASE i \in 1..Len(h2a)
        BY <1>0, <1>7, <2>1, <3>2 DEF UpLink
      <3>3. CASE i = Len(h2a) + 1
        <4>1. h2a'[i] = x /\ (apc = "none" => i # 1)
          BY <1>1, <1>7, <2>1, <3>3
        <4> QED
          BY <1>7, <4>1
      <3> QED
        BY <3>1, <3>2, <3>3
    <2> QED
      BY <1>1, <2>1, <2>2 DEF UpLink
  <1>8. CASE HostNotifies
    <2>1. UNCHANGED <<csent, up, apc>>
      BY <1>8 DEF HostNotifies
    <2>2. CASE UNCHANGED h2a
      BY <1>2, <2>1, <2>2
    <2>3. CASE up /\ h2a' = Append(h2a, Msg("close", 0))
      <3>1. Msg("close", 0) \in Message /\ Msg("close", 0).kind = "close"
        BY MessageType
      <3>2. apc = "none" => Len(h2a) > 0
        BY <1>0, <1>1, <2>3 DEF UpLink
      <3> QED
        BY <1>7, <2>1, <2>3, <3>1, <3>2
    <2> QED
      BY <1>8, <2>2, <2>3 DEF HostNotifies
  <1>9. CASE SendUp
    <2>1. UNCHANGED <<csent, up, apc>> /\ rdr = "sending"
      BY <1>9 DEF SendUp
    <2>2. CASE UNCHANGED h2a
      BY <1>2, <2>1, <2>2
    <2>3. CASE up /\ h2a' = Append(h2a, Msg("data", csent))
      <3>1. apc # "none"
        BY <1>0, <2>1 DEF Unanswered
      <3>2. /\ Msg("data", csent) \in Message /\ Msg("data", csent).kind = "data"
            /\ Msg("data", csent).chunk = csent
        BY <1>1, MessageType
      <3>3. csent \in 1..csent
        BY <1>0, <1>1, <2>1 DEF ReaderFits
      <3> QED
        BY <1>7, <2>1, <2>3, <3>1, <3>2, <3>3
    <2> QED
      BY <1>9, <2>2, <2>3 DEF SendUp
  <1>10. CASE ReadClient
    <2>1. UNCHANGED <<h2a, up, apc>> /\ csent' = csent + 1
      BY <1>10 DEF ReadClient
    <2> QED
      BY <1>0, <1>1, <2>1 DEF UpLink
  <1>11. CASE ProbeReceives
    <2>1. /\ h2a # <<>> /\ h2a' = Tail(h2a) /\ csent' = csent
          /\ (Head(h2a).kind = "open" /\ apc' = "dialing")
             \/ (Head(h2a).kind \in {"data", "close"} /\ apc' = apc)
      BY <1>11 DEF ProbeReceives
    <2>2. /\ Len(h2a') = Len(h2a) - 1 /\ Len(h2a) \in Nat \ {0} /\ Head(h2a) = h2a[1]
          /\ \A i \in 1..(Len(h2a) - 1) : h2a'[i] = h2a[i + 1]
      BY <1>1, <2>1, Taken
    <2>3. apc' # "none"
      BY <1>0, <2>1, <2>2 DEF UpLink
    <2>4. ASSUME NEW i \in 1..Len(h2a')
          PROVE  /\ h2a'[i].kind = "data" => h2a'[i].chunk \in 1..csent'
                 /\ h2a'[i].kind \in {"data", "close"}
      <3>1. i + 1 \in 1..Len(h2a) /\ i + 1 # 1 /\ h2a'[i] = h2a[i + 1]
        BY <2>2
      <3> QED
        BY <1>0, <2>1, <3>1 DEF UpLink
    <2> QED
      BY <2>3, <2>4 DEF UpLink
  <1>12. CASE LinkLost
    <2>1. Len(h2a') = 0 /\ up' = FALSE
      BY <1>12 DEF LinkLost
    <2> QED
      BY <2>1 DEF UpLink
  <1> QED
    BY <1>3, <1>4, <1>5, <1>6, <1>8, <1>9, <1>10, <1>11, <1>12
       DEF Next, HostHandler, HostReader, HostReadPump

\* Every step keeps the link to the host in shape.
LEMMA DownLinkStep ==
    ASSUME TunnelInv, [Next]_vars
    PROVE  DownLink'
  <1> USE DEF hvars, cvars, lvars, avars, tvars
  <1>0. DownLink /\ TypeOK /\ Unanswered
    BY DEF TunnelInv
  <1>1. a2h \in Seq(Message) /\ Len(a2h) \in Nat /\ tsent \in Nat
    BY <1>0, Numbers
  <1>2. ASSUME UNCHANGED <<a2h, tsent>>, apc' = apc \/ apc' # "sending"
        PROVE  DownLink'
    BY <1>0, <1>2 DEF DownLink
  <1>3. CASE HostHandler \/ HostReader \/ ReadClient
    <2>1. UNCHANGED <<a2h, tsent, apc>>
      BY <1>3 DEF HostHandler, AwaitOpened, AwaitRefused, AwaitTimeout, AwaitDone, EstablishFails,
                  Establish, WriteClient, WriteClientFails, StartDrain, DrainEnds, Join,
                  HostReader, SendUp, ReadClientEnds, ReadClient
    <2> QED
      BY <1>2, <2>1
  <1>4. CASE \/ Deliver \/ DeliverDone \/ DeliverTimeout \/ HostFinishes \/ HostNotifies
             \/ Deadline \/ ClientHangsUp \/ TargetCloses \/ UNCHANGED vars
    <2>1. UNCHANGED <<a2h, tsent, apc>>
      BY <1>4 DEF Deliver, DeliverDone, DeliverTimeout, HostFinishes, HostNotifies, Deadline,
                  ClientHangsUp, TargetCloses, vars
    <2> QED
      BY <1>2, <2>1
  <1>5. CASE \/ ProbeReceives \/ Dialed \/ DialFails \/ SetConn \/ ReadTargetEnds
             \/ ProbeWriteLoop \/ DropAll
    <2>1. UNCHANGED <<a2h, tsent>> /\ (apc' = apc \/ apc' # "sending")
      BY <1>5 DEF ProbeReceives, Dialed, DialFails, SetConn, ReadTargetEnds, ProbeWriteLoop,
                  WriteTarget, WriteTargetFails, DropAll
    <2> QED
      BY <1>2, <2>1
  <1>6. CASE ReadTarget
    <2>1. a2h' = a2h /\ tsent' = tsent + 1
      BY <1>6 DEF ReadTarget
    <2> QED
      BY <1>0, <1>1, <2>1 DEF DownLink
  <1>7. ASSUME NEW x \in Message, a2h' = Append(a2h, x), tsent' = tsent,
               apc' = apc \/ apc' # "sending",
               \/ x.kind = "close"
               \/ x.kind = "data" /\ x.chunk \in 1..tsent
               \/ x.kind \in {"ok", "failed"} /\ a2h = <<>>
        PROVE  DownLink'
    <2>1. /\ Len(a2h') = Len(a2h) + 1 /\ a2h'[Len(a2h) + 1] = x
          /\ \A i \in 1..Len(a2h) : a2h'[i] = a2h[i]
      BY <1>1, <1>7, Appended
    <2>2. ASSUME NEW i \in 1..Len(a2h')
          PROVE  /\ a2h'[i].kind = "data" => a2h'[i].chunk \in 1..tsent'
                 /\ \/ a2h'[i].kind \in {"data", "close"}
                    \/ i = 1 /\ a2h'[i].kind \in {"ok", "failed"}
      <3>1. i \in 1..Len(a2h) \/ i = Len(a2h) + 1
        BY <1>1, <2>1
      <3>2. CASE i \in 1..Len(a2h)
        BY <1>0, <1>7, <2>1, <3>2 DEF DownLink
      <3>3. CASE i = Len(a2h) + 1
        <4>1. a2h'[i] = x /\ (a2h = <<>> => i = 1)
          BY <1>1, <2>1, <3>3
        <4> QED
          BY <1>7, <4>1
      <3> QED
        BY <3>1, <3>2, <3>3
    <2>3. apc' = "sending" => tsent' > 0
      BY <1>0, <1>7 DEF DownLink
    <2> QED
      BY <2>2, <2>3 DEF DownLink
  <1>8. CASE ProbeNotifies
    <2>1. UNCHANGED <<tsent, apc>> /\ a2h' \in {a2h, Append(a2h, Msg("close", 0))}
      BY <1>8 DEF ProbeNotifies
    <2>2. Msg("close", 0) \in Message /\ Msg("close", 0).kind = "close"
      BY MessageType
    <2> QED
      BY <1>2, <1>7, <2>1, <2>2
  <1>9. CASE Refuse \/ Answer
    <2>1. /\ UNCHANGED tsent /\ apc \in {"refusing", "answering"} /\ apc' # "sending"
          /\ a2h' \in {a2h, Append(a2h, Msg("failed", 0)), Append(a2h, Msg("ok", 0))}
      BY <1>9 DEF Refuse, Answer
    <2>2. /\ Msg("failed", 0) \in Message /\ Msg("failed", 0).kind = "failed"
          /\ Msg("ok", 0) \in Message /\ Msg("ok", 0).kind = "ok"
      BY MessageType
    <2>3. a2h = <<>>
      BY <1>0, <2>1 DEF Unanswered
    <2> QED
      BY <1>2, <1>7, <2>1, <2>2, <2>3
  <1>10. CASE SendDown
    <2>1. /\ UNCHANGED tsent /\ apc = "sending" /\ apc' # "sending"
          /\ a2h' \in {a2h, Append(a2h, Msg("data", tsent))}
      BY <1>10 DEF SendDown
    <2>2. /\ Msg("data", tsent) \in Message /\ Msg("data", tsent).kind = "data"
          /\ Msg("data", tsent).chunk = tsent
      BY <1>1, MessageType
    <2>3. tsent \in 1..tsent
      BY <1>0, <1>1, <2>1 DEF DownLink
    <2> QED
      BY <1>2, <1>7, <2>1, <2>2, <2>3
  <1>11. CASE HostReceives
    <2>1. a2h # <<>> /\ a2h' = Tail(a2h) /\ UNCHANGED <<tsent, apc>>
      BY <1>11 DEF HostReceives
    <2>2. /\ Len(a2h') = Len(a2h) - 1 /\ Len(a2h) \in Nat \ {0}
          /\ \A i \in 1..(Len(a2h) - 1) : a2h'[i] = a2h[i + 1]
      BY <1>1, <2>1, Taken
    <2>3. ASSUME NEW i \in 1..Len(a2h')
          PROVE  /\ a2h'[i].kind = "data" => a2h'[i].chunk \in 1..tsent'
                 /\ a2h'[i].kind \in {"data", "close"}
      <3>1. i + 1 \in 1..Len(a2h) /\ i + 1 # 1 /\ a2h'[i] = a2h[i + 1]
        BY <2>2
      <3> QED
        BY <1>0, <2>1, <3>1 DEF DownLink
    <2> QED
      BY <1>0, <2>1, <2>3 DEF DownLink
  <1>12. CASE LinkLost
    <2>1. Len(a2h') = 0 /\ UNCHANGED <<tsent, apc>>
      BY <1>12 DEF LinkLost
    <2> QED
      BY <1>0, <2>1 DEF DownLink
  <1> QED
    BY <1>3, <1>4, <1>5, <1>6, <1>8, <1>9, <1>10, <1>11, <1>12 DEF Next, HostReadPump, ProbeOpen

\* Every step keeps the reader in step with its handler.
LEMMA ReaderStep ==
    ASSUME TunnelInv, [Next]_vars
    PROVE  ReaderFits'
  <1> USE DEF hvars, cvars, lvars, avars, tvars
  <1>0. ReaderFits /\ csent \in Nat
    BY Numbers DEF TunnelInv
  <1>1. CASE HostHandler \/ HostReader \/ ReadClient
    <2>1. CASE \/ AwaitOpened \/ AwaitRefused \/ AwaitTimeout \/ AwaitDone \/ EstablishFails
               \/ StartDrain \/ Join
      <3>1. /\ UNCHANGED <<rdr, csent>>
            /\ hpc \in {"waiting", "establishing"} \/ hpc' \notin {"waiting", "establishing"}
        BY <2>1 DEF AwaitOpened, AwaitRefused, AwaitTimeout, AwaitDone, EstablishFails, StartDrain,
                    Join
      <3> QED
        BY <1>0, <3>1 DEF ReaderFits
    <2>2. CASE WriteClient \/ WriteClientFails \/ DrainEnds
      <3>1. UNCHANGED <<rdr, csent>> /\ hpc' \notin {"waiting", "establishing"}
        BY <2>2 DEF WriteClient, WriteClientFails, DrainEnds
      <3> QED
        BY <1>0, <3>1 DEF ReaderFits
    <2>3. CASE Establish
      <3>1. UNCHANGED csent /\ rdr' = "reading" /\ hpc' = "pumping"
        BY <2>3 DEF Establish
      <3> QED
        BY <3>1 DEF ReaderFits
    <2>4. CASE SendUp \/ ReadClientEnds
      <3>1. UNCHANGED <<csent, hpc>> /\ rdr # "none" /\ rdr' \in {"reading", "ended"}
        BY <2>4 DEF SendUp, ReadClientEnds
      <3> QED
        BY <1>0, <3>1 DEF ReaderFits
    <2>5. CASE ReadClient
      <3>1. csent' = csent + 1 /\ hpc' = hpc /\ rdr = "reading" /\ rdr' = "sending"
        BY <2>5 DEF ReadClient
      <3> QED
        BY <1>0, <3>1 DEF ReaderFits
    <2> QED
      BY <1>1, <2>1, <2>2, <2>3, <2>4, <2>5 DEF HostHandler, HostReader
  <1>2. CASE HostReadPump \/ HostNotifies \/ HostFinishes \/ Deadline \/ UNCHANGED vars
    <2>1. UNCHANGED <<rdr, csent, hpc>>
      BY <1>2 DEF HostReadPump, HostReceives, Deliver, DeliverDone, DeliverTimeout, HostFinishes,
                  HostNotifies, Deadline, vars
    <2> QED
      BY <1>0, <2>1 DEF ReaderFits
  <1>3. CASE \/ ProbeReceives \/ ProbeOpen \/ ReadTarget \/ ProbeWriteLoop \/ ProbeNotifies
             \/ DropAll \/ ClientHangsUp \/ TargetCloses \/ LinkLost
    <2>1. UNCHANGED <<rdr, csent, hpc>>
      BY <1>3 DEF ProbeReceives, ProbeOpen, Dialed, DialFails, Refuse, SetConn, Answer, SendDown,
                  ReadTargetEnds, ReadTarget, ProbeWriteLoop, WriteTarget, WriteTargetFails,
                  ProbeNotifies, DropAll, ClientHangsUp, TargetCloses, LinkLost
    <2> QED
      BY <1>0, <2>1 DEF ReaderFits
  <1> QED
    BY <1>1, <1>2, <1>3 DEF Next

\* Every step keeps the client's fate in step with its handler.
LEMMA FateStep ==
    ASSUME TunnelInv, [Next]_vars
    PROVE  FateFits'
  <1> USE DEF hvars, cvars, lvars, avars, tvars
  <1>0. FateFits /\ CloseIsLast /\ TypeOK
    BY DEF TunnelInv
  <1>1. ASSUME UNCHANGED <<copen, fate>>, acause => acause',
               \/ hpc' = hpc
               \/ hpc = "waiting" /\ hpc' = "establishing"
               \/ hpc \in {"waiting", "establishing", "joining"} /\ hpc' = "ended"
               \/ hpc = "pumping" /\ hpc' = "draining"
        PROVE  FateFits'
    BY <1>0, <1>1 DEF FateFits, Active
  <1>2. CASE \/ AwaitOpened \/ AwaitRefused \/ AwaitTimeout \/ AwaitDone \/ EstablishFails
             \/ StartDrain \/ Join
    <2>1. /\ UNCHANGED <<copen, fate, acause>>
          /\ \/ hpc = "waiting" /\ hpc' = "establishing"
             \/ hpc \in {"waiting", "establishing", "joining"} /\ hpc' = "ended"
             \/ hpc = "pumping" /\ hpc' = "draining"
      BY <1>2 DEF AwaitOpened, AwaitRefused, AwaitTimeout, AwaitDone, EstablishFails, StartDrain,
                  Join
    <2> QED
      BY <1>1, <2>1
  <1>3. CASE Establish
    <2>1. /\ copen' = TRUE /\ fate' = fate /\ hpc = "establishing" /\ hpc' = "pumping"
      BY <1>3 DEF Establish
    <2> QED
      BY <1>0, <2>1 DEF FateFits
  <1>4. CASE WriteClient \/ HostReader \/ ReadClient
    <2>1. UNCHANGED <<copen, fate, acause, hpc>>
      BY <1>4 DEF WriteClient, HostReader, SendUp, ReadClientEnds, ReadClient
    <2> QED
      BY <1>1, <2>1
  <1>5. CASE WriteClientFails
    <2>1. copen' = FALSE /\ fate' = "cut" /\ hpc' = "joining"
      BY <1>5 DEF WriteClientFails
    <2> QED
      BY <2>1 DEF FateFits
  <1>6. CASE DrainEnds
    <2>1. copen' = FALSE /\ fate' = FateNow /\ hpc' = "joining" /\ acause' = acause
      BY <1>6 DEF DrainEnds
    <2>2. fate' = "eof" => acause'
      BY <2>1 DEF FateNow
    <2> QED
      BY <2>1, <2>2 DEF FateFits, Active
  <1>7. CASE Deadline
    <2>1. copen' = FALSE /\ fate' = "cut" /\ hpc' = hpc /\ hpc \in {"pumping", "draining"}
      BY <1>7 DEF Deadline
    <2> QED
      BY <2>1 DEF FateFits
  <1>8. CASE HostReadPump \/ HostNotifies \/ HostFinishes \/ UNCHANGED vars
    <2>1. UNCHANGED <<copen, fate, acause, hpc>>
      BY <1>8 DEF HostReadPump, HostReceives, Deliver, DeliverDone, DeliverTimeout, HostFinishes,
                  HostNotifies, vars
    <2> QED
      BY <1>1, <2>1
  <1>9. ASSUME NEW n \in BOOLEAN, NEW e \in BOOLEAN, Drop(n, e) PROVE acause => acause'
    <2>1. acause => ~tab
      BY <1>0 DEF CloseIsLast
    <2> QED
      BY <1>9, <2>1 DEF Drop
  <1>10. CASE DialFails \/ ReadTargetEnds \/ WriteTargetFails \/ DropAll
    <2>1. UNCHANGED <<copen, fate, hpc>> /\ \E n \in BOOLEAN, e \in BOOLEAN : Drop(n, e)
      BY <1>10 DEF DialFails, ReadTargetEnds, WriteTargetFails, DropAll
    <2> QED
      BY <1>1, <1>9, <2>1
  <1>11. CASE ProbeReceives
    <2>1. UNCHANGED <<copen, fate, hpc>>
      BY <1>11 DEF ProbeReceives
    <2>2. UNCHANGED acause \/ \E n \in BOOLEAN, e \in BOOLEAN : Drop(n, e)
      BY <1>11 DEF ProbeReceives, Write
    <2> QED
      BY <1>1, <1>9, <2>1, <2>2
  <1>12. CASE Answer \/ SendDown
    <2>1. UNCHANGED <<copen, fate, hpc>>
      BY <1>12 DEF Answer, SendDown
    <2>2. UNCHANGED acause \/ \E n \in BOOLEAN, e \in BOOLEAN : Drop(n, e)
      BY <1>12 DEF Answer, SendDown
    <2> QED
      BY <1>1, <1>9, <2>1, <2>2
  <1>13. CASE \/ Dialed \/ Refuse \/ SetConn \/ ReadTarget \/ WriteTarget \/ ProbeNotifies
              \/ ClientHangsUp \/ TargetCloses \/ LinkLost
    <2>1. UNCHANGED <<copen, fate, hpc, acause>>
      BY <1>13 DEF Dialed, Refuse, SetConn, ReadTarget, WriteTarget, ProbeNotifies, ClientHangsUp,
                   TargetCloses, LinkLost
    <2> QED
      BY <1>1, <2>1
  <1> QED
    BY <1>2, <1>3, <1>4, <1>5, <1>6, <1>7, <1>8, <1>10, <1>11, <1>12, <1>13
       DEF Next, HostHandler, ProbeOpen, ProbeWriteLoop

\* Until the probe has answered, no step moves data.
LEMMA UnansweredStep ==
    ASSUME TunnelInv, [Next]_vars
    PROVE  Unanswered'
  <1> USE DEF hvars, cvars, lvars, avars, tvars
  <1> DEFINE Early == {"none", "dialing", "dialed", "refusing", "answering"}
  <1>0. TypeOK /\ Unanswered /\ UpLink /\ ReaderFits
    BY DEF TunnelInv
  <1> SUFFICES ASSUME apc' \in Early
               PROVE  /\ a2h' = <<>> /\ ~anote' /\ ~acause' /\ hcause' # "agent"
                      /\ writes' = <<>> /\ tgot' = <<>> /\ tsent' = 0
                      /\ opened' = "empty" /\ inb' = <<>> /\ hand' = 0 /\ cgot' = <<>>
                      /\ rdr' = "none" /\ hpc' \in {"waiting", "ended"}
    BY DEF Unanswered
  <1>1. apc \in Early
    <2>1. CASE ProbeReceives
      <3>1. /\ h2a # <<>> /\ (Head(h2a).kind = "open" \/ apc' = apc)
        BY <2>1 DEF ProbeReceives
      <3>2. h2a \in Seq(Message)
        BY <1>0, Numbers
      <3>3. Head(h2a) = h2a[1] /\ 1 \in 1..Len(h2a)
        BY <3>1, <3>2, Taken
      <3> QED
        BY <1>0, <3>1, <3>3 DEF UpLink
    <2>2. CASE ProbeOpen \/ ReadTarget
      BY <2>2 DEF ProbeOpen, Dialed, DialFails, Refuse, SetConn, Answer, SendDown, ReadTargetEnds,
                  ReadTarget
    <2>3. CASE HostHandler
      BY <2>3 DEF HostHandler, AwaitOpened, AwaitRefused, AwaitTimeout, AwaitDone, EstablishFails,
                  Establish, WriteClient, WriteClientFails, StartDrain, DrainEnds, Join
    <2>4. CASE \/ HostReader \/ ReadClient \/ HostReadPump \/ HostNotifies \/ HostFinishes
               \/ Deadline
      BY <2>4 DEF HostReader, SendUp, ReadClientEnds, ReadClient, HostReadPump, HostReceives,
                  Deliver, DeliverDone, DeliverTimeout, HostFinishes, HostNotifies, Deadline
    <2>5. CASE \/ ProbeWriteLoop \/ ProbeNotifies \/ DropAll \/ ClientHangsUp \/ TargetCloses
               \/ LinkLost \/ UNCHANGED vars
      BY <2>5 DEF ProbeWriteLoop, WriteTarget, WriteTargetFails, ProbeNotifies, DropAll,
                  ClientHangsUp, TargetCloses, LinkLost, vars
    <2> QED
      BY <2>1, <2>2, <2>3, <2>4, <2>5 DEF Next
  <1>2. /\ a2h = <<>> /\ ~anote /\ ~acause /\ hcause # "agent"
        /\ writes = <<>> /\ tgot = <<>> /\ tsent = 0
        /\ opened = "empty" /\ inb = <<>> /\ hand = 0 /\ cgot = <<>>
        /\ rdr = "none" /\ hpc \in {"waiting", "ended"} /\ csent = 0
    BY <1>0, <1>1 DEF Unanswered, ReaderFits
  <1> HIDE DEF Early
  <1>3. ASSUME NEW c \in Causes \ {"agent"}, NEW b \in BOOLEAN, Finish(c, b)
        PROVE  hcause' # "agent"
    BY <1>0, <1>2, <1>3, Finished DEF TypeOK
  <1>4. CASE AwaitTimeout
    <2>1. hcause' # "agent"
      BY <1>3, <1>4 DEF AwaitTimeout, Causes
    <2> QED
      BY <1>2, <1>4, <2>1 DEF AwaitTimeout
  <1>5. CASE AwaitDone
    BY <1>2, <1>5 DEF AwaitDone
  <1>6. CASE HostNotifies \/ ClientHangsUp \/ TargetCloses \/ UNCHANGED vars
    BY <1>2, <1>6 DEF HostNotifies, ClientHangsUp, TargetCloses, vars
  <1>7. CASE HostFinishes
    <2>1. hcause' # "agent"
      BY <1>3, <1>7 DEF HostFinishes, Causes
    <2> QED
      BY <1>2, <1>7, <2>1 DEF HostFinishes
  <1>8. ASSUME Drop(FALSE, FALSE) PROVE writes' = <<>> /\ ~anote' /\ ~acause'
    BY <1>2, <1>8 DEF Drop
  <1>9. CASE ProbeReceives
    <2>1. h2a # <<>> /\ h2a \in Seq(Message)
      BY <1>0, <1>9, Numbers DEF ProbeReceives
    <2>2. Head(h2a) = h2a[1] /\ 1 \in 1..Len(h2a)
      BY <2>1, Taken
    <2>3. Head(h2a).kind # "data"
      BY <1>0, <1>2, <2>2 DEF UpLink
    <2>4. writes' = <<>> /\ ~anote' /\ ~acause'
      <3>1. UNCHANGED <<anote, acause, writes>> \/ Drop(FALSE, FALSE)
        BY <1>9, <2>3 DEF ProbeReceives
      <3>2. CASE UNCHANGED <<anote, acause, writes>>
        <4>1. writes' = <<>>
          BY <1>2, <3>2
        <4>2. anote' = anote /\ acause' = acause
          BY <3>2
        <4> QED
          BY <1>2, <4>1, <4>2
      <3> QED
        BY <1>8, <3>1, <3>2
    <2>5. UNCHANGED <<hcause, tgot, tsent, opened, inb, hand, cgot, rdr, hpc, a2h>>
      BY <1>9 DEF ProbeReceives
    <2> QED
      BY <1>2, <2>4, <2>5
  <1>10. CASE DialFails \/ DropAll
    <2>1. /\ UNCHANGED <<hcause, tgot, tsent, opened, inb, hand, cgot, rdr, hpc, a2h>>
          /\ Drop(FALSE, FALSE)
      BY <1>10 DEF DialFails, DropAll
    <2> QED
      BY <1>2, <1>8, <2>1
  <1>11. CASE Dialed \/ SetConn
    BY <1>2, <1>11 DEF Dialed, SetConn
  <1>12. CASE LinkLost
    BY <1>2, <1>12 DEF LinkLost
  <1>13. ~(\/ AwaitOpened \/ AwaitRefused \/ Establish \/ EstablishFails \/ WriteClient
           \/ WriteClientFails \/ StartDrain \/ DrainEnds \/ Join \/ Deadline)
    BY <1>2 DEF AwaitOpened, AwaitRefused, Establish, EstablishFails, WriteClient,
                WriteClientFails, StartDrain, DrainEnds, Join, Deadline
  <1>14. ~(HostReader \/ ReadClient \/ HostReadPump)
    BY <1>2 DEF HostReader, SendUp, ReadClientEnds, ReadClient, HostReadPump, HostReceives, Deliver,
                DeliverDone, DeliverTimeout
  <1>15. ~(\/ Refuse \/ Answer \/ SendDown \/ ReadTargetEnds \/ ReadTarget \/ ProbeWriteLoop
           \/ ProbeNotifies)
    BY <1>1, <1>2 DEF Early, Refuse, Answer, SendDown, ReadTargetEnds, ReadTarget, ProbeWriteLoop,
                      WriteTarget, WriteTargetFails, ProbeNotifies
  <1> QED
    BY <1>4, <1>5, <1>6, <1>7, <1>9, <1>10, <1>11, <1>12, <1>13, <1>14, <1>15
       DEF Next, HostHandler, ProbeOpen

-----------------------------------------------------------------------------
(* From the target to the client                                              *)

\* What is known of the stream to the client.
LEMMA DownFacts ==
    ASSUME TunnelInv
    PROVE  /\ TypeOK /\ DownInOrder /\ DownLink /\ Unanswered /\ CloseIsLast
           /\ a2h \in Seq(Message) /\ inb \in Seq(Nat) /\ cgot \in Seq(Nat)
           /\ Len(a2h) \in Nat /\ Len(inb) \in Nat /\ Len(cgot) \in Nat
           /\ hand \in Nat /\ tsent \in Nat /\ DownTaken \in Nat /\ Unread \in 0..1
           /\ (hand = 0 => DownTaken = Len(cgot) + Len(inb))
           /\ (hand # 0 => DownTaken = Len(cgot) + Len(inb) + 1)
           /\ (a2h = <<>> => Unread = 0)
           /\ Unread <= Len(a2h)
  <1>1. /\ TypeOK /\ DownInOrder /\ DownLink /\ Unanswered /\ CloseIsLast
    BY DEF TunnelInv
  <1>2. /\ a2h \in Seq(Message) /\ inb \in Seq(Nat) /\ cgot \in Seq(Nat)
        /\ Len(a2h) \in Nat /\ Len(inb) \in Nat /\ Len(cgot) \in Nat
        /\ hand \in Nat /\ tsent \in Nat /\ DownTaken \in Nat /\ Unread \in 0..1
    BY <1>1, Numbers
  <1>3. /\ (hand = 0 => DownTaken = Len(cgot) + Len(inb))
        /\ (hand # 0 => DownTaken = Len(cgot) + Len(inb) + 1)
    BY <1>2 DEF DownTaken, One
  <1>4. (a2h = <<>> => Unread = 0)
    BY DEF Unread, One
  <1>5. Unread <= Len(a2h)
    BY <1>2, <1>4
  <1> QED
    BY <1>1, <1>2, <1>3, <1>4, <1>5

\* Steps that leave the stream alone, or end it on one side.
LEMMA DownSame ==
    ASSUME TunnelInv, UNCHANGED <<cgot, inb, hand, tsent, a2h, up>>, Active' => Active, htab' => htab,
           apc' = apc \/ apc' \notin {"reading", "sending"}
    PROVE  DownInOrder'
  <1>1. DownTaken' = DownTaken /\ Unread' = Unread
    BY DEF DownTaken, Unread
  <1>2. DownInOrder
    BY DEF TunnelInv
  <1>3. /\ \A i \in 1..Len(cgot') : cgot'[i] = i
        /\ Len(cgot') <= tsent' /\ hand' <= tsent' /\ \A i \in 1..Len(inb') : inb'[i] <= tsent'
    BY <1>2 DEF DownInOrder
  <1>4. Active' => /\ \A i \in 1..Len(inb') : inb'[i] = Len(cgot') + i
                   /\ hand' # 0 => hand' = DownTaken'
    BY <1>1, <1>2 DEF DownInOrder
  <1>5. ASSUME Active', htab'
        PROVE  /\ Follows(a2h', Unread', DownTaken')
               /\ up' /\ apc' \in {"reading", "sending"} /\ NoClose(a2h', Len(a2h'))
                    => tsent' = DownTaken' + Len(a2h') - Unread' + One(apc' = "sending")
    <2>1. Active /\ htab
      BY <1>5
    <2>2. Follows(a2h', Unread', DownTaken')
      BY <1>1, <1>2, <2>1 DEF DownInOrder
    <2>3. CASE apc' = apc
      BY <1>1, <1>2, <2>1, <2>2, <2>3 DEF DownInOrder
    <2>4. CASE apc' \notin {"reading", "sending"}
      BY <2>2, <2>4
    <2> QED
      BY <2>3, <2>4
  <1> QED
    BY <1>3, <1>4, <1>5 DEF DownInOrder

\* The client is written the next chunk.
LEMMA DownWrites ==
    ASSUME TunnelInv, WriteClient
    PROVE  /\ DownInOrder' /\ DownTaken' = DownTaken
           /\ Head(inb) = Len(cgot) + 1 /\ Len(cgot) < tsent
           /\ Len(cgot') + Len(inb') = Len(cgot) + Len(inb)
  <1>0. /\ inb # <<>> /\ inb' = Tail(inb) /\ cgot' = Append(cgot, Head(inb)) /\ Active
        /\ UNCHANGED <<hpc, hand, tsent, a2h, up, htab, apc>>
    BY DEF WriteClient, lvars, avars, tvars, Active
  <1>1. /\ DownInOrder /\ inb \in Seq(Nat) /\ cgot \in Seq(Nat) /\ Len(cgot) \in Nat /\ tsent \in Nat
        /\ hand \in Nat
    BY DownFacts
  <1>2. /\ Len(inb') = Len(inb) - 1 /\ Len(inb) \in Nat \ {0}
        /\ \A i \in 1..(Len(inb) - 1) : inb'[i] = inb[i + 1]
        /\ Head(inb) = inb[1] /\ Head(inb) \in Nat
    BY <1>0, <1>1, Taken
  <1>3. /\ Len(cgot') = Len(cgot) + 1 /\ \A i \in 1..Len(cgot) : cgot'[i] = cgot[i]
        /\ cgot'[Len(cgot) + 1] = Head(inb)
    BY <1>0, <1>1, <1>2, Appended
  <1>4. Head(inb) = Len(cgot) + 1 /\ Head(inb) <= tsent
    BY <1>0, <1>1, <1>2 DEF DownInOrder
  <1>5. Len(cgot') + Len(inb') = Len(cgot) + Len(inb)
    BY <1>1, <1>2, <1>3
  <1>6. DownTaken' = DownTaken /\ Unread' = Unread /\ Active'
    BY <1>0, <1>5 DEF DownTaken, Unread, Active
  <1>7. ASSUME NEW i \in 1..Len(cgot') PROVE cgot'[i] = i
    <2>1. i \in 1..Len(cgot) \/ i = Len(cgot) + 1
      BY <1>1, <1>3
    <2> QED
      BY <1>1, <1>3, <1>4, <2>1 DEF DownInOrder
  <1>8. ASSUME NEW i \in 1..Len(inb') PROVE inb'[i] = Len(cgot') + i /\ inb'[i] <= tsent'
    <2>1. i \in 1..(Len(inb) - 1) /\ i + 1 \in 1..Len(inb)
      BY <1>2
    <2>2. inb'[i] = inb[i + 1]
      BY <1>2, <2>1
    <2>3. inb[i + 1] = Len(cgot) + (i + 1) /\ inb[i + 1] <= tsent
      BY <1>0, <1>1, <2>1 DEF DownInOrder
    <2> QED
      BY <1>0, <1>1, <1>3, <2>2, <2>3
  <1>9. Len(cgot') <= tsent' /\ hand' <= tsent' /\ (hand' # 0 => hand' = DownTaken')
    BY <1>0, <1>1, <1>3, <1>4, <1>6 DEF DownInOrder
  <1>10. htab' => /\ Follows(a2h', Unread', DownTaken')
                  /\ up' /\ apc' \in {"reading", "sending"} /\ NoClose(a2h', Len(a2h'))
                       => tsent' = DownTaken' + Len(a2h') - Unread' + One(apc' = "sending")
    BY <1>0, <1>1, <1>6 DEF DownInOrder
  <1>11. DownInOrder'
    BY <1>7, <1>8, <1>9, <1>10 DEF DownInOrder
  <1> QED
    BY <1>1, <1>4, <1>5, <1>6, <1>11

\* A chunk the client does not take is the last that is tried.
LEMMA DownWriteFails ==
    ASSUME TunnelInv, WriteClientFails
    PROVE  DownInOrder' /\ ~Active'
  <1>0. /\ inb # <<>> /\ inb' = Tail(inb) /\ hpc' = "joining"
        /\ UNCHANGED <<cgot, hand, tsent>>
    BY DEF WriteClientFails, tvars
  <1>1. DownInOrder /\ inb \in Seq(Nat)
    BY DownFacts
  <1>2. /\ Len(inb') = Len(inb) - 1 /\ Len(inb) \in Nat \ {0}
        /\ \A i \in 1..(Len(inb) - 1) : inb'[i] = inb[i + 1]
    BY <1>0, <1>1, Taken
  <1>3. ASSUME NEW i \in 1..Len(inb') PROVE inb'[i] <= tsent'
    <2>1. i \in 1..(Len(inb) - 1) /\ i + 1 \in 1..Len(inb)
      BY <1>2
    <2> QED
      BY <1>0, <1>1, <1>2, <2>1 DEF DownInOrder
  <1>4. ~Active'
    BY <1>0 DEF Active
  <1> QED
    BY <1>0, <1>1, <1>3, <1>4 DEF DownInOrder

\* The chunk that readPump holds joins the queue, and keeps its place.
LEMMA DownDelivers ==
    ASSUME TunnelInv, Deliver
    PROVE  DownInOrder' /\ DownTaken' = DownTaken
  <1>0. /\ hand # 0 /\ hand' = 0 /\ inb' = Append(inb, hand)
        /\ UNCHANGED <<hpc, cgot, tsent, a2h, up, htab, apc>>
    BY DEF Deliver, cvars, lvars, avars, tvars
  <1>1. /\ DownInOrder /\ inb \in Seq(Nat) /\ Len(inb) \in Nat /\ Len(cgot) \in Nat /\ hand \in Nat
        /\ tsent \in Nat /\ DownTaken = Len(cgot) + Len(inb) + 1
    BY <1>0, DownFacts
  <1>2. /\ Len(inb') = Len(inb) + 1 /\ inb'[Len(inb) + 1] = hand
        /\ \A i \in 1..Len(inb) : inb'[i] = inb[i]
    BY <1>0, <1>1, Appended
  <1>3. DownTaken' = DownTaken /\ Unread' = Unread /\ (Active' <=> Active)
    BY <1>0, <1>1, <1>2 DEF DownTaken, Unread, Active, One
  <1>4. ASSUME NEW i \in 1..Len(inb')
        PROVE  inb'[i] <= tsent' /\ (Active' => inb'[i] = Len(cgot') + i)
    <2>1. i \in 1..Len(inb) \/ i = Len(inb) + 1
      BY <1>1, <1>2
    <2>2. CASE i \in 1..Len(inb)
      BY <1>0, <1>1, <1>2, <1>3, <2>2 DEF DownInOrder
    <2>3. CASE i = Len(inb) + 1
      BY <1>0, <1>1, <1>2, <1>3, <2>3 DEF DownInOrder
    <2> QED
      BY <2>1, <2>2, <2>3
  <1>5. ASSUME Active', htab'
        PROVE  /\ Follows(a2h', Unread', DownTaken')
               /\ up' /\ apc' \in {"reading", "sending"} /\ NoClose(a2h', Len(a2h'))
                    => tsent' = DownTaken' + Len(a2h') - Unread' + One(apc' = "sending")
    BY <1>0, <1>1, <1>3, <1>5 DEF DownInOrder
  <1>6. /\ \A i \in 1..Len(cgot') : cgot'[i] = i
        /\ Len(cgot') <= tsent' /\ hand' <= tsent'
    BY <1>0, <1>1 DEF DownInOrder
  <1>7. DownInOrder'
    BY <1>0, <1>4, <1>5, <1>6 DEF DownInOrder
  <1> QED
    BY <1>3, <1>7

\* A chunk is thrown away only when the tunnel has left the host's table.
LEMMA DownDiscards ==
    ASSUME TunnelInv, UNCHANGED <<cgot, inb, tsent, hpc>>, hand' = 0, htab' = FALSE
    PROVE  DownInOrder'
  <1>1. DownInOrder /\ tsent \in Nat
    BY DownFacts
  <1>2. Active' <=> Active
    BY DEF Active
  <1> QED
    BY <1>1, <1>2 DEF DownInOrder

\* The probe sends: its answer, a chunk in its turn, or a close.
LEMMA DownSends ==
    ASSUME TunnelInv, NEW x \in Message, a2h' = Append(a2h, x), up, up' = up,
           UNCHANGED <<cgot, inb, hand, tsent, hpc, htab>>,
           \/ x.kind = "close" /\ apc' = apc
           \/ x.kind = "data" /\ x.chunk = tsent /\ apc = "sending" /\ apc' = "reading"
           \/ x.kind = "ok" /\ apc = "answering" /\ apc' = "reading"
           \/ x.kind = "failed" /\ apc = "refusing" /\ apc' = "ended"
    PROVE  DownInOrder' /\ Unread' = Unread + One(x.kind \in {"ok", "failed"})
  <1>0. /\ TypeOK /\ DownInOrder /\ Unanswered /\ DownLink
        /\ a2h \in Seq(Message) /\ Len(a2h) \in Nat /\ DownTaken \in Nat /\ Unread \in 0..1
        /\ tsent \in Nat /\ Unread <= Len(a2h) /\ (a2h = <<>> => Unread = 0)
    BY DownFacts
  <1>1. DownTaken' = DownTaken /\ (Active' <=> Active)
    BY DEF DownTaken, Active
  <1>2. /\ Len(a2h') = Len(a2h) + 1 /\ a2h'[Len(a2h) + 1] = x
        /\ \A i \in 1..Len(a2h) : a2h'[i] = a2h[i]
    BY <1>0, Appended
  <1>3. NoClose(a2h', Len(a2h) + 1) <=> (NoClose(a2h, Len(a2h)) /\ x.kind # "close")
    BY <1>0, NoCloseAppended
  <1>4. x.kind \in {"ok", "failed"} => a2h = <<>> /\ DownTaken = 0 /\ tsent = 0
    <2> SUFFICES ASSUME x.kind \in {"ok", "failed"}
                 PROVE  a2h = <<>> /\ DownTaken = 0 /\ tsent = 0
      OBVIOUS
    <2>1. apc \in {"answering", "refusing"}
      OBVIOUS
    <2>2. a2h = <<>> /\ tsent = 0 /\ inb = <<>> /\ hand = 0 /\ cgot = <<>>
      BY <1>0, <2>1 DEF Unanswered
    <2> QED
      BY <2>2 DEF DownTaken, One
  <1>5. Unread' = Unread + One(x.kind \in {"ok", "failed"})
    <2>1. CASE a2h = <<>>
      <3>1. Len(a2h) = 0
        BY <2>1
      <3>2. a2h'[1] = x /\ a2h' # <<>>
        BY <1>0, <1>2, <3>1
      <3> QED
        BY <1>0, <2>1, <3>2 DEF Unread, One
    <2>2. CASE a2h # <<>>
      <3>1. 1 \in 1..Len(a2h) /\ a2h' # <<>>
        BY <1>0, <1>2, <2>2
      <3>2. a2h'[1] = a2h[1] /\ x.kind \notin {"ok", "failed"}
        BY <1>2, <1>4, <2>2, <3>1
      <3> QED
        BY <2>2, <3>1, <3>2 DEF Unread, One
    <2> QED
      BY <2>1, <2>2
  <1>6. /\ \A i \in 1..Len(cgot') : cgot'[i] = i
        /\ Len(cgot') <= tsent' /\ hand' <= tsent' /\ \A i \in 1..Len(inb') : inb'[i] <= tsent'
        /\ Active' => /\ \A i \in 1..Len(inb') : inb'[i] = Len(cgot') + i
                      /\ hand' # 0 => hand' = DownTaken'
    BY <1>0, <1>1 DEF DownInOrder
  <1>7. ASSUME Active', htab'
        PROVE  /\ Follows(a2h', Unread', DownTaken')
               /\ up' /\ apc' \in {"reading", "sending"} /\ NoClose(a2h', Len(a2h'))
                    => tsent' = DownTaken' + Len(a2h') - Unread' + One(apc' = "sending")
    <2>0. Active /\ htab /\ Follows(a2h, Unread, DownTaken)
      BY <1>0, <1>1, <1>7 DEF DownInOrder
    <2>1. CASE x.kind \in {"ok", "failed"}
      <3>1. Len(a2h) = 0 /\ Unread' = 1 /\ Len(a2h') = 1 /\ DownTaken' = 0 /\ tsent' = 0
        BY <1>0, <1>1, <1>2, <1>4, <1>5, <2>1 DEF One
      <3>2. Follows(a2h', Unread', DownTaken')
        BY <3>1 DEF Follows
      <3>3. apc' # "sending"
        BY <2>1
      <3> QED
        BY <3>1, <3>2, <3>3 DEF One
    <2>2. CASE x.kind = "close"
      <3>1. Unread' = Unread
        BY <1>0, <1>5, <2>2 DEF One
      <3>2. Follows(a2h', Unread', DownTaken')
        BY <1>0, <1>1, <2>0, <2>2, <3>1, FollowsAppended
      <3>3. ~NoClose(a2h', Len(a2h'))
        BY <1>2, <1>3, <2>2
      <3> QED
        BY <3>2, <3>3
    <2>3. CASE x.kind = "data"
      <3>1. Unread' = Unread /\ x.chunk = tsent /\ apc = "sending" /\ apc' = "reading"
        BY <1>0, <1>5, <2>3 DEF One
      <3>2. NoClose(a2h, Len(a2h)) => tsent = DownTaken + Len(a2h) + 1 - Unread
        BY <1>0, <2>0, <3>1 DEF DownInOrder, One
      <3>3. Follows(a2h', Unread', DownTaken')
        BY <1>0, <1>1, <2>0, <3>1, <3>2, FollowsAppended
      <3>4. NoClose(a2h', Len(a2h'))
              => tsent' = DownTaken' + Len(a2h') - Unread' + One(apc' = "sending")
        BY <1>0, <1>1, <1>2, <1>3, <3>1, <3>2 DEF One
      <3> QED
        BY <3>3, <3>4
    <2> QED
      BY <2>1, <2>2, <2>3
  <1> QED
    BY <1>5, <1>6, <1>7 DEF DownInOrder

\* The probe reads one more chunk from the target.
LEMMA DownReads ==
    ASSUME TunnelInv, ReadTarget
    PROVE  DownInOrder'
  <1>0. /\ apc = "reading" /\ apc' = "sending" /\ tsent' = tsent + 1
        /\ UNCHANGED <<cgot, inb, hand, a2h, up, hpc, htab>>
    BY DEF ReadTarget, hvars, cvars, lvars
  <1>1. /\ DownInOrder /\ tsent \in Nat /\ DownTaken \in Nat /\ Unread \in 0..1 /\ Len(a2h) \in Nat
        /\ Len(cgot) \in Nat /\ hand \in Nat /\ inb \in Seq(Nat)
    BY DownFacts
  <1>2. DownTaken' = DownTaken /\ Unread' = Unread /\ (Active' <=> Active)
    BY <1>0 DEF DownTaken, Unread, Active
  <1>3. ASSUME NEW i \in 1..Len(inb) PROVE inb[i] <= tsent'
    <2>1. inb[i] \in Nat
      BY <1>1
    <2> QED
      BY <1>0, <1>1, <2>1 DEF DownInOrder
  <1>4. ASSUME Active', htab'
        PROVE  /\ Follows(a2h', Unread', DownTaken')
               /\ up' /\ NoClose(a2h', Len(a2h'))
                    => tsent' = DownTaken' + Len(a2h') - Unread' + One(apc' = "sending")
    <2>1. Follows(a2h', Unread', DownTaken')
      BY <1>0, <1>1, <1>2, <1>4 DEF DownInOrder
    <2>2. up /\ NoClose(a2h, Len(a2h)) => tsent = DownTaken + Len(a2h) - Unread + 0
      BY <1>0, <1>1, <1>2, <1>4 DEF DownInOrder, One
    <2> QED
      BY <1>0, <1>1, <1>2, <2>1, <2>2 DEF One
  <1>5. /\ \A i \in 1..Len(cgot') : cgot'[i] = i
        /\ Len(cgot') <= tsent' /\ hand' <= tsent'
        /\ Active' => /\ \A i \in 1..Len(inb') : inb'[i] = Len(cgot') + i
                      /\ hand' # 0 => hand' = DownTaken'
    BY <1>0, <1>1, <1>2 DEF DownInOrder
  <1> QED
    BY <1>0, <1>3, <1>4, <1>5 DEF DownInOrder

\* What the host finds at the head of the link, and what it leaves there.
LEMMA HostTakes ==
    ASSUME TunnelInv, HostReceives
    PROVE  /\ up /\ hand = 0 /\ a2h # <<>> /\ a2h' = Tail(a2h) /\ Head(a2h) = a2h[1]
           /\ UNCHANGED <<hpc, inb, cgot, tsent, up, apc, tab, acause, anote>>
           /\ Len(a2h) \in Nat \ {0} /\ Len(a2h') = Len(a2h) - 1 /\ Unread' = 0
           /\ (Active' <=> Active)
           /\ (Unread = 1 <=> a2h[1].kind \in {"ok", "failed"})
           /\ (a2h[1].kind # "close"
                 => (NoClose(a2h', Len(a2h')) <=> NoClose(a2h, Len(a2h))))
           /\ a2h[1].kind \in {"ok", "failed", "data", "close"} /\ a2h[1] \in Message
           /\ (a2h[1].kind = "data" => a2h[1].chunk \in 1..tsent)
  <1>0. /\ up /\ hand = 0 /\ a2h # <<>> /\ a2h' = Tail(a2h)
        /\ UNCHANGED <<hpc, inb, cgot, tsent, up, apc, tab, acause, anote>>
    BY DEF HostReceives, cvars, avars, tvars
  <1>1. DownLink /\ a2h \in Seq(Message)
    BY DownFacts
  <1>2. /\ Len(a2h) \in Nat \ {0} /\ Len(a2h') = Len(a2h) - 1
        /\ \A i \in 1..(Len(a2h) - 1) : a2h'[i] = a2h[i + 1]
        /\ Head(a2h) = a2h[1] /\ a2h[1] \in Message
    BY <1>0, <1>1, Taken
  <1>3. /\ a2h[1].kind \in {"ok", "failed", "data", "close"}
        /\ (a2h[1].kind = "data" => a2h[1].chunk \in 1..tsent)
    BY <1>1, <1>2 DEF DownLink
  <1>4. Unread' = 0
    <2>1. CASE Len(a2h) = 1
      BY <1>2, <2>1 DEF Unread, One
    <2>2. CASE Len(a2h) # 1
      <3>1. 2 \in 1..Len(a2h) /\ 2 # 1 /\ a2h'[1] = a2h[2]
        BY <1>2, <2>2
      <3>2. a2h'[1].kind \in {"data", "close"}
        BY <1>1, <3>1 DEF DownLink
      <3> QED
        BY <3>2 DEF Unread, One
    <2> QED
      BY <2>1, <2>2
  <1>5. Unread = 1 <=> a2h[1].kind \in {"ok", "failed"}
    BY <1>0 DEF Unread, One
  <1>6. ASSUME a2h[1].kind # "close" PROVE NoClose(a2h', Len(a2h')) <=> NoClose(a2h, Len(a2h))
    <2>1. Len(a2h) - 1 \in 0..(Len(a2h) - 1) /\ (Len(a2h) - 1) + 1 = Len(a2h)
      BY <1>2
    <2> QED
      BY <1>0, <1>1, <1>2, <1>6, <2>1, NoCloseTaken
  <1>7. Active' <=> Active
    BY <1>0 DEF Active
  <1> QED
    BY <1>0, <1>2, <1>3, <1>4, <1>5, <1>6, <1>7

\* The cases of what the host takes.
LEMMA HostTakesCases ==
    ASSUME TunnelInv, HostReceives
    PROVE  \/ /\ a2h[1].kind \in {"ok", "failed"} /\ Unread = 1
              /\ UNCHANGED <<hand, htab, hdone, hcause>> /\ DownTaken' = DownTaken
           \/ /\ a2h[1].kind = "data" /\ Unread = 0 /\ htab
              /\ hand' = a2h[1].chunk /\ hand' \in 1..tsent /\ UNCHANGED <<htab, hdone, hcause>>
              /\ DownTaken' = DownTaken + 1
           \/ /\ a2h[1].kind = "data" /\ ~htab /\ hand' = 0 /\ UNCHANGED <<htab, hdone, hcause>>
           \/ /\ a2h[1].kind = "close" /\ Unread = 0 /\ hand' = 0 /\ htab' = FALSE
              /\ hcause' = hcause \/ (hcause' = "agent" /\ htab)
  <1>1. /\ hand = 0 /\ Head(a2h) = a2h[1] /\ UNCHANGED <<inb, cgot>>
        /\ a2h[1].kind \in {"ok", "failed", "data", "close"}
        /\ (Unread = 1 <=> a2h[1].kind \in {"ok", "failed"})
        /\ (a2h[1].kind = "data" => a2h[1].chunk \in 1..tsent)
    BY HostTakes
  <1>2. TypeOK /\ Unread \in 0..1 /\ Len(cgot) \in Nat /\ Len(inb) \in Nat /\ tsent \in Nat
    BY DownFacts
  <1>3. CASE a2h[1].kind \in {"ok", "failed"}
    <2>1. UNCHANGED <<hand, htab, hdone, hcause>>
      BY <1>1, <1>3 DEF HostReceives
    <2>2. DownTaken' = DownTaken
      BY <1>1, <2>1 DEF DownTaken
    <2> QED
      BY <1>1, <1>3, <2>1, <2>2
  <1>4. CASE a2h[1].kind = "data"
    <2>1. UNCHANGED <<htab, hdone, hcause>> /\ hand' = IF htab THEN a2h[1].chunk ELSE 0
      BY <1>1, <1>4 DEF HostReceives
    <2>2. Unread = 0
      BY <1>1, <1>2, <1>4
    <2>3. ASSUME htab PROVE DownTaken' = DownTaken + 1 /\ hand' \in 1..tsent
      <3>1. hand' \in 1..tsent /\ hand' # 0
        BY <1>1, <1>2, <1>4, <2>1, <2>3
      <3> QED
        BY <1>1, <1>2, <3>1 DEF DownTaken, One
    <2> QED
      BY <1>4, <2>1, <2>2, <2>3
  <1>5. CASE a2h[1].kind = "close"
    <2>1. Finish("agent", FALSE) /\ hand' = 0
      BY <1>1, <1>5 DEF HostReceives
    <2>2. htab' = FALSE /\ (hcause' = hcause \/ (hcause' = "agent" /\ htab))
      BY <1>2, <2>1, Finished DEF TypeOK, Causes
    <2>3. Unread = 0
      BY <1>1, <1>2, <1>5
    <2> QED
      BY <1>5, <2>1, <2>2, <2>3
  <1> QED
    BY <1>1, <1>3, <1>4, <1>5

\* The host takes the answer, or the next chunk, or a close.
LEMMA DownTakes ==
    ASSUME TunnelInv, HostReceives
    PROVE  DownInOrder'
  <1>0. /\ DownInOrder /\ a2h \in Seq(Message) /\ DownTaken \in Nat /\ Unread \in 0..1
        /\ tsent \in Nat
    BY DownFacts
  <1>1. /\ up /\ a2h # <<>> /\ a2h' = Tail(a2h) /\ hand = 0
        /\ UNCHANGED <<hpc, inb, cgot, tsent, up, apc>>
        /\ Len(a2h) \in Nat \ {0} /\ Len(a2h') = Len(a2h) - 1 /\ Unread' = 0
        /\ (Active' <=> Active)
        /\ (a2h[1].kind # "close"
              => (NoClose(a2h', Len(a2h')) <=> NoClose(a2h, Len(a2h))))
    BY HostTakes
  <1>2. ASSUME hand' = 0, htab' = FALSE PROVE DownInOrder'
    BY <1>1, <1>2, DownDiscards
  <1>3. /\ \A i \in 1..Len(cgot') : cgot'[i] = i
        /\ Len(cgot') <= tsent' /\ \A i \in 1..Len(inb') : inb'[i] <= tsent'
        /\ Active' => \A i \in 1..Len(inb') : inb'[i] = Len(cgot') + i
    BY <1>0, <1>1 DEF DownInOrder
  <1>4. ASSUME a2h[1].kind \in {"ok", "failed"}, Unread = 1, UNCHANGED <<hand, htab>>,
               DownTaken' = DownTaken
        PROVE  DownInOrder'
    <2>1. ASSUME Active', htab'
          PROVE  /\ Follows(a2h', Unread', DownTaken')
                 /\ up' /\ apc' \in {"reading", "sending"} /\ NoClose(a2h', Len(a2h'))
                      => tsent' = DownTaken' + Len(a2h') - Unread' + One(apc' = "sending")
      <3>1. Follows(a2h, 1, DownTaken)
        BY <1>0, <1>1, <1>4, <2>1 DEF DownInOrder
      <3>2. Follows(a2h', 0, DownTaken)
        BY <1>0, <1>1, <1>4, <3>1, FollowsAnswered
      <3>3. /\ apc \in {"reading", "sending"} /\ NoClose(a2h, Len(a2h))
              => tsent = DownTaken + Len(a2h) - Unread + One(apc = "sending")
        BY <1>0, <1>1, <1>4, <2>1 DEF DownInOrder
      <3>4. One(apc' = "sending") = One(apc = "sending") /\ One(apc = "sending") \in 0..1
        BY <1>1 DEF One
      <3> QED
        BY <1>0, <1>1, <1>4, <3>2, <3>3, <3>4
    <2>2. hand' <= tsent' /\ hand' = 0
      BY <1>0, <1>1, <1>4
    <2> QED
      BY <1>3, <2>1, <2>2 DEF DownInOrder
  <1>5. ASSUME a2h[1].kind = "data", Unread = 0, htab, hand' = a2h[1].chunk, hand' \in 1..tsent,
               htab' = htab, DownTaken' = DownTaken + 1
        PROVE  DownInOrder'
    <2>1. ASSUME Active'
          PROVE  /\ hand' = DownTaken'
                 /\ Follows(a2h', Unread', DownTaken')
                 /\ up' /\ apc' \in {"reading", "sending"} /\ NoClose(a2h', Len(a2h'))
                      => tsent' = DownTaken' + Len(a2h') - Unread' + One(apc' = "sending")
      <3>1. Follows(a2h, 0, DownTaken)
        BY <1>0, <1>1, <1>5, <2>1 DEF DownInOrder
      <3>2. a2h[1].chunk = DownTaken + 1 /\ Follows(a2h', 0, DownTaken + 1)
        BY <1>0, <1>1, <1>5, <3>1, FollowsTaken
      <3>3. /\ apc \in {"reading", "sending"} /\ NoClose(a2h, Len(a2h))
              => tsent = DownTaken + Len(a2h) - Unread + One(apc = "sending")
        BY <1>0, <1>1, <1>5, <2>1 DEF DownInOrder
      <3>4. One(apc' = "sending") = One(apc = "sending") /\ One(apc = "sending") \in 0..1
        BY <1>1 DEF One
      <3> QED
        BY <1>0, <1>1, <1>5, <3>2, <3>3, <3>4
    <2>2. hand' <= tsent'
      BY <1>0, <1>1, <1>5
    <2> QED
      BY <1>3, <2>1, <2>2 DEF DownInOrder
  <1>6. htab' = FALSE \/ htab' = htab
    BY HostTakesCases
  <1>7. htab \in BOOLEAN
    BY DownFacts DEF TypeOK, HostTypes
  <1> QED
    BY <1>2, <1>4, <1>5, <1>7, HostTakesCases

\* Every step keeps the stream to the client in order.
LEMMA DownStep ==
    ASSUME TunnelInv, [Next]_vars
    PROVE  DownInOrder'
  <1> USE DEF hvars, cvars, lvars, avars, tvars
  <1>0. TypeOK /\ Unanswered /\ tsent \in Nat /\ (hdone => ~htab) /\ htab \in BOOLEAN
    BY DownFacts DEF CloseIsLast, TypeOK, HostTypes
  <1>1. CASE \/ AwaitOpened \/ AwaitRefused \/ AwaitTimeout \/ AwaitDone \/ EstablishFails
             \/ Establish \/ StartDrain \/ DrainEnds \/ Join
    <2>1. UNCHANGED <<cgot, inb, hand, tsent, a2h, up, apc>>
      BY <1>1 DEF AwaitOpened, AwaitRefused, AwaitTimeout, AwaitDone, EstablishFails,
                  Establish, StartDrain, DrainEnds, Join
    <2>2. Active' => Active
      BY <1>1 DEF AwaitOpened, AwaitRefused, AwaitTimeout, AwaitDone, EstablishFails,
                  Establish, StartDrain, DrainEnds, Join, Active
    <2>3. htab' => htab
      BY <1>0, <1>1 DEF AwaitOpened, AwaitRefused, AwaitTimeout, AwaitDone, EstablishFails,
                  Establish, StartDrain, DrainEnds, Join, Finish
    <2> QED
      BY <2>1, <2>2, <2>3, DownSame
  <1>2. CASE \/ HostReader \/ ReadClient \/ HostFinishes \/ HostNotifies \/ Deadline
             \/ ClientHangsUp \/ TargetCloses \/ UNCHANGED vars
    <2>1. UNCHANGED <<cgot, inb, hand, tsent, a2h, up, apc, hpc>>
      BY <1>2 DEF HostReader, SendUp, ReadClientEnds, ReadClient, HostFinishes, HostNotifies,
                  Deadline, ClientHangsUp, TargetCloses, vars
    <2>2. htab' => htab
      BY <1>0, <1>2 DEF HostReader, SendUp, ReadClientEnds, ReadClient, HostFinishes, HostNotifies,
                  Deadline, ClientHangsUp, TargetCloses, vars, Finish
    <2> QED
      BY <2>1, <2>2, DownSame DEF Active
  <1>3. CASE \/ Dialed \/ DialFails \/ SetConn \/ ReadTargetEnds \/ ProbeWriteLoop \/ DropAll
             \/ ProbeReceives
    <2>1. /\ UNCHANGED <<cgot, inb, hand, tsent, a2h, up, hpc, htab>>
          /\ apc' = apc \/ apc' \notin {"reading", "sending"}
      BY <1>3 DEF Dialed, DialFails, SetConn, ReadTargetEnds, ProbeWriteLoop, WriteTarget,
                  WriteTargetFails, DropAll, ProbeReceives
    <2> QED
      BY <2>1, DownSame DEF Active
  <1>4. CASE DeliverDone \/ DeliverTimeout
    <2>1. UNCHANGED <<cgot, inb, tsent, hpc>> /\ hand' = 0
      BY <1>4 DEF DeliverDone, DeliverTimeout
    <2>2. htab' = FALSE
      BY <1>0, <1>4 DEF DeliverDone, DeliverTimeout, Finish
    <2> QED
      BY <2>1, <2>2, DownDiscards
  <1>5. CASE ProbeNotifies \/ Refuse \/ Answer \/ SendDown
    <2>1. UNCHANGED <<cgot, inb, hand, tsent, up, hpc, htab>>
      BY <1>5 DEF ProbeNotifies, Refuse, Answer, SendDown
    <2>2. CASE a2h' = a2h /\ (apc' = apc \/ apc' \notin {"reading", "sending"})
      BY <2>1, <2>2, DownSame DEF Active
    <2>3. ASSUME up PROVE DownInOrder'
      <3>1. \E x \in {Msg("close", 0), Msg("data", tsent), Msg("ok", 0), Msg("failed", 0)} :
              /\ a2h' = Append(a2h, x)
              /\ \/ x = Msg("close", 0) /\ apc' = apc
                 \/ x = Msg("data", tsent) /\ apc = "sending" /\ apc' = "reading"
                 \/ x = Msg("ok", 0) /\ apc = "answering" /\ apc' = "reading"
                 \/ x = Msg("failed", 0) /\ apc = "refusing" /\ apc' = "ended"
        BY <1>5, <2>3 DEF ProbeNotifies, Refuse, Answer, SendDown
      <3>2. /\ Msg("close", 0) \in Message /\ Msg("close", 0).kind = "close"
            /\ Msg("data", tsent) \in Message /\ Msg("data", tsent).kind = "data"
            /\ Msg("data", tsent).chunk = tsent
            /\ Msg("ok", 0) \in Message /\ Msg("ok", 0).kind = "ok"
            /\ Msg("failed", 0) \in Message /\ Msg("failed", 0).kind = "failed"
        BY <1>0, MessageType
      <3> QED
        BY <2>1, <2>3, <3>1, <3>2, DownSends
    <2>4. ~up => a2h' = a2h /\ (apc' = apc \/ apc' \notin {"reading", "sending"})
      BY <1>5 DEF ProbeNotifies, Refuse, Answer, SendDown
    <2> QED
      BY <2>2, <2>3, <2>4
  <1>6. CASE LinkLost
    <2>1. UNCHANGED <<cgot, inb, hand, tsent, hpc, htab, apc>> /\ up' = FALSE /\ a2h' = <<>>
      BY <1>6 DEF LinkLost
    <2>2. DownTaken' = DownTaken /\ (Active' <=> Active) /\ Follows(a2h', Unread', DownTaken')
      BY <2>1 DEF DownTaken, Active, Follows
    <2>3. DownInOrder
      BY DownFacts
    <2> QED
      BY <2>1, <2>2, <2>3 DEF DownInOrder
  <1> QED
    BY <1>1, <1>2, <1>3, <1>4, <1>5, <1>6, DownWrites, DownWriteFails, DownDelivers, DownTakes,
       DownReads DEF Next, HostHandler, HostReadPump, ProbeOpen


-----------------------------------------------------------------------------
(* The close that ends the stream to the client                               *)

\* What is known of the close, part by part.
LEMMA CloseFacts ==
    ASSUME TunnelInv
    PROVE  /\ (acause => apc = "ended" /\ ~tab) /\ (anote => ~tab)
           /\ (tab => apc # "none" /\ NoClose(a2h, Len(a2h)) /\ hcause # "agent")
           /\ (hcause = "agent" \/ hdone => ~htab)
           /\ (acause /\ up /\ htab /\ Active =>
                 /\ anote => NoClose(a2h, Len(a2h)) /\ tsent = DownTaken + Len(a2h) - Unread
                 /\ ClosesAt(a2h, Unread, DownTaken, tsent))
           /\ (acause /\ hcause = "agent" /\ Active => hand = 0 /\ tsent = Len(cgot) + Len(inb))
           /\ htab \in BOOLEAN /\ hdone \in BOOLEAN /\ tab \in BOOLEAN /\ acause \in BOOLEAN
           /\ anote \in BOOLEAN /\ up \in BOOLEAN
  <1>1. CloseIsLast /\ TypeOK
    BY DEF TunnelInv
  <1>2. /\ htab \in BOOLEAN /\ hdone \in BOOLEAN /\ tab \in BOOLEAN /\ acause \in BOOLEAN
        /\ anote \in BOOLEAN /\ up \in BOOLEAN
    BY <1>1 DEF TypeOK, HostTypes, ProbeTypes, LinkTypes
  <1> QED
    BY <1>1, <1>2 DEF CloseIsLast

\* A finish that is not the probe's.
LEMMA FinishedHere ==
    ASSUME TunnelInv, NEW cause \in Causes \ {"agent"}, NEW notify \in BOOLEAN,
           Finish(cause, notify)
    PROVE  (htab' => htab) /\ (hcause' = hcause \/ hcause' # "agent") /\ (hdone' => hdone \/ ~htab')
           /\ htab' = FALSE
  <1>1. htab \in BOOLEAN
    BY CloseFacts
  <1> QED
    BY <1>1 DEF Finish

\* Steps that leave the end of the stream alone.
LEMMA CloseSame ==
    ASSUME TunnelInv, UNCHANGED <<tsent, a2h, up, acause>>, anote' => anote,
           apc' = apc \/ (~acause /\ apc' # "none"), tab' = tab \/ tab' = FALSE,
           hcause' = hcause \/ hcause' # "agent", htab' => htab, hdone' => hdone \/ ~htab',
           Active' => /\ Active /\ DownTaken' = DownTaken
                      /\ (hand = 0 => hand' = 0 /\ Len(cgot') + Len(inb') = Len(cgot) + Len(inb))
    PROVE  CloseIsLast'
  <1>1. Unread' = Unread
    BY DEF Unread
  <1>2. /\ (acause' => apc' = "ended" /\ ~tab') /\ (anote' => ~tab')
        /\ (hcause' = "agent" \/ hdone' => ~htab')
    BY CloseFacts
  <1>3. tab' => apc' # "none" /\ NoClose(a2h', Len(a2h')) /\ hcause' # "agent"
    BY CloseFacts
  <1>4. ASSUME acause', up', htab', Active'
        PROVE  /\ anote' => NoClose(a2h', Len(a2h')) /\ tsent' = DownTaken' + Len(a2h') - Unread'
               /\ ClosesAt(a2h', Unread', DownTaken', tsent')
    <2>1. acause /\ up /\ htab /\ Active /\ DownTaken' = DownTaken /\ a2h' = a2h /\ tsent' = tsent
      BY <1>4
    <2>2. /\ anote => NoClose(a2h, Len(a2h)) /\ tsent = DownTaken + Len(a2h) - Unread
          /\ ClosesAt(a2h, Unread, DownTaken, tsent)
      BY <2>1, CloseFacts
    <2> QED
      BY <1>1, <2>1, <2>2
  <1>5. ASSUME acause', hcause' = "agent", Active'
        PROVE  hand' = 0 /\ tsent' = Len(cgot') + Len(inb')
    <2>1. hand = 0 /\ tsent = Len(cgot) + Len(inb)
      BY <1>5, CloseFacts
    <2> QED
      BY <1>5, <2>1
  <1> QED
    BY <1>2, <1>3, <1>4, <1>5 DEF CloseIsLast

\* While the end of the stream is not reported, nothing is to be said of it.
LEMMA CloseUnreported ==
    ASSUME TunnelInv, ~acause', anote' = anote \/ ~anote', apc' # "none", tab' = tab,
           UNCHANGED <<hcause, hdone, htab>>,
           tab /\ NoClose(a2h, Len(a2h)) => NoClose(a2h', Len(a2h'))
    PROVE  CloseIsLast'
  <1>1. tab' => apc' # "none" /\ NoClose(a2h', Len(a2h')) /\ hcause' # "agent"
    BY CloseFacts
  <1>2. (anote' => ~tab') /\ (hcause' = "agent" \/ hdone' => ~htab')
    BY CloseFacts
  <1> QED
    BY <1>1, <1>2 DEF CloseIsLast

\* The probe drops the tunnel for a reason that is not the end of the stream.
LEMMA CloseDrops ==
    ASSUME TunnelInv, NEW notify \in BOOLEAN, Drop(notify, FALSE),
           UNCHANGED <<cgot, inb, hand, tsent, a2h, up, hpc, htab, hdone, hcause>>,
           apc' = apc \/ (~acause /\ apc' # "none")
    PROVE  CloseIsLast'
  <1>1. CASE tab
    <2>1. tab' = FALSE /\ acause' = FALSE
      BY <1>1 DEF Drop
    <2>2. hcause' = "agent" \/ hdone' => ~htab'
      BY CloseFacts
    <2> QED
      BY <2>1, <2>2 DEF CloseIsLast
  <1>2. CASE ~tab
    <2>1. UNCHANGED <<tab, anote, acause>>
      BY <1>2 DEF Drop
    <2>2. DownTaken' = DownTaken /\ (Active' <=> Active)
      BY DEF DownTaken, Active
    <2> QED
      BY <2>1, <2>2, CloseSame
  <1> QED
    BY <1>1, <1>2

\* The end of the target's stream is noted once all of it has been sent.
LEMMA CloseNoted ==
    ASSUME TunnelInv, ReadTargetEnds
    PROVE  CloseIsLast'
  <1>0. /\ apc = "reading" /\ apc' = "ended" /\ Drop(TRUE, TRUE)
        /\ UNCHANGED <<cgot, inb, hand, tsent, a2h, up, hpc, htab, hdone, hcause>>
    BY DEF ReadTargetEnds, hvars, cvars, lvars
  <1>1. DownTaken' = DownTaken /\ (Active' <=> Active) /\ Unread' = Unread
    BY <1>0 DEF DownTaken, Active, Unread
  <1>2. ~acause
    BY <1>0, CloseFacts
  <1>3. CASE tab
    <2>1. tab' = FALSE
      BY <1>0, <1>3 DEF Drop
    <2>2. NoClose(a2h, Len(a2h)) /\ hcause' # "agent" /\ (hdone' => ~htab')
      BY <1>0, <1>3, CloseFacts
    <2>3. ASSUME up', htab', Active'
          PROVE  /\ NoClose(a2h', Len(a2h')) /\ tsent' = DownTaken' + Len(a2h') - Unread'
                 /\ ClosesAt(a2h', Unread', DownTaken', tsent')
      <3>1. /\ DownInOrder /\ tsent \in Nat /\ DownTaken \in Nat /\ Len(a2h) \in Nat
            /\ Unread \in 0..1
        BY DownFacts
      <3>2. tsent = DownTaken + Len(a2h) - Unread
        BY <1>0, <1>1, <2>2, <2>3, <3>1 DEF DownInOrder, One
      <3>3. ClosesAt(a2h', Unread', DownTaken', tsent')
        BY <1>0, <2>2 DEF ClosesAt, NoClose
      <3> QED
        BY <1>0, <1>1, <2>2, <3>2, <3>3
    <2> QED
      BY <1>0, <2>1, <2>2, <2>3 DEF CloseIsLast
  <1>4. CASE ~tab
    <2>1. UNCHANGED <<tab, anote, acause>>
      BY <1>0, <1>4 DEF Drop
    <2> QED
      BY <1>0, <1>1, <1>2, <2>1, CloseSame
  <1> QED
    BY <1>3, <1>4

\* The close follows the last chunk on the link.
LEMMA CloseSent ==
    ASSUME TunnelInv, ProbeNotifies
    PROVE  CloseIsLast'
  <1>0. /\ anote /\ anote' = FALSE /\ a2h' = (IF up THEN Append(a2h, Msg("close", 0)) ELSE a2h)
        /\ UNCHANGED <<up, apc, tab, acause, cgot, inb, hand, tsent, hpc, htab, hdone, hcause>>
    BY DEF ProbeNotifies, hvars, cvars, tvars
  <1>1. DownTaken' = DownTaken /\ (Active' <=> Active)
    BY <1>0 DEF DownTaken, Active
  <1>2. CASE ~up
    BY <1>0, <1>1, <1>2, CloseSame
  <1>3. CASE up
    <2>1. Msg("close", 0) \in Message /\ Msg("close", 0).kind = "close"
      BY MessageType
    <2>2. Unread' = Unread + One(Msg("close", 0).kind \in {"ok", "failed"})
      BY <1>0, <1>3, <2>1, DownSends
    <2>3. Unread' = Unread
      BY <2>1, <2>2, DownFacts DEF One
    <2>4. /\ (acause' => apc' = "ended" /\ ~tab') /\ ~tab'
          /\ (hcause' = "agent" \/ hdone' => ~htab')
          /\ (acause' /\ hcause' = "agent" /\ Active'
                => hand' = 0 /\ tsent' = Len(cgot') + Len(inb'))
      BY <1>0, <1>1, CloseFacts
    <2>5. ASSUME acause', up', htab', Active'
          PROVE  ClosesAt(a2h', Unread', DownTaken', tsent')
      <3>1. /\ tsent = DownTaken + Len(a2h) - Unread
            /\ ClosesAt(a2h, Unread, DownTaken, tsent)
        BY <1>0, <1>1, <2>5, CloseFacts
      <3>2. /\ a2h \in Seq(Message) /\ Unread \in 0..1 /\ DownTaken \in Nat /\ tsent \in Nat
        BY DownFacts
      <3>3. ClosesAt(Append(a2h, Msg("close", 0)), Unread, DownTaken, tsent)
        BY <2>1, <3>1, <3>2, ClosesAppended
      <3> QED
        BY <1>0, <1>1, <1>3, <2>3, <3>3
    <2> QED
      BY <1>0, <2>4, <2>5 DEF CloseIsLast
  <1> QED
    BY <1>2, <1>3

\* The close that reports the end is taken when all of the stream has been.
LEMMA CloseTaken ==
    ASSUME TunnelInv, HostReceives
    PROVE  CloseIsLast'
  <1>0. /\ up /\ a2h # <<>> /\ a2h' = Tail(a2h) /\ hand = 0
        /\ UNCHANGED <<hpc, inb, cgot, tsent, up, apc, tab, acause, anote>>
        /\ Len(a2h) \in Nat \ {0} /\ Len(a2h') = Len(a2h) - 1 /\ Unread' = 0
        /\ (Active' <=> Active)
        /\ (a2h[1].kind # "close"
              => (NoClose(a2h', Len(a2h')) <=> NoClose(a2h, Len(a2h))))
    BY HostTakes
  <1>1. /\ a2h \in Seq(Message) /\ DownTaken \in Nat /\ Unread \in 0..1 /\ tsent \in Nat
        /\ DownTaken = Len(cgot) + Len(inb)
    BY <1>0, DownFacts
  <1>2. (acause' => apc' = "ended" /\ ~tab') /\ (anote' => ~tab')
    BY <1>0, CloseFacts
  <1>3. ASSUME a2h[1].kind \in {"ok", "failed", "data"}, UNCHANGED <<htab, hdone, hcause>>,
               htab => DownTaken' = DownTaken + 1 - Unread, ~htab \/ hand' = 0 => hand' = hand
        PROVE  CloseIsLast'
    <2>1. (hcause' = "agent" \/ hdone' => ~htab')
      BY <1>3, CloseFacts
    <2>2. tab' => apc' # "none" /\ NoClose(a2h', Len(a2h')) /\ hcause' # "agent"
      BY <1>0, <1>3, CloseFacts
    <2>3. ASSUME acause', up', htab', Active'
          PROVE  /\ anote' => NoClose(a2h', Len(a2h')) /\ tsent' = DownTaken' + Len(a2h') - Unread'
                 /\ ClosesAt(a2h', Unread', DownTaken', tsent')
      <3>1. /\ anote => NoClose(a2h, Len(a2h)) /\ tsent = DownTaken + Len(a2h) - Unread
            /\ ClosesAt(a2h, Unread, DownTaken, tsent)
        BY <1>0, <1>3, <2>3, CloseFacts
      <3>2. DownTaken' = DownTaken + 1 - Unread
        BY <1>3, <2>3
      <3>3. ClosesAt(Tail(a2h), 0, DownTaken + 1 - Unread, tsent)
        BY <1>0, <1>1, <3>1, ClosesTaken
      <3>4. ClosesAt(a2h', Unread', DownTaken', tsent')
        BY <1>0, <3>2, <3>3
      <3>5. anote' => NoClose(a2h', Len(a2h')) /\ tsent' = DownTaken' + Len(a2h') - Unread'
        BY <1>0, <1>1, <1>3, <3>1, <3>2
      <3> QED
        BY <3>4, <3>5
    <2>4. ASSUME acause', hcause' = "agent", Active'
          PROVE  hand' = 0 /\ tsent' = Len(cgot') + Len(inb')
      <3>1. ~htab /\ tsent = Len(cgot) + Len(inb)
        BY <1>0, <1>3, <2>4, CloseFacts
      <3> QED
        BY <1>0, <1>3, <3>1
    <2> QED
      BY <1>2, <2>1, <2>2, <2>3, <2>4 DEF CloseIsLast
  <1>4. ASSUME a2h[1].kind = "close", Unread = 0, hand' = 0, htab' = FALSE,
               hcause' = hcause \/ (hcause' = "agent" /\ htab)
        PROVE  CloseIsLast'
    <2>1. 1 \in 1..Len(a2h)
      BY <1>0
    <2>2. ~tab'
      BY <1>0, <1>4, <2>1, CloseFacts DEF NoClose
    <2>3. ASSUME acause', hcause' = "agent", Active'
          PROVE  tsent' = Len(cgot') + Len(inb')
      <3>1. CASE hcause' = hcause
        BY <1>0, <2>3, <3>1, CloseFacts
      <3>2. CASE htab
        <4>1. ClosesAt(a2h, Unread, DownTaken, tsent)
          BY <1>0, <2>3, <3>2, CloseFacts
        <4>2. tsent = DownTaken + 1 - 1 - Unread
          BY <1>4, <2>1, <4>1 DEF ClosesAt
        <4> QED
          BY <1>0, <1>1, <1>4, <4>2
      <3> QED
        BY <1>4, <3>1, <3>2
    <2> QED
      BY <1>2, <1>4, <2>2, <2>3 DEF CloseIsLast
  <1>5. CASE a2h[1].kind = "close"
    BY <1>4, <1>5, HostTakesCases
  <1>6. CASE a2h[1].kind # "close"
    <2>1. /\ a2h[1].kind \in {"ok", "failed", "data"} /\ UNCHANGED <<htab, hdone, hcause>>
      BY <1>6, HostTakesCases
    <2>2. htab => DownTaken' = DownTaken + 1 - Unread
      <3>1. CASE Unread = 1 /\ DownTaken' = DownTaken
        BY <1>1, <3>1
      <3>2. CASE Unread = 0 /\ DownTaken' = DownTaken + 1
        BY <1>1, <3>2
      <3> QED
        BY <1>6, <3>1, <3>2, HostTakesCases
    <2>3. ~htab \/ hand' = 0 => hand' = hand
      BY <1>0, <1>6, HostTakesCases
    <2> QED
      BY <1>3, <2>1, <2>2, <2>3
  <1> QED
    BY <1>5, <1>6

\* A chunk is thrown away only when no end was reported.
LEMMA CloseDiscards ==
    ASSUME TunnelInv, DeliverDone \/ DeliverTimeout
    PROVE  CloseIsLast'
  <1>0. /\ hand # 0 /\ UNCHANGED <<hpc, tsent, a2h, up, apc, tab, acause, anote>>
    BY DEF DeliverDone, DeliverTimeout, cvars, lvars, avars, tvars
  <1>1. htab' = FALSE /\ (hcause' = hcause \/ hcause' # "agent")
    <2>1. CASE DeliverDone
      BY <2>1, CloseFacts DEF DeliverDone
    <2>2. CASE DeliverTimeout
      BY <2>2, FinishedHere DEF DeliverTimeout, Causes
    <2> QED
      BY <2>1, <2>2
  <1>2. ~(acause' /\ hcause' = "agent" /\ Active')
    <2>1. Active' <=> Active
      BY <1>0 DEF Active
    <2> QED
      BY <1>0, <1>1, <2>1, CloseFacts
  <1>3. /\ (acause' => apc' = "ended" /\ ~tab') /\ (anote' => ~tab')
        /\ (tab' => apc' # "none" /\ NoClose(a2h', Len(a2h')) /\ hcause' # "agent")
    BY <1>0, <1>1, CloseFacts
  <1> QED
    BY <1>1, <1>2, <1>3 DEF CloseIsLast

\* Every step of the host keeps the close last.
LEMMA CloseHostStep ==
    ASSUME TunnelInv, HostHandler \/ HostReader \/ ReadClient \/ HostReadPump \/ HostNotifies
                      \/ HostFinishes \/ Deadline
    PROVE  CloseIsLast'
  <1> USE DEF hvars, cvars, lvars, avars, tvars
  <1>0. ASSUME UNCHANGED <<tsent, a2h, up, acause, anote, apc, tab, hand, inb, cgot>>,
               Active' => Active, hcause' = hcause \/ hcause' # "agent", htab' => htab,
               hdone' => hdone \/ ~htab'
        PROVE  CloseIsLast'
    <2>1. DownTaken' = DownTaken
      BY <1>0 DEF DownTaken
    <2> QED
      BY <1>0, <2>1, CloseSame
  <1>1. CASE AwaitOpened \/ AwaitDone \/ Establish \/ StartDrain \/ DrainEnds \/ Join
    <2>1. UNCHANGED <<tsent, a2h, up, acause, anote, apc, tab, hand, inb, cgot, hcause, htab, hdone>>
      BY <1>1 DEF AwaitOpened, AwaitDone, Establish, StartDrain, DrainEnds, Join
    <2>2. Active' => Active
      BY <1>1 DEF AwaitOpened, AwaitDone, Establish, StartDrain, DrainEnds, Join, Active
    <2> QED
      BY <1>0, <2>1, <2>2
  <1>2. CASE AwaitRefused \/ AwaitTimeout \/ EstablishFails
    <2>1. /\ UNCHANGED <<tsent, a2h, up, acause, anote, apc, tab, hand, inb, cgot>>
          /\ hpc' = "ended"
      BY <1>2 DEF AwaitRefused, AwaitTimeout, EstablishFails
    <2>2. \E c \in Causes \ {"agent"}, b \in BOOLEAN : Finish(c, b)
      BY <1>2 DEF AwaitRefused, AwaitTimeout, EstablishFails, Causes
    <2>3. ~Active'
      BY <2>1 DEF Active
    <2> QED
      BY <1>0, <2>1, <2>2, <2>3, FinishedHere
  <1>3. CASE WriteClient
    <2>1. UNCHANGED <<tsent, a2h, up, acause, anote, apc, tab, hand, hpc, hcause, htab, hdone>>
      BY <1>3 DEF WriteClient
    <2>2. Active' <=> Active
      BY <2>1 DEF Active
    <2>3. DownTaken' = DownTaken /\ Len(cgot') + Len(inb') = Len(cgot) + Len(inb)
      BY <1>3, DownWrites
    <2> QED
      BY <2>1, <2>2, <2>3, CloseSame
  <1>4. CASE WriteClientFails
    <2>1. /\ UNCHANGED <<tsent, a2h, up, acause, anote, apc, tab>> /\ Finish("client", TRUE)
      BY <1>4 DEF WriteClientFails
    <2>2. ~Active'
      BY <1>4, DownWriteFails
    <2>3. /\ htab' => htab
          /\ hcause' = hcause \/ hcause' # "agent"
          /\ hdone' => hdone \/ ~htab'
      BY <2>1, FinishedHere DEF Causes
    <2> QED
      BY <2>1, <2>2, <2>3, CloseSame
  <1>5. CASE SendUp \/ ReadClientEnds \/ HostFinishes
    <2>1. UNCHANGED <<tsent, a2h, up, acause, anote, apc, tab, hand, inb, cgot, hpc>>
      BY <1>5 DEF SendUp, ReadClientEnds, HostFinishes
    <2>2. \/ UNCHANGED <<htab, hdone, hcause>>
          \/ \E c \in Causes \ {"agent"}, b \in BOOLEAN : Finish(c, b)
      BY <1>5 DEF SendUp, ReadClientEnds, HostFinishes, Causes
    <2>3. /\ htab' => htab
          /\ hcause' = hcause \/ hcause' # "agent"
          /\ hdone' => hdone \/ ~htab'
      <3>1. CASE UNCHANGED <<htab, hdone, hcause>>
        BY <3>1
      <3>2. ASSUME NEW c \in Causes \ {"agent"}, NEW b \in BOOLEAN, Finish(c, b)
            PROVE  (htab' => htab) /\ (hcause' = hcause \/ hcause' # "agent")
                   /\ (hdone' => hdone \/ ~htab')
        BY <3>2, FinishedHere
      <3> QED
        BY <2>2, <3>1, <3>2
    <2>4. Active' <=> Active
      BY <2>1 DEF Active
    <2> QED
      BY <1>0, <2>1, <2>3, <2>4
  <1>6. CASE ReadClient \/ HostNotifies \/ Deadline
    <2>1. UNCHANGED <<tsent, a2h, up, acause, anote, apc, tab, hand, inb, cgot, hpc, hcause,
                      htab, hdone>>
      BY <1>6 DEF ReadClient, HostNotifies, Deadline
    <2> QED
      BY <1>0, <2>1 DEF Active
  <1>7. CASE Deliver
    <2>1. /\ UNCHANGED <<tsent, a2h, up, acause, anote, apc, tab, hpc, hcause, htab, hdone>>
          /\ hand # 0
      BY <1>7 DEF Deliver
    <2>2. (Active' <=> Active) /\ DownTaken' = DownTaken
      BY <1>7, <2>1, DownDelivers DEF Active
    <2> QED
      BY <2>1, <2>2, CloseSame
  <1> QED
    BY <1>1, <1>2, <1>3, <1>4, <1>5, <1>6, <1>7, CloseTaken, CloseDiscards
       DEF HostHandler, HostReader, HostReadPump

\* Every step keeps the close last.
LEMMA CloseStep ==
    ASSUME TunnelInv, [Next]_vars
    PROVE  CloseIsLast'
  <1> USE DEF hvars, cvars, lvars, avars, tvars
  <1>0. ASSUME apc \in {"none", "dialing", "dialed", "refusing", "answering"}
        PROVE  a2h = <<>> /\ ~anote /\ ~acause /\ hcause # "agent"
    BY <1>0, DownFacts DEF Unanswered
  <1>1. CASE Dialed \/ SetConn
    <2>1. /\ UNCHANGED <<cgot, inb, hand, tsent, a2h, up, acause, anote, tab, hpc, hcause, htab, hdone>>
          /\ apc \in {"dialing", "dialed"} /\ apc' # "none"
      BY <1>1 DEF Dialed, SetConn
    <2>2. DownTaken' = DownTaken /\ (Active' <=> Active)
      BY <2>1 DEF DownTaken, Active
    <2> QED
      BY <1>0, <2>1, <2>2, CloseSame
  <1>2. CASE WriteTarget \/ ClientHangsUp \/ TargetCloses \/ UNCHANGED vars
    <2>1. UNCHANGED <<cgot, inb, hand, tsent, a2h, up, acause, anote, apc, tab, hpc, hcause, htab, hdone>>
      BY <1>2 DEF WriteTarget, ClientHangsUp, TargetCloses, vars
    <2>2. DownTaken' = DownTaken /\ (Active' <=> Active)
      BY <2>1 DEF DownTaken, Active
    <2> QED
      BY <2>1, <2>2, CloseSame
  <1>3. CASE DialFails \/ WriteTargetFails \/ DropAll
    <2>1. /\ UNCHANGED <<cgot, inb, hand, tsent, a2h, up, hpc, htab, hdone, hcause>>
          /\ \E n \in BOOLEAN : Drop(n, FALSE)
          /\ apc' = apc \/ (apc = "dialing" /\ apc' = "refusing")
      BY <1>3 DEF DialFails, WriteTargetFails, DropAll
    <2> QED
      BY <1>0, <2>1, CloseDrops
  <1>4. CASE ProbeReceives
    <2>1. UNCHANGED <<cgot, inb, hand, tsent, a2h, up, hpc, htab, hdone, hcause>>
      BY <1>4 DEF ProbeReceives
    <2>2. CASE Head(h2a).kind = "open"
      <3>1. /\ h2a # <<>> /\ h2a \in Seq(Message) /\ UpLink
        BY <1>4, Numbers DEF ProbeReceives, TunnelInv
      <3>2. Head(h2a) = h2a[1] /\ 1 \in 1..Len(h2a)
        BY <3>1, Taken
      <3>3. apc = "none"
        BY <2>2, <3>1, <3>2 DEF UpLink
      <3>4. tab' = TRUE /\ apc' = "dialing" /\ UNCHANGED <<anote, acause>>
        BY <1>4, <2>2 DEF ProbeReceives
      <3>5. NoClose(a2h', Len(a2h'))
        BY <1>0, <2>1, <3>3 DEF NoClose
      <3>6. hcause' = "agent" \/ hdone' => ~htab'
        BY <2>1, CloseFacts
      <3> QED
        BY <1>0, <2>1, <3>3, <3>4, <3>5, <3>6 DEF CloseIsLast
    <2>3. CASE Head(h2a).kind # "open"
      <3>1. apc' = apc /\ (UNCHANGED <<tab, anote, acause>> \/ \E n \in BOOLEAN : Drop(n, FALSE))
        BY <1>4, <2>3 DEF ProbeReceives, Write
      <3>2. CASE UNCHANGED <<tab, anote, acause>>
        <4>1. DownTaken' = DownTaken /\ (Active' <=> Active)
          BY <2>1 DEF DownTaken, Active
        <4> QED
          BY <2>1, <3>1, <3>2, <4>1, CloseSame
      <3> QED
        BY <2>1, <3>1, <3>2, CloseDrops
    <2> QED
      BY <2>2, <2>3
  <1>5. CASE Refuse \/ Answer \/ SendDown
    <2>1. /\ UNCHANGED <<cgot, inb, hand, tsent, up, hpc, htab, hdone, hcause>>
          /\ apc \in {"refusing", "answering", "sending"} /\ apc' # "none"
      BY <1>5 DEF Refuse, Answer, SendDown
    <2>2. ~acause
      BY <2>1, CloseFacts
    <2>3. \/ UNCHANGED <<tab, acause, anote>>
          \/ a2h' = a2h /\ Drop(FALSE, FALSE)
      BY <1>5 DEF Refuse, Answer, SendDown
    <2>4. CASE a2h' = a2h /\ Drop(FALSE, FALSE)
      BY <2>1, <2>2, <2>4, CloseDrops
    <2>5. CASE UNCHANGED <<tab, acause, anote>>
      <3>1. \/ a2h' = a2h
            \/ \E x \in {Msg("failed", 0), Msg("ok", 0), Msg("data", tsent)} : a2h' = Append(a2h, x)
        BY <1>5 DEF Refuse, Answer, SendDown
      <3>2. a2h \in Seq(Message) /\ tsent \in Nat
        BY DownFacts
      <3>3. \A x \in {Msg("failed", 0), Msg("ok", 0), Msg("data", tsent)} :
              x \in Message /\ x.kind # "close"
        BY <3>2, MessageType
      <3>4. NoClose(a2h, Len(a2h)) => NoClose(a2h', Len(a2h'))
        <4>1. ASSUME NEW x \in Message, x.kind # "close", a2h' = Append(a2h, x), NoClose(a2h, Len(a2h))
              PROVE  NoClose(a2h', Len(a2h'))
          <5>1. Len(a2h') = Len(a2h) + 1
            BY <3>2, <4>1, Appended
          <5> QED
            BY <3>2, <4>1, <5>1, NoCloseAppended
        <4> QED
          BY <3>1, <3>3, <4>1
      <3> QED
        BY <2>1, <2>2, <2>5, <3>4, CloseUnreported
    <2> QED
      BY <2>3, <2>4, <2>5
  <1>6. CASE ReadTarget
    <2>1. /\ UNCHANGED <<a2h, htab, hdone, hcause, tab, anote, acause>>
          /\ apc = "reading" /\ apc' = "sending"
      BY <1>6 DEF ReadTarget
    <2>2. ~acause
      BY <2>1, CloseFacts
    <2> QED
      BY <2>1, <2>2, CloseUnreported
  <1>7. CASE LinkLost
    <2>1. /\ UNCHANGED <<cgot, inb, hand, tsent, hpc, htab, hdone, hcause, apc, tab, acause, anote>>
          /\ up' = FALSE /\ a2h' = <<>>
      BY <1>7 DEF LinkLost
    <2>2. Active' <=> Active
      BY <2>1 DEF Active
    <2>3. NoClose(a2h', Len(a2h'))
      BY <2>1 DEF NoClose
    <2>4. /\ (acause' => apc' = "ended" /\ ~tab') /\ (anote' => ~tab')
          /\ (tab' => apc' # "none" /\ hcause' # "agent")
          /\ (hcause' = "agent" \/ hdone' => ~htab')
          /\ (acause' /\ hcause' = "agent" /\ Active'
                => hand' = 0 /\ tsent' = Len(cgot') + Len(inb'))
      BY <2>1, <2>2, CloseFacts
    <2> QED
      BY <2>1, <2>3, <2>4 DEF CloseIsLast
  <1> QED
    BY <1>1, <1>2, <1>3, <1>4, <1>5, <1>6, <1>7, CloseHostStep, CloseNoted, CloseSent
       DEF Next, ProbeOpen, ProbeWriteLoop

-----------------------------------------------------------------------------
(* The invariant                                                              *)

\* A request that has put proxy_open in the queue fits the invariant.
LEMMA TunnelStart ==
    ASSUME Init
    PROVE  TunnelInv
  <1>0. Msg("open", 0) \in Message /\ Msg("open", 0).kind = "open"
    BY MessageType
  <1>1. /\ hpc = "waiting" /\ htab = TRUE /\ hdone = FALSE /\ hcause = "none" /\ hnote = FALSE
        /\ opened = "empty" /\ inb = <<>> /\ hand = 0 /\ rdr = "none" /\ csent = 0
        /\ copen = FALSE /\ cgone = FALSE /\ cgot = <<>> /\ fate = "open"
        /\ up = TRUE /\ h2a = <<Msg("open", 0)>> /\ a2h = <<>> /\ lost = FALSE
        /\ apc = "none" /\ tab = FALSE /\ tclosed = FALSE /\ acause = FALSE /\ anote = FALSE
        /\ writes = <<>> /\ tconn = "none" /\ tsent = 0 /\ teof = FALSE /\ tgot = <<>>
    BY DEF Init
  <1>2. Len(inb) = 0 /\ Len(cgot) = 0 /\ Len(a2h) = 0 /\ Len(writes) = 0 /\ Len(tgot) = 0
    BY <1>1
  <1>3. Len(h2a) = 1 /\ h2a[1] = Msg("open", 0) /\ h2a \in Seq(Message) /\ h2a # <<>>
    BY <1>0, <1>1
  <1>4. TypeOK
    <2>1. /\ inb \in Seq(Nat) /\ cgot \in Seq(Nat) /\ writes \in Seq(Nat) /\ tgot \in Seq(Nat)
          /\ a2h \in Seq(Message)
      BY <1>1, Emptied
    <2>2. Len(inb) <= InboundQueue /\ hand \in Nat /\ Len(writes) <= WriteQueue
      BY <1>1, <1>2, TunnelAssumption
    <2>3. csent \in 0..MaxUp /\ tsent \in 0..MaxDown
      BY <1>1, TunnelAssumption
    <2>4. HostTypes
      BY <1>1, <2>1, <2>2, Zenon DEF HostTypes
    <2>5. ClientTypes
      BY <1>1, <2>1, <2>3, Zenon DEF ClientTypes
    <2>6. LinkTypes
      BY <1>1, <1>3, <2>1 DEF LinkTypes
    <2>7. ProbeTypes
      BY <1>1 DEF ProbeTypes
    <2>8. TargetTypes
      BY <1>1, <2>1, <2>2, <2>3, Zenon DEF TargetTypes
    <2> QED
      BY <2>4, <2>5, <2>6, <2>7, <2>8 DEF TypeOK
  <1>5. Unanswered
    BY <1>1 DEF Unanswered
  <1>6. UpLink
    <2>1. ASSUME NEW i \in 1..Len(h2a) PROVE i = 1 /\ h2a[i].kind = "open"
      BY <1>0, <1>3, <2>1
    <2> QED
      BY <1>1, <1>3, <2>1 DEF UpLink
  <1>7. DownLink
    BY <1>1, <1>2 DEF DownLink
  <1>8. ReaderFits
    BY <1>1 DEF ReaderFits
  <1>9. UpTaken = 0 /\ DownTaken = 0
    BY <1>1, <1>2 DEF UpTaken, DownTaken, One
  <1>10. UpInOrder
    BY <1>1, <1>2, <1>9 DEF UpInOrder
  <1>11. DownInOrder
    BY <1>1, <1>2, <1>9 DEF DownInOrder, Follows
  <1>12. CloseIsLast
    BY <1>1 DEF CloseIsLast
  <1>13. FateFits
    BY <1>1 DEF FateFits
  <1> QED
    BY <1>4, <1>5, <1>6, <1>7, <1>8, <1>10, <1>11, <1>12, <1>13 DEF TunnelInv

\* Every step keeps the invariant.
LEMMA TunnelStep ==
    ASSUME TunnelInv, [Next]_vars
    PROVE  TunnelInv'
  <1>1. TypeOK'
    BY TypesStep DEF TunnelInv
  <1> QED
    BY <1>1, UnansweredStep, UpLinkStep, DownLinkStep, ReaderStep, UpStep, DownStep, CloseStep,
       FateStep DEF TunnelInv

\* However the host, the probe, the link and both peers interleave, what each
\* queue holds is what the other side still has to get, and in that order
\* (service.go pump and HandleAgent; proxy.go write, writeLoop and readLoop).
THEOREM TunnelInvariant == Spec => []TunnelInv
  <1>1. Init => TunnelInv
    BY TunnelStart
  <1>2. TunnelInv /\ [Next]_vars => TunnelInv'
    BY TunnelStep
  <1> QED
    BY <1>1, <1>2, PTL DEF Spec

\* The queues of the two sides never hold more than their channels' capacity
\* (t.inbound in service.go, tab.writes in proxy.go), and every variable has
\* its type.
THEOREM TunnelTypes == Spec => []TypeOK
  <1>1. TunnelInv => TypeOK
    BY DEF TunnelInv
  <1> QED
    BY <1>1, TunnelInvariant, PTL

-----------------------------------------------------------------------------
(* The tunnel is a pair of pipes                                              *)

\* The first chunks of a stream, and one more.
LEMMA FirstChunks ==
    ASSUME NEW n \in Nat
    PROVE  /\ First(n) \in Seq(Nat) /\ Len(First(n)) = n
           /\ (\A i \in 1..n : First(n)[i] = i)
           /\ First(n + 1) = Append(First(n), n + 1)
  <1>1. First(n) \in Seq(Nat) /\ Len(First(n)) = n /\ \A i \in 1..n : First(n)[i] = i
    BY DEF First
  <1>2. First(n + 1) = Append(First(n), n + 1)
    BY DEF First
  <1> QED
    BY <1>1, <1>2

\* Nothing but the seven steps below shows outside the tunnel.
LEMMA PipeStutter ==
    ASSUME UNCHANGED <<csent, tgot, tsent, cgot, fate>>
    PROVE  UNCHANGED Pipe!vars
  BY DEF Pipe!vars, First

\* A chunk read from the client.
LEMMA PipeClientSends ==
    ASSUME TunnelInv, ReadClient
    PROVE  Pipe!ClientSends
  <1>1. csent < MaxUp /\ csent' = csent + 1 /\ copen /\ UNCHANGED <<tgot, tsent, cgot, fate>>
    BY DEF ReadClient, tvars
  <1>2. csent \in Nat /\ fate = "open"
    BY <1>1, Numbers DEF TunnelInv, FateFits
  <1>3. csent + 1 \in 1..(MaxUp + MaxDown)
    BY <1>1, <1>2, TunnelAssumption
  <1>4. First(csent)' = Append(First(csent), csent + 1)
    <2>1. First(csent)' = First(csent')
      BY DEF First
    <2> QED
      BY <1>1, <1>2, <2>1, FirstChunks
  <1>5. First(tsent)' = First(tsent)
    BY <1>1 DEF First
  <1> QED
    BY <1>1, <1>2, <1>3, <1>4, <1>5 DEF Pipe!ClientSends

\* A chunk read from the target.
LEMMA PipeTargetSends ==
    ASSUME TunnelInv, ReadTarget
    PROVE  Pipe!TargetSends
  <1>1. /\ tsent < MaxDown /\ tsent' = tsent + 1 /\ apc = "reading"
        /\ UNCHANGED <<tgot, csent, cgot, fate>>
    BY DEF ReadTarget, cvars
  <1>2. tsent \in Nat /\ fate # "eof"
    BY <1>1, Numbers, CloseFacts DEF TunnelInv, FateFits
  <1>3. tsent + 1 \in 1..(MaxUp + MaxDown)
    BY <1>1, <1>2, TunnelAssumption
  <1>4. First(tsent)' = Append(First(tsent), tsent + 1)
    <2>1. First(tsent)' = First(tsent')
      BY DEF First
    <2> QED
      BY <1>1, <1>2, <2>1, FirstChunks
  <1>5. First(csent)' = First(csent)
    BY <1>1 DEF First
  <1> QED
    BY <1>1, <1>2, <1>3, <1>4, <1>5 DEF Pipe!TargetSends

\* A chunk written to the target is the next one that was read.
LEMMA PipeTargetReceives ==
    ASSUME TunnelInv, WriteTarget
    PROVE  Pipe!TargetReceives
  <1>1. tgot' = Append(tgot, Head(writes)) /\ UNCHANGED <<csent, tsent, cgot, fate>>
    BY DEF WriteTarget, cvars
  <1>2. Len(tgot) < csent /\ Head(writes) = Len(tgot) + 1 /\ csent \in Nat /\ Len(tgot) \in Nat
    BY UpWrites, Numbers DEF TunnelInv
  <1>3. Len(First(csent)) = csent /\ First(csent)[Len(tgot) + 1] = Len(tgot) + 1
    <2>1. Len(tgot) + 1 \in 1..csent
      BY <1>2
    <2> QED
      BY <1>2, <2>1, FirstChunks
  <1>4. First(csent)' = First(csent) /\ First(tsent)' = First(tsent)
    BY <1>1 DEF First
  <1> QED
    BY <1>1, <1>2, <1>3, <1>4 DEF Pipe!TargetReceives

\* A chunk written to the client is the next one that was read.
LEMMA PipeClientReceives ==
    ASSUME TunnelInv, WriteClient
    PROVE  Pipe!ClientReceives
  <1>1. cgot' = Append(cgot, Head(inb)) /\ copen /\ UNCHANGED <<csent, tsent, tgot, fate>>
    BY DEF WriteClient, tvars
  <1>2. /\ Len(cgot) < tsent /\ Head(inb) = Len(cgot) + 1 /\ tsent \in Nat /\ Len(cgot) \in Nat
        /\ fate = "open"
    BY <1>1, DownWrites, DownFacts DEF TunnelInv, FateFits
  <1>3. Len(First(tsent)) = tsent /\ First(tsent)[Len(cgot) + 1] = Len(cgot) + 1
    <2>1. Len(cgot) + 1 \in 1..tsent
      BY <1>2
    <2> QED
      BY <1>2, <2>1, FirstChunks
  <1>4. First(csent)' = First(csent) /\ First(tsent)' = First(tsent)
    BY <1>1 DEF First
  <1> QED
    BY <1>1, <1>2, <1>3, <1>4 DEF Pipe!ClientReceives

\* The client's connection is cut, or was already.
LEMMA PipeCut ==
    ASSUME TunnelInv, fate # "eof", fate' = "cut", UNCHANGED <<csent, tgot, tsent, cgot>>
    PROVE  Pipe!Cut \/ UNCHANGED Pipe!vars
  <1>1. fate \in {"open", "cut"}
    BY DEF TunnelInv, TypeOK, ClientTypes
  <1>2. First(csent)' = First(csent) /\ First(tsent)' = First(tsent)
    BY DEF First
  <1> QED
    BY <1>1, <1>2 DEF Pipe!Cut, Pipe!vars

\* An orderly end: the client has all that was read from the target.
LEMMA PipeEnds ==
    ASSUME TunnelInv, DrainEnds
    PROVE  Pipe!Eof \/ Pipe!Cut \/ UNCHANGED Pipe!vars
  <1>1. /\ hpc = "draining" /\ inb = <<>> /\ fate' = FateNow /\ UNCHANGED <<csent, tgot, tsent, cgot>>
    BY DEF DrainEnds, tvars
  <1>2. fate # "eof" /\ Active
    BY <1>1 DEF TunnelInv, FateFits, Active
  <1>3. CASE FateNow = "cut"
    BY <1>1, <1>2, <1>3, PipeCut
  <1>4. CASE FateNow # "cut"
    <2>1. copen /\ hcause = "agent" /\ acause /\ fate' = "eof"
      BY <1>1, <1>4 DEF FateNow
    <2>2. fate = "open"
      BY <2>1 DEF TunnelInv, FateFits
    <2>3. tsent = Len(cgot) + Len(inb)
      BY <1>2, <2>1, CloseFacts
    <2>4. DownInOrder /\ tsent \in Nat /\ cgot \in Seq(Nat) /\ Len(cgot) \in Nat
      BY DownFacts
    <2>5. tsent = Len(cgot)
      BY <1>1, <2>3, <2>4
    <2>6. \A i \in 1..Len(cgot) : cgot[i] = i
      BY <2>4 DEF DownInOrder
    <2>7. cgot = First(tsent)
      BY <2>4, <2>5, <2>6 DEF First
    <2>8. First(csent)' = First(csent) /\ First(tsent)' = First(tsent)
      BY <1>1 DEF First
    <2> QED
      BY <1>1, <2>1, <2>2, <2>7, <2>8 DEF Pipe!Eof
  <1> QED
    BY <1>3, <1>4

\* Every step of the tunnel is a step of the pipes, or does not show.
LEMMA PipeStep ==
    ASSUME TunnelInv, [Next]_vars
    PROVE  [Pipe!Next]_(Pipe!vars)
  <1> USE DEF hvars, cvars, lvars, avars, tvars
  <1>1. CASE DrainEnds
    BY <1>1, PipeEnds DEF Pipe!Next
  <1>2. CASE WriteClientFails \/ Deadline
    <2>1. /\ fate' = "cut" /\ UNCHANGED <<csent, tgot, tsent, cgot>>
          /\ hpc \in {"pumping", "draining"}
      BY <1>2 DEF WriteClientFails, Deadline
    <2>2. fate # "eof"
      BY <2>1 DEF TunnelInv, FateFits, Active
    <2> QED
      BY <2>1, <2>2, PipeCut DEF Pipe!Next
  <1>3. CASE ReadClient \/ ReadTarget \/ WriteTarget \/ WriteClient
    BY <1>3, PipeClientSends, PipeTargetSends, PipeTargetReceives, PipeClientReceives
       DEF Pipe!Next
  <1>4. CASE \/ AwaitOpened \/ AwaitRefused \/ AwaitTimeout \/ AwaitDone \/ Establish
             \/ EstablishFails \/ StartDrain \/ Join
    <2>1. UNCHANGED <<csent, tgot, tsent, cgot, fate>>
      BY <1>4 DEF AwaitOpened, AwaitRefused, AwaitTimeout, AwaitDone, Establish, EstablishFails,
                  StartDrain, Join
    <2> QED
      BY <2>1, PipeStutter
  <1>5. CASE HostReader \/ HostReadPump \/ HostNotifies \/ HostFinishes
    <2>1. UNCHANGED <<csent, tgot, tsent, cgot, fate>>
      BY <1>5 DEF HostReader, SendUp, ReadClientEnds, HostReadPump, HostReceives, Deliver,
                  DeliverDone, DeliverTimeout, HostNotifies, HostFinishes
    <2> QED
      BY <2>1, PipeStutter
  <1>6. CASE ProbeReceives \/ ProbeOpen \/ WriteTargetFails \/ ProbeNotifies \/ DropAll
    <2>1. UNCHANGED <<csent, tgot, tsent, cgot, fate>>
      BY <1>6 DEF ProbeReceives, ProbeOpen, Dialed, DialFails, Refuse, SetConn, Answer, SendDown,
                  ReadTargetEnds, WriteTargetFails, ProbeNotifies, DropAll
    <2> QED
      BY <2>1, PipeStutter
  <1>7. CASE ClientHangsUp \/ TargetCloses \/ LinkLost \/ UNCHANGED vars
    <2>1. UNCHANGED <<csent, tgot, tsent, cgot, fate>>
      BY <1>7 DEF ClientHangsUp, TargetCloses, LinkLost, vars
    <2> QED
      BY <2>1, PipeStutter
  <1> QED
    BY <1>1, <1>2, <1>3, <1>4, <1>5, <1>6, <1>7 DEF Next, HostHandler, ProbeWriteLoop

\* From the CONNECT on, the endpoint is a byte pipe (tunnel.go): the target gets
\* a prefix of what the client sent and the client a prefix of what the target
\* sent, in order and without loss, duplication or invention, and an end that
\* the client sees as orderly comes after all of it.
THEOREM TunnelIsPipe == Spec => PipeSpec
  <1>1. Init => Pipe!Init
    <2>1. ASSUME Init PROVE Pipe!Init
      <3>1. /\ csent = 0 /\ tsent = 0 /\ tgot = <<>> /\ cgot = <<>> /\ fate = "open"
        BY <2>1 DEF Init
      <3>2. First(csent) = <<>> /\ First(tsent) = <<>>
        BY <3>1 DEF First
      <3> QED
        BY <3>1, <3>2 DEF Pipe!Init
    <2> QED
      BY <2>1
  <1>2. TunnelInv /\ [Next]_vars => [Pipe!Next]_(Pipe!vars)
    BY PipeStep
  <1> QED
    BY <1>1, <1>2, TunnelInvariant, PTL DEF Spec, PipeSpec, Pipe!Spec
=============================================================================
