---------------------------- MODULE LatencyShift ----------------------------
(***************************************************************************)
(* LatencyShiftDetector (agent/internal/traceroute/detector.go): Feed gets *)
(* the round-trip times of one target and tells a lasting change of route  *)
(* from jitter.  An action is one outcome of Feed.                         *)
(*                                                                         *)
(* Round-trip times are whole milliseconds.  The median of an even number  *)
(* of them is a half, and a median deviation from it a quarter: Median2 is *)
(* twice a median, Deviation4 four times a deviation, so that all          *)
(* comparisons are exact.  checkLatencyShift feeds no time that is not     *)
(* positive.                                                               *)
(***************************************************************************)
EXTENDS Integers, Sequences, FiniteSets

CONSTANTS
    Times,       \* round-trip times
    Warmup,      \* samples before shifts are looked for, 8 in the code
    MaxHistory,  \* 30 in the code
    Streak,      \* requiredStreak, 30 in the code
    MaxFeeds     \* bound: samples fed

ASSUME ShiftAssumption ==
    /\ Times \subseteq Nat \ {0}
    /\ {Warmup, MaxHistory, Streak, MaxFeeds} \subseteq Nat \ {0}
    /\ Warmup <= Streak /\ Streak <= MaxHistory

VARIABLES
    history,     \* the samples of the baseline
    candidates,  \* shiftSamples
    log          \* history: every sample, the baseline it met and whether Feed said TRUE

detector == <<history, candidates, log>>

ShiftInit == history = <<>> /\ candidates = <<>> /\ log = <<>>

-----------------------------------------------------------------------------
Distance(x, y) == IF x >= y THEN x - y ELSE y - x

\* The k-th smallest element.
Ranked(s, k) ==
    CHOOSE v \in {s[i] : i \in DOMAIN s} :
        /\ Cardinality({i \in DOMAIN s : s[i] < v}) < k
        /\ Cardinality({i \in DOMAIN s : s[i] <= v}) >= k

\* calcMedian, doubled.
Median2(s) ==
    IF s = <<>> THEN 0
    ELSE Ranked(s, (Len(s) + 1) \div 2) + Ranked(s, Len(s) \div 2 + 1)

\* calcMAD around half of center2, times four.
Deviation4(s, center2) == Median2([i \in DOMAIN s |-> Distance(2 * s[i], center2)])

Base2 == Median2(history)
Jitter4 == Deviation4(history, Base2)

\* isCandidateShift: 40 ms and three times the jitter, or 25 ms, 45 % of the
\* baseline and two and a half times the jitter.
Candidate(rtt) ==
    LET diff2 == Distance(2 * rtt, Base2)
    IN \/ diff2 >= 80 /\ 2 * diff2 >= 3 * Jitter4
       \/ diff2 >= 50 /\ 100 * diff2 >= 45 * Base2 /\ 4 * diff2 >= 5 * Jitter4

\* The plateau is less than 30 ms and 40 % from the baseline.
Spurious(plateau) ==
    LET dist2 == Distance(Median2(plateau), Base2) IN dist2 < 60 /\ 100 * dist2 < 40 * Base2

\* isStableNewRoute: the deviation is at most 25 ms or 25 %.
Stable(plateau) ==
    LET dev4 == Deviation4(plateau, Median2(plateau)) IN dev4 <= 100 \/ 2 * dev4 <= Median2(plateau)

-----------------------------------------------------------------------------
Log(rtt, hit) ==
    /\ Len(log) < MaxFeeds
    /\ log' = Append(log, [rtt |-> rtt, base2 |-> Base2, jitter4 |-> Jitter4, hit |-> hit])

FeedWarmup(rtt) ==
    /\ Len(history) < Warmup
    /\ history' = Append(history, rtt)
    /\ Log(rtt, FALSE)
    /\ UNCHANGED candidates

\* Mutant: the samples collected before a return to normal stay.
FeedNormalKeeping(rtt) ==
    /\ Len(history) >= Warmup /\ ~Candidate(rtt)
    /\ history' = IF Len(history) < MaxHistory THEN Append(history, rtt) ELSE Append(Tail(history), rtt)
    /\ Log(rtt, FALSE)
    /\ UNCHANGED candidates

\* The sample is within the baseline: what was collected was jitter.
FeedNormal(rtt) ==
    /\ Len(history) >= Warmup /\ ~Candidate(rtt)
    /\ candidates' = <<>>
    /\ history' = IF Len(history) < MaxHistory THEN Append(history, rtt) ELSE Append(Tail(history), rtt)
    /\ Log(rtt, FALSE)

FeedCollect(rtt) ==
    /\ Len(history) >= Warmup /\ Candidate(rtt)
    /\ Len(candidates) + 1 < Streak
    /\ candidates' = Append(candidates, rtt)
    /\ Log(rtt, FALSE)
    /\ UNCHANGED history

\* The sample that completes the streak.
Completes(rtt) ==
    /\ Len(history) >= Warmup /\ Candidate(rtt)
    /\ Len(candidates) + 1 >= Streak

FeedSpurious(rtt) ==
    /\ Completes(rtt)
    /\ Spurious(Append(candidates, rtt))
    /\ candidates' = <<>>
    /\ Log(rtt, FALSE)
    /\ UNCHANGED history

\* Mutant: the newest sample is dropped instead of the oldest.
FeedUnstableStuck(rtt) ==
    /\ Completes(rtt)
    /\ LET plateau == Append(candidates, rtt)
       IN ~Spurious(plateau) /\ ~Stable(plateau)
    /\ Log(rtt, FALSE)
    /\ UNCHANGED <<history, candidates>>

\* Jitter: the oldest sample is dropped and the streak slides on.
FeedUnstable(rtt) ==
    /\ Completes(rtt)
    /\ LET plateau == Append(candidates, rtt)
       IN /\ ~Spurious(plateau) /\ ~Stable(plateau)
          /\ candidates' = Tail(plateau)
    /\ Log(rtt, FALSE)
    /\ UNCHANGED history

\* A shift: the plateau is the new baseline.
FeedShift(rtt) ==
    /\ Completes(rtt)
    /\ LET plateau == Append(candidates, rtt)
       IN /\ ~Spurious(plateau) /\ Stable(plateau)
          /\ history' = plateau
    /\ candidates' = <<>>
    /\ Log(rtt, TRUE)

Feed(rtt) ==
    \/ FeedWarmup(rtt) \/ FeedNormal(rtt) \/ FeedCollect(rtt)
    \/ FeedSpurious(rtt) \/ FeedUnstable(rtt) \/ FeedShift(rtt)

ShiftNext == \E rtt \in Times : Feed(rtt)

ShiftSpec == ShiftInit /\ [][ShiftNext]_detector

-----------------------------------------------------------------------------
(* Properties                                                              *)

Last(n) == (Len(log) - n + 1)..Len(log)

\* "Returns true only when a genuine, persistent route-level plateau shift is
\* confirmed" (Feed): every one of the Streak samples up to then was 25 ms or more
\* from one and the same baseline.
ShiftGenuine ==
    (log # <<>> /\ log[Len(log)].hit) =>
        /\ Len(log) >= Streak
        /\ \A i \in Last(Streak) :
              /\ log[i].base2 = log[Len(log)].base2
              /\ Distance(2 * log[i].rtt, log[i].base2) >= 50

\* The other direction: a route that changes for good is found, whatever jitter was
\* being collected when it did: of 2 * Streak - 1 equal samples that start 40 ms and
\* three times the jitter away from the baseline, one is reported as a shift.
ShiftFound ==
    LET suffix == Last(2 * Streak - 1)
        start == log[Len(log) - 2 * Streak + 2]
    IN (/\ Len(log) >= Warmup + 2 * Streak - 1
        /\ \A i \in suffix : log[i].rtt = start.rtt
        /\ Distance(2 * start.rtt, start.base2) >= 80
        /\ 2 * Distance(2 * start.rtt, start.base2) >= 3 * start.jitter4)
       => \E i \in suffix : log[i].hit

\* The inductive invariant.  Types of the variables.
ShiftTypeOK ==
    /\ history \in Seq(Times) /\ candidates \in Seq(Times)
    /\ log \in Seq([rtt : Times, base2 : Nat, jitter4 : Nat, hit : BOOLEAN])

\* What is collected are the last samples, each of them far from the baseline that
\* still holds.
Collected ==
    /\ Len(candidates) < Streak /\ Len(candidates) <= Len(log)
    /\ \A i \in Last(Len(candidates)) :
          log[i].base2 = Base2 /\ Distance(2 * log[i].rtt, Base2) >= 50

\* Samples go to the baseline until it has Warmup of them, and then it keeps as many.
WarmedUp == Len(history) < Warmup => candidates = <<>> /\ Len(history) = Len(log)

\* The last m samples were x: those of them that are collected come last, and fewer
\* than Streak are not.
Trailing(x, m) ==
    /\ Len(candidates) >= m - Streak + 1
    /\ \A i \in 1..Len(candidates) : i > Len(candidates) - m => candidates[i] = x

FarOff(x, base2, jitter4) ==
    Distance(2 * x, base2) >= 80 /\ 2 * Distance(2 * x, base2) >= 3 * jitter4

\* Since sample j the route has changed for good, and Feed has not said so.
Unfound(j) ==
    /\ j > Warmup /\ FarOff(log[j].rtt, log[j].base2, log[j].jitter4)
    /\ \A i \in j..Len(log) : log[i].rtt = log[j].rtt /\ ~log[i].hit

UnfoundCollected ==
    \A j \in DOMAIN log : Unfound(j) =>
        /\ Len(history) >= Warmup /\ Base2 = log[j].base2 /\ Jitter4 = log[j].jitter4
        /\ Trailing(log[j].rtt, Len(log) - j + 1)

ShiftInv == ShiftTypeOK /\ Collected /\ WarmedUp /\ UnfoundCollected /\ ShiftGenuine
=============================================================================
