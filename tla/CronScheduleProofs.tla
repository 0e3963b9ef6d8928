-------------------------- MODULE CronScheduleProofs --------------------------
(***************************************************************************)
(* Proofs about CronSchedule: for any interval, the wait to the next poll  *)
(* is at most the interval, and exactly it when the interval fits the hour *)
(* or the day; so polls are never late, and a subscription is rechecked    *)
(* within the recheck time and an interval, for any recheck time and any   *)
(* number of missed polls.                                                 *)
(***************************************************************************)
EXTENDS CronSchedule, WellFoundedInduction, TLAPS

-----------------------------------------------------------------------------
(* Arithmetic *)

LEMMA Division ==
  ASSUME NEW a \in Nat, NEW m \in Nat \ {0}
  PROVE  /\ a = m * (a \div m) + (a % m)
         /\ a % m \in 0 .. (m - 1)
         /\ a \div m \in Nat
<1>1. a = m * (a \div m) + (a % m)
  OBVIOUS
<1>2. a % m \in 0 .. (m - 1)
  OBVIOUS
<1>3. a \div m \in Nat
  OBVIOUS
<1> QED BY <1>1, <1>2, <1>3

LEMMA Remainder ==
  ASSUME NEW k \in Nat, NEW m \in Nat \ {0}, NEW r \in 0 .. (m - 1)
  PROVE  (m * k + r) % m = r
OBVIOUS

\* The next multiple of m.
LEMMA NextMultiple ==
  ASSUME NEW a \in Nat, NEW m \in Nat \ {0}, a % m = 0
  PROVE  /\ (a + m) % m = 0
         /\ \A v \in 1 .. (m - 1) : (a + v) % m # 0
<1> DEFINE k == a \div m
<1>1. a = m * k /\ k \in Nat
  BY Division
<1> HIDE DEF k
<1>2. (a + m) % m = 0
  <2>1. a + m = m * (k + 1) + 0
    BY <1>1
  <2> QED BY <2>1, <1>1, Remainder
<1>3. ASSUME NEW v \in 1 .. (m - 1) PROVE (a + v) % m # 0
  BY <1>1, Remainder
<1> QED BY <1>2, <1>3

\* A multiple of a divisor of n has room for another up to n.
LEMMA RoomForAnother ==
  ASSUME NEW a \in Nat, NEW m \in Nat \ {0}, NEW n \in Nat,
         a % m = 0, n % m = 0, a < n
  PROVE  a + m <= n
<1> DEFINE k == a \div m
           j == n \div m
<1>1. a = m * k /\ k \in Nat /\ n = m * j /\ j \in Nat
  BY Division
<1> HIDE DEF k, j
<1>2. k < j
  <2>1. m * k < m * j
    BY <1>1
  <2> QED BY <1>1, <2>1
<1>3. m * k + m <= m * j
  BY <1>1, <1>2
<1> QED BY <1>1, <1>3

\* A time of the day in hours and minutes.
LEMMA Clock ==
  ASSUME NEW t \in 0 .. (Day - 1)
  PROVE  /\ t = 60 * (t \div 60) + (t % 60)
         /\ t % 60 \in 0 .. 59
         /\ t \div 60 \in 0 .. 23
         /\ t % Day = t
BY DEF Day

-----------------------------------------------------------------------------
(* The schedule *)

LEMMA FieldSteps ==
  ASSUME NEW m \in Nat \ {0}
  PROVE  \/ /\ ~(m >= 60 /\ m % 60 = 0)
            /\ CronExpression(m) = [minute |-> m, hour |-> 1]
         \/ \E h \in Nat \ {0} :
              m = 60 * h /\ CronExpression(m) = [minute |-> 60, hour |-> h]
<1>1. CASE m >= 60 /\ m % 60 = 0
  <2>1. m = 60 * (m \div 60) /\ m \div 60 \in Nat \ {0}
    BY <1>1
  <2> QED BY <1>1, <2>1 DEF CronExpression
<1>2. CASE ~(m >= 60 /\ m % 60 = 0)
  BY <1>2 DEF CronExpression
<1> QED BY <1>1, <1>2

\* Matching an expression of minutes, and one of hours.
LEMMA MinuteMatch ==
  ASSUME NEW m \in Nat \ {0}, NEW t \in Nat
  PROVE  Matches([minute |-> m, hour |-> 1], t) <=> (t % 60) % m = 0
<1>1. ((t % Day) \div 60) \in Nat
  BY DEF Day
<1>2. ((t % Day) \div 60) % 1 = 0
  BY <1>1
<1> QED BY <1>2 DEF Matches

LEMMA HourMatch ==
  ASSUME NEW h \in Nat \ {0}, NEW t \in Nat
  PROVE  Matches([minute |-> 60, hour |-> h], t)
           <=> t % 60 = 0 /\ ((t % Day) \div 60) % h = 0
<1>1. (t % 60) % 60 = t % 60
  OBVIOUS
<1> QED BY <1>1 DEF Matches

LEMMA MinuteNearest ==
  ASSUME NEW m \in Nat \ {0}, NEW t \in 0 .. (Day - 1), (t % 60) % m = 0
  PROVE  \E v \in 1 .. Day : v <= m /\ ((t + v) % 60) % m = 0
<1> DEFINE a == t % 60
<1>1. a \in 0 .. 59 /\ t = 60 * (t \div 60) + a /\ t \div 60 \in Nat
  BY Clock
<1>2. CASE a + m < 60
  <2>1. (t + m) % 60 = a + m
    BY <1>1, <1>2, Remainder
  <2>2. (a + m) % m = 0
    BY <1>1, NextMultiple
  <2>3. ((t + m) % 60) % m = 0
    BY <2>1, <2>2
  <2>4. m \in 1 .. Day /\ m <= m
    BY <1>1, <1>2 DEF Day
  <2> QED BY <2>3, <2>4
<1>3. CASE a + m >= 60
  <2>1. (t + (60 - a)) % 60 = 0
    <3>1. t + (60 - a) = 60 * ((t \div 60) + 1) + 0
      BY <1>1
    <3> QED BY <1>1, <3>1, Remainder
  <2>2. 0 % m = 0
    OBVIOUS
  <2>3. ((t + (60 - a)) % 60) % m = 0
    BY <2>1, <2>2
  <2>4. 60 - a \in 1 .. Day /\ 60 - a <= m
    BY <1>1, <1>3 DEF Day
  <2> QED BY <2>3, <2>4
<1> QED BY <1>1, <1>2, <1>3

LEMMA HourNearest ==
  ASSUME NEW h \in Nat \ {0}, NEW t \in 0 .. (Day - 1),
         t % 60 = 0, (t \div 60) % h = 0
  PROVE  \E v \in 1 .. Day :
           /\ v <= 60 * h
           /\ (t + v) % 60 = 0
           /\ (((t + v) % Day) \div 60) % h = 0
<1> DEFINE b == t \div 60
<1>1. b \in 0 .. 23 /\ t = 60 * b
  BY Clock
<1> HIDE DEF b
<1>2. CASE b + h < 24
  <2>1. /\ (t + 60 * h) % Day = 60 * (b + h)
        /\ (60 * (b + h)) \div 60 = b + h
        /\ (t + 60 * h) % 60 = 0
        /\ 60 * h \in 1 .. Day
    BY <1>1, <1>2 DEF Day
  <2>2. (b + h) % h = 0
    BY <1>1, NextMultiple DEF b
  <2>3. (((t + 60 * h) % Day) \div 60) % h = 0
    BY <2>1, <2>2
  <2> QED BY <2>1, <2>3
<1>3. CASE b + h >= 24
  <2>1. /\ (t + (Day - t)) % Day = 0
        /\ (t + (Day - t)) % 60 = 0
        /\ Day - t \in 1 .. Day
        /\ Day - t <= 60 * h
    BY <1>1, <1>3 DEF Day
  <2>2. (0 \div 60) % h = 0
    OBVIOUS
  <2>3. (((t + (Day - t)) % Day) \div 60) % h = 0
    BY <2>1, <2>2
  <2> QED BY <2>1, <2>3
<1> QED BY <1>1, <1>2, <1>3

\* Whatever the interval, the expression matches again within it.
LEMMA MatchesWithin ==
  ASSUME NEW m \in Nat \ {0}, NEW t \in 0 .. (Day - 1),
         Matches(CronExpression(m), t)
  PROVE  \E v \in 1 .. Day : v <= m /\ Matches(CronExpression(m), t + v)
<1>1. CASE CronExpression(m) = [minute |-> m, hour |-> 1]
  <2>1. (t % 60) % m = 0
    BY <1>1, MinuteMatch
  <2>2. PICK v \in 1 .. Day : v <= m /\ ((t + v) % 60) % m = 0
    BY <2>1, MinuteNearest
  <2>3. t + v \in Nat
    BY <2>2 DEF Day
  <2> QED BY <1>1, <2>2, <2>3, MinuteMatch
<1>2. ASSUME NEW h \in Nat \ {0}, m = 60 * h,
             CronExpression(m) = [minute |-> 60, hour |-> h]
      PROVE  \E v \in 1 .. Day : v <= m /\ Matches(CronExpression(m), t + v)
  <2>1. t % 60 = 0 /\ (t \div 60) % h = 0
    BY <1>2, HourMatch, Clock
  <2>2. PICK v \in 1 .. Day :
          /\ v <= 60 * h
          /\ (t + v) % 60 = 0
          /\ (((t + v) % Day) \div 60) % h = 0
    BY <2>1, HourNearest
  <2>3. t + v \in Nat
    BY <2>2 DEF Day
  <2> QED BY <1>2, <2>2, <2>3, HourMatch
<1> QED BY <1>1, <1>2, FieldSteps

\* Intervals that fit the clock.
Even(m) == 60 % m = 0 \/ (m % 60 = 0 /\ Day % m = 0)

LEMMA MinuteExact ==
  ASSUME NEW m \in Nat \ {0}, NEW t \in 0 .. (Day - 1),
         (t % 60) % m = 0, 60 % m = 0
  PROVE  /\ ((t + m) % 60) % m = 0
         /\ \A v \in 1 .. (m - 1) : ((t + v) % 60) % m # 0
<1> DEFINE a == t % 60
           k == t \div 60
<1>1. a \in 0 .. 59 /\ t = 60 * k + a /\ k \in Nat /\ a % m = 0
  BY Clock
<1> HIDE DEF a, k
<1>2. a + m <= 60
  BY <1>1, RoomForAnother
<1>3. ASSUME NEW v \in Nat, a + v < 60
      PROVE  (t + v) % 60 = a + v
  <2>1. t + v = 60 * k + (a + v) /\ a + v \in 0 .. (60 - 1)
    BY <1>1, <1>3
  <2> QED BY <1>1, <2>1, Remainder
<1>4. ((t + m) % 60) % m = 0
  <2>1. CASE a + m < 60
    <3>1. (t + m) % 60 = a + m
      BY <2>1, <1>3
    <3>2. (a + m) % m = 0
      BY <1>1, NextMultiple
    <3> QED BY <3>1, <3>2
  <2>2. CASE a + m = 60
    <3>1. (t + m) % 60 = 0
      <4>1. t + m = 60 * (k + 1) + 0
        BY <1>1, <2>2
      <4> QED BY <1>1, <4>1, Remainder
    <3>2. 0 % m = 0
      OBVIOUS
    <3> QED BY <3>1, <3>2
  <2> QED BY <1>1, <1>2, <2>1, <2>2
<1>5. ASSUME NEW v \in 1 .. (m - 1) PROVE ((t + v) % 60) % m # 0
  <2>1. (t + v) % 60 = a + v
    BY <1>1, <1>2, <1>3, <1>5
  <2>2. (a + v) % m # 0
    BY <1>1, NextMultiple
  <2> QED BY <2>1, <2>2
<1> QED BY <1>4, <1>5

LEMMA HourExact ==
  ASSUME NEW h \in Nat \ {0}, NEW t \in 0 .. (Day - 1),
         t % 60 = 0, (t \div 60) % h = 0, 24 % h = 0
  PROVE  /\ (t + 60 * h) % 60 = 0
         /\ (((t + 60 * h) % Day) \div 60) % h = 0
         /\ \A v \in 1 .. (60 * h - 1) :
              (t + v) % 60 = 0 => (((t + v) % Day) \div 60) % h # 0
<1> DEFINE b == t \div 60
<1>1. b \in 0 .. 23 /\ t = 60 * b /\ b % h = 0
  BY Clock
<1> HIDE DEF b
<1>2. b + h <= 24
  BY <1>1, RoomForAnother
<1>3. (t + 60 * h) % 60 = 0
  BY <1>1
<1>4. (((t + 60 * h) % Day) \div 60) % h = 0
  <2>1. CASE b + h < 24
    <3>1. ((t + 60 * h) % Day) \div 60 = b + h
      BY <2>1, <1>1 DEF Day
    <3>2. (b + h) % h = 0
      BY <1>1, NextMultiple
    <3> QED BY <3>1, <3>2
  <2>2. CASE b + h = 24
    <3>1. ((t + 60 * h) % Day) \div 60 = 0
      BY <2>2, <1>1 DEF Day
    <3>2. 0 % h = 0
      OBVIOUS
    <3> QED BY <3>1, <3>2
  <2> QED BY <1>1, <1>2, <2>1, <2>2
<1>5. ASSUME NEW v \in 1 .. (60 * h - 1), (t + v) % 60 = 0
      PROVE  (((t + v) % Day) \div 60) % h # 0
  <2>1. PICK u \in 1 .. (h - 1) : v = 60 * u
    <3>1. v = 60 * (v \div 60) /\ v \div 60 \in 1 .. (h - 1)
      BY <1>1, <1>5
    <3> QED BY <3>1
  <2>2. ((t + v) % Day) \div 60 = b + u
    BY <2>1, <1>1, <1>2 DEF Day
  <2>3. (b + u) % h # 0
    BY <1>1, NextMultiple
  <2> QED BY <2>2, <2>3
<1> QED BY <1>3, <1>4, <1>5

\* An interval that fits the clock is the next time its expression matches.
LEMMA MatchesExactly ==
  ASSUME NEW m \in Nat \ {0}, Even(m), NEW t \in 0 .. (Day - 1),
         Matches(CronExpression(m), t)
  PROVE  /\ m \in 1 .. Day
         /\ Matches(CronExpression(m), t + m)
         /\ \A v \in 1 .. (m - 1) : ~Matches(CronExpression(m), t + v)
<1>1. ASSUME ~(m >= 60 /\ m % 60 = 0),
             CronExpression(m) = [minute |-> m, hour |-> 1]
      PROVE  /\ m \in 1 .. Day
             /\ Matches(CronExpression(m), t + m)
             /\ \A v \in 1 .. (m - 1) : ~Matches(CronExpression(m), t + v)
  <2>1. m % 60 = 0 => m >= 60
    OBVIOUS
  <2>2. 60 % m = 0
    BY <1>1, <2>1 DEF Even
  <2>3. m \in 1 .. Day
    <3>1. m <= 60
      BY <2>2
    <3> QED BY <3>1 DEF Day
  <2>4. (t % 60) % m = 0
    BY <1>1, MinuteMatch
  <2>5. /\ ((t + m) % 60) % m = 0
        /\ \A v \in 1 .. (m - 1) : ((t + v) % 60) % m # 0
    BY <2>2, <2>4, MinuteExact
  <2>6. t + m \in Nat /\ \A v \in 1 .. (m - 1) : t + v \in Nat
    BY DEF Day
  <2>7. ASSUME NEW v \in 1 .. (m - 1)
        PROVE  ~Matches(CronExpression(m), t + v)
    BY <1>1, <2>5, <2>6, MinuteMatch
  <2>8. Matches(CronExpression(m), t + m)
    BY <1>1, <2>5, <2>6, MinuteMatch
  <2> QED BY <2>3, <2>7, <2>8
<1>2. ASSUME NEW h \in Nat \ {0}, m = 60 * h,
             CronExpression(m) = [minute |-> 60, hour |-> h]
      PROVE  /\ m \in 1 .. Day
             /\ Matches(CronExpression(m), t + m)
             /\ \A v \in 1 .. (m - 1) : ~Matches(CronExpression(m), t + v)
  <2>1. 24 % h = 0 /\ h <= 24
    <3>1. CASE 60 % m = 0
      <4>1. m = 60
        BY <1>2, <3>1
      <4>2. h = 1
        BY <4>1, <1>2
      <4> QED BY <4>2
    <3>2. CASE Day % m = 0
      <4>1. PICK j \in Nat : Day = m * j
        <5>1. Day \in Nat
          BY DEF Day
        <5>2. Day = m * (Day \div m) + (Day % m) /\ Day \div m \in Nat
          BY <5>1, Division
        <5>3. ASSUME NEW j \in Nat, Day = m * j + (Day % m)
              PROVE  Day = m * j
          BY <3>2, <5>1, <5>3
        <5> QED BY <5>2, <5>3
      <4>2. 24 = h * j
        BY <4>1, <1>2 DEF Day
      <4>3. (h * j + 0) % h = 0
        BY Remainder
      <4>4. h <= 24
        BY <4>2
      <4> QED BY <4>2, <4>3, <4>4
    <3> QED BY <3>1, <3>2 DEF Even
  <2>2. m \in 1 .. Day
    BY <2>1, <1>2 DEF Day
  <2>3. t % 60 = 0 /\ (t \div 60) % h = 0
    BY <1>2, HourMatch, Clock
  <2>4. /\ (t + m) % 60 = 0
        /\ (((t + m) % Day) \div 60) % h = 0
        /\ \A v \in 1 .. (m - 1) :
             (t + v) % 60 = 0 => (((t + v) % Day) \div 60) % h # 0
    BY <1>2, <2>1, <2>3, HourExact
  <2> QED BY <1>2, <2>2, <2>4, HourMatch
<1> QED BY <1>1, <1>2, FieldSteps

-----------------------------------------------------------------------------
(* The wait *)

LEMMA Least ==
  ASSUME NEW S \in SUBSET Nat, S # {}
  PROVE  \E x \in S : \A y \in S : x <= y
<1> DEFINE R == {ss \in Nat \X Nat : ss[1] < ss[2]}
<1>1. IsWellFoundedOn(R, Nat)
  BY NatLessThanWellFounded DEF OpToRel
<1>2. \A x, y \in Nat : y < x => <<y, x>> \in R
  OBVIOUS
<1> HIDE DEF R
<1>3. PICK x \in S : \A y \in S : <<y, x>> \notin R
  BY <1>1, WFMin
<1>4. ASSUME NEW y \in S PROVE x <= y
  <2>1. ~(y < x)
    BY <1>2, <1>3
  <2> QED BY <2>1
<1> QED BY <1>4

\* The schedule matched at the minute of the last poll.
OnSchedule == Matches(CronExpression(interval), minute)

LEMMA WaitIsNext ==
  ASSUME TypeOK, OnSchedule
  PROVE  /\ Wait \in 1 .. Day
         /\ Matches(CronExpression(interval), minute + Wait)
         /\ \A v \in 1 .. (Wait - 1) :
              ~Matches(CronExpression(interval), minute + v)
<1> DEFINE M(v) == Matches(CronExpression(interval), minute + v)
           T == {v \in 1 .. Day : M(v)}
<1>1. interval \in Nat \ {0} /\ minute \in 0 .. (Day - 1)
  BY IntervalsAssumption DEF TypeOK
<1>2. \E v \in 1 .. Day : M(v)
  BY <1>1, MatchesWithin DEF OnSchedule
<1>3. Wait = CHOOSE w \in 1 .. Day : M(w) /\ \A v \in 1 .. (w - 1) : ~M(v)
  BY DEF Wait
<1> HIDE DEF M
<1>4. PICK w \in T : \A v \in T : w <= v
  <2>1. T \in SUBSET Nat
    BY DEF Day
  <2>2. T # {}
    BY <1>2
  <2> HIDE DEF T
  <2> QED BY <2>1, <2>2, Least
<1>5. w \in 1 .. Day /\ M(w) /\ \A v \in 1 .. (w - 1) : ~M(v)
  <2>1. ASSUME NEW v \in 1 .. (w - 1) PROVE ~M(v)
    <3>1. v \in 1 .. Day /\ ~(w <= v)
      BY <1>4 DEF Day
    <3> QED BY <3>1, <1>4
  <2> QED BY <1>4, <2>1
<1>6. /\ Wait \in 1 .. Day
      /\ M(Wait) /\ \A v \in 1 .. (Wait - 1) : ~M(v)
  BY <1>3, <1>5
<1> QED BY <1>6 DEF M

\* The wait is never longer than the interval, and exactly it when the interval
\* fits the clock.
LEMMA WaitIsBounded ==
  ASSUME TypeOK, OnSchedule
  PROVE  /\ Wait \in 1 .. Day
         /\ Wait <= interval
         /\ Even(interval) => Wait = interval
<1>1. interval \in Nat \ {0} /\ minute \in 0 .. (Day - 1)
  BY IntervalsAssumption DEF TypeOK
<1>2. /\ Wait \in 1 .. Day
      /\ Matches(CronExpression(interval), minute + Wait)
      /\ \A v \in 1 .. (Wait - 1) :
           ~Matches(CronExpression(interval), minute + v)
  BY WaitIsNext
<1>3. Wait <= interval
  <2>1. PICK v \in 1 .. Day :
          v <= interval /\ Matches(CronExpression(interval), minute + v)
    BY <1>1, MatchesWithin DEF OnSchedule
  <2>2. v \notin 1 .. (Wait - 1)
    BY <1>2, <2>1
  <2>3. v \in Nat /\ Wait \in Nat \ {0} /\ interval \in Nat
    BY <1>1, <1>2, <2>1 DEF Day
  <2> QED BY <2>1, <2>2, <2>3
<1>4. Even(interval) => Wait = interval
  <2> SUFFICES ASSUME Even(interval) PROVE interval <= Wait
    BY <1>1, <1>2, <1>3 DEF Day
  <2>1. \A v \in 1 .. (interval - 1) :
          ~Matches(CronExpression(interval), minute + v)
    BY <1>1, MatchesExactly DEF OnSchedule
  <2>2. Wait \notin 1 .. (interval - 1)
    BY <1>2, <2>1
  <2> QED BY <1>1, <1>2, <2>2 DEF Day
<1> QED BY <1>2, <1>3, <1>4

\* The minute of the next poll is on the schedule, over midnight too.
LEMMA StaysOnSchedule ==
  ASSUME TypeOK, OnSchedule, Elapse(Wait)
  PROVE  OnSchedule' /\ minute' \in 0 .. (Day - 1)
<1>1. Wait \in 1 .. Day /\ Matches(CronExpression(interval), minute + Wait)
  BY WaitIsNext
<1>2. minute \in 0 .. (Day - 1)
  BY DEF TypeOK
<1> DEFINE t == minute + Wait
<1>3. t \in Nat /\ minute' = t % Day /\ interval' = interval
  BY <1>1, <1>2 DEF Elapse, Day
<1> HIDE DEF t
<1>4. (t % Day) % 60 = t % 60 /\ (t % Day) % Day = t % Day
      /\ t % Day \in 0 .. (Day - 1)
  BY <1>3 DEF Day
<1>5. Matches(CronExpression(interval), t % Day)
  BY <1>1, <1>4 DEF Matches, t
<1> QED BY <1>3, <1>4, <1>5 DEF OnSchedule

-----------------------------------------------------------------------------
(* The invariant *)

\* The intervals that a gap with k missed polls spans: that of each of them,
\* and the last unless its poll was missed too.
Spanned(d, k) == IF d THEN k ELSE k + 1

\* What a gap adds to the age that a poll leaves behind.
Excess(d, g) == IF d THEN g ELSE 0

GapInv ==
  /\ gap <= interval * Spanned(down, missed)
  /\ gap <= Day * Spanned(down, missed)
  /\ Even(interval) /\ (gap > 0 \/ down) =>
       gap = interval * Spanned(down, missed)

\* A poll leaves no subscription older than the recheck time, so one grows
\* older only while polls are missed.
AgeInv ==
  /\ age <= Recheck + Excess(down, gap)
  /\ waited <= Recheck + interval * (MaxMissed + 1)
  /\ waited <= Recheck + Longest

ScheduleInv == TypeOK /\ OnSchedule /\ GapInv /\ AgeInv

LEMMA Product ==
  ASSUME NEW a \in Nat, NEW b \in Nat, NEW c \in Nat, b <= c
  PROVE  a * b <= a * c /\ a * b \in Nat /\ a * (b + 1) = a * b + a
OBVIOUS

LEMMA Numbers ==
  /\ Day \in Nat /\ Recheck \in Nat /\ Longest \in Nat /\ MaxMissed \in Nat
  /\ Intervals \subseteq Nat \ {0}
BY IntervalsAssumption, RecheckAssumption, MissedAssumption
   DEF Day, Recheck, Longest

LEMMA InitSchedule == Init => ScheduleInv
<1> SUFFICES ASSUME Init PROVE ScheduleInv
  OBVIOUS
<1>1. /\ interval \in Nat \ {0} /\ minute = 0 /\ gap = 0 /\ missed = 0
      /\ down = FALSE /\ age = 0 /\ waited = 0
      /\ interval * (MaxMissed + 1) \in Nat
  BY Numbers DEF Init
<1>2. OnSchedule
  <2>1. /\ (0 % 60) % interval = 0
        /\ \A h \in Nat \ {0} : ((0 % Day) \div 60) % h = 0
    BY <1>1 DEF Day
  <2>2. 0 % 60 = 0 /\ 0 \in Nat
    OBVIOUS
  <2> QED BY <1>1, <2>1, <2>2, FieldSteps, MinuteMatch, HourMatch
          DEF OnSchedule
<1>3. TypeOK
  <2>1. /\ 0 \in 0 .. (Day - 1) /\ 0 \in 0 .. Longest /\ 0 \in 0 .. MaxMissed
        /\ 0 \in 0 .. (Recheck + Longest)
    BY Numbers DEF Day
  <2> QED BY <1>1, <2>1 DEF Init, TypeOK
<1>4. GapInv
  BY <1>1 DEF GapInv, Spanned, Day
<1>5. AgeInv
  BY <1>1, Numbers DEF AgeInv, Excess
<1> QED BY <1>2, <1>3, <1>4, <1>5 DEF ScheduleInv

\* What every step does to the gap.
LEMMA StepSpans ==
  ASSUME TypeOK, Next
  PROVE  /\ Elapse(Wait)
         /\ missed' \in 0 .. MaxMissed /\ down' \in BOOLEAN
         /\ Spanned(down', missed') = IF down THEN Spanned(down, missed) + 1
                                              ELSE 1
         /\ Spanned(down', missed') \in 1 .. (MaxMissed + 1)
<1> DEFINE n == IF down THEN missed ELSE 0
<1>1. /\ missed \in 0 .. MaxMissed /\ down \in BOOLEAN
      /\ n \in 0 .. MaxMissed /\ MaxMissed \in Nat
      /\ n + 1 = IF down THEN Spanned(down, missed) + 1 ELSE 1
  BY Numbers DEF TypeOK, Spanned
<1> HIDE DEF n
<1>2. ASSUME Run(Wait)
      PROVE  /\ Elapse(Wait)
             /\ missed' = n /\ down' = FALSE
             /\ Spanned(down', missed') = n + 1
  <2>1. Elapse(Wait) /\ missed' = n /\ down' = FALSE
    BY <1>2 DEF Run, n
  <2>2. Spanned(FALSE, n) = n + 1
    BY DEF Spanned
  <2> QED BY <2>1, <2>2
<1>3. ASSUME Miss(Wait)
      PROVE  /\ Elapse(Wait)
             /\ missed' = n + 1 /\ down' = TRUE /\ n + 1 <= MaxMissed
             /\ Spanned(down', missed') = n + 1
  <2>1. Elapse(Wait) /\ missed' = n + 1 /\ down' = TRUE /\ missed' <= MaxMissed
    BY <1>3 DEF Miss, n
  <2>2. Spanned(TRUE, n + 1) = n + 1
    BY DEF Spanned
  <2> QED BY <2>1, <2>2
<1>4. Run(Wait) \/ Miss(Wait)
  BY DEF Next, Stamp, Skip
<1>5. Elapse(Wait) /\ down' \in BOOLEAN /\ Spanned(down', missed') = n + 1
  BY <1>2, <1>3, <1>4
<1>6. missed' \in 0 .. MaxMissed
  <2>1. CASE Run(Wait)
    BY <1>1, <1>2, <2>1
  <2>2. CASE Miss(Wait)
    <3>1. n + 1 <= MaxMissed
      BY <1>3, <2>2
    <3>2. n + 1 \in 0 .. MaxMissed
      BY <1>1, <3>1
    <3>3. missed' = n + 1
      BY <1>3, <2>2
    <3> QED BY <3>2, <3>3
  <2> QED BY <1>4, <2>1, <2>2
<1>7. n + 1 \in 1 .. (MaxMissed + 1)
  BY <1>1
<1> QED BY <1>1, <1>5, <1>6, <1>7

LEMMA GapStep ==
  ASSUME ScheduleInv, Next
  PROVE  GapInv' /\ gap' \in 0 .. Longest /\ gap' <= interval * (MaxMissed + 1)
<1> DEFINE s == Spanned(down, missed)
<1>1. /\ gap \in Nat /\ interval \in Nat \ {0} /\ MaxMissed \in Nat
      /\ s \in Nat /\ down \in BOOLEAN /\ Day \in Nat
  BY Numbers DEF ScheduleInv, TypeOK, Spanned
<1>2. /\ gap <= interval * s
      /\ gap <= Day * s
      /\ Even(interval) /\ (gap > 0 \/ down) => gap = interval * s
  BY DEF ScheduleInv, GapInv
<1>3. /\ Wait \in 1 .. Day /\ Wait <= interval
      /\ Even(interval) => Wait = interval
  BY WaitIsBounded DEF ScheduleInv
<1>4. PICK r \in 1 .. (MaxMissed + 1) :
        /\ r = Spanned(down', missed')
        /\ r = IF down THEN s + 1 ELSE 1
  BY StepSpans DEF ScheduleInv
<1> HIDE DEF s
<1>5. PICK g \in Nat : gap' = g /\ g = IF down THEN gap + Wait ELSE Wait
  BY <1>1, <1>3, StepSpans DEF ScheduleInv, Elapse
<1>6. /\ interval * (s + 1) = interval * s + interval /\ interval * s \in Nat
      /\ Day * (s + 1) = Day * s + Day /\ Day * s \in Nat
  BY <1>1, Product
<1>7. /\ g <= interval * r
      /\ g <= Day * r
      /\ Even(interval) => g = interval * r
  <2>1. CASE down
    <3>1. r = s + 1 /\ g = gap + Wait
      BY <2>1, <1>4, <1>5
    <3> QED BY <3>1, <2>1, <1>1, <1>2, <1>3, <1>6
  <2>2. CASE ~down
    <3>1. r = 1 /\ g = Wait
      BY <2>2, <1>4, <1>5
    <3> QED BY <3>1, <1>1, <1>3
  <2> QED BY <2>1, <2>2, <1>1
<1>8. g <= interval * (MaxMissed + 1) /\ g \in 0 .. Longest
  <2>1. /\ interval * r <= interval * (MaxMissed + 1) /\ interval * r \in Nat
        /\ Day * r <= Day * (MaxMissed + 1) /\ Day * r \in Nat
        /\ interval * (MaxMissed + 1) \in Nat
    BY <1>1, <1>4, Product
  <2> QED BY <2>1, <1>7, Numbers DEF Longest
<1>9. interval' = interval
  BY StepSpans DEF ScheduleInv, Elapse
<1>10. GapInv'
  BY <1>4, <1>5, <1>7, <1>9 DEF GapInv
<1> QED BY <1>5, <1>8, <1>10

LEMMA AgeStep ==
  ASSUME ScheduleInv, Next
  PROVE  /\ AgeInv'
         /\ age' \in 0 .. (Recheck + Longest)
         /\ waited' \in 0 .. (Recheck + Longest)
<1> DEFINE w == Wait
           x == Excess(down, gap)
           most == Recheck + interval * (MaxMissed + 1)
<1>1. /\ Recheck \in Nat /\ Longest \in Nat /\ w \in Nat
      /\ interval \in Nat /\ interval * (MaxMissed + 1) \in Nat
  <2>1. interval \in Nat /\ MaxMissed + 1 \in Nat
    BY Numbers DEF ScheduleInv, TypeOK
  <2>2. interval * (MaxMissed + 1) \in Nat
    BY <2>1, Product
  <2> QED BY <2>1, <2>2, Numbers, WaitIsBounded DEF ScheduleInv
<1>2. /\ age \in Nat /\ waited \in Nat /\ x \in Nat
      /\ age <= Recheck + x
      /\ waited <= most
      /\ waited <= Recheck + Longest
  BY Numbers DEF ScheduleInv, TypeOK, AgeInv, Excess
<1>3. interval' = interval
  BY StepSpans DEF ScheduleInv, Elapse
<1>4. PICK g \in 0 .. Longest :
        gap' = g /\ g = x + w /\ g <= interval * (MaxMissed + 1)
  <2>1. gap' = x + w
    BY <1>1, StepSpans DEF ScheduleInv, Elapse, Excess
  <2> QED BY <2>1, GapStep
<1> HIDE DEF w, x
<1>5. \A d : Excess(d, g) \in Nat
  BY <1>1, <1>4 DEF Excess
<1>6. Excess(TRUE, g) = g
  BY DEF Excess
<1>7. ASSUME NEW a \in Nat, age' = a, a <= Recheck + Excess(down', g),
             NEW z \in Nat, waited' = z, z <= most, z <= Recheck + Longest,
             a <= Recheck + Longest
      PROVE  /\ AgeInv'
             /\ age' \in 0 .. (Recheck + Longest)
             /\ waited' \in 0 .. (Recheck + Longest)
  <2>1. a \in 0 .. (Recheck + Longest) /\ z \in 0 .. (Recheck + Longest)
    BY <1>1, <1>7
  <2> QED BY <2>1, <1>3, <1>4, <1>7 DEF AgeInv, Recheck, Longest
<1>8. CASE Stamp(Wait)
  <2>1. PICK z \in Nat : waited' = z /\ z = age + w
    BY <1>1, <1>2, <1>8 DEF Stamp, w
  <2>2. z <= most /\ z <= Recheck + Longest
    BY <2>1, <1>1, <1>2, <1>4
  <2>3. age' = 0 /\ 0 <= Recheck + Excess(down', g) /\ 0 <= Recheck + Longest
    BY <1>1, <1>5, <1>8 DEF Stamp
  <2> QED BY <2>1, <2>2, <2>3, <1>7
<1>9. CASE Skip(Wait)
  <2>1. PICK a \in Nat : age' = a /\ a = age + w /\ a <= Recheck
    BY <1>1, <1>2, <1>9 DEF Skip, w
  <2>2. a <= Recheck + Excess(down', g) /\ a <= Recheck + Longest
    BY <2>1, <1>1, <1>5
  <2>3. waited' = waited
    BY <1>9 DEF Skip
  <2> QED BY <2>1, <2>2, <2>3, <1>2, <1>7
<1>10. CASE Miss(Wait)
  <2>1. PICK a \in Nat : age' = a /\ a = age + w
    BY <1>1, <1>2, <1>10 DEF Miss, w
  <2>2. down' = TRUE /\ waited' = waited
    BY <1>10 DEF Miss
  <2>3. a <= Recheck + g /\ a <= Recheck + Longest
    BY <2>1, <1>1, <1>2, <1>4
  <2> QED BY <2>1, <2>2, <2>3, <1>2, <1>6, <1>7
<1> QED BY <1>8, <1>9, <1>10 DEF Next

LEMMA ScheduleStep ==
  ASSUME ScheduleInv, [Next]_vars PROVE ScheduleInv'
<1>1. CASE Next
  <2>1. /\ Elapse(Wait)
        /\ missed' \in 0 .. MaxMissed /\ down' \in BOOLEAN
    BY <1>1, StepSpans DEF ScheduleInv
  <2>2. OnSchedule' /\ minute' \in 0 .. (Day - 1)
    BY <2>1, StaysOnSchedule DEF ScheduleInv
  <2>3. GapInv' /\ gap' \in 0 .. Longest
    BY <1>1, GapStep
  <2>4. /\ AgeInv'
        /\ age' \in 0 .. (Recheck + Longest)
        /\ waited' \in 0 .. (Recheck + Longest)
    BY <1>1, AgeStep
  <2>5. interval' \in Intervals
    BY <2>1 DEF Elapse, ScheduleInv, TypeOK
  <2>6. TypeOK'
    BY <2>1, <2>2, <2>3, <2>4, <2>5 DEF TypeOK, Recheck, Longest, Day
  <2> QED BY <2>2, <2>3, <2>4, <2>6 DEF ScheduleInv
<1>2. CASE UNCHANGED vars
  BY <1>2 DEF vars, ScheduleInv, TypeOK, OnSchedule, GapInv, AgeInv
<1> QED BY <1>1, <1>2

LEMMA Schedules == Spec => []ScheduleInv
<1> QED BY InitSchedule, ScheduleStep, PTL DEF Spec

-----------------------------------------------------------------------------
(* The theorems *)

\* Minutes, gaps and ages stay in the ranges that missed polls allow, for any
\* intervals, recheck time and number of missed polls.
THEOREM Types == Spec => []TypeOK
<1>1. ScheduleInv => TypeOK
  BY DEF ScheduleInv
<1> QED BY <1>1, Schedules, PTL

\* However badly an interval fits the clock, polls are never further apart than
\* it, but for those that were missed.
THEOREM PollsKeepTheInterval == Spec => []PollsAreNeverLate
<1>1. ScheduleInv => PollsAreNeverLate
  <2> SUFFICES ASSUME ScheduleInv PROVE gap <= interval * (missed + 1)
    BY DEF PollsAreNeverLate
  <2> DEFINE s == Spanned(down, missed)
  <2>1. /\ interval \in Nat /\ missed \in Nat /\ gap \in Nat
        /\ gap <= interval * s
    BY Numbers DEF ScheduleInv, GapInv, TypeOK
  <2>2. s \in Nat /\ s <= missed + 1
    BY <2>1 DEF Spanned
  <2>3. /\ interval * s <= interval * (missed + 1)
        /\ interval * s \in Nat /\ interval * (missed + 1) \in Nat
    BY <2>1, <2>2, Product
  <2> QED BY <2>1, <2>3
<1> QED BY <1>1, Schedules, PTL

\* An interval that divides the hour, or a number of hours that divides the
\* day, is kept exactly.
THEOREM EvenIntervalsAreKept == Spec => []EvenIntervalsAreExact
<1>1. ScheduleInv => EvenIntervalsAreExact
  BY DEF ScheduleInv, GapInv, Spanned, Even, EvenIntervalsAreExact
<1> QED BY <1>1, Schedules, PTL

\* A subscription is checked within the recheck time and an interval, and an
\* interval for every poll missed in a row.
THEOREM RechecksAreBounded == Spec => []RecheckIsBounded
<1>1. ScheduleInv => RecheckIsBounded
  BY DEF ScheduleInv, AgeInv, RecheckIsBounded, Recheck
<1> QED BY <1>1, Schedules, PTL
=============================================================================
