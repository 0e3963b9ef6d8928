----------------------------- MODULE CronSchedule -----------------------------
(***************************************************************************)
(* When polls run: the crontab expression made from the interval, the      *)
(* minutes that match it, and the age of one subscription that the batch   *)
(* of every poll has room for.  PollDispatch, where a subscription is due  *)
(* at any time, is about what overlapping polls then do.                   *)
(*                                                                         *)
(* A step goes from one minute that matches to the next.                   *)
(***************************************************************************)
EXTENDS Naturals

CONSTANTS
  Intervals,     \* values of APIFY_POLL_INTERVAL_MINUTES
  RecheckHours,  \* APIFY_SUBSCRIPTION_RECHECK_HOURS
  MaxMissed      \* polls that a stopped scheduler misses in a row

ASSUME IntervalsAssumption == Intervals \subseteq Nat \ {0}
ASSUME RecheckAssumption == RecheckHours \in Nat
ASSUME MissedAssumption == MaxMissed \in Nat

VARIABLES
  interval,
  minute,  \* of the day, when the schedule matched last
  gap,     \* minutes between the last two polls, or since the last one
  missed,  \* polls missed in that time
  down,    \* the schedule matched while the scheduler was stopped
  age,     \* minutes since last_checked_at was stamped
  waited   \* history: the age at which the last check found it

vars == <<interval, minute, gap, missed, down, age, waited>>

Day == 24 * 60

\* Mutant of CronExpression: the interval in hours is left in minutes.
CronExpression_minutes(m) ==
  IF m >= 60 /\ m % 60 = 0 THEN [minute |-> 60, hour |-> m]
                           ELSE [minute |-> m, hour |-> 1]

\* Mutant of CronExpression: every interval is taken for one of minutes.
CronExpression_flat(m) == [minute |-> m, hour |-> 1]

\* The steps of the fields: "0 */h * * *" or "*/m * * * *".  A minute field of
\* 0 is a step of 60.
CronExpression(m) ==
  IF m >= 60 /\ m % 60 = 0 THEN [minute |-> 60, hour |-> m \div 60]
                           ELSE [minute |-> m, hour |-> 1]

\* pycron takes a step that is too large for its field, and matches 0 only.
Matches(cron, t) ==
  /\ (t % 60) % cron.minute = 0
  /\ ((t % Day) \div 60) % cron.hour = 0

\* Minutes to the next match; midnight matches always.
Wait ==
  LET cron == CronExpression(interval)
  IN  CHOOSE w \in 1 .. Day :
        /\ Matches(cron, minute + w)
        /\ \A v \in 1 .. (w - 1) : ~Matches(cron, minute + v)

\* Mutant of Recheck: the setting is taken for days.
Recheck_days == RecheckHours * Day

\* In minutes.
Recheck == RecheckHours * 60

Init ==
  /\ interval \in Intervals
  /\ minute = 0
  /\ gap = 0
  /\ missed = 0
  /\ down = FALSE
  /\ age = 0
  /\ waited = 0

Longest == Day * (MaxMissed + 1)

TypeOK ==
  /\ interval \in Intervals
  /\ minute \in 0 .. (Day - 1)
  /\ gap \in 0 .. Longest
  /\ missed \in 0 .. MaxMissed
  /\ down \in BOOLEAN
  /\ age \in 0 .. (Recheck + Longest)
  /\ waited \in 0 .. (Recheck + Longest)

-----------------------------------------------------------------------------
Elapse(w) ==
  /\ minute' = (minute + w) % Day
  /\ gap' = IF down THEN gap + w ELSE w
  /\ UNCHANGED interval

\* The scheduler sends the task.
Run(w) ==
  /\ Elapse(w)
  /\ missed' = IF down THEN missed ELSE 0
  /\ down' = FALSE

\* Mutant of Stamp: the check is not recorded.
Stamp_dropped(w) ==
  /\ Run(w)
  /\ age + w >= Recheck
  /\ waited' = age + w
  /\ age' = age + w

\* last_checked_at <= recheck_threshold, and the UPDATE.
Stamp(w) ==
  /\ Run(w)
  /\ age + w >= Recheck
  /\ waited' = age + w
  /\ age' = 0

\* The threshold is computed when the task starts, and the stamp is of the
\* UPDATE: at exactly the recheck time the seconds between decide.
Skip(w) ==
  /\ Run(w)
  /\ age + w <= Recheck
  /\ age' = age + w
  /\ UNCHANGED waited

\* A poll that a stopped scheduler misses is not made up for.
Miss(w) ==
  /\ Elapse(w)
  /\ missed' = (IF down THEN missed ELSE 0) + 1
  /\ missed' <= MaxMissed
  /\ down' = TRUE
  /\ age' = age + w
  /\ UNCHANGED waited

Next == LET w == Wait IN Stamp(w) \/ Skip(w) \/ Miss(w)

Spec == Init /\ [][Next]_vars

-----------------------------------------------------------------------------
(* Safety *)

\* However badly an interval fits the clock, and the expression with a step
\* that is too large for its field, polls are never further apart than it,
\* but for those that were missed.
PollsAreNeverLate == gap <= interval * (missed + 1)

\* An interval that divides the hour, or a number of hours that divides the
\* day, is kept exactly, across midnight too.
EvenIntervalsAreExact ==
  /\ gap > 0 /\ ~down
  /\ 60 % interval = 0 \/ (interval % 60 = 0 /\ Day % interval = 0)
  => gap = interval * (missed + 1)

\* An active subscription is checked within the recheck time and one interval,
\* although the check at exactly that time may just miss it.
RecheckIsBounded ==
  waited <= RecheckHours * 60 + interval * (MaxMissed + 1)
=============================================================================
