---------------------------- MODULE MCCronSchedule ----------------------------
(* The instance of CronSchedule for TLC. *)
EXTENDS CronSchedule

\* Even and uneven minutes, the default and other hours, and steps that are
\* too large for their field.
SomeIntervals ==
  {10, 15, 25, 45, 59, 60, 61, 90, 180, 300, 360, 1440, 1500, 2880}
=============================================================================
