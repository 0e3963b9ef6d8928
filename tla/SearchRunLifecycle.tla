-------------------------- MODULE SearchRunLifecycle --------------------------
(***************************************************************************)
(* What the pipeline promises of the search runs: the life of a row next   *)
(* to that of its actor run, and the alerts that come of it, with no word  *)
(* about polls, callbacks, sweeps, tasks and retries.  SearchPipeline      *)
(* implements it.                                                          *)
(***************************************************************************)
CONSTANT Runs

VARIABLES
  outcome,  \* "unstarted", "running" or how the actor run ended
  record,   \* the row: "none", "pending", "completed", "failed" or "gone"
  late,     \* the row was pending for too long
  alerted   \* the owner has an alert of the run

vars == <<outcome, record, late, alerted>>

Init ==
  /\ outcome = [r \in Runs |-> "unstarted"]
  /\ record = [r \in Runs |-> "none"]
  /\ late = [r \in Runs |-> FALSE]
  /\ alerted = [r \in Runs |-> FALSE]

Start(r) ==
  /\ outcome[r] = "unstarted"
  /\ outcome' = [outcome EXCEPT ![r] = "running"]
  /\ UNCHANGED <<record, late, alerted>>

Finish(r) ==
  /\ outcome[r] = "running"
  /\ \E o \in {"match", "nomatch", "nodata", "failed", "aborted"} :
       outcome' = [outcome EXCEPT ![r] = o]
  /\ UNCHANGED <<record, late, alerted>>

\* Once, and never for a run that was not started.
Record(r) ==
  /\ outcome[r] # "unstarted"
  /\ record[r] = "none"
  /\ record' = [record EXCEPT ![r] = "pending"]
  /\ UNCHANGED <<outcome, late, alerted>>

Age(r) ==
  /\ record[r] = "pending"
  /\ late' = [late EXCEPT ![r] = TRUE]
  /\ UNCHANGED <<outcome, record, alerted>>

Live(r) == record[r] \in {"pending", "completed", "failed"}

\* Only a run that succeeded; a row that was failed too early recovers.
Complete(r) ==
  /\ Live(r)
  /\ outcome[r] \in {"match", "nomatch", "nodata"}
  /\ record' = [record EXCEPT ![r] = "completed"]
  /\ UNCHANGED <<outcome, late, alerted>>

\* A row fails with its run, after it was completed without a dataset, or for
\* having been late, even if it is completed by then.
MayFail(r) ==
  \/ outcome[r] = "failed"
  \/ outcome[r] = "nodata" /\ record[r] # "pending"
  \/ late[r]

Fail(R) ==
  /\ \A r \in R : Live(r) /\ MayFail(r)
  /\ record' = [r \in Runs |-> IF r \in R THEN "failed" ELSE record[r]]
  /\ UNCHANGED <<outcome, late, alerted>>

\* Only of a match, and of a row that was completed: it may be failed again
\* by now, but only if it was late.
Alert(r) ==
  /\ outcome[r] = "match"
  /\ record[r] = "completed" \/ (record[r] = "failed" /\ late[r])
  /\ alerted' = [alerted EXCEPT ![r] = TRUE]
  /\ UNCHANGED <<outcome, record, late>>

\* The rows go with their subscription, and their alerts with them, for good.
Delete(R) ==
  /\ \A r \in R : record[r] # "none"
  /\ record' = [r \in Runs |-> IF r \in R THEN "gone" ELSE record[r]]
  /\ alerted' = [r \in Runs |-> alerted[r] /\ r \notin R]
  /\ UNCHANGED <<outcome, late>>

Next ==
  \/ \E r \in Runs :
       Start(r) \/ Finish(r) \/ Record(r) \/ Age(r) \/ Complete(r) \/ Alert(r)
  \/ \E R \in SUBSET Runs : Fail(R) \/ Delete(R)

Spec == Init /\ [][Next]_vars
=============================================================================
