---------------------------- MODULE SearchState ----------------------------
(***************************************************************************)
(* The rows and the external runs that the price-search pipeline works on. *)
(* The poll task, the Apify callback, the stale-run sweep and the          *)
(* evaluation task share nothing else: each is one process of its own      *)
(* module (PollDispatch, RunCallbacks, PriceEvaluation), and               *)
(* SearchPipeline composes them.                                           *)
(*                                                                         *)
(* A transaction is one step at its commit; what it read earlier is in the *)
(* process's own variables and may be stale by then (READ COMMITTED).      *)
(***************************************************************************)
EXTENDS Naturals, FiniteSets

CONSTANTS
  Subs,      \* subscription rows
  Runs,      \* ids that the Apify platform can give to actor runs
  Hooks,     \* callback deliveries, each with the evaluation it may enqueue
  Faults,    \* which of FaultKinds can happen
  Outcomes,  \* how an actor run can end in this instance
  Provider,  \* Subscription.provider, up to what get_adapter makes of it
  None       \* NULL

FaultKinds ==
  { "dispatch",     \* the request to Apify fails or times out
    "database",     \* a statement or a COMMIT fails, or its answer is lost
    "publish",      \* kiq() raises
    "fetch",        \* the dataset request fails
    "redelivery",   \* the stream gives a message out that a worker still has
    "api crash",    \* the API process stops inside a handler
    "worker crash"  \* a worker stops inside a task
  }

\* An actor run ends in a dataset with a price within budget, one without,
\* no dataset at all, a failure, or a state no webhook is registered for.
AllOutcomes == {"match", "nomatch", "nodata", "failed", "aborted"}

ASSUME OutcomeAssumption == Outcomes \subseteq AllOutcomes
ASSUME ProviderAssumption ==
  Provider \in [Subs -> {"none", "registered", "unregistered"}]
ASSUME FaultAssumption == Faults \subseteq FaultKinds
ASSUME NoneAssumption == None \notin Runs \cup Subs

VARIABLES
  subState,     \* subscription: "active", "inactive" or "deleted"
  due,          \* last_checked_at is null or at least 24 hours old
  lastChecked,  \* last_checked_at as the number of the claim; 0 is null
  ext,          \* what the Apify platform knows of the run
  runSub,       \* the subscription a run was dispatched for
  row,          \* the SearchRun row of the run
  stale,        \* the row was created more than 60 minutes ago
  hookRun       \* the run a callback, and its evaluation, is about

subVars == <<subState, due, lastChecked>>
runVars == <<ext, runSub, row, stale>>

Succeeded(r) == ext[r] \in {"match", "nomatch", "nodata"}
CallsBack(r) == ext[r] = "failed" \/ Succeeded(r)
RowExists(r) == row[r] \in {"pending", "completed", "failed"}
RunSubOf(h) == runSub[hookRun[h]]

StateInit ==
  /\ subState = [s \in Subs |-> "active"]
  /\ due = [s \in Subs |-> TRUE]
  /\ lastChecked = [s \in Subs |-> 0]
  /\ ext = [r \in Runs |-> "unstarted"]
  /\ runSub = [r \in Runs |-> None]
  /\ row = [r \in Runs |-> "none"]
  /\ stale = [r \in Runs |-> FALSE]
  /\ hookRun = [h \in Hooks |-> None]

StateTypeOK ==
  /\ subState \in [Subs -> {"active", "inactive", "deleted"}]
  /\ due \in [Subs -> BOOLEAN]
  /\ lastChecked \in [Subs -> Nat]
  /\ ext \in [Runs -> {"unstarted", "running"} \cup AllOutcomes]
  /\ runSub \in [Runs -> Subs \cup {None}]
  /\ row \in [Runs -> {"none", "pending", "completed", "failed", "gone"}]
  /\ stale \in [Runs -> BOOLEAN]
  /\ hookRun \in [Hooks -> Runs \cup {None}]

\* The owner pauses or resumes the subscription (PATCH is_active).
Toggle(s) ==
  /\ subState[s] # "deleted"
  /\ subState' = [subState EXCEPT ![s] =
                    IF @ = "active" THEN "inactive" ELSE "active"]
  /\ UNCHANGED <<due, lastChecked, runVars, hookRun>>

\* The actor run reaches its end on the Apify platform.
ActorFinish(r) ==
  /\ ext[r] = "running"
  /\ \E o \in Outcomes : ext' = [ext EXCEPT ![r] = o]
  /\ UNCHANGED <<subVars, runSub, row, stale, hookRun>>

\* The 60 minutes of list_stale_pending pass for a pending run.
RunAges(r) ==
  /\ row[r] = "pending"
  /\ ~stale[r]
  /\ stale' = [stale EXCEPT ![r] = TRUE]
  /\ UNCHANGED <<subVars, ext, runSub, row, hookRun>>
=============================================================================
