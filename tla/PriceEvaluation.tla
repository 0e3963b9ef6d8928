--------------------------- MODULE PriceEvaluation ---------------------------
(***************************************************************************)
(* evaluate_apify_results: load the subscription, fetch the dataset, look  *)
(* for a price within budget, suppress if the subscription has an alert    *)
(* younger than 24 hours, else insert one.  A message in the stream is     *)
(* named after the callback that enqueued it, or after the execution that  *)
(* raised and was retried by SimpleRetryMiddleware.  Delivery is at least  *)
(* once: what was not acknowledged comes back, and may then be executed    *)
(* next to its own retry.                                                  *)
(***************************************************************************)
EXTENDS SearchState

CONSTANTS
  Evals,    \* executions of the task
  MaxTries  \* max_retries: executions before the message is dropped

Messages == Hooks \cup Evals

ASSUME EvalsAssumption == Hooks \cap Evals = {} /\ None \notin Messages
ASSUME MaxTriesAssumption == MaxTries \in Nat \ {0}

VARIABLES
  message,     \* "none", "queued", "acked" or "dropped" (after MaxTries)
  evalPc,
  taken,       \* the message that is executed
  evalHook,    \* the callback that it comes from
  evalTry,     \* its _retries label
  alert,       \* that was saved: "none", "recent" (under 24 hours old),
               \* "old" or "gone"
  evalOverlap  \* history: executions that committed an alert between the
               \* check and the commit of this one

evalVars == <<message, evalPc, taken, evalHook, evalTry, alert, evalOverlap>>

EvalInit ==
  /\ message = [m \in Messages |-> "none"]
  /\ evalPc = [x \in Evals |-> "idle"]
  /\ taken = [x \in Evals |-> None]
  /\ evalHook = [x \in Evals |-> None]
  /\ evalTry = [x \in Evals |-> 0]
  /\ alert = [x \in Evals |-> "none"]
  /\ evalOverlap = [x \in Evals |-> {}]

\* Before the message is acknowledged.
Live == {"loaded", "checked", "raised", "retried", "dropping", "ended"}

EvalTypeOK ==
  /\ message \in [Messages -> {"none", "queued", "acked", "dropped"}]
  /\ evalPc \in [Evals -> Live \cup {"idle", "done"}]
  /\ taken \in [Evals -> Messages \cup {None}]
  /\ evalHook \in [Evals -> Hooks \cup {None}]
  /\ evalTry \in [Evals -> 0 .. (MaxTries - 1)]
  /\ alert \in [Evals -> {"none", "recent", "old", "gone"}]
  /\ evalOverlap \in [Evals -> SUBSET Evals]

SubOf(x) == RunSubOf(evalHook[x])
SameSub(x, y) == SubOf(x) = SubOf(y)

\* Mutant of RecentAlert: the age is compared the wrong way round.
RecentAlert_reversed(x) == \E y \in Evals : alert[y] = "old" /\ SameSub(x, y)

RecentAlert(x) == \E y \in Evals : alert[y] = "recent" /\ SameSub(x, y)

\* evaluate_apify_results_task.kiq()
Enqueue(h) == message' = [message EXCEPT ![h] = "queued"]

EvalStep(x, from, to) ==
  /\ evalPc[x] = from
  /\ evalPc' = [evalPc EXCEPT ![x] = to]

\* Mutant of Retry: off by one.
Retry_once_more(x) ==
  IF evalTry[x] < MaxTries
  THEN /\ EvalStep(x, "raised", "retried")
       /\ Enqueue(x)
  ELSE /\ EvalStep(x, "raised", "dropping")
       /\ UNCHANGED message

\* An execution that raised: SimpleRetryMiddleware enqueues a copy with one
\* more retry, or drops the message.
Retry(x) ==
  IF evalTry[x] + 1 < MaxTries
  THEN /\ EvalStep(x, "raised", "retried")
       /\ Enqueue(x)
  ELSE /\ EvalStep(x, "raised", "dropping")
       /\ UNCHANGED message

EvalRetry(x) ==
  /\ Retry(x)
  /\ UNCHANGED <<taken, evalHook, evalTry, alert, evalOverlap>>

HookOf(m) == IF m \in Hooks THEN m ELSE evalHook[m]

TryOf(m) == IF m \in Hooks THEN 0 ELSE evalTry[m] + 1

\* Why an execution ends before it fetches the dataset.
NotEvaluable(s) == subState[s] # "active" \/ Provider[s] # "registered"

\* A worker takes a message, one that was not acknowledged for long even from
\* another worker that still has it, and loads the subscription.
EvalLoad(x, m) ==
  /\ evalPc[x] = "idle"
  /\ message[m] = "queued"
  /\ \/ "redelivery" \in Faults
     \/ \A y \in Evals : evalPc[y] \in Live => taken[y] # m
  /\ \/ evalPc' = [evalPc EXCEPT ![x] =
          IF NotEvaluable(RunSubOf(HookOf(m))) THEN "ended" ELSE "loaded"]
     \/ "database" \in Faults /\ evalPc' = [evalPc EXCEPT ![x] = "raised"]
  /\ taken' = [taken EXCEPT ![x] = m]
  /\ evalHook' = [evalHook EXCEPT ![x] = HookOf(m)]
  /\ evalTry' = [evalTry EXCEPT ![x] = TryOf(m)]
  /\ UNCHANGED <<message, alert, evalOverlap>>

evalTaskVars == <<message, taken, evalHook, evalTry>>

\* The request to Apify fails, or the duplicate check.
EvalFetchFails(x) ==
  /\ EvalStep(x, "loaded", "raised")
  /\ Faults \cap {"fetch", "database"} # {}
  /\ UNCHANGED <<evalTaskVars, alert, evalOverlap>>

\* An empty dataset or no price within budget.
EvalNoMatch(x) ==
  /\ EvalStep(x, "loaded", "ended")
  /\ ext[hookRun[evalHook[x]]] # "match"
  /\ UNCHANGED <<evalTaskVars, alert, evalOverlap>>

EvalSuppressed(x) ==
  /\ EvalStep(x, "loaded", "ended")
  /\ ext[hookRun[evalHook[x]]] = "match"
  /\ RecentAlert(x)
  /\ UNCHANGED <<evalTaskVars, alert, evalOverlap>>

\* The 24h duplicate check finds nothing; the INSERT is still to come.
EvalCheck(x) ==
  /\ EvalStep(x, "loaded", "checked")
  /\ ext[hookRun[evalHook[x]]] = "match"
  /\ ~RecentAlert(x)
  /\ UNCHANGED <<evalTaskVars, alert, evalOverlap>>

\* create_alert and the commit of get_db.
EvalSave(x) ==
  /\ EvalStep(x, "checked", "ended")
  /\ subState[SubOf(x)] # "deleted"
  /\ alert' = [alert EXCEPT ![x] = "recent"]
  /\ evalOverlap' = [y \in Evals |->
       IF y # x /\ evalPc[y] = "checked" THEN evalOverlap[y] \cup {x}
                                         ELSE evalOverlap[y]]
  /\ UNCHANGED evalTaskVars

\* create_alert raises; for certain if the subscription is gone.
EvalSaveFails(x) ==
  /\ EvalStep(x, "checked", "raised")
  /\ "database" \in Faults \/ subState[SubOf(x)] = "deleted"
  /\ UNCHANGED <<evalTaskVars, alert, evalOverlap>>

\* The execution is over.  What it leaves behind, if anything, is its alert
\* or its retry.
Over(x) ==
  /\ taken' = [taken EXCEPT ![x] = None]
  /\ IF alert[x] = "none" /\ message[x] = "none"
     THEN /\ evalPc' = [evalPc EXCEPT ![x] = "idle"]
          /\ evalHook' = [evalHook EXCEPT ![x] = None]
          /\ evalTry' = [evalTry EXCEPT ![x] = 0]
          /\ evalOverlap' = [evalOverlap EXCEPT ![x] = {}]
     ELSE /\ evalPc' = [evalPc EXCEPT ![x] = "done"]
          /\ UNCHANGED <<evalHook, evalTry, evalOverlap>>

EvalAck(x) ==
  /\ evalPc[x] \in {"ended", "retried", "dropping"}
  /\ message' = [message EXCEPT ![taken[x]] =
                   IF evalPc[x] = "dropping" THEN "dropped" ELSE "acked"]
  /\ Over(x)
  /\ UNCHANGED alert

\* The worker stops before it acknowledges the message; or the commit of
\* get_db fails, applied or not, or the kiq() of the retry: neither is caught.
EvalCrash(x) ==
  /\ evalPc[x] \in Live
  /\ \/ "worker crash" \in Faults
     \/ "database" \in Faults /\ evalPc[x] \in {"checked", "raised", "ended"}
     \/ "publish" \in Faults /\ evalPc[x] = "raised"
  /\ Over(x)
  /\ UNCHANGED <<message, alert>>

\* 24 hours pass since the alert.  No execution takes that long, though a
\* message may wait in the stream for longer.
AlertAges(x) ==
  /\ alert[x] = "recent"
  /\ \A y \in Evals : evalPc[y] \in Live => ~SameSub(x, y)
  /\ alert' = [alert EXCEPT ![x] = "old"]
  /\ UNCHANGED <<evalTaskVars, evalPc, evalOverlap>>

EvalTask(x) ==
  \/ EvalFetchFails(x) \/ EvalNoMatch(x) \/ EvalSuppressed(x) \/ EvalCheck(x)
  \/ EvalSave(x) \/ EvalSaveFails(x) \/ EvalRetry(x) \/ EvalAck(x)

EvalNext ==
  /\ \E x \in Evals :
       \/ \E m \in Messages : EvalLoad(x, m)
       \/ EvalTask(x) \/ EvalCrash(x) \/ AlertAges(x)
  /\ UNCHANGED <<subVars, runVars, hookRun>>
=============================================================================
