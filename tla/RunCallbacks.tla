---------------------------- MODULE RunCallbacks ----------------------------
(***************************************************************************)
(* The two writers of a SearchRun row after it was recorded: the handler   *)
(* of the Apify webhook, which on success also enqueues the evaluation,    *)
(* and cleanup_stale_search_runs, which fails rows pending for an hour.    *)
(* Each element of Hooks is one delivery of a callback with the retries    *)
(* the platform makes of it while it is not answered with 200; several     *)
(* deliveries may be about the same run.                                   *)
(***************************************************************************)
EXTENDS PriceEvaluation

CONSTANT Sweeps  \* concurrent executions of the cleanup task

VARIABLES
  hookPc,       \* "failed" once an exception was caught and answered 200
  hookSeen,     \* the row status the handler loaded
  sweepPc,      \* "idle" or "listed"
  sweepList,    \* rows that list_stale_pending returned
  \* history, read by properties only:
  marks,        \* callbacks whose COMPLETED is still in the row
  interrupted,  \* runs whose handler was stopped by a fault after it had
                \* written COMPLETED and before it was through with them
  hookOverlap   \* handlers that committed COMPLETED between the read and the
                \* commit of this one

hookVars == <<hookPc, hookSeen, sweepPc, sweepList, marks, interrupted,
              hookOverlap>>

HookInit ==
  /\ hookPc = [h \in Hooks |-> "idle"]
  /\ hookSeen = [h \in Hooks |-> "none"]
  /\ sweepPc = [c \in Sweeps |-> "idle"]
  /\ sweepList = [c \in Sweeps |-> {}]
  /\ marks = {}
  /\ interrupted = {}
  /\ hookOverlap = [h \in Hooks |-> {}]

HookTypeOK ==
  /\ hookPc \in [Hooks ->
       {"idle", "sent", "rejected", "read", "marked", "done", "failed"}]
  /\ hookSeen \in [Hooks -> {"none", "pending", "completed", "failed"}]
  /\ sweepPc \in [Sweeps -> {"idle", "listed"}]
  /\ sweepList \in [Sweeps -> SUBSET Runs]
  /\ marks \subseteq Hooks
  /\ interrupted \subseteq Runs
  /\ hookOverlap \in [Hooks -> SUBSET Hooks]
  /\ \A h \in Hooks : hookPc[h] # "idle" => hookRun[h] \in Runs

HookStep(h, from, to) ==
  /\ hookPc[h] = from
  /\ hookPc' = [hookPc EXCEPT ![h] = to]

\* The session of the handler is over without a commit of COMPLETED.
Forget(h) ==
  /\ hookSeen' = [hookSeen EXCEPT ![h] = "none"]
  /\ hookOverlap' = [hookOverlap EXCEPT ![h] = {}]

\* The row becomes COMPLETED, whatever it is now.
Complete(h) ==
  /\ row' = [row EXCEPT ![hookRun[h]] = "completed"]
  /\ marks' = marks \cup {h}
  /\ hookSeen' = [hookSeen EXCEPT ![h] = "none"]
  /\ hookOverlap' = [g \in Hooks |->
       IF g # h /\ hookPc[g] = "read" THEN hookOverlap[g] \cup {h}
                                      ELSE hookOverlap[g]]

\* Rows R become FAILED, whatever they are now.
Fail(R) ==
  /\ row' = [r \in Runs |-> IF r \in R THEN "failed" ELSE row[r]]
  /\ marks' = {h \in marks : hookRun[h] \notin R}

\* The platform calls the webhook for a run that ended.
Deliver(h, r) ==
  /\ HookStep(h, "idle", "sent")
  /\ CallsBack(r)
  /\ hookRun' = [hookRun EXCEPT ![h] = r]
  /\ UNCHANGED <<runVars, evalVars, hookSeen, sweepPc, sweepList, marks,
                 interrupted, hookOverlap>>

\* 404: the row is not committed yet, was never recorded, or is deleted.
HookNotFound(h) ==
  /\ HookStep(h, "sent", "rejected")
  /\ ~RowExists(hookRun[h])
  /\ UNCHANGED <<runVars, hookRun, evalVars, hookSeen, sweepPc, sweepList,
                 marks, interrupted, hookOverlap>>

HookRetry(h) ==
  /\ HookStep(h, "rejected", "sent")
  /\ UNCHANGED <<runVars, hookRun, evalVars, hookSeen, sweepPc, sweepList,
                 marks, interrupted, hookOverlap>>

\* Mutants of Duplicate: never recognised; any finished run is one.
Duplicate_never(h) == Succeeded(hookRun[h]) /\ row[hookRun[h]] = "none"
Duplicate_finished(h) ==
  Succeeded(hookRun[h]) /\ row[hookRun[h]] \in {"completed", "failed"}

Duplicate(h) == Succeeded(hookRun[h]) /\ row[hookRun[h]] = "completed"

\* The row is COMPLETED already: answer 200 and do nothing.
HookDuplicate(h) ==
  /\ HookStep(h, "sent", "done")
  /\ Duplicate(h)
  /\ UNCHANGED <<runVars, hookRun, evalVars, hookSeen, sweepPc, sweepList,
                 marks, interrupted, hookOverlap>>

HookRead(h) ==
  /\ HookStep(h, "sent", "read")
  /\ RowExists(hookRun[h])
  /\ ~Duplicate(h)
  /\ hookSeen' = [hookSeen EXCEPT ![h] = row[hookRun[h]]]
  /\ hookOverlap' = [hookOverlap EXCEPT ![h] = {}]
  /\ UNCHANGED <<runVars, hookRun, evalVars, sweepPc, sweepList, marks,
                 interrupted>>

\* A success: update_status(COMPLETED) and commit.
HookComplete(h) ==
  LET r == hookRun[h]
  IN  /\ HookStep(h, "read", "marked")
      /\ Succeeded(r)
      /\ RowExists(r)
      /\ Complete(h)
      /\ UNCHANGED <<ext, runSub, stale, hookRun, evalVars, sweepPc,
                     sweepList, interrupted>>

\* A failure: update_status(FAILED) and commit.  The session writes the
\* status column only when it differs from the status that was loaded.
HookFail(h) ==
  LET r == hookRun[h]
  IN  /\ HookStep(h, "read", "done")
      /\ ~Succeeded(r)
      /\ RowExists(r)
      /\ Fail(IF hookSeen[h] = "failed" THEN {} ELSE {r})
      /\ Forget(h)
      /\ UNCHANGED <<ext, runSub, stale, hookRun, evalVars, sweepPc,
                     sweepList, interrupted>>

\* A query or the UPDATE fails, or finds no row because the subscription was
\* deleted: the handler answers 200 all the same.
HookError(h) ==
  /\ \/ /\ HookStep(h, "sent", "failed")
        /\ "database" \in Faults
        /\ UNCHANGED <<hookSeen, hookOverlap>>
     \/ /\ HookStep(h, "read", "failed")
        /\ "database" \in Faults \/ ~RowExists(hookRun[h])
        /\ Forget(h)
  /\ UNCHANGED <<runVars, hookRun, evalVars, sweepPc, sweepList, marks,
                 interrupted>>

\* The answer to the commit of COMPLETED is lost, and 200 is answered.
HookCompleteFails(h) ==
  LET r == hookRun[h]
  IN  /\ HookStep(h, "read", "failed")
      /\ "database" \in Faults
      /\ Succeeded(r)
      /\ RowExists(r)
      /\ Complete(h)
      /\ interrupted' = interrupted \cup {r}
      /\ UNCHANGED <<ext, runSub, stale, hookRun, evalVars, sweepPc,
                     sweepList>>

HookEnqueue(h) ==
  /\ HookStep(h, "marked", "done")
  /\ ext[hookRun[h]] # "nodata"
  /\ Enqueue(h)
  /\ UNCHANGED <<runVars, hookRun, evalPc, taken, evalHook, evalTry, alert,
                 evalOverlap, hookSeen, sweepPc, sweepList, marks,
                 interrupted, hookOverlap>>

\* kiq() raises, after the commit; the answer is 200.
HookEnqueueFails(h) ==
  /\ HookStep(h, "marked", "failed")
  /\ "publish" \in Faults
  /\ ext[hookRun[h]] # "nodata"
  /\ interrupted' = interrupted \cup {hookRun[h]}
  /\ UNCHANGED <<runVars, hookRun, evalVars, hookSeen, sweepPc, sweepList,
                 marks, hookOverlap>>

\* Mutant of HookNoDataset: returns before it writes FAILED.
HookNoDataset_unwritten(h) ==
  /\ HookStep(h, "marked", "done")
  /\ ext[hookRun[h]] = "nodata"
  /\ UNCHANGED <<runVars, hookRun, evalVars, hookSeen, sweepPc, sweepList,
                 marks, interrupted, hookOverlap>>

\* A success without a dataset: the row goes on to FAILED.
HookNoDataset(h) ==
  /\ HookStep(h, "marked", "done")
  /\ ext[hookRun[h]] = "nodata"
  /\ RowExists(hookRun[h])
  /\ Fail({hookRun[h]})
  /\ UNCHANGED <<ext, runSub, stale, hookRun, evalVars, hookSeen, sweepPc,
                 sweepList, interrupted, hookOverlap>>

\* This second UPDATE or its commit fails, applied or not, or finds no row.
HookNoDatasetFails(h) ==
  LET r == hookRun[h]
  IN  /\ HookStep(h, "marked", "failed")
      /\ ext[r] = "nodata"
      /\ "database" \in Faults \/ ~RowExists(r)
      /\ Fail({}) \/ (RowExists(r) /\ Fail({r}))
      /\ interrupted' = interrupted \cup {r}
      /\ UNCHANGED <<ext, runSub, stale, hookRun, evalVars, hookSeen, sweepPc,
                     sweepList, hookOverlap>>

\* The process stops: the platform gets no answer and will retry.
HookCrash(h) ==
  /\ "api crash" \in Faults
  /\ \/ /\ HookStep(h, "read", "rejected")
        /\ Forget(h)
        /\ UNCHANGED interrupted
     \/ /\ HookStep(h, "marked", "rejected")
        /\ interrupted' = interrupted \cup {hookRun[h]}
        /\ UNCHANGED <<hookSeen, hookOverlap>>
  /\ UNCHANGED <<runVars, hookRun, evalVars, sweepPc, sweepList, marks>>

\* Mutant of StalePending: the age is compared the wrong way round.
StalePending_reversed == {r \in Runs : row[r] = "pending" /\ ~stale[r]}

StalePending == {r \in Runs : row[r] = "pending" /\ stale[r]}

SweepList(c) ==
  /\ sweepPc[c] = "idle"
  /\ StalePending # {}
  /\ sweepPc' = [sweepPc EXCEPT ![c] = "listed"]
  /\ sweepList' = [sweepList EXCEPT ![c] = StalePending]
  /\ UNCHANGED <<runVars, hookRun, evalVars, hookPc, hookSeen, marks,
                 interrupted, hookOverlap>>

\* One transaction for the whole list.  A listed row that is gone raises in
\* its flush, and the commit at the end then fails for every row.
SweepCommit(c) ==
  /\ sweepPc[c] = "listed"
  /\ sweepPc' = [sweepPc EXCEPT ![c] = "idle"]
  /\ sweepList' = [sweepList EXCEPT ![c] = {}]
  /\ Fail(IF \A r \in sweepList[c] : RowExists(r) THEN sweepList[c] ELSE {})
  /\ UNCHANGED <<ext, runSub, stale, hookRun, evalVars, hookPc, hookSeen,
                 interrupted, hookOverlap>>

\* The worker stops, or the transaction fails: the task is not retried.
SweepCrash(c) ==
  /\ Faults \cap {"worker crash", "database"} # {}
  /\ sweepPc[c] = "listed"
  /\ sweepPc' = [sweepPc EXCEPT ![c] = "idle"]
  /\ sweepList' = [sweepList EXCEPT ![c] = {}]
  /\ UNCHANGED <<runVars, hookRun, evalVars, hookPc, hookSeen, marks,
                 interrupted, hookOverlap>>

HookHandler(h) ==
  \/ HookNotFound(h) \/ HookDuplicate(h) \/ HookRead(h) \/ HookComplete(h)
  \/ HookCompleteFails(h) \/ HookFail(h) \/ HookError(h)
  \/ HookEnqueue(h) \/ HookEnqueueFails(h)
  \/ HookNoDataset(h) \/ HookNoDatasetFails(h)

HookNext ==
  /\ \/ \E h \in Hooks, r \in Runs : Deliver(h, r)
     \/ \E h \in Hooks : HookHandler(h) \/ HookRetry(h) \/ HookCrash(h)
     \/ \E c \in Sweeps : SweepList(c) \/ SweepCommit(c) \/ SweepCrash(c)
  /\ UNCHANGED subVars
=============================================================================
