--------------------------- MODULE SearchPipeline ---------------------------
(***************************************************************************)
(* The price-search pipeline: poll, dispatch, callback, sweep, evaluation  *)
(* and the owner's changes of the subscription, interleaved freely.        *)
(***************************************************************************)
EXTENDS PollDispatch, RunCallbacks

vars == <<subVars, runVars, hookRun, pollVars, evalVars, hookVars>>

Init == StateInit /\ PollInit /\ EvalInit /\ HookInit

\* The owner deletes the subscription; foreign keys cascade to its search
\* runs and alerts.
Delete(s) ==
  /\ subState[s] # "deleted"
  /\ subState' = [subState EXCEPT ![s] = "deleted"]
  /\ row' = [r \in Runs |-> IF runSub[r] = s /\ row[r] # "none"
                            THEN "gone" ELSE row[r]]
  /\ alert' = [x \in Evals |-> IF alert[x] # "none" /\ SubOf(x) = s
                               THEN "gone" ELSE alert[x]]
  /\ UNCHANGED <<due, lastChecked, ext, runSub, stale, hookRun, pollVars,
                 evalTaskVars, evalPc, evalOverlap, hookVars>>

OwnerNext ==
  \/ \E s \in Subs : Delete(s)
  \/ \E s \in Subs : Toggle(s) /\ UNCHANGED <<pollVars, evalVars, hookVars>>

\* Ageing is told apart only by a sweep.
PlatformNext ==
  /\ \E r \in Runs : ActorFinish(r) \/ (Sweeps # {} /\ RunAges(r))
  /\ UNCHANGED <<pollVars, evalVars, hookVars>>

Next ==
  \/ OwnerNext
  \/ PlatformNext
  \/ PollNext /\ UNCHANGED <<hookRun, evalVars, hookVars>>
  \/ HookNext /\ UNCHANGED pollVars
  \/ EvalNext /\ UNCHANGED <<pollVars, hookVars>>

Spec == Init /\ [][Next]_vars

-----------------------------------------------------------------------------
(* Safety *)

TypeOK == StateTypeOK /\ PollTypeOK /\ EvalTypeOK /\ HookTypeOK

\* The claim of the poll task works as a mutex up to one window: two polls
\* schedule the same subscription in one recheck period only if each had
\* selected it before the other one committed its new last_checked_at.
RepeatScheduleOnlyByOverlap ==
  \A s \in Subs : \A p, q \in claimedBy[s] :
    p = q \/ p \in pollOverlap[q] \/ q \in pollOverlap[p]

\* Every run the poll started is in the database or about to be, so that its
\* callback will find it, unless the poll stopped or got no answer, or a
\* subscription of the same poll was deleted meanwhile, or the database failed
\* an INSERT or a COMMIT of the poll: the session takes no statement after
\* either, and the runs of the rest of the batch are started but not recorded.
StartedRunIsRecorded ==
  \A r \in Runs :
    \/ ext[r] = "unstarted"
    \/ row[r] # "none"
    \/ r \in lost
    \/ \E p \in Polls : held[p] = r
    \/ \E s \in Subs : subState[s] = "deleted" /\ starter[r] \in claimedBy[s]
    \/ starter[r] \in insertFailed

\* A COMPLETED run is never silently dropped: its evaluation was enqueued, or
\* the handler that wrote COMPLETED is still about to enqueue it, or that
\* handler was stopped by a fault after its commit: a crash, a kiq() that
\* raised, a COMMIT whose answer was lost, or a second COMMIT, of FAILED for
\* want of a dataset, that failed.
CompletedIsRequested ==
  \A r \in Runs : row[r] = "completed" =>
    \/ r \in interrupted
    \/ \E h \in marks : /\ hookRun[h] = r
                        /\ (hookPc[h] = "marked" \/ message[h] # "none")

\* A repeated success callback is skipped: two handlers both complete a run
\* whose row was not overwritten in between only if one of them had read the
\* row before the other one committed, and committed after it.
DuplicateOnlyByOverlap ==
  \A g, h \in marks :
    \/ g = h
    \/ hookRun[g] # hookRun[h]
    \/ g \in hookOverlap[h]
    \/ h \in hookOverlap[g]

\* The 24-hour suppression: two alerts of one subscription within 24 hours
\* come only from executions that were between their duplicate check and
\* their commit at the same time, whether they execute two messages, or one
\* message twice, or a message next to its own retry: an execution that
\* follows the other one adds none.
RepeatAlertOnlyByOverlap ==
  \A x, y \in Evals :
    \/ x = y
    \/ alert[x] # "recent"
    \/ alert[y] # "recent"
    \/ ~SameSub(x, y)
    \/ x \in evalOverlap[y]
    \/ y \in evalOverlap[x]

-----------------------------------------------------------------------------
(* Refinement *)

\* The owner has an alert of the run: not one that was deleted again.
Alerted(r) ==
  \E x \in Evals : alert[x] \in {"recent", "old"} /\ hookRun[evalHook[x]] = r

RunLifecycle ==
  INSTANCE SearchRunLifecycle
    WITH Runs <- Runs, outcome <- ext, record <- row, late <- stale,
         alerted <- [r \in Runs |-> Alerted(r)]

\* Rows and alerts go through the lifecycle of SearchRunLifecycle: a row is
\* completed only by a run that succeeded, fails after that only for having no
\* dataset or having been late, and nothing brings back what was deleted; an
\* alert comes only of a match whose row was completed.
ImplementsRunLifecycle == RunLifecycle!Spec

-----------------------------------------------------------------------------
(* What comments and tests say, and the code does not keep *)

\* "already completed -> should not be touched", of the cleanup task.
SweepSparesCompleted ==
  [][\A c \in Sweeps : \A r \in sweepList[c] :
       SweepCommit(c) /\ row[r] = "completed" => row'[r] = "completed"]_vars

-----------------------------------------------------------------------------
(* Liveness *)

\* The handlers, workers and timers keep running, and the platform retries
\* what was not answered with 200; an external run need not ever end.  Crashes
\* and failing statements do not hit every attempt: a step that they prevent
\* over and over is taken at last.
Fairness == LET Rest ==
  UNCHANGED <<subVars, runVars, hookRun, pollVars, hookVars>> IN
  /\ \A p \in Polls :
       WF_vars(PollRecord(p) /\ UNCHANGED <<hookRun, evalVars, hookVars>>)
  /\ \A h \in Hooks :
       /\ WF_vars(HookHandler(h) /\ UNCHANGED <<subVars, pollVars>>)
       /\ SF_vars(HookComplete(h) /\ UNCHANGED <<subVars, pollVars>>)
       /\ WF_vars(HookRetry(h) /\ UNCHANGED <<subVars, pollVars>>)
  /\ \A m \in Messages : WF_vars((\E x \in Evals : EvalLoad(x, m)) /\ Rest)
  /\ \A x \in Evals : WF_vars(EvalTask(x) /\ Rest)
  /\ SF_vars((\E x \in Evals : EvalCheck(x)) /\ Rest)
  /\ SF_vars((\E x \in Evals : EvalSave(x)) /\ Rest)
  /\ SF_vars((\E x \in Evals : EvalRetry(x)) /\ Rest)
  /\ SF_vars((\E x \in Evals : EvalAck(x)) /\ Rest)
  /\ \A r \in Runs :
       WF_vars(RunAges(r) /\ UNCHANGED <<pollVars, evalVars, hookVars>>)
  /\ \A c \in Sweeps :
       /\ WF_vars(SweepList(c) /\ UNCHANGED <<subVars, pollVars>>)
       /\ SF_vars(SweepCommit(c) /\ UNCHANGED <<subVars, pollVars>>)

FairSpec == Spec /\ Fairness

\* Recorded and not COMPLETED, or about to be recorded.
Awaited(r) ==
  row[r] \in {"pending", "failed"} \/ \E p \in Polls : held[p] = r /\ ~poisoned[p]

\* A callback for a run with a price within budget, however early it comes and
\* whatever the sweep made of the row, is followed by an alert for the
\* subscription, through crashes, retries and redeliveries, unless its owner
\* pauses or deletes it first, the poll stopped or its INSERT failed, a handler
\* of the run's callbacks caught an error or was stopped after its commit, or
\* the evaluation failed MaxTries times (or used up this instance's Evals).
MatchLeadsToAlert ==
  \A h \in Hooks, r \in Runs, s \in Subs :
    ( /\ hookPc[h] = "sent"
      /\ hookRun[h] = r
      /\ ext[r] = "match"
      /\ runSub[r] = s
      /\ Awaited(r) )
    ~> ( \/ subState[s] # "active"
         \/ \E x \in Evals : alert[x] # "none" /\ SubOf(x) = s
         \/ r \in lost \/ starter[r] \in insertFailed
         \/ \E g \in Hooks : hookRun[g] = r /\ hookPc[g] = "failed"
         \/ r \in interrupted
         \/ \E m \in Messages : message[m] = "dropped"
         \/ \A x \in Evals : evalPc[x] = "done" )

\* No row stays PENDING for ever: a run that never calls back, or whose
\* callback is lost to a crash or to the database, is failed by the sweep.
PendingIsResolved ==
  \A r \in Runs : row[r] = "pending" ~> row[r] # "pending"
=============================================================================
