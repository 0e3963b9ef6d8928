------------------------ MODULE SearchPipelineProofs ------------------------
(***************************************************************************)
(* Proofs about SearchPipeline for every value of the constants.           *)
(***************************************************************************)
EXTENDS SearchPipeline, TLAPS

-----------------------------------------------------------------------------
(* Type correctness *)

\* The type of a retry's counter rests on its message: only an execution that
\* may be retried has one, and only what was enqueued is taken.
MessageInv ==
  \A x \in Evals :
    /\ message[x] # "none" => evalPc[x] # "idle" /\ evalTry[x] + 1 < MaxTries
    /\ taken[x] # None => message[taken[x]] # "none"

LEMMA StateTypes ==
  ASSUME TypeOK, MessageInv, OwnerNext \/ PlatformNext
  PROVE  TypeOK' /\ MessageInv'
<1>1. UNCHANGED <<message, taken, evalTry, evalPc>>
  BY DEF OwnerNext, PlatformNext, Delete, Toggle, evalTaskVars, evalVars
<1>2. MessageInv'
  BY <1>1 DEF MessageInv
<1> USE DEF TypeOK, StateTypeOK
<1>3. CASE \E s \in Subs : Delete(s)
  BY <1>2, <1>3 DEF Delete, PollTypeOK, EvalTypeOK, HookTypeOK, pollVars,
                    loopVars, pollHistory, evalTaskVars, hookVars
<1>4. CASE \E s \in Subs : Toggle(s) /\ UNCHANGED <<pollVars, evalVars, hookVars>>
  BY <1>2, <1>4 DEF Toggle, PollTypeOK, EvalTypeOK, HookTypeOK, runVars,
                    pollVars, loopVars, pollHistory, evalVars, hookVars
<1>5. ASSUME PlatformNext PROVE TypeOK'
  <2>1. PollTypeOK' /\ EvalTypeOK' /\ HookTypeOK'
    BY <1>5 DEF PlatformNext, ActorFinish, RunAges, PollTypeOK, EvalTypeOK,
                HookTypeOK, pollVars, loopVars, pollHistory, evalVars, hookVars
  <2>2. CASE \E r \in Runs : ActorFinish(r)
    BY <2>1, <2>2, OutcomeAssumption DEF ActorFinish, subVars
  <2>3. CASE \E r \in Runs : RunAges(r)
    BY <2>1, <2>3 DEF RunAges, subVars
  <2> QED BY <1>5, <2>2, <2>3 DEF PlatformNext
<1> QED BY <1>2, <1>3, <1>4, <1>5 DEF OwnerNext

LEMMA PollTypes ==
  ASSUME TypeOK, MessageInv,
         PollNext /\ UNCHANGED <<hookRun, evalVars, hookVars>>
  PROVE  TypeOK' /\ MessageInv'
<1>1. EvalTypeOK' /\ HookTypeOK' /\ hookRun' = hookRun /\ MessageInv'
  BY DEF TypeOK, EvalTypeOK, HookTypeOK, evalVars, hookVars, MessageInv
<1>2. StateTypeOK' /\ PollTypeOK'
  <2> USE DEF TypeOK, StateTypeOK, PollTypeOK, subVars, runVars, loopVars,
              pollHistory
  <2>1. ASSUME NEW p \in Polls, PollFindsNothing(p)
        PROVE  StateTypeOK' /\ PollTypeOK'
    BY <1>1, <2>1 DEF PollFindsNothing
  <2>2. ASSUME NEW p \in Polls, PollSelect(p)
        PROVE  StateTypeOK' /\ PollTypeOK'
    BY <1>1, <2>2 DEF PollSelect, Eligible
  <2>3. ASSUME NEW p \in Polls, PollClaim(p) \/ PollClaimFails(p)
        PROVE  StateTypeOK' /\ PollTypeOK'
    <3>1. /\ UNCHANGED <<subState, runVars, held, poisoned, starter,
                         pollOverlap, lost, insertFailed>>
          /\ pollPc' \in [Polls ->
                {"idle", "claim", "loop", "record", "done"}]
          /\ todo' \in [Polls -> SUBSET Subs]
          /\ Claim(p) \/ UNCHANGED <<clock, due, lastChecked, claimedBy>>
      BY <2>3 DEF PollClaim, PollClaimFails
    <3>2. ASSUME Claim(p)
          PROVE  /\ clock' \in Nat
                 /\ due' \in [Subs -> BOOLEAN]
                 /\ lastChecked' \in [Subs -> Nat]
                 /\ claimedBy' \in [Subs -> SUBSET Polls]
      BY <3>2 DEF Claim
    <3> QED BY <1>1, <3>1, <3>2
  <2>4. ASSUME NEW p \in Polls, PollRecord(p) \/ PollRecordFails(p)
        PROVE  StateTypeOK' /\ PollTypeOK'
    <3>1. /\ UNCHANGED <<subVars, ext, runSub, stale, todo, clock, claimedBy,
                         starter, pollOverlap, lost>>
          /\ pollPc' = [pollPc EXCEPT ![p] = "loop"]
          /\ held' = [held EXCEPT ![p] = None]
          /\ row' = row \/ row' = [row EXCEPT ![held[p]] = "pending"]
          /\ poisoned' \in [Polls -> BOOLEAN]
          /\ insertFailed' \subseteq insertFailed \cup {p}
      BY <2>4 DEF PollRecord, PollRecordFails
    <3> QED BY <1>1, <3>1
  <2>5. ASSUME NEW p \in Polls, PollEnd(p)
        PROVE  StateTypeOK' /\ PollTypeOK'
    BY <1>1, <2>5 DEF PollEnd
  <2>6. ASSUME NEW p \in Polls, PollCrash(p)
        PROVE  StateTypeOK' /\ PollTypeOK'
    BY <1>1, <2>6 DEF PollCrash
  <2>7. ASSUME NEW p \in Polls, NEW s \in Subs, PollSkip(p, s)
        PROVE  StateTypeOK' /\ PollTypeOK'
    BY <1>1, <2>7 DEF PollSkip, Reached
  <2>8. ASSUME NEW p \in Polls, NEW s \in Subs, NEW r \in Runs,
               PollDispatched(p, s, r) \/ PollDispatchLost(p, s, r)
        PROVE  StateTypeOK' /\ PollTypeOK'
    <3>1. Reached(p, s) /\ Start(p, s, r)
      BY <2>8 DEF PollDispatched, PollDispatchLost
    <3>2. /\ UNCHANGED <<subVars, row, stale, poisoned, clock, claimedBy,
                         pollOverlap, insertFailed>>
          /\ pollPc' \in [Polls ->
                {"idle", "claim", "loop", "record", "done"}]
          /\ held' \in [Polls -> Runs \cup {None}]
          /\ lost' \subseteq Runs
      BY <2>8 DEF PollDispatched, PollDispatchLost
    <3>3. /\ ext' \in [Runs -> {"unstarted", "running"} \cup AllOutcomes]
          /\ runSub' \in [Runs -> Subs \cup {None}]
          /\ starter' \in [Runs -> Polls \cup {None}]
          /\ todo' \in [Polls -> SUBSET Subs]
      BY <3>1 DEF Start, Reached
    <3> QED BY <1>1, <3>2, <3>3
  <2>9. ASSUME NEW s \in Subs, RecheckElapses(s)
        PROVE  StateTypeOK' /\ PollTypeOK'
    BY <1>1, <2>9 DEF RecheckElapses
  <2> QED BY <2>1, <2>2, <2>3, <2>4, <2>5, <2>6, <2>7, <2>8, <2>9 DEF PollNext
<1> QED BY <1>1, <1>2 DEF TypeOK

\* The execution is over and leaves nothing behind, or keeps what it has.
LEMMA OverTypes ==
  ASSUME TypeOK, NEW x \in Evals, Over(x)
  PROVE  /\ taken' = [taken EXCEPT ![x] = None]
         /\ evalPc' \in [Evals -> Live \cup {"idle", "done"}]
         /\ evalHook' \in [Evals -> Hooks \cup {None}]
         /\ evalTry' \in [Evals -> 0 .. (MaxTries - 1)]
         /\ evalOverlap' \in [Evals -> SUBSET Evals]
         /\ \A y \in Evals \ {x} :
              evalPc'[y] = evalPc[y] /\ evalTry'[y] = evalTry[y]
         /\ message[x] # "none" => evalPc'[x] = "done" /\ evalTry'[x] = evalTry[x]
BY MaxTriesAssumption DEF Over, TypeOK, EvalTypeOK

LEMMA EvalTypes ==
  ASSUME TypeOK, MessageInv, EvalNext /\ UNCHANGED <<pollVars, hookVars>>
  PROVE  TypeOK' /\ MessageInv'
<1>1. StateTypeOK' /\ PollTypeOK' /\ HookTypeOK'
  BY DEF EvalNext, TypeOK, StateTypeOK, PollTypeOK, HookTypeOK, subVars,
         runVars, pollVars, loopVars, pollHistory, hookVars
<1>2. EvalTypeOK' /\ MessageInv'
  <2> USE DEF TypeOK, EvalTypeOK, MessageInv, Live
  <2>0. None \notin Messages /\ Evals \subseteq Messages
    BY EvalsAssumption DEF Messages
  <2>1. PICK x \in Evals : \/ \E m \in Messages : EvalLoad(x, m)
                           \/ EvalTask(x) \/ EvalCrash(x) \/ AlertAges(x)
    BY DEF EvalNext
  <2>2. ASSUME NEW m \in Messages, EvalLoad(x, m)
        PROVE  EvalTypeOK' /\ MessageInv'
    <3>1. /\ message' = message /\ alert' = alert /\ evalOverlap' = evalOverlap
          /\ evalPc[x] = "idle" /\ message[m] = "queued"
          /\ evalPc' \in [Evals -> Live \cup {"idle", "done"}]
          /\ \A y \in Evals \ {x} : evalPc'[y] = evalPc[y]
          /\ taken' = [taken EXCEPT ![x] = m]
          /\ evalHook' = [evalHook EXCEPT ![x] = HookOf(m)]
          /\ evalTry' = [evalTry EXCEPT ![x] = TryOf(m)]
      BY <2>2 DEF EvalLoad
    <3>2. HookOf(m) \in Hooks \cup {None} /\ TryOf(m) \in 0 .. (MaxTries - 1)
      BY <3>1, MaxTriesAssumption DEF HookOf, TryOf, Messages
    <3>3. message[x] = "none"
      BY <3>1
    <3> QED BY <3>1, <3>2, <3>3
  <2>3. ASSUME UNCHANGED <<evalTaskVars, alert, evalOverlap>>,
               \E to \in Live : evalPc' = [evalPc EXCEPT ![x] = to]
        PROVE  EvalTypeOK' /\ MessageInv'
    BY <2>3 DEF evalTaskVars
  <2>4. CASE EvalFetchFails(x) \/ EvalNoMatch(x) \/ EvalSuppressed(x)
               \/ EvalCheck(x) \/ EvalSaveFails(x)
    BY <2>3, <2>4 DEF EvalFetchFails, EvalNoMatch, EvalSuppressed, EvalCheck,
                      EvalSaveFails, EvalStep
  <2>5. CASE EvalSave(x)
    <3>1. /\ UNCHANGED evalTaskVars
          /\ evalPc' = [evalPc EXCEPT ![x] = "ended"]
          /\ alert' \in [Evals -> {"none", "recent", "old", "gone"}]
          /\ evalOverlap' \in [Evals -> SUBSET Evals]
      BY <2>5 DEF EvalSave, EvalStep
    <3> QED BY <3>1 DEF evalTaskVars
  <2>6. CASE EvalRetry(x)
    <3>1. /\ UNCHANGED <<taken, evalHook, evalTry, alert, evalOverlap>>
          /\ \/ /\ evalTry[x] + 1 < MaxTries
                /\ evalPc' = [evalPc EXCEPT ![x] = "retried"]
                /\ message' = [message EXCEPT ![x] = "queued"]
             \/ /\ evalPc' = [evalPc EXCEPT ![x] = "dropping"]
                /\ message' = message
      BY <2>6 DEF EvalRetry, Retry, EvalStep, Enqueue
    <3> QED BY <2>0, <3>1
  <2>7. CASE EvalAck(x)
    <3>1. /\ Over(x) /\ alert' = alert
          /\ \E to \in {"acked", "dropped"} :
               message' = [message EXCEPT ![taken[x]] = to]
      BY <2>7 DEF EvalAck
    <3>2. /\ message' \in [Messages -> {"none", "queued", "acked", "dropped"}]
          /\ \A m \in Messages : message'[m] # "none" <=> message[m] # "none"
      <4>1. taken[x] \in Messages => message[taken[x]] # "none"
        BY <2>0
      <4> QED BY <3>1, <4>1
    <3>3. taken' \in [Evals -> Messages \cup {None}]
          /\ \A y \in Evals : taken'[y] = taken[y] \/ taken'[y] = None
      BY <3>1, OverTypes
    <3>4. \A y \in Evals : message'[y] # "none" =>
            evalPc'[y] # "idle" /\ evalTry'[y] + 1 < MaxTries
      <4> SUFFICES ASSUME NEW y \in Evals, message'[y] # "none"
                   PROVE  evalPc'[y] # "idle" /\ evalTry'[y] + 1 < MaxTries
        OBVIOUS
      <4>1. message[y] # "none"
        BY <2>0, <3>2
      <4>2. evalTry'[y] = evalTry[y] /\ (evalPc'[y] = evalPc[y] \/ evalPc'[y] = "done")
        BY <3>1, <4>1, OverTypes
      <4> QED BY <4>1, <4>2
    <3>5. \A y \in Evals : taken'[y] # None => message'[taken'[y]] # "none"
      BY <3>2, <3>3
    <3> QED BY <3>1, <3>2, <3>3, <3>4, <3>5, OverTypes
  <2>8. CASE EvalCrash(x)
    <3>1. Over(x) /\ alert' = alert /\ message' = message
      BY <2>8 DEF EvalCrash
    <3>2. taken' \in [Evals -> Messages \cup {None}]
          /\ \A y \in Evals : taken'[y] = taken[y] \/ taken'[y] = None
      BY <3>1, OverTypes
    <3>3. \A y \in Evals : message'[y] # "none" =>
            evalPc'[y] # "idle" /\ evalTry'[y] + 1 < MaxTries
      <4> SUFFICES ASSUME NEW y \in Evals, message[y] # "none"
                   PROVE  evalPc'[y] # "idle" /\ evalTry'[y] + 1 < MaxTries
        BY <3>1
      <4>1. evalTry'[y] = evalTry[y] /\ (evalPc'[y] = evalPc[y] \/ evalPc'[y] = "done")
        BY <3>1, OverTypes
      <4> QED BY <4>1
    <3> QED BY <3>1, <3>2, <3>3, OverTypes
  <2>9. CASE AlertAges(x)
    BY <2>9 DEF AlertAges, evalTaskVars
  <2> QED BY <2>1, <2>2, <2>4, <2>5, <2>6, <2>7, <2>8, <2>9 DEF EvalTask
<1> QED BY <1>1, <1>2 DEF TypeOK

\* What a step of a callback or of the sweep does not touch.
LEMMA HookFrame ==
  ASSUME HookNext /\ UNCHANGED pollVars
  PROVE  UNCHANGED <<subVars, ext, runSub, stale, pollVars, evalPc, taken,
                     evalHook, evalTry, alert, evalOverlap>>
BY DEF HookNext, Deliver, HookHandler, HookNotFound, HookDuplicate, HookRead,
       HookComplete, HookCompleteFails, HookFail, HookError, HookEnqueue,
       HookEnqueueFails, HookNoDataset, HookNoDatasetFails, HookRetry,
       HookCrash, SweepList, SweepCommit, SweepCrash, runVars, evalVars

LEMMA FailTypes ==
  ASSUME TypeOK, NEW R, Fail(R)
  PROVE  /\ row' \in [Runs -> {"none", "pending", "completed", "failed", "gone"}]
         /\ marks' \subseteq Hooks
BY DEF Fail, TypeOK, StateTypeOK, HookTypeOK

LEMMA HookTypes ==
  ASSUME TypeOK, MessageInv, HookNext /\ UNCHANGED pollVars
  PROVE  TypeOK' /\ MessageInv'
<1> DEFINE Pcs == {"idle", "sent", "rejected", "read", "marked", "done", "failed"}
           Typed ==
      /\ row' \in [Runs -> {"none", "pending", "completed", "failed", "gone"}]
      /\ hookRun' \in [Hooks -> Runs \cup {None}]
      /\ \/ message' = message
         \/ \E h \in Hooks : message' = [message EXCEPT ![h] = "queued"]
      /\ HookTypeOK'
<1>1. ASSUME Typed PROVE TypeOK' /\ MessageInv'
  <2>1. /\ message' \in [Messages -> {"none", "queued", "acked", "dropped"}]
        /\ \A m \in Messages : message[m] # "none" => message'[m] # "none"
        /\ \A x \in Evals : message'[x] = message[x]
    BY <1>1, EvalsAssumption DEF TypeOK, EvalTypeOK, Messages
  <2>2. UNCHANGED <<evalPc, taken, evalTry>>
    BY HookFrame
  <2>3. MessageInv'
    BY <2>1, <2>2 DEF MessageInv, TypeOK, EvalTypeOK
  <2>4. TypeOK'
    BY <1>1, <2>1, HookFrame
       DEF TypeOK, StateTypeOK, PollTypeOK, EvalTypeOK, subVars, pollVars,
           loopVars, pollHistory
  <2> QED BY <2>3, <2>4
<1> SUFFICES Typed BY <1>1
<1> USE DEF TypeOK, StateTypeOK, EvalTypeOK, HookTypeOK, HookStep, runVars,
            evalVars, Forget
<1>2. ASSUME NEW h \in Hooks, NEW r \in Runs, Deliver(h, r) PROVE Typed
  BY <1>2 DEF Deliver
<1>3. ASSUME NEW h \in Hooks,
             \/ HookNotFound(h) \/ HookDuplicate(h) \/ HookError(h)
             \/ HookRetry(h) \/ HookEnqueueFails(h) \/ HookCrash(h)
      PROVE  Typed
  <2>1. /\ UNCHANGED <<runVars, hookRun, evalVars, sweepPc, sweepList, marks>>
        /\ hookPc' \in [Hooks -> Pcs]
        /\ \A g \in Hooks : hookPc'[g] # "idle" => hookPc[g] # "idle"
        /\ hookSeen' = hookSeen \/ hookSeen' = [hookSeen EXCEPT ![h] = "none"]
        /\ \/ hookOverlap' = hookOverlap
           \/ hookOverlap' = [hookOverlap EXCEPT ![h] = {}]
        /\ interrupted' \subseteq interrupted \cup {hookRun[h]}
        /\ hookRun[h] \in Runs
    <3>1. CASE HookNotFound(h) BY <3>1 DEF HookNotFound
    <3>2. CASE HookDuplicate(h) BY <3>2 DEF HookDuplicate
    <3>3. CASE HookError(h) BY <3>3 DEF HookError
    <3>4. CASE HookRetry(h) BY <3>4 DEF HookRetry
    <3>5. CASE HookEnqueueFails(h) BY <3>5 DEF HookEnqueueFails
    <3>6. CASE HookCrash(h)
      <4>1. /\ hookPc[h] # "idle"
            /\ hookPc' = [hookPc EXCEPT ![h] = "rejected"]
            /\ \/ hookSeen' = hookSeen
               \/ hookSeen' = [hookSeen EXCEPT ![h] = "none"]
            /\ \/ hookOverlap' = hookOverlap
               \/ hookOverlap' = [hookOverlap EXCEPT ![h] = {}]
            /\ \/ interrupted' = interrupted
               \/ interrupted' = interrupted \cup {hookRun[h]}
        BY <3>6 DEF HookCrash
      <4>2. UNCHANGED <<runVars, hookRun, evalVars, sweepPc, sweepList, marks>>
        BY <3>6 DEF HookCrash
      <4> QED BY <4>1, <4>2
    <3> QED BY <1>3, <3>1, <3>2, <3>3, <3>4, <3>5, <3>6
  <2> QED BY <2>1
<1>4. ASSUME NEW h \in Hooks, HookRead(h) PROVE Typed
  BY <1>4 DEF HookRead, RowExists
<1>5. ASSUME NEW h \in Hooks, HookComplete(h) \/ HookCompleteFails(h)
      PROVE  Typed
  <2>1. /\ UNCHANGED <<hookRun, evalVars, sweepPc, sweepList>>
        /\ hookPc' \in [Hooks -> Pcs]
        /\ \A g \in Hooks : hookPc'[g] # "idle" => hookPc[g] # "idle"
        /\ hookRun[h] \in Runs
        /\ interrupted' \subseteq interrupted \cup {hookRun[h]}
        /\ Complete(h)
    BY <1>5 DEF HookComplete, HookCompleteFails
  <2>2. /\ row' \in [Runs -> {"none", "pending", "completed", "failed", "gone"}]
        /\ hookSeen' \in [Hooks -> {"none", "pending", "completed", "failed"}]
        /\ marks' \subseteq Hooks
        /\ hookOverlap' \in [Hooks -> SUBSET Hooks]
    BY <2>1 DEF Complete
  <2> QED BY <2>1, <2>2
<1>6. ASSUME NEW h \in Hooks,
             HookFail(h) \/ HookNoDataset(h) \/ HookNoDatasetFails(h)
      PROVE  Typed
  <2>1. \E R : Fail(R)
    BY <1>6 DEF HookFail, HookNoDataset, HookNoDatasetFails
  <2>2. /\ UNCHANGED <<hookRun, evalVars, sweepPc, sweepList>>
        /\ \E to \in {"done", "failed"} : hookPc' = [hookPc EXCEPT ![h] = to]
        /\ hookPc[h] # "idle"
        /\ interrupted' \subseteq interrupted \cup {hookRun[h]}
        /\ hookSeen' = hookSeen \/ hookSeen' = [hookSeen EXCEPT ![h] = "none"]
        /\ \/ hookOverlap' = hookOverlap
           \/ hookOverlap' = [hookOverlap EXCEPT ![h] = {}]
    BY <1>6 DEF HookFail, HookNoDataset, HookNoDatasetFails
  <2> QED BY <2>1, <2>2, FailTypes
<1>8. ASSUME NEW h \in Hooks, HookEnqueue(h) PROVE Typed
  BY <1>8 DEF HookEnqueue, Enqueue
<1>10. ASSUME NEW c \in Sweeps, SweepList(c) PROVE Typed
  BY <1>10 DEF SweepList, StalePending
<1>11. ASSUME NEW c \in Sweeps, SweepCommit(c) PROVE Typed
  <2>1. \E R : Fail(R) BY <1>11 DEF SweepCommit
  <2> QED BY <1>11, <2>1, FailTypes DEF SweepCommit
<1>12. ASSUME NEW c \in Sweeps, SweepCrash(c) PROVE Typed
  BY <1>12 DEF SweepCrash
<1> QED BY <1>2, <1>3, <1>4, <1>5, <1>6, <1>8, <1>10, <1>11, <1>12
        DEF HookNext, HookHandler

LEMMA TypeStep ==
  TypeOK /\ MessageInv /\ [Next]_vars => TypeOK' /\ MessageInv'
<1> SUFFICES ASSUME TypeOK, MessageInv, [Next]_vars PROVE TypeOK' /\ MessageInv'
  OBVIOUS
<1>1. CASE UNCHANGED vars
  BY <1>1 DEF vars, TypeOK, StateTypeOK, PollTypeOK, EvalTypeOK, HookTypeOK,
              subVars, runVars, pollVars, loopVars, pollHistory, evalVars,
              hookVars, MessageInv
<1> QED BY <1>1, StateTypes, PollTypes, EvalTypes, HookTypes DEF Next

LEMMA InitTypes == Init => TypeOK /\ MessageInv
<1> SUFFICES ASSUME Init PROVE TypeOK /\ MessageInv
  OBVIOUS
<1>1. StateTypeOK /\ PollTypeOK /\ HookTypeOK
  BY DEF Init, StateInit, PollInit, HookInit, StateTypeOK, PollTypeOK,
         HookTypeOK
<1>2. EvalTypeOK /\ MessageInv
  BY MaxTriesAssumption DEF Init, EvalInit, EvalTypeOK, MessageInv, Messages
<1> QED BY <1>1, <1>2 DEF TypeOK

\* Every variable keeps its type: a run id is known to every handler that has
\* started, and no message is executed more than MaxTries times in a row.
THEOREM TypeCorrect == Spec => []TypeOK
<1> QED BY InitTypes, TypeStep, PTL DEF Spec

-----------------------------------------------------------------------------
(* The claim of the poll task *)

\* A poll has a stake in a subscription from its select until the recheck
\* period ends, or until it stops before its claim.
Stake(p, s) == p \in claimedBy[s] \/ (pollPc[p] = "claim" /\ s \in todo[p])

PollsMet(p, q) == p = q \/ p \in pollOverlap[q] \/ q \in pollOverlap[p]

\* A claimed subscription is not due, so a poll that selects it later does not
\* exist: whoever shares it was between select and claim at the same time.
ClaimInv ==
  /\ \A s \in Subs : claimedBy[s] # {} => ~due[s]
  /\ \A p \in Polls, s \in Subs :
       pollPc[p] \in {"idle", "claim"} => p \notin claimedBy[s]
  /\ \A s \in Subs, p, q \in Polls :
       Stake(p, s) /\ Stake(q, s) => PollsMet(p, q)

LEMMA ClaimStep == TypeOK /\ ClaimInv /\ [Next]_vars => ClaimInv'
<1> SUFFICES ASSUME TypeOK, ClaimInv, [Next]_vars PROVE ClaimInv' OBVIOUS
<1> USE DEF ClaimInv, Stake, PollsMet, TypeOK, StateTypeOK, PollTypeOK, pollVars,
            loopVars, pollHistory
<1>1. ASSUME UNCHANGED <<due, pollPc, todo, claimedBy, pollOverlap>>
      PROVE  ClaimInv'
  BY <1>1
<1>2. CASE UNCHANGED vars
  BY <1>1, <1>2 DEF vars, subVars, pollVars, loopVars, pollHistory
<1>3. CASE OwnerNext \/ PlatformNext
  BY <1>1, <1>3 DEF OwnerNext, PlatformNext, Delete, Toggle, ActorFinish,
                    RunAges, subVars, pollVars
<1>4. CASE HookNext /\ UNCHANGED pollVars
  BY <1>1, <1>4, HookFrame DEF subVars, pollVars
<1>5. CASE EvalNext /\ UNCHANGED <<pollVars, hookVars>>
  BY <1>1, <1>5 DEF EvalNext, subVars, pollVars
<1>6. CASE PollNext
  <2>1. ASSUME NEW p \in Polls, PollFindsNothing(p) PROVE ClaimInv'
    BY <2>1 DEF PollFindsNothing, subVars
  <2>2. ASSUME NEW p \in Polls, PollSelect(p) PROVE ClaimInv'
    <3>1. PICK B \in SUBSET Eligible : todo' = [todo EXCEPT ![p] = B]
      BY <2>2 DEF PollSelect
    <3>2. \A s \in B : claimedBy[s] = {}
      BY <3>1 DEF Eligible
    <3>3. \A s \in B, q \in Polls : Stake(q, s) => q \in pollOverlap'[p]
      BY <2>2, <3>2 DEF PollSelect
    <3>4. \A s \in Subs : ~Stake(p, s)
      BY <2>2 DEF PollSelect
    <3>5. \A s \in Subs, q \in Polls :
            Stake(q, s)' => Stake(q, s) \/ (q = p /\ s \in B)
      BY <2>2, <3>1 DEF PollSelect
    <3>6. \A q \in Polls : q # p => pollOverlap'[q] = pollOverlap[q]
      BY <2>2 DEF PollSelect
    <3>7. ASSUME NEW s \in Subs, NEW q \in Polls, NEW t \in Polls,
                 Stake(q, s)', Stake(t, s)'
          PROVE  PollsMet(q, t)'
      BY <3>3, <3>4, <3>5, <3>6, <3>7
    <3>8. /\ \A s \in Subs : claimedBy'[s] # {} => ~due'[s]
          /\ \A q \in Polls, s \in Subs :
               pollPc'[q] \in {"idle", "claim"} => q \notin claimedBy'[s]
      BY <2>2 DEF PollSelect, subVars
    <3> QED BY <3>7, <3>8
  <2>3. ASSUME NEW p \in Polls, pollPc[p] = "claim", Claim(p),
               todo' = todo \/ todo' = [todo EXCEPT ![p] = {}],
               \E to \in {"loop", "done"} : pollPc' = [pollPc EXCEPT ![p] = to],
               pollOverlap' = pollOverlap
        PROVE  ClaimInv'
    <3>1. \A s \in Subs, q \in Polls : Stake(q, s)' => Stake(q, s)
      BY <2>3 DEF Claim
    <3>2. /\ \A s \in Subs : claimedBy'[s] # {} => ~due'[s]
          /\ \A q \in Polls, s \in Subs :
               pollPc'[q] \in {"idle", "claim"} => q \notin claimedBy'[s]
      <4>1. /\ \A s \in Subs : due'[s] <=> due[s] /\ s \notin todo[p]
            /\ \A s \in Subs : claimedBy'[s] =
                 claimedBy[s] \cup (IF s \in todo[p] THEN {p} ELSE {})
        BY <2>3, Zenon DEF Claim
      <4> QED BY <2>3, <4>1
    <3> QED BY <2>3, <3>1, <3>2
  <2>10. ASSUME NEW p \in Polls, PollClaim(p) \/ PollClaimFails(p)
         PROVE  ClaimInv'
    <3>1. CASE Claim(p)
      <4>1. /\ pollPc[p] = "claim"
            /\ todo' = todo \/ todo' = [todo EXCEPT ![p] = {}]
            /\ \E to \in {"loop", "done"} : pollPc' = [pollPc EXCEPT ![p] = to]
            /\ pollOverlap' = pollOverlap
        BY <2>10 DEF PollClaim, PollClaimFails, loopVars
      <4> QED BY <2>3, <3>1, <4>1
    <3>2. CASE ~Claim(p)
      <4>1. /\ UNCHANGED <<due, claimedBy, pollOverlap>>
            /\ pollPc' = [pollPc EXCEPT ![p] = "done"]
            /\ todo' = [todo EXCEPT ![p] = {}]
        BY <2>10, <3>2 DEF PollClaim, PollClaimFails
      <4> QED BY <4>1
    <3> QED BY <3>1, <3>2
  <2>4. ASSUME NEW p \in Polls,
               PollRecord(p) \/ PollRecordFails(p) \/ PollEnd(p)
        PROVE  ClaimInv'
    <3>1. /\ UNCHANGED <<due, todo, claimedBy, pollOverlap>>
          /\ \A q \in Polls : pollPc'[q] = pollPc[q]
                             \/ pollPc'[q] \in {"loop", "done"}
      <4>1. CASE PollRecord(p) BY <4>1 DEF PollRecord, subVars
      <4>3. CASE PollRecordFails(p) BY <4>3 DEF PollRecordFails, subVars
      <4>2. CASE PollEnd(p) BY <4>2 DEF PollEnd, subVars
      <4> QED BY <2>4, <4>1, <4>2, <4>3
    <3> QED BY <3>1
  <2>5. ASSUME NEW p \in Polls, PollCrash(p) PROVE ClaimInv'
    BY <2>5 DEF PollCrash, subVars
  <2>6. ASSUME NEW p \in Polls, NEW s \in Subs, Reached(p, s),
               UNCHANGED <<due, claimedBy, pollOverlap>>,
               \A q \in Polls : pollPc'[q] # pollPc[q] =>
                 pollPc[q] = "loop" /\ pollPc'[q] = "record"
        PROVE  ClaimInv'
    BY <2>6 DEF Reached
  <2>7. ASSUME NEW p \in Polls, NEW s \in Subs, PollSkip(p, s) PROVE ClaimInv'
    BY <2>6, <2>7 DEF PollSkip, subVars
  <2>8. ASSUME NEW p \in Polls, NEW s \in Subs, NEW r \in Runs,
               PollDispatched(p, s, r) \/ PollDispatchLost(p, s, r)
        PROVE  ClaimInv'
    BY <2>6, <2>8 DEF PollDispatched, PollDispatchLost, Reached, subVars
  <2>9. ASSUME NEW s \in Subs, RecheckElapses(s) PROVE ClaimInv'
    BY <2>9 DEF RecheckElapses
  <2> QED BY <1>6, <2>1, <2>2, <2>10, <2>4, <2>5, <2>7, <2>8, <2>9
          DEF PollNext
<1> QED BY <1>2, <1>3, <1>4, <1>5, <1>6 DEF Next

\* For any number of subscriptions, polls and runs and any batch size, two
\* polls schedule one subscription in one recheck period only if they overlap
\* between select and claim.
THEOREM ClaimIsMutex == Spec => []RepeatScheduleOnlyByOverlap
<1>1. Init => ClaimInv
  BY DEF Init, StateInit, PollInit, ClaimInv, Stake
<1>2. TypeOK /\ ClaimInv => RepeatScheduleOnlyByOverlap
  BY DEF ClaimInv, Stake, PollsMet, RepeatScheduleOnlyByOverlap, TypeOK,
         PollTypeOK
<1> QED BY <1>1, <1>2, ClaimStep, TypeCorrect, PTL DEF Spec

-----------------------------------------------------------------------------
(* Rows and runs *)

\* How the rows, the runs and the processes that hold their ids hang together.
LinkInv ==
  /\ \A r \in Runs : row[r] # "none" => ext[r] # "unstarted"
  /\ \A p \in Polls : pollPc[p] = "record" =>
       held[p] \in Runs /\ row[held[p]] = "none" /\ ext[held[p]] # "unstarted"
  /\ \A p, q \in Polls :
       pollPc[p] = "record" /\ pollPc[q] = "record" /\ held[p] = held[q] => p = q
  /\ \A h \in Hooks : hookPc[h] # "idle" =>
       ext[hookRun[h]] \notin {"unstarted", "running"}
  /\ \A h \in Hooks : message[h] # "none" \/ h \in marks => hookPc[h] # "idle"
  /\ \A x \in Evals : evalPc[x] # "idle" =>
       evalHook[x] \in Hooks /\ hookPc[evalHook[x]] # "idle"
  /\ \A x \in Evals : alert[x] # "none" \/ message[x] # "none" =>
       evalPc[x] # "idle"
  /\ \A h \in marks : /\ Succeeded(hookRun[h])
                     /\ row[hookRun[h]] \in {"completed", "gone"}

\* What a step of a callback or of the sweep does to rows, marks, pcs and
\* messages.
LEMMA HookEffect ==
  ASSUME TypeOK, LinkInv, HookNext /\ UNCHANGED pollVars
  PROVE  /\ \A r \in Runs : row'[r] # row[r] =>
              RowExists(r) /\ row'[r] \in {"completed", "failed"}
         /\ \A h \in Hooks : hookPc[h] # "idle" =>
              hookPc'[h] # "idle" /\ hookRun'[h] = hookRun[h]
         /\ \A m \in Messages : message'[m] # message[m] =>
              m \in Hooks /\ hookPc[m] = "marked" /\ message'[m] = "queued"
         /\ \A h \in marks' : h \in marks \/
              (hookPc[h] = "read" /\ Succeeded(hookRun[h])
                                 /\ row'[hookRun[h]] = "completed")
         /\ \A h \in marks : h \in marks' =>
              \/ row'[hookRun[h]] = row[hookRun[h]]
              \/ row'[hookRun[h]] = "completed"
         /\ \A h \in Hooks : hookPc[h] = "idle" /\ hookPc'[h] # "idle" =>
              CallsBack(hookRun'[h])
<1> USE DEF LinkInv, TypeOK, StateTypeOK, EvalTypeOK, HookTypeOK, HookStep,
            runVars, evalVars
<1> DEFINE Goal ==
      /\ \A r \in Runs : row'[r] # row[r] =>
           RowExists(r) /\ row'[r] \in {"completed", "failed"}
      /\ \A h \in Hooks : hookPc[h] # "idle" =>
           hookPc'[h] # "idle" /\ hookRun'[h] = hookRun[h]
      /\ \A m \in Messages : message'[m] # message[m] =>
           m \in Hooks /\ hookPc[m] = "marked" /\ message'[m] = "queued"
      /\ \A h \in marks' : h \in marks \/
           (hookPc[h] = "read" /\ Succeeded(hookRun[h])
                              /\ row'[hookRun[h]] = "completed")
      /\ \A h \in marks : h \in marks' =>
           \/ row'[hookRun[h]] = row[hookRun[h]]
           \/ row'[hookRun[h]] = "completed"
      /\ \A h \in Hooks : hookPc[h] = "idle" /\ hookPc'[h] # "idle" =>
           CallsBack(hookRun'[h])
<1>1. ASSUME NEW h \in Hooks, NEW r \in Runs, Deliver(h, r) PROVE Goal
  BY <1>1, HookFrame DEF Deliver, CallsBack, Succeeded
<1>2. ASSUME UNCHANGED <<row, hookRun, message, marks>>,
             NEW h \in Hooks, hookPc[h] # "idle",
             \E to \in {"sent", "rejected", "read", "done", "failed"} :
               hookPc' = [hookPc EXCEPT ![h] = to]
      PROVE  Goal
  BY <1>2
<1>3. ASSUME NEW h \in Hooks,
             HookNotFound(h) \/ HookDuplicate(h) \/ HookError(h) \/ HookRetry(h)
               \/ HookRead(h)
      PROVE  Goal
  BY <1>2, <1>3
     DEF HookNotFound, HookDuplicate, HookError, HookRetry, HookRead
<1>4. ASSUME NEW h \in Hooks, HookEnqueueFails(h) \/ HookCrash(h) PROVE Goal
  BY <1>2, <1>4 DEF HookEnqueueFails, HookCrash
<1>5. ASSUME NEW h \in Hooks, HookComplete(h) \/ HookCompleteFails(h)
      PROVE  Goal
  <2>1. /\ hookPc[h] = "read" /\ Succeeded(hookRun[h]) /\ RowExists(hookRun[h])
        /\ \E to \in {"marked", "failed"} : hookPc' = [hookPc EXCEPT ![h] = to]
        /\ row' = [row EXCEPT ![hookRun[h]] = "completed"]
        /\ marks' = marks \cup {h}
        /\ UNCHANGED <<hookRun, message>>
    BY <1>5 DEF HookComplete, HookCompleteFails, Complete
  <2> QED BY <2>1 DEF RowExists, Succeeded
<1>6. ASSUME NEW h \in Hooks,
             HookFail(h) \/ HookNoDataset(h) \/ HookNoDatasetFails(h)
      PROVE  Goal
  <2>1. /\ hookPc[h] # "idle"
        /\ \E to \in {"done", "failed"} : hookPc' = [hookPc EXCEPT ![h] = to]
        /\ Fail({}) \/ (RowExists(hookRun[h]) /\ Fail({hookRun[h]}))
        /\ UNCHANGED <<hookRun, message>>
    BY <1>6 DEF HookFail, HookNoDataset, HookNoDatasetFails
  <2> QED BY <2>1 DEF Fail, RowExists
<1>8. ASSUME NEW h \in Hooks, HookEnqueue(h) PROVE Goal
  BY <1>8 DEF HookEnqueue, Enqueue, Messages
<1>9. ASSUME NEW c \in Sweeps, SweepCommit(c) PROVE Goal
  BY <1>9 DEF SweepCommit, Fail, RowExists
<1>10. ASSUME NEW c \in Sweeps, SweepList(c) \/ SweepCrash(c) PROVE Goal
  BY <1>10 DEF SweepList, SweepCrash
<1> QED BY <1>1, <1>3, <1>4, <1>5, <1>6, <1>8, <1>9, <1>10
        DEF HookNext, HookHandler

\* What a step of an execution does to the pcs, the messages and the alerts:
\* it takes a message, or goes on, or is over without a trace.
Takes(x) ==
  /\ evalPc[x] = "idle" /\ evalPc'[x] \in {"ended", "loaded", "raised"}
  /\ \E m \in Messages : message[m] = "queued" /\ evalHook'[x] = HookOf(m)
  /\ UNCHANGED <<alert, message>>

GoesOn(x) ==
  /\ evalPc[x] # "idle" /\ evalPc'[x] # "idle"
  /\ evalHook' = evalHook
  /\ evalPc'[x] = "checked" => ext[hookRun[evalHook[x]]] = "match"
                               \/ evalPc[x] = "checked"
  /\ \A m \in Messages : message'[m] # message[m] =>
       message'[m] # "none" /\ (message[m] # "none" \/ m = x)

Vanishes(x) ==
  /\ evalPc'[x] = "idle"
  /\ alert[x] = "none" /\ message[x] = "none" /\ message'[x] = "none"
  /\ alert' = alert
  /\ \A m \in Messages : message'[m] = "none" <=> message[m] = "none"

LEMMA EvalEffect ==
  ASSUME TypeOK, MessageInv, LinkInv, EvalNext
  PROVE  \E x \in Evals :
           /\ Takes(x) \/ GoesOn(x) \/ Vanishes(x)
           /\ alert'[x] # alert[x] =>
                \/ alert'[x] = "old" /\ alert[x] = "recent"
                \/ EvalSave(x)
           /\ \A y \in Evals \ {x} :
                UNCHANGED <<evalPc[y], alert[y], evalHook[y]>>
<1> USE DEF TypeOK, EvalTypeOK, EvalStep, Live
<1>0. Evals \subseteq Messages /\ None \notin Messages
  BY EvalsAssumption DEF Messages
<1>1. PICK x \in Evals : \/ \E m \in Messages : EvalLoad(x, m)
                         \/ EvalTask(x) \/ EvalCrash(x) \/ AlertAges(x)
  BY DEF EvalNext
<1> DEFINE Goal ==
      /\ Takes(x) \/ GoesOn(x) \/ Vanishes(x)
      /\ alert'[x] # alert[x] =>
           \/ alert'[x] = "old" /\ alert[x] = "recent"
           \/ EvalSave(x)
      /\ \A y \in Evals \ {x} :
           UNCHANGED <<evalPc[y], alert[y], evalHook[y]>>
<1>2. ASSUME NEW m \in Messages, EvalLoad(x, m) PROVE Goal
  BY <1>2 DEF EvalLoad, Takes
<1>3. ASSUME UNCHANGED <<evalTaskVars, alert>>, evalPc[x] # "idle",
             \E to \in Live : /\ evalPc' = [evalPc EXCEPT ![x] = to]
                              /\ to = "checked" => ext[hookRun[evalHook[x]]] = "match"
      PROVE  Goal
  BY <1>3 DEF evalTaskVars, GoesOn
<1>4. CASE EvalFetchFails(x) \/ EvalNoMatch(x) \/ EvalSuppressed(x)
             \/ EvalCheck(x) \/ EvalSaveFails(x)
  BY <1>3, <1>4 DEF EvalFetchFails, EvalNoMatch, EvalSuppressed, EvalCheck,
                    EvalSaveFails
<1>5. CASE EvalSave(x)
  <2>1. /\ evalPc[x] = "checked" /\ UNCHANGED evalTaskVars
        /\ evalPc' = [evalPc EXCEPT ![x] = "ended"]
        /\ alert' = [alert EXCEPT ![x] = "recent"]
    BY <1>5 DEF EvalSave
  <2> QED BY <1>5, <2>1 DEF evalTaskVars, GoesOn
<1>6. CASE EvalRetry(x)
  <2>1. /\ UNCHANGED <<evalHook, alert>> /\ evalPc[x] = "raised"
        /\ \E to \in {"retried", "dropping"} : evalPc' = [evalPc EXCEPT ![x] = to]
        /\ message' = message \/ message' = [message EXCEPT ![x] = "queued"]
    BY <1>6 DEF EvalRetry, Retry, Enqueue
  <2> QED BY <1>0, <2>1 DEF GoesOn
<1>7. CASE EvalAck(x) \/ EvalCrash(x)
  <2>1. /\ Over(x) /\ alert' = alert /\ evalPc[x] # "idle"
        /\ \/ message' = message
           \/ \E to \in {"acked", "dropped"} :
                message' = [message EXCEPT ![taken[x]] = to]
    BY <1>7 DEF EvalAck, EvalCrash
  <2>2. \A m \in Messages : message'[m] = "none" <=> message[m] = "none"
    <3>1. taken[x] \in Messages => message[taken[x]] # "none"
      BY <1>0 DEF MessageInv
    <3> QED BY <2>1, <3>1
  <2>3. \A y \in Evals \ {x} : UNCHANGED <<evalPc[y], alert[y], evalHook[y]>>
    BY <2>1 DEF Over
  <2>4. CASE alert[x] = "none" /\ message[x] = "none"
    BY <1>0, <2>1, <2>2, <2>3, <2>4 DEF Over, Vanishes
  <2>5. CASE ~(alert[x] = "none" /\ message[x] = "none")
    <3>1. evalPc' = [evalPc EXCEPT ![x] = "done"] /\ evalHook' = evalHook
      BY <2>1, <2>5 DEF Over
    <3> QED BY <2>1, <2>2, <2>3, <3>1 DEF GoesOn
  <2> QED BY <2>4, <2>5
<1>8. CASE AlertAges(x)
  <2>1. /\ alert[x] = "recent" /\ alert' = [alert EXCEPT ![x] = "old"]
        /\ UNCHANGED <<evalTaskVars, evalPc>>
    BY <1>8 DEF AlertAges
  <2>2. evalPc[x] # "idle"
    BY <2>1 DEF LinkInv
  <2> QED BY <2>1, <2>2 DEF evalTaskVars, GoesOn
<1> QED BY <1>1, <1>2, <1>4, <1>5, <1>6, <1>7, <1>8 DEF EvalTask

LEMMA LinkStep ==
  TypeOK /\ MessageInv /\ LinkInv /\ [Next]_vars => LinkInv'
<1> SUFFICES ASSUME TypeOK, MessageInv, LinkInv, [Next]_vars PROVE LinkInv'
  OBVIOUS
<1> USE DEF LinkInv, TypeOK, StateTypeOK, PollTypeOK, EvalTypeOK, HookTypeOK,
            Succeeded
<1>0. Evals \subseteq Messages /\ Hooks \subseteq Messages
      /\ Hooks \cap Evals = {}
  BY EvalsAssumption DEF Messages
<1>1. CASE UNCHANGED vars
  BY <1>1 DEF vars, runVars, pollVars, evalVars, hookVars, loopVars
<1>2. CASE OwnerNext
  <2>1. CASE \E s \in Subs : Delete(s)
    BY <2>1 DEF Delete, pollVars, loopVars, evalTaskVars, hookVars
  <2>2. CASE \E s \in Subs :
               Toggle(s) /\ UNCHANGED <<pollVars, evalVars, hookVars>>
    BY <2>2 DEF Toggle, runVars, pollVars, loopVars, evalVars, hookVars
  <2> QED BY <1>2, <2>1, <2>2 DEF OwnerNext
<1>3. CASE PlatformNext
  <2>1. /\ UNCHANGED <<row, hookRun, pollPc, held, evalPc, evalHook, message,
                       alert, hookPc, marks>>
        /\ \A r \in Runs : ext'[r] # ext[r] =>
             ext[r] = "running" /\ ext'[r] \in AllOutcomes
    BY <1>3, OutcomeAssumption
       DEF PlatformNext, ActorFinish, RunAges, pollVars, loopVars, evalVars,
           hookVars
  <2>2. \A r \in Runs : ext[r] \notin {"unstarted", "running"} => ext'[r] = ext[r]
    BY <2>1
  <2>3. \A r \in Runs : ext[r] # "unstarted" => ext'[r] # "unstarted"
    BY <2>1 DEF AllOutcomes
  <2>4. \A h \in marks : hookRun[h] \in Runs
    BY <1>0
  <2> QED BY <2>1, <2>2, <2>3, <2>4
<1>4. CASE PollNext /\ UNCHANGED <<hookRun, evalVars, hookVars>>
  <2>1. ASSUME UNCHANGED <<ext, row>>,
               \A p \in Polls : pollPc'[p] = "record" =>
                 pollPc[p] = "record" /\ held'[p] = held[p]
        PROVE  LinkInv'
    BY <1>4, <2>1 DEF evalVars, hookVars
  <2>2. ASSUME NEW p \in Polls,
               \/ PollFindsNothing(p) \/ PollSelect(p) \/ PollClaim(p)
               \/ PollClaimFails(p) \/ PollEnd(p)
        PROVE  LinkInv'
    <3>1. /\ UNCHANGED <<ext, row, held>>
          /\ \E to \in {"claim", "loop", "done"} :
               pollPc' = [pollPc EXCEPT ![p] = to]
      BY <2>2 DEF PollFindsNothing, PollSelect, PollClaim, PollClaimFails,
                  PollEnd, runVars, loopVars
    <3> QED BY <2>1, <3>1
  <2>3. ASSUME NEW p \in Polls, PollCrash(p) PROVE LinkInv'
    <3>1. /\ UNCHANGED <<ext, row>>
          /\ \A q \in Polls : pollPc'[q] = "record" =>
               pollPc[q] = "record" /\ held'[q] = held[q]
      <4>1. /\ UNCHANGED <<ext, row>>
            /\ pollPc' = [pollPc EXCEPT ![p] = "done"]
            /\ held' = [held EXCEPT ![p] = None]
        BY <2>3 DEF PollCrash, runVars
      <4> QED BY <4>1
    <3>2. QED BY ONLY <2>1, <3>1
  <2>4. ASSUME NEW p \in Polls, PollRecord(p) \/ PollRecordFails(p)
        PROVE  LinkInv'
    <3>1. /\ pollPc[p] = "record"
          /\ row' = row \/ row' = [row EXCEPT ![held[p]] = "pending"]
          /\ pollPc' = [pollPc EXCEPT ![p] = "loop"]
          /\ held' = [held EXCEPT ![p] = None]
          /\ ext' = ext
      BY <2>4 DEF PollRecord, PollRecordFails
    <3>2. held[p] \in Runs /\ row[held[p]] = "none" /\ ext[held[p]] # "unstarted"
      BY <3>1
    <3>3. \A r \in Runs : row'[r] # "none" => ext'[r] # "unstarted"
      BY <3>1, <3>2
    <3>4. \A q \in Polls : pollPc'[q] = "record" =>
            /\ pollPc[q] = "record"
            /\ held'[q] = held[q]
            /\ held[q] # held[p]
      BY <3>1
    <3>5. \A r \in Runs : r # held[p] => row'[r] = row[r]
      BY <3>1
    <3>6. \A h \in marks : hookRun[h] \in Runs \ {held[p]}
      BY <1>0, <3>2
    <3>7. UNCHANGED <<hookRun, hookPc, marks, message, evalPc, evalHook, alert>>
      BY <1>4 DEF evalVars, hookVars
    <3> QED BY <3>1, <3>3, <3>4, <3>5, <3>6, <3>7
  <2>5. ASSUME NEW p \in Polls, NEW s \in Subs, PollSkip(p, s) PROVE LinkInv'
    BY <2>1, <2>5 DEF PollSkip, runVars
  <2>6. ASSUME NEW p \in Polls, NEW s \in Subs, NEW r \in Runs,
               PollDispatched(p, s, r)
        PROVE  LinkInv'
    BY <1>4, <2>6 DEF PollDispatched, Start, Reached, evalVars, hookVars
  <2>7. ASSUME NEW p \in Polls, NEW s \in Subs, NEW r \in Runs,
               PollDispatchLost(p, s, r)
        PROVE  LinkInv'
    BY <1>4, <2>7 DEF PollDispatchLost, Start, Reached, evalVars, hookVars
  <2>8. ASSUME NEW s \in Subs, RecheckElapses(s) PROVE LinkInv'
    BY <2>1, <2>8 DEF RecheckElapses, runVars, loopVars
  <2> QED BY <1>4, <2>2, <2>3, <2>4, <2>5, <2>6, <2>7, <2>8 DEF PollNext
<1>5. CASE HookNext /\ UNCHANGED pollVars
  <2>1. UNCHANGED <<ext, pollPc, held, alert, evalPc, evalHook>>
    BY <1>5, HookFrame DEF pollVars, loopVars
  <2>2. /\ \A r \in Runs : row'[r] = "none" <=> row[r] = "none"
        /\ \A h \in Hooks : hookPc[h] # "idle" =>
             hookPc'[h] # "idle" /\ hookRun'[h] = hookRun[h]
        /\ \A m \in Messages : message'[m] # message[m] =>
              m \in Hooks /\ hookPc[m] = "marked" /\ message'[m] = "queued"
    <3>1. ASSUME NEW r \in Runs PROVE row'[r] = "none" <=> row[r] = "none"
      <4>1. row'[r] # row[r] =>
              RowExists(r) /\ row'[r] \in {"completed", "failed"}
        BY <1>5, HookEffect
      <4> QED BY ONLY <4>1 DEF RowExists
    <3> QED BY <1>5, <3>1, HookEffect
  <2>3. \A r \in Runs : row'[r] # "none" => ext'[r] # "unstarted"
    BY <2>1, <2>2
  <2>4. \A p \in Polls : pollPc'[p] = "record" =>
          held'[p] \in Runs /\ row'[held'[p]] = "none"
            /\ ext'[held'[p]] # "unstarted"
    BY <2>1, <2>2
  <2>5. \A h \in Hooks : hookPc'[h] # "idle" =>
          ext'[hookRun'[h]] \notin {"unstarted", "running"}
    <3>1. ASSUME NEW h \in Hooks, hookPc[h] = "idle", hookPc'[h] # "idle"
          PROVE  ext'[hookRun'[h]] \notin {"unstarted", "running"}
      BY <1>5, <2>1, <3>1, HookEffect DEF CallsBack
    <3> QED BY <2>1, <2>2, <3>1
  <2>6. \A h \in marks' :
          \/ h \in marks
          \/ /\ h \in Hooks
             /\ hookPc[h] = "read"
             /\ ext[hookRun[h]] \in {"match", "nomatch", "nodata"}
             /\ row'[hookRun[h]] = "completed"
    <3>1. marks' \subseteq Hooks
      BY <1>5, HookTypes
    <3> QED BY <1>5, <3>1, HookEffect
  <2>7. \A h \in marks : h \in marks' =>
          \/ row'[hookRun[h]] = row[hookRun[h]]
          \/ row'[hookRun[h]] = "completed"
    BY <1>5, HookEffect
  <2>8. \A h \in Hooks : message'[h] # "none" \/ h \in marks' => hookPc'[h] # "idle"
    BY <1>0, <2>2, <2>6
  <2>9. \A h \in marks' : /\ ext'[hookRun'[h]] \in {"match", "nomatch", "nodata"}
                          /\ row'[hookRun'[h]] \in {"completed", "gone"}
    BY <2>1, <2>2, <2>6, <2>7
  <2>10. \A x \in Evals : /\ alert'[x] # "none" => evalPc'[x] # "idle"
                          /\ message'[x] # "none" => evalPc'[x] # "idle"
    BY <1>0, <2>1, <2>2
  <2>11. \A x \in Evals : evalPc'[x] # "idle" =>
           evalHook'[x] \in Hooks /\ hookPc'[evalHook'[x]] # "idle"
    BY <2>1, <2>2
  <2> QED BY <2>1, <2>3, <2>4, <2>5, <2>8, <2>9, <2>10, <2>11
<1>6. CASE EvalNext /\ UNCHANGED <<pollVars, hookVars>>
  <2>1. UNCHANGED <<ext, row, hookRun, hookPc, marks, pollPc, held>>
    BY <1>6 DEF EvalNext, subVars, runVars, pollVars, loopVars, hookVars
  <2>2. PICK x \in Evals :
           /\ Takes(x) \/ GoesOn(x) \/ Vanishes(x)
           /\ alert'[x] # alert[x] =>
                \/ alert'[x] = "old" /\ alert[x] = "recent"
                \/ EvalSave(x)
           /\ \A y \in Evals \ {x} :
                UNCHANGED <<evalPc[y], alert[y], evalHook[y]>>
    BY <1>6, EvalEffect
  <2>3. \A m \in Messages \ {x} : message[m] = "none" => message'[m] = "none"
    BY <2>2 DEF Takes, GoesOn, Vanishes
  <2>4. \A h \in Hooks : message'[h] # "none" => hookPc[h] # "idle"
    BY <1>0, <2>3
  <2>5. \A y \in Evals \ {x} :
           /\ alert'[y] # "none" \/ message'[y] # "none" => evalPc'[y] # "idle"
           /\ evalPc'[y] # "idle" =>
                evalHook'[y] \in Hooks /\ hookPc[evalHook'[y]] # "idle"
    BY <1>0, <2>2, <2>3
  <2>6. /\ alert'[x] # "none" \/ message'[x] # "none" => evalPc'[x] # "idle"
        /\ evalPc'[x] # "idle" =>
             evalHook'[x] \in Hooks /\ hookPc[evalHook'[x]] # "idle"
    <3>1. CASE Takes(x)
      <4>1. PICK m \in Messages :
              message[m] = "queued" /\ evalHook'[x] = HookOf(m)
        BY <3>1 DEF Takes
      <4>2. evalHook'[x] \in Hooks /\ hookPc[evalHook'[x]] # "idle"
        BY <4>1 DEF HookOf, Messages
      <4> QED BY <3>1, <4>2 DEF Takes
    <3>2. CASE GoesOn(x)
      BY <3>2 DEF GoesOn
    <3>3. CASE Vanishes(x)
      BY <3>3 DEF Vanishes
    <3> QED BY <2>2, <3>1, <3>2, <3>3
  <2>7. /\ \A h \in Hooks : message'[h] # "none" \/ h \in marks' => hookPc'[h] # "idle"
        /\ \A y \in Evals : evalPc'[y] # "idle" =>
             evalHook'[y] \in Hooks /\ hookPc'[evalHook'[y]] # "idle"
        /\ \A y \in Evals : alert'[y] # "none" \/ message'[y] # "none" =>
             evalPc'[y] # "idle"
    BY <2>1, <2>4, <2>5, <2>6
  <2> QED BY <2>1, <2>7
<1> QED BY <1>1, <1>2, <1>3, <1>4, <1>5, <1>6 DEF Next

-----------------------------------------------------------------------------
(* Duplicate callbacks *)

SameRun(g, h) == g # h /\ hookRun[g] = hookRun[h]

\* A handler that has read its run before another one completed it knows that
\* one as overlapped, and a handler that reads it later finds it completed.
MarkInv ==
  /\ \A h \in marks : hookPc[h] # "read"
  /\ \A g \in marks, h \in Hooks :
       hookPc[h] = "read" /\ SameRun(g, h) => g \in hookOverlap[h]
  /\ \A g, h \in marks :
       SameRun(g, h) => g \in hookOverlap[h] \/ h \in hookOverlap[g]

LEMMA MarkStep ==
  TypeOK /\ MessageInv /\ LinkInv /\ MarkInv /\ [Next]_vars => MarkInv'
<1> SUFFICES ASSUME TypeOK, MessageInv, LinkInv, MarkInv, [Next]_vars
             PROVE  MarkInv'
  OBVIOUS
<1> USE DEF MarkInv, SameRun, HookTypeOK, TypeOK, HookStep
<1>1. ASSUME UNCHANGED <<hookRun, hookVars>> PROVE MarkInv'
  BY <1>1 DEF hookVars
<1>2. CASE UNCHANGED vars BY <1>1, <1>2 DEF vars
<1>3. CASE OwnerNext \/ PlatformNext
  BY <1>1, <1>3 DEF OwnerNext, PlatformNext, Delete, Toggle, ActorFinish,
                    RunAges
<1>4. CASE PollNext /\ UNCHANGED <<hookRun, evalVars, hookVars>>
  BY <1>1, <1>4
<1>5. CASE EvalNext /\ UNCHANGED <<pollVars, hookVars>>
  BY <1>1, <1>5 DEF EvalNext
<1>6. CASE HookNext /\ UNCHANGED pollVars
  <2>0. /\ marks \subseteq Hooks
        /\ \A h \in Hooks : hookPc[h] # "idle" => hookRun'[h] = hookRun[h]
        /\ \A h \in marks : hookPc[h] # "idle"
    BY <1>6, HookEffect DEF LinkInv
  \* Steps by which no handler reads or completes.
  <2>1. ASSUME marks' \subseteq marks,
               \A h \in Hooks : hookPc'[h] = "read" => hookPc[h] = "read",
               \A h \in Hooks : hookOverlap'[h] = hookOverlap[h]
                 \/ (hookPc[h] = "read" /\ hookPc'[h] # "read")
        PROVE  MarkInv'
    BY <2>0, <2>1
  <2>2. ASSUME NEW h \in Hooks, NEW r \in Runs, Deliver(h, r) PROVE MarkInv'
    BY <2>1, <2>2 DEF Deliver
  <2>3. ASSUME NEW h \in Hooks,
               \/ HookNotFound(h) \/ HookDuplicate(h) \/ HookRetry(h)
               \/ HookEnqueue(h) \/ HookEnqueueFails(h) \/ HookNoDataset(h)
               \/ HookNoDatasetFails(h)
        PROVE  MarkInv'
    <3>1. /\ marks' \subseteq marks
          /\ \E to \in {"rejected", "done", "sent", "failed"} :
               hookPc' = [hookPc EXCEPT ![h] = to]
          /\ hookOverlap' = hookOverlap
      BY <2>3 DEF HookNotFound, HookDuplicate, HookRetry, HookEnqueue,
                  HookEnqueueFails, HookNoDataset, HookNoDatasetFails, Fail
    <3> QED BY <2>1, <3>1
  <2>4. ASSUME NEW h \in Hooks, HookFail(h) \/ HookError(h) \/ HookCrash(h)
        PROVE  MarkInv'
    <3>1. /\ marks' \subseteq marks
          /\ \E to \in {"done", "failed", "rejected"} :
               hookPc' = [hookPc EXCEPT ![h] = to]
          /\ \/ hookOverlap' = hookOverlap
             \/ /\ hookPc[h] = "read"
                /\ hookOverlap' = [hookOverlap EXCEPT ![h] = {}]
      BY <2>4 DEF HookFail, HookError, HookCrash, Forget, Fail
    <3> QED BY <2>1, <3>1
  <2>5. ASSUME NEW h \in Hooks, HookRead(h) PROVE MarkInv'
    <3>1. \A g \in marks : hookRun[g] # hookRun[h]
      <4>1. RowExists(hookRun[h]) /\ ~Duplicate(h)
        BY <2>5 DEF HookRead
      <4> QED BY <4>1 DEF LinkInv, Duplicate, RowExists
    <3>2. /\ hookPc' = [hookPc EXCEPT ![h] = "read"]
          /\ hookOverlap' = [hookOverlap EXCEPT ![h] = {}]
          /\ UNCHANGED <<hookRun, marks>>
      BY <2>5 DEF HookRead
    <3> QED BY <2>0, <3>1, <3>2
  <2>6. ASSUME NEW h \in Hooks, HookComplete(h) \/ HookCompleteFails(h)
        PROVE  MarkInv'
    <3>1. /\ hookPc[h] = "read"
          /\ \E to \in {"marked", "failed"} : hookPc' = [hookPc EXCEPT ![h] = to]
          /\ hookRun' = hookRun
          /\ marks' = marks \cup {h}
          /\ hookOverlap' = [g \in Hooks |->
               IF g # h /\ hookPc[g] = "read" THEN hookOverlap[g] \cup {h}
                                              ELSE hookOverlap[g]]
      BY <2>6 DEF HookComplete, HookCompleteFails, Complete
    <3>2. /\ hookOverlap'[h] = hookOverlap[h]
          /\ \A g \in Hooks : hookOverlap[g] \subseteq hookOverlap'[g]
          /\ \A g \in Hooks \ {h} : hookPc[g] = "read" => h \in hookOverlap'[g]
          /\ \A g \in Hooks \ {h} : hookPc'[g] = hookPc[g]
          /\ hookPc'[h] # "read"
      BY <3>1
    <3>3. \A g \in marks : SameRun(g, h) => g \in hookOverlap'[h]
      BY <3>1, <3>2
    <3> QED BY <2>0, <3>1, <3>2, <3>3
  <2>7. ASSUME NEW c \in Sweeps, SweepCommit(c) PROVE MarkInv'
    BY <2>1, <2>7 DEF SweepCommit, Fail
  <2>8. ASSUME NEW c \in Sweeps, SweepList(c) \/ SweepCrash(c) PROVE MarkInv'
    BY <2>1, <2>8 DEF SweepList, SweepCrash
  <2> QED BY <1>6, <2>2, <2>3, <2>4, <2>5, <2>6, <2>7, <2>8
          DEF HookNext, HookHandler
<1> QED BY <1>2, <1>3, <1>4, <1>5, <1>6 DEF Next

LEMMA InitLinks == Init => LinkInv /\ MarkInv
BY DEF Init, StateInit, PollInit, EvalInit, HookInit, LinkInv, MarkInv, Messages

\* However many callbacks, retries and sweeps there are, two handlers that both
\* hold a COMPLETED of one run overlapped: one had read the row before the
\* other one committed.
THEOREM DuplicatesOverlap == Spec => []DuplicateOnlyByOverlap
<1>1. MarkInv => DuplicateOnlyByOverlap
  BY DEF MarkInv, SameRun, DuplicateOnlyByOverlap
<1> QED BY <1>1, InitLinks, InitTypes, LinkStep, MarkStep, TypeStep, PTL
        DEF Spec

-----------------------------------------------------------------------------
(* Every COMPLETED run is evaluated *)

\* CompletedIsRequested, with its witness made a predicate of one callback.
Answers(h, r) ==
  h \in marks /\ hookRun[h] = r /\ (hookPc[h] = "marked" \/ message[h] # "none")

RequestInv ==
  \A r \in Runs : row[r] = "completed" =>
    r \in interrupted \/ \E h \in Hooks : Answers(h, r)

LEMMA RequestStep ==
  TypeOK /\ MessageInv /\ LinkInv /\ RequestInv /\ [Next]_vars => RequestInv'
<1> SUFFICES ASSUME TypeOK, MessageInv, LinkInv, RequestInv, [Next]_vars
             PROVE  RequestInv'
  OBVIOUS
<1> USE DEF RequestInv, Answers, HookTypeOK, EvalTypeOK, TypeOK, HookStep
<1>0. Hooks \subseteq Messages /\ Hooks \cap Evals = {}
  BY EvalsAssumption DEF Messages
<1>1. ASSUME UNCHANGED <<hookRun, hookVars>>,
             \A r \in Runs : row'[r] = "completed" => row[r] = "completed",
             \A h \in Hooks : message'[h] = "none" => message[h] = "none"
      PROVE  RequestInv'
  BY <1>1 DEF hookVars
<1>2. CASE UNCHANGED vars BY <1>1, <1>2 DEF vars, runVars, evalVars
<1>3. CASE OwnerNext \/ PlatformNext
  <2>1. CASE \E s \in Subs : Delete(s)
    BY <1>1, <2>1 DEF Delete, evalTaskVars
  <2>2. CASE PlatformNext \/ \E s \in Subs : Toggle(s)
               /\ UNCHANGED <<pollVars, evalVars, hookVars>>
    BY <1>1, <2>2 DEF PlatformNext, Toggle, ActorFinish, RunAges, runVars,
                      evalVars
  <2> QED BY <1>3, <2>1, <2>2 DEF OwnerNext
<1>4. CASE PollNext /\ UNCHANGED <<hookRun, evalVars, hookVars>>
  <2>1. \A r \in Runs : row'[r] = "completed" => row[r] = "completed"
    <3>1. CASE UNCHANGED row BY <3>1
    <3>2. ASSUME NEW p \in Polls, PollRecord(p) \/ PollRecordFails(p)
          PROVE  \A r \in Runs : row'[r] = "completed" => row[r] = "completed"
      <4>1. row' = row \/ row' = [row EXCEPT ![held[p]] = "pending"]
        BY <3>2 DEF PollRecord, PollRecordFails
      <4> QED BY <4>1 DEF StateTypeOK
    <3> QED BY <1>4, <3>1, <3>2
            DEF PollNext, PollFindsNothing, PollSelect, PollClaim,
                PollClaimFails, PollEnd, PollCrash, PollSkip, PollDispatched,
                PollDispatchLost, RecheckElapses, runVars
  <2> QED BY <1>1, <1>4, <2>1 DEF evalVars
<1>5. CASE EvalNext /\ UNCHANGED <<pollVars, hookVars>>
  <2>1. \A h \in Hooks : message'[h] = "none" => message[h] = "none"
    BY <1>0, <1>5, EvalEffect DEF Takes, GoesOn, Vanishes
  <2> QED BY <1>1, <1>5, <2>1 DEF EvalNext, runVars
<1>6. CASE HookNext /\ UNCHANGED pollVars
  <2>1. \A h \in marks : hookPc[h] # "idle" /\ hookRun'[h] = hookRun[h]
    BY <1>6, HookEffect DEF LinkInv
  <2>2. \A h \in Hooks : message'[h] = "none" => message[h] = "none"
    BY <1>0, <1>6, HookEffect
  \* Steps that take no answer back.
  <2>3. ASSUME UNCHANGED <<row, marks, interrupted>>,
               \A h \in Hooks : hookPc[h] = "marked" /\ h \in marks =>
                 hookPc'[h] = "marked" \/ message'[h] # "none"
        PROVE  RequestInv'
    BY <2>1, <2>2, <2>3
  \* Steps that fail rows.
  <2>4. ASSUME NEW R, Fail(R), interrupted \subseteq interrupted',
               \A h \in Hooks : hookPc[h] = "marked" /\ hookPc'[h] # "marked" =>
                 \/ hookRun[h] \in R
                 \/ row[hookRun[h]] # "completed"
                 \/ hookRun[h] \in interrupted'
        PROVE  RequestInv'
    <3>1. /\ \A r \in Runs : row'[r] = "completed" =>
               r \notin R /\ row[r] = "completed"
          /\ marks' = {h \in marks : hookRun[h] \notin R}
      BY <2>4 DEF Fail
    <3>2. ASSUME NEW r \in Runs, r \notin R, row[r] = "completed",
                 NEW h \in Hooks, Answers(h, r)
          PROVE  r \in interrupted' \/ Answers(h, r)'
      BY <2>1, <2>2, <2>4, <3>1, <3>2
    <3> QED BY <2>4, <3>1, <3>2
  <2>5. ASSUME NEW h \in Hooks, NEW r \in Runs, Deliver(h, r) PROVE RequestInv'
    BY <2>3, <2>5 DEF Deliver, runVars
  <2>6. ASSUME NEW h \in Hooks,
               \/ HookNotFound(h) \/ HookDuplicate(h) \/ HookError(h)
               \/ HookRetry(h) \/ HookRead(h)
        PROVE  RequestInv'
    BY <2>3, <2>6
       DEF HookNotFound, HookDuplicate, HookError, HookRetry, HookRead, runVars
  <2>8. ASSUME NEW h \in Hooks, HookComplete(h) \/ HookCompleteFails(h)
        PROVE  RequestInv'
    <3>0. /\ hookPc[h] = "read" /\ Complete(h) /\ hookRun' = hookRun
          /\ message' = message
          /\ interrupted \subseteq interrupted'
          /\ \/ hookPc' = [hookPc EXCEPT ![h] = "marked"]
             \/ /\ hookPc' = [hookPc EXCEPT ![h] = "failed"]
                /\ hookRun[h] \in interrupted'
      BY <2>8 DEF HookComplete, HookCompleteFails, evalVars
    <3>1. hookRun[h] \in interrupted' \/ Answers(h, hookRun[h])'
      BY <3>0 DEF Complete
    <3>2. \A g \in Hooks, r \in Runs : Answers(g, r) => Answers(g, r)'
      BY <3>0 DEF Complete
    <3>3. \A r \in Runs : row'[r] = "completed" =>
            row[r] = "completed" \/ r = hookRun[h]
      BY <3>0 DEF Complete, StateTypeOK
    <3> QED BY <3>0, <3>1, <3>2, <3>3
  <2>9. ASSUME NEW h \in Hooks, HookFail(h) PROVE RequestInv'
    BY <2>4, <2>9 DEF HookFail
  <2>10. ASSUME NEW h \in Hooks, HookNoDataset(h) PROVE RequestInv'
    BY <2>4, <2>10 DEF HookNoDataset, RowExists
  <2>15. ASSUME NEW h \in Hooks, HookNoDatasetFails(h) PROVE RequestInv'
    <3>1. /\ \E R : Fail(R)
          /\ hookPc' = [hookPc EXCEPT ![h] = "failed"]
          /\ interrupted' = interrupted \cup {hookRun[h]}
      BY <2>15 DEF HookNoDatasetFails
    <3> QED BY <2>4, <3>1
  <2>11. ASSUME NEW h \in Hooks, HookEnqueue(h) PROVE RequestInv'
    <3>1. /\ UNCHANGED <<row, marks, interrupted>>
          /\ message' = [message EXCEPT ![h] = "queued"]
          /\ hookPc' = [hookPc EXCEPT ![h] = "done"]
      BY <2>11 DEF HookEnqueue, Enqueue, runVars
    <3> QED BY <1>0, <2>3, <3>1
  <2>12. ASSUME NEW h \in Hooks, HookEnqueueFails(h) \/ HookCrash(h)
         PROVE  RequestInv'
    <3>1. /\ row' = row /\ marks' = marks /\ message' = message
          /\ hookRun' = hookRun
          /\ interrupted \subseteq interrupted'
          /\ hookPc[h] = "marked" => hookRun[h] \in interrupted'
          /\ \A g \in Hooks : g # h => hookPc'[g] = hookPc[g]
      <4>1. CASE HookEnqueueFails(h)
        BY <4>1 DEF HookEnqueueFails, runVars, evalVars
      <4>2. CASE HookCrash(h) BY <4>2 DEF HookCrash, runVars, evalVars
      <4> QED BY <2>12, <4>1, <4>2
    <3> QED BY <3>1
  <2>13. ASSUME NEW c \in Sweeps, SweepCommit(c) PROVE RequestInv'
    BY <2>4, <2>13 DEF SweepCommit
  <2>14. ASSUME NEW c \in Sweeps, SweepList(c) \/ SweepCrash(c)
         PROVE  RequestInv'
    BY <2>3, <2>14 DEF SweepList, SweepCrash, runVars
  <2> QED BY <1>6, <2>5, <2>6, <2>8, <2>9, <2>10, <2>11, <2>12, <2>13, <2>14,
             <2>15
          DEF HookNext, HookHandler
<1> QED BY <1>2, <1>3, <1>4, <1>5, <1>6 DEF Next

\* A run that is COMPLETED has its evaluation enqueued or about to be, except
\* where a handler was stopped by a fault after its commit: by a crash, by a
\* failing publish, or by the failure of the COMMIT itself or of the second one.
THEOREM CompletedRunsAreRequested == Spec => []CompletedIsRequested
<1>1. Init => RequestInv
  BY DEF Init, StateInit, RequestInv
<1>2. TypeOK /\ RequestInv => CompletedIsRequested
  BY DEF RequestInv, Answers, CompletedIsRequested
<1> QED BY <1>1, <1>2, InitLinks, InitTypes, LinkStep, RequestStep, TypeStep,
           PTL DEF Spec

-----------------------------------------------------------------------------
(* The 24-hour suppression *)

\* An execution that has passed its duplicate check knows every alert that was
\* committed since, whichever message it executes.
AlertInv ==
  /\ \A x, y \in Evals :
       ( /\ x # y
         /\ alert[x] = "recent"
         /\ evalPc[y] = "checked"
         /\ SameSub(x, y) ) => x \in evalOverlap[y]
  /\ RepeatAlertOnlyByOverlap

\* Steps of others, and those of an execution that neither check nor commit.
LEMMA AlertFrame ==
  ASSUME LinkInv, AlertInv,
         \A x \in Evals : /\ evalPc'[x] = "checked" => evalPc[x] = "checked"
                          /\ alert'[x] = "recent" => alert[x] = "recent",
         \A x \in Evals : evalPc[x] = "checked" \/ alert[x] = "recent" =>
           SubOf(x)' = SubOf(x) /\ evalOverlap'[x] = evalOverlap[x]
  PROVE  AlertInv'
<1> DEFINE Busy(x) == evalPc[x] = "checked" \/ alert[x] = "recent"
<1>1. \A x, y \in Evals : Busy(x) /\ Busy(y) =>
        (SameSub(x, y)' <=> SameSub(x, y))
  BY DEF SameSub
<1>2. \A x \in Evals : Busy(x) => evalOverlap'[x] = evalOverlap[x]
  OBVIOUS
<1> QED BY <1>1, <1>2 DEF AlertInv, RepeatAlertOnlyByOverlap

LEMMA AlertStep ==
  TypeOK /\ MessageInv /\ LinkInv /\ AlertInv /\ [Next]_vars => AlertInv'
<1> SUFFICES ASSUME TypeOK, MessageInv, LinkInv, AlertInv, [Next]_vars
             PROVE  AlertInv'
  OBVIOUS
<1> USE DEF EvalTypeOK, TypeOK, EvalStep
<1>1. \A x \in Evals : evalPc[x] = "checked" \/ alert[x] = "recent" =>
        /\ evalHook[x] \in Hooks
        /\ hookPc[evalHook[x]] # "idle"
        /\ hookRun[evalHook[x]] \in Runs
        /\ ext[hookRun[evalHook[x]]] # "unstarted"
  BY DEF LinkInv, HookTypeOK
\* Steps that leave the executions alone, and the ids they hold.
<1>2. ASSUME UNCHANGED <<evalPc, evalHook, evalOverlap>>,
             \A x \in Evals : alert'[x] = "recent" => alert[x] = "recent",
             \A h \in Hooks : hookPc[h] # "idle" => hookRun'[h] = hookRun[h],
             \A r \in Runs : ext[r] # "unstarted" => runSub'[r] = runSub[r]
      PROVE  AlertInv'
  <2>1. \A x \in Evals : evalPc[x] = "checked" \/ alert[x] = "recent" =>
          SubOf(x)' = SubOf(x)
    BY <1>1, <1>2 DEF SubOf, RunSubOf
  <2> QED BY <1>2, <2>1, AlertFrame
<1>3. CASE UNCHANGED vars
  BY <1>2, <1>3 DEF vars, evalVars, runVars
<1>4. CASE OwnerNext \/ PlatformNext
  <2>1. CASE \E s \in Subs : Delete(s)
    BY <1>2, <2>1 DEF Delete, evalTaskVars
  <2>2. CASE PlatformNext \/ \E s \in Subs : Toggle(s)
               /\ UNCHANGED <<pollVars, evalVars, hookVars>>
    BY <1>2, <2>2 DEF PlatformNext, Toggle, ActorFinish, RunAges, runVars,
                      evalVars
  <2> QED BY <1>4, <2>1, <2>2 DEF OwnerNext
<1>5. CASE PollNext /\ UNCHANGED <<hookRun, evalVars, hookVars>>
  <2>1. \A r \in Runs : ext[r] # "unstarted" => runSub'[r] = runSub[r]
    <3>1. CASE UNCHANGED runSub BY <3>1
    <3>2. ASSUME NEW p \in Polls, NEW s \in Subs, NEW r \in Runs, Start(p, s, r)
          PROVE  \A t \in Runs : ext[t] # "unstarted" => runSub'[t] = runSub[t]
      BY <3>2 DEF Start, StateTypeOK
    <3> QED BY <1>5, <3>1, <3>2
            DEF PollNext, PollFindsNothing, PollSelect, PollClaim,
                PollClaimFails, PollEnd, PollCrash, PollSkip, PollDispatched,
                PollDispatchLost, PollRecord, PollRecordFails, RecheckElapses,
                runVars
  <2> QED BY <1>2, <1>5, <2>1 DEF evalVars
<1>6. CASE HookNext /\ UNCHANGED pollVars
  BY <1>2, <1>6, HookEffect, HookFrame
<1>7. CASE EvalNext /\ UNCHANGED <<pollVars, hookVars>>
  <2>1. UNCHANGED <<hookRun, runSub>>
    BY <1>7 DEF EvalNext, runVars
  <2>2. PICK x \in Evals : \/ \E m \in Messages : EvalLoad(x, m)
                           \/ EvalTask(x) \/ EvalCrash(x) \/ AlertAges(x)
    BY <1>7 DEF EvalNext
  <2>3. ASSUME \A y \in Evals \ {x} :
                 UNCHANGED <<evalPc[y], evalHook[y], evalOverlap[y], alert[y]>>,
               evalPc'[x] # "checked",
               \/ alert[x] = "none" /\ alert'[x] = "none"
               \/ /\ UNCHANGED <<evalHook[x], evalOverlap[x]>>
                  /\ alert'[x] = "recent" => alert[x] = "recent"
        PROVE  AlertInv'
    <3>1. \A y \in Evals : /\ evalPc'[y] = "checked" => evalPc[y] = "checked"
                           /\ alert'[y] = "recent" => alert[y] = "recent"
      BY <2>3
    <3>2. \A y \in Evals : evalHook'[y] = evalHook[y] => SubOf(y)' = SubOf(y)
      BY <2>1 DEF SubOf, RunSubOf
    <3>3. \A y \in Evals : evalPc'[y] = "checked" \/ alert'[y] = "recent" =>
            SubOf(y)' = SubOf(y) /\ evalOverlap'[y] = evalOverlap[y]
      BY <2>3, <3>2
    <3>4. \A y, z \in Evals :
            /\ evalPc'[y] = "checked" \/ alert'[y] = "recent"
            /\ evalPc'[z] = "checked" \/ alert'[z] = "recent"
            => (SameSub(y, z)' <=> SameSub(y, z))
      BY <3>3 DEF SameSub
    <3> QED BY <3>1, <3>3, <3>4 DEF AlertInv, RepeatAlertOnlyByOverlap
  <2>4. ASSUME NEW m \in Messages, EvalLoad(x, m) PROVE AlertInv'
    <3>1. alert[x] = "none"
      BY <2>4 DEF EvalLoad, LinkInv
    <3> QED BY <2>3, <2>4, <3>1 DEF EvalLoad
  <2>5. CASE EvalFetchFails(x) \/ EvalNoMatch(x) \/ EvalSuppressed(x)
               \/ EvalSaveFails(x)
    <3>1. /\ UNCHANGED <<evalHook, evalOverlap, alert>>
          /\ \E to \in {"raised", "ended"} : evalPc' = [evalPc EXCEPT ![x] = to]
      BY <2>5 DEF EvalFetchFails, EvalNoMatch, EvalSuppressed, EvalSaveFails,
                  evalTaskVars
    <3> QED BY <2>3, <3>1
  <2>6. CASE EvalRetry(x)
    <3>1. /\ UNCHANGED <<evalHook, evalOverlap, alert>>
          /\ \E to \in {"retried", "dropping"} :
               evalPc' = [evalPc EXCEPT ![x] = to]
      BY <2>6 DEF EvalRetry, Retry
    <3> QED BY <2>3, <3>1
  <2>7. CASE EvalCheck(x)
    <3>1. /\ UNCHANGED <<evalHook, evalOverlap, alert>>
          /\ evalPc' = [evalPc EXCEPT ![x] = "checked"]
          /\ \A y \in Evals : alert[y] = "recent" => ~SameSub(y, x)
      BY <2>7 DEF EvalCheck, RecentAlert, evalTaskVars, SameSub
    <3>2. \A y, z \in Evals : SameSub(y, z)' <=> SameSub(y, z)
      BY <2>1, <3>1 DEF SameSub, SubOf, RunSubOf
    <3> QED BY <3>1, <3>2 DEF AlertInv, RepeatAlertOnlyByOverlap
  <2>8. CASE EvalSave(x)
    <3>1. /\ evalPc[x] = "checked"
          /\ evalPc' = [evalPc EXCEPT ![x] = "ended"]
          /\ alert' = [alert EXCEPT ![x] = "recent"]
          /\ evalHook' = evalHook
          /\ evalOverlap' = [y \in Evals |->
               IF y # x /\ evalPc[y] = "checked" THEN evalOverlap[y] \cup {x}
                                                 ELSE evalOverlap[y]]
      BY <2>8 DEF EvalSave, evalTaskVars
    <3>2. \A y, z \in Evals : SameSub(y, z)' <=> SameSub(y, z)
      BY <2>1, <3>1 DEF SameSub, SubOf, RunSubOf
    <3>3. /\ \A y \in Evals : evalOverlap[y] \subseteq evalOverlap'[y]
          /\ \A y \in Evals \ {x} :
               evalPc[y] = "checked" => x \in evalOverlap'[y]
          /\ \A y \in Evals \ {x} :
               evalPc'[y] = evalPc[y] /\ alert'[y] = alert[y]
          /\ evalPc'[x] # "checked"
      BY <3>1
    <3>4. \A y \in Evals \ {x} : alert[y] = "recent" /\ SameSub(y, x) =>
            y \in evalOverlap'[x]
      BY <3>1, <3>3 DEF AlertInv
    <3>5. \A y, z \in Evals : SameSub(y, z) <=> SameSub(z, y)
      BY DEF SameSub
    <3> QED BY <3>2, <3>3, <3>4, <3>5 DEF AlertInv, RepeatAlertOnlyByOverlap
  <2>9. CASE EvalAck(x) \/ EvalCrash(x)
    <3>1. Over(x) /\ alert' = alert
      BY <2>9 DEF EvalAck, EvalCrash
    <3>2. CASE alert[x] = "none" /\ message[x] = "none"
      BY <2>3, <3>1, <3>2 DEF Over
    <3>3. CASE ~(alert[x] = "none" /\ message[x] = "none")
      BY <2>3, <3>1, <3>3 DEF Over
    <3> QED BY <3>2, <3>3
  <2>10. CASE AlertAges(x)
    <3>1. /\ UNCHANGED <<evalHook, evalOverlap, evalPc>>
          /\ alert' = [alert EXCEPT ![x] = "old"]
      BY <2>10 DEF AlertAges, evalTaskVars
    <3>2. \A y, z \in Evals : SameSub(y, z)' <=> SameSub(y, z)
      BY <2>1, <3>1 DEF SameSub, SubOf, RunSubOf
    <3>3. \A y \in Evals : alert'[y] = "recent" => alert[y] = "recent"
      BY <3>1
    <3> QED BY <3>1, <3>2, <3>3 DEF AlertInv, RepeatAlertOnlyByOverlap
  <2> QED BY <2>2, <2>4, <2>5, <2>6, <2>7, <2>8, <2>9, <2>10 DEF EvalTask
<1> QED BY <1>3, <1>4, <1>5, <1>6, <1>7 DEF Next

\* However many callbacks, executions, retries and redeliveries there are, two
\* alerts of one subscription within 24 hours come from executions that
\* overlapped, be it of one message or next to its own retry.
THEOREM RepeatAlertsOverlap == Spec => []RepeatAlertOnlyByOverlap
<1>1. Init => AlertInv
  BY DEF Init, EvalInit, AlertInv, RepeatAlertOnlyByOverlap
<1>2. AlertInv => RepeatAlertOnlyByOverlap
  BY DEF AlertInv
<1> QED BY <1>1, <1>2, InitLinks, InitTypes, LinkStep, AlertStep, TypeStep, PTL
        DEF Spec

-----------------------------------------------------------------------------
(* Runs and the polls that started them *)

\* A poll has claimed what it still has to reach.
ClaimedInv ==
  \A p \in Polls, s \in Subs :
    pollPc[p] \in {"loop", "record"} /\ s \in todo[p] => p \in claimedBy[s]

\* A poll that is about to record a run started it for a subscription it has
\* claimed; its session is deactivated by a deleted subscription of the poll or
\* by the database.
Orphaned(p) == \E s \in Subs : subState[s] = "deleted" /\ p \in claimedBy[s]

RecordInv ==
  /\ \A p \in Polls : held[p] # None => pollPc[p] = "record"
  /\ \A p \in Polls : pollPc[p] = "record" =>
       /\ starter[held[p]] = p
       /\ runSub[held[p]] \in Subs
       /\ p \in claimedBy[runSub[held[p]]]
  /\ \A p \in Polls : poisoned[p] => Orphaned(p) \/ p \in insertFailed
  /\ StartedRunIsRecorded

\* What every step but those of the polls leaves to them.
LEMMA OthersLeavePolls ==
  ASSUME TypeOK, LinkInv, [Next]_vars,
         ~(PollNext /\ UNCHANGED <<hookRun, evalVars, hookVars>>)
  PROVE  /\ UNCHANGED <<runSub, pollVars>>
         /\ \A r \in Runs : ext'[r] = "unstarted" <=> ext[r] = "unstarted"
         /\ \A r \in Runs : row'[r] = "none" <=> row[r] = "none"
         /\ \A s \in Subs : subState[s] = "deleted" => subState'[s] = "deleted"
<1> USE DEF TypeOK, StateTypeOK
<1>1. CASE UNCHANGED vars
  BY <1>1 DEF vars, subVars, runVars
<1>2. CASE OwnerNext
  <2>1. CASE \E s \in Subs : Delete(s)
    BY <2>1 DEF Delete
  <2>2. CASE \E s \in Subs :
               Toggle(s) /\ UNCHANGED <<pollVars, evalVars, hookVars>>
    BY <2>2 DEF Toggle, runVars
  <2> QED BY <1>2, <2>1, <2>2 DEF OwnerNext
<1>3. CASE PlatformNext
  BY <1>3, OutcomeAssumption
     DEF PlatformNext, ActorFinish, RunAges, subVars, AllOutcomes
<1>4. CASE HookNext /\ UNCHANGED pollVars
  <2>1. ASSUME NEW r \in Runs PROVE row'[r] = "none" <=> row[r] = "none"
    <3>1. row'[r] # row[r] =>
            RowExists(r) /\ row'[r] \in {"completed", "failed"}
      BY <1>4, HookEffect
    <3> QED BY ONLY <3>1 DEF RowExists
  <2> QED BY <1>4, <2>1, HookFrame DEF subVars
<1>5. CASE EvalNext /\ UNCHANGED <<pollVars, hookVars>>
  BY <1>5 DEF EvalNext, subVars, runVars
<1> QED BY <1>1, <1>2, <1>3, <1>4, <1>5 DEF Next

LEMMA ClaimedStep ==
  TypeOK /\ LinkInv /\ ClaimedInv /\ [Next]_vars => ClaimedInv'
<1> SUFFICES ASSUME TypeOK, LinkInv, ClaimedInv, [Next]_vars
             PROVE  ClaimedInv'
  OBVIOUS
<1> USE DEF ClaimedInv, TypeOK, PollTypeOK
<1>1. CASE ~(PollNext /\ UNCHANGED <<hookRun, evalVars, hookVars>>)
  BY <1>1, OthersLeavePolls DEF pollVars, loopVars, pollHistory
<1>2. CASE PollNext
  \* Steps that claim nothing.
  <2>1. ASSUME UNCHANGED claimedBy,
               \A p \in Polls : pollPc'[p] \in {"loop", "record"} =>
                 /\ pollPc[p] \in {"loop", "record"}
                 /\ todo'[p] \subseteq todo[p]
        PROVE  ClaimedInv'
    BY <2>1
  <2>2. ASSUME NEW p \in Polls,
               \/ PollFindsNothing(p) \/ PollEnd(p) \/ PollRecord(p)
               \/ PollRecordFails(p)
        PROVE  ClaimedInv'
    <3>1. /\ UNCHANGED <<claimedBy, todo>>
          /\ \/ pollPc[p] = "record" /\ pollPc' = [pollPc EXCEPT ![p] = "loop"]
             \/ pollPc' = [pollPc EXCEPT ![p] = "done"]
      BY <2>2 DEF PollFindsNothing, PollEnd, PollRecord, PollRecordFails,
                  loopVars, pollHistory
    <3> QED BY <3>1
  <2>3. ASSUME NEW p \in Polls, PollSelect(p) PROVE ClaimedInv'
    BY <2>1, <2>3 DEF PollSelect
  <2>4. ASSUME NEW p \in Polls, PollClaim(p) PROVE ClaimedInv'
    <3>1. /\ todo' = todo
          /\ pollPc' = [pollPc EXCEPT ![p] = "loop"]
          /\ \A s \in Subs : claimedBy[s] \subseteq claimedBy'[s]
          /\ \A s \in todo[p] : p \in claimedBy'[s]
      BY <2>4 DEF PollClaim, Claim, loopVars
    <3> QED BY <3>1
  <2>5. ASSUME NEW p \in Polls, PollClaimFails(p) \/ PollCrash(p)
        PROVE  ClaimedInv'
    <3>1. /\ pollPc' = [pollPc EXCEPT ![p] = "done"]
          /\ todo' = [todo EXCEPT ![p] = {}]
          /\ \A s \in Subs : claimedBy[s] \subseteq claimedBy'[s]
      <4>1. CASE PollClaimFails(p)
        <5>1. /\ pollPc' = [pollPc EXCEPT ![p] = "done"]
              /\ todo' = [todo EXCEPT ![p] = {}]
              /\ Claim(p) \/ claimedBy' = claimedBy
          BY <4>1 DEF PollClaimFails
        <5>2. Claim(p) => \A s \in Subs : claimedBy[s] \subseteq claimedBy'[s]
          BY DEF Claim
        <5> QED BY <5>1, <5>2
      <4>2. CASE PollCrash(p)
        BY <4>2 DEF PollCrash
      <4> QED BY <2>5, <4>1, <4>2
    <3> QED BY <3>1
  <2>6. ASSUME NEW p \in Polls, NEW s \in Subs, PollSkip(p, s)
        PROVE  ClaimedInv'
    BY <2>1, <2>6 DEF PollSkip, Reached, pollHistory
  <2>7. ASSUME NEW p \in Polls, NEW s \in Subs, NEW r \in Runs,
               PollDispatched(p, s, r) \/ PollDispatchLost(p, s, r)
        PROVE  ClaimedInv'
    BY <2>1, <2>7 DEF PollDispatched, PollDispatchLost, Reached
  <2>8. ASSUME NEW s \in Subs, RecheckElapses(s) PROVE ClaimedInv'
    BY <2>8 DEF RecheckElapses, loopVars
  <2> QED BY <1>2, <2>2, <2>3, <2>4, <2>5, <2>6, <2>7, <2>8 DEF PollNext
<1> QED BY <1>1, <1>2

LEMMA RecordStep ==
  TypeOK /\ LinkInv /\ ClaimedInv /\ RecordInv /\ [Next]_vars => RecordInv'
<1> SUFFICES ASSUME TypeOK, LinkInv, ClaimedInv, RecordInv, [Next]_vars
             PROVE  RecordInv'
  OBVIOUS
<1> USE DEF RecordInv, TypeOK, StateTypeOK, PollTypeOK
<1> DEFINE Recorded(r) ==
      \/ row[r] # "none"
      \/ r \in lost
      \/ \E p \in Polls : held[p] = r
      \/ Orphaned(starter[r])
      \/ starter[r] \in insertFailed
<1>0. StartedRunIsRecorded <=>
        \A r \in Runs : ext[r] # "unstarted" => Recorded(r)
  BY DEF StartedRunIsRecorded, Orphaned
<1>00. StartedRunIsRecorded' <=>
        \A r \in Runs : ext'[r] # "unstarted" => Recorded(r)'
  BY DEF StartedRunIsRecorded, Orphaned
<1>1. CASE ~(PollNext /\ UNCHANGED <<hookRun, evalVars, hookVars>>)
  <2>1. /\ UNCHANGED <<runSub, pollPc, held, poisoned, claimedBy, starter, lost,
                       insertFailed>>
        /\ \A r \in Runs : ext'[r] = "unstarted" <=> ext[r] = "unstarted"
        /\ \A r \in Runs : row'[r] = "none" <=> row[r] = "none"
        /\ \A s \in Subs : subState[s] = "deleted" => subState'[s] = "deleted"
    BY <1>1, OthersLeavePolls DEF pollVars, loopVars, pollHistory
  <2>2. \A p : Orphaned(p) => Orphaned(p)'
    BY <2>1 DEF Orphaned
  <2>3. \A r \in Runs : Recorded(r) => Recorded(r)'
    BY <2>1, <2>2
  <2> HIDE DEF Recorded
  <2> QED BY <1>0, <1>00, <2>1, <2>2, <2>3
<1>2. CASE PollNext
  \* Steps that start and record no run, and end no claim that counts.
  <2>1. ASSUME UNCHANGED <<subState, ext, runSub, row, starter, poisoned,
                           insertFailed>>,
               lost \subseteq lost',
               \A p \in Polls, u \in Subs :
                 /\ p \in claimedBy[u]
                 /\ subState[u] = "deleted" \/ pollPc[p] # "done"
                 => p \in claimedBy'[u],
               \A p \in Polls : held'[p] # None =>
                 held'[p] = held[p] /\ pollPc'[p] = "record",
               \A p \in Polls : pollPc'[p] = "record" =>
                 pollPc[p] = "record" /\ held'[p] = held[p],
               \A p \in Polls : held'[p] = held[p] \/ held[p] \in lost'
        PROVE  RecordInv'
    <3>1. \A p \in Polls : Orphaned(p) => Orphaned(p)'
      BY <2>1 DEF Orphaned
    <3>2. \A r \in Runs : Orphaned(starter[r]) => Orphaned(starter[r])'
      BY <2>1 DEF Orphaned
    <3>3. \A r \in Runs : Recorded(r) => Recorded(r)'
      BY <2>1, <3>2
    <3>4. \A p \in Polls : pollPc'[p] = "record" =>
            /\ starter'[held'[p]] = p
            /\ runSub'[held'[p]] \in Subs
            /\ p \in claimedBy'[runSub'[held'[p]]]
      BY <2>1
    <3> HIDE DEF Recorded
    <3> QED BY <1>0, <1>00, <2>1, <3>1, <3>3, <3>4
  <2>2. ASSUME NEW p \in Polls,
               PollFindsNothing(p) \/ PollSelect(p) \/ PollEnd(p)
        PROVE  RecordInv'
    <3>1. /\ UNCHANGED <<subState, ext, runSub, row, starter, poisoned, lost,
                         claimedBy, held, insertFailed>>
          /\ pollPc[p] # "record"
          /\ \E to \in {"claim", "done"} : pollPc' = [pollPc EXCEPT ![p] = to]
      BY <2>2 DEF PollFindsNothing, PollSelect, PollEnd, runVars, subVars,
                  loopVars, pollHistory
    <3> QED BY <2>1, <3>1
  <2>3. ASSUME NEW p \in Polls, PollClaim(p) \/ PollClaimFails(p)
        PROVE  RecordInv'
    <3>1. /\ UNCHANGED <<subState, ext, runSub, row, starter, poisoned, lost,
                         held, insertFailed>>
          /\ pollPc[p] = "claim"
          /\ \E to \in {"loop", "done"} : pollPc' = [pollPc EXCEPT ![p] = to]
          /\ \A u \in Subs : claimedBy[u] \subseteq claimedBy'[u]
      BY <2>3 DEF PollClaim, PollClaimFails, Claim, runVars, loopVars
    <3> QED BY <2>1, <3>1
  <2>4. ASSUME NEW p \in Polls, PollCrash(p) PROVE RecordInv'
    <3>1. /\ UNCHANGED <<subState, ext, runSub, row, starter, poisoned,
                         claimedBy, insertFailed>>
          /\ pollPc' = [pollPc EXCEPT ![p] = "done"]
          /\ held' = [held EXCEPT ![p] = None]
          /\ lost' = lost \cup ({held[p]} \ {None})
      BY <2>4 DEF PollCrash, runVars, subVars
    <3>2. \A q \in Polls : held'[q] = held[q] \/ held[q] \in lost'
      BY <3>1
    <3>3. \A q \in Polls : pollPc'[q] = "record" =>
            pollPc[q] = "record" /\ held'[q] = held[q]
      BY <3>1
    <3>4. \A q \in Polls : held'[q] # None =>
            held'[q] = held[q] /\ pollPc'[q] = "record"
      BY <3>1
    <3> QED BY <2>1, <3>1, <3>2, <3>3, <3>4
  <2>5. ASSUME NEW p \in Polls, NEW s \in Subs, PollSkip(p, s)
        PROVE  RecordInv'
    BY <2>1, <2>5 DEF PollSkip, runVars, subVars, pollHistory
  <2>6. ASSUME NEW u \in Subs, RecheckElapses(u) PROVE RecordInv'
    <3>1. /\ UNCHANGED <<subState, ext, runSub, row, starter, poisoned, lost,
                         pollPc, held, insertFailed>>
          /\ subState[u] # "deleted"
          /\ \A p \in Polls : p \in claimedBy[u] => pollPc[p] = "done"
          /\ claimedBy' = [claimedBy EXCEPT ![u] = {}]
      BY <2>6 DEF RecheckElapses, runVars, loopVars
    <3> QED BY <2>1, <3>1
  <2>7. ASSUME NEW p \in Polls, PollRecord(p) \/ PollRecordFails(p)
        PROVE  RecordInv'
    <3> DEFINE r == held[p]
    <3>1. /\ pollPc[p] = "record"
          /\ r \in Runs /\ row[r] = "none" /\ starter[r] = p
          /\ runSub[r] \in Subs /\ p \in claimedBy[runSub[r]]
      BY <2>7 DEF PollRecord, PollRecordFails, LinkInv
    <3>2. /\ UNCHANGED <<subState, ext, runSub, starter, lost, claimedBy>>
          /\ pollPc' = [pollPc EXCEPT ![p] = "loop"]
          /\ held' = [held EXCEPT ![p] = None]
          /\ insertFailed \subseteq insertFailed'
      BY <2>7 DEF PollRecord, PollRecordFails, subVars, pollHistory
    <3>3. \A q \in Polls : Orphaned(q)' <=> Orphaned(q)
      BY <3>2 DEF Orphaned
    <3>4. \/ row' = [row EXCEPT ![r] = "pending"] /\ poisoned' = poisoned
          \/ /\ row' = row \/ row' = [row EXCEPT ![r] = "pending"]
             /\ Orphaned(p) \/ p \in insertFailed'
             /\ \A q \in Polls \ {p} : poisoned'[q] = poisoned[q]
      <4>1. CASE PollRecord(p)
        BY <3>1, <4>1 DEF PollRecord, Orphaned, pollHistory
      <4>2. CASE PollRecordFails(p)
        BY <4>2 DEF PollRecordFails
      <4> QED BY <2>7, <4>1, <4>2
    <3>5. \A t \in Runs : starter[t] \in Polls \cup {None}
      OBVIOUS
    <3>6. ASSUME NEW t \in Runs, ext'[t] # "unstarted" PROVE Recorded(t)'
      <4>1. Recorded(t)
        BY <1>0, <3>2, <3>6
      <4>2. CASE t = r
        BY <3>1, <3>2, <3>3, <3>4, <4>2
      <4>3. CASE t # r
        <5>1. Orphaned(starter[t]) => Orphaned(starter[t])'
          BY <3>2 DEF Orphaned
        <5>2. row[t] # "none" => row'[t] # "none"
          BY <3>1, <3>4
        <5>3. (\E q \in Polls : held[q] = t) => \E q \in Polls : held'[q] = t
          BY <3>2, <4>3
        <5> QED BY <3>2, <4>1, <5>1, <5>2, <5>3
      <4> QED BY <4>2, <4>3
    <3>7. \A q \in Polls : poisoned'[q] => Orphaned(q)' \/ q \in insertFailed'
      BY <3>2, <3>3, <3>4
    <3>8. \A q \in Polls : pollPc'[q] = "record" =>
            q # p /\ pollPc[q] = "record" /\ held'[q] = held[q]
      BY <3>2
    <3>9. \A q \in Polls : held'[q] # None => pollPc'[q] = "record"
      BY <3>2
    <3>10. \A q \in Polls : pollPc'[q] = "record" =>
             /\ starter'[held'[q]] = q
             /\ runSub'[held'[q]] \in Subs
             /\ q \in claimedBy'[runSub'[held'[q]]]
      BY <3>2, <3>8
    <3> HIDE DEF Recorded
    <3> QED BY <1>00, <3>6, <3>7, <3>9, <3>10
  <2>8. ASSUME NEW p \in Polls, NEW s \in Subs, NEW r \in Runs,
               PollDispatched(p, s, r) \/ PollDispatchLost(p, s, r)
        PROVE  RecordInv'
    <3>1. /\ pollPc[p] = "loop" /\ s \in todo[p]
          /\ ext[r] = "unstarted"
          /\ ext' = [ext EXCEPT ![r] = "running"]
          /\ runSub' = [runSub EXCEPT ![r] = s]
          /\ starter' = [starter EXCEPT ![r] = p]
          /\ UNCHANGED <<subState, row, poisoned, claimedBy, insertFailed>>
      BY <2>8 DEF PollDispatched, PollDispatchLost, Reached, Start, subVars
    <3>2. \/ /\ pollPc' = [pollPc EXCEPT ![p] = "record"]
             /\ held' = [held EXCEPT ![p] = r]
             /\ lost' = lost
          \/ UNCHANGED <<pollPc, held>> /\ lost' = lost \cup {r}
      BY <2>8 DEF PollDispatched, PollDispatchLost
    <3>3. held[p] = None /\ p \in claimedBy[s]
      BY <3>1 DEF ClaimedInv
    <3>4. \A q \in Polls : Orphaned(q) => Orphaned(q)'
      BY <3>1 DEF Orphaned
    <3>5. ASSUME NEW t \in Runs, ext'[t] # "unstarted" PROVE Recorded(t)'
      <4>1. CASE t = r
        BY <3>2, <4>1
      <4>2. CASE t # r
        <5>1. Recorded(t) /\ starter'[t] = starter[t]
          BY <1>0, <3>1, <3>5, <4>2
        <5>2. Orphaned(starter[t]) => Orphaned(starter[t])'
          BY <3>1, <4>2 DEF Orphaned
        <5>3. (\E q \in Polls : held[q] = t) => \E q \in Polls : held'[q] = t
          <6>1. ASSUME NEW q \in Polls, held[q] = t
                PROVE  held'[q] = t
            BY <3>2, <3>3, <6>1, NoneAssumption
          <6> QED BY <6>1
        <5> QED BY <3>1, <3>2, <5>1, <5>2, <5>3
      <4> QED BY <4>1, <4>2
    <3>6. \A q \in Polls : pollPc'[q] = "record" =>
            \/ q = p /\ held'[q] = r
            \/ pollPc[q] = "record" /\ held'[q] = held[q]
      BY <3>1, <3>2
    <3>7. \A q \in Polls : pollPc[q] = "record" =>
            held[q] \in Runs /\ held[q] # r
      BY <3>1 DEF LinkInv
    <3>8. \A q \in Polls : held'[q] # None => pollPc'[q] = "record"
      BY <3>1, <3>2, <3>3
    <3>9. \A q \in Polls : pollPc'[q] = "record" =>
            /\ starter'[held'[q]] = q
            /\ runSub'[held'[q]] \in Subs
            /\ q \in claimedBy'[runSub'[held'[q]]]
      BY <3>1, <3>3, <3>6, <3>7
    <3>10. \A q \in Polls : poisoned'[q] => Orphaned(q)' \/ q \in insertFailed'
      BY <3>1, <3>4
    <3> HIDE DEF Recorded
    <3> QED BY <1>00, <3>5, <3>8, <3>9, <3>10
  <2> QED BY <1>2, <2>2, <2>3, <2>4, <2>5, <2>6, <2>7, <2>8 DEF PollNext
<1> QED BY <1>1, <1>2

\* SearchRunRepository.create: a started run has its row or is about to get
\* it, but for the polls that stop or get no answer, and those that lose their
\* session to a deleted subscription or to the database.
THEOREM StartedRunsAreRecorded == Spec => []StartedRunIsRecorded
<1>1. Init => ClaimedInv /\ RecordInv
  BY DEF Init, StateInit, PollInit, ClaimedInv, RecordInv,
         StartedRunIsRecorded
<1>2. RecordInv => StartedRunIsRecorded
  BY DEF RecordInv
<1> QED BY <1>1, <1>2, InitLinks, InitTypes, LinkStep, ClaimedStep, RecordStep,
           TypeStep, PTL DEF Spec

-----------------------------------------------------------------------------
(* The refinement: SearchPipeline implements SearchRunLifecycle *)

\* Rows are gone with their subscription only; what is FAILED has been late, or
\* its run gave no dataset; callbacks are about runs that call back, and what
\* they have completed is not pending any more; a sweep lists late rows.
LifeInv ==
  /\ \A r \in Runs : row[r] = "gone" =>
       runSub[r] \in Subs /\ subState[runSub[r]] = "deleted"
  /\ \A r \in Runs :
       row[r] = "failed" => stale[r] \/ ext[r] \in {"failed", "nodata"}
  /\ \A h \in Hooks : hookPc[h] # "idle" => CallsBack(hookRun[h])
  /\ \A h \in Hooks : hookPc[h] = "marked" \/ message[h] # "none" =>
       row[hookRun[h]] \notin {"none", "pending"}
  /\ \A x \in Evals : evalPc[x] # "idle" =>
       row[hookRun[evalHook[x]]] \notin {"none", "pending"}
  /\ \A x \in Evals : evalPc[x] = "checked" =>
       ext[hookRun[evalHook[x]]] = "match"
  /\ \A c \in Sweeps : \A r \in sweepList[c] : stale[r]

\* What a poll does to a run.
Starts(r) ==
  /\ ext[r] = "unstarted"
  /\ ext' = [ext EXCEPT ![r] = "running"]
  /\ \A t \in Runs \ {r} : runSub'[t] = runSub[t]
  /\ row' = row

Records(r) ==
  /\ ext[r] # "unstarted"
  /\ row[r] = "none"
  /\ row' = [row EXCEPT ![r] = "pending"]
  /\ UNCHANGED <<ext, runSub>>

LEMMA PollLife ==
  ASSUME TypeOK, LinkInv, PollNext
  PROVE  /\ UNCHANGED <<subState, stale>>
         /\ \/ UNCHANGED <<ext, row, runSub>>
            \/ \E r \in Runs : Starts(r) \/ Records(r)
<1> DEFINE Goal == /\ UNCHANGED <<subState, stale>>
                   /\ \/ UNCHANGED <<ext, row, runSub>>
                      \/ \E r \in Runs : Starts(r) \/ Records(r)
<1>1. ASSUME NEW p \in Polls, PollRecord(p) \/ PollRecordFails(p)
      PROVE  Goal
  <2>1. /\ UNCHANGED <<subState, stale, ext, runSub>>
        /\ held[p] \in Runs /\ row[held[p]] = "none"
        /\ ext[held[p]] # "unstarted"
        /\ row' = row \/ row' = [row EXCEPT ![held[p]] = "pending"]
    BY <1>1 DEF PollRecord, PollRecordFails, LinkInv, subVars
  <2> QED BY <2>1 DEF Records
<1>2. ASSUME NEW p \in Polls, NEW s \in Subs, NEW r \in Runs,
             PollDispatched(p, s, r) \/ PollDispatchLost(p, s, r)
      PROVE  Goal
  <2>1. UNCHANGED <<subState, stale>> /\ Starts(r)
    BY <1>2 DEF PollDispatched, PollDispatchLost, Start, Starts, subVars,
                TypeOK, StateTypeOK
  <2> QED BY <2>1
<1>3. CASE UNCHANGED <<subState, runVars>>
  BY <1>3 DEF runVars
<1>4. CASE \/ \E p \in Polls : \/ PollFindsNothing(p) \/ PollSelect(p)
                               \/ PollClaim(p) \/ PollClaimFails(p)
                               \/ PollEnd(p) \/ PollCrash(p)
           \/ \E p \in Polls, s \in Subs : PollSkip(p, s)
           \/ \E s \in Subs : RecheckElapses(s)
  <2>1. UNCHANGED <<subState, runVars>>
    BY <1>4 DEF PollFindsNothing, PollSelect, PollClaim, PollClaimFails,
                PollEnd, PollCrash, PollSkip, RecheckElapses, subVars
  <2> QED BY <1>3, <2>1
<1> QED BY <1>1, <1>2, <1>4 DEF PollNext

\* What callbacks and sweeps do to rows.
Completes(r) ==
  /\ RowExists(r)
  /\ Succeeded(r)
  /\ row' = [row EXCEPT ![r] = "completed"]

Fails(R) ==
  /\ \A r \in R :
       /\ RowExists(r)
       /\ \/ ext[r] = "failed"
          \/ ext[r] = "nodata" /\ row[r] # "pending"
          \/ stale[r]
  /\ row' = [r \in Runs |-> IF r \in R THEN "failed" ELSE row[r]]

LEMMA HookLife ==
  ASSUME TypeOK, LinkInv, LifeInv, HookNext /\ UNCHANGED pollVars
  PROVE  \/ row' = row
         \/ \E r \in Runs : Completes(r)
         \/ \E R \in SUBSET Runs : Fails(R)
<1> USE DEF TypeOK, StateTypeOK, HookTypeOK, HookStep
<1> DEFINE Goal == \/ row' = row
                   \/ \E r \in Runs : Completes(r)
                   \/ \E R \in SUBSET Runs : Fails(R)
<1>1. ASSUME NEW h \in Hooks, HookComplete(h) \/ HookCompleteFails(h)
      PROVE  Goal
  <2>1. hookRun[h] \in Runs /\ Completes(hookRun[h])
    BY <1>1 DEF HookComplete, HookCompleteFails, Complete, Completes
  <2> QED BY <2>1
<1>2. ASSUME NEW h \in Hooks, HookFail(h) PROVE Goal
  <2>1. /\ hookRun[h] \in Runs /\ hookPc[h] # "idle" /\ RowExists(hookRun[h])
        /\ ~Succeeded(hookRun[h])
        /\ Fail({}) \/ Fail({hookRun[h]})
    BY <1>2 DEF HookFail
  <2>2. ext[hookRun[h]] = "failed"
    BY <2>1 DEF LifeInv, CallsBack
  <2>3. Fails({}) \/ Fails({hookRun[h]})
    BY <2>1, <2>2 DEF Fail, Fails
  <2> QED BY <2>1, <2>3
<1>3. ASSUME NEW h \in Hooks, HookNoDataset(h) \/ HookNoDatasetFails(h)
      PROVE  Goal
  <2>1. /\ hookRun[h] \in Runs /\ hookPc[h] = "marked"
        /\ ext[hookRun[h]] = "nodata"
        /\ Fail({}) \/ (Fail({hookRun[h]}) /\ RowExists(hookRun[h]))
    BY <1>3 DEF HookNoDataset, HookNoDatasetFails
  <2>2. row[hookRun[h]] # "pending"
    BY <2>1 DEF LifeInv
  <2>3. Fails({}) \/ Fails({hookRun[h]})
    BY <2>1, <2>2 DEF Fail, Fails
  <2> QED BY <2>1, <2>3
<1>4. ASSUME NEW c \in Sweeps, SweepCommit(c) PROVE Goal
  <2>1. /\ sweepList[c] \in SUBSET Runs
        /\ \A r \in sweepList[c] : stale[r]
    BY DEF LifeInv
  <2>2. \/ Fail({})
        \/ Fail(sweepList[c]) /\ \A r \in sweepList[c] : RowExists(r)
    BY <1>4 DEF SweepCommit
  <2>3. Fails({}) \/ Fails(sweepList[c])
    BY <2>1, <2>2 DEF Fail, Fails
  <2> QED BY <2>1, <2>3
<1>5. CASE \/ \E h \in Hooks : \/ \E r \in Runs : Deliver(h, r)
                               \/ HookNotFound(h) \/ HookDuplicate(h)
                               \/ HookRead(h) \/ HookError(h)
                               \/ HookEnqueue(h) \/ HookEnqueueFails(h)
                               \/ HookRetry(h) \/ HookCrash(h)
           \/ \E c \in Sweeps : SweepList(c) \/ SweepCrash(c)
  BY <1>5 DEF Deliver, HookNotFound, HookDuplicate, HookRead, HookError,
              HookEnqueue, HookEnqueueFails, HookRetry, HookCrash, SweepList,
              SweepCrash, runVars
<1> QED BY <1>1, <1>2, <1>3, <1>4, <1>5 DEF HookNext, HookHandler

LEMMA InitLife == Init => LifeInv
BY DEF Init, StateInit, EvalInit, HookInit, LifeInv, Messages

LEMMA HookMarks ==
  ASSUME TypeOK, HookNext
  PROVE  /\ \A h \in Hooks :
              hookPc'[h] = "marked" => hookPc[h] = "marked" \/ HookComplete(h)
         /\ \A c \in Sweeps : \A r \in sweepList'[c] :
              r \in sweepList[c] \/ stale[r]
<1> USE DEF TypeOK, HookTypeOK, HookStep
<1> DEFINE Goal ==
      /\ \A h \in Hooks :
           hookPc'[h] = "marked" => hookPc[h] = "marked" \/ HookComplete(h)
      /\ \A c \in Sweeps : \A r \in sweepList'[c] :
           r \in sweepList[c] \/ stale[r]
<1>1. ASSUME NEW h \in Hooks, HookComplete(h) PROVE Goal
  <2>1. /\ sweepList' = sweepList
        /\ \A g \in Hooks \ {h} : hookPc'[g] = hookPc[g]
    BY <1>1 DEF HookComplete
  <2> QED BY <1>1, <2>1
<1>2. ASSUME NEW h \in Hooks, sweepList' = sweepList,
             \E to \in {"sent", "rejected", "read", "done", "failed"} :
               hookPc' = [hookPc EXCEPT ![h] = to]
      PROVE  Goal
  BY <1>2
<1>3. ASSUME NEW h \in Hooks,
             \/ \E r \in Runs : Deliver(h, r)
             \/ HookNotFound(h) \/ HookDuplicate(h) \/ HookRead(h)
             \/ HookCompleteFails(h) \/ HookFail(h) \/ HookError(h)
             \/ HookEnqueue(h) \/ HookEnqueueFails(h) \/ HookNoDataset(h)
             \/ HookNoDatasetFails(h) \/ HookRetry(h) \/ HookCrash(h)
      PROVE  Goal
  <2>1. /\ sweepList' = sweepList
        /\ \E to \in {"sent", "rejected", "read", "done", "failed"} :
             hookPc' = [hookPc EXCEPT ![h] = to]
    BY <1>3 DEF Deliver, HookNotFound, HookDuplicate, HookRead,
                HookCompleteFails, HookFail, HookError, HookEnqueue,
                HookEnqueueFails, HookNoDataset, HookNoDatasetFails,
                HookRetry, HookCrash
  <2> QED BY <1>2, <2>1
<1>4. ASSUME NEW c \in Sweeps, SweepList(c) \/ SweepCommit(c) \/ SweepCrash(c)
      PROVE  Goal
  <2>1. /\ hookPc' = hookPc
        /\ \E R \in SUBSET Runs : /\ sweepList' = [sweepList EXCEPT ![c] = R]
                                  /\ \A r \in R : stale[r]
    BY <1>4 DEF SweepList, SweepCommit, SweepCrash, StalePending
  <2> QED BY <2>1
<1> QED BY <1>1, <1>3, <1>4 DEF HookNext, HookHandler

LEMMA LifeStep ==
  TypeOK /\ MessageInv /\ LinkInv /\ LifeInv /\ [Next]_vars => LifeInv'
<1> SUFFICES ASSUME TypeOK, MessageInv, LinkInv, LifeInv, [Next]_vars
             PROVE  LifeInv'
  OBVIOUS
<1> USE DEF TypeOK, StateTypeOK, EvalTypeOK, HookTypeOK
<1>0. Hooks \cap Evals = {} /\ Hooks \subseteq Messages
  BY EvalsAssumption DEF Messages
<1>00. /\ \A h \in Hooks : hookPc[h] = "marked" \/ message[h] # "none" =>
            hookPc[h] # "idle" /\ hookRun[h] \in Runs
       /\ \A x \in Evals : evalPc[x] # "idle" =>
            /\ evalHook[x] \in Hooks
            /\ hookPc[evalHook[x]] # "idle" /\ hookRun[evalHook[x]] \in Runs
  BY DEF LinkInv
<1>1. CASE UNCHANGED vars
  BY <1>1 DEF LifeInv, CallsBack, Succeeded, vars, subVars, runVars, evalVars,
              hookVars
<1>2. CASE \E s \in Subs : Delete(s)
  <2>1. PICK s \in Subs : Delete(s)
    BY <1>2
  <2>2. /\ UNCHANGED <<ext, runSub, stale, hookRun, message, evalPc, evalHook,
                       hookPc, sweepList>>
        /\ \A r \in Runs : row'[r] = IF runSub[r] = s /\ row[r] # "none"
                                     THEN "gone" ELSE row[r]
        /\ \A t \in Subs : subState'[t] = IF t = s THEN "deleted"
                                          ELSE subState[t]
    BY <2>1 DEF Delete, hookVars, evalTaskVars
  <2> QED BY <1>00, <2>2 DEF LifeInv, CallsBack, Succeeded
<1>3. CASE \E s \in Subs :
             Toggle(s) /\ UNCHANGED <<pollVars, evalVars, hookVars>>
  <2>1. /\ UNCHANGED <<runVars, hookRun, message, evalPc, evalHook, hookPc,
                       sweepList>>
        /\ \A t \in Subs : subState[t] = "deleted" => subState'[t] = "deleted"
    BY <1>3 DEF Toggle, evalVars, hookVars
  <2> QED BY <2>1 DEF LifeInv, CallsBack, Succeeded, runVars
<1>4. CASE PlatformNext
  <2>1. /\ UNCHANGED <<subVars, runSub, row, hookRun, message, evalPc, evalHook,
                       hookPc, sweepList>>
        /\ \A r \in Runs : ext[r] # "running" => ext'[r] = ext[r]
        /\ \A r \in Runs : stale[r] => stale'[r]
    BY <1>4 DEF PlatformNext, ActorFinish, RunAges, evalVars, hookVars,
                subVars
  <2> QED BY <1>00, <2>1 DEF LifeInv, CallsBack, Succeeded, subVars
<1>5. CASE PollNext /\ UNCHANGED <<hookRun, evalVars, hookVars>>
  <2>1. UNCHANGED <<subState, stale, hookRun, message, evalPc, evalHook, hookPc,
                    sweepList>>
    BY <1>5, PollLife DEF evalVars, hookVars
  <2>2. CASE UNCHANGED <<ext, row, runSub>>
    BY <2>1, <2>2 DEF LifeInv, CallsBack, Succeeded
  <2>3. ASSUME NEW r \in Runs, Starts(r) PROVE LifeInv'
    <3>1. /\ row[r] = "none" /\ row' = row
          /\ \A t \in Runs \ {r} : ext'[t] = ext[t] /\ runSub'[t] = runSub[t]
          /\ \A h \in Hooks : hookPc[h] # "idle" => hookRun[h] \in Runs \ {r}
      BY <2>3 DEF Starts, LinkInv
    <3>2. \A h \in Hooks : hookPc[h] # "idle" =>
            ext'[hookRun[h]] = ext[hookRun[h]]
      BY <3>1
    <3>3. \A t \in Runs : row[t] # "none" =>
            ext'[t] = ext[t] /\ runSub'[t] = runSub[t]
      BY <3>1
    <3>4. \A h \in Hooks : hookPc[h] # "idle" => CallsBack(hookRun[h])'
      BY <2>1, <3>2 DEF LifeInv, CallsBack, Succeeded
    <3>5. \A x \in Evals : evalPc[x] = "checked" =>
            ext'[hookRun[evalHook[x]]] = "match"
      BY <1>00, <3>2 DEF LifeInv
    <3> HIDE <2>3
    <3> QED BY <2>1, <3>1, <3>3, <3>4, <3>5 DEF LifeInv
  <2>4. ASSUME NEW r \in Runs, Records(r) PROVE LifeInv'
    <3>1. /\ row[r] = "none" /\ row'[r] = "pending"
          /\ \A t \in Runs \ {r} : row'[t] = row[t]
          /\ UNCHANGED <<ext, runSub>>
      BY <2>4 DEF Records
    <3> QED BY <1>00, <2>1, <3>1 DEF LifeInv, CallsBack, Succeeded
  <2> QED BY <1>5, <2>2, <2>3, <2>4, PollLife
<1>6. CASE HookNext /\ UNCHANGED pollVars
  <2>1. UNCHANGED <<subState, ext, runSub, stale, evalPc, evalHook>>
    BY <1>6, HookFrame DEF subVars
  <2>2. \A r \in Runs :
          \/ row'[r] = row[r]
          \/ row'[r] = "completed"
          \/ row'[r] = "failed" /\ (stale[r] \/ ext[r] \in {"failed", "nodata"})
    BY <1>6, HookLife DEF Completes, Fails
  <2>3. \A r \in Runs : row'[r] \in {"none", "pending"} => row'[r] = row[r]
    BY <2>2
  <2>4. \A h \in Hooks : hookPc[h] # "idle" =>
          hookRun[h] \in Runs /\ hookRun'[h] = hookRun[h]
    BY <1>6, HookEffect
  <2>5. \A h \in Hooks : hookPc'[h] # "idle" => CallsBack(hookRun[h])'
    <3> SUFFICES ASSUME NEW h \in Hooks, hookPc'[h] # "idle"
                 PROVE  CallsBack(hookRun'[h])
      BY <2>1 DEF CallsBack, Succeeded
    <3>1. CASE hookPc[h] = "idle"
      BY <1>6, <3>1, HookEffect
    <3>2. CASE hookPc[h] # "idle"
      BY <2>4, <3>2 DEF LifeInv
    <3> QED BY <3>1, <3>2
  <2>6. \A h \in Hooks : hookPc'[h] = "marked" \/ message'[h] # "none" =>
          row'[hookRun'[h]] \notin {"none", "pending"}
    <3> SUFFICES ASSUME NEW h \in Hooks,
                        hookPc'[h] = "marked" \/ message'[h] # "none"
                 PROVE  row'[hookRun'[h]] \notin {"none", "pending"}
      OBVIOUS
    <3>1. CASE HookComplete(h)
      <4>1. hookPc[h] = "read" /\ row' = [row EXCEPT ![hookRun[h]] = "completed"]
        BY <3>1 DEF HookComplete, Complete, HookStep
      <4> QED BY <2>4, <4>1
    <3>2. CASE ~HookComplete(h)
      <4>1. hookPc[h] = "marked" \/ message[h] # "none"
        BY <1>0, <1>6, <3>2, HookEffect, HookMarks
      <4>2. hookPc[h] # "idle" /\ row[hookRun[h]] \notin {"none", "pending"}
        BY <1>00, <4>1 DEF LifeInv
      <4> QED BY <2>3, <2>4, <4>2
    <3> QED BY <3>1, <3>2
  <2>7. \A x \in Evals : evalPc'[x] # "idle" =>
          row'[hookRun'[evalHook'[x]]] \notin {"none", "pending"}
    BY <1>00, <2>1, <2>3, <2>4 DEF LifeInv
  <2>8. \A x \in Evals : evalPc'[x] = "checked" =>
          ext'[hookRun'[evalHook'[x]]] = "match"
    BY <1>00, <2>1, <2>4 DEF LifeInv
  <2>9. \A c \in Sweeps : \A r \in sweepList'[c] : stale'[r]
    BY <1>6, <2>1, HookMarks DEF LifeInv
  <2> QED BY <2>1, <2>2, <2>5, <2>6, <2>7, <2>8, <2>9 DEF LifeInv
<1>7. CASE EvalNext /\ UNCHANGED <<pollVars, hookVars>>
  <2>1. UNCHANGED <<subVars, runVars, hookRun, hookPc, sweepList>>
    BY <1>7 DEF EvalNext, hookVars
  <2>2. PICK x \in Evals :
          /\ Takes(x) \/ GoesOn(x) \/ Vanishes(x)
          /\ \A y \in Evals \ {x} : UNCHANGED <<evalPc[y], evalHook[y]>>
    BY <1>7, EvalEffect
  <2>3. \A h \in Hooks : message'[h] # "none" => message[h] # "none"
    BY <1>0, <2>2 DEF Takes, GoesOn, Vanishes
  <2>4. evalPc'[x] # "idle" =>
          row[hookRun[evalHook'[x]]] \notin {"none", "pending"}
    <3>1. CASE Takes(x)
      <4>1. PICK m \in Messages : message[m] = "queued" /\ evalHook'[x] = HookOf(m)
        BY <3>1 DEF Takes
      <4>2. CASE m \in Hooks
        BY <4>1, <4>2 DEF HookOf, LifeInv
      <4>3. CASE m \notin Hooks
        BY <4>1, <4>3 DEF HookOf, LifeInv, LinkInv, Messages
      <4> QED BY <4>2, <4>3
    <3>2. CASE GoesOn(x)
      BY <3>2 DEF GoesOn, LifeInv
    <3>3. CASE Vanishes(x)
      BY <3>3 DEF Vanishes
    <3> QED BY <2>2, <3>1, <3>2, <3>3
  <2>5. evalPc'[x] = "checked" => ext[hookRun[evalHook'[x]]] = "match"
    BY <2>2 DEF Takes, GoesOn, Vanishes, LifeInv
  <2> QED BY <2>1, <2>2, <2>3, <2>4, <2>5
          DEF LifeInv, CallsBack, Succeeded, subVars, runVars
<1> QED BY <1>1, <1>2, <1>3, <1>4, <1>5, <1>6, <1>7 DEF Next, OwnerNext

\* Where no alert changes but by its age, neither does what an owner has.
LEMMA AlertedLasts ==
  ASSUME LinkInv,
         \A h \in Hooks : hookPc[h] # "idle" => hookRun'[h] = hookRun[h],
         \A x \in Evals : alert[x] # "none" => evalHook'[x] = evalHook[x],
         \A x \in Evals : \/ alert'[x] = alert[x]
                          \/ alert'[x] = "old" /\ alert[x] = "recent"
  PROVE  [r \in Runs |-> Alerted(r)]' = [r \in Runs |-> Alerted(r)]
<1>1. \A x \in Evals : alert[x] # "none" =>
        evalHook[x] \in Hooks /\ hookPc[evalHook[x]] # "idle"
  BY DEF LinkInv
<1>2. \A x \in Evals : alert[x] # "none" =>
        hookRun'[evalHook'[x]] = hookRun[evalHook[x]]
  BY <1>1
<1>3. ASSUME NEW r \in Runs PROVE Alerted(r)' = Alerted(r)
  <2>1. Alerted(r)' <=> Alerted(r)
    BY <1>2 DEF Alerted
  <2> QED BY <2>1 DEF Alerted
<1> QED BY <1>3

\* The owner has no alert of a run without a row.
LEMMA AlertedHaveRows ==
  ASSUME TypeOK, LinkInv, LifeInv, NEW r \in Runs, Alerted(r)
  PROVE  row[r] \notin {"none", "pending"}
BY DEF Alerted, LinkInv, LifeInv

LEMMA OwnerRefines ==
  ASSUME TypeOK, LinkInv, LifeInv, OwnerNext
  PROVE  [RunLifecycle!Next]_RunLifecycle!vars
<1> DEFINE A == [r \in Runs |-> Alerted(r)]
<1>1. CASE \E s \in Subs :
             Toggle(s) /\ UNCHANGED <<pollVars, evalVars, hookVars>>
  <2>1. UNCHANGED <<ext, row, stale, hookRun, evalHook, alert>>
    BY <1>1 DEF Toggle, runVars, evalVars
  <2>2. A' = A
    BY <2>1, AlertedLasts
  <2> QED BY <2>1, <2>2 DEF RunLifecycle!vars
<1>2. CASE \E s \in Subs : Delete(s)
  <2>1. PICK s \in Subs : Delete(s)
    BY <1>2
  <2> DEFINE R == {r \in Runs : runSub[r] = s /\ row[r] # "none"}
  <2>2. /\ UNCHANGED <<ext, stale, hookRun, evalHook>>
        /\ row' = [r \in Runs |-> IF r \in R THEN "gone" ELSE row[r]]
        /\ alert' = [x \in Evals |-> IF alert[x] # "none" /\ SubOf(x) = s
                                     THEN "gone" ELSE alert[x]]
    BY <2>1 DEF Delete, evalTaskVars
  <2>3. ASSUME NEW r \in Runs PROVE Alerted(r)' <=> Alerted(r) /\ r \notin R
    <3>1. \A x \in Evals : hookRun[evalHook[x]] = r =>
            alert'[x] = IF alert[x] # "none" /\ runSub[r] = s THEN "gone"
                                                             ELSE alert[x]
      BY <2>2 DEF SubOf, RunSubOf
    <3>2. Alerted(r)' <=> \E x \in Evals :
            hookRun[evalHook[x]] = r /\ alert'[x] \in {"recent", "old"}
      BY <2>2 DEF Alerted
    <3>3. CASE runSub[r] = s
      <4>1. ~Alerted(r)'
        BY <3>1, <3>2, <3>3
      <4>2. Alerted(r) => r \in R
        BY <3>3, AlertedHaveRows
      <4> QED BY <4>1, <4>2
    <3>4. CASE runSub[r] # s
      BY <3>1, <3>2, <3>4 DEF Alerted
    <3> QED BY <3>3, <3>4
  <2>4. A' = [r \in Runs |-> A[r] /\ r \notin R]
    <3>1. ASSUME NEW r \in Runs PROVE Alerted(r)' = (A[r] /\ r \notin R)
      BY <2>3 DEF Alerted
    <3> QED BY <3>1
  <2>5. R \in SUBSET Runs /\ \A r \in R : row[r] # "none"
    OBVIOUS
  <2>6. RunLifecycle!Delete(R)
    BY <2>2, <2>4, <2>5 DEF RunLifecycle!Delete
  <2> QED BY <2>5, <2>6 DEF RunLifecycle!Next
<1> QED BY <1>1, <1>2 DEF OwnerNext

LEMMA PlatformRefines ==
  ASSUME TypeOK, LinkInv, PlatformNext
  PROVE  [RunLifecycle!Next]_RunLifecycle!vars
<1> DEFINE A == [r \in Runs |-> Alerted(r)]
<1>1. UNCHANGED <<row, hookRun, evalHook, alert>>
  BY DEF PlatformNext, ActorFinish, RunAges, evalVars
<1>2. A' = A
  BY <1>1, AlertedLasts
<1>3. ASSUME NEW r \in Runs, ActorFinish(r) PROVE RunLifecycle!Finish(r)
  <2>1. /\ ext[r] = "running"
        /\ \E o \in AllOutcomes : ext' = [ext EXCEPT ![r] = o]
        /\ UNCHANGED <<row, stale>>
    BY <1>3, OutcomeAssumption DEF ActorFinish
  <2> QED BY <1>2, <2>1 DEF RunLifecycle!Finish, AllOutcomes
<1>4. ASSUME NEW r \in Runs, RunAges(r) PROVE RunLifecycle!Age(r)
  BY <1>2, <1>4 DEF RunAges, RunLifecycle!Age
<1> QED BY <1>3, <1>4 DEF PlatformNext, RunLifecycle!Next

LEMMA PollRefines ==
  ASSUME TypeOK, LinkInv, PollNext /\ UNCHANGED <<hookRun, evalVars, hookVars>>
  PROVE  [RunLifecycle!Next]_RunLifecycle!vars
<1> DEFINE A == [r \in Runs |-> Alerted(r)]
<1>1. A' = A
  BY AlertedLasts DEF evalVars
<1>2. stale' = stale
  BY PollLife
<1>3. CASE UNCHANGED <<ext, row>>
  BY <1>1, <1>2, <1>3 DEF RunLifecycle!vars
<1>4. ASSUME NEW r \in Runs, Starts(r) PROVE RunLifecycle!Start(r)
  BY <1>1, <1>2, <1>4 DEF Starts, RunLifecycle!Start
<1>5. ASSUME NEW r \in Runs, Records(r) PROVE RunLifecycle!Record(r)
  BY <1>1, <1>2, <1>5 DEF Records, RunLifecycle!Record
<1> QED BY <1>3, <1>4, <1>5, PollLife DEF RunLifecycle!Next

LEMMA HookRefines ==
  ASSUME TypeOK, LinkInv, LifeInv, HookNext /\ UNCHANGED pollVars
  PROVE  [RunLifecycle!Next]_RunLifecycle!vars
<1> DEFINE A == [r \in Runs |-> Alerted(r)]
<1>1. A' = A
  BY AlertedLasts, HookFrame, HookEffect
<1>2. UNCHANGED <<ext, stale>>
  BY HookFrame
<1>3. CASE row' = row
  BY <1>1, <1>2, <1>3 DEF RunLifecycle!vars
<1>4. ASSUME NEW r \in Runs, Completes(r) PROVE RunLifecycle!Complete(r)
  BY <1>1, <1>2, <1>4
     DEF Completes, RowExists, Succeeded, RunLifecycle!Complete,
         RunLifecycle!Live
<1>5. ASSUME NEW R \in SUBSET Runs, Fails(R) PROVE RunLifecycle!Fail(R)
  BY <1>1, <1>2, <1>5
     DEF Fails, RowExists, RunLifecycle!Fail, RunLifecycle!Live,
         RunLifecycle!MayFail
<1> QED BY <1>3, <1>4, <1>5, HookLife DEF RunLifecycle!Next

\* An evaluation shows in its alert only, and saves it for a match whose row
\* was completed.
LEMMA EvalRefines ==
  ASSUME TypeOK, MessageInv, LinkInv, LifeInv, EvalNext
  PROVE  [RunLifecycle!Next]_RunLifecycle!vars
<1> DEFINE A == [r \in Runs |-> Alerted(r)]
<1>1. UNCHANGED <<ext, row, stale, hookRun>>
  BY DEF EvalNext, runVars
<1>2. PICK x \in Evals :
        /\ Takes(x) \/ GoesOn(x) \/ Vanishes(x)
        /\ alert'[x] # alert[x] =>
             \/ alert'[x] = "old" /\ alert[x] = "recent"
             \/ EvalSave(x)
        /\ \A y \in Evals \ {x} : UNCHANGED <<alert[y], evalHook[y]>>
  BY EvalEffect
<1>3. CASE EvalSave(x)
  <2> DEFINE r == hookRun[evalHook[x]]
  <2>1. /\ evalPc[x] = "checked"
        /\ subState[runSub[r]] # "deleted"
        /\ alert' = [alert EXCEPT ![x] = "recent"]
        /\ evalHook' = evalHook
    BY <1>3 DEF EvalSave, EvalStep, SubOf, RunSubOf, evalTaskVars
  <2>2. /\ r \in Runs /\ ext[r] = "match"
        /\ row[r] \notin {"none", "pending", "gone"}
        /\ row[r] = "failed" => stale[r]
    BY <2>1 DEF LinkInv, LifeInv, TypeOK, HookTypeOK
  <2>3. row[r] = "completed" \/ (row[r] = "failed" /\ stale[r])
    BY <2>2 DEF TypeOK, StateTypeOK
  <2>4. ASSUME NEW t \in Runs PROVE Alerted(t)' <=> t = r \/ Alerted(t)
    <3>1. /\ hookRun' = hookRun /\ evalHook' = evalHook
          /\ \A y \in Evals : alert'[y] = IF y = x THEN "recent" ELSE alert[y]
      BY <1>1, <2>1 DEF TypeOK, EvalTypeOK
    <3> QED BY <3>1 DEF Alerted
  <2>5. A' = [A EXCEPT ![r] = TRUE]
    <3>1. ASSUME NEW t \in Runs
          PROVE  Alerted(t)' = IF t = r THEN TRUE ELSE Alerted(t)
      BY <2>4 DEF Alerted
    <3>2. A' = [t \in Runs |-> IF t = r THEN TRUE ELSE Alerted(t)]
      BY <3>1
    <3> QED BY <3>2
  <2>6. RunLifecycle!Alert(r)
    BY <1>1, <2>2, <2>3, <2>5 DEF RunLifecycle!Alert
  <2> QED BY <2>2, <2>6 DEF RunLifecycle!Next
<1>4. CASE ~EvalSave(x)
  <2>1. \A y \in Evals : \/ alert'[y] = alert[y]
                         \/ alert'[y] = "old" /\ alert[y] = "recent"
    BY <1>2, <1>4
  <2>2. \A y \in Evals : alert[y] # "none" => evalHook'[y] = evalHook[y]
    <3>1. alert[x] # "none" => evalPc[x] # "idle"
      BY DEF LinkInv
    <3> QED BY <1>2, <3>1 DEF Takes, GoesOn, Vanishes
  <2>3. A' = A
    BY <1>1, <2>1, <2>2, AlertedLasts
  <2> QED BY <1>1, <2>3 DEF RunLifecycle!vars
<1> QED BY <1>3, <1>4

\* Poll, callback, sweep, evaluation and owner together: the row and the alert
\* of every run go through the lifecycle of SearchRunLifecycle, whatever fails
\* and overlaps.
THEOREM PipelineRefinesLifecycle == Spec => ImplementsRunLifecycle
<1>1. Init => RunLifecycle!Init
  <2> SUFFICES ASSUME Init PROVE RunLifecycle!Init
    OBVIOUS
  <2>1. \A r \in Runs : Alerted(r) = FALSE
    BY DEF Init, EvalInit, Alerted
  <2> QED BY <2>1 DEF Init, StateInit, RunLifecycle!Init
<1>2. TypeOK /\ MessageInv /\ LinkInv /\ LifeInv /\ [Next]_vars
      => [RunLifecycle!Next]_RunLifecycle!vars
  <2> SUFFICES ASSUME TypeOK, MessageInv, LinkInv, LifeInv, [Next]_vars
               PROVE  [RunLifecycle!Next]_RunLifecycle!vars
    OBVIOUS
  <2>1. CASE UNCHANGED vars
    <3>1. UNCHANGED <<ext, row, stale, hookRun, evalHook, alert>>
      BY <2>1 DEF vars, runVars, evalVars
    <3>2. [r \in Runs |-> Alerted(r)]' = [r \in Runs |-> Alerted(r)]
      BY <3>1, AlertedLasts
    <3> QED BY <3>1, <3>2 DEF RunLifecycle!vars
  <2> QED BY <2>1, OwnerRefines, PlatformRefines, PollRefines, HookRefines,
             EvalRefines DEF Next
<1> QED BY <1>1, <1>2, InitLinks, InitLife, InitTypes, LinkStep, LifeStep,
           TypeStep, PTL DEF Spec, ImplementsRunLifecycle, RunLifecycle!Spec
=============================================================================
