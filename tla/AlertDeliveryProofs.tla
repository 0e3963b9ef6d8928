------------------------- MODULE AlertDeliveryProofs -------------------------
(***************************************************************************)
(* Proofs about AlertDelivery for every value of the constants: how many   *)
(* alerts, executions, redeliveries, faults, users and chats there are     *)
(* does not matter.                                                        *)
(***************************************************************************)
EXTENDS AlertDelivery, TelegramLinkProofs

-----------------------------------------------------------------------------
(* Type correctness of the delivery *)

LEMMA PutTypes ==
  ASSUME TypeOK, NEW a \in Alerts, Put(a)
  PROVE  queue' \in [Alerts -> Nat]
BY DEF Put, TypeOK

LEMMA PublisherTypes == TypeOK /\ Publisher => TypeOK'
<1> SUFFICES ASSUME TypeOK, Publisher PROVE TypeOK'
  OBVIOUS
<1> USE DEF TypeOK
<1>1. LinkTypeOK'
  BY LinkTypes DEF Publisher
<1>2. PICK a \in Alerts :
        CreateAlert(a) \/ Publish(a) \/ PublishFails(a) \/ DeleteAlert(a)
  BY DEF Publisher
<1>3. CASE CreateAlert(a) BY <1>1, <1>3 DEF CreateAlert, historyVars
<1>4. CASE Publish(a)
  <2>1. queue' \in [Alerts -> Nat]
    BY <1>4, PutTypes DEF Publish
  <2> QED BY <1>1, <1>4, <2>1 DEF Publish, historyVars
<1>5. CASE PublishFails(a)
  BY <1>1, <1>5, MaxFaultsAssumption
     DEF PublishFails, Fault, historyVars
<1>6. CASE DeleteAlert(a) BY <1>1, <1>6 DEF DeleteAlert, historyVars
<1> QED BY <1>2, <1>3, <1>4, <1>5, <1>6

LEMMA RequeueTypes ==
  ASSUME TypeOK, NEW x \in Executions, execAlert[x] \in Alerts, Requeue(x)
  PROVE  /\ queue' \in [Alerts -> Nat]
         /\ holds' \in [Executions -> BOOLEAN]
<1>1. CASE holds[x] BY <1>1, PutTypes DEF Requeue, TypeOK
<1>2. CASE ~holds[x] BY <1>2 DEF Requeue, TypeOK
<1> QED BY <1>1, <1>2

LEMMA BrokerTypes == TypeOK /\ Broker => TypeOK'
<1> SUFFICES ASSUME TypeOK, Broker PROVE TypeOK'
  OBVIOUS
<1>1. LinkTypeOK'
  BY LinkTypes DEF Broker, TypeOK
<1>2. ASSUME NEW x \in Executions, NEW a \in Alerts, Receive(x, a)
      PROVE  TypeOK'
  <2>1. queue' \in [Alerts -> Nat]
    BY <1>2 DEF Receive, TypeOK
  <2> QED BY <1>1, <1>2, <2>1
          DEF Receive, ExecStep, Working, historyVars, TypeOK
<1>3. ASSUME NEW x \in Executions, Crash(x) PROVE TypeOK'
  <2>1. execAlert[x] \in Alerts BY <1>3 DEF Crash, TypeOK
  <2>2. faults' \in 0 .. MaxFaults
    BY <1>3, MaxFaultsAssumption DEF Crash, Fault, TypeOK
  <2>3. /\ queue' \in [Alerts -> Nat]
        /\ holds' = [holds EXCEPT ![x] = FALSE]
    BY <1>3, <2>1, RequeueTypes DEF Crash, Requeue
  <2> QED BY <1>1, <1>3, <2>2, <2>3 DEF Crash, historyVars, TypeOK
<1>4. ASSUME NEW x \in Executions, ConnectionLost(x) PROVE TypeOK'
  <2>1. execAlert[x] \in Alerts BY <1>4 DEF ConnectionLost, TypeOK
  <2>2. faults' \in 0 .. MaxFaults
    BY <1>4, MaxFaultsAssumption DEF ConnectionLost, Fault, TypeOK
  <2>3. /\ queue' \in [Alerts -> Nat]
        /\ holds' = [holds EXCEPT ![x] = FALSE]
    BY <1>4, <2>1, RequeueTypes DEF ConnectionLost, Requeue
  <2> QED BY <1>1, <1>4, <2>2, <2>3
          DEF ConnectionLost, historyVars, TypeOK
<1> QED BY <1>2, <1>3, <1>4 DEF Broker

\* The transactions of process_and_send_alert: the status is written and
\* committed, or it is in doubt, or the row is gone.
Committing(x) ==
  \E pc \in Deciding :
    Commit(x, pc) \/ CommitFails(x, pc) \/ CommitDeleted(x, pc)

LEMMA ClearChatTypes ==
  ASSUME TypeOK, NEW x \in Executions, execAlert[x] \in Alerts, ClearChat(x)
  PROVE  LinkTypeOK'
BY OwnerAssumption DEF ClearChat, TypeOK, LinkTypeOK

LEMMA CommittingEffect ==
  ASSUME TypeOK, NEW x \in Executions, Committing(x)
  PROVE  LET a == execAlert[x]
             set == /\ status[a] # "gone"
                    /\ status' = [status EXCEPT ![a] = Verdict(execPc[x])]
         IN  /\ execPc[x] \in Deciding
             /\ a \in Alerts
             /\ UNCHANGED <<event, queue, key, execAlert, holds, seenChat,
                            sends, dropped>>
             /\ \/ /\ execPc' = [execPc EXCEPT ![x] = "finish"]
                   /\ set
                   /\ UNCHANGED <<faults, doubt>>
                \/ /\ execPc' = [execPc EXCEPT ![x] = "raise"]
                   /\ set \/ UNCHANGED status
                   /\ doubt' = doubt \cup {a}
                   /\ faults' \in 0 .. MaxFaults
                \/ /\ execPc' = [execPc EXCEPT ![x] = "raise"]
                   /\ status[a] = "gone"
                   /\ UNCHANGED <<status, faults, doubt>>
             /\ UNCHANGED linkVars \/ ClearChat(x)
             /\ LinkTypeOK'
<1>1. PICK pc \in Deciding :
        Commit(x, pc) \/ CommitFails(x, pc) \/ CommitDeleted(x, pc)
  BY DEF Committing
<1>2. execPc[x] = pc /\ execAlert[x] \in Alerts
  BY <1>1 DEF Commit, CommitFails, CommitDeleted, ExecStep, Deciding, TypeOK
<1>3. UNCHANGED linkVars \/ ClearChat(x)
  BY <1>1 DEF Commit, CommitFails, CommitDeleted, Settles, linkVars
<1>4. LinkTypeOK'
  BY <1>2, <1>3, ClearChatTypes, LinkTypes DEF TypeOK
<1>5. CASE Commit(x, pc)
  BY <1>2, <1>3, <1>4, <1>5
     DEF Commit, ExecStep, Settles, Written, historyVars
<1>6. CASE CommitFails(x, pc)
  <2>1. faults' \in 0 .. MaxFaults
    BY <1>6, MaxFaultsAssumption DEF CommitFails, Fault, TypeOK
  <2> QED BY <1>2, <1>3, <1>4, <1>6, <2>1
          DEF CommitFails, ExecStep, Settles, Written, InDoubt
<1>7. CASE CommitDeleted(x, pc)
  BY <1>2, <1>3, <1>4, <1>7 DEF CommitDeleted, ExecStep, historyVars
<1> QED BY <1>1, <1>5, <1>6, <1>7

\* Every other step of an execution.
Handling(x) ==
  /\ \/ Acquire(x) \/ Ignore(x) \/ AcquireFails(x) \/ Load(x)
     \/ Send(x) \/ Refuse(x) \/ SendFails(x) \/ SendTimesOut(x)
     \/ Finish(x) \/ FinishFails(x) \/ Release(x) \/ ReleaseFails(x)
     \/ OnError(x) \/ Ack(x)
  /\ UNCHANGED linkVars

LEMMA StepKinds ==
  ASSUME NEW x \in Executions, ExecutionStep(x)
  PROVE  Committing(x) \/ Handling(x)
BY DEF ExecutionStep, Committing, Handling

LEMMA CommittingTypes ==
  ASSUME TypeOK, NEW x \in Executions, Committing(x)
  PROVE  TypeOK'
<1>1. Verdict(execPc[x]) \in {"sent", "failed", "skipped"}
  BY CommittingEffect DEF Deciding, Verdict
<1> QED BY <1>1, CommittingEffect
        DEF TypeOK, Working, Processing

LEMMA HandlingTypes ==
  ASSUME TypeOK, NEW x \in Executions, Handling(x)
  PROVE  TypeOK'
<1> USE DEF Working, Processing, ExecStep, InDoubt, historyVars
<1>1. execPc[x] # "idle" /\ execAlert[x] \in Alerts
  BY DEF Handling, TypeOK, Acquire, Ignore, AcquireFails, Load, Send, Refuse,
         SendFails, SendTimesOut, Finish, FinishFails, Release, ReleaseFails,
         OnError, Ack
<1>2. LinkTypeOK'
  BY LinkTypes DEF Handling, TypeOK
<1> DEFINE Flt == faults' \in 0 .. MaxFaults
<1>3. ASSUME NEW f, Fault(f) PROVE Flt
  BY <1>3, MaxFaultsAssumption DEF Fault, TypeOK
<1>4. CASE Acquire(x)
  BY <1>1, <1>2, <1>4 DEF Acquire, TypeOK
<1>5. CASE Ignore(x)
  BY <1>1, <1>2, <1>5 DEF Ignore, TypeOK
<1>6. CASE AcquireFails(x)
  BY <1>1, <1>2, <1>3, <1>6 DEF AcquireFails, TypeOK
<1>7. CASE Load(x)
  <2>1. chat[Owner[execAlert[x]]] \in Chats \cup {None}
    BY <1>1, OwnerAssumption DEF TypeOK, LinkTypeOK
  <2> QED BY <1>1, <1>2, <1>7, <2>1 DEF Load, TypeOK
<1>8. CASE Send(x)
  <2>1. sends' \in [Alerts -> Nat]
    BY <1>1, <1>8 DEF Send, Arrive, TypeOK
  <2> QED BY <1>1, <1>2, <1>8, <2>1 DEF Send, TypeOK
<1>9. CASE Refuse(x)
  BY <1>1, <1>2, <1>9 DEF Refuse, TypeOK
<1>10. CASE SendFails(x)
  BY <1>1, <1>2, <1>3, <1>10 DEF SendFails, TypeOK
<1>11. CASE SendTimesOut(x)
  <2>1. sends' \in [Alerts -> Nat]
    BY <1>1, <1>11 DEF SendTimesOut, Arrive, TypeOK
  <2>2. Flt BY <1>3, <1>11 DEF SendTimesOut
  <2> QED BY <1>1, <1>2, <1>11, <2>1, <2>2 DEF SendTimesOut, TypeOK
<1>12. CASE Finish(x)
  BY <1>1, <1>2, <1>12 DEF Finish, TypeOK
<1>13. CASE FinishFails(x)
  <2>1. key' \in [Alerts -> {None, "processing", "completed"}]
    BY <1>1, <1>13 DEF FinishFails, TypeOK
  <2>2. Flt BY <1>3, <1>13 DEF FinishFails
  <2> QED BY <1>1, <1>2, <1>13, <2>1, <2>2 DEF FinishFails, TypeOK
<1>14. CASE Release(x)
  BY <1>1, <1>2, <1>14 DEF Release, TypeOK
<1>15. CASE ReleaseFails(x)
  BY <1>1, <1>2, <1>3, <1>15 DEF ReleaseFails, TypeOK
<1>16. CASE OnError(x)
  BY <1>1, <1>2, <1>16 DEF OnError, TypeOK
<1>17. CASE Ack(x)
  BY <1>1, <1>2, <1>17 DEF Ack, TypeOK
<1> QED BY <1>4, <1>5, <1>6, <1>7, <1>8, <1>9, <1>10, <1>11, <1>12, <1>13,
           <1>14, <1>15, <1>16, <1>17 DEF Handling

LEMMA ExecutionTypes ==
  ASSUME TypeOK, NEW x \in Executions, ExecutionStep(x)
  PROVE  TypeOK'
BY StepKinds, CommittingTypes, HandlingTypes

\* Every variable of the linking and of the delivery keeps its type.
THEOREM DeliveryTypeCorrect == Spec => []TypeOK
<1>1. Init => TypeOK
  BY MaxFaultsAssumption
     DEF Init, LinkInit, TypeOK, LinkTypeOK, Working, Processing
<1>2. TypeOK /\ [Next]_vars => TypeOK'
  <2> SUFFICES ASSUME TypeOK, [Next]_vars PROVE TypeOK'
    OBVIOUS
  <2>1. CASE UNCHANGED vars
    BY <2>1 DEF vars, deliveryVars, linkVars, historyVars, TypeOK,
                LinkTypeOK
  <2>2. CASE LinkNext /\ UNCHANGED deliveryVars
    BY <2>2, LinkTypes DEF deliveryVars, historyVars, TypeOK
  <2> QED BY <2>1, <2>2, PublisherTypes, BrokerTypes, ExecutionTypes DEF Next
<1> QED BY <1>1, <1>2, PTL DEF Spec

-----------------------------------------------------------------------------
(* The idempotency key is a mutex *)

\* Whoever processes an event has set its key, and nobody else resets it.
MutexInv ==
  /\ OneExecutionPerEvent
  /\ \A x \in Executions :
       execPc[x] \in Processing => key[execAlert[x]] # None

\* What the steps outside the wrapped task leave to it: no event is processed
\* that was not, and neither keys nor messages change.
Outside ==
  /\ UNCHANGED <<key, historyVars>>
  /\ \A x \in Executions : execPc'[x] \in Processing =>
       execPc'[x] = execPc[x] /\ execAlert'[x] = execAlert[x]

\* A step of anything but an execution.
Environment ==
  \/ LinkNext /\ UNCHANGED deliveryVars
  \/ Publisher
  \/ Broker
  \/ UNCHANGED vars

LEMMA EnvironmentIsOutside ==
  ASSUME TypeOK, Environment
  PROVE  Outside
<1> USE DEF Outside, historyVars
<1>1. CASE UNCHANGED deliveryVars \/ UNCHANGED vars
  BY <1>1 DEF deliveryVars, vars
<1>2. CASE Publisher
  BY <1>2 DEF Publisher, CreateAlert, Publish, PublishFails, DeleteAlert
<1>3. CASE Broker
  BY <1>3 DEF Broker, Receive, Crash, ConnectionLost, ExecStep, TypeOK,
              Processing
<1> QED BY <1>1, <1>2, <1>3 DEF Environment

LEMMA OutsideKeepsMutex == Outside /\ MutexInv => MutexInv'
BY DEF Outside, MutexInv, OneExecutionPerEvent

\* A step of x takes the free key of its event, or stays on its side of the
\* wrapped task, or leaves it and may change the key.
KeyOnly(x) == \A a \in Alerts \ {execAlert[x]} : key'[a] = key[a]
Takes(x) ==
  /\ key[execAlert[x]] = None
  /\ key'[execAlert[x]] = "processing"
Stays(x) ==
  /\ key'[execAlert[x]] = None => key[execAlert[x]] = None
  /\ execPc'[x] \in Processing => execPc[x] \in Processing
Leaves(x) == execPc[x] \in Processing /\ execPc'[x] \notin Processing

LEMMA ExecutionIsInside ==
  ASSUME TypeOK, NEW x \in Executions, ExecutionStep(x)
  PROVE  /\ execAlert' = execAlert
         /\ \A y \in Executions \ {x} : execPc'[y] = execPc[y]
         /\ KeyOnly(x)
         /\ Takes(x) \/ Stays(x) \/ Leaves(x)
<1> USE DEF ExecStep, TypeOK, KeyOnly, Takes, Stays, Leaves
<1>0. execPc[x] # "idle" => execAlert[x] \in Alerts
  OBVIOUS
<1>1. CASE Acquire(x)
  BY <1>0, <1>1 DEF Acquire, Acquirable
<1>2. CASE Release(x)
  BY <1>2 DEF Release, Processing
<1>3. CASE Finish(x)
  BY <1>3 DEF Finish, Processing
<1>4. CASE Committing(x)
  BY <1>4, CommittingEffect DEF Deciding, Processing
<1>5. CASE AcquireFails(x)
  <2>1. key' = key \/ Takes(x)
    BY <1>0, <1>5 DEF AcquireFails, Acquirable
  <2> QED BY <1>5, <2>1 DEF AcquireFails, Processing
<1>6. CASE FinishFails(x)
  BY <1>0, <1>6, KeyNoneAssumption DEF FinishFails, Processing
<1>7. CASE Load(x)
  BY <1>7 DEF Load, Processing
<1>8. CASE Send(x) \/ Refuse(x)
  BY <1>8 DEF Send, Refuse, Processing
<1>9. CASE SendFails(x) \/ SendTimesOut(x)
  BY <1>9 DEF SendFails, SendTimesOut, Processing
<1>10. CASE Ignore(x) \/ OnError(x) \/ Ack(x)
  BY <1>10 DEF Ignore, OnError, Ack, Processing
<1>11. CASE ReleaseFails(x)
  BY <1>11 DEF ReleaseFails, Processing
<1> QED BY StepKinds, <1>1, <1>2, <1>3, <1>4, <1>5, <1>6, <1>7, <1>8, <1>9,
           <1>10, <1>11 DEF Handling

LEMMA ExecutionKeepsMutex ==
  ASSUME TypeOK, MutexInv, NEW x \in Executions, ExecutionStep(x)
  PROVE  MutexInv'
<1> USE ExecutionIsInside
    DEF MutexInv, OneExecutionPerEvent, KeyOnly
<1>1. \A y \in Executions : execPc[y] \in Processing => execAlert[y] \in Alerts
  BY DEF TypeOK, Processing
<1>2. CASE Takes(x)
  BY <1>1, <1>2, KeyNoneAssumption DEF Takes
<1>3. CASE Stays(x)
  BY <1>1, <1>3 DEF Stays
<1>4. CASE Leaves(x)
  BY <1>1, <1>4 DEF Leaves
<1> QED BY <1>2, <1>3, <1>4

\* idempotent_event: no two executions process the same event at the same
\* time, whatever is redelivered and whoever stops.
THEOREM EventsAreExclusive == Spec => []OneExecutionPerEvent
<1>1. Init => MutexInv
  BY DEF Init, MutexInv, OneExecutionPerEvent, Processing
<1>2. TypeOK /\ MutexInv /\ [Next]_vars => MutexInv'
  BY EnvironmentIsOutside, OutsideKeepsMutex, ExecutionKeepsMutex
     DEF Next, Environment
<1>3. MutexInv => OneExecutionPerEvent
  BY DEF MutexInv
<1> QED BY <1>1, <1>2, <1>3, DeliveryTypeCorrect, PTL DEF Spec

-----------------------------------------------------------------------------
(* A key is marked only when the alert has its final status *)

Final == {"sent", "failed", "skipped", "gone"}

CompletedInv ==
  /\ CompletedIsFinal
  /\ \A x \in Executions :
       execPc[x] = "finish" => status[execAlert[x]] \in Final

\* A final status stays final; an execution finishes only an alert with a
\* final status; a key is marked only by an execution that finishes.
Finishing ==
  /\ \A a \in Alerts : status[a] \in Final => status'[a] \in Final
  /\ \A x \in Executions :
       execPc'[x] = "finish" =>
         \/ status'[execAlert'[x]] \in Final
         \/ execPc[x] = "finish" /\ execAlert'[x] = execAlert[x]
  /\ \A a \in Alerts : key'[a] = "completed" =>
       \/ key[a] = "completed"
       \/ \E x \in Executions : execPc[x] = "finish" /\ execAlert[x] = a

LEMMA EnvironmentFinishes ==
  ASSUME TypeOK, Environment
  PROVE  Finishing
<1> USE DEF Finishing, Final, TypeOK
<1>1. CASE UNCHANGED deliveryVars \/ UNCHANGED vars
  BY <1>1 DEF deliveryVars, vars
<1>2. CASE Publisher
  BY <1>2 DEF Publisher, CreateAlert, Publish, PublishFails, DeleteAlert
<1>3. CASE Broker
  BY <1>3 DEF Broker, Receive, Crash, ConnectionLost, ExecStep
<1> QED BY <1>1, <1>2, <1>3 DEF Environment

LEMMA ExecutionFinishes ==
  ASSUME TypeOK, NEW x \in Executions, ExecutionStep(x)
  PROVE  Finishing
<1> USE DEF ExecStep, TypeOK, Finishing, Final
<1>1. CASE Acquire(x)
  BY <1>1, KeyNoneAssumption DEF Acquire
<1>2. CASE Release(x)
  BY <1>2, KeyNoneAssumption DEF Release
<1>3. CASE Finish(x)
  BY <1>3 DEF Finish
<1>4. CASE Committing(x)
  <2>1. Verdict(execPc[x]) \in {"sent", "failed", "skipped"}
    BY <1>4, CommittingEffect DEF Deciding, Verdict
  <2> QED BY <1>4, <2>1, CommittingEffect
<1>5. CASE AcquireFails(x)
  BY <1>5, KeyNoneAssumption DEF AcquireFails
<1>6. CASE FinishFails(x)
  BY <1>6 DEF FinishFails
<1>7. CASE ReleaseFails(x)
  BY <1>7, KeyNoneAssumption DEF ReleaseFails
<1>8. CASE Load(x)
  BY <1>8 DEF Load
<1>9. CASE Send(x) \/ Refuse(x)
  BY <1>9 DEF Send, Refuse
<1>10. CASE SendFails(x) \/ SendTimesOut(x)
  BY <1>10 DEF SendFails, SendTimesOut
<1>11. CASE Ignore(x) \/ OnError(x) \/ Ack(x)
  BY <1>11 DEF Ignore, OnError, Ack
<1> QED BY StepKinds, <1>1, <1>2, <1>3, <1>4, <1>5, <1>6, <1>7, <1>8, <1>9,
           <1>10, <1>11 DEF Handling

LEMMA FinishingKeepsCompleted ==
  TypeOK /\ Finishing /\ CompletedInv => CompletedInv'
<1> SUFFICES ASSUME TypeOK, Finishing, CompletedInv PROVE CompletedInv'
  OBVIOUS
<1>1. \A x \in Executions : execPc[x] = "finish" => execAlert[x] \in Alerts
  BY DEF TypeOK
<1> QED BY <1>1 DEF Finishing, CompletedInv, CompletedIsFinal, Final

\* process_and_send_alert and idempotent_event: an event is marked completed,
\* and ignored from then on, only when its alert has its final status.
THEOREM CompletionIsFinal == Spec => []CompletedIsFinal
<1>1. Init => CompletedInv
  BY KeyNoneAssumption DEF Init, CompletedInv, CompletedIsFinal
<1>2. TypeOK /\ CompletedInv /\ [Next]_vars => CompletedInv'
  BY EnvironmentFinishes, ExecutionFinishes, FinishingKeepsCompleted
     DEF Next, Environment
<1>3. CompletedInv => CompletedIsFinal
  BY DEF CompletedInv
<1> QED BY <1>1, <1>2, <1>3, DeliveryTypeCorrect, PTL DEF Spec

-----------------------------------------------------------------------------
(* One message for an alert, and a status that says so *)

\* Nobody was sent the alert, and no status says anything else.
Untold(a) == sends[a] = 0 /\ status[a] \in {"none", "pending", "gone"}
\* Whoever loads the alert now finds it deleted, or untold.
Fresh(a) == status[a] = "gone" \/ Untold(a)

\* What an execution at work on a knows of it.
Knows(x, a) ==
  /\ execPc[x] \in {"load", "raise"} => Fresh(a)
  /\ execPc[x] \in {"send", "skip", "refused"} => Untold(a)
  /\ execPc[x] = "delivered" => status[a] \in {"none", "pending", "gone"}

OutcomeOf(a) ==
  /\ status[a] = "sent" => sends[a] > 0
  /\ \A x \in Executions :
       execAlert[x] = a /\ execPc[x] = "delivered" => sends[a] > 0
  /\ \/ a \in doubt
     \/ /\ sends[a] <= 1
        /\ status[a] \in {"failed", "skipped"} => sends[a] = 0
        /\ key[a] = None => Fresh(a)
        /\ \A x \in Executions : execAlert[x] = a => Knows(x, a)

OutcomeInv == \A a \in Alerts : OutcomeOf(a)

\* The environment creates and deletes alerts, and tells nobody.
LEMMA EnvironmentKeepsOutcome ==
  ASSUME TypeOK, OutcomeInv, Environment
  PROVE  OutcomeInv'
<1>1. Outside
  BY EnvironmentIsOutside
<1>2. \A a \in Alerts :
        \/ status'[a] = status[a]
        \/ status[a] = "none" /\ status'[a] = "pending"
        \/ status'[a] = "gone"
  <2> USE DEF TypeOK
  <2>1. CASE UNCHANGED deliveryVars \/ UNCHANGED vars
    BY <2>1 DEF deliveryVars, vars
  <2>2. CASE Publisher
    BY <2>2 DEF Publisher, CreateAlert, Publish, PublishFails, DeleteAlert
  <2>3. CASE Broker
    BY <2>3 DEF Broker, Receive, Crash, ConnectionLost
  <2> QED BY <2>1, <2>2, <2>3 DEF Environment
<1>3. SUFFICES ASSUME NEW a \in Alerts PROVE OutcomeOf(a)'
  BY DEF OutcomeInv
<1>4. OutcomeOf(a) BY DEF OutcomeInv
<1>5. \A x \in Executions :
        execPc'[x] \in Processing =>
          execPc'[x] = execPc[x] /\ execAlert'[x] = execAlert[x]
  BY <1>1 DEF Outside
<1>6. key' = key /\ sends' = sends /\ doubt' = doubt
  BY <1>1 DEF Outside, historyVars
<1> QED BY <1>2, <1>4, <1>5, <1>6
        DEF OutcomeOf, Knows, Fresh, Untold, Processing

\* An execution writes of its own alert only.
LEMMA OtherAlertsKeep ==
  ASSUME TypeOK, NEW x \in Executions, ExecutionStep(x),
         NEW a \in Alerts, a # execAlert[x]
  PROVE  /\ key'[a] = key[a]
         /\ status'[a] = status[a]
         /\ sends'[a] = sends[a]
         /\ a \in doubt' <=> a \in doubt
<1> USE DEF TypeOK, historyVars
<1>1. key'[a] = key[a]
  BY ExecutionIsInside DEF KeyOnly
<1>2. CASE Committing(x)
  BY <1>1, <1>2, CommittingEffect
<1>3. CASE FinishFails(x)
  BY <1>1, <1>3 DEF FinishFails, InDoubt
<1>5. CASE Send(x) \/ SendTimesOut(x)
  BY <1>1, <1>5 DEF Send, SendTimesOut, Arrive, InDoubt
<1>6. CASE Load(x) \/ Refuse(x) \/ SendFails(x)
  BY <1>1, <1>6 DEF Load, Refuse, SendFails
<1>7. CASE Acquire(x) \/ Ignore(x) \/ AcquireFails(x) \/ OnError(x) \/ Ack(x)
  BY <1>1, <1>7 DEF Acquire, Ignore, AcquireFails, OnError, Ack
<1>8. CASE Finish(x) \/ Release(x) \/ ReleaseFails(x)
  BY <1>1, <1>8 DEF Finish, Release, ReleaseFails
<1> QED BY StepKinds, <1>2, <1>3, <1>5, <1>6, <1>7, <1>8 DEF Handling

\* The same for the alert an execution is at work on: it is alone with it.
LEMMA OwnAlertKeeps ==
  ASSUME TypeOK, MutexInv, NEW x \in Executions, ExecutionStep(x),
         NEW a \in Alerts, a = execAlert[x], OutcomeOf(a)
  PROVE  OutcomeOf(a)'
<1> USE DEF ExecStep, historyVars
<1>1. CASE execPc[x] \notin Processing /\ execPc'[x] \notin Processing
  <2>1. Ignore(x) \/ AcquireFails(x) \/ OnError(x) \/ Ack(x)
    <3>1. \A pc \in Processing : execPc[x] # pc
      BY <1>1
    <3>2. ~Acquire(x)
      BY <1>1 DEF Acquire, Processing, TypeOK
    <3>3. ~Committing(x)
      BY <3>1, CommittingEffect DEF Deciding, Processing
    <3> QED BY StepKinds, <3>1, <3>2, <3>3
            DEF Handling, Processing, Load, Send, Refuse, SendFails,
                SendTimesOut, Finish, FinishFails, Release, ReleaseFails
  <2>2. UNCHANGED <<status, sends, doubt>>
    BY <2>1 DEF Ignore, AcquireFails, OnError, Ack
  <2>3. key'[a] = key[a] \/ key'[a] = "processing"
    <3>1. a \in Alerts
      OBVIOUS
    <3> QED BY <2>1, <3>1 DEF Ignore, AcquireFails, OnError, Ack, TypeOK
  <2> QED BY <1>1, <2>2, <2>3, ExecutionIsInside, KeyNoneAssumption
          DEF OutcomeOf, Knows, Fresh, Untold, Processing
<1>2. CASE execPc[x] \in Processing \/ execPc'[x] \in Processing
  <2>1. \A y \in Executions \ {x} :
          execAlert[y] = a => execPc[y] \notin Processing
    <3>1. CASE execPc[x] \in Processing
      BY <3>1 DEF MutexInv, OneExecutionPerEvent
    <3>2. CASE Takes(x)
      BY <3>2, KeyNoneAssumption DEF Takes, MutexInv
    <3> QED BY <1>2, <3>1, <3>2, ExecutionIsInside DEF Stays, Leaves
  <2>2. \A y \in Executions \ {x} :
          execAlert'[y] = a => execPc'[y] \notin Processing
    BY <2>1, ExecutionIsInside
  <2>3. /\ status[a] = "sent" => sends[a] > 0
        /\ execPc[x] = "delivered" => sends[a] > 0
        /\ \/ a \in doubt
           \/ /\ sends[a] <= 1
              /\ status[a] \in {"failed", "skipped"} => sends[a] = 0
              /\ key[a] = None => Fresh(a)
              /\ Knows(x, a)
    BY DEF OutcomeOf
  <2>4. SUFFICES
          /\ status'[a] = "sent" => sends'[a] > 0
          /\ execPc'[x] = "delivered" => sends'[a] > 0
          /\ \/ a \in doubt'
             \/ /\ sends'[a] <= 1
                /\ status'[a] \in {"failed", "skipped"} => sends'[a] = 0
                /\ key'[a] = None => Fresh(a)'
                /\ Knows(x, a)'
    BY <2>2, ExecutionIsInside DEF OutcomeOf, Knows, Processing
  <2>0. execPc[x] \in Processing => key[a] # None
    BY DEF MutexInv
  <2> USE <2>0, <2>3, KeyNoneAssumption
      DEF Processing, Knows, Fresh, Untold, TypeOK
  <2>5. CASE Acquire(x) \/ Ignore(x) \/ AcquireFails(x)
    BY <2>5 DEF Acquire, Acquirable, Ignore, AcquireFails
  <2>6. CASE Load(x)
    BY <2>6 DEF Load
  <2>7. CASE Send(x) \/ SendTimesOut(x)
    <3>1. sends'[a] = sends[a] + 1 /\ sends[a] \in Nat
      BY <2>7 DEF Send, SendTimesOut, Arrive
    <3>2. UNCHANGED <<status, key>>
      BY <2>7 DEF Send, SendTimesOut
    <3>3. execPc[x] = "send"
      BY <2>7 DEF Send, SendTimesOut
    <3>4. \/ execPc'[x] = "delivered" /\ UNCHANGED doubt
          \/ execPc'[x] = "raise" /\ a \in doubt'
      BY <2>7 DEF Send, SendTimesOut, InDoubt
    <3> QED BY <3>1, <3>2, <3>3, <3>4
  <2>8. CASE Refuse(x) \/ SendFails(x)
    BY <2>8 DEF Refuse, SendFails
  <2>9. CASE Committing(x)
    <3>1. /\ execPc[x] \in Deciding
          /\ execPc'[x] \in {"finish", "raise"}
          /\ UNCHANGED <<key, sends>>
          /\ \/ /\ status'[a] = Verdict(execPc[x])
                /\ execPc'[x] = "finish"
                /\ UNCHANGED doubt
             \/ status'[a] \in {status[a], Verdict(execPc[x])} /\ a \in doubt'
             \/ status[a] = "gone" /\ UNCHANGED <<status, doubt>>
      BY <2>9, CommittingEffect
    <3>2. CASE execPc[x] = "delivered"
      BY <3>1, <3>2 DEF Verdict
    <3>3. CASE execPc[x] = "skip"
      BY <3>1, <3>3 DEF Verdict
    <3>4. CASE execPc[x] = "refused"
      BY <3>1, <3>4 DEF Verdict
    <3> QED BY <3>1, <3>2, <3>3, <3>4 DEF Deciding
  <2>11. CASE FinishFails(x)
    BY <2>11 DEF FinishFails, InDoubt
  <2>12. CASE Finish(x) \/ Release(x) \/ ReleaseFails(x)
    BY <2>12 DEF Finish, Release, ReleaseFails
  <2>13. CASE OnError(x) \/ Ack(x)
    BY <1>2, <2>13 DEF OnError, Ack, Processing
  <2> QED BY StepKinds, <2>5, <2>6, <2>7, <2>8, <2>9, <2>11, <2>12, <2>13
          DEF Handling
<1> QED BY <1>1, <1>2

LEMMA ExecutionKeepsOutcome ==
  ASSUME TypeOK, MutexInv, OutcomeInv, NEW x \in Executions, ExecutionStep(x)
  PROVE  OutcomeInv'
<1> SUFFICES ASSUME NEW a \in Alerts PROVE OutcomeOf(a)'
  BY DEF OutcomeInv
<1>1. OutcomeOf(a) BY DEF OutcomeInv
<1>2. CASE a = execAlert[x] BY <1>1, <1>2, OwnAlertKeeps
<1>3. CASE a # execAlert[x]
  <2>1. execAlert' = execAlert
    BY ExecutionIsInside
  <2>2. \A y \in Executions : execAlert[y] = a => execPc'[y] = execPc[y]
    BY <1>3, ExecutionIsInside
  <2> QED BY <1>1, <1>3, <2>1, <2>2, OtherAlertsKeep
          DEF OutcomeOf, Knows, Fresh, Untold
<1> QED BY <1>2, <1>3

LEMMA OutcomeIsInvariant == Spec => []OutcomeInv
<1>1. Init => MutexInv /\ OutcomeInv
  BY DEF Init, MutexInv, OneExecutionPerEvent, Processing, OutcomeInv,
         OutcomeOf, Knows, Fresh, Untold
<1>2. TypeOK /\ MutexInv /\ OutcomeInv /\ [Next]_vars
      => MutexInv' /\ OutcomeInv'
  BY EnvironmentIsOutside, OutsideKeepsMutex, ExecutionKeepsMutex,
     EnvironmentKeepsOutcome, ExecutionKeepsOutcome
     DEF Next, Environment
<1> QED BY <1>1, <1>2, DeliveryTypeCorrect, PTL DEF Spec

\* send_alert: unless an answer, a commit or the marking of the key failed on
\* the way, the user gets one message for an alert at most.
THEOREM MessagesAreUnique == Spec => []AtMostOneMessage
<1>1. OutcomeInv => AtMostOneMessage
  BY DEF OutcomeInv, OutcomeOf, AtMostOneMessage
<1> QED BY <1>1, OutcomeIsInvariant, PTL

\* A sent alert was delivered, whatever failed; a failed or skipped one was
\* not, unless something on the way was in doubt.
THEOREM StatusesAreTruthful == Spec => []StatusIsTruthful
<1>1. OutcomeInv => StatusIsTruthful
  BY DEF OutcomeInv, OutcomeOf, StatusIsTruthful
<1> QED BY <1>1, OutcomeIsInvariant, PTL

-----------------------------------------------------------------------------
(* The refinement: AlertDelivery implements AlertLifecycle *)

\* Only a row that was inserted is published, queued or worked on.
BornInv ==
  /\ \A a \in Alerts : event[a] # "none" => status[a] # "none"
  /\ \A a \in Alerts : queue[a] # 0 => status[a] # "none"
  /\ \A x \in Executions :
       execPc[x] # "idle" \/ holds[x] => status[execAlert[x]] # "none"

LEMMA RequeueKeepsBorn ==
  ASSUME TypeOK, BornInv, NEW x \in Executions, Requeue(x)
  PROVE  \A a \in Alerts : queue'[a] # 0 => status[a] # "none"
<1> SUFFICES ASSUME NEW a \in Alerts, queue'[a] # 0
             PROVE  status[a] # "none"
  OBVIOUS
<1>1. CASE ~holds[x] \/ queue'[a] = queue[a]
  BY <1>1 DEF Requeue, BornInv
<1>2. CASE holds[x] /\ queue'[a] # queue[a]
  <2>1. a = execAlert[x]
    BY <1>2 DEF Requeue, Put, TypeOK
  <2> QED BY <1>2, <2>1 DEF BornInv
<1> QED BY <1>1, <1>2

LEMMA EnvironmentKeepsBorn ==
  ASSUME TypeOK, BornInv, Environment
  PROVE  BornInv'
<1> USE DEF BornInv, historyVars
<1>1. CASE UNCHANGED deliveryVars \/ UNCHANGED vars
  BY <1>1 DEF deliveryVars, vars
<1>2. CASE Publisher
  <2>1. PICK a \in Alerts :
          CreateAlert(a) \/ Publish(a) \/ PublishFails(a) \/ DeleteAlert(a)
    BY <1>2 DEF Publisher
  <2>2. CASE CreateAlert(a) \/ PublishFails(a) \/ DeleteAlert(a)
    BY <2>2 DEF CreateAlert, PublishFails, DeleteAlert, TypeOK
  <2>3. CASE Publish(a)
    <3>1. status[a] # "none" /\ status' = status
      BY <2>3 DEF Publish
    <3>2. \A b \in Alerts \ {a} : queue'[b] = queue[b] /\ event'[b] = event[b]
      BY <2>3 DEF Publish, Put, TypeOK
    <3>3. UNCHANGED <<execPc, execAlert, holds>>
      BY <2>3 DEF Publish
    <3> QED BY <3>1, <3>2, <3>3
  <2> QED BY <2>1, <2>2, <2>3
<1>3. CASE Broker
  <2>1. ASSUME NEW x \in Executions, NEW a \in Alerts, Receive(x, a)
        PROVE  BornInv'
    <3>1. status[a] # "none" /\ UNCHANGED <<status, event>>
      BY <2>1 DEF Receive, TypeOK
    <3>2. \A b \in Alerts \ {a} : queue'[b] = queue[b]
      BY <2>1 DEF Receive, TypeOK
    <3>3. \A y \in Executions \ {x} :
            /\ execPc'[y] = execPc[y]
            /\ execAlert'[y] = execAlert[y]
            /\ holds'[y] = holds[y]
      BY <2>1 DEF Receive, ExecStep, TypeOK
    <3>4. execAlert'[x] = a
      BY <2>1 DEF Receive, TypeOK
    <3> QED BY <3>1, <3>2, <3>3, <3>4
  <2>2. ASSUME NEW x \in Executions, Crash(x) \/ ConnectionLost(x)
        PROVE  BornInv'
    <3>1. /\ UNCHANGED <<status, event, execAlert>>
          /\ Requeue(x)
          /\ execPc' \in {execPc, [execPc EXCEPT ![x] = "idle"]}
      BY <2>2 DEF Crash, ConnectionLost
    <3>2. holds' = [holds EXCEPT ![x] = FALSE]
      BY <3>1 DEF Requeue
    <3> QED BY <3>1, <3>2, RequeueKeepsBorn DEF TypeOK
  <2> QED BY <1>3, <2>1, <2>2 DEF Broker
<1> QED BY <1>1, <1>2, <1>3 DEF Environment

\* An execution is at work, and writes no row that is not there.
LEMMA ExecutionIsOnARow ==
  ASSUME TypeOK, BornInv, NEW x \in Executions, ExecutionStep(x)
  PROVE  /\ execPc[x] # "idle"
         /\ execAlert[x] \in Alerts
         /\ status[execAlert[x]] # "none"
         /\ event' = event
         /\ \A a \in Alerts : status'[a] = "none" => status[a] = "none"
         /\ holds' \in {holds, [holds EXCEPT ![x] = FALSE]}
<1> USE DEF ExecStep, historyVars
<1>1. execPc[x] # "idle"
  BY StepKinds, CommittingEffect
     DEF Handling, Deciding, Acquire, Ignore, AcquireFails, Load, Send, Refuse,
         SendFails, SendTimesOut, Finish, FinishFails, Release, ReleaseFails,
         OnError, Ack
<1>2. execAlert[x] \in Alerts /\ status[execAlert[x]] # "none"
  BY <1>1 DEF TypeOK, BornInv
<1>3. CASE Committing(x)
  <2>1. Verdict(execPc[x]) # "none"
    BY <1>3, CommittingEffect DEF Deciding, Verdict
  <2> QED BY <1>1, <1>2, <1>3, <2>1, CommittingEffect DEF TypeOK
<1>4. CASE Handling(x)
  <2>1. UNCHANGED <<event, status>>
    BY <1>4 DEF Handling, Acquire, Ignore, AcquireFails, Load, Send, Refuse,
                SendFails, SendTimesOut, Finish, FinishFails, Release,
                ReleaseFails, OnError, Ack
  <2>2. holds' \in {holds, [holds EXCEPT ![x] = FALSE]}
    BY <1>4 DEF Handling, Acquire, Ignore, AcquireFails, Load, Send, Refuse,
                SendFails, SendTimesOut, Finish, FinishFails, Release,
                ReleaseFails, OnError, Ack
  <2> QED BY <1>1, <1>2, <2>1, <2>2
<1> QED BY StepKinds, <1>3, <1>4

\* Nothing that an execution does puts a message in the queue.
LEMMA ExecutionQueue ==
  ASSUME TypeOK, NEW x \in Executions, ExecutionStep(x)
  PROVE  queue' = queue
BY StepKinds, CommittingEffect
   DEF Handling, Acquire, Ignore, AcquireFails, Load, Send, Refuse, SendFails,
       SendTimesOut, Finish, FinishFails, Release, ReleaseFails, OnError, Ack

LEMMA ExecutionKeepsBorn ==
  ASSUME TypeOK, BornInv, NEW x \in Executions, ExecutionStep(x)
  PROVE  BornInv'
<1>1. \A a \in Alerts : status'[a] = "none" => status[a] = "none"
  BY ExecutionIsOnARow
<1>2. \A a \in Alerts : event'[a] # "none" => status'[a] # "none"
  BY <1>1, ExecutionIsOnARow DEF BornInv
<1>3. \A y \in Executions :
        execPc'[y] # "idle" \/ holds'[y] => status'[execAlert'[y]] # "none"
  <2> SUFFICES ASSUME NEW y \in Executions, execPc'[y] # "idle" \/ holds'[y]
               PROVE  status'[execAlert'[y]] # "none"
    OBVIOUS
  <2>1. execPc[y] # "idle" \/ holds[y]
    BY ExecutionIsOnARow, ExecutionIsInside DEF TypeOK
  <2>2. execAlert[y] \in Alerts /\ status[execAlert[y]] # "none"
    BY <2>1 DEF BornInv, TypeOK
  <2> QED BY <1>1, <2>2, ExecutionIsInside
<1>4. \A a \in Alerts : queue'[a] # 0 => status'[a] # "none"
  BY <1>1, ExecutionQueue DEF BornInv
<1> QED BY <1>2, <1>3, <1>4 DEF BornInv

LEMMA BornIsInvariant == Spec => []BornInv
<1>1. Init => BornInv
  BY DEF Init, BornInv
<1>2. TypeOK /\ BornInv /\ [Next]_vars => BornInv'
  BY EnvironmentKeepsBorn, ExecutionKeepsBorn DEF Next, Environment
<1> QED BY <1>1, <1>2, DeliveryTypeCorrect, PTL DEF Spec

\* Outside the executions, rows are created and deleted.
LEMMA EnvironmentRefines ==
  ASSUME TypeOK, Environment
  PROVE  [Lifecycle!Next]_Lifecycle!vars
<1> USE DEF Lifecycle!vars, historyVars
<1>1. CASE UNCHANGED deliveryVars \/ UNCHANGED vars
  BY <1>1 DEF deliveryVars, vars
<1>2. CASE Publisher
  <2>1. PICK a \in Alerts :
          CreateAlert(a) \/ Publish(a) \/ PublishFails(a) \/ DeleteAlert(a)
    BY <1>2 DEF Publisher
  <2>2. CASE CreateAlert(a)
    <3>1. Lifecycle!Create(a)
      BY <2>2 DEF CreateAlert, Lifecycle!Create
    <3> QED BY <3>1 DEF Lifecycle!Next
  <2>3. CASE DeleteAlert(a)
    <3>1. Lifecycle!Delete(a)
      BY <2>3 DEF DeleteAlert, Lifecycle!Delete
    <3> QED BY <3>1 DEF Lifecycle!Next
  <2>4. CASE Publish(a) \/ PublishFails(a)
    BY <2>4 DEF Publish, PublishFails
  <2> QED BY <2>1, <2>2, <2>3, <2>4
<1>3. CASE Broker
  BY <1>3 DEF Broker, Receive, Crash, ConnectionLost
<1> QED BY <1>1, <1>2, <1>3 DEF Environment

\* A send delivers, a commit settles, a lost answer is a doubt, and the other
\* steps of an execution show neither in the row nor in the chat.
LEMMA ExecutionRefines ==
  ASSUME TypeOK, BornInv, OutcomeInv, NEW x \in Executions, ExecutionStep(x)
  PROVE  [Lifecycle!Next]_Lifecycle!vars
<1> DEFINE a == execAlert[x]
<1>1. a \in Alerts /\ status[a] # "none"
  BY ExecutionIsOnARow
<1>2. /\ execPc[x] = "delivered" => sends[a] > 0
      /\ \/ a \in doubt
         \/ /\ execPc[x] \in {"send", "skip", "refused"} => Untold(a)
            /\ execPc[x] = "delivered" =>
                 status[a] \in {"none", "pending", "gone"}
  BY <1>1 DEF OutcomeInv, OutcomeOf, Knows
<1>3. CASE Send(x) \/ SendTimesOut(x)
  <2>1. /\ execPc[x] = "send"
        /\ sends' = [sends EXCEPT ![a] = @ + 1]
        /\ doubt' \in {doubt, doubt \cup {a}}
        /\ UNCHANGED status
    BY <1>3 DEF Send, SendTimesOut, Arrive, ExecStep, InDoubt
  <2>2. \/ status[a] \in {"pending", "gone"} /\ sends[a] = 0
        \/ a \in doubt
    BY <1>1, <1>2, <2>1 DEF Untold
  <2>3. Lifecycle!Deliver(a)
    BY <2>1, <2>2 DEF Lifecycle!Deliver
  <2> QED BY <1>1, <2>3 DEF Lifecycle!Next
<1>4. CASE Committing(x)
  <2> DEFINE s == Verdict(execPc[x])
  <2>1. /\ s \in {"sent", "failed", "skipped"}
        /\ s = "sent" <=> execPc[x] = "delivered"
        /\ s # "sent" => execPc[x] \in {"skip", "refused"}
    BY <1>4, CommittingEffect DEF Deciding, Verdict
  <2>2. ASSUME status[a] # "gone", status' = [status EXCEPT ![a] = s],
               doubt' \in {doubt, doubt \cup {a}}, sends' = sends
        PROVE  Lifecycle!Settle(a, s)
    <3>1. \/ status[a] = "pending"
          \/ a \in doubt /\ status[a] \notin {"none", "gone"}
      BY <1>1, <1>2, <2>1, <2>2 DEF Untold
    <3>2. IF s = "sent" THEN sends[a] > 0 ELSE sends[a] = 0 \/ a \in doubt
      BY <1>2, <2>1 DEF Untold
    <3> QED BY <2>2, <3>1, <3>2 DEF Lifecycle!Settle
  <2>3. doubt' = doubt \cup {a} /\ UNCHANGED <<status, sends>>
        => Lifecycle!Doubt(a)
    BY <1>1 DEF Lifecycle!Doubt
  <2>4. \/ Lifecycle!Settle(a, s)
        \/ Lifecycle!Doubt(a)
        \/ UNCHANGED Lifecycle!vars
    BY <1>4, <2>2, <2>3, CommittingEffect DEF Lifecycle!vars
  <2> QED BY <1>1, <2>1, <2>4 DEF Lifecycle!Next
<1>6. CASE FinishFails(x)
  <2>1. Lifecycle!Doubt(a)
    BY <1>1, <1>6 DEF FinishFails, InDoubt, Lifecycle!Doubt
  <2> QED BY <1>1, <2>1 DEF Lifecycle!Next
<1>7. CASE \/ Acquire(x) \/ Ignore(x) \/ AcquireFails(x) \/ Load(x)
           \/ Refuse(x) \/ SendFails(x) \/ Finish(x) \/ Release(x)
           \/ ReleaseFails(x) \/ OnError(x) \/ Ack(x)
  BY <1>7 DEF Acquire, Ignore, AcquireFails, Load, Refuse, SendFails, Finish,
              Release, ReleaseFails, OnError, Ack, historyVars, Lifecycle!vars
<1> QED BY StepKinds, <1>3, <1>4, <1>6, <1>7 DEF Handling

\* process_and_send_alert, idempotent_event and the broker together: an alert and its messages go through the lifecycle of
\* AlertLifecycle, whatever fails.
THEOREM DeliveryRefinesLifecycle == Spec => ImplementsLifecycle
<1>1. Init => Lifecycle!Init
  BY DEF Init, Lifecycle!Init
<1>2. TypeOK /\ BornInv /\ OutcomeInv /\ [Next]_vars
      => [Lifecycle!Next]_Lifecycle!vars
  BY EnvironmentRefines, ExecutionRefines DEF Next, Environment
<1> QED BY <1>1, <1>2, DeliveryTypeCorrect, BornIsInvariant,
           OutcomeIsInvariant, PTL
        DEF Spec, ImplementsLifecycle, Lifecycle!Spec

-----------------------------------------------------------------------------
(* Linking, with a delivery that clears the chat of a user who refused *)

LEMMA LinkSteps ==
  ASSUME TypeOK, [Next]_vars
  PROVE  \/ [LinkNext]_linkVars
         \/ \E x \in Executions : execAlert[x] \in Alerts /\ ClearChat(x)
BY StepKinds, CommittingEffect
   DEF Next, vars, Publisher, Broker, Handling, linkVars

\* start_handler: of all messages that carry a token, one redeems it.
THEOREM TokensAreSpent == Spec => []TokenRedeemedOnce
<1>1. Init => TokenInv
  BY TokenInit DEF Init
<1>2. TypeOK /\ TokenInv /\ [Next]_vars => TokenInv'
  <2>1. ASSUME TokenInv, NEW x \in Executions, ClearChat(x) PROVE TokenInv'
    BY <2>1 DEF ClearChat, TokenInv
  <2> QED BY <2>1, LinkSteps, TokenStep DEF TypeOK
<1>3. TokenInv => TokenRedeemedOnce
  BY DEF TokenInv, TokenRedeemedOnce
<1> QED BY <1>1, <1>2, <1>3, DeliveryTypeCorrect, PTL DEF Spec

\* users.telegram_chat_id: two users never have the same chat, while messages
\* link chats and refusals clear them.
THEOREM ChatsAreUnique == Spec => []ChatIsUnique
<1>1. Init => ChatIsUnique
  BY ChatInit DEF Init
<1>2. TypeOK /\ ChatIsUnique /\ [Next]_vars => ChatIsUnique'
  <2>1. ASSUME TypeOK, ChatIsUnique, NEW x \in Executions,
               execAlert[x] \in Alerts, ClearChat(x)
        PROVE  ChatIsUnique'
    BY <2>1, OwnerAssumption DEF ClearChat, ChatIsUnique, TypeOK, LinkTypeOK
  <2> QED BY <2>1, LinkSteps, ChatStep DEF TypeOK
<1> QED BY <1>1, <1>2, DeliveryTypeCorrect, PTL DEF Spec
=============================================================================
