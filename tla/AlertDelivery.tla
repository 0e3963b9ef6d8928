---------------------------- MODULE AlertDelivery ----------------------------
(***************************************************************************)
(* The way of an alert from the commit that creates it to Telegram: the    *)
(* event dispatcher publishes AlertCreatedEvent after the commit, workers  *)
(* receive it at least once from RabbitMQ, idempotent_event lets one       *)
(* execution at a time process it, and process_and_send_alert sends the    *)
(* message and writes the status.  It shares users.telegram_chat_id with   *)
(* TelegramLink.                                                           *)
(*                                                                         *)
(* Executions are slots of the worker: idle, or at work on one message.    *)
(* The 24-hour TTL of the idempotency key is not modelled: no message is   *)
(* redelivered for that long.  A command or a commit that fails may have   *)
(* been applied, only its answer lost.                                     *)
(***************************************************************************)
EXTENDS TelegramLink

CONSTANTS
  Alerts,     \* alert rows, each with the id of its event
  Owner,      \* the user an alert is for
  Executions,
  Faults,     \* which of DeliveryFaults can happen
  MaxFaults   \* how many of them can

DeliveryFaults ==
  { "publish",     \* the process stops, or publish() raises, after the commit
    "telegram",    \* flood control or a network error: nothing is delivered
    "timeout",     \* the message is delivered, the answer is lost
    "database",    \* a commit fails
    "redis",       \* a command on the idempotency key fails
    "crash",       \* a worker stops
    "connection"   \* RabbitMQ redelivers a message that is being processed
  }

ASSUME OwnerAssumption == Owner \in [Alerts -> Users]
ASSUME DeliveryFaultsAssumption == Faults \subseteq DeliveryFaults
ASSUME KeyNoneAssumption == None \notin {"processing", "completed"}
ASSUME MaxFaultsAssumption == MaxFaults \in Nat

VARIABLES
  status,     \* "none", "pending", "sent", "failed", "skipped" or "gone"
  event,      \* "none", "extracted", "published" or "lost"
  queue,      \* copies of the message in RabbitMQ, by alert
  key,        \* Redis: processed_event:<event_id>
  execPc, execAlert,
  holds,      \* the execution still has the unacknowledged message
  seenChat,   \* the chat id the execution loaded
  faults,     \* faults so far
  \* history, read by properties only:
  sends,      \* messages that arrived in Telegram for the alert
  doubt,      \* alerts with a send or a commit whose outcome was not known
  dropped     \* alerts whose message was consumed by a failed execution

historyVars == <<sends, doubt, dropped>>
deliveryVars == <<status, event, queue, key, execPc, execAlert, holds,
                  seenChat, faults, historyVars>>
vars == <<linkVars, deliveryVars>>

Init ==
  /\ LinkInit
  /\ status = [a \in Alerts |-> "none"]
  /\ event = [a \in Alerts |-> "none"]
  /\ queue = [a \in Alerts |-> 0]
  /\ key = [a \in Alerts |-> None]
  /\ execPc = [x \in Executions |-> "idle"]
  /\ execAlert = [x \in Executions |-> None]
  /\ holds = [x \in Executions |-> FALSE]
  /\ seenChat = [x \in Executions |-> None]
  /\ faults = 0
  /\ sends = [a \in Alerts |-> 0]
  /\ doubt = {}
  /\ dropped = {}

\* Where the wrapped task has the idempotency key.
Processing ==
  {"load", "skip", "send", "delivered", "refused", "finish", "raise"}
Working == Processing \cup {"received", "failed", "ack"}

TypeOK ==
  /\ LinkTypeOK
  /\ status \in
       [Alerts -> {"none", "pending", "sent", "failed", "skipped", "gone"}]
  /\ event \in [Alerts -> {"none", "extracted", "published", "lost"}]
  /\ queue \in [Alerts -> Nat]
  /\ key \in [Alerts -> {None, "processing", "completed"}]
  /\ execPc \in [Executions -> Working \cup {"idle"}]
  /\ execAlert \in [Executions -> Alerts \cup {None}]
  /\ holds \in [Executions -> BOOLEAN]
  /\ seenChat \in [Executions -> Chats \cup {None}]
  /\ faults \in 0 .. MaxFaults
  /\ sends \in [Alerts -> Nat]
  /\ doubt \subseteq Alerts
  /\ dropped \subseteq Alerts
  /\ \A x \in Executions :
       execPc[x] # "idle" \/ holds[x] => execAlert[x] \in Alerts

Fault(f) ==
  /\ f \in Faults
  /\ faults < MaxFaults
  /\ faults' = faults + 1

ExecStep(x, from, to) ==
  /\ execPc[x] = from
  /\ execPc' = [execPc EXCEPT ![x] = to]

\* What execution x did may or may not have happened.
InDoubt(x) == doubt' = doubt \cup {execAlert[x]}

Put(a) == queue' = [queue EXCEPT ![a] = @ + 1]

-----------------------------------------------------------------------------
(* The publisher *)

\* The INSERT commits; its event is in the memory of the process only.
CreateAlert(a) ==
  /\ status[a] = "none"
  /\ status' = [status EXCEPT ![a] = "pending"]
  /\ event' = [event EXCEPT ![a] = "extracted"]
  /\ UNCHANGED <<queue, key, execPc, execAlert, holds, seenChat, faults,
                 historyVars>>

Publish(a) ==
  /\ event[a] = "extracted"
  /\ event' = [event EXCEPT ![a] = "published"]
  /\ Put(a)
  /\ UNCHANGED <<status, key, execPc, execAlert, holds, seenChat, faults,
                 historyVars>>

\* The error is logged, or the process is gone: nothing publishes it later.
PublishFails(a) ==
  /\ event[a] = "extracted"
  /\ event' = [event EXCEPT ![a] = "lost"]
  /\ Fault("publish")
  /\ UNCHANGED <<status, queue, key, execPc, execAlert, holds, seenChat,
                 historyVars>>

\* The subscription is deleted, and its alerts with it.
DeleteAlert(a) ==
  /\ status[a] \notin {"none", "gone"}
  /\ status' = [status EXCEPT ![a] = "gone"]
  /\ UNCHANGED <<event, queue, key, execPc, execAlert, holds, seenChat, faults,
                 historyVars>>

-----------------------------------------------------------------------------
(* The broker and the idempotency key *)

Receive(x, a) ==
  /\ ExecStep(x, "idle", "received")
  /\ queue[a] > 0
  /\ queue' = [queue EXCEPT ![a] = @ - 1]
  /\ execAlert' = [execAlert EXCEPT ![x] = a]
  /\ holds' = [holds EXCEPT ![x] = TRUE]
  /\ UNCHANGED <<status, event, key, seenChat, faults, historyVars>>

\* Mutant of Acquirable: SET without nx.
Acquirable_always(a) == key[a] # "completed"

Acquirable(a) == key[a] = None

Acquire(x) ==
  /\ ExecStep(x, "received", "load")
  /\ Acquirable(execAlert[x])
  /\ key' = [key EXCEPT ![execAlert[x]] = "processing"]
  /\ UNCHANGED <<status, event, queue, execAlert, holds, seenChat, faults,
                 historyVars>>

\* "Duplicate event ignored": the task returns as if it had succeeded.
Ignore(x) ==
  /\ ExecStep(x, "received", "ack")
  /\ ~Acquirable(execAlert[x])
  /\ UNCHANGED <<status, event, queue, key, execAlert, holds, seenChat, faults,
                 historyVars>>

\* SET NX is outside of the wrapper's try: a key it set all the same stays.
AcquireFails(x) ==
  /\ ExecStep(x, "received", "failed")
  /\ Fault("redis")
  /\ \/ UNCHANGED key
     \/ /\ Acquirable(execAlert[x])
        /\ key' = [key EXCEPT ![execAlert[x]] = "processing"]
  /\ UNCHANGED <<status, event, queue, execAlert, holds, seenChat,
                 historyVars>>

\* Mutant of Finish: the key is released, not marked.
Finish_released(x) ==
  /\ ExecStep(x, "finish", "ack")
  /\ key' = [key EXCEPT ![execAlert[x]] = None]
  /\ UNCHANGED <<status, event, queue, execAlert, holds, seenChat, faults,
                 historyVars>>

Finish(x) ==
  /\ ExecStep(x, "finish", "ack")
  /\ key' = [key EXCEPT ![execAlert[x]] = "completed"]
  /\ UNCHANGED <<status, event, queue, execAlert, holds, seenChat, faults,
                 historyVars>>

FinishFails(x) ==
  /\ ExecStep(x, "finish", "raise")
  /\ Fault("redis")
  /\ InDoubt(x)
  /\ \E k \in {"processing", "completed"} :
       key' = [key EXCEPT ![execAlert[x]] = k]
  /\ UNCHANGED <<status, event, queue, execAlert, holds, seenChat, sends,
                 dropped>>

\* Mutant of Release: the key is marked.
Release_marked(x) ==
  /\ ExecStep(x, "raise", "failed")
  /\ key' = [key EXCEPT ![execAlert[x]] = "failed"]
  /\ UNCHANGED <<status, event, queue, execAlert, holds, seenChat, faults,
                 historyVars>>

\* The exception handler deletes the key and raises again.
Release(x) ==
  /\ ExecStep(x, "raise", "failed")
  /\ key' = [key EXCEPT ![execAlert[x]] = None]
  /\ UNCHANGED <<status, event, queue, execAlert, holds, seenChat, faults,
                 historyVars>>

\* The error of the DELETE is logged; the key may be gone all the same.
ReleaseFails(x) ==
  /\ ExecStep(x, "raise", "failed")
  /\ Fault("redis")
  /\ key' \in {key, [key EXCEPT ![execAlert[x]] = None]}
  /\ UNCHANGED <<status, event, queue, execAlert, holds, seenChat,
                 historyVars>>

\* SimpleRetryMiddleware.on_error: the message carries no retry_on_error label,
\* since the publisher kicks it with labels={}, so it is not sent again.
OnError(x) ==
  /\ ExecStep(x, "failed", "ack")
  /\ dropped' = dropped \cup {execAlert[x]}
  /\ UNCHANGED <<status, event, queue, key, execAlert, holds, seenChat, faults,
                 sends, doubt>>

Ack(x) ==
  /\ ExecStep(x, "ack", "idle")
  /\ holds' = [holds EXCEPT ![x] = FALSE]
  /\ seenChat' = [seenChat EXCEPT ![x] = None]
  /\ UNCHANGED <<status, event, queue, key, execAlert, faults, historyVars>>

Requeue(x) ==
  /\ holds' = [holds EXCEPT ![x] = FALSE]
  /\ IF holds[x] THEN Put(execAlert[x]) ELSE UNCHANGED queue

\* The worker stops: what it did not acknowledge is delivered again.
Crash(x) ==
  /\ execPc[x] # "idle"
  /\ execPc' = [execPc EXCEPT ![x] = "idle"]
  /\ seenChat' = [seenChat EXCEPT ![x] = None]
  /\ Requeue(x)
  /\ Fault("crash")
  /\ UNCHANGED <<status, event, key, execAlert, historyVars>>

\* The channel closes: RabbitMQ delivers again what is still being processed.
ConnectionLost(x) ==
  /\ holds[x]
  /\ Requeue(x)
  /\ Fault("connection")
  /\ UNCHANGED <<status, event, key, execPc, execAlert, seenChat, historyVars>>

-----------------------------------------------------------------------------
(* process_and_send_alert *)

\* Mutant of Load: a user without a chat is left alone.
Load_unmarked(x) ==
  LET a == execAlert[x]
  IN  /\ ExecStep(x, "load", IF status[a] = "gone" \/ chat[Owner[a]] = None
                             THEN "finish" ELSE "send")
      /\ seenChat' = [seenChat EXCEPT ![x] = chat[Owner[a]]]
      /\ UNCHANGED <<status, event, queue, key, execAlert, holds, faults,
                     historyVars>>

\* The user and the alert are loaded.
Load(x) ==
  LET a == execAlert[x]
  IN  /\ ExecStep(x, "load", IF status[a] = "gone" THEN "finish"
                             ELSE IF chat[Owner[a]] = None THEN "skip"
                             ELSE "send")
      /\ seenChat' = [seenChat EXCEPT ![x] = chat[Owner[a]]]
      /\ UNCHANGED <<status, event, queue, key, execAlert, holds, faults,
                     historyVars>>

Arrive(x) == sends' = [sends EXCEPT ![execAlert[x]] = @ + 1]

\* The photo, or the text where there is no photo or it is rejected.
Send(x) ==
  /\ ExecStep(x, "send", "delivered")
  /\ seenChat[x] \notin blocked
  /\ Arrive(x)
  /\ UNCHANGED <<status, event, queue, key, execAlert, holds, seenChat, faults,
                 doubt, dropped>>

\* TelegramForbiddenError from a chat that blocked the bot, the only answer it
\* gives then, or TelegramBadRequest, which any message can meet.
Refuse(x) ==
  /\ ExecStep(x, "send", "refused")
  /\ UNCHANGED <<status, event, queue, key, execAlert, holds, seenChat, faults,
                 historyVars>>

\* Mutant of SendFails: flood control is logged and not raised.
SendFails_swallowed(x) ==
  /\ ExecStep(x, "send", "delivered")
  /\ Fault("telegram")
  /\ UNCHANGED <<status, event, queue, key, execAlert, holds, seenChat,
                 historyVars>>

SendFails(x) ==
  /\ ExecStep(x, "send", "raise")
  /\ Fault("telegram")
  /\ UNCHANGED <<status, event, queue, key, execAlert, holds, seenChat,
                 historyVars>>

SendTimesOut(x) ==
  /\ ExecStep(x, "send", "raise")
  /\ seenChat[x] \notin blocked
  /\ Arrive(x)
  /\ Fault("timeout")
  /\ InDoubt(x)
  /\ UNCHANGED <<status, event, queue, key, execAlert, holds, seenChat,
                 dropped>>

\* Mutant of Written: the row is written whether it is there or not.
Written_upsert(x, s) == status' = [status EXCEPT ![execAlert[x]] = s]

\* An UPDATE of the alert that is there to be updated.
Written(x, s) ==
  /\ status[execAlert[x]] # "gone"
  /\ status' = [status EXCEPT ![execAlert[x]] = s]

\* The chat id is cleared with the status FAILED, whatever it is by now.
ClearChat(x) ==
  /\ chat' = [chat EXCEPT ![Owner[execAlert[x]]] = None]
  /\ UNCHANGED <<blocked, issued, tokenUser, startPc, startUser, startChat,
                 redeemed>>

\* Where an execution writes which status, and what its transaction writes.
Deciding == {"skip", "delivered", "refused"}

Verdict(pc) == CASE pc = "skip" -> "skipped"
                 [] pc = "delivered" -> "sent"
                 [] pc = "refused" -> "failed"

Settles(x, pc) ==
  /\ Written(x, Verdict(pc))
  /\ IF pc = "refused" THEN ClearChat(x) ELSE UNCHANGED linkVars

Commit(x, pc) ==
  /\ ExecStep(x, pc, "finish")
  /\ Settles(x, pc)
  /\ UNCHANGED <<event, queue, key, execAlert, holds, seenChat, faults,
                 historyVars>>

\* Mutant of CommitFails: the exception is swallowed.
CommitFails_swallowed(x, pc) ==
  /\ ExecStep(x, pc, "finish")
  /\ Fault("database")
  /\ InDoubt(x)
  /\ Settles(x, pc) \/ UNCHANGED <<status, linkVars>>
  /\ UNCHANGED <<event, queue, key, execAlert, holds, seenChat, sends,
                 dropped>>

\* The database fails, or its answer is lost.
CommitFails(x, pc) ==
  /\ ExecStep(x, pc, "raise")
  /\ Fault("database")
  /\ InDoubt(x)
  /\ Settles(x, pc) \/ UNCHANGED <<status, linkVars>>
  /\ UNCHANGED <<event, queue, key, execAlert, holds, seenChat, sends,
                 dropped>>

\* The alert was deleted since it was loaded: the UPDATE finds no row.
CommitDeleted(x, pc) ==
  /\ ExecStep(x, pc, "raise")
  /\ status[execAlert[x]] = "gone"
  /\ UNCHANGED <<linkVars, status, event, queue, key, execAlert, holds,
                 seenChat, faults, historyVars>>

-----------------------------------------------------------------------------
Publisher ==
  /\ \E a \in Alerts :
       CreateAlert(a) \/ Publish(a) \/ PublishFails(a) \/ DeleteAlert(a)
  /\ UNCHANGED linkVars

ExecutionStep(x) ==
  \/ \E pc \in Deciding :
       Commit(x, pc) \/ CommitFails(x, pc) \/ CommitDeleted(x, pc)
  \/ /\ \/ Acquire(x) \/ Ignore(x) \/ AcquireFails(x) \/ Load(x)
        \/ Send(x) \/ Refuse(x) \/ SendFails(x) \/ SendTimesOut(x)
        \/ Finish(x) \/ FinishFails(x) \/ Release(x) \/ ReleaseFails(x)
        \/ OnError(x) \/ Ack(x)
     /\ UNCHANGED linkVars

Broker ==
  /\ \E x \in Executions :
       \/ \E a \in Alerts : Receive(x, a)
       \/ Crash(x) \/ ConnectionLost(x)
  /\ UNCHANGED linkVars

Next ==
  \/ LinkNext /\ UNCHANGED deliveryVars
  \/ Publisher
  \/ Broker
  \/ \E x \in Executions : ExecutionStep(x)

Spec == Init /\ [][Next]_vars

-----------------------------------------------------------------------------
(* Safety *)

\* The idempotency key is a mutex: no two executions process the same event at
\* the same time, whatever is redelivered and whoever stops.
OneExecutionPerEvent ==
  \A x, y \in Executions :
    /\ {execPc[x], execPc[y]} \subseteq Processing
    /\ execAlert[x] = execAlert[y]
    => x = y

\* An event whose key says "completed" is ignored from then on, so its alert
\* must have its final status by then.
CompletedIsFinal ==
  \A a \in Alerts :
    key[a] = "completed" => status[a] \in {"sent", "failed", "skipped", "gone"}

\* The user gets one message per alert, unless the answer to a send, its commit
\* or the marking of its key failed.  Crashes, redeliveries, floods and lost
\* publications do not break it.
AtMostOneMessage == \A a \in Alerts \ doubt : sends[a] <= 1

\* A sent alert was delivered, whatever failed; one that failed or was skipped
\* was not, unless something on its way was in doubt.
StatusIsTruthful ==
  \A a \in Alerts :
    /\ status[a] = "sent" => sends[a] > 0
    /\ status[a] \in {"failed", "skipped"} => sends[a] = 0 \/ a \in doubt

-----------------------------------------------------------------------------
(* Liveness *)

\* Publishers, workers and the broker keep running.
Fairness ==
  /\ \A a \in Alerts : WF_vars(Publish(a) /\ UNCHANGED linkVars)
  /\ \A x \in Executions : WF_vars(ExecutionStep(x))
  /\ \A a \in Alerts :
       WF_vars((\E x \in Executions : Receive(x, a)) /\ UNCHANGED linkVars)

FairSpec == Spec /\ Fairness

\* Nobody processes the event, and its key keeps everybody else away.
Abandoned(a) ==
  /\ key[a] = "processing"
  /\ \A x \in Executions : execAlert[x] = a => execPc[x] \notin Processing

\* Every alert leaves PENDING, whatever is redelivered and whoever works on it
\* at the same time, unless its event was never published, the key of the
\* event was left behind by a worker that stopped or could not reach Redis, or
\* an execution failed and consumed the message with it.
AlertIsResolved ==
  \A a \in Alerts : status[a] = "pending" ~>
    \/ status[a] # "pending"
    \/ event[a] = "lost"
    \/ Abandoned(a)
    \/ a \in dropped

\* "Rate-limited: re-raise to trigger retry policy": an alert that meets flood
\* control once is sent later.
RateLimitedIsRetried ==
  \A a \in Alerts, x \in Executions :
    ( execPc[x] = "raise" /\ execAlert[x] = a /\ status[a] = "pending" )
    ~> status[a] # "pending"

-----------------------------------------------------------------------------
(* Refinement *)

Lifecycle ==
  INSTANCE AlertLifecycle
    WITH Alerts <- Alerts, status <- status, sends <- sends, doubt <- doubt

\* The row of an alert and the messages sent for it go through the lifecycle
\* of AlertLifecycle: one message unless in doubt, a status written once,
\* after the message it reports, and never for a deleted row.
ImplementsLifecycle == Lifecycle!Spec
=============================================================================
