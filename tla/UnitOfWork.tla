------------------------------ MODULE UnitOfWork ------------------------------
(***************************************************************************)
(* One database session as get_db and db_transaction hand it out, and the  *)
(* domain events recorded on its objects: collected before a flush and     *)
(* before a commit, published after the commit that ends the session, or   *)
(* never.  Sessions share nothing, so one is enough.                       *)
(*                                                                         *)
(* An event stands for the new row it is recorded on as well.  The list    *)
(* _events_to_publish is a bag: nothing depends on its order.              *)
(***************************************************************************)
EXTENDS Naturals

CONSTANTS
  Events,  \* each with the row that it is recorded on
  Faults   \* which of UnitFaults can happen

UnitFaults ==
  { "flush",    \* an INSERT fails
    "commit",   \* a commit fails
    "answer",   \* a commit succeeds, its answer is lost
    "handler",  \* the handler raises between two database calls
    "publish",  \* RabbitMQ does not take an event
    "crash"     \* the process stops
  }

ASSUME UnitFaultsAssumption == Faults \subseteq UnitFaults

VARIABLES
  pc,         \* "run" (the handler), "exit", "publish", "raise" or "closed"
  recording,  \* the handler records events; the others may swallow exceptions
  isActive,   \* session.is_active
  fresh,      \* new objects in the session that were not flushed
  recorded,   \* events on objects of the session
  collected,  \* session._events_to_publish, how often each event is in it
  rows,       \* rows of the transaction that is open
  committed,  \* rows that other sessions see
  published,  \* how often an event was given to RabbitMQ
  \* history, read by properties only:
  forsaken    \* committed rows whose event is lost by a fault

vars == <<pc, recording, isActive, fresh, recorded, collected, rows, committed,
          published, forsaken>>

Init ==
  /\ pc = "run"
  /\ recording \in BOOLEAN
  /\ isActive = TRUE
  /\ fresh = {}
  /\ recorded = {}
  /\ collected = [e \in Events |-> 0]
  /\ rows = {}
  /\ committed = {}
  /\ published = [e \in Events |-> 0]
  /\ forsaken = {}

TypeOK ==
  /\ pc \in {"run", "exit", "publish", "raise", "closed"}
  /\ recording \in BOOLEAN
  /\ isActive \in BOOLEAN
  /\ fresh \subseteq Events
  /\ recorded \subseteq Events
  /\ collected \in [Events -> Nat]
  /\ rows \subseteq Events
  /\ committed \subseteq Events
  /\ published \in [Events -> Nat]
  /\ forsaken \subseteq Events

Step(from, to) == pc = from /\ pc' = to

-----------------------------------------------------------------------------
(* The session *)

\* create() of a repository: the event is recorded, the object added.
Record(e) ==
  /\ pc = "run"
  /\ recording
  /\ e \notin fresh \cup rows \cup committed
  /\ fresh' = fresh \cup {e}
  /\ recorded' = recorded \cup {e}
  /\ UNCHANGED <<pc, recording, isActive, collected, rows, committed,
                 published, forsaken>>

\* collect_events() takes the events off the objects.
Taken == [e \in Events |-> IF e \in recorded THEN 1 ELSE 0]

\* Mutant of Extract: the list is copied and not cleared.
Extract_kept ==
  /\ collected' = [e \in Events |-> 2 * collected[e] + Taken[e]]
  /\ recorded' = {}

\* The listener of before_flush.  extract_events, whose result extends the
\* list that it has emptied, comes to the same.
Extract ==
  /\ collected' = [e \in Events |-> collected[e] + Taken[e]]
  /\ recorded' = {}

Flush ==
  /\ Step("run", "run")
  /\ isActive
  /\ fresh # {}
  /\ Extract
  /\ rows' = rows \cup fresh
  /\ fresh' = {}
  /\ UNCHANGED <<recording, isActive, committed, published, forsaken>>

\* The transaction is rolled back and the session unusable.
FlushFails ==
  /\ "flush" \in Faults
  /\ fresh # {}
  /\ Step("run", "raise")
  /\ Extract
  /\ rows' = {}
  /\ fresh' = {}
  /\ isActive' = FALSE
  /\ forsaken' = forsaken \cup committed
  /\ UNCHANGED <<recording, committed, published>>

\* A failed flush that the loop of the poll catches: its rows have no events.
FlushSwallowed ==
  /\ "flush" \in Faults
  /\ ~recording
  /\ Step("run", "run")
  /\ isActive' = FALSE
  /\ UNCHANGED <<recording, fresh, recorded, collected, rows, committed,
                 published, forsaken>>

\* intercept_commit: extraction, the flush of the commit, COMMIT.
Commit ==
  /\ isActive
  /\ Extract
  /\ committed' = committed \cup rows \cup fresh
  /\ rows' = {}
  /\ fresh' = {}
  /\ UNCHANGED <<recording, isActive, published>>

HandlerCommits == Step("run", "run") /\ Commit /\ UNCHANGED forsaken

CommitFails(from) ==
  /\ "commit" \in Faults
  /\ Step(from, "raise")
  /\ isActive
  /\ Extract
  /\ rows' = {}
  /\ fresh' = {}
  /\ forsaken' = forsaken \cup committed
  /\ UNCHANGED <<recording, isActive, committed, published>>

CommitAnswerLost(from) ==
  /\ "answer" \in Faults
  /\ Step(from, "raise")
  /\ Commit
  /\ forsaken' = forsaken \cup committed'

-----------------------------------------------------------------------------
(* get_db and db_transaction after the yield *)

HandlerReturns ==
  /\ Step("run", "exit")
  /\ UNCHANGED <<recording, isActive, fresh, recorded, collected, rows,
                 committed, published, forsaken>>

\* Whatever the handler has committed itself stays, and its events are lost.
HandlerRaises ==
  /\ "handler" \in Faults
  /\ Step("run", "raise")
  /\ forsaken' = forsaken \cup committed
  /\ UNCHANGED <<recording, isActive, fresh, recorded, collected, rows,
                 committed, published>>

\* Mutant of ExitCommit: the handler is trusted to have committed.
ExitCommit_skipped ==
  /\ Step("exit", "publish")
  /\ Extract
  /\ UNCHANGED <<recording, isActive, fresh, rows, committed, published,
                 forsaken>>

ExitCommit == Step("exit", "publish") /\ Commit /\ UNCHANGED forsaken

\* The session is not active: no commit.
ExitInactive ==
  /\ Step("exit", "publish")
  /\ ~isActive
  /\ Extract
  /\ UNCHANGED <<recording, isActive, fresh, rows, committed, published,
                 forsaken>>

\* Mutant of PublishEvent: whatever was ever recorded is published.
PublishEvent_any(e) ==
  /\ Step("publish", "publish")
  /\ collected' = [collected EXCEPT ![e] = @ - 1]
  /\ published' = [published EXCEPT ![e] = @ + 1]
  /\ UNCHANGED <<recording, isActive, fresh, recorded, rows, committed,
                 forsaken>>

PublishEvent(e) ==
  /\ Step("publish", "publish")
  /\ collected[e] > 0
  /\ collected' = [collected EXCEPT ![e] = @ - 1]
  /\ published' = [published EXCEPT ![e] = @ + 1]
  /\ UNCHANGED <<recording, isActive, fresh, recorded, rows, committed,
                 forsaken>>

\* Mutant of PublishFails: the error is not isolated.
PublishFails_raised(e) ==
  /\ "publish" \in Faults
  /\ Step("publish", "raise")
  /\ collected[e] > 0
  /\ forsaken' = forsaken \cup {e}
  /\ UNCHANGED <<recording, isActive, fresh, recorded, collected, rows,
                 committed, published>>

\* The error is logged, and the next event published.
PublishFails(e) ==
  /\ "publish" \in Faults
  /\ Step("publish", "publish")
  /\ collected[e] > 0
  /\ collected' = [collected EXCEPT ![e] = @ - 1]
  /\ forsaken' = forsaken \cup {e}
  /\ UNCHANGED <<recording, isActive, fresh, recorded, rows, committed,
                 published>>

PublishEnds ==
  /\ Step("publish", "closed")
  /\ \A e \in Events : collected[e] = 0
  /\ UNCHANGED <<recording, isActive, fresh, recorded, collected, rows,
                 committed, published, forsaken>>

\* rollback(), and the exception goes on.
Rollback ==
  /\ Step("raise", "closed")
  /\ rows' = {}
  /\ fresh' = {}
  /\ UNCHANGED <<recording, isActive, recorded, collected, committed,
                 published, forsaken>>

Crash ==
  /\ "crash" \in Faults
  /\ pc # "closed"
  /\ pc' = "closed"
  /\ rows' = {}
  /\ fresh' = {}
  /\ forsaken' = forsaken \cup committed
  /\ UNCHANGED <<recording, isActive, recorded, collected, committed,
                 published>>

Next ==
  \/ \E e \in Events : Record(e) \/ PublishEvent(e) \/ PublishFails(e)
  \/ Flush \/ FlushFails \/ FlushSwallowed \/ HandlerCommits
  \/ \E from \in {"run", "exit"} : CommitFails(from) \/ CommitAnswerLost(from)
  \/ HandlerReturns \/ HandlerRaises \/ ExitCommit \/ ExitInactive
  \/ PublishEnds \/ Rollback \/ Crash

Spec == Init /\ [][Next]_vars

-----------------------------------------------------------------------------
(* Safety *)

\* However often a session is flushed and committed, an event goes out once.
PublishedOnce == \A e \in Events : published[e] <= 1

\* An event goes out only for a row that is committed by then: nobody is told
\* of an alert that was rolled back.
PublishedIsCommitted == \A e \in Events : published[e] > 0 => e \in committed

\* When a session is closed, the event of a committed row has gone out, unless
\* a fault came between: the handler raised after a commit of its own, the
\* answer to a commit was lost, the process stopped, or RabbitMQ did not take
\* this very event.
CommittedIsPublished ==
  \A e \in committed : pc = "closed" => published[e] > 0 \/ e \in forsaken
=============================================================================
