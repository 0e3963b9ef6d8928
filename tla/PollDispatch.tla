---------------------------- MODULE PollDispatch ----------------------------
(***************************************************************************)
(* poll_all_active_subscriptions: select a batch of due subscriptions,     *)
(* stamp last_checked_at and commit, then dispatch one actor run per       *)
(* subscription and record it as a SearchRun row.  Each element of Polls   *)
(* is one execution of the task; executions overlap freely, since workers  *)
(* take queued polls concurrently.                                         *)
(***************************************************************************)
EXTENDS SearchState

CONSTANTS
  Polls,  \* executions of the poll task
  Batch   \* APIFY_POLL_BATCH_SIZE

ASSUME BatchAssumption == Batch \in Nat \ {0}
ASSUME PollsAssumption == None \notin Polls

VARIABLES
  pollPc,       \* "idle", "claim", "loop", "record" or "done"
  todo,         \* subscriptions the poll selected and has not reached yet
  held,         \* the run just dispatched and not recorded yet
  poisoned,     \* the session was deactivated by a failed flush or COMMIT
  clock,        \* number of committed claims, the time in last_checked_at
  \* history, read by properties only:
  claimedBy,    \* polls that claimed the subscription since it was last due
  starter,      \* the poll that started the run
  pollOverlap,  \* polls between select and claim when this one selected
  lost,         \* runs whose poll stopped, or got no answer, before it knew
  insertFailed  \* polls that the database has failed while they recorded a run

loopVars == <<todo, held, poisoned>>
pollHistory == <<claimedBy, starter, pollOverlap, lost, insertFailed>>
pollVars == <<pollPc, clock, loopVars, pollHistory>>

PollInit ==
  /\ pollPc = [p \in Polls |-> "idle"]
  /\ todo = [p \in Polls |-> {}]
  /\ held = [p \in Polls |-> None]
  /\ poisoned = [p \in Polls |-> FALSE]
  /\ clock = 0
  /\ claimedBy = [s \in Subs |-> {}]
  /\ starter = [r \in Runs |-> None]
  /\ pollOverlap = [p \in Polls |-> {}]
  /\ lost = {}
  /\ insertFailed = {}

PollTypeOK ==
  /\ pollPc \in [Polls -> {"idle", "claim", "loop", "record", "done"}]
  /\ todo \in [Polls -> SUBSET Subs]
  /\ held \in [Polls -> Runs \cup {None}]
  /\ poisoned \in [Polls -> BOOLEAN]
  /\ clock \in Nat
  /\ claimedBy \in [Subs -> SUBSET Polls]
  /\ starter \in [Runs -> Polls \cup {None}]
  /\ pollOverlap \in [Polls -> SUBSET Polls]
  /\ lost \subseteq Runs
  /\ insertFailed \subseteq Polls

Eligible ==
  {s \in Subs : subState[s] = "active" /\ Provider[s] # "none" /\ due[s]}

\* B is what ORDER BY last_checked_at NULLS FIRST LIMIT Batch may return.
IsBatch(B) ==
  /\ B # {}
  /\ B \subseteq Eligible
  /\ Cardinality(B) <= Batch
  /\ Cardinality(B) < Batch => B = Eligible
  /\ \A s \in B, t \in Eligible \ B : lastChecked[s] <= lastChecked[t]

\* Or the query fails.
PollFindsNothing(p) ==
  /\ pollPc[p] = "idle"
  /\ Eligible = {} \/ "database" \in Faults
  /\ pollPc' = [pollPc EXCEPT ![p] = "done"]
  /\ UNCHANGED <<subVars, runVars, clock, loopVars, pollHistory>>

PollSelect(p) ==
  /\ pollPc[p] = "idle"
  /\ \E B \in SUBSET Eligible :
       /\ IsBatch(B)
       /\ todo' = [todo EXCEPT ![p] = B]
  /\ pollPc' = [pollPc EXCEPT ![p] = "claim"]
  /\ pollOverlap' =
       [pollOverlap EXCEPT ![p] = {q \in Polls : pollPc[q] = "claim"}]
  /\ UNCHANGED <<subVars, runVars, held, poisoned, clock, claimedBy, starter,
                 lost, insertFailed>>

\* Mutant of Claim: the UPDATE does not reach the database.
Claim_unstamped(p) ==
  /\ clock' = clock + 1
  /\ claimedBy' =
       [s \in Subs |-> claimedBy[s] \cup (IF s \in todo[p] THEN {p} ELSE {})]
  /\ UNCHANGED <<due, lastChecked>>

\* The bulk UPDATE of last_checked_at and its commit.
Claim(p) ==
  /\ clock' = clock + 1
  /\ due' = [s \in Subs |-> due[s] /\ s \notin todo[p]]
  /\ lastChecked' =
       [s \in Subs |-> IF s \in todo[p] THEN clock + 1 ELSE lastChecked[s]]
  /\ claimedBy' =
       [s \in Subs |-> claimedBy[s] \cup (IF s \in todo[p] THEN {p} ELSE {})]

PollClaim(p) ==
  /\ pollPc[p] = "claim"
  /\ pollPc' = [pollPc EXCEPT ![p] = "loop"]
  /\ Claim(p)
  /\ UNCHANGED <<subState, runVars, loopVars, starter, pollOverlap, lost,
                 insertFailed>>

\* The task raises and is not retried; its commit may have been applied.
PollClaimFails(p) ==
  /\ "database" \in Faults
  /\ pollPc[p] = "claim"
  /\ pollPc' = [pollPc EXCEPT ![p] = "done"]
  /\ todo' = [todo EXCEPT ![p] = {}]
  /\ Claim(p) \/ UNCHANGED <<clock, due, lastChecked, claimedBy>>
  /\ UNCHANGED <<subState, runVars, held, poisoned, starter, pollOverlap,
                 lost, insertFailed>>

Reached(p, s) ==
  /\ pollPc[p] = "loop"
  /\ s \in todo[p]
  /\ todo' = [todo EXCEPT ![p] = @ \ {s}]

\* get_adapter raises ValueError, or dispatch() fails before a run starts:
\* the loop logs it and goes on.
PollSkip(p, s) ==
  /\ Reached(p, s)
  /\ Provider[s] = "unregistered" \/ "dispatch" \in Faults
  /\ UNCHANGED <<subVars, runVars, pollPc, held, poisoned, clock,
                 pollHistory>>

Start(p, s, r) ==
  /\ Provider[s] = "registered"
  /\ ext[r] = "unstarted"
  /\ ext' = [ext EXCEPT ![r] = "running"]
  /\ runSub' = [runSub EXCEPT ![r] = s]
  /\ starter' = [starter EXCEPT ![r] = p]

\* dispatch() returns the id of the run it started.
PollDispatched(p, s, r) ==
  /\ Reached(p, s)
  /\ Start(p, s, r)
  /\ pollPc' = [pollPc EXCEPT ![p] = "record"]
  /\ held' = [held EXCEPT ![p] = r]
  /\ UNCHANGED <<subVars, row, stale, poisoned, clock, claimedBy,
                 pollOverlap, lost, insertFailed>>

\* The run started, but the answer timed out or could not be parsed.
PollDispatchLost(p, s, r) ==
  /\ "dispatch" \in Faults
  /\ Reached(p, s)
  /\ Start(p, s, r)
  /\ lost' = lost \cup {r}
  /\ UNCHANGED <<subVars, row, stale, pollPc, held, poisoned, clock,
                 claimedBy, pollOverlap, insertFailed>>

\* Mutant of PollRecord: create() without the commit.
PollRecord_uncommitted(p) ==
  /\ pollPc[p] = "record"
  /\ pollPc' = [pollPc EXCEPT ![p] = "loop"]
  /\ held' = [held EXCEPT ![p] = None]
  /\ UNCHANGED <<subVars, runVars, todo, poisoned, clock, pollHistory>>

\* SearchRunRepository.create and commit.  On a session that an earlier
\* failure deactivated it raises; a subscription that is gone by now violates
\* the foreign key and deactivates the session.
PollRecord(p) ==
  LET r == held[p]
      orphan == subState[runSub[r]] = "deleted"
  IN  /\ pollPc[p] = "record"
      /\ row' = IF poisoned[p] \/ orphan
                THEN row ELSE [row EXCEPT ![r] = "pending"]
      /\ poisoned' = [poisoned EXCEPT ![p] = @ \/ orphan]
      /\ pollPc' = [pollPc EXCEPT ![p] = "loop"]
      /\ held' = [held EXCEPT ![p] = None]
      /\ UNCHANGED <<subVars, ext, runSub, stale, todo, clock, pollHistory>>

\* The INSERT or the COMMIT fails, applied or not: the loop logs it and goes
\* on, without a rollback, on a session that takes no statement any more.
PollRecordFails(p) ==
  LET r == held[p]
  IN  /\ "database" \in Faults
      /\ pollPc[p] = "record"
      /\ \/ row' = row
         \/ /\ ~poisoned[p] /\ subState[runSub[r]] # "deleted"
            /\ row' = [row EXCEPT ![r] = "pending"]
      /\ poisoned' = [poisoned EXCEPT ![p] = TRUE]
      /\ insertFailed' = insertFailed \cup {p}
      /\ pollPc' = [pollPc EXCEPT ![p] = "loop"]
      /\ held' = [held EXCEPT ![p] = None]
      /\ UNCHANGED <<subVars, ext, runSub, stale, todo, clock, claimedBy,
                     starter, pollOverlap, lost>>

PollEnd(p) ==
  /\ pollPc[p] = "loop"
  /\ todo[p] = {}
  /\ pollPc' = [pollPc EXCEPT ![p] = "done"]
  /\ UNCHANGED <<subVars, runVars, clock, loopVars, pollHistory>>

PollCrash(p) ==
  /\ "worker crash" \in Faults
  /\ pollPc[p] \in {"claim", "loop", "record"}
  /\ pollPc' = [pollPc EXCEPT ![p] = "done"]
  /\ todo' = [todo EXCEPT ![p] = {}]
  /\ held' = [held EXCEPT ![p] = None]
  /\ lost' = lost \cup ({held[p]} \ {None})
  /\ UNCHANGED <<subVars, runVars, poisoned, clock, claimedBy, starter,
                 pollOverlap, insertFailed>>

\* 24 hours pass since the claim.  A poll does not run for 24 hours, so those
\* that selected the subscription have ended.
RecheckElapses(s) ==
  /\ subState[s] # "deleted"
  /\ ~due[s]
  /\ \A p \in Polls : s \in todo[p] \/ p \in claimedBy[s] => pollPc[p] = "done"
  /\ due' = [due EXCEPT ![s] = TRUE]
  /\ claimedBy' = [claimedBy EXCEPT ![s] = {}]
  /\ UNCHANGED <<subState, lastChecked, runVars, pollPc, clock, loopVars,
                 starter, pollOverlap, lost, insertFailed>>

\* Being due is told apart only by a poll to come.
AwaitsPoll == \E p \in Polls : pollPc[p] = "idle"

PollNext ==
  \/ \E p \in Polls :
       \/ PollFindsNothing(p) \/ PollSelect(p)
       \/ PollClaim(p) \/ PollClaimFails(p)
       \/ PollRecord(p) \/ PollRecordFails(p) \/ PollEnd(p) \/ PollCrash(p)
  \/ \E p \in Polls, s \in Subs : PollSkip(p, s)
  \/ \E p \in Polls, s \in Subs, r \in Runs :
       PollDispatched(p, s, r) \/ PollDispatchLost(p, s, r)
  \/ \E s \in Subs : AwaitsPoll /\ RecheckElapses(s)
=============================================================================
