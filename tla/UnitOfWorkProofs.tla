--------------------------- MODULE UnitOfWorkProofs ---------------------------
(* The types and the three promises of UnitOfWork, for any set of events. *)
EXTENDS UnitOfWork, TLAPS

Open == pc \in {"run", "exit"}

\* An event is in one place at most: on its object, in the list, or out.
PlaceInv ==
  \A e \in Events :
    /\ collected[e] + published[e] <= 1
    /\ e \in recorded => collected[e] + published[e] = 0

\* In an open session nothing is out, and what is on its way belongs to a row.
OpenInv ==
  Open => \A e \in Events :
    /\ published[e] = 0
    /\ e \in recorded \/ collected[e] > 0 => e \in fresh \cup rows \cup committed
    /\ e \in fresh => e \in recorded
    /\ e \in rows \cup committed => collected[e] > 0

\* A session that is not active any more has nothing to publish.
InactiveInv ==
  ~recording => /\ fresh = {} /\ recorded = {} /\ rows = {} /\ committed = {}
                /\ collected = [e \in Events |-> 0]
ActiveInv == Open /\ ~isActive => ~recording

\* What is in the list when publication begins is committed.
PublishInv ==
  pc = "publish" => \A e \in Events :
    /\ collected[e] > 0 => e \in committed
    /\ e \in committed => collected[e] + published[e] > 0 \/ e \in forsaken

EndInv ==
  pc \in {"raise", "closed"} =>
    \A e \in committed : published[e] > 0 \/ e \in forsaken

Inv ==
  /\ TypeOK /\ PlaceInv /\ OpenInv /\ InactiveInv /\ ActiveInv /\ PublishInv
  /\ EndInv /\ PublishedIsCommitted

-----------------------------------------------------------------------------
LEMMA InitInv == Init => Inv
  BY DEF Init, Inv, TypeOK, PlaceInv, OpenInv, Open, InactiveInv, ActiveInv,
         PublishInv, EndInv, PublishedIsCommitted

LEMMA NextInv == Inv /\ [Next]_vars => Inv'
<1> SUFFICES ASSUME Inv, [Next]_vars PROVE Inv'
  OBVIOUS
<1> USE DEF Inv, TypeOK, PlaceInv, OpenInv, Open, InactiveInv, ActiveInv,
            PublishInv, EndInv, PublishedIsCommitted, Step
<1>1. ASSUME NEW e \in Events, Record(e) PROVE Inv'
  BY <1>1 DEF Record
<1>2. ASSUME NEW e \in Events, PublishEvent(e) PROVE Inv'
  BY <1>2 DEF PublishEvent
<1>3. ASSUME NEW e \in Events, PublishFails(e) PROVE Inv'
  BY <1>3 DEF PublishFails
<1>4. CASE Flush
  BY <1>4 DEF Flush, Extract, Taken
<1>5. CASE FlushFails
  <2>1. recording
    BY <1>5 DEF FlushFails
  <2>2. TypeOK'
    <3>1. collected' \in [Events -> Nat] /\ recorded' \subseteq Events
      BY <1>5 DEF FlushFails, Extract, Taken
    <3>2. isActive' \in BOOLEAN
      BY <1>5 DEF FlushFails
    <3> QED BY <1>5, <3>1, <3>2 DEF FlushFails
  <2>3. PlaceInv'
    BY <1>5 DEF FlushFails, Extract, Taken
  <2>4. OpenInv' /\ InactiveInv' /\ ActiveInv' /\ PublishInv'
    BY <1>5, <2>1 DEF FlushFails
  <2>5. EndInv' /\ PublishedIsCommitted'
    BY <1>5 DEF FlushFails
  <2> QED BY <2>2, <2>3, <2>4, <2>5
<1>6. CASE FlushSwallowed
  BY <1>6 DEF FlushSwallowed
<1>7. CASE HandlerCommits
  BY <1>7 DEF HandlerCommits, Commit, Extract, Taken
<1>8. ASSUME NEW from \in {"run", "exit"}, CommitFails(from) PROVE Inv'
  BY <1>8 DEF CommitFails, Extract, Taken
<1>9. ASSUME NEW from \in {"run", "exit"}, CommitAnswerLost(from) PROVE Inv'
  BY <1>9 DEF CommitAnswerLost, Commit, Extract, Taken
<1>10. CASE HandlerReturns
  BY <1>10 DEF HandlerReturns
<1>11. CASE HandlerRaises
  BY <1>11 DEF HandlerRaises
<1>12. CASE ExitCommit
  BY <1>12 DEF ExitCommit, Commit, Extract, Taken
<1>13. CASE ExitInactive
  BY <1>13 DEF ExitInactive, Extract, Taken
<1>14. CASE PublishEnds
  BY <1>14 DEF PublishEnds
<1>15. CASE Rollback
  BY <1>15 DEF Rollback
<1>16. CASE Crash
  BY <1>16 DEF Crash
<1>17. CASE UNCHANGED vars
  BY <1>17 DEF vars
<1> QED
  BY <1>1, <1>2, <1>3, <1>4, <1>5, <1>6, <1>7, <1>8, <1>9, <1>10, <1>11,
     <1>12, <1>13, <1>14, <1>15, <1>16, <1>17 DEF Next

LEMMA InvHolds == Spec => []Inv
BY InitInv, NextInv, PTL DEF Spec

-----------------------------------------------------------------------------
\* The types: how often an event is in the list stays a number, so nothing
\* is published that is not in the list.
THEOREM UnitTypeCorrect == Spec => []TypeOK
<1>1. Inv => TypeOK BY DEF Inv
<1> QED BY <1>1, InvHolds, PTL

\* extract_events empties what it copies, so an event that a flush, a
\* commit and the exit of get_db have all collected goes out once.
THEOREM EventsGoOutOnce == Spec => []PublishedOnce
<1>1. ASSUME Inv, NEW e \in Events PROVE published[e] <= 1
  <2>1. collected[e] \in Nat /\ published[e] \in Nat
    BY <1>1 DEF Inv, TypeOK
  <2>2. collected[e] + published[e] <= 1
    BY <1>1 DEF Inv, PlaceInv
  <2> QED BY <2>1, <2>2
<1>2. Inv => PublishedOnce
  BY <1>1 DEF PublishedOnce
<1> QED BY <1>2, InvHolds, PTL

\* Events go out after the commit of their row, and never after a
\* rollback.
THEOREM EventsFollowCommits == Spec => []PublishedIsCommitted
<1>1. Inv => PublishedIsCommitted BY DEF Inv
<1> QED BY <1>1, InvHolds, PTL

\* A closed session has published what it committed, but for the faults
\* that CommittedIsPublished names.
THEOREM CommitsAreAnnounced == Spec => []CommittedIsPublished
<1>1. Inv => CommittedIsPublished
  BY DEF Inv, EndInv, CommittedIsPublished
<1> QED BY <1>1, InvHolds, PTL
=============================================================================
