---------------------------- MODULE AlertLifecycle ----------------------------
(***************************************************************************)
(* What the delivery of alerts promises of one alert row and the messages  *)
(* its user gets for it, with no word about workers, brokers or keys.      *)
(* AlertDelivery implements it.                                            *)
(*                                                                         *)
(* An alert is in doubt from the moment a send that arrived, its commit or *)
(* the marking of its idempotency key fails: only then may a message be    *)
(* repeated and a settled status be written again.                         *)
(***************************************************************************)
EXTENDS Naturals

CONSTANT Alerts

VARIABLES
  status,  \* "none", "pending", "sent", "failed", "skipped" or "gone"
  sends,   \* messages that arrived for the alert
  doubt    \* alerts in doubt

vars == <<status, sends, doubt>>

Init ==
  /\ status = [a \in Alerts |-> "none"]
  /\ sends = [a \in Alerts |-> 0]
  /\ doubt = {}

Create(a) ==
  /\ status[a] = "none"
  /\ status' = [status EXCEPT ![a] = "pending"]
  /\ UNCHANGED <<sends, doubt>>

\* The first message of an undecided or deleted alert, or a repetition.
Deliver(a) ==
  /\ \/ status[a] \in {"pending", "gone"} /\ sends[a] = 0
     \/ a \in doubt
  /\ sends' = [sends EXCEPT ![a] = @ + 1]
  /\ doubt' \in {doubt, doubt \cup {a}}
  /\ UNCHANGED status

Doubt(a) ==
  /\ status[a] # "none"
  /\ doubt' = doubt \cup {a}
  /\ UNCHANGED <<status, sends>>

\* The status is written once, and says what happened.
Settle(a, s) ==
  /\ \/ status[a] = "pending"
     \/ a \in doubt /\ status[a] \notin {"none", "gone"}
  /\ IF s = "sent" THEN sends[a] > 0 ELSE sends[a] = 0 \/ a \in doubt
  /\ status' = [status EXCEPT ![a] = s]
  /\ doubt' \in {doubt, doubt \cup {a}}
  /\ UNCHANGED sends

\* Deleted with its subscription, at any time.
Delete(a) ==
  /\ status[a] # "none"
  /\ status' = [status EXCEPT ![a] = "gone"]
  /\ UNCHANGED <<sends, doubt>>

Next ==
  \E a \in Alerts :
    \/ Create(a) \/ Deliver(a) \/ Doubt(a) \/ Delete(a)
    \/ \E s \in {"sent", "failed", "skipped"} : Settle(a, s)

Spec == Init /\ [][Next]_vars
=============================================================================
