--------------------------- MODULE MCAlertDelivery ---------------------------
(* Instances of AlertDelivery and TelegramLink for TLC. *)
EXTENDS AlertDelivery

CONSTANT u1

OwnedByFirst == [a \in Alerts |-> u1]
=============================================================================
