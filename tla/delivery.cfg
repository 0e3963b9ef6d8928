SPECIFICATION FairSpec
CONSTANTS
  u1 = u1
  None = None
  Users = {u1, u2}
  Chats = {c1}
  Tokens = {k1}
  Starts = {l1, l2}
  LinkFaults = TRUE
  Alerts = {a1}
  Owner <- OwnedByFirst
  Executions = {x1, x2}
  Faults <- DeliveryFaults
  MaxFaults = 2
INVARIANTS
  TypeOK
  CompletedIsFinal
  OneExecutionPerEvent
  AtMostOneMessage
  StatusIsTruthful
  TokenRedeemedOnce
  ChatIsUnique
PROPERTIES
  AlertIsResolved
  ImplementsLifecycle
CHECK_DEADLOCK FALSE
