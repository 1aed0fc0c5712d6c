SPECIFICATION PumpSpec
CONSTANTS
  PollThreads = {t1, t2}
  Pollers = {p1, p2}
  Caps = {1, 2}
  \* A finite wait need not expire (no fairness on Timeout), so it covers the infinite one.
  Timeouts = {"zero", "finite"}
  MaxPushes = 2
  MaxWakes = 1
INVARIANTS
  NoLostWakeup
  BatchIntact
  DeliveredOnce
PROPERTIES
  QueuedIsDelivered
\* Once the queue is gone nothing is left to do.
CHECK_DEADLOCK FALSE
