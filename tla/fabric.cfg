SPECIFICATION Spec
SYMMETRY Threads
CONSTANTS
  Command <- Batch
  Prio <- BatchPrio
  Thread = {t1, t2}
  Limit = 2
  Capacity = 1
  Faults = {"offline", "ack_lost", "unavailable"}
  MaxFaults = 1
  MaxCrashes = 1
INVARIANTS TypeOK NothingLostInTurn OutboxFirstAlive BudgetHolds LateAtMostOnce
PROPERTIES HighestFirst OneTryPerDrain
