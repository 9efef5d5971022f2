SPECIFICATION Spec
CONSTANTS
  Command <- Entries
  Prio <- EntryPrio
  Thread = {t1, t2}
  Limit = 2
  Capacity = 2
  Faults = {}
  MaxFaults = 0
  MaxCrashes = 0
INVARIANT NothingLost
