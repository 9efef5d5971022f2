SPECIFICATION Spec
CONSTANTS
  Symbols = 2
  MaxOrders = 2
  Client = {c1, c2}
  Proposals <- Stored
  Absent = absent
  absent = absent
  Judged = {1, 2}
  Shortable = {1}
  Prices = {2}
  Slip = 1
  MaxGross = 8
  MaxWeight = 6
INVARIANTS TypeOK PlacedOnce Reconciles WithinCeiling
PROPERTY AcceptedSettles
