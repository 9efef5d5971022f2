SPECIFICATION Spec
CONSTANTS
  OrderQty = 3
  MaxQty = 4
  MaxReports = 5
  Totals = "every"
  SequencedTypes <- NoTypes
  Emits = {"cancelled", "expired", "modified"}
INVARIANTS NeverOverCounts Converges
