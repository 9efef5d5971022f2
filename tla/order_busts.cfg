SPECIFICATION Spec
CONSTANTS
  OrderQty = 2
  MaxQty = 2
  MaxReports = 6
  Totals = "increment"
  SequencedTypes <- NoTypes
  Emits = {"cancelled", "rejected", "busted"}
INVARIANTS TypeOK RecordConsistent FilledMeansFilled
PROPERTY MonotoneProgress
