SPECIFICATION Spec
CONSTANTS
  build = build
  audit = audit
  Mission = {build, audit}
  Plan <- Plans
  Kept = 1
  Items = 5
  NoMission = NoMission
INVARIANTS TypeOK RecordTells
PROPERTY SlotIsFreed
