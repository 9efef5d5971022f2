SPECIFICATION Spec
CONSTANTS
  Action <- Verbs
  Facts <- VerbFacts
  Plain = {"normal"}
  MaxRequests = 2
  Viewer = {v1}
  MaxCut = 1
INVARIANTS TypeOK RunsOnce DecisionTells
PROPERTIES NeedsAPerson LockIsReleased ImplementsConsent
