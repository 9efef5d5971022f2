SPECIFICATION Spec
CONSTANTS
  Job <- Work
  Checkpoints <- WorkCheckpoints
  Kept = 1
  Items = 1
INVARIANTS TypeOK LiveJobsAreListed NoStaleCancel InboxAgrees
PROPERTIES CapYieldsToUnseen EveryJobLands CancelStops
