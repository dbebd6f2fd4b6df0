\* One API process and one job are enough to violate RecordedResultIsShown.
CONSTANTS
  Jobs = {j1}
  Replicas = {r1}
  MaxDeliver = 1
  MaxCopies = 2
  RetentionLimit = 1
SPECIFICATION Spec
PROPERTY RecordedResultIsShown
CHECK_DEADLOCK FALSE
