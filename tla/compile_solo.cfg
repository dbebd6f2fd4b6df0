\* One API process: the rows follow the view clients rely on, and they settle.
CONSTANTS
  Jobs = {j1}
  Replicas = {r1}
  MaxDeliver = 2
  MaxCopies = 1
  RetentionLimit = 1
SPECIFICATION Spec
PROPERTIES ImplementsView PolledJobsSettle RunningJobsAreReaped
CHECK_DEADLOCK FALSE
