\* Two API processes: one dispatches the edit the other is about to republish.
CONSTANTS
  Jobs = {j1}
  Replicas = {r1, r2}
  Pollers = {}
  MaxDeliver = 1
  MaxCopies = 1
  MaxVersion = 2
SPECIFICATION Spec
INVARIANT StaleIsOverdue
CHECK_DEADLOCK FALSE
