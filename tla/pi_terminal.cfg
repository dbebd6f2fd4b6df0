\* A poller whose second look at a stale job sees what the first one saw.
CONSTANTS
  Jobs = {j1}
  Replicas = {r1}
  Pollers = {p1}
  MaxDeliver = 1
  MaxCopies = 1
  MaxVersion = 2
SPECIFICATION Spec
PROPERTY TerminalIsImmutable
CHECK_DEADLOCK FALSE
