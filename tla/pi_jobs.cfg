\* Two edits of the project, and results that come when their job is over; one
\* API process and nobody polling, so no reaper.
CONSTANTS
  Jobs = {j1, j2}
  Replicas = {r1}
  Pollers = {}
  MaxDeliver = 1
  MaxCopies = 1
  MaxVersion = 2
SPECIFICATION Spec
INVARIANTS
 OneActiveEdit
 RunningIsDated
PROPERTIES
 TerminalIsImmutable
CONSTRAINT OneInFlight
SYMMETRY Symmetry
CHECK_DEADLOCK FALSE
