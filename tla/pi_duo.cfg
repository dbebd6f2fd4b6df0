\* Two API processes, as during a rolling update, and one edit whose result is
\* delivered twice.
CONSTANTS
  Jobs = {j1}
  Replicas = {r1, r2}
  Pollers = {p1}
  MaxDeliver = 2
  MaxCopies = 1
  MaxVersion = 2
SPECIFICATION Spec
INVARIANTS TypeOK EditsAreAccounted EditReplacesWhatItSaw
CONSTRAINT OneExecution
SYMMETRY Symmetry
CHECK_DEADLOCK FALSE
