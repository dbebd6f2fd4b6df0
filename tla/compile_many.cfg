\* Two API processes and one job with two copies of its messages, or two jobs
\* that compete for the one bundle the project keeps.
CONSTANTS
  Jobs = {j1, j2}
  Replicas = {r1, r2}
  MaxDeliver = 1
  MaxCopies = 2
  RetentionLimit = 0
SPECIFICATION MCSpec
INVARIANTS
 TypeOK
 SuccessIsComplete
 HeldBundlesAreNewest
PROPERTIES
 OutcomeIsWrittenOnce
CONSTRAINT Bounds
ACTION_CONSTRAINT NoForgetting
SYMMETRY Symmetry
CHECK_DEADLOCK FALSE
