\* A poller and an operator who polls too, and one restart anywhere.
CONSTANTS
  p1 = p1
  o1 = o1
  Boot = Boot
  Free = Free
  Pollers = {p1, o1}
  Operators = {o1}
  EnvKeys = FALSE
  Encrypted = TRUE
  MaxSessions = 2
  MaxRestarts = 1
SPECIFICATION Spec
CHECK_DEADLOCK FALSE
INVARIANTS
  TypeOK
  StatusIsEvidence
  NotHammered
PROPERTIES
  ExpiryIsEvidence
  WorkingSessionKept
