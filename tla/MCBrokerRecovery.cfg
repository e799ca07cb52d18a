\* The recovery of the session, without restarts.
CONSTANTS
  p1 = p1
  o1 = o1
  Boot = Boot
  Free = Free
  Pollers = {p1, o1}
  Operators = {o1}
  EnvKeys = FALSE
  Encrypted = TRUE
  MaxSessions = 2
  MaxRestarts = 0
SPECIFICATION FairSpec
CHECK_DEADLOCK FALSE
PROPERTIES
  Recovers
  DeadIsNoticed
