\* An operator replaces a session while a poller is calling with it.
CONSTANTS
  p1 = p1
  o1 = o1
  Boot = Boot
  Free = Free
  Pollers = {p1, o1}
  Operators = {o1}
  EnvKeys = FALSE
  Encrypted = TRUE
  MaxSessions = 2
  MaxRestarts = 0
SPECIFICATION Spec
CHECK_DEADLOCK FALSE
PROPERTY DiscardsOnlyTheDead
