SPECIFICATION Spec
CONSTANTS
  Clients = {c1, c2}
  Threads = {t1, t2}
  None = None
  MaxFailures = 2
  Lockout = 3
  Forget = 5
  Limit = 1
  Delay = 1
  MaxTime = 7
  MaxRestarts = 1
INVARIANTS TypeOK GuessesBounded
PROPERTIES LockHolds RefusedForCause
SYMMETRY Symmetry
CHECK_DEADLOCK FALSE
