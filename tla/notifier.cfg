SPECIFICATION Spec
CONSTANTS
  h1 = h1
  h2 = h2
  Hooks <- MCHooks
  Wants <- MCWants
  Workers = {w1, w2}
  None = None
  MaxChanges = 2
  MaxOthers = 1
  MaxEdits = 2
  MaxFaults = 1
  MaxDisruptions = 2
INVARIANTS TypeOK PostedOnce BoundedOvertaking LastWordIsTrue
PROPERTIES PoolDrains ChangeIsNoticed
CHECK_DEADLOCK FALSE
