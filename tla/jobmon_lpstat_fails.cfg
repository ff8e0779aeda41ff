SPECIFICATION Spec
CONSTANTS
  NumJobs = 1
  PollMayFail = TRUE
  MaxRestarts = 1
  MaxEdits = 1
INVARIANT AtMostOnce
