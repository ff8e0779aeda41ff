SPECIFICATION Spec
CONSTANTS
  NumJobs = 2
  PollMayFail = FALSE
  MaxRestarts = 2
  MaxEdits = 2
INVARIANTS
  TypeOK
  AtMostOnce
  CompletedAfterSubmitted
PROPERTIES
  NoReplay
  EverySubmissionReported
  EveryCompletionReported
