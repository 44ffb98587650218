CONSTANTS
  Requests = {q1, q2}
  Jobs = {j1, j2}
SPECIFICATION FairSpec
INVARIANTS JobsHaveDatabase RequestsHaveDatabase
PROPERTIES SignalEndsProcess JobsKeepRunning
CHECK_DEADLOCK FALSE
