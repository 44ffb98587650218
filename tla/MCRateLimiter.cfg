CONSTANTS
  Absent = Absent
  Ips = {i1}
  Rate = 2
  Capacity = 6
  Cost = 3
  StaleAfter = 3
  SweepEvery = 3
  MaxTime = 10
SPECIFICATION Spec
INVARIANTS ExactLimit WithinLimit
CHECK_DEADLOCK FALSE
