SPECIFICATION Spec
CONSTANTS
  Jobs = {j1, j2}
  NoJob = NoJob
  Clients = {a1}
  Workers = {w1, w2}
  RetryFrom <- FromThePage
  Patient = TRUE
  MaxRequests = 2
  Faults = {"raise"}
  MaxFaults = 1
INVARIANTS RunningHasTask
CHECK_DEADLOCK FALSE
