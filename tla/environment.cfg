SPECIFICATION FairSpec
CONSTANTS
  Jobs = {j1, j2}
  NoJob = NoJob
  Clients = {a1}
  Workers = {w1, w2}
  RetryFrom <- FromThePage
  Patient = TRUE
  MaxRequests = 2
  Faults = {"raise", "crash", "useless", "delete"}
  MaxFaults = 1
INVARIANTS TypeOK RunningHasTaskUnlessFault WaitingOffersPlan SuccessMeansReady
PROPERTIES JobsFollowLifecycle ChecksEnd
CHECK_DEADLOCK FALSE
