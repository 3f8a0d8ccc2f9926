SPECIFICATION Spec
CONSTANTS
  Columns <- BothColumns
  Configs <- TwoConfigs
  NoConfig = NoConfig
  Jobs = {j1, j2, j3}
  NoJob = NoJob
  Clients = {a1}
  Workers = {w1, w2}
  RemoveExisting <- Replacing
  HighRisk <- RiskyPairs
  Kinds <- Guarded
  Celery = TRUE
  Faults = {"raise", "lose"}
  MaxFaults = 1
SYMMETRY Symmetric
INVARIANTS TypeOK OneAtATime RevisionIsConfig OnlyProvenIsUsed SuccessIsTrue
  UpIsServingUnlessRedeployFailed
PROPERTIES JobsFollowLifecycle
CHECK_DEADLOCK FALSE
