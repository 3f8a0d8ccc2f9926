SPECIFICATION FairSpec
CONSTANTS
  Columns <- BothColumns
  Configs <- TwoConfigs
  NoConfig = NoConfig
  Jobs = {j1, j2}
  NoJob = NoJob
  Clients = {a1}
  Workers = {w1, w2}
  RemoveExisting <- Replacing
  HighRisk <- RiskyPairs
  Kinds = {"deploy"}
  Celery = TRUE
  Faults = {}
  MaxFaults = 0
PROPERTIES WaitsForHttp
CHECK_DEADLOCK FALSE
