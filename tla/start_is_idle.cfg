SPECIFICATION Spec
CONSTANTS
  Columns <- BothColumns
  Configs <- TwoConfigs
  NoConfig = NoConfig
  Jobs = {j1, j2}
  NoJob = NoJob
  Clients = {a1}
  Workers = {w1, w2}
  RemoveExisting <- Replacing
  HighRisk <- RiskyPairs
  Kinds = {"stop", "start"}
  Celery = TRUE
  Faults = {}
  MaxFaults = 0
INVARIANTS StartsSGLang
CHECK_DEADLOCK FALSE
