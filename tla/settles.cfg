SPECIFICATION FairSpec
CONSTANTS
  Columns <- BothColumns
  Configs <- OneConfig
  NoConfig = NoConfig
  Jobs = {j1, j2}
  NoJob = NoJob
  Clients = {a1, a2}
  Workers = {w1, w2}
  RemoveExisting <- Replacing
  HighRisk = {}
  Kinds = {"deploy", "stop", "redeploy"}
  Celery = FALSE
  Faults = {}
  MaxFaults = 1
PROPERTIES JobsEnd DeploymentSettles
CHECK_DEADLOCK FALSE
