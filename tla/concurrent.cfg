SPECIFICATION Spec
CONSTANTS
  Columns <- BothColumns
  Configs <- OneConfig
  NoConfig = NoConfig
  Jobs = {j1, j2}
  NoJob = NoJob
  Clients = {a1, a2}
  Workers = {w1, w2}
  RemoveExisting <- Replacing
  HighRisk = {}
  Kinds = {"stop", "redeploy"}
  Celery = TRUE
  Faults = {"crash", "redeliver", "lose", "daemon", "die", "late"}
  MaxFaults = 1
SYMMETRY Symmetric
INVARIANTS BusyHasLiveJob
CHECK_DEADLOCK FALSE
