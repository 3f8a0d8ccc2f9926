SPECIFICATION Spec
CONSTANTS
  Configs = {c1, c2, c3}
  NoConfig = NoConfig
  Metrics = {c1, c2}
INVARIANTS TypeOK StoredHealthIsOfRow DashboardAgrees UnreachableIsWarned OkMeansAllLayers
PROPERTIES ProbeIsDeserved
CHECK_DEADLOCK FALSE
