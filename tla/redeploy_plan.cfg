SPECIFICATION Spec
CONSTANTS
  Requests = {q1, q2}
  Images = {"old"}
  Sizes = {"1", "2"}
  DockerConfigs <- FewDockers
SYMMETRY Symmetric
INVARIANTS TypeOK PlanIsDiff
PROPERTIES UnconfirmedIsHarmless RefusalHasCause
CHECK_DEADLOCK FALSE
