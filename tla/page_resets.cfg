SPECIFICATION Spec
CONSTANTS
  Requests = {q1}
  Images = {"old", "new"}
  Sizes = {"1", "2"}
  DockerConfigs <- Dockers
PROPERTY PageKeepsTheRest
CHECK_DEADLOCK FALSE
