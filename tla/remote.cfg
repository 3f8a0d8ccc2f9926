SPECIFICATION FairSpec
CONSTANTS
  Output = 3
  Pipe = 1
  Window = 1
  HasInput = TRUE
INVARIANTS TypeOK OutputIsWhole ResultIsFinal
PROPERTIES CallIsAtomic CallEnds
CHECK_DEADLOCK FALSE
