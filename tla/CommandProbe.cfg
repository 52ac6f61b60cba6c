SPECIFICATION Spec
CONSTANTS
  Streams = {stdout, stderr}
  Artifacts = {report, trace}
INVARIANTS
  WholeObservation
  NothingLeftBehind
PROPERTIES
  ObeysChild
  RunSettles
CHECK_DEADLOCK FALSE
