SPECIFICATION Spec
CONSTANTS
  Leader = leader
  Procs = {leader, kid1, kid2}
  Streams = {stdout, stderr}
  MaxTries = 3
  WatchdogMayCrash = TRUE
INVARIANTS
  HonestEnd
  WatchdogOutlivesGroup
PROPERTIES
  LeftoversSurvive
  AbandonedGroupDies
  ImplementsGroupedChild
CHECK_DEADLOCK FALSE
