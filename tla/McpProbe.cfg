SPECIFICATION Spec
INVARIANTS
  AnswersCorrelated
PROPERTIES
  SessionEnds
CHECK_DEADLOCK FALSE
