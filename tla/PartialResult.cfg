SPECIFICATION PortSpec
INVARIANTS
    EndsDeclared
CHECK_DEADLOCK FALSE
