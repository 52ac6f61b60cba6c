SPECIFICATION Spec
CONSTANTS
    Settings <- MCSettings
    MaxHanded = 5
INVARIANTS
    ResetProven
    OutcomeEarned
CHECK_DEADLOCK FALSE
