SPECIFICATION Spec
CONSTANTS
    Procs = {1, 2}
    Scenarios <- MCScenarios
    Resolve <- MCResolve
    Node <- MCNode
    JsonPaths <- MCJsonPaths
    Joined <- MCJoined
    Stored <- MCStored
    Escaping <- MCEscaping
INVARIANTS
    InputsKept
    ExitTells
    MintedIsChecked
    StrengthEarned
    OrderFree
CHECK_DEADLOCK FALSE
