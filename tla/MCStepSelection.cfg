SPECIFICATION Spec
CONSTANTS
    N <- MCN
    Plans <- MCPlans
    Scored <- MCScored
    WidthMax = 1
    SharedAnchorMax = 2
    DisjointPairMax = 4
    StepCountMax = 16
    Values = {"a", "b"}
    Missing = "missing"
    Observations <- MCObservations
    MaxObservations = 3
INVARIANTS
    CompiledPlansOrdered
    CausalEvidence
