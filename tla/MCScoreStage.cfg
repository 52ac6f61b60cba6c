SPECIFICATION StageSpec
CONSTANTS
    Settings <- MCSettings
    Oracles <- MCOracles
    SevereOracles = {"O-2"}
    Records <- MCRecords
    Filings <- MCFilings
    Answers <- MCAnswers
    Integrity <- MCIntegrity
    MaxTrials = 2
    MinimumTrials = 2
    ReExecutionCap = 1
    ThresholdNum = 1
    ThresholdDen = 2
INVARIANTS
    CatchIsWitnessed
    MissIsVisible
    ConditionsTell
PROPERTIES
    NoRetryImproves
CHECK_DEADLOCK FALSE
