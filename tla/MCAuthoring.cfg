SPECIFICATION MCSpec
CONSTANTS
    Drafts <- MCDrafts
    Bodies <- MCBodies
    Caps <- MCCaps
    Alphabet <- MCAlphabet
    WidthMax = 2
    SharedAnchorMax = 2
    DisjointPairMax = 1
    StepCountMax = 6
    Strings <- MCStrings
    RegexMatchStepBudget = 9
    Values <- MCValues
    Documents <- MCDocuments
    MAX_NESTING_DEPTH = 2
    KeyOrder <- MCKeyOrder
    SafeIntegerMax = 6
    Binary64 <- MCBinary64
INVARIANTS
    NoDeadEvidence
    CompiledPlansRun
    BriefReadsAlone
    CoverageVacuous
    ReportExact
    RegexExact
    DigestExact
CHECK_DEADLOCK FALSE
