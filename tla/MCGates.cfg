SPECIFICATION MCSpec
CONSTANTS
    MaxDepth = 3
    MaxArity = 2
    Keys = {1, 2, 3}
    MaxRows = 3
    Worlds <- MCWorlds
    Replies <- MCReplies
    Concurrency = 2
    MaxRetries = 2
INVARIANTS
    LockfilesAudited
    TreesHeld
    DecisionsEarned
    CoverageIsBijection
