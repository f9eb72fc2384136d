SPECIFICATION FairSpec
CONSTANTS
    MaxAddresses = 2
    PoolReplies = 2
INVARIANTS
    TokenIsAlive
    NothingLeftBehind
PROPERTIES
    EndsUnlessUnanswered
