SPECIFICATION FairSpec
CONSTANTS
    k1 = k1
    k2 = k2
    h1 = h1
    h2 = h2
    None = None
    Keys = {k1, k2}
    Handlers = {h1, h2}
    Rows <- MCRows
    Columns <- MCColumns
    hash <- MCHash
    HotThreshold = 2
    ShardCount = 2
    MaxCalls = 4
INVARIANTS
    EstimateBounded
    NoHotKeyMissed
    SplitOnce
    ShardsAgree
PROPERTY
    OldHotKeysCool
CHECK_DEADLOCK FALSE
