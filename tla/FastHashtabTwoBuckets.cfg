\* Two buckets of one-pair chunks that share the free list; every call
\* returns, under weak fairness.
SPECIFICATION FairSpec
CONSTANTS
    Threads = {t1, t2}
    NoThread = NoThread
    None = None
    Keys = {1, 2, 3}
    HashTableSize = 2
    BucketIdx <- TwoBuckets
    NPairs = 1
    NChunks = 4
    MaxCalls = 4
    Ops = {"insert", "get_and_remove", "remove_if"}
    Conditions <- AllMatch
INVARIANT TypeOK
INVARIANT EmptyChunksReturned
INVARIANT ChunkPlacement
INVARIANT ValueAccounting
PROPERTY EveryCallReturns
