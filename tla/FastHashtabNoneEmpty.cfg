\* Both inductive invariants, where remove_if removes every pair.
SPECIFICATION Spec
CONSTANTS
    Threads = {t1, t2}
    NoThread = NoThread
    None = None
    Keys = {1, 2, 3}
    HashTableSize = 2
    BucketIdx <- TwoBuckets
    NPairs = 1
    NChunks = 3
    MaxCalls = 4
    Ops = {"get", "insert", "remove", "get_and_remove", "remove_if"}
    Conditions <- AllMatch
INVARIANT HashtabInv
INVARIANT EffectsOK
INVARIANT NoneEmpty
