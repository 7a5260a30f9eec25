\* Two threads on one bucket of two-pair chunks; remove_if with every condition.
SPECIFICATION Spec
CONSTANTS
    Threads = {t1, t2}
    NoThread = NoThread
    None = None
    Keys = {k1, k2, k3}
    HashTableSize = 1
    BucketIdx <- OneBucket
    NPairs = 2
    NChunks = 4
    MaxCalls = 5
    Ops = {"get", "insert", "remove", "get_and_remove", "remove_if"}
    Conditions <- AnyMatch
SYMMETRY Symmetry
INVARIANT UniqueKeys
INVARIANT RemoveIfComplete
PROPERTY ImplementsHashtabSpec
\* The program stops where it reads outside of a chunk.
CHECK_DEADLOCK FALSE
