\* remove_if with a condition that holds for some keys only.
SPECIFICATION Spec
CONSTANTS
    Threads = {t1}
    NoThread = NoThread
    None = None
    Keys = {1, 2, 3}
    HashTableSize = 1
    BucketIdx <- OneBucket
    NPairs = 2
    NChunks = 3
    MaxCalls = 5
    Ops = {"insert", "remove", "remove_if"}
    Conditions <- AnyMatch
INVARIANT EmptyChunksReturned
