\* Three threads, each free to read or write again and again.
SPECIFICATION FairSpec
CONSTANTS
    Threads = {t1, t2, t3}
    NoThread = NoThread
    MaxReaders = 4
INVARIANT MutualExclusion
INVARIANT Quiescent
INVARIANT RWLockInv
PROPERTY ImplementsRWLockSpec
PROPERTY WriterGetsIn
PROPERTY ReadersReleased
