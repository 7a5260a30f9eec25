\* Every content of bitsets of one to three words, the last one full or not.
SPECIFICATION Spec
CONSTANTS
    WordSize = 3
    MemberCounts = {2, 4, 6, 8}
INVARIANT TypeOK
PROPERTY ImplementsBitsetSpec
