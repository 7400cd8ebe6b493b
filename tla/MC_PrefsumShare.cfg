CONSTANTS
    g = g
    a = a
    b = b
    c = c
    NullHash = NullHash
    End = End
    Hashes <- MCHashes
    ShareOf <- MCShareOf
    WorkModulus = 256
    MaxGen = 2
    AllowDuplicateAdd = FALSE
    MaxChain = 2

SPECIFICATION Spec

INVARIANT TypeOK
INVARIANT LiveLinksMirror
INVARIANT NthParentWithinHeight
INVARIANT ChainMatchesHeight
INVARIANT DeltaMatchesPath
PROPERTY ForestRefinement

CHECK_DEADLOCK FALSE
