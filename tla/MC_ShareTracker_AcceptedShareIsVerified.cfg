CONSTANTS
    s1 = s1
    s2 = s2
    s3 = s3
    NullHash = NullHash
    NullShare = NullShare
    ShareOf <- MCShareOf
    LOOKBEHIND = 2
    WorkModulus = 256
    MaxNow = 200
    TimeStep = 100

SPECIFICATION Spec

INVARIANT AcceptedShareIsVerified
