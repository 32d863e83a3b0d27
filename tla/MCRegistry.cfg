CONSTANTS
    t1 = t1
    t2 = t2
    Threads <- MCThreads
    TagIdMask = 3
    MaxTagMapAttempts = 2
    MaxTags = 4
    StartIds = {2}
SPECIFICATION Spec
INVARIANTS RegistryTypeOK
PROPERTY RegistryRefines
