SPECIFICATION Spec

CONSTANTS
    roll_size = 3
    kMaxSeq = 1000000
    PrefixLen = 2
    PayloadLens = {2}
    Days = 2
    MaxLines = 3

INVARIANTS
    NoFileOverfull
    FilesTellTheStory
    KillCostsOneInterval

PROPERTIES
    AppendOnly
