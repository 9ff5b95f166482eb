\* Commands of up to three fields, the longest of them cut into two reads.
SPECIFICATION Spec
CONSTANTS
    Lengths = {0, 1, 2}
    MaxFields = 3
    Chunk = 9
INVARIANTS
    TypeOK
    NeverMisread
    RefusalHasCause
PROPERTIES
    SmallCommandIsRead
CHECK_DEADLOCK FALSE
