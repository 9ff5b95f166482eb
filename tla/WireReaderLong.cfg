\* A command longer than one read, up to two fields.
SPECIFICATION Spec
CONSTANTS
    Lengths = {0, 1, 2}
    MaxFields = 2
    Chunk = 6
PROPERTY CommandIsRead
CHECK_DEADLOCK FALSE
