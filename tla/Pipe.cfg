SPECIFICATION FairSpec
CONSTANTS
    OtherEof = TRUE
    Uses <- MCUses
CHECK_DEADLOCK FALSE
INVARIANTS ReadableRight ClearNeverStuck
PROPERTIES ReaderGetsOn
