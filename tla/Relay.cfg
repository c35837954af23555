SPECIFICATION FairSpec
CONSTANTS
    Uses <- MCUses
    Drops = TRUE
    MaxStatuses = 2
CHECK_DEADLOCK FALSE
INVARIANTS StreamsWhole ShownIsLogged NoSendallAfterShutdown OneExitStatus
PROPERTIES LoopEnds
