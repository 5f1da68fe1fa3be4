SPECIFICATION FairSpec
CONSTANTS
    Tids = {t1}
    Contacts = {t1, t2}
    FIFO_MAX = 2
    READY_POLLS = 2
    ERROR_POLLS = 2
    ECHO_POLLS = 1
    FIFO_DEPTH = 2
    MAX_DEPTH = 2
    Hazards <- AllHazards
INVARIANTS
    IrqOnlyPowered
    SuspendedReleased
    RailsBalanced
    NoGhostFinger
    ListensAfterResume
PROPERTY BringUpEnds
