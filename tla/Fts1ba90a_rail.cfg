SPECIFICATION Spec
CONSTANTS
    Tids = {t1}
    Contacts = {t1}
    FIFO_MAX = 2
    READY_POLLS = 1
    ERROR_POLLS = 1
    ECHO_POLLS = 1
    FIFO_DEPTH = 2
    MAX_DEPTH = 2
    Hazards <- OnlyRail
INVARIANT OnMeansListening
