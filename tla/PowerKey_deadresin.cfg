SPECIFICATION Spec
CONSTANTS
    LONG_PRESS = 3
    COMBO_WINDOW = 1
    WAKE_GUARD = 2
    READ_EVENTS = 8
    MAX_LAG = 3
    MAX_QUEUE = 2
    MAX_JOBS = 1
    Hazards <- OnlyUnplug
INVARIANT ChordEnds
