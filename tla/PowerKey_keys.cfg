SPECIFICATION FairSpec
CONSTANTS
    LONG_PRESS = 2
    COMBO_WINDOW = 1
    WAKE_GUARD = 1
    READ_EVENTS = 8
    MAX_LAG = 2
    MAX_QUEUE = 2
    MAX_JOBS = 2
    Hazards <- BlankAndRace
INVARIANT ChordEnds
PROPERTIES
    DarkIsOurs
    HoldOpensMenu
