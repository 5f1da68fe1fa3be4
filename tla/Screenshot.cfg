SPECIFICATION FairSpec
CONSTANTS
    MaxRestarts = 2
    MaxInbox = 3
    Tapped = "tapped"
    TrayHazards <- Busy
    Taps = {t1}
    Chords = {c1}
    TrayLadder <- Script
    DaemonLadder <- Daemon
    Releases <- Spectacles
    LastSecond = 1
    NoShot = noshot
    Hazards <- Everything
INVARIANTS
    OneCapture
    SavedIsThere
PROPERTIES
    IconShown
CHECK_DEADLOCK FALSE
