SPECIFICATION FairSpec
CONSTANTS
    Devs = {d1, d2}
    IDLE_ON_AC = 3
    IDLE_ON_BATTERY = 2
    FAILURE_BACKOFF = 1
    POST_RESUME_GRACE = 1
    CAP = 3
    PowerStates <- AllPower
    Hazards <- Everything
PROPERTIES
    NeverInUse
    NotHammered
    InhibitorHeard
    AloneSuspends
