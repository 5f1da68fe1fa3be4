SPECIFICATION FairSpec
CONSTANTS
    INPUT_MA = 2000
    CHARGE_MA = 2000
    RESET_IN = 16
    RESET_CHG = 0
    OtherLimits = {50, 178}
    Hazards <- Failures
INVARIANTS
    BoostFirst
    DoneMatches
PROPERTIES
    OnlyRaises
    InputGranted
