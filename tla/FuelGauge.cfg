SPECIFICATION FairSpec
CONSTANTS
    Currents <- EdgeCurrents
    Charges <- EdgeCharges
INVARIANTS
    DecodeRight
PROPERTIES
    OnlyTransitions
    Noticed
