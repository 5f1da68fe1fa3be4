SPECIFICATION FairSpec
CONSTANTS
    Map <- TurnedMap
    MAX_INBOX = 2
    Hazards <- AllHazards
INVARIANTS
    ClaimIsReal
    RestsRight
    OneLateRotation
PROPERTY Settles
