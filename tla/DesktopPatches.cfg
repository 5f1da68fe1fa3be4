SPECIFICATION Spec
CONSTANTS
    Shipped <- Plasma
    MALIIT_TARGETS <- Keyboard
    UCM_FILES <- Profile
    Stash <- Stashed
    Hazards <- Everything
INVARIANTS
    StockIsStock
    DoneInPlace
PROPERTIES
    PatchesAtomically
    SettledIsIdle
