SPECIFICATION KSpec
CONSTANTS
    Builds = {k1, k2}
    Room = 3
    Faults <- AllFaults
SYMMETRY Kernels
INVARIANTS
    BootsSomething
    RolledBack
