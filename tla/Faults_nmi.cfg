\* An NMI is reported as something else.
CONSTANTS
    Traps <- AllVectors
    LowWords <- MCLowWords

CHECK_DEADLOCK FALSE

SPECIFICATION Spec

INVARIANTS
    NmiReported
