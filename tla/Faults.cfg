\* Every exception, and an NMI at every step of its handling.
CONSTANTS
    Traps <- AllVectors
    LowWords <- MCLowWords

CHECK_DEADLOCK FALSE

SPECIFICATION Spec

INVARIANTS
    TypeOK
    FrameLayout
    ReportedTruly

PROPERTIES
    AlwaysReported
