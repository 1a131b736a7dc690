\* Waits of every length from every moment, over two wrap-arounds of the count.
CONSTANTS
    WordSize = 16
    TicksPerSecond = 5
    Phases = 2
    MaxBody = 3
    WaitArgs <- Arguments
    MaxTotal = 36

SPECIFICATION Spec

INVARIANTS
    TypeOK
    SecondsKeepUp
    WaitNotLate

PROPERTIES
    WaitNotEarly
    WaitEnds
