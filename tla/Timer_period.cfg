\* A wait of one tick may be shorter than a period.
CONSTANTS
    WordSize = 16
    TicksPerSecond = 5
    Phases = 2
    MaxBody = 3
    WaitArgs <- Arguments
    MaxTotal = 6

SPECIFICATION Spec

PROPERTIES
    WaitsWholePeriods
