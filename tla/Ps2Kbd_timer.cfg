\* A stale request makes the handler poll with interrupts off: the timer stops.
CONSTANTS
    Keys <- Controls
    MaxFrames = 2

SPECIFICATION Spec

PROPERTIES
    TicksServed
