\* The interrupt path on both machines.
CONSTANTS
    Lines <- MCLines
    Handlers = {handler}
    NoHandler = none

SPECIFICATION Spec

INVARIANTS
    TypeOK
    NoOrphanInService
    LookupInBounds

PROPERTIES
    RequestsDrain
    TimerLineServed
