\* Keys of every class that the handler tells apart, in every order.
CONSTANTS
    Keys <- MCKeys
    MaxFrames = 2

SPECIFICATION Spec

INVARIANTS
    TypeOK
    NoPhantomModifier
    HeldModifierReported
    NoStuckModifier
    SeenCatchesUp

PROPERTIES
    CharOnlyUnmodified
