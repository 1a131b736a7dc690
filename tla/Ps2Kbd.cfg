\* The keyboard from the wire to the shell, on both machines.
CONSTANTS
    Keys <- Controls
    MaxFrames = 2

SPECIFICATION Spec

INVARIANTS
    TypeOK
    FrameSync
    ByteAnnounced
    HandlerHasData

PROPERTIES
    ImplementsKeyboard
    ImplementsDispatch
    FramesDecoded
