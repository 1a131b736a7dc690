SPECIFICATION Spec
CONSTANTS
    Machines <- SomeMachines
    KeyBytes <- LetterA
    MaxKeys = 2
INVARIANTS
    TypeOK
    OnlyKeyboardInterrupts
    KeyboardLeftOn
    InStepAtReturn
PROPERTY
    InitReturns
CHECK_DEADLOCK FALSE
