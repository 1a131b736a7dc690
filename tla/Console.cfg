SPECIFICATION Spec
CONSTANTS
    Word = 4096
    INT_DIGITS = 4
    Chars <- Characters
    Infos <- ThreeInfos
    EarlyCalls <- Early
    Markers <- Addresses
    LateCalls <- Late
    Traces <- Three
INVARIANTS
    TypeOK
    DecimalRight
    HexadecimalRight
    EntriesListed
