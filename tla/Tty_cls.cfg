\* Turning the page writes one word too many.
CONSTANTS
    Width = 2
    Height = 2
    Byte = 3
    Beyond = 1
    Glyphs = {a}
    Newline = newline
    Blank = blank
    Other = other

SPECIFICATION Spec

INVARIANTS
    WritesInBuffer
