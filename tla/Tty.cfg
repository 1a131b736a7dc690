\* The main program and a handler print on one screen.
CONSTANTS
    Width = 3
    Height = 2
    Byte = 3
    Beyond = 2
    Glyphs = {a}
    Newline = newline
    Blank = blank
    Other = other

SPECIFICATION Spec

INVARIANTS
    TypeOK
    CursorOnScreen
    ScreenShowsText

PROPERTIES
    CursorShown
