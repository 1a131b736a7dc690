---------------------------------- MODULE Tty ----------------------------------
(* The text terminal (kernel/arch/i386/tty.c): terminal_putchar_attr as the     *)
(* main program executes it, memory access by memory access, and as an          *)
(* interrupt handler executes it in between, from beginning to end:             *)
(* ps2kb_handler prints through shell_key while the main program prints.        *)
(* Optimised, the code reads row and column once each and works on the copies.  *)
(* Every store of the source is here, those past the edge of the screen that    *)
(* the next store takes back among them, which a compiler may leave out: a      *)
(* build without them does what this one does without a handler in between.     *)
(* Colours are left out.                                                        *)
EXTENDS Integers, Sequences

CONSTANTS Width, Height,  (* 80 and 25                                          *)
          Byte,           (* 256: the cursor's position has two bytes           *)
          Beyond,         (* bound: how far off the screen a handler starts     *)
          Glyphs,         (* the characters printed, other than a newline       *)
          Newline, Blank, Other

ASSUME TtyAssumption ==
    /\ {Width, Height} \subseteq Nat \ {0, 1}
    /\ Byte \in Nat \ {0} /\ Beyond \in Nat \ {0}
    /\ Newline \notin Glyphs /\ Blank \notin Glyphs /\ Other \notin Glyphs \cup {Blank}

Size == Width * Height

VARIABLES terminal_row, terminal_column,
          terminal_buffer,  (* the words of the screen and the one behind them  *)
          crtc,             (* the index register and the cursor's two bytes    *)
          pc,               (* the main program's next access                   *)
          reg,              (* its registers: character, row, column, loop      *)
                            (* counter and the cursor's position                *)
          disturbed,        (* history: this character's printing was preempted *)
          clean,            (* history: none has been since the page was turned *)
          text              (* history: what was printed on this page           *)

memory == <<terminal_row, terminal_column, terminal_buffer>>

history == <<disturbed, clean, text>>

vars == <<memory, crtc, pc, reg, history>>

CURSOR_HIGH == 14

CURSOR_LOW == 15

(* After terminal_initialise.                                                   *)
Init ==
    /\ terminal_row = 0 /\ terminal_column = 0
    /\ terminal_buffer = [i \in 0 .. Size |-> IF i = Size THEN Other ELSE Blank]
    /\ crtc = [index |-> CURSOR_LOW, low |-> 0, high |-> 0]
    /\ pc = "idle" /\ reg = [char |-> Blank, row |-> 0, column |-> 0, i |-> 0, pos |-> 0]
    /\ disturbed = FALSE /\ clean = TRUE /\ text = <<>>
--------------------------------------------------------------------------------
(* The reference: what a page of text looks like.                               *)

(* The position behind the first n characters of t.                             *)
PositionIn(t, n) ==
    LET position[m \in 0 .. n] ==
            IF m = 0 THEN 0
            ELSE IF t[m] = Newline
                    THEN (position[m - 1] \div Width + 1) * Width
                    ELSE position[m - 1] + 1
    IN position[n]

Layout(t) ==
    [i \in 0 .. Size - 1 |->
        IF \E n \in 1 .. Len(t) : t[n] # Newline /\ PositionIn(t, n - 1) = i
           THEN t[CHOOSE n \in 1 .. Len(t) : t[n] # Newline /\ PositionIn(t, n - 1) = i]
           ELSE Blank]

(* A page that is full is turned at once.                                       *)
TextAfter(t, c) ==
    LET longer == Append(t, c)
    IN IF PositionIn(longer, Len(longer)) >= Size THEN <<>> ELSE longer
--------------------------------------------------------------------------------
(* terminal_putchar_attr by the main program *)

Goto(next) == pc' = next

LoadRow(c) ==
    /\ pc = "idle"
    /\ reg' = [reg EXCEPT !.char = c, !.row = terminal_row]
    /\ Goto(IF c = Newline THEN "store_column" ELSE "load_column")
    /\ disturbed' = FALSE
    /\ UNCHANGED <<memory, crtc, clean, text>>

LoadColumn ==
    /\ pc = "load_column"
    /\ reg' = [reg EXCEPT !.column = terminal_column]
    /\ Goto("putentryat")
    /\ UNCHANGED <<memory, crtc, history>>

PutEntryAt ==
    /\ pc = "putentryat"
    /\ terminal_buffer' =
            [terminal_buffer EXCEPT ![reg.row * Width + reg.column] = reg.char]
    /\ Goto("store_column")
    /\ UNCHANGED <<terminal_row, terminal_column, crtc, reg, history>>

(* Fault: rows and columns confused.                                            *)
PositionTransposed(row, column) == row * Height + column

Position(row, column) == row * Width + column

ShowCursor(row, column) ==
    /\ reg' = [reg EXCEPT !.pos = Position(row, column)]
    /\ Goto("index_low")

(* Fault: the column is read again to be incremented.                           *)
NextColumnReread == terminal_column + 1

NextColumn == reg.column + 1

(* terminal_column = 0 or terminal_column++.                                    *)
StoreColumn ==
    /\ pc = "store_column"
    /\ \/ /\ reg.char = Newline
          /\ terminal_column' = 0
          /\ Goto("store_row")
          /\ UNCHANGED reg
       \/ /\ reg.char # Newline /\ reg.column + 1 = Width
          /\ terminal_column' = NextColumn
          /\ Goto("reset_column")
          /\ UNCHANGED reg
       \/ /\ reg.char # Newline /\ reg.column + 1 # Width
          /\ terminal_column' = NextColumn
          /\ ShowCursor(reg.row, reg.column + 1)
    /\ UNCHANGED <<terminal_row, terminal_buffer, crtc, history>>

ResetColumn ==
    /\ pc = "reset_column"
    /\ terminal_column' = 0
    /\ Goto("store_row")
    /\ UNCHANGED <<terminal_row, terminal_buffer, crtc, reg, history>>

(* Faults: the last row is one too many; only the first row is cleared.         *)
PageIsFullLate == reg.row = Height

ClsFromWidth == Width

PageIsFull == reg.row + 1 = Height

ClsFrom == Size

TurnPage ==
    /\ terminal_row' = 0
    /\ reg' = [reg EXCEPT !.i = ClsFrom]
    /\ Goto("terminal_cls")

(* terminal_row++; a newline compares before, a character behind the last       *)
(* column after it.                                                             *)
StoreRow ==
    /\ pc = "store_row"
    /\ \/ /\ ~ PageIsFull
          /\ terminal_row' = reg.row + 1
          /\ ShowCursor(reg.row + 1, 0)
       \/ /\ PageIsFull /\ reg.char = Newline
          /\ TurnPage
       \/ /\ PageIsFull /\ reg.char # Newline
          /\ terminal_row' = reg.row + 1
          /\ Goto("reset_row")
          /\ UNCHANGED reg
    /\ UNCHANGED <<terminal_column, terminal_buffer, crtc, history>>

ResetRow ==
    /\ pc = "reset_row"
    /\ TurnPage
    /\ UNCHANGED <<terminal_column, terminal_buffer, crtc, history>>

(* One round of terminal_cls, which goes from Size down to 0.                   *)
Cls ==
    /\ pc = "terminal_cls"
    /\ terminal_buffer' = [terminal_buffer EXCEPT ![reg.i] = Blank]
    /\ IF reg.i = 0
          THEN ShowCursor(0, 0)
          ELSE /\ reg' = [reg EXCEPT !.i = @ - 1]
               /\ UNCHANGED pc
    /\ UNCHANGED <<terminal_row, terminal_column, crtc, history>>

(* A write to the data port goes to the register the index port last named.     *)
Outw(regs, byte) ==
    IF regs.index = CURSOR_LOW
       THEN [regs EXCEPT !.low = byte]
       ELSE [regs EXCEPT !.high = byte]

(* A word written to the index port goes to both ports: its low byte names a    *)
(* register and its high byte, 0, is the data.                                  *)
Select(regs, index) == Outw([regs EXCEPT !.index = index], 0)

(* The four writes of update_cursor.                                            *)
CursorIndex(here, index, next) ==
    /\ pc = here
    /\ crtc' = Select(crtc, index)
    /\ Goto(next)
    /\ UNCHANGED <<memory, reg, history>>

CursorLow ==
    /\ pc = "data_low"
    /\ crtc' = Outw(crtc, reg.pos % Byte)
    /\ Goto("index_high")
    /\ UNCHANGED <<memory, reg, history>>

(* The last access; the history is brought up to date.                          *)
CursorHigh ==
    /\ pc = "data_high"
    /\ crtc' = Outw(crtc, reg.pos \div Byte)
    /\ Goto("idle")
    /\ clean' = (~ disturbed /\ (clean \/ reg.pos = 0))
    /\ text' = IF clean' /\ clean THEN TextAfter(text, reg.char) ELSE <<>>
    /\ UNCHANGED <<memory, reg, disturbed>>

Putchar ==
    \/ LoadColumn \/ PutEntryAt \/ StoreColumn \/ ResetColumn \/ StoreRow \/ ResetRow
    \/ Cls
    \/ CursorIndex("index_low", CURSOR_LOW, "data_low") \/ CursorLow
    \/ CursorIndex("index_high", CURSOR_HIGH, "data_high") \/ CursorHigh
--------------------------------------------------------------------------------
(* terminal_putchar_attr by an interrupt handler, and between two characters of *)
(* the main program                                                             *)

(* The words further out than the one behind the screen are left out: nothing   *)
(* reads them.                                                                  *)
Interrupt(c) ==
    LET cell     == Position(terminal_row, terminal_column)
        wraps    == c = Newline \/ terminal_column + 1 = Width
        turns    == wraps /\ terminal_row + 1 = Height
        column   == IF wraps THEN 0 ELSE terminal_column + 1
        row      == CASE turns            -> 0
                      [] wraps /\ ~ turns -> terminal_row + 1
                      [] ~ wraps          -> terminal_row
        position == Position(row, column)
    IN /\ terminal_row < Height + Beyond /\ terminal_column < Width + Beyond
       /\ terminal_row' = row
       /\ terminal_column' = column
       /\ terminal_buffer' =
            CASE turns -> [i \in 0 .. Size |-> Blank]
              [] ~ turns /\ c # Newline /\ cell \in 0 .. Size ->
                    [terminal_buffer EXCEPT ![cell] = c]
              [] OTHER -> terminal_buffer
       /\ crtc' = [index |-> CURSOR_HIGH,
                   low   |-> position % Byte,
                   high  |-> position \div Byte]
       /\ disturbed' = TRUE
       /\ clean' = IF pc = "idle" THEN clean \/ turns ELSE clean
       /\ text' = IF pc = "idle" /\ clean THEN TextAfter(text, c) ELSE <<>>
       /\ UNCHANGED <<pc, reg>>

Chars == Glyphs \cup {Newline}

Next ==
    \/ \E c \in Chars : LoadRow(c) \/ Interrupt(c)
    \/ Putchar

Spec == Init /\ [][Next]_vars
--------------------------------------------------------------------------------
(* Properties *)

Cells == Glyphs \cup {Blank}

(* The values of the variables.                                                 *)
TypeOK ==
    /\ terminal_row \in Nat /\ terminal_column \in Nat
    /\ terminal_buffer \in [0 .. Size -> Cells \cup {Other}]
    /\ crtc \in [index : {CURSOR_LOW, CURSOR_HIGH}, low : Nat, high : Nat]
    /\ pc \in {"idle", "load_column", "putentryat", "store_column", "reset_column",
               "store_row", "reset_row", "terminal_cls",
               "index_low", "data_low", "index_high", "data_high"}
    /\ reg \in [char : Chars \cup {Blank}, row : Nat, column : Nat,
                i : 0 .. Size, pos : 0 .. Size - 1]
    /\ disturbed \in BOOLEAN /\ clean \in BOOLEAN
    /\ text \in Seq(Chars)

(* A row or column stored past the edge is off the screen until the next store  *)
(* takes it back, and a handler that prints just then prints off the screen and *)
(* steps over the comparison for equality, further out with each character.     *)
(* There is no other way off the screen, from stale copies or otherwise, and    *)
(* this one is back with the main program's next store, which looks at its own  *)
(* copies: what the main program reads, and where it prints, is on the screen.  *)
CursorOnScreen ==
    /\ pc # "reset_row" => terminal_row < Height
    /\ pc # "reset_column" => terminal_column < Width
    /\ reg.row < Height /\ reg.column < Width
    /\ reg.row * Width + reg.column < Size

(* As long as no character of a page was preempted, by a handler that prints,   *)
(* the screen shows the text of the page and the next character goes behind it; *)
(* what a preemption spoils is over with the page: the next page turned in      *)
(* peace is in order again.                                                     *)
ScreenShowsText ==
    pc = "idle" /\ clean =>
        /\ terminal_row * Width + terminal_column = PositionIn(text, Len(text))
        /\ \A i \in 0 .. Size - 1 : terminal_buffer[i] = Layout(text)[i]

(* The cursor on the display is where the next character goes, once a character *)
(* has been printed without a handler that prints in between: a torn pair of    *)
(* index and data writes does not last.                                         *)
CursorShown ==
    [][pc # "idle" /\ pc' = "idle" /\ ~ disturbed =>
          (crtc.high * Byte + crtc.low = terminal_row * Width + terminal_column)']_vars

(* "VGA_MEM_SIZE = 2000; // 80*25" (tty.c): the word behind the screen is not   *)
(* the terminal's.                                                              *)
WritesInBuffer == terminal_buffer[Size] = Other
================================================================================
