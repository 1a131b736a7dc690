-------------------------------- MODULE TtyProofs ------------------------------
(* Proofs about Tty, for every size of the screen and every set of characters.  *)
EXTENDS Tty, TLAPS, SequenceTheorems, WellFoundedInduction

(* CursorOnScreen with the types of the four numbers it bounds; inductive.      *)
IInv ==
    /\ terminal_row \in Nat /\ terminal_column \in Nat
    /\ pc # "reset_row" => terminal_row \in 0 .. Height - 1
    /\ pc # "reset_column" => terminal_column \in 0 .. Width - 1
    /\ reg.row \in 0 .. Height - 1
    /\ reg.column \in 0 .. Width - 1
    /\ DOMAIN reg = {"char", "row", "column", "i", "pos"}

LEMMA InitIInv == Init => IInv
BY TtyAssumption DEF Init, IInv

(* Where a handler that prints c leaves row and column.                         *)
Wraps(c, column) == c = Newline \/ column + 1 = Width

HandlerRow(c) ==
    IF ~ Wraps(c, terminal_column) THEN terminal_row
    ELSE IF terminal_row + 1 = Height THEN 0 ELSE terminal_row + 1

HandlerColumn(c) == IF Wraps(c, terminal_column) THEN 0 ELSE terminal_column + 1

LEMMA NextIInv == IInv /\ [Next]_vars => IInv'
<1> SUFFICES ASSUME IInv, [Next]_vars PROVE IInv'
  OBVIOUS
<1>0. Width \in Nat /\ Height \in Nat /\ Width > 1 /\ Height > 1
  BY TtyAssumption
<1>1. ASSUME NEW c \in Chars, LoadRow(c) PROVE IInv'
  BY <1>1 DEF IInv, LoadRow, Goto, memory
<1>2. ASSUME NEW c \in Chars, Interrupt(c) PROVE IInv'
  <2>1. /\ reg' = reg /\ pc' = pc
        /\ terminal_row' = HandlerRow(c)
        /\ terminal_column' = HandlerColumn(c)
    BY <1>2 DEF Interrupt, HandlerRow, HandlerColumn, Wraps
  <2>2. /\ HandlerRow(c) \in Nat
        /\ terminal_row \in 0 .. Height - 1 => HandlerRow(c) \in 0 .. Height - 1
    BY <1>0 DEF IInv, HandlerRow
  <2>3. /\ HandlerColumn(c) \in Nat
        /\ terminal_column \in 0 .. Width - 1 => HandlerColumn(c) \in 0 .. Width - 1
    BY <1>0 DEF IInv, HandlerColumn, Wraps
  <2> QED BY <2>1, <2>2, <2>3 DEF IInv
<1>3. CASE LoadColumn
  BY <1>3 DEF IInv, LoadColumn, Goto, memory
<1>4. CASE PutEntryAt
  BY <1>4 DEF IInv, PutEntryAt, Goto
<1>5. CASE StoreColumn
  <2>1. /\ terminal_column' \in Nat
        /\ pc' # "reset_column" => terminal_column' \in 0 .. Width - 1
    BY <1>0, <1>5 DEF IInv, StoreColumn, NextColumn, Goto
  <2>2. /\ terminal_row' = terminal_row /\ pc = "store_column"
        /\ reg' = reg \/ \E p : reg' = [reg EXCEPT !.pos = p]
    BY <1>5 DEF StoreColumn, ShowCursor
  <2> QED BY <2>1, <2>2 DEF IInv
<1>6. CASE StoreRow
  <2>1. /\ terminal_row' \in Nat
        /\ pc' # "reset_row" => terminal_row' \in 0 .. Height - 1
    BY <1>0, <1>6 DEF IInv, StoreRow, TurnPage, PageIsFull, Goto
  <2>2. /\ terminal_column' = terminal_column /\ pc = "store_row"
        /\ \/ reg' = reg
           \/ \E n : reg' = [reg EXCEPT !.i = n]
           \/ \E p : reg' = [reg EXCEPT !.pos = p]
    BY <1>6 DEF StoreRow, TurnPage, ShowCursor
  <2> QED BY <2>1, <2>2 DEF IInv
<1>7. CASE Cls
  <2>1. /\ UNCHANGED <<terminal_row, terminal_column>> /\ pc = "terminal_cls"
        /\ (\E n : reg' = [reg EXCEPT !.i = n]) \/ \E p : reg' = [reg EXCEPT !.pos = p]
    BY <1>7 DEF Cls, ShowCursor
  <2> QED BY <2>1 DEF IInv
<1>8. ASSUME \/ CursorIndex("index_low", CURSOR_LOW, "data_low")
             \/ CursorLow
             \/ CursorIndex("index_high", CURSOR_HIGH, "data_high")
             \/ CursorHigh
             \/ UNCHANGED vars
      PROVE  IInv'
  <2>1. /\ UNCHANGED <<terminal_row, terminal_column, reg>>
        /\ pc' = pc \/ pc \notin {"reset_row", "reset_column"}
    BY <1>8 DEF CursorIndex, CursorLow, CursorHigh, memory, vars
  <2> QED BY <2>1 DEF IInv
<1>9. CASE ResetColumn
  <2>1. UNCHANGED <<terminal_row, reg>> /\ terminal_column' = 0 /\ pc = "reset_column"
    BY <1>9 DEF ResetColumn
  <2> QED BY <1>0, <2>1 DEF IInv
<1>10. CASE ResetRow
  <2>1. /\ terminal_row' = 0 /\ UNCHANGED terminal_column /\ pc = "reset_row"
        /\ \E n : reg' = [reg EXCEPT !.i = n]
    BY <1>10 DEF ResetRow, TurnPage
  <2> QED BY <1>0, <2>1 DEF IInv
<1> QED
  BY <1>1, <1>2, <1>3, <1>4, <1>5, <1>6, <1>7, <1>8, <1>9, <1>10 DEF Next, Putchar

(* A screen position in range is a word of the screen: the arithmetic under     *)
(* terminal_putentryat.                                                         *)
LEMMA CellOnScreen ==
    ASSUME NEW row \in 0 .. Height - 1, NEW column \in 0 .. Width - 1
    PROVE  row * Width + column \in 0 .. Size - 1
<1>1. Width \in Nat /\ Height \in Nat /\ row \in Nat /\ column \in Nat
  BY TtyAssumption
<1>2. row * Width \in Nat /\ (row + 1) * Width = row * Width + Width
  BY <1>1
<1>3. Height - (row + 1) \in Nat /\ (Height - (row + 1)) * Width \in Nat
  BY <1>1
<1>4. Height * Width = (Height - (row + 1)) * Width + (row + 1) * Width
  BY <1>1
<1>5. Size = Height * Width /\ Size \in Nat
  BY <1>1 DEF Size
<1> QED BY <1>1, <1>2, <1>3, <1>4, <1>5

(* However the handlers print in between, row and column leave the screen only  *)
(* between a store past the edge and the next one, and what the main program    *)
(* stores, it stores in a word of the screen: whatever handlers did meanwhile,  *)
(* it is back on the screen with the next store.                                *)
THEOREM CursorStaysOnScreen == Spec => []CursorOnScreen
<1>1. IInv => CursorOnScreen
  <2>1. IInv => reg.row * Width + reg.column < Size
    BY CellOnScreen, TtyAssumption DEF IInv, Size
  <2> QED BY <2>1, TtyAssumption DEF IInv, CursorOnScreen
<1> QED BY InitIInv, NextIInv, <1>1, PTL DEF Spec
--------------------------------------------------------------------------------
Registers ==
    [char : Chars \cup {Blank}, row : Nat, column : Nat, i : 0 .. Size, pos : 0 .. Size - 1]

(* TypeOK needs IInv, for the word stored and the cursor's position, and to     *)
(* know what is being printed: a newline never gets to terminal_putentryat.     *)
Typed ==
    /\ IInv
    /\ TypeOK
    /\ pc # "idle" => reg.char \in Chars
    /\ pc \in {"load_column", "putentryat"} => reg.char \in Glyphs
    /\ pc = "reset_row" => PageIsFull

LEMMA SizeIs ==
    /\ Width \in Nat /\ Height \in Nat /\ Width > 1 /\ Height > 1
    /\ Byte \in Nat /\ Byte > 0
    /\ Size \in Nat /\ Size = Width * Height /\ Size > 0
    /\ \A row \in 0 .. Height - 1, column \in 0 .. Width - 1 :
          Position(row, column) \in 0 .. Size - 1
<1>1. Width \in Nat /\ Height \in Nat /\ Width > 1 /\ Height > 1 /\ Byte \in Nat /\ Byte > 0
  BY TtyAssumption
<1>2. \A row \in 0 .. Height - 1, column \in 0 .. Width - 1 :
         Position(row, column) \in 0 .. Size - 1
  BY CellOnScreen DEF Position
<1>3. Size \in Nat /\ Size = Width * Height
  BY <1>1 DEF Size
<1>4. 0 \in 0 .. Height - 1 /\ 0 \in 0 .. Width - 1
  BY <1>1
<1>5. 0 * Width + 0 \in 0 .. Size - 1
  BY <1>4, CellOnScreen
<1>6. Size > 0
  BY <1>3, <1>5
<1> QED BY <1>1, <1>2, <1>3, <1>6

LEMMA InitTyped == Init => Typed
<1> SUFFICES ASSUME Init PROVE Typed
  OBVIOUS
<1>1. reg \in Registers
  BY SizeIs DEF Init, Registers
<1>2. TypeOK
  <2>1. terminal_buffer \in [0 .. Size -> Cells \cup {Other}]
    BY DEF Init, Cells
  <2>2. crtc \in [index : {CURSOR_LOW, CURSOR_HIGH}, low : Nat, high : Nat]
    BY DEF Init
  <2>3. text \in Seq(Chars)
    BY DEF Init
  <2> QED BY <1>1, <2>1, <2>2, <2>3 DEF Init, TypeOK, Registers
<1> QED BY <1>2, InitIInv DEF Init, Typed

LEMMA CursorAfter ==
    ASSUME Typed, NEW row \in 0 .. Height - 1, NEW column \in 0 .. Width - 1,
           ShowCursor(row, column)
    PROVE  reg' \in Registers /\ reg'.char = reg.char /\ pc' = "index_low"
<1>1. Position(row, column) \in 0 .. Size - 1
  BY SizeIs
<1>2. reg \in Registers
  BY DEF Typed, TypeOK, Registers
<1>3. reg' = [reg EXCEPT !.pos = Position(row, column)] /\ pc' = "index_low"
  BY DEF ShowCursor, Goto
<1> QED BY <1>1, <1>2, <1>3 DEF Registers

CrtcRegisters == [index : {CURSOR_LOW, CURSOR_HIGH}, low : Nat, high : Nat]

LEMMA OutwIs ==
    ASSUME NEW regs \in CrtcRegisters, NEW byte \in Nat
    PROVE  /\ Outw(regs, byte) \in CrtcRegisters
           /\ Outw(regs, byte).index = regs.index
           /\ regs.index = CURSOR_LOW =>
                 Outw(regs, byte).low = byte /\ Outw(regs, byte).high = regs.high
           /\ regs.index = CURSOR_HIGH =>
                 Outw(regs, byte).high = byte /\ Outw(regs, byte).low = regs.low
<1>1. CASE regs.index = CURSOR_LOW
  BY <1>1 DEF Outw, CrtcRegisters, CURSOR_LOW, CURSOR_HIGH
<1>2. CASE regs.index = CURSOR_HIGH
  BY <1>2 DEF Outw, CrtcRegisters, CURSOR_LOW, CURSOR_HIGH
<1> QED BY <1>1, <1>2 DEF CrtcRegisters

LEMMA SelectIs ==
    ASSUME NEW regs \in CrtcRegisters, NEW index \in {CURSOR_LOW, CURSOR_HIGH}
    PROVE  /\ Select(regs, index) \in CrtcRegisters
           /\ Select(regs, index).index = index
           /\ index = CURSOR_LOW => Select(regs, index).high = regs.high
           /\ index = CURSOR_HIGH => Select(regs, index).low = regs.low
<1> DEFINE selected == [regs EXCEPT !.index = index]
<1>1. /\ selected \in CrtcRegisters /\ selected.index = index
      /\ selected.low = regs.low /\ selected.high = regs.high
  BY DEF CrtcRegisters
<1>2. Select(regs, index) = Outw(selected, 0) /\ 0 \in Nat
  BY DEF Select
<1> HIDE DEF selected
<1> QED BY <1>1, <1>2, OutwIs

LEMMA NextTyped == Typed /\ [Next]_vars => Typed'
<1> SUFFICES ASSUME Typed, [Next]_vars PROVE Typed'
  OBVIOUS
<1>1. /\ IInv' /\ IInv /\ TypeOK
      /\ pc # "idle" => reg.char \in Chars
      /\ pc \in {"load_column", "putentryat"} => reg.char \in Glyphs
      /\ pc = "reset_row" => PageIsFull
  BY NextIInv DEF Typed
<1>2. reg \in Registers
  BY <1>1 DEF TypeOK, Registers
<1>3. \A n \in Nat : n % Byte \in Nat /\ n \div Byte \in Nat
  BY SizeIs
<1>4. \A c \in Chars : \A t \in Seq(Chars) : TextAfter(t, c) \in Seq(Chars)
  BY DEF TextAfter
<1>5. terminal_row' \in Nat /\ terminal_column' \in Nat
  BY <1>1 DEF IInv
<1>6. Glyphs \subseteq Chars /\ Newline \notin Glyphs /\ Chars = Glyphs \cup {Newline}
  BY TtyAssumption DEF Chars
<1>7. ASSUME NEW c \in Chars, LoadRow(c) PROVE Typed'
  <2>1. reg' \in Registers /\ reg'.char = c
    <3>1. c \in Chars \cup {Blank} /\ terminal_row \in Nat
      BY <1>1, SizeIs DEF IInv
    <3>2. reg' = [reg EXCEPT !.char = c, !.row = terminal_row]
      BY <1>7 DEF LoadRow
    <3> QED BY <1>2, <3>1, <3>2 DEF Registers
  <2>2. c = Newline \/ c \in Glyphs
    BY <1>6
  <2> QED BY <1>1, <1>6, <1>7, <2>1, <2>2
          DEF Typed, TypeOK, Registers, LoadRow, Goto, memory
<1>8. ASSUME NEW c \in Chars, Interrupt(c) PROVE Typed'
  <2>1. terminal_buffer' \in [0 .. Size -> Cells \cup {Other}]
    <3>1. c # Newline => c \in Cells
      BY <1>6 DEF Cells
    <3>2. Blank \in Cells
      BY DEF Cells
    <3>3. \/ terminal_buffer' = [i \in 0 .. Size |-> Blank]
          \/ c # Newline /\ \E cell \in 0 .. Size :
                terminal_buffer' = [terminal_buffer EXCEPT ![cell] = c]
          \/ terminal_buffer' = terminal_buffer
      BY <1>8 DEF Interrupt
    <3> QED BY <1>1, <3>1, <3>2, <3>3 DEF TypeOK
  <2>2. crtc' \in [index : {CURSOR_LOW, CURSOR_HIGH}, low : Nat, high : Nat]
    <3>1. terminal_row' * Width + terminal_column' \in Nat
      <4>1. \A x \in Nat, y \in Nat : x * Width + y \in Nat
        BY TtyAssumption
      <4> QED BY <1>5, <4>1, Zenon
    <3>2. crtc' = [index |-> CURSOR_HIGH,
                   low   |-> (terminal_row' * Width + terminal_column') % Byte,
                   high  |-> (terminal_row' * Width + terminal_column') \div Byte]
      BY <1>8, Zenon DEF Interrupt, Position
    <3> QED BY <1>3, <3>1, <3>2, Zenon
  <2>3. text' \in Seq(Chars)
    BY <1>1, <1>4, <1>8 DEF TypeOK, Interrupt
  <2>4. disturbed' \in BOOLEAN /\ clean' \in BOOLEAN /\ pc' = pc /\ reg' = reg
    <3>1. clean' = IF pc = "idle"
                      THEN clean \/ ((c = Newline \/ terminal_column + 1 = Width)
                                        /\ terminal_row + 1 = Height)
                      ELSE clean
      BY <1>8 DEF Interrupt
    <3> QED BY <1>1, <1>8, <3>1 DEF TypeOK, Interrupt
  <2> QED BY <1>1, <1>5, <2>1, <2>2, <2>3, <2>4 DEF Typed, TypeOK, PageIsFull
<1>9. CASE LoadColumn
  <2>1. reg' \in Registers /\ reg'.char = reg.char
    BY <1>1, <1>2, <1>9 DEF IInv, LoadColumn, Registers
  <2> QED BY <1>1, <1>9, <2>1
          DEF Typed, TypeOK, Registers, LoadColumn, Goto, memory, history
<1>10. CASE PutEntryAt
  <2>1. terminal_buffer' \in [0 .. Size -> Cells \cup {Other}]
    <3>1. Position(reg.row, reg.column) \in 0 .. Size
      BY <1>1, SizeIs DEF IInv
    <3>2. reg.char \in Cells
      BY <1>1, <1>10 DEF PutEntryAt, Cells
    <3> QED BY <1>1, <1>10, <3>1, <3>2 DEF TypeOK, PutEntryAt, Position
  <2> QED BY <1>1, <1>6, <1>10, <2>1 DEF Typed, TypeOK, PutEntryAt, Goto, history
<1>11. CASE StoreColumn
  <2>1. \/ reg' = reg /\ pc' \in {"store_row", "reset_column"}
        \/ reg' \in Registers /\ reg'.char = reg.char /\ pc' = "index_low"
    <3>1. CASE reg.char = Newline \/ reg.column + 1 = Width
      BY <1>11, <3>1 DEF StoreColumn, Goto
    <3>2. CASE ~ (reg.char = Newline \/ reg.column + 1 = Width)
      <4>1. reg.row \in 0 .. Height - 1 /\ reg.column + 1 \in 0 .. Width - 1
        BY <1>1, <3>2, SizeIs DEF IInv
      <4>2. ShowCursor(reg.row, reg.column + 1)
        BY <1>11, <3>2 DEF StoreColumn
      <4> QED BY <4>1, <4>2, CursorAfter
    <3> QED BY <3>1, <3>2
  <2> QED BY <1>1, <1>2, <1>5, <1>11, <2>1 DEF Typed, TypeOK, Registers, StoreColumn, history
<1>12. CASE StoreRow
  <2>1. \/ reg' \in Registers /\ reg'.char = reg.char /\ pc' = "terminal_cls"
        \/ reg' \in Registers /\ reg'.char = reg.char /\ pc' = "index_low"
        \/ reg' = reg /\ pc' = "reset_row" /\ PageIsFull
    <3>1. CASE PageIsFull
      BY <1>2, <1>12, <3>1, SizeIs DEF StoreRow, TurnPage, Goto, Registers, ClsFrom
    <3>2. CASE ~ PageIsFull
      <4>1. reg.row + 1 \in 0 .. Height - 1 /\ 0 \in 0 .. Width - 1
        BY <1>1, <3>2, SizeIs DEF IInv, PageIsFull
      <4>2. ShowCursor(reg.row + 1, 0)
        BY <1>12, <3>2 DEF StoreRow
      <4> QED BY <4>1, <4>2, CursorAfter
    <3> QED BY <3>1, <3>2
  <2>2. pc' = "reset_row" => PageIsFull'
    BY <2>1 DEF PageIsFull
  <2> QED BY <1>1, <1>2, <1>5, <1>12, <2>1, <2>2
          DEF Typed, TypeOK, Registers, StoreRow, history
<1>13. CASE Cls
  <2>1. \/ reg' \in Registers /\ reg'.char = reg.char /\ pc' = pc
        \/ reg' \in Registers /\ reg'.char = reg.char /\ pc' = "index_low"
    <3>1. CASE reg.i = 0
      <4>1. 0 \in 0 .. Height - 1 /\ 0 \in 0 .. Width - 1
        BY SizeIs
      <4> QED BY <1>13, <3>1, <4>1, CursorAfter DEF Cls
    <3>2. CASE reg.i # 0
      BY <1>2, <1>13, <3>2, SizeIs DEF Cls, Registers
    <3> QED BY <3>1, <3>2
  <2>2. terminal_buffer' \in [0 .. Size -> Cells \cup {Other}]
    BY <1>1, <1>13 DEF TypeOK, Cls, Cells
  <2> QED BY <1>1, <1>5, <1>13, <2>1, <2>2 DEF Typed, TypeOK, Registers, Cls, history
<1>14. ASSUME \/ CursorIndex("index_low", CURSOR_LOW, "data_low")
              \/ CursorIndex("index_high", CURSOR_HIGH, "data_high")
       PROVE  Typed'
  <2>1. crtc' \in [index : {CURSOR_LOW, CURSOR_HIGH}, low : Nat, high : Nat]
    <3>1. crtc' = Select(crtc, CURSOR_LOW) \/ crtc' = Select(crtc, CURSOR_HIGH)
      BY <1>14 DEF CursorIndex
    <3> QED BY <1>1, <3>1, SelectIs DEF TypeOK, CrtcRegisters
  <2> QED BY <1>1, <1>14, <2>1 DEF Typed, TypeOK, CursorIndex, Goto, memory, history
<1>15. CASE CursorLow
  <2>1. crtc' \in [index : {CURSOR_LOW, CURSOR_HIGH}, low : Nat, high : Nat]
    <3>1. reg.pos % Byte \in Nat
      BY <1>1, <1>3 DEF TypeOK
    <3> QED BY <1>1, <1>15, <3>1 DEF TypeOK, CursorLow, Outw
  <2> QED BY <1>1, <1>15, <2>1 DEF Typed, TypeOK, CursorLow, Goto, memory, history
<1>16. CASE CursorHigh
  <2>1. crtc' \in [index : {CURSOR_LOW, CURSOR_HIGH}, low : Nat, high : Nat]
    <3>1. reg.pos \div Byte \in Nat
      BY <1>1, <1>3 DEF TypeOK
    <3> QED BY <1>1, <1>16, <3>1 DEF TypeOK, CursorHigh, Outw
  <2>2. text' \in Seq(Chars)
    BY <1>1, <1>4, <1>16 DEF TypeOK, CursorHigh
  <2>3. clean' \in BOOLEAN
    BY <1>16 DEF CursorHigh
  <2> QED BY <1>1, <1>16, <2>1, <2>2, <2>3 DEF Typed, TypeOK, CursorHigh, Goto, memory
<1>17. CASE UNCHANGED vars
  BY <1>1, <1>17 DEF Typed, TypeOK, PageIsFull, vars, memory, history
<1>18. CASE ResetColumn
  BY <1>1, <1>5, <1>18 DEF Typed, TypeOK, ResetColumn, Goto, history
<1>19. CASE ResetRow
  <2>1. reg' \in Registers /\ reg'.char = reg.char /\ pc' = "terminal_cls"
    BY <1>2, <1>19, SizeIs DEF ResetRow, TurnPage, Goto, Registers, ClsFrom
  <2> QED BY <1>1, <1>5, <1>19, <2>1 DEF Typed, TypeOK, Registers, ResetRow, history
<1> QED
  BY <1>7, <1>8, <1>9, <1>10, <1>11, <1>12, <1>13, <1>14, <1>15, <1>16, <1>17, <1>18, <1>19
  DEF Next, Putchar

(* The screen holds characters and blanks, the registers of the printing code   *)
(* positions on it, and the display's cursor registers two bytes.               *)
THEOREM TypeCorrect == Spec => []TypeOK
<1>1. Typed => TypeOK
  BY DEF Typed
<1> QED BY InitTyped, NextTyped, <1>1, PTL DEF Spec
--------------------------------------------------------------------------------
(* The registers of a character whose printing was not preempted: what was read *)
(* of the row and the column is still so, and of the cursor's two bytes those   *)
(* written are still there, the index register naming the next.                 *)
CopiesFresh ==
    /\ pc \in {"load_column", "putentryat", "store_column", "reset_column", "store_row"} =>
          reg.row = terminal_row
    /\ pc = "putentryat" => reg.column = terminal_column
    /\ pc = "store_column" => reg.char = Newline \/ reg.column = terminal_column
    /\ pc \in {"store_row", "reset_row"} => terminal_column = 0
    /\ pc = "terminal_cls" => terminal_row = 0 /\ terminal_column = 0

CursorFresh ==
    /\ pc \in {"index_low", "data_low", "index_high", "data_high"} =>
          reg.pos = Position(terminal_row, terminal_column)
    /\ pc = "data_low" => crtc.index = CURSOR_LOW
    /\ pc = "index_high" => crtc.low = reg.pos % Byte
    /\ pc = "data_high" => crtc.index = CURSOR_HIGH /\ crtc.low = reg.pos % Byte

Fresh == ~ disturbed => CopiesFresh /\ CursorFresh

LEMMA InitFresh == Init => Fresh
BY DEF Init, Fresh, CopiesFresh, CursorFresh

LEMMA NextFresh == Typed /\ Fresh /\ [Next]_vars => Fresh'
<1> SUFFICES ASSUME Typed, Fresh, [Next]_vars, ~ disturbed' PROVE (CopiesFresh /\ CursorFresh)'
  BY DEF Fresh
<1>1. /\ reg \in Registers /\ crtc \in CrtcRegisters
      /\ terminal_row \in Nat /\ terminal_column \in Nat
      /\ reg.row \in 0 .. Height - 1 /\ reg.column \in 0 .. Width - 1
  BY DEF Typed, IInv, TypeOK, Registers, CrtcRegisters
<1>2. ~ disturbed => CopiesFresh /\ CursorFresh
  BY DEF Fresh
<1>3. ASSUME NEW c \in Chars, LoadRow(c) PROVE (CopiesFresh /\ CursorFresh)'
  <2>1. reg'.row = terminal_row /\ reg'.char = c /\ terminal_row' = terminal_row
    BY <1>1, <1>3 DEF LoadRow, Registers, memory
  <2>2. pc' = IF c = Newline THEN "store_column" ELSE "load_column"
    BY <1>3 DEF LoadRow, Goto
  <2> QED BY <2>1, <2>2 DEF CopiesFresh, CursorFresh
<1>4. ASSUME NEW c \in Chars, Interrupt(c) PROVE FALSE
  BY <1>4 DEF Interrupt
<1>5. CASE LoadColumn
  <2>1. reg'.row = reg.row /\ reg'.column = terminal_column
    BY <1>1, <1>5 DEF LoadColumn, Registers
  <2> QED BY <1>2, <1>5, <2>1 DEF LoadColumn, CopiesFresh, CursorFresh, Goto, memory, history
<1>6. CASE PutEntryAt
  BY <1>2, <1>6 DEF PutEntryAt, CopiesFresh, CursorFresh, Goto, history
<1>7. CASE StoreColumn
  <2>1. terminal_row' = terminal_row /\ reg.row = terminal_row /\ disturbed' = disturbed
    BY <1>2, <1>7 DEF StoreColumn, CopiesFresh, history
  <2>2. CASE reg.char = Newline \/ reg.column + 1 = Width
    <3>1. \/ pc' = "store_row" /\ terminal_column' = 0
          \/ pc' = "reset_column"
      BY <1>7, <2>2 DEF StoreColumn, Goto
    <3>2. reg' = reg
      BY <1>7, <2>2 DEF StoreColumn
    <3> QED BY <2>1, <3>1, <3>2 DEF CopiesFresh, CursorFresh
  <2>3. CASE ~ (reg.char = Newline \/ reg.column + 1 = Width)
    <3>1. /\ terminal_column' = reg.column + 1
          /\ reg' = [reg EXCEPT !.pos = Position(reg.row, reg.column + 1)]
          /\ pc' = "index_low"
      BY <1>7, <2>3 DEF StoreColumn, NextColumn, ShowCursor, Goto
    <3>2. reg'.pos = Position(reg.row, reg.column + 1)
      BY <1>1, <3>1 DEF Registers
    <3> QED BY <2>1, <3>1, <3>2 DEF CopiesFresh, CursorFresh
  <2> QED BY <2>2, <2>3
<1>8. CASE StoreRow
  <2>1. terminal_column' = 0
    BY <1>2, <1>8 DEF StoreRow, CopiesFresh, history
  <2>2. CASE PageIsFull
    <3>1. \/ pc' = "terminal_cls" /\ terminal_row' = 0
          \/ pc' = "reset_row"
      BY <1>8, <2>2 DEF StoreRow, TurnPage, Goto
    <3> QED BY <2>1, <3>1 DEF CopiesFresh, CursorFresh
  <2>3. CASE ~ PageIsFull
    <3>1. /\ terminal_row' = reg.row + 1
          /\ reg' = [reg EXCEPT !.pos = Position(reg.row + 1, 0)]
          /\ pc' = "index_low"
      BY <1>8, <2>3 DEF StoreRow, ShowCursor, Goto
    <3>2. reg'.pos = Position(reg.row + 1, 0)
      BY <1>1, <3>1 DEF Registers
    <3> QED BY <2>1, <3>1, <3>2 DEF CopiesFresh, CursorFresh
  <2> QED BY <2>2, <2>3
<1>9. CASE Cls
  <2>1. terminal_row' = 0 /\ terminal_column' = 0
    BY <1>2, <1>9 DEF Cls, CopiesFresh, history
  <2>2. CASE reg.i = 0
    <3>1. reg' = [reg EXCEPT !.pos = Position(0, 0)] /\ pc' = "index_low"
      BY <1>9, <2>2 DEF Cls, ShowCursor, Goto
    <3>2. reg'.pos = Position(0, 0)
      BY <1>1, <3>1 DEF Registers
    <3> QED BY <2>1, <3>1, <3>2 DEF CopiesFresh, CursorFresh
  <2>3. CASE reg.i # 0
    BY <1>9, <2>1, <2>3 DEF Cls, CopiesFresh, CursorFresh
  <2> QED BY <2>2, <2>3
<1>10. CASE CursorIndex("index_low", CURSOR_LOW, "data_low")
  <2>1. crtc'.index = CURSOR_LOW
    BY <1>1, <1>10, SelectIs DEF CursorIndex
  <2> QED BY <1>2, <1>10, <2>1
          DEF CursorIndex, CopiesFresh, CursorFresh, Goto, memory, history
<1>11. CASE CursorLow
  <2>1. crtc'.low = reg.pos % Byte
    <3>1. reg.pos % Byte \in Nat
      BY <1>1, SizeIs DEF Registers
    <3> QED BY <1>1, <1>2, <1>11, <3>1, OutwIs DEF CursorLow, CursorFresh, history
  <2> QED BY <1>2, <1>11, <2>1
          DEF CursorLow, CopiesFresh, CursorFresh, Goto, memory, history
<1>12. CASE CursorIndex("index_high", CURSOR_HIGH, "data_high")
  <2>1. crtc'.index = CURSOR_HIGH /\ crtc'.low = crtc.low
    BY <1>1, <1>12, SelectIs DEF CursorIndex
  <2> QED BY <1>2, <1>12, <2>1
          DEF CursorIndex, CopiesFresh, CursorFresh, Goto, memory, history
<1>13. CASE CursorHigh
  BY <1>13 DEF CursorHigh, CopiesFresh, CursorFresh, Goto
<1>14. CASE UNCHANGED vars
  BY <1>2, <1>14 DEF vars, memory, history, CopiesFresh, CursorFresh
<1>15. CASE ResetColumn
  <2>1. /\ UNCHANGED <<terminal_row, reg, disturbed>> /\ terminal_column' = 0
        /\ pc = "reset_column" /\ pc' = "store_row"
    BY <1>15 DEF ResetColumn, Goto, history
  <2> QED BY <1>2, <2>1 DEF CopiesFresh, CursorFresh
<1>16. CASE ResetRow
  <2>1. /\ UNCHANGED <<terminal_column, disturbed>> /\ terminal_row' = 0
        /\ pc = "reset_row" /\ pc' = "terminal_cls"
    BY <1>16 DEF ResetRow, TurnPage, Goto, history
  <2> QED BY <1>2, <2>1 DEF CopiesFresh, CursorFresh
<1> QED
  BY <1>3, <1>4, <1>5, <1>6, <1>7, <1>8, <1>9, <1>10, <1>11, <1>12, <1>13, <1>14, <1>15, <1>16
  DEF Next, Putchar

(* A character is through when the high byte of the cursor's position has been  *)
(* written.                                                                     *)
LEMMA LastAccess ==
    ASSUME Typed, [Next]_vars, pc # "idle", pc' = "idle"
    PROVE  CursorHigh
<1>1. ASSUME NEW c \in Chars, LoadRow(c) \/ Interrupt(c) PROVE FALSE
  BY <1>1 DEF LoadRow, Interrupt
<1>2. ASSUME \/ LoadColumn \/ PutEntryAt \/ StoreColumn \/ ResetColumn
             \/ StoreRow \/ ResetRow \/ Cls
      PROVE  FALSE
  BY <1>2 DEF LoadColumn, PutEntryAt, StoreColumn, ResetColumn, StoreRow, ResetRow,
              TurnPage, Cls, ShowCursor, Goto
<1>3. ASSUME \/ CursorIndex("index_low", CURSOR_LOW, "data_low") \/ CursorLow
             \/ CursorIndex("index_high", CURSOR_HIGH, "data_high")
      PROVE  FALSE
  BY <1>3 DEF CursorIndex, CursorLow, Goto
<1>4. ASSUME UNCHANGED vars PROVE FALSE
  BY <1>4 DEF vars
<1> QED BY <1>1, <1>2, <1>3, <1>4 DEF Next, Putchar

(* A character whose printing was not preempted leaves the cursor on the        *)
(* display where the next one goes, whatever handlers did to the index register *)
(* and the two bytes before.                                                    *)
THEOREM CursorRight == Spec => CursorShown
<1>1. ASSUME Typed, Fresh, [Next]_vars, pc # "idle", pc' = "idle", ~ disturbed'
      PROVE  (crtc.high * Byte + crtc.low = terminal_row * Width + terminal_column)'
  <2>1. CursorHigh
    BY <1>1, LastAccess
  <2>2. /\ reg.pos \in Nat /\ crtc \in CrtcRegisters
        /\ reg.pos = terminal_row * Width + terminal_column
        /\ crtc.index = CURSOR_HIGH /\ crtc.low = reg.pos % Byte
    <3>1. disturbed' = disturbed /\ pc = "data_high"
      BY <2>1 DEF CursorHigh
    <3>2. reg.pos \in Nat /\ crtc \in CrtcRegisters
      BY <1>1, SizeIs DEF Typed, TypeOK, CrtcRegisters
    <3> QED BY <1>1, <3>1, <3>2 DEF Fresh, CursorFresh, Position
  <2>3. \A n \in Nat : n \div Byte \in Nat /\ n % Byte \in Nat
                          /\ (n \div Byte) * Byte + (n % Byte) = n
    BY SizeIs
  <2>4. crtc'.high = reg.pos \div Byte /\ crtc'.low = reg.pos % Byte
    BY <2>1, <2>2, <2>3, OutwIs DEF CursorHigh
  <2>5. terminal_row' = terminal_row /\ terminal_column' = terminal_column
    BY <2>1 DEF CursorHigh, memory
  <2> QED BY <2>2, <2>3, <2>4, <2>5, Zenon
<1>2. Typed /\ Fresh /\ [Next]_vars =>
        [pc # "idle" /\ pc' = "idle" /\ ~ disturbed =>
          (crtc.high * Byte + crtc.low = terminal_row * Width + terminal_column)']_vars
  <2>1. ASSUME Typed, [Next]_vars, pc # "idle", pc' = "idle"
        PROVE  disturbed' = disturbed
    BY <2>1, LastAccess DEF CursorHigh
  <2> QED BY <1>1, <2>1
<1> QED
  BY InitTyped, NextTyped, InitFresh, NextFresh, <1>2, PTL DEF Spec, CursorShown
--------------------------------------------------------------------------------
(* The reference: positions in a text.  An induction over the length of a text  *)
(* goes by the least length that fails.                                         *)
LEMMA LeastElement ==
    ASSUME NEW S, S \subseteq Nat, S # {}
    PROVE  \E x \in S : \A y \in S : x <= y
<1> DEFINE R == {ss \in Nat \X Nat : ss[1] < ss[2]}
<1>1. IsWellFoundedOn(R, Nat)
  BY NatLessThanWellFounded DEF OpToRel
<1> HIDE DEF R
<1>2. PICK x \in S : \A y \in S : ~ (<<y, x>> \in R)
  BY <1>1, WFMin, Zenon
<1>3. ASSUME NEW y \in S PROVE x <= y
  <2>1. ~ (<<y, x>> \in R) /\ x \in Nat /\ y \in Nat
    BY <1>2
  <2>2. ~ (y < x)
    BY <2>1 DEF R
  <2> QED BY <2>1, <2>2
<1> QED BY <1>3, Zenon

(* The position behind character m, the one in front of it being x.             *)
Behind(t, m, x) == IF t[m] = Newline THEN (x \div Width + 1) * Width ELSE x + 1

(* What PositionIn chooses a function by.                                       *)
Positions(t, n, p) ==
    p = [m \in 0 .. n |->
            IF m = 0 THEN 0
            ELSE IF t[m] = Newline THEN (p[m - 1] \div Width + 1) * Width
            ELSE p[m - 1] + 1]

Table(n, p) == p = [m \in 0 .. n |-> p[m]]

LEMMA PositionsAre ==
    ASSUME NEW t, NEW n \in Nat, NEW p
    PROVE  Positions(t, n, p) <=>
              /\ Table(n, p)
              /\ p[0] = 0
              /\ \A m \in 1 .. n : p[m] = Behind(t, m, p[m - 1])
<1>1. ASSUME Positions(t, n, p)
      PROVE  /\ Table(n, p)
             /\ p[0] = 0
             /\ \A m \in 1 .. n : p[m] = Behind(t, m, p[m - 1])
  <2> DEFINE b(m) == IF m = 0 THEN 0
                     ELSE IF t[m] = Newline THEN (p[m - 1] \div Width + 1) * Width
                     ELSE p[m - 1] + 1
  <2>1. p = [m \in 0 .. n |-> b(m)]
    BY <1>1, Zenon DEF Positions
  <2>2. \A m \in 0 .. n : p[m] = b(m)
    <3> HIDE DEF b
    <3> QED BY <2>1
  <2>3. Table(n, p)
    <3> HIDE DEF b
    <3> QED BY <2>1 DEF Table
  <2>4. p[0] = 0
    BY <2>2
  <2>5. ASSUME NEW m \in 1 .. n PROVE p[m] = Behind(t, m, p[m - 1])
    <3>1. m \in 0 .. n /\ m # 0
      OBVIOUS
    <3>2. p[m] = b(m)
      BY <2>2, <3>1, Zenon
    <3>3. b(m) = Behind(t, m, p[m - 1])
      BY <3>1, Zenon DEF Behind
    <3> QED BY <3>2, <3>3
  <2> QED BY <2>3, <2>4, <2>5
<1>2. ASSUME Table(n, p), p[0] = 0,
             \A m \in 1 .. n : p[m] = Behind(t, m, p[m - 1])
      PROVE  Positions(t, n, p)
  <2> DEFINE b(m) == IF m = 0 THEN 0
                     ELSE IF t[m] = Newline THEN (p[m - 1] \div Width + 1) * Width
                     ELSE p[m - 1] + 1
  <2>1. ASSUME NEW m \in 0 .. n PROVE p[m] = b(m)
    <3>1. CASE m = 0
      BY <1>2, <3>1
    <3>2. CASE m # 0
      <4>1. m \in 1 .. n
        BY <3>2
      <4>2. p[m] = Behind(t, m, p[m - 1])
        BY <1>2, <4>1, Zenon
      <4>3. b(m) = Behind(t, m, p[m - 1])
        BY <3>2, Zenon DEF Behind
      <4> QED BY <4>2, <4>3
    <3> QED BY <3>1, <3>2
  <2>2. p = [m \in 0 .. n |-> b(m)]
    <3> HIDE DEF b
    <3> QED BY <1>2, <2>1 DEF Table
  <2> QED BY <2>2, Zenon DEF Positions
<1> QED BY <1>1, <1>2

LEMMA PositionsStep ==
    ASSUME NEW t, NEW n \in Nat, NEW p, Positions(t, n, p)
    PROVE  /\ Table(n, p)
           /\ p[0] = 0
           /\ \A m \in 1 .. n : p[m] = Behind(t, m, p[m - 1])
BY PositionsAre

LEMMA PositionsExist ==
    ASSUME NEW t, NEW n \in Nat
    PROVE  \E p : Positions(t, n, p)
<1> DEFINE S == {k \in Nat : ~ \E p : Positions(t, k, p)}
<1>1. SUFFICES ASSUME S # {} PROVE FALSE
  OBVIOUS
<1>2. PICK x \in S : \A y \in S : x <= y
  <2>1. S \subseteq Nat
    OBVIOUS
  <2> HIDE DEF S
  <2> QED BY <1>1, <2>1, LeastElement, Zenon
<1>3. x \in Nat /\ ~ \E p : Positions(t, x, p)
  OBVIOUS
<1>4. CASE x = 0
  <2> DEFINE p == [m \in 0 .. 0 |-> 0]
  <2>1. /\ Table(0, p) /\ p[0] = 0
        /\ \A m \in 1 .. 0 : p[m] = Behind(t, m, p[m - 1])
    BY DEF Table
  <2>2. 0 \in Nat
    OBVIOUS
  <2> HIDE DEF p
  <2>3. Positions(t, 0, p)
    BY <2>1, <2>2, PositionsAre, Zenon
  <2> QED BY <1>3, <1>4, <2>3
<1>5. CASE x # 0
  <2>1. x - 1 \in Nat /\ x - 1 \notin S
    BY <1>2, <1>3, <1>5
  <2>2. PICK q : Positions(t, x - 1, q)
    BY <2>1
  <2>3. /\ Table(x - 1, q) /\ q[0] = 0
        /\ \A m \in 1 .. x - 1 : q[m] = Behind(t, m, q[m - 1])
    BY <2>1, <2>2, PositionsStep
  <2> DEFINE p == [m \in 0 .. x |-> IF m = x THEN Behind(t, x, q[x - 1]) ELSE q[m]]
  <2>4. Table(x, p) /\ p[0] = 0
    BY <1>3, <1>5, <2>3 DEF Table
  <2>5. ASSUME NEW m \in 1 .. x PROVE p[m] = Behind(t, m, p[m - 1])
    <3>1. m - 1 \in 0 .. x /\ m - 1 # x /\ m \in 0 .. x
      BY <1>3
    <3>2. p[m - 1] = q[m - 1]
      BY <3>1
    <3>3. CASE m = x
      <4>1. p[x] = Behind(t, x, q[x - 1])
        BY <3>1, <3>3
      <4> HIDE DEF p
      <4> QED BY <3>2, <3>3, <4>1, Zenon
    <3>4. CASE m # x
      <4>1. p[m] = q[m] /\ m \in 1 .. x - 1
        BY <1>3, <3>1, <3>4
      <4> HIDE DEF p
      <4> QED BY <2>3, <3>2, <4>1, Zenon
    <3> QED BY <3>3, <3>4
  <2> HIDE DEF p
  <2>6. Positions(t, x, p)
    BY <1>3, <2>4, <2>5, PositionsAre, Zenon
  <2> QED BY <1>3, <2>6
<1> QED BY <1>4, <1>5

(* The positions depend on the characters in front only.                        *)
LEMMA PositionsAgree ==
    ASSUME NEW t, NEW u, NEW n \in Nat, NEW k \in Nat, NEW p, NEW q,
           Positions(t, n, p), Positions(u, k, q),
           NEW d \in 0 .. n, d \in 0 .. k, \A m \in 1 .. d : t[m] = u[m]
    PROVE  p[d] = q[d]
<1>1. /\ p[0] = 0 /\ \A m \in 1 .. n : p[m] = Behind(t, m, p[m - 1])
      /\ q[0] = 0 /\ \A m \in 1 .. k : q[m] = Behind(u, m, q[m - 1])
  BY PositionsStep
<1> DEFINE S == {m \in 0 .. d : p[m] # q[m]}
<1>2. SUFFICES ASSUME S # {} PROVE FALSE
  <2>1. d \in 0 .. d
    OBVIOUS
  <2> QED BY <2>1
<1>3. PICK x \in S : \A y \in S : x <= y
  <2>1. S \subseteq Nat
    OBVIOUS
  <2> HIDE DEF S
  <2> QED BY <1>2, <2>1, LeastElement, Zenon
<1>4. x \in 0 .. d /\ p[x] # q[x] /\ x # 0
  BY <1>1
<1>5. x \in 1 .. n /\ x \in 1 .. k /\ x \in 1 .. d
  BY <1>4
<1>6. x - 1 \in 0 .. d /\ ~ (x <= x - 1)
  BY <1>5
<1>7. p[x - 1] = q[x - 1]
  BY <1>3, <1>6
<1>8. t[x] = u[x] /\ p[x] = Behind(t, x, p[x - 1]) /\ q[x] = Behind(u, x, q[x - 1])
  BY <1>1, <1>5, Zenon
<1> QED BY <1>4, <1>7, <1>8, Zenon DEF Behind

LEMMA PositionInIs ==
    ASSUME NEW t, NEW n \in Nat
    PROVE  \E p : Positions(t, n, p) /\ PositionIn(t, n) = p[n]
<1> DEFINE p == CHOOSE q : Positions(t, n, q)
<1>1. Positions(t, n, p)
  BY PositionsExist, Zenon
<1>2. PositionIn(t, n) = p[n]
  BY Zenon DEF PositionIn, Positions
<1> QED BY <1>1, <1>2

LEMMA PositionInPrefix ==
    ASSUME NEW t, NEW u, NEW n \in Nat, \A m \in 1 .. n : t[m] = u[m]
    PROVE  PositionIn(t, n) = PositionIn(u, n)
<1>1. PICK p : Positions(t, n, p) /\ PositionIn(t, n) = p[n]
  BY PositionInIs
<1>2. PICK q : Positions(u, n, q) /\ PositionIn(u, n) = q[n]
  BY PositionInIs
<1>3. n \in 0 .. n
  OBVIOUS
<1>4. p[n] = q[n]
  <2>1. Positions(t, n, p) /\ Positions(u, n, q) /\ \A m \in 1 .. n : t[m] = u[m]
    BY <1>1, <1>2
  <2>2. ASSUME NEW d \in 0 .. n, \A m \in 1 .. d : t[m] = u[m]
        PROVE  p[d] = q[d]
    BY <2>1, <2>2, PositionsAgree
  <2> QED BY <1>3, <2>1, <2>2, Zenon
<1> QED BY <1>1, <1>2, <1>4

LEMMA PositionInNext ==
    ASSUME NEW t
    PROVE  /\ PositionIn(t, 0) = 0
           /\ \A n \in Nat : PositionIn(t, n + 1) = Behind(t, n + 1, PositionIn(t, n))
<1>1. 0 \in Nat
  OBVIOUS
<1>2. PositionIn(t, 0) = 0
  <2>1. PICK p : Positions(t, 0, p) /\ PositionIn(t, 0) = p[0]
    BY <1>1, PositionInIs, Zenon
  <2> QED BY <1>1, <2>1, PositionsAre, Zenon
<1>3. ASSUME NEW n \in Nat
      PROVE  PositionIn(t, n + 1) = Behind(t, n + 1, PositionIn(t, n))
  <2>1. /\ n + 1 \in Nat /\ n + 1 \in 1 .. n + 1 /\ (n + 1) - 1 = n
        /\ n \in 0 .. n /\ n \in 0 .. n + 1
    OBVIOUS
  <2>2. PICK p : Positions(t, n + 1, p) /\ PositionIn(t, n + 1) = p[n + 1]
    BY <2>1, PositionInIs, Zenon
  <2>3. PICK q : Positions(t, n, q) /\ PositionIn(t, n) = q[n]
    BY PositionInIs
  <2>4. p[n + 1] = Behind(t, n + 1, p[(n + 1) - 1])
    BY <2>1, <2>2, PositionsStep
  <2>5. p[n] = q[n]
    BY <2>1, <2>2, <2>3, PositionsAgree
  <2> QED BY <2>1, <2>2, <2>3, <2>4, <2>5, Zenon
<1> QED BY <1>2, <1>3

(* Every character moves on.                                                    *)
LEMMA BehindGrows ==
    ASSUME NEW t, NEW m, NEW x \in Nat
    PROVE  Behind(t, m, x) \in Nat /\ x < Behind(t, m, x)
<1>1. Width \in Nat /\ Width > 0
  BY SizeIs
<1>2. x \div Width \in Nat /\ x % Width \in 0 .. Width - 1
      /\ x = (x \div Width) * Width + (x % Width)
  BY <1>1
<1>3. /\ (x \div Width) * Width \in Nat
      /\ (x \div Width + 1) * Width = (x \div Width) * Width + Width
  BY <1>1, <1>2
<1>4. (x \div Width + 1) * Width \in Nat /\ x < (x \div Width + 1) * Width
  BY <1>1, <1>2, <1>3
<1> QED BY <1>4 DEF Behind

LEMMA PositionInNat ==
    ASSUME NEW t, NEW n \in Nat
    PROVE  PositionIn(t, n) \in Nat
<1> DEFINE S == {k \in Nat : PositionIn(t, k) \notin Nat}
<1>1. SUFFICES ASSUME S # {} PROVE FALSE
  OBVIOUS
<1>2. PICK x \in S : \A y \in S : x <= y
  <2>1. S \subseteq Nat
    OBVIOUS
  <2> HIDE DEF S
  <2> QED BY <1>1, <2>1, LeastElement, Zenon
<1>3. x \in Nat /\ PositionIn(t, x) \notin Nat /\ x # 0
  BY PositionInNext
<1>4. x - 1 \in Nat /\ x - 1 \notin S /\ (x - 1) + 1 = x
  BY <1>2, <1>3
<1>5. PositionIn(t, x - 1) \in Nat
  BY <1>4
<1>6. PositionIn(t, x) = Behind(t, x, PositionIn(t, x - 1))
  BY <1>4, PositionInNext, Zenon
<1> QED BY <1>3, <1>5, <1>6, BehindGrows

LEMMA PositionInGrows ==
    ASSUME NEW t, NEW n \in Nat, NEW k \in Nat, n < k
    PROVE  PositionIn(t, n) < PositionIn(t, k)
<1> DEFINE S == {m \in Nat : n < m /\ ~ (PositionIn(t, n) < PositionIn(t, m))}
<1>1. SUFFICES ASSUME S # {} PROVE FALSE
  OBVIOUS
<1>2. PICK x \in S : \A y \in S : x <= y
  <2>1. S \subseteq Nat
    OBVIOUS
  <2> HIDE DEF S
  <2> QED BY <1>1, <2>1, LeastElement, Zenon
<1>3. x \in Nat /\ n < x /\ ~ (PositionIn(t, n) < PositionIn(t, x))
  OBVIOUS
<1>4. x - 1 \in Nat /\ x - 1 \notin S /\ (x - 1) + 1 = x
  BY <1>2, <1>3
<1>5. /\ PositionIn(t, x) = Behind(t, x, PositionIn(t, x - 1))
      /\ PositionIn(t, x - 1) \in Nat /\ PositionIn(t, n) \in Nat /\ PositionIn(t, x) \in Nat
  BY <1>3, <1>4, PositionInNext, PositionInNat, Zenon
<1>6. PositionIn(t, x - 1) < PositionIn(t, x)
  BY <1>5, BehindGrows
<1>7. CASE x - 1 = n
  BY <1>3, <1>6, <1>7, Zenon
<1>8. CASE x - 1 # n
  <2>1. n < x - 1
    BY <1>3, <1>8
  <2>2. PositionIn(t, n) < PositionIn(t, x - 1)
    BY <1>4, <2>1
  <2> QED BY <1>3, <1>5, <1>6, <2>2
<1> QED BY <1>7, <1>8

(* A position is taken apart again by the division.                             *)
LEMMA RowOf ==
    ASSUME NEW row \in Nat, NEW column \in 0 .. Width - 1
    PROVE  Position(row, column) \div Width = row
<1> DEFINE x == row * Width + column
<1>1. Width \in Nat /\ Width > 0 /\ row * Width \in Nat
  BY SizeIs
<1>2. x \in Nat
  BY <1>1
<1>3. PICK q \in Nat, r \in 0 .. Width - 1 : x = q * Width + r /\ q = x \div Width
  <2>1. x \div Width \in Nat /\ x % Width \in 0 .. Width - 1
        /\ x = (x \div Width) * Width + (x % Width)
    <3> HIDE DEF x
    <3> QED BY <1>1, <1>2
  <2> HIDE DEF x
  <2> QED BY <2>1, Zenon
<1>4. ASSUME NEW a \in Nat, NEW b \in Nat, a < b
      PROVE  a * Width + Width <= b * Width /\ a * Width \in Nat /\ b * Width \in Nat
  <2>1. b - (a + 1) \in Nat
    BY <1>4
  <2>2. (b - (a + 1)) * Width \in Nat
    BY <1>1, <2>1
  <2>3. (b - (a + 1)) * Width = b * Width - (a * Width + Width)
    BY <1>1
  <2>4. a * Width \in Nat /\ b * Width \in Nat
    BY <1>1
  <2> QED BY <1>1, <2>2, <2>3, <2>4
<1>5. x = row * Width + column
  OBVIOUS
<1>6. q * Width \in Nat
  BY <1>1
<1>7. ~ (q < row)
  <2>1. ASSUME q < row PROVE FALSE
    <3>1. q * Width + Width <= row * Width
      BY <1>4, <2>1
    <3> QED BY <1>1, <1>3, <1>5, <1>6, <3>1
  <2> QED BY <2>1
<1>8. ~ (row < q)
  <2>1. ASSUME row < q PROVE FALSE
    <3>1. row * Width + Width <= q * Width
      BY <1>4, <2>1
    <3> QED BY <1>1, <1>3, <1>5, <1>6, <3>1
  <2> QED BY <2>1
<1>9. q = row
  BY <1>7, <1>8
<1> QED BY <1>3, <1>9 DEF Position

(* A line is Width positions long.                                              *)
LEMMA NextLine ==
    ASSUME NEW row \in Nat
    PROVE  /\ Position(row, Width - 1) + 1 = Position(row + 1, 0)
           /\ (row + 1) * Width = Position(row + 1, 0)
           /\ \A column \in 0 .. Width - 1 :
                 Position(row, column) + 1 = Position(row, column + 1)
<1>1. Width \in Nat /\ Width > 0 /\ row * Width \in Nat
      /\ (row + 1) * Width = row * Width + Width
  BY SizeIs
<1> QED BY <1>1 DEF Position

(* Character n of t is at position i.                                           *)
Shows(t, n, i) == t[n] # Newline /\ PositionIn(t, n - 1) = i

(* No two characters are at one position.                                       *)
LEMMA LayoutIs ==
    ASSUME NEW t \in Seq(Chars), NEW i \in 0 .. Size - 1
    PROVE  /\ \A n \in 1 .. Len(t) : Shows(t, n, i) => Layout(t)[i] = t[n]
           /\ (\A n \in 1 .. Len(t) : ~ Shows(t, n, i)) => Layout(t)[i] = Blank
<1> DEFINE l == Len(t)
<1>1. l \in Nat
  OBVIOUS
<1>2. Layout(t)[i] = IF \E n \in 1 .. l : Shows(t, n, i)
                        THEN t[CHOOSE n \in 1 .. l : Shows(t, n, i)]
                        ELSE Blank
  BY DEF Layout, Shows
<1> HIDE DEF l
<1>3. ASSUME NEW n \in 1 .. l, Shows(t, n, i) PROVE Layout(t)[i] = t[n]
  <2> DEFINE m == CHOOSE k \in 1 .. l : Shows(t, k, i)
  <2>1. m \in 1 .. l /\ Shows(t, m, i) /\ Layout(t)[i] = t[m]
    BY <1>2, <1>3, Zenon
  <2> HIDE DEF m
  <2>2. /\ PositionIn(t, m - 1) = i /\ PositionIn(t, n - 1) = i
        /\ m - 1 \in Nat /\ n - 1 \in Nat
    BY <1>1, <1>3, <2>1 DEF Shows
  <2>3. ~ (m - 1 < n - 1) /\ ~ (n - 1 < m - 1)
    <3>1. ASSUME NEW a \in Nat, NEW b \in Nat, PositionIn(t, a) = i, PositionIn(t, b) = i
          PROVE  ~ (a < b)
      <4>1. a < b => PositionIn(t, a) < PositionIn(t, b)
        BY PositionInGrows
      <4>2. ~ (i < i)
        OBVIOUS
      <4> QED BY <3>1, <4>1, <4>2, Zenon
    <3> QED BY <2>2, <3>1, Zenon
  <2>4. m = n
    BY <1>1, <2>1, <2>3
  <2> QED BY <2>1, <2>4, Zenon
<1>4. ASSUME \A n \in 1 .. l : ~ Shows(t, n, i) PROVE Layout(t)[i] = Blank
  BY <1>2, <1>4, Zenon
<1> QED BY <1>3, <1>4 DEF l

LEMMA LayoutEmpty ==
    /\ PositionIn(<<>>, 0) = 0
    /\ \A i \in 0 .. Size - 1 : Layout(<<>>)[i] = Blank
<1>1. <<>> \in Seq(Chars) /\ 1 .. Len(<<>>) = {}
  OBVIOUS
<1>2. ASSUME NEW i \in 0 .. Size - 1 PROVE Layout(<<>>)[i] = Blank
  <2>1. (\A n \in 1 .. Len(<<>>) : ~ Shows(<<>>, n, i)) => Layout(<<>>)[i] = Blank
    BY <1>1, LayoutIs, Zenon
  <2> QED BY <1>1, <2>1
<1> QED BY <1>2, PositionInNext

(* One character more changes the word at the position behind the text, and     *)
(* that only.                                                                   *)
LEMMA LayoutAppend ==
    ASSUME NEW t \in Seq(Chars), NEW c \in Chars, NEW i \in 0 .. Size - 1
    PROVE  Layout(Append(t, c))[i] =
              IF c # Newline /\ PositionIn(t, Len(t)) = i THEN c ELSE Layout(t)[i]
<1> DEFINE a == Append(t, c)
           l == Len(t)
<1>1. /\ a \in Seq(Chars) /\ l \in Nat /\ Len(a) = l + 1
      /\ a[l + 1] = c
      /\ \A n \in 1 .. l : a[n] = t[n]
  OBVIOUS
<1>2. /\ \A n \in 1 .. l : Shows(t, n, i) => Layout(t)[i] = t[n]
      /\ (\A n \in 1 .. l : ~ Shows(t, n, i)) => Layout(t)[i] = Blank
  BY LayoutIs
<1>3. a = Append(t, c) /\ l = Len(t)
  OBVIOUS
<1> HIDE DEF a, l
<1>4. /\ \A n \in 1 .. l + 1 : Shows(a, n, i) => Layout(a)[i] = a[n]
      /\ (\A n \in 1 .. l + 1 : ~ Shows(a, n, i)) => Layout(a)[i] = Blank
  BY <1>1, LayoutIs, Zenon
<1>5. ASSUME NEW n \in 0 .. l PROVE PositionIn(a, n) = PositionIn(t, n)
  <2>1. n \in Nat /\ \A m \in 1 .. n : a[m] = t[m]
    BY <1>1
  <2> QED BY <2>1, PositionInPrefix
<1>6. ASSUME NEW n \in 1 .. l PROVE Shows(a, n, i) <=> Shows(t, n, i)
  <2>1. n - 1 \in 0 .. l
    BY <1>1
  <2> QED BY <1>1, <1>5, <2>1 DEF Shows
<1>7. Shows(a, l + 1, i) <=> c # Newline /\ PositionIn(t, l) = i
  <2>1. (l + 1) - 1 = l /\ l \in 0 .. l
    BY <1>1
  <2> QED BY <1>1, <1>5, <2>1 DEF Shows
<1>8. l + 1 \in 1 .. l + 1 /\ \A n \in 1 .. l + 1 : n = l + 1 \/ n \in 1 .. l
  BY <1>1
<1>9. CASE c # Newline /\ PositionIn(t, l) = i
  BY <1>1, <1>3, <1>4, <1>7, <1>8, <1>9, Zenon
<1>10. CASE ~ (c # Newline /\ PositionIn(t, l) = i)
  <2>1. CASE \E n \in 1 .. l : Shows(t, n, i)
    <3>1. PICK n \in 1 .. l : Shows(t, n, i)
      BY <2>1
    <3>2. n \in 1 .. l + 1
      BY <1>1
    <3>3. Layout(a)[i] = a[n] /\ Layout(t)[i] = t[n] /\ a[n] = t[n]
      BY <1>1, <1>2, <1>4, <1>6, <3>1, <3>2, Zenon
    <3> QED BY <1>3, <1>10, <3>3, Zenon
  <2>2. CASE \A n \in 1 .. l : ~ Shows(t, n, i)
    <3>1. Layout(t)[i] = Blank
      BY <1>2, <2>2, Zenon
    <3>2. \A n \in 1 .. l + 1 : ~ Shows(a, n, i)
      BY <1>6, <1>7, <1>8, <1>10, <2>2, Zenon
    <3>3. Layout(a)[i] = Blank
      BY <1>4, <3>2, Zenon
    <3> QED BY <1>3, <1>10, <3>1, <3>3, Zenon
  <2> QED BY <2>1, <2>2, Zenon
<1> QED BY <1>9, <1>10

(* The position behind the text and one character more.                         *)
At(row, column, t) == Position(row, column) = PositionIn(t, Len(t))

LEMMA PositionAppend ==
    ASSUME NEW t \in Seq(Chars), NEW c \in Chars,
           NEW row \in 0 .. Height - 1, NEW column \in 0 .. Width - 1,
           At(row, column, t)
    PROVE  PositionIn(Append(t, c), Len(Append(t, c))) =
              IF Wraps(c, column) THEN Position(row + 1, 0) ELSE Position(row, column + 1)
<1> DEFINE a == Append(t, c)
           l == Len(t)
           x == PositionIn(t, l)
<1>1. /\ l \in Nat /\ Len(a) = l + 1 /\ a[l + 1] = c
      /\ \A n \in 1 .. l : a[n] = t[n]
  OBVIOUS
<1>2. a = Append(t, c) /\ l = Len(t) /\ Position(row, column) = PositionIn(t, l)
  BY DEF At
<1>3. row \in Nat /\ Width \in Nat /\ Width > 1
  BY SizeIs
<1> HIDE DEF a, l
<1>4. PositionIn(a, l) = PositionIn(t, l)
  BY <1>1, PositionInPrefix
<1>5. PositionIn(a, l + 1) = Behind(a, l + 1, Position(row, column))
  BY <1>1, <1>2, <1>4, PositionInNext, Zenon
<1>6. CASE c = Newline
  <2>1. PositionIn(a, l + 1) = (Position(row, column) \div Width + 1) * Width
    BY <1>1, <1>5, <1>6, Zenon DEF Behind
  <2>2. PositionIn(a, l + 1) = Position(row + 1, 0)
    BY <1>3, <2>1, RowOf, NextLine, Zenon
  <2> QED BY <1>1, <1>2, <1>6, <2>2, Zenon DEF Wraps
<1>7. CASE c # Newline
  <2>1. PositionIn(a, l + 1) = Position(row, column) + 1
    BY <1>1, <1>5, <1>7, Zenon DEF Behind
  <2>2. CASE column + 1 = Width
    <3>1. column = Width - 1
      BY <1>3, <2>2
    <3>2. PositionIn(a, l + 1) = Position(row + 1, 0)
      BY <1>3, <2>1, <3>1, NextLine, Zenon
    <3> QED BY <1>1, <1>2, <2>2, <3>2, Zenon DEF Wraps
  <2>3. CASE column + 1 # Width
    <3>1. PositionIn(a, l + 1) = Position(row, column + 1)
      BY <1>3, <2>1, NextLine, Zenon
    <3> QED BY <1>1, <1>2, <1>7, <2>3, <3>1, Zenon DEF Wraps
  <2> QED BY <2>2, <2>3
<1> QED BY <1>6, <1>7

(* The page is full when the last line is.                                      *)
LEMMA TextAfterIs ==
    ASSUME NEW t \in Seq(Chars), NEW c \in Chars,
           NEW row \in 0 .. Height - 1, NEW column \in 0 .. Width - 1,
           At(row, column, t)
    PROVE  TextAfter(t, c) =
              IF Wraps(c, column) /\ row + 1 = Height THEN <<>> ELSE Append(t, c)
<1> DEFINE x == PositionIn(Append(t, c), Len(Append(t, c)))
<1>1. TextAfter(t, c) = IF x >= Size THEN <<>> ELSE Append(t, c)
  BY DEF TextAfter
<1>2. x = IF Wraps(c, column) THEN Position(row + 1, 0) ELSE Position(row, column + 1)
  BY PositionAppend, Zenon
<1> HIDE DEF x
<1>3. CASE Wraps(c, column) /\ row + 1 = Height
  <2>1. Position(row + 1, 0) >= Size
    <3>1. (row + 1) * Width = Size
      BY <1>3, SizeIs
    <3> QED BY <3>1, NextLine, SizeIs
  <2> QED BY <1>1, <1>2, <1>3, <2>1
<1>4. CASE Wraps(c, column) /\ row + 1 # Height
  <2>1. row + 1 \in 0 .. Height - 1 /\ 0 \in 0 .. Width - 1
    BY <1>4, SizeIs
  <2>2. Position(row + 1, 0) \in 0 .. Size - 1
    BY <2>1, SizeIs
  <2> QED BY <1>1, <1>2, <1>4, <2>2, SizeIs
<1>5. CASE ~ Wraps(c, column)
  <2>1. column + 1 \in 0 .. Width - 1
    BY <1>5, SizeIs DEF Wraps
  <2>2. Position(row, column + 1) \in 0 .. Size - 1
    BY <2>1, SizeIs
  <2> QED BY <1>1, <1>2, <1>5, <2>2, SizeIs
<1> QED BY <1>3, <1>4, <1>5
--------------------------------------------------------------------------------
(* ScreenShowsText in the middle of a character                                 *)
Looks(buffer, t) == \A i \in 0 .. Size - 1 : buffer[i] = Layout(t)[i]

Shown(t) == At(terminal_row, terminal_column, t) /\ Looks(terminal_buffer, t)

AllBlank == \A i \in 0 .. Size - 1 : terminal_buffer[i] = Blank

Longer == Append(text, reg.char)

(* Before the character is stored.                                              *)
NotYet == pc \in {"load_column", "putentryat"} /\ clean => Shown(text)

(* It is stored, the cursor has yet to move.                                    *)
Stored ==
    pc = "store_column" /\ clean =>
        At(terminal_row, terminal_column, text) /\ Looks(terminal_buffer, Longer)

(* It was the last of its line.                                                 *)
EndOfLine ==
    pc \in {"reset_column", "store_row", "reset_row"} /\ clean =>
        /\ PositionIn(Longer, Len(Longer)) = Position(reg.row + 1, 0)
        /\ Looks(terminal_buffer, Longer)

(* It was the last of the page, which is blank behind the loop's counter.       *)
EndOfPage ==
    pc = "terminal_cls" =>
        /\ \A i \in 0 .. Size - 1 : i > reg.i => terminal_buffer[i] = Blank
        /\ clean => TextAfter(text, reg.char) = <<>>

(* It is through but for the cursor on the display; a cursor in the corner says *)
(* that the page was turned.                                                    *)
Through ==
    pc \in {"index_low", "data_low", "index_high", "data_high"} =>
        /\ clean => Shown(TextAfter(text, reg.char))
        /\ reg.pos = 0 => AllBlank

InPeace == ~ disturbed => NotYet /\ Stored /\ EndOfLine /\ EndOfPage /\ Through

Screen == (pc = "idle" /\ clean => Shown(text)) /\ InPeace

LEMMA EmptyPage ==
    /\ PositionIn(<<>>, Len(<<>>)) = 0
    /\ Position(0, 0) = 0
    /\ At(0, 0, <<>>)
    /\ \A row \in Nat, column \in Nat : Position(row, column) = 0 => At(row, column, <<>>)
<1>1. Len(<<>>) = 0 /\ Position(0, 0) = 0
  BY SizeIs DEF Position
<1> QED BY <1>1, LayoutEmpty DEF At

LEMMA InitScreen == Init => Screen
<1> SUFFICES ASSUME Init PROVE Screen
  OBVIOUS
<1>1. AllBlank
  <2>1. \A i \in 0 .. Size - 1 : i \in 0 .. Size /\ i # Size
    BY SizeIs
  <2> QED BY <2>1 DEF Init, AllBlank
<1>2. Shown(text)
  <2>1. Looks(terminal_buffer, <<>>)
    BY <1>1, LayoutEmpty DEF AllBlank, Looks
  <2>2. At(0, 0, <<>>)
    BY EmptyPage
  <2> QED BY <2>1, <2>2 DEF Init, Shown
<1> QED
  BY <1>2 DEF Init, Screen, InPeace, NotYet, Stored, EndOfLine, EndOfPage, Through

(* Storing a character in the word behind the text appends it.                  *)
LEMMA LooksAppend ==
    ASSUME NEW t \in Seq(Chars), NEW c \in Chars,
           NEW buffer \in [0 .. Size -> Cells \cup {Other}], Looks(buffer, t)
    PROVE  /\ c = Newline => Looks(buffer, Append(t, c))
           /\ \A row \in 0 .. Height - 1, column \in 0 .. Width - 1 :
                 c # Newline /\ At(row, column, t) =>
                    Looks([buffer EXCEPT ![Position(row, column)] = c], Append(t, c))
<1>1. \A i \in 0 .. Size - 1 :
         /\ buffer[i] = Layout(t)[i]
         /\ Layout(Append(t, c))[i] =
               IF c # Newline /\ PositionIn(t, Len(t)) = i THEN c ELSE Layout(t)[i]
  BY LayoutAppend DEF Looks
<1>2. ASSUME c = Newline PROVE Looks(buffer, Append(t, c))
  BY <1>1, <1>2, Zenon DEF Looks
<1>3. ASSUME NEW row \in 0 .. Height - 1, NEW column \in 0 .. Width - 1,
             c # Newline, At(row, column, t)
      PROVE  Looks([buffer EXCEPT ![Position(row, column)] = c], Append(t, c))
  <2> DEFINE pos == Position(row, column)
             stored == [buffer EXCEPT ![pos] = c]
  <2>1. pos = PositionIn(t, Len(t))
    BY <1>3 DEF At
  <2> HIDE DEF pos
  <2>2. ASSUME NEW i \in 0 .. Size - 1 PROVE stored[i] = Layout(Append(t, c))[i]
    <3>1. i \in 0 .. Size
      BY SizeIs
    <3>2. stored[i] = IF i = pos THEN c ELSE buffer[i]
      BY <1>3, <3>1
    <3> HIDE DEF stored
    <3> QED BY <1>1, <1>3, <2>1, <3>2, Zenon
  <2>3. Looks(stored, Append(t, c))
    <3> HIDE DEF stored
    <3> QED BY <2>2 DEF Looks
  <2> QED BY <2>3, Zenon DEF pos, stored
<1> QED BY <1>2, <1>3, Zenon

LEMMA PositionPositive ==
    ASSUME NEW row \in Nat, NEW column \in Nat, Position(row, column) = 0
    PROVE  row = 0 /\ column = 0
<1>1. Width \in Nat /\ Width > 1 /\ row * Width \in Nat
  BY SizeIs
<1>2. row * Width = 0 /\ column = 0
  BY <1>1 DEF Position
<1>3. CASE row # 0
  <2>1. row - 1 \in Nat /\ (row - 1) * Width \in Nat
        /\ row * Width = (row - 1) * Width + Width
    BY <1>1, <1>3
  <2> QED BY <1>1, <1>2, <2>1
<1> QED BY <1>2, <1>3

(* A handler prints between two characters of the main program.                 *)
LEMMA InterruptShows ==
    ASSUME Typed, Screen, NEW c \in Chars, Interrupt(c), pc = "idle", clean'
    PROVE  Shown(text)'
<1> DEFINE wraps == Wraps(c, terminal_column)
           full == wraps /\ terminal_row + 1 = Height
<1>1. /\ terminal_row \in 0 .. Height - 1 /\ terminal_column \in 0 .. Width - 1
      /\ terminal_buffer \in [0 .. Size -> Cells \cup {Other}]
      /\ text \in Seq(Chars)
  BY DEF Typed, IInv, TypeOK
<1>2. /\ terminal_row' = HandlerRow(c) /\ terminal_column' = HandlerColumn(c)
      /\ clean' = (clean \/ full)
      /\ text' = IF clean THEN TextAfter(text, c) ELSE <<>>
  BY DEF Interrupt, HandlerRow, HandlerColumn, Wraps
<1>3. CASE full
  <2>1. /\ terminal_row' = 0 /\ terminal_column' = 0
        /\ terminal_buffer' = [i \in 0 .. Size |-> Blank]
    BY <1>2, <1>3 DEF Interrupt, HandlerRow, HandlerColumn, Wraps
  <2>2. text' = <<>>
    <3>1. CASE clean
      <4>1. At(terminal_row, terminal_column, text)
        BY <3>1 DEF Screen, Shown
      <4>2. TextAfter(text, c) = <<>>
        BY <1>1, <1>3, <4>1, TextAfterIs
      <4> QED BY <1>2, <3>1, <4>2
    <3>2. CASE ~ clean
      BY <1>2, <3>2
    <3> QED BY <3>1, <3>2
  <2>3. \A i \in 0 .. Size - 1 : terminal_buffer'[i] = Blank
    BY <2>1, SizeIs
  <2>4. Looks(terminal_buffer', <<>>) /\ At(0, 0, <<>>)
    BY <2>3, LayoutEmpty, EmptyPage DEF Looks
  <2> QED BY <2>1, <2>2, <2>4 DEF Shown
<1>4. CASE ~ full
  <2>1. clean /\ text' = TextAfter(text, c)
    BY <1>2, <1>4
  <2>2. At(terminal_row, terminal_column, text) /\ Looks(terminal_buffer, text)
    BY <2>1 DEF Screen, Shown
  <2>3. text' = Append(text, c)
    BY <1>1, <1>4, <2>1, <2>2, TextAfterIs
  <2>4. /\ terminal_row' = IF wraps THEN terminal_row + 1 ELSE terminal_row
        /\ terminal_column' = IF wraps THEN 0 ELSE terminal_column + 1
    BY <1>2, <1>4 DEF HandlerRow, HandlerColumn
  <2>5. At(terminal_row', terminal_column', text')
    BY <1>1, <2>2, <2>3, <2>4, PositionAppend DEF At
  <2>6. terminal_buffer' =
           IF c = Newline THEN terminal_buffer
           ELSE [terminal_buffer EXCEPT ![Position(terminal_row, terminal_column)] = c]
    <3>1. Position(terminal_row, terminal_column) \in 0 .. Size
      BY <1>1, SizeIs
    <3> QED BY <1>4, <3>1 DEF Interrupt, Wraps
  <2>7. Looks(terminal_buffer', text')
    BY <1>1, <2>2, <2>3, <2>6, LooksAppend
  <2> QED BY <2>5, <2>7 DEF Shown
<1> QED BY <1>3, <1>4

(* The page is full and about to be blanked.                                    *)
LEMMA TurnPageShows ==
    ASSUME Typed, TurnPage, PageIsFull, UNCHANGED <<terminal_buffer, clean, text, disturbed>>,
           ~ disturbed /\ clean => PositionIn(Longer, Len(Longer)) = Position(reg.row + 1, 0)
    PROVE  Screen'
<1>1. reg \in Registers /\ reg.row \in Nat
  BY DEF Typed, TypeOK, Registers
<1>2. pc' = "terminal_cls" /\ reg' = [reg EXCEPT !.i = Size]
  BY DEF TurnPage, Goto, ClsFrom
<1>3. reg'.i = Size /\ reg'.char = reg.char
  BY <1>1, <1>2 DEF Registers
<1>4. ASSUME ~ disturbed, clean PROVE TextAfter(text, reg.char) = <<>>
  <2>1. Position(reg.row + 1, 0) = Size
    <3>1. (reg.row + 1) * Width = Size
      BY SizeIs DEF PageIsFull
    <3> QED BY <1>1, <3>1, NextLine
  <2>2. PositionIn(Longer, Len(Longer)) >= Size
    BY <1>4, <2>1, SizeIs
  <2> QED BY <2>2 DEF TextAfter, Longer
<1>5. \A i \in 0 .. Size - 1 : ~ (i > reg'.i)
  BY <1>3, SizeIs
<1>6. ~ disturbed => EndOfPage'
  BY <1>3, <1>4, <1>5 DEF EndOfPage
<1> QED BY <1>2, <1>6 DEF Screen, InPeace, NotYet, Stored, EndOfLine, Through

LEMMA NextScreen == Typed /\ Fresh /\ Screen /\ [Next]_vars => Screen'
<1> SUFFICES ASSUME Typed, Fresh, Screen, [Next]_vars PROVE Screen'
  OBVIOUS
<1>1. /\ pc # "reset_row" => terminal_row \in 0 .. Height - 1
      /\ pc # "reset_column" => terminal_column \in 0 .. Width - 1
      /\ terminal_buffer \in [0 .. Size -> Cells \cup {Other}]
      /\ reg \in Registers /\ text \in Seq(Chars)
      /\ reg.row \in 0 .. Height - 1 /\ reg.column \in 0 .. Width - 1 /\ reg.i \in 0 .. Size
  BY DEF Typed, IInv, TypeOK, Registers
<1>2. ~ disturbed => CopiesFresh /\ CursorFresh /\ NotYet /\ Stored /\ EndOfLine
                        /\ EndOfPage /\ Through
  BY DEF Fresh, Screen, InPeace
<1>3. pc # "idle" => reg.char \in Chars
  BY DEF Typed
<1>4. /\ terminal_row \in Nat /\ terminal_column \in Nat
      /\ reg.row \in Nat /\ reg.column \in Nat
      /\ Width \in Nat /\ Height \in Nat /\ Width > 1 /\ Height > 1
  <2>1. Width \in Nat /\ Height \in Nat /\ Width > 1 /\ Height > 1
    BY SizeIs
  <2> QED BY <1>1, <2>1 DEF Typed, IInv
<1>5. ASSUME NEW c \in Chars, LoadRow(c) PROVE Screen'
  <2>1. reg'.char = c /\ UNCHANGED <<terminal_row, terminal_column, terminal_buffer, clean, text>>
    BY <1>1, <1>5 DEF LoadRow, Registers, memory
  <2>2. clean => Shown(text)
    BY <1>5 DEF Screen, LoadRow
  <2>3. CASE c = Newline
    <3>1. pc' = "store_column"
      BY <1>5, <2>3 DEF LoadRow, Goto
    <3>2. clean => Looks(terminal_buffer, Append(text, c))
      BY <1>1, <2>2, <2>3, LooksAppend DEF Shown
    <3>3. Stored'
      BY <2>1, <2>2, <3>2 DEF Stored, Shown, At, Looks, Longer
    <3> QED BY <3>1, <3>3 DEF Screen, InPeace, NotYet, EndOfLine, EndOfPage, Through
  <2>4. CASE c # Newline
    <3>1. pc' = "load_column"
      BY <1>5, <2>4 DEF LoadRow, Goto
    <3>2. NotYet'
      BY <2>1, <2>2 DEF NotYet, Shown, At, Looks
    <3> QED BY <3>1, <3>2 DEF Screen, InPeace, Stored, EndOfLine, EndOfPage, Through
  <2> QED BY <2>3, <2>4
<1>6. ASSUME NEW c \in Chars, Interrupt(c) PROVE Screen'
  <2>1. disturbed' /\ pc' = pc /\ (pc # "idle" => clean' = clean)
    BY <1>6 DEF Interrupt
  <2>2. InPeace'
    BY <2>1 DEF InPeace
  <2> QED BY <1>6, <2>1, <2>2, InterruptShows DEF Screen
<1>7. CASE LoadColumn
  <2>1. /\ UNCHANGED <<terminal_row, terminal_column, terminal_buffer, clean, text, disturbed>>
        /\ pc = "load_column" /\ pc' = "putentryat"
    BY <1>7 DEF LoadColumn, Goto, memory, history
  <2>2. ~ disturbed => NotYet'
    BY <1>2, <2>1 DEF NotYet, Shown, At, Looks
  <2> QED BY <2>1, <2>2 DEF Screen, InPeace, Stored, EndOfLine, EndOfPage, Through
<1>8. CASE PutEntryAt
  <2>1. /\ UNCHANGED <<terminal_row, terminal_column, clean, text, disturbed, reg>>
        /\ pc = "putentryat" /\ pc' = "store_column"
        /\ terminal_buffer' =
              [terminal_buffer EXCEPT ![Position(reg.row, reg.column)] = reg.char]
    BY <1>8 DEF PutEntryAt, Goto, history, Position
  <2>2. ASSUME ~ disturbed, clean
        PROVE  At(terminal_row, terminal_column, text) /\ Looks(terminal_buffer', Longer)
    <3>1. At(terminal_row, terminal_column, text) /\ Looks(terminal_buffer, text)
      BY <1>2, <2>1, <2>2 DEF NotYet, Shown
    <3>2. reg.row = terminal_row /\ reg.column = terminal_column
      BY <1>2, <2>1, <2>2 DEF CopiesFresh
    <3>3. reg.char \in Chars /\ reg.char # Newline
      BY <1>3, <2>1, TtyAssumption DEF Typed
    <3> QED BY <1>1, <2>1, <3>1, <3>2, <3>3, LooksAppend DEF Longer
  <2>3. ~ disturbed => Stored'
    BY <2>1, <2>2 DEF Stored, At, Looks, Longer
  <2> QED BY <2>1, <2>3 DEF Screen, InPeace, NotYet, EndOfLine, EndOfPage, Through
<1>9. CASE StoreColumn
  <2>1. /\ UNCHANGED <<terminal_row, terminal_buffer, clean, text, disturbed>>
        /\ pc = "store_column"
    BY <1>9 DEF StoreColumn, history
  <2>2. reg.char \in Chars
    BY <1>3, <2>1
  <2>3. ~ disturbed => /\ reg.row = terminal_row
                       /\ reg.char = Newline \/ reg.column = terminal_column
    BY <1>2, <2>1 DEF CopiesFresh
  <2>4. ~ disturbed /\ clean =>
           At(terminal_row, terminal_column, text) /\ Looks(terminal_buffer, Longer)
    BY <1>2, <2>1 DEF Stored
  <2>5. CASE reg.char = Newline \/ reg.column + 1 = Width
    <3>1. pc' \in {"store_row", "reset_column"} /\ UNCHANGED reg
      BY <1>9, <2>5 DEF StoreColumn, Goto
    <3>2. ASSUME ~ disturbed, clean
          PROVE  PositionIn(Longer, Len(Longer)) = Position(reg.row + 1, 0)
      <4>1. Wraps(reg.char, terminal_column)
        BY <2>3, <2>5, <3>2 DEF Wraps
      <4>2. PositionIn(Longer, Len(Longer)) = Position(terminal_row + 1, 0)
        BY <1>1, <2>1, <2>2, <2>4, <3>2, <4>1, PositionAppend DEF Longer
      <4> QED BY <2>3, <3>2, <4>2
    <3>3. ~ disturbed => EndOfLine'
      BY <2>1, <2>4, <3>1, <3>2 DEF EndOfLine, Looks, Longer
    <3> QED BY <2>1, <3>1, <3>3 DEF Screen, InPeace, NotYet, Stored, EndOfPage, Through
  <2>6. CASE ~ (reg.char = Newline \/ reg.column + 1 = Width)
    <3>1. /\ pc' = "index_low" /\ terminal_column' = reg.column + 1
          /\ reg' = [reg EXCEPT !.pos = Position(reg.row, reg.column + 1)]
      BY <1>9, <2>6 DEF StoreColumn, NextColumn, ShowCursor, Goto
    <3>2. reg'.char = reg.char /\ reg'.pos = Position(reg.row, reg.column + 1)
      BY <1>1, <3>1 DEF Registers
    <3>3. reg'.pos # 0
      <4>1. reg.row \in Nat /\ reg.column + 1 \in Nat /\ reg.column + 1 # 0
        BY <1>4
      <4> QED BY <3>2, <4>1, PositionPositive
    <3>4. ASSUME ~ disturbed, clean
          PROVE  /\ TextAfter(text, reg.char) = Longer
                 /\ At(terminal_row, terminal_column', Longer)
      <4>1. ~ Wraps(reg.char, terminal_column) /\ terminal_column' = terminal_column + 1
        BY <2>3, <2>6, <3>1, <3>4 DEF Wraps
      <4>2. At(terminal_row, terminal_column, text)
        BY <2>4, <3>4
      <4>3. TextAfter(text, reg.char) = Longer
        BY <1>1, <2>1, <2>2, <4>1, <4>2, TextAfterIs DEF Longer
      <4>4. PositionIn(Longer, Len(Longer)) = Position(terminal_row, terminal_column')
        BY <1>1, <2>1, <2>2, <4>1, <4>2, PositionAppend DEF Longer
      <4> QED BY <4>3, <4>4 DEF At
    <3>5. ~ disturbed => Through'
      <4>1. ~ disturbed /\ clean =>
               Shown(TextAfter(text, reg.char))'
        BY <2>1, <2>4, <3>2, <3>4 DEF Shown, At, Looks
      <4> QED BY <2>1, <3>3, <4>1 DEF Through
    <3> QED BY <2>1, <3>1, <3>5 DEF Screen, InPeace, NotYet, Stored, EndOfLine, EndOfPage
  <2> QED BY <2>5, <2>6
<1>10. CASE StoreRow
  <2>1. /\ UNCHANGED <<terminal_column, terminal_buffer, clean, text, disturbed>>
        /\ pc = "store_row"
    BY <1>10 DEF StoreRow, history
  <2>2. ~ disturbed => reg.row = terminal_row /\ terminal_column = 0
    BY <1>2, <2>1 DEF CopiesFresh
  <2>3. ~ disturbed /\ clean =>
           /\ PositionIn(Longer, Len(Longer)) = Position(reg.row + 1, 0)
           /\ Looks(terminal_buffer, Longer)
    BY <1>2, <2>1 DEF EndOfLine
  <2>4. TextAfter(text, reg.char) =
           IF PositionIn(Longer, Len(Longer)) >= Size THEN <<>> ELSE Longer
    BY DEF TextAfter, Longer
  <2>5. CASE PageIsFull /\ reg.char = Newline
    <3>1. TurnPage
      BY <1>10, <2>5 DEF StoreRow
    <3> QED BY <2>1, <2>3, <2>5, <3>1, TurnPageShows
  <2>6. CASE PageIsFull /\ reg.char # Newline
    <3>1. UNCHANGED reg /\ pc' = "reset_row"
      BY <1>10, <2>6 DEF StoreRow, Goto
    <3>2. ~ disturbed => EndOfLine'
      BY <2>1, <2>3, <3>1 DEF EndOfLine, Looks, Longer
    <3> QED BY <2>1, <3>1, <3>2 DEF Screen, InPeace, NotYet, Stored, EndOfPage, Through
  <2>7. CASE ~ PageIsFull
    <3>1. /\ pc' = "index_low" /\ terminal_row' = reg.row + 1
          /\ reg' = [reg EXCEPT !.pos = Position(reg.row + 1, 0)]
      BY <1>10, <2>7 DEF StoreRow, ShowCursor, Goto
    <3>2. reg'.char = reg.char /\ reg'.pos = Position(reg.row + 1, 0)
      BY <1>1, <3>1 DEF Registers
    <3>3. reg'.pos # 0
      <4>1. reg.row + 1 \in Nat /\ 0 \in Nat /\ reg.row + 1 # 0
        BY <1>4
      <4> QED BY <3>2, <4>1, PositionPositive
    <3>4. ASSUME ~ disturbed, clean
          PROVE  /\ TextAfter(text, reg.char) = Longer
                 /\ At(terminal_row', terminal_column, Longer)
      <4>1. terminal_row' = terminal_row + 1 /\ terminal_column = 0
        BY <2>2, <3>1, <3>4
      <4>2. terminal_row + 1 \in 0 .. Height - 1 /\ 0 \in 0 .. Width - 1
        BY <1>1, <1>4, <2>1, <2>2, <2>7, <3>4 DEF PageIsFull
      <4>3. Position(terminal_row + 1, 0) \in 0 .. Size - 1
        BY <4>2, SizeIs
      <4>4. TextAfter(text, reg.char) = Longer
        BY <2>2, <2>3, <2>4, <3>4, <4>3, SizeIs
      <4>5. PositionIn(Longer, Len(Longer)) = Position(terminal_row + 1, 0)
        BY <2>2, <2>3, <3>4
      <4> QED BY <4>1, <4>4, <4>5, Zenon DEF At
    <3>5. ~ disturbed => Through'
      <4>1. ~ disturbed /\ clean =>
               Shown(TextAfter(text, reg.char))'
        BY <2>1, <2>3, <3>2, <3>4 DEF Shown, At, Looks
      <4> QED BY <2>1, <3>3, <4>1 DEF Through
    <3> QED BY <2>1, <3>1, <3>5 DEF Screen, InPeace, NotYet, Stored, EndOfLine, EndOfPage
  <2> QED BY <2>5, <2>7, <2>6
<1>11. CASE Cls
  <2>1. /\ UNCHANGED <<terminal_row, terminal_column, clean, text, disturbed>>
        /\ pc = "terminal_cls"
        /\ terminal_buffer' = [terminal_buffer EXCEPT ![reg.i] = Blank]
    BY <1>11 DEF Cls, history
  <2>2. ~ disturbed =>
           /\ \A i \in 0 .. Size - 1 : i > reg.i => terminal_buffer[i] = Blank
           /\ clean => TextAfter(text, reg.char) = <<>>
           /\ terminal_row = 0 /\ terminal_column = 0
    BY <1>2, <2>1 DEF EndOfPage, CopiesFresh
  <2>3. ~ disturbed =>
           \A i \in 0 .. Size - 1 : i >= reg.i => terminal_buffer'[i] = Blank
    <3>1. \A i \in 0 .. Size - 1 : i \in 0 .. Size /\ (i >= reg.i => i = reg.i \/ i > reg.i)
      BY <1>1, SizeIs
    <3> QED BY <1>1, <2>1, <2>2, <3>1
  <2>4. CASE reg.i = 0
    <3>1. pc' = "index_low" /\ reg' = [reg EXCEPT !.pos = Position(0, 0)]
      BY <1>11, <2>4 DEF Cls, ShowCursor, Goto
    <3>2. reg'.char = reg.char
      BY <1>1, <3>1 DEF Registers
    <3>3. ~ disturbed => \A i \in 0 .. Size - 1 : terminal_buffer'[i] = Blank
      BY <2>3, <2>4
    <3>4. ASSUME ~ disturbed PROVE Looks(terminal_buffer', <<>>) /\ At(0, 0, <<>>)
      BY <3>3, <3>4, LayoutEmpty, EmptyPage DEF Looks
    <3>5. ~ disturbed /\ clean => Shown(TextAfter(text, reg.char))'
      BY <2>1, <2>2, <3>2, <3>4 DEF Shown
    <3>6. ~ disturbed => Through'
      BY <2>1, <3>3, <3>5 DEF Through, AllBlank
    <3> QED BY <2>1, <3>1, <3>6 DEF Screen, InPeace, NotYet, Stored, EndOfLine, EndOfPage
  <2>5. CASE reg.i # 0
    <3>1. pc' = "terminal_cls" /\ reg' = [reg EXCEPT !.i = reg.i - 1]
      BY <1>11, <2>1, <2>5 DEF Cls
    <3>2. reg'.char = reg.char /\ reg'.i = reg.i - 1
      BY <1>1, <3>1 DEF Registers
    <3>3. ~ disturbed => \A i \in 0 .. Size - 1 : i > reg'.i => terminal_buffer'[i] = Blank
      <4>1. \A i \in 0 .. Size - 1 : i > reg'.i => i >= reg.i
        BY <1>1, <3>2, SizeIs
      <4> QED BY <2>3, <4>1
    <3>4. ~ disturbed => EndOfPage'
      BY <2>1, <2>2, <3>2, <3>3 DEF EndOfPage
    <3> QED BY <2>1, <3>1, <3>4 DEF Screen, InPeace, NotYet, Stored, EndOfLine, Through
  <2> QED BY <2>4, <2>5
<1>12. ASSUME \/ CursorIndex("index_low", CURSOR_LOW, "data_low") \/ CursorLow
              \/ CursorIndex("index_high", CURSOR_HIGH, "data_high")
       PROVE  Screen'
  <2>1. /\ UNCHANGED <<terminal_row, terminal_column, terminal_buffer, reg, clean, text, disturbed>>
        /\ pc \in {"index_low", "data_low", "index_high"}
        /\ pc' \in {"data_low", "index_high", "data_high"}
    BY <1>12 DEF CursorIndex, CursorLow, Goto, memory, history
  <2>2. ~ disturbed => Through'
    BY <1>2, <2>1 DEF Through, Shown, At, Looks, AllBlank
  <2> QED BY <2>1, <2>2 DEF Screen, InPeace, NotYet, Stored, EndOfLine, EndOfPage
<1>13. CASE CursorHigh
  <2>1. /\ UNCHANGED <<terminal_row, terminal_column, terminal_buffer, disturbed>>
        /\ pc = "data_high" /\ pc' = "idle"
        /\ clean' = (~ disturbed /\ (clean \/ reg.pos = 0))
        /\ text' = IF clean' /\ clean THEN TextAfter(text, reg.char) ELSE <<>>
    BY <1>13 DEF CursorHigh, Goto, memory
  <2>2. ASSUME clean' PROVE Shown(text)'
    <3>1. ~ disturbed /\ (clean \/ reg.pos = 0) /\ Through /\ CursorFresh
      BY <1>2, <2>1, <2>2
    <3>2. CASE clean
      <4>1. text' = TextAfter(text, reg.char) /\ Shown(TextAfter(text, reg.char))
        BY <2>1, <2>2, <3>1, <3>2 DEF Through
      <4> QED BY <2>1, <4>1 DEF Shown
    <3>3. CASE ~ clean
      <4>1. text' = <<>> /\ AllBlank /\ Position(terminal_row, terminal_column) = 0
        BY <2>1, <3>1, <3>3 DEF Through, CursorFresh
      <4>2. At(terminal_row, terminal_column, <<>>)
        BY <1>4, <4>1, EmptyPage
      <4>3. Looks(terminal_buffer, <<>>)
        BY <4>1, LayoutEmpty DEF AllBlank, Looks
      <4> QED BY <2>1, <4>1, <4>2, <4>3 DEF Shown
    <3> QED BY <3>2, <3>3
  <2> QED BY <2>1, <2>2
          DEF Screen, InPeace, NotYet, Stored, EndOfLine, EndOfPage, Through
<1>14. CASE UNCHANGED vars
  BY <1>14 DEF vars, memory, history, Screen, InPeace, NotYet, Stored, EndOfLine, EndOfPage,
               Through, Shown, At, Looks, AllBlank, Longer
<1>15. CASE ResetColumn
  <2>1. /\ UNCHANGED <<terminal_row, terminal_buffer, clean, text, disturbed, reg>>
        /\ pc = "reset_column" /\ pc' = "store_row"
    BY <1>15 DEF ResetColumn, Goto, history
  <2>2. ~ disturbed => EndOfLine'
    BY <1>2, <2>1 DEF EndOfLine, Looks, Longer
  <2> QED BY <2>1, <2>2 DEF Screen, InPeace, NotYet, Stored, EndOfPage, Through
<1>16. CASE ResetRow
  <2>1. /\ UNCHANGED <<terminal_buffer, clean, text, disturbed>>
        /\ pc = "reset_row" /\ TurnPage
    BY <1>16 DEF ResetRow, history
  <2>2. PageIsFull
    BY <2>1 DEF Typed
  <2>3. ~ disturbed /\ clean => PositionIn(Longer, Len(Longer)) = Position(reg.row + 1, 0)
    BY <1>2, <2>1 DEF EndOfLine
  <2> QED BY <2>1, <2>2, <2>3, TurnPageShows
<1> QED
  BY <1>5, <1>6, <1>7, <1>8, <1>9, <1>10, <1>11, <1>12, <1>13, <1>14, <1>15, <1>16
  DEF Next, Putchar

(* The screen shows the text of the page, whatever its size, as long as none of *)
(* the page's characters was preempted: Layout, a definition that knows nothing *)
(* of rows and columns, is what storing characters one by one computes.         *)
THEOREM ScreenRight == Spec => []ScreenShowsText
<1>1. Typed /\ Screen => ScreenShowsText
  BY DEF Screen, Shown, At, Looks, Position, ScreenShowsText
<1> QED
  BY InitTyped, NextTyped, InitFresh, NextFresh, InitScreen, NextScreen, <1>1, PTL DEF Spec
================================================================================
