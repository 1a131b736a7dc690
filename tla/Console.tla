-------------------------------- MODULE Console --------------------------------
(* Formatted output: printf and serial_printf (libc/stdio/printf.c and its copy *)
(* in libc/sys/debug.c), itoa and its static buffer, and their callers: ps2_init*)
(* and shell_key, which run with interrupts off, and current_test (kernel.c),   *)
(* which lists the memory map while the trace of irq_handler uses itoa, too.    *)
(*                                                                              *)
(* A character is a string, NUL among them.  print does not fail, as nobody     *)
(* prints the byte that is EOF, and the count it returns is left out, as nobody *)
(* uses it.                                                                     *)
EXTENDS Integers, SequencesExt, FiniteSetsExt

CONSTANTS Word,        (* a machine word is one of 0 .. Word - 1                *)
          INT_DIGITS,  (* the digits itoa's buffer has room for                 *)
          Chars,       (* the characters that can be printed                    *)
          Infos,       (* what the boot loader may hand over                    *)
          EarlyCalls,  (* calls of serial_printf, as in ps2_init                *)
          Markers,     (* the addresses of the kernel's start and end           *)
          LateCalls,   (* calls of printf, as in shell_key                      *)
          Traces       (* the numbers irq_handler may write for an interrupt    *)

Words == 0 .. Word - 1

hex == <<"0", "1", "2", "3", "4", "5", "6", "7", "8", "9", "A", "B", "C", "D", "E", "F">>

(* b to the n-th.                                                               *)
Power(b, n) ==
    LET power[k \in Nat] == IF k = 0 THEN 1 ELSE b * power[k - 1]
    IN  power[n]

ASSUME SizeAssumption ==
    /\ Word \in Nat \ {0} /\ Word % 2 = 0
    /\ INT_DIGITS \in Nat /\ Word \div 2 < Power(10, INT_DIGITS)
    /\ ToSet(hex) \cup {"-", "%", "d", "x", ":", ">", "\n"} \subseteq Chars
    /\ {"S", "E", "L", "U", "K", "F", "M", "B", "T"} \subseteq Chars

(* The entries of a map are led by their sizes, of what follows, in bytes.      *)
ASSUME InfosAssumption ==
    \A info \in Infos :
        /\ info.mem_lower \in Words /\ info.mem_upper \in Words
        /\ info.mmap \in Seq(Seq(Words)) /\ 4 * Len(FlattenSeq(info.mmap)) < Word
        /\ 6 \in info.flags => info.mmap # <<>>
        /\ \A k \in DOMAIN info.mmap :
            Len(info.mmap[k]) >= 6 /\ info.mmap[k][1] = 4 * (Len(info.mmap[k]) - 1)

(* A call of printf whose directives are those in kinds: each has an argument,  *)
(* in their order.                                                              *)
Takes(c, kinds, S) ==
    LET at == {k \in 1 .. Len(c.format) - 1 :
                c.format[k] = "%" /\ c.format[k + 1] \in {"c", "s", "d", "x"}}
    IN  /\ c.format \in Seq(Chars)
        /\ \A k \in at : c.format[k + 1] \in kinds
        /\ c.args \in Seq(S)
        /\ \E use \in [at -> 1 .. Len(c.args)] :
            \A k \in at, m \in at : k < m => use[k] < use[m]

(* No call mixes numbers, characters and strings.                               *)
WellFormed(c) ==
    Takes(c, {"d", "x"}, Words) \/ Takes(c, {"c"}, Chars) \/ Takes(c, {"s"}, Seq(Chars))

ASSUME CallsAssumption ==
    /\ \A c \in EarlyCalls \cup LateCalls : WellFormed(c)
    /\ Markers \in Words \X Words
    /\ \A t \in Traces : t \in Seq(0 .. Word \div 2 - 1)

VARIABLES mbi,       (* the boot loader's information                           *)
          line,      (* the line of kernel.c to be executed next                *)
          mm, i,     (* its variables; mm counts bytes from mmap_addr           *)
          call,      (* what is left of the call of printf: format and arguments*)
          conv,      (* how far the %d under way is                             *)
          buf,       (* itoa's static buffer                                    *)
          out,         (* what this call has printed                              *)
          touched,   (* history: digits that handlers stored during the %d      *)
          last,      (* history: the last number converted, and its text        *)
          listed     (* history: i and mm for each line of the listing          *)

program == <<mbi, line, mm, i, listed>>

vars == <<program, call, conv, buf, out, touched, last>>

NUL == "NUL"

Idle == [phase |-> "none"]

NoCall == [format |-> <<>>, args |-> <<>>]

Init ==
    /\ mbi \in Infos
    /\ line = 42 /\ mm = 0 /\ i = 0 /\ listed = <<>>
    /\ call = NoCall /\ conv = Idle /\ out = <<>>
    /\ buf = [c \in 1 .. INT_DIGITS + 2 |-> NUL]
    /\ touched = 0 /\ last = Idle
--------------------------------------------------------------------------------
(* Conversions *)

(* A word as an int, and C's division, which truncates towards zero.            *)
Signed(w) == IF w >= Word \div 2 THEN w - Word ELSE w

Quot(a, b) == IF a < 0 THEN - ((- a) \div b) ELSE a \div b

Rem(a, b) == a - b * Quot(a, b)

(* Fault: what is left of a negative number is not negated.                     *)
DecimalDigitPlain(n) == hex[1 + (n % 10)]

DecimalDigit(n) == hex[1 + (IF n < 0 THEN - Rem(n, 10) ELSE Rem(n, 10))]

(* A number after so many divisions.                                            *)
Divided(n, base) ==
    LET left[k \in Nat] == IF k = 0 THEN n ELSE Quot(left[k - 1], base)
    IN  left

(* How many it takes until nothing is left.                                     *)
Rounds(n, base, atLeast) ==
    Min({k \in atLeast .. INT_DIGITS : Divided(n, base)[k] = 0})

(* The characters itoa stores, from the last cell before the NUL towards p.     *)
itoa(n) ==
    [k \in 1 .. Rounds(n, 10, 1) |-> DecimalDigit(Divided(n, 10)[k - 1])]
        \o (IF n < 0 THEN <<"-">> ELSE <<>>)

(* Fault: p starts behind the terminating NUL.                                  *)
CellBehind(k) == INT_DIGITS + 3 - k

(* The cell of the k-th of them.                                                *)
Cell(k) == INT_DIGITS + 2 - k

strlen(b, start) == Min({c \in start .. Len(b) : b[c] = NUL}) - start

(* Fault: the number is not incremented first.                                  *)
NegativeFromPlain(x) == x

NegativeFrom(x) == x + 1

(* What %x stores, from the last digit to the first.                            *)
hexDigits(x) ==
    LET start == IF x < 0 THEN NegativeFrom(x) ELSE x
        digit(n) == hex[(IF x < 0 THEN 16 ELSE 1) + Rem(n, 16)]
    IN  IF x = 0 THEN <<"0">>
        ELSE [k \in 1 .. Rounds(start, 16, 0) |-> digit(Divided(start, 16)[k - 1])]

(* The characters at both ends are exchanged, p1 and p2 moving inwards.         *)
strrev(str) ==
    LET exchange(s, p1) == [s EXCEPT ![p1] = s[Len(s) + 1 - p1], ![Len(s) + 1 - p1] = s[p1]]
        after[p1 \in 0 .. Len(str) \div 2] ==
            IF p1 = 0 THEN str ELSE exchange(after[p1 - 1], p1)
    IN  after[Len(str) \div 2]
--------------------------------------------------------------------------------
(* printf *)

format == call.format

arg == Head(call.args)

Puts(text) == out' = out \o text

(* Text is printed up to the next %; of %% the second one begins the text.      *)
Text ==
    /\ format # <<>> /\ (format[1] = "%" => Len(format) > 1 /\ format[2] = "%")
    /\ LET first == IF format[1] = "%" THEN 2 ELSE 1
           next  == Min({k \in first + 1 .. Len(format) : format[k] = "%"} \cup {Len(format) + 1})
       IN  /\ Puts(SubSeq(format, first, next - 1))
           /\ call' = [call EXCEPT !.format = SubSeq(@, next, Len(@))]
    /\ UNCHANGED <<conv, buf, touched, last>>

Directive(c) == Len(format) > 1 /\ format[1] = "%" /\ format[2] = c

Consumed == [format |-> SubSeq(format, 3, Len(format)), args |-> Tail(call.args)]

Character ==
    /\ Directive("c")
    /\ Puts(<<arg>>)
    /\ call' = Consumed
    /\ UNCHANGED <<conv, buf, touched, last>>

String ==
    /\ Directive("s")
    /\ Puts(arg)
    /\ call' = Consumed
    /\ UNCHANGED <<conv, buf, touched, last>>

(* The digits of %x are in a buffer on the stack.                               *)
Hexadecimal ==
    /\ Directive("x")
    /\ LET text == strrev(hexDigits(Signed(arg)))
       IN  Puts(text) /\ last' = [phase |-> "x", value |-> arg, text |-> text]
    /\ call' = Consumed
    /\ UNCHANGED <<conv, buf, touched>>

Other ==
    /\ format # <<>> /\ format[1] = "%"
    /\ (Len(format) > 1 => format[2] \notin {"%", "c", "s", "d", "x"})
    /\ Puts(format)
    /\ call' = [call EXCEPT !.format = <<>>]
    /\ UNCHANGED <<conv, buf, touched, last>>

(* %d: itoa is called for the pointer, again for the length, and once more for  *)
(* the length when all is printed.                                              *)
Decimal ==
    /\ Directive("d")
    /\ conv' = [phase |-> "pointer", k |-> 0, value |-> Signed(arg), len |-> 0]
    /\ touched' = 0
    /\ call' = Consumed
    /\ UNCHANGED <<buf, out, last>>

stores == itoa(conv.value)

p == Cell(Len(stores))

(* itoa's assignments to *--p.                                                  *)
Store ==
    /\ conv.phase \in {"pointer", "length", "written"} /\ conv.k < Len(stores)
    /\ buf' = [buf EXCEPT ![Cell(conv.k + 1)] = stores[conv.k + 1]]
    /\ conv' = [conv EXCEPT !.k = @ + 1]
    /\ UNCHANGED <<call, out, touched, last>>

Finished(phase) == conv.phase = phase /\ conv.k = Len(stores)

Pointer ==
    /\ Finished("pointer")
    /\ conv' = [conv EXCEPT !.phase = "length", !.k = 0]
    /\ UNCHANGED <<call, buf, out, touched, last>>

Length ==
    /\ Finished("length")
    /\ conv' = [conv EXCEPT !.phase = "print", !.k = 0, !.len = strlen(buf, p)]
    /\ UNCHANGED <<call, buf, out, touched, last>>

print ==
    /\ conv.phase = "print" /\ conv.k < conv.len
    /\ out' = Append(out, buf[p + conv.k])
    /\ conv' = [conv EXCEPT !.k = @ + 1]
    /\ UNCHANGED <<call, buf, touched, last>>

Printed ==
    /\ conv.phase = "print" /\ conv.k = conv.len
    /\ last' = [phase |-> "d", value |-> conv.value, touched |-> touched,
                text |-> SubSeq(out, Len(out) - conv.len + 1, Len(out))]
    /\ conv' = [conv EXCEPT !.phase = "written", !.k = 0]
    /\ UNCHANGED <<call, buf, out, touched>>

Written ==
    /\ Finished("written")
    /\ conv' = Idle /\ touched' = 0
    /\ UNCHANGED <<call, buf, out, last>>

Format == Text \/ Character \/ String \/ Hexadecimal \/ Decimal \/ Other

Converting == Store \/ Pointer \/ Length \/ print \/ Printed \/ Written

Step == (IF conv = Idle THEN Format ELSE Converting) /\ UNCHANGED program

printf == line # 44 /\ Step

(* The same text, as ps2_init calls it.                                         *)
serial_printf == line = 44 /\ Step

(* serial_writed, as irq_handler's trace and the keyboard's call it; the whole  *)
(* handler runs with interrupts off, and shell_key is part of one.              *)
Stored(b, n) ==
    LET new == itoa(n)
    IN  [c \in DOMAIN b |-> IF Cell(c) \in DOMAIN new THEN new[Cell(c)] ELSE b[c]]

Traced(b, trace) ==
    LET after[k \in 0 .. Len(trace)] == IF k = 0 THEN b ELSE Stored(after[k - 1], trace[k])
    IN  after[Len(trace)]

Interrupt ==
    /\ line \notin {42, 44} /\ (line = 61 => conv = Idle /\ format = <<>>)
    /\ \E trace \in Traces :
        /\ buf' = Traced(buf, trace)
        /\ touched' = IF conv = Idle THEN 0
                      ELSE Max({touched} \cup {Len(itoa(trace[k])) : k \in DOMAIN trace})
    /\ UNCHANGED <<program, call, conv, out, last>>
--------------------------------------------------------------------------------
(* The memory map: words in a row, each entry led by its size                   *)

memory == FlattenSeq(mbi.mmap)

mmap_length == 4 * Len(memory)

Field(n) == LET w == mm \div 4 + n + 1 IN IF w <= Len(memory) THEN memory[w] ELSE 0

size == Field(0)

(* low + (high << sizeof(unsigned int))                                         *)
Shifted(low, high) == (low + high * 16) % Word

(* The callers *)

Returned == format = <<>> /\ conv = Idle

Goto(here, next) == line = here /\ Returned /\ line' = next

Calls(f, args) ==
    /\ call' = [format |-> f, args |-> args]
    /\ out' = <<>>
    /\ UNCHANGED <<conv, buf, touched, last>>

Quiet == UNCHANGED <<call, conv, buf, out, touched, last>>

Flag(here, bit, yes, no) ==
    /\ Goto(here, IF bit \in mbi.flags THEN yes ELSE no)
    /\ Quiet /\ UNCHANGED <<mbi, mm, i, listed>>

Says(here, next, f, args) ==
    /\ Goto(here, next)
    /\ Calls(f, args) /\ UNCHANGED <<mbi, mm, i, listed>>

(* Fault: the size is taken for the whole entry's.                              *)
NextEntryBySize == mm + size

NextEntry == mm + size + 4

MmapLine == <<"M", "%", "d", ":", "S", "%", "x", "B", "%", "x", "L", "%", "x", "T", "%", "d", ">">>

current_test ==
    \/ Flag(66, 0, 68, 72)
    \/ Says(68, 69, <<"L", "%", "d", "K">>, <<mbi.mem_lower>>)
    \/ Says(69, 70, <<"U", "%", "d", "K">>, <<mbi.mem_upper>>)
    \/ Says(70, 72, <<"\n">>, <<>>)
    \/ Flag(72, 6, 74, 61)
    \/ Says(74, 78, <<"F", "%", "d", "\n">>, <<mmap_length \div size>>)
    \/ /\ Goto(78, IF mm < mmap_length THEN 80 ELSE 61)
       /\ Quiet /\ UNCHANGED <<mbi, mm, i, listed>>
    \/ /\ Goto(80, 85)
       /\ Calls(MmapLine, <<i, size, Shifted(Field(1), Field(2)),
                            Shifted(Field(3), Field(4)), Field(5)>>)
       /\ listed' = Append(listed, call'.args)
       /\ UNCHANGED <<mbi, mm, i>>
    \/ /\ Goto(85, 78)
       /\ i' = i + 1 /\ mm' = NextEntry
       /\ Quiet /\ UNCHANGED <<mbi, listed>>

(* Before and after it, with interrupts off; line 44 turns them on.             *)
kernel_early ==
    \/ \E c \in EarlyCalls : Says(42, 44, c.format, c.args)
    \/ Goto(44, 52) /\ Quiet /\ UNCHANGED <<mbi, mm, i, listed>>

(* The first line of kernel_main; then it calls current_test.                   *)
kernel_main == Says(52, 66, <<"S", "%", "x", "E", "%", "x", "\n">>, Markers)

shell_key ==
    \E c \in LateCalls : Says(61, 61, c.format, c.args)

Next == printf \/ serial_printf \/ kernel_early \/ kernel_main \/ current_test \/ shell_key \/ Interrupt

Spec == Init /\ [][Next]_vars
--------------------------------------------------------------------------------
(* Properties *)

(* The values of the variables; itoa's text stays in its buffer, and terminated.*)
TypeOK ==
    /\ mbi \in Infos /\ line \in 42 .. 85 /\ i \in Nat /\ mm \in Nat
    /\ buf \in [1 .. INT_DIGITS + 2 -> ToSet(hex) \cup {"-", NUL}]
    /\ buf[INT_DIGITS + 2] = NUL
    /\ touched \in 0 .. INT_DIGITS

(* What a text of digits denotes in a base.                                     *)
Value(digits, base) ==
    LET D(c) == (CHOOSE n \in 1 .. base : hex[n] = c) - 1
        value[k \in 0 .. Len(digits)] ==
            IF k = 0 THEN 0 ELSE base * value[k - 1] + D(digits[k])
    IN  value[Len(digits)]

Magnitude(n) == IF n < 0 THEN - n ELSE n

(* printf's %d, while interrupts make itoa write other numbers into the buffer  *)
(* that is being printed: the number keeps its length, and but for as many of   *)
(* its last characters as a handler's number has it is right.                   *)
DecimalRight ==
    last.phase = "d" =>
        LET sign == IF last.value < 0 THEN 1 ELSE 0
            len  == Len(last.text) - sign
            kept == Max({0, len - last.touched})
        IN  /\ Magnitude(last.value) < Power(10, len)
            /\ len > 1 => Magnitude(last.value) >= Power(10, len - 1)
            /\ sign = 1 /\ last.touched <= len => last.text[1] = "-"
            /\ Value(SubSeq(last.text, sign + 1, sign + kept), 10)
                 = Magnitude(last.value) \div Power(10, len - kept)

(* printf's %x, which divides a negative number towards zero: what is printed   *)
(* is the word, without zeros at its front or, in a negative number, Fs.        *)
HexadecimalRight ==
    last.phase = "x" =>
        LET n == Value(last.text, 16) len == Len(last.text)
        IN  IF last.value < Word \div 2
            THEN n = last.value /\ (len > 1 => last.text[1] # "0")
            ELSE n = last.value - (Word - Power(16, len)) /\ (len > 0 => last.text[1] # "F")

(* current_test steps by sizes it reads from the map: it lists the entries one  *)
(* by one in their order, with their contents, and ends with the last.          *)
EntriesListed ==
    /\ Len(listed) <= Len(mbi.mmap)
    /\ line = 61 /\ 6 \in mbi.flags => Len(listed) = Len(mbi.mmap)
    /\ \A k \in DOMAIN listed :
        LET entry == mbi.mmap[k]
        IN  /\ listed[k][1] = k - 1 /\ listed[k][2] = entry[1] /\ listed[k][5] = entry[6]
            /\ entry[3] = 0 => listed[k][3] = entry[2]
            /\ entry[5] = 0 => listed[k][4] = entry[4]
================================================================================
