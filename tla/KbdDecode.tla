------------------------------- MODULE KbdDecode -------------------------------
(* What ps2kb_handler (kernel/arch/i386/ps2kb.c) makes of one scancode frame    *)
(* once it has read the frame's bytes.  Pure definitions: a frame is            *)
(*   [ext, down, code]   the E0 prefix, no F0 prefix, the final byte;           *)
(* the modifier flags ps2kb_state are the set of the fields that are true; a    *)
(* character is named by the cell of kb_map it is read from.                    *)
EXTENDS Naturals, Sequences

(* Scancodes the handler names.  RCTL and RALT are LCTL and LALT behind E0.     *)
LCTL == 20

LALT == 17

LSHF == 18

RSHF == 89

MOD == 31

FunctionKeys == {1, 3, 4, 5, 6, 7, 9, 10, 11, 12, 120, 131}

Prefix == [break |-> 240, extended |-> 224]

(* KEYCODE (libc/include/sys/kb.h): the keys without a character, which kb_map  *)
(* nevertheless maps to their own code.                                         *)
KEY_NONE == 0

KeyCodes == {107, 114, 116, 117, 122, 125}

Names == {"lshift", "rshift", "lctrl", "rctrl", "lalt", "ralt", "mod"}

(* The non-zero cells of gb[KS_DEFAULT] and gb[KS_SHIFT].                       *)
ShiftMapped == {13, 14, 17, 18} \cup 20 .. 22 \cup 26 .. 30 \cup 33 .. 38
                  \cup 41 .. 46 \cup 49 .. 54 \cup 58 .. 62 \cup 65 .. 70
                  \cup 73 .. 78 \cup {82, 84, 85, 89, 90, 91, 93, 97, 102}

DefaultMapped == ShiftMapped \cup FunctionKeys \cup KeyCodes \cup {MOD}

NoChar == <<"none", 0>>

kb_map(keyset, code) ==
    IF code \in (IF keyset = "shift" THEN ShiftMapped ELSE DefaultMapped)
       THEN <<keyset, code>>
       ELSE NoChar

(* Faults: a release is not noticed; a control's release counts for both.       *)
SetOnly(fields, field, down) == fields \cup {field}

SetControls(fields, field, down) ==
    IF down THEN fields \cup {field}
            ELSE fields \ (IF field = "lctrl" THEN {"lctrl", "rctrl"} ELSE {field})

SetTo(fields, field, down) == IF down THEN fields \cup {field} ELSE fields \ {field}

(* The first switch, for extended frames only, then the second, for all: LCTL,  *)
(* LALT and MOD are cases of both.                                              *)
ModifiersAfter(state, f) ==
    LET first ==
            CASE f.ext /\ f.code = LCTL -> SetTo(state, "rctrl", f.down)
              [] f.ext /\ f.code = LALT -> SetTo(state, "ralt", f.down)
              [] f.ext /\ f.code = MOD  -> SetTo(state, "mod", f.down)
              [] OTHER -> state
    IN CASE f.code = LSHF -> SetTo(first, "lshift", f.down)
         [] f.code = LCTL -> SetTo(first, "lctrl", f.down)
         [] f.code = LALT -> SetTo(first, "lalt", f.down)
         [] f.code = RSHF -> SetTo(first, "rshift", f.down)
         [] f.code = MOD  -> SetTo(first, "mod", f.down)
         [] OTHER -> first

(* The frames that reach the second switch's default and a mapped cell.         *)
IsCharFrame(f) ==
    /\ f.code \notin {LSHF, LCTL, LALT, RSHF, MOD} \cup FunctionKeys
    /\ kb_map("default", f.code) # NoChar

(* e.code as the first switch leaves it, which decides how e.utf8 is chosen.    *)
ExtendedCode(f) == IF f.ext THEN f.code ELSE KEY_NONE

(* Fault: only the left control counts.                                         *)
ControlHeldLeft(state) == "lctrl" \in state

ControlHeld(state) == state \cap {"lctrl", "rctrl"} # {}

HeldFlags(state) ==
    {x \in {"control", "shift", "alt", "mod"} :
        CASE x = "control" -> ControlHeld(state)
          [] x = "shift"   -> state \cap {"lshift", "rshift"} # {}
          [] x = "alt"     -> state \cap {"lalt", "ralt"} # {}
          [] x = "mod"     -> "mod" \in state}

(* Fault: the event is not initialised.                                         *)
EventOfUninitialised(state, f) ==
    [utf8 |-> <<"stack", 0>>, code |-> f.code, flags |-> {"special"}]

(* The key event handed to shell_key; state is ps2kb_state after the switches.  *)
EventOf(state, f) ==
    LET flags == HeldFlags(state) \cup (IF f.down THEN {"down"} ELSE {})
        event(utf8, special) ==
            [utf8 |-> utf8, code |-> f.code, flags |-> flags \cup special]
    IN CASE ~ IsCharFrame(f) ->
                [utf8 |-> NoChar, code |-> f.code, flags |-> {"special"}]
         [] IsCharFrame(f) /\ flags \cap {"control", "alt", "mod"} # {} ->
                event(kb_map("default", f.code), {"special"})
         [] IsCharFrame(f) /\ flags \cap {"control", "alt", "mod"} = {}
              /\ ExtendedCode(f) # KEY_NONE ->
                event(NoChar, {"special"})
         [] OTHER ->
                event(kb_map(IF "shift" \in flags THEN "shift" ELSE "default", f.code), {})

(* shell_key (kernel/arch/i386/shell.c): what an event prints.                  *)
ShellEcho(e) ==
    CASE "down" \notin e.flags -> <<"nothing">>
      [] "down" \in e.flags /\ "special" \notin e.flags -> <<"char", e.utf8>>
      [] OTHER -> IF e.code \in KeyCodes THEN <<"name", e.code>> ELSE <<"hex", e.code>>
--------------------------------------------------------------------------------
(* The bytes of a frame, and the reading of them back by the nested ifs at the  *)
(* head of ps2kb_handler.                                                       *)
Encode(f) ==
    (IF f.ext THEN <<Prefix.extended>> ELSE <<>>)
      \o (IF f.down THEN <<>> ELSE <<Prefix.break>>)
      \o <<f.code>>

(* Faults: behind E0 an F0 is taken for the scancode; the handler reads one     *)
(* byte more than a frame has.                                                  *)
IsWholeNoExtendedBreak(bytes) ==
    CASE Len(bytes) = 1 -> bytes[1] \notin {Prefix.break, Prefix.extended}
      [] OTHER -> Len(bytes) = 2

IsWholeOneMore(bytes) == Len(bytes) = 4

(* The bytes read so far are a whole frame for the handler: it reads on after   *)
(* F0, after E0, and after F0 behind E0, and takes any other byte as final.     *)
IsWhole(bytes) ==
    CASE Len(bytes) = 1 -> bytes[1] \notin {Prefix.break, Prefix.extended}
      [] Len(bytes) = 2 -> bytes[1] = Prefix.break \/ bytes[2] # Prefix.break
      [] OTHER -> Len(bytes) = 3

FrameOf(bytes) ==
    [ext  |-> bytes[1] = Prefix.extended,
     down |-> \A i \in 1 .. Len(bytes) - 1 : bytes[i] # Prefix.break,
     code |-> bytes[Len(bytes)]]
================================================================================
