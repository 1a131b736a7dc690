------------------------------- MODULE MCKeyboard ------------------------------
(* Keyboard with the keys whose frames the handler tells apart, as the scancode *)
(* set 2 of the keyboard gives them.                                            *)
EXTENDS Keyboard

Plain(c) == [ext |-> FALSE, code |-> c]

Extended(c) == [ext |-> TRUE, code |-> c]

(* A letter, both controls, the left shift with the fake shift that the         *)
(* navigation keys send behind it, the GUI key, an arrow and a function key.    *)
(* The fields of the controls and of the shift have two keys that clear them.   *)
MCKeys ==
    {Plain(28), Plain(LCTL), Extended(LCTL), Plain(LSHF), Extended(LSHF),
     Extended(MOD), Extended(117), Plain(5)}
================================================================================
