-------------------------------- MODULE MCPs2Kbd -------------------------------
(* Ps2Kbd with the two control keys: frames of one, two and three bytes, of     *)
(* which a suffix of one is another.                                            *)
EXTENDS Ps2Kbd

LeftControl == [ext |-> FALSE, code |-> LCTL]

RightControl == [ext |-> TRUE, code |-> LCTL]

Controls == {LeftControl, RightControl}
================================================================================
