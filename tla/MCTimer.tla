-------------------------------- MODULE MCTimer --------------------------------
(* Timer with a short word, no multiple of a second, that wraps around twice.   *)
EXTENDS Timer

Arguments == {-1, 0, 1, 3}
================================================================================
