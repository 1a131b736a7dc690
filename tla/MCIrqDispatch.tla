----------------------------- MODULE MCIrqDispatch -----------------------------
(* IrqDispatch with the timer's line, the keyboard's and the slave's first       *)
(* line, whose vector, 40, is the boundary of the slave's end-of-interrupt.     *)
EXTENDS IrqDispatch

MCLines == {0, 1, 8}
================================================================================
