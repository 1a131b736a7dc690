-------------------------------- MODULE MCFaults -------------------------------
(* Faults with every vector, and three words for the low memory: one that is a  *)
(* vector, the first that is none, and one far beyond.  That an exception enters*)
(* its stub is due to the tables of Descriptors, tried here on a few words.     *)
EXTENDS Faults

AllVectors == 0 .. 31

MCLowWords == {13, 32, 61440}

Samples == {{}, 0 .. 31, {20, 12, 5}, {31, 17, 16, 15, 0}}

Tables == INSTANCE Descriptors
              WITH stub <- [num \in 0 .. 47 |-> {20, 13} \cup {b \in 4 .. 9 : num \div 2^(b - 4) % 2 = 1}],
                   tss <- {20, 14, 6}, tss_end <- {20, 14, 7, 5, 3}

ASSUME TablesTried ==
    /\ Tables!SegmentsFlat /\ Tables!GatesEnterStubs
    /\ \A base, limit \in Samples, flag \in {{}, 0 .. 15, {15, 8, 7, 0}} :
          Tables!FieldsKept(base, limit, flag)
================================================================================
