------------------------------- MODULE MCPs2Init -------------------------------
(* Ps2Init with one key, whose scancode would, as a configuration byte, stop    *)
(* the keyboard's clock.                                                        *)
EXTENDS Ps2Init

(* All but slow controllers without a keyboard that works.                      *)
SomeMachines ==
    {m \in MachineType : m.late /\ ~ m.queues => m.keyboard = "works"}

LetterA == {Bits(\h1C)}
================================================================================
