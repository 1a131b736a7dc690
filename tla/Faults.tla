--------------------------------- MODULE Faults --------------------------------
(* The exception path: the gates isrs_install fills in (isr.c), the stubs       *)
(* isr0 .. isr31 and isr_common_stub (isrirq.S), which build a struct regs      *)
(* (isr.h) on the stack, and fault_handler, which reads it, names the exception *)
(* and never returns.  Everything runs at the kernel's privilege level.  An NMI *)
(* comes at any moment, also between two of these steps and after the halt.     *)
EXTENDS Naturals, Sequences

CONSTANTS Traps,      (* the exceptions the running program may cause           *)
          LowWords    (* what a word of memory at one of the addresses 2 .. 9,  *)
                      (* the firmware's interrupt table, may hold               *)

ASSUME FaultsAssumption ==
    /\ Traps \subseteq 0 .. 31
    /\ LowWords \subseteq Nat

VARIABLES stack,     (* words with what they are for, the top last              *)
          pc,        (* where the processor is                                  *)
          vector,    (* history: the vector of the last exception taken         *)
          nmi_masked,(* after an NMI the processor takes none until an iret     *)
          screen     (* what fault_handler has reported                         *)

vars == <<stack, pc, vector, nmi_masked, screen>>

NMI == 2

Word(name) == <<name, 0>>

Words(names) == [i \in DOMAIN names |-> Word(names[i])]

(* The vectors for which the processor pushes an error code.  (The alignment    *)
(* check, 17, would too, but is not raised at the kernel's privilege level.)    *)
WithErrorCode == {8} \cup 10 .. 14

(* Fault: the double fault's stub pushes a dummy, too.                          *)
StubsWithoutDummyButDouble == 10 .. 14

(* The stubs that leave the error code to the processor, ...                    *)
StubsWithoutDummy == {8} \cup 10 .. 14

(* ... and the ones that say "push n" for "push $n": the operand is memory.     *)
StubsPushingMemory == 2 .. 9

Init ==
    /\ stack = <<>> /\ screen = <<>>
    /\ pc = "running" /\ vector = 0 /\ nmi_masked = FALSE
--------------------------------------------------------------------------------
(* The processor pushes its part of the frame and enters the gate.              *)
Exception(v) ==
    /\ stack' = stack \o Words(<<"eflags", "cs", "eip">>)
                      \o (IF v \in WithErrorCode THEN <<Word("err_code")>> ELSE <<>>)
    /\ pc' = "isr"
    /\ vector' = v
    /\ UNCHANGED screen

Trap ==
    /\ pc = "running"
    /\ \E v \in Traps \ {NMI} : Exception(v)
    /\ UNCHANGED nmi_masked

NonMaskable ==
    /\ ~ nmi_masked
    /\ Exception(NMI)
    /\ nmi_masked' = TRUE

(* The stub of the vector.                                                      *)
Stub ==
    /\ pc = "isr"
    /\ \E word \in IF vector \in StubsPushingMemory THEN LowWords ELSE {vector} :
          stack' = stack
                      \o (IF vector \in StubsWithoutDummy THEN <<>> ELSE <<Word("dummy")>>)
                      \o <<<<"int_no", word>>>>
    /\ pc' = "isr_common_stub"
    /\ UNCHANGED <<vector, nmi_masked, screen>>

(* pusha, the four segment registers, and the frame's address as argument.      *)
SavedWords == 8 + 4

(* Faults: another word is the argument; the stub does not call fault_handler.  *)
ArgumentWrong == "code"

CalleeNone == "running"

Argument == "r"

Callee == "fault_handler"

isr_common_stub ==
    /\ pc = "isr_common_stub"
    /\ stack' = stack \o [i \in 1 .. SavedWords |-> Word("saved")] \o <<Word(Argument)>>
    /\ pc' = Callee
    /\ UNCHANGED <<vector, nmi_masked, screen>>

(* Fault: the argument's word is forgotten.                                     *)
RegsFieldNoArgument(n) == stack[Len(stack) - n]

(* struct regs counts from the word below the argument.                         *)
RegsField(n) == stack[Len(stack) - 1 - n]

r == [int_no   |-> RegsField(SavedWords),
      err_code |-> RegsField(SavedWords + 1),
      eip      |-> RegsField(SavedWords + 2)]

fault_handler ==
    /\ pc = "fault_handler"
    /\ screen' = Append(screen, <<IF r.int_no[2] < 32 THEN "message" ELSE "number", r.int_no[2]>>)
    /\ pc' = "halted"
    /\ UNCHANGED <<stack, vector, nmi_masked>>

Next == Trap \/ NonMaskable \/ Stub \/ isr_common_stub \/ fault_handler

Spec == Init /\ [][Next]_vars /\ WF_vars(Stub \/ isr_common_stub \/ fault_handler)
--------------------------------------------------------------------------------
(* Properties *)

(* The values of the variables.                                                 *)
TypeOK ==
    /\ stack \in Seq({"eflags", "cs", "eip", "err_code", "dummy", "int_no", "saved", "r"}
                        \X Nat)
    /\ pc \in {"running", "isr", "isr_common_stub", "fault_handler", "halted"}
    /\ vector \in 0 .. 31
    /\ nmi_masked \in BOOLEAN
    /\ screen \in Seq({"message", "number"} \X Nat)

(* "This defines what the stack looks like after an ISR was running" (isr.h):   *)
(* however the exceptions nest and whether or not the processor pushes an error *)
(* code, the fields of struct regs lie on the words meant for them.             *)
FrameLayout ==
    pc = "fault_handler" =>
        /\ r.int_no[1] = "int_no"
        /\ r.err_code = Word(IF vector \in WithErrorCode THEN "err_code" ELSE "dummy")
        /\ r.eip = Word("eip")

(* An exception is reported as what it is, if its stub pushes an immediate.     *)
Reported(v) == pc = "halted" /\ vector = v => screen[Len(screen)] = <<"message", v>>

ReportedTruly == \A v \in 0 .. 31 \ StubsPushingMemory : Reported(v)

(* Every exception ends in fault_handler's report, its own or, because that     *)
(* never returns, the one of an NMI that came on top of it.                     *)
AlwaysReported == pc = "isr" ~> pc = "halted"

(* "2: Non Maskable Interrupt Exception" (isrirq.S), "Non Maskable Interrupt"   *)
(* (isr.c): an NMI is reported as one.                                          *)
NmiReported == Reported(NMI)
================================================================================
