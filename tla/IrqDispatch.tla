------------------------------ MODULE IrqDispatch ------------------------------
(* The interrupt path of the kernel: the IDT gates and stubs irq0 .. irq15      *)
(* (isrirq.S), irq_handler and the handler table irq_routines (irq.c).  One     *)
(* processor; devices raise and lower their lines at any time.  Every gate is   *)
(* an interrupt gate (type 0x8E) and every stub starts with cli, so a handler   *)
(* is never itself interrupted; between two steps of it the devices and the two *)
(* interrupt controllers do change.                                             *)
EXTENDS Pic

CONSTANTS Lines,      (* the lines devices are wired to                         *)
          Handlers,   (* the functions irq_install_handler may be given         *)
          NoHandler   (* the null pointer of irq_routines                       *)

ASSUME LinesAssumption ==
    /\ Lines \subseteq Irq \ {Cascade}
    /\ NoHandler \notin Handlers

VARIABLES pic,            (* the interrupt controllers                          *)
          ifl,            (* the processor's interrupt flag                     *)
          irq_routines,   (* the handler table                                  *)
          pc,             (* where the processor is                             *)
          int_no          (* regs.int_no of the frame on the stack              *)

vars == <<pic, ifl, irq_routines, pc, int_no>>

Locations == {"main", "inta", "irq_handler", "handler",
              "eoi_slave", "eoi_master", "iret"}

(* After irq_remap and irq_install, before kernel_early's sti, on either        *)
(* machine: the table is empty and interrupts are off.                          *)
Init ==
    /\ pic \in {PicReset(keeps) : keeps \in BOOLEAN}
    /\ ifl = FALSE
    /\ irq_routines = [i \in Irq |-> NoHandler]
    /\ pc = "main"
    /\ int_no = 0
--------------------------------------------------------------------------------
(* Devices *)

RaiseIrq(i) ==
    /\ i \notin pic.line
    /\ pic' = RaiseLine(pic, i)
    /\ UNCHANGED <<ifl, irq_routines, pc, int_no>>

LowerIrq(i) ==
    /\ i \in pic.line
    /\ pic' = LowerLine(pic, i)
    /\ UNCHANGED <<ifl, irq_routines, pc, int_no>>
--------------------------------------------------------------------------------
(* The interrupted program *)

InstallHandler(i, h) ==
    /\ pc = "main"
    /\ irq_routines' = [irq_routines EXCEPT ![i] = h]
    /\ UNCHANGED <<pic, ifl, pc, int_no>>

UninstallHandler(i) == InstallHandler(i, NoHandler)

(* The sti that ends kernel_early.                                              *)
Sti ==
    /\ pc = "main"
    /\ ~ ifl
    /\ ifl' = TRUE
    /\ UNCHANGED <<pic, irq_routines, pc, int_no>>
--------------------------------------------------------------------------------
(* The interrupt path *)

(* At an instruction boundary the processor sees the controller's request ...   *)
Accept ==
    /\ pc = "main"
    /\ ifl
    /\ \E i \in Pending(pic) :
          /\ IsHighest(i, Pending(pic))
          /\ int_no' = Vector(i)
    /\ pc' = "inta"
    /\ UNCHANGED <<pic, ifl, irq_routines>>

(* ... and acknowledges it: a request of higher priority may have come in       *)
(* since, or the one it saw may have been withdrawn.  The gate clears the       *)
(* interrupt flag and the stub pushes the vector.                               *)
AckRequest ==
    \E i \in Pending(pic) :
        /\ IsHighest(i, Pending(pic))
        /\ pic' = AckLine(pic, i)
        /\ int_no' = Vector(i)

AckNothing ==
    /\ Pending(pic) = {}
    /\ IF int_no >= SlaveBase
          THEN /\ pic' = [pic EXCEPT !.isr = @ \cup {Cascade}]
               /\ int_no' = Vector(SpuriousSlaveLine)
          ELSE /\ pic' = pic
               /\ int_no' = Vector(SpuriousLine)

Enter ==
    /\ pc = "inta"
    /\ AckRequest \/ AckNothing
    /\ ifl' = FALSE
    /\ pc' = "irq_handler"
    /\ UNCHANGED irq_routines

(* r->int_no - 32 is unsigned, so a vector below 32 fails the bound too.        *)
BoundCheckFails == int_no < MasterBase \/ int_no - MasterBase > 16

(* Fault: without a handler irq_handler returns at once.                        *)
UnhandledReturns == "iret"

Unhandled == "eoi_slave"

(* irq_handler up to the call of the handler, or past it when there is none.    *)
Dispatch ==
    /\ pc = "irq_handler"
    /\ pc' = CASE BoundCheckFails -> "iret"
               [] ~ BoundCheckFails
                     /\ irq_routines[int_no - MasterBase] = NoHandler -> Unhandled
               [] OTHER -> "handler"
    /\ UNCHANGED <<pic, ifl, irq_routines, int_no>>

HandlerReturns ==
    /\ pc = "handler"
    /\ pc' = "eoi_slave"
    /\ UNCHANGED <<pic, ifl, irq_routines, int_no>>

(* Fault: "greater than 40" taken by the letter.                                *)
SlaveVectorAbove40 == int_no > SlaveBase

SlaveVector == int_no >= SlaveBase

(* The slave is told only for the vectors it raised.                            *)
EoiSlave ==
    /\ pc = "eoi_slave"
    /\ pic' = IF SlaveVector THEN SlaveEoi(pic) ELSE pic
    /\ pc' = "eoi_master"
    /\ UNCHANGED <<ifl, irq_routines, int_no>>

(* Fault: the master is told only what the slave was not.                       *)
MasterToldElse == ~ SlaveVector

MasterTold == TRUE

EoiMaster ==
    /\ pc = "eoi_master"
    /\ pic' = IF MasterTold THEN MasterEoi(pic) ELSE pic
    /\ pc' = "iret"
    /\ UNCHANGED <<ifl, irq_routines, int_no>>

(* The stub's tail: iret restores the flags of the interrupted program.         *)
Iret ==
    /\ pc = "iret"
    /\ pc' = "main"
    /\ ifl' = TRUE
    /\ int_no' = 0
    /\ UNCHANGED <<pic, irq_routines>>
--------------------------------------------------------------------------------
Device == \E i \in Lines : RaiseIrq(i) \/ LowerIrq(i)

Main ==
    \/ \E i \in Lines : UninstallHandler(i) \/ \E h \in Handlers : InstallHandler(i, h)
    \/ Sti

Interrupt ==
    Accept \/ Enter \/ Dispatch \/ HandlerReturns \/ EoiSlave \/ EoiMaster \/ Iret

Next == Device \/ Main \/ Interrupt

(* The processor never stops in the middle of the interrupt path and takes an   *)
(* interrupt it sees; handlers return (the ones of the kernel are modelled in   *)
(* Timer and Ps2Kbd).  Devices and the main program owe nothing.                *)
Spec == Init /\ [][Next]_vars /\ WF_vars(Interrupt)
--------------------------------------------------------------------------------
(* Properties *)

(* The values of the variables; regs.int_no is 0 outside the interrupt path.    *)
TypeOK ==
    /\ pic \in PicState
    /\ ifl \in BOOLEAN
    /\ irq_routines \in [Irq -> Handlers \cup {NoHandler}]
    /\ pc \in Locations
    /\ int_no \in {0} \cup 32 .. 47

(* The in-service bits of the line whose vector is in the frame, and those of   *)
(* them that irq_handler still has to retire.                                   *)
FrameBits == UNION {ServiceBits(i) : i \in {j \in Irq : Vector(j) = int_no}}

Unretired ==
    CASE pc \in {"irq_handler", "handler", "eoi_slave"} -> FrameBits
      [] pc = "eoi_master" -> FrameBits \ SlaveIrq
      [] OTHER -> {}

(* "If you don't send an EOI, you won't raise any more IRQs" (irq.c, comment of *)
(* irq_handler): no bit is left in service, in either chip, that the irq_handler*)
(* now running will not retire, whatever the devices do meanwhile and also after*)
(* a spurious interrupt; in particular nothing is in service while the main     *)
(* program runs.                                                                *)
NoOrphanInService == pic.isr \subseteq Unretired

(* irq_handler lets int_no - 32 = 16 pass its bound check, one more than        *)
(* irq_routines has; no vector that reaches it indexes past the table.          *)
LookupInBounds ==
    pc \in {"irq_handler", "handler"} => int_no - MasterBase \in DOMAIN irq_routines

(* Once interrupts are on and the devices fall silent, every latched request,   *)
(* on either chip and of whatever priority, is served and retired.              *)
RequestsDrain ==
    <>[](pic.line = {}) /\ []<>ifl => <>[](pic.irr = {} /\ pic.isr = {})

(* A request of the highest priority (line 0, the timer) is never left waiting, *)
(* however the other devices behave.                                            *)
TimerLineServed == (ifl /\ 0 \in pic.irr) ~> (0 \notin pic.irr)
================================================================================
