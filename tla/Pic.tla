---------------------------------- MODULE Pic ----------------------------------
(* The pair of 8259 interrupt controllers behind which every device of the      *)
(* kernel sits, as irq_remap (kernel/arch/i386/irq.c) programs them:            *)
(* edge-triggered and cascaded on line 2 (ICW1 = 0x11, ICW3 = 0x04 and 0x02),   *)
(* vectors 0x20 and 0x28 (ICW2), non-specific end-of-interrupt commands         *)
(* (ICW4 = 0x01), no line masked (OCW1 = 0).                                    *)
(*                                                                              *)
(* The chips are not part of the repository.  The repository's scripts boot the *)
(* kernel on two machines which differ in one point the driver is sensitive to: *)
(* what becomes of a request that a rising edge latched when the line drops     *)
(* before the request is acknowledged.  The field keeps says which machine it   *)
(* is:                                                                          *)
(*   TRUE   the request stays latched (QEMU, whose in-kernel chip qemu.sh asks  *)
(*          for with accel=kvm);                                                *)
(*   FALSE  the request is withdrawn with the line (Bochs, bochs.sh).           *)
EXTENDS Naturals

Irq == 0 .. 15

SlaveIrq == 8 .. 15

(* The input of the master that the slave is wired to (ICW3).                   *)
Cascade == 2

(* irr: requests latched; isr: requests in service; line: the inputs' levels.   *)
PicState ==
    [irr : SUBSET Irq, isr : SUBSET Irq, line : SUBSET Irq, keeps : BOOLEAN]

PicReset(keeps) == [irr |-> {}, isr |-> {}, line |-> {}, keeps |-> keeps]

(* A smaller rank is a higher priority.  The slave's lines rank where the       *)
(* master's line 2 does, behind line 2 itself, so that while line 2 is in       *)
(* service the master forwards nothing more from the slave.                     *)
Rank(i) == IF i \in SlaveIrq THEN 16 * Cascade + i ELSE 16 * i

(* Fault: irq_remap masks the keyboard's line, outb(0x21, 0x02).                *)
MaskKeyboard == {1}

(* The lines that are masked (OCW1): their requests are latched, not served.    *)
Mask == {}

(* The requests the master would signal to the processor now.                   *)
Pending(p) == {i \in p.irr \ Mask : \A s \in p.isr : Rank(i) < Rank(s)}

IsHighest(i, S) == i \in S /\ \A j \in S : Rank(i) <= Rank(j)

(* A device drives its line: only the rising edge latches a request.            *)
RaiseLine(p, i) ==
    [p EXCEPT !.line = @ \cup {i},
              !.irr  = IF i \in p.line THEN @ ELSE @ \cup {i}]

LowerLine(p, i) ==
    [p EXCEPT !.line = @ \ {i},
              !.irr  = IF p.keeps THEN @ ELSE @ \ {i}]

(* The in-service bits that serving line i sets: the slave's lines set a bit in *)
(* each chip.                                                                   *)
ServiceBits(i) == IF i \in SlaveIrq THEN {i, Cascade} ELSE {i}

(* The interrupt-acknowledge cycle for line i.                                  *)
AckLine(p, i) ==
    [p EXCEPT !.irr = @ \ {i}, !.isr = @ \cup ServiceBits(i)]

(* outb(0x20, 0x20) and outb(0xA0, 0x20): each chip retires the request of the  *)
(* highest priority it has in service, if it has one.                           *)
MasterEoi(p) ==
    [p EXCEPT !.isr = {i \in @ : ~ IsHighest(i, @ \ SlaveIrq)}]

SlaveEoi(p) ==
    [p EXCEPT !.isr = {i \in @ : ~ IsHighest(i, @ \cap SlaveIrq)}]

(* The interrupt vector of a line, after the remapping.                         *)
MasterBase == 32

(* Fault: irq_remap gives the slave the vectors from 0x30 on.                   *)
SlaveBaseTooHigh == 48

SlaveBase == 40

(* Fault: the slave's lines are counted from 0 like the master's.               *)
VectorUnadjusted(i) == IF i \in SlaveIrq THEN SlaveBase + i ELSE MasterBase + i

Vector(i) == IF i \in SlaveIrq THEN SlaveBase + (i - 8) ELSE MasterBase + i

(* What an acknowledge cycle finds no request for is answered with the chip's   *)
(* lowest line, without an in-service bit.                                      *)
SpuriousLine == 7

SpuriousSlaveLine == 15
================================================================================
