------------------------------ MODULE Descriptors ------------------------------
(* The tables the processor reads: the segment descriptors of gdt.c and the     *)
(* interrupt gates of idt.c, isr.c and irq.c, which are made once, before sti,  *)
(* and which no code reads back.                                                *)
(*                                                                              *)
(* A word is the set of the bits that are one; & is \cap, | is \cup.            *)
EXTENDS Integers

CONSTANTS stub,            (* the addresses of isr0 .. isr31 and irq0 .. irq15  *)
          tss, tss_end     (* &tss, and what write_tss passes for its limit     *)

Word32 == SUBSET (0 .. 31)

Word16 == SUBSET (0 .. 15)

Byte == SUBSET (0 .. 7)

Shl(w, n) == {b + n : b \in w}

Shr(w, n) == {b - n : b \in {c \in w : c >= n}}
--------------------------------------------------------------------------------
(* gdt.h and gdt.c *)

(* The attributes that the macros put together; SEG_SAVL(0), SEG_LONG(0) and    *)
(* SEG_PRIV(0) are no bits.                                                     *)
SEG_DESCTYPE == {4}

SEG_PRES == {7}

SEG_SIZE == {14}

SEG_GRAN == {15}

SEG_PRIV3 == {5, 6}

SEG_DATA_RDWR == {1}

SEG_CODE_EXRD == {1, 3}

SEG_CODE_EXA == {0, 3}

GDT_DATA_PL0 == SEG_DESCTYPE \cup SEG_PRES \cup SEG_SIZE \cup SEG_GRAN \cup SEG_DATA_RDWR

GDT_CODE_PL0 == SEG_DESCTYPE \cup SEG_PRES \cup SEG_SIZE \cup SEG_GRAN \cup SEG_CODE_EXRD

GDT_DATA_PL3 == GDT_DATA_PL0 \cup SEG_PRIV3

GDT_CODE_PL3 == GDT_CODE_PL0 \cup SEG_PRIV3

GDT_TSS == SEG_PRES \cup SEG_SIZE \cup SEG_CODE_EXA

(* descriptor is 64 bits wide, flag is promoted to 32.                          *)
create_descriptor(base, limit, flag) ==
    LET high == (limit \cap 16 .. 19)
                    \cup (Shl(flag, 8) \cap (20 .. 23 \cup 8 .. 15))
                    \cup (Shr(base, 16) \cap 0 .. 7)
                    \cup (base \cap 24 .. 31)
    IN  Shl(high, 32) \cup (Shl(base, 16) \cap 0 .. 31) \cup (limit \cap 0 .. 15)

(* gdt by the bits of the index.                                                *)
gdt ==
    [num \in {{}, {0}, {1}, {0, 1}, {2}, {0, 2}} |->
        CASE num = {}     -> create_descriptor({}, {}, {})
          [] num = {0}    -> create_descriptor({}, 0 .. 31, GDT_CODE_PL0)
          [] num = {1}    -> create_descriptor({}, 0 .. 31, GDT_DATA_PL0)
          [] num = {0, 1} -> create_descriptor({}, 0 .. 31, GDT_CODE_PL3)
          [] num = {2}    -> create_descriptor({}, 0 .. 31, GDT_DATA_PL3)
          [] num = {0, 2} -> create_descriptor(tss, tss_end, GDT_TSS)]

(* The segment registers after gdt_flush and tss_flush: 0x08, 0x10 and 0x2B.    *)
cs == {3}

ds == {4}

tr == {0, 1, 3, 5}
--------------------------------------------------------------------------------
(* idt.c, and its callers isrs_install and irq_install *)

idt_set_gate(base, sel, flags) ==
    [offset_lo |-> base \cap 0 .. 15, offset_hi |-> Shr(base, 16) \cap 0 .. 15,
     selector |-> sel, ZERO |-> {}, type_attr |-> flags]

(* All gates are cleared, then those of the stubs are set, with 0x08 and 0x8E.  *)
IDT ==
    [num \in 0 .. 255 |->
        IF num \in 0 .. 47 THEN idt_set_gate(stub[num], {3}, {1, 2, 3, 7})
        ELSE [offset_lo |-> {}, offset_hi |-> {}, selector |-> {}, ZERO |-> {}, type_attr |-> {}]]
--------------------------------------------------------------------------------
(* How the processor reads them *)

Base(d) == Shr(d \cap 16 .. 39, 16) \cup Shr(d \cap 56 .. 63, 32)

Limit(d) == (d \cap 0 .. 15) \cup Shr(d \cap 48 .. 51, 32)

Attributes(d) == Shr(d \cap (40 .. 47 \cup 52 .. 55), 40)

Named(selector) == gdt[Shr(selector, 3)]

(* A present segment of 4 GiB from address 0, of privilege 0 and 32 bits.       *)
Flat(d) ==
    /\ Base(d) = {} /\ Limit(d) = 0 .. 19
    /\ {4, 7, 14, 15} \subseteq Attributes(d) /\ {5, 6} \cap Attributes(d) = {}

Code(d) == 3 \in Attributes(d)

Writable(d) == 3 \notin Attributes(d) /\ 1 \in Attributes(d)

Offset(gate) == gate.offset_lo \cup Shl(gate.offset_hi, 16)

(* Of 32 bits, present, for privilege 0, and entered with interrupts off.       *)
InterruptGate(gate) ==
    /\ gate.type_attr \cap 0 .. 4 = {1, 2, 3} /\ 7 \in gate.type_attr
    /\ {5, 6} \cap gate.type_attr = {} /\ gate.ZERO = {}
--------------------------------------------------------------------------------
(* What they are to say *)

(* create_descriptor scatters the base over three fields and the limit over two *)
(* of the 64 bits: no field runs into another, and the processor reads what was *)
(* passed, the limit in 20 bits and the flags without bits 8 to 11, which have  *)
(* no place in a descriptor.                                                    *)
FieldsKept(base, limit, flag) ==
    LET d == create_descriptor(base, limit, flag)
    IN  /\ d \subseteq 0 .. 63
        /\ Base(d) = base
        /\ Limit(d) = limit \cap 0 .. 19
        /\ Attributes(d) = flag \ 8 .. 11

(* The selectors that gdt_flush, the stubs and the gates load name flat segments*)
(* of the kernel, code and data, and ltr's names the task state segment.        *)
SegmentsFlat ==
    /\ Flat(Named(cs)) /\ Code(Named(cs))
    /\ Flat(Named(ds)) /\ Writable(Named(ds))
    /\ Base(Named(tr)) = tss /\ Attributes(Named(tr)) = {0, 3, 7, 14}

(* Every exception and every interrupt of the two controllers enters its stub   *)
(* with interrupts off, in the kernel's code segment; no other vector does.     *)
GatesEnterStubs ==
    \A num \in 0 .. 255 :
        IF num \in 0 .. 47
        THEN /\ InterruptGate(IDT[num]) /\ Offset(IDT[num]) = stub[num]
             /\ Named(IDT[num].selector) = Named(cs)
        ELSE 7 \notin IDT[num].type_attr
================================================================================
