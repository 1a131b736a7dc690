---------------------------- MODULE IrqDispatchProofs --------------------------
(* Proofs about IrqDispatch, for every set of lines and handlers and on both    *)
(* machines.                                                                    *)
EXTENDS IrqDispatch, TLAPS

Vectors == {Vector(i) : i \in Irq}

(* The inductive invariant.  NoOrphanInService is not inductive by itself: to   *)
(* know that Dispatch does not take the exit of the failed bound check, which   *)
(* skips both end-of-interrupts, one must know that the frame's int_no is the   *)
(* vector of a line wherever the processor is on the interrupt path.            *)
FrameHasVector == pc # "main" => int_no \in Vectors

IInv == TypeOK /\ FrameHasVector /\ NoOrphanInService

(* The remapping gives each line a vector of its own, the sixteen after 31; the *)
(* slave's are the ones from 40 on.                                             *)
LEMMA VectorRange ==
    ASSUME NEW i \in Irq
    PROVE  /\ Vector(i) \in 32 .. 47
           /\ Vector(i) = i + 32
           /\ Vector(i) >= SlaveBase <=> i \in SlaveIrq
BY DEF Vector, Irq, SlaveIrq, SlaveBase, MasterBase

(* Distinct lines have distinct vectors.                                        *)
LEMMA VectorInjective ==
    ASSUME NEW i \in Irq, NEW j \in Irq, Vector(i) = Vector(j)
    PROVE  i = j
<1>1. i + 32 = j + 32
  BY VectorRange
<1>2. i \in Nat /\ j \in Nat
  BY DEF Irq
<1> QED BY <1>1, <1>2

(* Every operation on the controllers yields a state of the controllers.        *)
LEMMA PicOperationsTyped ==
    ASSUME NEW p \in PicState, NEW i \in Irq
    PROVE  /\ RaiseLine(p, i) \in PicState
           /\ LowerLine(p, i) \in PicState
           /\ AckLine(p, i) \in PicState
           /\ [p EXCEPT !.isr = @ \cup {Cascade}] \in PicState
           /\ MasterEoi(p) \in PicState
           /\ SlaveEoi(p) \in PicState
<1>1. ServiceBits(i) \subseteq Irq /\ Cascade \in Irq
  BY DEF ServiceBits, Irq, SlaveIrq, Cascade
<1>2. p.irr \subseteq Irq /\ p.isr \subseteq Irq /\ p.line \subseteq Irq
  BY DEF PicState
<1>3. RaiseLine(p, i) \in PicState /\ LowerLine(p, i) \in PicState
  BY <1>2 DEF RaiseLine, LowerLine, PicState
<1>4. /\ AckLine(p, i) \in PicState
      /\ [p EXCEPT !.isr = @ \cup {Cascade}] \in PicState
  BY <1>1, <1>2 DEF AckLine, PicState
<1>5. MasterEoi(p) \in PicState /\ SlaveEoi(p) \in PicState
  BY <1>2 DEF MasterEoi, SlaveEoi, PicState
<1> QED BY <1>3, <1>4, <1>5

(* A non-specific end-of-interrupt retires the only request a chip has in       *)
(* service, and leaves the other chip's alone.                                  *)
LEMMA EoiRetiresTheOnlyOne ==
    ASSUME NEW p \in PicState, NEW i \in Irq, p.isr \subseteq ServiceBits(i)
    PROVE  /\ i \in SlaveIrq => SlaveEoi(p).isr \subseteq {Cascade}
           /\ i \notin SlaveIrq => p.isr \subseteq {i}
           /\ p.isr \cap SlaveIrq = {} => MasterEoi(p).isr = {}
<1>1. p.isr \subseteq Irq
  BY DEF PicState
<1>2. /\ SlaveEoi(p).isr = {j \in p.isr : ~ IsHighest(j, p.isr \cap SlaveIrq)}
      /\ MasterEoi(p).isr = {j \in p.isr : ~ IsHighest(j, p.isr \ SlaveIrq)}
  BY DEF SlaveEoi, MasterEoi, PicState
<1>3. \A j \in Irq : Rank(j) <= Rank(j)
  BY DEF Rank, Irq, SlaveIrq, Cascade
<1>4. CASE i \in SlaveIrq
  <2>1. p.isr \subseteq {i, Cascade} /\ Cascade \notin SlaveIrq
    BY <1>4 DEF ServiceBits, SlaveIrq, Cascade
  <2>2. i \in p.isr => IsHighest(i, p.isr \cap SlaveIrq)
    BY <1>1, <1>3, <1>4, <2>1 DEF IsHighest
  <2>3. p.isr \cap SlaveIrq = {} => \A j \in p.isr : IsHighest(j, p.isr \ SlaveIrq)
    BY <1>1, <1>3, <1>4, <2>1 DEF IsHighest
  <2> QED BY <1>2, <1>4, <2>1, <2>2, <2>3
<1>5. CASE i \notin SlaveIrq
  <2>1. p.isr \subseteq {i}
    BY <1>5 DEF ServiceBits
  <2>2. \A j \in p.isr : IsHighest(j, p.isr \ SlaveIrq)
    BY <1>1, <1>3, <1>5, <2>1 DEF IsHighest
  <2> QED BY <1>2, <1>5, <2>1, <2>2
<1> QED BY <1>4, <1>5

(* What Unretired names while irq_handler runs for line i.                      *)
LEMMA UnretiredIs ==
    ASSUME NEW i \in Irq, int_no = Vector(i)
    PROVE  /\ pc \in {"irq_handler", "handler", "eoi_slave"} => Unretired = ServiceBits(i)
           /\ pc = "eoi_master" => Unretired = ServiceBits(i) \ SlaveIrq
           /\ pc \in {"main", "inta", "iret"} => Unretired = {}
<1>1. {j \in Irq : Vector(j) = int_no} = {i}
  BY VectorInjective
<1>2. FrameBits = ServiceBits(i)
  BY <1>1 DEF FrameBits
<1> QED BY <1>2 DEF Unretired

LEMMA InitIInv == Init => IInv
<1> SUFFICES ASSUME Init PROVE IInv
  OBVIOUS
<1>1. pic \in PicState /\ pic.isr = {}
  <2>1. PICK keeps \in BOOLEAN : pic = PicReset(keeps)
    BY DEF Init
  <2> QED BY <2>1 DEF PicReset, PicState
<1>2. TypeOK
  BY <1>1 DEF Init, TypeOK, Locations
<1>3. FrameHasVector /\ NoOrphanInService
  BY <1>1 DEF Init, FrameHasVector, NoOrphanInService
<1> QED BY <1>2, <1>3 DEF IInv

LEMMA NextIInv == IInv /\ [Next]_vars => IInv'
<1> SUFFICES ASSUME IInv, [Next]_vars PROVE IInv'
  OBVIOUS
<1>0. TypeOK /\ FrameHasVector /\ NoOrphanInService
  BY DEF IInv
<1>a. /\ pic \in PicState
      /\ ifl \in BOOLEAN
      /\ irq_routines \in [Irq -> Handlers \cup {NoHandler}]
      /\ pc \in Locations
  BY <1>0 DEF TypeOK
<1>b. pc = "main" => pic.isr = {}
  BY <1>0 DEF NoOrphanInService, Unretired
<1>c. pc = "inta" => pic.isr = {}
  BY <1>0 DEF NoOrphanInService, Unretired
(* Devices: neither the bits in service nor the frame change.                   *)
<1>1. ASSUME NEW i \in Lines, RaiseIrq(i) \/ LowerIrq(i)
      PROVE  IInv'
  <2>1. i \in Irq
    BY LinesAssumption
  <2>2. pic' \in PicState /\ pic'.isr = pic.isr
    <3>1. pic' \in {RaiseLine(pic, i), LowerLine(pic, i)}
      BY <1>1 DEF RaiseIrq, LowerIrq
    <3>2. RaiseLine(pic, i).isr = pic.isr /\ LowerLine(pic, i).isr = pic.isr
      BY <1>a DEF RaiseLine, LowerLine, PicState
    <3> QED BY <1>a, <2>1, <3>1, <3>2, PicOperationsTyped
  <2>3. UNCHANGED <<ifl, irq_routines, pc, int_no>>
    BY <1>1 DEF RaiseIrq, LowerIrq
  <2>4. TypeOK'
    BY <1>0, <2>2, <2>3 DEF TypeOK
  <2>5. FrameHasVector'
    BY <1>0, <2>3 DEF FrameHasVector
  <2>6. NoOrphanInService'
    BY <1>0, <2>2, <2>3 DEF NoOrphanInService, Unretired, FrameBits
  <2> QED BY <2>4, <2>5, <2>6 DEF IInv
(* The main program: only the table or the interrupt flag change.               *)
<1>2. ASSUME NEW i \in Lines, NEW h \in Handlers \cup {NoHandler}, InstallHandler(i, h)
      PROVE  IInv'
  <2>1. irq_routines' \in [Irq -> Handlers \cup {NoHandler}]
    BY <1>2, <1>a DEF InstallHandler
  <2>2. UNCHANGED <<pic, ifl, pc, int_no>>
    BY <1>2 DEF InstallHandler
  <2> QED BY <1>0, <2>1, <2>2
          DEF IInv, TypeOK, FrameHasVector, NoOrphanInService, Unretired, FrameBits
<1>3. CASE Sti
  BY <1>0, <1>3
     DEF Sti, IInv, TypeOK, FrameHasVector, NoOrphanInService, Unretired, FrameBits
(* The interrupt path.                                                          *)
<1>4. CASE Accept
  <2>1. PICK i \in Pending(pic) : int_no' = Vector(i)
    BY <1>4 DEF Accept
  <2>2. i \in Irq
    BY <1>a DEF Pending, PicState
  <2>3. pc' = "inta" /\ pc = "main" /\ UNCHANGED <<pic, ifl, irq_routines>>
    BY <1>4 DEF Accept
  <2>4. TypeOK' /\ FrameHasVector'
    BY <1>0, <2>1, <2>2, <2>3, VectorRange DEF TypeOK, FrameHasVector, Vectors, Locations
  <2>5. NoOrphanInService'
    BY <1>b, <2>3 DEF NoOrphanInService
  <2> QED BY <2>4, <2>5 DEF IInv
<1>5. CASE Enter
  <2>1. pc = "inta" /\ ifl' = FALSE /\ pc' = "irq_handler" /\ UNCHANGED irq_routines
    BY <1>5 DEF Enter
  <2>2. SUFFICES ASSUME NEW i \in Irq, int_no' = Vector(i), pic' \in PicState,
                        pic'.isr \subseteq ServiceBits(i)
                 PROVE  IInv'
    <3>1. CASE AckRequest
      <4>1. PICK i \in Pending(pic) : pic' = AckLine(pic, i) /\ int_no' = Vector(i)
        BY <3>1 DEF AckRequest
      <4>2. i \in Irq
        BY <1>a DEF Pending, PicState
      <4>3. pic' \in PicState /\ pic'.isr = ServiceBits(i)
        BY <1>a, <1>c, <2>1, <4>1, <4>2, PicOperationsTyped DEF AckLine, PicState
      <4> QED BY <2>2, <4>1, <4>2, <4>3
    <3>2. CASE AckNothing
      <4>1. CASE int_no >= SlaveBase
        <5>1. /\ pic' = [pic EXCEPT !.isr = @ \cup {Cascade}]
              /\ int_no' = Vector(SpuriousSlaveLine)
          BY <3>2, <4>1 DEF AckNothing
        <5>2. SpuriousSlaveLine \in Irq /\ Cascade \in ServiceBits(SpuriousSlaveLine)
          BY DEF SpuriousSlaveLine, Irq, ServiceBits, SlaveIrq
        <5>3. pic' \in PicState /\ pic'.isr = {Cascade}
          BY <1>a, <1>c, <2>1, <5>1, <5>2, PicOperationsTyped DEF PicState
        <5> QED BY <2>2, <5>1, <5>2, <5>3
      <4>2. CASE ~ (int_no >= SlaveBase)
        <5>1. pic' = pic /\ int_no' = Vector(SpuriousLine)
          BY <3>2, <4>2 DEF AckNothing
        <5>2. SpuriousLine \in Irq
          BY DEF SpuriousLine, Irq
        <5> QED BY <1>a, <1>c, <2>1, <2>2, <5>1, <5>2
      <4> QED BY <4>1, <4>2
    <3> QED BY <1>5, <3>1, <3>2 DEF Enter
  <2>3. TypeOK' /\ FrameHasVector'
    BY <1>0, <2>1, <2>2, VectorRange DEF TypeOK, FrameHasVector, Vectors, Locations
  <2>4. Unretired' = ServiceBits(i)
    <3>1. {j \in Irq : Vector(j) = int_no'} = {i}
      BY <2>2, VectorInjective
    <3> QED BY <2>1, <3>1 DEF Unretired, FrameBits
  <2> QED BY <2>2, <2>3, <2>4 DEF IInv, NoOrphanInService
(* Behind the gate: i is the line whose vector is in the frame.                 *)
<1>6. ASSUME pc # "main"
      PROVE  \E i \in Irq : int_no = Vector(i)
  BY <1>0, <1>6 DEF FrameHasVector, Vectors
<1>7. CASE Dispatch
  <2>1. PICK i \in Irq : int_no = Vector(i)
    BY <1>6, <1>7 DEF Dispatch
  <2>2. ~ BoundCheckFails
    BY <2>1, VectorRange DEF BoundCheckFails, MasterBase
  <2>3. /\ pc = "irq_handler" /\ pc' \in {"handler", "eoi_slave"}
        /\ UNCHANGED <<pic, ifl, irq_routines, int_no>>
    BY <1>7, <2>2 DEF Dispatch, Unhandled
  <2>4. TypeOK' /\ FrameHasVector'
    BY <1>0, <2>3 DEF TypeOK, FrameHasVector, Locations
  <2>5. Unretired' = Unretired
    BY <2>3 DEF Unretired, FrameBits
  <2> QED BY <1>0, <2>3, <2>4, <2>5 DEF IInv, NoOrphanInService
<1>8. CASE HandlerReturns
  <2>1. /\ pc = "handler" /\ pc' = "eoi_slave"
        /\ UNCHANGED <<pic, ifl, irq_routines, int_no>>
    BY <1>8 DEF HandlerReturns
  <2>2. TypeOK' /\ FrameHasVector'
    BY <1>0, <2>1 DEF TypeOK, FrameHasVector, Locations
  <2>3. Unretired' = Unretired
    BY <2>1 DEF Unretired, FrameBits
  <2> QED BY <1>0, <2>1, <2>2, <2>3 DEF IInv, NoOrphanInService
<1>9. CASE EoiSlave
  <2>1. /\ pc = "eoi_slave" /\ pc' = "eoi_master"
        /\ UNCHANGED <<ifl, irq_routines, int_no>>
        /\ pic' = IF int_no >= SlaveBase THEN SlaveEoi(pic) ELSE pic
    BY <1>9 DEF EoiSlave, SlaveVector
  <2>2. PICK i \in Irq : int_no = Vector(i)
    BY <1>6, <2>1
  <2>3. pic.isr \subseteq ServiceBits(i)
    BY <1>0, <2>1, <2>2, UnretiredIs DEF NoOrphanInService
  <2>4. Unretired' = ServiceBits(i) \ SlaveIrq
    <3>1. {j \in Irq : Vector(j) = int_no'} = {i}
      BY <2>1, <2>2, VectorInjective
    <3> QED BY <2>1, <3>1 DEF Unretired, FrameBits
  <2>5. pic' \in PicState /\ pic'.isr \subseteq ServiceBits(i) \ SlaveIrq
    <3>1. CASE i \in SlaveIrq
      <4>1. pic' = SlaveEoi(pic)
        BY <2>1, <2>2, <3>1, VectorRange
      <4>2. ServiceBits(i) \ SlaveIrq = {Cascade}
        BY <3>1 DEF ServiceBits, SlaveIrq, Cascade
      <4> QED BY <1>a, <2>3, <3>1, <4>1, <4>2, EoiRetiresTheOnlyOne, PicOperationsTyped
    <3>2. CASE i \notin SlaveIrq
      <4>1. pic' = pic
        BY <2>1, <2>2, <3>2, VectorRange
      <4> QED BY <1>a, <2>3, <3>2, <4>1 DEF ServiceBits
    <3> QED BY <3>1, <3>2
  <2>6. TypeOK' /\ FrameHasVector'
    BY <1>0, <2>1, <2>5 DEF TypeOK, FrameHasVector, Locations
  <2> QED BY <2>4, <2>5, <2>6 DEF IInv, NoOrphanInService
<1>10. CASE EoiMaster
  <2>1. /\ pc = "eoi_master" /\ pc' = "iret" /\ pic' = MasterEoi(pic)
        /\ UNCHANGED <<ifl, irq_routines, int_no>>
    BY <1>10 DEF EoiMaster, MasterTold
  <2>2. PICK i \in Irq : int_no = Vector(i)
    BY <1>6, <2>1
  <2>3. pic.isr \subseteq ServiceBits(i) \ SlaveIrq
    BY <1>0, <2>1, <2>2, UnretiredIs DEF NoOrphanInService
  <2>4. pic' \in PicState /\ pic'.isr = {}
    BY <1>a, <2>1, <2>3, EoiRetiresTheOnlyOne, PicOperationsTyped
  <2>5. TypeOK' /\ FrameHasVector'
    BY <1>0, <2>1, <2>4 DEF TypeOK, FrameHasVector, Locations
  <2> QED BY <2>4, <2>5 DEF IInv, NoOrphanInService
<1>11. CASE Iret
  <2>1. pic.isr = {}
    BY <1>0, <1>11 DEF Iret, NoOrphanInService, Unretired
  <2>2. TypeOK' /\ FrameHasVector'
    BY <1>0, <1>11 DEF Iret, TypeOK, FrameHasVector, Locations
  <2> QED BY <1>11, <2>1, <2>2 DEF Iret, IInv, NoOrphanInService
<1>12. CASE UNCHANGED vars
  BY <1>0, <1>12
     DEF vars, IInv, TypeOK, FrameHasVector, NoOrphanInService, Unretired, FrameBits
<1> QED
  BY <1>1, <1>2, <1>3, <1>4, <1>5, <1>7, <1>8, <1>9, <1>10, <1>11, <1>12
     DEF Next, Device, Main, Interrupt, UninstallHandler

THEOREM Invariance == Spec => []IInv
BY InitIInv, NextIInv, PTL DEF Spec

(* The variables keep their types, for every set of lines and handlers.         *)
THEOREM TypeCorrect == Spec => []TypeOK
<1>1. IInv => TypeOK
  BY DEF IInv
<1> QED BY Invariance, <1>1, PTL

(* No in-service bit is left behind, on either kind of controller and whatever  *)
(* the devices do: every request acknowledged is retired by the irq_handler it  *)
(* started, also a spurious one of the slave.                                   *)
THEOREM NothingOrphaned == Spec => []NoOrphanInService
<1>1. IInv => NoOrphanInService
  BY DEF IInv
<1> QED BY Invariance, <1>1, PTL

(* irq_handler's lookup stays inside irq_routines although its bound check lets *)
(* one index too many pass.                                                     *)
THEOREM LookupSafe == Spec => []LookupInBounds
<1>1. IInv => LookupInBounds
  <2> SUFFICES ASSUME IInv, pc \in {"irq_handler", "handler"}
               PROVE  int_no - MasterBase \in DOMAIN irq_routines
    BY DEF LookupInBounds
  <2>1. PICK i \in Irq : int_no = Vector(i)
    BY DEF IInv, FrameHasVector, Vectors
  <2>2. DOMAIN irq_routines = Irq
    BY DEF IInv, TypeOK
  <2>3. int_no - MasterBase = i
    BY <2>1, VectorRange DEF MasterBase, Irq
  <2> QED BY <2>2, <2>3
<1> QED BY Invariance, <1>1, PTL
================================================================================
