------------------------------ MODULE Ps2KbdProofs -----------------------------
(* Proofs about Ps2Kbd, for every set of keys, every number of frames under way *)
(* and both machines: the keyboard from the wire to the shell implements the    *)
(* promise of Keyboard and follows the interrupt path of IrqDispatch, and so    *)
(* what is proved of those two holds of it.                                     *)
EXTENDS Ps2Kbd, TLAPS, SequenceTheorems, WellFoundedInduction

(* IrqDispatch and Keyboard again, with what is proved of them.                 *)
DP == INSTANCE IrqDispatchProofs WITH
          Lines     <- {TimerIrq, KeyboardIrq},
          Handlers  <- {"timer_handler", "ps2kb_handler"},
          NoHandler <- "none"

KP == INSTANCE KeyboardProofs
--------------------------------------------------------------------------------
(* The inductive invariant *)

OwnTypes ==
    /\ stage \in Stages
    /\ wire \in Seq(1 .. 255)
    /\ obuf \in {<<>>} \cup {<<b>> : b \in 1 .. 255}
    /\ scan \in Seq(1 .. 255)

(* Until sti no handler has run.                                                *)
BeforeSti == stage # "kernel_main" => ~ ifl /\ pc = "main" /\ mods = {}

(* The handler table, as far as kernel_early has got.                           *)
Installed ==
    irq_routines =
        [i \in Irq |->
            IF i = TimerIrq /\ stage # "timer_install" THEN "timer_handler"
            ELSE IF i = KeyboardIrq /\ stage \in {"sti", "kernel_main"} THEN "ps2kb_handler"
            ELSE "none"]

(* Until ps2_init is through there is nothing but its answer under way.         *)
OnlyTheReply ==
    /\ stage \notin {"ps2kb_init", "sti", "kernel_main"} => frames = <<>> /\ scan = <<>>
    /\ stage \in {"timer_install", "ps2_init"} => wire = <<>> /\ obuf = <<>>
    /\ stage = "ps2_init_reply" => \/ wire = <<ACK>> /\ obuf = <<>>
                                   \/ wire = <<>> /\ obuf = <<ACK>>

(* The bytes read by the handler that is running are of the first frame.        *)
ScanInFrame ==
    scan # <<>> =>
        /\ pc = "handler" /\ int_no = Vector(KeyboardIrq)
        /\ frames # <<>> /\ Len(scan) <= Len(Encode(frames[1]))

(* The controller drives its line as long as it holds a byte; where a request   *)
(* goes with its line there is none without.                                    *)
LineFollowsBuffer == KeyboardIrq \in pic.line <=> obuf # <<>>

RequestsFollowLines == ~ pic.keeps => pic.irr \subseteq pic.line

(* ByteAnnounced, and who is to read the byte if it is announced no more.       *)
Announced ==
    obuf # <<>> =>
        \/ KeyboardIrq \in pic.irr
        \/ pc \in {"irq_handler", "handler"} /\ KeyboardIrq \in pic.isr /\ scan = <<>>

(* HandlerHasData, from the acknowledge cycle on.                               *)
DataAhead ==
    ~ pic.keeps /\ pc \in {"irq_handler", "handler"} /\ int_no = Vector(KeyboardIrq)
            /\ scan = <<>>
        => obuf # <<>>

IInv ==
    /\ DP!IInv /\ KP!TypeOK /\ OwnTypes
    /\ BeforeSti /\ Installed /\ OnlyTheReply
    /\ FrameSync /\ ScanInFrame
    /\ LineFollowsBuffer /\ RequestsFollowLines /\ Announced /\ DataAhead
--------------------------------------------------------------------------------
(* The instances of this module are those of Ps2Kbd.                            *)
LEMMA SameDispatcher ==
    /\ Dispatcher!Init <=> DP!Init
    /\ Dispatcher!Next <=> DP!Next
    /\ Dispatcher!TypeOK <=> DP!TypeOK
    /\ Dispatcher!vars = DP!vars /\ DP!vars = irqVars
<1>1. Dispatcher!Init <=> DP!Init
  BY DEF Dispatcher!Init, DP!Init, Dispatcher!PicReset, DP!PicReset, Dispatcher!Irq, DP!Irq
<1>2. Dispatcher!TypeOK <=> DP!TypeOK
  BY DEF Dispatcher!TypeOK, DP!TypeOK, Dispatcher!PicState, DP!PicState,
         Dispatcher!Irq, DP!Irq, Dispatcher!Locations, DP!Locations
<1>3. Dispatcher!Device <=> DP!Device
  BY DEF Dispatcher!Device, DP!Device, Dispatcher!RaiseIrq, DP!RaiseIrq,
         Dispatcher!LowerIrq, DP!LowerIrq, Dispatcher!RaiseLine, DP!RaiseLine,
         Dispatcher!LowerLine, DP!LowerLine
<1>4. Dispatcher!Main <=> DP!Main
  BY DEF Dispatcher!Main, DP!Main, Dispatcher!UninstallHandler, DP!UninstallHandler,
         Dispatcher!InstallHandler, DP!InstallHandler, Dispatcher!Sti, DP!Sti
<1>5. Dispatcher!Interrupt <=> DP!Interrupt
  <2>1. Dispatcher!Accept <=> DP!Accept
    BY DEF Dispatcher!Accept, DP!Accept, Dispatcher!Pending, DP!Pending,
           Dispatcher!IsHighest, DP!IsHighest, Dispatcher!Rank, DP!Rank,
           Dispatcher!Mask, DP!Mask, Dispatcher!SlaveIrq, DP!SlaveIrq,
           Dispatcher!Cascade, DP!Cascade, Dispatcher!Vector, DP!Vector,
           Dispatcher!SlaveBase, DP!SlaveBase, Dispatcher!MasterBase, DP!MasterBase
  <2>2. Dispatcher!Enter <=> DP!Enter
    BY DEF Dispatcher!Enter, DP!Enter, Dispatcher!Pending, DP!Pending,
           Dispatcher!AckRequest, DP!AckRequest, Dispatcher!AckNothing, DP!AckNothing,
           Dispatcher!AckLine, DP!AckLine, Dispatcher!ServiceBits, DP!ServiceBits,
           Dispatcher!IsHighest, DP!IsHighest, Dispatcher!Rank, DP!Rank,
           Dispatcher!Mask, DP!Mask, Dispatcher!SlaveIrq, DP!SlaveIrq,
           Dispatcher!Cascade, DP!Cascade, Dispatcher!Vector, DP!Vector,
           Dispatcher!SlaveBase, DP!SlaveBase, Dispatcher!MasterBase, DP!MasterBase,
           Dispatcher!SpuriousLine, DP!SpuriousLine,
           Dispatcher!SpuriousSlaveLine, DP!SpuriousSlaveLine
  <2>3. Dispatcher!Dispatch <=> DP!Dispatch
    BY DEF Dispatcher!Dispatch, DP!Dispatch, Dispatcher!BoundCheckFails, DP!BoundCheckFails,
           Dispatcher!MasterBase, DP!MasterBase, Dispatcher!Unhandled, DP!Unhandled
  <2>4. Dispatcher!HandlerReturns <=> DP!HandlerReturns
    BY DEF Dispatcher!HandlerReturns, DP!HandlerReturns
  <2>5. Dispatcher!EoiSlave <=> DP!EoiSlave
    BY DEF Dispatcher!EoiSlave, DP!EoiSlave, Dispatcher!SlaveVector, DP!SlaveVector,
           Dispatcher!SlaveBase, DP!SlaveBase, Dispatcher!SlaveEoi, DP!SlaveEoi,
           Dispatcher!IsHighest, DP!IsHighest, Dispatcher!Rank, DP!Rank,
           Dispatcher!SlaveIrq, DP!SlaveIrq, Dispatcher!Cascade, DP!Cascade
  <2>6. Dispatcher!EoiMaster <=> DP!EoiMaster
    BY DEF Dispatcher!EoiMaster, DP!EoiMaster, Dispatcher!MasterTold, DP!MasterTold,
           Dispatcher!MasterEoi, DP!MasterEoi,
           Dispatcher!IsHighest, DP!IsHighest, Dispatcher!Rank, DP!Rank,
           Dispatcher!SlaveIrq, DP!SlaveIrq, Dispatcher!Cascade, DP!Cascade
  <2>7. Dispatcher!Iret <=> DP!Iret
    BY DEF Dispatcher!Iret, DP!Iret
  <2> QED BY <2>1, <2>2, <2>3, <2>4, <2>5, <2>6, <2>7 DEF Dispatcher!Interrupt, DP!Interrupt
<1>6. Dispatcher!Next <=> DP!Next
  BY <1>3, <1>4, <1>5 DEF Dispatcher!Next, DP!Next
<1>7. Dispatcher!vars = DP!vars /\ DP!vars = irqVars
  BY DEF Dispatcher!vars, DP!vars, irqVars
<1> QED BY <1>1, <1>2, <1>6, <1>7

LEMMA SameDecoding ==
    ASSUME NEW f, NEW state
    PROVE  /\ Promise!ModifiersAfter(state, f) = ModifiersAfter(state, f)
           /\ KP!ModifiersAfter(state, f) = ModifiersAfter(state, f)
           /\ Promise!EventOf(state, f) = EventOf(state, f)
           /\ KP!EventOf(state, f) = EventOf(state, f)
<1>1. /\ Promise!ModifiersAfter(state, f) = ModifiersAfter(state, f)
      /\ KP!ModifiersAfter(state, f) = ModifiersAfter(state, f)
  BY DEF Promise!ModifiersAfter, KP!ModifiersAfter, ModifiersAfter,
         Promise!SetTo, KP!SetTo, SetTo,
         Promise!LCTL, KP!LCTL, LCTL, Promise!LALT, KP!LALT, LALT, Promise!LSHF, KP!LSHF, LSHF,
         Promise!RSHF, KP!RSHF, RSHF, Promise!MOD, KP!MOD, MOD
<1>2. /\ Promise!EventOf(state, f) = EventOf(state, f)
      /\ KP!EventOf(state, f) = EventOf(state, f)
  BY DEF Promise!EventOf, KP!EventOf, EventOf,
         Promise!HeldFlags, KP!HeldFlags, HeldFlags,
         Promise!ControlHeld, KP!ControlHeld, ControlHeld,
         Promise!IsCharFrame, KP!IsCharFrame, IsCharFrame,
         Promise!ExtendedCode, KP!ExtendedCode, ExtendedCode,
         Promise!KEY_NONE, KP!KEY_NONE, KEY_NONE, Promise!NoChar, KP!NoChar, NoChar,
         Promise!kb_map, KP!kb_map, kb_map,
         Promise!ShiftMapped, KP!ShiftMapped, ShiftMapped,
         Promise!DefaultMapped, KP!DefaultMapped, DefaultMapped,
         Promise!FunctionKeys, KP!FunctionKeys, FunctionKeys,
         Promise!KeyCodes, KP!KeyCodes, KeyCodes,
         Promise!LCTL, KP!LCTL, LCTL, Promise!LALT, KP!LALT, LALT, Promise!LSHF, KP!LSHF, LSHF,
         Promise!RSHF, KP!RSHF, RSHF, Promise!MOD, KP!MOD, MOD
<1> QED BY <1>1, <1>2

LEMMA SameKeyboard ==
    /\ Promise!Init <=> KP!Init
    /\ Promise!Next <=> KP!Next
    /\ Promise!TypeOK <=> KP!TypeOK
    /\ Promise!vars = KP!vars /\ KP!vars = kbdVars
    /\ KP!KeysAssumption
<1>1. Promise!Init <=> KP!Init
  BY DEF Promise!Init, KP!Init, Promise!NoEvent, KP!NoEvent, Promise!NoChar, KP!NoChar,
         Promise!KEY_NONE, KP!KEY_NONE
<1>2. ASSUME NEW k PROVE (Promise!Press(k) <=> KP!Press(k)) /\ (Promise!Release(k) <=> KP!Release(k))
  BY DEF Promise!Press, KP!Press, Promise!Release, KP!Release, Promise!Send, KP!Send,
         Promise!Frame, KP!Frame
<1>3. Promise!Decode <=> KP!Decode
  BY SameDecoding
     DEF Promise!Decode, KP!Decode, Promise!FramesLeft, KP!FramesLeft,
         Promise!SeenAfter, KP!SeenAfter, Promise!PartedAfter, KP!PartedAfter,
         Promise!Twins, KP!Twins, Promise!KeyOf, KP!KeyOf
<1>4. Promise!Next <=> KP!Next
  BY <1>2, <1>3 DEF Promise!Next, KP!Next
<1>5. Promise!TypeOK <=> KP!TypeOK
  BY DEF Promise!TypeOK, KP!TypeOK, Promise!FrameType, KP!FrameType, Promise!Codes, KP!Codes,
         Promise!Prefix, KP!Prefix, Promise!KeyOf, KP!KeyOf, Promise!Names, KP!Names,
         Promise!EventType, KP!EventType, Promise!NoChar, KP!NoChar
<1>6. Promise!vars = KP!vars /\ KP!vars = kbdVars
  BY DEF Promise!vars, KP!vars, kbdVars
<1>7. KP!KeysAssumption
  BY Ps2KbdAssumption
     DEF KP!KeysAssumption, Promise!KeyType, KP!KeyType, Promise!Codes, KP!Codes,
         Promise!Prefix, KP!Prefix
<1> QED BY <1>1, <1>4, <1>5, <1>6, <1>7
--------------------------------------------------------------------------------
(* Frames and bytes *)

FrameType == KP!FrameType

LEMMA SameFrameType == Promise!FrameType = FrameType
BY DEF KP!FrameType, Promise!FrameType, FrameType, KP!Codes, Promise!Codes,
       KP!Prefix, Promise!Prefix

LEMMA FrameIs ==
    ASSUME NEW f \in FrameType
    PROVE  /\ f.ext \in BOOLEAN /\ f.down \in BOOLEAN
           /\ f.code \in 1 .. 255 /\ f.code # 224 /\ f.code # 240
           /\ f = [ext |-> f.ext, down |-> f.down, code |-> f.code]
<1>1. KP!Codes = 1 .. 255 \ {240, 224}
  BY DEF KP!Codes, KP!Prefix
<1>2. f \in [ext : BOOLEAN, down : BOOLEAN, code : KP!Codes]
  BY DEF FrameType, KP!FrameType
<1> QED BY <1>1, <1>2

LEMMA EncodeIs ==
    ASSUME NEW f \in FrameType
    PROVE  /\ Encode(f) \in Seq(1 .. 255)
           /\ f.ext /\ f.down =>
                Len(Encode(f)) = 2 /\ Encode(f)[1] = 224 /\ Encode(f)[2] = f.code
           /\ f.ext /\ ~ f.down =>
                /\ Len(Encode(f)) = 3 /\ Encode(f)[1] = 224 /\ Encode(f)[2] = 240
                /\ Encode(f)[3] = f.code
           /\ ~ f.ext /\ f.down => Len(Encode(f)) = 1 /\ Encode(f)[1] = f.code
           /\ ~ f.ext /\ ~ f.down =>
                Len(Encode(f)) = 2 /\ Encode(f)[1] = 240 /\ Encode(f)[2] = f.code
<1> DEFINE c == f.code
<1>1. c \in 1 .. 255
  BY FrameIs
<1>2. Encode(f) = (IF f.ext THEN <<224>> ELSE <<>>) \o (IF f.down THEN <<>> ELSE <<240>>) \o <<c>>
  BY DEF Encode, Prefix
<1> HIDE DEF c
<1>3. CASE f.ext /\ f.down
  <2> DEFINE e == <<224>> \o <<>> \o <<c>>
  <2>1. e \in Seq(1 .. 255) /\ Len(e) = 2 /\ e[1] = 224 /\ e[2] = c
    BY <1>1
  <2>2. Encode(f) = e
    BY <1>2, <1>3
  <2> HIDE DEF e
  <2> QED BY <1>3, <2>1, <2>2, Zenon DEF c
<1>4. CASE f.ext /\ ~ f.down
  <2> DEFINE e == <<224>> \o <<240>> \o <<c>>
  <2>1. e \in Seq(1 .. 255) /\ Len(e) = 3 /\ e[1] = 224 /\ e[2] = 240 /\ e[3] = c
    BY <1>1
  <2>2. Encode(f) = e
    BY <1>2, <1>4
  <2> HIDE DEF e
  <2> QED BY <1>4, <2>1, <2>2, Zenon DEF c
<1>5. CASE ~ f.ext /\ f.down
  <2> DEFINE e == <<>> \o <<>> \o <<c>>
  <2>1. e \in Seq(1 .. 255) /\ Len(e) = 1 /\ e[1] = c
    BY <1>1
  <2>2. Encode(f) = e
    BY <1>2, <1>5
  <2> HIDE DEF e
  <2> QED BY <1>5, <2>1, <2>2, Zenon DEF c
<1>6. CASE ~ f.ext /\ ~ f.down
  <2> DEFINE e == <<>> \o <<240>> \o <<c>>
  <2>1. e \in Seq(1 .. 255) /\ Len(e) = 2 /\ e[1] = 240 /\ e[2] = c
    BY <1>1
  <2>2. Encode(f) = e
    BY <1>2, <1>6
  <2> HIDE DEF e
  <2> QED BY <1>6, <2>1, <2>2, Zenon DEF c
<1> QED BY <1>3, <1>4, <1>5, <1>6, Zenon

(* The nested ifs at the head of ps2kb_handler read on until the frame is whole *)
(* and no further, and then know which frame it is.                             *)
LEMMA WholeIs ==
    ASSUME NEW f \in FrameType, NEW s \in Seq(1 .. 255), s # <<>>,
           Len(s) <= Len(Encode(f)),
           \A j \in 1 .. Len(s) : s[j] = Encode(f)[j]
    PROVE  /\ IsWhole(s) <=> Len(s) = Len(Encode(f))
           /\ IsWhole(s) => FrameOf(s) = f
<1> DEFINE e == Encode(f)
           n == Len(s)
<1>1. /\ f.ext \in BOOLEAN /\ f.down \in BOOLEAN
      /\ f.code \in 1 .. 255 /\ f.code # 224 /\ f.code # 240
      /\ f = [ext |-> f.ext, down |-> f.down, code |-> f.code]
  BY FrameIs
<1>2. n \in Nat /\ n >= 1
  OBVIOUS
<1>3. IsWhole(s) <=> CASE n = 1 -> s[1] \notin {240, 224}
                       [] n = 2 -> s[1] = 240 \/ s[2] # 240
                       [] OTHER -> n = 3
  BY DEF IsWhole, Prefix
<1>4. FrameOf(s) = [ext |-> s[1] = 224, down |-> \A i \in 1 .. n - 1 : s[i] # 240,
                    code |-> s[n]]
  BY DEF FrameOf, Prefix
<1>5. /\ s[1] = e[1]
      /\ n >= 2 => s[2] = e[2]
      /\ n >= 3 => s[3] = e[3]
  BY <1>2
<1>6. n <= Len(e) /\ Len(e) = Len(Encode(f)) /\ n = Len(s) /\ e \in Seq(1 .. 255)
  BY EncodeIs
<1>0. /\ f.ext /\ f.down => Len(e) = 2 /\ e[1] = 224 /\ e[2] = f.code
      /\ f.ext /\ ~ f.down =>
            Len(e) = 3 /\ e[1] = 224 /\ e[2] = 240 /\ e[3] = f.code
      /\ ~ f.ext /\ f.down => Len(e) = 1 /\ e[1] = f.code
      /\ ~ f.ext /\ ~ f.down => Len(e) = 2 /\ e[1] = 240 /\ e[2] = f.code
  BY EncodeIs, Zenon
<1> HIDE DEF e, n
<1>7. CASE f.ext /\ f.down
  <2>1. Len(e) = 2 /\ e[1] = 224 /\ e[2] = f.code
    BY <1>7, <1>0, Zenon
  <2>2. n \in 1 .. 2
    BY <1>2, <1>6, <2>1
  <2>3. IsWhole(s) <=> n = 2
    BY <1>1, <1>3, <1>5, <2>1, <2>2
  <2>4. ASSUME n = 2
        PROVE  FrameOf(s) = f
    <3>1. s[1] = 224 <=> f.ext
      BY <1>1, <1>5, <1>7, <2>1
    <3>2. (\A i \in 1 .. n - 1 : s[i] # 240) <=> f.down
      BY <1>1, <1>5, <1>7, <2>1, <2>4
    <3>3. s[n] = f.code
      BY <1>5, <2>1, <2>4
    <3>4. (s[1] = 224) = f.ext /\ (\A i \in 1 .. n - 1 : s[i] # 240) = f.down
      BY <1>1, <3>1, <3>2, Zenon
    <3> QED BY <1>1, <1>4, <3>3, <3>4, Zenon
  <2> QED BY <1>6, <2>1, <2>3, <2>4
<1>8. CASE f.ext /\ ~ f.down
  <2>1. Len(e) = 3 /\ e[1] = 224 /\ e[2] = 240 /\ e[3] = f.code
    BY <1>8, <1>0, Zenon
  <2>2. n \in 1 .. 3
    BY <1>2, <1>6, <2>1
  <2>3. IsWhole(s) <=> n = 3
    BY <1>1, <1>3, <1>5, <2>1, <2>2
  <2>4. ASSUME n = 3
        PROVE  FrameOf(s) = f
    <3>1. s[1] = 224 <=> f.ext
      BY <1>1, <1>5, <1>8, <2>1
    <3>2. (\A i \in 1 .. n - 1 : s[i] # 240) <=> f.down
      BY <1>1, <1>5, <1>8, <2>1, <2>4
    <3>3. s[n] = f.code
      BY <1>5, <2>1, <2>4
    <3>4. (s[1] = 224) = f.ext /\ (\A i \in 1 .. n - 1 : s[i] # 240) = f.down
      BY <1>1, <3>1, <3>2, Zenon
    <3> QED BY <1>1, <1>4, <3>3, <3>4, Zenon
  <2> QED BY <1>6, <2>1, <2>3, <2>4
<1>9. CASE ~ f.ext /\ f.down
  <2>1. Len(e) = 1 /\ e[1] = f.code
    BY <1>9, <1>0, Zenon
  <2>2. n \in 1 .. 1
    BY <1>2, <1>6, <2>1
  <2>3. IsWhole(s) <=> n = 1
    BY <1>1, <1>3, <1>5, <2>1, <2>2
  <2>4. ASSUME n = 1
        PROVE  FrameOf(s) = f
    <3>1. s[1] = 224 <=> f.ext
      BY <1>1, <1>5, <1>9, <2>1
    <3>2. (\A i \in 1 .. n - 1 : s[i] # 240) <=> f.down
      BY <1>1, <1>5, <1>9, <2>1, <2>4
    <3>3. s[n] = f.code
      BY <1>5, <2>1, <2>4
    <3>4. (s[1] = 224) = f.ext /\ (\A i \in 1 .. n - 1 : s[i] # 240) = f.down
      BY <1>1, <3>1, <3>2, Zenon
    <3> QED BY <1>1, <1>4, <3>3, <3>4, Zenon
  <2> QED BY <1>6, <2>1, <2>3, <2>4
<1>10. CASE ~ f.ext /\ ~ f.down
  <2>1. Len(e) = 2 /\ e[1] = 240 /\ e[2] = f.code
    BY <1>10, <1>0, Zenon
  <2>2. n \in 1 .. 2
    BY <1>2, <1>6, <2>1
  <2>3. IsWhole(s) <=> n = 2
    BY <1>1, <1>3, <1>5, <2>1, <2>2
  <2>4. ASSUME n = 2
        PROVE  FrameOf(s) = f
    <3>1. s[1] = 224 <=> f.ext
      BY <1>1, <1>5, <1>10, <2>1
    <3>2. (\A i \in 1 .. n - 1 : s[i] # 240) <=> f.down
      BY <1>1, <1>5, <1>10, <2>1, <2>4
    <3>3. s[n] = f.code
      BY <1>5, <2>1, <2>4
    <3>4. (s[1] = 224) = f.ext /\ (\A i \in 1 .. n - 1 : s[i] # 240) = f.down
      BY <1>1, <3>1, <3>2, Zenon
    <3> QED BY <1>1, <1>4, <3>3, <3>4, Zenon
  <2> QED BY <1>6, <2>1, <2>3, <2>4
<1> QED BY <1>1, <1>7, <1>8, <1>9, <1>10, Zenon
--------------------------------------------------------------------------------
(* Sequences of frames and of bytes *)

LEMMA LeastElement ==
    ASSUME NEW S, S \subseteq Nat, S # {}
    PROVE  \E x \in S : \A y \in S : x <= y
<1> DEFINE R == {ss \in Nat \X Nat : ss[1] < ss[2]}
<1>1. IsWellFoundedOn(R, Nat)
  BY NatLessThanWellFounded DEF OpToRel
<1> HIDE DEF R
<1>2. PICK x \in S : \A y \in S : ~ (<<y, x>> \in R)
  BY <1>1, WFMin, Zenon
<1>3. ASSUME NEW y \in S PROVE x <= y
  <2>1. ~ (<<y, x>> \in R) /\ x \in Nat /\ y \in Nat
    BY <1>2
  <2>2. ~ (y < x)
    BY <2>1 DEF R
  <2> QED BY <2>1, <2>2
<1> QED BY <1>3, Zenon

LEMMA EncodesNothing == Encodes(<<>>, <<>>)
<1> DEFINE cut == [i \in 0 .. 0 |-> 0]
<1>1. /\ cut \in [0 .. Len(<<>>) -> 0 .. Len(<<>>)]
      /\ cut[0] = 0 /\ cut[Len(<<>>)] = Len(<<>>)
      /\ 1 .. Len(<<>>) = {}
  OBVIOUS
<1> HIDE DEF cut
<1> QED BY <1>1, Zenon DEF Encodes

LEMMA Inside ==
    ASSUME NEW m \in Nat, NEW w \in Nat, NEW p \in 0 .. m, p + w \in 0 .. m,
           NEW j \in 1 .. w
    PROVE  p + j \in 1 .. m
OBVIOUS

(* Frame f goes out after those under way.                                      *)
LEMMA EncodesOneMore ==
    ASSUME NEW bytes \in Seq(1 .. 255), NEW fs \in Seq(FrameType), NEW f \in FrameType,
           Encodes(bytes, fs)
    PROVE  Encodes(bytes \o Encode(f), Append(fs, f))
<1> DEFINE e == Encode(f)
           both == bytes \o e
           gs == Append(fs, f)
           n == Len(fs)
           m == Len(bytes)
           l == Len(e)
<1>1. e \in Seq(1 .. 255)
  BY EncodeIs
<1>2. /\ n \in Nat /\ m \in Nat /\ l \in Nat
      /\ Len(both) = m + l
      /\ \A j \in 1 .. m : both[j] = bytes[j]
      /\ \A j \in 1 .. l : both[m + j] = e[j]
      /\ Len(gs) = n + 1
      /\ \A i \in 1 .. n : gs[i] = fs[i]
      /\ gs[n + 1] = f
  BY <1>1
<1>3. PICK cut \in [0 .. n -> 0 .. m] :
        /\ cut[0] = 0 /\ cut[n] = m
        /\ \A i \in 1 .. n :
              /\ cut[i] = cut[i - 1] + Len(Encode(fs[i]))
              /\ \A j \in 1 .. Len(Encode(fs[i])) : bytes[cut[i - 1] + j] = Encode(fs[i])[j]
  BY DEF Encodes
<1> DEFINE end == [i \in 0 .. n + 1 |-> IF i <= n THEN cut[i] ELSE m + l]
<1>4. e = Encode(f) /\ l = Len(Encode(f)) /\ both = bytes \o Encode(f) /\ gs = Append(fs, f)
  OBVIOUS
<1> HIDE DEF e, both, gs, n, m, l
<1>5. /\ \A i \in 0 .. n : end[i] = cut[i] /\ cut[i] \in 0 .. m
      /\ end[n + 1] = m + l
      /\ end \in [0 .. n + 1 -> 0 .. m + l]
  BY <1>2, <1>3
<1> HIDE DEF end
<1>6. end[0] = 0 /\ 0 \in 0 .. n
  BY <1>2, <1>3, <1>5
<1>7. ASSUME NEW i \in 1 .. n + 1
      PROVE  /\ end[i] = end[i - 1] + Len(Encode(gs[i]))
             /\ \A j \in 1 .. Len(Encode(gs[i])) : both[end[i - 1] + j] = Encode(gs[i])[j]
  <2>1. CASE i = n + 1
    <3>1. i - 1 = n /\ n \in 0 .. n
      BY <1>2, <2>1
    <3>2. end[i - 1] = m /\ end[i] = m + l /\ gs[i] = f
      BY <1>2, <1>3, <1>5, <2>1, <3>1
    <3> QED BY <1>2, <1>4, <3>2
  <2>2. CASE i \in 1 .. n
    <3>1. /\ i \in 0 .. n /\ i - 1 \in 0 .. n
          /\ gs[i] = fs[i] /\ end[i] = cut[i] /\ end[i - 1] = cut[i - 1]
          /\ cut[i] \in 0 .. m /\ cut[i - 1] \in 0 .. m
      BY <1>2, <1>5, <2>2
    <3>2. fs[i] \in FrameType
      BY <2>2 DEF n
    <3>3. Len(Encode(fs[i])) \in Nat
      BY <3>2, EncodeIs
    <3>4. cut[i] = cut[i - 1] + Len(Encode(fs[i]))
      BY <1>3, <2>2
    <3>5. ASSUME NEW j \in 1 .. Len(Encode(fs[i]))
          PROVE  both[cut[i - 1] + j] = Encode(fs[i])[j]
      <4>1. cut[i - 1] + j \in 1 .. m
        BY <1>2, <3>1, <3>3, <3>4, Inside
      <4>2. bytes[cut[i - 1] + j] = Encode(fs[i])[j]
        BY <1>3, <2>2
      <4> QED BY <1>2, <4>1, <4>2, Zenon
    <3> QED BY <3>1, <3>4, <3>5, Zenon
  <2> QED BY <1>2, <2>1, <2>2
<1>8. Encodes(both, gs)
  <2>1. end \in [0 .. Len(gs) -> 0 .. Len(both)] /\ end[Len(gs)] = Len(both)
    BY <1>2, <1>5
  <2>2. \A i \in 1 .. Len(gs) :
            /\ end[i] = end[i - 1] + Len(Encode(gs[i]))
            /\ \A j \in 1 .. Len(Encode(gs[i])) : both[end[i - 1] + j] = Encode(gs[i])[j]
    BY <1>2, <1>7, Zenon
  <2> QED BY <1>6, <2>1, <2>2, Zenon DEF Encodes
<1> QED BY <1>4, <1>8

(* The bytes begin with those of the first frame.                               *)
LEMMA EncodesHead ==
    ASSUME NEW bytes \in Seq(1 .. 255), NEW fs \in Seq(FrameType), Encodes(bytes, fs)
    PROVE  /\ bytes # <<>> => fs # <<>>
           /\ fs # <<>> =>
                /\ fs[1] \in FrameType
                /\ Len(Encode(fs[1])) <= Len(bytes)
                /\ \A j \in 1 .. Len(Encode(fs[1])) : bytes[j] = Encode(fs[1])[j]
<1>1. PICK cut \in [0 .. Len(fs) -> 0 .. Len(bytes)] :
        /\ cut[0] = 0 /\ cut[Len(fs)] = Len(bytes)
        /\ \A i \in 1 .. Len(fs) :
              /\ cut[i] = cut[i - 1] + Len(Encode(fs[i]))
              /\ \A j \in 1 .. Len(Encode(fs[i])) : bytes[cut[i - 1] + j] = Encode(fs[i])[j]
  BY DEF Encodes
<1>2. bytes # <<>> => fs # <<>>
  BY <1>1
<1>3. ASSUME fs # <<>>
      PROVE  /\ fs[1] \in FrameType
             /\ Len(Encode(fs[1])) <= Len(bytes)
             /\ \A j \in 1 .. Len(Encode(fs[1])) : bytes[j] = Encode(fs[1])[j]
  <2>1. 1 \in 1 .. Len(fs) /\ 1 \in 0 .. Len(fs) /\ fs[1] \in FrameType
    BY <1>3
  <2>2. Len(Encode(fs[1])) \in Nat /\ Len(bytes) \in Nat
    BY <2>1, EncodeIs
  <2>3. /\ cut[1] = cut[1 - 1] + Len(Encode(fs[1])) /\ cut[1] \in 0 .. Len(bytes)
        /\ \A j \in 1 .. Len(Encode(fs[1])) : bytes[cut[1 - 1] + j] = Encode(fs[1])[j]
    BY <1>1, <2>1, Zenon
  <2>4. cut[1 - 1] = 0
    BY <1>1
  <2> QED BY <2>1, <2>2, <2>3, <2>4
<1> QED BY <1>2, <1>3

(* The first frame has been read.                                               *)
LEMMA EncodesRest ==
    ASSUME NEW s \in Seq(1 .. 255), NEW rest \in Seq(1 .. 255), NEW fs \in Seq(FrameType),
           fs # <<>>, Encodes(s \o rest, fs), Len(s) = Len(Encode(fs[1]))
    PROVE  Encodes(rest, Tail(fs))
<1> DEFINE bytes == s \o rest
           gs == Tail(fs)
           n == Len(gs)
           m == Len(rest)
           k == Len(s)
<1>1. /\ n \in Nat /\ m \in Nat /\ k \in Nat
      /\ Len(fs) = n + 1 /\ Len(bytes) = k + m
      /\ \A i \in 1 .. n : gs[i] = fs[i + 1]
      /\ \A j \in 1 .. m : bytes[k + j] = rest[j]
      /\ gs = Tail(fs) /\ k = Len(s) /\ bytes = s \o rest
  <2>1. /\ n \in Nat /\ Len(fs) = n + 1
        /\ \A i \in 1 .. n : gs[i] = fs[i + 1]
    <3>1. Len(fs) \in Nat /\ Len(fs) >= 1
      OBVIOUS
    <3>2. n = Len(fs) - 1 /\ \A i \in 1 .. n : gs[i] = fs[i + 1]
      OBVIOUS
    <3> HIDE DEF n, gs
    <3> QED BY <3>1, <3>2
  <2>2. /\ m \in Nat /\ k \in Nat /\ Len(bytes) = k + m
        /\ \A j \in 1 .. m : bytes[k + j] = rest[j]
    <3>1. m \in Nat /\ k \in Nat
      OBVIOUS
    <3>2. Len(bytes) = k + m
      BY ConcatProperties, Zenon
    <3>3. ASSUME NEW j \in 1 .. m
          PROVE  bytes[k + j] = rest[j]
      OBVIOUS
    <3> QED BY <3>1, <3>2, <3>3
  <2> QED BY <2>1, <2>2
<1>2. \A i \in 1 .. n + 1 : Len(Encode(fs[i])) \in Nat
  <2>1. \A i \in 1 .. n + 1 : fs[i] \in FrameType
    BY <1>1
  <2> QED BY <2>1, EncodeIs
<1> HIDE DEF bytes, gs, n, m, k
<1>3. PICK cut \in [0 .. n + 1 -> 0 .. k + m] :
        /\ cut[0] = 0 /\ cut[n + 1] = k + m
        /\ \A i \in 1 .. n + 1 :
              /\ cut[i] = cut[i - 1] + Len(Encode(fs[i]))
              /\ \A j \in 1 .. Len(Encode(fs[i])) : bytes[cut[i - 1] + j] = Encode(fs[i])[j]
  <2>1. PICK cut \in [0 .. Len(fs) -> 0 .. Len(bytes)] :
          /\ cut[0] = 0 /\ cut[Len(fs)] = Len(bytes)
          /\ \A i \in 1 .. Len(fs) :
                /\ cut[i] = cut[i - 1] + Len(Encode(fs[i]))
                /\ \A j \in 1 .. Len(Encode(fs[i])) :
                      bytes[cut[i - 1] + j] = Encode(fs[i])[j]
    BY DEF Encodes, bytes
  <2>2. Len(fs) = n + 1 /\ Len(bytes) = k + m
    BY <1>1
  <2>3. cut \in [0 .. n + 1 -> 0 .. k + m] /\ cut[n + 1] = k + m
    BY <2>1, <2>2
  <2>4. \A i \in 1 .. n + 1 :
            /\ cut[i] = cut[i - 1] + Len(Encode(fs[i]))
            /\ \A j \in 1 .. Len(Encode(fs[i])) :
                  bytes[cut[i - 1] + j] = Encode(fs[i])[j]
    BY <2>1, <2>2, Zenon
  <2> QED BY <2>1, <2>3, <2>4, Zenon
<1>4. cut[1] = k
  <2>1. 1 \in 1 .. n + 1 /\ 1 - 1 = 0
    BY <1>1
  <2>2. cut[1] = cut[1 - 1] + Len(Encode(fs[1]))
    BY <1>3, <2>1, Zenon
  <2> QED BY <1>1, <1>3, <2>1, <2>2
(* The cuts behind the first frame are not before its end.                      *)
<1>5. \A i \in 1 .. n + 1 : k <= cut[i]
  <2> DEFINE S == {i \in 1 .. n + 1 : ~ (k <= cut[i])}
  <2> SUFFICES ASSUME S # {} PROVE FALSE
    OBVIOUS
  <2>1. S \subseteq Nat
    BY <1>1
  <2>2. PICK x \in S : \A y \in S : x <= y
    BY <2>1, LeastElement, Zenon
  <2>3. x \in 1 .. n + 1 /\ ~ (k <= cut[x]) /\ x # 1
    BY <1>1, <1>4, <2>2
  <2>4. x - 1 \in 1 .. n + 1 /\ x - 1 \notin S
    BY <1>1, <2>2, <2>3
  <2>5. k <= cut[x - 1]
    BY <2>4
  <2>6. cut[x] = cut[x - 1] + Len(Encode(fs[x])) /\ Len(Encode(fs[x])) \in Nat
    BY <1>2, <1>3, <2>3, Zenon
  <2>7. cut[x] \in 0 .. k + m /\ cut[x - 1] \in 0 .. k + m
    BY <1>1, <1>3, <2>3, <2>4
  <2>8. ASSUME NEW w \in Nat, NEW p \in 0 .. k + m, k <= p
        PROVE  k <= p + w
    BY <1>1, <2>8
  <2> QED BY <2>3, <2>5, <2>6, <2>7, <2>8, Zenon
<1> DEFINE end == [i \in 0 .. n |-> cut[i + 1] - k]
<1>6. ASSUME NEW i \in 0 .. n
      PROVE  i + 1 \in 1 .. n + 1 /\ end[i] = cut[i + 1] - k /\ end[i] \in 0 .. m
                /\ cut[i + 1] \in 0 .. k + m /\ cut[i + 1] = k + end[i]
  <2>1. i + 1 \in 1 .. n + 1 /\ i + 1 \in 0 .. n + 1
    BY <1>1
  <2>2. cut[i + 1] \in 0 .. k + m /\ k <= cut[i + 1]
    BY <1>3, <1>5, <2>1
  <2> QED BY <1>1, <2>1, <2>2
<1>7. end \in [0 .. n -> 0 .. m]
  BY <1>6
<1> HIDE DEF end
<1>8. end[0] = 0 /\ end[n] = m
  <2>1. 0 \in 0 .. n /\ n \in 0 .. n /\ 0 + 1 = 1 /\ (k + m) - k = m /\ k - k = 0
    BY <1>1
  <2>2. end[0] = cut[0 + 1] - k /\ end[n] = cut[n + 1] - k
    BY <1>6, <2>1, Zenon
  <2> QED BY <1>3, <1>4, <2>1, <2>2, Zenon
<1>9. ASSUME NEW i \in 1 .. n
      PROVE  /\ end[i] = end[i - 1] + Len(Encode(gs[i]))
             /\ \A j \in 1 .. Len(Encode(gs[i])) : rest[end[i - 1] + j] = Encode(gs[i])[j]
  <2>1. i \in 0 .. n /\ i - 1 \in 0 .. n /\ i + 1 \in 1 .. n + 1 /\ (i - 1) + 1 = i
          /\ (i + 1) - 1 = i
    BY <1>1
  <2>2. gs[i] = fs[i + 1] /\ Len(Encode(fs[i + 1])) \in Nat
    BY <1>1, <1>2, <2>1
  <2>3. /\ cut[i + 1] = k + end[i] /\ cut[i] = k + end[i - 1]
        /\ end[i] \in 0 .. m /\ end[i - 1] \in 0 .. m
    BY <1>6, <2>1
  <2>4. /\ cut[i + 1] = cut[i] + Len(Encode(fs[i + 1]))
        /\ \A j \in 1 .. Len(Encode(fs[i + 1])) : bytes[cut[i] + j] = Encode(fs[i + 1])[j]
    BY <1>3, <2>1
  <2>a. ASSUME NEW x \in 0 .. m, NEW y \in 0 .. m, NEW w \in Nat, k + x = (k + y) + w
        PROVE  x = y + w
    BY <1>1, <2>a
  <2>5. end[i] = end[i - 1] + Len(Encode(gs[i]))
    <3>1. k + end[i] = (k + end[i - 1]) + Len(Encode(gs[i]))
      BY <2>2, <2>3, <2>4, Zenon
    <3>2. Len(Encode(gs[i])) \in Nat
      BY <2>2
    <3> QED BY <2>3, <2>a, <3>1, <3>2, Zenon
  <2>6. ASSUME NEW j \in 1 .. Len(Encode(gs[i]))
        PROVE  rest[end[i - 1] + j] = Encode(gs[i])[j]
    <3>1. end[i - 1] + j \in 1 .. m
      BY <1>1, <2>2, <2>3, <2>5, Inside
    <3>a. k + (end[i - 1] + j) = cut[i] + j
      <4>1. ASSUME NEW x \in 0 .. m, NEW w \in Nat, NEW jj \in 1 .. w
            PROVE  k + (x + jj) = (k + x) + jj
        BY <1>1
      <4> QED BY <2>2, <2>3, <4>1
    <3>2. rest[end[i - 1] + j] = bytes[cut[i] + j]
      BY <1>1, <3>1, <3>a
    <3> QED BY <2>2, <2>4, <3>2
  <2> QED BY <2>5, <2>6
<1>10. Encodes(rest, gs)
  <2>1. end \in [0 .. Len(gs) -> 0 .. Len(rest)] /\ end[Len(gs)] = Len(rest)
    BY <1>7, <1>8 DEF n, m
  <2>2. \A i \in 1 .. Len(gs) :
            /\ end[i] = end[i - 1] + Len(Encode(gs[i]))
            /\ \A j \in 1 .. Len(Encode(gs[i])) : rest[end[i - 1] + j] = Encode(gs[i])[j]
    BY <1>9, Zenon DEF n
  <2> QED BY <1>8, <2>1, <2>2, Zenon DEF Encodes
<1> QED BY <1>1, <1>10
--------------------------------------------------------------------------------
(* What the invariant says of the interrupt path *)

LEMMA Interrupts ==
    ASSUME IInv
    PROVE  /\ pic \in PicState
           /\ pc # "main" => stage = "kernel_main"
           /\ pc # "main" => \E i \in Irq : int_no = i + 32
           /\ Running("ps2kb_handler") <=> pc = "handler" /\ int_no = 33
           /\ Running("timer_handler") => int_no # 33
           /\ pc \in {"irq_handler", "handler"} /\ 1 \in pic.isr => int_no = 33
<1>1. DP!TypeOK /\ DP!FrameHasVector /\ DP!NoOrphanInService /\ BeforeSti /\ Installed
  BY DEF IInv, DP!IInv
<1>2. pic \in PicState
  BY <1>1 DEF DP!TypeOK, DP!PicState, PicState, DP!Irq, Irq
<1>3. pc # "main" => stage = "kernel_main"
  BY <1>1 DEF BeforeSti
<1>4. \A i \in Irq : DP!Vector(i) = i + 32
  BY DEF DP!Vector, DP!SlaveIrq, DP!SlaveBase, DP!MasterBase, Irq
<1>5. pc # "main" => \E i \in Irq : int_no = i + 32
  BY <1>1, <1>4 DEF DP!FrameHasVector, DP!Vectors, DP!Irq, Irq
<1>6. pc \in {"irq_handler", "handler"} /\ 1 \in pic.isr => int_no = 33
  <2> SUFFICES ASSUME pc \in {"irq_handler", "handler"}, 1 \in pic.isr PROVE int_no = 33
    OBVIOUS
  <2>1. PICK i \in Irq : DP!Vector(i) = int_no /\ 1 \in DP!ServiceBits(i)
    BY <1>1 DEF DP!NoOrphanInService, DP!Unretired, DP!FrameBits, DP!Irq, Irq
  <2>2. i = 1
    BY <2>1 DEF DP!ServiceBits, DP!SlaveIrq, DP!Cascade
  <2> QED BY <1>4, <2>1, <2>2
<1>7. ASSUME NEW i \in Irq, int_no = i + 32, stage = "kernel_main"
      PROVE  /\ irq_routines[int_no - MasterBase] = "ps2kb_handler" <=> int_no = 33
             /\ irq_routines[int_no - MasterBase] = "timer_handler" => int_no # 33
  <2>1. int_no - MasterBase = i
    BY <1>7 DEF Irq, MasterBase
  <2>2. irq_routines[i] = IF i = 0 THEN "timer_handler" ELSE IF i = 1 THEN "ps2kb_handler" ELSE "none"
    BY <1>1, <1>7 DEF Installed, TimerIrq, KeyboardIrq
  <2>3. i = 1 <=> int_no = 33
    BY <1>7 DEF Irq
  <2> QED BY <2>1, <2>2, <2>3
<1> QED BY <1>2, <1>3, <1>5, <1>6, <1>7 DEF Running

(* The interrupt path, with the timer's handler, serves the requests: it leaves *)
(* the lines alone, and a request of the keyboard it takes off the controller   *)
(* is on its way to ps2kb_handler.                                              *)
LEMMA PathEffect ==
    ASSUME IInv, InterruptPath \/ TimerHandler
    PROVE  /\ UNCHANGED <<irq_routines, kbdVars, ioVars>>
           /\ stage = "kernel_main" /\ scan = <<>>
           /\ pic'.line = pic.line /\ pic'.keeps = pic.keeps /\ pic'.irr \subseteq pic.irr
           /\ 1 \in pic.irr \ pic'.irr => pc' = "irq_handler" /\ 1 \in pic'.isr
           /\ pc \in {"irq_handler", "handler"} /\ 1 \in pic.isr =>
                pc' = "handler" /\ 1 \in pic'.isr
           /\ pc' \in {"irq_handler", "handler"} /\ int_no' = 33 =>
                1 \in pic.irr \/ (pc \in {"irq_handler", "handler"} /\ int_no = 33)
<1>1. /\ pic \in PicState
      /\ pc # "main" => stage = "kernel_main"
      /\ pc # "main" => \E i \in Irq : int_no = i + 32
      /\ Running("timer_handler") => int_no # 33
      /\ pc \in {"irq_handler", "handler"} /\ 1 \in pic.isr => int_no = 33
  BY Interrupts
<1>2. scan # <<>> => pc = "handler" /\ int_no = 33
  BY DEF IInv, ScanInFrame, Vector, KeyboardIrq, SlaveIrq, MasterBase
<1>3. UNCHANGED <<kbdVars, ioVars>>
  BY DEF InterruptPath, TimerHandler
<1>4. CASE Dispatcher!Accept
  <2>1. stage = "kernel_main"
    BY <1>4 DEF Dispatcher!Accept, IInv, BeforeSti
  <2> QED BY <1>2, <1>3, <1>4, <2>1 DEF Dispatcher!Accept
<1>5. CASE Dispatcher!Enter
  <2>1. /\ pc = "inta" /\ pc' = "irq_handler" /\ irq_routines' = irq_routines
        /\ Dispatcher!AckRequest \/ Dispatcher!AckNothing
    BY <1>5 DEF Dispatcher!Enter
  <2>2. CASE Dispatcher!AckRequest
    <3>1. PICK i \in pic.irr : pic' = Dispatcher!AckLine(pic, i) /\ int_no' = Dispatcher!Vector(i)
      BY <2>2 DEF Dispatcher!AckRequest, Dispatcher!Pending
    <3>2. i \in Irq
      BY <1>1 DEF PicState
    <3>3. int_no' = i + 32
      BY <3>1, <3>2 DEF Dispatcher!Vector, Dispatcher!SlaveIrq, Dispatcher!SlaveBase,
                        Dispatcher!MasterBase, Irq
    <3>4. /\ pic'.line = pic.line /\ pic'.keeps = pic.keeps
          /\ pic'.irr = pic.irr \ {i} /\ i \in pic'.isr
      BY <1>1, <3>1 DEF PicState, Dispatcher!AckLine, Dispatcher!ServiceBits
    <3>5. int_no' = 33 => i = 1
      BY <3>2, <3>3 DEF Irq
    <3>6. /\ stage = "kernel_main" /\ scan = <<>>
          /\ pc \notin {"irq_handler", "handler"}
      BY <1>1, <1>2, <2>1
    <3>7. pic'.irr \subseteq pic.irr /\ (1 \in pic.irr \ pic'.irr => i = 1)
      BY <3>4
    <3> QED BY <1>3, <2>1, <3>4, <3>5, <3>6, <3>7
  <2>3. CASE Dispatcher!AckNothing
    <3>1. int_no' # 33
      BY <2>3 DEF Dispatcher!AckNothing, Dispatcher!Vector, Dispatcher!SlaveIrq,
                  Dispatcher!SlaveBase, Dispatcher!MasterBase,
                  Dispatcher!SpuriousLine, Dispatcher!SpuriousSlaveLine
    <3>2. pic'.line = pic.line /\ pic'.keeps = pic.keeps /\ pic'.irr = pic.irr
      BY <1>1, <2>3 DEF Dispatcher!AckNothing, PicState
    <3> QED BY <1>1, <1>2, <1>3, <2>1, <3>1, <3>2
  <2> QED BY <2>1, <2>2, <2>3
<1>6. CASE Dispatcher!Dispatch
  <2>1. pc = "irq_handler" /\ UNCHANGED <<pic, ifl, irq_routines, int_no>>
    BY <1>6 DEF Dispatcher!Dispatch
  <2>2. int_no = 33 => pc' = "handler"
    <3> SUFFICES ASSUME int_no = 33 PROVE pc' = "handler"
      OBVIOUS
    <3>1. int_no - Dispatcher!MasterBase = 1 /\ ~ Dispatcher!BoundCheckFails
      BY DEF Dispatcher!MasterBase, Dispatcher!BoundCheckFails
    <3>2. irq_routines[1] = "ps2kb_handler"
      BY <1>1, <2>1 DEF IInv, Installed, TimerIrq, KeyboardIrq, Irq
    <3> QED BY <1>6, <3>1, <3>2 DEF Dispatcher!Dispatch
  <2> QED BY <1>1, <1>2, <1>3, <2>1, <2>2
<1>7. CASE Dispatcher!EoiSlave
  <2>1. /\ pc = "eoi_slave" /\ pc' = "eoi_master" /\ irq_routines' = irq_routines
        /\ pic' = pic \/ pic' = Dispatcher!SlaveEoi(pic)
    BY <1>7 DEF Dispatcher!EoiSlave
  <2>2. pic'.line = pic.line /\ pic'.keeps = pic.keeps /\ pic'.irr = pic.irr
    BY <1>1, <2>1 DEF Dispatcher!SlaveEoi, PicState
  <2> QED BY <1>1, <1>2, <1>3, <2>1, <2>2
<1>8. CASE Dispatcher!EoiMaster
  <2>1. /\ pc = "eoi_master" /\ pc' = "iret" /\ irq_routines' = irq_routines
        /\ pic' = pic \/ pic' = Dispatcher!MasterEoi(pic)
    BY <1>8 DEF Dispatcher!EoiMaster
  <2>2. pic'.line = pic.line /\ pic'.keeps = pic.keeps /\ pic'.irr = pic.irr
    BY <1>1, <2>1 DEF Dispatcher!MasterEoi, PicState
  <2> QED BY <1>1, <1>2, <1>3, <2>1, <2>2
<1>9. CASE Dispatcher!Iret
  <2>1. pc = "iret" /\ pc' = "main" /\ UNCHANGED <<pic, irq_routines>>
    BY <1>9 DEF Dispatcher!Iret
  <2> QED BY <1>1, <1>2, <1>3, <2>1
<1>10. CASE TimerHandler
  <2>1. /\ pc = "handler" /\ pc' = "eoi_slave" /\ UNCHANGED <<pic, ifl, irq_routines, int_no>>
        /\ int_no # 33
    BY <1>1, <1>10 DEF TimerHandler, Running, Dispatcher!HandlerReturns
  <2> QED BY <1>1, <1>2, <1>3, <2>1
<1> QED BY <1>4, <1>5, <1>6, <1>7, <1>8, <1>9, <1>10 DEF InterruptPath

(* The bytes between the device and the shell are a sequence of bytes.          *)
LEMMA BytesTyped ==
    ASSUME IInv
    PROVE  /\ frames \in Seq(FrameType)
           /\ scan \in Seq(1 .. 255) /\ obuf \in Seq(1 .. 255) /\ wire \in Seq(1 .. 255)
           /\ obuf \o wire \in Seq(1 .. 255) /\ scan \o (obuf \o wire) \in Seq(1 .. 255)
<1>1. frames \in Seq(FrameType)
  BY DEF IInv, KP!TypeOK, FrameType
<1>2. scan \in Seq(1 .. 255) /\ wire \in Seq(1 .. 255)
  BY DEF IInv, OwnTypes
<1>3. obuf \in Seq(1 .. 255)
  <2>1. obuf = <<>> \/ \E b \in 1 .. 255 : obuf = <<b>>
    BY DEF IInv, OwnTypes
  <2>2. <<>> \in Seq(1 .. 255) /\ \A b \in 1 .. 255 : <<b>> \in Seq(1 .. 255)
    OBVIOUS
  <2> QED BY <2>1, <2>2, Zenon
<1>4. obuf \o wire \in Seq(1 .. 255)
  BY <1>2, <1>3
<1>5. scan \o (obuf \o wire) \in Seq(1 .. 255)
  BY <1>2, <1>4
<1> QED BY <1>1, <1>2, <1>3, <1>4, <1>5

(* What ps2kb_handler has read are the first bytes of the first frame; it reads *)
(* on exactly while bytes are missing, and then decodes that frame.             *)
LEMMA ScanIs ==
    ASSUME IInv, scan # <<>>
    PROVE  /\ frames # <<>> /\ frames[1] \in FrameType
           /\ Len(scan) <= Len(Encode(frames[1]))
           /\ IsWhole(scan) <=> Len(scan) = Len(Encode(frames[1]))
           /\ IsWhole(scan) => FrameOf(scan) = frames[1]
<1> DEFINE rest == obuf \o wire
           bytes == scan \o rest
           e == Encode(frames[1])
<1>1. /\ frames \in Seq(FrameType) /\ scan \in Seq(1 .. 255)
      /\ rest \in Seq(1 .. 255) /\ bytes \in Seq(1 .. 255)
  BY BytesTyped
<1>2. frames # <<>> /\ Len(scan) <= Len(e)
  BY DEF IInv, ScanInFrame
<1>3. Encodes(bytes, frames)
  <2>1. stage = "kernel_main"
    BY Interrupts DEF IInv, ScanInFrame
  <2> QED BY <2>1 DEF IInv, FrameSync
<1>4. frames[1] \in FrameType /\ \A j \in 1 .. Len(e) : bytes[j] = e[j]
  BY <1>1, <1>2, <1>3, EncodesHead, Zenon
<1>5. e \in Seq(1 .. 255)
  BY <1>4, EncodeIs
<1>6. \A j \in 1 .. Len(scan) : bytes[j] = scan[j]
  <2> HIDE DEF rest
  <2> QED BY <1>1
<1>7. \A j \in 1 .. Len(scan) : j \in 1 .. Len(e)
  <2> DEFINE n == Len(scan)
             m == Len(e)
  <2>1. n \in Nat /\ m \in Nat /\ n <= m
    BY <1>1, <1>2, <1>5
  <2> HIDE DEF n, m
  <2>2. \A j \in 1 .. n : j \in 1 .. m
    BY <2>1
  <2> QED BY <2>2 DEF n, m
<1>8. \A j \in 1 .. Len(scan) : scan[j] = e[j]
  BY <1>4, <1>6, <1>7, Zenon
<1> HIDE DEF bytes, rest
<1> QED BY <1>1, <1>2, <1>4, <1>8, WholeIs
--------------------------------------------------------------------------------
(* The steps of the two specifications Ps2Kbd implements *)

LEMMA DispatcherStep ==
    ASSUME IInv, [Next]_vars
    PROVE  [Dispatcher!Next]_irqVars
<1>1. CASE TimerInstall \/ Ps2kbInit
  <2>1. \E i \in {TimerIrq, KeyboardIrq} : \E h \in {"timer_handler", "ps2kb_handler"} :
           Dispatcher!InstallHandler(i, h)
    BY <1>1 DEF TimerInstall, Ps2kbInit, HandledIrq
  <2> QED BY <2>1 DEF Dispatcher!Next, Dispatcher!Main
<1>2. CASE Ps2Init
  BY <1>2 DEF Ps2Init
<1>3. CASE Sti
  BY <1>3 DEF Sti, Dispatcher!Next, Dispatcher!Main
<1>4. CASE Pit
  BY <1>4 DEF Pit, Dispatcher!Next, Dispatcher!Device
<1>5. CASE Key
  BY <1>5 DEF Key
<1>6. CASE Transfer
  BY <1>6 DEF Transfer, Dispatcher!Next, Dispatcher!Device
<1>7. CASE InterruptPath
  BY <1>7 DEF InterruptPath, Dispatcher!Next, Dispatcher!Interrupt
<1>8. CASE TimerHandler
  BY <1>8 DEF TimerHandler, Dispatcher!Next, Dispatcher!Interrupt
<1>9. CASE Decode
  BY <1>9 DEF Decode, Dispatcher!Next, Dispatcher!Interrupt
(* Reading the byte lets line 1 drop, which is up as long as there is one.      *)
<1>10. CASE ReadScancode \/ Ps2InitReply
  <2>1. Ps2Read
    BY <1>10 DEF ReadScancode, Ps2InitReply
  <2>2. KeyboardIrq \in pic.line
    BY <2>1 DEF Ps2Read, IInv, LineFollowsBuffer
  <2>3. LineAfterRead = Dispatcher!LowerLine(pic, KeyboardIrq)
    BY DEF LineAfterRead, LowerLine, Dispatcher!LowerLine
  <2>4. Dispatcher!LowerIrq(KeyboardIrq)
    BY <2>1, <2>2, <2>3 DEF Ps2Read, Dispatcher!LowerIrq
  <2> QED BY <2>4 DEF Dispatcher!Next, Dispatcher!Device
<1>11. CASE UNCHANGED vars
  BY <1>11 DEF vars
<1> QED BY <1>1, <1>2, <1>3, <1>4, <1>5, <1>6, <1>7, <1>8, <1>9, <1>10, <1>11
        DEF Next, Boot, Processor

LEMMA KeyboardStep ==
    ASSUME IInv, [Next]_vars
    PROVE  [Promise!Next]_kbdVars
<1>1. CASE TimerInstall \/ Ps2Init \/ Ps2InitReply \/ Sti \/ Pit \/ Transfer
             \/ InterruptPath \/ TimerHandler \/ ReadScancode \/ UNCHANGED vars
  BY <1>1 DEF TimerInstall, Ps2Init, Ps2InitReply, Sti, Pit, Transfer,
              InterruptPath, TimerHandler, ReadScancode, vars, kbdVars
(* No key has been decoded before ps2kb_init, so it finds no flag to clear.     *)
<1>2. CASE Ps2kbInit
  <2>1. mods = {}
    BY <1>2 DEF Ps2kbInit, IInv, BeforeSti
  <2> QED BY <1>2, <2>1 DEF Ps2kbInit, kbdVars
<1>3. CASE Key
  BY <1>3 DEF Key, Promise!Next
<1>4. CASE Decode
  <2>1. scan # <<>>
    BY <1>4 DEF Decode, IsWhole
  <2>2. frames # <<>> /\ FrameOf(scan) = Head(frames)
    BY <1>4, <2>1, ScanIs, BytesTyped DEF Decode
  <2>3. Promise!Decode
    BY <1>4, <2>2, SameDecoding DEF Decode, Promise!Decode, Promise!FramesLeft
  <2> QED BY <2>3 DEF Promise!Next
<1> QED BY <1>1, <1>2, <1>3, <1>4 DEF Next, Boot, Processor
--------------------------------------------------------------------------------
(* The invariant *)

(* The conjuncts that are about the bytes, the buffer and the requests.         *)
OwnInv ==
    /\ OwnTypes /\ BeforeSti /\ Installed /\ OnlyTheReply
    /\ FrameSync /\ ScanInFrame
    /\ LineFollowsBuffer /\ RequestsFollowLines /\ Announced /\ DataAhead

LEMMA InitIInv == Init => IInv
<1> SUFFICES ASSUME Init PROVE IInv
  OBVIOUS
<1>1. DP!Init /\ KP!Init
  BY SameDispatcher, SameKeyboard DEF Init
<1>2. DP!LinesAssumption
  BY DEF DP!LinesAssumption, DP!Irq, DP!Cascade, TimerIrq, KeyboardIrq
<1>3. DP!IInv
  BY <1>1, <1>2, DP!InitIInv
<1>4. KP!TypeOK
  BY <1>1, SameKeyboard
     DEF KP!Init, KP!TypeOK, KP!EventType, KP!NoEvent, KP!NoChar, KP!KEY_NONE,
         KP!KeysAssumption
<1>5. /\ stage = "timer_install" /\ wire = <<>> /\ obuf = <<>> /\ scan = <<>>
      /\ frames = <<>> /\ mods = {} /\ ~ ifl /\ pc = "main"
      /\ pic.line = {} /\ pic.irr = {} /\ irq_routines = [i \in Irq |-> "none"]
  BY <1>1 DEF Init, DP!Init, KP!Init, DP!PicReset, DP!Irq, Irq
<1>6. OwnInv
  BY <1>5 DEF OwnInv, OwnTypes, Stages, BeforeSti, Installed, OnlyTheReply, FrameSync,
              ScanInFrame, LineFollowsBuffer, RequestsFollowLines, Announced, DataAhead
<1> QED BY <1>3, <1>4, <1>6 DEF IInv, OwnInv

(* The interrupt path touches neither the bytes nor the lines.                  *)
LEMMA PathOwnInv ==
    ASSUME IInv, InterruptPath \/ TimerHandler
    PROVE  OwnInv'
<1>1. /\ UNCHANGED <<irq_routines, kbdVars, ioVars>>
      /\ stage = "kernel_main" /\ scan = <<>>
      /\ pic'.line = pic.line /\ pic'.keeps = pic.keeps /\ pic'.irr \subseteq pic.irr
      /\ 1 \in pic.irr \ pic'.irr => pc' = "irq_handler" /\ 1 \in pic'.isr
      /\ pc \in {"irq_handler", "handler"} /\ 1 \in pic.isr =>
           pc' = "handler" /\ 1 \in pic'.isr
      /\ pc' \in {"irq_handler", "handler"} /\ int_no' = 33 =>
           1 \in pic.irr \/ (pc \in {"irq_handler", "handler"} /\ int_no = 33)
  BY PathEffect
<1>2. OwnInv
  BY DEF IInv, OwnInv
<1>3. (OwnTypes /\ BeforeSti /\ Installed /\ OnlyTheReply)'
  BY <1>1, <1>2 DEF OwnInv, OwnTypes, BeforeSti, Installed, OnlyTheReply, kbdVars, ioVars
<1>4. FrameSync' /\ ScanInFrame'
  BY <1>1, <1>2 DEF OwnInv, FrameSync, ScanInFrame, kbdVars, ioVars
<1>5. LineFollowsBuffer' /\ RequestsFollowLines'
  BY <1>1, <1>2 DEF OwnInv, LineFollowsBuffer, RequestsFollowLines, ioVars
<1>6. Announced'
  BY <1>1, <1>2 DEF OwnInv, Announced, KeyboardIrq, ioVars
<1>7. DataAhead'
  <2>1. Vector(KeyboardIrq) = 33
    BY DEF Vector, KeyboardIrq, SlaveIrq, MasterBase
  <2>2. ~ pic.keeps /\ 1 \in pic.irr => obuf # <<>>
    BY <1>2 DEF OwnInv, RequestsFollowLines, LineFollowsBuffer, KeyboardIrq
  <2> QED BY <1>1, <1>2, <2>1, <2>2 DEF OwnInv, DataAhead, ioVars
<1> QED BY <1>3, <1>4, <1>5, <1>6, <1>7 DEF OwnInv

(* kernel_early, and the timer's square wave                                    *)
LEMMA BootOwnInv ==
    ASSUME IInv, TimerInstall \/ Ps2Init \/ Ps2kbInit \/ Sti
    PROVE  OwnInv'
<1>1. OwnInv
  BY DEF IInv, OwnInv
<1>2. /\ pc = "main" /\ ~ ifl /\ mods = {} /\ frames' = frames /\ scan' = scan /\ obuf' = obuf
      /\ pic' = pic /\ pc' = pc /\ scan = <<>>
  <2>1. pc = "main" /\ ~ ifl /\ mods = {}
    BY <1>1 DEF OwnInv, BeforeSti, TimerInstall, Ps2Init, Ps2kbInit, Sti
  <2>2. frames' = frames /\ scan' = scan /\ obuf' = obuf /\ pic' = pic /\ pc' = pc
    BY DEF TimerInstall, Ps2Init, Ps2kbInit, Sti, Dispatcher!InstallHandler, Dispatcher!Sti,
           kbdVars, irqVars
  <2> QED BY <1>1, <2>1, <2>2 DEF OwnInv, ScanInFrame
<1>3. (ScanInFrame /\ LineFollowsBuffer /\ RequestsFollowLines /\ Announced /\ DataAhead)'
  BY <1>1, <1>2 DEF OwnInv, ScanInFrame, LineFollowsBuffer, RequestsFollowLines, Announced,
                    DataAhead
<1>4. CASE TimerInstall
  <2>1. /\ stage = "timer_install" /\ stage' = "ps2_init" /\ wire' = wire /\ mods' = mods
        /\ ifl' = ifl /\ irq_routines' = [irq_routines EXCEPT ![0] = "timer_handler"]
    BY <1>4 DEF TimerInstall, Dispatcher!InstallHandler, TimerIrq, kbdVars
  <2> QED BY <1>1, <1>2, <1>3, <2>1
          DEF OwnInv, OwnTypes, Stages, BeforeSti, Installed, OnlyTheReply, FrameSync,
              TimerIrq, KeyboardIrq, Irq
<1>5. CASE Ps2Init
  <2>1. /\ stage = "ps2_init" /\ stage' = "ps2_init_reply" /\ wire' = Append(wire, ACK)
        /\ UNCHANGED <<mods, ifl, irq_routines>>
    BY <1>5 DEF Ps2Init, kbdVars, irqVars
  <2>2. wire = <<>> /\ obuf = <<>>
    BY <1>1, <2>1 DEF OwnInv, OnlyTheReply
  <2>3. wire' = <<ACK>> /\ wire' \in Seq(1 .. 255)
    BY <2>1, <2>2 DEF ACK
  <2> QED BY <1>1, <1>2, <1>3, <2>1, <2>2, <2>3
          DEF OwnInv, OwnTypes, Stages, BeforeSti, Installed, OnlyTheReply, FrameSync
<1>6. CASE Ps2kbInit
  <2>1. /\ stage = "ps2kb_init" /\ stage' = "sti" /\ wire' = wire /\ mods' = {}
        /\ ifl' = ifl /\ irq_routines' = [irq_routines EXCEPT ![1] = "ps2kb_handler"]
    BY <1>2, <1>6 DEF Ps2kbInit, Dispatcher!InstallHandler, HandledIrq, KeyboardIrq
  <2>2. Installed'
    <3>1. irq_routines = [i \in Irq |-> IF i = 0 THEN "timer_handler" ELSE "none"]
      BY <1>1, <2>1 DEF OwnInv, Installed, TimerIrq, KeyboardIrq
    <3>2. irq_routines' = [i \in Irq |-> IF i = 0 THEN "timer_handler"
                                         ELSE IF i = 1 THEN "ps2kb_handler" ELSE "none"]
      <4> DEFINE t == [i \in Irq |-> IF i = 0 THEN "timer_handler"
                                     ELSE IF i = 1 THEN "ps2kb_handler" ELSE "none"]
      <4>1. \A i \in Irq : irq_routines'[i] = t[i]
        BY <2>1, <3>1 DEF Irq
      <4>2. irq_routines' = [i \in Irq |-> irq_routines'[i]]
        BY <2>1, <3>1
      <4>3. t = [i \in Irq |-> t[i]]
        OBVIOUS
      <4> HIDE DEF t
      <4>4. irq_routines' = t
        BY <4>1, <4>2, <4>3
      <4> QED BY <4>4 DEF t
    <3> QED BY <2>1, <3>2 DEF Installed, TimerIrq, KeyboardIrq
  <2>3. (OwnTypes /\ BeforeSti /\ OnlyTheReply /\ FrameSync)'
    BY <1>1, <1>2, <2>1 DEF OwnInv, OwnTypes, Stages, BeforeSti, OnlyTheReply, FrameSync
  <2> QED BY <1>3, <2>2, <2>3 DEF OwnInv
<1>7. CASE Sti
  <2>1. /\ stage = "sti" /\ stage' = "kernel_main"
        /\ UNCHANGED <<wire, irq_routines>>
    BY <1>7 DEF Sti, Dispatcher!Sti
  <2> QED BY <1>1, <1>2, <1>3, <2>1
          DEF OwnInv, OwnTypes, Stages, BeforeSti, Installed, OnlyTheReply, FrameSync,
              TimerIrq, KeyboardIrq
<1> QED BY <1>4, <1>5, <1>6, <1>7

LEMMA PitOwnInv ==
    ASSUME IInv, Pit
    PROVE  OwnInv'
<1>1. OwnInv /\ pic \in PicState
  BY Interrupts DEF IInv, OwnInv
<1>2. UNCHANGED <<ifl, irq_routines, pc, int_no, kbdVars, ioVars>>
  BY DEF Pit, Dispatcher!RaiseIrq, Dispatcher!LowerIrq
<1>3. /\ pic'.keeps = pic.keeps /\ pic'.isr = pic.isr
      /\ 1 \in pic'.line <=> 1 \in pic.line
      /\ 1 \in pic'.irr <=> 1 \in pic.irr
      /\ (~ pic.keeps /\ pic.irr \subseteq pic.line) => pic'.irr \subseteq pic'.line
  <2>1. CASE Dispatcher!RaiseIrq(TimerIrq)
    <3>1. /\ pic'.keeps = pic.keeps /\ pic'.isr = pic.isr
          /\ pic'.line = pic.line \cup {0} /\ pic'.irr = pic.irr \cup {0}
      BY <1>1, <2>1 DEF Dispatcher!RaiseIrq, Dispatcher!RaiseLine, PicState, TimerIrq
    <3> QED BY <3>1
  <2>2. CASE Dispatcher!LowerIrq(TimerIrq)
    <3>1. /\ pic'.keeps = pic.keeps /\ pic'.isr = pic.isr /\ pic'.line = pic.line \ {0}
          /\ pic'.irr = IF pic.keeps THEN pic.irr ELSE pic.irr \ {0}
      BY <1>1, <2>2 DEF Dispatcher!LowerIrq, Dispatcher!LowerLine, PicState, TimerIrq
    <3> QED BY <3>1
  <2> QED BY <2>1, <2>2 DEF Pit
<1>4. (OwnTypes /\ BeforeSti /\ Installed /\ OnlyTheReply)'
  BY <1>1, <1>2 DEF OwnInv, OwnTypes, BeforeSti, Installed, OnlyTheReply, kbdVars, ioVars
<1>5. FrameSync' /\ ScanInFrame'
  BY <1>1, <1>2 DEF OwnInv, FrameSync, ScanInFrame, kbdVars, ioVars
<1>6. LineFollowsBuffer' /\ RequestsFollowLines' /\ Announced' /\ DataAhead'
  BY <1>1, <1>2, <1>3
     DEF OwnInv, LineFollowsBuffer, RequestsFollowLines, Announced, DataAhead,
         KeyboardIrq, ioVars
<1> QED BY <1>4, <1>5, <1>6 DEF OwnInv

(* A frame more goes on the wire, behind the others.                            *)
LEMMA KeyOwnInv ==
    ASSUME IInv, Key
    PROVE  OwnInv'
<1>1. OwnInv /\ frames \in Seq(FrameType)
  BY BytesTyped DEF IInv, OwnInv
<1>2. PICK k \in Keys, down \in BOOLEAN :
        frames' = Append(frames, Promise!Frame(k, down)) /\ UNCHANGED <<seen, mods, event>>
  BY DEF Key, Promise!Press, Promise!Release, Promise!Send
<1> DEFINE f == Promise!Frame(k, down)
<1>3. f \in FrameType
  <2>1. k \in Promise!KeyType
    BY Ps2KbdAssumption
  <2> QED BY <2>1, SameFrameType
          DEF Promise!Frame, Promise!FrameType, Promise!KeyType
<1> HIDE DEF f
<1>4. /\ Last(frames') = f
      /\ frames' # <<>>
      /\ frames # <<>> => frames'[1] = frames[1]
  BY <1>1, <1>2, <1>3 DEF Last, f
<1>5. /\ stage \in {"ps2kb_init", "sti", "kernel_main"}
      /\ wire' = wire \o Encode(f) /\ UNCHANGED <<irqVars, stage, obuf, scan>>
  BY <1>4 DEF Key
<1>6. Encode(f) \in Seq(1 .. 255)
  BY <1>3, EncodeIs
<1>7. wire' \in Seq(1 .. 255)
  BY <1>5, <1>6, BytesTyped
<1>8. FrameSync'
  <2>1. Encodes((scan \o (obuf \o wire)) \o Encode(f), frames')
    BY <1>1, <1>2, <1>3, <1>5, BytesTyped, EncodesOneMore DEF OwnInv, FrameSync, f
  <2>2. (scan \o (obuf \o wire)) \o Encode(f) = scan \o (obuf \o (wire \o Encode(f)))
    <3>1. scan \in Seq(1 .. 255) /\ obuf \in Seq(1 .. 255) /\ wire \in Seq(1 .. 255)
      BY BytesTyped
    <3>2. (obuf \o wire) \o Encode(f) = obuf \o (wire \o Encode(f))
      BY <1>6, <3>1
    <3>3. obuf \o wire \in Seq(1 .. 255)
      BY BytesTyped
    <3>4. (scan \o (obuf \o wire)) \o Encode(f) = scan \o ((obuf \o wire) \o Encode(f))
      BY <1>6, <3>1, <3>3
    <3> QED BY <3>2, <3>4
  <2> QED BY <1>5, <2>1, <2>2 DEF FrameSync
<1>9. (OwnTypes /\ BeforeSti /\ Installed /\ OnlyTheReply)'
  BY <1>1, <1>2, <1>5, <1>7
     DEF OwnInv, OwnTypes, BeforeSti, Installed, OnlyTheReply, irqVars
<1>10. ScanInFrame'
  BY <1>1, <1>4, <1>5 DEF OwnInv, ScanInFrame, irqVars
<1>11. LineFollowsBuffer' /\ RequestsFollowLines' /\ Announced' /\ DataAhead'
  BY <1>1, <1>5
     DEF OwnInv, LineFollowsBuffer, RequestsFollowLines, Announced, DataAhead, irqVars
<1> QED BY <1>8, <1>9, <1>10, <1>11 DEF OwnInv

(* The next byte reaches the buffer and raises the line.                        *)
LEMMA TransferOwnInv ==
    ASSUME IInv, Transfer
    PROVE  OwnInv'
<1>1. OwnInv /\ pic \in PicState
  BY Interrupts DEF IInv, OwnInv
<1>2. /\ wire # <<>> /\ obuf = <<>> /\ obuf' = <<Head(wire)>> /\ wire' = Tail(wire)
      /\ UNCHANGED <<ifl, irq_routines, pc, int_no, kbdVars, stage, scan>>
  BY DEF Transfer, Dispatcher!RaiseIrq
<1>3. /\ wire \in Seq(1 .. 255) /\ scan \in Seq(1 .. 255)
      /\ Head(wire) \in 1 .. 255 /\ wire' \in Seq(1 .. 255)
  <2>1. wire \in Seq(1 .. 255) /\ scan \in Seq(1 .. 255)
    BY BytesTyped
  <2>2. Head(wire) \in 1 .. 255
    BY <1>2, <2>1, HeadTailProperties, Zenon
  <2>3. Tail(wire) \in Seq(1 .. 255)
    BY <1>2, <2>1
  <2> QED BY <1>2, <2>1, <2>2, <2>3, Zenon
<1>4. obuf' # <<>> /\ obuf' \o wire' = obuf \o wire
  <2>1. <<Head(wire)>> # <<>> /\ <<Head(wire)>> \o Tail(wire) = wire /\ <<>> \o wire = wire
    BY <1>2, <1>3
  <2> QED BY <1>2, <2>1, Zenon
<1>5. /\ pic'.keeps = pic.keeps /\ pic'.line = pic.line \cup {1} /\ pic'.irr = pic.irr \cup {1}
  BY <1>1 DEF Transfer, Dispatcher!RaiseIrq, Dispatcher!RaiseLine, PicState, KeyboardIrq
<1>6. OwnTypes'
  BY <1>1, <1>2, <1>3 DEF OwnInv, OwnTypes
<1>7. BeforeSti' /\ Installed' /\ ScanInFrame'
  BY <1>1, <1>2 DEF OwnInv, BeforeSti, Installed, ScanInFrame, kbdVars
<1>8. OnlyTheReply'
  <2>1. wire = <<ACK>> => obuf' = <<ACK>> /\ wire' = <<>>
    BY <1>2
  <2> QED BY <1>1, <1>2, <2>1 DEF OwnInv, OnlyTheReply, kbdVars
<1>9. FrameSync'
  BY <1>1, <1>2, <1>4 DEF OwnInv, FrameSync, kbdVars
<1>10. LineFollowsBuffer' /\ RequestsFollowLines' /\ Announced' /\ DataAhead'
  BY <1>1, <1>2, <1>4, <1>5
     DEF OwnInv, LineFollowsBuffer, RequestsFollowLines, Announced, DataAhead, KeyboardIrq
<1> QED BY <1>6, <1>7, <1>8, <1>9, <1>10 DEF OwnInv

(* A byte is taken from the buffer, by ps2_init or by the handler.              *)
LEMMA ReadEffect ==
    ASSUME IInv, Ps2Read
    PROVE  /\ obuf # <<>> /\ obuf' = <<>> /\ UNCHANGED <<ifl, irq_routines, pc, int_no>>
           /\ (LineFollowsBuffer /\ RequestsFollowLines /\ Announced)'
<1>1. /\ obuf # <<>> /\ obuf' = <<>> /\ UNCHANGED <<ifl, irq_routines, pc, int_no>>
      /\ pic' = LowerLine(pic, KeyboardIrq)
  BY DEF Ps2Read, LineAfterRead
<1>2. /\ pic'.keeps = pic.keeps /\ pic'.line = pic.line \ {1}
      /\ pic'.irr = IF pic.keeps THEN pic.irr ELSE pic.irr \ {1}
  BY <1>1, Interrupts DEF LowerLine, PicState, KeyboardIrq
<1>3. RequestsFollowLines
  BY DEF IInv
<1> QED BY <1>1, <1>2, <1>3
        DEF LineFollowsBuffer, RequestsFollowLines, Announced, KeyboardIrq

LEMMA ReplyOwnInv ==
    ASSUME IInv, Ps2InitReply
    PROVE  OwnInv'
<1>1. OwnInv
  BY DEF IInv, OwnInv
<1>2. /\ stage = "ps2_init_reply" /\ stage' = "ps2kb_init" /\ Ps2Read
      /\ UNCHANGED <<kbdVars, wire, scan>>
  BY DEF Ps2InitReply
<1>3. /\ obuf # <<>> /\ obuf' = <<>> /\ UNCHANGED <<ifl, irq_routines, pc, int_no>>
      /\ (LineFollowsBuffer /\ RequestsFollowLines /\ Announced)'
  BY <1>2, ReadEffect
<1>4. frames = <<>> /\ scan = <<>> /\ wire = <<>> /\ pc = "main" /\ ~ ifl /\ mods = {}
  BY <1>1, <1>2, <1>3 DEF OwnInv, OnlyTheReply, BeforeSti
<1>5. (OwnTypes /\ BeforeSti /\ Installed /\ OnlyTheReply)'
  BY <1>1, <1>2, <1>3, <1>4
     DEF OwnInv, OwnTypes, Stages, BeforeSti, Installed, OnlyTheReply, kbdVars
<1>6. FrameSync'
  <2>1. <<>> \o (<<>> \o <<>>) = <<>>
    OBVIOUS
  <2> QED BY <1>2, <1>3, <1>4, <2>1, EncodesNothing DEF FrameSync, kbdVars
<1>7. ScanInFrame' /\ DataAhead'
  BY <1>2, <1>3, <1>4 DEF ScanInFrame, DataAhead
<1> QED BY <1>3, <1>5, <1>6, <1>7 DEF OwnInv

(* The handler reads a byte of the first frame, and never one of the next.      *)
LEMMA ReadOwnInv ==
    ASSUME IInv, ReadScancode
    PROVE  OwnInv'
<1>1. OwnInv
  BY DEF IInv, OwnInv
<1>2. /\ pc = "handler" /\ int_no = 33 /\ stage = "kernel_main"
      /\ ~ IsWhole(scan) /\ Ps2Read /\ scan' = scan \o obuf
      /\ UNCHANGED <<kbdVars, stage, wire>>
  BY Interrupts DEF ReadScancode, ScanWith
<1>3. /\ obuf # <<>> /\ obuf' = <<>> /\ UNCHANGED <<ifl, irq_routines, pc, int_no>>
      /\ (LineFollowsBuffer /\ RequestsFollowLines /\ Announced)'
  BY <1>2, ReadEffect
<1>4. /\ frames \in Seq(FrameType)
      /\ scan \in Seq(1 .. 255) /\ obuf \in Seq(1 .. 255) /\ wire \in Seq(1 .. 255)
      /\ obuf \o wire \in Seq(1 .. 255) /\ scan \o (obuf \o wire) \in Seq(1 .. 255)
  BY BytesTyped
<1>5. PICK b \in 1 .. 255 : obuf = <<b>>
  BY <1>1, <1>3 DEF OwnInv, OwnTypes
<1>6. scan' \in Seq(1 .. 255) /\ Len(scan') = Len(scan) + 1 /\ scan' # <<>>
  BY <1>2, <1>4, <1>5
<1>7. Encodes(scan \o (obuf \o wire), frames)
  BY <1>1, <1>2 DEF OwnInv, FrameSync
<1>8. scan' \o (obuf' \o wire') = scan \o (obuf \o wire)
  <2>1. <<>> \o wire = wire /\ (scan \o obuf) \o wire = scan \o (obuf \o wire)
    BY <1>4
  <2> QED BY <1>2, <1>3, <2>1, Zenon
<1>9. frames # <<>> /\ frames[1] \in FrameType /\ Len(scan') <= Len(Encode(frames[1]))
  <2>1. frames # <<>> /\ frames[1] \in FrameType
    <3>1. scan \o (obuf \o wire) # <<>>
      BY <1>4, <1>5
    <3> QED BY <1>4, <1>7, <3>1, EncodesHead, Zenon
  <2> DEFINE n == Len(scan)
             m == Len(Encode(frames[1]))
  <2>2. n \in Nat /\ m \in Nat /\ m >= 1
    <3>1. m \in {1, 2, 3}
      BY <2>1, EncodeIs
    <3>2. n \in Nat
      BY <1>4
    <3>3. \A x \in {1, 2, 3} : x \in Nat /\ x >= 1
      OBVIOUS
    <3> QED BY <3>1, <3>2, <3>3, Zenon
  <2>3. n <= m /\ (n # 0 => n # m)
    <3>1. CASE scan = <<>>
      BY <2>2, <3>1
    <3>2. CASE scan # <<>>
      BY <1>2, <3>2, ScanIs
    <3> QED BY <3>1, <3>2
  <2>4. Len(scan') = n + 1
    BY <1>6
  <2> HIDE DEF n, m
  <2>5. n + 1 <= m
    BY <2>2, <2>3
  <2> QED BY <2>1, <2>4, <2>5 DEF m
<1>10. (OwnTypes /\ BeforeSti /\ Installed /\ OnlyTheReply)'
  BY <1>1, <1>2, <1>3, <1>6
     DEF OwnInv, OwnTypes, BeforeSti, Installed, OnlyTheReply
<1>11. FrameSync'
  BY <1>2, <1>7, <1>8 DEF FrameSync, kbdVars
<1>12. ScanInFrame' /\ DataAhead'
  BY <1>2, <1>3, <1>6, <1>9
     DEF ScanInFrame, DataAhead, Vector, KeyboardIrq, SlaveIrq, MasterBase, kbdVars
<1> QED BY <1>3, <1>10, <1>11, <1>12 DEF OwnInv

(* The handler is through with the frame and leaves those behind it in step.    *)
LEMMA DecodeOwnInv ==
    ASSUME IInv, Decode
    PROVE  OwnInv'
<1>1. OwnInv
  BY DEF IInv, OwnInv
<1>2. /\ pc = "handler" /\ stage = "kernel_main" /\ IsWhole(scan) /\ scan # <<>>
      /\ frames' = Tail(frames) /\ scan' = <<>>
      /\ pc' = "eoi_slave" /\ UNCHANGED <<pic, ifl, irq_routines, int_no, stage, wire, obuf>>
  BY Interrupts DEF Decode, Dispatcher!HandlerReturns, IsWhole
<1>3. /\ frames \in Seq(FrameType)
      /\ scan \in Seq(1 .. 255) /\ obuf \o wire \in Seq(1 .. 255)
  BY BytesTyped
<1>4. Encodes(scan \o (obuf \o wire), frames)
  BY <1>1, <1>2 DEF OwnInv, FrameSync
<1>5. frames # <<>> /\ Len(scan) = Len(Encode(frames[1]))
  BY <1>2, ScanIs
<1>6. Encodes(obuf \o wire, Tail(frames))
  BY <1>3, <1>4, <1>5, EncodesRest, Zenon
<1>7. FrameSync'
  <2>1. <<>> \o (obuf \o wire) = obuf \o wire
    BY <1>3
  <2> QED BY <1>2, <1>6, <2>1 DEF FrameSync
<1>8. (OwnTypes /\ BeforeSti /\ Installed /\ OnlyTheReply)'
  BY <1>1, <1>2 DEF OwnInv, OwnTypes, BeforeSti, Installed, OnlyTheReply
<1>9. ScanInFrame' /\ DataAhead' /\ LineFollowsBuffer' /\ RequestsFollowLines' /\ Announced'
  BY <1>1, <1>2
     DEF OwnInv, ScanInFrame, DataAhead, LineFollowsBuffer, RequestsFollowLines, Announced
<1> QED BY <1>7, <1>8, <1>9 DEF OwnInv

LEMMA NextIInv == IInv /\ [Next]_vars => IInv'
<1> SUFFICES ASSUME IInv, [Next]_vars PROVE IInv'
  OBVIOUS
<1>1. DP!IInv'
  <2>1. [DP!Next]_(DP!vars)
    BY DispatcherStep, SameDispatcher DEF DP!vars, irqVars
  <2>2. DP!LinesAssumption
    BY DEF DP!LinesAssumption, DP!Irq, DP!Cascade, TimerIrq, KeyboardIrq
  <2> QED BY <2>1, <2>2, DP!NextIInv DEF IInv
<1>2. KP!TypeOK'
  <2>1. [KP!Next]_(KP!vars)
    BY KeyboardStep, SameKeyboard DEF KP!vars, kbdVars
  <2> QED BY <2>1, SameKeyboard, KP!NextTypeOK DEF IInv
<1>3. OwnInv'
  <2>1. CASE UNCHANGED vars
    <3>1. OwnInv
      BY DEF IInv, OwnInv
    <3> QED BY <2>1, <3>1
        DEF vars, irqVars, kbdVars, ioVars, OwnInv, OwnTypes, BeforeSti, Installed,
            OnlyTheReply, FrameSync, ScanInFrame, LineFollowsBuffer, RequestsFollowLines,
            Announced, DataAhead
  <2> QED BY <2>1, PathOwnInv, BootOwnInv, PitOwnInv, KeyOwnInv, TransferOwnInv,
             ReplyOwnInv, ReadOwnInv, DecodeOwnInv
          DEF Next, Boot, Processor
<1> QED BY <1>1, <1>2, <1>3 DEF IInv, OwnInv
--------------------------------------------------------------------------------
THEOREM Invariance == Spec => []IInv
BY InitIInv, NextIInv, PTL DEF Spec

(* The variables keep their types; a run of the handler reads three bytes at    *)
(* most.                                                                        *)
THEOREM TypeCorrect == Spec => []TypeOK
<1>1. IInv => TypeOK
  <2> SUFFICES ASSUME IInv PROVE TypeOK
    OBVIOUS
  <2>1. Dispatcher!TypeOK /\ Promise!TypeOK
    BY SameDispatcher, SameKeyboard DEF IInv, DP!IInv
  <2>2. Len(scan) <= 3
    <3>1. CASE scan = <<>>
      BY <3>1
    <3>2. CASE scan # <<>>
      <4> DEFINE n == Len(scan)
                 m == Len(Encode(frames[1]))
      <4>1. n \in Nat /\ n <= m
        BY <3>2, ScanIs, BytesTyped
      <4>2. m \in {1, 2, 3}
        BY <3>2, ScanIs, EncodeIs
      <4> HIDE DEF n, m
      <4>3. n <= 3
        BY <4>1, <4>2
      <4> QED BY <4>3 DEF n
    <3> QED BY <3>1, <3>2
  <2> QED BY <2>1, <2>2 DEF TypeOK, IInv, OwnTypes
<1> QED BY Invariance, <1>1, PTL

(* No byte is lost, doubled, reordered or counted to the wrong frame.           *)
THEOREM InSync == Spec => []FrameSync
<1>1. IInv => FrameSync
  BY DEF IInv
<1> QED BY Invariance, <1>1, PTL

(* A byte in the buffer is announced, or about to be fetched.                   *)
THEOREM NeverMute == Spec => []ByteAnnounced
<1>1. IInv => ByteAnnounced
  BY DEF IInv, Announced, ByteAnnounced, Mask
<1> QED BY Invariance, <1>1, PTL

(* On a machine where a request goes with its line, ps2kb_handler finds a byte. *)
THEOREM NoEmptyRead == Spec => []HandlerHasData
<1>1. IInv => HandlerHasData
  <2> SUFFICES ASSUME IInv, ~ pic.keeps, Running("ps2kb_handler"), scan = <<>>
               PROVE  obuf # <<>>
    BY DEF HandlerHasData
  <2>1. pc = "handler" /\ int_no = 33
    BY Interrupts
  <2> QED BY <2>1 DEF IInv, DataAhead, Vector, KeyboardIrq, SlaveIrq, MasterBase
<1> QED BY Invariance, <1>1, PTL

(* Seen from the keyboard's side the driver decodes each frame once, whole and  *)
(* in order.                                                                    *)
THEOREM KeyboardPromise == Spec => ImplementsKeyboard
<1>1. Init => Promise!Init
  BY DEF Init
<1>2. IInv /\ [Next]_vars => [Promise!Next]_(Promise!vars)
  BY KeyboardStep DEF Promise!vars, kbdVars
<1> QED BY Invariance, <1>1, <1>2, PTL DEF Spec, ImplementsKeyboard, Promise!Spec

(* Its steps are steps of the interrupt path.  The other conjunct of            *)
(* ImplementsDispatch, the fairness, is not proved.                             *)
THEOREM DispatchSteps == Spec => Dispatcher!Init /\ [][Dispatcher!Next]_irqVars
<1>1. Init => Dispatcher!Init
  BY DEF Init
<1>2. IInv /\ [Next]_vars => [Dispatcher!Next]_irqVars
  BY DispatcherStep
<1> QED BY Invariance, <1>1, <1>2, PTL DEF Spec

(* What is proved of the promise holds of the driver: no modifier outlives its  *)
(* keys ...                                                                     *)
THEOREM NothingStuck == Spec => [](held = {} /\ frames = <<>> => mods = {})
<1>1. ImplementsKeyboard => KP!Spec
  <2>1. Promise!Init => KP!Init
    BY SameKeyboard
  <2>2. [Promise!Next]_(Promise!vars) => [KP!Next]_(KP!vars)
    BY SameKeyboard DEF Promise!vars, KP!vars
  <2> QED BY <2>1, <2>2, PTL DEF ImplementsKeyboard, Promise!Spec, KP!Spec
<1>2. KP!Spec => []KP!NoStuckModifier
  BY SameKeyboard, KP!NothingStuck
<1>3. KP!NoStuckModifier => (held = {} /\ frames = <<>> => mods = {})
  BY DEF KP!NoStuckModifier
<1> QED BY KeyboardPromise, <1>1, <1>2, <1>3, PTL

(* ... and what is proved of the interrupt path: nothing is left in service     *)
(* while the interrupted program runs.                                          *)
THEOREM NothingOrphaned == Spec => []Dispatcher!NoOrphanInService
<1>1. IInv => Dispatcher!NoOrphanInService
  BY DEF IInv, DP!IInv, Dispatcher!NoOrphanInService, DP!NoOrphanInService,
         Dispatcher!Unretired, DP!Unretired, Dispatcher!FrameBits, DP!FrameBits,
         Dispatcher!ServiceBits, DP!ServiceBits, Dispatcher!Irq, DP!Irq,
         Dispatcher!Vector, DP!Vector, Dispatcher!SlaveIrq, DP!SlaveIrq,
         Dispatcher!SlaveBase, DP!SlaveBase, Dispatcher!MasterBase, DP!MasterBase,
         Dispatcher!Cascade, DP!Cascade
<1> QED BY Invariance, <1>1, PTL
================================================================================
