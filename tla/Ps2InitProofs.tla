----------------------------- MODULE Ps2InitProofs -----------------------------
(* Proofs about Ps2Init, for any keys pressed at any time, on every machine.    *)
EXTENDS Ps2Init, TLAPS

(* OnlyKeyboardInterrupts is not inductive: it says nothing of config before    *)
(* the byte is written.  The interrupts of both ports are set in what was read  *)
(* for the configuration, whatever it was, and no answer read on the way to the *)
(* last writing of the byte is taken for it; then the bits of the mouse's       *)
(* interrupt and of the translation are cleared, and no command that follows    *)
(* changes them.                                                                *)
KeyboardChosen ==
    line \in {168, 172, 173, 177, 178, 189, 190, 194, 195, 197, 200, 202, 206, 222, 237, 239}
        => 0 \in config

ToBeWritten == line = 250 => 0 \in config /\ config \cap {1, 6} = {}

Written == line \in {253, 255, Return} => 0 \in ccb /\ ccb \cap {1, 6} = {}

IInv == KeyboardChosen /\ ToBeWritten /\ Written

(* What a device answers is a sequence of bytes.                                *)
LEMMA AnswerType ==
    ASSUME TypeOK, NEW d \in Devices, NEW n
    PROVE  Answer(d, n) \in Seq(Byte)
<1>1. machine[d] \in {"works", "silent", "refuses", "ignores"}
  <2>1. machine \in MachineType
    BY Ps2InitAssumption DEF TypeOK
  <2> QED BY <2>1 DEF MachineType, Devices
<1>2. RESEND \in Byte /\ ACK \in Byte /\ KEYBOARD \in Byte /\ Bits(\hAA) \in Byte
      /\ Bits(\h83) \in Byte /\ {} \in Byte
  BY DEF RESEND, ACK, KEYBOARD, Bits, Byte
<1>3. <<RESEND>> \in Seq(Byte) /\ <<>> \in Seq(Byte) /\ <<ACK>> \in Seq(Byte)
  BY <1>2
<1>4. <<ACK, Bits(\hAA)>> \in Seq(Byte)
  BY <1>2
<1>5. <<ACK, Bits(\hAA), {}>> \in Seq(Byte) /\ <<ACK, KEYBOARD, Bits(\h83)>> \in Seq(Byte)
  BY <1>2
<1> QED BY <1>1, <1>3, <1>4, <1>5 DEF Answer, Devices

(* What the controller's reply leaves in the buffer.                            *)
LEMMA RepliedType ==
    ASSUME TypeOK, NEW r \in Seq(Byte), Replied(r)
    PROVE  out' \in Seq(Byte)
<1>1. out \in Seq(Byte) /\ out \o r \in Seq(Byte)
  BY DEF TypeOK
<1> QED BY <1>1 DEF Replied

(* What the driver takes out of the buffer is a byte, and bytes stay.           *)
LEMMA TakenType ==
    ASSUME TypeOK, out # <<>>
    PROVE  data \in Byte /\ Tail(out) \in Seq(Byte)
<1>1. out \in Seq(Byte)
  BY DEF TypeOK
<1>2. Head(out) \in Byte /\ Tail(out) \in Seq(Byte)
  BY <1>1
<1> QED BY <1>2 DEF data

(* The steps of the devices keep the types.                                     *)
LEMMA DevicesType ==
    ASSUME TypeOK,
           \/ \E d \in Devices : Deliver(d)
           \/ \E b \in KeyBytes : Type(b)
           \/ Take
    PROVE  TypeOK'
<1>1. ASSUME NEW d \in Devices, Deliver(d)
      PROVE  TypeOK'
  <2>1. unsent[d] \in Seq(Byte) /\ unsent[d] # <<>>
    BY <1>1 DEF TypeOK, Deliver, CanDeliver
  <2>2. Head(unsent[d]) \in Byte /\ Tail(unsent[d]) \in Seq(Byte)
    BY <2>1
  <2>3. Translated(Head(unsent[d])) \in Byte
    BY <2>2 DEF Translated, Bits, Byte
  <2>4. out' \in Seq(Byte)
    <3> DEFINE b == IF d = "keyboard" THEN Translated(Head(unsent[d])) ELSE Head(unsent[d])
    <3>1. b \in Byte
      BY <2>2, <2>3
    <3>2. out' = <<b>>
      BY <1>1 DEF Deliver
    <3> HIDE DEF b
    <3> QED BY <3>1, <3>2
  <2>5. unsent' \in [Devices -> Seq(Byte)]
    BY <1>1, <2>2 DEF TypeOK, Deliver
  <2> QED BY <1>1, <2>4, <2>5 DEF TypeOK, Deliver, driver
<1>2. ASSUME NEW b \in KeyBytes, Type(b)
      PROVE  TypeOK'
  <2>1. b \in Byte
    BY Ps2InitAssumption
  <2>2. "keyboard" \in Devices /\ unsent["keyboard"] \in Seq(Byte)
    BY DEF TypeOK, Devices
  <2>3. Append(unsent["keyboard"], b) \in Seq(Byte)
    BY <2>1, <2>2
  <2>4. unsent' \in [Devices -> Seq(Byte)]
    BY <1>2, <2>3 DEF TypeOK, Type
  <2>5. typed' \in 0 .. MaxKeys
    BY <1>2, Ps2InitAssumption DEF TypeOK, Type
  <2> QED BY <1>2, <2>4, <2>5 DEF TypeOK, Type, driver
<1>3. CASE Take
  <2>1. reply \in Seq(Byte) /\ <<>> \in Seq(Byte)
    BY DEF TypeOK
  <2>2. out' \in Seq(Byte) /\ reply' \in Seq(Byte)
    BY <1>3, <2>1, RepliedType DEF Take
  <2> QED BY <1>3, <2>2 DEF TypeOK, Take, driver
<1> QED BY <1>1, <1>2, <1>3

(* What a command leaves in the controller, and what a written byte leaves      *)
(* there and in the device.                                                     *)
LEMMA ExecuteType ==
    ASSUME TypeOK, NEW n \in {\h20, \hA7, \hA9, \hAA, \hAB}, Execute(n)
    PROVE  ccb' \in Byte /\ out' \in Seq(Byte) /\ reply' \in Seq(Byte) /\ busy' \in BOOLEAN
<1>1. ccb \in Byte /\ out \in Seq(Byte) /\ reply \in Seq(Byte)
  BY DEF TypeOK
<1>2. ccb' \in Byte
  BY <1>1 DEF Execute, Byte
<1>3. Reply(n) \in {<<ccb>>, <<Bits(\h55)>>, <<{}>>, <<>>}
  BY DEF Reply
<1>4. Bits(\h55) \in Byte /\ {} \in Byte
  BY DEF Bits, Byte
<1>5. <<ccb>> \in Seq(Byte) /\ <<Bits(\h55)>> \in Seq(Byte) /\ <<{}>> \in Seq(Byte)
      /\ <<>> \in Seq(Byte)
  BY <1>1, <1>4
<1>7. Reply(n) \in Seq(Byte)
  BY <1>3, <1>5, Zenon
<1>6. Replied(Reply(n)) => out' \in Seq(Byte)
  BY <1>7, RepliedType
<1>8. Slow \in BOOLEAN
  BY DEF Slow
<1> QED BY <1>1, <1>2, <1>6, <1>7, <1>8 DEF Execute

LEMMA ReceiveType ==
    ASSUME TypeOK, NEW d \in Devices, NEW n, Receive(d, n)
    PROVE  /\ ccb' \in Byte /\ unsent' \in [Devices -> Seq(Byte)]
           /\ scanning' \in BOOLEAN /\ busy' \in BOOLEAN
<1> DEFINE kept == IF n \in {\hFF, \hF5} THEN <<>> ELSE unsent[d]
<1>1. ccb' \in Byte
  BY DEF TypeOK, Receive, Byte
<1>2. kept \in Seq(Byte)
  BY DEF TypeOK
<1>3. Answer(d, n) \in Seq(Byte)
  BY AnswerType
<1>4. kept \o Answer(d, n) \in Seq(Byte)
  BY <1>2, <1>3
<1>5. unsent' = [unsent EXCEPT ![d] = kept \o Answer(d, n)]
  BY DEF Receive
<1>6. unsent' \in [Devices -> Seq(Byte)]
  BY <1>4, <1>5 DEF TypeOK
<1>7. scanning' \in BOOLEAN /\ busy' \in BOOLEAN
  BY DEF TypeOK, Receive, Slow
<1> QED BY <1>1, <1>6, <1>7

(* Each kind of step of the driver keeps the types.                             *)
LEMMA CommandType ==
    ASSUME TypeOK, NEW here, NEW next, NEW n \in {\h20, \hA7, \hA9, \hAA, \hAB},
           Command(here, n, next)
    PROVE  TypeOK'
<1>1. CASE busy
  BY <1>1 DEF TypeOK, Command, hardware
<1>2. CASE ~ busy
  <2>1. Execute(n)
    BY <1>2 DEF Command
  <2>2. ccb' \in Byte /\ out' \in Seq(Byte) /\ reply' \in Seq(Byte) /\ busy' \in BOOLEAN
    BY <2>1, ExecuteType
  <2> QED BY <2>1, <2>2 DEF TypeOK, Command, Execute
<1> QED BY <1>1, <1>2

(* A byte that goes astray.                                                     *)
LEMMA AstrayType ==
    ASSUME TypeOK, NEW n, Astray(n), UNCHANGED <<config, num_ports, retries, device>>
    PROVE  TypeOK'
<1>1. reply \in Seq(Byte) /\ <<>> \in Seq(Byte) /\ "keyboard" \in Devices
  BY DEF TypeOK, Devices
<1>2. out' \in Seq(Byte) /\ reply' \in Seq(Byte)
  BY <1>1, RepliedType DEF Astray
<1>3. Receive("keyboard", n)
  BY DEF Astray
<1>4. /\ ccb' \in Byte /\ unsent' \in [Devices -> Seq(Byte)]
      /\ scanning' \in BOOLEAN /\ busy' \in BOOLEAN
  BY <1>1, <1>3, ReceiveType
<1> QED BY <1>2, <1>3, <1>4 DEF TypeOK, Receive

LEMMA WriteType ==
    ASSUME TypeOK, NEW here, NEW next, NEW port, NEW n, ps2_write(here, port, n, next)
    PROVE  TypeOK'
<1> DEFINE d == IF port = 2 THEN "mouse" ELSE "keyboard"
<1>1. d \in Devices
  BY DEF Devices
<1>2. CASE Receive(d, n) /\ UNCHANGED <<out, reply>>
  <2> HIDE DEF d
  <2>1. /\ ccb' \in Byte /\ unsent' \in [Devices -> Seq(Byte)]
        /\ scanning' \in BOOLEAN /\ busy' \in BOOLEAN
    BY <1>1, <1>2, ReceiveType
  <2> QED BY <1>2, <2>1 DEF TypeOK, ps2_write, Receive
<1>3. CASE Astray(n)
  BY <1>3, AstrayType DEF ps2_write
<1> QED BY <1>2, <1>3 DEF ps2_write

LEMMA WriteConfigType ==
    ASSUME TypeOK, NEW here, NEW next, WriteConfig(here, next)
    PROVE  TypeOK'
BY DEF TypeOK, WriteConfig, Slow

LEMMA MissConfigType ==
    ASSUME TypeOK, NEW here, NEW next, MissConfig(here, next)
    PROVE  TypeOK'
BY AstrayType DEF MissConfig

LEMMA ReadType ==
    ASSUME TypeOK, NEW here, NEW next, ps2_read(here, next),
           config' \in Byte, num_ports' \in {1, 2}, retries' \in 0 .. 2,
           device' \in 0 .. Unknown
    PROVE  TypeOK'
<1>1. out' \in Seq(Byte)
  BY TakenType DEF ps2_read
<1> QED BY <1>1 DEF TypeOK, ps2_read

LEMMA ReadsType ==
    ASSUME TypeOK, NEW here, NEW next, NEW value,
           data \in Byte => value \in Byte,
           \/ Read(here, next)
           \/ ReadConfig(here, next, value)
           \/ DetectChannels(here, next, value)
           \/ Identify(here, next)
    PROVE  TypeOK'
<1>1. ps2_read(here, next) /\ out # <<>>
  BY DEF Read, ReadConfig, DetectChannels, Identify, ps2_read
<1>2. value \in Byte
  BY <1>1, TakenType
<1>3. Named(here) \in 0 .. Unknown
  BY DEF Named, Unknown
<1>4. config \in Byte /\ num_ports \in {1, 2} /\ retries \in 0 .. 2 /\ device \in 0 .. Unknown
  BY DEF TypeOK
<1>5. /\ config' \in Byte
      /\ num_ports' \in {1, 2}
      /\ retries' \in 0 .. 2
      /\ device' \in 0 .. Unknown
  BY <1>2, <1>3, <1>4 DEF Read, ReadConfig, DetectChannels, Identify
<1> QED BY <1>1, <1>5, ReadType

(* Every step of ps2_init keeps the types.                                      *)
LEMMA InitStepsType ==
    ASSUME TypeOK, ps2_init
    PROVE  TypeOK'
<1> USE CommandType, WriteType, WriteConfigType, MissConfigType, ReadsType
<1>1. CASE Configure
  <2>1. data \in Byte => data \cap (0 .. 5) \in Byte
    BY DEF Byte
  <2>2. CASE Flush
    <3>1. out' \in Seq(Byte)
      BY <2>2, TakenType DEF Flush, TypeOK
    <3> QED BY <2>2, <3>1 DEF Flush, TypeOK
  <2> QED BY <1>1, <2>1, <2>2 DEF Configure
<1>2. CASE SelfTest
  BY <1>2 DEF SelfTest
<1>3. CASE PortTests
  BY <1>3 DEF PortTests
<1>4. CASE EnableDevices
  <2>1. data \in Byte => data \cup {0, 1} \in Byte
    BY DEF Byte
  <2> QED BY <1>4, <2>1 DEF EnableDevices
<1>5. CASE ResetDevices
  <2> DEFINE next == IF ResetAnswered THEN WithTwo(189, 194) ELSE 178
  <2>1. ASSUME ps2_read(178, next),
               retries' = IF ResetAnswered THEN retries ELSE retries + 1,
               UNCHANGED <<config, num_ports, device>>
        PROVE  TypeOK'
    <3>1. retries' \in 0 .. 2
      BY <2>1 DEF TypeOK, ResetAnswered
    <3> HIDE DEF next
    <3> QED BY <2>1, <3>1, ReadType DEF TypeOK
  <2> QED BY <1>5, <2>1 DEF ResetDevices
<1>6. CASE DetectType
  BY <1>6 DEF DetectType
<1>7. CASE StartScanning
  <2>1. config \cap FinalBits \in Byte
    BY DEF TypeOK, Byte
  <2> QED BY <1>7, <2>1 DEF StartScanning
<1> QED BY <1>1, <1>2, <1>3, <1>4, <1>5, <1>6, <1>7 DEF ps2_init

(* The types hold at first.                                                     *)
LEMMA InitType ==
    ASSUME Init
    PROVE  TypeOK
<1>1. ccb \in Byte
  <2>1. PICK b \in SUBSET (4 .. 6) : ccb = {0, 2} \cup b
    BY DEF Init
  <2> QED BY <2>1 DEF Byte
<1>2. config \in Byte
  BY DEF Init, Byte
<1>3. <<>> \in Seq(Byte)
  OBVIOUS
<1>4. {out, reply} \subseteq Seq(Byte) /\ unsent \in [Devices -> Seq(Byte)]
  BY <1>3 DEF Init
<1>5. machine \in Machines /\ busy \in BOOLEAN /\ scanning \in BOOLEAN
  BY DEF Init
<1>6. typed \in 0 .. MaxKeys /\ num_ports \in {1, 2} /\ retries \in 0 .. 2 /\ device \in 0 .. Unknown
  BY Ps2InitAssumption DEF Init, Unknown
<1> QED BY <1>1, <1>2, <1>4, <1>5, <1>6 DEF TypeOK

(* Every step keeps the types.                                                  *)
LEMMA NextType ==
    ASSUME TypeOK, [Next]_vars
    PROVE  TypeOK'
<1>1. CASE UNCHANGED vars
  BY <1>1 DEF TypeOK, vars, hardware, driver
<1>2. CASE Next
  BY <1>2, DevicesType, InitStepsType DEF Next
<1> QED BY <1>1, <1>2

(* Ps2Init!TypeOK: the configuration byte, the buffer, what the devices have to *)
(* send and ps2_init's variables have the values they are declared for.         *)
THEOREM TypeCorrect == Spec => []TypeOK
<1>1. Init => TypeOK
  BY InitType
<1>2. TypeOK /\ [Next]_vars => TypeOK'
  BY NextType
<1> QED BY <1>1, <1>2, PTL DEF Spec

(* What the hardware does meanwhile: it may stop nothing and enable nothing.    *)
LEMMA DevicesLeaveChoice ==
    ASSUME IInv,
           \/ \E d \in Devices : Deliver(d)
           \/ \E b \in KeyBytes : Type(b)
           \/ Take
    PROVE  IInv'
<1>1. UNCHANGED <<ccb, config, line>>
  BY DEF Deliver, Type, Take, driver
<1> QED BY <1>1 DEF IInv, KeyboardChosen, ToBeWritten, Written

(* The steps of the driver.  Up to the tests of the ports the invariant says    *)
(* nothing of the line that comes next.                                         *)
LEMMA InitStepsKeepChoice ==
    ASSUME IInv, ps2_init
    PROVE  IInv'
<1>1. CASE Configure \/ SelfTest \/ PortTests
  <2>1. CASE Configure
    <3>1. line' \in {56, 58, 64, 65, 90, 114}
      BY <2>1 DEF Configure, ps2_write, Flush, Command, DetectChannels, WriteConfig, ps2_read, Step
    <3> QED BY <3>1 DEF IInv, KeyboardChosen, ToBeWritten, Written, Return
  <2>2. CASE SelfTest
    <3>1. line' \in {118, 124, 125, 137, 139, 140, 146, 151}
      BY <2>2
      DEF SelfTest, ps2_write, Command, DetectChannels, Read, ReadConfig, ps2_read, Step, WithTwo
    <3> QED BY <3>1 DEF IInv, KeyboardChosen, ToBeWritten, Written, Return
  <2>3. CASE PortTests
    <3>1. line' \in {152, 158, 159, 165}
      BY <2>3 DEF PortTests, Command, Read, ps2_read, Step, WithTwo, Port2Test
    <3> QED BY <3>1 DEF IInv, KeyboardChosen, ToBeWritten, Written, Return
  <2> QED BY <1>1, <2>1, <2>2, <2>3
<1> USE DEF IInv, KeyboardChosen, ToBeWritten, Written, Step, Return
<1>2. CASE EnableDevices
  <2>1. CASE Command(165, \h20, 166)
    BY <2>1 DEF Command
  <2>2. CASE ReadConfig(166, 168, data \cup {0, 1})
    BY <2>2 DEF ReadConfig, ps2_read
  <2>3. CASE WriteConfig(168, 172)
    BY <2>3 DEF WriteConfig
  <2>4. CASE ps2_write(172, 1, \hAE, WithTwo(173, 177))
    BY <2>4 DEF ps2_write, WithTwo
  <2>5. CASE ps2_write(173, 2, \hA8, 177)
    BY <2>5 DEF ps2_write
  <2>6. CASE MissConfig(168, 172)
    BY <2>6 DEF MissConfig
  <2> QED BY <1>2, <2>1, <2>2, <2>3, <2>4, <2>5, <2>6 DEF EnableDevices
<1>3. CASE ResetDevices
  BY <1>3 DEF ResetDevices, ps2_write, Read, ps2_read, WithTwo
<1>4. CASE DetectType
  BY <1>4 DEF DetectType, ps2_write, Read, Identify, ps2_read, SecondAnswer
<1>5. CASE StartScanning
  <2>1. CASE ps2_write(237, 1, \hF4, 239)
    BY <2>1 DEF ps2_write
  <2>2. CASE ReadConfig(239, 250, config \cap FinalBits)
    BY <2>2 DEF ReadConfig, ps2_read, FinalBits
  <2>3. CASE WriteConfig(250, 253)
    BY <2>3 DEF WriteConfig
  <2>4. CASE Command(253, \h20, 255)
    <3>1. ccb' = ccb
      BY <2>4 DEF Command, Execute, hardware
    <3> QED BY <2>4, <3>1 DEF Command
  <2>5. CASE ReadConfig(255, Return, data)
    BY <2>5 DEF ReadConfig, ps2_read
  <2> QED BY <1>5, <2>1, <2>2, <2>3, <2>4, <2>5 DEF StartScanning
<1> QED BY <1>1, <1>2, <1>3, <1>4, <1>5 DEF ps2_init

(* OnlyKeyboardInterrupts: when ps2_init returns, the controller interrupts for *)
(* the keyboard and not for the mouse, and does not translate, whatever bytes   *)
(* were taken for the configuration on the way, on every machine.               *)
THEOREM InterruptsRight == Spec => []OnlyKeyboardInterrupts
<1>1. Init => IInv
  BY DEF Init, IInv, KeyboardChosen, ToBeWritten, Written, Return
<1>2. IInv /\ [Next]_vars => IInv'
  <2>1. IInv /\ UNCHANGED vars => IInv'
    BY DEF IInv, KeyboardChosen, ToBeWritten, Written, vars, hardware, driver
  <2> QED BY <2>1, DevicesLeaveChoice, InitStepsKeepChoice DEF Next
<1>3. IInv => OnlyKeyboardInterrupts
  BY DEF IInv, Written, OnlyKeyboardInterrupts
<1> QED BY <1>1, <1>2, <1>3, PTL DEF Spec
--------------------------------------------------------------------------------
(* KeyboardLeftOn and InStepAtReturn are about behaviours in which the devices  *)
(* answer promptly, the keyboard works and nobody types.                        *)
Quiet == machine.keyboard = "works" /\ ~ machine.late /\ typed = 0

(* The controller is then never busy: it obeys a command and passes on a byte   *)
(* at once, so no command is lost and no byte goes astray.                      *)
Prompt == ~ machine.late => ~ busy

PromptCommand(here, n, next) ==
    /\ Step(here, next)
    /\ Replied(Reply(n))
    /\ ccb' = IF n = \hA7 THEN ccb \cup {5} ELSE ccb
    /\ UNCHANGED <<machine, unsent, scanning, typed>>
    /\ UNCHANGED <<config, num_ports, retries, device>>

PromptWrite(here, port, n, next) ==
    /\ Step(here, next)
    /\ Receive(IF port = 2 THEN "mouse" ELSE "keyboard", n)
    /\ UNCHANGED <<out, config, num_ports, retries, device>>

(* A byte without the bits that stop the keyboard's clock and have its bytes    *)
(* translated.                                                                  *)
Plain(b) == b \cap {4, 6} = {}

Silent == \A d \in Devices : unsent[d] = <<>>

(* Up to line 172 every step finds its answer; only the mouse's resend, which   *)
(* may answer line 137, can put the driver a byte behind, and what it then      *)
(* reads is an answer of the controller all the same.                           *)
Behind(n) == Len(out) <= n /\ \A k \in 1 .. Len(out) : Plain(out[k])

Preparing ==
    /\ line \in {55, 56, 58} => unsent["mouse"] = <<>> /\ (line # 55 => 4 \notin ccb)
    /\ line = 64 => Silent /\ out = <<>> /\ 4 \notin ccb
    /\ line = 65 => Silent /\ out = <<ccb>> /\ 4 \notin ccb
    /\ line = 90 => Silent /\ out = <<>> /\ Plain(config)
    /\ line \in {114, 124, 137} => Silent /\ out = <<>> /\ Plain(ccb)
    /\ line = 118 => Silent /\ out = <<ccb>> /\ Plain(ccb)
    /\ line = 125 => Silent /\ out = <<Bits(\h55)>> /\ Plain(ccb)
    /\ line = 139 =>
        /\ unsent["keyboard"] = <<>> /\ Plain(ccb) /\ 5 \notin ccb
        /\ \/ out = <<>> /\ unsent["mouse"] \in {<<>>, <<RESEND>>}
           \/ out = <<RESEND>> /\ unsent["mouse"] = <<>>
    /\ line = 140 =>
        /\ Silent /\ Plain(ccb) /\ 5 \notin ccb
        /\ out \in {<<ccb>>, <<RESEND>>, <<RESEND, ccb>>}
    /\ line \in {146, 151, 158, 165, 172} => Silent /\ Plain(ccb) /\ Behind(1)
    /\ line \in {152, 159, 166} => Silent /\ Plain(ccb) /\ Behind(2)
    /\ line = 168 => Silent /\ Plain(config) /\ Behind(1)

(* From there on, what is left of the configuration has the clock run.          *)
ClockRuns ==
    /\ line \in {168, 172, 173, 177, 178, 189, 190, 194, 195, 197, 200, 202, 206, 222, 237, 239, 250}
        => 4 \notin config
    /\ line \in {253, 255, Return} => 4 \notin ccb

(* The answers still to be read, if one channel is in use: the resend to line   *)
(* 172, or a byte the driver is behind, is taken for the first answer to the    *)
(* reset; the reset has made the keyboard forget the rest.                      *)
Flow == out \o unsent["keyboard"]

Answering ==
    /\ line \notin {173, 189, 190, 206}
    /\ line \in {177, 178, 194, 195, 197, 200, 202, 222, 237, 239, 250, 253, 255, Return}
        => unsent["mouse"] = <<>>
    /\ line \in {177, 178, 194, 195, 197, 200, 202, 222, 237, 239} => Plain(ccb)
    /\ line = 177 =>
        \/ out = <<>> /\ unsent["keyboard"] = <<RESEND>>
        \/ out # <<>> /\ Len(out) = 1 /\ data # ACK
    /\ line = 178 =>
        \/ retries = 0 /\ Len(out) = 1 /\ data # ACK /\ unsent["keyboard"] = <<ACK, Bits(\hAA)>>
        \/ retries = 1 /\ Flow = <<ACK, Bits(\hAA)>>
    /\ line = 194 => Flow = <<Bits(\hAA)>>
    /\ line = 195 => Flow \in {<<Bits(\hAA), ACK>>, <<ACK>>}
    /\ line \in {197, 237, 250, 253, Return} => Flow = <<>>
    /\ line = 200 => Flow = <<ACK, KEYBOARD, Bits(\h83)>>
    /\ line = 202 => Flow = <<KEYBOARD, Bits(\h83)>>
    /\ line = 222 => Flow = <<Bits(\h83)>>
    /\ line = 239 => Flow = <<ACK>>
    /\ line = 255 => out = <<ccb>> /\ unsent["keyboard"] = <<>>
    /\ line \in {237, 239, 250, 253, 255, Return} => device = 4

Untried ==
    line \in {55, 56, 58, 64, 65, 90, 114, 118, 124, 125, 137, 139, 140, 146, 151, 152,
              158, 159, 165, 166, 168, 172, 173, 177} => retries = 0

Scans == line \in {239, 250, 253, 255, Return} => scanning

QuietInv == Quiet => Preparing /\ ClockRuns /\ (num_ports = 1 => Answering)

(* The answers the driver tells apart.                                          *)
LEMMA BytesAre ==
    /\ 4 \in ACK /\ 5 \in RESEND
    /\ ACK # RESEND /\ ACK # Bits(\hAA) /\ RESEND # Bits(\h55)
    /\ Bits(\h83) \notin {{}, Bits(\h41), Bits(\hC1)}
    /\ {ACK, RESEND, KEYBOARD, Bits(\h55), Bits(\hAA), Bits(\h83), {}} \subseteq Byte
<1>1. 4 \in ACK /\ 2 \notin ACK
  BY DEF ACK, Bits
<1>2. 5 \in RESEND /\ 2 \in RESEND /\ 1 \in RESEND
  BY DEF RESEND, Bits
<1>3. 4 \notin Bits(\hAA) /\ 1 \notin Bits(\h55)
  BY DEF Bits
<1>4. 7 \in Bits(\h83) /\ 7 \notin Bits(\h41) /\ 6 \in Bits(\hC1) /\ 6 \notin Bits(\h83)
  BY DEF Bits
<1>5. {ACK, RESEND, KEYBOARD, Bits(\h55), Bits(\hAA), Bits(\h83), {}} \subseteq Byte
  BY DEF ACK, RESEND, KEYBOARD, Bits, Byte
<1> QED BY <1>1, <1>2, <1>3, <1>4, <1>5

(* What the driver takes from the flow, and what is added to it.                *)
LEMMA FlowRead ==
    ASSUME TypeOK, out # <<>>, out' = Tail(out), UNCHANGED unsent
    PROVE  data = Head(Flow) /\ Flow' = Tail(Flow) /\ Flow # <<>> /\ Flow \in Seq(Byte)
<1> DEFINE u == unsent["keyboard"]
<1>1. out \in Seq(Byte) /\ u \in Seq(Byte)
  BY DEF TypeOK, Devices
<1>2. Flow = out \o u /\ Flow' = Tail(out) \o u
  BY DEF Flow
<1> HIDE DEF u
<1>3. Head(out \o u) = Head(out) /\ out \o u # <<>> /\ out \o u \in Seq(Byte)
  BY <1>1
<1>4. Tail(out \o u) = Tail(out) \o u
  <2>1. Len(Tail(out \o u)) = Len(Tail(out) \o u)
    BY <1>1
  <2>2. ASSUME NEW k \in 1 .. Len(Tail(out \o u))
        PROVE  Tail(out \o u)[k] = (Tail(out) \o u)[k]
    BY <1>1
  <2>3. Tail(out \o u) \in Seq(Byte) /\ Tail(out) \o u \in Seq(Byte)
    BY <1>1
  <2> QED BY <2>1, <2>2, <2>3
<1> QED BY <1>2, <1>3, <1>4 DEF data

(* What the driver does changes neither the machine nor what is typed, and      *)
(* leaves the controller busy only if it is slow.                               *)
LEMMA DriverLeaves ==
    ASSUME ps2_init
    PROVE  UNCHANGED <<machine, typed>> /\ busy' \in {busy, Slow}
<1> DEFINE Left == UNCHANGED <<machine, typed>> /\ busy' \in {busy, Slow}
<1> SUFFICES Left
  OBVIOUS
<1>1. ASSUME NEW here, NEW next, NEW n, Command(here, n, next)
      PROVE  Left
  BY <1>1 DEF Command, Execute, hardware
<1>2. ASSUME NEW here, NEW port, NEW next, NEW n, ps2_write(here, port, n, next)
      PROVE  Left
  BY <1>2 DEF ps2_write, Astray, Receive
<1>3. ASSUME NEW here, NEW next, WriteConfig(here, next) \/ MissConfig(here, next)
      PROVE  Left
  BY <1>3 DEF WriteConfig, MissConfig, Astray, Receive
<1>4. ASSUME NEW here, NEW next, ps2_read(here, next)
      PROVE  Left
  BY <1>4 DEF ps2_read
<1>5. CASE Flush
  BY <1>5 DEF Flush
<1> HIDE DEF Left
<1>6. CASE Configure
  BY <1>1, <1>2, <1>3, <1>4, <1>5, <1>6 DEF Configure, DetectChannels
<1>7. CASE SelfTest
  BY <1>1, <1>2, <1>4, <1>7 DEF SelfTest, DetectChannels, Read, ReadConfig
<1>8. CASE PortTests
  BY <1>1, <1>4, <1>8 DEF PortTests, Read
<1>9. CASE EnableDevices
  BY <1>1, <1>2, <1>3, <1>4, <1>9 DEF EnableDevices, ReadConfig
<1>10. CASE ResetDevices
  BY <1>2, <1>4, <1>10 DEF ResetDevices, Read
<1>11. CASE DetectType
  BY <1>2, <1>4, <1>11 DEF DetectType, Read, Identify
<1>12. CASE StartScanning
  BY <1>1, <1>2, <1>3, <1>4, <1>12 DEF StartScanning, ReadConfig
<1> QED BY <1>6, <1>7, <1>8, <1>9, <1>10, <1>11, <1>12 DEF ps2_init

(* The controller is prompt on every step.                                      *)
LEMMA StaysPrompt ==
    ASSUME Prompt, [Next]_vars
    PROVE  Prompt'
<1> USE DEF Prompt
<1>1. CASE UNCHANGED vars
  BY <1>1 DEF vars, hardware
<1>2. CASE (\E d \in Devices : Deliver(d)) \/ (\E b \in KeyBytes : Type(b)) \/ Take
  BY <1>2 DEF Deliver, Type, Take
<1>3. CASE ps2_init
  BY <1>3, DriverLeaves DEF Slow
<1> QED BY <1>1, <1>2, <1>3 DEF Next

(* What the driver's outputs do then.                                           *)
LEMMA Prompts ==
    ASSUME Prompt, Quiet
    PROVE  /\ \A here, n, next : Command(here, n, next) => PromptCommand(here, n, next)
           /\ \A here, port, n, next :
                    ps2_write(here, port, n, next) => PromptWrite(here, port, n, next)
           /\ \A here, next : ~ MissConfig(here, next)
           /\ ~ Take
<1>1. ~ busy /\ ~ Slow
  BY DEF Prompt, Quiet, Slow
<1>2. ASSUME NEW here, NEW n, NEW next, Command(here, n, next)
      PROVE  PromptCommand(here, n, next)
  <2>1. Execute(n) /\ Step(here, next) /\ UNCHANGED <<config, num_ports, retries, device>>
    BY <1>1, <1>2 DEF Command
  <2> QED BY <1>1, <2>1 DEF Execute, PromptCommand
<1>3. ASSUME NEW here, NEW port, NEW n, NEW next, ps2_write(here, port, n, next)
      PROVE  PromptWrite(here, port, n, next)
  BY <1>1, <1>3 DEF ps2_write, Astray, PromptWrite
<1> QED BY <1>1, <1>2, <1>3 DEF MissConfig, Astray, Take

(* What the keyboard answers then.                                              *)
LEMMA KeyboardAnswers ==
    ASSUME Quiet
    PROVE  /\ Answer("keyboard", \hFF) = <<ACK, Bits(\hAA)>>
           /\ Answer("keyboard", \hF2) = <<ACK, KEYBOARD, Bits(\h83)>>
           /\ Answer("keyboard", \hF4) = <<ACK>>
           /\ Answer("keyboard", \hF5) = <<ACK>>
           /\ Answer("keyboard", \hAE) = <<RESEND>>
BY DEF Answer, Quiet

(* The mouse does not know 0xA8.                                                *)
LEMMA MouseIgnores ==
    ASSUME TypeOK
    PROVE  Answer("mouse", \hA8) \in {<<>>, <<RESEND>>}
<1>1. machine["mouse"] \in {"works", "silent", "ignores"}
  BY Ps2InitAssumption DEF TypeOK, MachineType
<1> QED BY <1>1 DEF Answer

(* A byte that is not translated goes from the keyboard to the buffer.          *)
LEMMA FlowDeliver ==
    ASSUME TypeOK, Deliver("keyboard"), Plain(ccb)
    PROVE  Flow' = Flow
<1> DEFINE u == unsent["keyboard"]
<1>1. u \in Seq(Byte) /\ u # <<>> /\ out = <<>>
  BY DEF TypeOK, Devices, Deliver, CanDeliver
<1>2. out' = <<Head(u)>> /\ unsent'["keyboard"] = Tail(u)
  BY DEF TypeOK, Devices, Deliver, Translated, Plain
<1>3. Flow = u /\ Flow' = <<Head(u)>> \o Tail(u)
  BY <1>1, <1>2 DEF Flow
<1> HIDE DEF u
<1>4. <<Head(u)>> \o Tail(u) = u
  BY <1>1
<1> QED BY <1>3, <1>4

(* What the keyboard answers comes last.                                        *)
LEMMA FlowWrite ==
    ASSUME TypeOK, NEW n, Receive("keyboard", n), out' = out, n \notin {\hFF, \hF5}
    PROVE  Flow' = Flow \o Answer("keyboard", n)
<1> DEFINE u == unsent["keyboard"] a == Answer("keyboard", n)
<1>1. out \in Seq(Byte) /\ u \in Seq(Byte) /\ a \in Seq(Byte)
  BY AnswerType DEF TypeOK, Devices
<1>2. Flow = out \o u /\ Flow' = out \o (u \o a)
  BY DEF Flow, Receive, TypeOK, Devices
<1> HIDE DEF u, a
<1>3. (out \o u) \o a = out \o (u \o a)
  BY <1>1
<1> QED BY <1>2, <1>3 DEF a

(* What the hardware does meanwhile.                                            *)
LEMMA DevicesQuiet ==
    ASSUME TypeOK, Prompt, QuietInv,
           \/ \E d \in Devices : Deliver(d)
           \/ \E b \in KeyBytes : Type(b)
           \/ Take
    PROVE  QuietInv'
<1>1. ASSUME NEW b \in KeyBytes, Type(b) PROVE ~ Quiet'
  BY <1>1 DEF Type, Quiet, TypeOK
<1>2. ASSUME NEW d \in Devices, Deliver(d), Quiet'
      PROVE  (Preparing /\ ClockRuns /\ (num_ports = 1 => Answering))'
  <2>1. /\ Preparing /\ ClockRuns /\ (num_ports = 1 => Answering)
        /\ UNCHANGED <<machine, ccb, scanning, typed, line, config, num_ports, retries, device>>
    BY <1>2 DEF QuietInv, Quiet, Deliver, driver
  <2>2. unsent[d] # <<>> /\ out = <<>> /\ ClockBit(d) \notin ccb
    BY <1>2 DEF Deliver, CanDeliver
  <2>3. unsent' = [unsent EXCEPT ![d] = Tail(@)] /\ unsent \in [Devices -> Seq(Byte)]
    BY <1>2 DEF Deliver, TypeOK
  <2>4. out' = <<IF d = "keyboard" THEN Translated(Head(unsent[d])) ELSE Head(unsent[d])>>
    BY <1>2 DEF Deliver
  <2>5. Preparing'
    <3>1. line \notin {64, 65, 90, 114, 118, 124, 125, 137, 140, 146, 151, 152, 158, 159,
                       165, 166, 168, 172}
      BY <2>1, <2>2 DEF Preparing, Silent
    <3>2. CASE line \in {55, 56, 58}
      <4>1. d = "keyboard"
        BY <2>1, <2>2, <3>2 DEF Preparing, Devices
      <4>2. unsent'["mouse"] = <<>>
        BY <2>1, <2>3, <3>2, <4>1 DEF Preparing, Devices
      <4> QED BY <2>1, <3>2, <4>2 DEF Preparing
    <3>3. CASE line = 139
      <4>1. d = "mouse" /\ unsent[d] = <<RESEND>>
        BY <2>1, <2>2, <3>3 DEF Preparing, Devices
      <4>2. out' = <<RESEND>> /\ unsent'["mouse"] = <<>> /\ unsent'["keyboard"] = <<>>
        BY <2>1, <2>3, <2>4, <3>3, <4>1 DEF Preparing, Devices
      <4> QED BY <2>1, <3>3, <4>2 DEF Preparing
    <3> QED BY <2>1, <3>1, <3>2, <3>3 DEF Preparing
  <2>6. ClockRuns'
    BY <2>1 DEF ClockRuns
  <2>7. ASSUME num_ports = 1,
               line \in {177, 178, 194, 195, 197, 200, 202, 222, 237, 239, 250, 253, 255, Return}
        PROVE  Answering'
    <3>1. Answering /\ d = "keyboard"
      BY <2>1, <2>2, <2>7 DEF Answering, Devices
    <3>2. unsent'["mouse"] = <<>>
      BY <2>3, <2>7, <3>1 DEF Answering, Devices
    <3>3. Flow = unsent["keyboard"] /\ Flow # <<>>
      BY <2>2, <2>3, <3>1 DEF Flow, Devices
    <3>4. line \notin {197, 237, 250, 253, 255, Return}
      BY <2>2, <3>1, <3>3 DEF Answering
    <3>5. Plain(ccb)
      BY <2>7, <3>1, <3>4 DEF Answering
    <3>6. Flow' = Flow
      BY <1>2, <3>1, <3>5, FlowDeliver
    <3>7. CASE line = 177
      <4>1. unsent["keyboard"] = <<RESEND>>
        BY <2>2, <3>1, <3>7 DEF Answering
      <4>2. Translated(RESEND) = RESEND
        BY <3>5 DEF Translated, Plain
      <4>3. out' = <<RESEND>>
        BY <2>4, <3>1, <4>1, <4>2
      <4>4. out' # <<>> /\ Len(out') = 1 /\ data' # ACK
        BY <4>3, BytesAre DEF data
      <4> QED BY <2>1, <3>1, <3>2, <3>5, <3>7, <4>4 DEF Answering, Plain, Return
    <3>8. CASE line = 178
      <4>1. retries = 1 /\ Flow = <<ACK, Bits(\hAA)>>
        BY <2>2, <3>1, <3>8 DEF Answering
      <4> QED BY <2>1, <3>1, <3>2, <3>5, <3>6, <3>8, <4>1 DEF Answering, Plain, Return
    <3>9. CASE line \in {194, 195, 200, 202, 222, 239}
      BY <2>1, <3>1, <3>2, <3>5, <3>6, <3>9 DEF Answering, Plain, Return
    <3> QED BY <2>7, <3>4, <3>7, <3>8, <3>9
  <2>8. ASSUME num_ports = 1,
               line \notin {177, 178, 194, 195, 197, 200, 202, 222, 237, 239, 250, 253, 255, Return}
        PROVE  Answering'
    BY <2>1, <2>8 DEF Answering
  <2> QED BY <2>1, <2>5, <2>6, <2>7, <2>8
<1>3. Take => ~ Quiet'
  BY Prompts DEF Take, Quiet
<1> QED BY <1>1, <1>2, <1>3 DEF QuietInv

(* One byte put before one or two others.                                       *)
LEMMA OneAndMore ==
    ASSUME NEW S, NEW a \in S
    PROVE  /\ \A b \in S : <<a>> \o <<b>> = <<a, b>>
           /\ \A b \in S, c \in S : <<a>> \o <<b, c>> = <<a, b, c>>
<1>1. ASSUME NEW b \in S PROVE <<a>> \o <<b>> = <<a, b>>
  <2> DEFINE s == <<a>> \o <<b>> t == <<a, b>>
  <2>1. s \in Seq(S) /\ t \in Seq(S) /\ Len(s) = 2 /\ Len(t) = 2
    OBVIOUS
  <2>2. s[1] = a /\ s[2] = b /\ t[1] = a /\ t[2] = b
    OBVIOUS
  <2>3. \A k \in 1 .. 2 : s[k] = t[k]
    BY <2>2
  <2> HIDE DEF s, t
  <2>4. s = t
    BY <2>1, <2>3
  <2> QED BY <2>4 DEF s, t
<1>2. ASSUME NEW b \in S, NEW c \in S PROVE <<a>> \o <<b, c>> = <<a, b, c>>
  <2> DEFINE s == <<a>> \o <<b, c>> t == <<a, b, c>>
  <2>1. s \in Seq(S) /\ t \in Seq(S) /\ Len(s) = 3 /\ Len(t) = 3
    OBVIOUS
  <2>2. s[1] = a /\ s[2] = b /\ s[3] = c /\ t[1] = a /\ t[2] = b /\ t[3] = c
    OBVIOUS
  <2>3. \A k \in 1 .. 3 : s[k] = t[k]
    BY <2>2
  <2> HIDE DEF s, t
  <2>4. s = t
    BY <2>1, <2>3
  <2> QED BY <2>4 DEF s, t
<1> QED BY <1>1, <1>2

(* A byte read while the driver may be behind, and a reply given then.          *)
LEMMA BehindRead ==
    ASSUME TypeOK, Behind(2), out # <<>>, out' = Tail(out)
    PROVE  Plain(data) /\ Behind(1)'
<1>1. out \in Seq(Byte)
  BY DEF TypeOK
<1>2. data = out[1] /\ 1 \in 1 .. Len(out)
  BY <1>1 DEF data
<1>3. /\ Len(out') = Len(out) - 1
      /\ \A k \in 1 .. Len(out') : out'[k] = out[k + 1] /\ k + 1 \in 1 .. Len(out)
  BY <1>1
<1> QED BY <1>2, <1>3 DEF Behind

(* A command given while the driver may be behind.                              *)
LEMMA BehindCommand ==
    ASSUME TypeOK, Behind(1), NEW n \in {\h20, \hA7, \hA9, \hAB}, Replied(Reply(n)), Plain(ccb)
    PROVE  Behind(2)' /\ (n = \hA7 => Behind(1)')
<1>1. out \in Seq(Byte) /\ ccb \in Byte /\ {} \in Byte /\ Plain({})
  BY BytesAre DEF TypeOK, Plain
<1>2. Reply(n) \in {<<>>, <<ccb>>, <<{}>>} /\ (n = \hA7 => Reply(n) = <<>>)
  BY DEF Reply
<1>3. out' \in {out, out \o Reply(n)}
  BY DEF Replied
<1>4. out \o <<>> = out
  BY <1>1
<1>5. ASSUME NEW b \in Byte, Plain(b), out' = out \o <<b>>
      PROVE  Behind(2)'
  <2>1. Len(out') = Len(out) + 1
    BY <1>1, <1>5
  <2>2. ASSUME NEW k \in 1 .. Len(out') PROVE Plain(out'[k])
    <3>1. out'[k] = IF k <= Len(out) THEN out[k] ELSE b
      BY <1>1, <1>5, <2>1
    <3>2. k <= Len(out) => k \in 1 .. Len(out)
      BY <1>1
    <3> QED BY <1>5, <3>1, <3>2 DEF Behind
  <2>3. Len(out') <= 2
    BY <1>1, <2>1 DEF Behind
  <2> QED BY <2>2, <2>3 DEF Behind
<1>6. ASSUME out' = out PROVE Behind(2)' /\ Behind(1)'
  <2>1. Len(out) \in Nat
    BY <1>1
  <2> QED BY <1>6, <2>1 DEF Behind
<1>7. CASE out' = out
  BY <1>6, <1>7
<1>8. CASE out' = out \o Reply(n)
  <2>1. CASE Reply(n) = <<>>
    BY <1>4, <1>6, <1>8, <2>1
  <2>2. CASE n # \hA7 /\ Reply(n) \in {<<ccb>>, <<{}>>}
    <3>1. CASE Reply(n) = <<ccb>>
      BY <1>1, <1>5, <1>8, <2>2, <3>1
    <3>2. CASE Reply(n) = <<{}>>
      BY <1>1, <1>5, <1>8, <2>2, <3>2
    <3> QED BY <2>2, <3>1, <3>2
  <2> QED BY <1>2, <2>1, <2>2
<1> QED BY <1>3, <1>7, <1>8

EarlyLines == {55, 56, 58, 64, 65, 90, 114, 118, 124, 125, 137, 139, 140, 146, 151, 152,
               158, 159, 165, 166}

(* At an early line, Preparing is all there is to show.                         *)
LEMMA EarlyEnough ==
    ASSUME line' \in EarlyLines, Preparing'
    PROVE  QuietInv'
<1>1. line' \notin {168, 172, 173, 177, 178, 189, 190, 194, 195, 197, 200, 202, 206, 222, 237,
                   239, 250, 253, 255, Return}
  BY DEF EarlyLines, Return
<1> QED BY <1>1 DEF QuietInv, ClockRuns, Answering

(* From line 173 on, ClockRuns and Answering are.                               *)
LEMMA LateEnough ==
    ASSUME line' \notin EarlyLines \cup {168, 172}, ClockRuns', num_ports' = 1 => Answering'
    PROVE  QuietInv'
<1>1. Preparing'
  BY DEF Preparing, EarlyLines
<1> QED BY <1>1 DEF QuietInv

(* The keyboard's clock is started and the buffer emptied; the configuration    *)
(* read is the controller's own, and written without translation.               *)
LEMMA ConfigureQuiet ==
    ASSUME TypeOK, Prompt, QuietInv, Quiet, Configure
    PROVE  QuietInv'
<1> USE DEF Devices
<1>1. Preparing /\ unsent \in [Devices -> Seq(Byte)] /\ out \in Seq(Byte)
  BY DEF QuietInv, TypeOK
<1>2. CASE PromptWrite(55, CMD_PORT, \hAD, 56)
  <2>1. line' = 56 /\ unsent'["mouse"] = <<>> /\ 4 \notin ccb'
    BY <1>1, <1>2 DEF PromptWrite, Step, Receive, CMD_PORT, ClockBit, Preparing
  <2> QED BY <2>1, EarlyEnough DEF EarlyLines, Preparing
<1>3. CASE PromptWrite(56, CMD_PORT, \hA7, 58)
  <2>1. line' = 58 /\ unsent'["mouse"] = <<>> /\ 4 \notin ccb'
    BY <1>1, <1>3 DEF PromptWrite, Step, Receive, CMD_PORT, ClockBit, Preparing
  <2> QED BY <2>1, EarlyEnough DEF EarlyLines, Preparing
<1>4. CASE Flush
  <2>1. /\ line = 58 /\ UNCHANGED <<unsent, ccb>> /\ unsent["mouse"] = <<>> /\ 4 \notin ccb
        /\ line' = (IF out = <<>> THEN 64 ELSE 58)
        /\ out = <<>> => out' = <<>> /\ ~ CanDeliver("keyboard")
    BY <1>1, <1>4 DEF Flush, Step, Preparing, Quiet
  <2>2. out = <<>> => unsent["keyboard"] = <<>>
    BY <2>1 DEF CanDeliver, ClockBit
  <2>3. CASE out = <<>>
    BY <2>1, <2>2, <2>3, EarlyEnough DEF EarlyLines, Preparing, Silent
  <2>4. CASE out # <<>>
    BY <2>1, <2>4, EarlyEnough DEF EarlyLines, Preparing
  <2> QED BY <2>3, <2>4
<1>5. CASE PromptCommand(64, \h20, 65)
  <2>1. line = 64 /\ line' = 65 /\ out' = out \o <<ccb>> /\ ccb' = ccb /\ unsent' = unsent
    BY <1>1, <1>5 DEF PromptCommand, Step, Replied, Reply, Preparing
  <2>2. Silent /\ out = <<>> /\ 4 \notin ccb
    BY <1>1, <2>1 DEF Preparing
  <2>3. out' = <<ccb>>
    BY <2>1, <2>2
  <2> QED BY <2>1, <2>2, <2>3, EarlyEnough DEF EarlyLines, Preparing, Silent
<1>6. CASE DetectChannels(65, 90, data \cap (0 .. 5))
  <2>1. /\ line = 65 /\ line' = 90 /\ out' = Tail(out) /\ config' = data \cap (0 .. 5)
        /\ unsent' = unsent
    BY <1>6 DEF DetectChannels, ps2_read, Step
  <2>2. Silent /\ out = <<ccb>> /\ 4 \notin ccb
    BY <1>1, <2>1 DEF Preparing
  <2>3. out' = <<>> /\ data = ccb
    BY <2>1, <2>2 DEF data
  <2>4. Plain(config')
    BY <2>1, <2>2, <2>3 DEF Plain
  <2> QED BY <2>1, <2>2, <2>3, <2>4, EarlyEnough DEF EarlyLines, Preparing, Silent
<1>7. CASE WriteConfig(90, 114)
  <2>1. line = 90 /\ line' = 114 /\ ccb' = config /\ UNCHANGED <<out, unsent>>
    BY <1>7 DEF WriteConfig, Step
  <2>2. Silent /\ out = <<>> /\ Plain(config)
    BY <1>1, <2>1 DEF Preparing
  <2> QED BY <2>1, <2>2, EarlyEnough DEF EarlyLines, Preparing, Silent
<1> QED BY <1>2, <1>3, <1>4, <1>5, <1>6, <1>7, Prompts DEF Configure

(* The self-test's answer is its own; line 137 may leave a resend unread, and   *)
(* what line 140 reads is then that or the configuration.                       *)
LEMMA SelfTestQuiet ==
    ASSUME TypeOK, Prompt, QuietInv, Quiet, SelfTest
    PROVE  QuietInv'
<1> USE DEF Devices
<1>1. Preparing /\ unsent \in [Devices -> Seq(Byte)] /\ out \in Seq(Byte) /\ ccb \in Byte
  BY DEF QuietInv, TypeOK
<1>2. CASE PromptCommand(114, \h20, 118)
  <2>1. line = 114 /\ line' = 118 /\ out' = out \o <<ccb>> /\ ccb' = ccb /\ unsent' = unsent
    BY <1>1, <1>2 DEF PromptCommand, Step, Replied, Reply, Preparing
  <2>2. Silent /\ out = <<>> /\ Plain(ccb)
    BY <1>1, <2>1 DEF Preparing
  <2>3. out' = <<ccb>>
    BY <2>1, <2>2
  <2> QED BY <2>1, <2>2, <2>3, EarlyEnough DEF EarlyLines, Preparing, Silent
<1>3. CASE ReadConfig(118, 124, data)
  <2>1. line = 118 /\ line' = 124 /\ out' = Tail(out) /\ UNCHANGED <<ccb, unsent>>
    BY <1>3 DEF ReadConfig, ps2_read, Step
  <2>2. Silent /\ out = <<ccb>> /\ Plain(ccb)
    BY <1>1, <2>1 DEF Preparing
  <2>3. out' = <<>>
    BY <2>1, <2>2
  <2> QED BY <2>1, <2>2, <2>3, EarlyEnough DEF EarlyLines, Preparing, Silent
<1>4. CASE PromptCommand(124, \hAA, 125)
  <2>1. line = 124 /\ line' = 125 /\ ccb' = ccb /\ unsent' = unsent
    BY <1>4 DEF PromptCommand, Step
  <2>2. Silent /\ out = <<>> /\ Plain(ccb)
    BY <1>1, <2>1 DEF Preparing
  <2>3. out' = out \o <<Bits(\h55)>>
    BY <1>4, <2>2 DEF PromptCommand, Replied, Reply
  <2>4. out' = <<Bits(\h55)>>
    BY <2>2, <2>3
  <2> QED BY <2>1, <2>2, <2>4, EarlyEnough DEF EarlyLines, Preparing, Silent
<1>5. CASE Read(125, IF data = RESEND THEN 125 ELSE WithTwo(137, 151))
  <2>1. /\ line = 125 /\ out' = Tail(out) /\ UNCHANGED <<ccb, unsent>>
        /\ line' = IF data = RESEND THEN 125 ELSE WithTwo(137, 151)
    BY <1>5 DEF Read, ps2_read, Step
  <2>2. Silent /\ out = <<Bits(\h55)>> /\ Plain(ccb)
    BY <1>1, <2>1 DEF Preparing
  <2>3. out' = <<>> /\ data # RESEND
    BY <2>1, <2>2, BytesAre DEF data
  <2>4. line' \in {137, 151}
    BY <2>1, <2>3 DEF WithTwo
  <2> QED BY <2>1, <2>2, <2>3, <2>4, EarlyEnough DEF EarlyLines, Preparing, Silent, Behind
<1>6. CASE PromptWrite(137, 2, \hA8, 139)
  <2>1. /\ line = 137 /\ line' = 139 /\ out' = out /\ ccb' = ccb \ {5}
        /\ unsent' = [unsent EXCEPT !["mouse"] = @ \o Answer("mouse", \hA8)]
    BY <1>6 DEF PromptWrite, Step, Receive, ClockBit
  <2>2. Silent /\ out = <<>> /\ Plain(ccb) /\ Answer("mouse", \hA8) \in {<<>>, <<RESEND>>}
    BY <1>1, <2>1, MouseIgnores DEF Preparing
  <2>3. unsent'["keyboard"] = <<>> /\ unsent'["mouse"] \in {<<>>, <<RESEND>>}
    <3>1. unsent["keyboard"] = <<>> /\ unsent["mouse"] = <<>>
      BY <2>2 DEF Silent
    <3>2. unsent'["keyboard"] = <<>> /\ unsent'["mouse"] = <<>> \o Answer("mouse", \hA8)
      BY <1>1, <2>1, <3>1
    <3>3. <<>> \o <<RESEND>> = <<RESEND>> /\ <<>> \o <<>> = <<>>
      BY BytesAre
    <3> QED BY <2>2, <3>2, <3>3
  <2>4. Plain(ccb') /\ 5 \notin ccb'
    BY <2>1, <2>2 DEF Plain
  <2> QED BY <2>1, <2>2, <2>3, <2>4, EarlyEnough DEF EarlyLines, Preparing
<1>7. CASE PromptCommand(139, \h20, 140)
  <2>1. /\ line = 139 /\ line' = 140 /\ ccb' = ccb /\ unsent' = unsent
        /\ out' = (IF out = <<>> \/ machine.queues THEN out \o <<ccb>> ELSE out)
        /\ ~ CanDeliver("mouse")
    BY <1>7 DEF PromptCommand, Step, Replied, Reply, Quiet
  <2>2. /\ unsent["keyboard"] = <<>> /\ Plain(ccb) /\ 5 \notin ccb
        /\ out \in {<<>>, <<RESEND>>} /\ (out # <<>> => unsent["mouse"] = <<>>)
    BY <1>1, <2>1 DEF Preparing
  <2>3. unsent["mouse"] = <<>>
    BY <2>1, <2>2 DEF CanDeliver, ClockBit
  <2>4. out' \in {<<ccb>>, <<RESEND>>, <<RESEND, ccb>>}
    <3>1. RESEND \in Byte
      BY BytesAre
    <3>2. <<RESEND>> \o <<ccb>> = <<RESEND, ccb>>
      BY <1>1, <3>1, OneAndMore
    <3>3. <<>> \o <<ccb>> = <<ccb>>
      BY <1>1
    <3> QED BY <2>1, <2>2, <3>2, <3>3
  <2> QED BY <2>1, <2>2, <2>3, <2>4, EarlyEnough DEF EarlyLines, Preparing, Silent
<1>8. CASE DetectChannels(140, IF 5 \in data THEN 146 ELSE 151, data)
  <2>1. /\ line = 140 /\ out' = Tail(out) /\ UNCHANGED <<ccb, unsent>>
        /\ line' = IF 5 \in data THEN 146 ELSE 151
    BY <1>8 DEF DetectChannels, ps2_read, Step
  <2>2. /\ Silent /\ Plain(ccb) /\ 5 \notin ccb
        /\ out \in {<<ccb>>, <<RESEND>>, <<RESEND, ccb>>}
    BY <1>1, <2>1 DEF Preparing
  <2>3. out' \in {<<>>, <<ccb>>}
    <3>1. RESEND \in Byte
      BY BytesAre
    <3>2. Tail(<<ccb>>) = <<>> /\ Tail(<<RESEND>>) = <<>> /\ Tail(<<RESEND, ccb>>) = <<ccb>>
      BY <1>1, <3>1
    <3> QED BY <2>1, <2>2, <3>2
  <2>4. Behind(1)'
    <3>1. CASE out' = <<>>
      BY <3>1 DEF Behind
    <3>2. CASE out' = <<ccb>>
      BY <2>2, <3>2 DEF Behind
    <3> QED BY <2>3, <3>1, <3>2
  <2> QED BY <2>1, <2>2, <2>4, EarlyEnough DEF EarlyLines, Preparing, Silent
<1>9. CASE PromptCommand(146, \hA7, 151)
  <2>1. /\ line = 146 /\ line' = 151 /\ Replied(Reply(\hA7)) /\ ccb' = ccb \cup {5} /\ unsent' = unsent
    BY <1>9 DEF PromptCommand, Step
  <2>2. Silent /\ Plain(ccb) /\ Behind(1)
    BY <1>1, <2>1 DEF Preparing
  <2>3. Behind(1)'
    BY <2>1, <2>2, BehindCommand
  <2>4. Plain(ccb')
    BY <2>1, <2>2 DEF Plain
  <2> QED BY <2>1, <2>2, <2>3, <2>4, EarlyEnough DEF EarlyLines, Preparing, Silent
<1> QED BY <1>2, <1>3, <1>4, <1>5, <1>6, <1>7, <1>8, <1>9, Prompts DEF SelfTest

(* A port test reads the byte left over or an answer, both plain.               *)
LEMMA PortTestsQuiet ==
    ASSUME TypeOK, Prompt, QuietInv, Quiet, PortTests
    PROVE  QuietInv'
<1>1. Preparing
  BY DEF QuietInv
<1>2. ASSUME NEW here \in {151, 158}, NEW next \in {152, 159}, NEW n \in {\hAB, \hA9},
             PromptCommand(here, n, next)
      PROVE  QuietInv'
  <2>1. line = here /\ line' = next /\ Replied(Reply(n)) /\ ccb' = ccb /\ unsent' = unsent
    BY <1>2 DEF PromptCommand, Step
  <2>2. Silent /\ Plain(ccb) /\ Behind(1)
    BY <1>1, <2>1 DEF Preparing
  <2>3. Behind(2)'
    BY <2>1, <2>2, BehindCommand
  <2> QED BY <2>1, <2>2, <2>3, EarlyEnough DEF EarlyLines, Preparing, Silent
<1>3. ASSUME NEW here \in {152, 159}, NEW next \in {158, 165}, Read(here, next)
      PROVE  QuietInv'
  <2>1. line = here /\ line' = next /\ out # <<>> /\ out' = Tail(out) /\ UNCHANGED <<ccb, unsent>>
    BY <1>3 DEF Read, ps2_read, Step
  <2>2. Silent /\ Plain(ccb) /\ Behind(2)
    BY <1>1, <2>1 DEF Preparing
  <2>3. Behind(1)'
    BY <2>1, <2>2, BehindRead
  <2> QED BY <2>1, <2>2, <2>3, EarlyEnough DEF EarlyLines, Preparing, Silent
<1>4. Port2Test \in {158, 165}
  BY DEF Port2Test, WithTwo
<1> QED BY <1>2, <1>3, <1>4, Prompts DEF PortTests

(* So does line 166; the keyboard's clock runs in the configuration written.    *)
LEMMA EnableDevicesQuiet ==
    ASSUME TypeOK, Prompt, QuietInv, Quiet, Untried, EnableDevices
    PROVE  QuietInv'
<1>1. /\ Preparing /\ ClockRuns /\ (num_ports = 1 => Answering)
      /\ unsent \in [Devices -> Seq(Byte)] /\ out \in Seq(Byte) /\ ccb \in Byte
  BY DEF QuietInv, TypeOK
<1>2. CASE PromptCommand(165, \h20, 166)
  <2>1. line = 165 /\ line' = 166 /\ Replied(Reply(\h20)) /\ ccb' = ccb /\ unsent' = unsent
    BY <1>2 DEF PromptCommand, Step
  <2>2. Silent /\ Plain(ccb) /\ Behind(1)
    BY <1>1, <2>1 DEF Preparing
  <2>3. Behind(2)'
    BY <2>1, <2>2, BehindCommand
  <2> QED BY <2>1, <2>2, <2>3, EarlyEnough DEF EarlyLines, Preparing, Silent
<1>3. CASE ReadConfig(166, 168, data \cup {0, 1})
  <2>1. /\ line = 166 /\ line' = 168 /\ out # <<>> /\ out' = Tail(out)
        /\ UNCHANGED <<ccb, unsent>> /\ config' = data \cup {0, 1}
    BY <1>3 DEF ReadConfig, ps2_read, Step
  <2>2. Silent /\ Plain(ccb) /\ Behind(2)
    BY <1>1, <2>1 DEF Preparing
  <2>3. Behind(1)' /\ Plain(data)
    BY <2>1, <2>2, BehindRead
  <2>4. Plain(config') /\ 4 \notin config'
    BY <2>1, <2>3 DEF Plain
  <2> QED BY <2>1, <2>2, <2>3, <2>4 DEF QuietInv, Preparing, ClockRuns, Answering, Silent, Return
<1>4. CASE WriteConfig(168, 172)
  <2>1. /\ line = 168 /\ line' = 172 /\ ccb' = config
        /\ UNCHANGED <<out, unsent, config, num_ports>>
    BY <1>4 DEF WriteConfig, Step
  <2>2. Silent /\ Plain(config) /\ Behind(1) /\ 4 \notin config
    BY <1>1, <2>1 DEF Preparing, ClockRuns
  <2>3. Behind(1)'
    BY <2>1, <2>2 DEF Behind
  <2> QED BY <2>1, <2>2, <2>3 DEF QuietInv, Preparing, ClockRuns, Answering, Silent, Return
<1>5. CASE PromptWrite(172, 1, \hAE, WithTwo(173, 177))
  <2>1. /\ line = 172 /\ line' = WithTwo(173, 177) /\ Receive("keyboard", \hAE)
        /\ UNCHANGED <<out, config, num_ports>>
    BY <1>5 DEF PromptWrite, Step
  <2>2. Silent /\ Plain(ccb) /\ Behind(1) /\ 4 \notin config
    BY <1>1, <2>1 DEF Preparing, ClockRuns
  <2>3. /\ ccb' = ccb \ {4} /\ out' = out
        /\ unsent' = [unsent EXCEPT !["keyboard"] = @ \o <<RESEND>>]
    <3>1. \hAE \notin {\hFF, \hF5}
      OBVIOUS
    <3>2. /\ ccb' = ccb \ {4} /\ out' = out
          /\ unsent' = [unsent EXCEPT !["keyboard"] = @ \o Answer("keyboard", \hAE)]
      BY <2>1, <3>1 DEF Receive, ClockBit
    <3>3. Answer("keyboard", \hAE) = <<RESEND>>
      BY KeyboardAnswers
    <3> QED BY <3>2, <3>3, Zenon
  <2>4. unsent'["keyboard"] = <<RESEND>> /\ unsent'["mouse"] = <<>>
    <3>1. unsent["keyboard"] = <<>> /\ unsent["mouse"] = <<>> /\ RESEND \in Byte
      BY <2>2, BytesAre DEF Silent, Devices
    <3>2. <<>> \o <<RESEND>> = <<RESEND>>
      BY <3>1
    <3> QED BY <1>1, <2>3, <3>1, <3>2 DEF Devices
  <2>5. Plain(ccb')
    BY <2>2, <2>3 DEF Plain
  <2>6. out # <<>> => Len(out) = 1 /\ data # ACK
    <3>1. ASSUME out # <<>> PROVE Len(out) = 1 /\ data # ACK
      <4>1. Len(out) = 1 /\ data = out[1] /\ 1 \in 1 .. Len(out)
        <5>1. Len(out) \in Nat /\ Len(out) # 0 /\ Len(out) <= 1
          BY <1>1, <2>2, <3>1 DEF Behind
        <5>2. Head(out) = out[1]
          BY <1>1, <3>1
        <5>3. Len(out) = 1
          <6> DEFINE l == Len(out)
          <6>1. l \in Nat /\ l # 0 /\ l <= 1
            BY <5>1
          <6> HIDE DEF l
          <6>2. l = 1
            BY <6>1
          <6> QED BY <6>2 DEF l
        <5>4. 1 \in 1 .. Len(out)
          BY <5>3
        <5> QED BY <5>2, <5>3, <5>4, Zenon DEF data
      <4> QED BY <2>2, <4>1, BytesAre DEF Behind, Plain
    <3> QED BY <3>1
  <2>7. data' = data
    BY <2>3 DEF data
  <2>8. line' \in {173, 177}
    BY <2>1 DEF WithTwo
  <2>9. num_ports' = 1 => Answering'
    <3> SUFFICES ASSUME num_ports = 1 PROVE Answering'
      BY <2>1
    <3>1. line' = 177
      BY <2>1 DEF WithTwo
    <3>2. unsent'["mouse"] = <<>> /\ Plain(ccb)' /\ out' = out /\ Len(out') = Len(out)
      BY <2>3, <2>4, <2>5 DEF Plain
    <3>3. \/ out' = <<>> /\ unsent'["keyboard"] = <<RESEND>>
          \/ out' # <<>> /\ Len(out') = 1 /\ data' # ACK
      BY <3>2, <2>4, <2>6, <2>7
    <3>4. line' \notin {173, 178, 189, 190, 194, 195, 197, 200, 202, 206, 222, 237, 239, 250, 253,
                       255, Return}
      BY <3>1 DEF Return
    <3> QED BY <3>1, <3>2, <3>3, <3>4 DEF Answering
  <2>10. ClockRuns'
    BY <2>1, <2>2, <2>8 DEF ClockRuns, Return
  <2>11. line' \notin EarlyLines \cup {168, 172}
    BY <2>8 DEF EarlyLines
  <2> QED BY <2>9, <2>10, <2>11, LateEnough
<1>6. CASE PromptWrite(173, 2, \hA8, 177)
  <2>1. line = 173 /\ line' = 177 /\ UNCHANGED <<config, num_ports>>
    BY <1>6 DEF PromptWrite, Step
  <2>2. num_ports # 1
    BY <1>1, <2>1 DEF Answering
  <2> QED BY <1>1, <2>1, <2>2 DEF QuietInv, Preparing, ClockRuns, Return
<1> QED BY <1>2, <1>3, <1>4, <1>5, <1>6, Prompts DEF EnableDevices

(* From the reset on, the answers come in the order they are waited for.        *)
LateLines == {177, 178, 194, 195, 197, 200, 202, 222, 237, 239, 250, 253, 255, Return}

(* What is known when the driver goes on at one of these lines.                 *)
LEMMA AtLateLine ==
    ASSUME TypeOK, Prompt, QuietInv, Quiet, NEW here, NEW next, Step(here, next)
    PROVE  /\ line = here /\ line' = next
           /\ Preparing /\ ClockRuns /\ (num_ports = 1 => Answering)
           /\ (4 \notin ccb /\ out = <<>>) => unsent["keyboard"] = <<>>
           /\ out \in Seq(Byte) /\ unsent["keyboard"] \in Seq(Byte) /\ ccb \in Byte
BY DEF TypeOK, Prompt, QuietInv, Quiet, Step, CanDeliver, ClockBit, Devices

(* The clock runs on through commands, reads and writes that are not of the     *)
(* configuration.                                                               *)
LEMMA ClockKept ==
    ASSUME ClockRuns, config' = config, line = 253 => ccb' = ccb,
           \/ /\ line \in {177, 178, 189, 190, 194, 195, 197, 200, 202, 206, 222, 237}
              /\ line' \in {178, 189, 190, 194, 195, 197, 200, 202, 206, 222, 237, 239}
           \/ line = 253 /\ line' = 255
    PROVE  ClockRuns'
BY DEF ClockRuns, Return

(* An empty flow has no byte in either part.                                    *)
LEMMA FlowIs ==
    ASSUME NEW u \in Seq(Byte), NEW w \in Seq(Byte), NEW a \in Byte
    PROVE  /\ u \o w = <<>> => u = <<>> /\ w = <<>>
           /\ u \o w = <<a>> /\ u # <<>> => u = <<a>> /\ w = <<>>
<1>1. Len(u \o w) = Len(u) + Len(w) /\ Len(u) \in Nat /\ Len(w) \in Nat
  OBVIOUS
<1>2. ASSUME u \o w = <<>> PROVE u = <<>> /\ w = <<>>
  <2>1. Len(u) = 0 /\ Len(w) = 0
    BY <1>1, <1>2
  <2> QED BY <2>1
<1>3. ASSUME u \o w = <<a>>, u # <<>> PROVE u = <<a>> /\ w = <<>>
  <2>1. Len(u) = 1 /\ Len(w) = 0
    <3>1. Len(<<a>>) = 1 /\ Len(u) # 0
      BY <1>3
    <3>2. Len(u) + Len(w) = 1
      BY <1>1, <1>3, <3>1
    <3> DEFINE m == Len(u) n == Len(w)
    <3>3. m \in Nat /\ n \in Nat /\ m + n = 1 /\ m # 0
      BY <1>1, <3>1, <3>2
    <3> HIDE DEF m, n
    <3>4. m = 1 /\ n = 0
      BY <3>3
    <3> QED BY <3>4 DEF m, n
  <2>2. w = <<>>
    BY <2>1
  <2>3. u \o <<>> = u
    OBVIOUS
  <2> QED BY <1>3, <2>2, <2>3
<1> QED BY <1>2, <1>3

(* The heads and tails of the flows there are.                                  *)
LEMMA HeadsAndTails ==
    ASSUME NEW a \in Byte, NEW b \in Byte, NEW c \in Byte
    PROVE  /\ Head(<<a>>) = a /\ Head(<<a, b>>) = a /\ Head(<<a, b, c>>) = a
           /\ Tail(<<a>>) = <<>> /\ Tail(<<a, b>>) = <<b>> /\ Tail(<<a, b, c>>) = <<b, c>>
           /\ <<>> \o <<a>> = <<a>> /\ <<>> \o <<a, b, c>> = <<a, b, c>>
           /\ <<>> \o <<a, b>> = <<a, b>>
<1>1. Head(<<a>>) = a /\ Head(<<a, b>>) = a /\ Head(<<a, b, c>>) = a
  OBVIOUS
<1>2. Tail(<<a>>) = <<>> /\ Tail(<<a, b>>) = <<b>>
  OBVIOUS
<1>3. Tail(<<a, b, c>>) = <<b, c>>
  <2> DEFINE s == Tail(<<a, b, c>>) t == <<b, c>>
  <2>1. s \in Seq(Byte) /\ t \in Seq(Byte) /\ Len(s) = 2 /\ Len(t) = 2
    OBVIOUS
  <2>2. s[1] = b /\ s[2] = c /\ t[1] = b /\ t[2] = c
    OBVIOUS
  <2>3. \A k \in 1 .. 2 : s[k] = t[k]
    BY <2>2
  <2> HIDE DEF s, t
  <2>4. s = t
    BY <2>1, <2>3
  <2> QED BY <2>4 DEF s, t
<1>4. <<>> \o <<a>> = <<a>> /\ <<>> \o <<a, b, c>> = <<a, b, c>> /\ <<>> \o <<a, b>> = <<a, b>>
  OBVIOUS
<1> QED BY <1>1, <1>2, <1>3, <1>4

(* An answer that stands alone or first in the flow.                            *)
LEMMA AnswerRead ==
    ASSUME TypeOK, Prompt, QuietInv, Quiet, NEW here, NEW next, ps2_read(here, next)
    PROVE  /\ line = here /\ line' = next /\ ClockRuns /\ (num_ports = 1 => Answering)
           /\ UNCHANGED <<ccb, unsent>>
           /\ data = Head(Flow) /\ Flow' = Tail(Flow)
<1>1. Step(here, next) /\ out # <<>> /\ out' = Tail(out) /\ UNCHANGED <<ccb, unsent>>
  BY DEF ps2_read
<1> QED BY <1>1, AtLateLine, FlowRead

(* A byte written to the keyboard adds its answer to the flow.                  *)
LEMMA ByteWritten ==
    ASSUME TypeOK, Prompt, QuietInv, Quiet, NEW here, NEW next, NEW n,
           PromptWrite(here, 1, n, next), here \in LateLines
    PROVE  /\ line = here /\ line' = next /\ ClockRuns /\ (num_ports = 1 => Answering)
           /\ ccb' = ccb \ {4} /\ out' = out
           /\ unsent'["keyboard"] = (IF n \in {\hFF, \hF5} THEN <<>> ELSE unsent["keyboard"])
                                        \o Answer("keyboard", n)
           /\ unsent'["mouse"] = unsent["mouse"]
           /\ n \notin {\hFF, \hF5} => Flow' = Flow \o Answer("keyboard", n)
           /\ UNCHANGED <<config, num_ports, retries, device>>
<1>1. Step(here, next) /\ Receive("keyboard", n) /\ UNCHANGED <<out, config, num_ports, retries, device>>
  BY DEF PromptWrite
<1>2. /\ ccb' = ccb \ {4} /\ out' = out
      /\ unsent' = [unsent EXCEPT !["keyboard"] =
                        (IF n \in {\hFF, \hF5} THEN <<>> ELSE @) \o Answer("keyboard", n)]
  BY <1>1 DEF Receive, ClockBit
<1>3. line = here /\ line' = next /\ ClockRuns /\ (num_ports = 1 => Answering) /\ ccb \in Byte
  BY <1>1, AtLateLine
<1>4. unsent \in [Devices -> Seq(Byte)]
  BY DEF TypeOK
<1>5. n \notin {\hFF, \hF5} => Flow' = Flow \o Answer("keyboard", n)
  BY <1>1, FlowWrite
<1> QED BY <1>1, <1>2, <1>3, <1>4, <1>5 DEF Devices

(* The reset is answered first by what was left over or by line 172's resend.   *)
LEMMA ResetDevicesQuiet ==
    ASSUME TypeOK, Prompt, QuietInv, Quiet, Untried, ResetDevices
    PROVE  QuietInv'
<1>1. CASE PromptWrite(177, 1, \hFF, 178)
  <2>1. /\ line = 177 /\ line' = 178 /\ ClockRuns /\ (num_ports = 1 => Answering)
        /\ ccb' = ccb \ {4} /\ out' = out /\ unsent'["mouse"] = unsent["mouse"]
        /\ unsent'["keyboard"] = <<>> \o <<ACK, Bits(\hAA)>>
        /\ UNCHANGED <<config, num_ports, retries>>
    <3>1. 177 \in LateLines
      BY DEF LateLines
    <3>2. Answer("keyboard", \hFF) = <<ACK, Bits(\hAA)>>
      BY KeyboardAnswers
    <3> QED BY <1>1, <3>1, <3>2, ByteWritten
  <2>2. unsent'["keyboard"] = <<ACK, Bits(\hAA)>>
    BY <2>1, BytesAre, HeadsAndTails
  <2>3. (4 \notin ccb /\ out = <<>>) => unsent["keyboard"] = <<>>
    BY <1>1, AtLateLine DEF PromptWrite
  <2>4. retries = 0 /\ data' = data
    BY <2>1 DEF Untried, data
  <2>5. ASSUME num_ports = 1 PROVE Answering'
    <3>1. Plain(ccb) /\ unsent["mouse"] = <<>>
      BY <2>1, <2>5 DEF Answering
    <3>2. out # <<>> /\ Len(out) = 1 /\ data # ACK
      BY <2>1, <2>3, <2>5, <3>1 DEF Answering, Plain
    <3>3. Plain(ccb')
      BY <2>1, <3>1 DEF Plain
    <3> QED BY <2>1, <2>2, <2>4, <3>1, <3>2, <3>3 DEF Answering, Return
  <2>6. ClockRuns'
    BY <2>1, ClockKept
  <2> QED BY <2>1, <2>5, <2>6, LateEnough DEF EarlyLines
<1>2. ASSUME ps2_read(178, IF ResetAnswered THEN WithTwo(189, 194) ELSE 178),
             retries' = IF ResetAnswered THEN retries ELSE retries + 1,
             UNCHANGED <<config, num_ports, device>>
      PROVE  QuietInv'
  <2> DEFINE next == IF ResetAnswered THEN WithTwo(189, 194) ELSE 178
  <2>1. /\ line = 178 /\ line' = next /\ ClockRuns /\ (num_ports = 1 => Answering)
        /\ UNCHANGED <<ccb, unsent>> /\ data = Head(Flow) /\ Flow' = Tail(Flow)
    BY <1>2, AnswerRead
  <2>2. line' \in {178, 189, 194}
    BY <2>1 DEF WithTwo
  <2>3. ClockRuns'
    BY <1>2, <2>1, <2>2, ClockKept
  <2>4. out # <<>> /\ out' = Tail(out) /\ out \in Seq(Byte)
    BY <1>2 DEF ps2_read, TypeOK
  <2>5. ASSUME num_ports = 1 PROVE Answering'
    <3>1. /\ Plain(ccb) /\ unsent["mouse"] = <<>>
          /\ \/ /\ retries = 0 /\ Len(out) = 1 /\ data # ACK
                /\ unsent["keyboard"] = <<ACK, Bits(\hAA)>>
             \/ retries = 1 /\ Flow = <<ACK, Bits(\hAA)>>
      BY <2>1, <2>5 DEF Answering
    <3>2. CASE /\ retries = 0 /\ Len(out) = 1 /\ data # ACK
               /\ unsent["keyboard"] = <<ACK, Bits(\hAA)>>
      <4>1. line' = 178 /\ retries' = 1
        BY <1>2, <2>1, <3>2 DEF ResetAnswered
      <4>2. out' = <<>>
        BY <2>4, <3>2
      <4>3. Flow' = <<>> \o <<ACK, Bits(\hAA)>>
        BY <2>1, <3>2, <4>2 DEF Flow
      <4>4. Flow' = <<ACK, Bits(\hAA)>>
        BY <4>3, BytesAre, HeadsAndTails
      <4>5. unsent'["mouse"] = <<>> /\ Plain(ccb)'
        BY <2>1, <3>1 DEF Plain
      <4> QED BY <4>1, <4>4, <4>5 DEF Answering, Return
    <3>3. CASE retries = 1 /\ Flow = <<ACK, Bits(\hAA)>>
      <4>1. data = ACK /\ Flow' = <<Bits(\hAA)>>
        BY <2>1, <3>3, BytesAre, HeadsAndTails
      <4>2. line' = 194
        BY <2>1, <2>5, <4>1 DEF ResetAnswered, WithTwo
      <4>3. unsent'["mouse"] = <<>> /\ Plain(ccb)'
        BY <2>1, <3>1 DEF Plain
      <4> QED BY <4>1, <4>2, <4>3 DEF Answering, Return
    <3> QED BY <3>1, <3>2, <3>3
  <2>6. num_ports' = num_ports
    BY <1>2
  <2> QED BY <2>2, <2>3, <2>5, <2>6, LateEnough DEF EarlyLines
<1>3. CASE PromptWrite(189, 2, \hFF, 190)
  <2>1. /\ line = 189 /\ line' = 190 /\ ClockRuns /\ (num_ports = 1 => Answering)
        /\ UNCHANGED <<config, num_ports>>
    BY <1>3, AtLateLine DEF PromptWrite
  <2>2. num_ports # 1
    BY <2>1 DEF Answering
  <2> QED BY <2>1, <2>2, ClockKept, LateEnough DEF EarlyLines
<1>4. CASE Read(190, 194)
  <2>1. /\ line = 190 /\ line' = 194 /\ ClockRuns /\ (num_ports = 1 => Answering)
        /\ UNCHANGED <<config, num_ports>>
    BY <1>4, AtLateLine DEF Read, ps2_read
  <2>2. num_ports # 1
    BY <2>1 DEF Answering
  <2> QED BY <2>1, <2>2, ClockKept, LateEnough DEF EarlyLines
<1> QED BY <1>1, <1>2, <1>3, <1>4, Prompts DEF ResetDevices

(* A step that leaves the configuration alone and finds the answer it expects.  *)
LEMMA Answered ==
    ASSUME ClockRuns, config' = config, line # 253,
           line \in {177, 178, 189, 190, 194, 195, 197, 200, 202, 206, 222, 237},
           line' \in {178, 189, 190, 194, 195, 197, 200, 202, 206, 222, 237, 239},
           num_ports' = num_ports, num_ports = 1 => Answering'
    PROVE  QuietInv'
<1>1. ClockRuns'
  BY ClockKept
<1>2. line' \notin EarlyLines \cup {168, 172}
  BY DEF EarlyLines
<1> QED BY <1>1, <1>2, LateEnough

(* What the reset left unread is dropped up to the answer to F5; then the       *)
(* identity is read in order.                                                   *)
LEMMA DetectTypeQuiet ==
    ASSUME TypeOK, Prompt, QuietInv, Quiet, DetectType
    PROVE  QuietInv'
<1>0. Bits(\hAA) \in Byte /\ ACK \in Byte /\ KEYBOARD \in Byte /\ Bits(\h83) \in Byte
  BY BytesAre
<1>1. CASE PromptWrite(194, 1, \hF5, 195)
  <2>1. /\ line = 194 /\ line' = 195 /\ ClockRuns /\ (num_ports = 1 => Answering)
        /\ ccb' = ccb \ {4} /\ out' = out /\ unsent'["mouse"] = unsent["mouse"]
        /\ unsent'["keyboard"] = <<>> \o <<ACK>>
        /\ UNCHANGED <<config, num_ports, device>>
    <3>1. 194 \in LateLines
      BY DEF LateLines
    <3>2. Answer("keyboard", \hF5) = <<ACK>>
      BY KeyboardAnswers
    <3> QED BY <1>1, <3>1, <3>2, ByteWritten
  <2>2. /\ (4 \notin ccb /\ out = <<>>) => unsent["keyboard"] = <<>>
        /\ out \in Seq(Byte) /\ unsent["keyboard"] \in Seq(Byte)
    BY <1>1, AtLateLine DEF PromptWrite
  <2>3. ASSUME num_ports = 1 PROVE Answering'
    <3>1. Plain(ccb) /\ unsent["mouse"] = <<>> /\ Flow = <<Bits(\hAA)>>
      BY <2>1, <2>3 DEF Answering
    <3>2. out # <<>>
      <4>1. SUFFICES ASSUME out = <<>> PROVE FALSE
        OBVIOUS
      <4>2. unsent["keyboard"] = <<>>
        BY <2>2, <3>1, <4>1 DEF Plain
      <4>3. Flow = <<>>
        BY <4>1, <4>2 DEF Flow
      <4> QED BY <1>0, <3>1, <4>3
    <3>3. out = <<Bits(\hAA)>>
      BY <1>0, <2>2, <3>1, <3>2, FlowIs DEF Flow
    <3>4. <<>> \o <<ACK>> = <<ACK>> /\ <<Bits(\hAA)>> \o <<ACK>> = <<Bits(\hAA), ACK>>
      BY <1>0, OneAndMore, HeadsAndTails
    <3>5. Flow' = <<Bits(\hAA), ACK>>
      BY <2>1, <3>3, <3>4 DEF Flow
    <3>6. unsent'["mouse"] = <<>> /\ Plain(ccb)'
      BY <2>1, <3>1 DEF Plain
    <3> QED BY <2>1, <3>5, <3>6 DEF Answering, Return
  <2> QED BY <2>1, <2>3, Answered
<1>2. CASE Read(195, IF data = ACK THEN 197 ELSE 195)
  <2>1. /\ line = 195 /\ line' = (IF data = ACK THEN 197 ELSE 195)
        /\ ClockRuns /\ (num_ports = 1 => Answering)
        /\ UNCHANGED <<ccb, unsent, config, num_ports, device>>
        /\ data = Head(Flow) /\ Flow' = Tail(Flow)
    BY <1>2, AnswerRead DEF Read
  <2>2. ASSUME num_ports = 1 PROVE Answering'
    <3>1. Plain(ccb) /\ unsent["mouse"] = <<>> /\ Flow \in {<<Bits(\hAA), ACK>>, <<ACK>>}
      BY <2>1, <2>2 DEF Answering
    <3>2. unsent'["mouse"] = <<>> /\ Plain(ccb)'
      BY <2>1, <3>1 DEF Plain
    <3>3. CASE Flow = <<Bits(\hAA), ACK>>
      <4>1. line' = 195 /\ Flow' = <<ACK>>
        BY <1>0, <2>1, <3>3, BytesAre, HeadsAndTails
      <4> QED BY <3>2, <4>1 DEF Answering, Return
    <3>4. CASE Flow = <<ACK>>
      <4>1. line' = 197 /\ Flow' = <<>>
        BY <1>0, <2>1, <3>4, HeadsAndTails
      <4> QED BY <3>2, <4>1 DEF Answering, Return
    <3> QED BY <3>1, <3>3, <3>4
  <2> QED BY <2>1, <2>2, Answered
<1>3. CASE PromptWrite(197, 1, \hF2, 200)
  <2>1. /\ line = 197 /\ line' = 200 /\ ClockRuns /\ (num_ports = 1 => Answering)
        /\ ccb' = ccb \ {4} /\ unsent'["mouse"] = unsent["mouse"]
        /\ Flow' = Flow \o <<ACK, KEYBOARD, Bits(\h83)>>
        /\ UNCHANGED <<config, num_ports, device>>
    <3>1. 197 \in LateLines
      BY DEF LateLines
    <3>2. Answer("keyboard", \hF2) = <<ACK, KEYBOARD, Bits(\h83)>>
      BY KeyboardAnswers
    <3>3. \hF2 \notin {\hFF, \hF5}
      OBVIOUS
    <3>4. Flow' = Flow \o Answer("keyboard", \hF2)
      BY <1>3, <3>1, <3>3, ByteWritten
    <3>5. /\ line = 197 /\ line' = 200 /\ ClockRuns /\ (num_ports = 1 => Answering)
          /\ ccb' = ccb \ {4} /\ unsent'["mouse"] = unsent["mouse"]
          /\ UNCHANGED <<config, num_ports, device>>
      BY <1>3, <3>1, ByteWritten
    <3> QED BY <3>2, <3>4, <3>5, Zenon
  <2>2. ASSUME num_ports = 1 PROVE Answering'
    <3>1. Plain(ccb) /\ unsent["mouse"] = <<>> /\ Flow = <<>>
      BY <2>1, <2>2 DEF Answering
    <3>2. unsent'["mouse"] = <<>> /\ Plain(ccb)'
      BY <2>1, <3>1 DEF Plain
    <3>3. line' = 200 /\ Flow' = <<ACK, KEYBOARD, Bits(\h83)>>
      BY <1>0, <2>1, <3>1, HeadsAndTails
    <3> QED BY <3>2, <3>3 DEF Answering, Return
  <2> QED BY <2>1, <2>2, Answered
<1>4. CASE Read(200, IF data = ACK THEN 202 ELSE 200)
  <2>1. /\ line = 200 /\ line' = (IF data = ACK THEN 202 ELSE 200)
        /\ ClockRuns /\ (num_ports = 1 => Answering)
        /\ UNCHANGED <<ccb, unsent, config, num_ports, device>>
        /\ data = Head(Flow) /\ Flow' = Tail(Flow)
    BY <1>4, AnswerRead DEF Read
  <2>2. ASSUME num_ports = 1 PROVE Answering'
    <3>1. Plain(ccb) /\ unsent["mouse"] = <<>> /\ Flow = <<ACK, KEYBOARD, Bits(\h83)>>
      BY <2>1, <2>2 DEF Answering
    <3>2. unsent'["mouse"] = <<>> /\ Plain(ccb)'
      BY <2>1, <3>1 DEF Plain
    <3>3. line' = 202 /\ Flow' = <<KEYBOARD, Bits(\h83)>>
      BY <1>0, <2>1, <3>1, HeadsAndTails
    <3> QED BY <3>2, <3>3 DEF Answering, Return
  <2> QED BY <2>1, <2>2, Answered
<1>5. CASE Identify(202, SecondAnswer)
  <2>1. /\ line = 202 /\ line' = SecondAnswer
        /\ ClockRuns /\ (num_ports = 1 => Answering)
        /\ UNCHANGED <<ccb, unsent, config, num_ports>>
        /\ data = Head(Flow) /\ Flow' = Tail(Flow)
    BY <1>5, AnswerRead DEF Identify
  <2>2. ASSUME num_ports = 1 PROVE Answering'
    <3>1. Plain(ccb) /\ unsent["mouse"] = <<>> /\ Flow = <<KEYBOARD, Bits(\h83)>>
      BY <2>1, <2>2 DEF Answering
    <3>2. unsent'["mouse"] = <<>> /\ Plain(ccb)'
      BY <2>1, <3>1 DEF Plain
    <3>3. line' = 222 /\ Flow' = <<Bits(\h83)>>
      BY <1>0, <2>1, <3>1, HeadsAndTails DEF SecondAnswer
    <3> QED BY <3>2, <3>3 DEF Answering, Return
  <2>3. line' \in {206, 222, 237}
    BY <2>1 DEF SecondAnswer
  <2> QED BY <2>1, <2>2, <2>3, Answered
<1>6. CASE Identify(206, IF data = KEYBOARD THEN 222 ELSE 237)
  <2>1. /\ line = 206 /\ line' = (IF data = KEYBOARD THEN 222 ELSE 237)
        /\ ClockRuns /\ (num_ports = 1 => Answering) /\ UNCHANGED <<config, num_ports>>
    BY <1>6, AnswerRead DEF Identify
  <2>2. num_ports # 1
    BY <2>1 DEF Answering
  <2> QED BY <2>1, <2>2, Answered
<1>7. CASE Identify(222, 237)
  <2>1. /\ line = 222 /\ line' = 237 /\ ClockRuns /\ (num_ports = 1 => Answering)
        /\ UNCHANGED <<ccb, unsent, config, num_ports>> /\ device' = Named(222)
        /\ data = Head(Flow) /\ Flow' = Tail(Flow)
    BY <1>7, AnswerRead DEF Identify
  <2>2. ASSUME num_ports = 1 PROVE Answering'
    <3>1. Plain(ccb) /\ unsent["mouse"] = <<>> /\ Flow = <<Bits(\h83)>>
      BY <2>1, <2>2 DEF Answering
    <3>2. unsent'["mouse"] = <<>> /\ Plain(ccb)'
      BY <2>1, <3>1 DEF Plain
    <3>3. data = Bits(\h83) /\ Flow' = <<>>
      BY <1>0, <2>1, <3>1, HeadsAndTails
    <3>4. device' = 4
      BY <2>1, <3>3, BytesAre DEF Named
    <3> QED BY <2>1, <3>2, <3>3, <3>4 DEF Answering, Return
  <2> QED BY <2>1, <2>2, Answered
<1> QED BY <1>1, <1>2, <1>3, <1>4, <1>5, <1>6, <1>7, Prompts DEF DetectType

(* Line 239 reads the answer to F4, and nothing is left but the configuration.  *)
LEMMA StartScanningQuiet ==
    ASSUME TypeOK, Prompt, QuietInv, Quiet, StartScanning
    PROVE  QuietInv'
<1>0. ACK \in Byte
  BY BytesAre
<1>1. CASE PromptWrite(237, 1, \hF4, 239)
  <2>1. 237 \in LateLines /\ Answer("keyboard", \hF4) = <<ACK>> /\ \hF4 \notin {\hFF, \hF5}
    BY KeyboardAnswers DEF LateLines
  <2>2. Flow' = Flow \o <<ACK>>
    <3>1. Flow' = Flow \o Answer("keyboard", \hF4)
      BY <1>1, <2>1, ByteWritten
    <3> QED BY <2>1, <3>1, Zenon
  <2>3. /\ line = 237 /\ line' = 239 /\ ClockRuns /\ (num_ports = 1 => Answering)
        /\ ccb' = ccb \ {4} /\ unsent'["mouse"] = unsent["mouse"]
        /\ UNCHANGED <<config, num_ports, device>>
    BY <1>1, <2>1, ByteWritten
  <2>4. ASSUME num_ports = 1 PROVE Answering'
    <3>1. Plain(ccb) /\ unsent["mouse"] = <<>> /\ Flow = <<>> /\ device = 4
      BY <2>3, <2>4 DEF Answering
    <3>2. unsent'["mouse"] = <<>> /\ Plain(ccb)' /\ device' = 4
      BY <2>3, <3>1 DEF Plain
    <3>3. line' = 239 /\ Flow' = <<ACK>>
      BY <1>0, <2>2, <2>3, <3>1, HeadsAndTails
    <3> QED BY <3>2, <3>3 DEF Answering, Return
  <2> QED BY <2>3, <2>4, Answered
<1>2. CASE ReadConfig(239, 250, config \cap FinalBits)
  <2>1. /\ line = 239 /\ line' = 250 /\ ClockRuns /\ (num_ports = 1 => Answering)
        /\ UNCHANGED <<ccb, unsent, num_ports, device>> /\ config' = config \cap FinalBits
        /\ data = Head(Flow) /\ Flow' = Tail(Flow)
    BY <1>2, AnswerRead DEF ReadConfig
  <2>2. ASSUME num_ports = 1 PROVE Answering'
    <3>1. unsent["mouse"] = <<>> /\ Flow = <<ACK>> /\ device = 4
      BY <2>1, <2>2 DEF Answering
    <3>2. line' = 250 /\ Flow' = <<>> /\ unsent'["mouse"] = <<>> /\ device' = 4
      BY <1>0, <2>1, <3>1, HeadsAndTails
    <3> QED BY <3>2 DEF Answering, Return
  <2>3. ClockRuns'
    BY <2>1 DEF ClockRuns, Return
  <2> QED BY <2>1, <2>2, <2>3, LateEnough DEF EarlyLines
<1>3. CASE WriteConfig(250, 253)
  <2>1. /\ line = 250 /\ line' = 253 /\ ClockRuns /\ (num_ports = 1 => Answering)
        /\ UNCHANGED <<out, unsent, num_ports, device>> /\ ccb' = config
    BY <1>3, AtLateLine DEF WriteConfig
  <2>2. ASSUME num_ports = 1 PROVE Answering'
    <3>1. unsent["mouse"] = <<>> /\ Flow = <<>> /\ device = 4
      BY <2>1, <2>2 DEF Answering
    <3>2. line' = 253 /\ Flow' = <<>> /\ unsent'["mouse"] = <<>> /\ device' = 4
      BY <2>1, <3>1 DEF Flow
    <3> QED BY <3>2 DEF Answering, Return
  <2>3. ClockRuns'
    BY <2>1 DEF ClockRuns, Return
  <2> QED BY <2>1, <2>2, <2>3, LateEnough DEF EarlyLines
<1>4. CASE PromptCommand(253, \h20, 255)
  <2>0. Step(253, 255) /\ Replied(Reply(\h20)) /\ UNCHANGED <<config, num_ports, retries, device>>
    BY <1>4, Zenon DEF PromptCommand
  <2>r. Reply(\h20) = <<ccb>> /\ \h20 # \hA7
    BY DEF Reply
  <2>1. /\ line = 253 /\ line' = 255 /\ ClockRuns /\ (num_ports = 1 => Answering)
        /\ UNCHANGED <<ccb, unsent, config, num_ports, device>>
        /\ (out = <<>> => out' = <<>> \o <<ccb>>)
        /\ out \in Seq(Byte) /\ unsent["keyboard"] \in Seq(Byte) /\ ccb \in Byte
    <3>1. line = 253 /\ line' = 255
      BY <2>0 DEF Step
    <3>2. UNCHANGED <<ccb, unsent>> /\ (out = <<>> => out' = <<>> \o <<ccb>>)
      BY <1>4, <2>0, <2>r DEF PromptCommand, Replied
    <3>3. ClockRuns /\ (num_ports = 1 => Answering)
      BY <2>0, AtLateLine, <3>1 DEF LateLines
    <3>4. out \in Seq(Byte) /\ unsent["keyboard"] \in Seq(Byte) /\ ccb \in Byte
      BY DEF TypeOK, Devices
    <3> QED BY <2>0, <3>1, <3>2, <3>3, <3>4
  <2>2. ASSUME num_ports = 1 PROVE Answering'
    <3>1. unsent["mouse"] = <<>> /\ Flow = <<>> /\ device = 4
      BY <2>1, <2>2 DEF Answering
    <3>2. out = <<>> /\ unsent["keyboard"] = <<>>
      BY <1>0, <2>1, <3>1, FlowIs DEF Flow
    <3>3. out' = <<ccb>>
      BY <2>1, <3>2
    <3>4. /\ line' = 255 /\ out' = <<ccb'>> /\ unsent'["keyboard"] = <<>>
          /\ unsent'["mouse"] = <<>> /\ device' = 4
      BY <2>1, <3>1, <3>2, <3>3
    <3> QED BY <3>4 DEF Answering, Return
  <2>3. ClockRuns'
    BY <2>1, ClockKept
  <2> QED BY <2>1, <2>2, <2>3, LateEnough DEF EarlyLines
<1>5. CASE ReadConfig(255, Return, data)
  <2>1. /\ line = 255 /\ line' = Return /\ ClockRuns /\ (num_ports = 1 => Answering)
        /\ UNCHANGED <<ccb, unsent, num_ports, device>> /\ out' = Tail(out)
    BY <1>5, AnswerRead DEF ReadConfig, ps2_read
  <2>2. ASSUME num_ports = 1 PROVE Answering'
    <3>1. /\ unsent["mouse"] = <<>> /\ out = <<ccb>> /\ unsent["keyboard"] = <<>> /\ device = 4
          /\ ccb \in Byte
      BY <2>1, <2>2 DEF Answering, TypeOK
    <3>2. out' = <<>>
      BY <2>1, <3>1
    <3>3. Flow' = <<>>
      BY <2>1, <3>1, <3>2 DEF Flow
    <3>4. line' = Return /\ unsent'["mouse"] = <<>> /\ device' = 4
      BY <2>1, <3>1
    <3> QED BY <3>3, <3>4 DEF Answering, Return
  <2>3. ClockRuns'
    BY <2>1 DEF ClockRuns, Return
  <2> QED BY <2>1, <2>2, <2>3, LateEnough DEF EarlyLines, Return
<1> QED BY <1>1, <1>2, <1>3, <1>4, <1>5, Prompts DEF StartScanning

(* The first answer to the reset is the first the driver counts, and the        *)
(* keyboard scans from line 237 on.                                             *)
LEMMA CountsInOrder ==
    ASSUME Untried /\ Scans, [Next]_vars
    PROVE  (Untried /\ Scans)'
<1> USE DEF Untried, Scans, Return
<1>1. CASE UNCHANGED vars
  BY <1>1 DEF vars, hardware, driver
<1>2. CASE (\E d \in Devices : Deliver(d)) \/ (\E b \in KeyBytes : Type(b)) \/ Take
  BY <1>2 DEF Deliver, Type, Take, driver
<1>3. CASE Configure
  BY <1>3 DEF Configure, ps2_write, Flush, Command, DetectChannels, WriteConfig, ps2_read, Step
<1>4. CASE SelfTest
  BY <1>4 DEF SelfTest, ps2_write, Command, DetectChannels, Read, ReadConfig, ps2_read, Step, WithTwo
<1>5. CASE PortTests
  BY <1>5 DEF PortTests, Command, Read, ps2_read, Step, WithTwo, Port2Test
<1>6. CASE EnableDevices
  BY <1>6 DEF EnableDevices, Command, ReadConfig, WriteConfig, MissConfig, ps2_write, ps2_read, Step, WithTwo
<1>7. CASE ResetDevices
  <2>1. line' \in {178, 189, 190, 194}
    BY <1>7 DEF ResetDevices, ps2_write, Read, ps2_read, Step, WithTwo
  <2> QED BY <2>1
<1>8. CASE DetectType
  <2>1. line' \in {195, 197, 200, 202, 206, 222, 237}
    BY <1>8 DEF DetectType, ps2_write, Read, Identify, ps2_read, Step, SecondAnswer
  <2> QED BY <2>1
<1>9. CASE StartScanning
  <2>1. CASE ps2_write(237, 1, \hF4, 239)
    <3>1. line' = 239 /\ Receive("keyboard", \hF4)
      BY <2>1 DEF ps2_write, Step
    <3>2. \hF4 \in {\hF4, \hF5, \hFF} /\ \hF4 # \hF5
      OBVIOUS
    <3>3. scanning' = (\hF4 # \hF5)
      BY <3>1, <3>2, Zenon DEF Receive
    <3>4. scanning' = TRUE
      BY <3>2, <3>3
    <3> QED BY <3>1, <3>4
  <2>2. CASE ReadConfig(239, 250, config \cap FinalBits) \/ ReadConfig(255, Return, data)
    <3>1. line \in {239, 255} /\ line' \in {250, 258} /\ scanning' = scanning
      BY <2>2 DEF ReadConfig, ps2_read, Step
    <3> QED BY <3>1
  <2>3. CASE WriteConfig(250, 253) \/ Command(253, \h20, 255)
    <3>1. line \in {250, 253} /\ line' \in {253, 255} /\ scanning' = scanning
      BY <2>3 DEF WriteConfig, Command, Execute, Step, hardware
    <3> QED BY <3>1
  <2> QED BY <1>9, <2>1, <2>2, <2>3 DEF StartScanning
<1> QED BY <1>1, <1>2, <1>3, <1>4, <1>5, <1>6, <1>7, <1>8, <1>9 DEF Next, ps2_init

(* No step of the system breaks QuietInv.                                       *)
LEMMA QuietStep ==
    ASSUME TypeOK, Prompt, QuietInv, Untried, [Next]_vars
    PROVE  QuietInv'
<1>1. CASE UNCHANGED vars
  <2>1. /\ machine' = machine /\ typed' = typed /\ ccb' = ccb /\ out' = out /\ unsent' = unsent
        /\ line' = line /\ config' = config /\ num_ports' = num_ports
        /\ retries' = retries /\ device' = device
    BY <1>1 DEF vars, hardware, driver
  <2>2. Quiet' = Quiet /\ ClockRuns' = ClockRuns
    BY <2>1 DEF Quiet, ClockRuns
  <2>p. Plain(ccb)' = Plain(ccb) /\ Plain(config)' = Plain(config)
    BY <2>1 DEF Plain
  <2>3. Preparing => Preparing'
    <3>1. Silent => Silent'
      BY <2>1 DEF Silent
    <3>2. (Behind(1) => Behind(1)') /\ (Behind(2) => Behind(2)')
      BY <2>1 DEF Behind, Plain
    <3> QED BY <2>1, <2>p, <3>1, <3>2 DEF Preparing
  <2>4. Answering => Answering'
    <3>1. Flow' = Flow /\ data' = data
      BY <2>1 DEF Flow, data
    <3> QED BY <2>1, <2>p, <3>1, SMTT(30) DEF Answering
  <2> QED BY <2>1, <2>2, <2>3, <2>4 DEF QuietInv
<1>2. CASE (\E d \in Devices : Deliver(d)) \/ (\E b \in KeyBytes : Type(b)) \/ Take
  BY <1>2, DevicesQuiet
<1>3. CASE ps2_init
  <2>1. Quiet' => Quiet
    <3>1. UNCHANGED <<machine, typed>>
      BY <1>3, DriverLeaves
    <3> QED BY <3>1 DEF Quiet
  <2>2. CASE Quiet
    BY <1>3, <2>2, ConfigureQuiet, SelfTestQuiet, PortTestsQuiet, EnableDevicesQuiet,
       ResetDevicesQuiet, DetectTypeQuiet, StartScanningQuiet DEF ps2_init
  <2>3. CASE ~ Quiet'
    BY <2>3 DEF QuietInv
  <2> QED BY <2>1, <2>2, <2>3
<1> QED BY <1>1, <1>2, <1>3 DEF Next

(* QuietInv is an invariant, with the lines at which nothing was retried and at *)
(* which the keyboard scans.                                                    *)
LEMMA QuietInvariant == Spec => [](TypeOK /\ Prompt /\ QuietInv /\ Untried /\ Scans)
<1>1. Init => TypeOK /\ Prompt /\ QuietInv /\ Untried /\ Scans
  <2> SUFFICES ASSUME Init PROVE TypeOK /\ Prompt /\ QuietInv /\ Untried /\ Scans
    OBVIOUS
  <2>1. line = 55 /\ retries = 0 /\ num_ports = 2 /\ unsent = [d \in Devices |-> <<>>]
    BY DEF Init
  <2>2. QuietInv
    BY <2>1 DEF QuietInv, Preparing, ClockRuns, Return, Devices
  <2>3. Prompt
    BY DEF Init, Prompt
  <2> QED BY <2>1, <2>2, <2>3, InitType DEF Untried, Scans, Return
<1>2. (TypeOK /\ Prompt /\ QuietInv /\ Untried /\ Scans) /\ [Next]_vars
        => (TypeOK /\ Prompt /\ QuietInv /\ Untried /\ Scans)'
  BY NextType, StaysPrompt, QuietStep, CountsInOrder
<1> QED BY <1>1, <1>2, PTL DEF Spec

(* KeyboardLeftOn: with a keyboard that works, devices that answer promptly and *)
(* nobody typing, the clock bit in what is read for the configuration is the controller's own, and *)
(* the keyboard is left with its clock running and scanning, on every such      *)
(* machine.                                                                     *)
THEOREM KeyboardOn == Spec => []KeyboardLeftOn
<1>1. QuietInv /\ Scans => KeyboardLeftOn
  BY DEF QuietInv, Quiet, ClockRuns, Scans, KeyboardLeftOn, Calm
<1> QED BY <1>1, QuietInvariant, PTL

(* InStepAtReturn: with one channel in use besides, every answer has been read  *)
(* when ps2_init returns, and the keyboard was recognised, on every such        *)
(* machine.                                                                     *)
THEOREM InStep == Spec => []InStepAtReturn
<1>1. TypeOK /\ QuietInv => InStepAtReturn
  <2> SUFFICES ASSUME TypeOK, QuietInv, Calm, num_ports = 1
               PROVE  device = 4 /\ out = <<>> /\ \A d \in Devices : unsent[d] = <<>>
    BY DEF InStepAtReturn
  <2>1. Answering /\ line = Return
    BY DEF QuietInv, Quiet, Calm
  <2>2. Flow = <<>> /\ device = 4 /\ unsent["mouse"] = <<>>
    BY <2>1 DEF Answering
  <2>3. out \in Seq(Byte) /\ unsent["keyboard"] \in Seq(Byte) /\ ACK \in Byte
    BY BytesAre DEF TypeOK, Devices
  <2>4. out = <<>> /\ unsent["keyboard"] = <<>>
    BY <2>2, <2>3, FlowIs DEF Flow
  <2> QED BY <2>2, <2>4 DEF Devices
<1> QED BY <1>1, QuietInvariant, PTL
================================================================================
