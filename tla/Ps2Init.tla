-------------------------------- MODULE Ps2Init --------------------------------
(* ps2_init (kernel/arch/i386/ps2_controller.c), which kernel_early runs with   *)
(* interrupts off.  The driver sends commands to the controller and bytes to    *)
(* the keyboard and the mouse, and polls for each answer with ps2_read, which   *)
(* takes whatever byte comes next for the one it waits for.  line is the line   *)
(* of the source to be executed next.                                           *)
(*                                                                              *)
(* A byte is the set of its bits that are 1.                                    *)
EXTENDS Naturals, Sequences

CONSTANTS Machines,  (* the machines the system is started on                   *)
          KeyBytes,  (* the scancodes of the keys somebody presses meanwhile    *)
          MaxKeys    (* bound: how many such bytes there are                    *)

Byte == SUBSET (0 .. 7)

(* late: the devices and the controller take their time.  queues: a reply finds *)
(* room behind a full output buffer, and what is written is taken at once; else *)
(* the reply is lost, and a controller that is late has to be waited for.       *)
(* keyboard, mouse: the device may be missing (silent); the keyboard may ask    *)
(* for every byte again (refuses), the mouse may say nothing to a byte it does  *)
(* not know (ignores).                                                          *)
MachineType == [late : BOOLEAN, queues : BOOLEAN,
                keyboard : {"works", "silent", "refuses"},
                mouse : {"works", "ignores", "silent"}]

ASSUME Ps2InitAssumption ==
    /\ Machines \subseteq MachineType
    /\ KeyBytes \subseteq Byte
    /\ MaxKeys \in Nat

VARIABLES machine,   (* what differs from machine to machine                    *)
          ccb,       (* the controller's configuration byte                     *)
          out,       (* its output buffer, and the replies waiting behind it    *)
          busy,      (* it has yet to take what was written to it last          *)
          reply,     (* what it will reply when it has                          *)
          unsent,    (* what each device has still to send                      *)
          scanning,  (* the keyboard sends what is typed                        *)
          typed,     (* history: how many bytes were typed                      *)
          line,
          config, num_ports, retries,
          device     (* the device reported: an index of devices[], or Unknown  *)

hardware == <<machine, ccb, out, busy, reply, unsent, scanning, typed>>

driver == <<line, config, num_ports, retries, device>>

vars == <<hardware, driver>>

Bits(n) == {i \in 0 .. 7 : (n \div 2^i) % 2 = 1}

ACK == Bits(\hFA)

RESEND == Bits(\hFE)

KEYBOARD == Bits(\hAB)

Unknown == 5

Return == 258

Devices == {"keyboard", "mouse"}

(* The boot loader leaves the system flag set, the keyboard's interrupt on and  *)
(* the keyboard scanning.                                                       *)
Init ==
    /\ machine \in Machines
    /\ ccb \in {{0, 2} \cup b : b \in SUBSET (4 .. 6)}
    /\ out = <<>> /\ busy = FALSE /\ reply = <<>>
    /\ unsent = [d \in Devices |-> <<>>]
    /\ scanning = TRUE
    /\ typed = 0
    /\ line = 55
    /\ config = {} /\ num_ports = 2 /\ retries = 0 /\ device = Unknown
--------------------------------------------------------------------------------
(* The controller and the devices *)

(* Bit 4 stops the keyboard's clock and bit 5 the mouse's.                      *)
ClockBit(d) == IF d = "keyboard" THEN 4 ELSE 5

(* Bit 6 has the keyboard's bytes translated; here that shows in its identity.  *)
Translated(b) == IF 6 \in ccb /\ b = Bits(\h83) THEN Bits(\h41) ELSE b

CanDeliver(d) == unsent[d] # <<>> /\ out = <<>> /\ ClockBit(d) \notin ccb

Deliver(d) ==
    /\ CanDeliver(d)
    /\ out' = <<IF d = "keyboard" THEN Translated(Head(unsent[d])) ELSE Head(unsent[d])>>
    /\ unsent' = [unsent EXCEPT ![d] = Tail(@)]
    /\ UNCHANGED <<machine, ccb, busy, reply, scanning, typed, driver>>

Type(b) ==
    /\ machine.keyboard = "works" /\ scanning /\ typed < MaxKeys /\ line # Return
    /\ unsent' = [unsent EXCEPT !["keyboard"] = Append(@, b)]
    /\ typed' = typed + 1
    /\ UNCHANGED <<machine, ccb, out, busy, reply, scanning, driver>>

Answer(d, n) ==
    CASE machine[d] = "silent" -> <<>>
      [] machine[d] = "refuses" -> <<RESEND>>
      [] machine[d] \in {"works", "ignores"} ->
            CASE n = \hFF /\ d = "keyboard" -> <<ACK, Bits(\hAA)>>
              [] n = \hFF /\ d = "mouse" -> <<ACK, Bits(\hAA), {}>>
              [] n = \hF2 -> <<ACK, KEYBOARD, Bits(\h83)>>
              [] n \in {\hF4, \hF5} -> <<ACK>>
              [] OTHER -> IF machine[d] = "ignores" THEN <<>> ELSE <<RESEND>>

(* The controller that has to be waited for: until it has taken a byte it does  *)
(* not see the next one.                                                        *)
Slow == machine.late /\ ~ machine.queues

(* A byte for a device, which starts its clock; 0xFF and 0xF5 make it drop what *)
(* it has not sent yet.                                                         *)
Receive(d, n) ==
    /\ ccb' = ccb \ {ClockBit(d)}
    /\ unsent' = [unsent EXCEPT ![d] =
                    (IF n \in {\hFF, \hF5} THEN <<>> ELSE @) \o Answer(d, n)]
    /\ scanning' = IF d = "keyboard" /\ n \in {\hF4, \hF5, \hFF} THEN n # \hF5 ELSE scanning
    /\ busy' = Slow
    /\ UNCHANGED <<machine, typed>>

Reply(n) ==
    CASE n = \h20 -> <<ccb>>
      [] n = \hAA -> <<Bits(\h55)>>
      [] n \in {\hA9, \hAB} -> <<{}>>
      [] n = \hA7 -> <<>>

Replied(r) == out' = IF out = <<>> \/ machine.queues THEN out \o r ELSE out

Execute(n) ==
    /\ IF Slow THEN reply' = Reply(n) /\ UNCHANGED out
               ELSE Replied(Reply(n)) /\ UNCHANGED reply
    /\ busy' = Slow
    /\ ccb' = IF n = \hA7 THEN ccb \cup {5} ELSE ccb
    /\ UNCHANGED <<machine, unsent, scanning, typed>>

(* It has taken the byte.                                                       *)
Take ==
    /\ busy
    /\ busy' = FALSE
    /\ Replied(reply) /\ reply' = <<>>
    /\ UNCHANGED <<machine, ccb, unsent, scanning, typed, driver>>
--------------------------------------------------------------------------------
(* The driver's inputs and outputs *)

(* A device that is not late has answered by the time the driver is at a line.  *)
Step(here, next) ==
    /\ line = here
    /\ machine.late \/ \A d \in Devices : ~ CanDeliver(d)
    /\ line' = next

(* outb(CMD_PORT, n), which does not wait for a controller that is busy: the    *)
(* command is lost on it.                                                       *)
Command(here, n, next) ==
    /\ Step(here, next)
    /\ IF busy THEN UNCHANGED hardware ELSE Execute(n)
    /\ UNCHANGED <<config, num_ports, retries, device>>

(* A command that says where the next byte goes is lost; the byte is written    *)
(* when the controller has taken the one before, and goes to the keyboard.      *)
Astray(n) ==
    /\ busy
    /\ Replied(reply) /\ reply' = <<>>
    /\ Receive("keyboard", n)

(* ps2_write: its first argument stands for a port only if that is 2.           *)
ps2_write(here, port, n, next) ==
    /\ Step(here, next)
    /\ \/ /\ ~ busy
          /\ Receive(IF port = 2 THEN "mouse" ELSE "keyboard", n)
          /\ UNCHANGED <<out, reply>>
       \/ port = 2 /\ Astray(n)
    /\ UNCHANGED <<config, num_ports, retries, device>>

(* Command 0x60 and ps2_write of the configuration byte it asks for.            *)
WriteConfig(here, next) ==
    /\ Step(here, next)
    /\ ~ busy
    /\ ccb' = config
    /\ busy' = Slow
    /\ UNCHANGED <<machine, out, reply, unsent, scanning, typed>>
    /\ UNCHANGED <<config, num_ports, retries, device>>

(* The same where the driver does not wait in front of the command.  Of the     *)
(* configuration bytes read by then the keyboard knows 0xFF only.               *)
MissConfig(here, next) ==
    /\ Step(here, next)
    /\ Astray(IF config = 0 .. 7 THEN \hFF ELSE 0)
    /\ UNCHANGED <<config, num_ports, retries, device>>

data == Head(out)

ps2_read(here, next) ==
    /\ out # <<>>
    /\ Step(here, next)
    /\ out' = Tail(out)
    /\ UNCHANGED <<machine, ccb, busy, reply, unsent, scanning, typed>>

Read(here, next) ==
    ps2_read(here, next) /\ UNCHANGED <<config, num_ports, retries, device>>

ReadConfig(here, next, value) ==
    ps2_read(here, next) /\ config' = value /\ UNCHANGED <<num_ports, retries, device>>

(* Bit 5 is taken for a controller of one channel.                              *)
DetectChannels(here, next, value) ==
    /\ ps2_read(here, next)
    /\ config' = value
    /\ num_ports' = IF 5 \in data THEN 1 ELSE 2
    /\ UNCHANGED <<retries, device>>

WithTwo(next, otherwise) == IF num_ports = 2 THEN next ELSE otherwise

CMD_PORT == \h64
--------------------------------------------------------------------------------
(* ps2_init *)

(* Fault: the flush is left out.                                                *)
FlushSkipped ==
    /\ Step(58, 64)
    /\ UNCHANGED <<hardware, config, num_ports, retries, device>>

(* The loop that empties the output buffer.                                     *)
Flush ==
    /\ Step(58, IF out = <<>> THEN 64 ELSE 58)
    /\ out' = IF out = <<>> THEN <<>> ELSE Tail(out)
    /\ UNCHANGED <<machine, ccb, busy, reply, unsent, scanning, typed>>
    /\ UNCHANGED <<config, num_ports, retries, device>>

Configure ==
    \/ ps2_write(55, CMD_PORT, \hAD, 56)
    \/ ps2_write(56, CMD_PORT, \hA7, 58)
    \/ Flush
    \/ Command(64, \h20, 65)
    \/ DetectChannels(65, 90, data \cap (0 .. 5))
    \/ WriteConfig(90, 114)

SelfTest ==
    \/ Command(114, \h20, 118)
    \/ ReadConfig(118, 124, data)
    \/ Command(124, \hAA, 125)
    \/ Read(125, IF data = RESEND THEN 125 ELSE WithTwo(137, 151))
    \/ ps2_write(137, 2, \hA8, 139)
    \/ Command(139, \h20, 140)
    \/ DetectChannels(140, IF 5 \in data THEN 146 ELSE 151, data)
    \/ Command(146, \hA7, 151)

(* Fault: the braces are missing, and the answer is read without the command.   *)
Port2TestUnbraced == WithTwo(158, 159)

Port2Test == WithTwo(158, 165)

PortTests ==
    \/ Command(151, \hAB, 152)
    \/ Read(152, Port2Test)
    \/ Command(158, \hA9, 159)
    \/ Read(159, 165)

EnableDevices ==
    \/ Command(165, \h20, 166)
    \/ ReadConfig(166, 168, data \cup {0, 1})
    \/ WriteConfig(168, 172)
    \/ MissConfig(168, 172)
    \/ ps2_write(172, 1, \hAE, WithTwo(173, 177))
    \/ ps2_write(173, 2, \hA8, 177)

(* Fault: no limit to the retries.                                              *)
ResetAnsweredOnly == data = ACK

(* At most three answers of the keyboard are read.                              *)
ResetAnswered == data = ACK \/ retries = 2

ResetDevices ==
    \/ ps2_write(177, 1, \hFF, 178)
    \/ /\ ps2_read(178, IF ResetAnswered THEN WithTwo(189, 194) ELSE 178)
       /\ retries' = IF ResetAnswered THEN retries ELSE retries + 1
       /\ UNCHANGED <<config, num_ports, device>>
    \/ ps2_write(189, 2, \hFF, 190)
    \/ Read(190, 194)

(* The device named for the answer at a line of the switch.                     *)
Named(here) ==
    CASE here # 222 /\ data = {} -> 0
      [] here # 222 /\ data = Bits(\h03) -> 1
      [] here # 222 /\ data = Bits(\h04) -> 2
      [] here = 222 /\ data \in {Bits(\h41), Bits(\hC1)} -> 3
      [] here = 222 /\ data = Bits(\h83) -> 4
      [] OTHER -> Unknown

Identify(here, next) ==
    /\ ps2_read(here, next)
    /\ device' = Named(here)
    /\ UNCHANGED <<config, num_ports, retries>>

(* Fault: a second answer is read whatever the first one was.                   *)
SecondAnswerAlways == 206

SecondAnswer == IF data = KEYBOARD THEN 222 ELSE IF data = {} THEN 237 ELSE 206

DetectType ==
    \/ ps2_write(194, 1, \hF5, 195)
    \/ Read(195, IF data = ACK THEN 197 ELSE 195)
    \/ ps2_write(197, 1, \hF2, 200)
    \/ Read(200, IF data = ACK THEN 202 ELSE 200)
    \/ Identify(202, SecondAnswer)
    \/ Identify(206, IF data = KEYBOARD THEN 222 ELSE 237)
    \/ Identify(222, 237)

(* Fault: bit 6 is kept.                                                        *)
FinalBitsTranslating == {0, 2, 4, 5, 6}

FinalBits == {0, 2, 4, 5}

StartScanning ==
    \/ ps2_write(237, 1, \hF4, 239)
    \/ ReadConfig(239, 250, config \cap FinalBits)
    \/ WriteConfig(250, 253)
    \/ Command(253, \h20, 255)
    \/ ReadConfig(255, Return, data)

ps2_init ==
    \/ Configure \/ SelfTest \/ PortTests \/ EnableDevices
    \/ ResetDevices \/ DetectType \/ StartScanning

Next ==
    \/ \E d \in Devices : Deliver(d)
    \/ \E b \in KeyBytes : Type(b)
    \/ Take
    \/ ps2_init

(* The driver goes on when it can, a device sends what it has to send, and the  *)
(* controller takes what is written to it.                                      *)
Spec ==
    /\ Init
    /\ [][Next]_vars
    /\ WF_vars(ps2_init)
    /\ \A d \in Devices : WF_vars(Deliver(d))
    /\ WF_vars(Take)
--------------------------------------------------------------------------------
(* Properties *)

(* The values of the variables.                                                 *)
TypeOK ==
    /\ machine \in Machines
    /\ ccb \in Byte /\ config \in Byte
    /\ {out, reply} \subseteq Seq(Byte) /\ unsent \in [Devices -> Seq(Byte)]
    /\ busy \in BOOLEAN
    /\ scanning \in BOOLEAN /\ typed \in 0 .. MaxKeys
    /\ num_ports \in {1, 2} /\ retries \in 0 .. 2 /\ device \in 0 .. Unknown

(* The reads of the controller's replies.                                       *)
ReplyLines == {65, 118, 125, 140, 152, 159, 166, 255}

(* ps2_init polls for every answer without bound and takes stray bytes, answers *)
(* to what was no command and keys typed meanwhile, for answers.  With a        *)
(* keyboard that works it returns all the same, with a mouse or without, or     *)
(* else a controller that is slow was given a command too early and the driver  *)
(* waits for its reply: that is how "config = ps2_read(); // BLOCKING HERE"     *)
(* (ps2_controller.c:140) comes true, for 0x20 follows on 0xA8 at once.  With   *)
(* no keyboard, or one that takes no byte, the boot ends in a loop that waits   *)
(* for an ACK of it.                                                            *)
InitReturns ==
    /\ machine.keyboard = "works" =>
          <>[](line = Return \/ (Slow /\ line \in ReplyLines))
    /\ machine.keyboard # "works" /\ ~ Slow =>
          <>[](line \in {178, 195, 200})

(* Whatever bytes were read for the configuration, when ps2_init returns the    *)
(* keyboard's interrupt is on, the mouse's is off, and scancodes are not        *)
(* translated, which is what ps2kb_handler is written for.                      *)
OnlyKeyboardInterrupts == line = Return => 0 \in ccb /\ ccb \cap {1, 6} = {}

(* With a keyboard that works, devices that answer promptly and nobody typing,  *)
(* the keyboard is left on: its clock is not stopped and it is scanning.        *)
Calm == machine.keyboard = "works" /\ ~ machine.late /\ typed = 0 /\ line = Return

KeyboardLeftOn == Calm => 4 \notin ccb /\ scanning

(* With one channel in use the driver is then back in step with the answers, in *)
(* spite of those nobody asked for: the keyboard is recognised, and no byte is  *)
(* left that ps2kb_handler would take for a scancode.                           *)
InStepAtReturn ==
    Calm /\ num_ports = 1 =>
        /\ device = 4
        /\ out = <<>> /\ \A d \in Devices : unsent[d] = <<>>
================================================================================
