-------------------------------- MODULE Ps2Kbd ---------------------------------
(* The keyboard from the wire to the shell: the device's serial line, the       *)
(* one-byte output buffer of the PS/2 controller, interrupt line 1, and         *)
(* ps2kb_handler (ps2kb.c), which fetches the bytes of a frame one by one with  *)
(* ps2_read (ps2_controller.c), polling with interrupts off.  The boot sequence *)
(* of kernel_early (kernel.c) is here as far as interrupts are concerned, and   *)
(* the timer on line 0 competes for the processor.                              *)
(*                                                                              *)
(* The module composes IrqDispatch, whose actions it takes for the interrupt    *)
(* path, and implements both IrqDispatch and Keyboard.                          *)
EXTENDS Pic, KbdDecode, SequencesExt

CONSTANTS Keys, MaxFrames

VARIABLES pic, ifl, irq_routines, pc, int_no,  (* as in IrqDispatch             *)
          held, frames, mods, event,           (* as in Keyboard; here held and *)
          seen, parted,                        (* frames are auxiliary, too     *)
          stage,  (* the next step of kernel_early                              *)
          wire,   (* the bytes the device has still to send                     *)
          obuf,   (* the controller's output buffer                             *)
          scan    (* the bytes this run of ps2kb_handler has read               *)

irqVars == <<pic, ifl, irq_routines, pc, int_no>>

kbdVars == <<held, frames, seen, parted, mods, event>>

ioVars == <<stage, wire, obuf, scan>>

vars == <<irqVars, kbdVars, ioVars>>

TimerIrq == 0

KeyboardIrq == 1

Dispatcher ==
    INSTANCE IrqDispatch WITH
        Lines     <- {TimerIrq, KeyboardIrq},
        Handlers  <- {"timer_handler", "ps2kb_handler"},
        NoHandler <- "none"

Promise == INSTANCE Keyboard

ASSUME Ps2KbdAssumption ==
    /\ Keys \subseteq Promise!KeyType
    /\ MaxFrames \in Nat \ {0}

Stages == {"timer_install", "ps2_init", "ps2_init_reply", "ps2kb_init", "sti", "kernel_main"}

ACK == 250

Init ==
    /\ Dispatcher!Init /\ Promise!Init
    /\ stage = "timer_install"
    /\ wire = <<>> /\ obuf = <<>> /\ scan = <<>>
--------------------------------------------------------------------------------
(* kernel_early, from timer_install to sti *)

TimerInstall ==
    /\ stage = "timer_install"
    /\ stage' = "ps2_init"
    /\ Dispatcher!InstallHandler(TimerIrq, "timer_handler")
    /\ UNCHANGED <<kbdVars, wire, obuf, scan>>

(* ps2_init sends commands and polls for each device's answer; of this exchange *)
(* one answer is kept, for what it leaves behind in the interrupt controller.   *)
Ps2Init ==
    /\ stage = "ps2_init"
    /\ stage' = "ps2_init_reply"
    /\ wire' = Append(wire, ACK)
    /\ UNCHANGED <<irqVars, kbdVars, obuf, scan>>

(* Fault: the byte is acknowledged like an interrupt.                           *)
LineAfterReadEoi == MasterEoi(LowerLine(pic, KeyboardIrq))

LineAfterRead == LowerLine(pic, KeyboardIrq)

(* ps2_read: wait for the output buffer to be full, take the byte.  The         *)
(* controller lets its line drop.                                               *)
Ps2Read ==
    /\ obuf # <<>>
    /\ obuf' = <<>>
    /\ pic' = LineAfterRead
    /\ UNCHANGED <<ifl, irq_routines, pc, int_no>>

Ps2InitReply ==
    /\ stage = "ps2_init_reply"
    /\ stage' = "ps2kb_init"
    /\ Ps2Read
    /\ UNCHANGED <<kbdVars, wire, scan>>

(* Fault: the handler is installed for the timer's line.                        *)
HandledIrqTimer == TimerIrq

HandledIrq == KeyboardIrq

(* ps2kb_init leaves ps2kb_state.mod as it is.                                  *)
Ps2kbInit ==
    /\ stage = "ps2kb_init"
    /\ stage' = "sti"
    /\ Dispatcher!InstallHandler(HandledIrq, "ps2kb_handler")
    /\ mods' = mods \cap {"mod"}
    /\ UNCHANGED <<held, frames, seen, parted, event, wire, obuf, scan>>

Sti ==
    /\ stage = "sti"
    /\ stage' = "kernel_main"
    /\ Dispatcher!Sti
    /\ UNCHANGED <<kbdVars, wire, obuf, scan>>
--------------------------------------------------------------------------------
(* The devices *)

(* The channel of the timer is a square wave from before the kernel starts.     *)
Pit ==
    /\ Dispatcher!RaiseIrq(TimerIrq) \/ Dispatcher!LowerIrq(TimerIrq)
    /\ UNCHANGED <<kbdVars, ioVars>>

(* Keys are pressed once ps2_init is through with the device.                   *)
Key ==
    /\ stage \in {"ps2kb_init", "sti", "kernel_main"}
    /\ \E k \in Keys : Promise!Press(k) \/ Promise!Release(k)
    /\ wire' = wire \o Encode(Last(frames'))
    /\ UNCHANGED <<irqVars, stage, obuf, scan>>

(* The next byte reaches the controller when its buffer is free, and raises     *)
(* line 1.                                                                      *)
Transfer ==
    /\ wire # <<>>
    /\ obuf = <<>>
    /\ obuf' = <<Head(wire)>>
    /\ wire' = Tail(wire)
    /\ Dispatcher!RaiseIrq(KeyboardIrq)
    /\ UNCHANGED <<kbdVars, stage, scan>>
--------------------------------------------------------------------------------
(* The interrupt path and the two handlers *)

Running(handler) ==
    /\ pc = "handler"
    /\ irq_routines[int_no - MasterBase] = handler

InterruptPath ==
    /\ \/ Dispatcher!Accept \/ Dispatcher!Enter \/ Dispatcher!Dispatch
       \/ Dispatcher!EoiSlave \/ Dispatcher!EoiMaster \/ Dispatcher!Iret
    /\ UNCHANGED <<kbdVars, ioVars>>

TimerHandler ==
    /\ Running("timer_handler")
    /\ Dispatcher!HandlerReturns
    /\ UNCHANGED <<kbdVars, ioVars>>

(* Fault: each byte takes the place of the one before.                          *)
ScanWithOnly == obuf

ScanWith == scan \o obuf

(* One of the ps2_read calls at the head of ps2kb_handler.                      *)
ReadScancode ==
    /\ Running("ps2kb_handler")
    /\ ~ IsWhole(scan)
    /\ Ps2Read
    /\ scan' = ScanWith
    /\ UNCHANGED <<kbdVars, stage, wire>>

(* The rest of ps2kb_handler.                                                   *)
Decode ==
    /\ Running("ps2kb_handler")
    /\ IsWhole(scan)
    /\ mods' = ModifiersAfter(mods, FrameOf(scan))
    /\ event' = EventOf(mods', FrameOf(scan))
    /\ seen' = Promise!SeenAfter(FrameOf(scan))
    /\ parted' = Promise!PartedAfter(FrameOf(scan))
    /\ frames' = Tail(frames)
    /\ scan' = <<>>
    /\ Dispatcher!HandlerReturns
    /\ UNCHANGED <<held, stage, wire, obuf>>
--------------------------------------------------------------------------------
Boot == TimerInstall \/ Ps2Init \/ Ps2InitReply \/ Ps2kbInit \/ Sti

Processor == InterruptPath \/ TimerHandler \/ ReadScancode \/ Decode

Next == Boot \/ Pit \/ Key \/ Transfer \/ Processor

(* The processor goes on when it can, the controller passes bytes on and the    *)
(* square wave does not stop.  Nobody has to press a key.                       *)
Spec ==
    /\ Init /\ [][Next]_vars
    /\ WF_vars(Boot) /\ WF_vars(Processor) /\ WF_vars(Transfer) /\ WF_vars(Pit)
--------------------------------------------------------------------------------
(* Properties *)

(* The values of the variables; those of IrqDispatch and Keyboard have theirs   *)
(* there.                                                                       *)
TypeOK ==
    /\ Dispatcher!TypeOK
    /\ Promise!TypeOK
    /\ stage \in Stages
    /\ wire \in Seq(1 .. 255)
    /\ obuf \in {<<>>} \cup {<<b>> : b \in 1 .. 255}
    /\ scan \in Seq(1 .. 255) /\ Len(scan) <= 3

(* The bytes are those of the frames fs, one after the other; cut says where    *)
(* each ends.                                                                   *)
Encodes(bytes, fs) ==
    \E cut \in [0 .. Len(fs) -> 0 .. Len(bytes)] :
        /\ cut[0] = 0 /\ cut[Len(fs)] = Len(bytes)
        /\ \A i \in 1 .. Len(fs) :
              /\ cut[i] = cut[i - 1] + Len(Encode(fs[i]))
              /\ \A j \in 1 .. Len(Encode(fs[i])) : bytes[cut[i - 1] + j] = Encode(fs[i])[j]

(* No byte is lost, doubled, reordered or counted to the wrong frame on its way *)
(* through the controller and the polled reads: what the handler has read of    *)
(* the frame, the buffer and the wire make up the frames not yet decoded.       *)
FrameSync ==
    stage \in {"ps2kb_init", "sti", "kernel_main"} =>
        Encodes(scan \o (obuf \o wire), frames)

(* Seen from the keyboard's side the driver decodes each frame once, whole and  *)
(* in order, however interrupts, polled reads and the timer interleave.         *)
ImplementsKeyboard == Promise!Spec

(* The interrupt path is IrqDispatch's, with the handlers, the boot sequence and *)
(* the polling between its steps.  Where a request goes with its line it is so  *)
(* in IrqDispatch's liveness, too: the handlers return, and every interrupt.    *)
ImplementsDispatch ==
    /\ Dispatcher!Init /\ [][Dispatcher!Next]_irqVars
    /\ ~ pic.keeps => WF_irqVars(Dispatcher!Interrupt)

(* A byte in the buffer is always announced by a latched request, on a line     *)
(* that is not masked, unless the handler is about to fetch it: no lost edge    *)
(* leaves the keyboard mute.                                                    *)
ByteAnnounced ==
    obuf # <<>> =>
        \/ KeyboardIrq \in pic.irr \ Mask
        \/ pc \in {"irq_handler", "handler"} /\ KeyboardIrq \in pic.isr

(* "reads from peripherals only when data is received (instead of polling)"     *)
(* (README.md) is true where a request goes with its line: when ps2kb_handler   *)
(* starts there is a byte for it.                                               *)
HandlerHasData ==
    ~ pic.keeps /\ Running("ps2kb_handler") /\ scan = <<>> => obuf # <<>>

(* As long as the processor now and then has no interrupt to take, what is      *)
(* typed is decoded.                                                            *)
FramesDecoded ==
    []<>(pc = "main" /\ Pending(pic) = {})
        => []<>(frames = <<>>) \/ []<><<Decode>>_vars

(* "Initialise a timer to be able to keep track of timing" (README.md): a tick  *)
(* does not wait for ever on the keyboard.                                      *)
TicksServed == (stage = "kernel_main" /\ TimerIrq \in pic.irr) ~> (TimerIrq \notin pic.irr)
================================================================================
