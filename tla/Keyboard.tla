------------------------------- MODULE Keyboard --------------------------------
(* What the keyboard driver promises, one scancode frame at a time: the keys    *)
(* send frames in order, each frame is decoded once, whole and in order, and    *)
(* the modifier flags and the key events follow the frames.  Ps2Kbd, where the  *)
(* frames are bytes fetched inside an interrupt handler, implements this.       *)
EXTENDS KbdDecode

CONSTANTS Keys,      (* the keys somebody presses: records [ext, code]          *)
          MaxFrames  (* bound: the frames under way from the keyboard           *)

(* A key's code is none of the prefixes: the handler tells a frame's bytes      *)
(* apart by that alone.                                                         *)
Codes == 1 .. 255 \ {Prefix.break, Prefix.extended}

KeyType == [ext : BOOLEAN, code : Codes]

ASSUME KeysAssumption ==
    /\ Keys \subseteq KeyType
    /\ MaxFrames \in Nat \ {0}

VARIABLES held,    (* the keys that are down                                    *)
          frames,  (* the frames sent and not yet decoded, oldest first         *)
          mods,    (* ps2kb_state: the fields that are true                     *)
          event    (* the last key_event given to shell_key                     *)

(* Auxiliary variables: what the decoded frames say of the keys.  Only          *)
(* properties read them.                                                        *)
VARIABLES seen,    (* the keys that are down                                    *)
          parted   (* those of them whose twin came up since their last make    *)

vars == <<held, frames, seen, parted, mods, event>>

Frame(k, down) == [ext |-> k.ext, down |-> down, code |-> k.code]

KeyOf(f) == [ext |-> f.ext, code |-> f.code]

NoEvent == [utf8 |-> NoChar, code |-> KEY_NONE, flags |-> {}]

Init ==
    /\ held = {} /\ frames = <<>> /\ seen = {} /\ parted = {}
    /\ mods = {} /\ event = NoEvent
--------------------------------------------------------------------------------
Send(k, down) ==
    /\ Len(frames) < MaxFrames
    /\ frames' = Append(frames, Frame(k, down))
    /\ UNCHANGED <<seen, parted, mods, event>>

(* A make code when a key goes down, again while it is kept down (typematic     *)
(* repeat), and a break code when it comes up.                                  *)
Press(k) ==
    /\ Send(k, TRUE)
    /\ held' = held \cup {k}

Release(k) ==
    /\ k \in held
    /\ Send(k, FALSE)
    /\ held' = held \ {k}

(* Fault: the handler flushes the controller's buffer, as ps2_init does.        *)
FramesLeftFlushed == <<>>

FramesLeft == Tail(frames)

(* The keys that are down, as far as the frames up to f say.                    *)
SeenAfter(f) == IF f.down THEN seen \cup {KeyOf(f)} ELSE seen \ {KeyOf(f)}

(* Twins are the two keys of one code, with and without the prefix E0.  A key   *)
(* that is down parts from its twin when the twin comes up, until its own next  *)
(* frame.                                                                       *)
Twins(k) == {twin \in Keys \ {k} : twin.code = k.code}

PartedAfter(f) ==
    (IF f.down THEN parted ELSE parted \cup (seen \cap Twins(KeyOf(f)))) \ {KeyOf(f)}

(* One run of ps2kb_handler.                                                    *)
Decode ==
    /\ frames # <<>>
    /\ mods' = ModifiersAfter(mods, Head(frames))
    /\ event' = EventOf(mods', Head(frames))
    /\ seen' = SeenAfter(Head(frames))
    /\ parted' = PartedAfter(Head(frames))
    /\ frames' = FramesLeft
    /\ UNCHANGED held

Next ==
    \/ \E k \in Keys : Press(k) \/ Release(k)
    \/ Decode

Spec == Init /\ [][Next]_vars
--------------------------------------------------------------------------------
(* Properties *)

FrameType == [ext : BOOLEAN, down : BOOLEAN, code : Codes]

EventType ==
    [utf8  : {NoChar} \cup ({"default", "shift"} \X (1 .. 255)),
     code  : 0 .. 255,
     flags : SUBSET {"special", "control", "shift", "alt", "mod", "down"}]

(* The values of the variables.                                                 *)
TypeOK ==
    /\ held \subseteq Keys
    /\ frames \in Seq(FrameType) /\ Len(frames) <= MaxFrames
    /\ \A i \in 1 .. Len(frames) : KeyOf(frames[i]) \in Keys
    /\ seen \subseteq Keys /\ parted \subseteq seen
    /\ mods \subseteq Names
    /\ event \in EventType

(* The fields of ps2kb_state a key drives: the second switch of the handler     *)
(* does not look at the prefix, so the keys behind E0 drive the fields of their *)
(* unprefixed twins too.                                                        *)
Drives(k, field) ==
    \/ field = "lshift" /\ k.code = LSHF
    \/ field = "rshift" /\ k.code = RSHF
    \/ field = "lctrl" /\ k.code = LCTL
    \/ field = "rctrl" /\ k.code = LCTL /\ k.ext
    \/ field = "lalt" /\ k.code = LALT
    \/ field = "ralt" /\ k.code = LALT /\ k.ext
    \/ field = "mod" /\ k.code = MOD

(* No field is on unless a key that drives it is down, whatever order the keys  *)
(* came and went in: no modifier appears that nobody holds.                     *)
NoPhantomModifier == \A field \in mods : \E k \in seen : Drives(k, field)

(* A key that is down has its fields on.  The one way a held modifier is lost:  *)
(* a twin that drives the same field came up after the key's last make frame,   *)
(* and took the field along (the right control takes lctrl from the left one).  *)
(* What only the one key drives, rctrl and ralt, it never loses, and a repeat   *)
(* brings back what the twin took.                                              *)
HeldModifierReported ==
    \A k \in seen, field \in Names :
        Drives(k, field) /\ field \notin mods
            => k \in parted /\ \E twin \in Twins(k) : Drives(twin, field)

(* Once every key has come up again and the handler has caught up, no modifier  *)
(* is left on: the next letter prints as that letter.                           *)
NoStuckModifier == held = {} /\ frames = <<>> => mods = {}

(* The physical state of the keys and the decoded one never drift apart: they   *)
(* differ by the frames still under way and by nothing else.                    *)
SeenCatchesUp ==
    \A k \in Keys :
        (\A i \in 1 .. Len(frames) : KeyOf(frames[i]) # k) => (k \in seen <=> k \in held)

(* A step makes shell_key print a character only by decoding a make frame, and  *)
(* while a control or alt field is on it prints none: ^A is not an A.           *)
CharOnlyUnmodified ==
    [][event' # event /\ ShellEcho(event')[1] = "char" =>
          /\ Head(frames).down
          /\ ~ Head(frames).ext
          /\ mods' \cap {"lctrl", "rctrl", "lalt", "ralt", "mod"} = {}]_vars
================================================================================
