----------------------------- MODULE KeyboardProofs ----------------------------
(* Proofs about Keyboard, for every set of keys.                                *)
EXTENDS Keyboard, TLAPS, SequenceTheorems

(* The part of TypeOK the proofs need.                                          *)
FramesTyped ==
    /\ held \subseteq Keys /\ seen \subseteq Keys /\ mods \subseteq Names
    /\ frames \in Seq(FrameType)
    /\ \A i \in 1 .. Len(frames) : KeyOf(frames[i]) \in Keys

(* SeenCatchesUp is not inductive: a frame that is decoded must have told the   *)
(* truth.  The last frame of a key under way says whether the key is down now.  *)
IsLastOf(k, i) ==
    /\ KeyOf(frames[i]) = k
    /\ \A j \in i + 1 .. Len(frames) : KeyOf(frames[j]) # k

LastFrameIsTrue ==
    \A k \in Keys : \A i \in 1 .. Len(frames) :
        IsLastOf(k, i) => (frames[i].down <=> k \in held)

IInv ==
    /\ FramesTyped
    /\ NoPhantomModifier
    /\ HeldModifierReported
    /\ LastFrameIsTrue
    /\ SeenCatchesUp

(* What the two switches of ps2kb_handler come to: a frame puts the fields its  *)
(* key drives to its own direction and leaves the others alone.                 *)
LEMMA ModifiersAfterIs ==
    ASSUME NEW state, state \subseteq Names, NEW f \in FrameType
    PROVE  /\ ModifiersAfter(state, f) \subseteq Names
           /\ \A field \in Names :
                field \in ModifiersAfter(state, f)
                    <=> IF Drives(KeyOf(f), field) THEN f.down ELSE field \in state
<1>1. /\ f.ext \in BOOLEAN /\ f.down \in BOOLEAN
      /\ KeyOf(f).ext = f.ext /\ KeyOf(f).code = f.code
  BY DEF FrameType, KeyOf
<1>2. CASE f.code = LSHF
  BY <1>1, <1>2 DEF ModifiersAfter, SetTo, Drives, Names, LSHF, LCTL, LALT, RSHF, MOD
<1>3. CASE f.code = RSHF
  BY <1>1, <1>3 DEF ModifiersAfter, SetTo, Drives, Names, LSHF, LCTL, LALT, RSHF, MOD
<1>4. CASE f.code = LCTL
  BY <1>1, <1>4 DEF ModifiersAfter, SetTo, Drives, Names, LSHF, LCTL, LALT, RSHF, MOD
<1>5. CASE f.code = LALT
  BY <1>1, <1>5 DEF ModifiersAfter, SetTo, Drives, Names, LSHF, LCTL, LALT, RSHF, MOD
<1>6. CASE f.code = MOD
  BY <1>1, <1>6 DEF ModifiersAfter, SetTo, Drives, Names, LSHF, LCTL, LALT, RSHF, MOD
<1>7. CASE f.code \notin {LSHF, RSHF, LCTL, LALT, MOD}
  BY <1>1, <1>7 DEF ModifiersAfter, SetTo, Drives, Names
<1> QED BY <1>2, <1>3, <1>4, <1>5, <1>6, <1>7

(* A key and its twin: two keys that drive the same field have the same code.   *)
LEMMA SameFieldSameCode ==
    ASSUME NEW k \in KeyType, NEW l \in KeyType, NEW field \in Names,
           Drives(k, field), Drives(l, field)
    PROVE  k.code = l.code
BY DEF Drives, Names

LEMMA KeyOfTyped ==
    ASSUME NEW f \in FrameType
    PROVE  KeyOf(f) \in KeyType
BY DEF FrameType, KeyOf, KeyType

LEMMA InitIInv == Init => IInv
<1> SUFFICES ASSUME Init PROVE IInv
  OBVIOUS
<1>1. frames = <<>> /\ Len(frames) = 0 /\ 1 .. Len(frames) = {}
  BY DEF Init
<1>2. FramesTyped
  BY <1>1 DEF Init, FramesTyped
<1>3. NoPhantomModifier /\ HeldModifierReported
  BY DEF Init, NoPhantomModifier, HeldModifierReported
<1>4. LastFrameIsTrue /\ SeenCatchesUp
  BY <1>1 DEF Init, LastFrameIsTrue, SeenCatchesUp
<1> QED BY <1>2, <1>3, <1>4 DEF IInv

(* A key that is pressed, repeats or is released.                               *)
LEMMA SendIInv ==
    ASSUME IInv, NEW k \in Keys, NEW down \in BOOLEAN, Send(k, down),
           held' = IF down THEN held \cup {k} ELSE held \ {k}
    PROVE  IInv'
<1>0. FramesTyped /\ NoPhantomModifier /\ HeldModifierReported
        /\ LastFrameIsTrue /\ SeenCatchesUp
  BY DEF IInv
<1>1. frames' = Append(frames, Frame(k, down)) /\ UNCHANGED <<seen, parted, mods, event>>
  BY DEF Send
<1>2. k \in KeyType
  BY KeysAssumption
<1>3. Frame(k, down) \in FrameType /\ KeyOf(Frame(k, down)) = k /\ Frame(k, down).down = down
  BY <1>2 DEF Frame, FrameType, KeyOf, KeyType
<1>4. /\ frames' \in Seq(FrameType) /\ Len(frames) \in Nat
      /\ Len(frames') = Len(frames) + 1
      /\ frames'[Len(frames) + 1] = Frame(k, down)
      /\ \A i \in 1 .. Len(frames) : frames'[i] = frames[i]
  BY <1>0, <1>1, <1>3 DEF FramesTyped
<1>5. FramesTyped'
  BY <1>0, <1>1, <1>3, <1>4 DEF FramesTyped
<1>6. NoPhantomModifier' /\ HeldModifierReported'
  BY <1>0, <1>1 DEF NoPhantomModifier, HeldModifierReported
<1>7. LastFrameIsTrue'
  <2> SUFFICES ASSUME NEW l \in Keys, NEW i \in 1 .. Len(frames'),
                      KeyOf(frames'[i]) = l,
                      \A j \in i + 1 .. Len(frames') : KeyOf(frames'[j]) # l
               PROVE  frames'[i].down <=> l \in held'
    BY DEF LastFrameIsTrue, IsLastOf
  <2>1. CASE i = Len(frames) + 1
    BY <1>3, <1>4, <2>1
  <2>2. CASE i \in 1 .. Len(frames)
    <3>1. l # k
      BY <1>3, <1>4, <2>2
    <3>2. KeyOf(frames[i]) = l /\ \A j \in i + 1 .. Len(frames) : KeyOf(frames[j]) # l
      BY <1>4, <2>2
    <3>3. frames[i].down <=> l \in held
      BY <1>0, <2>2, <3>2 DEF LastFrameIsTrue, IsLastOf
    <3> QED BY <1>4, <2>2, <3>1, <3>3
  <2> QED BY <1>4, <2>1, <2>2
<1>8. SeenCatchesUp'
  <2> SUFFICES ASSUME NEW l \in Keys, \A i \in 1 .. Len(frames') : KeyOf(frames'[i]) # l
               PROVE  l \in seen' <=> l \in held'
    BY DEF SeenCatchesUp
  <2>1. l # k
    BY <1>3, <1>4
  <2>2. \A i \in 1 .. Len(frames) : KeyOf(frames[i]) # l
    BY <1>4
  <2>3. l \in seen <=> l \in held
    BY <1>0, <2>2 DEF SeenCatchesUp
  <2> QED BY <1>1, <2>1, <2>3
<1> QED BY <1>5, <1>6, <1>7, <1>8 DEF IInv

(* One run of the handler.                                                      *)
LEMMA DecodeIInv ==
    ASSUME IInv, Decode
    PROVE  IInv'
<1>0. FramesTyped /\ NoPhantomModifier /\ HeldModifierReported
        /\ LastFrameIsTrue /\ SeenCatchesUp
  BY DEF IInv
<1> DEFINE f == Head(frames)
           key == KeyOf(f)
<1>1. /\ frames # <<>> /\ frames' = Tail(frames) /\ UNCHANGED held
      /\ mods' = ModifiersAfter(mods, f)
      /\ seen' = IF f.down THEN seen \cup {key} ELSE seen \ {key}
      /\ parted' = (IF f.down THEN parted ELSE parted \cup (seen \cap Twins(key))) \ {key}
  BY DEF Decode, FramesLeft, SeenAfter, PartedAfter
<1>2. /\ Len(frames) \in Nat /\ Len(frames) >= 1
      /\ f = frames[1] /\ f \in FrameType /\ key \in Keys
  BY <1>0, <1>1 DEF FramesTyped
<1>3. /\ frames' \in Seq(FrameType)
      /\ Len(frames') = Len(frames) - 1
      /\ \A i \in 1 .. Len(frames') : frames'[i] = frames[i + 1]
  BY <1>0, <1>1, <1>2 DEF FramesTyped
<1>4. f.down \in BOOLEAN /\ key \in KeyType /\ key.code = f.code
  BY <1>2, KeyOfTyped DEF FrameType, KeyOf
<1>5. \A l : l \in seen' <=> IF l = key THEN f.down ELSE l \in seen
  BY <1>1, <1>4
<1>6. /\ mods' \subseteq Names
      /\ \A field \in Names :
            field \in mods' <=> IF Drives(key, field) THEN f.down ELSE field \in mods
  BY <1>0, <1>1, <1>2, ModifiersAfterIs DEF FramesTyped
<1> HIDE DEF f, key
<1>7. FramesTyped'
  <2>1. seen' \subseteq Keys
    BY <1>0, <1>2, <1>5 DEF FramesTyped
  <2>2. \A i \in 1 .. Len(frames') : KeyOf(frames'[i]) \in Keys
    BY <1>0, <1>2, <1>3 DEF FramesTyped
  <2> QED BY <1>0, <1>1, <1>3, <1>6, <2>1, <2>2 DEF FramesTyped
<1>8. NoPhantomModifier'
  <2> SUFFICES ASSUME NEW field \in mods'
               PROVE  \E k \in seen' : Drives(k, field)
    BY DEF NoPhantomModifier
  <2>1. field \in Names
    BY <1>6
  <2>2. CASE Drives(key, field)
    BY <1>5, <1>6, <2>1, <2>2
  <2>3. CASE ~ Drives(key, field)
    <3>1. PICK k \in seen : Drives(k, field)
      BY <1>0, <1>6, <2>1, <2>3 DEF NoPhantomModifier
    <3> QED BY <1>5, <2>3, <3>1
  <2> QED BY <2>2, <2>3
<1>9. HeldModifierReported'
  <2> SUFFICES ASSUME NEW k \in seen', NEW field \in Names,
                      Drives(k, field), field \notin mods'
               PROVE  k \in parted' /\ \E twin \in Twins(k) : Drives(twin, field)
    BY DEF HeldModifierReported
  <2>1. k \in Keys /\ k \in KeyType
    BY <1>7, KeysAssumption DEF FramesTyped
  <2>2. CASE Drives(key, field)
    <3>1. k # key /\ k \in seen /\ ~ f.down
      BY <1>5, <1>6, <2>2
    <3>2. key.code = k.code
      BY <1>4, <2>1, <2>2, SameFieldSameCode
    <3>3. k \in Twins(key) /\ key \in Twins(k)
      BY <1>2, <2>1, <3>1, <3>2 DEF Twins
    <3> QED BY <1>1, <2>2, <3>1, <3>3
  <2>3. CASE ~ Drives(key, field)
    <3>1. k \in seen /\ field \notin mods /\ k # key
      BY <1>5, <1>6, <2>3
    <3>2. k \in parted /\ \E twin \in Twins(k) : Drives(twin, field)
      BY <1>0, <3>1 DEF HeldModifierReported
    <3> QED BY <1>1, <3>1, <3>2
  <2> QED BY <2>2, <2>3
<1>10. LastFrameIsTrue'
  <2> SUFFICES ASSUME NEW l \in Keys, NEW i \in 1 .. Len(frames'),
                      KeyOf(frames'[i]) = l,
                      \A j \in i + 1 .. Len(frames') : KeyOf(frames'[j]) # l
               PROVE  frames'[i].down <=> l \in held'
    BY DEF LastFrameIsTrue, IsLastOf
  <2>1. i + 1 \in 1 .. Len(frames) /\ frames'[i] = frames[i + 1]
    BY <1>2, <1>3
  <2>2. ASSUME NEW j \in (i + 1) + 1 .. Len(frames)
        PROVE  KeyOf(frames[j]) # l
    <3>1. j - 1 \in i + 1 .. Len(frames') /\ frames'[j - 1] = frames[j]
      BY <1>2, <1>3, <2>1
    <3> QED BY <3>1
  <2>3. frames[i + 1].down <=> l \in held
    BY <1>0, <2>1, <2>2 DEF LastFrameIsTrue, IsLastOf
  <2> QED BY <1>1, <2>1, <2>3
<1>11. SeenCatchesUp'
  <2> SUFFICES ASSUME NEW l \in Keys, \A i \in 1 .. Len(frames') : KeyOf(frames'[i]) # l
               PROVE  l \in seen' <=> l \in held'
    BY DEF SeenCatchesUp
  <2>1. ASSUME NEW j \in 2 .. Len(frames)
        PROVE  KeyOf(frames[j]) # l
    <3>1. j - 1 \in 1 .. Len(frames') /\ frames'[j - 1] = frames[j]
      BY <1>2, <1>3
    <3> QED BY <3>1
  <2>2. CASE l = key
    <3>1. f.down <=> l \in held
      BY <1>0, <1>2, <2>1, <2>2 DEF LastFrameIsTrue, IsLastOf, key
    <3> QED BY <1>1, <1>5, <2>2, <3>1
  <2>3. CASE l # key
    <3>1. \A i \in 1 .. Len(frames) : KeyOf(frames[i]) # l
      BY <1>2, <2>1, <2>3 DEF key
    <3>2. l \in seen <=> l \in held
      BY <1>0, <3>1 DEF SeenCatchesUp
    <3> QED BY <1>1, <1>5, <2>3, <3>2
  <2> QED BY <2>2, <2>3
<1> QED BY <1>7, <1>8, <1>9, <1>10, <1>11 DEF IInv

LEMMA NextIInv == IInv /\ [Next]_vars => IInv'
<1> SUFFICES ASSUME IInv, [Next]_vars PROVE IInv'
  OBVIOUS
<1>1. ASSUME NEW k \in Keys, Press(k) PROVE IInv'
  BY <1>1, SendIInv DEF Press
<1>2. ASSUME NEW k \in Keys, Release(k) PROVE IInv'
  BY <1>2, SendIInv DEF Release
<1>3. CASE Decode
  BY <1>3, DecodeIInv
<1>4. CASE UNCHANGED vars
  BY <1>4 DEF vars, IInv, FramesTyped, NoPhantomModifier, HeldModifierReported,
              LastFrameIsTrue, IsLastOf, SeenCatchesUp
<1> QED BY <1>1, <1>2, <1>3, <1>4 DEF Next

THEOREM Invariance == Spec => []IInv
BY InitIInv, NextIInv, PTL DEF Spec

(* No modifier is reported that nobody holds.                                   *)
THEOREM NoPhantom == Spec => []NoPhantomModifier
<1>1. IInv => NoPhantomModifier
  BY DEF IInv
<1> QED BY Invariance, <1>1, PTL

(* A held modifier is lost only to a twin that drives it and came up.           *)
THEOREM HeldReported == Spec => []HeldModifierReported
<1>1. IInv => HeldModifierReported
  BY DEF IInv
<1> QED BY Invariance, <1>1, PTL

(* The decoded state of the keys differs from the physical one by the frames    *)
(* under way only.                                                              *)
THEOREM CatchesUp == Spec => []SeenCatchesUp
<1>1. IInv => SeenCatchesUp
  BY DEF IInv
<1> QED BY Invariance, <1>1, PTL

(* No modifier outlives the keys: whoever lets go of everything finds the       *)
(* keyboard without modifiers, once the frames are decoded.                     *)
THEOREM NothingStuck == Spec => []NoStuckModifier
<1>1. IInv => NoStuckModifier
  <2> SUFFICES ASSUME IInv, held = {}, frames = <<>> PROVE mods = {}
    BY DEF NoStuckModifier
  <2>1. \A k \in Keys : k \notin seen
    BY DEF IInv, SeenCatchesUp
  <2>2. seen = {}
    BY <2>1 DEF IInv, FramesTyped
  <2> QED BY <2>2 DEF IInv, NoPhantomModifier
<1> QED BY Invariance, <1>1, PTL

(* The event of a frame is one of EventType's, and one that makes shell_key     *)
(* print a character comes from the make code of an unprefixed key while no     *)
(* control, alt or mod field is on.                                             *)
LEMMA EventOfIs ==
    ASSUME NEW state, state \subseteq Names, NEW f \in FrameType
    PROVE  /\ EventOf(state, f) \in EventType
           /\ ShellEcho(EventOf(state, f))[1] = "char" =>
                /\ f.down /\ ~ f.ext
                /\ state \cap {"lctrl", "rctrl", "lalt", "ralt", "mod"} = {}
<1> DEFINE flags == HeldFlags(state) \cup (IF f.down THEN {"down"} ELSE {})
           e == EventOf(state, f)
<1>1. /\ f.code \in 1 .. 255 /\ f.ext \in BOOLEAN /\ f.down \in BOOLEAN
      /\ f.code \in 0 .. 255 /\ f.code # 0
  BY DEF FrameType, Codes
<1>2. \A keyset \in {"default", "shift"} :
        kb_map(keyset, f.code) \in {NoChar} \cup ({"default", "shift"} \X (1 .. 255))
  BY <1>1 DEF kb_map
<1>3. /\ HeldFlags(state) \subseteq {"control", "shift", "alt", "mod"}
      /\ "control" \in HeldFlags(state) <=> state \cap {"lctrl", "rctrl"} # {}
      /\ "alt" \in HeldFlags(state) <=> state \cap {"lalt", "ralt"} # {}
      /\ "mod" \in HeldFlags(state) <=> "mod" \in state
  BY DEF HeldFlags, ControlHeld
<1>4. /\ flags \subseteq {"special", "control", "shift", "alt", "mod", "down"}
      /\ "down" \in flags <=> f.down
      /\ "special" \notin flags
  BY <1>3
<1>5. flags \cap {"control", "alt", "mod"} = {}
        <=> state \cap {"lctrl", "rctrl", "lalt", "ralt", "mod"} = {}
  BY <1>3
<1> HIDE DEF flags
<1>6. \/ e = [utf8 |-> NoChar, code |-> f.code, flags |-> {"special"}]
      \/ \E utf8 \in {NoChar, kb_map("default", f.code)} :
            e = [utf8 |-> utf8, code |-> f.code, flags |-> flags \cup {"special"}]
      \/ /\ flags \cap {"control", "alt", "mod"} = {} /\ ExtendedCode(f) = KEY_NONE
         /\ \E keyset \in {"default", "shift"} :
               e = [utf8 |-> kb_map(keyset, f.code), code |-> f.code, flags |-> flags \cup {}]
  BY DEF EventOf, flags
<1>7. ExtendedCode(f) = KEY_NONE => ~ f.ext
  BY <1>1 DEF ExtendedCode, KEY_NONE
<1>8. e \in EventType
  <2>1. /\ {"special"} \in SUBSET {"special", "control", "shift", "alt", "mod", "down"}
        /\ flags \cup {"special"}
             \in SUBSET {"special", "control", "shift", "alt", "mod", "down"}
        /\ flags \cup {} \in SUBSET {"special", "control", "shift", "alt", "mod", "down"}
    BY <1>4
  <2>2. \A utf8 \in {NoChar} \cup ({"default", "shift"} \X (1 .. 255)),
           fs \in SUBSET {"special", "control", "shift", "alt", "mod", "down"} :
          [utf8 |-> utf8, code |-> f.code, flags |-> fs] \in EventType
    BY <1>1 DEF EventType
  <2> HIDE DEF e
  <2> QED BY <1>2, <1>6, <2>1, <2>2
<1>9. ShellEcho(e)[1] = "char" => "down" \in e.flags /\ "special" \notin e.flags
  BY DEF ShellEcho
<1>10. "special" \notin e.flags =>
         /\ e.flags = flags
         /\ flags \cap {"control", "alt", "mod"} = {} /\ ExtendedCode(f) = KEY_NONE
  BY <1>6
<1> QED BY <1>4, <1>5, <1>7, <1>8, <1>9, <1>10

LEMMA NextTypeOK == TypeOK /\ [Next]_vars => TypeOK'
<1> SUFFICES ASSUME TypeOK, [Next]_vars PROVE TypeOK'
  OBVIOUS
<1>1. ASSUME NEW k \in Keys, NEW down \in BOOLEAN, Send(k, down), held' \subseteq Keys
      PROVE  TypeOK'
  <2>1. k \in KeyType /\ MaxFrames \in Nat
    BY KeysAssumption
  <2>2. Frame(k, down) \in FrameType /\ KeyOf(Frame(k, down)) = k
    BY <2>1 DEF Frame, FrameType, KeyOf, KeyType
  <2>3. frames' = Append(frames, Frame(k, down)) /\ Len(frames) < MaxFrames
    BY <1>1 DEF Send
  <2>4. /\ frames' \in Seq(FrameType) /\ Len(frames') <= MaxFrames
        /\ \A i \in 1 .. Len(frames') : KeyOf(frames'[i]) \in Keys
    BY <2>1, <2>2, <2>3 DEF TypeOK
  <2> QED BY <1>1, <2>4 DEF Send, TypeOK
<1>2. ASSUME NEW k \in Keys, Press(k) \/ Release(k)
      PROVE  TypeOK'
  BY <1>1, <1>2 DEF Press, Release, TypeOK
<1>3. CASE Decode
  <2>1. /\ frames # <<>> /\ frames' = Tail(frames) /\ UNCHANGED held
        /\ mods' = ModifiersAfter(mods, Head(frames))
        /\ event' = EventOf(mods', Head(frames))
        /\ seen' = SeenAfter(Head(frames)) /\ parted' = PartedAfter(Head(frames))
    BY <1>3 DEF Decode, FramesLeft
  <2>2. /\ frames' \in Seq(FrameType) /\ Len(frames') = Len(frames) - 1
        /\ \A i \in 1 .. Len(frames') : frames'[i] = frames[i + 1]
        /\ Head(frames) \in FrameType /\ KeyOf(Head(frames)) \in Keys
    BY <2>1 DEF TypeOK
  <2>3. /\ Len(frames') <= MaxFrames
        /\ \A i \in 1 .. Len(frames') : KeyOf(frames'[i]) \in Keys
    BY <2>2, KeysAssumption DEF TypeOK
  <2>4. mods' \subseteq Names
    BY <2>1, <2>2, ModifiersAfterIs DEF TypeOK
  <2>5. event' \in EventType
    BY <2>1, <2>2, <2>4, EventOfIs
  <2>6. seen' \subseteq Keys /\ parted' \subseteq seen'
    BY <2>1, <2>2 DEF TypeOK, SeenAfter, PartedAfter
  <2> QED BY <2>1, <2>2, <2>3, <2>4, <2>5, <2>6 DEF TypeOK
<1>4. CASE UNCHANGED vars
  BY <1>4 DEF vars, TypeOK
<1> QED BY <1>2, <1>3, <1>4 DEF Next

(* The variables keep their types, for every set of keys.                       *)
THEOREM TypeCorrect == Spec => []TypeOK
<1>1. Init => TypeOK
  BY KeysAssumption DEF Init, TypeOK, EventType, NoEvent, NoChar, KEY_NONE
<1> QED BY <1>1, NextTypeOK, PTL DEF Spec

(* Only the make code of a key without a prefix prints a character, and only    *)
(* while no control, alt or mod field is on.                                    *)
THEOREM CharOnly == Spec => CharOnlyUnmodified
<1>1. TypeOK /\ [Next]_vars =>
        [event' # event /\ ShellEcho(event')[1] = "char" =>
            /\ Head(frames).down
            /\ ~ Head(frames).ext
            /\ mods' \cap {"lctrl", "rctrl", "lalt", "ralt", "mod"} = {}]_vars
  <2> SUFFICES ASSUME TypeOK, Next, event' # event, ShellEcho(event')[1] = "char"
               PROVE  /\ Head(frames).down
                      /\ ~ Head(frames).ext
                      /\ mods' \cap {"lctrl", "rctrl", "lalt", "ralt", "mod"} = {}
    OBVIOUS
  <2>1. Decode
    BY DEF Next, Press, Release, Send
  <2>2. /\ Head(frames) \in FrameType
        /\ mods' = ModifiersAfter(mods, Head(frames))
        /\ event' = EventOf(mods', Head(frames))
    BY <2>1 DEF Decode, TypeOK
  <2>3. mods' \subseteq Names
    BY <2>2, ModifiersAfterIs DEF TypeOK
  <2> QED BY <2>2, <2>3, EventOfIs
<1> QED BY TypeCorrect, <1>1, PTL DEF Spec, CharOnlyUnmodified
================================================================================
