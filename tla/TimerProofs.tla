------------------------------- MODULE TimerProofs -----------------------------
(* Proofs about Timer, for every width of the count, rate, number of phases and *)
(* length of the output.                                                        *)
EXTENDS Timer, TLAPS

(* The seconds that begin in one round of the count, from 0 to WordSize - 1.    *)
SecondsPerWrap == (WordSize + TicksPerSecond - 1) \div TicksPerSecond

(* The count and the seconds are functions of the ticks there have been; that   *)
(* the seconds keep up is not inductive, how many there are is.                 *)
Counted ==
    /\ timer_ticks = total % WordSize
    /\ seconds = (total \div WordSize) * SecondsPerWrap + timer_ticks \div TicksPerSecond

(* The call lies in the past, and the mark is the one it set.                   *)
Marked ==
    /\ since.total <= total
    /\ since.total = total => since.phase <= phase
    /\ eticks = ((since.total % WordSize) + ticks) % WordSize

(* How late a wait may be, statement by statement: at the print it is late by   *)
(* the output alone; the hlt began before the end of the output, and the tick   *)
(* that ends it is the next one.                                                *)
OnTime ==
    Undisturbed =>
        /\ pc = "print" => duration - body < ticks * Phases
        /\ pc = "hlt" => duration - phase < ticks * Phases + MaxBody
        /\ pc = "test" => duration < (ticks + 1) * Phases + MaxBody

IInv == TypeOK /\ Counted /\ Marked /\ OnTime

(* Division: its result is unique.                                              *)
LEMMA Division ==
    ASSUME NEW b \in Nat \ {0}, NEW q \in Nat, NEW r \in 0 .. b - 1
    PROVE  (b * q + r) % b = r /\ (b * q + r) \div b = q
OBVIOUS

LEMMA DividedIs ==
    ASSUME NEW a \in Nat, NEW b \in Nat \ {0}
    PROVE  /\ a \div b \in Nat /\ a % b \in 0 .. b - 1
           /\ a = b * (a \div b) + (a % b)
OBVIOUS

LEMMA RemainderRange ==
    ASSUME NEW a \in Int, NEW b \in Nat \ {0}
    PROVE  a % b \in 0 .. b - 1
OBVIOUS

LEMMA Monotone ==
    ASSUME NEW a \in Int, NEW b \in Nat, NEW c \in Int, a <= c
    PROVE  a * b <= c * b
OBVIOUS

LEMMA SmallRemainder ==
    ASSUME NEW b \in Nat \ {0}, NEW r \in 0 .. b - 1
    PROVE  r % b = r
OBVIOUS

(* One more: the remainder goes up, or both start again.                        *)
LEMMA DividedNext ==
    ASSUME NEW a \in Nat, NEW b \in Nat \ {0}
    PROVE  \/ /\ (a % b) + 1 < b
              /\ (a + 1) % b = (a % b) + 1 /\ (a + 1) \div b = a \div b
           \/ /\ (a % b) + 1 = b
              /\ (a + 1) % b = 0 /\ (a + 1) \div b = (a \div b) + 1
<1>1. /\ a \div b \in Nat /\ a % b \in 0 .. b - 1
      /\ a = b * (a \div b) + (a % b)
  BY DividedIs
<1>2. CASE (a % b) + 1 < b
  <2>1. a + 1 = b * (a \div b) + ((a % b) + 1) /\ (a % b) + 1 \in 0 .. b - 1
    BY <1>1, <1>2
  <2>2. (b * (a \div b) + ((a % b) + 1)) % b = (a % b) + 1
        /\ (b * (a \div b) + ((a % b) + 1)) \div b = a \div b
    BY <1>1, <2>1, Division, Zenon
  <2> QED BY <1>2, <2>1, <2>2, Zenon
<1>3. CASE (a % b) + 1 = b
  <2>1. a + 1 = b * ((a \div b) + 1) + 0 /\ (a \div b) + 1 \in Nat /\ 0 \in 0 .. b - 1
    BY <1>1, <1>3
  <2>2. (b * ((a \div b) + 1) + 0) % b = 0 /\ (b * ((a \div b) + 1) + 0) \div b = (a \div b) + 1
    BY <2>1, Division, Zenon
  <2> QED BY <1>3, <2>1, <2>2, Zenon
<1>4. (a % b) + 1 < b \/ (a % b) + 1 = b
  BY <1>1
<1> QED BY <1>2, <1>3, <1>4, Zenon

(* The quotient does not go down.                                               *)
LEMMA DividedMonotone ==
    ASSUME NEW a \in Nat, NEW b \in Nat \ {0}, NEW c \in Nat, c <= a
    PROVE  c \div b <= a \div b
<1>1. /\ a \div b \in Nat /\ a % b \in 0 .. b - 1 /\ a = b * (a \div b) + (a % b)
      /\ c \div b \in Nat /\ c % b \in 0 .. b - 1 /\ c = b * (c \div b) + (c % b)
  BY DividedIs
<1>2. ASSUME c \div b >= (a \div b) + 1 PROVE FALSE
  <2>1. (c \div b) * b >= ((a \div b) + 1) * b
    BY <1>1, <1>2, Monotone
  <2> QED BY <1>1, <2>1
<1> QED BY <1>1, <1>2

LEMMA ConstantsTyped ==
    /\ WordSize \in Nat \ {0} /\ TicksPerSecond \in Nat \ {0} /\ Phases \in Nat \ {0}
    /\ MaxBody \in Nat /\ MaxTotal \in Nat
    /\ \A n \in WaitArgs \cup {0} : n \in Int
BY TimerAssumption

(* One round of the count is covered by its seconds, and by no more than it has *)
(* to be.                                                                       *)
LEMMA SecondsPerWrapIs ==
    /\ SecondsPerWrap \in Nat
    /\ WordSize <= SecondsPerWrap * TicksPerSecond
    /\ (SecondsPerWrap - 1) * TicksPerSecond < WordSize
    /\ SecondsPerWrap = ((WordSize - 1) \div TicksPerSecond) + 1
<1> DEFINE w == WordSize
           t == TicksPerSecond
           n == w + t - 1
<1>1. w \in Nat \ {0} /\ t \in Nat \ {0} /\ n \in Nat
  BY ConstantsTyped
<1>2. n \div t \in Nat /\ n % t \in 0 .. t - 1 /\ n = t * (n \div t) + (n % t)
  BY <1>1, DividedIs, Zenon
<1>3. (w - 1) \div t \in Nat /\ (w - 1) % t \in 0 .. t - 1
      /\ w - 1 = t * ((w - 1) \div t) + ((w - 1) % t) /\ w - 1 \in Nat
  <2>1. w - 1 \in Nat
    BY <1>1
  <2> QED BY <1>1, <2>1, DividedIs, Zenon
<1>4. n = t * (((w - 1) \div t) + 1) + ((w - 1) % t)
  BY <1>1, <1>3
<1>5. n \div t = ((w - 1) \div t) + 1
  <2>1. ((w - 1) \div t) + 1 \in Nat
    BY <1>3
  <2> QED BY <1>1, <1>3, <1>4, <2>1, Division, Zenon
<1> QED BY <1>1, <1>2, <1>5 DEF SecondsPerWrap

(* The values that since, ticks and phase have.                                 *)
LEMMA Typed ==
    ASSUME TypeOK
    PROVE  /\ since.total \in Nat /\ since.phase \in 0 .. Phases - 1
           /\ ticks \in Int /\ phase \in 0 .. Phases - 1 /\ total \in Nat
           /\ body \in 0 .. MaxBody /\ seconds \in Nat
           /\ timer_ticks \in 0 .. WordSize - 1 /\ eticks \in 0 .. WordSize - 1
           /\ duration \in Int
<1>1. /\ since.total \in Nat /\ since.phase \in 0 .. Phases - 1
      /\ ticks \in Int /\ phase \in 0 .. Phases - 1 /\ total \in Nat
      /\ body \in 0 .. MaxBody /\ seconds \in Nat
      /\ timer_ticks \in 0 .. WordSize - 1 /\ eticks \in 0 .. WordSize - 1
  BY ConstantsTyped DEF TypeOK
<1>2. Phases \in Nat
  BY ConstantsTyped
<1> QED BY <1>1, <1>2 DEF duration

LEMMA InitIInv == Init => IInv
<1> SUFFICES ASSUME Init PROVE IInv
  OBVIOUS
<1>1. TypeOK
  BY ConstantsTyped DEF Init, TypeOK
<1>2. 0 % WordSize = 0 /\ 0 \div WordSize = 0 /\ 0 \div TicksPerSecond = 0
  BY ConstantsTyped
<1>3. Counted
  BY <1>2, SecondsPerWrapIs DEF Init, Counted
<1>4. Marked
  BY <1>2 DEF Init, Marked
<1>5. OnTime
  BY DEF Init, OnTime, Undisturbed
<1> QED BY <1>1, <1>3, <1>4, <1>5 DEF IInv

(* The handler counts the tick and begins a second with every multiple of the   *)
(* rate, also with the 0 behind the largest count.                              *)
LEMMA TickCounted ==
    ASSUME IInv, total' = total + 1, timer_handler
    PROVE  Counted' /\ timer_ticks' \in 0 .. WordSize - 1 /\ seconds' \in Nat
<1>0. total' = total + 1
  OBVIOUS
<1> DEFINE w == WordSize
           t == TicksPerSecond
           c == SecondsPerWrap
           q == total \div w
<1>1. /\ w \in Nat \ {0} /\ t \in Nat \ {0} /\ c \in Nat /\ total \in Nat
      /\ timer_ticks \in 0 .. w - 1 /\ seconds \in Nat
      /\ timer_ticks = total % w /\ seconds = q * c + timer_ticks \div t
  BY ConstantsTyped, SecondsPerWrapIs, Typed DEF IInv, Counted
<1>2. /\ timer_ticks' = (timer_ticks + 1) % w
      /\ seconds' = IF timer_ticks' % t = 0 THEN seconds + 1 ELSE seconds
  BY DEF timer_handler, Incremented, SecondIsFull
<1>3. timer_ticks' \in 0 .. w - 1 /\ seconds' \in Nat
  <2>1. timer_ticks + 1 \in Int
    BY <1>1
  <2>2. timer_ticks' \in 0 .. w - 1
    BY <1>1, <1>2, <2>1, RemainderRange, Zenon
  <2>3. seconds + 1 \in Nat
    BY <1>1
  <2> QED BY <1>1, <1>2, <2>2, <2>3, Zenon
<1>n. timer_ticks \in Nat
  BY <1>1
<1>4. q \in Nat /\ timer_ticks \div t \in Nat
  BY <1>1, <1>n, DividedIs, Zenon
<1>5. \/ /\ timer_ticks + 1 < w
         /\ (total + 1) % w = timer_ticks + 1 /\ (total + 1) \div w = q
      \/ /\ timer_ticks + 1 = w
         /\ (total + 1) % w = 0 /\ (total + 1) \div w = q + 1
  BY <1>1, DividedNext, Zenon
<1>6. timer_ticks' = total' % w /\ seconds' = (total' \div w) * c + timer_ticks' \div t
  <2>1. CASE timer_ticks + 1 < w
    <3>1. (total + 1) % w = timer_ticks + 1 /\ (total + 1) \div w = q
      BY <1>1, <1>5, <2>1
    <3>2. timer_ticks' = timer_ticks + 1
      <4>1. timer_ticks + 1 \in 0 .. w - 1
        BY <1>1, <2>1
      <4> QED BY <1>1, <1>2, <4>1, SmallRemainder, Zenon
    <3>3. \/ /\ (timer_ticks + 1) % t = 0
             /\ (timer_ticks + 1) \div t = (timer_ticks \div t) + 1
          \/ /\ (timer_ticks + 1) % t = (timer_ticks % t) + 1
             /\ (timer_ticks + 1) \div t = timer_ticks \div t
      BY <1>1, <1>n, DividedNext, Zenon
    <3>4. timer_ticks % t \in 0 .. t - 1
      BY <1>1, <1>n, DividedIs, Zenon
    <3>5. (timer_ticks % t) + 1 # 0
      BY <1>1, <3>4
    <3> HIDE DEF w, t, c, q
    <3>6. seconds' = q * c + (timer_ticks + 1) \div t
      <4> DEFINE m == timer_ticks \div t
      <4>1. q * c \in Int /\ m \in Int /\ seconds = q * c + m
        BY <1>1, <1>4
      <4>2. CASE (timer_ticks + 1) \div t = m + 1 /\ (timer_ticks + 1) % t = 0
        <5>1. seconds' = seconds + 1
          BY <1>2, <3>2, <4>2, Zenon
        <5> HIDE DEF m
        <5> QED BY <4>1, <4>2, <5>1
      <4>3. CASE (timer_ticks + 1) \div t = m /\ (timer_ticks + 1) % t # 0
        <5>1. seconds' = seconds
          BY <1>2, <3>2, <4>3, Zenon
        <5> QED BY <4>1, <4>3, <5>1, Zenon
      <4> QED BY <3>3, <3>5, <4>2, <4>3, Zenon
    <3> QED BY <1>0, <1>1, <3>1, <3>2, <3>6, Zenon
  <2>2. CASE timer_ticks + 1 = w
    <3>1. (total + 1) % w = 0 /\ (total + 1) \div w = q + 1
      BY <1>1, <1>5, <2>2
    <3>2. timer_ticks' = 0
      BY <1>1, <1>2, <2>2
    <3>3. 0 % t = 0 /\ 0 \div t = 0
      BY <1>1
    <3>4. c = timer_ticks \div t + 1
      <4>1. timer_ticks = w - 1
        BY <1>1, <2>2
      <4> QED BY <4>1, SecondsPerWrapIs, Zenon
    <3> HIDE DEF w, t, c, q
    <3>5. seconds' = q * c + c
      <4> DEFINE m == timer_ticks \div t
      <4>1. q * c \in Int /\ m \in Int /\ seconds = q * c + m /\ c = m + 1
        BY <1>1, <1>4, <3>4
      <4>2. seconds' = seconds + 1
        BY <1>2, <3>2, <3>3, Zenon
      <4> HIDE DEF m
      <4> QED BY <4>1, <4>2
    <3>6. (q + 1) * c + 0 = q * c + c
      BY <1>1, <1>4
    <3> QED BY <1>0, <3>1, <3>2, <3>3, <3>5, <3>6, Zenon
  <2> QED BY <1>5, <2>1, <2>2, Zenon
<1> QED BY <1>3, <1>6 DEF Counted

(* A wait that is not disturbed is tested before the count can wrap around, so  *)
(* the test tells how many ticks it has seen.                                   *)
LEMMA TestTells ==
    ASSUME IInv, pc = "test", Undisturbed, timer_ticks < eticks
    PROVE  total - since.total < ticks
<1> DEFINE s == since.total % WordSize
           d == total - since.total
<1>1. /\ since.total \in Nat /\ since.phase \in 0 .. Phases - 1
      /\ ticks \in Int /\ phase \in 0 .. Phases - 1 /\ total \in Nat
      /\ WordSize \in Nat \ {0} /\ Phases \in Nat \ {0} /\ MaxBody \in Nat
      /\ s \in 0 .. WordSize - 1 /\ d \in Nat
  <2>1. /\ since.total \in Nat /\ since.phase \in 0 .. Phases - 1
        /\ ticks \in Int /\ phase \in 0 .. Phases - 1 /\ total \in Nat
        /\ WordSize \in Nat \ {0} /\ Phases \in Nat \ {0} /\ MaxBody \in Nat
        /\ since.total <= total
    BY ConstantsTyped, Typed DEF IInv, Marked
  <2>2. s \in 0 .. WordSize - 1
    BY <2>1, DividedIs, Zenon
  <2> QED BY <2>1, <2>2
<1>2. ticks > 0 /\ s + ticks + MaxBody + 1 < WordSize
  BY DEF Undisturbed
<1>3. d * Phases + phase - since.phase < (ticks + 1) * Phases + MaxBody
  BY DEF IInv, OnTime, duration
<1>4. eticks = s + ticks
  <2>1. eticks = (s + ticks) % WordSize
    BY DEF IInv, Marked
  <2>2. s + ticks \in 0 .. WordSize - 1 /\ WordSize * 0 + (s + ticks) = s + ticks
    BY <1>1, <1>2
  <2>3. 0 \in Nat /\ WordSize \in Nat \ {0}
    BY <1>1
  <2> HIDE DEF s
  <2>4. (WordSize * 0 + (s + ticks)) % WordSize = s + ticks
    BY <2>2, <2>3, Division, Zenon
  <2> QED BY <2>1, <2>2, <2>4, Zenon
<1>5. d <= ticks + 1 + MaxBody
  <2> HIDE DEF d, s
  <2> SUFFICES ASSUME ticks + 2 + MaxBody <= d PROVE FALSE
    BY <1>1
  <2>1. (ticks + 2 + MaxBody) * Phases <= d * Phases
    BY <1>1, Monotone
  <2>2. (ticks + 2 + MaxBody) * Phases = (ticks + 1) * Phases + Phases + MaxBody * Phases
    BY <1>1
  <2>3. MaxBody * 1 <= MaxBody * Phases
    BY <1>1
  <2> QED BY <1>1, <1>3, <2>1, <2>2, <2>3
<1>6. timer_ticks = s + d
  <2> DEFINE q == since.total \div WordSize
  <2>1. q \in Nat /\ since.total = WordSize * q + s
    BY <1>1, DividedIs
  <2>2. total = since.total + d
    BY <1>1
  <2> HIDE DEF s, d, q
  <2>3. total = WordSize * q + (s + d) /\ s + d \in 0 .. WordSize - 1
    BY <1>1, <1>2, <1>5, <2>1, <2>2
  <2>4. total % WordSize = s + d
    BY <1>1, <2>1, <2>3, Division
  <2> QED BY <2>4 DEF IInv, Counted
<1> HIDE DEF s, d
<1>7. d < ticks
  BY <1>1, <1>4, <1>6
<1> QED BY <1>7 DEF d

(* Call, Printed, Test and OtherInterrupt: no time passes.                      *)
LEMMA StatementIInv ==
    ASSUME IInv, Printed \/ OtherInterrupt \/ Test \/ \E n \in WaitArgs : Call(n)
    PROVE  IInv'
<1>0. TypeOK /\ Counted /\ Marked /\ OnTime
  BY DEF IInv
<1>t. /\ since.total \in Nat /\ since.phase \in 0 .. Phases - 1
      /\ ticks \in Int /\ phase \in 0 .. Phases - 1 /\ total \in Nat
      /\ body \in 0 .. MaxBody /\ duration \in Int
      /\ Phases \in Nat \ {0} /\ MaxBody \in Nat
  BY <1>0, Typed, ConstantsTyped
<1>1. CASE Printed
  <2>1. /\ pc = "print" /\ pc' = "hlt"
        /\ UNCHANGED <<handlerVars, ticks, eticks, since, phase, total, body>>
    BY <1>1 DEF Printed
  <2>2. TypeOK' /\ Counted' /\ Marked' /\ (Undisturbed' <=> Undisturbed) /\ duration' = duration
    BY <1>0, <2>1 DEF TypeOK, Counted, Marked, Undisturbed, duration, handlerVars
  <2>3. Undisturbed => duration - phase < ticks * Phases + MaxBody
    <3> SUFFICES ASSUME Undisturbed PROVE duration - phase < ticks * Phases + MaxBody
      OBVIOUS
    <3>1. duration - body < ticks * Phases
      BY <1>0, <2>1 DEF OnTime
    <3>2. ticks * Phases \in Int
      BY <1>t
    <3> QED BY <1>t, <3>1, <3>2
  <2> QED BY <2>1, <2>2, <2>3 DEF IInv, OnTime
<1>2. CASE OtherInterrupt
  <2>1. /\ pc = "hlt" /\ pc' = "test"
        /\ UNCHANGED <<handlerVars, ticks, eticks, since, phase, total, body>>
    BY <1>2 DEF OtherInterrupt
  <2>2. TypeOK' /\ Counted' /\ Marked' /\ (Undisturbed' <=> Undisturbed) /\ duration' = duration
    BY <1>0, <2>1 DEF TypeOK, Counted, Marked, Undisturbed, duration, handlerVars
  <2>3. Undisturbed => duration < (ticks + 1) * Phases + MaxBody
    <3> SUFFICES ASSUME Undisturbed PROVE duration < (ticks + 1) * Phases + MaxBody
      OBVIOUS
    <3>1. duration - phase < ticks * Phases + MaxBody
      BY <1>0, <2>1 DEF OnTime
    <3>2. ticks * Phases \in Int /\ (ticks + 1) * Phases = ticks * Phases + Phases
      BY <1>t
    <3> QED BY <1>t, <3>1, <3>2
  <2> QED BY <2>1, <2>2, <2>3 DEF IInv, OnTime
<1>3. CASE Test
  <2>1. /\ pc = "test" /\ pc' = IF timer_ticks < eticks THEN "print" ELSE "returned"
        /\ body' = 0
        /\ UNCHANGED <<handlerVars, ticks, eticks, since, phase, total>>
    BY <1>3 DEF Test, Waiting
  <2>2. TypeOK' /\ Counted' /\ Marked' /\ (Undisturbed' <=> Undisturbed) /\ duration' = duration
    BY <1>0, <1>t, <2>1 DEF TypeOK, Counted, Marked, Undisturbed, duration, handlerVars
  <2>3. ASSUME Undisturbed, timer_ticks < eticks
        PROVE  duration - 0 < ticks * Phases
    <3>1. total - since.total < ticks
      BY <2>1, <2>3, TestTells
    <3> DEFINE d == total - since.total
    <3>2. d \in Int /\ d <= ticks - 1 /\ duration = d * Phases + phase - since.phase
      BY <1>t, <3>1 DEF duration
    <3> HIDE DEF d
    <3>3. d * Phases <= (ticks - 1) * Phases
      BY <1>t, <3>2, Monotone
    <3>4. (ticks - 1) * Phases = ticks * Phases - Phases /\ d * Phases \in Int /\ ticks * Phases \in Int
      BY <1>t, <3>2
    <3> QED BY <1>t, <3>2, <3>3, <3>4
  <2> QED BY <2>1, <2>2, <2>3 DEF IInv, OnTime
<1>4. ASSUME NEW n \in WaitArgs, Call(n)
      PROVE  IInv'
  <2>1. /\ ticks' = n /\ eticks' = (timer_ticks + n) % WordSize
        /\ pc' = IF timer_ticks < eticks' THEN "print" ELSE "returned"
        /\ since' = [total |-> total, phase |-> phase]
        /\ body' = 0
        /\ UNCHANGED <<handlerVars, phase, total>>
    BY <1>4 DEF Call
  <2>2. n \in Int /\ timer_ticks \in Nat /\ WordSize \in Nat \ {0} /\ timer_ticks = total % WordSize
    BY <1>0, ConstantsTyped, Typed DEF Counted
  <2>3. eticks' \in 0 .. WordSize - 1
    <3>1. timer_ticks + n \in Int
      BY <2>2
    <3> QED BY <2>1, <2>2, <3>1, RemainderRange, Zenon
  <2>4. since'.total = total /\ since'.phase = phase
    BY <2>1
  <2>5. TypeOK'
    BY <1>0, <1>t, <2>1, <2>3, <2>4 DEF TypeOK, handlerVars
  <2>6. Counted' /\ Marked'
    BY <1>0, <1>t, <2>1, <2>2, <2>4 DEF Counted, Marked, handlerVars
  <2>7. duration' = 0
    BY <1>t, <2>1, <2>4 DEF duration
  <2>8. Undisturbed' => duration' - body' < ticks' * Phases
    <3> SUFFICES ASSUME n > 0 PROVE 0 < n * Phases
      BY <2>1, <2>7 DEF Undisturbed
    <3> QED BY <1>t, <2>2
  <2> QED BY <2>1, <2>5, <2>6, <2>8 DEF IInv, OnTime
<1> QED BY <1>1, <1>2, <1>3, <1>4

(* A phase passes within a tick.                                                *)
LEMMA PassIInv ==
    ASSUME IInv, Pass
    PROVE  IInv'
<1>0. TypeOK /\ Counted /\ Marked /\ OnTime
  BY DEF IInv
<1>t. /\ since.total \in Nat /\ since.phase \in 0 .. Phases - 1
      /\ ticks \in Int /\ phase \in 0 .. Phases - 1 /\ total \in Nat
      /\ body \in 0 .. MaxBody /\ duration \in Int
      /\ Phases \in Nat \ {0} /\ MaxBody \in Nat
  BY <1>0, Typed, ConstantsTyped
<1>1. /\ pc # "test" /\ (pc = "print" => body < MaxBody)
      /\ phase < Phases - 1 /\ phase' = phase + 1
      /\ body' = IF pc = "print" THEN body + 1 ELSE body
      /\ UNCHANGED <<timer_ticks, seconds, pc, ticks, eticks, since, total>>
  BY DEF Pass, TimeMayPass, handlerVars, waitVars
<1>2. TypeOK'
  BY <1>0, <1>1, <1>t DEF TypeOK
<1>3. Counted' /\ Marked' /\ (Undisturbed' <=> Undisturbed)
  BY <1>0, <1>1, <1>t DEF Counted, Marked, Undisturbed
<1>4. duration' = duration + 1
  <2>1. (total - since.total) * Phases \in Int
    BY <1>t
  <2> QED BY <1>1, <1>t, <2>1 DEF duration
<1>5. OnTime'
  <2> SUFFICES ASSUME Undisturbed
               PROVE  /\ pc = "print" => duration' - body' < ticks * Phases
                      /\ pc = "hlt" => duration' - phase' < ticks * Phases + MaxBody
    BY <1>1, <1>3 DEF OnTime
  <2>1. ticks * Phases \in Int
    BY <1>t
  <2> QED BY <1>0, <1>1, <1>4, <1>t, <2>1 DEF OnTime
<1> QED BY <1>2, <1>3, <1>5 DEF IInv

(* A tick ends the hlt.                                                         *)
LEMMA TickIInv ==
    ASSUME IInv, Tick
    PROVE  IInv'
<1>0. TypeOK /\ Counted /\ Marked /\ OnTime
  BY DEF IInv
<1>t. /\ since.total \in Nat /\ since.phase \in 0 .. Phases - 1
      /\ ticks \in Int /\ phase \in 0 .. Phases - 1 /\ total \in Nat
      /\ body \in 0 .. MaxBody /\ duration \in Int
      /\ Phases \in Nat \ {0} /\ MaxBody \in Nat /\ MaxTotal \in Nat
  BY <1>0, Typed, ConstantsTyped
<1>1. /\ pc # "test" /\ (pc = "print" => body < MaxBody)
      /\ phase = Phases - 1 /\ phase' = 0
      /\ total < MaxTotal /\ total' = total + 1
      /\ timer_handler
      /\ body' = IF pc = "print" THEN body + 1 ELSE body
      /\ pc' = IF pc = "hlt" THEN "test" ELSE pc
      /\ UNCHANGED <<ticks, eticks, since>>
  BY DEF Tick, TimeMayPass
<1>2. Counted' /\ timer_ticks' \in 0 .. WordSize - 1 /\ seconds' \in Nat
  BY <1>1, TickCounted
<1>3. TypeOK'
  BY <1>0, <1>1, <1>2, <1>t DEF TypeOK
<1>4. Marked' /\ (Undisturbed' <=> Undisturbed)
  BY <1>0, <1>1, <1>t DEF Marked, Undisturbed
<1>5. duration' = duration + 1
  <2> DEFINE d == total - since.total
  <2>1. d \in Int /\ total' - since.total' = d + 1
    BY <1>1, <1>t
  <2>2. duration = d * Phases + phase - since.phase
    BY DEF duration
  <2>3. duration' = (d + 1) * Phases + 0 - since.phase
    BY <1>1, <2>1 DEF duration
  <2> HIDE DEF d
  <2>4. (d + 1) * Phases = d * Phases + Phases /\ d * Phases \in Int
    BY <1>t, <2>1
  <2> QED BY <1>1, <1>t, <2>2, <2>3, <2>4
<1>6. OnTime'
  <2> SUFFICES ASSUME Undisturbed
               PROVE  /\ pc = "print" => duration' - body' < ticks * Phases
                      /\ pc = "hlt" => duration' < (ticks + 1) * Phases + MaxBody
    BY <1>1, <1>4 DEF OnTime
  <2>1. ticks * Phases \in Int /\ (ticks + 1) * Phases = ticks * Phases + Phases
    BY <1>t
  <2> QED BY <1>0, <1>1, <1>5, <1>t, <2>1 DEF OnTime
<1> QED BY <1>2, <1>3, <1>4, <1>6 DEF IInv

LEMMA NextIInv == IInv /\ [Next]_vars => IInv'
<1> SUFFICES ASSUME IInv, [Next]_vars PROVE IInv'
  OBVIOUS
<1>1. CASE Time
  BY <1>1, PassIInv, TickIInv DEF Time
<1>2. CASE Step \/ OtherInterrupt \/ \E n \in WaitArgs : Call(n)
  BY <1>2, StatementIInv DEF Step
<1>3. CASE UNCHANGED vars
  BY <1>3 DEF vars, handlerVars, waitVars, IInv, TypeOK, Counted, Marked, OnTime,
              Undisturbed, duration
<1> QED BY <1>1, <1>2, <1>3 DEF Next

THEOREM Invariance == Spec => []IInv
BY InitIInv, NextIInv, PTL DEF Spec

(* The variables keep their types.                                              *)
THEOREM TypeCorrect == Spec => []TypeOK
<1>1. IInv => TypeOK
  BY DEF IInv
<1> QED BY Invariance, <1>1, PTL

(* The seconds never lag, and are ahead by one at most for each time the count  *)
(* has wrapped around, whatever its width and the rate.                         *)
THEOREM SecondsRight == Spec => []SecondsKeepUp
<1>1. IInv => SecondsKeepUp
  <2> SUFFICES ASSUME IInv PROVE SecondsKeepUp
    OBVIOUS
  <2> DEFINE w == WordSize
             t == TicksPerSecond
             c == SecondsPerWrap
             q == total \div w
             m == timer_ticks \div t
             n == total \div t
  <2>1. /\ w \in Nat \ {0} /\ t \in Nat \ {0} /\ c \in Nat /\ total \in Nat
        /\ timer_ticks \in 0 .. w - 1 /\ seconds \in Nat
        /\ timer_ticks = total % w /\ seconds = q * c + m
        /\ w <= c * t /\ (c - 1) * t < w
    BY ConstantsTyped, SecondsPerWrapIs, Typed DEF IInv, Counted
  <2>2. q \in Nat /\ total = w * q + timer_ticks
    BY <2>1, DividedIs, Zenon
  <2>3. m \in Nat /\ timer_ticks % t \in 0 .. t - 1 /\ timer_ticks = t * m + (timer_ticks % t)
    <3>1. timer_ticks \in Nat
      BY <2>1
    <3> QED BY <2>1, <3>1, DividedIs, Zenon
  <2>4. n \in Nat /\ total % t \in 0 .. t - 1 /\ total = t * n + (total % t)
    BY <2>1, DividedIs, Zenon
  <2> HIDE DEF w, t, c, q, m, n
  <2>5. total < (seconds + 1) * t
    <3>1. w * q <= (c * t) * q
      BY <2>1, <2>2, Monotone
    <3>2. (seconds + 1) * t = (c * t) * q + t * m + t
      BY <2>1, <2>2, <2>3
    <3> QED BY <2>1, <2>2, <2>3, <3>1, <3>2
  <2>6. seconds <= n + q
    <3> DEFINE k == q * (c - 1) + m
    <3>1. ((c - 1) * t) * q <= w * q
      BY <2>1, <2>2, Monotone
    <3>2. k \in Int /\ k * t = ((c - 1) * t) * q + t * m /\ seconds = k + q
      BY <2>1, <2>2, <2>3
    <3>3. k * t <= total
      BY <2>1, <2>2, <2>3, <3>1, <3>2
    <3> HIDE DEF k
    <3>4. ~ (n + 1 <= k)
      <4> SUFFICES ASSUME n + 1 <= k PROVE FALSE
        OBVIOUS
      <4>1. (n + 1) * t <= k * t
        BY <2>1, <2>4, <3>2, Monotone
      <4> QED BY <2>1, <2>4, <3>2, <3>3, <4>1
    <3> QED BY <2>2, <2>4, <3>2, <3>4
  <2> QED BY <2>5, <2>6 DEF SecondsKeepUp, w, t, n, q
<1> QED BY Invariance, <1>1, PTL

(* A wait in progress is not late.                                              *)
THEOREM NotLate == Spec => []WaitNotLate
<1>1. IInv => WaitNotLate
  <2> SUFFICES ASSUME IInv, pc # "returned", Undisturbed
               PROVE  duration < (ticks + 1) * Phases + MaxBody
    BY DEF WaitNotLate
  <2>1. /\ ticks \in Int /\ phase \in 0 .. Phases - 1 /\ body \in 0 .. MaxBody
        /\ duration \in Int /\ Phases \in Nat \ {0} /\ MaxBody \in Nat
    BY Typed, ConstantsTyped DEF IInv
  <2>2. ticks * Phases \in Int /\ (ticks + 1) * Phases = ticks * Phases + Phases
    BY <2>1
  <2>3. pc \in {"print", "hlt", "test"}
    BY DEF IInv, TypeOK
  <2> QED BY <2>1, <2>2, <2>3 DEF IInv, OnTime
<1> QED BY Invariance, <1>1, PTL

(* When the count has reached the mark of a call that does not wrap around, as  *)
(* many ticks as were asked for have come since.                                *)
LEMMA ReachedMark ==
    IInv /\ timer_ticks >= eticks /\ NoWrap
        => total - since.total >= ticks /\ duration > (ticks - 1) * Phases
<1> SUFFICES ASSUME IInv, timer_ticks >= eticks, NoWrap
             PROVE  total - since.total >= ticks /\ duration > (ticks - 1) * Phases
  OBVIOUS
<1> DEFINE s == since.total % WordSize
           d == total - since.total
<1>1. /\ since.total \in Nat /\ since.phase \in 0 .. Phases - 1
      /\ ticks \in Int /\ phase \in 0 .. Phases - 1 /\ total \in Nat
      /\ WordSize \in Nat \ {0} /\ Phases \in Nat \ {0}
      /\ since.total <= total /\ (since.total = total => since.phase <= phase)
      /\ timer_ticks = total % WordSize
  BY ConstantsTyped, Typed DEF IInv, Marked, Counted
<1>2. s \in 0 .. WordSize - 1 /\ d \in Nat
  BY <1>1, DividedIs
<1>3. d >= ticks
  <2>1. CASE ticks <= 0
    BY <1>1, <1>2, <2>1
  <2>2. CASE ticks > 0
    <3>1. eticks = s + ticks
      <4>1. eticks = (s + ticks) % WordSize
        BY DEF IInv, Marked
      <4>2. s + ticks \in 0 .. WordSize - 1 /\ WordSize * 0 + (s + ticks) = s + ticks
        BY <1>1, <1>2, <2>2 DEF NoWrap
      <4> HIDE DEF s
      <4> QED BY <1>1, <4>1, <4>2, Division
    <3> DEFINE q == total \div WordSize
               p == since.total \div WordSize
    <3>2. /\ q \in Nat /\ total = WordSize * q + timer_ticks /\ timer_ticks \in Nat
          /\ p \in Nat /\ since.total = WordSize * p + s
      <4>1. timer_ticks \in Nat
        BY <1>1, Typed DEF IInv
      <4> QED BY <1>1, <4>1, DividedIs, Zenon
    <3>3. p <= q
      BY <1>1, DividedMonotone
    <3> HIDE DEF s, p, q
    <3>4. p * WordSize <= q * WordSize
      BY <1>1, <3>2, <3>3, Monotone
    <3> QED BY <1>1, <1>2, <3>1, <3>2, <3>4
  <2> QED BY <1>1, <2>1, <2>2
<1>4. duration > (ticks - 1) * Phases
  <2>1. duration = d * Phases + phase - since.phase
    BY DEF duration
  <2> HIDE DEF d
  <2>2. ticks * Phases <= d * Phases
    BY <1>1, <1>2, <1>3, Monotone
  <2>3. (ticks - 1) * Phases = ticks * Phases - Phases /\ d * Phases \in Int /\ ticks * Phases \in Int
    BY <1>1, <1>2
  <2> QED BY <1>1, <2>1, <2>2, <2>3
<1> QED BY <1>3, <1>4

(* No wait returns early, unless its mark wrapped around.                       *)
THEOREM NotEarly == Spec => WaitNotEarly
<1>0. (IInv /\ timer_ticks >= eticks /\ NoWrap
          => total - since.total >= ticks /\ duration > (ticks - 1) * Phases)'
  BY ReachedMark, PTL
<1>1. IInv /\ IInv' /\ [Next]_vars =>
        [Returns /\ NoWrap' =>
            /\ (total - since.total >= ticks)'
            /\ (duration > (ticks - 1) * Phases)']_vars
  <2> SUFFICES ASSUME IInv, IInv', Returns, NoWrap'
               PROVE  /\ (total - since.total >= ticks)'
                      /\ (duration > (ticks - 1) * Phases)'
    OBVIOUS
  <2>1. (timer_ticks >= eticks)'
    <3>1. /\ timer_ticks' = timer_ticks
          /\ eticks' \in Nat /\ timer_ticks \in Nat
          /\ pc' = IF timer_ticks < eticks' THEN "print" ELSE "returned"
          /\ pc' = "returned"
      <4>1. eticks' \in Nat /\ timer_ticks \in Nat
        BY ConstantsTyped DEF IInv, TypeOK
      <4> QED BY <4>1 DEF Returns, Test, Call, Waiting, handlerVars
    <3> QED BY <3>1
  <2> QED BY <1>0, <2>1
<1> QED BY Invariance, <1>1, PTL DEF Spec, WaitNotEarly
================================================================================
