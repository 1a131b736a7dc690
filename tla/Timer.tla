--------------------------------- MODULE Timer ---------------------------------
(* The system timer: timer_handler counts the ticks of line 0 in an unsigned    *)
(* word and seconds beside it; timer_wait sleeps until the count reaches a mark *)
(* (kernel/arch/i386/timer.c).  Time passes in phases, a fixed number to a      *)
(* tick, so that a wait may begin anywhere between two ticks.                   *)
EXTENDS Integers

CONSTANTS WordSize,      (* 2^32 in the program                                 *)
          TicksPerSecond,(* 100: the rate given to timer_phase                  *)
          Phases,        (* phases to a tick                                    *)
          MaxBody,       (* bound: phases one round of serial output takes      *)
          WaitArgs,      (* the arguments timer_wait is called with             *)
          MaxTotal       (* bound: ticks since the timer was installed          *)

ASSUME TimerAssumption ==
    /\ {WordSize, TicksPerSecond, Phases} \subseteq Nat \ {0}
    /\ {MaxBody, MaxTotal} \subseteq Nat
    /\ WaitArgs \subseteq -WordSize .. WordSize - 1

VARIABLES timer_ticks, seconds,
          pc,      (* the statement of timer_wait to be executed, or "returned" *)
          ticks,   (* its argument                                              *)
          eticks,  (* its mark                                                  *)
          phase,   (* phases since the last tick                                *)
          total,   (* history: all the ticks there have been                    *)
          since,   (* history: total and phase at the call                      *)
          body     (* phases since the last test of the mark                    *)

handlerVars == <<timer_ticks, seconds>>

waitVars == <<pc, ticks, eticks, since>>

vars == <<handlerVars, waitVars, phase, total, body>>

Init ==
    /\ timer_ticks = 0 /\ seconds = 0
    /\ pc = "returned" /\ ticks = 0 /\ eticks = 0
    /\ phase = 0 /\ total = 0 /\ body = 0
    /\ since = [total |-> 0, phase |-> 0]
--------------------------------------------------------------------------------
(* Faults: a count that does not wrap; the second is tested before the tick.    *)
IncrementedWide == timer_ticks + 1

SecondIsFullEarly == timer_ticks % TicksPerSecond = 0

Incremented == (timer_ticks + 1) % WordSize

SecondIsFull == timer_ticks' % TicksPerSecond = 0

timer_handler ==
    /\ timer_ticks' = Incremented
    /\ seconds' = IF SecondIsFull THEN seconds + 1 ELSE seconds

(* The mark is set and first compared with the count in one reading of it.      *)
Call(n) ==
    /\ pc = "returned"
    /\ ticks' = n
    /\ eticks' = (timer_ticks + n) % WordSize
    /\ pc' = IF timer_ticks < eticks' THEN "print" ELSE "returned"
    /\ since' = [total |-> total, phase |-> phase]
    /\ body' = 0
    /\ UNCHANGED <<handlerVars, phase, total>>

(* The serial output of the loop's body.                                        *)
Printed ==
    /\ pc = "print"
    /\ pc' = "hlt"
    /\ UNCHANGED <<handlerVars, ticks, eticks, since, phase, total, body>>

(* An interrupt ends the hlt; the timer's does too, in Tick.                    *)
OtherInterrupt ==
    /\ pc = "hlt"
    /\ pc' = "test"
    /\ UNCHANGED <<handlerVars, ticks, eticks, since, phase, total, body>>

(* Faults: an if for the while; <= for <; # for <.                              *)
WaitingOnce == FALSE

WaitingAtMost == timer_ticks <= eticks

WaitingUnequal == timer_ticks # eticks

Waiting == timer_ticks < eticks

Test ==
    /\ pc = "test"
    /\ pc' = IF Waiting THEN "print" ELSE "returned"
    /\ body' = 0
    /\ UNCHANGED <<handlerVars, ticks, eticks, since, phase, total>>

(* Time passes everywhere but between the end of the hlt and the test after it. *)
TimeMayPass ==
    /\ pc # "test"
    /\ pc = "print" => body < MaxBody

Pass ==
    /\ TimeMayPass
    /\ phase < Phases - 1
    /\ phase' = phase + 1
    /\ body' = IF pc = "print" THEN body + 1 ELSE body
    /\ UNCHANGED <<handlerVars, waitVars, total>>

Tick ==
    /\ TimeMayPass
    /\ phase = Phases - 1
    /\ total < MaxTotal
    /\ phase' = 0
    /\ total' = total + 1
    /\ timer_handler
    /\ body' = IF pc = "print" THEN body + 1 ELSE body
    /\ pc' = IF pc = "hlt" THEN "test" ELSE pc
    /\ UNCHANGED <<ticks, eticks, since>>

Time == Pass \/ Tick

Step == Printed \/ Test

Next == Time \/ Step \/ OtherInterrupt \/ \E n \in WaitArgs : Call(n)

(* The processor executes the loop, and time passes however often other         *)
(* interrupts end the hlt.                                                      *)
Spec == Init /\ [][Next]_vars /\ SF_vars(Time) /\ WF_vars(Step)
--------------------------------------------------------------------------------
(* Properties *)

(* The values of the variables.                                                 *)
TypeOK ==
    /\ {timer_ticks, eticks} \subseteq 0 .. WordSize - 1 /\ seconds \in Nat
    /\ pc \in {"returned", "print", "hlt", "test"} /\ ticks \in WaitArgs \cup {0}
    /\ phase \in 0 .. Phases - 1 /\ total \in 0 .. MaxTotal /\ body \in 0 .. MaxBody
    /\ since \in [total : 0 .. MaxTotal, phase : 0 .. Phases - 1]

(* The seconds never lag behind the ticks by a whole second, and run ahead by   *)
(* at most one for each time the count of ticks has wrapped around, though the  *)
(* wrap starts a new second before the old one is full.                         *)
SecondsKeepUp ==
    /\ total < (seconds + 1) * TicksPerSecond
    /\ seconds <= total \div TicksPerSecond + total \div WordSize

duration == (total - since.total) * Phases + phase - since.phase

(* The call's mark does not lie beyond the largest count.                       *)
NoWrap == (since.total % WordSize) + ticks < WordSize

Returns == (Test \/ \E n \in WaitArgs : Call(n)) /\ pc' = "returned"

(* A wait has seen as many ticks as it was asked for when it returns, unless    *)
(* its mark wrapped around; and it has taken more than that less one period.    *)
WaitNotEarly ==
    [][Returns /\ NoWrap' =>
          /\ (total - since.total >= ticks)'
          /\ (duration > (ticks - 1) * Phases)']_vars

(* A wait in progress has not overrun its last tick by more than one tick and   *)
(* one round of output: the tick that reaches the mark may fall between the     *)
(* test and the hlt, which then sleeps one tick more.  (Unless the count wraps  *)
(* around on the way, when the mark goes by unseen.)                            *)
Undisturbed ==
    /\ ticks > 0
    /\ (since.total % WordSize) + ticks + MaxBody + 1 < WordSize

WaitNotLate ==
    pc # "returned" /\ Undisturbed => duration < (ticks + 1) * Phases + MaxBody

(* Such a wait does end (as far as the bound on ticks lets it).                 *)
WaitEnds ==
    (pc # "returned" /\ Undisturbed /\ since.total + ticks + MaxBody + 1 < MaxTotal)
        ~> (pc = "returned")

(* "Waits for (ticks * 10) ms" (timer.c): for that many whole periods of the    *)
(* timer.                                                                       *)
WaitsWholePeriods ==
    [][Returns => duration' >= ticks' * Phases]_vars
================================================================================
