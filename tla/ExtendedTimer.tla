---------------------------- MODULE ExtendedTimer ----------------------------
(***************************************************************************)
(* SoftwareExtendedTimer (Firmware/hal/sw_extended_timer.h): a hardware    *)
(* counter of CounterModulus ticks, extended in software by a count of its *)
(* wraps.  read() runs in the main loop with interrupts masked; the        *)
(* handler of the wrap interrupt runs when it may; the counter does not    *)
(* wait for either.                                                        *)
(*                                                                         *)
(* The hardware is one of three devices: the simulated timer of the tests, *)
(* counting "up" or "down", whose event comes with the wrap, or "lptim",   *)
(* the board's Lptimer, which takes the match with the reload value, one   *)
(* tick before the wrap, for the event.                                    *)
(***************************************************************************)
EXTENDS Naturals

CONSTANTS
  CounterModulus,  \* kCounterModulus
  Devices,         \* the devices considered
  MaxWraps         \* bound of the checks: the counter stops in its last tick

ASSUME TimerAssumption ==
  /\ CounterModulus \in Nat /\ CounterModulus > 1
  /\ Devices \subseteq {"up", "down", "lptim"}
  /\ MaxWraps \in Nat

VARIABLES
  device,       \* which hardware it is; never changes
  raw,          \* its counter
  event,        \* its wrap flag, which also requests the interrupt
  wraps,        \* how often it has wrapped since the start
  num_wraps,    \* num_wraps_
  reader,       \* where read() is
  timer_value,  \* its local
  begin         \* the true time at which it was called

hardwareVars == <<device, raw, event, wraps>>
readVars == <<reader, timer_value, begin>>
timerVars == <<hardwareVars, num_wraps, readVars>>

Last == CounterModulus - 1

CounterValueFromRaw(value) == IF device = "down" THEN Last - value ELSE value

CombineValues(value, count) == count * CounterModulus + value

\* The true time, in ticks since the start.
Now == CombineValues(CounterValueFromRaw(raw), wraps)

TimerInit ==
  /\ device \in Devices
  /\ raw = (IF device = "down" THEN Last ELSE 0)
  /\ event = FALSE /\ wraps = 0 /\ num_wraps = 0
  /\ reader = "idle" /\ timer_value = 0 /\ begin = 0
------------------------------------------------------------------------------
\* The hardware.

Wrapping == CounterValueFromRaw(raw) = Last

RaisesEvent ==
  IF device = "lptim" THEN CounterValueFromRaw(raw) + 1 = Last ELSE Wrapping

\* Mutant of NextRaw: the counter passes its last value.
NextRawPast == IF device = "down" THEN (IF raw = 0 THEN Last ELSE raw - 1) ELSE raw + 1

\* advanceOne()
NextRaw ==
  IF device = "down" THEN (IF Wrapping THEN Last ELSE raw - 1)
                     ELSE (IF Wrapping THEN 0 ELSE raw + 1)

(***************************************************************************)
(* One tick.  An event is counted, and the call of read() that counts it   *)
(* is past its second reading, before the next event, a whole turn of the  *)
(* counter later.                                                          *)
(***************************************************************************)
HardwareTick ==
  /\ Wrapping => wraps < MaxWraps
  /\ RaisesEvent => ~event /\ reader # "again"
  /\ raw' = NextRaw
  /\ event' = (event \/ RaisesEvent)
  /\ wraps' = IF Wrapping THEN wraps + 1 ELSE wraps
  /\ UNCHANGED <<device, num_wraps, readVars>>
------------------------------------------------------------------------------
\* Mutant of HandleTimerWrapAround: the event is counted and left to be counted again.
HandleTimerWrapAroundKept ==
  /\ event' = event
  /\ num_wraps' = IF event THEN num_wraps + 1 ELSE num_wraps
  /\ UNCHANGED <<device, raw, wraps>>

\* handleTimerWrapAround(), with checkWrapAround().
HandleTimerWrapAround ==
  /\ event' = FALSE
  /\ num_wraps' = IF event THEN num_wraps + 1 ELSE num_wraps
  /\ UNCHANGED <<device, raw, wraps>>

\* The interrupt, masked while read() is under way.
WrapInterrupt ==
  /\ event /\ reader = "idle"
  /\ HandleTimerWrapAround
  /\ UNCHANGED readVars

\* read() enters its critical section.
ReadEnter ==
  /\ reader = "idle"
  /\ reader' = "raw" /\ begin' = Now
  /\ UNCHANGED <<hardwareVars, num_wraps, timer_value>>

\* readRaw() returns what its last access to the counter saw.
ReadRaw ==
  /\ reader = "raw" /\ reader' = "check"
  /\ timer_value' = CounterValueFromRaw(raw)
  /\ UNCHANGED <<hardwareVars, num_wraps, begin>>

\* Mutant of ReadCheck: the value read before the wrap was counted is kept.
ReadCheckKeep ==
  /\ reader = "check" /\ reader' = "return"
  /\ HandleTimerWrapAround
  /\ UNCHANGED <<timer_value, begin>>

ReadCheck ==
  /\ reader = "check"
  /\ reader' = IF event THEN "again" ELSE "return"
  /\ HandleTimerWrapAround
  /\ UNCHANGED <<timer_value, begin>>

ReadAgain ==
  /\ reader = "again" /\ reader' = "return"
  /\ timer_value' = CounterValueFromRaw(raw)
  /\ UNCHANGED <<hardwareVars, num_wraps, begin>>

\* num_wraps is loaded and the section left; the locals are gone.
ReadReturn ==
  /\ reader = "return" /\ reader' = "idle"
  /\ timer_value' = 0 /\ begin' = 0
  /\ UNCHANGED <<hardwareVars, num_wraps>>

Read == ReadEnter \/ ReadRaw \/ ReadCheck \/ ReadAgain \/ ReadReturn

TimerNext == HardwareTick \/ WrapInterrupt \/ Read

TimerSpec == TimerInit /\ [][TimerNext]_timerVars
------------------------------------------------------------------------------
TimerTypeOK ==
  /\ device \in Devices
  /\ raw \in 0 .. Last /\ event \in BOOLEAN
  /\ wraps \in Nat /\ num_wraps \in Nat
  /\ reader \in {"idle", "raw", "check", "again", "return"}
  /\ timer_value \in 0 .. Last
  /\ begin \in Nat /\ begin <= Now

(***************************************************************************)
(* A reading is a time of the call, or, from Lptimer alone, one of its     *)
(* last ticks before a wrap, and then a whole turn of the counter ahead.   *)
(***************************************************************************)
TimeOfCall(time) == time \in begin .. Now

AheadAtMatch(time) ==
  /\ device = "lptim" /\ timer_value = Last
  /\ time >= CounterModulus /\ TimeOfCall(time - CounterModulus)

Good(time) == TimeOfCall(time) \/ AheadAtMatch(time)

(***************************************************************************)
(* What read() returns is the true time at some moment of the call, even   *)
(* when the counter wraps between its steps, and whoever counts the wrap;  *)
(* with Lptimer it may be ahead by a turn of the counter, and only when    *)
(* the counter was seen at its reload value.                               *)
(***************************************************************************)
ReadIsCurrent ==
  reader = "return" => Good(CombineValues(timer_value, num_wraps))

(***************************************************************************)
(* "A read of the timer immediately after this function returns true must  *)
(* return a post-wrap value" (sw_extended_timer.h:43-45): once             *)
(* checkWrapAround() has reported a wrap, the counter has wrapped.         *)
(***************************************************************************)
PostWrapRead == reader = "again" => wraps >= num_wraps

(***************************************************************************)
(* No wrap is counted twice or lost: the count, with the event still to be *)
(* served, is that of the hardware, and ahead of it only while Lptimer is  *)
(* at its reload value.                                                    *)
(***************************************************************************)
EarlyByOne == IF device = "lptim" /\ CounterValueFromRaw(raw) = Last THEN 1 ELSE 0

WrapsCounted == num_wraps + (IF event THEN 1 ELSE 0) = wraps + EarlyByOne
==============================================================================
