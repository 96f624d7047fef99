------------------------- MODULE ExtendedTimerProofs -------------------------
(***************************************************************************)
(* What ExtendedTimer promises, for every modulus and every device, alone  *)
(* and under the main loop of the board, resets included.                  *)
(***************************************************************************)
EXTENDS Integers, DiscoLoop, TLAPS

(***************************************************************************)
(* The inductive invariant.  While read() is between the test of the event *)
(* and its return, what it holds is good already; between its first        *)
(* reading and the test, it is good unless an event is about to be found,  *)
(* and then a second reading follows.                                      *)
(***************************************************************************)
ReadingGood ==
  (reader = "return" \/ (reader = "check" /\ ~event))
    => Good(CombineValues(timer_value, num_wraps))

NoEventAgain == reader = "again" => ~event

TimerInv == TimerTypeOK /\ WrapsCounted /\ NoEventAgain /\ ReadingGood

\* The modulus is a positive number, and so are the values of a counter.
LEMMA ModulusFacts ==
  /\ CounterModulus \in Nat /\ CounterModulus > 1
  /\ Last \in Nat /\ Last + 1 = CounterModulus /\ Last > 0
BY TimerAssumption DEF Last

\* The counter value is in range whichever way the counter counts.
LEMMA CounterRange ==
  ASSUME TimerTypeOK
  PROVE  CounterValueFromRaw(raw) \in 0 .. Last
BY ModulusFacts DEF TimerTypeOK, CounterValueFromRaw

\* A combined value is a natural number.
LEMMA CombineNat ==
  ASSUME NEW v \in Nat, NEW n \in Nat
  PROVE  CombineValues(v, n) \in Nat
BY ModulusFacts DEF CombineValues

\* Counting one wrap adds a turn of the counter.
LEMMA CombineNext ==
  ASSUME NEW v \in Nat, NEW n \in Nat
  PROVE  CombineValues(v, n + 1) = CombineValues(v, n) + CounterModulus
<1>1. (n + 1) * CounterModulus = n * CounterModulus + CounterModulus
  BY ModulusFacts
<1>2. n * CounterModulus \in Nat
  BY ModulusFacts
<1> QED BY <1>1, <1>2, ModulusFacts DEF CombineValues

\* A tick moves the true time by one.
LEMMA TickMovesTime ==
  ASSUME TimerTypeOK, HardwareTick
  PROVE  /\ Now' = Now + 1
         /\ raw' \in 0 .. Last
         /\ ~Wrapping => CounterValueFromRaw(raw)' = CounterValueFromRaw(raw) + 1
         /\ Wrapping => CounterValueFromRaw(raw)' = 0
<1> DEFINE c == CounterValueFromRaw(raw)
<1>1. c \in 0 .. Last /\ wraps \in Nat /\ raw \in 0 .. Last
  BY CounterRange DEF TimerTypeOK
<1>2. device' = device /\ wraps' = (IF Wrapping THEN wraps + 1 ELSE wraps) /\ raw' = NextRaw
  BY DEF HardwareTick
<1>3. CASE Wrapping
  <2>1. c = Last
    BY <1>3 DEF Wrapping
  <2>2. raw' \in 0 .. Last /\ CounterValueFromRaw(raw)' = 0
    BY <1>1, <1>2, <1>3, ModulusFacts DEF NextRaw, CounterValueFromRaw
  <2>3. Now' = CombineValues(0, wraps + 1)
    BY <1>2, <1>3, <2>2 DEF Now, CombineValues
  <2>4. CombineValues(0, wraps + 1) = CombineValues(0, wraps) + CounterModulus
    BY <1>1, CombineNext
  <2>5. Now = CombineValues(0, wraps) + Last
    <3>1. wraps * CounterModulus \in Nat
      BY <1>1, ModulusFacts
    <3> QED BY <2>1, <3>1, ModulusFacts DEF Now, CombineValues
  <2>6. CombineValues(0, wraps) \in Nat
    BY <1>1, CombineNat
  <2> QED BY <1>3, <2>2, <2>3, <2>4, <2>5, <2>6, ModulusFacts
<1>4. CASE ~Wrapping
  <2>1. c # Last
    BY <1>4 DEF Wrapping
  <2>2. raw' \in 0 .. Last /\ CounterValueFromRaw(raw)' = c + 1
    BY <1>1, <1>2, <1>4, <2>1, ModulusFacts DEF NextRaw, CounterValueFromRaw
  <2>3. Now' = CombineValues(c + 1, wraps)
    BY <1>2, <1>4, <2>2 DEF Now, CombineValues
  <2>4. wraps * CounterModulus \in Nat
    BY <1>1, ModulusFacts
  <2>5. CombineValues(c + 1, wraps) = Now + 1
    BY <1>1, <2>4, ModulusFacts DEF Now, CombineValues
  <2> QED BY <1>4, <2>2, <2>3, <2>5
<1> QED BY <1>3, <1>4

\* The true time is a natural number.
LEMMA NowNat ==
  ASSUME TimerTypeOK
  PROVE  Now \in Nat
BY CounterRange, CombineNat DEF TimerTypeOK, Now

\* A time that is good stays good while the counter runs.
LEMMA GoodStays ==
  ASSUME TimerTypeOK, HardwareTick, NEW time \in Nat, Good(time)
  PROVE  Good(time)'
<1>1. Now \in Nat /\ Now' = Now + 1 /\ begin \in Nat
  BY NowNat, TickMovesTime DEF TimerTypeOK
<1>2. begin' = begin /\ device' = device /\ timer_value' = timer_value
  BY DEF HardwareTick, readVars
<1>3. TimeOfCall(time) => TimeOfCall(time)'
  BY <1>1, <1>2 DEF TimeOfCall
<1>4. AheadAtMatch(time) => AheadAtMatch(time)'
  BY <1>1, <1>2, ModulusFacts DEF AheadAtMatch, TimeOfCall
<1> QED BY <1>3, <1>4 DEF Good

(***************************************************************************)
(* A reading taken with no event pending, or just counted, is good: the    *)
(* count is that of the hardware, or one more at the reload value.         *)
(***************************************************************************)
LEMMA FreshGood ==
  ASSUME TimerTypeOK, num_wraps = wraps + EarlyByOne,
         timer_value' = CounterValueFromRaw(raw), num_wraps' = num_wraps,
         device' = device, raw' = raw, wraps' = wraps, begin' = begin
  PROVE  ReadingGood'
<1> DEFINE v == CounterValueFromRaw(raw)
           t == CombineValues(timer_value, num_wraps)
<1>1. Now' = Now /\ Now \in Nat /\ begin \in Nat /\ begin <= Now /\ wraps \in Nat
  BY NowNat DEF TimerTypeOK, Now, CombineValues, CounterValueFromRaw
<1>2. v \in 0 .. Last /\ v \in Nat
  BY CounterRange, ModulusFacts
<1>3. Now = CombineValues(v, wraps) /\ t' = CombineValues(v, num_wraps)
  BY DEF Now, CombineValues
<1>4. CASE EarlyByOne = 0
  <2>1. t' = Now
    BY <1>1, <1>3, <1>4
  <2> HIDE DEF t
  <2>2. TimeOfCall(t)'
    BY <1>1, <2>1 DEF TimeOfCall
  <2>3. Good(t)'
    BY <2>2 DEF Good
  <2> QED BY <2>3 DEF ReadingGood, t
<1>5. CASE EarlyByOne = 1 /\ device = "lptim" /\ v = Last
  <2>1. t' = Now + CounterModulus
    BY <1>1, <1>2, <1>3, <1>5, CombineNext
  <2> HIDE DEF t
  <2>2. t' >= CounterModulus /\ t' - CounterModulus = Now
    BY <1>1, <2>1, ModulusFacts
  <2>3. AheadAtMatch(t)'
    BY <1>1, <1>2, <1>5, <2>2 DEF AheadAtMatch, TimeOfCall
  <2>4. Good(t)'
    BY <2>3 DEF Good
  <2> QED BY <2>4 DEF ReadingGood, t
<1> QED BY <1>4, <1>5 DEF EarlyByOne
------------------------------------------------------------------------------
\* The invariant holds at the start.
LEMMA TimerStarts ==
  ASSUME TimerInit
  PROVE  TimerInv
<1>1. Now = 0
  BY ModulusFacts DEF TimerInit, Now, CombineValues, CounterValueFromRaw
<1>2. raw \in 0 .. Last /\ 0 \in 0 .. Last
  BY ModulusFacts DEF TimerInit
<1>3. TimerTypeOK
  <2>1. begin \in Nat /\ begin <= Now
    BY <1>1 DEF TimerInit
  <2>2. event \in BOOLEAN
    BY Zenon DEF TimerInit
  <2> QED BY <1>2, <2>1, <2>2 DEF TimerInit, TimerTypeOK
<1>4. WrapsCounted
  BY ModulusFacts DEF TimerInit, WrapsCounted, EarlyByOne, CounterValueFromRaw
<1> QED BY <1>3, <1>4 DEF TimerInit, TimerInv, NoEventAgain, ReadingGood

\* A tick of the hardware preserves it.
LEMMA TickKeeps ==
  ASSUME TimerInv, HardwareTick
  PROVE  TimerInv'
<1> USE DEF TimerInv
<1>1. device' = device /\ num_wraps' = num_wraps /\ UNCHANGED readVars
  BY DEF HardwareTick
<1>2. TimerTypeOK'
  <2>1. Now \in Nat /\ Now' = Now + 1 /\ raw' \in 0 .. Last
    BY TickMovesTime, NowNat
  <2> QED BY <1>1, <2>1 DEF HardwareTick, TimerTypeOK, readVars
<1>3. WrapsCounted'
  <2> DEFINE c == CounterValueFromRaw(raw)
             pending == IF event THEN 1 ELSE 0
  <2>1. /\ c \in 0 .. Last /\ wraps \in Nat /\ num_wraps \in Nat
        /\ num_wraps + pending = wraps + EarlyByOne
    BY CounterRange DEF TimerTypeOK, WrapsCounted
  <2>2. /\ c # Last => c' = c + 1 /\ wraps' = wraps
        /\ c = Last => c' = 0 /\ wraps' = wraps + 1
    BY TickMovesTime DEF HardwareTick, Wrapping
  <2>3. RaisesEvent => pending = 0 /\ pending' = 1
    BY DEF HardwareTick
  <2>4. ~RaisesEvent => pending' = pending
    BY DEF HardwareTick, TimerTypeOK
  <2>5. EarlyByOne = (IF device = "lptim" /\ c = Last THEN 1 ELSE 0)
        /\ EarlyByOne' = (IF device = "lptim" /\ c' = Last THEN 1 ELSE 0)
    BY <1>1 DEF EarlyByOne
  <2>6. RaisesEvent <=> IF device = "lptim" THEN c + 1 = Last ELSE c = Last
    BY DEF RaisesEvent, Wrapping
  <2>7. pending \in Nat /\ pending' \in Nat
    OBVIOUS
  <2> HIDE DEF c, pending
  <2>8. num_wraps + pending' = wraps' + EarlyByOne'
    <3>1. CASE c = Last
      <4>1. EarlyByOne' = 0 /\ wraps' = wraps + 1
        BY <2>2, <2>5, <3>1, ModulusFacts
      <4>2. pending' = pending + 1 - EarlyByOne
        BY <2>3, <2>4, <2>5, <2>6, <2>7, <3>1, ModulusFacts
      <4>3. EarlyByOne \in {0, 1}
        BY <2>5
      <4> QED BY <2>1, <2>7, <4>1, <4>2, <4>3
    <3>2. CASE c # Last
      <4>1. EarlyByOne = 0 /\ wraps' = wraps /\ c' = c + 1
        BY <2>2, <2>5, <3>2
      <4>2. pending' = pending + EarlyByOne'
        BY <2>3, <2>4, <2>5, <2>6, <2>7, <3>2, <4>1
      <4>3. EarlyByOne' \in {0, 1}
        BY <2>5
      <4> QED BY <2>1, <2>7, <4>1, <4>2, <4>3
    <3> QED BY <3>1, <3>2
  <2> QED BY <1>1, <2>8 DEF WrapsCounted, pending
<1>4. NoEventAgain'
  BY <1>1 DEF HardwareTick, NoEventAgain, readVars
<1>5. ReadingGood'
  <2> DEFINE t == CombineValues(timer_value, num_wraps)
  <2>1. t \in Nat /\ t' = t
    BY <1>1, CombineNat, ModulusFacts DEF TimerTypeOK, CombineValues, readVars
  <2>2. ~event' => ~event
    BY DEF HardwareTick, TimerTypeOK
  <2>3. Good(t) => Good(t)'
    <3> HIDE DEF t
    <3> QED BY <2>1, GoodStays DEF TimerTypeOK
  <2> QED BY <1>1, <2>1, <2>2, <2>3 DEF ReadingGood, readVars
<1> QED BY <1>2, <1>3, <1>4, <1>5

\* Counting an event settles the count, and leaves the true time alone.
LEMMA CountingSettles ==
  ASSUME TimerInv, HandleTimerWrapAround
  PROVE  /\ WrapsCounted' /\ num_wraps' \in Nat /\ ~event'
         /\ Now' = Now /\ (~event => num_wraps' = num_wraps)
         /\ device' = device /\ raw' = raw /\ wraps' = wraps
BY DEF TimerInv, TimerTypeOK, HandleTimerWrapAround, WrapsCounted, EarlyByOne,
       Now, CombineValues, CounterValueFromRaw

\* So does the interrupt.
LEMMA InterruptKeeps ==
  ASSUME TimerInv, WrapInterrupt
  PROVE  TimerInv'
<1>1. HandleTimerWrapAround /\ UNCHANGED readVars /\ reader = "idle"
  BY DEF WrapInterrupt
<1>2. WrapsCounted' /\ num_wraps' \in Nat /\ ~event' /\ Now' = Now
      /\ device' = device /\ raw' = raw /\ wraps' = wraps
  BY <1>1, CountingSettles
<1>3. TimerTypeOK'
  BY <1>1, <1>2 DEF TimerInv, TimerTypeOK, HandleTimerWrapAround, readVars
<1> QED BY <1>1, <1>2, <1>3 DEF TimerInv, NoEventAgain, ReadingGood, readVars

\* And every step of read().
LEMMA ReadKeeps ==
  ASSUME TimerInv, Read
  PROVE  TimerInv'
<1> USE DEF TimerInv
<1>0. Now \in Nat /\ Last \in Nat /\ num_wraps \in Nat /\ wraps \in Nat
  BY NowNat, ModulusFacts DEF TimerTypeOK
<1>1. CASE ReadEnter
  <2>1. Now' = Now
    BY <1>1 DEF ReadEnter, hardwareVars, Now, CombineValues, CounterValueFromRaw
  <2>2. TimerTypeOK'
    BY <1>0, <1>1, <2>1 DEF ReadEnter, hardwareVars, TimerTypeOK
  <2>3. WrapsCounted'
    BY <1>1 DEF ReadEnter, hardwareVars, WrapsCounted, EarlyByOne, CounterValueFromRaw
  <2> QED BY <1>1, <2>2, <2>3 DEF ReadEnter, NoEventAgain, ReadingGood
<1>2. CASE ReadRaw
  <2>0. device' = device /\ raw' = raw /\ event' = event /\ wraps' = wraps
        /\ num_wraps' = num_wraps /\ begin' = begin /\ reader' = "check"
        /\ timer_value' = CounterValueFromRaw(raw)
    BY <1>2 DEF ReadRaw, hardwareVars
  <2>1. Now' = Now
    BY <2>0 DEF Now, CombineValues, CounterValueFromRaw
  <2>2. TimerTypeOK'
    BY <2>0, <2>1, CounterRange DEF TimerTypeOK
  <2>3. WrapsCounted'
    BY <2>0 DEF WrapsCounted, EarlyByOne, CounterValueFromRaw
  <2>4. ReadingGood'
    <3>1. CASE event
      BY <2>0, <3>1 DEF ReadingGood
    <3>2. CASE ~event
      <4>1. num_wraps = wraps + EarlyByOne
        BY <1>0, <3>2 DEF WrapsCounted, EarlyByOne
      <4> QED BY <2>0, <4>1, FreshGood
    <3> QED BY <3>1, <3>2
  <2> QED BY <2>0, <2>2, <2>3, <2>4 DEF NoEventAgain
<1>3. CASE ReadCheck
  <2>1. HandleTimerWrapAround /\ reader = "check" /\ timer_value' = timer_value
        /\ begin' = begin /\ reader' = (IF event THEN "again" ELSE "return")
    BY <1>3 DEF ReadCheck
  <2>2. WrapsCounted' /\ num_wraps' \in Nat /\ ~event' /\ Now' = Now
        /\ (~event => num_wraps' = num_wraps)
        /\ device' = device /\ raw' = raw /\ wraps' = wraps
    BY <2>1, CountingSettles
  <2>3. TimerTypeOK'
    BY <2>1, <2>2 DEF TimerTypeOK, HandleTimerWrapAround
  <2>4. ReadingGood'
    <3> DEFINE t == CombineValues(timer_value, num_wraps)
    <3>1. CASE event
      BY <2>1, <3>1 DEF ReadingGood
    <3>2. CASE ~event
      <4>1. Good(t) /\ t' = t
        BY <2>1, <2>2, <3>2 DEF ReadingGood, CombineValues
      <4> HIDE DEF t
      <4>2. Good(t)'
        BY <2>1, <2>2, <4>1 DEF Good, TimeOfCall, AheadAtMatch
      <4> QED BY <4>2 DEF ReadingGood, t
    <3> QED BY <3>1, <3>2
  <2> QED BY <2>1, <2>2, <2>3, <2>4 DEF NoEventAgain
<1>4. CASE ReadAgain
  <2>0. device' = device /\ raw' = raw /\ event' = event /\ wraps' = wraps
        /\ num_wraps' = num_wraps /\ begin' = begin /\ reader' = "return"
        /\ timer_value' = CounterValueFromRaw(raw) /\ reader = "again"
    BY <1>4 DEF ReadAgain, hardwareVars
  <2>1. Now' = Now
    BY <2>0 DEF Now, CombineValues, CounterValueFromRaw
  <2>2. TimerTypeOK'
    BY <2>0, <2>1, CounterRange DEF TimerTypeOK
  <2>3. WrapsCounted'
    BY <2>0 DEF WrapsCounted, EarlyByOne, CounterValueFromRaw
  <2>4. num_wraps = wraps + EarlyByOne
    BY <1>0, <2>0 DEF NoEventAgain, WrapsCounted, EarlyByOne
  <2>5. ReadingGood'
    BY <2>0, <2>4, FreshGood
  <2> QED BY <2>0, <2>2, <2>3, <2>5 DEF NoEventAgain
<1>5. CASE ReadReturn
  <2>0. device' = device /\ raw' = raw /\ event' = event /\ wraps' = wraps
        /\ num_wraps' = num_wraps /\ begin' = 0 /\ timer_value' = 0 /\ reader' = "idle"
    BY <1>5 DEF ReadReturn, hardwareVars
  <2>1. Now' = Now
    BY <2>0 DEF Now, CombineValues, CounterValueFromRaw
  <2>2. TimerTypeOK'
    BY <1>0, <2>0, <2>1 DEF TimerTypeOK
  <2>3. WrapsCounted'
    BY <2>0 DEF WrapsCounted, EarlyByOne, CounterValueFromRaw
  <2> QED BY <2>0, <2>2, <2>3 DEF NoEventAgain, ReadingGood
<1> QED BY <1>1, <1>2, <1>3, <1>4, <1>5 DEF Read

\* A step that leaves the timer alone preserves it.
LEMMA TimerStutters ==
  ASSUME TimerInv, UNCHANGED timerVars
  PROVE  TimerInv'
<1>1. device' = device /\ raw' = raw /\ event' = event /\ wraps' = wraps
      /\ num_wraps' = num_wraps /\ reader' = reader /\ timer_value' = timer_value
      /\ begin' = begin
  BY DEF timerVars, hardwareVars, readVars
<1> QED
  BY <1>1 DEF TimerInv, TimerTypeOK, WrapsCounted, NoEventAgain, ReadingGood, Good,
     TimeOfCall, AheadAtMatch, EarlyByOne, Now, CombineValues, CounterValueFromRaw

(***************************************************************************)
(* The timer on its own: its count is always right, and so is every        *)
(* reading, whatever the interleaving of read(), interrupt and hardware.   *)
(***************************************************************************)
THEOREM TimerInvariant == TimerSpec => []TimerInv
<1>1. TimerInit => TimerInv
  BY TimerStarts
<1>2. TimerInv /\ [TimerNext]_timerVars => TimerInv'
  BY TickKeeps, InterruptKeeps, ReadKeeps, TimerStutters DEF TimerNext
<1> QED BY <1>1, <1>2, PTL DEF TimerSpec

(***************************************************************************)
(* A device that keeps the contract of HardwareTimer (sw_extended_timer.h: *)
(* 43-45) never shows read() a value from before a wrap it has reported.   *)
(***************************************************************************)
THEOREM ContractKept == ASSUME "lptim" \notin Devices PROVE TimerSpec => []PostWrapRead
<1>1. TimerInv => PostWrapRead
  BY DEF TimerInv, TimerTypeOK, WrapsCounted, EarlyByOne, NoEventAgain, PostWrapRead
<1> QED BY <1>1, TimerInvariant, PTL
------------------------------------------------------------------------------
\* Under the main loop, the timer takes its own steps, rests, or starts again.
LEMMA LoopKeeps ==
  ASSUME TimerInv, [LoopNext]_loopVars
  PROVE  TimerInv'
<1>1. CASE SysTick \/ Kick \/ Poll \/ LinkPollFor \/ LinkCondition \/ LinkClock
      \/ UNCHANGED loopVars
  <2>1. UNCHANGED timerVars
    BY <1>1 DEF SysTick, Kick, Poll, LinkPollFor, LinkCondition, LinkClock, loopVars
  <2> QED BY <2>1, TimerStutters
<1>2. CASE WatchdogReset
  <2>1. device' \in Devices /\ raw' = (IF device' = "down" THEN Last ELSE 0)
        /\ event' = FALSE /\ wraps' = 0 /\ num_wraps' = 0
        /\ reader' = "idle" /\ timer_value' = 0 /\ begin' = 0
    BY <1>2 DEF WatchdogReset, TimerInv, TimerTypeOK
  <2>2. Now' = 0 /\ CounterValueFromRaw(raw)' = 0
    BY <2>1, ModulusFacts DEF Now, CombineValues, CounterValueFromRaw
  <2>3. TimerTypeOK'
    <3>1. raw' \in 0 .. Last /\ timer_value' \in 0 .. Last
      BY <2>1, ModulusFacts
    <3>2. begin' \in Nat /\ begin' <= Now'
      BY <2>1, <2>2
    <3>3. event' \in BOOLEAN
      BY <2>1, Zenon
    <3> QED BY <2>1, <3>1, <3>2, <3>3 DEF TimerTypeOK
  <2>4. WrapsCounted'
    BY <2>1, <2>2, ModulusFacts DEF WrapsCounted, EarlyByOne
  <2> QED BY <2>1, <2>3, <2>4 DEF TimerInv, NoEventAgain, ReadingGood
<1>3. CASE Timers
  BY <1>3, TickKeeps, InterruptKeeps DEF Timers
<1>4. CASE UptimeRead
  BY <1>4, ReadKeeps DEF UptimeRead
<1> QED BY <1>1, <1>2, <1>3, <1>4 DEF LoopNext, Loop

\* The invariant of the timer holds on the board.
LEMMA LoopInvariant == LoopSpec => []TimerInv
<1>1. LoopInit => TimerInv
  BY TimerStarts DEF LoopInit
<1>2. TimerInv /\ [LoopNext]_loopVars => TimerInv'
  BY LoopKeeps
<1> QED BY <1>1, <1>2, PTL DEF LoopSpec

(***************************************************************************)
(* Every reading the board takes is the time of some moment of the call,   *)
(* or, from Lptimer at its reload value, a turn of the counter ahead.      *)
(***************************************************************************)
THEOREM BoardReadsTime == LoopSpec => []ReadIsCurrent
<1>1. TimerInv => ReadIsCurrent
  BY DEF TimerInv, ReadingGood, ReadIsCurrent
<1> QED BY <1>1, LoopInvariant, PTL

\* No wrap of the counter is counted twice, or lost, on the board.
THEOREM BoardCountsWraps == LoopSpec => []WrapsCounted
<1>1. TimerInv => WrapsCounted
  BY DEF TimerInv
<1> QED BY <1>1, LoopInvariant, PTL
------------------------------------------------------------------------------
(***************************************************************************)
(* The pace of the main loop of the board, for every width of the count of *)
(* milliseconds, every period and every watchdog.                          *)
(***************************************************************************)

\* The values of the loop's own variables.
PaceTypeOK ==
  /\ sys_tick_count \in 0 .. CountModulus - 1
  /\ next_tick_time \in [Task -> Nat]
  /\ turn \in Task \cup {"kick"} /\ step \in {"poll", "tick", "wait", "clock"}
  /\ now \in 0 .. CountModulus - 1 /\ end \in Nat
  /\ unkicked \in 0 .. WatchdogPeriod /\ wrapped \in BOOLEAN
  /\ turn = "kick" => step = "poll"

(***************************************************************************)
(* The inductive invariant.  While the count has not wrapped, the loop was *)
(* last at the kick at Kicked.  A task that has been polled since was      *)
(* either not due or has a new time, and neither lies before the kick; one *)
(* that has not was polled in the turn before, at most a watchdog period   *)
(* earlier.                                                                *)
(***************************************************************************)
Kicked == sys_tick_count - unkicked

Polled(task) == turn = "kick" \/ (task = "uptime" /\ turn = "link")

Overdue(task) == IF Polled(task) THEN 0 ELSE WatchdogPeriod

Paced ==
  ~wrapped =>
    /\ Kicked >= 0
    /\ step # "poll" => now >= Kicked
    /\ \A task \in Task : Kicked <= next_tick_time[task] + Overdue(task)

PaceInv == PaceTypeOK /\ Paced

\* The constants.
LEMMA PaceFacts ==
  /\ CountModulus \in Nat /\ CountModulus > 0
  /\ WatchdogPeriod \in Nat /\ WatchdogPeriod > 0 /\ PhyTimeout \in Nat
  /\ PeriodOf \in [Task -> Nat]
BY LoopAssumption

\* The end of a turn changes the slack of the task whose turn it was alone.
LEMMA PolledNow ==
  ASSUME turn \in Task, turn' = Following(turn)
  PROVE  /\ \A task \in Task : Overdue(task)' \in Nat
         /\ \A task \in Task \ {turn} : Overdue(task)' = Overdue(task)
BY PaceFacts DEF Task, Following, Overdue, Polled

\* A start, and a restart by the watchdog, is at the kick at time zero.
LEMMA PaceStarts ==
  ASSUME Start
  PROVE  PaceInv
<1>1. sys_tick_count = 0 /\ unkicked = 0 /\ wrapped = FALSE /\ next_tick_time = PeriodOf
      /\ turn = "kick" /\ step = "poll" /\ now = 0 /\ end = 0
  BY DEF Start
<1>2. \A task \in Task : PeriodOf[task] \in Nat
  BY PaceFacts
<1>3. PaceTypeOK
  <2>1. wrapped \in BOOLEAN
    BY <1>1, Zenon
  <2>2. sys_tick_count \in 0 .. CountModulus - 1 /\ now \in 0 .. CountModulus - 1
        /\ unkicked \in 0 .. WatchdogPeriod /\ end \in Nat
    BY <1>1, PaceFacts
  <2> QED BY <1>1, <2>1, <2>2, PaceFacts DEF PaceTypeOK
<1>4. Paced
  BY <1>1, <1>2 DEF Paced, Kicked, Overdue, Polled
<1> QED BY <1>3, <1>4 DEF PaceInv

LEMMA ResetKeeps ==
  ASSUME WatchdogReset
  PROVE  PaceInv'
<1>1. /\ sys_tick_count' = 0 /\ unkicked' = 0 /\ wrapped' = FALSE
      /\ next_tick_time' = PeriodOf
      /\ turn' = "kick" /\ step' = "poll" /\ now' = 0 /\ end' = 0
  BY DEF WatchdogReset
<1>2. \A task \in Task : PeriodOf[task] \in Nat
  BY PaceFacts
<1>3. PaceTypeOK'
  <2>1. wrapped' \in BOOLEAN
    BY <1>1, Zenon
  <2>2. sys_tick_count' \in 0 .. CountModulus - 1 /\ now' \in 0 .. CountModulus - 1
        /\ unkicked' \in 0 .. WatchdogPeriod /\ end' \in Nat
    BY <1>1, PaceFacts
  <2> QED BY <1>1, <2>1, <2>2, PaceFacts DEF PaceTypeOK
<1>4. Paced'
  BY <1>1, <1>2 DEF Paced, Kicked, Overdue, Polled
<1> QED BY <1>3, <1>4 DEF PaceInv

\* A millisecond moves count and watchdog alike, until the count wraps.
LEMMA SysTickKeeps ==
  ASSUME PaceInv, SysTick
  PROVE  PaceInv'
<1>1. /\ sys_tick_count \in 0 .. CountModulus - 1 /\ unkicked \in 0 .. WatchdogPeriod
      /\ unkicked < WatchdogPeriod /\ unkicked' = unkicked + 1
      /\ sys_tick_count' = (sys_tick_count + 1) % CountModulus
      /\ wrapped' = (wrapped \/ sys_tick_count' = 0) /\ wrapped \in BOOLEAN
      /\ next_tick_time' = next_tick_time /\ turn' = turn /\ step' = step
      /\ now' = now /\ end' = end
  BY DEF PaceInv, PaceTypeOK, SysTick, taskVars
<1>2. sys_tick_count' = IF sys_tick_count + 1 = CountModulus THEN 0 ELSE sys_tick_count + 1
  BY <1>1, PaceFacts
<1>3. PaceTypeOK'
  <2>1. wrapped' \in BOOLEAN
    BY <1>1, Zenon
  <2>2. sys_tick_count' \in 0 .. CountModulus - 1 /\ unkicked' \in 0 .. WatchdogPeriod
    BY <1>1, <1>2, PaceFacts
  <2> QED BY <1>1, <2>1, <2>2 DEF PaceInv, PaceTypeOK
<1>4. ASSUME ~wrapped' PROVE ~wrapped /\ Kicked' = Kicked
  <2>1. ~wrapped /\ sys_tick_count' # 0
    BY <1>1, <1>4, Zenon
  <2>2. sys_tick_count' = sys_tick_count + 1
    BY <1>2, <2>1
  <2>3. Kicked' = Kicked
    BY <1>1, <2>2, PaceFacts DEF Kicked
  <2> QED BY <2>1, <2>3
<1>5. Paced'
  BY <1>1, <1>4 DEF PaceInv, Paced, Overdue, Polled
<1> QED BY <1>3, <1>5 DEF PaceInv

\* Every task has been polled when the watchdog is kicked again.
LEMMA KickKeeps ==
  ASSUME PaceInv, Kick
  PROVE  PaceInv'
<1>1. /\ turn = "kick" /\ turn' = "uptime" /\ unkicked' = 0 /\ step = "poll"
      /\ sys_tick_count' = sys_tick_count /\ next_tick_time' = next_tick_time
      /\ step' = step /\ now' = now /\ end' = end /\ wrapped' = wrapped
  BY DEF PaceInv, PaceTypeOK, Kick
<1>2. sys_tick_count \in Nat /\ unkicked \in 0 .. WatchdogPeriod
      /\ \A task \in Task : next_tick_time[task] \in Nat
  BY PaceFacts DEF PaceInv, PaceTypeOK
<1>3. PaceTypeOK'
  BY <1>1, PaceFacts DEF PaceInv, PaceTypeOK, Task
<1>4. Paced'
  <2>1. SUFFICES ASSUME ~wrapped
                 PROVE  /\ Kicked' >= 0
                        /\ \A task \in Task : Kicked' <= next_tick_time[task] + Overdue(task)'
    BY <1>1 DEF Paced
  <2>2. ASSUME NEW task \in Task PROVE Kicked <= next_tick_time[task]
    BY <1>1, <1>2, <2>1 DEF PaceInv, Paced, Overdue, Polled
  <2>3. Kicked' = sys_tick_count /\ \A task \in Task : Overdue(task)' = WatchdogPeriod
    BY <1>1, <1>2 DEF Kicked, Overdue, Polled
  <2> QED BY <1>2, <2>2, <2>3, PaceFacts DEF Kicked
<1> QED BY <1>3, <1>4 DEF PaceInv

\* A task that is not due has its next time ahead of the kick.
LEMMA PollKeeps ==
  ASSUME PaceInv, Poll
  PROVE  PaceInv'
<1>1. /\ turn \in Task /\ step = "poll"
      /\ sys_tick_count' = sys_tick_count /\ unkicked' = unkicked /\ wrapped' = wrapped
      /\ next_tick_time' = next_tick_time
  BY DEF Poll
<1>2. /\ sys_tick_count \in Nat /\ unkicked \in 0 .. WatchdogPeriod
      /\ \A task \in Task : next_tick_time[task] \in Nat
  BY PaceFacts DEF PaceInv, PaceTypeOK
<1>3. Kicked' = Kicked
  BY <1>1 DEF Kicked
<1>4. CASE sys_tick_count >= next_tick_time[turn]
  <2>1. now' = sys_tick_count /\ step' = "tick" /\ turn' = turn /\ end' = end
    BY <1>4 DEF Poll
  <2>2. PaceTypeOK'
    BY <1>1, <2>1 DEF PaceInv, PaceTypeOK, Task
  <2>3. Paced'
    BY <1>1, <1>2, <1>3, <2>1 DEF PaceInv, Paced, Kicked, Overdue, Polled
  <2> QED BY <2>2, <2>3 DEF PaceInv
<1>5. CASE sys_tick_count < next_tick_time[turn]
  <2>1. turn' = Following(turn) /\ step' = "poll" /\ now' = 0 /\ end' = 0
    BY <1>1, <1>2, <1>5 DEF Poll, Done
  <2>2. PaceTypeOK'
    <3>1. now' \in 0 .. CountModulus - 1 /\ end' \in Nat
      BY <2>1, PaceFacts
    <3> QED BY <1>1, <2>1, <3>1 DEF PaceInv, PaceTypeOK, Task, Following
  <2>3. Kicked <= next_tick_time[turn]
    BY <1>1, <1>2, <1>5 DEF Kicked
  <2>4. Paced'
    <3>1. SUFFICES ASSUME ~wrapped
                   PROVE  /\ Kicked >= 0
                          /\ \A task \in Task : Kicked <= next_tick_time[task] + Overdue(task)'
      BY <1>1, <1>3, <2>1 DEF Paced
    <3>2. Kicked >= 0 /\ \A task \in Task : Kicked <= next_tick_time[task] + Overdue(task)
      BY <3>1 DEF PaceInv, Paced
    <3>3. Kicked \in Int
      BY <1>2, PaceFacts DEF Kicked
    <3>4. /\ \A task \in Task : Overdue(task)' \in Nat
          /\ \A task \in Task \ {turn} : Overdue(task)' = Overdue(task)
      BY <1>1, <2>1, PolledNow
    <3> QED BY <1>2, <2>3, <3>2, <3>3, <3>4
  <2> QED BY <2>2, <2>4 DEF PaceInv
<1> QED BY <1>1, <1>2, <1>4, <1>5

(***************************************************************************)
(* When a tick ends, the task's next time is a period after it began, and  *)
(* it began after the kick.                                                *)
(***************************************************************************)
LEMMA TickEndsKeeps ==
  ASSUME PaceInv, TickEnds, turn \in Task, step # "poll",
         UNCHANGED <<sys_tick_count, unkicked, wrapped>>
  PROVE  PaceInv'
<1>1. /\ sys_tick_count' = sys_tick_count /\ unkicked' = unkicked /\ wrapped' = wrapped
      /\ next_tick_time' = [next_tick_time EXCEPT ![turn] = now + PeriodOf[turn]]
      /\ turn' = Following(turn) /\ step' = "poll" /\ now' = 0 /\ end' = 0
  BY DEF TickEnds, Done
<1>2. /\ sys_tick_count \in Nat /\ unkicked \in 0 .. WatchdogPeriod /\ now \in Nat
      /\ next_tick_time \in [Task -> Nat] /\ PeriodOf[turn] \in Nat
  BY PaceFacts DEF PaceInv, PaceTypeOK
<1>3. Kicked' = Kicked /\ Kicked \in Int
  BY <1>1, <1>2, PaceFacts DEF Kicked
<1>4. PaceTypeOK'
  <2>1. now' \in 0 .. CountModulus - 1 /\ end' \in Nat
    BY <1>1, PaceFacts
  <2>2. next_tick_time' \in [Task -> Nat]
    BY <1>1, <1>2
  <2> QED BY <1>1, <2>1, <2>2 DEF PaceInv, PaceTypeOK, Task, Following
<1>5. Paced'
  <2>1. SUFFICES ASSUME ~wrapped
                 PROVE  /\ Kicked >= 0
                        /\ \A task \in Task : Kicked <= next_tick_time'[task] + Overdue(task)'
    BY <1>1, <1>3 DEF Paced
  <2>2. Kicked >= 0 /\ now >= Kicked
        /\ \A task \in Task : Kicked <= next_tick_time[task] + Overdue(task)
    BY <2>1 DEF PaceInv, Paced
  <2>3. ASSUME NEW task \in Task PROVE Kicked <= next_tick_time'[task] + Overdue(task)'
    <3>1. CASE task = turn
      <4>1. next_tick_time'[task] = now + PeriodOf[turn]
        BY <1>1, <1>2, <3>1
      <4>2. Overdue(task)' \in Nat
        BY PaceFacts DEF Overdue
      <4> QED BY <1>2, <1>3, <2>2, <4>1, <4>2
    <3>2. CASE task # turn
      <4>1. next_tick_time'[task] = next_tick_time[task] /\ next_tick_time[task] \in Nat
        BY <1>1, <1>2, <3>2
      <4>2. Overdue(task)' = Overdue(task)
        BY <1>1, <3>2, PolledNow
      <4> QED BY <2>2, <4>1, <4>2
    <3> QED BY <3>1, <3>2
  <2> QED BY <2>2, <2>3
<1> QED BY <1>4, <1>5 DEF PaceInv

\* A step within a tick changes nothing the pace depends on.
LEMMA WithinTick ==
  ASSUME PaceInv, turn' = turn, turn # "kick", step # "poll",
         step' \in {"tick", "wait", "clock"}, end' \in Nat, now' = now,
         UNCHANGED <<sys_tick_count, next_tick_time, unkicked, wrapped>>
  PROVE  PaceInv'
<1>1. PaceTypeOK'
  BY DEF PaceInv, PaceTypeOK
<1>2. Kicked' = Kicked /\ \A task \in Task : Overdue(task)' = Overdue(task)
  BY DEF Kicked, Overdue, Polled
<1>3. Paced'
  BY <1>2 DEF PaceInv, Paced
<1> QED BY <1>1, <1>3 DEF PaceInv

\* A step that leaves the loop where it is.
LEMMA PaceStutters ==
  ASSUME PaceInv, UNCHANGED <<sys_tick_count, taskVars, unkicked, wrapped>>
  PROVE  PaceInv'
<1>1. /\ sys_tick_count' = sys_tick_count /\ unkicked' = unkicked /\ wrapped' = wrapped
      /\ next_tick_time' = next_tick_time /\ turn' = turn /\ step' = step
      /\ now' = now /\ end' = end
  BY DEF taskVars
<1> QED BY <1>1 DEF PaceInv, PaceTypeOK, Paced, Kicked, Overdue, Polled

\* Every step of the program preserves the invariant.
LEMMA PaceNext ==
  ASSUME PaceInv, [LoopNext]_loopVars
  PROVE  PaceInv'
<1>0. sys_tick_count \in Nat /\ end \in Nat /\ step \in {"poll", "tick", "wait", "clock"}
  BY PaceFacts DEF PaceInv, PaceTypeOK
<1>1. CASE Timers \/ UNCHANGED loopVars
  BY <1>1, PaceStutters DEF Timers, loopVars
<1>2. CASE UptimeRead
  <2>1. UNCHANGED <<sys_tick_count, unkicked, wrapped>> /\ turn = "uptime" /\ step = "tick"
    BY <1>2 DEF UptimeRead
  <2>2. TickEnds \/ UNCHANGED taskVars
    BY <1>2 DEF UptimeRead
  <2> QED BY <2>1, <2>2, TickEndsKeeps, PaceStutters DEF Task
<1>3. CASE LinkPollFor
  <2>1. end' \in Nat
    BY <1>0, <1>3, PaceFacts DEF LinkPollFor
  <2> QED BY <1>3, <2>1, WithinTick DEF LinkPollFor
<1>4. CASE LinkCondition
  <2>1. UNCHANGED <<sys_tick_count, unkicked, wrapped>> /\ turn = "link" /\ step = "wait"
    BY <1>4 DEF LinkCondition
  <2>2. CASE TickEnds
    BY <2>1, <2>2, TickEndsKeeps DEF Task
  <2>3. CASE step' = "clock" /\ UNCHANGED <<next_tick_time, turn, now, end>>
    BY <1>0, <2>1, <2>3, WithinTick
  <2> QED BY <1>4, <2>2, <2>3 DEF LinkCondition
<1>5. CASE LinkClock
  <2>1. UNCHANGED <<sys_tick_count, unkicked, wrapped>> /\ turn = "link" /\ step = "clock"
    BY <1>5 DEF LinkClock
  <2>2. CASE TickEnds
    BY <2>1, <2>2, TickEndsKeeps DEF Task
  <2>3. CASE step' = "wait" /\ UNCHANGED <<next_tick_time, turn, now, end>>
    BY <1>0, <2>1, <2>3, WithinTick
  <2> QED BY <1>5, <2>2, <2>3 DEF LinkClock
<1> QED BY <1>1, <1>2, <1>3, <1>4, <1>5, SysTickKeeps, ResetKeeps, KickKeeps, PollKeeps
        DEF LoopNext, Loop

\* The invariant holds throughout.
LEMMA PaceInvariant == LoopSpec => []PaceInv
<1>1. LoopInit => PaceInv
  BY PaceStarts DEF LoopInit
<1>2. PaceInv /\ [LoopNext]_loopVars => PaceInv'
  BY PaceNext
<1> QED BY <1>1, <1>2, PTL DEF LoopSpec

(***************************************************************************)
(* Until the count of milliseconds wraps, no task is overdue by more than  *)
(* two watchdog periods, whatever the periods, the watchdog and the wait   *)
(* for the PHY are.                                                        *)
(***************************************************************************)
THEOREM TasksPunctual == LoopSpec => []Punctual
<1>1. ASSUME PaceInv PROVE Punctual
  <2>1. /\ sys_tick_count \in Nat /\ unkicked \in 0 .. WatchdogPeriod
        /\ \A task \in Task : next_tick_time[task] \in Nat
    BY <1>1, PaceFacts DEF PaceInv, PaceTypeOK
  <2>2. ASSUME ~wrapped, NEW task \in Task
        PROVE  sys_tick_count <= next_tick_time[task] + 2 * WatchdogPeriod
    <3>1. sys_tick_count - unkicked <= next_tick_time[task] + Overdue(task)
      BY <1>1, <2>2 DEF PaceInv, Paced, Kicked
    <3>2. Overdue(task) \in 0 .. WatchdogPeriod
      BY PaceFacts DEF Overdue
    <3> QED BY <2>1, <3>1, <3>2, PaceFacts
  <2> QED BY <2>2 DEF Punctual
<1> QED BY <1>1, PaceInvariant, PTL

\* The variables of the loop and of its timer keep their types.
THEOREM LoopTypes == LoopSpec => []LoopTypeOK
<1>1. PaceInv /\ TimerInv => LoopTypeOK
  BY DEF PaceInv, PaceTypeOK, TimerInv, LoopTypeOK
<1> QED BY <1>1, PaceInvariant, LoopInvariant, PTL
==============================================================================
