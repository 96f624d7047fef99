--------------------------- MODULE FpgaAppProofs ---------------------------
(***************************************************************************)
(* Proofs about the FPGA application, for every width of the timer, every  *)
(* delay and start, every ring size and every byte.                        *)
(***************************************************************************)
EXTENDS FpgaApp, SequenceLemmas, TLAPS

(***************************************************************************)
(* The two halves of a time.                                               *)
(***************************************************************************)

LEMMA Moduli ==
  /\ LowModulus \in Nat /\ LowModulus > 1 /\ HighModulus \in Nat /\ HighModulus > 1
  /\ AllOnes \in Nat /\ AllOnes = LowModulus * HighModulus - 1
  /\ Delay \in Nat /\ LatestArm \in Nat /\ LastTime \in Nat
  /\ LatestArm + Delay <= LastTime /\ LastTime < AllOnes
<1>1. LowModulus * HighModulus \in Nat
  BY TimerAssumption
<1>2. AllOnes \in Int /\ AllOnes = LowModulus * HighModulus - 1
  BY <1>1 DEF AllOnes
<1> QED BY <1>2, TimerAssumption

\* A time is the join of its halves.
LEMMA Halves ==
  ASSUME NEW t \in Nat
  PROVE  /\ High(t) \in Nat /\ Low(t) \in 0 .. LowModulus - 1
         /\ t = High(t) * LowModulus + Low(t)
         /\ High(t) * LowModulus \in Nat
BY Moduli DEF High, Low

\* A product grows with its factor.
LEMMA Times ==
  ASSUME NEW g \in Nat, NEW h \in Nat, g < h
  PROVE  g * LowModulus + LowModulus <= h * LowModulus
<1>1. PICK d \in Nat : h = g + 1 + d
  <2>1. h - g - 1 \in Nat /\ h = g + 1 + (h - g - 1)
    OBVIOUS
  <2> QED BY <2>1
<1>2. d * LowModulus \in Nat /\ g * LowModulus \in Nat
  BY Moduli
<1>3. h * LowModulus = g * LowModulus + LowModulus + d * LowModulus
  BY <1>1, Moduli
<1> QED BY <1>2, <1>3, Moduli

\* The halves of a join are what was joined.
LEMMA JoinedHalves ==
  ASSUME NEW h \in Nat, NEW l \in 0 .. LowModulus - 1
  PROVE  /\ Joined(h, l) \in Nat
         /\ High(Joined(h, l)) = h /\ Low(Joined(h, l)) = l
<1> DEFINE t == h * LowModulus + l
<1>1. h * LowModulus \in Nat /\ t \in Nat
  BY Moduli
<1>2. /\ High(t) \in Nat /\ Low(t) \in 0 .. LowModulus - 1
      /\ t = High(t) * LowModulus + Low(t) /\ High(t) * LowModulus \in Nat
  BY <1>1, Halves
<1>3. ~(h < High(t))
  BY <1>1, <1>2, Times, Moduli
<1>4. ~(High(t) < h)
  BY <1>1, <1>2, Times, Moduli
<1>5. High(t) = h
  BY <1>2, <1>3, <1>4
<1>6. Low(t) = l
  BY <1>1, <1>2, <1>5, Moduli
<1> QED BY <1>1, <1>5, <1>6 DEF Joined

\* The high half never goes back, and moves by at most one in less than a
\* turn of the low half.
LEMMA HighMoves ==
  ASSUME NEW s \in Nat, NEW t \in Nat, s <= t
  PROVE  /\ High(s) <= High(t)
         /\ t - s < LowModulus => High(t) <= High(s) + 1
<1>1. /\ High(s) \in Nat /\ Low(s) \in 0 .. LowModulus - 1
      /\ s = High(s) * LowModulus + Low(s) /\ High(s) * LowModulus \in Nat
  BY Halves
<1>2. /\ High(t) \in Nat /\ Low(t) \in 0 .. LowModulus - 1
      /\ t = High(t) * LowModulus + Low(t) /\ High(t) * LowModulus \in Nat
  BY Halves
<1>3. ~(High(t) < High(s))
  BY <1>1, <1>2, Times, Moduli
<1>4. ASSUME High(s) + 1 < High(t) PROVE t - s >= LowModulus
  <2>1. (High(s) + 1) * LowModulus + LowModulus <= High(t) * LowModulus
    BY <1>1, <1>2, <1>4, Times
  <2>2. (High(s) + 1) * LowModulus = High(s) * LowModulus + LowModulus
    BY <1>1, Moduli
  <2> QED BY <1>1, <1>2, <2>1, <2>2, Moduli
<1> QED BY <1>1, <1>2, <1>3, <1>4, Moduli

\* The largest high half, and a value of the compare register that has it.
LEMMA MaxHigh ==
  ASSUME NEW l \in 0 .. LowModulus - 1
  PROVE  /\ HighModulus - 1 \in Nat
         /\ Joined(HighModulus - 1, l) \in 0 .. AllOnes
         /\ Joined(HighModulus - 1, l) > LatestArm
         /\ Joined(HighModulus - 1, LowModulus - 1) = AllOnes
         /\ High(AllOnes) = HighModulus - 1 /\ Low(AllOnes) = LowModulus - 1
<1>1. (HighModulus - 1) * LowModulus = LowModulus * HighModulus - LowModulus
  BY Moduli
<1>2. LowModulus * HighModulus \in Nat /\ (HighModulus - 1) * LowModulus \in Int
  BY Moduli
<1>3. HighModulus - 1 \in Nat /\ LowModulus - 1 \in 0 .. LowModulus - 1
  BY Moduli
<1>4. Joined(HighModulus - 1, LowModulus - 1) = AllOnes
  BY <1>1, <1>2, Moduli DEF Joined
<1>5. LatestArm < (HighModulus - 1) * LowModulus
  BY TimerAssumption
<1>6. Joined(HighModulus - 1, l) \in 0 .. AllOnes /\ Joined(HighModulus - 1, l) > LatestArm
  BY <1>1, <1>2, <1>3, <1>5, Moduli, JoinedHalves DEF Joined
<1>7. High(AllOnes) = HighModulus - 1 /\ Low(AllOnes) = LowModulus - 1
  BY <1>3, <1>4, JoinedHalves
<1> QED BY <1>3, <1>4, <1>6, <1>7

\* A time the counter can have has a high half of its width.
LEMMA HighRange ==
  ASSUME NEW t \in 0 .. AllOnes
  PROVE  High(t) \in 0 .. HighModulus - 1
<1>1. /\ High(t) \in Nat /\ Low(t) \in 0 .. LowModulus - 1 /\ t \in Nat
  BY Halves
<1>2. High(t) <= High(AllOnes)
  BY <1>1, HighMoves, Moduli
<1>3. High(AllOnes) = HighModulus - 1
  BY MaxHigh, Moduli
<1> QED BY <1>1, <1>2, <1>3, Moduli

\* A join of halves of their width fits the compare register.
LEMMA JoinedRange ==
  ASSUME NEW h \in 0 .. HighModulus - 1, NEW l \in 0 .. LowModulus - 1
  PROVE  Joined(h, l) \in 0 .. AllOnes
<1>1. h \in Nat /\ HighModulus - 1 \in Nat /\ LowModulus - 1 \in 0 .. LowModulus - 1
  BY Moduli
<1>2. h * LowModulus <= (HighModulus - 1) * LowModulus
  BY <1>1, Times, Moduli
<1>3. h * LowModulus \in Nat /\ (HighModulus - 1) * LowModulus \in Nat
  BY <1>1, Moduli
<1>4. Joined(HighModulus - 1, LowModulus - 1) = AllOnes
  BY <1>1, MaxHigh
<1> QED BY <1>1, <1>2, <1>3, <1>4, Moduli DEF Joined

(***************************************************************************)
(* The delay.  What it has read is a time the counter showed during the    *)
(* call, and the compare register is never at or below the counter before  *)
(* the end.                                                                *)
(***************************************************************************)

Armed == {"compHigh", "compLow", "compFinal", "spin"}

Showed(t) == begin <= t /\ t <= timer

Measured ==
  /\ step \in Reading => timer - begin < LowModulus
  /\ step \in {"low", "check"} => high = High(begin)
  /\ step = "check" => \E t \in begin .. timer : low = Low(t)
  /\ step = "again" => high = High(begin) + 1 /\ high <= High(timer)
  /\ step = "arm" => Showed(Joined(high, low))
  /\ step \in Armed => Showed(end - Delay)

NotBefore ==
  /\ step \in {"high"} \union Reading \union Arming => timer <= LatestArm
  /\ step \in {"high", "arm", "compHigh"} \union Reading => comp = AllOnes
  /\ step = "compLow" => High(comp) = HighModulus - 1
  /\ step \in {"compHigh", "compLow"} => isr_counter = snapshot
  /\ step = "compFinal" => Low(comp) >= Low(end)
  /\ step \in {"compFinal", "spin"} =>
        comp >= end /\ (isr_counter = snapshot \/ timer >= end)
  /\ step = "done" => timer >= begin + Delay

TimerInv == TimerTypeOK /\ begin <= timer /\ Measured /\ NotBefore

LEMMA TimerStarts ==
  ASSUME TimerInit
  PROVE  TimerInv
<1>1. timer \in 0 .. LatestArm /\ timer \in 0 .. LastTime
  BY TimerAssumption, Moduli DEF TimerInit
<1>2. 0 \in 0 .. CounterModulus - 1 /\ 0 \in 0 .. LowModulus - 1
      /\ 0 \in 0 .. HighModulus - 1 /\ 0 \in 0 .. AllOnes /\ AllOnes \in 0 .. AllOnes
  BY TimerAssumption, Moduli
<1>3. TimerTypeOK
  BY <1>1, <1>2 DEF TimerInit, TimerTypeOK, Steps
<1> QED BY <1>1, <1>3 DEF TimerInit, TimerInv, Measured, NotBefore, Armed, Reading, Arming

\* What is true of the ranges, in the form the steps need.
LEMMA Ranges ==
  ASSUME TimerInv
  PROVE  /\ timer \in Nat /\ begin \in Nat /\ comp \in Nat /\ end \in Nat
         /\ timer < AllOnes /\ begin <= timer /\ timer <= LastTime
         /\ high \in Nat /\ low \in 0 .. LowModulus - 1
         /\ High(timer) \in 0 .. HighModulus - 1 /\ Low(timer) \in 0 .. LowModulus - 1
         /\ High(comp) \in 0 .. HighModulus - 1 /\ Low(comp) \in 0 .. LowModulus - 1
         /\ High(end) \in 0 .. HighModulus - 1 /\ Low(end) \in 0 .. LowModulus - 1
<1>1. /\ timer \in 0 .. AllOnes /\ begin \in Nat /\ comp \in 0 .. AllOnes
      /\ end \in 0 .. AllOnes /\ timer < AllOnes /\ begin <= timer /\ timer <= LastTime
      /\ high \in Nat /\ low \in 0 .. LowModulus - 1
  BY Moduli DEF TimerInv, TimerTypeOK
<1>2. timer \in Nat /\ comp \in Nat /\ end \in Nat
  BY <1>1
<1> QED BY <1>1, <1>2, HighRange, Halves

LEMMA TickKeeps ==
  ASSUME TimerInv, Tick
  PROVE  TimerInv'
<1>1. timer' = timer + 1 /\ timer < LastTime
      /\ UNCHANGED <<comp, isr_counter, step, high, low, end, snapshot, begin>>
  BY DEF Tick
<1>2. timer \in Nat /\ begin \in Nat /\ begin <= timer /\ end \in Nat /\ comp \in Nat
  BY Ranges
<1>3. TimerTypeOK' /\ begin' <= timer'
  BY <1>1, <1>2, Moduli DEF TimerInv, TimerTypeOK
<1>4. Measured'
  <2>1. step \in Reading => timer' - begin < LowModulus
    BY <1>1, <1>2, Moduli DEF Tick
  <2>2. High(timer) <= High(timer') /\ High(timer) \in Nat /\ High(timer') \in Nat
    <3>1. timer + 1 \in Nat /\ timer <= timer + 1
      BY <1>2
    <3>2. High(timer) <= High(timer + 1)
      BY <1>2, <3>1, HighMoves
    <3>3. High(timer) \in Nat /\ High(timer + 1) \in Nat
      BY <1>2, <3>1, Halves
    <3> QED BY <1>1, <3>2, <3>3
  <2>3. high \in Nat /\ low \in Nat
    BY Ranges, Moduli
  <2>4. step = "check" => \E t \in begin .. timer' : low = Low(t)
    BY <1>1, <1>2 DEF TimerInv, Measured
  <2>5. step = "again" => high = High(begin) + 1 /\ high <= High(timer')
    BY <2>2, <2>3 DEF TimerInv, Measured
  <2>6. step = "arm" => Showed(Joined(high, low)) /\ Joined(high, low) \in Nat
    BY <2>3, Ranges, JoinedHalves DEF TimerInv, Measured
  <2>7. step \in Armed => Showed(end - Delay)
    BY DEF TimerInv, Measured
  <2>8. (step = "arm" => Showed(Joined(high, low)))'
    BY <1>1, <1>2, <2>6 DEF Showed, Joined
  <2>9. (step \in Armed => Showed(end - Delay))'
    BY <1>1, <1>2, <2>7, Moduli DEF Showed, Armed
  <2>10. (step \in Reading => timer - begin < LowModulus)'
         /\ (step = "check" => \E t \in begin .. timer : low = Low(t))'
         /\ (step = "again" => high = High(begin) + 1 /\ high <= High(timer))'
    BY <1>1, <2>1, <2>4, <2>5 DEF Reading, High, Low
  <2>11. (step \in {"low", "check"} => high = High(begin))'
    BY <1>1 DEF TimerInv, Measured, High
  <2> QED BY <2>8, <2>9, <2>10, <2>11 DEF Measured
<1>5. NotBefore'
  BY <1>1, <1>2, Moduli DEF TimerInv, NotBefore, Tick, High, Low, Reading, Arming
<1> QED BY <1>3, <1>4, <1>5 DEF TimerInv

\* The handler runs early in no part of the call.
LEMMA IsrKeeps ==
  ASSUME TimerInv, MtimIsr
  PROVE  TimerInv'
<1>1. /\ timer >= comp /\ comp' = AllOnes /\ isr_counter' = (isr_counter + 1) % CounterModulus
      /\ UNCHANGED <<timer, step, high, low, end, snapshot, begin>>
  BY DEF MtimIsr, MtiIrq
<1>2. timer \in Nat /\ begin \in Nat /\ begin <= timer /\ end \in Nat /\ comp \in Nat
      /\ timer < AllOnes /\ comp = Joined(High(comp), Low(comp))
  BY Ranges, Halves DEF Joined
<1>3. isr_counter' \in 0 .. CounterModulus - 1
  BY <1>1, TimerAssumption DEF TimerInv, TimerTypeOK
<1>4. TimerTypeOK' /\ begin' <= timer'
  BY <1>1, <1>2, <1>3, Moduli DEF TimerInv, TimerTypeOK
<1>5. Measured'
  BY <1>1 DEF TimerInv, Measured, Showed, Joined, High, Low
<1>6. step \notin {"high", "arm", "compHigh"} \union Reading
  BY <1>1, <1>2 DEF TimerInv, NotBefore
<1>7. step # "compLow"
  <2>1. SUFFICES ASSUME step = "compLow" PROVE FALSE
    OBVIOUS
  <2>2. High(comp) = HighModulus - 1 /\ timer <= LatestArm
    BY <2>1 DEF TimerInv, NotBefore, Arming
  <2>3. comp > LatestArm
    BY <1>2, <2>2, Ranges, MaxHigh
  <2> QED BY <1>1, <1>2, <2>2, <2>3, Moduli
<1>8. step \in {"compFinal", "spin"} => timer >= end /\ AllOnes >= end
  BY <1>1, <1>2 DEF TimerInv, NotBefore, TimerTypeOK
<1>9. Low(AllOnes) = LowModulus - 1 /\ Low(end) \in 0 .. LowModulus - 1
  BY MaxHigh, Ranges, Moduli
<1>10. NotBefore'
  BY <1>1, <1>6, <1>7, <1>8, <1>9, Moduli DEF TimerInv, NotBefore, Low, High, Reading, Arming
<1> QED BY <1>4, <1>5, <1>10 DEF TimerInv

(***************************************************************************)
(* The steps of the read.                                                  *)
(***************************************************************************)

LEMMA ReadHighKeeps ==
  ASSUME TimerInv, ReadHigh
  PROVE  TimerInv'
<1> USE DEF ReadHigh
<1>1. TimerTypeOK' /\ begin' <= timer'
  BY Ranges DEF TimerInv, TimerTypeOK, Steps, Reading
<1>2. Measured'
  BY Ranges, Moduli DEF Measured, Reading, Armed, High
<1>3. NotBefore'
  BY DEF TimerInv, NotBefore, Reading, Arming
<1> QED BY <1>1, <1>2, <1>3 DEF TimerInv

LEMMA ReadLowKeeps ==
  ASSUME TimerInv, ReadLow
  PROVE  TimerInv'
<1> USE DEF ReadLow
<1>1. TimerTypeOK' /\ begin' <= timer'
  BY Ranges DEF TimerInv, TimerTypeOK, Steps, Reading
<1>2. timer \in begin .. timer
  BY Ranges
<1>3. Measured'
  BY <1>2 DEF TimerInv, Measured, Reading, Armed, High, Low
<1>4. NotBefore'
  BY DEF TimerInv, NotBefore, Reading, Arming
<1> QED BY <1>1, <1>3, <1>4 DEF TimerInv

\* Equal high halves: the low half read between them was read in the same
\* turn.  Unequal ones: the counter has just turned.
LEMMA ReadCheckKeeps ==
  ASSUME TimerInv, ReadCheck
  PROVE  TimerInv'
<1> USE DEF ReadCheck
<1>1. TimerTypeOK' /\ begin' <= timer'
  BY Ranges DEF TimerInv, TimerTypeOK, Steps, Reading, Arming
<1>2. PICK t \in begin .. timer : low = Low(t)
  BY DEF TimerInv, Measured
<1>3. /\ t \in Nat /\ begin \in Nat /\ timer \in Nat /\ begin <= t /\ t <= timer
      /\ high = High(begin) /\ timer - begin < LowModulus
  BY <1>2, Ranges DEF TimerInv, Measured, Reading
<1>4. /\ High(begin) <= High(t) /\ High(t) <= High(timer) /\ High(timer) <= High(begin) + 1
      /\ High(begin) \in Nat /\ High(t) \in Nat /\ High(timer) \in Nat
  <2>1. High(begin) \in Nat /\ High(t) \in Nat /\ High(timer) \in Nat
    BY <1>3, Halves
  <2>2. High(begin) <= High(t)
    BY <1>3, HighMoves
  <2>3. High(t) <= High(timer)
    BY <1>3, HighMoves
  <2>4. High(timer) <= High(begin) + 1
    BY <1>3, HighMoves
  <2> QED BY <2>1, <2>2, <2>3, <2>4
<1>5. High(timer) = high => Joined(High(timer), low) = t
  <2>1. High(timer) = high => High(t) = High(timer)
    BY <1>3, <1>4
  <2> QED BY <1>2, <1>3, <2>1, Halves DEF Joined
<1>6. High(timer) # high => High(timer) = High(begin) + 1
  BY <1>3, <1>4
<1>7. Measured'
  <2>1. CASE High(timer) = high
    BY <1>3, <1>5, <2>1 DEF Measured, Reading, Armed, Showed, Joined
  <2>2. CASE High(timer) # high
    BY <1>3, <1>4, <1>6, <2>2 DEF Measured, Reading, Armed, Showed, High
  <2> QED BY <2>1, <2>2
<1>8. NotBefore'
  BY DEF TimerInv, NotBefore, Reading, Arming
<1> QED BY <1>1, <1>7, <1>8 DEF TimerInv

LEMMA ReadLowAgainKeeps ==
  ASSUME TimerInv, ReadLowAgain
  PROVE  TimerInv'
<1> USE DEF ReadLowAgain
<1>1. TimerTypeOK' /\ begin' <= timer'
  BY Ranges DEF TimerInv, TimerTypeOK, Steps, Arming
<1>2. /\ high = High(begin) + 1 /\ high <= High(timer) /\ timer - begin < LowModulus
      /\ begin \in Nat /\ timer \in Nat /\ begin <= timer /\ high \in Nat
  BY Ranges DEF TimerInv, Measured, Reading
<1>3. High(timer) <= High(begin) + 1 /\ High(timer) \in Nat
  BY <1>2, HighMoves, Halves
<1>4. Joined(high, Low(timer)) = timer
  BY <1>2, <1>3, Halves DEF Joined
<1>5. Measured'
  BY <1>2, <1>4 DEF Measured, Reading, Armed, Showed, Joined
<1>6. NotBefore'
  BY DEF TimerInv, NotBefore, Reading, Arming
<1> QED BY <1>1, <1>5, <1>6 DEF TimerInv

(***************************************************************************)
(* The steps that arm the compare register, and their repetitions.         *)
(***************************************************************************)

LEMMA ArmKeeps ==
  ASSUME TimerInv, Arm
  PROVE  TimerInv'
<1> USE DEF Arm
<1>1. /\ Joined(high, low) \in Nat /\ begin <= Joined(high, low)
      /\ Joined(high, low) <= timer /\ timer <= LatestArm /\ timer \in Nat
  BY Ranges, JoinedHalves DEF TimerInv, Measured, NotBefore, Showed, Arming
<1>2. end' \in 0 .. AllOnes /\ end' - Delay = Joined(high, low)
  BY <1>1, Moduli
<1>3. TimerTypeOK' /\ begin' <= timer'
  BY <1>2, Ranges DEF TimerInv, TimerTypeOK, Steps, Arming
<1>4. Measured'
  <2>1. (step \in Armed => Showed(end - Delay))'
    BY <1>1, <1>2 DEF Showed
  <2> QED BY <2>1 DEF Measured, Reading
<1>5. NotBefore'
  BY DEF TimerInv, NotBefore, Reading, Arming
<1> QED BY <1>3, <1>4, <1>5 DEF TimerInv

\* The values that the stores leave in the compare register.
LEMMA StoreHigh ==
  ASSUME TimerInv, step = "compHigh", WriteCompHigh(HighModulus - 1)
  PROVE  comp' = AllOnes
<1>1. comp = AllOnes
  BY DEF TimerInv, NotBefore
<1>2. LowModulus - 1 \in 0 .. LowModulus - 1
  BY Moduli
<1> QED BY <1>1, <1>2, MaxHigh DEF WriteCompHigh

LEMMA StoreLow ==
  ASSUME TimerInv, step = "compLow", WriteCompLow(Low(end))
  PROVE  /\ comp' = Joined(HighModulus - 1, Low(end)) /\ comp' \in 0 .. AllOnes
         /\ High(comp') = HighModulus - 1 /\ Low(comp') = Low(end) /\ comp' >= end
<1>1. comp' = Joined(HighModulus - 1, Low(end))
  BY DEF TimerInv, NotBefore, WriteCompLow
<1>2. Low(end) \in 0 .. LowModulus - 1 /\ end \in Nat /\ High(end) \in 0 .. HighModulus - 1
      /\ HighModulus - 1 \in Nat
  BY Ranges, Moduli
<1>3. /\ Joined(HighModulus - 1, Low(end)) \in 0 .. AllOnes
      /\ High(Joined(HighModulus - 1, Low(end))) = HighModulus - 1
      /\ Low(Joined(HighModulus - 1, Low(end))) = Low(end)
  BY <1>2, MaxHigh, JoinedHalves
<1>4. Joined(HighModulus - 1, Low(end)) >= end
  <2>1. end = High(end) * LowModulus + Low(end)
    BY <1>2, Halves
  <2>2. High(end) * LowModulus <= (HighModulus - 1) * LowModulus
    BY <1>2, Times, Moduli
  <2>3. High(end) * LowModulus \in Nat /\ (HighModulus - 1) * LowModulus \in Nat
    BY <1>2, Moduli
  <2> QED BY <1>2, <2>1, <2>2, <2>3 DEF Joined
<1> QED BY <1>1, <1>3, <1>4

LEMMA StoreFinal ==
  ASSUME TimerInv, step = "compFinal", WriteCompHigh(High(end))
  PROVE  /\ comp' \in 0 .. AllOnes /\ comp' >= end /\ Low(comp') = Low(comp)
<1>1. comp' = Joined(High(end), Low(comp)) /\ Low(comp) >= Low(end)
  BY DEF TimerInv, NotBefore, WriteCompHigh
<1>2. /\ Low(end) \in 0 .. LowModulus - 1 /\ end \in Nat /\ High(end) \in 0 .. HighModulus - 1
      /\ Low(comp) \in 0 .. LowModulus - 1 /\ High(end) \in Nat
  BY Ranges, Moduli
<1>3. /\ Joined(High(end), Low(comp)) \in 0 .. AllOnes
      /\ Low(Joined(High(end), Low(comp))) = Low(comp)
  BY <1>2, JoinedRange, JoinedHalves
<1>4. Joined(High(end), Low(comp)) >= end
  <2>1. end = High(end) * LowModulus + Low(end) /\ High(end) * LowModulus \in Nat
    BY <1>2, Halves
  <2> QED BY <1>1, <1>2, <2>1, Moduli DEF Joined
<1> QED BY <1>1, <1>3, <1>4

LEMMA CompHighKeeps ==
  ASSUME TimerInv, CompHigh
  PROVE  TimerInv'
<1> USE DEF CompHigh
<1>1. comp' = AllOnes
  BY StoreHigh
<1>2. TimerTypeOK' /\ begin' <= timer'
  BY <1>1, Moduli DEF TimerInv, TimerTypeOK, Steps, Arming
<1>3. Measured'
  BY DEF TimerInv, Measured, Armed, Reading, Showed
<1>4. High(comp') = HighModulus - 1
  BY <1>1, MaxHigh, Moduli
<1>5. NotBefore'
  BY <1>4 DEF TimerInv, NotBefore, Reading, Arming, High, Low
<1> QED BY <1>2, <1>3, <1>5 DEF TimerInv

LEMMA CompLowKeeps ==
  ASSUME TimerInv, CompLow
  PROVE  TimerInv'
<1> USE DEF CompLow
<1>1. /\ comp' \in 0 .. AllOnes /\ Low(comp') = Low(end) /\ comp' >= end
      /\ Low(end) \in Nat
  BY StoreLow, Ranges
<1>2. TimerTypeOK' /\ begin' <= timer'
  BY <1>1 DEF TimerInv, TimerTypeOK, Steps, Arming
<1>3. Measured'
  BY DEF TimerInv, Measured, Armed, Reading, Showed
<1>4. NotBefore'
  BY <1>1 DEF TimerInv, NotBefore, Reading, Arming, Low
<1> QED BY <1>2, <1>3, <1>4 DEF TimerInv

LEMMA CompFinalKeeps ==
  ASSUME TimerInv, CompFinal
  PROVE  TimerInv'
<1> USE DEF CompFinal
<1>1. comp' \in 0 .. AllOnes /\ comp' >= end
  BY StoreFinal
<1>2. TimerTypeOK' /\ begin' <= timer'
  BY <1>1 DEF TimerInv, TimerTypeOK, Steps, Arming
<1>3. Measured'
  BY DEF TimerInv, Measured, Armed, Reading, Showed
<1>4. NotBefore'
  BY <1>1 DEF TimerInv, NotBefore, Reading, Arming
<1> QED BY <1>2, <1>3, <1>4 DEF TimerInv

LEMMA SpinKeeps ==
  ASSUME TimerInv, Spin
  PROVE  TimerInv'
<1> USE DEF Spin
<1>1. TimerTypeOK' /\ begin' <= timer'
  BY DEF TimerInv, TimerTypeOK, Steps
<1>2. timer >= end /\ begin <= end - Delay
  BY DEF TimerInv, Measured, NotBefore, Armed, Showed
<1>3. timer >= begin + Delay
  BY <1>2, Ranges, Moduli
<1>4. Measured' /\ NotBefore'
  BY <1>3 DEF Measured, NotBefore, Armed, Reading, Arming
<1> QED BY <1>1, <1>4 DEF TimerInv

LEMMA ReturnKeeps ==
  ASSUME TimerInv, Return
  PROVE  TimerInv'
<1> USE DEF Return
<1>1. 0 \in 0 .. CounterModulus - 1 /\ 0 \in 0 .. LowModulus - 1
      /\ 0 \in 0 .. HighModulus - 1 /\ 0 \in 0 .. AllOnes /\ 0 \in 0 .. LastTime
  BY TimerAssumption, Moduli
<1>2. TimerTypeOK' /\ begin' <= timer'
  BY <1>1, Ranges DEF TimerInv, TimerTypeOK, Steps
<1>3. Measured' /\ NotBefore'
  BY DEF Measured, NotBefore, Armed, Reading, Arming
<1> QED BY <1>2, <1>3 DEF TimerInv

LEMMA RepeatedStoreKeeps ==
  ASSUME TimerInv, RepeatedStore
  PROVE  TimerInv'
<1>1. UNCHANGED <<timer, isr_counter, step, high, low, end, snapshot, begin>>
  BY DEF RepeatedStore
<1>2. Measured'
  BY <1>1 DEF TimerInv, Measured, Showed, Joined, High, Low
<1>3. CASE step = "compHigh" /\ WriteCompHigh(HighModulus - 1)
  <2>1. comp' = AllOnes /\ comp = AllOnes
    BY <1>3, StoreHigh DEF TimerInv, NotBefore
  <2> QED BY <1>1, <1>2, <2>1 DEF TimerInv, TimerTypeOK, NotBefore, High, Low
<1>4. CASE step = "compLow" /\ WriteCompLow(Low(end))
  <2>1. comp' \in 0 .. AllOnes /\ High(comp') = HighModulus - 1
    BY <1>4, StoreLow
  <2>2. TimerTypeOK' /\ begin' <= timer'
    BY <1>1, <2>1 DEF TimerInv, TimerTypeOK
  <2>3. NotBefore'
    BY <1>1, <1>4, <2>1 DEF TimerInv, NotBefore, Reading, Arming, High
  <2> QED BY <1>2, <2>2, <2>3 DEF TimerInv
<1>5. CASE step = "compFinal" /\ WriteCompHigh(High(end))
  <2>1. comp' \in 0 .. AllOnes /\ comp' >= end /\ Low(comp') = Low(comp)
    BY <1>5, StoreFinal
  <2>2. TimerTypeOK' /\ begin' <= timer'
    BY <1>1, <2>1 DEF TimerInv, TimerTypeOK
  <2>3. NotBefore'
    BY <1>1, <1>5, <2>1 DEF TimerInv, NotBefore, Reading, Arming, Low
  <2> QED BY <1>2, <2>2, <2>3 DEF TimerInv
<1> QED BY <1>3, <1>4, <1>5 DEF RepeatedStore

LEMMA TimerStutters ==
  ASSUME TimerInv, UNCHANGED timerVars
  PROVE  TimerInv'
BY DEF timerVars, TimerInv, TimerTypeOK, Measured, NotBefore, Showed, Joined, High, Low

\* Every step of the application keeps the timer's invariant.
LEMMA TimerNext ==
  ASSUME TimerInv, [AppNext]_vars
  PROVE  TimerInv'
<1>1. CASE DelayCall
  BY <1>1, ReadHighKeeps, ReadLowKeeps, ReadCheckKeeps, ReadLowAgainKeeps, ArmKeeps,
     CompHighKeeps, CompLowKeeps, CompFinalKeeps, SpinKeeps DEF DelayCall, DelayStep
<1>2. CASE DelayReturns
  BY <1>2, ReturnKeeps DEF DelayReturns
<1>3. CASE DelayRepeats
  BY <1>3, RepeatedStoreKeeps DEF DelayRepeats
<1>4. CASE MtiHandler
  BY <1>4, IsrKeeps DEF MtiHandler
<1>5. CASE TimeStep
  BY <1>5, TickKeeps DEF TimeStep
<1>6. CASE GreetReady \/ GreetPut \/ Peek \/ Take \/ Echo \/ GreetRepeats
  BY <1>6, TimerStutters DEF GreetReady, GreetPut, Peek, Take, Echo, GreetRepeats
<1>7. CASE MeiHandler \/ ByteArrives \/ ByteLeaves \/ UNCHANGED vars
  BY <1>7, TimerStutters DEF MeiHandler, ByteArrives, ByteLeaves, vars
<1> QED BY <1>1, <1>2, <1>3, <1>4, <1>5, <1>6, <1>7 DEF AppNext, MainAdvances, MainRepeats

\* A delay never ends early, and counts from a time that the counter showed
\* during the call, for every width of the halves, every moment of the call
\* and every way the two interrupts fall between and upon its stores.
THEOREM DelayIsHonest == AppSpec => []DelayHonest
<1>1. AppInit => TimerInv
  BY TimerStarts DEF AppInit
<1>2. TimerInv /\ [AppNext]_vars => TimerInv'
  BY TimerNext
<1>3. TimerInv => DelayHonest
  <2>1. ASSUME TimerInv, step \in Armed PROVE end - Delay \in begin .. timer
    <3>1. begin <= end - Delay /\ end - Delay <= timer
      BY <2>1 DEF TimerInv, Measured, Showed
    <3> QED BY <2>1, <3>1, Ranges, Moduli
  <2>2. ASSUME TimerInv, step = "done" PROVE timer >= begin + Delay
    BY <2>2 DEF TimerInv, NotBefore
  <2> QED BY <2>1, <2>2 DEF DelayHonest, Armed
<1> QED BY <1>1, <1>2, <1>3, PTL DEF AppSpec

(***************************************************************************)
(* The UART and the rings.                                                 *)
(***************************************************************************)

\* What main() holds fits where it is.
MainTypeOK ==
  /\ main \in {"delay", "greet", "put"} \union Echoing
  /\ greeted \in 0 .. GreetingLength
  /\ data \in Byte \union {None}
  /\ main \in {"take", "send"} <=> data # None

\* A step of the loop is enabled only where its byte is; the handler reads a
\* byte only where its status has seen one.
Consistent ==
  /\ main \in {"greet", "put"} => greeted < GreetingLength
  /\ main = "delay" => greeted = 0
  /\ main = "take" => rx_ring # <<>>
  /\ isr # "off" /\ status.rx /\ isr = "rx" => rx_data # None

UartInv == UartDriverTypeOK /\ MainTypeOK /\ Consistent /\ TxArmed

LEMMA UartStarts ==
  ASSUME AppInit
  PROVE  UartInv
<1>1. GreetingLength \in Nat /\ 0 < GreetingLength /\ RingCapacity \in Nat
  BY AppAssumption, UartAssumption
<1>2. <<>> \in Seq(Byte) /\ Len(<<>>) = 0
  OBVIOUS
<1>3. rx_data = None /\ tx_data = None /\ irq_tx = FALSE /\ tx_pending = FALSE
      /\ rx_ring = <<>> /\ tx_ring = <<>> /\ isr = "off" /\ status = Unread
      /\ main = "delay" /\ greeted = 0 /\ data = None
  BY DEF AppInit, UartInit
<1>4. status \in [rx : BOOLEAN, tx : BOOLEAN]
  BY <1>3 DEF Unread
<1>5. rx_ring \in Seq(Byte) /\ Len(rx_ring) <= RingCapacity
      /\ tx_ring \in Seq(Byte) /\ Len(tx_ring) <= RingCapacity
  BY <1>1, <1>2, <1>3
<1>6. UartDriverTypeOK
  BY <1>3, <1>4, <1>5 DEF UartDriverTypeOK
<1>7. MainTypeOK /\ Consistent
  BY <1>1, <1>3 DEF MainTypeOK, Consistent, Echoing
<1>8. TxArmed
  BY <1>3 DEF TxArmed
<1> QED BY <1>6, <1>7, <1>8 DEF UartInv

LEMMA EnqueuedType ==
  ASSUME NEW ring \in Seq(Byte), Len(ring) <= RingCapacity, NEW b \in Byte
  PROVE  Enqueued(ring, b) \in Seq(Byte) /\ Len(Enqueued(ring, b)) <= RingCapacity
         /\ (ring # <<>> => Enqueued(ring, b) # <<>>)
<1>1. Append(ring, b) \in Seq(Byte) /\ Len(Append(ring, b)) = Len(ring) + 1
      /\ Append(ring, b) # <<>> /\ Len(ring) \in Nat
  OBVIOUS
<1> QED BY <1>1, UartAssumption DEF Enqueued

LEMMA TailType ==
  ASSUME NEW ring \in Seq(Byte), Len(ring) <= RingCapacity, ring # <<>>
  PROVE  Tail(ring) \in Seq(Byte) /\ Len(Tail(ring)) <= RingCapacity /\ Head(ring) \in Byte
<1>1. Tail(ring) \in Seq(Byte) /\ Len(Tail(ring)) = Len(ring) - 1 /\ Head(ring) \in Byte
      /\ Len(ring) \in Nat
  OBVIOUS
<1> QED BY <1>1, UartAssumption

LEMMA UartStutters ==
  ASSUME UartInv, UNCHANGED uartVars, UNCHANGED appVars
  PROVE  UartInv'
BY DEF uartVars, appVars, UartInv, UartDriverTypeOK, MainTypeOK, Consistent, TxArmed

\* The handler.
LEMMA MeiKeeps ==
  ASSUME UartInv, MeiHandler
  PROVE  UartInv'
<1> USE DEF UartInv
<1>0. main' = main /\ greeted' = greeted /\ data' = data
  BY DEF MeiHandler, appVars
<1>1. CASE MeiEnter
  BY <1>0, <1>1 DEF MeiEnter, UartDriverTypeOK, MainTypeOK, Consistent, TxArmed, RxValid, TxReady
<1>2. CASE MeiRx
  <2>1. CASE status.rx
    <3>1. rx_data \in Byte
      BY <1>2, <2>1 DEF MeiRx, Consistent, UartDriverTypeOK
    <3>2. rx_ring' \in Seq(Byte) /\ Len(rx_ring') <= RingCapacity
          /\ (rx_ring # <<>> => rx_ring' # <<>>)
      BY <1>2, <2>1, <3>1, EnqueuedType DEF MeiRx, UartDriverTypeOK
    <3> QED BY <1>0, <1>2, <2>1, <3>2
            DEF MeiRx, UartDriverTypeOK, MainTypeOK, Consistent, TxArmed
  <2>2. CASE ~status.rx
    BY <1>0, <1>2, <2>2 DEF MeiRx, UartDriverTypeOK, MainTypeOK, Consistent, TxArmed
  <2> QED BY <2>1, <2>2
<1>3. CASE MeiTx
  <2>1. isr' = "off" /\ status' = Unread /\ rx_data' = rx_data /\ rx_ring' = rx_ring
        /\ Unread \in [rx : BOOLEAN, tx : BOOLEAN]
    BY <1>3 DEF MeiTx, Unread
  <2>2. CASE ~(tx_pending /\ status.tx)
    BY <1>0, <1>3, <2>1, <2>2
       DEF MeiTx, UartDriverTypeOK, MainTypeOK, Consistent, TxArmed
  <2>3. CASE tx_pending /\ status.tx /\ tx_ring = <<>>
    BY <1>0, <1>3, <2>1, <2>3
       DEF MeiTx, StopTx, UartDriverTypeOK, MainTypeOK, Consistent, TxArmed
  <2>4. CASE tx_pending /\ status.tx /\ tx_ring # <<>>
    <3>1. NextTx
      BY <1>3, <2>4 DEF MeiTx
    <3>2. Tail(tx_ring) \in Seq(Byte) /\ Len(Tail(tx_ring)) <= RingCapacity
          /\ Head(tx_ring) \in Byte
      BY <2>4, TailType DEF UartDriverTypeOK
    <3>3. tx_ring' = Tail(tx_ring) /\ tx_pending' = tx_pending /\ irq_tx' = irq_tx
          /\ tx_data' \in Byte \union {Greeting, None}
      BY <3>1, <3>2 DEF NextTx, WriteTx, UartDriverTypeOK
    <3> QED BY <1>0, <2>1, <2>4, <3>2, <3>3
            DEF UartDriverTypeOK, MainTypeOK, Consistent, TxArmed
  <2> QED BY <2>2, <2>3, <2>4
<1> QED BY <1>1, <1>2, <1>3 DEF MeiHandler

\* The main program.
LEMMA MainKeeps ==
  ASSUME UartInv, MainAdvances
  PROVE  UartInv'
<1> USE DEF UartInv
<1>0. isr = "off" /\ GreetingLength \in Nat \ {0}
  BY AppAssumption DEF MainAdvances
<1>1. CASE DelayCall
  BY <1>1, UartStutters DEF DelayCall
<1>2. CASE DelayReturns \/ GreetReady
  BY <1>0, <1>2 DEF DelayReturns, GreetReady, uartVars, UartDriverTypeOK, MainTypeOK,
     Consistent, TxArmed, Echoing
<1>3. CASE GreetPut
  <2>1. greeted' = greeted + 1 /\ data' = data /\ main = "put"
        /\ main' = IF greeted' = GreetingLength THEN "poll" ELSE "greet"
    BY <1>3 DEF GreetPut
  <2>2. greeted \in Nat /\ greeted < GreetingLength /\ data = None
    BY <1>0, <2>1 DEF MainTypeOK, Consistent
  <2>3. greeted' \in 0 .. GreetingLength
        /\ (greeted' # GreetingLength => greeted' < GreetingLength)
    BY <1>0, <2>1, <2>2
  <2>4. tx_data' \in Byte \union {Greeting, None}
        /\ UNCHANGED <<rx_data, irq_tx, tx_pending, rx_ring, tx_ring, isr, status>>
    BY <1>3 DEF GreetPut, PutChar, WriteTx, UartDriverTypeOK
  <2>5. UartDriverTypeOK' /\ TxArmed'
    BY <2>4 DEF UartDriverTypeOK, TxArmed
  <2>6. MainTypeOK'
    BY <2>1, <2>2, <2>3 DEF MainTypeOK, Echoing
  <2>7. Consistent'
    BY <1>0, <2>1, <2>3, <2>4 DEF Consistent
  <2> QED BY <2>5, <2>6, <2>7
<1>4. CASE Peek
  <2>1. Head(rx_ring) \in Byte /\ Head(rx_ring) # None
    BY <1>4, TailType, UartAssumption DEF Peek, UartDriverTypeOK
  <2> QED BY <1>0, <1>4, <2>1 DEF Peek, uartVars, UartDriverTypeOK, MainTypeOK, Consistent,
          TxArmed, Echoing
<1>5. CASE Take
  <2>1. rx_ring # <<>>
    BY <1>5 DEF Take, Consistent
  <2>2. Tail(rx_ring) \in Seq(Byte) /\ Len(Tail(rx_ring)) <= RingCapacity
    BY <2>1, TailType DEF UartDriverTypeOK
  <2> QED BY <1>0, <1>5, <2>2 DEF Take, MoveReadIndex, UartDriverTypeOK, MainTypeOK,
          Consistent, TxArmed, Echoing
<1>6. CASE Echo
  <2>1. data \in Byte
    BY <1>6 DEF Echo, MainTypeOK
  <2>2. tx_ring' \in Seq(Byte) /\ Len(tx_ring') <= RingCapacity
        /\ tx_pending' \in BOOLEAN /\ irq_tx' \in BOOLEAN
        /\ (tx_ring' # <<>> => tx_pending' /\ irq_tx')
    BY <1>6, <2>1, EnqueuedType DEF Echo, SendByte, EnableTx, Enqueued, UartDriverTypeOK, TxArmed
  <2>3. UNCHANGED <<rx_data, tx_data, rx_ring, isr, status, greeted>>
        /\ main' = "poll" /\ data' = None
    BY <1>6 DEF Echo, SendByte
  <2> QED BY <1>0, <2>2, <2>3 DEF UartDriverTypeOK, MainTypeOK, Consistent, TxArmed, Echoing
<1> QED BY <1>1, <1>2, <1>3, <1>4, <1>5, <1>6 DEF MainAdvances

LEMMA UartNext ==
  ASSUME UartInv, [AppNext]_vars
  PROVE  UartInv'
<1> USE DEF UartInv
<1>1. CASE MainAdvances
  BY <1>1, MainKeeps
<1>2. CASE DelayRepeats \/ MtiHandler \/ TimeStep
  BY <1>2, UartStutters DEF DelayRepeats, MtiHandler, TimeStep
<1>3. CASE GreetRepeats
  BY <1>3 DEF GreetRepeats, PutChar, WriteTx, appVars, UartDriverTypeOK, MainTypeOK,
     Consistent, TxArmed
<1>4. CASE MeiHandler
  BY <1>4, MeiKeeps
<1>5. CASE ByteArrives
  <2>1. PICK b \in Byte : RxArrive(b)
    BY <1>5 DEF ByteArrives
  <2> QED BY <1>5, <2>1, UartAssumption DEF ByteArrives, RxArrive, appVars, UartDriverTypeOK,
          MainTypeOK, Consistent, TxArmed
<1>6. CASE ByteLeaves
  BY <1>6 DEF ByteLeaves, TxDone, appVars, UartDriverTypeOK, MainTypeOK, Consistent, TxArmed
<1>7. CASE UNCHANGED vars
  BY <1>7, UartStutters DEF vars
<1> QED BY <1>1, <1>2, <1>3, <1>4, <1>5, <1>6, <1>7 DEF AppNext, MainRepeats

\* The transmitter stays armed while there is something to send, for every
\* ring size: the handler turns it off on an empty ring only, whatever status
\* it had read, and the main loop turns it on with every byte it adds.
THEOREM TransmitterArmed == AppSpec => []TxArmed
<1>1. AppInit => UartInv
  BY UartStarts
<1>2. UartInv /\ [AppNext]_vars => UartInv'
  BY UartNext
<1>3. UartInv => TxArmed
  BY DEF UartInv
<1> QED BY <1>1, <1>2, <1>3, PTL DEF AppSpec

\* Every variable of the application keeps its range.
THEOREM AppTypes == AppSpec => []AppTypeOK
<1>1. AppInit => TimerInv /\ UartInv
  BY TimerStarts, UartStarts DEF AppInit
<1>2. TimerInv /\ UartInv /\ [AppNext]_vars => TimerInv' /\ UartInv'
  BY TimerNext, UartNext
<1>3. TimerInv /\ UartInv => AppTypeOK
  BY DEF TimerInv, UartInv, MainTypeOK, AppTypeOK
<1> QED BY <1>1, <1>2, <1>3, PTL DEF AppSpec
------------------------------------------------------------------------------
(***************************************************************************)
(* FpgaApp implements EchoLine: every step of the application maps to a    *)
(* step of the line of bytes, or leaves it as it is.                       *)
(***************************************************************************)

(***************************************************************************)
(* Sequences: an element that crosses the border between two of them, one  *)
(* that is taken out of the middle, and one that is replaced at the end.   *)
(***************************************************************************)

\* A sequence of one element.
LEMMA OneIsSeq ==
  ASSUME NEW S, NEW x \in S
  PROVE  <<x>> \in Seq(S) /\ Len(<<x>>) = 1 /\ <<x>>[1] = x
OBVIOUS

\* The last of the first part becomes the first of the second.
LEMMA CrossesBack ==
  ASSUME NEW S, NEW p \in Seq(S), NEW r \in Seq(S), NEW x \in S
  PROVE  (p \o Append(r, x)) \o <<>> = (p \o r) \o <<x>>
<1>1. <<x>> \in Seq(S) /\ Append(r, x) = r \o <<x>> /\ Append(r, x) \in Seq(S)
  BY OneIsSeq, AppendIsConcat, AppendProperties
<1>2. p \o Append(r, x) \in Seq(S)
  BY <1>1, ConcatProperties
<1>3. (p \o Append(r, x)) \o <<>> = p \o Append(r, x)
  BY <1>2, ConcatEmptySeq
<1>4. (p \o r) \o <<x>> = p \o (r \o <<x>>)
  BY <1>1, ConcatAssociative
<1> QED BY <1>1, <1>3, <1>4

\* The first of the second part becomes the last of the first.
LEMMA CrossesForward ==
  ASSUME NEW S, NEW p \in Seq(S), NEW r \in Seq(S), r # <<>>
  PROVE  (p \o <<Head(r)>>) \o Tail(r) = (p \o <<>>) \o r
<1>1. Head(r) \in S /\ Tail(r) \in Seq(S) /\ <<Head(r)>> \in Seq(S)
  BY HeadTailProperties, OneIsSeq
<1>2. (p \o <<Head(r)>>) \o Tail(r) = p \o (<<Head(r)>> \o Tail(r))
  BY <1>1, ConcatAssociative
<1>3. p \o <<>> = p /\ r = <<Head(r)>> \o Tail(r)
  BY ConcatEmptySeq, HeadThenTail
<1> QED BY <1>2, <1>3

\* What is left when an element of the middle is taken out.
Removable(S) ==
  \A p, q \in Seq(S), x \in S : \A whole :
    whole = (p \o <<x>>) \o q
      => Len(p) + 1 \in DOMAIN whole /\ Promise!RemoveAt(whole, Len(p) + 1) = p \o q

\* The other parts stay as they are.
LEMMA TakenOut ==
  ASSUME NEW S
  PROVE  Removable(S)
<1> SUFFICES ASSUME NEW p \in Seq(S), NEW q \in Seq(S), NEW x \in S,
                    NEW whole, whole = (p \o <<x>>) \o q
             PROVE  /\ Len(p) + 1 \in DOMAIN whole
                    /\ Promise!RemoveAt(whole, Len(p) + 1) = p \o q
  BY Zenon DEF Removable
<1>1. /\ p \o <<x>> \in Seq(S) /\ Len(p \o <<x>>) = Len(p) + 1
      /\ Len(p) \in Nat /\ Len(q) \in Nat
      /\ \A i \in 1 .. Len(p) + 1 : (p \o <<x>>)[i] = IF i <= Len(p) THEN p[i] ELSE x
  <2>1. <<x>> \in Seq(S) /\ Len(<<x>>) = 1 /\ <<x>>[1] = x /\ Len(p) \in Nat /\ Len(q) \in Nat
    BY OneIsSeq
  <2>2. /\ p \o <<x>> \in Seq(S) /\ Len(p \o <<x>>) = Len(p) + 1
        /\ \A i \in 1 .. Len(p) + 1 :
              (p \o <<x>>)[i] = IF i <= Len(p) THEN p[i] ELSE <<x>>[i - Len(p)]
    BY <2>1, ConcatProperties
  <2>3. \A i \in 1 .. Len(p) + 1 : i <= Len(p) \/ i - Len(p) = 1
    BY <2>1
  <2> QED BY <2>1, <2>2, <2>3
<1>2. /\ whole \in Seq(S) /\ Len(whole) = Len(p) + 1 + Len(q)
      /\ \A i \in 1 .. Len(p) + 1 + Len(q) :
            whole[i] = IF i <= Len(p) + 1 THEN (p \o <<x>>)[i] ELSE q[i - (Len(p) + 1)]
  BY <1>1, ConcatProperties
<1>3. \A i \in 1 .. Len(whole) : whole[i] \in S
  BY <1>2, ElementOfSeq
<1>4. SubSeq(whole, 1, Len(p)) = p
  <2>1. /\ SubSeq(whole, 1, Len(p)) \in Seq(S)
        /\ Len(SubSeq(whole, 1, Len(p))) = Len(p)
        /\ \A i \in 1 .. Len(p) : SubSeq(whole, 1, Len(p))[i] = whole[i]
    BY <1>1, <1>2, <1>3, SubSeqProperties
  <2>2. \A i \in 1 .. Len(p) : whole[i] = p[i]
    BY <1>1, <1>2
  <2> QED BY <2>1, <2>2, SeqEqual
<1>5. SubSeq(whole, Len(p) + 2, Len(whole)) = q
  <2>1. /\ SubSeq(whole, Len(p) + 2, Len(whole)) \in Seq(S)
        /\ Len(SubSeq(whole, Len(p) + 2, Len(whole))) = Len(q)
        /\ \A i \in 1 .. Len(q) :
              SubSeq(whole, Len(p) + 2, Len(whole))[i] = whole[Len(p) + 2 + i - 1]
    BY <1>1, <1>2, <1>3, SubSeqProperties
  <2>2. ASSUME NEW i \in 1 .. Len(q) PROVE whole[Len(p) + 2 + i - 1] = q[i]
    <3>1. Len(p) + 2 + i - 1 \in 1 .. Len(p) + 1 + Len(q)
          /\ ~(Len(p) + 2 + i - 1 <= Len(p) + 1)
          /\ Len(p) + 2 + i - 1 - (Len(p) + 1) = i
      BY <1>1
    <3> QED BY <1>2, <3>1
  <2> QED BY <2>1, <2>2, SeqEqual
<1>6. Len(p) + 1 \in DOMAIN whole
  BY <1>1, <1>2, LenProperties
<1>7. (Len(p) + 1) - 1 = Len(p) /\ (Len(p) + 1) + 1 = Len(p) + 2
  BY <1>1
<1>8. SubSeq(whole, 1, (Len(p) + 1) - 1) = p /\ SubSeq(whole, (Len(p) + 1) + 1, Len(whole)) = q
  BY <1>4, <1>5, <1>7, Zenon
<1>9. Promise!RemoveAt(whole, Len(p) + 1) = p \o q
  BY <1>8 DEF Promise!RemoveAt
<1> QED BY <1>6, <1>9

\* The rest of a sequence that begins with one element.
LEMMA TailOfConcat ==
  ASSUME NEW S, NEW q \in Seq(S), NEW x \in S
  PROVE  Tail(<<x>> \o q) = q /\ <<x>> \o q # <<>>
<1>1. <<x>> \in Seq(S) /\ Len(<<x>>) = 1 /\ Len(q) \in Nat
  BY OneIsSeq
<1>2. /\ <<x>> \o q \in Seq(S) /\ Len(<<x>> \o q) = 1 + Len(q)
      /\ \A i \in 1 .. 1 + Len(q) : (<<x>> \o q)[i] = IF i <= 1 THEN <<x>>[i] ELSE q[i - 1]
  BY <1>1, ConcatProperties
<1>3. <<x>> \o q # <<>>
  BY <1>1, <1>2, EmptySeq
<1>4. /\ Tail(<<x>> \o q) \in Seq(S) /\ Len(Tail(<<x>> \o q)) = Len(q)
      /\ \A i \in 1 .. Len(q) : Tail(<<x>> \o q)[i] = (<<x>> \o q)[i + 1]
  BY <1>1, <1>2, <1>3, HeadTailProperties
<1>5. \A i \in 1 .. Len(q) : (<<x>> \o q)[i + 1] = q[i]
  BY <1>1, <1>2
<1>6. Tail(<<x>> \o q) = q
  BY <1>4, <1>5, SeqEqual
<1> QED BY <1>3, <1>6

\* All but the last.
LEMMA FrontOfConcat ==
  ASSUME NEW S, NEW p \in Seq(S), NEW x \in S
  PROVE  Promise!Front(p \o <<x>>) = p /\ p \o <<x>> # <<>>
<1>1. /\ p \o <<x>> \in Seq(S) /\ Len(p \o <<x>>) = Len(p) + 1 /\ Len(p) \in Nat
      /\ Append(p, x) = p \o <<x>> /\ Append(p, x) # <<>>
      /\ \A i \in 1 .. Len(p) : Append(p, x)[i] = p[i]
  BY AppendIsConcat, AppendProperties
<1>2. /\ SubSeq(p \o <<x>>, 1, Len(p)) \in Seq(S)
      /\ Len(SubSeq(p \o <<x>>, 1, Len(p))) = Len(p)
      /\ \A i \in 1 .. Len(p) : SubSeq(p \o <<x>>, 1, Len(p))[i] = (p \o <<x>>)[i]
  <2>1. \A i \in 1 .. Len(p) : (p \o <<x>>)[i] \in S
    BY <1>1, ElementOfSeq
  <2> QED BY <1>1, <2>1, SubSeqProperties
<1>3. SubSeq(p \o <<x>>, 1, Len(p)) = p
  BY <1>1, <1>2, SeqEqual
<1>4. Len(p \o <<x>>) - 1 = Len(p)
  BY <1>1
<1> QED BY <1>1, <1>3, <1>4 DEF Promise!Front
------------------------------------------------------------------------------
(***************************************************************************)
(* What the mapping needs beside UartInv: the byte that the loop has       *)
(* copied is still the first of its ring, and the transmitter the handler  *)
(* has seen ready is still ready.                                          *)
(***************************************************************************)

Peeked == main = "take" => data = Head(rx_ring)

SeenReady == isr # "off" /\ status.tx => TxReady

EchoInv == UartInv /\ Peeked /\ SeenReady

\* At the start there is nothing to copy, and no handler runs.
LEMMA EchoStarts ==
  ASSUME AppInit
  PROVE  EchoInv
BY UartStarts DEF EchoInv, AppInit, UartInit, Peeked, SeenReady

\* The handler only adds to the ring of the receiver, at its end.
LEMMA PeekedKeeps ==
  ASSUME EchoInv, [AppNext]_vars
  PROVE  Peeked'
<1> USE DEF EchoInv, Peeked
<1>1. CASE MainAdvances
  BY <1>1 DEF MainAdvances, DelayCall, DelayReturns, GreetReady, GreetPut, Peek, Take, Echo,
     PutChar, MoveReadIndex, SendByte, uartVars, appVars
<1>2. CASE MeiHandler
  <2>1. CASE MeiEnter \/ MeiTx
    BY <1>2, <2>1 DEF MeiHandler, MeiEnter, MeiTx, appVars
  <2>2. CASE MeiRx
    <3>1. main' = main /\ data' = data
      BY <1>2 DEF MeiHandler, appVars
    <3>2. rx_ring # <<>> => Head(rx_ring') = Head(rx_ring)
      BY <2>2, HeadTailAppend DEF MeiRx, Enqueued, UartInv, UartDriverTypeOK
    <3>3. main = "take" => rx_ring # <<>>
      BY DEF UartInv, Consistent
    <3> QED BY <3>1, <3>2, <3>3
  <2> QED BY <1>2, <2>1, <2>2 DEF MeiHandler
<1>3. CASE ByteArrives \/ ByteLeaves
  BY <1>3 DEF ByteArrives, ByteLeaves, RxArrive, TxDone, appVars
<1>4. CASE MainRepeats \/ MtiHandler \/ TimeStep \/ UNCHANGED vars
  BY <1>4 DEF MainRepeats, DelayRepeats, GreetRepeats, PutChar, MtiHandler, TimeStep,
     vars, uartVars, appVars
<1> QED BY <1>1, <1>2, <1>3, <1>4 DEF AppNext

\* While the handler runs, nobody writes to the transmitter.
LEMMA SeenReadyKeeps ==
  ASSUME EchoInv, [AppNext]_vars
  PROVE  SeenReady'
<1> USE DEF EchoInv, SeenReady, TxReady
<1>1. CASE MainAdvances
  BY <1>1 DEF MainAdvances, DelayCall, DelayReturns, GreetReady, GreetPut, Peek, Take, Echo,
     PutChar, MoveReadIndex, SendByte, uartVars
<1>2. CASE MeiHandler
  <2>1. CASE MeiEnter
    <3>1. status' = [rx |-> RxValid, tx |-> (tx_data = None)] /\ tx_data' = tx_data
      BY <2>1 DEF MeiEnter
    <3>2. status'.tx = (tx_data' = None)
      BY <3>1, Zenon
    <3> QED BY <3>2, Zenon
  <2>2. CASE MeiRx
    <3>1. isr # "off" /\ status' = status /\ tx_data' = tx_data
      BY <2>2 DEF MeiRx
    <3> QED BY <3>1
  <2>3. CASE MeiTx
    BY <2>3 DEF MeiTx
  <2> QED BY <1>2, <2>1, <2>2, <2>3 DEF MeiHandler
<1>3. CASE ByteArrives \/ ByteLeaves
  BY <1>3 DEF ByteArrives, ByteLeaves, RxArrive, TxDone
<1>4. CASE MainRepeats \/ MtiHandler \/ TimeStep \/ UNCHANGED vars
  BY <1>4 DEF MainRepeats, DelayRepeats, GreetRepeats, PutChar, MtiHandler, TimeStep,
     vars, uartVars
<1> QED BY <1>1, <1>2, <1>3, <1>4 DEF AppNext

\* Every step of the application preserves them.
LEMMA EchoNext ==
  ASSUME EchoInv, [AppNext]_vars
  PROVE  EchoInv'
BY UartNext, PeekedKeeps, SeenReadyKeeps DEF EchoInv
------------------------------------------------------------------------------
(***************************************************************************)
(* The parts of the line beside the two rings: what the transmitter, the   *)
(* main loop and the receiver hold, a byte or nothing.                     *)
(***************************************************************************)

Sending == If(tx_data \in Byte, tx_data)
Passing == If(main = "send", data)
Waiting == If(RxValid, rx_data)

\* A part is the byte or the empty sequence.
LEMMA IfCases ==
  ASSUME NEW c, NEW b
  PROVE  (c => If(c, b) = <<b>>) /\ (~c => If(c, b) = <<>>)
BY DEF If

\* A part is a sequence of bytes.
LEMMA Parts ==
  ASSUME UartInv
  PROVE  /\ Sending \in Seq(Byte) /\ Passing \in Seq(Byte) /\ Waiting \in Seq(Byte)
         /\ tx_ring \in Seq(Byte) /\ rx_ring \in Seq(Byte)
<1>1. main = "send" => data \in Byte
  BY DEF UartInv, MainTypeOK
<1>2. RxValid => rx_data \in Byte
  BY DEF UartInv, UartDriverTypeOK, RxValid
<1>3. <<>> \in Seq(Byte) /\ \A b \in Byte : <<b>> \in Seq(Byte)
  BY OneIsSeq
<1>4. ASSUME NEW c, NEW b, c => b \in Byte PROVE If(c, b) \in Seq(Byte)
  <2>1. CASE c
    BY <1>3, <1>4, <2>1, IfCases
  <2>2. CASE ~c
    BY <1>3, <2>2, IfCases
  <2> QED BY <2>1, <2>2
<1>5. Sending \in Seq(Byte) /\ Passing \in Seq(Byte) /\ Waiting \in Seq(Byte)
  BY <1>1, <1>2, <1>4 DEF Sending, Passing, Waiting
<1> QED BY <1>5 DEF UartInv, UartDriverTypeOK

\* The line, by its parts.
LEMMA LineParts ==
  /\ Line = (((Sending \o tx_ring) \o Passing) \o rx_ring) \o Waiting
  /\ Line' = (((Sending' \o tx_ring') \o Passing') \o rx_ring') \o Waiting'
BY DEF Line, Sending, Passing, Waiting

\* The three that a byte has passed when it is in the receiver's ring.
LEMMA Passed ==
  ASSUME UartInv
  PROVE  /\ Sending \o tx_ring \in Seq(Byte)
         /\ (Sending \o tx_ring) \o Passing \in Seq(Byte)
         /\ ((Sending \o tx_ring) \o Passing) \o rx_ring \in Seq(Byte)
         /\ Line \in Seq(Byte)
<1>1. Sending \o tx_ring \in Seq(Byte)
  BY Parts, ConcatProperties
<1>2. (Sending \o tx_ring) \o Passing \in Seq(Byte)
  BY <1>1, Parts, ConcatProperties
<1>3. ((Sending \o tx_ring) \o Passing) \o rx_ring \in Seq(Byte)
  BY <1>2, Parts, ConcatProperties
<1>4. Line \in Seq(Byte)
  BY <1>3, Parts, LineParts, ConcatProperties
<1> QED BY <1>1, <1>2, <1>3, <1>4

\* A step that changes no part leaves the line alone.
LEMMA LineRests ==
  ASSUME UNCHANGED <<Sending, tx_ring, Passing, rx_ring, Waiting>>
  PROVE  Line' = Line
BY LineParts

\* A byte received is at the end of the line, or takes the place of the last.
LEMMA ArriveMaps ==
  ASSUME EchoInv, ByteArrives
  PROVE  Promise!LineNext
<1>1. PICK b \in Byte : RxArrive(b)
  BY DEF ByteArrives
<1>2. UartInv /\ b # None
  BY UartAssumption DEF EchoInv
<1> DEFINE P == ((Sending \o tx_ring) \o Passing) \o rx_ring
<1>3. P' = P /\ Waiting' = <<b>> /\ P \in Seq(Byte)
  <2>1. rx_data' = b /\ tx_data' = tx_data /\ tx_ring' = tx_ring /\ rx_ring' = rx_ring
        /\ main' = main /\ data' = data
    BY <1>1 DEF ByteArrives, RxArrive, appVars
  <2>2. Sending' = Sending /\ Passing' = Passing
    BY <2>1 DEF Sending, Passing, If
  <2>3. Waiting' = <<b>>
    BY <1>2, <2>1 DEF Waiting, RxValid, If
  <2> QED BY <1>2, <2>1, <2>2, <2>3, Passed
<1> HIDE DEF P
<1>4. Line = P \o Waiting /\ Line' = P \o <<b>>
  BY <1>3, LineParts DEF P
<1>5. CASE RxValid
  <2>1. rx_data \in Byte
    BY <1>2, <1>5 DEF UartInv, UartDriverTypeOK, RxValid
  <2>2. Line = P \o <<rx_data>>
    BY <1>4, <1>5, IfCases DEF Waiting
  <2>3. Promise!Front(Line) = P /\ Line # <<>>
    BY <1>3, <2>1, <2>2, FrontOfConcat
  <2>4. Line' = Append(Promise!Front(Line), b)
    BY <1>3, <1>4, <2>3, AppendIsConcat
  <2> QED BY <2>3, <2>4 DEF Promise!LineNext, Promise!Outrun
<1>6. CASE ~RxValid
  <2>1. Line = P
    BY <1>3, <1>4, <1>6, IfCases, ConcatEmptySeq DEF Waiting
  <2>2. Line' = Append(Line, b)
    BY <1>3, <1>4, <2>1, AppendIsConcat
  <2> QED BY <2>2 DEF Promise!LineNext, Promise!Arrive
<1> QED BY <1>5, <1>6

\* A byte sent was the first of the line.
LEMMA LeaveMaps ==
  ASSUME EchoInv, ByteLeaves
  PROVE  [Promise!LineNext]_Line
<1>1. /\ tx_data # None /\ tx_data' = None /\ tx_ring' = tx_ring /\ rx_ring' = rx_ring
      /\ rx_data' = rx_data /\ main' = main /\ data' = data
  BY DEF ByteLeaves, TxDone, TxReady, appVars
<1>2. UartInv /\ None \notin Byte
  BY UartAssumption DEF EchoInv
<1>3. Passing' = Passing /\ Waiting' = Waiting /\ Sending' = <<>>
  BY <1>1, <1>2 DEF Passing, Waiting, Sending, RxValid, If
<1> DEFINE Q == ((tx_ring \o Passing) \o rx_ring) \o Waiting
<1>4. Line' = Q /\ Q \in Seq(Byte)
  <2>1. <<>> \in Seq(Byte)
    BY EmptySeq
  <2>2. /\ tx_ring \in Seq(Byte) /\ Passing \in Seq(Byte)
        /\ rx_ring \in Seq(Byte) /\ Waiting \in Seq(Byte)
    BY <1>2, Parts
  <2>3. FirstApart(Byte, <<>>, tx_ring, Passing, rx_ring, Waiting)
    BY <2>1, <2>2, FirstAndRest
  <2>4. Line' = <<>> \o Q /\ Q \in Seq(Byte)
    BY <1>1, <1>3, <2>3, LineParts, Zenon DEF FirstApart
  <2> QED BY <2>4, ConcatEmptySeq
<1>5. Line = Sending \o Q
  <2>1. /\ Sending \in Seq(Byte) /\ tx_ring \in Seq(Byte) /\ Passing \in Seq(Byte)
        /\ rx_ring \in Seq(Byte) /\ Waiting \in Seq(Byte)
    BY <1>2, Parts
  <2>2. FirstApart(Byte, Sending, tx_ring, Passing, rx_ring, Waiting)
    BY <2>1, FirstAndRest
  <2> QED BY <2>2, LineParts, Zenon DEF FirstApart
<1> HIDE DEF Q
<1>6. CASE tx_data \in Byte
  <2>1. Line = <<tx_data>> \o Q
    BY <1>5, <1>6, IfCases DEF Sending
  <2>2. Line' = Tail(Line) /\ Line # <<>>
    BY <1>4, <1>6, <2>1, TailOfConcat
  <2> QED BY <2>2 DEF Promise!LineNext, Promise!Leave
<1>7. CASE tx_data \notin Byte
  <2>1. Line = Q
    BY <1>4, <1>5, <1>7, IfCases, ConcatEmptySeq DEF Sending
  <2> QED BY <1>4, <2>1
<1> QED BY <1>6, <1>7

\* The handler moves a byte from the receiver to its ring, or drops it as the
\* last of a line longer than the ring.
LEMMA RxMaps ==
  ASSUME EchoInv, MeiRx, UNCHANGED appVars
  PROVE  [Promise!LineNext]_Line
<1>1. /\ UartInv /\ tx_data' = tx_data /\ tx_ring' = tx_ring /\ main' = main /\ data' = data
      /\ isr = "rx"
  BY DEF EchoInv, MeiRx, appVars
<1>2. Sending' = Sending /\ Passing' = Passing
  BY <1>1 DEF Sending, Passing, If
<1>3. CASE ~status.rx
  <2>1. rx_data' = rx_data /\ rx_ring' = rx_ring
    BY <1>3 DEF MeiRx
  <2>2. Waiting' = Waiting
    BY <2>1 DEF Waiting, RxValid, If
  <2> QED BY <1>1, <1>2, <2>1, <2>2, LineRests
<1>4. CASE status.rx
  <2> DEFINE P == (Sending \o tx_ring) \o Passing
  <2>1. rx_data \in Byte /\ RxValid
    BY <1>1, <1>4 DEF UartInv, Consistent, UartDriverTypeOK, RxValid
  <2>2. rx_data' = None /\ rx_ring' = Enqueued(rx_ring, rx_data)
    BY <1>4 DEF MeiRx
  <2>3. Waiting = <<rx_data>> /\ Waiting' = <<>>
    BY <2>1, <2>2 DEF Waiting, RxValid, If
  <2>4. P' = P /\ P \in Seq(Byte) /\ rx_ring \in Seq(Byte) /\ P \o rx_ring \in Seq(Byte)
    BY <1>1, <1>2, Parts, Passed
  <2>5. Line = (P \o rx_ring) \o <<rx_data>> /\ Line' = (P \o rx_ring') \o <<>>
    BY <2>3, <2>4, LineParts
  <2> HIDE DEF P
  <2>6. CASE Len(rx_ring) < RingCapacity
    <3>1. rx_ring' = Append(rx_ring, rx_data)
      BY <2>2, <2>6 DEF Enqueued
    <3>2. Line' = Line
      BY <2>1, <2>4, <2>5, <3>1, CrossesBack
    <3> QED BY <3>2
  <2>7. CASE ~(Len(rx_ring) < RingCapacity)
    <3>1. rx_ring' = rx_ring
      BY <2>2, <2>7 DEF Enqueued
    <3>2. Line = ((P \o rx_ring) \o <<rx_data>>) \o <<>>
      <4>1. Line \in Seq(Byte)
        BY <1>1, Passed
      <4> QED BY <2>5, <4>1, ConcatEmptySeq
    <3>3. <<>> \in Seq(Byte)
      BY EmptySeq
    <3> DEFINE i == Len(P \o rx_ring) + 1
    <3>4. i \in DOMAIN Line /\ Promise!RemoveAt(Line, i) = (P \o rx_ring) \o <<>>
      <4> DEFINE R == P \o rx_ring
      <4>1. R \in Seq(Byte) /\ Line = (R \o <<rx_data>>) \o <<>>
        BY <2>4, <3>2
      <4> HIDE DEF R
      <4>2. Len(R) + 1 \in DOMAIN Line /\ Promise!RemoveAt(Line, Len(R) + 1) = R \o <<>>
        <5>1. Removable(Byte)
          BY TakenOut
        <5> QED BY <2>1, <3>3, <4>1, <5>1, Zenon DEF Removable
      <4> QED BY <4>2 DEF R
    <3>5. i > RingCapacity
      <4>1. Len(P \o rx_ring) = Len(P) + Len(rx_ring) /\ Len(P) \in Nat /\ Len(rx_ring) \in Nat
        BY <2>4, ConcatProperties, LenProperties
      <4> QED BY <2>7, <4>1, UartAssumption
    <3>6. Line' = Promise!RemoveAt(Line, i)
      BY <2>5, <3>1, <3>4
    <3> HIDE DEF i
    <3> QED BY <3>4, <3>5, <3>6 DEF Promise!LineNext, Promise!Lose
  <2> QED BY <2>6, <2>7
<1> QED BY <1>3, <1>4

\* The handler hands the first byte of the transmitter's ring to a
\* transmitter that has nothing.
LEMMA TxMaps ==
  ASSUME EchoInv, MeiTx, UNCHANGED appVars
  PROVE  Line' = Line
<1>1. /\ UartInv /\ rx_data' = rx_data /\ rx_ring' = rx_ring /\ main' = main /\ data' = data
      /\ isr = "tx"
  BY DEF EchoInv, MeiTx, appVars
<1>2. Passing' = Passing /\ Waiting' = Waiting
  BY <1>1 DEF Passing, Waiting, RxValid, If
<1>3. CASE tx_data' = tx_data /\ tx_ring' = tx_ring
  <2>1. Sending' = Sending
    BY <1>3 DEF Sending, If
  <2> QED BY <1>1, <1>2, <1>3, <2>1, LineRests
<1>4. CASE tx_pending /\ status.tx /\ tx_ring # <<>>
  <2>1. tx_data = None
    BY <1>1, <1>4 DEF EchoInv, SeenReady, TxReady
  <2>2. tx_ring \in Seq(Byte) /\ Head(tx_ring) \in Byte /\ None \notin Byte
    BY <1>1, <1>4, HeadTailProperties, UartAssumption DEF UartInv, UartDriverTypeOK
  <2>3. tx_data' = Head(tx_ring) /\ tx_ring' = Tail(tx_ring)
    BY <1>4, <2>1 DEF MeiTx, NextTx, WriteTx, TxReady
  <2>4. Sending = <<>> /\ Sending' = <<Head(tx_ring)>>
    BY <2>1, <2>2, <2>3 DEF Sending, If
  <2>5. Sending' \o tx_ring' = tx_ring /\ Sending \o tx_ring = tx_ring
    BY <1>4, <2>2, <2>3, <2>4, HeadThenTail, ConcatEmptySeq
  <2> QED BY <1>1, <1>2, <2>5, LineParts
<1> QED BY <1>3, <1>4 DEF MeiTx, StopTx

\* The main loop takes the byte it has copied out of the ring.
LEMMA TakeMaps ==
  ASSUME EchoInv, Take
  PROVE  Line' = Line
<1>1. /\ main = "take" /\ main' = "send" /\ data' = data /\ rx_ring' = Tail(rx_ring)
      /\ rx_data' = rx_data /\ tx_data' = tx_data /\ tx_ring' = tx_ring /\ UartInv
  BY DEF EchoInv, Take, MoveReadIndex
<1>2. data = Head(rx_ring) /\ rx_ring # <<>> /\ rx_ring \in Seq(Byte)
  BY <1>1 DEF EchoInv, Peeked, UartInv, Consistent, UartDriverTypeOK
<1>3. Sending' = Sending /\ Waiting' = Waiting
  BY <1>1 DEF Sending, Waiting, RxValid, If
<1>4. Passing = <<>> /\ Passing' = <<Head(rx_ring)>>
  BY <1>1, <1>2 DEF Passing, If
<1> DEFINE P == Sending \o tx_ring
<1>5. P' = P /\ P \in Seq(Byte)
  BY <1>1, <1>3, Passed
<1>6. Line = ((P \o <<>>) \o rx_ring) \o Waiting
      /\ Line' = ((P \o <<Head(rx_ring)>>) \o Tail(rx_ring)) \o Waiting
  BY <1>1, <1>3, <1>4, <1>5, LineParts
<1> HIDE DEF P
<1>7. (P \o <<Head(rx_ring)>>) \o Tail(rx_ring) = (P \o <<>>) \o rx_ring
  BY <1>2, <1>5, CrossesForward
<1> QED BY <1>6, <1>7

\* What the loop adds behind a full ring is lost, and it has Capacity before it.
LEMMA EchoMaps ==
  ASSUME EchoInv, Echo
  PROVE  [Promise!LineNext]_Line
<1>1. /\ main = "send" /\ main' = "poll" /\ rx_ring' = rx_ring
      /\ rx_data' = rx_data /\ tx_data' = tx_data /\ UartInv /\ data \in Byte
      /\ tx_ring' = IF Len(tx_ring) < RingCapacity THEN Append(tx_ring, data) ELSE tx_ring
  BY DEF EchoInv, Echo, SendByte, UartInv, MainTypeOK
<1>2. Sending' = Sending /\ Waiting' = Waiting
  BY <1>1 DEF Sending, Waiting, RxValid, If
<1>3. Passing = <<data>> /\ Passing' = <<>>
  BY <1>1 DEF Passing, If
<1>4. Sending \in Seq(Byte) /\ tx_ring \in Seq(Byte) /\ Sending \o tx_ring \in Seq(Byte)
  BY <1>1, Parts, Passed
<1>5. CASE Len(tx_ring) < RingCapacity
  <2>1. /\ Line = (((Sending \o tx_ring) \o <<data>>) \o rx_ring) \o Waiting
        /\ Line' = (((Sending \o Append(tx_ring, data)) \o <<>>) \o rx_ring) \o Waiting
    BY <1>1, <1>2, <1>3, <1>5, LineParts
  <2>2. (Sending \o Append(tx_ring, data)) \o <<>> = (Sending \o tx_ring) \o <<data>>
    BY <1>1, <1>4, CrossesBack
  <2> QED BY <2>1, <2>2
<1>6. CASE ~(Len(tx_ring) < RingCapacity)
  <2> DEFINE P == Sending \o tx_ring
             Q == rx_ring \o Waiting
  <2>1. P \in Seq(Byte) /\ Len(P) >= RingCapacity
    <3>1. Len(P) = Len(Sending) + Len(tx_ring) /\ Len(Sending) \in Nat /\ Len(tx_ring) \in Nat
      BY <1>4, ConcatProperties, LenProperties
    <3> QED BY <1>4, <1>6, <3>1, UartAssumption
  <2>2. rx_ring \in Seq(Byte) /\ Waiting \in Seq(Byte)
    BY <1>1, Parts
  <2>3. Q \in Seq(Byte)
    BY <2>2, ConcatProperties
  <2>4. /\ Line = ((P \o <<data>>) \o rx_ring) \o Waiting
        /\ Line' = ((P \o <<>>) \o rx_ring) \o Waiting
    BY <1>1, <1>2, <1>3, <1>6, LineParts
  <2> HIDE DEF P
  <2>5. Line' = P \o Q
    <3>1. P \o <<>> = P
      BY <2>1, ConcatEmptySeq
    <3>2. (P \o rx_ring) \o Waiting = P \o (rx_ring \o Waiting)
      <4>1. \A p, q, r \in Seq(Byte) : (p \o q) \o r = p \o (q \o r)
        BY Regroup
      <4> QED BY <2>1, <2>2, <4>1, Zenon
    <3> QED BY <2>4, <3>1, <3>2
  <2>6. Line = (P \o <<data>>) \o Q
    <3> DEFINE R == P \o <<data>>
    <3>1. R \in Seq(Byte)
      <4>1. <<data>> \in Seq(Byte)
        BY <1>1, OneIsSeq
      <4> QED BY <2>1, <4>1, ConcatProperties
    <3> HIDE DEF R
    <3>2. (R \o rx_ring) \o Waiting = R \o (rx_ring \o Waiting)
      <4>1. \A p, q, r \in Seq(Byte) : (p \o q) \o r = p \o (q \o r)
        BY Regroup
      <4> QED BY <2>2, <3>1, <4>1, Zenon
    <3> QED BY <2>4, <3>2 DEF R
  <2> HIDE DEF Q
  <2>7. Len(P) + 1 \in DOMAIN Line /\ Promise!RemoveAt(Line, Len(P) + 1) = P \o Q
    <3>1. data \in Byte /\ P \in Seq(Byte)
      BY <1>1, <2>1, Zenon
    <3>2. Removable(Byte)
      BY TakenOut
    <3> QED BY <2>3, <2>6, <3>1, <3>2, Zenon DEF Removable
  <2>8. Len(P) + 1 > RingCapacity
    BY <2>1, LenProperties, UartAssumption
  <2> QED BY <2>5, <2>7, <2>8 DEF Promise!LineNext, Promise!Lose
<1> QED BY <1>5, <1>6

\* The rest of the main program holds no byte of the line: what it writes to
\* the transmitter is the greeting.
LEMMA PutCharRests ==
  ASSUME PutChar(Greeting)
  PROVE  Sending' = Sending /\ tx_ring' = tx_ring /\ rx_ring' = rx_ring /\ rx_data' = rx_data
BY UartAssumption DEF PutChar, WriteTx, TxReady, Sending, If

\* Every step of the main program maps.
LEMMA MainMaps ==
  ASSUME EchoInv, MainAdvances
  PROVE  [Promise!LineNext]_Line
<1>1. CASE DelayCall
  BY <1>1, LineRests DEF DelayCall, uartVars, appVars, Sending, Passing, Waiting, RxValid, If
<1>2. CASE DelayReturns \/ GreetReady \/ Peek
  <2>1. Sending' = Sending /\ Waiting' = Waiting /\ tx_ring' = tx_ring /\ rx_ring' = rx_ring
    BY <1>2 DEF DelayReturns, GreetReady, Peek, uartVars, Sending, Waiting, RxValid, If
  <2>2. main # "send" /\ main' # "send"
    BY <1>2 DEF DelayReturns, GreetReady, Peek
  <2>3. Passing' = Passing
    BY <2>2 DEF Passing, If
  <2> QED BY <2>1, <2>3, LineRests
<1>3. CASE GreetPut
  <2>1. main # "send" /\ main' # "send"
    BY <1>3 DEF GreetPut
  <2>2. Passing' = Passing
    BY <2>1 DEF Passing, If
  <2>3. Sending' = Sending /\ tx_ring' = tx_ring /\ rx_ring' = rx_ring /\ rx_data' = rx_data
    BY <1>3, PutCharRests DEF GreetPut
  <2>4. Waiting' = Waiting
    BY <2>3 DEF Waiting, RxValid, If
  <2> QED BY <2>2, <2>3, <2>4, LineRests
<1> QED BY <1>1, <1>2, <1>3, TakeMaps, EchoMaps DEF MainAdvances

\* Every step of the application is one of the line, or none.
LEMMA StepMaps ==
  ASSUME EchoInv, [AppNext]_vars
  PROVE  [Promise!LineNext]_Line
<1>1. CASE GreetRepeats
  <2>1. Sending' = Sending /\ tx_ring' = tx_ring /\ rx_ring' = rx_ring /\ rx_data' = rx_data
        /\ main' = main /\ data' = data
    BY <1>1, PutCharRests DEF GreetRepeats, appVars
  <2>2. Passing' = Passing /\ Waiting' = Waiting
    BY <2>1 DEF Passing, Waiting, RxValid, If
  <2> QED BY <2>1, <2>2, LineRests
<1>2. CASE DelayRepeats \/ MtiHandler \/ TimeStep \/ UNCHANGED vars
  <2>1. UNCHANGED <<uartVars, appVars>>
    BY <1>2 DEF DelayRepeats, MtiHandler, TimeStep, vars
  <2> QED BY <2>1, LineRests DEF uartVars, appVars, Sending, Passing, Waiting, RxValid, If
<1>3. CASE MeiHandler
  <2>1. CASE MeiEnter
    BY <1>3, <2>1, LineRests
       DEF MeiHandler, MeiEnter, appVars, Sending, Passing, Waiting, RxValid, If
  <2> QED BY <1>3, <2>1, RxMaps, TxMaps DEF MeiHandler
<1> QED BY <1>1, <1>2, <1>3, MainMaps, ArriveMaps, LeaveMaps DEF AppNext, MainRepeats

\* The line starts empty.
LEMMA InitMaps ==
  ASSUME AppInit
  PROVE  Promise!LineInit
<1>1. tx_data = None /\ rx_data = None /\ tx_ring = <<>> /\ rx_ring = <<>> /\ main = "delay"
  BY DEF AppInit, UartInit
<1>2. Sending = <<>> /\ Passing = <<>> /\ Waiting = <<>>
  BY <1>1, UartAssumption DEF Sending, Passing, Waiting, RxValid, If
<1>3. <<>> \o <<>> = <<>>
  BY ConcatEmptySeq, EmptySeq
<1> QED BY <1>1, <1>2, <1>3, LineParts DEF Promise!LineInit

(***************************************************************************)
(* The application echoes in order: it implements the line of bytes of     *)
(* EchoLine, for every ring capacity, set of bytes and greeting.           *)
(***************************************************************************)
THEOREM EchoesInOrder == AppSpec => EchoInOrder
<1>1. AppInit => EchoInv /\ Promise!LineInit
  BY EchoStarts, InitMaps
<1>2. EchoInv /\ [AppNext]_vars => EchoInv' /\ [Promise!LineNext]_Line
  BY EchoNext, StepMaps
<1> QED BY <1>1, <1>2, PTL DEF AppSpec, EchoInOrder, Promise!LineSpec
=============================================================================
