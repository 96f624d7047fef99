---------------------------- MODULE MachineTimer ----------------------------
(***************************************************************************)
(* The machine timer of the FPGA processor (rtl/rv32_machine_timers.sv)    *)
(* and the delay of its driver (firmware/drivers/time.c).  A free-running  *)
(* counter is read in two halves, and a compare register, written in two   *)
(* halves too, raises the timer interrupt while the counter is at or past  *)
(* it.  mtim_delay_ns_irq() reads the time, arms the compare register and  *)
(* spins until the handler has counted an interrupt.                       *)
(*                                                                         *)
(* Every access to a register is a step of its own: time passes, and       *)
(* interrupts are taken, between any two of them.  The processor takes an  *)
(* interrupt on an instruction whose store has already reached the bus and *)
(* repeats that instruction afterwards (rv32cpu.sv:81, mepc_addr at 825):  *)
(* the Repeat actions are a store whose effect is seen and that is still   *)
(* to be executed.  Times are in ticks: ns_from_ticks() and                *)
(* ticks_from_ns() are exact inverses on them.                             *)
(***************************************************************************)
EXTENDS Integers

CONSTANTS
    LowModulus,     \* values of the low half of the counter: 2^32
    HighModulus,    \* values of the high half: 2^24, the top 8 bits are omitted
    StartTimes,     \* times at which the delay may be called
    Delay,          \* the delay asked for, in ticks
    LatestArm,      \* bound: the compare register is armed by this time,
                    \*   before the high half has its last value
    LastTime,       \* bound: the counter stops here
    CounterModulus  \* values of the interrupt counter: 2^32

AllOnes == LowModulus * HighModulus - 1

ASSUME TimerAssumption ==
    /\ LowModulus \in Nat \ {0, 1} /\ HighModulus \in Nat \ {0, 1}
    /\ Delay \in Nat /\ CounterModulus \in Nat \ {0, 1}
    /\ LatestArm \in Nat /\ StartTimes \subseteq 0..LatestArm
    /\ LastTime \in Nat /\ LatestArm + Delay <= LastTime /\ LastTime < AllOnes
    /\ LatestArm < (HighModulus - 1) * LowModulus

VARIABLES
    timer,          \* timer_value
    comp,           \* comp_value
    isr_counter,    \* _mtime_isr_counter
    step,           \* where the call of mtim_delay_ns_irq() has got to
    high, low,      \* the locals of mtim_read_ticks()
    end,            \* end_ns, in ticks
    snapshot,       \* the local isr_counter of the delay
    begin           \* the time at which the delay was called

timerVars == <<timer, comp, isr_counter, step, high, low, end, snapshot, begin>>

High(t) == t \div LowModulus
Low(t)  == t % LowModulus
Joined(h, l) == h * LowModulus + l

Reading == {"low", "check", "again"}
Arming  == {"arm", "compHigh", "compLow", "compFinal"}
Steps   == {"high", "spin", "done", "over"} \union Reading \union Arming

TimerInit ==
    /\ timer \in StartTimes
    /\ comp = AllOnes /\ isr_counter = 0
    /\ step = "high" /\ high = 0 /\ low = 0
    /\ end = 0 /\ snapshot = 0 /\ begin = timer

(***************************************************************************)
(* The hardware: one tick, the compare register and its level interrupt.   *)
(***************************************************************************)

\* Time passes.  A call of mtim_read_ticks() is over long before the low
\* half has turned once (2^32 ticks are 86 s).
Tick ==
    /\ timer < LastTime
    /\ step \in Reading => timer - begin < LowModulus - 1
    /\ step \in {"high"} \union Reading \union Arming => timer < LatestArm
    /\ timer' = timer + 1
    /\ UNCHANGED <<comp, isr_counter, step, high, low, end, snapshot, begin>>

MtiIrq == timer >= comp

WriteCompHigh(h) == comp' = Joined(h, Low(comp))
WriteCompLow(l)  == comp' = Joined(High(comp), l)

\* mtim_isr(): both halves are written with interrupts off, and the register
\* passes through no value the counter could reach on the way.
MtimIsr ==
    /\ MtiIrq
    /\ isr_counter' = (isr_counter + 1) % CounterModulus
    /\ comp' = AllOnes
    /\ UNCHANGED <<timer, step, high, low, end, snapshot, begin>>

(***************************************************************************)
(* mtim_read_ticks(), as mtim_delay_ns_irq() calls it.                     *)
(***************************************************************************)

ReadHigh ==
    /\ step = "high"
    /\ high' = High(timer) /\ begin' = timer /\ step' = "low"
    /\ UNCHANGED <<timer, comp, isr_counter, low, end, snapshot>>

ReadLow ==
    /\ step = "low"
    /\ low' = Low(timer) /\ step' = "check"
    /\ UNCHANGED <<timer, comp, isr_counter, high, end, snapshot, begin>>

\* A ReadCheck that trusts the first low half.
ReadCheckOnce ==
    /\ step = "check"
    /\ high' = High(timer) /\ step' = "arm"
    /\ UNCHANGED <<timer, comp, isr_counter, low, end, snapshot, begin>>

\* The high half is read again: has the low half turned in between?
ReadCheck ==
    /\ step = "check"
    /\ high' = High(timer)
    /\ step' = IF High(timer) # high THEN "again" ELSE "arm"
    /\ UNCHANGED <<timer, comp, isr_counter, low, end, snapshot, begin>>

ReadLowAgain ==
    /\ step = "again"
    /\ low' = Low(timer) /\ step' = "arm"
    /\ UNCHANGED <<timer, comp, isr_counter, high, end, snapshot, begin>>

(***************************************************************************)
(* The rest of mtim_delay_ns_irq(), with mtim_write_compare() inlined.     *)
(***************************************************************************)

Arm ==
    /\ step = "arm"
    /\ end' = Joined(high, low) + Delay
    /\ snapshot' = isr_counter /\ step' = "compHigh"
    /\ UNCHANGED <<timer, comp, isr_counter, high, low, begin>>

CompHigh ==
    /\ step = "compHigh"
    /\ WriteCompHigh(HighModulus - 1) /\ step' = "compLow"
    /\ UNCHANGED <<timer, isr_counter, high, low, end, snapshot, begin>>

CompLow ==
    /\ step = "compLow"
    /\ WriteCompLow(Low(end)) /\ step' = "compFinal"
    /\ UNCHANGED <<timer, isr_counter, high, low, end, snapshot, begin>>

CompFinal ==
    /\ step = "compFinal"
    /\ WriteCompHigh(High(end)) /\ step' = "spin"
    /\ UNCHANGED <<timer, isr_counter, high, low, end, snapshot, begin>>

Spin ==
    /\ step = "spin" /\ isr_counter # snapshot
    /\ step' = "done"
    /\ UNCHANGED <<timer, comp, isr_counter, high, low, end, snapshot, begin>>

\* The call returns, and its locals with it.
Return ==
    /\ step = "done"
    /\ step' = "over"
    /\ high' = 0 /\ low' = 0 /\ end' = 0 /\ snapshot' = 0 /\ begin' = 0
    /\ UNCHANGED <<timer, comp, isr_counter>>

DelayStep ==
    \/ ReadHigh \/ ReadLow \/ ReadCheck \/ ReadLowAgain
    \/ Arm \/ CompHigh \/ CompLow \/ CompFinal \/ Spin

\* A store of mtim_write_compare() that an interrupt flushes after its effect.
RepeatedStore ==
    /\ \/ step = "compHigh"  /\ WriteCompHigh(HighModulus - 1)
       \/ step = "compLow"   /\ WriteCompLow(Low(end))
       \/ step = "compFinal" /\ WriteCompHigh(High(end))
    /\ UNCHANGED <<timer, isr_counter, step, high, low, end, snapshot, begin>>

TimerTypeOK ==
    /\ timer \in 0..LastTime /\ comp \in 0..AllOnes
    /\ isr_counter \in 0..(CounterModulus - 1) /\ snapshot \in 0..(CounterModulus - 1)
    /\ step \in Steps
    /\ high \in 0..(HighModulus - 1) /\ low \in 0..(LowModulus - 1)
    /\ end \in 0..AllOnes /\ begin \in 0..LastTime

\* A delay never ends early and is never measured from the wrong moment: the
\* time it adds the delay to is one that the counter showed during the call,
\* whatever carries between the halves while they are read, and when the call
\* returns the counter has passed the end, so no write of half a compare value
\* and no store repeated after an interrupt has let the handler run too soon.
DelayHonest ==
    /\ step \in {"compHigh", "compLow", "compFinal", "spin"} =>
           end - Delay \in begin..timer
    /\ step = "done" => timer >= begin + Delay
=============================================================================
