------------------------------ MODULE DiscoLoop ------------------------------
(***************************************************************************)
(* The main loop of the Discovery board (stm32/f746g-disco/main.cpp): it   *)
(* kicks the watchdog and polls two of its PeriodicTasks                   *)
(* (Firmware/bare_metal/task.h).  The "uptime" task reads the extended     *)
(* timer; the "link" task waits for the PHY with pollFor()                 *)
(* (Firmware/hal/poll.h).  Both are paced by SchedulerClock, the count of  *)
(* milliseconds kept by the SysTick interrupt: 32 bits, where the times    *)
(* computed from it have 64.                                               *)
(***************************************************************************)
EXTENDS ExtendedTimer

CONSTANTS
  CountModulus,    \* values of sys_tick_count
  PeriodOf,        \* period of each task, in milliseconds
  PhyTimeout,      \* kPhyTransactionTimeout
  WatchdogPeriod   \* milliseconds without a kick until the watchdog resets the board

Task == {"uptime", "link"}

ASSUME LoopAssumption ==
  /\ CountModulus \in Nat \ {0}
  /\ PeriodOf \in [Task -> Nat]
  /\ PhyTimeout \in Nat /\ WatchdogPeriod \in Nat \ {0}

VARIABLES
  sys_tick_count,
  next_tick_time,  \* of each task
  turn,            \* what the loop does: "kick", or the task being polled
  step,            \* where it is in that task
  now,             \* poll()'s local: when the tick began
  end,             \* pollUntil()'s end_time_point
  unkicked,        \* milliseconds since the watchdog was kicked
  wrapped          \* sys_tick_count has wrapped since the start

taskVars == <<next_tick_time, turn, step, now, end>>
loopVars == <<timerVars, sys_tick_count, taskVars, unkicked, wrapped>>

Start ==
  /\ sys_tick_count = 0 /\ unkicked = 0 /\ wrapped = FALSE
  /\ next_tick_time = PeriodOf
  /\ turn = "kick" /\ step = "poll" /\ now = 0 /\ end = 0

LoopInit == TimerInit /\ Start
------------------------------------------------------------------------------
\* SysTick_Handler(); the watchdog lets no more than its period pass.
SysTick ==
  /\ unkicked < WatchdogPeriod /\ unkicked' = unkicked + 1
  /\ sys_tick_count' = (sys_tick_count + 1) % CountModulus
  /\ wrapped' = (wrapped \/ sys_tick_count' = 0)
  /\ UNCHANGED <<timerVars, taskVars>>

\* Mutant of WatchdogReset: the watchdog is not started.
WatchdogOff == FALSE /\ UNCHANGED loopVars

\* The board starts again, with its timer.
WatchdogReset ==
  /\ unkicked = WatchdogPeriod
  /\ device' = device
  /\ raw' = (IF device = "down" THEN Last ELSE 0)
  /\ event' = FALSE /\ wraps' = 0 /\ num_wraps' = 0
  /\ reader' = "idle" /\ timer_value' = 0 /\ begin' = 0
  /\ sys_tick_count' = 0 /\ unkicked' = 0 /\ wrapped' = FALSE
  /\ next_tick_time' = PeriodOf
  /\ turn' = "kick" /\ step' = "poll" /\ now' = 0 /\ end' = 0

Timers ==
  /\ HardwareTick \/ WrapInterrupt
  /\ UNCHANGED <<sys_tick_count, taskVars, unkicked, wrapped>>

Kick ==
  /\ turn = "kick" /\ turn' = "uptime"
  /\ unkicked' = 0
  /\ UNCHANGED <<timerVars, sys_tick_count, next_tick_time, step, now, end, wrapped>>

\* Mutant of Following: a task that is not due ends the turn of the loop.
FollowingKick(task) == "kick"

Following(task) == IF task = "uptime" THEN "link" ELSE "kick"

\* poll() ends; the locals are gone.
Done ==
  /\ turn' = Following(turn) /\ step' = "poll"
  /\ now' = 0 /\ end' = 0

\* poll(): is it time to run tick()?
Poll ==
  /\ turn \in Task /\ step = "poll"
  /\ IF sys_tick_count >= next_tick_time[turn]
       THEN now' = sys_tick_count /\ step' = "tick" /\ UNCHANGED <<turn, end>>
       ELSE Done
  /\ UNCHANGED <<timerVars, sys_tick_count, next_tick_time, unkicked, wrapped>>

\* tick() returns: next_tick_time_ = now + period_
TickEnds ==
  /\ next_tick_time' = [next_tick_time EXCEPT ![turn] = now + PeriodOf[turn]]
  /\ Done

\* UptimeLogger::tick() calls EarlyClock::now(), that is, read().
UptimeRead ==
  /\ turn = "uptime" /\ step = "tick"
  /\ Read
  /\ IF reader = "return" THEN TickEnds ELSE UNCHANGED taskVars
  /\ UNCHANGED <<sys_tick_count, unkicked, wrapped>>

\* EthernetLinkManager::tick() waits for a PHY transaction with pollFor().
LinkPollFor ==
  /\ turn = "link" /\ step = "tick"
  /\ end' = sys_tick_count + PhyTimeout /\ step' = "wait"
  /\ UNCHANGED <<timerVars, sys_tick_count, next_tick_time, turn, now, unkicked, wrapped>>

\* The condition of pollUntil(), which comes true or not.
LinkCondition ==
  /\ turn = "link" /\ step = "wait"
  /\ TickEnds \/ (step' = "clock" /\ UNCHANGED <<next_tick_time, turn, now, end>>)
  /\ UNCHANGED <<timerVars, sys_tick_count, unkicked, wrapped>>

\* while (ClockType::now() < end_time_point)
LinkClock ==
  /\ turn = "link" /\ step = "clock"
  /\ IF sys_tick_count < end
       THEN step' = "wait" /\ UNCHANGED <<next_tick_time, turn, now, end>>
       ELSE TickEnds
  /\ UNCHANGED <<timerVars, sys_tick_count, unkicked, wrapped>>

Loop == Kick \/ Poll \/ UptimeRead \/ LinkPollFor \/ LinkCondition \/ LinkClock

LoopNext == SysTick \/ WatchdogReset \/ Timers \/ Loop

(***************************************************************************)
(* The loop runs, SysTick and the watchdog are served.  Nothing is assumed *)
(* of the PHY, nor of the timer.                                           *)
(***************************************************************************)
LoopSpec ==
  LoopInit /\ [][LoopNext]_loopVars /\ WF_loopVars(Loop) /\ WF_loopVars(SysTick)
           /\ WF_loopVars(WatchdogReset)
------------------------------------------------------------------------------
LoopTypeOK ==
  /\ TimerTypeOK
  /\ sys_tick_count \in 0 .. CountModulus - 1
  /\ next_tick_time \in [Task -> Nat]
  /\ turn \in Task \cup {"kick"} /\ step \in {"poll", "tick", "wait", "clock"}
  /\ now \in 0 .. CountModulus - 1 /\ end \in Nat
  /\ unkicked \in 0 .. WatchdogPeriod /\ wrapped \in BOOLEAN

(***************************************************************************)
(* "Run the tick() if it is time to do so" (task.h:20): until the count    *)
(* wraps, no task is overdue by more than two turns of the loop, which the *)
(* watchdog bounds, whatever the other tasks wait for.  Once the count has *)
(* wrapped, the ticks due after the wrap never come.                       *)
(***************************************************************************)
Punctual ==
  ~wrapped => \A task \in Task :
    sys_tick_count <= next_tick_time[task] + 2 * WatchdogPeriod

(***************************************************************************)
(* The loop always comes round: a PHY that never answers and an end of the *)
(* wait that the count never reaches hold it up for a watchdog period at   *)
(* most, after which the board starts again.                               *)
(***************************************************************************)
LoopTurns == []<>(turn = "kick")
==============================================================================
