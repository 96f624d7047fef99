----------------------------- MODULE MCDiscoLoop -----------------------------
(***************************************************************************)
(* DiscoLoop with a count of a few milliseconds and a timer of a few ticks.*)
(***************************************************************************)
EXTENDS DiscoLoop

CONSTANTS UptimePeriod, LinkPeriod

MCPeriodOf == [task \in Task |-> IF task = "uptime" THEN UptimePeriod ELSE LinkPeriod]
==============================================================================
