---------------------------- MODULE MCScheduler ----------------------------
EXTENDS Scheduler
CONSTANTS a1, a2, a3, r1

MCCrons == <<a1, a2, a3>>
\* Occurrences oftener and rarer than the heartbeat.
MCPeriod == [t \in {a1, a2, a3, r1} |-> IF t = a1 THEN 1 ELSE 3]
=============================================================================
