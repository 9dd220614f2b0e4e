\* Three automations under a cap of two, and a row.
SPECIFICATION CronFairSpec
CONSTANTS
  a1 = a1  a2 = a2  a3 = a3  r1 = r1
  Crons <- MCCrons
  Rows = {r1}
  Cap = 2
  Heartbeat = 2
  Period <- MCPeriod
  MaxByHand = 1
  Unmarked = {a1}
  Boots = 1
  Off = Off
INVARIANT OnlyTheCapSpins
PROPERTIES OnlyAFailureSkips DueIsFired
