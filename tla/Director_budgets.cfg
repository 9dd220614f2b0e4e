\* One arc against every combination of costs, under the fairness of the event loop.
SPECIFICATION FairSpec
CONSTANTS
  a1 = a1  a2 = a2  q1 = q1  q2 = q2  q3 = q3  s1 = s1  s2 = s2  s3 = s3
  revenue = revenue  plumbing = plumbing
  Arcs = {a1}
  Questions = {q1}
  Sources = {s1, s2, s3}
  Modes = {revenue, plumbing}
  ModeOf <- MCModeOf
  WatcherMode = plumbing
  TrusteeModes = {}
  MaxPhases = 3
  MaxMinutes = 1
  MaxInbox = 1
  WallMinutes <- MCWall
  LlmCents <- MCCents
  Minute = 4
  PhaseTicks = {2, 9}
  GapTicks = {0, 1}
  PhaseCents = {0, 1}
  Pulses <- MCPulses
  EternalModes = {"normal"}
  MaxFaults = 0
  NoArc = NoArc
  NoKey = NoKey
INVARIANTS OvershootsByOnePhase ExitIsExplained
CHECK_DEADLOCK FALSE
PROPERTY EveryArcEnds
