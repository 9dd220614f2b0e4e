\* Two arcs against crashes, throws, a moving pulse, the eternal mode, a founder and watchers.
SPECIFICATION Spec
CONSTANTS
  a1 = a1  a2 = a2  q1 = q1  q2 = q2  q3 = q3  s1 = s1  s2 = s2  s3 = s3
  revenue = revenue  plumbing = plumbing
  Arcs = {a1, a2}
  Questions = {q1, q2}
  Sources = {s1, s2}
  Modes = {revenue, plumbing}
  ModeOf <- MCModeOf
  WatcherMode = plumbing
  TrusteeModes = {plumbing}
  MaxPhases = 2
  MaxMinutes = 4
  MaxInbox = 1
  WallMinutes <- MCWall
  LlmCents <- MCCents
  Minute = 1
  PhaseTicks = {1}
  GapTicks = {0}
  PhaseCents = {0}
  Pulses <- MCPulses
  EternalModes = {"normal", "conservative"}
  MaxFaults = 1
  NoArc = NoArc
  NoKey = NoKey
SYMMETRY MCSymmetry
INVARIANTS OneOpenArc ReportsInOrder NoSourceTwice PhaseQuestionsBounded
PROPERTIES EndedArcsAreFrozen SeedResolvedInFlight
CHECK_DEADLOCK FALSE
