\* The loop with an interval longer than its debounce.
SPECIFICATION FairSpec
CONSTANTS
  Interval = 5
  Debounce = 3
INVARIANTS OneTickAtATime
PROPERTY KeepsTicking
