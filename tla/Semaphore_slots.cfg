\* Five callers and two slots: both a queue of three and a full house.
SPECIFICATION FairSpec
CONSTANTS
  Callers <- MCCallers
  Max = 2
INVARIANTS HoldersAreCounted
PROPERTIES FirstComeFirstServed ImplementsContract WaitersAreServed
