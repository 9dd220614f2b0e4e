\* Two emails, one of which the provider never takes, and two posts, one of them trusted; two ticks that could overlap, one script.
SPECIFICATION LedgerFairSpec
CONSTANTS
  Emails = {e1, e2}
  Posts = {p1, p2}
  Trusted = {p2}
  Barred = {e1}
  Waiting <- OneWaits
  e1 = e1
  e2 = e2
  Scripts = {s1}
  Ticks = {k1, k2}
  MaxSends = 2
  MaxApply = 1
  MaxCommands = 3
  MaxFaults = 1
  None = None
\* Every entry may be settled, and nobody has to propose another.
CHECK_DEADLOCK FALSE
 
PROPERTY ApprovedAreSettled
