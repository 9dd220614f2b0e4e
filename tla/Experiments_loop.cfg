\* Three experiments, one of which intervenes twice; two ticks that overlap and chain.
SPECIFICATION FairSpec
CONSTANTS
  Exps = {x1, x2, x3}
  Tuners = {x1}
  CanRollBack = {x1}
  MaxChainDepth = 2
  Ticks = {k1, k2}
  MaxInterventions = 2
  MaxFaults = 1
  Nobody = Nobody
INVARIANTS JudgedOnce NoFailedOverrideInForce
PROPERTY DueValidationsAreJudged
