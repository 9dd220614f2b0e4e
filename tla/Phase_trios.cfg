\* Three trios, every return, one failed write or throw, an abort at any moment.
SPECIFICATION Spec
CONSTANTS
  MaxTrios = 3
  PhaseMinutes = 3
  TrioMinutes = 1
  CallMinutes = {0, 1, 2}
  OnRegression = "replan-tighter"
  MaxFaults = 1
INVARIANTS OnlyRegressionsContinue RowsTellTheOutcome EndsInTime
PROPERTIES ImplementsContract
