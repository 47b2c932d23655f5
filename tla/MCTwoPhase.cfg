SPECIFICATION PhaseSpec
CONSTANTS
  r1 = r1
  r2 = r2
  r3 = r3
  None = None
  Runs <- MCRuns
  ModesOf <- MCModesOf
PROPERTIES
  PhaseTwoReadsTheTruth
  PhaseTwoComes
CHECK_DEADLOCK FALSE
