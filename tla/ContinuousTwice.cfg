CONSTANTS
  Unit = 2
  KillDenominator = 8
  HeatUp = 1
  NoTime = NoTime
  Fights <- MCFights
SPECIFICATION FairSpec
INVARIANTS
  ContinuousDealtOnce
