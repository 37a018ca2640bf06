CONSTANTS
  Interval = 2
  Stride = 3
  FirstHorizon = 3
  SecondHorizon = 6
  WideHorizon = 9
  Requests <- MCRequests
SPECIFICATION Spec
INVARIANTS
  TypeOK
  EarlyExitsAgree
  AnswerIsBacked
