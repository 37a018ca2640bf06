\* Every matrix of two tiers, two categories and two presets
SPECIFICATION MatrixSpec
CONSTANTS
  Interval = 2
  Stride = 3
  Tiers <- MCTiers
  Categories <- MCCategories
  Presets <- MCPresets
  EndWave = 10
  CapWave = 9
  Fields <- MCFields
  FieldsOf <- MCFieldsOf
  Verdicts <- MCVerdicts
  Calls <- MCCalls
INVARIANTS
  CertificationSound
PROPERTIES
  CompleteFirst
