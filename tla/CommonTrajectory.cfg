CONSTANTS
  Unit = 4
  NoTrack = NoTrack
  NotGiven = NotGiven
  health = health
  wall = wall
  armour = armour
  skipper = skipper
  Track <- MCTrack
  KBSchedule <- MCKBSchedule
  LevelCap = 4
  SkipOfLevel <- MCSkipOfLevel
  HpOfLevel <- MCHpOfLevel
  RatioOfLevel <- MCRatioOfLevel
  NCategory = 2
  Scenarios <- MCScenarios
SPECIFICATION Spec
INVARIANTS
  TypeOK
  RecurrencesExact
  AllocationExact
  UpgradesConserved
  RotationBalanced
  RowsCoverBossWaves
  RowsGoOneWay
