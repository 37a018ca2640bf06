CONSTANTS
  pwr = pwr
  hp = hp
  gold = gold
  speed = speed
  GoldenTower = GoldenTower
  NoUw = NoUw
  NoChoice = NoChoice
  Pwr = pwr
  Perk <- MCPerk
  MaxPicks <- MCMaxPicks
  RequiredUw <- MCRequiredUw
  Sections <- MCSections
  Policies <- MCPolicies
SPECIFICATION Spec
INVARIANTS
  TypeOK
  PicksLegal
  DueInOrder
  ReadersAgree
