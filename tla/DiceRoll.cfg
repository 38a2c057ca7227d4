CONSTANTS
  MaxInt = 127
  MaxDice = 4
  MaxSides = 8
  MaxRerolls = 2
  MaxExplosions = 2
  MaxNodes = 8
  Texts <- AllTexts
  Resolver <- Str
  Reading <- Parse
  Order <- Postorder
  SumOf <- Summed
SPECIFICATION FairSpec
INVARIANTS
  DiceExplained
  ResultExplained
PROPERTIES
  ParsesWithTwoDepartures
  ModifiersDone
  GroupKeepsBest
  RollAdvances
  RollsEnd
