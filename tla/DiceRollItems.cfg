CONSTANTS
  MaxInt = 127
  MaxDice = 4
  MaxSides = 8
  MaxRerolls = 2
  MaxExplosions = 2
  MaxNodes = 8
  Texts <- BigGroup
  Resolver <- Str
  Reading <- Parse
  Order <- Postorder
  SumOf <- Summed
SPECIFICATION Spec
PROPERTIES
  GroupKeepsItems
