SPECIFICATION Spec
CONSTANTS
  dragon = dragon
  elemental = elemental
  behemoth = behemoth
  berserker = berserker
  NoStack = NoStack
  Columns = 5
  Rows = 3
  Blocked = {6, 7, 13}
  Stacks = {dragon, behemoth, berserker, elemental}
  Elementals = {elemental}
  Side <- MCSide
  Start <- MCStart
  SummonHexes <- MCSummonHexes
  TwoHexers = {dragon, behemoth}
  Flyers = {dragon}
  Shooters = {behemoth}
  Jumpers = {berserker}
  TwoHexAttackers = {dragon}
  TwiceStrikers = {}
  Liches = {}
  PlasmaBlasters = {behemoth}
  CorpseLimit = 2
INVARIANTS
  TypeOK
  GridAgreesWithArmies
  MarksPointToOtherHex
  BodiesAreWhole
  FacesTheEnemy
CHECK_DEADLOCK FALSE
