SPECIFICATION Spec
CONSTANTS
  dragon = dragon
  elemental = elemental
  behemoth = behemoth
  berserker = berserker
  NoStack = NoStack
  Columns = 5
  Rows = 3
  Blocked = {6, 7, 13}
  Stacks = {dragon, elemental, berserker}
  Elementals = {elemental}
  Side <- MCSide
  Start <- MCStart
  SummonHexes <- MCSummonHexes
  TwoHexers = {dragon}
  Flyers = {dragon}
  Shooters = {}
  Jumpers = {berserker}
  TwoHexAttackers = {dragon}
  TwiceStrikers = {}
  Liches = {}
  PlasmaBlasters = {}
  CorpseLimit = 2
PROPERTY
  TeleportTakesOpenHexes
CHECK_DEADLOCK FALSE
