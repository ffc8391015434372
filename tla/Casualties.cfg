SPECIFICATION Spec
CONSTANTS
  ghosts = ghosts
  vampires = vampires
  trolls = trolls
  assassins = assassins
  shades = shades
  peasants = peasants
  elementals = elementals
  Stacks = {ghosts, vampires, trolls, assassins, shades, peasants, elementals}
  Side <- MCSide
  Index <- MCIndex
  Hp <- MCHp
  Initial <- MCInitial
  Summoned = {elementals}
  Pandora = {peasants}
  Ghosts = {ghosts}
  VampireLords = {vampires}
  Trolls = {trolls}
  Dodgers = {assassins, shades}
  Undead = {ghosts, vampires}
  Heroes = {1}
  Artifacts <- MCArtifacts
  Lineups <- MCLineups
  Blows = {20, 120}
  Strengths = {100}
  QuantityLimit = 3
  RoundLimit = 2
INVARIANTS
  TypeOK
  DeadAreNone
  WoundsAreLessThanALife
  OnlyGhostsOutgrow
  OnlyTheUnraisedGoHome
PROPERTIES
  HitPointsAddUp
  GainsAreLosses
  
CHECK_DEADLOCK FALSE
