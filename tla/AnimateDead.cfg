SPECIFICATION Spec
CONSTANTS
  ghosts = ghosts
  vampires = vampires
  trolls = trolls
  assassins = assassins
  shades = shades
  peasants = peasants
  elementals = elementals
  Stacks = {ghosts, vampires, assassins}
  Side <- MCSide
  Index <- MCIndex
  Hp <- MCHp
  Initial <- MCInitial
  Summoned = {}
  Pandora = {}
  Ghosts = {ghosts}
  VampireLords = {vampires}
  Trolls = {}
  Dodgers = {assassins}
  Undead = {ghosts, vampires}
  Heroes = {1}
  Artifacts <- MCArtifacts
  Lineups = {{ghosts, vampires, assassins}}
  Blows = {30, 130}
  Strengths = {50}
  QuantityLimit = 4
  RoundLimit = 1
PROPERTY RaisingTakesNobody
CHECK_DEADLOCK FALSE
