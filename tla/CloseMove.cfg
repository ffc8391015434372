SPECIFICATION Spec
CONSTANTS
  paladin = paladin
  cyclops = cyclops
  archer = archer
  panther = panther
  None = None
  Stacks = {paladin, panther}
  Side <- MCSide
  Index <- MCIndex
  Speed <- MCSpeed
  Morale <- MCMorale
  Shooters = {}
  Paralyzers = {}
  Unanswered = {}
  Flyers = {panther}
  Teleporters = {panther}
  Griffins = {}
  Lineups = {{paladin, panther}}
  TwiceStrikers = {paladin}
  CastByHeroes = {"BLIND", "PARALYZE", "HYPNOTIZE", "SLOW"}
  WaitLimit = 1
  EffectLimit = 1
PROPERTY CloseStrikesAreAnswered
