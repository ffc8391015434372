SPECIFICATION Spec
CONSTANTS
  paladin = paladin
  cyclops = cyclops
  archer = archer
  panther = panther
  None = None
  Stacks = {paladin, cyclops, archer, panther}
  Side <- MCSide
  Index <- MCIndex
  Speed <- MCSpeed
  Morale <- MCMorale
  Shooters = {archer}
  Paralyzers = {cyclops}
  Unanswered = {}
  Flyers = {panther}
  Teleporters = {panther}
  Griffins = {}
  Lineups <- MCLineups
  TwiceStrikers = {paladin}
  CastByHeroes = {"BLIND", "PARALYZE", "HYPNOTIZE", "SLOW"}
  WaitLimit = 1
  EffectLimit = 1
INVARIANTS
  TypeOK
  ActiveMayAct
  OnlySpentTurnsAreLost
  MoraleGivesOneTurnAtATime
  OneAnswerARound
PROPERTIES
  WokenDoNotRetaliate
  EveryStackGetsItsTurn
