SPECIFICATION Spec
CONSTANTS
  Castable = {0, 1, 5, 7, 9, 12, 13, 14, 16}
  Powers = {1, 2}
  BaseAttack = 4
  BaseDefense = 5
  BaseSpeed = 5
  BaseFlies = TRUE
  MaxRayLoss = 5
  MaxDrift = 1
PROPERTY MassDispelRemovesAll
