SPECIFICATION Spec
CONSTANTS
  tower = tower
  NumPlayers = 3
  Cells = {0, 1}
  Water = {1}
  Places = {tower}
  Around <- MCAround
  SaveFiles <- MCSaveFiles
INVARIANT TypeOK
PROPERTIES
  SharingKeepsUp
  SharingFollowsChains
