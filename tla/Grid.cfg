\* Grids that are resized, edited, stored, loaded and drawn.
SPECIFICATION Spec
CONSTANTS
  MaxGrid <- TwoByThree
  Keys = {0, 1, 2}
  DefaultKeys <- SomeKeys
  Weights = {1000}
  MinWeight = 1  MaxWeight = 1000  DefaultWeight = 10
  Percents = {100}
  Margin = 3
  ExitSize = 16
  Canvases <- Small
  Configs <- SomeConfigs
  MaxEdits = 3
INVARIANTS
  TypeOK
  ListsShowGrid
  ClickFindsKey
  ExitReachable
PROPERTY
  GridSurvives
