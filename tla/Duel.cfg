SPECIFICATION PictureSpec
CONSTANTS
  GridSize = 2
  ShipSizes <- TwoShips
  Coordinates <- Around2
  Targets <- AllCells
INVARIANTS
  TypeOK
  ViewsAgree
  CountersAgree
  PlacementExact
  PictureTrue
PROPERTIES
  ImplementsBattleship
