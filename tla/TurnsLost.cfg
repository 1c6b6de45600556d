SPECIFICATION SessionSpec
CONSTANTS
  MaxPlayers = 2
  MaxGames = 1
  MaxShips = 2
  MaxAhead = 1
  Buffer = 3
  MaxArrivals = 2
  Names = {n1, n2}
  Commands = {"LOGIN", "CREATE_GAME", "JOIN_GAME", "ACCEPT_INVITE", "PLACE_SHIP", "READY", "FIRE"}
SYMMETRY NameSymmetry
CHECK_DEADLOCK FALSE
INVARIANTS
  TurnHolderKnows
