SPECIFICATION Spec
CONSTANTS
  MaxPlayers = 2
  MaxGames = 1
  MaxShips = 2
  Names = {n1, n2}
  Commands = {"LOGIN", "CREATE_GAME", "JOIN_GAME", "ACCEPT_INVITE", "PLACE_SHIP", "READY",
              "FIRE", "QUIT"}
SYMMETRY NameSymmetry
CHECK_DEADLOCK FALSE
INVARIANTS
  LockedOnce
