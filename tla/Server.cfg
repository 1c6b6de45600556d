SPECIFICATION Spec
CONSTANTS
  MaxPlayers = 2
  MaxGames = 1
  MaxShips = 2
  Names = {n1, n2}
  Commands = {"LOGIN", "CREATE_GAME", "JOIN_GAME", "ACCEPT_INVITE", "REJECT_INVITE",
              "PLACE_SHIP", "READY", "FIRE", "LEAVE_GAME", "REMATCH",
              "REMATCH_DECLINE", "WAIT_NEW_PLAYER", "QUIT"}
SYMMETRY NameSymmetry
CHECK_DEADLOCK FALSE
INVARIANTS
  TypeOK
  UniqueUsernames
  CountsMatch
  NeverAgainstItself
  TurnHolder
