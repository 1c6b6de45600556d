SPECIFICATION Spec
CONSTANTS
  MaxPlayers = 2
  MaxGames = 1
  MaxShips = 2
  Names = {n1, n2}
  Commands = {"LOGIN", "CREATE_GAME", "JOIN_GAME", "ACCEPT_INVITE", "LEAVE_GAME"}
CHECK_DEADLOCK FALSE
INVARIANTS
  NoOrphanGame
