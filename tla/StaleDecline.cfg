SPECIFICATION StartedSpec
CONSTANTS
  MaxPlayers = 2
  MaxGames = 1
  MaxShips = 2
  Names = {n1, n2}
  Commands = {"CREATE_GAME", "FIRE", "REMATCH_DECLINE"}
PROPERTIES
  WaitingGameKept
