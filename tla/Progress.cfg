SPECIFICATION FairStartedSpec
CONSTANTS
  MaxPlayers = 2
  MaxGames = 1
  MaxShips = 2
  Names = {n1, n2}
  Commands = {"LOGIN", "CREATE_GAME", "PLACE_SHIP", "READY", "FIRE", "LEAVE_GAME",
              "REMATCH", "REMATCH_DECLINE", "WAIT_NEW_PLAYER", "QUIT"}
CHECK_DEADLOCK FALSE
INVARIANTS
  NoOrphanGame
PROPERTIES
  StartsWhenReady
  RematchStarts
  HandlersReturn
  AbandonedMatchRemoved
