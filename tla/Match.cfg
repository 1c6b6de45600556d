SPECIFICATION Spec
CONSTANTS
  MaxPlayers = 3
  MaxGames = 1
  MaxShips = 2
  Names = {n1, n2, n3}
  Commands = {"LOGIN", "CREATE_GAME", "JOIN_GAME", "ACCEPT_INVITE", "REJECT_INVITE",
              "PLACE_SHIP", "READY", "FIRE", "REMATCH"}
SYMMETRY NameSymmetry
CHECK_DEADLOCK FALSE
INVARIANTS
  FleetsPlaced
  TurnHolder
  OneShotInFlight
  FightTogether
  FinishTogether
  PendingStands
PROPERTIES
  ShotByTurnHolder
