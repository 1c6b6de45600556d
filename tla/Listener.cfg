SPECIFICATION FairSpec
CONSTANTS
  MaxPlayers = 2
  MaxFds = 3
  MaxConns = 4
CHECK_DEADLOCK FALSE
INVARIANTS
  TypeOK
  SlotsLeadHome
  EveryFdOwned
PROPERTIES
  StopsOnSignal
  ConnectionTaken
