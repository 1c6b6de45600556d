--------------------------- MODULE GameServerMatch ---------------------------
(***************************************************************************)
(* Theorems about the matches of GameServer: from the two READYs over the  *)
(* shots to the rematch, while nobody leaves.  The handlers of a           *)
(* departure work on a game that may have changed hands; without them the  *)
(* two threads of a match are the only ones that write to its game.        *)
(* The last part is about departures: those of creators who play alone.    *)
(***************************************************************************)
EXTENDS GameServerProofs

(* The clients of the match send no command that ends in                   *)
(* leave_current_game, and none closes its connection.                     *)
NobodyLeaves ==
  Commands \cap {"LEAVE_GAME", "REMATCH_DECLINE", "WAIT_NEW_PLAYER", "QUIT"} = {}

(* A fleet has more ships than one shot sinks (MAX_SHIPS is 5).  With one  *)
(* ship the creator could win before handle_ready has started the opponent *)
(* and would leave it IN_GAME in a finished match.                         *)
SeveralShips == MaxShips > 1

-----------------------------------------------------------------------------
(* The inductive invariant                                                 *)
(*                                                                         *)
(* One operator for each thing that ties a thread, a player or a game to   *)
(* the others.                                                             *)

GameOf(p) == players[p].current_game_id

(* the sections of each handler, as long as nobody leaves *)
SectionsOf(cmd) ==
  CASE cmd = "NONE"          -> {"none", "receive"}
    [] cmd = "LOGIN"         -> {"set_username", "enter_lobby"}
    [] cmd = "CREATE_GAME"   -> {"create", "copy_code", "attach"}
    [] cmd = "JOIN_GAME"     -> {"find_code", "file_request", "set_invited"}
    [] cmd = "ACCEPT_INVITE" -> {"resolve", "read_game_id", "get_game", "check_invite",
                                 "assign_opponent", "seat_requester", "seat_creator"}
    [] cmd = "REJECT_INVITE" -> {"resolve", "read_game_id", "get_game", "clear_invite",
                                 "release_requester"}
    [] cmd = "PLACE_SHIP"    -> {"place"}
    [] cmd = "READY"         -> {"set_ready", "get_game", "mark_ready", "get_creator",
                                 "get_opponent", "start_creator", "start_opponent"}
    [] cmd = "FIRE"          -> {"read_game_id", "get_game", "check_turn", "get_player",
                                 "order_first", "order_second", "lock_first", "shoot",
                                 "declare_win", "finish_self", "finish_opponent", "pass_turn"}
    [] cmd = "REMATCH"       -> {"read_game_id", "get_game", "ask_rematch", "get_player",
                                 "restart_self", "restart_opponent"}
    [] OTHER                 -> {}

(* the states a player can be in while its handler runs *)
StatesIn(cmd, pc) ==
  CASE pc = "none"           -> {"DISCONNECTED"}
    [] pc = "set_invited"    -> {"LOBBY", "PLACING_SHIPS"}
    [] pc = "set_ready"      -> {"PLACING_SHIPS"}
    [] pc = "start_opponent" -> {"READY", "IN_GAME"}
    [] cmd = "LOGIN"         -> {"CONNECTED"}
    [] cmd \in {"CREATE_GAME", "JOIN_GAME"} /\ pc # "set_invited" -> {"LOBBY"}
    [] cmd = "ACCEPT_INVITE" -> {"WAITING_OPPONENT"}
    [] cmd = "PLACE_SHIP"    -> {"PLACING_SHIPS"}
    [] cmd = "READY" /\ pc \notin {"set_ready", "start_opponent"} -> {"READY"}
    [] cmd = "FIRE"          -> {"IN_GAME", "FINISHED"}
    [] cmd = "REMATCH"       -> {"FINISHED", "PLACING_SHIPS"}
    [] cmd = "REJECT_INVITE" \/ pc = "receive" -> PlayerStates \ {"DISCONNECTED"}
    [] OTHER                 -> {}

HandlerOK(p) == /\ thr[p].pc \in SectionsOf(thr[p].cmd)
                /\ players[p].state \in StatesIn(thr[p].cmd, thr[p].pc)

(* a handler that has read its game id still works on the game of its client *)
LocalOK(p) ==
  /\ \/ thr[p].cmd \in {"ACCEPT_INVITE", "FIRE", "REMATCH"}
          /\ thr[p].pc \notin {"resolve", "read_game_id"}
     \/ thr[p].cmd = "READY" /\ thr[p].pc # "set_ready"
     \/ thr[p].pc = "clear_invite"
     => thr[p].game = GameOf(p)
  /\ thr[p].cmd = "REJECT_INVITE" /\ thr[p].pc = "get_game" => thr[p].game \in {NoId, GameOf(p)}

(* the states of a game its member can be in a given state with *)
Phases(s) ==
  CASE s = "WAITING_OPPONENT" -> {"WAITING_PLAYERS", "PLACING_SHIPS"}
    [] s \in {"INVITED", "PLACING_SHIPS"} -> {"PLACING_SHIPS"}
    [] s = "READY"    -> {"PLACING_SHIPS", "IN_PROGRESS"}
    [] s = "IN_GAME"  -> {"IN_PROGRESS", "FINISHED"}
    [] s = "FINISHED" -> {"FINISHED", "PLACING_SHIPS"}
    [] s \in {"DISCONNECTED", "CONNECTED", "LOBBY", "OPPONENT_LEFT"} -> {}

AttachedOK(p) ==
  IF GameOf(p) = NoId
  THEN players[p].state \in {"DISCONNECTED", "CONNECTED", "LOBBY", "INVITED"}
  ELSE p \in Members(GameOf(p)) /\ games[GameOf(p)].state \in Phases(players[p].state)

GameOK(g) ==
  \/ games[g] = FreeGame
  \/ /\ games[g].id = g /\ games[g].creator_id \in Pid
     /\ IF games[g].state = "WAITING_PLAYERS"
        THEN /\ games[g].opponent_id = NoId
             /\ ~games[g].creator_ready /\ ~games[g].opponent_ready
        ELSE /\ games[g].opponent_id \in Pid \ {games[g].creator_id}
             /\ games[g].pending_invite_from = NoId

Creating(p)     == thr[p].pc \in {"copy_code", "attach"}
Admitting(p, r) == thr[p].pc = "seat_requester" /\ thr[p].other = r

CreatorOK(p) ==
  Creating(p) => /\ thr[p].game \in Gid
                 /\ games[thr[p].game].creator_id = p
                 /\ games[thr[p].game].state = "WAITING_PLAYERS"

(* a member of a game is attached to it, or about to be *)
SeatOK(p, g) ==
  p \in Members(g) => \/ GameOf(p) = g
                      \/ GameOf(p) = NoId /\ Creating(p) /\ thr[p].game = g
                      \/ games[g].opponent_id = p /\ Admitting(games[g].creator_id, p)

OneSeat == \A p \in Pid : \A g, h \in Gid : p \in Members(g) /\ p \in Members(h) => g = h

Unseated(p) == \A g \in Gid : p \notin Members(g)

(* r waits for an answer to the request it has filed *)
Waiting(r) == GameOf(r) = NoId /\ \/ players[r].state = "INVITED"
                                  \/ thr[r].pc = "set_invited" /\ players[r].state = "LOBBY"

Answering(p, r) == thr[p].pc \in {"seat_requester", "release_requester"} /\ thr[p].other = r

(* a request is pending in one game, or being answered by one thread *)
RequestOK(r) ==
  /\ \A g \in Gid : games[g].pending_invite_from = r =>
       /\ Waiting(r) /\ Unseated(r)
       /\ \A h \in Gid : games[h].pending_invite_from = r => g = h
       /\ \A p \in Pid : ~Answering(p, r)
  /\ \A p \in Pid : Answering(p, r) =>
       /\ Waiting(r)
       /\ thr[p].pc = "release_requester" => Unseated(r)
       /\ \A q \in Pid : Answering(q, r) => p = q

(* what handle_accept_invite has checked or done *)
AnswerOK(p) ==
  LET g == thr[p].game
  IN /\ thr[p].cmd \in Invitations /\ thr[p].pc \notin {"resolve", "seat_creator"}
          => thr[thr[p].other].pc # "none"
     /\ thr[p].pc = "assign_opponent" =>
          /\ games[g].state = "WAITING_PLAYERS" /\ games[g].creator_id = p
          /\ games[g].pending_invite_from = thr[p].other
     /\ thr[p].pc \in {"seat_requester", "seat_creator"} =>
          games[g].state = "PLACING_SHIPS" /\ games[g].creator_id = p
     /\ thr[p].pc = "seat_requester" => games[g].opponent_id = thr[p].other

FleetOK(p) ==
  /\ players[p].state = "PLACING_SHIPS" => players[p].ships_remaining = MaxShips
  /\ players[p].state = "READY" => players[p].ships_placed = MaxShips
  /\ players[p].state = "READY" /\ games[GameOf(p)].state = "PLACING_SHIPS"
       => players[p].ships_remaining = MaxShips

OwnReady(g, p) ==
  IF games[g].creator_id = p THEN games[g].creator_ready ELSE games[g].opponent_ready

FlagsOK(g) ==
  games[g].state = "PLACING_SHIPS" =>
    /\ games[g].creator_ready => players[games[g].creator_id].state = "READY"
    /\ games[g].opponent_ready => players[games[g].opponent_id].state = "READY"
    /\ ~(games[g].creator_ready /\ games[g].opponent_ready)

(* who is about to set its flag has not set it yet *)
MarkingOK(p) ==
  thr[p].cmd = "READY" /\ thr[p].pc \in {"get_game", "mark_ready"} =>
    games[GameOf(p)].state = "PLACING_SHIPS" /\ ~OwnReady(GameOf(p), p)

Starting(p, g) ==
  /\ thr[p].pc \in {"get_creator", "get_opponent", "start_creator", "start_opponent"}
  /\ GameOf(p) = g

(* one thread starts the match; the creator may fire once it is started    *)
(* itself, the opponent not before                                         *)
StartOK(p, g) ==
  Starting(p, g) =>
    LET c == games[g].creator_id
        o == games[g].opponent_id
    IN /\ games[g].state = "IN_PROGRESS"
       /\ thr[p].creator = c /\ thr[p].other = o
       /\ players[o].state = "READY"
       /\ players[c].ships_remaining = MaxShips
       /\ \A q \in Pid : Starting(q, g) => p = q
       /\ IF thr[p].pc # "start_opponent"
          THEN /\ players[c].state = "READY" /\ games[g].current_turn = c
               /\ players[o].ships_remaining = MaxShips
          ELSE /\ players[c].state = "IN_GAME"
               /\ players[o].ships_remaining >= MaxShips - 1
               /\ games[g].current_turn = c /\ thr[c].pc # "pass_turn"
                    => players[o].ships_remaining = MaxShips

FightOK(g) ==
  games[g].state = "IN_PROGRESS" =>
    /\ games[g].current_turn \in Members(g)
    /\ \A i \in Members(g) :
         /\ players[i].ships_placed = MaxShips
         /\ players[i].state = "READY" => \E p \in Pid : Starting(p, g)
         /\ players[i].ships_remaining = 0 =>
              i # games[g].current_turn /\ thr[games[g].current_turn].pc = "declare_win"

(* a shot is fired by the player whose turn it is *)
ShotOK(p) ==
  LET g == thr[p].game
  IN /\ thr[p].cmd = "FIRE" => games[GameOf(p)].state \in {"IN_PROGRESS", "FINISHED"}
     /\ thr[p].cmd \in {"FIRE", "REMATCH"}
          /\ thr[p].pc \notin {"read_game_id", "get_game", "check_turn", "ask_rematch"}
          => thr[p].other = OtherMember(g, p)
     /\ thr[p].cmd = "FIRE" /\ thr[p].pc \in Shooting =>
          /\ games[g].state = "IN_PROGRESS" /\ games[g].current_turn = p
          /\ players[p].state = "IN_GAME"
          /\ thr[p].pc = "declare_win" => players[thr[p].other].ships_remaining = 0
          /\ thr[p].pc = "pass_turn" => players[thr[p].other].ships_remaining > 0
     /\ thr[p].pc \in {"finish_self", "finish_opponent"} =>
          games[g].state = "FINISHED" /\ games[g].current_turn = p

Wants(g, p) ==
  IF games[g].creator_id = p THEN games[g].creator_wants_rematch
                             ELSE games[g].opponent_wants_rematch

(* the winner kept the turn, and its thread finishes the two players *)
FinishOK(g) ==
  Used(g) /\ games[g].state = "FINISHED" =>
    LET w == games[g].current_turn
        l == OtherMember(g, w)
    IN /\ w \in Members(g)
       /\ players[w].ships_remaining > 0 /\ players[l].ships_remaining = 0
       /\ players[w].state = "IN_GAME" <=> thr[w].pc = "finish_self"
       /\ players[l].state = "IN_GAME" <=> thr[w].pc \in {"finish_self", "finish_opponent"}
       /\ \A i \in Members(g) :
            Wants(g, i) => players[i].state = "FINISHED" /\ thr[i].cmd # "FIRE"
       /\ \E i \in Members(g) : ~Wants(g, i)

Restarting(p, g) ==
  /\ GameOf(p) = g
  /\ \/ thr[p].pc \in {"restart_self", "restart_opponent"}
     \/ thr[p].cmd = "REMATCH" /\ thr[p].pc = "get_player" /\ thr[p].flag

(* one thread restarts the two players of a rematch *)
RestartOK(p, g) ==
  Restarting(p, g) =>
    /\ games[g].state = "PLACING_SHIPS" /\ ~games[g].creator_ready /\ ~games[g].opponent_ready
    /\ players[thr[p].other].state = "FINISHED"
    /\ players[p].state = IF thr[p].pc = "restart_opponent" THEN "PLACING_SHIPS" ELSE "FINISHED"
    /\ \A q \in Pid : Restarting(q, g) => p = q

ThreadInv(p) == /\ HandlerOK(p) /\ LocalOK(p) /\ CreatorOK(p) /\ AnswerOK(p)
                /\ MarkingOK(p) /\ ShotOK(p)
PlayerInv(p) == AttachedOK(p) /\ RequestOK(p) /\ FleetOK(p)
GameInv(g)   == GameOK(g) /\ FlagsOK(g) /\ FightOK(g) /\ FinishOK(g)
PairInv(p, g) == SeatOK(p, g) /\ StartOK(p, g) /\ RestartOK(p, g)

Threads == \A p \in Pid : ThreadInv(p)
Players == \A p \in Pid : PlayerInv(p)
Games   == \A g \in Gid : GameInv(g)
Pairs   == \A p \in Pid, g \in Gid : PairInv(p, g)

MatchInv == TypeInv /\ OwnSlot /\ Threads /\ Players /\ Games /\ Pairs /\ OneSeat

-----------------------------------------------------------------------------
(* What the invariant says of a player and its game                        *)

LEMMA NoIdNowhere == NoId \notin Pid /\ NoId \notin Gid
  BY DEF NoId, Pid, Gid

(* the types of the fields, and the parts of the invariant at one element *)
LEMMA Fields ==
  ASSUME TypeInv, NEW p \in Pid
  PROVE  /\ players[p].state \in PlayerStates /\ GameOf(p) \in Gid \union {NoId}
         /\ players[p].ships_placed \in 0 .. MaxShips
         /\ players[p].ships_remaining \in 0 .. MaxShips
         /\ thr[p].pc \in Sections /\ thr[p].game \in Gid \union {NoId}
         /\ thr[p].other \in Pid \union {NoId} /\ thr[p].creator \in Pid \union {NoId}
         /\ thr[p].flag \in BOOLEAN
  BY Locals DEF Player, Thread, GameOf

LEMMA FlagFields ==
  ASSUME TypeInv, NEW g \in Gid
  PROVE  /\ games[g].creator_ready \in BOOLEAN /\ games[g].opponent_ready \in BOOLEAN
         /\ games[g].creator_wants_rematch \in BOOLEAN
         /\ games[g].opponent_wants_rematch \in BOOLEAN
         /\ games[g].state \in GameStates
         /\ games[g].current_turn \in Pid \union {NoId}
         /\ games[g].pending_invite_from \in Pid \union {NoId}
  BY GameFields DEF Game

(* the game of a player, and its two seats *)
LEMMA GameOfPlayer ==
  ASSUME MatchInv, NEW p \in Pid, GameOf(p) # NoId
  PROVE  /\ GameOf(p) \in Gid /\ p \in Members(GameOf(p))
         /\ games[GameOf(p)].state \in Phases(players[p].state)
         /\ games[GameOf(p)].id = GameOf(p) /\ games[GameOf(p)].creator_id \in Pid
  <1>1. GameOf(p) \in Gid /\ p \in Members(GameOf(p))
        /\ games[GameOf(p)].state \in Phases(players[p].state)
    BY Fields DEF MatchInv, Players, PlayerInv, AttachedOK
  <1>2. games[GameOf(p)] # FreeGame
    BY <1>1, NoIdNowhere DEF Members, FreeGame
  <1> QED BY <1>1, <1>2 DEF MatchInv, Games, GameInv, GameOK

LEMMA TwoSeats ==
  ASSUME MatchInv, NEW g \in Gid, games[g] # FreeGame, games[g].state # "WAITING_PLAYERS"
  PROVE  /\ games[g].creator_id \in Pid /\ games[g].opponent_id \in Pid
         /\ games[g].creator_id # games[g].opponent_id
         /\ games[g].id = g /\ games[g].pending_invite_from = NoId
         /\ Members(g) \subseteq Pid
         /\ \A p \in Members(g) :
              /\ OtherMember(g, p) \in Members(g) \ {p}
              /\ OtherMember(g, OtherMember(g, p)) = p
              /\ Members(g) = {p, OtherMember(g, p)}
  <1>1. GameOK(g)
    BY DEF MatchInv, Games, GameInv
  <1>2. /\ games[g].id = g /\ games[g].creator_id \in Pid
        /\ games[g].opponent_id \in Pid \ {games[g].creator_id}
        /\ games[g].pending_invite_from = NoId
    BY <1>1 DEF GameOK
  <1> QED BY <1>2 DEF Members, OtherMember

(* in a match both players are attached to the game *)
LEMMA BothAttached ==
  ASSUME MatchInv, NEW g \in Gid, games[g] # FreeGame,
         games[g].state \in {"IN_PROGRESS", "FINISHED"}, NEW i \in Members(g)
  PROVE  i \in Pid /\ GameOf(i) = g
  <1>1. i \in Pid /\ games[g].creator_id \in Pid
    BY TwoSeats
  <1>2. SeatOK(i, g) /\ CreatorOK(i) /\ AnswerOK(games[g].creator_id) /\ LocalOK(games[g].creator_id)
    BY <1>1 DEF MatchInv, Pairs, PairInv, Threads, ThreadInv
  <1>3. ~(Creating(i) /\ thr[i].game = g)
    BY <1>2 DEF CreatorOK
  <1>4. ASSUME Admitting(games[g].creator_id, i), games[g].opponent_id = i PROVE GameOf(i) = g
    <2> DEFINE c == games[g].creator_id
    <2>1. HandlerOK(c) /\ AttachedOK(c)
      BY <1>1 DEF MatchInv, Threads, ThreadInv, Players, PlayerInv
    <2>2. thr[c].cmd = "ACCEPT_INVITE" /\ players[c].state = "WAITING_OPPONENT"
      BY <1>4, <2>1 DEF HandlerOK, SectionsOf, StatesIn, Admitting
    <2>3. GameOf(c) # NoId /\ thr[c].game = GameOf(c)
      BY <1>2, <1>4, <2>1, <2>2 DEF AttachedOK, LocalOK, Admitting
    <2>4. GameOf(c) \in Gid /\ c \in Members(GameOf(c)) /\ c \in Members(g)
      BY <1>1, <2>3, GameOfPlayer DEF Members
    <2>5. GameOf(c) = g
      BY <1>1, <2>4 DEF MatchInv, OneSeat
    <2> QED BY <1>2, <1>4, <2>3, <2>5 DEF AnswerOK, Admitting
  <1> QED BY <1>1, <1>2, <1>3, <1>4 DEF SeatOK

(* a player that is in no game, and has no request pending, has no seat *)
LEMMA NoSeat ==
  ASSUME MatchInv, NEW p \in Pid, GameOf(p) = NoId, ~Creating(p), ~Waiting(p)
  PROVE  Unseated(p) /\ (\A g \in Gid : games[g].pending_invite_from # p)
         /\ \A q \in Pid : ~Answering(q, p)
  <1>1. RequestOK(p) /\ \A g \in Gid : SeatOK(p, g)
    BY DEF MatchInv, Players, PlayerInv, Pairs, PairInv
  <1>2. \A g \in Gid : games[g].pending_invite_from # p
    BY <1>1 DEF RequestOK
  <1>3. \A q \in Pid : ~Answering(q, p)
    BY <1>1 DEF RequestOK
  <1>4. ASSUME NEW g \in Gid, p \in Members(g) PROVE FALSE
    <2>1. games[g].opponent_id = p /\ Admitting(games[g].creator_id, p)
      BY <1>1, <1>4, NoIdNowhere DEF SeatOK
    <2>2. games[g] # FreeGame
      BY <2>1, NoIdNowhere DEF FreeGame
    <2>3. games[g].creator_id \in Pid
      BY <2>2 DEF MatchInv, Games, GameInv, GameOK
    <2> QED BY <1>3, <2>1, <2>3 DEF Admitting, Answering
  <1> QED BY <1>2, <1>3, <1>4 DEF Unseated

(* the game has its two players *)
Paired(g) == \/ games[g].state \in {"PLACING_SHIPS", "IN_PROGRESS"}
             \/ games[g].state = "FINISHED" /\ Used(g)

(* the threads and players the invariant names are in the tables *)
LEMMA NamedThreads ==
  ASSUME MatchInv
  PROVE  /\ \A g \in Gid : Members(g) \cap Pid # {} => games[g].creator_id \in Pid
         /\ \A g \in Gid : Paired(g) =>
              /\ games[g].creator_id \in Pid /\ games[g].opponent_id \in Pid
              /\ \A i \in Members(g) : i \in Pid /\ OtherMember(g, i) \in Pid
         /\ \A p \in Pid, g \in Gid : Starting(p, g) => games[g].state = "IN_PROGRESS"
         /\ \A p \in Pid : thr[p].cmd \in Invitations /\ thr[p].pc \notin {"resolve", "seat_creator"}
              => thr[p].other \in Pid
         /\ \A p \in Pid : Answering(p, thr[p].other) => thr[p].other \in Pid
  <1>1. \A g \in Gid : games[g].creator_id \in Pid \/ games[g] = FreeGame
    BY DEF MatchInv, Games, GameInv, GameOK
  <1>2. \A g \in Gid : Members(g) \cap Pid # {} => games[g].creator_id \in Pid
    BY <1>1, NoIdNowhere DEF Members, FreeGame
  <1>3. ASSUME NEW g \in Gid, Paired(g)
        PROVE  /\ games[g].creator_id \in Pid /\ games[g].opponent_id \in Pid
               /\ \A i \in Members(g) : i \in Pid /\ OtherMember(g, i) \in Pid
    <2>1. games[g] # FreeGame /\ games[g].state # "WAITING_PLAYERS"
      BY <1>3, NoIdNowhere DEF FreeGame, Used, Paired
    <2> QED BY <2>1, TwoSeats
  <1>4. \A p \in Pid, g \in Gid : Starting(p, g) => games[g].state = "IN_PROGRESS"
    BY DEF MatchInv, Pairs, PairInv, StartOK
  <1>5. ASSUME NEW p \in Pid, thr[p].cmd \in Invitations, thr[p].pc \notin {"resolve", "seat_creator"}
        PROVE  thr[p].other \in Pid
    <2>1. HandlerOK(p) /\ ThreadOK(thr[p])
      BY Locals DEF MatchInv, Threads, ThreadInv
    <2>2. thr[p].pc \in OtherSections \/ thr[p].pc \in {"read_game_id", "get_game"}
      BY <1>5, <2>1 DEF HandlerOK, SectionsOf, Invitations, OtherSections
    <2> QED BY <1>5, <2>1, <2>2 DEF ThreadOK
  <1>6. \A p \in Pid : Answering(p, thr[p].other) => thr[p].other \in Pid
    BY Locals DEF MatchInv, Answering, ThreadOK, OtherSections
  <1> QED BY <1>2, <1>3, <1>4, <1>5, <1>6

-----------------------------------------------------------------------------
(* The properties follow from the invariant                                *)

LEMMA UsedIsNotFree == ASSUME NEW g \in Gid, Used(g) PROVE games[g] # FreeGame
  BY NoIdNowhere DEF Used, FreeGame

LEMMA FightFacts ==
  ASSUME MatchInv, NEW g \in Gid, Used(g), games[g].state = "IN_PROGRESS"
  PROVE  /\ games[g].current_turn \in Members(g) \ {NoId}
         /\ \A i \in Members(g) : i \in Pid /\ FullyPlaced(i)
  <1>1. FightOK(g)
    BY DEF MatchInv, Games, GameInv
  <1> QED BY <1>1, UsedIsNotFree, TwoSeats, NoIdNowhere DEF FightOK, FullyPlaced

LEMMA ShotFacts ==
  ASSUME MatchInv, NEW p \in Pid, NEW g \in Gid, InShot(p, g)
  PROVE  games[g].current_turn = p /\ games[g].state = "IN_PROGRESS"
         /\ thr[p].other = OtherMember(g, p) /\ GameOf(p) = g
  <1>1. ShotOK(p) /\ LocalOK(p)
    BY DEF MatchInv, Threads, ThreadInv
  <1> QED BY <1>1 DEF InShot, ShotOK, LocalOK, Shooting

LEMMA Resting ==
  ASSUME MatchInv, Quiescent, NEW g \in Gid, Used(g)
  PROVE  /\ games[g].state = "IN_PROGRESS" => \A i \in Members(g) : players[i].state = "IN_GAME"
         /\ games[g].state = "FINISHED" =>
              /\ \A i \in Members(g) : players[i].state = "FINISHED"
              /\ \E w \in Members(g) : \A i \in Members(g) :
                   (i = w) <=> players[i].ships_remaining > 0
  <1> SUFFICES ASSUME games[g].state \in {"IN_PROGRESS", "FINISHED"}
               PROVE  /\ games[g].state = "IN_PROGRESS" =>
                           \A i \in Members(g) : players[i].state = "IN_GAME"
                      /\ games[g].state = "FINISHED" =>
                           /\ \A i \in Members(g) : players[i].state = "FINISHED"
                           /\ \E w \in Members(g) : \A i \in Members(g) :
                                (i = w) <=> players[i].ships_remaining > 0
    OBVIOUS
  <1>1. games[g] # FreeGame /\ FightOK(g) /\ FinishOK(g)
    BY UsedIsNotFree DEF MatchInv, Games, GameInv
  <1>2. \A i \in Members(g) : i \in Pid /\ GameOf(i) = g
    BY <1>1, BothAttached
  <1>3. \A i \in Members(g) : games[g].state \in Phases(players[i].state) /\ players[i].state \in PlayerStates
    BY <1>2, GameOfPlayer, Fields, NoIdNowhere DEF MatchInv
  <1>4. CASE games[g].state = "IN_PROGRESS"
    <2>1. \A p \in Pid : ~Starting(p, g)
      BY DEF Quiescent, Starting
    <2> QED BY <1>1, <1>3, <1>4, <2>1 DEF FightOK, Phases, PlayerStates
  <1>5. CASE games[g].state = "FINISHED"
    <2> DEFINE w == games[g].current_turn
               l == OtherMember(g, w)
    <2>1. /\ w \in Members(g) /\ l \in Members(g) /\ Members(g) = {w, l}
          /\ players[w].ships_remaining > 0 /\ players[l].ships_remaining = 0
          /\ players[w].state # "IN_GAME" /\ players[l].state # "IN_GAME"
      BY <1>1, <1>2, <1>5, TwoSeats DEF FinishOK, Quiescent
    <2> HIDE DEF w, l
    <2>2. \A i \in Members(g) : players[i].state = "FINISHED"
      BY <1>3, <1>5, <2>1 DEF Phases, PlayerStates
    <2>3. \A i \in Members(g) : (i = w) <=> players[i].ships_remaining > 0
      BY <2>1
    <2> QED BY <1>5, <2>1, <2>2, <2>3
  <1> QED BY <1>4, <1>5

LEMMA PropertiesHold ==
  ASSUME MatchInv
  PROVE  /\ TurnHolder /\ FleetsPlaced /\ OneShotInFlight /\ PendingStands
         /\ FightTogether /\ FinishTogether
  <1>1. TurnHolder /\ FleetsPlaced
    BY FightFacts DEF TurnHolder, FleetsPlaced
  <1>2. OneShotInFlight
    BY ShotFacts DEF OneShotInFlight
  <1>3. PendingStands
    <2> SUFFICES ASSUME NEW g \in Gid, NEW r \in Pid, games[g].pending_invite_from = r
                 PROVE  /\ players[r].current_game_id = NoId
                        /\ At(r, "set_invited") \/ players[r].state = "INVITED"
      BY DEF PendingStands
    <2> QED BY DEF MatchInv, Players, PlayerInv, RequestOK, Waiting, GameOf, At
  <1>4. FightTogether
    BY Resting, FightFacts DEF FightTogether
  <1>5. FinishTogether
    BY Resting DEF FinishTogether
  <1> QED BY <1>1, <1>2, <1>3, <1>4, <1>5

LEMMA MatchInit == Init => MatchInv
  <1> SUFFICES ASSUME Init PROVE MatchInv
    OBVIOUS
  <1>1. /\ \A p \in Pid : players[p] = FreePlayer /\ thr[p] = Idle("none")
        /\ \A g \in Gid : games[g] = FreeGame
    BY DEF Init
  <1>2. TypeInv /\ OwnSlot
    BY TypeInit, OwnSlotInit
  <1>3. /\ \A p \in Pid : /\ thr[p].pc = "none" /\ thr[p].cmd = "NONE"
                         /\ players[p].state = "DISCONNECTED" /\ GameOf(p) = NoId
        /\ \A g \in Gid : /\ games[g] = FreeGame /\ games[g].state = "FINISHED"
                         /\ games[g].id = NoId /\ Members(g) = {NoId}
                         /\ games[g].pending_invite_from = NoId
    <2>1. \A p \in Pid : /\ thr[p].pc = "none" /\ thr[p].cmd = "NONE"
                         /\ players[p].state = "DISCONNECTED" /\ GameOf(p) = NoId
      BY <1>1 DEF FreePlayer, Idle, GameOf
    <2>2. /\ FreeGame.state = "FINISHED" /\ FreeGame.id = NoId /\ FreeGame.creator_id = NoId
          /\ FreeGame.opponent_id = NoId /\ FreeGame.pending_invite_from = NoId
      BY DEF FreeGame
    <2> QED BY <1>1, <2>1, <2>2 DEF Members
  <1>4. Threads
    <2> SUFFICES ASSUME NEW p \in Pid PROVE ThreadInv(p)
      BY DEF Threads
    <2>1. HandlerOK(p)
      BY <1>3 DEF HandlerOK, SectionsOf, StatesIn
    <2> QED BY <1>3, <2>1 DEF ThreadInv, LocalOK, Creating, CreatorOK, AnswerOK, Invitations,
                              MarkingOK, ShotOK
  <1>5. Players
    BY <1>3, NoIdNowhere DEF Players, PlayerInv, AttachedOK, RequestOK, Answering, FleetOK
  <1>6. Games
    BY <1>3, NoIdNowhere DEF Games, GameInv, GameOK, FlagsOK, FightOK, FinishOK, Used
  <1>7. Pairs /\ OneSeat
    BY <1>3, NoIdNowhere DEF Pairs, PairInv, SeatOK, OneSeat, StartOK, Starting, RestartOK, Restarting
  <1> QED BY <1>2, <1>4, <1>5, <1>6, <1>7 DEF MatchInv

-----------------------------------------------------------------------------
(* Steps that move one thread and nothing else                             *)

(* The sections some part of the invariant counts on while a thread is in  *)
(* them.                                                                   *)
Held == {"none", "copy_code", "attach", "set_invited", "seat_requester", "get_creator",
         "get_opponent", "start_creator", "start_opponent", "declare_win", "pass_turn",
         "finish_self", "finish_opponent"}

ThreadOnly(p) == UNCHANGED <<players, games>> /\ \A q \in Pid \ {p} : thr'[q] = thr[q]

LEMMA ThreadStepMatch ==
  ASSUME MatchInv, TypeInv', OwnSlot', NEW p \in Pid, ThreadOnly(p),
         {thr[p].pc, thr'[p].pc} \cap {"set_invited", "seat_requester", "declare_win", "pass_turn",
                                      "finish_self", "finish_opponent"} = {},
         thr'[p].pc \notin {"none", "release_requester"},
         Creating(p) \/ Creating(p)' =>
           Creating(p) /\ Creating(p)' /\ thr'[p].game = thr[p].game,
         \A g \in Gid : (Starting(p, g)' <=> Starting(p, g)) /\ StartOK(p, g)',
         \A g \in Gid : Restarting(p, g)' => Restarting(p, g) /\ RestartOK(p, g)',
         thr'[p].cmd = "FIRE" => thr[p].cmd = "FIRE" \/ players[p].state = "IN_GAME",
         HandlerOK(p)', LocalOK(p)', MarkingOK(p)', ShotOK(p)', AnswerOK(p)'
  PROVE  MatchInv'
  <1> USE DEF ThreadOnly
  <1>0. /\ \A s \in {"set_invited", "seat_requester", "declare_win", "pass_turn", "finish_self",
                     "finish_opponent"} : thr[p].pc # s /\ thr'[p].pc # s
        /\ thr'[p].pc # "none" /\ thr'[p].pc # "release_requester"
    OBVIOUS
  <1>1. \A q \in Pid : GameOf(q)' = GameOf(q) /\ \A g \in Gid : Members(g)' = Members(g)
    BY DEF GameOf, Members
  <1>2. Threads'
    <2> SUFFICES ASSUME NEW q \in Pid PROVE ThreadInv(q)'
      BY DEF Threads
    <2>1. ThreadInv(q)
      BY DEF MatchInv, Threads
    <2>2. CASE q = p
      BY <2>1, <2>2 DEF ThreadInv, CreatorOK
    <2>3. CASE q # p
      <3>1. AnswerOK(q)'
        BY <2>1, <2>3, NamedThreads DEF ThreadInv, AnswerOK
      <3> QED BY <1>1, <2>1, <2>3, <3>1
              DEF ThreadInv, HandlerOK, LocalOK, GameOf, CreatorOK, Creating, MarkingOK, OwnReady,
                  ShotOK, OtherMember
    <2> QED BY <2>2, <2>3
  <1>3. Players'
    <2> SUFFICES ASSUME NEW r \in Pid PROVE PlayerInv(r)'
      BY DEF Players
    <2>1. PlayerInv(r)
      BY DEF MatchInv, Players
    <2>2. Waiting(r) => Waiting(r)'
      BY DEF Waiting, GameOf
    <2>3. \A q \in Pid : Answering(q, r)' => Answering(q, r) /\ thr'[q] = thr[q]
      BY DEF Answering
    <2>4. RequestOK(r)'
      BY <1>1, <2>1, <2>2, <2>3 DEF PlayerInv, RequestOK, Unseated
    <2> QED BY <1>1, <2>1, <2>4 DEF PlayerInv, AttachedOK, FleetOK, GameOf, Members
  <1>4. Pairs'
    <2> SUFFICES ASSUME NEW q \in Pid, NEW g \in Gid PROVE PairInv(q, g)'
      BY DEF Pairs
    <2>1. PairInv(q, g)
      BY DEF MatchInv, Pairs
    <2>2. SeatOK(q, g)'
      BY <1>1, <2>1, NamedThreads DEF PairInv, SeatOK, Members, Creating, Admitting
    <2>3. StartOK(q, g)'
      <3>1. CASE q = p
        BY <3>1
      <3>2. ASSUME q # p, Starting(q, g)' PROVE StartOK(q, g)'
        <4>1. Starting(q, g) /\ StartOK(q, g)
          BY <1>1, <2>1, <3>2 DEF PairInv, Starting
        <4>2. games[g].creator_id \in Pid /\ games[g].opponent_id \in Pid
          BY <4>1, NamedThreads DEF Paired
        <4>3. \A r \in Pid : Starting(r, g)' => Starting(r, g)
          BY <1>1 DEF Starting
        <4>4. \A r \in Pid : thr'[r].pc # "pass_turn" => thr[r].pc # "pass_turn"
          BY <1>0
        <4> QED BY <3>2, <4>1, <4>2, <4>3, <4>4 DEF StartOK
      <3> QED BY <3>1, <3>2 DEF StartOK
    <2>4. RestartOK(q, g)'
      BY <1>1, <2>1 DEF PairInv, RestartOK, Restarting
    <2> QED BY <2>2, <2>3, <2>4 DEF PairInv
  <1>5. Games'
    <2> SUFFICES ASSUME NEW g \in Gid PROVE GameInv(g)'
      BY DEF Games
    <2>1. GameInv(g)
      BY DEF MatchInv, Games
    <2>2. FightOK(g)'
      BY <1>0, <1>1, <2>1, NamedThreads DEF Paired, GameInv, FightOK, Members, Starting
    <2>3. FinishOK(g)'
      <3> SUFFICES ASSUME Used(g), games[g].state = "FINISHED" PROVE FinishOK(g)'
        BY DEF FinishOK, Used
      <3> DEFINE w == games[g].current_turn
                 l == OtherMember(g, w)
      <3>1. /\ w \in Members(g) /\ w \in Pid /\ \A i \in Members(g) : i \in Pid
            /\ FinishOK(g)
        BY <2>1, NamedThreads DEF Paired, GameInv, FinishOK
      <3>2. \A q \in Pid : \A s \in {"finish_self", "finish_opponent"} :
              thr'[q].pc = s <=> thr[q].pc = s
        BY <1>0
      <3>3. thr'[w].pc = "finish_self" <=> thr[w].pc = "finish_self"
        BY <3>1, <3>2
      <3>4. thr'[w].pc = "finish_opponent" <=> thr[w].pc = "finish_opponent"
        BY <3>1, <3>2
      <3>5. \A i \in Members(g) : Wants(g, i) => players[i].state = "FINISHED" /\ thr'[i].cmd # "FIRE"
        BY <3>1 DEF FinishOK
      <3> QED BY <1>1, <3>1, <3>3, <3>4, <3>5 DEF FinishOK, Used, OtherMember, Wants
    <2> QED BY <2>1, <2>2, <2>3 DEF GameInv, GameOK, FlagsOK
  <1>6. OneSeat'
    BY <1>1 DEF MatchInv, OneSeat
  <1> QED BY <1>2, <1>3, <1>4, <1>5, <1>6 DEF MatchInv

LEMMA QuietStep ==
  ASSUME MatchInv, TypeInv', OwnSlot', NEW p \in Pid, ThreadOnly(p),
         thr[p].pc \notin Held \ {"none"}, thr'[p].pc \notin Held \union {"release_requester"},
         \A g \in Gid : Restarting(p, g)' => Restarting(p, g) /\ RestartOK(p, g)',
         thr'[p].cmd = "FIRE" => thr[p].cmd = "FIRE" \/ players[p].state = "IN_GAME",
         HandlerOK(p)', LocalOK(p)', MarkingOK(p)', ShotOK(p)', AnswerOK(p)'
  PROVE  MatchInv'
  <1>1. ~Creating(p) /\ ~Creating(p)' /\ \A g \in Gid : ~Starting(p, g) /\ ~Starting(p, g)'
    BY DEF Creating, Starting, Held
  <1>2. \A g \in Gid : (Starting(p, g)' <=> Starting(p, g)) /\ StartOK(p, g)'
    BY <1>1 DEF StartOK
  <1>3. /\ {thr[p].pc, thr'[p].pc} \cap {"set_invited", "seat_requester", "declare_win", "pass_turn",
                                         "finish_self", "finish_opponent"} = {}
        /\ thr'[p].pc \notin {"none", "release_requester"}
    BY DEF Held
  <1> QED BY <1>1, <1>2, <1>3, ThreadStepMatch

LEMMA ReturnQuiet ==
  ASSUME MatchInv, TypeInv', OwnSlot', NEW p \in Pid, Return(p), UNCHANGED <<players, games>>,
         thr[p].pc \notin Held
  PROVE  MatchInv'
  <1>1. ThreadOnly(p) /\ thr'[p].pc = "receive" /\ thr'[p].cmd = "NONE"
    BY DEF MatchInv, TypeInv, TypeOK, Return, Idle, ThreadOnly
  <1>2. HandlerOK(p)
    BY DEF MatchInv, Threads, ThreadInv
  <1>3. players[p].state # "DISCONNECTED"
    BY <1>2 DEF HandlerOK, SectionsOf, StatesIn, Held
  <1>4. HandlerOK(p)'
    BY <1>1, <1>3, Fields DEF MatchInv, HandlerOK, SectionsOf, StatesIn, ThreadOnly
  <1>5. LocalOK(p)' /\ MarkingOK(p)' /\ ShotOK(p)' /\ AnswerOK(p)' /\ \A g \in Gid : ~Restarting(p, g)'
    BY <1>1 DEF LocalOK, MarkingOK, ShotOK, AnswerOK, Invitations, Restarting
  <1> QED BY <1>1, <1>4, <1>5, QuietStep DEF Held

LEMMA MovesThread ==
  ASSUME TypeInv, NEW p \in Pid, NEW t, thr' = [thr EXCEPT ![p] = t]
  PROVE  thr'[p] = t /\ \A q \in Pid \ {p} : thr'[q] = thr[q]
  BY DEF TypeInv, TypeOK

LEMMA GotoThread ==
  ASSUME TypeInv, NEW p \in Pid, NEW s, Goto(p, s)
  PROVE  /\ thr'[p].pc = s /\ thr'[p].cmd = thr[p].cmd /\ thr'[p].game = thr[p].game
         /\ thr'[p].other = thr[p].other /\ thr'[p].creator = thr[p].creator
         /\ thr'[p].flag = thr[p].flag
         /\ \A q \in Pid \ {p} : thr'[q] = thr[q]
  <1>1. thr[p] \in Thread
    BY Locals
  <1>2. thr' = [thr EXCEPT ![p] = [thr[p] EXCEPT !.pc = s]]
    BY DEF Goto
  <1>3. thr'[p] = [thr[p] EXCEPT !.pc = s] /\ \A q \in Pid \ {p} : thr'[q] = thr[q]
    BY <1>2, MovesThread
  <1> QED BY <1>1, <1>3 DEF Thread

LEMMA Mine ==
  ASSUME MatchInv, NEW p \in Pid
  PROVE  HandlerOK(p) /\ LocalOK(p) /\ CreatorOK(p) /\ AnswerOK(p) /\ MarkingOK(p) /\ ShotOK(p)
         /\ AttachedOK(p) /\ RequestOK(p) /\ FleetOK(p) /\ TypeInv
  BY DEF MatchInv, Threads, ThreadInv, Players, PlayerInv

LEMMA ReceiveMatch ==
  ASSUME MatchInv, NobodyLeaves, TypeInv', OwnSlot', NEW p \in Pid, Receive(p) PROVE MatchInv'
  <1>1. PICK k \in Commands :
          /\ players[p].state \in Allowed(k)
          /\ thr' = [thr EXCEPT ![p] = [thr[p] EXCEPT !.pc = FirstSection(k), !.cmd = k]]
    BY DEF Receive
  <1>2. k \in AllCommands \ {"LEAVE_GAME", "REMATCH_DECLINE", "WAIT_NEW_PLAYER", "QUIT"}
    BY ConstantsAssumption DEF NobodyLeaves
  <1>3. UNCHANGED <<players, games>> /\ thr[p].pc = "receive"
    BY DEF Receive, playerVars, gameVars, At
  <1>4. /\ thr'[p].pc = FirstSection(k) /\ thr'[p].cmd = k
        /\ \A q \in Pid \ {p} : thr'[q] = thr[q]
    <2>1. thr[p] \in Thread
      BY Locals, Mine
    <2>2. thr'[p] = [thr[p] EXCEPT !.pc = FirstSection(k), !.cmd = k]
          /\ \A q \in Pid \ {p} : thr'[q] = thr[q]
      BY <1>1, Mine, MovesThread
    <2> QED BY <2>1, <2>2 DEF Thread
  <1>5. HandlerOK(p)'
    <2>1. players[p].state # "DISCONNECTED" /\ players[p].state \in PlayerStates
      BY <1>3, Mine, Fields DEF HandlerOK, StatesIn, SectionsOf
    <2> QED BY <1>1, <1>2, <1>3, <1>4, <2>1
            DEF HandlerOK, SectionsOf, StatesIn, FirstSection, Allowed, AllCommands
  <1>6. k = "FIRE" => /\ players[p].state = "IN_GAME" /\ GameOf(p) # NoId
                     /\ games[GameOf(p)].state \in {"IN_PROGRESS", "FINISHED"}
    BY <1>1, Mine DEF Allowed, AttachedOK, Phases
  <1>7. /\ LocalOK(p)' /\ MarkingOK(p)' /\ ShotOK(p)' /\ AnswerOK(p)'
        /\ \A g \in Gid : ~Restarting(p, g)'
        /\ thr'[p].pc \notin Held \union {"release_requester"}
    BY <1>2, <1>3, <1>4, <1>6
    DEF LocalOK, MarkingOK, ShotOK, AnswerOK, Restarting, GameOf, FirstSection, AllCommands,
        Invitations, Held, Shooting
  <1> QED BY <1>3, <1>4, <1>5, <1>6, <1>7, QuietStep DEF ThreadOnly, Held

LEMMA ReadGameIdMatch ==
  ASSUME MatchInv, TypeInv', OwnSlot', NEW p \in Pid, ReadGameId(p) PROVE MatchInv'
  <1>1. UNCHANGED <<players, games>> /\ thr[p].pc = "read_game_id"
    BY DEF ReadGameId, playerVars, gameVars, At
  <1>2. /\ thr'[p].pc = "get_game" /\ thr'[p].cmd = thr[p].cmd /\ thr'[p].game = GameOf(p)
        /\ thr'[p].other = thr[p].other
        /\ \A q \in Pid \ {p} : thr'[q] = thr[q]
    <2>1. thr[p] \in Thread
      BY Locals, Mine
    <2>2. thr'[p] = [thr[p] EXCEPT !.pc = "get_game", !.game = GameOf(p)]
          /\ \A q \in Pid \ {p} : thr'[q] = thr[q]
      BY Mine, MovesThread DEF ReadGameId, GameOf
    <2> QED BY <2>1, <2>2 DEF Thread
  <1>3. thr[p].cmd \in {"ACCEPT_INVITE", "REJECT_INVITE", "FIRE", "REMATCH"}
    BY <1>1, Mine DEF HandlerOK, SectionsOf
  <1>4. HandlerOK(p)'
    BY <1>1, <1>2, <1>3, Mine DEF HandlerOK, SectionsOf, StatesIn
  <1>5. AnswerOK(p)'
    <2>1. thr[p].cmd \in Invitations => thr[p].other \in Pid /\ thr[thr[p].other].pc # "none"
      BY <1>1, Mine, NamedThreads DEF AnswerOK
    <2> QED BY <1>1, <1>2, <2>1 DEF AnswerOK
  <1>6. LocalOK(p)' /\ MarkingOK(p)' /\ ShotOK(p)' /\ \A g \in Gid : ~Restarting(p, g)'
    BY <1>1, <1>2, <1>3, Mine DEF LocalOK, MarkingOK, ShotOK, Restarting, GameOf, Shooting
  <1> QED BY <1>1, <1>2, <1>3, <1>4, <1>5, <1>6, QuietStep DEF ThreadOnly, Held

LEMMA GetGameMatch ==
  ASSUME MatchInv, TypeInv', OwnSlot', NEW p \in Pid, GetGame(p) PROVE MatchInv'
  <1>1. UNCHANGED <<players, games>> /\ thr[p].pc = "get_game"
    BY DEF GetGame, playerVars, gameVars, At
  <1>2. thr[p].cmd \in {"ACCEPT_INVITE", "REJECT_INVITE", "FIRE", "REMATCH", "READY"}
    BY <1>1, Mine DEF HandlerOK, SectionsOf
  <1>3. CASE Return(p)
    BY <1>1, <1>3, ReturnQuiet DEF Held
  <1>4. thr[p].cmd = "REMATCH" => thr[p].game # NoId /\ games[thr[p].game].id = thr[p].game
    <2>1. thr[p].cmd = "REMATCH" => players[p].state \in {"FINISHED", "PLACING_SHIPS"}
      BY <1>1, Mine DEF HandlerOK, StatesIn, SectionsOf
    <2>2. thr[p].cmd = "REMATCH" => GameOf(p) # NoId /\ thr[p].game = GameOf(p)
      BY <1>1, <2>1, Mine DEF AttachedOK, LocalOK
    <2> QED BY <2>2, GameOfPlayer
  <1>5. CASE ~Return(p)
    <2> DEFINE s == CASE thr[p].cmd = "ACCEPT_INVITE" -> "check_invite"
                      [] thr[p].cmd = "REJECT_INVITE" -> "clear_invite"
                      [] thr[p].cmd = "READY"         -> "mark_ready"
                      [] thr[p].cmd = "FIRE"          -> "check_turn"
                      [] thr[p].cmd = "REMATCH"       -> "ask_rematch"
    <2>1. Goto(p, s) /\ thr[p].game # NoId
      BY <1>2, <1>4, <1>5 DEF GetGame
    <2>2. /\ thr'[p].pc = s /\ thr'[p].cmd = thr[p].cmd /\ thr'[p].game = thr[p].game
          /\ thr'[p].other = thr[p].other
          /\ \A q \in Pid \ {p} : thr'[q] = thr[q]
      BY <2>1, Mine, GotoThread
    <2>3. s \in {"check_invite", "clear_invite", "mark_ready", "check_turn", "ask_rematch"}
      BY <1>2
    <2>4. HandlerOK(p)'
      BY <1>1, <1>2, <2>2, Mine DEF HandlerOK, SectionsOf, StatesIn
    <2>5. LocalOK(p)' /\ MarkingOK(p)'
      BY <1>1, <1>2, <2>1, <2>2, Mine DEF LocalOK, GameOf, MarkingOK, OwnReady
    <2>6. ShotOK(p)'
      BY <1>1, <1>2, <2>2, Mine DEF ShotOK, GameOf, Shooting
    <2>7. AnswerOK(p)'
      <3>1. thr[p].cmd \in Invitations => thr[p].other \in Pid /\ thr[thr[p].other].pc # "none"
        BY <1>1, Mine, NamedThreads DEF AnswerOK
      <3> QED BY <1>1, <2>2, <2>3, <3>1 DEF AnswerOK
    <2> HIDE DEF s
    <2> QED BY <1>1, <2>2, <2>3, <2>4, <2>5, <2>6, <2>7, QuietStep DEF ThreadOnly, Held, Restarting
  <1> QED BY <1>3, <1>5

LEMMA LookupMatch ==
  ASSUME MatchInv, TypeInv', OwnSlot', NEW p \in Pid, FindCode(p) \/ Resolve(p) PROVE MatchInv'
  <1>1. UNCHANGED <<players, games>> /\ thr[p].pc \in {"find_code", "resolve"}
    BY DEF FindCode, Resolve, playerVars, gameVars, At
  <1>2. CASE Return(p)
    BY <1>1, <1>2, ReturnQuiet DEF Held
  <1>3. ASSUME NEW g \in Gid, thr[p].pc = "find_code",
               thr' = [thr EXCEPT ![p] = [thr[p] EXCEPT !.pc = "file_request", !.game = g]]
        PROVE  MatchInv'
    <2>1. /\ thr'[p].pc = "file_request" /\ thr'[p].cmd = thr[p].cmd
          /\ \A q \in Pid \ {p} : thr'[q] = thr[q]
      <3>1. thr[p] \in Thread
        BY Locals, Mine
      <3>2. thr'[p] = [thr[p] EXCEPT !.pc = "file_request", !.game = g]
            /\ \A q \in Pid \ {p} : thr'[q] = thr[q]
        BY <1>3, Mine, MovesThread
      <3> QED BY <3>1, <3>2 DEF Thread
    <2>2. thr[p].cmd = "JOIN_GAME"
      BY <1>3, Mine DEF HandlerOK, SectionsOf
    <2>3. HandlerOK(p)'
      BY <1>1, <1>3, <2>1, <2>2, Mine DEF HandlerOK, SectionsOf, StatesIn
    <2> QED BY <1>1, <2>1, <2>2, <2>3, QuietStep
            DEF ThreadOnly, Held, Restarting, LocalOK, MarkingOK, ShotOK, AnswerOK, Invitations
  <1>4. ASSUME NEW r \in Pid, thr[p].pc = "resolve", players[r].id # NoId,
               thr' = [thr EXCEPT ![p] = [thr[p] EXCEPT !.pc = "read_game_id", !.other = r]]
        PROVE  MatchInv'
    <2>1. /\ thr'[p].pc = "read_game_id" /\ thr'[p].cmd = thr[p].cmd /\ thr'[p].other = r
          /\ \A q \in Pid \ {p} : thr'[q] = thr[q]
      <3>1. thr[p] \in Thread
        BY Locals, Mine
      <3>2. thr'[p] = [thr[p] EXCEPT !.pc = "read_game_id", !.other = r]
            /\ \A q \in Pid \ {p} : thr'[q] = thr[q]
        BY <1>4, Mine, MovesThread
      <3> QED BY <3>1, <3>2 DEF Thread
    <2>2. thr[p].cmd \in Invitations
      BY <1>4, Mine DEF HandlerOK, SectionsOf, Invitations
    <2>3. HandlerOK(p)'
      BY <1>1, <1>4, <2>1, <2>2, Mine DEF HandlerOK, SectionsOf, StatesIn, Invitations
    <2>4. AnswerOK(p)'
      <3>1. thr'[r].pc # "none"
        BY <1>4, <2>1 DEF MatchInv, OwnSlot
      <3> QED BY <2>1, <3>1 DEF AnswerOK
    <2> QED BY <1>1, <2>1, <2>2, <2>3, <2>4, QuietStep
            DEF ThreadOnly, Held, Restarting, LocalOK, MarkingOK, ShotOK, Invitations
  <1> QED BY <1>2, <1>3, <1>4 DEF FindCode, Resolve, At

LEMMA CheckInviteMatch ==
  ASSUME MatchInv, TypeInv', OwnSlot', NEW p \in Pid, CheckInvite(p) PROVE MatchInv'
  <1>1. UNCHANGED <<players, games>> /\ thr[p].pc = "check_invite"
    BY DEF CheckInvite, playerVars, gameVars, At
  <1>2. CASE Return(p)
    BY <1>1, <1>2, ReturnQuiet DEF Held
  <1>3. CASE ~Return(p)
    <2> DEFINE g == thr[p].game
               r == thr[p].other
    <2>1. /\ games[g].state = "WAITING_PLAYERS" /\ games[g].creator_id = p
          /\ games[g].pending_invite_from = players[r].id
          /\ Goto(p, "assign_opponent")
      BY <1>3 DEF CheckInvite
    <2>2. /\ thr'[p].pc = "assign_opponent" /\ thr'[p].cmd = thr[p].cmd
          /\ thr'[p].game = g /\ thr'[p].other = r
          /\ \A q \in Pid \ {p} : thr'[q] = thr[q]
      BY <2>1, Mine, GotoThread
    <2>3. thr[p].cmd = "ACCEPT_INVITE"
      BY <1>1, Mine DEF HandlerOK, SectionsOf
    <2>4. HandlerOK(p)' /\ LocalOK(p)'
      BY <1>1, <2>2, <2>3, Mine DEF HandlerOK, SectionsOf, StatesIn, LocalOK, GameOf
    <2>5. r \in Pid /\ thr[r].pc # "none"
      BY <1>1, <2>3, Mine, NamedThreads DEF AnswerOK, Invitations
    <2>6. players[r].id = r
      BY <2>5 DEF MatchInv, OwnSlot
    <2>7. AnswerOK(p)'
      BY <1>1, <2>1, <2>2, <2>5, <2>6 DEF AnswerOK
    <2> QED BY <1>1, <2>2, <2>3, <2>4, <2>7, QuietStep
            DEF ThreadOnly, Held, Restarting, MarkingOK, ShotOK
  <1> QED BY <1>2, <1>3

LEMMA CheckTurnMatch ==
  ASSUME MatchInv, TypeInv', OwnSlot', NEW p \in Pid, CheckTurn(p) PROVE MatchInv'
  <1>1. UNCHANGED <<players, games>> /\ thr[p].pc = "check_turn"
    BY DEF CheckTurn, playerVars, gameVars, At
  <1>2. CASE Return(p)
    BY <1>1, <1>2, ReturnQuiet DEF Held
  <1>3. CASE ~Return(p)
    <2> DEFINE g == thr[p].game
               o == OtherMember(g, p)
    <2>1. /\ games[g].state = "IN_PROGRESS" /\ games[g].current_turn = p
          /\ thr' = [thr EXCEPT ![p] = [thr[p] EXCEPT !.pc = "get_player", !.other = o]]
      BY <1>3 DEF CheckTurn, MayFire
    <2>2. /\ thr'[p].pc = "get_player" /\ thr'[p].cmd = thr[p].cmd
          /\ thr'[p].game = g /\ thr'[p].other = o
          /\ \A q \in Pid \ {p} : thr'[q] = thr[q]
      <3>1. thr[p] \in Thread
        BY Locals, Mine
      <3>2. thr'[p] = [thr[p] EXCEPT !.pc = "get_player", !.other = o]
            /\ \A q \in Pid \ {p} : thr'[q] = thr[q]
        BY <2>1, Mine, MovesThread
      <3> QED BY <3>1, <3>2 DEF Thread
    <2>3. thr[p].cmd = "FIRE" /\ g = GameOf(p)
      BY <1>1, Mine DEF HandlerOK, SectionsOf, LocalOK
    <2>4. HandlerOK(p)' /\ LocalOK(p)'
      BY <1>1, <2>2, <2>3, Mine DEF HandlerOK, SectionsOf, StatesIn, LocalOK, GameOf
    <2>5. players[p].state = "IN_GAME"
      <3>1. players[p].state \in {"IN_GAME", "FINISHED"}
        BY <1>1, <2>3, Mine DEF HandlerOK, StatesIn
      <3> QED BY <2>1, <2>3, <3>1, Mine DEF AttachedOK, Phases
    <2>6. ShotOK(p)'
      BY <1>1, <2>1, <2>2, <2>3, <2>5 DEF ShotOK, OtherMember, GameOf
    <2> QED BY <1>1, <2>2, <2>3, <2>4, <2>6, QuietStep
            DEF ThreadOnly, Held, Restarting, MarkingOK, AnswerOK, Invitations
  <1> QED BY <1>2, <1>3

(* a member of a game is connected *)
LEMMA MemberRuns ==
  ASSUME MatchInv, NEW g \in Gid, NEW i \in Pid, i \in Members(g) PROVE thr[i].pc # "none"
  <1> SUFFICES ASSUME thr[i].pc = "none" PROVE FALSE
    OBVIOUS
  <1>1. players[i].state = "DISCONNECTED"
    BY Mine DEF HandlerOK, SectionsOf, StatesIn
  <1>2. GameOf(i) = NoId
    BY <1>1, Mine DEF AttachedOK, Phases
  <1>3. ~Creating(i) /\ ~Waiting(i)
    BY <1>1 DEF Creating, Waiting
  <1> QED BY <1>2, <1>3, NoSeat DEF Unseated

LEMMA GetPlayerMatch ==
  ASSUME MatchInv, TypeInv', OwnSlot', NEW p \in Pid, GetPlayer(p) PROVE MatchInv'
  <1>1. UNCHANGED <<players, games>> /\ thr[p].pc = "get_player"
    BY DEF GetPlayer, playerVars, gameVars, At
  <1>2. CASE Return(p)
    BY <1>1, <1>2, ReturnQuiet DEF Held
  <1>3. CASE thr[p].cmd = "FIRE" /\ Goto(p, "order_first")
    <2>1. /\ thr'[p].pc = "order_first" /\ thr'[p].cmd = thr[p].cmd
          /\ thr'[p].game = thr[p].game /\ thr'[p].other = thr[p].other
          /\ \A q \in Pid \ {p} : thr'[q] = thr[q]
      BY <1>3, Mine, GotoThread
    <2>2. HandlerOK(p)' /\ LocalOK(p)'
      BY <1>1, <1>3, <2>1, Mine DEF HandlerOK, SectionsOf, StatesIn, LocalOK, GameOf
    <2>3. ShotOK(p)'
      BY <1>1, <1>3, <2>1, Mine DEF ShotOK, OtherMember, GameOf, Shooting
    <2> QED BY <1>1, <1>3, <2>1, <2>2, <2>3, QuietStep
            DEF ThreadOnly, Held, Restarting, MarkingOK, AnswerOK, Invitations
  <1>4. CASE thr[p].cmd = "REMATCH" /\ ~Return(p)
    <2> DEFINE g == GameOf(p)
               o == thr[p].other
    <2>1. players[p].state \in {"FINISHED", "PLACING_SHIPS"} /\ thr[p].game = g
          /\ o = OtherMember(thr[p].game, p)
      BY <1>1, <1>4, Mine DEF HandlerOK, StatesIn, LocalOK, ShotOK
    <2>2. g # NoId /\ games[g].state \in {"FINISHED", "PLACING_SHIPS"}
      BY <2>1, Mine DEF AttachedOK, Phases
    <2>3. g \in Gid /\ games[g].id = g /\ p \in Members(g)
      BY <2>2, GameOfPlayer
    <2>4. o \in Pid /\ o \in Members(g)
      <3>1. games[g] # FreeGame /\ games[g].state # "WAITING_PLAYERS"
        BY <2>2, <2>3 DEF FreeGame
      <3> QED BY <2>1, <2>3, <3>1, TwoSeats
    <2>5. players[o].id = o
      BY <2>3, <2>4, MemberRuns DEF MatchInv, OwnSlot
    <2>6. thr[p].flag /\ Goto(p, "restart_self")
      BY <1>4, <2>4, <2>5, NoIdNowhere DEF GetPlayer, Connected
    <2>7. /\ thr'[p].pc = "restart_self" /\ thr'[p].cmd = thr[p].cmd
          /\ thr'[p].game = thr[p].game /\ thr'[p].other = o
          /\ \A q \in Pid \ {p} : thr'[q] = thr[q]
      BY <2>6, Mine, GotoThread
    <2>8. HandlerOK(p)' /\ LocalOK(p)'
      BY <1>1, <1>4, <2>7, Mine DEF HandlerOK, SectionsOf, StatesIn, LocalOK, GameOf
    <2>9. ShotOK(p)'
      BY <1>1, <1>4, <2>7, Mine DEF ShotOK, OtherMember, GameOf
    <2>10. ASSUME NEW h \in Gid, Restarting(p, h)'
           PROVE  Restarting(p, h) /\ RestartOK(p, h)'
      <3>1. Restarting(p, h)
        BY <1>1, <1>4, <2>6, <2>10 DEF Restarting, GameOf
      <3>2. RestartOK(p, h)
        BY DEF MatchInv, Pairs, PairInv
      <3> QED BY <1>1, <2>7, <3>1, <3>2 DEF RestartOK, Restarting, GameOf
    <2> QED BY <1>1, <1>4, <2>7, <2>8, <2>9, <2>10, QuietStep
            DEF ThreadOnly, Held, MarkingOK, AnswerOK, Invitations
  <1>5. thr[p].cmd \in {"FIRE", "REMATCH"}
    BY <1>1, Mine DEF HandlerOK, SectionsOf
  <1> QED BY <1>2, <1>3, <1>4, <1>5 DEF GetPlayer

LEMMA CopyCodeMatch ==
  ASSUME MatchInv, TypeInv', OwnSlot', NEW p \in Pid, CopyCode(p) PROVE MatchInv'
  <1> DEFINE g == thr[p].game
  <1>1. UNCHANGED <<players, games>> /\ thr[p].pc = "copy_code"
    BY DEF CopyCode, playerVars, gameVars, At
  <1>2. g \in Gid /\ games[g].creator_id = p
    BY <1>1, Mine DEF CreatorOK, Creating
  <1>3. games[g].id = g
    <2>1. games[g] # FreeGame
      BY <1>2, NoIdNowhere DEF FreeGame
    <2> QED BY <1>2, <2>1 DEF MatchInv, Games, GameInv, GameOK
  <1>4. /\ thr'[p].pc = "attach" /\ thr'[p].cmd = thr[p].cmd /\ thr'[p].game = g
        /\ \A q \in Pid \ {p} : thr'[q] = thr[q]
    <2>1. thr[p] \in Thread
      BY Locals, Mine
    <2>2. thr'[p] = [thr[p] EXCEPT !.pc = "attach", !.game = g]
          /\ \A q \in Pid \ {p} : thr'[q] = thr[q]
      BY <1>3, Mine, MovesThread DEF CopyCode
    <2> QED BY <2>1, <2>2 DEF Thread
  <1>5. thr[p].cmd = "CREATE_GAME"
    BY <1>1, Mine DEF HandlerOK, SectionsOf
  <1>6. HandlerOK(p)'
    BY <1>1, <1>4, <1>5, Mine DEF HandlerOK, SectionsOf, StatesIn
  <1>7. LocalOK(p)' /\ MarkingOK(p)' /\ ShotOK(p)' /\ AnswerOK(p)'
    BY <1>4, <1>5 DEF LocalOK, MarkingOK, ShotOK, AnswerOK, Invitations
  <1> HIDE DEF g
  <1>8. \A h \in Gid : /\ ~Restarting(p, h)' /\ ~Starting(p, h) /\ ~Starting(p, h)'
                       /\ StartOK(p, h)'
    BY <1>1, <1>4, <1>5 DEF Restarting, Starting, StartOK
  <1>9. Creating(p) /\ Creating(p)' /\ thr'[p].game = thr[p].game
    BY <1>1, <1>4 DEF Creating, g
  <1> QED BY <1>1, <1>4, <1>5, <1>6, <1>7, <1>8, <1>9, ThreadStepMatch DEF ThreadOnly

(* the thread that starts a match, and the match *)
LEMMA StartFacts ==
  ASSUME MatchInv, NEW p \in Pid,
         thr[p].pc \in {"get_creator", "get_opponent", "start_creator", "start_opponent"}
  PROVE  LET g == GameOf(p)
             c == games[g].creator_id
             o == games[g].opponent_id
         IN /\ thr[p].cmd = "READY" /\ g \in Gid /\ p \in {c, o}
            /\ Starting(p, g) /\ StartOK(p, g)
            /\ c \in Pid /\ o \in Pid /\ c # o /\ GameOf(c) = g /\ GameOf(o) = g
            /\ Members(g) = {c, o} /\ games[g] # FreeGame /\ Connected(c) /\ Connected(o)
            /\ thr[p].creator = c /\ thr[p].other = o
            /\ games[g].state = "IN_PROGRESS"
  <1> DEFINE g == GameOf(p)
             c == games[g].creator_id
             o == games[g].opponent_id
  <1>1. thr[p].cmd = "READY" /\ players[p].state \in {"READY", "IN_GAME"}
    BY Mine DEF HandlerOK, SectionsOf, StatesIn
  <1>2. g # NoId
    BY <1>1, Mine DEF AttachedOK
  <1>3. g \in Gid /\ p \in Members(g)
    BY <1>2, GameOfPlayer
  <1>4. Starting(p, g) /\ StartOK(p, g)
    BY <1>3 DEF Starting, MatchInv, Pairs, PairInv
  <1>5. games[g].state = "IN_PROGRESS" /\ games[g] # FreeGame
        /\ thr[p].creator = c /\ thr[p].other = o
    BY <1>4 DEF StartOK, FreeGame
  <1>6. c \in Pid /\ o \in Pid /\ c # o /\ Members(g) = {c, o}
    BY <1>3, <1>5, TwoSeats DEF Members
  <1>7. GameOf(c) = g /\ GameOf(o) = g
    BY <1>3, <1>5, <1>6, BothAttached
  <1>8. Connected(c) /\ Connected(o)
    BY <1>3, <1>6, MemberRuns, NoIdNowhere DEF MatchInv, OwnSlot, Connected
  <1> QED BY <1>1, <1>3, <1>4, <1>5, <1>6, <1>7, <1>8

LEMMA GetMembersMatch ==
  ASSUME MatchInv, TypeInv', OwnSlot', NEW p \in Pid, GetCreator(p) \/ GetOpponent(p) PROVE MatchInv'
  <1> DEFINE g == GameOf(p)
             s == IF thr[p].pc = "get_creator" THEN "get_opponent" ELSE "start_creator"
  <1>1. UNCHANGED <<players, games>> /\ thr[p].pc \in {"get_creator", "get_opponent"}
    BY DEF GetCreator, GetOpponent, playerVars, gameVars, At
  <1>2. /\ thr[p].cmd = "READY" /\ g \in Gid /\ Starting(p, g) /\ StartOK(p, g)
        /\ Connected(thr[p].creator) /\ Connected(thr[p].other)
    BY <1>1, StartFacts
  <1>3. /\ thr'[p].pc = s /\ thr'[p].cmd = thr[p].cmd /\ thr'[p].game = thr[p].game
        /\ thr'[p].creator = thr[p].creator /\ thr'[p].other = thr[p].other
        /\ \A q \in Pid \ {p} : thr'[q] = thr[q]
    <2>1. thr[p] \in Thread
      BY Locals, Mine
    <2>2. CASE GetCreator(p)
      <3>1. thr' = [thr EXCEPT ![p] = [thr[p] EXCEPT !.pc = "get_opponent", !.creator = thr[p].creator]]
        BY <1>2, <2>2 DEF GetCreator
      <3>2. thr'[p] = [thr[p] EXCEPT !.pc = "get_opponent", !.creator = thr[p].creator]
            /\ \A q \in Pid \ {p} : thr'[q] = thr[q]
        BY <3>1, Mine, MovesThread
      <3>3. thr[p].pc = "get_creator"
        BY <2>2 DEF GetCreator, At
      <3>4. thr[p].creator \in Pid \union {NoId}
        BY Locals, Mine
      <3> QED BY <2>1, <3>2, <3>3, <3>4 DEF Thread
    <2>3. CASE GetOpponent(p)
      <3>1. Goto(p, "start_creator")
        BY <1>2, <2>3 DEF GetOpponent, Connected
      <3> QED BY <2>3, <3>1, Mine, GotoThread DEF GetOpponent, At
    <2> QED BY <2>2, <2>3
  <1>4. s \in {"get_opponent", "start_creator"}
    OBVIOUS
  <1> HIDE DEF s
  <1>5. HandlerOK(p)' /\ LocalOK(p)'
    BY <1>1, <1>2, <1>3, <1>4, Mine DEF HandlerOK, SectionsOf, StatesIn, LocalOK, GameOf
  <1>6. /\ MarkingOK(p)' /\ ShotOK(p)' /\ AnswerOK(p)' /\ ~Creating(p) /\ ~Creating(p)'
        /\ \A h \in Gid : ~Restarting(p, h)'
    BY <1>1, <1>2, <1>3, <1>4 DEF MarkingOK, ShotOK, AnswerOK, Invitations, Creating, Restarting
  <1>7. ASSUME NEW h \in Gid
        PROVE  (Starting(p, h)' <=> Starting(p, h)) /\ StartOK(p, h)'
    <2>1. /\ Starting(p, h)' <=> h = g
          /\ Starting(p, h) <=> h = g
      BY <1>1, <1>3, <1>4 DEF Starting, GameOf
    <2>2. \A q \in Pid : Starting(q, h)' => Starting(q, h)
      BY <1>1, <1>3, <1>4 DEF Starting, GameOf
    <2>3. ASSUME h = g PROVE StartOK(p, h)'
      <3>1. thr'[p].pc # "start_opponent" /\ thr[p].pc # "start_opponent"
        BY <1>1, <1>3, <1>4
      <3>2. StartOK(p, h) /\ Starting(p, h) /\ UNCHANGED <<players, games>>
        BY <1>1, <1>2, <2>3
      <3> QED BY <1>3, <2>2, <3>1, <3>2 DEF StartOK
    <2> QED BY <2>1, <2>3 DEF StartOK
  <1> QED BY <1>1, <1>2, <1>3, <1>4, <1>5, <1>6, <1>7, ThreadStepMatch DEF ThreadOnly

-----------------------------------------------------------------------------
(* Steps that write to one game, or to the players of one game             *)

(* the game a handler works on is the one its client has a seat in *)
LEMMA OwnGame ==
  ASSUME MatchInv, NEW q \in Pid
  PROVE  /\ \/ thr[q].cmd \in {"FIRE", "READY"} /\ thr[q].pc # "set_ready"
            \/ thr[q].pc \in {"assign_opponent", "seat_requester", "seat_creator"}
            => GameOf(q) \in Gid /\ q \in Members(GameOf(q))
         /\ thr[q].pc \in {"assign_opponent", "seat_requester", "seat_creator", "finish_self",
                           "finish_opponent"}
            => thr[q].game = GameOf(q) /\ GameOf(q) \in Gid /\ q \in Members(GameOf(q))
         /\ thr[q].cmd \in {"FIRE", "REMATCH"}
               /\ thr[q].pc \notin {"read_game_id", "get_game", "check_turn", "ask_rematch"}
            => /\ thr[q].game = GameOf(q) /\ GameOf(q) \in Gid /\ q \in Members(GameOf(q))
               /\ thr[q].other = OtherMember(GameOf(q), q)
         /\ Creating(q) => thr[q].game \in Gid /\ q \in Members(thr[q].game) /\ GameOf(q) = NoId
  <1>1. (thr[q].cmd \in {"FIRE", "REMATCH", "READY"} /\ thr[q].pc # "set_ready")
        \/ thr[q].pc \in {"assign_opponent", "seat_requester", "seat_creator"}
        => players[q].state \in {"IN_GAME", "FINISHED", "READY", "PLACING_SHIPS", "WAITING_OPPONENT"}
    BY Mine DEF HandlerOK, SectionsOf, StatesIn
  <1>2. (thr[q].cmd \in {"FIRE", "REMATCH", "READY"} /\ thr[q].pc # "set_ready")
        \/ thr[q].pc \in {"assign_opponent", "seat_requester", "seat_creator"}
        => GameOf(q) \in Gid /\ q \in Members(GameOf(q))
    <2>1. players[q].state \in {"IN_GAME", "FINISHED", "READY", "PLACING_SHIPS", "WAITING_OPPONENT"}
          => GameOf(q) # NoId
      BY Mine DEF AttachedOK
    <2> QED BY <1>1, <2>1, GameOfPlayer
  <1>3. /\ thr[q].pc \in {"finish_self", "finish_opponent"} => thr[q].cmd = "FIRE"
        /\ thr[q].pc \in {"assign_opponent", "seat_requester", "seat_creator"}
             => thr[q].cmd = "ACCEPT_INVITE"
        /\ thr[q].cmd \in {"FIRE", "REMATCH"} => thr[q].pc \notin {"set_ready", "resolve"}
        /\ Creating(q) => players[q].state = "LOBBY"
    BY Mine DEF HandlerOK, SectionsOf, StatesIn, Creating
  <1>4. Creating(q) => thr[q].game \in Gid /\ q \in Members(thr[q].game) /\ GameOf(q) = NoId
    BY <1>3, Mine DEF CreatorOK, Members, AttachedOK, Phases
  <1>5. thr[q].cmd \in {"FIRE", "REMATCH"}
               /\ thr[q].pc \notin {"read_game_id", "get_game", "check_turn", "ask_rematch"}
        => thr[q].game = GameOf(q) /\ thr[q].other = OtherMember(GameOf(q), q)
    BY <1>3, Mine DEF LocalOK, ShotOK
  <1>6. thr[q].pc \in {"assign_opponent", "seat_requester", "seat_creator", "finish_self",
                           "finish_opponent"} => thr[q].game = GameOf(q)
    BY <1>3, Mine DEF LocalOK
  <1> QED BY <1>2, <1>3, <1>4, <1>5, <1>6

LEMMA NoSeatElsewhere ==
  ASSUME MatchInv, NEW q \in Pid, NEW g \in Gid, q \in Members(g)
  PROVE  /\ \A h \in Gid \ {g} : q \notin Members(h)
         /\ GameOf(q) \in {g, NoId}
  <1>1. \A h \in Gid \ {g} : q \notin Members(h)
    BY DEF MatchInv, OneSeat
  <1>2. GameOf(q) # NoId => GameOf(q) \in Gid /\ q \in Members(GameOf(q))
    BY GameOfPlayer
  <1> QED BY <1>1, <1>2

(* Slots p and x change, and so may game g: nothing changes for a game     *)
(* neither has a seat in.                                                  *)
LEMMA Elsewhere ==
  ASSUME MatchInv, NEW p \in Pid, NEW x \in Pid, NEW h \in Gid, games'[h] = games[h],
         \A q \in Pid \ {p, x} : thr'[q] = thr[q] /\ players'[q] = players[q],
         p \notin Members(h), x \notin Members(h),
         GameOf(p)' # h, GameOf(x)' # h
  PROVE  GameInv(h)' /\ \A q \in Pid : PairInv(q, h)'
  <1>1. Members(h)' = Members(h) /\ \A i : OtherMember(h, i)' = OtherMember(h, i)
    BY DEF Members, OtherMember
  <1>2. GameOf(p) # h /\ GameOf(x) # h
    BY GameOfPlayer, NoIdNowhere
  <1>3. \A q \in Pid : q \in Members(h) => thr'[q] = thr[q] /\ players'[q] = players[q]
    OBVIOUS
  <1>4. \A q \in Pid : /\ GameOf(q)' = h <=> GameOf(q) = h
                       /\ GameOf(q) = h => thr'[q] = thr[q] /\ players'[q] = players[q]
    BY <1>2 DEF GameOf
  <1>5. \A q \in Pid : /\ Starting(q, h)' <=> Starting(q, h)
                       /\ Restarting(q, h)' <=> Restarting(q, h)
    BY <1>4 DEF Starting, Restarting
  <1>6. GameInv(h) /\ \A q \in Pid : PairInv(q, h)
    BY DEF MatchInv, Games, Pairs
  <1>7. /\ games[h].state = "PLACING_SHIPS" \/ games[h].state = "IN_PROGRESS"
             => games[h].creator_id \in Pid /\ games[h].opponent_id \in Pid
        /\ Members(h) \cap Pid # {} => games[h].creator_id \in Pid
        /\ games[h].state = "FINISHED" /\ Used(h) =>
             \A i \in Members(h) : i \in Pid /\ OtherMember(h, i) \in Pid /\ OtherMember(h, i) \in Members(h)
    BY NamedThreads DEF Paired, OtherMember, Members
  <1>8. FlagsOK(h)'
    BY <1>3, <1>6, <1>7 DEF GameInv, FlagsOK, Members
  <1>9. FightOK(h)'
    <2> SUFFICES ASSUME games[h].state = "IN_PROGRESS" PROVE FightOK(h)'
      BY DEF FightOK
    <2>1. /\ FightOK(h) /\ \A i \in Members(h) : i \in Pid /\ thr'[i] = thr[i] /\ players'[i] = players[i]
      BY <1>3, <1>6, <1>7 DEF GameInv, Members
    <2> QED BY <1>1, <1>5, <2>1 DEF FightOK
  <1>10. FinishOK(h)'
    <2> SUFFICES ASSUME games[h].state = "FINISHED", Used(h) PROVE FinishOK(h)'
      BY DEF FinishOK, Used
    <2>1. /\ FinishOK(h)
          /\ \A i \in Members(h) : /\ thr'[i] = thr[i] /\ players'[i] = players[i]
                                   /\ OtherMember(h, i) \in Members(h)
      BY <1>3, <1>6, <1>7 DEF GameInv
    <2> QED BY <1>1, <2>1 DEF FinishOK, Wants, Used
  <1>11. ASSUME NEW q \in Pid PROVE SeatOK(q, h)'
    BY <1>1, <1>3, <1>6, <1>7 DEF PairInv, SeatOK, GameOf, Creating, Admitting, Members
  <1>12. ASSUME NEW q \in Pid PROVE StartOK(q, h)'
    <2> SUFFICES ASSUME Starting(q, h) PROVE StartOK(q, h)'
      BY <1>5 DEF StartOK
    <2> DEFINE c == games[h].creator_id
               o == games[h].opponent_id
    <2>1. StartOK(q, h) /\ thr'[q] = thr[q]
      BY <1>4, <1>6 DEF PairInv, Starting
    <2>2. c \in Pid /\ o \in Pid
      BY <1>7, <2>1 DEF StartOK
    <2>3. thr'[c] = thr[c] /\ players'[c] = players[c] /\ thr'[o] = thr[o] /\ players'[o] = players[o]
      BY <1>3, <2>2 DEF Members
    <2> QED BY <1>5, <2>1, <2>3 DEF StartOK
  <1>13. ASSUME NEW q \in Pid PROVE RestartOK(q, h)'
    <2> SUFFICES ASSUME Restarting(q, h) PROVE RestartOK(q, h)'
      BY <1>5 DEF RestartOK
    <2>1. RestartOK(q, h) /\ thr'[q] = thr[q] /\ players'[q] = players[q] /\ GameOf(q) = h
      BY <1>4, <1>6 DEF PairInv, Restarting
    <2>2. thr[q].cmd = "REMATCH"
      BY <2>1, Mine DEF Restarting, HandlerOK, SectionsOf
    <2>3. thr[q].other = OtherMember(h, q)
      BY <2>1, <2>2, OwnGame DEF Restarting
    <2>4. thr[q].other \in Pid /\ thr[q].other \in Members(h)
      BY <1>7, <2>1, <2>3 DEF RestartOK, OtherMember, Members
    <2>5. players'[thr[q].other] = players[thr[q].other]
      BY <1>3, <2>4
    <2> QED BY <1>5, <2>1, <2>5 DEF RestartOK
  <1> QED BY <1>6, <1>8, <1>9, <1>10, <1>11, <1>12, <1>13 DEF GameInv, GameOK, PairInv

(* What a step of p that changes the game g at most, and the players p and  *)
(* x at most, leaves to show: the invariant of p, of x, of the two players *)
(* of g and of g itself.                                                   *)
Near(q, p, x, g) == q \in {p, x} \/ (g \in Gid /\ q \in Members(g))

LEMMA LocalStep ==
  ASSUME MatchInv, TypeInv', OwnSlot', NEW p \in Pid, NEW x \in Pid, NEW g \in Gid \union {NoId},
         \A h \in Gid \ {g} : games'[h] = games[h],
         \A q \in Pid \ {p} : thr'[q] = thr[q],
         \A q \in Pid \ {p, x} : players'[q] = players[q],
         \A h \in Gid \ {g} : p \notin Members(h) /\ x \notin Members(h),
         GameOf(p)' \in {g, NoId}, GameOf(x)' \in {g, NoId},
         thr'[p].pc # "none",
         \A q \in Pid : Near(q, p, x, g) => ThreadInv(q)' /\ AttachedOK(q)' /\ FleetOK(q)',
         \A r \in Pid : RequestOK(r)',
         g \in Gid => /\ GameInv(g)' /\ \A q \in Pid : PairInv(q, g)'
                      /\ \A q \in Pid : q \in Members(g)' => q \in Members(g) \/ Unseated(q)
  PROVE  MatchInv'
  <1>1. ASSUME NEW h \in Gid PROVE GameInv(h)' /\ \A q \in Pid : PairInv(q, h)'
    <2>1. CASE h = g
      BY <2>1
    <2>2. CASE h # g
      <3>1. GameOf(p)' # h /\ GameOf(x)' # h
        BY <2>2, NoIdNowhere
      <3> QED BY <2>2, <3>1, Elsewhere
    <2> QED BY <2>1, <2>2
  <1>2. OneSeat'
    <2> SUFFICES ASSUME NEW q \in Pid, NEW h \in Gid, NEW k \in Gid,
                        q \in Members(h)', q \in Members(k)'
                 PROVE  h = k
      BY DEF OneSeat
    <2>1. \A n \in Gid \ {g} : q \in Members(n)' => q \in Members(n)
      BY DEF Members
    <2>2. g \in Gid /\ q \in Members(g)' => q \in Members(g) \/ Unseated(q)
      OBVIOUS
    <2> QED BY <2>1, <2>2 DEF Unseated, MatchInv, OneSeat
  <1>3. ASSUME NEW q \in Pid, ~Near(q, p, x, g) PROVE ThreadInv(q)' /\ AttachedOK(q)' /\ FleetOK(q)'
    <2>1. /\ q # p /\ q # x /\ thr'[q] = thr[q] /\ players'[q] = players[q] /\ GameOf(q)' = GameOf(q)
          /\ g \in Gid => q \notin Members(g)
      BY <1>3 DEF Near, GameOf
    <2>2. /\ HandlerOK(q) /\ LocalOK(q) /\ CreatorOK(q) /\ AnswerOK(q) /\ MarkingOK(q) /\ ShotOK(q)
          /\ AttachedOK(q) /\ FleetOK(q)
      BY Mine
    <2>3. ASSUME NEW h \in Gid, q \in Members(h)
          PROVE  games'[h] = games[h] /\ p \notin Members(h) /\ x \notin Members(h)
      BY <2>1, <2>3
    <2>4. HandlerOK(q)' /\ LocalOK(q)'
      BY <2>1, <2>2 DEF HandlerOK, LocalOK
    <2>5. CreatorOK(q)'
      <3>1. Creating(q)' <=> Creating(q)
        BY <2>1 DEF Creating
      <3>2. Creating(q) => thr[q].game \in Gid /\ games'[thr[q].game] = games[thr[q].game]
        BY <2>3, OwnGame
      <3> QED BY <2>1, <2>2, <3>1, <3>2 DEF CreatorOK
    <2>6. AnswerOK(q)'
      <3>1. thr[q].pc \in {"assign_opponent", "seat_requester", "seat_creator"}
            => games'[thr[q].game] = games[thr[q].game]
        BY <2>3, OwnGame
      <3>2. thr[q].cmd \in Invitations /\ thr[q].pc \notin {"resolve", "seat_creator"}
            => thr'[thr[q].other].pc # "none"
        BY <2>2, NamedThreads DEF AnswerOK
      <3> QED BY <2>1, <2>2, <3>1, <3>2 DEF AnswerOK
    <2>7. MarkingOK(q)'
      <3>1. thr[q].cmd = "READY" /\ thr[q].pc \in {"get_game", "mark_ready"}
            => games'[GameOf(q)] = games[GameOf(q)]
        BY <2>3, OwnGame
      <3> QED BY <2>1, <2>2, <3>1 DEF MarkingOK, OwnReady
    <2>8. ShotOK(q)'
      <3>1. /\ thr[q].cmd = "FIRE" => games'[GameOf(q)] = games[GameOf(q)]
            /\ thr[q].pc \in {"finish_self", "finish_opponent"}
                 => games'[thr[q].game] = games[thr[q].game]
            /\ thr[q].cmd \in {"FIRE", "REMATCH"}
               /\ thr[q].pc \notin {"read_game_id", "get_game", "check_turn", "ask_rematch"}
                 => games'[thr[q].game] = games[thr[q].game]
        BY <2>3, OwnGame
      <3>2. ASSUME thr[q].cmd = "FIRE", thr[q].pc \in {"declare_win", "pass_turn"}
            PROVE  players'[thr[q].other] = players[thr[q].other]
        <4>1. /\ thr[q].game \in Gid /\ q \in Members(thr[q].game) /\ games[thr[q].game].state = "IN_PROGRESS"
              /\ thr[q].other = OtherMember(thr[q].game, q)
          BY <2>2, <3>2, OwnGame DEF ShotOK, Shooting
        <4>2. thr[q].other \in Pid /\ thr[q].other \in Members(thr[q].game)
          BY <4>1, NamedThreads DEF Paired, OtherMember, Members
        <4> QED BY <2>3, <4>1, <4>2
      <3> QED BY <2>1, <2>2, <3>1, <3>2 DEF ShotOK, OtherMember, Shooting
    <2>9. AttachedOK(q)' /\ FleetOK(q)'
      <3>1. GameOf(q) # NoId => GameOf(q) \in Gid /\ q \in Members(GameOf(q))
                               /\ games'[GameOf(q)] = games[GameOf(q)]
        BY <2>3, GameOfPlayer
      <3>2. players[q].state = "READY" => GameOf(q) # NoId
        BY <2>2 DEF AttachedOK
      <3> QED BY <2>1, <2>2, <3>1, <3>2 DEF AttachedOK, FleetOK, Members
    <2> QED BY <2>4, <2>5, <2>6, <2>7, <2>8, <2>9 DEF ThreadInv
  <1>4. Threads' /\ Players'
    BY <1>3 DEF Threads, Players, PlayerInv
  <1> QED BY <1>1, <1>2, <1>4 DEF MatchInv, Games, Pairs

(* Seats and pending requests are as before. *)
LEMMA RequestsKept ==
  ASSUME MatchInv, NEW p \in Pid,
         \A h \in Gid : Members(h)' = Members(h)
                        /\ games'[h].pending_invite_from = games[h].pending_invite_from,
         \A q \in Pid \ {p} : thr'[q] = thr[q],
         thr'[p].pc \notin {"seat_requester", "release_requester"},
         NEW r \in Pid,
         Waiting(r)' \/ /\ \A h \in Gid : games[h].pending_invite_from # r
                        /\ \A q \in Pid \ {p} : ~Answering(q, r)
  PROVE  RequestOK(r)'
  <1>1. \A q \in Pid : Answering(q, r)' => Answering(q, r) /\ q # p /\ thr'[q] = thr[q]
    BY DEF Answering
  <1>2. RequestOK(r)
    BY Mine
  <1>3. Unseated(r)' <=> Unseated(r)
    BY DEF Unseated
  <1> QED BY <1>1, <1>2, <1>3 DEF RequestOK

(* The client is in no game and asks for none: a connection, LOGIN. *)
LEMMA OutsiderStep ==
  ASSUME MatchInv, TypeInv', OwnSlot', NEW p \in Pid,
         GameOf(p) = NoId, ~Creating(p), ~Waiting(p), UNCHANGED games,
         \A q \in Pid \ {p} : thr'[q] = thr[q] /\ players'[q] = players[q],
         GameOf(p)' = NoId, thr'[p].pc \in {"receive", "enter_lobby"},
         thr'[p].cmd \in {"NONE", "LOGIN"}, players'[p].state \in {"CONNECTED", "LOBBY"},
         HandlerOK(p)'
  PROVE  MatchInv'
  <1>1. /\ Unseated(p) /\ \A g \in Gid : games[g].pending_invite_from # p
        /\ \A q \in Pid : ~Answering(q, p)
    BY NoSeat
  <1>2. ThreadInv(p)' /\ AttachedOK(p)' /\ FleetOK(p)'
    BY DEF ThreadInv, LocalOK, CreatorOK, Creating, AnswerOK, Invitations, MarkingOK, ShotOK,
           AttachedOK, FleetOK
  <1>3. \A q \in Pid : Near(q, p, p, NoId) => q = p
    BY NoIdNowhere DEF Near
  <1>4. ASSUME NEW r \in Pid PROVE RequestOK(r)'
    <2>1. \A h \in Gid : Members(h)' = Members(h)
                         /\ games'[h].pending_invite_from = games[h].pending_invite_from
      BY DEF Members
    <2>2. CASE r = p
      BY <1>1, <2>1, <2>2, RequestsKept
    <2>3. CASE r # p
      <3>1. Waiting(r) => Waiting(r)'
        BY <2>3 DEF Waiting, GameOf
      <3>2. Waiting(r) \/ /\ \A h \in Gid : games[h].pending_invite_from # r
                          /\ \A q \in Pid \ {p} : ~Answering(q, r)
        BY Mine DEF RequestOK
      <3> QED BY <2>1, <3>1, <3>2, RequestsKept
    <2> QED BY <2>2, <2>3
  <1> QED BY <1>1, <1>2, <1>3, <1>4, NoIdNowhere, LocalStep DEF Unseated

LEMMA MovesPlayer ==
  ASSUME TypeInv, NEW x \in Pid, NEW r, players' = [players EXCEPT ![x] = r]
  PROVE  players'[x] = r /\ \A q \in Pid \ {x} : players'[q] = players[q]
  BY DEF TypeInv, TypeOK

LEMMA MovesGame ==
  ASSUME TypeInv, NEW g \in Gid, NEW r, games' = [games EXCEPT ![g] = r]
  PROVE  games'[g] = r /\ \A h \in Gid \ {g} : games'[h] = games[h]
  BY DEF TypeInv, TypeOK

LEMMA ReturnThread ==
  ASSUME TypeInv, NEW p \in Pid, Return(p)
  PROVE  thr'[p].pc = "receive" /\ thr'[p].cmd = "NONE" /\ \A q \in Pid \ {p} : thr'[q] = thr[q]
  BY DEF TypeInv, TypeOK, Return, Idle

(* a thread that waits for a command satisfies its part of the invariant *)
LEMMA IdleThread ==
  ASSUME TypeInv', NEW p \in Pid, thr'[p].pc = "receive", thr'[p].cmd = "NONE",
         players'[p].state # "DISCONNECTED"
  PROVE  ThreadInv(p)'
  <1>1. players'[p].state \in PlayerStates
    BY DEF TypeInv, TypeOK, Player
  <1> QED BY <1>1 DEF ThreadInv, HandlerOK, SectionsOf, StatesIn, LocalOK, CreatorOK, Creating,
                      AnswerOK, Invitations, MarkingOK, ShotOK

LEMMA ConnectMatch ==
  ASSUME MatchInv, TypeInv', OwnSlot', NEW p \in Pid, Connect(p) PROVE MatchInv'
  <1>1. thr[p].pc = "none"
    BY NoIdNowhere DEF Connect, MatchInv, OwnSlot
  <1>2. players[p].state = "DISCONNECTED"
    BY <1>1, Mine DEF HandlerOK, SectionsOf, StatesIn
  <1>3. GameOf(p) = NoId /\ ~Creating(p) /\ ~Waiting(p)
    BY <1>1, <1>2, Mine DEF AttachedOK, Phases, Creating, Waiting
  <1>4. /\ players'[p] = [FreePlayer EXCEPT !.id = p, !.state = "CONNECTED"]
        /\ \A q \in Pid \ {p} : players'[q] = players[q]
    BY Mine, MovesPlayer DEF Connect
  <1>5. players'[p].state = "CONNECTED" /\ GameOf(p)' = NoId
    BY <1>4 DEF FreePlayer, GameOf
  <1>6. thr'[p].pc = "receive" /\ thr'[p].cmd = "NONE" /\ \A q \in Pid \ {p} : thr'[q] = thr[q]
    <2>1. Return(p)
      BY DEF Connect, Return
    <2> QED BY <2>1, Mine, ReturnThread
  <1>7. HandlerOK(p)'
    BY <1>5, <1>6, IdleThread DEF ThreadInv
  <1> QED BY <1>3, <1>4, <1>5, <1>6, <1>7, OutsiderStep DEF Connect, gameVars

LEMMA LoginMatch ==
  ASSUME MatchInv, TypeInv', OwnSlot', NEW p \in Pid, Login(p) PROVE MatchInv'
  <1>1. thr[p].pc \in {"set_username", "enter_lobby"} /\ UNCHANGED games
    BY DEF Login, SetUsername, EnterLobby, At, gameVars
  <1>2. thr[p].cmd = "LOGIN"
    BY <1>1, Mine DEF HandlerOK, SectionsOf
  <1>3. players[p].state = "CONNECTED"
    BY <1>1, <1>2, Mine DEF HandlerOK, StatesIn
  <1>4. GameOf(p) = NoId /\ ~Creating(p) /\ ~Waiting(p)
    BY <1>1, <1>3, Mine DEF AttachedOK, Phases, Creating, Waiting
  <1>5. players[p] \in Player
    BY Locals, Mine
  <1>6. CASE SetUsername(p) /\ Return(p) /\ UNCHANGED players
    BY <1>1, <1>6, ReturnQuiet DEF Held, SetUsername, At
  <1>7. CASE SetUsername(p) /\ ~(Return(p) /\ UNCHANGED players)
    <2>1. PICK n \in Names : /\ players' = [players EXCEPT ![p] = [players[p] EXCEPT !.username = n]]
                             /\ Goto(p, "enter_lobby")
      BY <1>7 DEF SetUsername
    <2>2. /\ players'[p] = [players[p] EXCEPT !.username = n]
          /\ \A q \in Pid \ {p} : players'[q] = players[q]
      BY <2>1, Mine, MovesPlayer
    <2>3. players'[p].state = "CONNECTED" /\ GameOf(p)' = NoId
      BY <1>3, <1>4, <1>5, <2>2 DEF Player, GameOf
    <2>4. /\ thr'[p].pc = "enter_lobby" /\ thr'[p].cmd = "LOGIN"
          /\ \A q \in Pid \ {p} : thr'[q] = thr[q]
      BY <1>2, <2>1, Mine, GotoThread
    <2>5. HandlerOK(p)'
      BY <2>3, <2>4 DEF HandlerOK, SectionsOf, StatesIn
    <2> QED BY <1>1, <1>4, <2>2, <2>3, <2>4, <2>5, OutsiderStep
  <1>8. CASE EnterLobby(p)
    <2>1. /\ players'[p] = [players[p] EXCEPT !.state = "LOBBY"]
          /\ \A q \in Pid \ {p} : players'[q] = players[q]
      BY <1>8, Mine, MovesPlayer DEF EnterLobby
    <2>2. players'[p].state = "LOBBY" /\ GameOf(p)' = NoId
      BY <1>4, <1>5, <2>1 DEF Player, GameOf
    <2>3. thr'[p].pc = "receive" /\ thr'[p].cmd = "NONE" /\ \A q \in Pid \ {p} : thr'[q] = thr[q]
      BY <1>8, Mine, ReturnThread DEF EnterLobby
    <2>4. HandlerOK(p)'
      BY <2>2, <2>3, IdleThread DEF ThreadInv
    <2> QED BY <1>1, <1>4, <2>1, <2>2, <2>3, <2>4, OutsiderStep
  <1> QED BY <1>6, <1>7, <1>8 DEF Login

(* the requests after a step that writes to the players p and x *)
LEMMA PlayerRequests ==
  ASSUME MatchInv, NEW p \in Pid, NEW x \in Pid, UNCHANGED games,
         \A q \in Pid \ {p} : thr'[q] = thr[q],
         \A q \in Pid \ {p, x} : players'[q] = players[q],
         thr'[p].pc \notin {"seat_requester", "release_requester"},
         \A r \in {p, x} : \/ Waiting(r)'
                           \/ /\ \A h \in Gid : games[h].pending_invite_from # r
                              /\ \A q \in Pid \ {p} : ~Answering(q, r)
  PROVE  \A r \in Pid : RequestOK(r)'
  <1> SUFFICES ASSUME NEW r \in Pid PROVE RequestOK(r)'
    OBVIOUS
  <1>1. \A h \in Gid : Members(h)' = Members(h)
                       /\ games'[h].pending_invite_from = games[h].pending_invite_from
    BY DEF Members
  <1>2. CASE r \in {p, x}
    BY <1>1, <1>2, RequestsKept
  <1>3. CASE r \notin {p, x}
    <2>1. Waiting(r) => Waiting(r)'
      BY <1>3 DEF Waiting, GameOf
    <2>2. Waiting(r) \/ /\ \A h \in Gid : games[h].pending_invite_from # r
                        /\ \A q \in Pid \ {p} : ~Answering(q, r)
      BY Mine DEF RequestOK
    <2> QED BY <1>1, <2>1, <2>2, RequestsKept
  <1> QED BY <1>2, <1>3

(* nobody has asked to play with a player that does not wait for an answer *)
LEMMA NotAsked ==
  ASSUME MatchInv, NEW r \in Pid, ~Waiting(r)
  PROVE  /\ \A h \in Gid : games[h].pending_invite_from # r
         /\ \A q \in Pid : ~Answering(q, r)
  BY Mine DEF RequestOK

(* the games that wait for a player, and those that have both *)
LEMMA WaitingGame ==
  ASSUME MatchInv, NEW g \in Gid, games[g].state = "WAITING_PLAYERS"
  PROVE  /\ games[g] # FreeGame /\ games[g].id = g /\ games[g].creator_id \in Pid
         /\ games[g].opponent_id = NoId /\ ~games[g].creator_ready /\ ~games[g].opponent_ready
         /\ Members(g) \cap Pid = {games[g].creator_id}
         /\ \A q \in Pid : ~Starting(q, g) /\ ~Restarting(q, g)
  <1>1. games[g] # FreeGame
    BY DEF FreeGame
  <1>2. GameOK(g) /\ \A q \in Pid : StartOK(q, g) /\ RestartOK(q, g)
    BY DEF MatchInv, Games, GameInv, Pairs, PairInv
  <1> QED BY <1>1, <1>2, NoIdNowhere DEF GameOK, Members, StartOK, RestartOK

LEMMA AttachCreatorMatch ==
  ASSUME MatchInv, TypeInv', OwnSlot', NEW p \in Pid, AttachCreator(p) PROVE MatchInv'
  <1>1. thr[p].pc = "attach" /\ UNCHANGED games
    BY DEF AttachCreator, At, gameVars
  <1>2. players[p].state = "LOBBY" /\ Creating(p)
    BY <1>1, Mine DEF HandlerOK, SectionsOf, StatesIn, Creating
  <1> SUFFICES ASSUME NEW g \in Gid, thr[p].game = g PROVE MatchInv'
    BY <1>2, OwnGame
  <1>3. /\ p \in Members(g) /\ GameOf(p) = NoId
        /\ games[g].state = "WAITING_PLAYERS" /\ games[g].creator_id = p
    BY <1>2, OwnGame, Mine DEF CreatorOK
  <1>4. /\ players'[p].state = "WAITING_OPPONENT" /\ GameOf(p)' = g
        /\ \A q \in Pid \ {p} : players'[q] = players[q]
    <2>1. players[p] \in Player
      BY Locals, Mine
    <2>2. players' = [players EXCEPT ![p] = [players[p] EXCEPT !.current_game_id = g,
                                                              !.state = "WAITING_OPPONENT"]]
      BY DEF AttachCreator
    <2>3. players'[p] = [players[p] EXCEPT !.current_game_id = g, !.state = "WAITING_OPPONENT"]
          /\ \A q \in Pid \ {p} : players'[q] = players[q]
      BY <2>2, Mine, MovesPlayer
    <2> QED BY <2>1, <2>3 DEF Player, GameOf
  <1>5. thr'[p].pc = "receive" /\ thr'[p].cmd = "NONE" /\ \A q \in Pid \ {p} : thr'[q] = thr[q]
    BY Mine, ReturnThread DEF AttachCreator
  <1>6. Members(g)' = Members(g) /\ \A q \in Pid : q \in Members(g) => q = p
    BY <1>1, <1>3, WaitingGame DEF Members
  <1>7. \A r \in Pid : RequestOK(r)'
    <2>1. ~Waiting(p)
      BY <1>1, <1>2 DEF Waiting
    <2> QED BY <1>1, <1>4, <1>5, <2>1, NotAsked, PlayerRequests
  <1>8. \A q \in Pid : Near(q, p, p, g) => ThreadInv(q)' /\ AttachedOK(q)' /\ FleetOK(q)'
    <2>1. ThreadInv(p)'
      BY <1>4, <1>5, IdleThread
    <2>2. AttachedOK(p)' /\ FleetOK(p)'
      BY <1>1, <1>3, <1>4, <1>6, NoIdNowhere DEF AttachedOK, FleetOK, Phases, Members
    <2> QED BY <1>6, <2>1, <2>2 DEF Near
  <1>9. GameInv(g)'
    <2>1. GameOK(g)
      BY <1>3 DEF MatchInv, Games, GameInv
    <2> QED BY <1>1, <1>3, <2>1 DEF GameInv, GameOK, FlagsOK, FightOK, FinishOK
  <1>10. ASSUME NEW q \in Pid PROVE PairInv(q, g)'
    <2>1. SeatOK(q, g)'
      BY <1>3, <1>4, <1>6 DEF SeatOK
    <2>2. ~Starting(q, g)' /\ ~Restarting(q, g)'
      BY <1>3, <1>4, <1>5, WaitingGame DEF Starting, Restarting, GameOf
    <2> QED BY <2>1, <2>2 DEF PairInv, StartOK, RestartOK
  <1> QED BY <1>1, <1>3, <1>4, <1>5, <1>6, <1>7, <1>8, <1>9, <1>10, NoSeatElsewhere, LocalStep

(* a step that writes to no game leaves another thread its part, as long   *)
(* as no ship of the player it has shot at is restored or sunk             *)
LEMMA OtherThread ==
  ASSUME MatchInv, UNCHANGED games, NEW q \in Pid, thr'[q] = thr[q], players'[q] = players[q],
         \A r \in Pid : thr[r].pc # "none" => thr'[r].pc # "none",
         thr[q].cmd = "FIRE" /\ thr[q].pc \in {"declare_win", "pass_turn"} =>
           players'[thr[q].other].ships_remaining = players[thr[q].other].ships_remaining
  PROVE  ThreadInv(q)'
  <1>1. /\ HandlerOK(q) /\ LocalOK(q) /\ CreatorOK(q) /\ AnswerOK(q) /\ MarkingOK(q) /\ ShotOK(q)
        /\ GameOf(q)' = GameOf(q)
    BY Mine DEF GameOf
  <1>2. AnswerOK(q)'
    BY <1>1, NamedThreads DEF AnswerOK
  <1> QED BY <1>1, <1>2
          DEF ThreadInv, HandlerOK, LocalOK, CreatorOK, Creating, MarkingOK, OwnReady, ShotOK, OtherMember

(* the thread that restarts the two players of a rematch *)
LEMMA RestartFacts ==
  ASSUME MatchInv, NEW q \in Pid, NEW g \in Gid, Restarting(q, g)
  PROVE  /\ thr[q].cmd = "REMATCH" /\ RestartOK(q, g) /\ q \in Members(g) /\ GameOf(q) = g
         /\ thr[q].other \in Pid /\ thr[q].other \in Members(g) /\ thr[q].other # q
         /\ games[g].state = "PLACING_SHIPS"
         /\ thr[q].other = OtherMember(g, q) /\ GameOf(thr[q].other) = g
         /\ Members(g) = {q, thr[q].other}
  <1>1. RestartOK(q, g) /\ GameOf(q) = g /\ games[g].state = "PLACING_SHIPS"
    BY DEF MatchInv, Pairs, PairInv, RestartOK, Restarting
  <1>2. thr[q].cmd = "REMATCH"
    BY Mine DEF Restarting, HandlerOK, SectionsOf
  <1>3. thr[q].other = OtherMember(g, q) /\ q \in Members(g)
    BY <1>1, <1>2, OwnGame DEF Restarting
  <1>4. thr[q].other \in Pid /\ thr[q].other \in Members(g) /\ thr[q].other # q
        /\ Members(g) = {q, thr[q].other}
    BY <1>1, <1>3, TwoSeats DEF FreeGame
  <1>5. GameOf(thr[q].other) = g
    <2>1. players[thr[q].other].state = "FINISHED"
      BY <1>1 DEF RestartOK
    <2>2. GameOf(thr[q].other) # NoId
      BY <1>4, <2>1, Mine DEF AttachedOK
    <2> QED BY <1>4, <2>2, NoSeatElsewhere
  <1> QED BY <1>1, <1>2, <1>3, <1>4, <1>5

(* a player of a game in which the ships are placed *)
LEMMA PlacingStep ==
  ASSUME MatchInv, TypeInv', OwnSlot', NEW p \in Pid, NEW g \in Gid, p \in Members(g),
         games[g].state = "PLACING_SHIPS", UNCHANGED games,
         \A q \in Pid \ {p} : thr'[q] = thr[q] /\ players'[q] = players[q],
         GameOf(p)' = GameOf(p), thr[p].pc \notin {"seat_requester", "copy_code", "attach"},
         thr'[p].pc \in {"receive", "get_game"}, thr'[p].cmd \in {"NONE", "READY"},
         players[p].state \notin {"READY", "FINISHED"},
         Waiting(p) => Waiting(p)',
         ThreadInv(p)', AttachedOK(p)', FleetOK(p)'
  PROVE  MatchInv'
  <1> DEFINE c == games[g].creator_id
             o == games[g].opponent_id
  <1>1. /\ c \in Pid /\ o \in Pid /\ c # o /\ Members(g) = {c, o} /\ Members(g)' = Members(g)
        /\ games[g] # FreeGame
    BY TwoSeats DEF FreeGame, Members
  <1>2. \A r \in Pid : RequestOK(r)'
    BY NotAsked, PlayerRequests
  <1>3. ASSUME NEW q \in Pid, q \in Members(g) PROVE ThreadInv(q)' /\ AttachedOK(q)' /\ FleetOK(q)'
    <2>1. CASE q = p
      BY <2>1
    <2>2. CASE q # p
      <3>1. AttachedOK(q) /\ FleetOK(q) /\ ShotOK(q)
        BY Mine
      <3>2. ~(thr[q].cmd = "FIRE" /\ thr[q].pc \in {"declare_win", "pass_turn"})
        <4> SUFFICES ASSUME thr[q].cmd = "FIRE" /\ thr[q].pc \in {"declare_win", "pass_turn"}
                     PROVE  FALSE
          OBVIOUS
        <4>1. GameOf(q) = g
          BY <1>3, OwnGame, NoSeatElsewhere
        <4> QED BY <3>1, <4>1, OwnGame DEF ShotOK
      <3>3. ThreadInv(q)'
        BY <2>2, <3>2, OtherThread
      <3> QED BY <2>2, <3>1, <3>3 DEF AttachedOK, FleetOK, GameOf, Members
    <2> QED BY <2>1, <2>2
  <1>4. GameInv(g)'
    <2>1. GameOK(g) /\ FlagsOK(g)
      BY DEF MatchInv, Games, GameInv
    <2> QED BY <1>1, <2>1 DEF GameInv, GameOK, FlagsOK, FightOK, FinishOK
  <1>5. ASSUME NEW q \in Pid PROVE PairInv(q, g)'
    <2>1. SeatOK(q, g) /\ StartOK(q, g) /\ RestartOK(q, g)
      BY DEF MatchInv, Pairs, PairInv
    <2>2. SeatOK(q, g)'
      BY <1>1, <2>1 DEF SeatOK, GameOf, Creating, Admitting
    <2>3. ~Starting(q, g)'
      BY <2>1 DEF StartOK, Starting, GameOf
    <2>4. RestartOK(q, g)'
      <3>1. \A r \in Pid : Restarting(r, g)' => r # p /\ Restarting(r, g)
        BY DEF Restarting, GameOf
      <3> SUFFICES ASSUME Restarting(q, g)' PROVE RestartOK(q, g)'
        BY DEF RestartOK
      <3>2. q # p /\ Restarting(q, g) /\ thr[q].other \in Pid
        BY <3>1, RestartFacts
      <3>3. thr[q].other # p
        BY <2>1, <3>2 DEF RestartOK
      <3> QED BY <2>1, <3>1, <3>2, <3>3 DEF RestartOK
    <2> QED BY <2>2, <2>3, <2>4 DEF PairInv, StartOK
  <1>6. GameOf(p) \in {g, NoId} /\ \A h \in Gid \ {g} : p \notin Members(h)
    BY NoSeatElsewhere
  <1> QED BY <1>1, <1>2, <1>3, <1>4, <1>5, <1>6, LocalStep DEF Near

LEMMA PlayerFields ==
  ASSUME TypeInv, NEW x \in Pid, NEW s
  PROVE  /\ players' = [players EXCEPT ![x].state = s] =>
              /\ players'[x].state = s /\ GameOf(x)' = GameOf(x)
              /\ players'[x].ships_placed = players[x].ships_placed
              /\ players'[x].ships_remaining = players[x].ships_remaining
              /\ \A q \in Pid \ {x} : players'[q] = players[q]
         /\ players' = [players EXCEPT ![x] = [@ EXCEPT !.state = s, !.ships_placed = 0,
                                                       !.ships_remaining = MaxShips]] =>
              /\ players'[x].state = s /\ GameOf(x)' = GameOf(x)
              /\ players'[x].ships_placed = 0 /\ players'[x].ships_remaining = MaxShips
              /\ \A q \in Pid \ {x} : players'[q] = players[q]
  <1>1. players[x] \in Player
    BY Locals
  <1>2. ASSUME players' = [players EXCEPT ![x].state = s]
        PROVE  /\ players'[x].state = s /\ GameOf(x)' = GameOf(x)
               /\ players'[x].ships_placed = players[x].ships_placed
               /\ players'[x].ships_remaining = players[x].ships_remaining
               /\ \A q \in Pid \ {x} : players'[q] = players[q]
    <2>1. players'[x] = [players[x] EXCEPT !.state = s]
          /\ \A q \in Pid \ {x} : players'[q] = players[q]
      BY <1>2, MovesPlayer
    <2> QED BY <1>1, <2>1 DEF Player, GameOf
  <1>3. ASSUME players' = [players EXCEPT ![x] = [players[x] EXCEPT !.state = s, !.ships_placed = 0,
                                                       !.ships_remaining = MaxShips]]
        PROVE /\ players'[x].state = s /\ GameOf(x)' = GameOf(x)
              /\ players'[x].ships_placed = 0 /\ players'[x].ships_remaining = MaxShips
              /\ \A q \in Pid \ {x} : players'[q] = players[q]
    <2>1. players'[x] = [players[x] EXCEPT !.state = s, !.ships_placed = 0, !.ships_remaining = MaxShips]
          /\ \A q \in Pid \ {x} : players'[q] = players[q]
      BY <1>3, MovesPlayer
    <2> QED BY <1>1, <2>1 DEF Player, GameOf
  <1> QED BY <1>2, <1>3

(* a player that places its ships, in its game *)
LEMMA PlacingFacts ==
  ASSUME MatchInv, NEW p \in Pid, players[p].state = "PLACING_SHIPS"
  PROVE  /\ GameOf(p) \in Gid /\ p \in Members(GameOf(p)) /\ GameOf(p) # NoId
         /\ games[GameOf(p)].state = "PLACING_SHIPS"
         /\ players[p].ships_remaining = MaxShips /\ ~OwnReady(GameOf(p), p) /\ ~Waiting(p)
  <1>1. GameOf(p) # NoId
    BY Mine DEF AttachedOK
  <1>2. GameOf(p) \in Gid /\ p \in Members(GameOf(p)) /\ games[GameOf(p)].state = "PLACING_SHIPS"
    BY <1>1, GameOfPlayer DEF Phases
  <1>3. FlagsOK(GameOf(p))
    BY <1>2 DEF MatchInv, Games, GameInv
  <1> QED BY <1>1, <1>2, <1>3, Mine DEF FleetOK, FlagsOK, OwnReady, Members, Waiting

LEMMA PlaceShipMatch ==
  ASSUME MatchInv, TypeInv', OwnSlot', NEW p \in Pid, PlaceShip(p) PROVE MatchInv'
  <1>1. thr[p].pc = "place" /\ UNCHANGED games /\ Return(p)
    BY DEF PlaceShip, At, gameVars
  <1>2. CASE UNCHANGED players
    BY <1>1, <1>2, ReturnQuiet DEF Held
  <1>3. CASE ~UNCHANGED players
    <2>1. players[p].state = "PLACING_SHIPS"
      BY <1>1, Mine DEF HandlerOK, SectionsOf, StatesIn
    <2> SUFFICES ASSUME NEW g \in Gid, GameOf(p) = g PROVE MatchInv'
      BY <2>1, PlacingFacts
    <2>2. p \in Members(g) /\ games[g].state = "PLACING_SHIPS" /\ ~Waiting(p)
      BY <2>1, PlacingFacts
    <2>3. /\ players'[p].state = players[p].state /\ GameOf(p)' = GameOf(p)
          /\ players'[p].ships_remaining = players[p].ships_remaining
          /\ \A q \in Pid \ {p} : players'[q] = players[q]
      <3>1. players' = [players EXCEPT ![p] = [players[p] EXCEPT !.ships_placed = players[p].ships_placed + 1]]
        BY <1>3 DEF PlaceShip
      <3>2. players'[p] = [players[p] EXCEPT !.ships_placed = players[p].ships_placed + 1]
            /\ \A q \in Pid \ {p} : players'[q] = players[q]
        BY <3>1, Mine, MovesPlayer
      <3>3. players[p] \in Player
        BY Locals, Mine
      <3> QED BY <3>2, <3>3 DEF Player, GameOf
    <2>4. thr'[p].pc = "receive" /\ thr'[p].cmd = "NONE" /\ \A q \in Pid \ {p} : thr'[q] = thr[q]
      BY <1>1, Mine, ReturnThread
    <2>5. ThreadInv(p)'
      BY <2>1, <2>3, <2>4, IdleThread
    <2>6. AttachedOK(p)' /\ FleetOK(p)'
      BY <1>1, <2>1, <2>3, Mine DEF AttachedOK, FleetOK, Members
    <2> QED BY <1>1, <2>1, <2>2, <2>3, <2>4, <2>5, <2>6, PlacingStep
  <1> QED BY <1>2, <1>3

LEMMA SetReadyMatch ==
  ASSUME MatchInv, TypeInv', OwnSlot', NEW p \in Pid, SetReady(p) PROVE MatchInv'
  <1>1. thr[p].pc = "set_ready" /\ UNCHANGED games
    BY DEF SetReady, At, gameVars
  <1>2. CASE Return(p) /\ UNCHANGED players
    BY <1>1, <1>2, ReturnQuiet DEF Held
  <1>3. CASE ~(Return(p) /\ UNCHANGED players)
    <2>1. players[p].state = "PLACING_SHIPS" /\ thr[p].cmd = "READY"
      BY <1>1, Mine DEF HandlerOK, SectionsOf, StatesIn
    <2> SUFFICES ASSUME NEW g \in Gid, GameOf(p) = g PROVE MatchInv'
      BY <2>1, PlacingFacts
    <2>2. /\ p \in Members(g) /\ games[g].state = "PLACING_SHIPS" /\ ~Waiting(p)
          /\ players[p].ships_remaining = MaxShips /\ ~OwnReady(g, p)
      BY <2>1, PlacingFacts
    <2>3. /\ AllShipsPlaced(p)
          /\ players' = [players EXCEPT ![p].state = "READY"]
          /\ thr' = [thr EXCEPT ![p] = [thr[p] EXCEPT !.pc = "get_game", !.game = g]]
      BY <1>3 DEF SetReady, GameOf
    <2>4. players[p].ships_placed = MaxShips
      BY <2>3, Mine, Fields, ConstantsAssumption DEF AllShipsPlaced
    <2>5. /\ players'[p].state = "READY" /\ GameOf(p)' = g
          /\ players'[p].ships_placed = MaxShips /\ players'[p].ships_remaining = MaxShips
          /\ \A q \in Pid \ {p} : players'[q] = players[q]
      BY <2>2, <2>3, <2>4, Mine, PlayerFields
    <2>6. /\ thr'[p].pc = "get_game" /\ thr'[p].cmd = "READY" /\ thr'[p].game = g
          /\ \A q \in Pid \ {p} : thr'[q] = thr[q]
      <3>1. thr[p] \in Thread
        BY Locals, Mine
      <3>2. thr'[p] = [thr[p] EXCEPT !.pc = "get_game", !.game = g]
            /\ \A q \in Pid \ {p} : thr'[q] = thr[q]
        BY <2>3, Mine, MovesThread
      <3> QED BY <2>1, <3>1, <3>2 DEF Thread
    <2>7. ThreadInv(p)'
      <3>1. HandlerOK(p)' /\ LocalOK(p)'
        BY <2>5, <2>6 DEF HandlerOK, SectionsOf, StatesIn, LocalOK
      <3>2. MarkingOK(p)'
        BY <1>1, <2>2, <2>5, <2>6 DEF MarkingOK, OwnReady
      <3> QED BY <2>6, <3>1, <3>2 DEF ThreadInv, CreatorOK, Creating, AnswerOK, Invitations, ShotOK
    <2>8. AttachedOK(p)' /\ FleetOK(p)'
      BY <1>1, <2>2, <2>5, NoIdNowhere DEF AttachedOK, FleetOK, Members, Phases
    <2> QED BY <1>1, <2>1, <2>2, <2>5, <2>6, <2>7, <2>8, PlacingStep
  <1> QED BY <1>2, <1>3

(* a game and its creator, while the creator answers a request *)
LEMMA SeatingFacts ==
  ASSUME MatchInv, NEW p \in Pid, thr[p].pc \in {"seat_requester", "seat_creator"}
  PROVE  LET g == thr[p].game
         IN /\ g \in Gid /\ g = GameOf(p) /\ p \in Members(g) /\ games[g].creator_id = p
            /\ games[g].state = "PLACING_SHIPS" /\ games[g] # FreeGame
            /\ thr[p].cmd = "ACCEPT_INVITE" /\ players[p].state = "WAITING_OPPONENT"
            /\ games[g].opponent_id \in Pid /\ games[g].opponent_id # p
            /\ Members(g) = {p, games[g].opponent_id}
            /\ thr[p].pc = "seat_requester" => games[g].opponent_id = thr[p].other
  <1>1. /\ thr[p].game \in Gid /\ thr[p].game = GameOf(p) /\ p \in Members(thr[p].game)
    BY OwnGame
  <1>2. /\ games[thr[p].game].creator_id = p /\ games[thr[p].game].state = "PLACING_SHIPS"
        /\ thr[p].pc = "seat_requester" => games[thr[p].game].opponent_id = thr[p].other
    BY Mine DEF AnswerOK
  <1>3. thr[p].cmd = "ACCEPT_INVITE" /\ players[p].state = "WAITING_OPPONENT"
    BY Mine DEF HandlerOK, SectionsOf, StatesIn
  <1>4. games[thr[p].game] # FreeGame
    BY <1>2 DEF FreeGame
  <1> QED BY <1>1, <1>2, <1>3, <1>4, TwoSeats DEF Members

LEMMA SeatCreatorMatch ==
  ASSUME MatchInv, TypeInv', OwnSlot', NEW p \in Pid, SeatCreator(p) PROVE MatchInv'
  <1>1. thr[p].pc = "seat_creator" /\ UNCHANGED games
    BY DEF SeatCreator, At, gameVars
  <1> SUFFICES ASSUME NEW g \in Gid, thr[p].game = g PROVE MatchInv'
    BY <1>1, SeatingFacts
  <1>2. /\ g = GameOf(p) /\ p \in Members(g) /\ games[g].state = "PLACING_SHIPS"
        /\ players[p].state = "WAITING_OPPONENT"
    BY <1>1, SeatingFacts
  <1>3. /\ players'[p].state = "PLACING_SHIPS" /\ GameOf(p)' = g
        /\ players'[p].ships_remaining = MaxShips
        /\ \A q \in Pid \ {p} : players'[q] = players[q]
    BY <1>2, Mine, PlayerFields DEF SeatCreator
  <1>4. thr'[p].pc = "receive" /\ thr'[p].cmd = "NONE" /\ \A q \in Pid \ {p} : thr'[q] = thr[q]
    BY Mine, ReturnThread DEF SeatCreator
  <1>5. ThreadInv(p)' /\ AttachedOK(p)' /\ FleetOK(p)' /\ ~Waiting(p)
    <2>1. ThreadInv(p)'
      BY <1>3, <1>4, IdleThread
    <2> QED BY <1>1, <1>2, <1>3, <2>1, NoIdNowhere DEF AttachedOK, FleetOK, Members, Phases, Waiting
  <1> QED BY <1>1, <1>2, <1>3, <1>4, <1>5, PlacingStep

LEMMA SetInvitedMatch ==
  ASSUME MatchInv, TypeInv', OwnSlot', NEW p \in Pid, SetInvited(p) PROVE MatchInv'
  <1>1. thr[p].pc = "set_invited" /\ UNCHANGED games
    BY DEF SetInvited, At, gameVars
  <1>2. players[p].state \in {"LOBBY", "PLACING_SHIPS"}
    BY <1>1, Mine DEF HandlerOK, SectionsOf, StatesIn
  <1>3. /\ players'[p].state = "INVITED" /\ GameOf(p)' = GameOf(p)
        /\ \A q \in Pid \ {p} : players'[q] = players[q]
    BY Mine, PlayerFields DEF SetInvited
  <1>4. thr'[p].pc = "receive" /\ thr'[p].cmd = "NONE" /\ \A q \in Pid \ {p} : thr'[q] = thr[q]
    BY Mine, ReturnThread DEF SetInvited
  <1>5. ThreadInv(p)'
    BY <1>3, <1>4, IdleThread
  <1>6. Waiting(p) => Waiting(p)'
    BY <1>3 DEF Waiting
  <1>7. GameOf(p) # NoId =>
          games[GameOf(p)].state = "PLACING_SHIPS" /\ GameOf(p) \in Gid /\ p \in Members(GameOf(p))
    BY <1>2, GameOfPlayer DEF Phases
  <1>8. AttachedOK(p)' /\ FleetOK(p)'
    BY <1>1, <1>3, <1>7 DEF AttachedOK, FleetOK, Members, Phases
  <1>9. CASE Unseated(p)
    <2>1. GameOf(p) = NoId
      BY <1>7, <1>9 DEF Unseated
    <2>2. \A r \in Pid : RequestOK(r)'
      BY <1>1, <1>3, <1>4, <1>6, NotAsked, PlayerRequests
    <2>3. \A q \in Pid : Near(q, p, p, NoId) => q = p
      BY NoIdNowhere DEF Near
    <2> QED BY <1>1, <1>3, <1>4, <1>5, <1>8, <1>9, <2>1, <2>2, <2>3, NoIdNowhere, LocalStep DEF Unseated
  <1>10. CASE ~Unseated(p)
    <2>1. PICK g \in Gid : p \in Members(g)
      BY <1>10 DEF Unseated
    <2>2. games[g].state = "PLACING_SHIPS"
      <3>1. CASE GameOf(p) # NoId
        BY <1>7, <2>1, <3>1, NoSeatElsewhere
      <3>2. CASE GameOf(p) = NoId
        <4>1. SeatOK(p, g)
          BY DEF MatchInv, Pairs, PairInv
        <4>2. Admitting(games[g].creator_id, p)
          BY <1>1, <2>1, <3>2, <4>1, NoIdNowhere DEF SeatOK, Creating
        <4>3. games[g].creator_id \in Pid /\ games[g].creator_id \in Members(g)
          BY <2>1, NamedThreads DEF Members
        <4>4. thr[games[g].creator_id].game = g
          BY <4>2, <4>3, SeatingFacts, NoSeatElsewhere, NoIdNowhere DEF Admitting
        <4> QED BY <4>2, <4>3, <4>4, SeatingFacts DEF Admitting
      <3> QED BY <3>1, <3>2
    <2> QED BY <1>1, <1>2, <1>3, <1>4, <1>5, <1>6, <1>8, <2>1, <2>2, PlacingStep
  <1> QED BY <1>9, <1>10

(* a client that waits for an answer and is given one *)
LEMMA AnsweredFacts ==
  ASSUME MatchInv, NEW p \in Pid, NEW x \in Pid, Answering(p, x)
  PROVE  /\ Waiting(x) /\ GameOf(x) = NoId /\ players[x].state \in {"INVITED", "LOBBY"}
         /\ thr[x].cmd \in {"NONE", "REJECT_INVITE", "JOIN_GAME"}
         /\ thr[x].pc \in {"receive", "set_invited", "resolve", "read_game_id", "get_game",
                           "release_requester"}
         /\ thr[x].pc = "set_invited" <=> players[x].state = "LOBBY"
         /\ thr[x].cmd = "JOIN_GAME" <=> thr[x].pc = "set_invited"
         /\ \A h \in Gid : games[h].pending_invite_from # x
         /\ \A q \in Pid \ {p} : ~Answering(q, x)
         /\ thr[p].pc = "release_requester" => Unseated(x)
  <1>1. /\ Waiting(x) /\ \A h \in Gid : games[h].pending_invite_from # x
        /\ \A q \in Pid \ {p} : ~Answering(q, x)
        /\ thr[p].pc = "release_requester" => Unseated(x)
    BY Mine DEF RequestOK
  <1>2. GameOf(x) = NoId /\ players[x].state \in {"INVITED", "LOBBY"}
    BY <1>1 DEF Waiting
  <1>3. CASE players[x].state = "INVITED"
    <2>1. (thr[x].pc = "receive" /\ thr[x].cmd = "NONE") \/ thr[x].cmd = "REJECT_INVITE"
      BY <1>3, Mine DEF HandlerOK, SectionsOf, StatesIn
    <2>2. thr[x].pc \in {"receive", "resolve", "read_game_id", "get_game", "clear_invite",
                         "release_requester"}
      BY <2>1, Mine DEF HandlerOK, SectionsOf
    <2>3. thr[x].pc # "clear_invite"
      <3>1. ThreadOK(thr[x]) /\ LocalOK(x)
        BY Locals, Mine
      <3> QED BY <1>2, <3>1, NoIdNowhere DEF LocalOK, ThreadOK, GameSections
    <2> QED BY <1>1, <1>2, <1>3, <2>1, <2>2, <2>3
  <1>4. CASE players[x].state = "LOBBY"
    <2>1. thr[x].pc = "set_invited"
      BY <1>1, <1>4 DEF Waiting
    <2>2. thr[x].cmd = "JOIN_GAME"
      BY <2>1, Mine DEF HandlerOK, SectionsOf
    <2> QED BY <1>1, <1>2, <1>4, <2>1, <2>2
  <1> QED BY <1>2, <1>3, <1>4

LEMMA SeatRequesterMatch ==
  ASSUME MatchInv, TypeInv', OwnSlot', NEW p \in Pid, SeatRequester(p) PROVE MatchInv'
  <1>1. thr[p].pc = "seat_requester" /\ UNCHANGED games
    BY DEF SeatRequester, At, gameVars
  <1> SUFFICES ASSUME NEW g \in Gid, thr[p].game = g, NEW x \in Pid, thr[p].other = x PROVE MatchInv'
    BY <1>1, SeatingFacts
  <1>2. /\ g = GameOf(p) /\ p \in Members(g) /\ games[g].state = "PLACING_SHIPS"
        /\ games[g].creator_id = p /\ games[g].opponent_id = x /\ x # p /\ Members(g) = {p, x}
        /\ players[p].state = "WAITING_OPPONENT" /\ thr[p].cmd = "ACCEPT_INVITE"
    BY <1>1, SeatingFacts
  <1>3. /\ Waiting(x) /\ GameOf(x) = NoId /\ players[x].state \in {"INVITED", "LOBBY"}
        /\ thr[x].cmd \in {"NONE", "REJECT_INVITE", "JOIN_GAME"}
        /\ thr[x].pc \in {"receive", "set_invited", "resolve", "read_game_id", "get_game",
                           "release_requester"}
        /\ \A h \in Gid : games[h].pending_invite_from # x
        /\ \A q \in Pid \ {p} : ~Answering(q, x)
    BY <1>1, AnsweredFacts DEF Answering
  <1>4. /\ players'[x].state = "PLACING_SHIPS" /\ GameOf(x)' = g
        /\ players'[x].ships_remaining = MaxShips
        /\ \A q \in Pid \ {x} : players'[q] = players[q]
    <2>1. players[x] \in Player
      BY Locals, Mine
    <2>2. players'[x] = [players[x] EXCEPT !.current_game_id = g, !.state = "PLACING_SHIPS",
                                           !.ships_placed = 0, !.ships_remaining = MaxShips]
          /\ \A q \in Pid \ {x} : players'[q] = players[q]
      BY Mine, MovesPlayer DEF SeatRequester
    <2> QED BY <2>1, <2>2 DEF Player, GameOf
  <1>5. /\ thr'[p].pc = "seat_creator" /\ thr'[p].cmd = "ACCEPT_INVITE" /\ thr'[p].game = g
        /\ \A q \in Pid \ {p} : thr'[q] = thr[q]
    BY <1>2, Mine, GotoThread DEF SeatRequester
  <1>6. players'[p] = players[p] /\ thr'[x] = thr[x] /\ GameOf(p)' = g
        /\ Members(g)' = {p, x}
    BY <1>1, <1>2, <1>4, <1>5 DEF GameOf, Members
  <1>7. \A r \in Pid : RequestOK(r)'
    <2>1. ~Waiting(p)
      BY <1>1, <1>2 DEF Waiting
    <2> QED BY <1>1, <1>3, <1>4, <1>5, <2>1, NotAsked, PlayerRequests
  <1>8. ThreadInv(p)' /\ AttachedOK(p)' /\ FleetOK(p)'
    <2>1. HandlerOK(p)' /\ LocalOK(p)' /\ AnswerOK(p)'
      BY <1>1, <1>2, <1>5, <1>6 DEF HandlerOK, SectionsOf, StatesIn, LocalOK, AnswerOK
    <2>2. AttachedOK(p)' /\ FleetOK(p)'
      BY <1>1, <1>2, <1>6, NoIdNowhere DEF AttachedOK, FleetOK, Phases
    <2> QED BY <1>5, <2>1, <2>2 DEF ThreadInv, CreatorOK, Creating, MarkingOK, ShotOK
  <1>9. ThreadInv(x)' /\ AttachedOK(x)' /\ FleetOK(x)'
    <2>1. HandlerOK(x)'
      <3>1. HandlerOK(x)
        BY Mine
      <3> QED BY <1>3, <1>4, <1>6, <3>1 DEF HandlerOK, SectionsOf, StatesIn, PlayerStates
    <2>2. LocalOK(x)'
      <3>1. LocalOK(x)
        BY Mine
      <3> QED BY <1>3, <1>4, <1>6, <3>1 DEF LocalOK
    <2>3. AnswerOK(x)'
      <3>1. AnswerOK(x) /\ \A r \in Pid : thr[r].pc # "none" => thr'[r].pc # "none"
        BY <1>5, Mine
      <3> QED BY <1>3, <1>6, <3>1, NamedThreads DEF AnswerOK
    <2>4. AttachedOK(x)' /\ FleetOK(x)'
      BY <1>1, <1>2, <1>4, <1>6, NoIdNowhere DEF AttachedOK, FleetOK, Phases
    <2> QED BY <1>3, <1>6, <2>1, <2>2, <2>3, <2>4
            DEF ThreadInv, CreatorOK, Creating, MarkingOK, ShotOK
  <1>10. GameInv(g)'
    <2>1. GameOK(g) /\ FlagsOK(g)
      BY DEF MatchInv, Games, GameInv
    <2> QED BY <1>1, <1>2, <1>3, <1>6, <2>1 DEF GameInv, GameOK, FlagsOK, FightOK, FinishOK
  <1>11. ASSUME NEW q \in Pid PROVE PairInv(q, g)'
    <2>1. SeatOK(q, g)'
      BY <1>4, <1>6 DEF SeatOK
    <2>2. ~Starting(q, g)'
      <3>1. CASE q \in {p, x}
        BY <1>2, <1>3, <1>5, <1>6, <3>1 DEF Starting
      <3>2. CASE q \notin {p, x}
        BY <1>2, <1>4, <1>5, <3>2, NamedThreads DEF Starting, GameOf
      <3> QED BY <3>1, <3>2
    <2>3. ~Restarting(q, g)'
      <3>1. CASE q \in {p, x}
        BY <1>2, <1>3, <1>5, <1>6, <3>1 DEF Restarting
      <3>2. CASE q \notin {p, x}
        BY <1>2, <1>4, <1>5, <3>2, RestartFacts DEF Restarting, GameOf
      <3> QED BY <3>1, <3>2
    <2> QED BY <2>1, <2>2, <2>3 DEF PairInv, StartOK, RestartOK
  <1>12. \A h \in Gid \ {g} : p \notin Members(h) /\ x \notin Members(h)
    BY <1>2, NoSeatElsewhere
  <1> QED BY <1>1, <1>2, <1>4, <1>5, <1>6, <1>7, <1>8, <1>9, <1>10, <1>11, <1>12, LocalStep DEF Near

LEMMA ReleaseRequesterMatch ==
  ASSUME MatchInv, TypeInv', OwnSlot', NEW p \in Pid, ReleaseRequester(p) PROVE MatchInv'
  <1>1. thr[p].pc = "release_requester" /\ UNCHANGED games /\ Return(p)
    BY DEF ReleaseRequester, At, gameVars
  <1>2. thr[p].other \in Pid
    BY <1>1, NamedThreads DEF Answering
  <1> SUFFICES ASSUME NEW x \in Pid, thr[p].other = x PROVE MatchInv'
    BY <1>2
  <1>3. thr'[p].pc = "receive" /\ thr'[p].cmd = "NONE" /\ \A q \in Pid \ {p} : thr'[q] = thr[q]
    BY <1>1, Mine, ReturnThread
  <1>4. CASE players[x].state # "INVITED"
    BY <1>1, <1>4, ReturnQuiet DEF ReleaseRequester, Held
  <1>5. CASE players[x].state = "INVITED"
    <2>1. /\ Waiting(x) /\ GameOf(x) = NoId /\ Unseated(x)
          /\ thr[x].cmd \in {"NONE", "REJECT_INVITE"} /\ thr[x].pc # "set_invited"
          /\ \A h \in Gid : games[h].pending_invite_from # x
          /\ \A q \in Pid \ {p} : ~Answering(q, x)
      BY <1>1, <1>5, AnsweredFacts DEF Answering
    <2>2. /\ players'[x].state = "LOBBY" /\ GameOf(x)' = NoId
          /\ players'[x].ships_remaining = players[x].ships_remaining
          /\ \A q \in Pid \ {x} : players'[q] = players[q]
      BY <1>5, <2>1, Mine, PlayerFields DEF ReleaseRequester
    <2>3. \A q \in Pid : GameOf(q)' = GameOf(q)
      BY <2>1, <2>2 DEF GameOf
    <2>4. thr[p].cmd = "REJECT_INVITE" /\ players[p].state # "DISCONNECTED"
      BY <1>1, Mine DEF HandlerOK, SectionsOf, StatesIn
    <2>5. ThreadInv(p)'
      <3>1. players'[p].state # "DISCONNECTED"
        BY <2>2, <2>4
      <3> QED BY <1>3, <3>1, IdleThread
    <2>6. ThreadInv(x)'
      <3>1. CASE x = p
        BY <2>5, <3>1
      <3>2. CASE x # p
        <4>1. HandlerOK(x) /\ LocalOK(x) /\ thr'[x] = thr[x]
              /\ AnswerOK(x) /\ \A r \in Pid : thr[r].pc # "none" => thr'[r].pc # "none"
          BY <1>3, <3>2, Mine
        <4>2. HandlerOK(x)' /\ LocalOK(x)'
          BY <1>5, <2>1, <2>2, <4>1 DEF HandlerOK, SectionsOf, StatesIn, PlayerStates, LocalOK
        <4>3. AnswerOK(x)'
          BY <1>1, <2>1, <4>1, NamedThreads DEF AnswerOK
        <4>4. ~Creating(x)'
          BY <2>1, <4>1 DEF HandlerOK, SectionsOf, Creating
        <4>5. thr[x].pc \notin {"finish_self", "finish_opponent"}
          BY <2>1, <4>1 DEF HandlerOK, SectionsOf
        <4> QED BY <2>1, <4>1, <4>2, <4>3, <4>4, <4>5 DEF ThreadInv, CreatorOK, MarkingOK, ShotOK
      <3> QED BY <3>1, <3>2
    <2>7. \A q \in Pid : AttachedOK(q)' /\ FleetOK(q)'
      <3> SUFFICES ASSUME NEW q \in Pid PROVE AttachedOK(q)' /\ FleetOK(q)'
        OBVIOUS
      <3>1. CASE q = x
        BY <2>2, <3>1 DEF AttachedOK, FleetOK
      <3>2. CASE q # x
        BY <1>1, <2>2, <2>3, <3>2, Mine DEF AttachedOK, FleetOK, Members
      <3> QED BY <3>1, <3>2
    <2>8. \A r \in Pid : RequestOK(r)'
      <3>1. x # p => (Waiting(p) => Waiting(p)')
        BY <1>1, <2>2, <2>3 DEF Waiting
      <3>2. \A r \in {p, x} : \/ Waiting(r)'
                              \/ /\ \A h \in Gid : games[h].pending_invite_from # r
                                 /\ \A q \in Pid \ {p} : ~Answering(q, r)
        BY <2>1, <3>1, NotAsked
      <3> QED BY <1>1, <1>3, <2>2, <3>2, PlayerRequests
    <2>9. CASE Unseated(p)
      <3>1. GameOf(p) = NoId
        BY <2>9, GameOfPlayer DEF Unseated
      <3>2. \A q \in Pid : Near(q, p, x, NoId) => q \in {p, x}
        BY NoIdNowhere DEF Near
      <3> QED BY <1>1, <1>3, <2>1, <2>2, <2>3, <2>5, <2>6, <2>7, <2>8, <2>9, <3>1, <3>2, NoIdNowhere,
                 LocalStep DEF Unseated
    <2>10. CASE ~Unseated(p)
      <3>1. PICK g \in Gid : p \in Members(g)
        BY <2>10 DEF Unseated
      <3>2. /\ x # p /\ x \notin Members(g) /\ Members(g)' = Members(g)
            /\ \A q \in Pid : q \in Members(g) => q # x /\ players'[q] = players[q]
        BY <1>1, <2>1, <2>2, <3>1 DEF Unseated, Members
      <3>3. \A q \in Pid : q \in Members(g) => ThreadInv(q)'
        <4> SUFFICES ASSUME NEW q \in Pid, q \in Members(g), q # p PROVE ThreadInv(q)'
          BY <2>5
        <4>1. \A r \in Pid : players'[r].ships_remaining = players[r].ships_remaining
          BY <2>2
        <4>2. thr[q].cmd = "FIRE" /\ thr[q].pc \in {"declare_win", "pass_turn"} => thr[q].other \in Pid
          BY Locals, Mine DEF ThreadOK, OtherSections
        <4> QED BY <1>1, <1>3, <3>2, <4>1, <4>2, OtherThread
      <3>4. \A q \in Pid : \A s \in {"finish_self", "finish_opponent", "declare_win", "pass_turn"} :
              thr'[q].pc = s <=> thr[q].pc = s
        BY <1>1, <1>3
      <3>5. \A q \in Pid : /\ Starting(q, g)' <=> Starting(q, g)
                           /\ Restarting(q, g)' <=> Restarting(q, g)
                           /\ Starting(q, g) \/ Restarting(q, g) => q # p
        BY <1>1, <1>3, <2>3, <2>4 DEF Starting, Restarting
      <3>6. GameInv(g)'
        <4>1. GameOK(g) /\ FlagsOK(g) /\ FightOK(g) /\ FinishOK(g)
          BY DEF MatchInv, Games, GameInv
        <4>2. GameOK(g)'
          BY <1>1, <4>1 DEF GameOK
        <4>3. FlagsOK(g)'
          BY <1>1, <3>2, <4>1, NamedThreads DEF FlagsOK, Paired, Members
        <4>4. FightOK(g)'
          BY <1>1, <3>2, <3>4, <3>5, <4>1, NamedThreads DEF FightOK, Paired, Members
        <4>5. FinishOK(g)'
          <5> SUFFICES ASSUME Used(g), games[g].state = "FINISHED" PROVE FinishOK(g)'
            BY <1>1 DEF FinishOK, Used
          <5>1. /\ FinishOK(g)
                /\ \A i \in Members(g) : i \in Pid /\ OtherMember(g, i) \in Pid
            BY <4>1, NamedThreads DEF Paired
          <5>2. games[g].creator_id # games[g].opponent_id
            BY UsedIsNotFree, TwoSeats
          <5>3. \A i \in Members(g) : /\ players'[i] = players[i] /\ OtherMember(g, i) \in Members(g)
                                      /\ \A s \in {"finish_self", "finish_opponent"} :
                                           thr'[i].pc = s <=> thr[i].pc = s
                                      /\ thr[i].cmd # "FIRE" => thr'[i].cmd # "FIRE"
            BY <1>3, <3>2, <3>4, <5>1 DEF Members, OtherMember
          <5> QED BY <1>1, <3>2, <5>1, <5>3 DEF FinishOK, Used, Wants, OtherMember
        <4> QED BY <4>2, <4>3, <4>4, <4>5 DEF GameInv
      <3>7. ASSUME NEW q \in Pid PROVE PairInv(q, g)'
        <4>1. SeatOK(q, g) /\ StartOK(q, g) /\ RestartOK(q, g)
          BY DEF MatchInv, Pairs, PairInv
        <4>2. SeatOK(q, g)'
          <5>1. \A r \in Pid : (Creating(r) \/ thr[r].pc = "seat_requester") => thr'[r] = thr[r]
            BY <1>1, <1>3 DEF Creating
          <5> QED BY <1>1, <2>3, <3>2, <4>1, <5>1, NamedThreads DEF SeatOK, Creating, Admitting, Members
        <4>3. StartOK(q, g)'
          <5> SUFFICES ASSUME Starting(q, g) PROVE StartOK(q, g)'
            BY <3>5 DEF StartOK
          <5>1. thr'[q] = thr[q] /\ games[g].creator_id \in Pid /\ games[g].opponent_id \in Pid
            BY <1>3, <3>5, NamedThreads DEF Paired
          <5>2. players'[games[g].creator_id] = players[games[g].creator_id]
                /\ players'[games[g].opponent_id] = players[games[g].opponent_id]
            BY <3>2, <5>1 DEF Members
          <5> QED BY <1>1, <3>4, <3>5, <4>1, <5>1, <5>2 DEF StartOK
        <4>4. RestartOK(q, g)'
          <5> SUFFICES ASSUME Restarting(q, g) PROVE RestartOK(q, g)'
            BY <3>5 DEF RestartOK
          <5>1. thr'[q] = thr[q] /\ q \in Members(g) /\ thr[q].other \in Pid /\ thr[q].other \in Members(g)
            BY <1>3, <3>5, RestartFacts
          <5>2. players'[q] = players[q] /\ players'[thr[q].other] = players[thr[q].other]
            BY <3>2, <5>1
          <5> QED BY <1>1, <3>5, <4>1, <5>1, <5>2 DEF RestartOK
        <4> QED BY <4>2, <4>3, <4>4 DEF PairInv
      <3>8. GameOf(p) \in {g, NoId} /\ \A h \in Gid \ {g} : p \notin Members(h)
        BY <3>1, NoSeatElsewhere
      <3> QED BY <1>1, <1>3, <2>1, <2>2, <2>3, <2>5, <2>6, <2>7, <2>8, <3>2, <3>3, <3>6, <3>7, <3>8,
                 LocalStep DEF Near, Unseated
    <2> QED BY <2>9, <2>10
  <1> QED BY <1>4, <1>5

-----------------------------------------------------------------------------
(* The start of a match                                                    *)

LEMMA StartPlayer ==
  ASSUME MatchInv, NEW p \in Pid, thr[p].pc \in {"start_creator", "start_opponent"},
         NEW g \in Gid, GameOf(p) = g, NEW x \in Pid, x \in Members(g), players[x].state = "READY",
         players' = [players EXCEPT ![x].state = "IN_GAME"], UNCHANGED games,
         \A q \in Pid \ {p} : thr'[q] = thr[q],
         thr'[p].pc \notin {"none", "seat_requester", "release_requester"}
  PROVE  /\ players'[x].state = "IN_GAME" /\ \A q \in Pid \ {x} : players'[q] = players[q]
         /\ \A q \in Pid : /\ GameOf(q)' = GameOf(q)
                           /\ players'[q].ships_placed = players[q].ships_placed
                           /\ players'[q].ships_remaining = players[q].ships_remaining
         /\ \A q \in Pid : q \in Members(g) =>
              (q # p => ThreadInv(q)') /\ AttachedOK(q)' /\ FleetOK(q)'
         /\ \A r \in Pid : RequestOK(r)'
         /\ \A q \in Pid : /\ SeatOK(q, g)'
                           /\ q # p => ~Starting(q, g)' /\ ~Restarting(q, g)'
         /\ \A h \in Gid \ {g} : p \notin Members(h) /\ x \notin Members(h)
  <1> DEFINE c == games[g].creator_id
             o == games[g].opponent_id
  <1>1. /\ c \in Pid /\ o \in Pid /\ c # o /\ Members(g) = {c, o} /\ p \in {c, o} /\ x \in {c, o}
        /\ GameOf(c) = g /\ GameOf(o) = g /\ games[g].state = "IN_PROGRESS"
        /\ Starting(p, g) /\ StartOK(p, g)
    BY StartFacts
  <1>2. /\ players'[x].state = "IN_GAME" /\ GameOf(x)' = GameOf(x)
        /\ players'[x].ships_placed = players[x].ships_placed
        /\ players'[x].ships_remaining = players[x].ships_remaining
        /\ \A q \in Pid \ {x} : players'[q] = players[q]
    BY Mine, PlayerFields
  <1>3. \A q \in Pid : /\ GameOf(q)' = GameOf(q)
                       /\ players'[q].ships_placed = players[q].ships_placed
                       /\ players'[q].ships_remaining = players[q].ships_remaining
    BY <1>2 DEF GameOf
  <1>4. Members(g)' = Members(g)
    BY DEF Members
  <1>5. ASSUME NEW q \in Pid, q \in Members(g), q # p PROVE ThreadInv(q)'
    <2>1. CASE q # x
      <3>1. thr[q].cmd = "FIRE" /\ thr[q].pc \in {"declare_win", "pass_turn"} => thr[q].other \in Pid
        BY Locals, Mine DEF ThreadOK, OtherSections
      <3> QED BY <1>2, <1>3, <1>5, <2>1, <3>1, OtherThread
    <2>2. CASE q = x
      <3>1. /\ HandlerOK(q) /\ LocalOK(q) /\ AnswerOK(q) /\ MarkingOK(q) /\ thr'[q] = thr[q]
            /\ ~Starting(q, g) /\ GameOf(q) = g
        BY <1>1, <1>5, Mine DEF StartOK
      <3>2. /\ thr[q].cmd \in {"NONE", "REJECT_INVITE"}
            /\ thr[q].cmd = "NONE" => thr[q].pc = "receive"
        BY <1>1, <2>2, <3>1 DEF HandlerOK, SectionsOf, StatesIn, MarkingOK, Starting
      <3>3. HandlerOK(q)'
        BY <1>2, <2>2, <3>1, <3>2 DEF HandlerOK, SectionsOf, StatesIn, PlayerStates
      <3>4. LocalOK(q)'
        BY <1>3, <3>1 DEF LocalOK
      <3>5. AnswerOK(q)'
        BY <3>1, <3>2, NamedThreads DEF AnswerOK, HandlerOK, SectionsOf
      <3>6. ~Creating(q)' /\ thr[q].pc \notin {"finish_self", "finish_opponent"}
        BY <3>1, <3>2 DEF Creating, HandlerOK, SectionsOf
      <3> QED BY <3>1, <3>2, <3>3, <3>4, <3>5, <3>6 DEF ThreadInv, CreatorOK, MarkingOK, ShotOK
    <2> QED BY <2>1, <2>2
  <1>6. ASSUME NEW q \in Pid, q \in Members(g) PROVE AttachedOK(q)' /\ FleetOK(q)'
    <2>1. CASE q = x
      BY <1>1, <1>2, <1>4, <2>1, NoIdNowhere DEF AttachedOK, FleetOK, Phases
    <2>2. CASE q # x
      BY <1>2, <1>3, <2>2, Mine DEF AttachedOK, FleetOK, Members
    <2> QED BY <2>1, <2>2
  <1>7. \A r \in Pid : RequestOK(r)'
    <2>1. ~Waiting(p) /\ ~Waiting(x)
      BY <1>1, NoIdNowhere DEF Waiting
    <2> QED BY <1>2, <2>1, NotAsked, PlayerRequests
  <1>8. ASSUME NEW q \in Pid
        PROVE  SeatOK(q, g)' /\ (q # p => ~Starting(q, g)' /\ ~Restarting(q, g)')
    <2>1. SeatOK(q, g)'
      BY <1>1, <1>3, <1>4 DEF SeatOK
    <2>2. q # p => ~Starting(q, g)'
      BY <1>1, <1>3 DEF StartOK, Starting
    <2>3. q # p => ~Restarting(q, g)'
      BY <1>1, <1>3, RestartFacts DEF Restarting
    <2> QED BY <2>1, <2>2, <2>3
  <1>9. \A h \in Gid \ {g} : p \notin Members(h) /\ x \notin Members(h)
    BY <1>1, NoSeatElsewhere
  <1> QED BY <1>2, <1>3, <1>5, <1>6, <1>7, <1>8, <1>9

LEMMA StartCreatorMatch ==
  ASSUME MatchInv, TypeInv', OwnSlot', NEW p \in Pid, StartCreator(p) PROVE MatchInv'
  <1>1. thr[p].pc = "start_creator" /\ UNCHANGED games
    BY DEF StartCreator, At, gameVars
  <1> SUFFICES ASSUME NEW g \in Gid, GameOf(p) = g PROVE MatchInv'
    BY <1>1, StartFacts
  <1> SUFFICES ASSUME NEW c \in Pid, games[g].creator_id = c, NEW o \in Pid, games[g].opponent_id = o
               PROVE  MatchInv'
    BY <1>1, StartFacts
  <1>2. /\ c # o /\ Members(g) = {c, o} /\ p \in {c, o} /\ games[g].state = "IN_PROGRESS"
        /\ thr[p].creator = c /\ thr[p].other = o /\ thr[p].cmd = "READY"
        /\ Starting(p, g) /\ StartOK(p, g) /\ GameOf(c) = g /\ GameOf(o) = g
    BY <1>1, StartFacts
  <1>3. /\ players[c].state = "READY" /\ players[o].state = "READY" /\ games[g].current_turn = c
        /\ players[c].ships_remaining = MaxShips /\ players[o].ships_remaining = MaxShips
    BY <1>1, <1>2 DEF StartOK
  <1>4. /\ thr'[p].pc = "start_opponent" /\ thr'[p].cmd = "READY" /\ thr'[p].game = thr[p].game
        /\ thr'[p].other = o /\ thr'[p].creator = c
        /\ \A q \in Pid \ {p} : thr'[q] = thr[q]
    BY <1>2, Mine, GotoThread DEF StartCreator
  <1>5. players' = [players EXCEPT ![c].state = "IN_GAME"]
    BY <1>2 DEF StartCreator
  <1>6. /\ players'[c].state = "IN_GAME" /\ \A q \in Pid \ {c} : players'[q] = players[q]
        /\ \A q \in Pid : /\ GameOf(q)' = GameOf(q)
                          /\ players'[q].ships_placed = players[q].ships_placed
                          /\ players'[q].ships_remaining = players[q].ships_remaining
        /\ \A q \in Pid : q \in Members(g) =>
             (q # p => ThreadInv(q)') /\ AttachedOK(q)' /\ FleetOK(q)'
        /\ \A r \in Pid : RequestOK(r)'
        /\ \A q \in Pid : /\ SeatOK(q, g)'
                          /\ q # p => ~Starting(q, g)' /\ ~Restarting(q, g)'
        /\ \A h \in Gid \ {g} : p \notin Members(h) /\ c \notin Members(h)
    BY <1>1, <1>2, <1>3, <1>4, <1>5, StartPlayer
  <1>7. ThreadInv(p)'
    <2>1. players'[p].state \in {"READY", "IN_GAME"} /\ thr[p].game = g
      BY <1>1, <1>2, <1>3, <1>6, Mine DEF LocalOK
    <2>2. HandlerOK(p)' /\ LocalOK(p)'
      BY <1>4, <1>6, <2>1 DEF HandlerOK, SectionsOf, StatesIn, LocalOK
    <2> QED BY <1>4, <2>2 DEF ThreadInv, CreatorOK, Creating, AnswerOK, Invitations, MarkingOK, ShotOK
  <1>8. GameInv(g)'
    <2>1. GameOK(g) /\ FightOK(g)
      BY DEF MatchInv, Games, GameInv
    <2>2. Starting(p, g)'
      BY <1>4, <1>6 DEF Starting
    <2>3. FightOK(g)'
      <3>1. ASSUME NEW i \in Members(g), players[i].ships_remaining = 0
            PROVE  i # c /\ thr'[c].pc = "declare_win"
        <4>1. i # c /\ thr[c].pc = "declare_win"
          BY <1>2, <1>3, <2>1, <3>1 DEF FightOK
        <4> QED BY <1>1, <1>4, <4>1
      <3> QED BY <1>1, <1>2, <1>3, <1>6, <2>1, <2>2, <3>1 DEF FightOK, Members
    <2> QED BY <1>1, <1>2, <2>1, <2>3 DEF GameInv, GameOK, FlagsOK, FinishOK
  <1>9. ASSUME NEW q \in Pid PROVE PairInv(q, g)'
    <2>1. StartOK(p, g)'
      BY <1>1, <1>2, <1>3, <1>4, <1>6, ConstantsAssumption DEF StartOK
    <2>2. ~Restarting(p, g)'
      BY <1>4 DEF Restarting
    <2> QED BY <1>6, <2>1, <2>2 DEF PairInv, StartOK, RestartOK
  <1>10. \A q \in Pid : Near(q, p, c, g) => q \in Members(g)
    BY <1>2 DEF Near
  <1>11. Members(g)' = Members(g) /\ GameOf(p)' = g /\ GameOf(c)' = g
    BY <1>1, <1>2, <1>6 DEF Members
  <1> QED BY <1>1, <1>4, <1>6, <1>7, <1>8, <1>9, <1>10, <1>11, LocalStep

LEMMA StartOpponentMatch ==
  ASSUME MatchInv, TypeInv', OwnSlot', NEW p \in Pid, StartOpponent(p) PROVE MatchInv'
  <1>1. thr[p].pc = "start_opponent" /\ UNCHANGED games
    BY DEF StartOpponent, At, gameVars
  <1> SUFFICES ASSUME NEW g \in Gid, GameOf(p) = g PROVE MatchInv'
    BY <1>1, StartFacts
  <1> SUFFICES ASSUME NEW c \in Pid, games[g].creator_id = c, NEW o \in Pid, games[g].opponent_id = o
               PROVE  MatchInv'
    BY <1>1, StartFacts
  <1>2. /\ c # o /\ Members(g) = {c, o} /\ p \in {c, o} /\ games[g].state = "IN_PROGRESS"
        /\ thr[p].creator = c /\ thr[p].other = o /\ thr[p].cmd = "READY"
        /\ Starting(p, g) /\ StartOK(p, g) /\ GameOf(c) = g /\ GameOf(o) = g
    BY <1>1, StartFacts
  <1>3. players[c].state = "IN_GAME" /\ players[o].state = "READY"
    BY <1>1, <1>2 DEF StartOK
  <1>4. thr'[p].pc = "receive" /\ thr'[p].cmd = "NONE" /\ \A q \in Pid \ {p} : thr'[q] = thr[q]
    BY Mine, ReturnThread DEF StartOpponent
  <1>5. players' = [players EXCEPT ![o].state = "IN_GAME"]
    BY <1>2 DEF StartOpponent
  <1>6. /\ players'[o].state = "IN_GAME" /\ \A q \in Pid \ {o} : players'[q] = players[q]
        /\ \A q \in Pid : /\ GameOf(q)' = GameOf(q)
                          /\ players'[q].ships_placed = players[q].ships_placed
                          /\ players'[q].ships_remaining = players[q].ships_remaining
        /\ \A q \in Pid : q \in Members(g) =>
             (q # p => ThreadInv(q)') /\ AttachedOK(q)' /\ FleetOK(q)'
        /\ \A r \in Pid : RequestOK(r)'
        /\ \A q \in Pid : /\ SeatOK(q, g)'
                          /\ q # p => ~Starting(q, g)' /\ ~Restarting(q, g)'
        /\ \A h \in Gid \ {g} : p \notin Members(h) /\ o \notin Members(h)
    BY <1>1, <1>2, <1>3, <1>4, <1>5, StartPlayer
  <1>7. ThreadInv(p)'
    <2>1. players'[p].state # "DISCONNECTED"
      BY <1>2, <1>3, <1>6
    <2> QED BY <1>4, <2>1, IdleThread
  <1>8. GameInv(g)'
    <2>1. GameOK(g) /\ FightOK(g)
      BY DEF MatchInv, Games, GameInv
    <2>2. FightOK(g)'
      <3>1. games[g].current_turn \in {c, o}
        BY <1>2, <2>1 DEF FightOK
      <3>2. ASSUME NEW i \in Members(g), players[i].ships_remaining = 0
            PROVE  i # games[g].current_turn /\ thr'[games[g].current_turn].pc = "declare_win"
        <4>1. i # games[g].current_turn /\ thr[games[g].current_turn].pc = "declare_win"
          BY <1>2, <2>1, <3>2 DEF FightOK
        <4> QED BY <1>1, <1>4, <3>1, <4>1
      <3>3. \A i \in Members(g) : players'[i].state = "IN_GAME"
        BY <1>2, <1>3, <1>6
      <3> QED BY <1>1, <1>2, <1>6, <2>1, <3>1, <3>2, <3>3 DEF FightOK, Members
    <2> QED BY <1>1, <1>2, <2>1, <2>2 DEF GameInv, GameOK, FlagsOK, FinishOK
  <1>9. ASSUME NEW q \in Pid PROVE PairInv(q, g)'
    <2>1. ~Starting(p, g)' /\ ~Restarting(p, g)'
      BY <1>4 DEF Starting, Restarting
    <2> QED BY <1>6, <2>1 DEF PairInv, StartOK, RestartOK
  <1>10. \A q \in Pid : Near(q, p, o, g) => q \in Members(g)
    BY <1>2 DEF Near
  <1>11. Members(g)' = Members(g) /\ GameOf(p)' = g /\ GameOf(o)' = g
    BY <1>1, <1>2, <1>6 DEF Members
  <1> QED BY <1>1, <1>4, <1>6, <1>7, <1>8, <1>9, <1>10, <1>11, LocalStep

-----------------------------------------------------------------------------
(* The shots                                                               *)

(* the two players of a match, while one of them fires *)
LEMMA DuringShot ==
  ASSUME MatchInv, NEW p \in Pid, thr[p].cmd = "FIRE",
         thr[p].pc \in Shooting,
         NEW g, thr[p].game = g, NEW o, thr[p].other = o
  PROVE  /\ g \in Gid /\ GameOf(p) = g /\ o \in Pid /\ o # p /\ Members(g) = {p, o} /\ GameOf(o) = g
         /\ o = OtherMember(g, p) /\ games[g].state = "IN_PROGRESS" /\ games[g].current_turn = p
         /\ games[g] # FreeGame /\ players[p].state = "IN_GAME" /\ games[g].id = g
         /\ players[o].state \in {"READY", "IN_GAME"}
         /\ players[p].ships_remaining > 0
         /\ thr[p].pc = "declare_win" <=> players[o].ships_remaining = 0
         /\ \A q \in Pid : Starting(q, g) => /\ q # p /\ thr[q].pc = "start_opponent"
                                             /\ games[g].creator_id = p /\ games[g].opponent_id = o
         /\ \A q \in Pid : ~Restarting(q, g)
         /\ ~(thr[o].cmd = "FIRE" /\ thr[o].pc \in Shooting)
         /\ thr[o].pc \notin {"finish_self", "finish_opponent", "copy_code", "attach",
                              "assign_opponent", "seat_requester", "seat_creator"}
         /\ ~(thr[o].cmd = "READY" /\ thr[o].pc \in {"get_game", "mark_ready"})
  <1>1. /\ thr[p].pc \in Shooting
        /\ g \in Gid /\ GameOf(p) = g /\ p \in Members(g) /\ o = OtherMember(g, p)
        /\ games[g].state = "IN_PROGRESS" /\ games[g].current_turn = p
        /\ players[p].state = "IN_GAME"
        /\ thr[p].pc = "declare_win" => players[o].ships_remaining = 0
    BY OwnGame, Mine DEF ShotOK, Shooting
  <1>2. games[g] # FreeGame
    BY <1>1 DEF FreeGame
  <1>3. /\ o \in Pid /\ o # p /\ Members(g) = {p, o} /\ games[g].id = g
        /\ games[g].creator_id # games[g].opponent_id
    BY <1>1, <1>2, TwoSeats
  <1>4. GameOf(o) = g
    BY <1>1, <1>2, <1>3, BothAttached
  <1>5. players[o].state \in {"READY", "IN_GAME"}
    <2>1. games[g].state \in Phases(players[o].state) /\ players[o].state \in PlayerStates
      BY <1>1, <1>3, <1>4, GameOfPlayer, Fields, Mine, NoIdNowhere
    <2> QED BY <1>1, <2>1 DEF Phases, PlayerStates
  <1>6. /\ players[p].ships_remaining > 0
        /\ players[o].ships_remaining = 0 => thr[p].pc = "declare_win"
    <2>1. FightOK(g)
      BY <1>1 DEF MatchInv, Games, GameInv
    <2>2. players[p].ships_remaining # 0
          /\ (players[o].ships_remaining = 0 => thr[p].pc = "declare_win")
      BY <1>1, <1>3, <2>1 DEF FightOK
    <2> QED BY <2>2, Fields, Mine, ConstantsAssumption
  <1>7. ASSUME NEW q \in Pid, Starting(q, g)
        PROVE  /\ q # p /\ thr[q].pc = "start_opponent"
               /\ games[g].creator_id = p /\ games[g].opponent_id = o
    <2>1. StartOK(q, g)
      BY <1>1 DEF MatchInv, Pairs, PairInv
    <2>2. games[g].opponent_id # p
      BY <1>1, <1>7, <2>1 DEF StartOK
    <2>3. games[g].creator_id = p /\ games[g].opponent_id = o
      BY <1>1, <1>3, <2>2 DEF Members, OtherMember
    <2>4. thr[q].pc = "start_opponent"
      BY <1>1, <1>7, <2>1, <2>3 DEF StartOK
    <2> QED BY <1>1, <2>3, <2>4 DEF Shooting
  <1>8. \A q \in Pid : ~Restarting(q, g)
    BY <1>1, RestartFacts
  <1>9. /\ ~(thr[o].cmd = "FIRE" /\ thr[o].pc \in Shooting)
        /\ thr[o].pc \notin {"finish_self", "finish_opponent"}
    <2>1. thr[o].pc \in {"finish_self", "finish_opponent"} => thr[o].game = g /\ games[g].state = "FINISHED"
      BY <1>3, <1>4, OwnGame, Mine DEF ShotOK
    <2>2. thr[o].cmd = "FIRE" /\ thr[o].pc \in Shooting
          => thr[o].game = g /\ games[g].current_turn = o
      BY <1>3, <1>4, OwnGame, Mine DEF ShotOK, Shooting
    <2> QED BY <1>1, <1>3, <2>1, <2>2
  <1>10. /\ thr[o].pc \notin {"copy_code", "attach"}
         /\ thr[o].pc \notin {"assign_opponent", "seat_requester", "seat_creator"}
    <2>1. ~Creating(o)
      BY <1>1, <1>3, <1>4, OwnGame, NoIdNowhere
    <2>2. thr[o].pc \in {"assign_opponent", "seat_requester", "seat_creator"} =>
            thr[o].game = g /\ games[g].state \in {"WAITING_PLAYERS", "PLACING_SHIPS"}
      BY <1>3, <1>4, OwnGame, Mine DEF AnswerOK
    <2> QED BY <1>1, <2>1, <2>2 DEF Creating
  <1>11. ~(thr[o].cmd = "READY" /\ thr[o].pc \in {"get_game", "mark_ready"})
    BY <1>1, <1>3, <1>4, Mine DEF MarkingOK
  <1> QED BY <1>1, <1>2, <1>3, <1>4, <1>5, <1>6, <1>7, <1>8, <1>9, <1>10, <1>11

(* the steps that take the mutexes of two players *)
LEMMA AimMatch ==
  ASSUME MatchInv, TypeInv', OwnSlot', NEW p \in Pid, Aim(p) PROVE MatchInv'
  <1>1. /\ UNCHANGED <<players, games>>
        /\ thr[p].pc \in {"order_first", "order_second", "lock_first"}
    BY AimFrame
  <1>2. thr[p].cmd = "FIRE" /\ thr[p].pc \in Shooting
    BY <1>1, Mine DEF HandlerOK, SectionsOf, Shooting
  <1>3. PICK t \in Thread :
          /\ thr' = [thr EXCEPT ![p] = t]
          /\ t.pc \in {"order_second", "lock_first", "shoot"}
          /\ t.cmd = thr[p].cmd /\ t.game = thr[p].game /\ t.other = thr[p].other
    BY AimStep, Mine
  <1>4. /\ thr'[p].pc \in {"order_second", "lock_first", "shoot"} /\ thr'[p].cmd = "FIRE"
        /\ thr'[p].game = thr[p].game /\ thr'[p].other = thr[p].other
        /\ \A q \in Pid \ {p} : thr'[q] = thr[q]
    BY <1>2, <1>3, Mine, MovesThread
  <1>5. HandlerOK(p)' /\ LocalOK(p)'
    BY <1>1, <1>2, <1>4, Mine DEF HandlerOK, SectionsOf, StatesIn, LocalOK, GameOf
  <1>6. ShotOK(p)'
    BY <1>1, <1>2, <1>4, Mine DEF ShotOK, OtherMember, GameOf, Shooting
  <1> QED BY <1>1, <1>2, <1>4, <1>5, <1>6, QuietStep
          DEF ThreadOnly, Held, Restarting, MarkingOK, AnswerOK, Invitations

LEMMA ShootMatch ==
  ASSUME MatchInv, TypeInv', OwnSlot', SeveralShips, NEW p \in Pid, Shoot(p) PROVE MatchInv'
  <1>1. thr[p].pc = "shoot" /\ UNCHANGED games
    BY DEF Shoot, At, gameVars
  <1>2. CASE Return(p) /\ UNCHANGED players
    BY <1>1, <1>2, ReturnQuiet DEF Held
  <1>3. CASE ~(Return(p) /\ UNCHANGED players)
    <2> SUFFICES ASSUME NEW g, thr[p].game = g, NEW o, thr[p].other = o PROVE MatchInv'
      OBVIOUS
    <2>0. thr[p].cmd = "FIRE"
      BY <1>1, Mine DEF HandlerOK, SectionsOf
    <2>1. /\ g \in Gid /\ GameOf(p) = g /\ o \in Pid /\ o # p /\ Members(g) = {p, o} /\ GameOf(o) = g
          /\ o = OtherMember(g, p) /\ games[g].state = "IN_PROGRESS" /\ games[g].current_turn = p
          /\ players[p].state = "IN_GAME" /\ players[o].state \in {"READY", "IN_GAME"}
          /\ players[p].ships_remaining > 0 /\ players[o].ships_remaining # 0
          /\ \A q \in Pid : Starting(q, g) => /\ q # p /\ thr[q].pc = "start_opponent"
                                             /\ games[g].creator_id = p /\ games[g].opponent_id = o
          /\ \A q \in Pid : ~Restarting(q, g)
          /\ ~(thr[o].cmd = "FIRE" /\ thr[o].pc \in Shooting)
      BY <1>1, <2>0, DuringShot DEF Shooting
    <2>2. players[o] \in Player /\ players[o].ships_remaining \in 0 .. MaxShips
      BY <2>1, Locals, Fields, Mine
    <2>3. /\ \A q \in Pid \ {o} : players'[q] = players[q]
          /\ players'[o].state = players[o].state /\ players'[o].ships_placed = players[o].ships_placed
          /\ GameOf(o)' = g
          /\ players'[o].ships_remaining \in {players[o].ships_remaining, players[o].ships_remaining - 1}
      <3>1. CASE UNCHANGED players
        BY <2>1, <3>1 DEF GameOf
      <3>2. CASE ~UNCHANGED players
        <4>1. players' = [players EXCEPT ![o] = [players[o] EXCEPT !.ships_remaining =
                                                                     players[o].ships_remaining - 1]]
          BY <1>3, <3>2 DEF Shoot
        <4>2. players'[o] = [players[o] EXCEPT !.ships_remaining = players[o].ships_remaining - 1]
              /\ \A q \in Pid \ {o} : players'[q] = players[q]
          BY <2>1, <4>1, Mine, MovesPlayer
        <4> QED BY <2>1, <2>2, <4>2 DEF Player, GameOf
      <3> QED BY <3>1, <3>2
    <2>4. players'[o].ships_remaining \in 0 .. MaxShips
      BY <2>1, Fields DEF TypeInv, TypeOK, Player
    <2> DEFINE s == IF Defeated(players'[o].ships_remaining) THEN "declare_win" ELSE "pass_turn"
    <2>5. Goto(p, s)
      BY <1>3 DEF Shoot
    <2>6. /\ thr'[p].pc = s /\ thr'[p].cmd = "FIRE" /\ thr'[p].game = g /\ thr'[p].other = o
          /\ \A q \in Pid \ {p} : thr'[q] = thr[q]
      BY <2>0, <2>5, Mine, GotoThread
    <2>7. \/ thr'[p].pc = "declare_win" /\ players'[o].ships_remaining = 0
          \/ thr'[p].pc = "pass_turn" /\ players'[o].ships_remaining > 0
      <3>1. \/ players'[o].ships_remaining = 0 /\ Defeated(players'[o].ships_remaining)
            \/ players'[o].ships_remaining > 0 /\ ~Defeated(players'[o].ships_remaining)
        BY <2>4, ConstantsAssumption DEF Defeated
      <3> QED BY <2>6, <3>1
    <2>8. thr'[p].pc \in {"declare_win", "pass_turn"}
      BY <2>7
    <2> HIDE DEF s
    <2>9. players'[p] = players[p] /\ GameOf(p)' = g /\ Members(g)' = {p, o} /\ thr'[o] = thr[o]
      BY <1>1, <2>1, <2>3, <2>6 DEF GameOf, Members
    <2>10. ThreadInv(p)'
      <3>1. HandlerOK(p)' /\ LocalOK(p)'
        BY <2>1, <2>6, <2>8, <2>9 DEF HandlerOK, SectionsOf, StatesIn, LocalOK
      <3>2. ShotOK(p)'
        BY <1>1, <2>1, <2>6, <2>7, <2>9 DEF ShotOK, OtherMember
      <3> QED BY <2>6, <2>8, <3>1, <3>2
              DEF ThreadInv, CreatorOK, Creating, AnswerOK, Invitations, MarkingOK
    <2>11. ThreadInv(o)'
      <3>1. /\ HandlerOK(o) /\ LocalOK(o) /\ CreatorOK(o) /\ AnswerOK(o) /\ MarkingOK(o) /\ ShotOK(o)
        BY <2>1, Mine
      <3>2. \A r \in Pid : thr[r].pc # "none" => thr'[r].pc # "none"
        BY <2>6, <2>8
      <3>3. AnswerOK(o)'
        BY <1>1, <2>1, <2>9, <3>1, <3>2, NamedThreads DEF AnswerOK
      <3>4. HandlerOK(o)' /\ LocalOK(o)'
        BY <2>1, <2>3, <2>9, <3>1 DEF HandlerOK, LocalOK
      <3>5. CreatorOK(o)' /\ MarkingOK(o)'
        BY <1>1, <2>1, <2>3, <2>9, <3>1 DEF CreatorOK, Creating, MarkingOK, OwnReady
      <3>6. ShotOK(o)'
        BY <1>1, <2>1, <2>3, <2>9, <3>1 DEF ShotOK, OtherMember
      <3> QED BY <3>3, <3>4, <3>5, <3>6 DEF ThreadInv
    <2>12. AttachedOK(p)' /\ FleetOK(p)' /\ AttachedOK(o)' /\ FleetOK(o)'
      <3>1. AttachedOK(p) /\ FleetOK(p) /\ AttachedOK(o) /\ FleetOK(o)
        BY <2>1, Mine
      <3> QED BY <1>1, <2>1, <2>3, <2>9, <3>1 DEF AttachedOK, FleetOK, Members
    <2>13. \A r \in Pid : RequestOK(r)'
      <3>1. ~Waiting(p) /\ ~Waiting(o)
        BY <2>1, NoIdNowhere DEF Waiting
      <3> QED BY <1>1, <2>1, <2>3, <2>6, <2>8, <3>1, NotAsked, PlayerRequests
    <2>14. \A q \in Pid : Starting(q, g)' <=> Starting(q, g)
      <3>1. \A q \in Pid : GameOf(q)' = GameOf(q)
        BY <2>1, <2>3 DEF GameOf
      <3> QED BY <1>1, <2>6, <2>8, <3>1 DEF Starting
    <2>15. GameInv(g)'
      <3>1. GameOK(g) /\ FightOK(g)
        BY <2>1 DEF MatchInv, Games, GameInv
      <3>2. FightOK(g)'
        <4>1. \A i \in {p, o} : /\ players'[i].ships_placed = MaxShips
                                /\ players'[i].state = "READY" => \E q \in Pid : Starting(q, g)'
          BY <2>1, <2>3, <2>9, <2>14, <3>1 DEF FightOK
        <4>2. \A i \in {p, o} : players'[i].ships_remaining = 0 => i # p /\ thr'[p].pc = "declare_win"
          BY <2>1, <2>7, <2>9
        <4> QED BY <1>1, <2>1, <2>9, <4>1, <4>2 DEF FightOK
      <3> QED BY <1>1, <2>1, <3>1, <3>2 DEF GameInv, GameOK, FlagsOK, FinishOK
    <2>16. ASSUME NEW q \in Pid PROVE PairInv(q, g)'
      <3>1. SeatOK(q, g)'
        BY <2>3, <2>9 DEF SeatOK
      <3>2. StartOK(q, g)'
        <4> SUFFICES ASSUME Starting(q, g) PROVE StartOK(q, g)'
          BY <2>14 DEF StartOK
        <4>1. /\ StartOK(q, g) /\ q # p /\ thr[q].pc = "start_opponent" /\ thr'[q] = thr[q]
              /\ games[g].creator_id = p /\ games[g].opponent_id = o
          BY <2>1, <2>6 DEF MatchInv, Pairs, PairInv
        <4>2. players[o].ships_remaining = MaxShips
          BY <1>1, <2>1, <4>1 DEF StartOK
        <4>3. players'[o].ships_remaining >= MaxShips - 1 /\ players'[o].ships_remaining > 0
          BY <2>3, <4>2, ConstantsAssumption DEF SeveralShips
        <4>4. thr'[p].pc = "pass_turn"
          BY <2>7, <4>3
        <4> QED BY <1>1, <2>1, <2>3, <2>9, <2>14, <4>1, <4>3, <4>4 DEF StartOK
      <3>3. ~Restarting(q, g)'
        <4>1. GameOf(q)' = GameOf(q) /\ (q = p => thr'[q].cmd = "FIRE" /\ thr'[q].pc \notin {"restart_self", "restart_opponent"})
          BY <2>1, <2>3, <2>6, <2>8 DEF GameOf
        <4> QED BY <2>1, <2>6, <4>1 DEF Restarting
      <3> QED BY <3>1, <3>2, <3>3 DEF PairInv, RestartOK
    <2>17. \A h \in Gid \ {g} : p \notin Members(h) /\ o \notin Members(h)
      BY <2>1, NoSeatElsewhere
    <2>18. \A q \in Pid : Near(q, p, o, g) => q \in {p, o}
      BY <2>1 DEF Near
    <2> QED BY <1>1, <2>1, <2>3, <2>6, <2>8, <2>9, <2>10, <2>11, <2>12, <2>13, <2>15, <2>16, <2>17, <2>18,
               LocalStep
  <1> QED BY <1>2, <1>3

(* The game changes, but not who plays in it. *)
SameSeatsIn(g) ==
  /\ \A h \in Gid \ {g} : games'[h] = games[h]
  /\ games'[g].id = games[g].id /\ games'[g].creator_id = games[g].creator_id
  /\ games'[g].opponent_id = games[g].opponent_id
  /\ games'[g].pending_invite_from = games[g].pending_invite_from

LEMMA SeatsInGame ==
  ASSUME MatchInv, NEW p \in Pid, NEW g \in Gid, SameSeatsIn(g), UNCHANGED players,
         \A q \in Pid \ {p} : thr'[q] = thr[q], thr[p].pc # "set_invited",
         thr'[p].pc \notin {"none", "seat_requester", "release_requester"}
  PROVE  /\ \A h \in Gid : Members(h)' = Members(h)
         /\ \A i : OtherMember(g, i)' = OtherMember(g, i)
         /\ \A q \in Pid : GameOf(q)' = GameOf(q)
         /\ \A r \in Pid : RequestOK(r)'
         /\ \A r \in Pid : thr[r].pc # "none" => thr'[r].pc # "none"
  <1>1. \A h \in Gid : Members(h)' = Members(h)
                       /\ games'[h].pending_invite_from = games[h].pending_invite_from
    BY DEF SameSeatsIn, Members
  <1>2. \A q \in Pid : GameOf(q)' = GameOf(q)
    BY DEF GameOf
  <1>3. ASSUME NEW r \in Pid PROVE RequestOK(r)'
    <2>1. Waiting(r) => Waiting(r)'
      BY <1>2 DEF Waiting
    <2> QED BY <1>1, <2>1, NotAsked, RequestsKept
  <1> QED BY <1>1, <1>2, <1>3 DEF OtherMember, SameSeatsIn

(* the thread of the player that is shot at, when the game changes *)
LEMMA ShotAtThread ==
  ASSUME MatchInv, NEW p \in Pid, thr[p].cmd = "FIRE", thr[p].pc \in {"declare_win", "pass_turn"},
         NEW g, thr[p].game = g, NEW o, thr[p].other = o, SameSeatsIn(g), UNCHANGED players,
         \A q \in Pid \ {p} : thr'[q] = thr[q], thr'[p].pc # "none",
         games'[g].state \in {"IN_PROGRESS", "FINISHED"}
  PROVE  ThreadInv(o)'
  <1>1. /\ g \in Gid /\ GameOf(p) = g /\ o \in Pid /\ o # p /\ GameOf(o) = g
        /\ ~(thr[o].cmd = "FIRE" /\ thr[o].pc \in Shooting)
        /\ thr[o].pc \notin {"finish_self", "finish_opponent", "copy_code", "attach",
                              "assign_opponent", "seat_requester", "seat_creator"}
        /\ ~(thr[o].cmd = "READY" /\ thr[o].pc \in {"get_game", "mark_ready"})
    BY DuringShot DEF Shooting
  <1>2. /\ HandlerOK(o) /\ LocalOK(o) /\ AnswerOK(o) /\ ShotOK(o)
        /\ thr'[o] = thr[o] /\ GameOf(o)' = g
        /\ \A r \in Pid : thr[r].pc # "none" => thr'[r].pc # "none"
    BY <1>1, Mine DEF GameOf
  <1>3. HandlerOK(o)' /\ LocalOK(o)'
    BY <1>1, <1>2 DEF HandlerOK, LocalOK
  <1>4. AnswerOK(o)'
    BY <1>1, <1>2, NamedThreads DEF AnswerOK
  <1>5. CreatorOK(o)' /\ MarkingOK(o)'
    BY <1>1, <1>2 DEF CreatorOK, Creating, MarkingOK
  <1>6. ShotOK(o)'
    <2>1. thr[o].cmd \in {"FIRE", "REMATCH"}
             /\ thr[o].pc \notin {"read_game_id", "get_game", "check_turn", "ask_rematch"}
          => thr[o].game = g
      BY <1>1, OwnGame
    <2>2. \A i : OtherMember(g, i)' = OtherMember(g, i)
      BY DEF OtherMember, SameSeatsIn
    <2> QED BY <1>1, <1>2, <2>1, <2>2 DEF ShotOK
  <1> QED BY <1>3, <1>4, <1>5, <1>6 DEF ThreadInv

LEMMA PassTurnMatch ==
  ASSUME MatchInv, TypeInv', OwnSlot', NEW p \in Pid, PassTurn(p) PROVE MatchInv'
  <1>1. thr[p].pc = "pass_turn" /\ UNCHANGED players
    BY DEF PassTurn, At, playerVars
  <1> SUFFICES ASSUME NEW g, thr[p].game = g, NEW o, thr[p].other = o PROVE MatchInv'
    OBVIOUS
  <1>2. thr[p].cmd = "FIRE"
    BY <1>1, Mine DEF HandlerOK, SectionsOf
  <1>3. /\ g \in Gid /\ GameOf(p) = g /\ o \in Pid /\ o # p /\ Members(g) = {p, o} /\ GameOf(o) = g
        /\ games[g].state = "IN_PROGRESS" /\ games[g].current_turn = p
        /\ players[p].state = "IN_GAME" /\ players[o].state \in {"READY", "IN_GAME"}
        /\ players[p].ships_remaining > 0 /\ players[o].ships_remaining # 0
        /\ \A q \in Pid : Starting(q, g) => /\ q # p /\ thr[q].pc = "start_opponent"
                                           /\ games[g].creator_id = p /\ games[g].opponent_id = o
        /\ \A q \in Pid : ~Restarting(q, g)
    BY <1>1, <1>2, DuringShot DEF Shooting
  <1>4. /\ games'[g].current_turn = o /\ games'[g].state = "IN_PROGRESS"
        /\ SameSeatsIn(g)
    <2>1. games[g] \in Game
      BY <1>3, GameFields, Mine
    <2>2. games'[g] = [games[g] EXCEPT !.current_turn = o] /\ \A h \in Gid \ {g} : games'[h] = games[h]
      <3>1. games' = [games EXCEPT ![g] = [games[g] EXCEPT !.current_turn = o]]
        BY DEF PassTurn
      <3> QED BY <1>3, <3>1, Mine, MovesGame
    <2> QED BY <1>3, <2>1, <2>2 DEF Game, SameSeatsIn
  <1>5. thr'[p].pc = "receive" /\ thr'[p].cmd = "NONE" /\ \A q \in Pid \ {p} : thr'[q] = thr[q]
    BY Mine, ReturnThread DEF PassTurn
  <1>6. /\ \A h \in Gid : Members(h)' = Members(h)
        /\ \A q \in Pid : GameOf(q)' = GameOf(q)
        /\ \A r \in Pid : RequestOK(r)'
    BY <1>1, <1>3, <1>4, <1>5, SeatsInGame
  <1>7. ThreadInv(p)' /\ ThreadInv(o)'
    <2>1. ThreadInv(p)'
      BY <1>1, <1>3, <1>5, IdleThread
    <2>2. ThreadInv(o)'
      BY <1>1, <1>2, <1>4, <1>5, ShotAtThread
    <2> QED BY <2>1, <2>2
  <1>8. AttachedOK(p)' /\ FleetOK(p)' /\ AttachedOK(o)' /\ FleetOK(o)'
    <2>1. AttachedOK(p) /\ FleetOK(p) /\ AttachedOK(o) /\ FleetOK(o)
      BY <1>3, Mine
    <2> QED BY <1>1, <1>3, <1>4, <1>6, <2>1 DEF AttachedOK, FleetOK
  <1>9. \A q \in Pid : /\ Starting(q, g)' <=> Starting(q, g)
                       /\ ~Restarting(q, g)'
    BY <1>1, <1>3, <1>5, <1>6 DEF Starting, Restarting
  <1>10. GameInv(g)'
    <2>1. GameOK(g) /\ FightOK(g)
      BY <1>3 DEF MatchInv, Games, GameInv
    <2>2. FightOK(g)'
      <3>1. \A i \in {p, o} : /\ players[i].ships_placed = MaxShips
                              /\ players[i].state = "READY" => \E q \in Pid : Starting(q, g)'
                              /\ players[i].ships_remaining # 0
        BY <1>3, <1>9, <2>1 DEF FightOK
      <3> QED BY <1>1, <1>3, <1>4, <1>6, <3>1 DEF FightOK
    <2>3. GameOK(g)'
      <3>1. games[g] # FreeGame /\ games'[g].creator_id # NoId
        BY <1>3, <1>4, NoIdNowhere DEF FreeGame, SameSeatsIn, GameOK, Members
      <3> QED BY <1>3, <1>4, <2>1, <3>1 DEF GameOK, SameSeatsIn
    <2> QED BY <1>4, <2>2, <2>3 DEF GameInv, FlagsOK, FinishOK
  <1>11. ASSUME NEW q \in Pid PROVE PairInv(q, g)'
    <2>1. SeatOK(q, g)'
      BY <1>3, <1>6 DEF SeatOK
    <2>2. StartOK(q, g)'
      <3> SUFFICES ASSUME Starting(q, g) PROVE StartOK(q, g)'
        BY <1>9 DEF StartOK
      <3>1. /\ StartOK(q, g) /\ q # p /\ thr[q].pc = "start_opponent" /\ thr'[q] = thr[q]
            /\ games[g].creator_id = p /\ games[g].opponent_id = o
        BY <1>3, <1>5 DEF MatchInv, Pairs, PairInv
      <3> QED BY <1>1, <1>3, <1>4, <1>9, <3>1 DEF StartOK, SameSeatsIn
    <2> QED BY <1>9, <2>1, <2>2 DEF PairInv, RestartOK
  <1>12. \A h \in Gid \ {g} : p \notin Members(h) /\ o \notin Members(h)
    BY <1>3, NoSeatElsewhere
  <1>13. \A q \in Pid : Near(q, p, o, g) => q \in {p, o}
    BY <1>3 DEF Near
  <1> QED BY <1>1, <1>3, <1>4, <1>5, <1>6, <1>7, <1>8, <1>10, <1>11, <1>12, <1>13, LocalStep
          DEF SameSeatsIn

LEMMA DeclareWinMatch ==
  ASSUME MatchInv, TypeInv', OwnSlot', NEW p \in Pid, DeclareWin(p) PROVE MatchInv'
  <1>1. thr[p].pc = "declare_win" /\ UNCHANGED players
    BY DEF DeclareWin, At, playerVars
  <1> SUFFICES ASSUME NEW g, thr[p].game = g, NEW o, thr[p].other = o PROVE MatchInv'
    OBVIOUS
  <1>2. thr[p].cmd = "FIRE"
    BY <1>1, Mine DEF HandlerOK, SectionsOf
  <1>3. /\ g \in Gid /\ GameOf(p) = g /\ o \in Pid /\ o # p /\ Members(g) = {p, o} /\ GameOf(o) = g
        /\ o = OtherMember(g, p) /\ games[g].state = "IN_PROGRESS" /\ games[g].current_turn = p
        /\ players[p].state = "IN_GAME" /\ players[o].state \in {"READY", "IN_GAME"}
        /\ players[p].ships_remaining > 0 /\ players[o].ships_remaining = 0
        /\ \A q \in Pid : Starting(q, g) => /\ q # p /\ thr[q].pc = "start_opponent"
                                           /\ games[g].creator_id = p /\ games[g].opponent_id = o
        /\ \A q \in Pid : ~Restarting(q, g)
    BY <1>1, <1>2, DuringShot DEF Shooting
  <1>4. /\ games'[g].state = "FINISHED" /\ games'[g].current_turn = p
        /\ ~games'[g].creator_wants_rematch /\ ~games'[g].opponent_wants_rematch
        /\ SameSeatsIn(g)
    <2>1. games[g] \in Game
      BY <1>3, GameFields, Mine
    <2>2. games'[g] = [games[g] EXCEPT !.state = "FINISHED", !.creator_wants_rematch = FALSE,
                                       !.opponent_wants_rematch = FALSE]
          /\ \A h \in Gid \ {g} : games'[h] = games[h]
      <3>1. games' = [games EXCEPT ![g] = [games[g] EXCEPT !.state = "FINISHED",
                                  !.creator_wants_rematch = FALSE, !.opponent_wants_rematch = FALSE]]
        BY DEF DeclareWin
      <3> QED BY <1>3, <3>1, Mine, MovesGame
    <2> QED BY <1>3, <2>1, <2>2 DEF Game, SameSeatsIn
  <1>5. /\ thr'[p].pc = "finish_self" /\ thr'[p].cmd = "FIRE" /\ thr'[p].game = g /\ thr'[p].other = o
        /\ \A q \in Pid \ {p} : thr'[q] = thr[q]
    BY <1>2, Mine, GotoThread DEF DeclareWin
  <1>6. /\ \A h \in Gid : Members(h)' = Members(h)
        /\ \A i : OtherMember(g, i)' = OtherMember(g, i)
        /\ \A q \in Pid : GameOf(q)' = GameOf(q)
        /\ \A r \in Pid : RequestOK(r)'
    BY <1>1, <1>3, <1>4, <1>5, SeatsInGame
  <1>7. \A q \in Pid : ~Starting(q, g)
    <2> SUFFICES ASSUME NEW q \in Pid, Starting(q, g) PROVE FALSE
      OBVIOUS
    <2>1. StartOK(q, g) /\ thr[q].pc = "start_opponent" /\ games[g].opponent_id = o
          /\ games[g].creator_id = p
      BY <1>3 DEF MatchInv, Pairs, PairInv
    <2> QED BY <1>1, <1>3, <2>1, ConstantsAssumption DEF StartOK
  <1>8. players[o].state = "IN_GAME"
    <2>1. FightOK(g)
      BY <1>3 DEF MatchInv, Games, GameInv
    <2> QED BY <1>3, <1>7, <2>1 DEF FightOK
  <1>9. ThreadInv(p)' /\ ThreadInv(o)'
    <2>1. HandlerOK(p)' /\ LocalOK(p)'
      BY <1>1, <1>3, <1>5, <1>6 DEF HandlerOK, SectionsOf, StatesIn, LocalOK
    <2>2. ShotOK(p)'
      BY <1>3, <1>4, <1>5, <1>6 DEF ShotOK, Shooting
    <2>3. ThreadInv(p)'
      BY <1>5, <2>1, <2>2 DEF ThreadInv, CreatorOK, Creating, AnswerOK, Invitations, MarkingOK
    <2>4. ThreadInv(o)'
      BY <1>1, <1>2, <1>4, <1>5, ShotAtThread
    <2> QED BY <2>3, <2>4
  <1>10. AttachedOK(p)' /\ FleetOK(p)' /\ AttachedOK(o)' /\ FleetOK(o)'
    BY <1>1, <1>3, <1>4, <1>6, <1>8, NoIdNowhere DEF AttachedOK, FleetOK, Phases
  <1>11. GameInv(g)'
    <2>1. GameOK(g)
      BY <1>3 DEF MatchInv, Games, GameInv
    <2>2. GameOK(g)'
      <3>1. games[g] # FreeGame
        BY <1>3, NoIdNowhere DEF FreeGame
      <3> QED BY <1>3, <1>4, <2>1, <3>1 DEF GameOK, SameSeatsIn
    <2>3. FinishOK(g)'
      <3>1. OtherMember(g, p)' = o /\ Members(g)' = {p, o} /\ \A i : ~Wants(g, i)'
        BY <1>3, <1>4, <1>6 DEF Wants
      <3> QED BY <1>1, <1>3, <1>4, <1>5, <1>8, <3>1 DEF FinishOK
    <2> QED BY <1>4, <2>2, <2>3 DEF GameInv, FlagsOK, FightOK
  <1>12. ASSUME NEW q \in Pid PROVE PairInv(q, g)'
    <2>1. SeatOK(q, g)'
      BY <1>3, <1>6 DEF SeatOK
    <2>2. ~Starting(q, g)' /\ ~Restarting(q, g)'
      BY <1>3, <1>5, <1>6, <1>7 DEF Starting, Restarting
    <2> QED BY <2>1, <2>2 DEF PairInv, StartOK, RestartOK
  <1>13. \A h \in Gid \ {g} : p \notin Members(h) /\ o \notin Members(h)
    BY <1>3, NoSeatElsewhere
  <1>14. \A q \in Pid : Near(q, p, o, g) => q \in {p, o}
    BY <1>3 DEF Near
  <1> QED BY <1>1, <1>3, <1>4, <1>5, <1>6, <1>9, <1>10, <1>11, <1>12, <1>13, <1>14, LocalStep
          DEF SameSeatsIn

(* the two players of a match, while the winner ends it for both *)
LEMMA DuringFinish ==
  ASSUME MatchInv, NEW p \in Pid, thr[p].pc \in {"finish_self", "finish_opponent"},
         NEW g, thr[p].game = g, NEW o, thr[p].other = o
  PROVE  /\ g \in Gid /\ GameOf(p) = g /\ o \in Pid /\ o # p /\ Members(g) = {p, o} /\ GameOf(o) = g
         /\ o = OtherMember(g, p) /\ games[g].state = "FINISHED" /\ games[g].current_turn = p
         /\ thr[p].cmd = "FIRE" /\ players[p].state \in {"IN_GAME", "FINISHED"}
         /\ players[p].ships_remaining > 0 /\ players[o].ships_remaining = 0
         /\ players[p].state = "IN_GAME" <=> thr[p].pc = "finish_self"
         /\ players[o].state = "IN_GAME" /\ ~Wants(g, p) /\ ~Wants(g, o)
         /\ \A q \in Pid : ~Starting(q, g) /\ ~Restarting(q, g)
  <1>1. thr[p].cmd = "FIRE" /\ players[p].state \in {"IN_GAME", "FINISHED"}
    BY Mine DEF HandlerOK, SectionsOf, StatesIn
  <1>2. /\ g \in Gid /\ GameOf(p) = g /\ p \in Members(g) /\ o = OtherMember(g, p)
        /\ games[g].state = "FINISHED" /\ games[g].current_turn = p
    BY <1>1, OwnGame, Mine DEF ShotOK
  <1>3. games[g].id = g /\ games[g] # FreeGame
    BY <1>2, GameOfPlayer, NoIdNowhere DEF FreeGame
  <1>4. o \in Pid /\ o # p /\ Members(g) = {p, o} /\ GameOf(o) = g
    BY <1>2, <1>3, TwoSeats, BothAttached
  <1>5. FinishOK(g)
    BY <1>2 DEF MatchInv, Games, GameInv
  <1>6. /\ players[p].ships_remaining > 0 /\ players[o].ships_remaining = 0
        /\ players[p].state = "IN_GAME" <=> thr[p].pc = "finish_self"
        /\ players[o].state = "IN_GAME" /\ ~Wants(g, p) /\ ~Wants(g, o)
    BY <1>1, <1>2, <1>3, <1>4, <1>5 DEF FinishOK, Used
  <1>7. \A q \in Pid : ~Starting(q, g) /\ ~Restarting(q, g)
    BY <1>2, NamedThreads, RestartFacts
  <1> QED BY <1>1, <1>2, <1>4, <1>6, <1>7

LEMMA FinishSelfMatch ==
  ASSUME MatchInv, TypeInv', OwnSlot', NEW p \in Pid, FinishSelf(p) PROVE MatchInv'
  <1>1. thr[p].pc = "finish_self" /\ UNCHANGED games
    BY DEF FinishSelf, At, gameVars
  <1> SUFFICES ASSUME NEW g, thr[p].game = g, NEW o, thr[p].other = o PROVE MatchInv'
    OBVIOUS
  <1>2. /\ g \in Gid /\ GameOf(p) = g /\ o \in Pid /\ o # p /\ Members(g) = {p, o} /\ GameOf(o) = g
        /\ o = OtherMember(g, p) /\ games[g].state = "FINISHED" /\ games[g].current_turn = p
        /\ thr[p].cmd = "FIRE"
        /\ players[p].ships_remaining > 0 /\ players[o].ships_remaining = 0
        /\ players[o].state = "IN_GAME" /\ ~Wants(g, p) /\ ~Wants(g, o)
        /\ \A q \in Pid : ~Starting(q, g) /\ ~Restarting(q, g)
    BY <1>1, DuringFinish
  <1>3. /\ players'[p].state = "FINISHED" /\ GameOf(p)' = g
        /\ players'[p].ships_remaining = players[p].ships_remaining
        /\ \A q \in Pid \ {p} : players'[q] = players[q]
    BY <1>2, Mine, PlayerFields DEF FinishSelf
  <1>4. /\ thr'[p].pc = "finish_opponent" /\ thr'[p].cmd = "FIRE"
        /\ thr'[p].game = g /\ thr'[p].other = o
        /\ \A q \in Pid \ {p} : thr'[q] = thr[q]
    BY <1>2, Mine, GotoThread DEF FinishSelf
  <1>5. /\ players'[o] = players[o] /\ thr'[o] = thr[o] /\ GameOf(o)' = g /\ Members(g)' = {p, o}
        /\ \A q \in Pid : GameOf(q)' = GameOf(q)
    BY <1>1, <1>2, <1>3, <1>4 DEF GameOf, Members
  <1>6. ThreadInv(p)'
    <2>1. HandlerOK(p)' /\ LocalOK(p)' /\ ShotOK(p)'
      BY <1>1, <1>2, <1>3, <1>4 DEF HandlerOK, SectionsOf, StatesIn, LocalOK, ShotOK, OtherMember, Shooting
    <2> QED BY <1>4, <2>1 DEF ThreadInv, CreatorOK, Creating, AnswerOK, Invitations, MarkingOK
  <1>7. ThreadInv(o)'
    <2>1. \A r \in Pid : players'[r].ships_remaining = players[r].ships_remaining
                         /\ (thr[r].pc # "none" => thr'[r].pc # "none")
      BY <1>3, <1>4
    <2>2. thr[o].cmd = "FIRE" /\ thr[o].pc \in {"declare_win", "pass_turn"} => thr[o].other \in Pid
      BY <1>2, Locals, Mine DEF ThreadOK, OtherSections
    <2> QED BY <1>1, <1>2, <1>5, <2>1, <2>2, OtherThread
  <1>8. AttachedOK(p)' /\ FleetOK(p)' /\ AttachedOK(o)' /\ FleetOK(o)'
    BY <1>1, <1>2, <1>3, <1>5, NoIdNowhere DEF AttachedOK, FleetOK, Phases
  <1>9. \A r \in Pid : RequestOK(r)'
    <2>1. ~Waiting(p)
      BY <1>2, NoIdNowhere DEF Waiting
    <2> QED BY <1>1, <1>3, <1>4, <2>1, NotAsked, PlayerRequests
  <1>10. GameInv(g)'
    <2>1. GameOK(g)
      BY <1>2 DEF MatchInv, Games, GameInv
    <2>2. FinishOK(g)'
      <3>1. OtherMember(g, p)' = o /\ ~Wants(g, p)' /\ ~Wants(g, o)'
        BY <1>1, <1>2 DEF OtherMember, Wants
      <3> QED BY <1>1, <1>2, <1>3, <1>4, <1>5, <3>1 DEF FinishOK
    <2> QED BY <1>1, <1>2, <2>1, <2>2 DEF GameInv, GameOK, FlagsOK, FightOK
  <1>11. ASSUME NEW q \in Pid PROVE PairInv(q, g)'
    <2>1. SeatOK(q, g)'
      BY <1>2, <1>3, <1>5 DEF SeatOK
    <2>2. ~Starting(q, g)' /\ ~Restarting(q, g)'
      BY <1>2, <1>4, <1>5 DEF Starting, Restarting
    <2> QED BY <2>1, <2>2 DEF PairInv, StartOK, RestartOK
  <1>12. \A h \in Gid \ {g} : p \notin Members(h)
    BY <1>2, NoSeatElsewhere
  <1>13. \A q \in Pid : Near(q, p, p, g) => q \in {p, o}
    BY <1>2 DEF Near
  <1> QED BY <1>1, <1>2, <1>3, <1>4, <1>5, <1>6, <1>7, <1>8, <1>9, <1>10, <1>11, <1>12, <1>13, LocalStep

LEMMA FinishOpponentMatch ==
  ASSUME MatchInv, TypeInv', OwnSlot', NEW p \in Pid, FinishOpponent(p) PROVE MatchInv'
  <1>1. thr[p].pc = "finish_opponent" /\ UNCHANGED games
    BY DEF FinishOpponent, At, gameVars
  <1> SUFFICES ASSUME NEW g, thr[p].game = g, NEW o, thr[p].other = o PROVE MatchInv'
    OBVIOUS
  <1>2. /\ g \in Gid /\ GameOf(p) = g /\ o \in Pid /\ o # p /\ Members(g) = {p, o} /\ GameOf(o) = g
        /\ o = OtherMember(g, p) /\ games[g].state = "FINISHED" /\ games[g].current_turn = p
        /\ players[p].state = "FINISHED"
        /\ players[p].ships_remaining > 0 /\ players[o].ships_remaining = 0
        /\ players[o].state = "IN_GAME" /\ ~Wants(g, p) /\ ~Wants(g, o)
        /\ \A q \in Pid : ~Starting(q, g) /\ ~Restarting(q, g)
    BY <1>1, DuringFinish
  <1>3. /\ players'[o].state = "FINISHED" /\ GameOf(o)' = g
        /\ players'[o].ships_remaining = players[o].ships_remaining
        /\ \A q \in Pid \ {o} : players'[q] = players[q]
    BY <1>2, Mine, PlayerFields DEF FinishOpponent
  <1>4. thr'[p].pc = "receive" /\ thr'[p].cmd = "NONE" /\ \A q \in Pid \ {p} : thr'[q] = thr[q]
    BY Mine, ReturnThread DEF FinishOpponent
  <1>5. /\ players'[p] = players[p] /\ thr'[o] = thr[o] /\ GameOf(p)' = g /\ Members(g)' = {p, o}
        /\ \A q \in Pid : GameOf(q)' = GameOf(q)
    BY <1>1, <1>2, <1>3, <1>4 DEF GameOf, Members
  <1>6. ThreadInv(p)'
    BY <1>2, <1>4, <1>5, IdleThread
  <1>7. ThreadInv(o)'
    <2>1. /\ HandlerOK(o) /\ LocalOK(o) /\ AnswerOK(o) /\ CreatorOK(o) /\ MarkingOK(o) /\ ShotOK(o)
      BY <1>2, Mine
    <2>2. thr[o].pc # "start_opponent"
      BY <1>2 DEF Starting
    <2>3. HandlerOK(o)'
      BY <1>2, <1>3, <1>5, <2>1, <2>2 DEF HandlerOK, SectionsOf, StatesIn, PlayerStates
    <2>4. \A r \in Pid : thr[r].pc # "none" => thr'[r].pc # "none"
      BY <1>4
    <2>5. AnswerOK(o)'
      BY <1>1, <1>2, <1>5, <2>1, <2>4, NamedThreads DEF AnswerOK
    <2>6. CreatorOK(o)' /\ MarkingOK(o)' /\ LocalOK(o)'
      BY <1>1, <1>2, <1>3, <1>5, <2>1 DEF CreatorOK, Creating, MarkingOK, OwnReady, LocalOK
    <2>7. ~(thr[o].cmd = "FIRE" /\ thr[o].pc \in Shooting)
      BY <1>2, <2>1, OwnGame DEF ShotOK, Shooting
    <2>8. ShotOK(o)'
      BY <1>1, <1>2, <1>3, <1>5, <2>1, <2>7 DEF ShotOK, OtherMember
    <2> QED BY <2>3, <2>5, <2>6, <2>8 DEF ThreadInv
  <1>8. AttachedOK(p)' /\ FleetOK(p)' /\ AttachedOK(o)' /\ FleetOK(o)'
    BY <1>1, <1>2, <1>3, <1>5, NoIdNowhere DEF AttachedOK, FleetOK, Phases
  <1>9. \A r \in Pid : RequestOK(r)'
    <2>1. ~Waiting(p) /\ ~Waiting(o)
      BY <1>2, NoIdNowhere DEF Waiting
    <2> QED BY <1>1, <1>2, <1>3, <1>4, <2>1, NotAsked, PlayerRequests
  <1>10. GameInv(g)'
    <2>1. GameOK(g)
      BY <1>2 DEF MatchInv, Games, GameInv
    <2>2. FinishOK(g)'
      <3>1. OtherMember(g, p)' = o /\ ~Wants(g, p)' /\ ~Wants(g, o)'
        BY <1>1, <1>2 DEF OtherMember, Wants
      <3> QED BY <1>1, <1>2, <1>3, <1>4, <1>5, <3>1 DEF FinishOK
    <2> QED BY <1>1, <1>2, <2>1, <2>2 DEF GameInv, GameOK, FlagsOK, FightOK
  <1>11. ASSUME NEW q \in Pid PROVE PairInv(q, g)'
    <2>1. SeatOK(q, g)'
      BY <1>2, <1>3, <1>5 DEF SeatOK
    <2>2. ~Starting(q, g)' /\ ~Restarting(q, g)'
      BY <1>2, <1>4, <1>5 DEF Starting, Restarting
    <2> QED BY <2>1, <2>2 DEF PairInv, StartOK, RestartOK
  <1>12. \A h \in Gid \ {g} : p \notin Members(h) /\ o \notin Members(h)
    BY <1>2, NoSeatElsewhere
  <1>13. \A q \in Pid : Near(q, p, o, g) => q \in {p, o}
    BY <1>2 DEF Near
  <1> QED BY <1>1, <1>2, <1>3, <1>4, <1>5, <1>6, <1>7, <1>8, <1>9, <1>10, <1>11, <1>12, <1>13, LocalStep

-----------------------------------------------------------------------------
(* The rematch                                                             *)

LEMMA DuringRestart ==
  ASSUME MatchInv, NEW p \in Pid, thr[p].pc \in {"restart_self", "restart_opponent"},
         NEW g, GameOf(p) = g, NEW o, thr[p].other = o
  PROVE  /\ g \in Gid /\ o \in Pid /\ o # p /\ Members(g) = {p, o} /\ GameOf(o) = g
         /\ o = OtherMember(g, p) /\ thr[p].game = g /\ thr[p].cmd = "REMATCH"
         /\ games[g].state = "PLACING_SHIPS" /\ ~games[g].creator_ready /\ ~games[g].opponent_ready
         /\ players[o].state = "FINISHED"
         /\ players[p].state = IF thr[p].pc = "restart_opponent" THEN "PLACING_SHIPS" ELSE "FINISHED"
         /\ \A q \in Pid : /\ ~Starting(q, g)
                           /\ Restarting(q, g) => p = q
         /\ ~(thr[o].cmd = "FIRE")
  <1>1. thr[p].cmd = "REMATCH"
    BY Mine DEF HandlerOK, SectionsOf
  <1>2. GameOf(p) \in Gid /\ thr[p].game = GameOf(p)
    BY <1>1, OwnGame
  <1>3. Restarting(p, g)
    BY <1>1 DEF Restarting
  <1>4. /\ g \in Gid /\ RestartOK(p, g) /\ o \in Pid /\ o # p /\ Members(g) = {p, o} /\ GameOf(o) = g
        /\ o = OtherMember(g, p) /\ games[g].state = "PLACING_SHIPS"
    BY <1>2, <1>3, RestartFacts
  <1>5. \A q \in Pid : ~Starting(q, g)
    BY <1>4, NamedThreads
  <1>6. thr[o].cmd # "FIRE"
    BY <1>4, Mine DEF ShotOK
  <1> QED BY <1>1, <1>2, <1>3, <1>4, <1>5, <1>6 DEF RestartOK

LEMMA RestartSelfMatch ==
  ASSUME MatchInv, TypeInv', OwnSlot', NEW p \in Pid, RestartSelf(p) PROVE MatchInv'
  <1>1. thr[p].pc = "restart_self" /\ UNCHANGED games
    BY DEF RestartSelf, At, gameVars
  <1> SUFFICES ASSUME NEW g, GameOf(p) = g, NEW o, thr[p].other = o PROVE MatchInv'
    OBVIOUS
  <1>2. /\ g \in Gid /\ o \in Pid /\ o # p /\ Members(g) = {p, o} /\ GameOf(o) = g
        /\ o = OtherMember(g, p) /\ thr[p].game = g /\ thr[p].cmd = "REMATCH"
        /\ games[g].state = "PLACING_SHIPS" /\ ~games[g].creator_ready /\ ~games[g].opponent_ready
        /\ players[o].state = "FINISHED" /\ players[p].state = "FINISHED"
        /\ \A q \in Pid : /\ ~Starting(q, g)
                          /\ Restarting(q, g) => p = q
        /\ ~(thr[o].cmd = "FIRE")
    BY <1>1, DuringRestart
  <1>3. /\ players'[p].state = "PLACING_SHIPS" /\ GameOf(p)' = g
        /\ players'[p].ships_remaining = MaxShips
        /\ \A q \in Pid \ {p} : players'[q] = players[q]
    BY <1>2, Mine, PlayerFields DEF RestartSelf, Restart
  <1>4. /\ thr'[p].pc = "restart_opponent" /\ thr'[p].cmd = "REMATCH"
        /\ thr'[p].game = g /\ thr'[p].other = o
        /\ \A q \in Pid \ {p} : thr'[q] = thr[q]
    BY <1>2, Mine, GotoThread DEF RestartSelf
  <1>5. /\ players'[o] = players[o] /\ thr'[o] = thr[o] /\ GameOf(o)' = g /\ Members(g)' = {p, o}
        /\ \A q \in Pid : GameOf(q)' = GameOf(q)
    BY <1>1, <1>2, <1>3, <1>4 DEF GameOf, Members
  <1>6. ThreadInv(p)'
    <2>1. HandlerOK(p)' /\ LocalOK(p)' /\ ShotOK(p)'
      BY <1>1, <1>2, <1>3, <1>4 DEF HandlerOK, SectionsOf, StatesIn, LocalOK, ShotOK, OtherMember
    <2> QED BY <1>4, <2>1 DEF ThreadInv, CreatorOK, Creating, AnswerOK, Invitations, MarkingOK
  <1>7. ThreadInv(o)'
    <2>1. \A r \in Pid : thr[r].pc # "none" => thr'[r].pc # "none"
      BY <1>4
    <2> QED BY <1>1, <1>2, <1>5, <2>1, OtherThread
  <1>8. AttachedOK(p)' /\ FleetOK(p)' /\ AttachedOK(o)' /\ FleetOK(o)'
    BY <1>1, <1>2, <1>3, <1>5, NoIdNowhere DEF AttachedOK, FleetOK, Phases
  <1>9. \A r \in Pid : RequestOK(r)'
    <2>1. ~Waiting(p)
      BY <1>2, NoIdNowhere DEF Waiting
    <2> QED BY <1>1, <1>3, <1>4, <2>1, NotAsked, PlayerRequests
  <1>10. GameInv(g)'
    <2>1. GameOK(g)
      BY <1>2 DEF MatchInv, Games, GameInv
    <2> QED BY <1>1, <1>2, <2>1 DEF GameInv, GameOK, FlagsOK, FightOK, FinishOK
  <1>11. ASSUME NEW q \in Pid PROVE PairInv(q, g)'
    <2>1. SeatOK(q, g)'
      BY <1>2, <1>3, <1>5 DEF SeatOK
    <2>2. ~Starting(q, g)'
      BY <1>2, <1>4, <1>5 DEF Starting
    <2>3. \A r \in Pid : Restarting(r, g)' => p = r
      BY <1>2, <1>4, <1>5 DEF Restarting
    <2>4. RestartOK(q, g)'
      BY <1>1, <1>2, <1>3, <1>4, <1>5, <2>3 DEF RestartOK
    <2> QED BY <2>1, <2>2, <2>4 DEF PairInv, StartOK
  <1>12. \A h \in Gid \ {g} : p \notin Members(h)
    BY <1>2, NoSeatElsewhere
  <1>13. \A q \in Pid : Near(q, p, p, g) => q \in {p, o}
    BY <1>2 DEF Near
  <1> QED BY <1>1, <1>2, <1>3, <1>4, <1>5, <1>6, <1>7, <1>8, <1>9, <1>10, <1>11, <1>12, <1>13, LocalStep

LEMMA RestartOpponentMatch ==
  ASSUME MatchInv, TypeInv', OwnSlot', NEW p \in Pid, RestartOpponent(p) PROVE MatchInv'
  <1>1. thr[p].pc = "restart_opponent" /\ UNCHANGED games
    BY DEF RestartOpponent, At, gameVars
  <1> SUFFICES ASSUME NEW g, GameOf(p) = g, NEW o, thr[p].other = o PROVE MatchInv'
    OBVIOUS
  <1>2. /\ g \in Gid /\ o \in Pid /\ o # p /\ Members(g) = {p, o} /\ GameOf(o) = g
        /\ games[g].state = "PLACING_SHIPS" /\ ~games[g].creator_ready /\ ~games[g].opponent_ready
        /\ players[o].state = "FINISHED" /\ players[p].state = "PLACING_SHIPS"
        /\ \A q \in Pid : /\ ~Starting(q, g)
                          /\ Restarting(q, g) => p = q
        /\ ~(thr[o].cmd = "FIRE")
    BY <1>1, DuringRestart
  <1>3. /\ players'[o].state = "PLACING_SHIPS" /\ GameOf(o)' = g
        /\ players'[o].ships_remaining = MaxShips
        /\ \A q \in Pid \ {o} : players'[q] = players[q]
    BY <1>2, Mine, PlayerFields DEF RestartOpponent, Restart
  <1>4. thr'[p].pc = "receive" /\ thr'[p].cmd = "NONE" /\ \A q \in Pid \ {p} : thr'[q] = thr[q]
    BY Mine, ReturnThread DEF RestartOpponent
  <1>5. /\ players'[p] = players[p] /\ thr'[o] = thr[o] /\ GameOf(p)' = g /\ Members(g)' = {p, o}
        /\ \A q \in Pid : GameOf(q)' = GameOf(q)
    BY <1>1, <1>2, <1>3, <1>4 DEF GameOf, Members
  <1>6. ThreadInv(p)'
    BY <1>2, <1>4, <1>5, IdleThread
  <1>7. ThreadInv(o)'
    <2>1. /\ HandlerOK(o) /\ LocalOK(o) /\ AnswerOK(o) /\ CreatorOK(o) /\ MarkingOK(o) /\ ShotOK(o)
      BY <1>2, Mine
    <2>2. thr[o].pc # "start_opponent"
      BY <1>2 DEF Starting
    <2>3. HandlerOK(o)'
      BY <1>2, <1>3, <1>5, <2>1, <2>2 DEF HandlerOK, SectionsOf, StatesIn, PlayerStates
    <2>4. \A r \in Pid : thr[r].pc # "none" => thr'[r].pc # "none"
      BY <1>4
    <2>5. AnswerOK(o)'
      BY <1>1, <1>2, <1>5, <2>1, <2>4, NamedThreads DEF AnswerOK
    <2>6. CreatorOK(o)' /\ MarkingOK(o)' /\ LocalOK(o)'
      BY <1>1, <1>2, <1>3, <1>5, <2>1 DEF CreatorOK, Creating, MarkingOK, OwnReady, LocalOK
    <2>7. ShotOK(o)'
      BY <1>1, <1>2, <1>3, <1>5, <2>1 DEF ShotOK, OtherMember
    <2> QED BY <2>3, <2>5, <2>6, <2>7 DEF ThreadInv
  <1>8. AttachedOK(p)' /\ FleetOK(p)' /\ AttachedOK(o)' /\ FleetOK(o)'
    <2>1. FleetOK(p) /\ AttachedOK(p)
      BY Mine
    <2> QED BY <1>1, <1>2, <1>3, <1>5, <2>1, NoIdNowhere DEF AttachedOK, FleetOK, Phases
  <1>9. \A r \in Pid : RequestOK(r)'
    <2>1. ~Waiting(p) /\ ~Waiting(o)
      BY <1>2, NoIdNowhere DEF Waiting
    <2> QED BY <1>1, <1>2, <1>3, <1>4, <2>1, NotAsked, PlayerRequests
  <1>10. GameInv(g)'
    <2>1. GameOK(g)
      BY <1>2 DEF MatchInv, Games, GameInv
    <2> QED BY <1>1, <1>2, <2>1 DEF GameInv, GameOK, FlagsOK, FightOK, FinishOK
  <1>11. ASSUME NEW q \in Pid PROVE PairInv(q, g)'
    <2>1. SeatOK(q, g)'
      BY <1>2, <1>3, <1>5 DEF SeatOK
    <2>2. ~Starting(q, g)' /\ ~Restarting(q, g)'
      BY <1>2, <1>4, <1>5 DEF Starting, Restarting
    <2> QED BY <2>1, <2>2 DEF PairInv, StartOK, RestartOK
  <1>12. \A h \in Gid \ {g} : p \notin Members(h) /\ o \notin Members(h)
    BY <1>2, NoSeatElsewhere
  <1>13. \A q \in Pid : Near(q, p, o, g) => q \in {p, o}
    BY <1>2 DEF Near
  <1> QED BY <1>1, <1>2, <1>3, <1>4, <1>5, <1>6, <1>7, <1>8, <1>9, <1>10, <1>11, <1>12, <1>13, LocalStep

(* the two players of a finished match, one of whom answers *)
LEMMA DuringAnswer ==
  ASSUME MatchInv, NEW p \in Pid, thr[p].pc = "ask_rematch", NEW g, thr[p].game = g,
         games[g].state = "FINISHED", NEW o, OtherMember(g, p) = o
  PROVE  /\ g \in Gid /\ GameOf(p) = g /\ o \in Pid /\ o # p /\ Members(g) = {p, o} /\ GameOf(o) = g
         /\ OtherMember(g, o) = p /\ thr[p].cmd = "REMATCH" /\ games[g] # FreeGame /\ Used(g)
         /\ games[g].pending_invite_from = NoId
         /\ players[p].state = "FINISHED" /\ players[o].state \in {"IN_GAME", "FINISHED"}
         /\ games[g].current_turn \in {p, o}
         /\ Wants(g, o) => players[o].state = "FINISHED" /\ thr[o].cmd # "FIRE"
         /\ \A q \in Pid : ~Starting(q, g) /\ ~Restarting(q, g)
         /\ ~Creating(o) /\ ~(thr[o].cmd = "READY" /\ thr[o].pc \in {"get_game", "mark_ready"})
         /\ thr[o].pc \notin {"assign_opponent", "seat_requester", "seat_creator"}
         /\ GameOK(g) /\ FinishOK(g)
  <1>1. thr[p].cmd = "REMATCH" /\ players[p].state \in {"FINISHED", "PLACING_SHIPS"}
    <2>1. thr[p].cmd = "REMATCH"
      BY Mine DEF HandlerOK, SectionsOf
    <2> QED BY <2>1, Mine DEF HandlerOK, StatesIn
  <1>2. GameOf(p) # NoId /\ thr[p].game = GameOf(p)
    BY <1>1, Mine DEF LocalOK, AttachedOK
  <1>3. g \in Gid /\ GameOf(p) = g /\ p \in Members(g) /\ Used(g) /\ players[p].state = "FINISHED"
    BY <1>1, <1>2, GameOfPlayer DEF Used, Phases
  <1>4. games[g] # FreeGame /\ GameOK(g) /\ FinishOK(g)
    BY <1>3, UsedIsNotFree DEF MatchInv, Games, GameInv
  <1>5. /\ o \in Pid /\ o # p /\ Members(g) = {p, o} /\ games[g].pending_invite_from = NoId
        /\ OtherMember(g, o) = p
    BY <1>3, <1>4, TwoSeats
  <1>6. GameOf(o) = g
    BY <1>3, <1>4, <1>5, BothAttached
  <1>7. players[o].state \in {"IN_GAME", "FINISHED"}
    <2>1. games[g].state \in Phases(players[o].state) /\ players[o].state \in PlayerStates
      BY <1>3, <1>5, <1>6, GameOfPlayer, Fields, Mine, NoIdNowhere
    <2> QED BY <2>1 DEF Phases, PlayerStates
  <1>8. /\ games[g].current_turn \in {p, o}
        /\ Wants(g, o) => players[o].state = "FINISHED" /\ thr[o].cmd # "FIRE"
    BY <1>3, <1>4, <1>5 DEF FinishOK
  <1>9. \A q \in Pid : ~Starting(q, g) /\ ~Restarting(q, g)
    BY <1>3, NamedThreads, RestartFacts
  <1>10. /\ ~Creating(o) /\ ~(thr[o].cmd = "READY" /\ thr[o].pc \in {"get_game", "mark_ready"})
         /\ thr[o].pc \notin {"assign_opponent", "seat_requester", "seat_creator"}
    <2>1. ~Creating(o)
      BY <1>3, <1>5, <1>6, OwnGame, NoIdNowhere
    <2>2. ~(thr[o].cmd = "READY" /\ thr[o].pc \in {"get_game", "mark_ready"})
      BY <1>5, <1>6, Mine DEF MarkingOK
    <2>3. thr[o].pc \in {"assign_opponent", "seat_requester", "seat_creator"}
            => thr[o].cmd = "ACCEPT_INVITE"
      BY <1>5, Mine DEF HandlerOK, SectionsOf
    <2>4. thr[o].pc \in {"assign_opponent", "seat_requester", "seat_creator"}
            => players[o].state = "WAITING_OPPONENT"
      BY <1>5, <2>3, Mine DEF HandlerOK, StatesIn
    <2> QED BY <1>7, <2>1, <2>2, <2>4
  <1> QED BY <1>1, <1>3, <1>4, <1>5, <1>6, <1>7, <1>8, <1>9, <1>10

LEMMA AskRematchMatch ==
  ASSUME MatchInv, TypeInv', OwnSlot', NEW p \in Pid, AskRematch(p) PROVE MatchInv'
  <1>1. thr[p].pc = "ask_rematch" /\ UNCHANGED players
    BY DEF AskRematch, At, playerVars
  <1> SUFFICES ASSUME NEW g, thr[p].game = g, NEW o, OtherMember(g, p) = o PROVE MatchInv'
    OBVIOUS
  <1>2. CASE games[g].state # "FINISHED"
    BY <1>1, <1>2, ReturnQuiet DEF Held, AskRematch
  <1>3. CASE games[g].state = "FINISHED"
    <2>1. /\ g \in Gid /\ GameOf(p) = g /\ o \in Pid /\ o # p /\ Members(g) = {p, o} /\ GameOf(o) = g
          /\ OtherMember(g, o) = p /\ thr[p].cmd = "REMATCH" /\ games[g] # FreeGame /\ Used(g)
          /\ games[g].pending_invite_from = NoId
          /\ players[p].state = "FINISHED" /\ players[o].state \in {"IN_GAME", "FINISHED"}
          /\ games[g].current_turn \in {p, o}
          /\ Wants(g, o) => players[o].state = "FINISHED" /\ thr[o].cmd # "FIRE"
          /\ \A q \in Pid : ~Starting(q, g) /\ ~Restarting(q, g)
          /\ ~Creating(o) /\ ~(thr[o].cmd = "READY" /\ thr[o].pc \in {"get_game", "mark_ready"})
          /\ thr[o].pc \notin {"assign_opponent", "seat_requester", "seat_creator"}
          /\ GameOK(g) /\ FinishOK(g)
      BY <1>1, <1>3, DuringAnswer
    <2> DEFINE creator == games[g].creator_id = p
               cwants  == games[g].creator_wants_rematch \/ creator
               owants  == games[g].opponent_wants_rematch \/ ~creator
               both    == cwants /\ owants
    <2>2. games[g] \in Game
      BY <2>1, GameFields, Mine
    <2>3. both <=> Wants(g, o)
      BY <2>1, <2>2 DEF Wants, OtherMember, Game
    <2>4. /\ thr'[p].pc = "get_player" /\ thr'[p].cmd = "REMATCH" /\ thr'[p].game = g
          /\ thr'[p].other = o /\ thr'[p].flag = both
          /\ \A q \in Pid \ {p} : thr'[q] = thr[q]
      <3>1. thr' = [thr EXCEPT ![p] = [thr[p] EXCEPT !.pc = "get_player", !.other = o, !.flag = both]]
        BY <1>3 DEF AskRematch
      <3>2. thr'[p] = [thr[p] EXCEPT !.pc = "get_player", !.other = o, !.flag = both]
            /\ \A q \in Pid \ {p} : thr'[q] = thr[q]
        BY <3>1, Mine, MovesThread
      <3>3. thr[p] \in Thread
        BY Locals, Mine
      <3> HIDE DEF both
      <3> QED BY <2>1, <3>2, <3>3 DEF Thread
    <2>5. /\ SameSeatsIn(g)
          /\ Wants(g, o) => /\ games'[g].state = "PLACING_SHIPS"
                            /\ ~games'[g].creator_ready /\ ~games'[g].opponent_ready
          /\ ~Wants(g, o) => /\ games'[g].state = "FINISHED"
                             /\ games'[g].current_turn = games[g].current_turn
                             /\ ~Wants(g, o)'
      <3>1. CASE Wants(g, o)
        <4>1. games' = [games EXCEPT ![g] = Rematch(games[g])]
          BY <1>3, <2>3, <3>1 DEF AskRematch
        <4>2. games'[g] = Rematch(games[g]) /\ \A h \in Gid \ {g} : games'[h] = games[h]
          BY <2>1, <4>1, Mine, MovesGame
        <4> QED BY <2>1, <3>1, <4>2 DEF Rematch, FreeGame, SameSeatsIn, Used
      <3>2. CASE ~Wants(g, o)
        <4>1. games' = [games EXCEPT ![g] = [games[g] EXCEPT !.creator_wants_rematch = cwants,
                                                            !.opponent_wants_rematch = owants]]
          BY <1>3, <2>3, <3>2 DEF AskRematch
        <4>2. games'[g] = [games[g] EXCEPT !.creator_wants_rematch = cwants,
                                           !.opponent_wants_rematch = owants]
              /\ \A h \in Gid \ {g} : games'[h] = games[h]
          BY <2>1, <4>1, Mine, MovesGame
        <4>3. /\ games'[g].state = "FINISHED" /\ games'[g].current_turn = games[g].current_turn
              /\ games'[g].creator_wants_rematch = cwants /\ games'[g].opponent_wants_rematch = owants
              /\ SameSeatsIn(g)
          BY <1>3, <2>2, <4>2 DEF Game, SameSeatsIn
        <4>4. ~Wants(g, o)'
          BY <2>1, <3>2, <4>3 DEF Wants, SameSeatsIn, OtherMember
        <4> QED BY <3>2, <4>3, <4>4
      <3> QED BY <3>1, <3>2
    <2> HIDE DEF both
    <2>6. /\ \A h \in Gid : Members(h)' = Members(h)
          /\ \A i : OtherMember(g, i)' = OtherMember(g, i)
          /\ \A q \in Pid : GameOf(q)' = GameOf(q)
          /\ \A r \in Pid : RequestOK(r)'
          /\ \A r \in Pid : thr[r].pc # "none" => thr'[r].pc # "none"
      BY <1>1, <2>1, <2>4, <2>5, SeatsInGame
    <2>7. ThreadInv(p)'
      <3>1. HandlerOK(p)' /\ LocalOK(p)' /\ ShotOK(p)'
        BY <1>1, <2>1, <2>4, <2>6 DEF HandlerOK, SectionsOf, StatesIn, LocalOK, ShotOK
      <3> QED BY <2>4, <3>1 DEF ThreadInv, CreatorOK, Creating, AnswerOK, Invitations, MarkingOK
    <2>8. ThreadInv(o)'
      <3>1. /\ HandlerOK(o) /\ LocalOK(o) /\ AnswerOK(o) /\ ShotOK(o) /\ thr'[o] = thr[o]
        BY <2>1, <2>4, Mine
      <3>2. HandlerOK(o)' /\ LocalOK(o)'
        BY <1>1, <2>1, <2>6, <3>1 DEF HandlerOK, LocalOK
      <3>3. AnswerOK(o)'
        BY <2>1, <2>6, <3>1, NamedThreads DEF AnswerOK
      <3>4. CreatorOK(o)' /\ MarkingOK(o)'
        BY <2>1, <3>1 DEF CreatorOK, Creating, MarkingOK
      <3>5. ShotOK(o)'
        <4>1. thr[o].cmd \in {"FIRE", "REMATCH"}
                /\ thr[o].pc \notin {"read_game_id", "get_game", "check_turn", "ask_rematch"}
              => thr[o].game = g
          BY <2>1, OwnGame
        <4>2. thr[o].pc \in {"finish_self", "finish_opponent"} => thr[o].cmd = "FIRE"
          BY <3>1 DEF HandlerOK, SectionsOf
        <4>3. thr[o].cmd = "FIRE" =>
                games'[g].state = "FINISHED" /\ games'[g].current_turn = games[g].current_turn
          BY <2>1, <2>5
        <4> QED BY <1>1, <1>3, <2>1, <2>6, <3>1, <4>1, <4>2, <4>3 DEF ShotOK, Shooting
      <3> QED BY <3>2, <3>3, <3>4, <3>5 DEF ThreadInv
    <2>9. AttachedOK(p)' /\ FleetOK(p)' /\ AttachedOK(o)' /\ FleetOK(o)'
      BY <1>1, <2>1, <2>5, <2>6, NoIdNowhere DEF AttachedOK, FleetOK, Phases
    <2>10. GameInv(g)'
      <3>1. GameOK(g)'
        BY <1>3, <2>1, <2>5 DEF GameOK, SameSeatsIn
      <3>2. FinishOK(g)'
        <4> SUFFICES ASSUME ~Wants(g, o) PROVE FinishOK(g)'
          BY <2>5 DEF FinishOK
        <4>1. /\ games'[g].current_turn = games[g].current_turn /\ ~Wants(g, o)'
          BY <2>5
        <4>2. /\ \A i \in {p, o} : \A s \in {"finish_self", "finish_opponent"} :
                     thr'[i].pc = s <=> thr[i].pc = s
              /\ \A i \in {p, o} : OtherMember(g, i) \in {p, o}
          BY <1>1, <2>1, <2>4
        <4>3. thr'[p].cmd # "FIRE"
          BY <2>4
        <4> SUFFICES ASSUME NEW w, games[g].current_turn = w, NEW l, OtherMember(g, w) = l
                     PROVE  FinishOK(g)'
          OBVIOUS
        <4>4. /\ w \in {p, o} /\ l \in {p, o}
              /\ players[w].ships_remaining > 0 /\ players[l].ships_remaining = 0
              /\ players[w].state = "IN_GAME" <=> thr'[w].pc = "finish_self"
              /\ players[l].state = "IN_GAME" <=> thr'[w].pc \in {"finish_self", "finish_opponent"}
          BY <1>3, <2>1, <4>2 DEF FinishOK
        <4>5. games'[g].current_turn = w /\ OtherMember(g, w)' = l /\ Members(g)' = {p, o}
          BY <2>1, <2>6, <4>1
        <4>6. \A i \in {p, o} :
                Wants(g, i)' => players'[i].state = "FINISHED" /\ thr'[i].cmd # "FIRE"
          BY <1>1, <2>1, <4>1, <4>3
        <4>7. /\ players'[w].ships_remaining > 0 /\ players'[l].ships_remaining = 0
              /\ players'[w].state = "IN_GAME" <=> thr'[w].pc = "finish_self"
              /\ players'[l].state = "IN_GAME" <=> thr'[w].pc \in {"finish_self", "finish_opponent"}
          BY <1>1, <4>4
        <4> QED BY <4>1, <4>4, <4>5, <4>6, <4>7 DEF FinishOK
      <3> QED BY <2>5, <3>1, <3>2 DEF GameInv, FlagsOK, FightOK
    <2>11. ASSUME NEW q \in Pid PROVE PairInv(q, g)'
      <3>1. SeatOK(q, g)'
        BY <2>1, <2>6 DEF SeatOK
      <3>2. ~Starting(q, g)'
        BY <2>1, <2>4, <2>6 DEF Starting
      <3>3. \A r \in Pid : Restarting(r, g)' => r = p /\ Wants(g, o)
        BY <2>1, <2>3, <2>4, <2>6 DEF Restarting
      <3>4. RestartOK(q, g)'
        BY <1>1, <2>1, <2>4, <2>5, <3>3 DEF RestartOK
      <3> QED BY <3>1, <3>2, <3>4 DEF PairInv, StartOK
    <2>12. \A h \in Gid \ {g} : p \notin Members(h)
      BY <2>1, NoSeatElsewhere
    <2>13. \A q \in Pid : Near(q, p, p, g) => q \in {p, o}
      BY <2>1 DEF Near
    <2> QED BY <1>1, <2>1, <2>4, <2>5, <2>6, <2>7, <2>8, <2>9, <2>10, <2>11, <2>12, <2>13, LocalStep
            DEF SameSeatsIn
  <1> QED BY <1>2, <1>3

-----------------------------------------------------------------------------
(* READY: the flags of the two players                                     *)

LEMMA DuringMark ==
  ASSUME MatchInv, NEW p \in Pid, thr[p].pc = "mark_ready", NEW g, thr[p].game = g,
         NEW o, OtherMember(g, p) = o
  PROVE  /\ g \in Gid /\ GameOf(p) = g /\ o \in Pid /\ o # p /\ Members(g) = {p, o} /\ GameOf(o) = g
         /\ OtherMember(g, o) = p /\ thr[p].cmd = "READY" /\ games[g] # FreeGame
         /\ games[g].state = "PLACING_SHIPS" /\ ~OwnReady(g, p)
         /\ players[p].state = "READY" /\ players[p].ships_placed = MaxShips
         /\ players[p].ships_remaining = MaxShips
         /\ OwnReady(g, o) => /\ players[o].state = "READY" /\ players[o].ships_placed = MaxShips
                              /\ players[o].ships_remaining = MaxShips
                              /\ thr[o].cmd \in {"NONE", "REJECT_INVITE"}
         /\ \A q \in Pid : ~Starting(q, g) /\ ~Restarting(q, g)
         /\ ~Creating(o) /\ GameOK(g)
  <1>1. thr[p].cmd = "READY" /\ players[p].state = "READY"
    BY Mine DEF HandlerOK, SectionsOf, StatesIn
  <1>2. g \in Gid /\ GameOf(p) = g /\ p \in Members(g)
    BY <1>1, OwnGame, Mine DEF LocalOK
  <1>3. games[g].state = "PLACING_SHIPS" /\ ~OwnReady(g, p)
    BY <1>1, <1>2, Mine DEF MarkingOK
  <1>4. games[g] # FreeGame /\ GameOK(g) /\ FlagsOK(g)
    BY <1>2, <1>3 DEF FreeGame, MatchInv, Games, GameInv
  <1>5. /\ o \in Pid /\ o # p /\ Members(g) = {p, o} /\ OtherMember(g, o) = p
        /\ games[g].creator_id # games[g].opponent_id
    BY <1>2, <1>3, <1>4, TwoSeats
  <1>6. ~Creating(o)
    BY <1>2, <1>3, <1>5, OwnGame, NoSeatElsewhere, Mine DEF CreatorOK
  <1>7. GameOf(o) = g
    <2>1. SeatOK(o, g)
      BY <1>2, <1>5 DEF MatchInv, Pairs, PairInv
    <2>2. ~(games[g].opponent_id = o /\ Admitting(games[g].creator_id, o))
      BY <1>5 DEF Admitting, Members
    <2> QED BY <1>5, <1>6, <2>1, <2>2 DEF SeatOK
  <1>8. players[p].ships_placed = MaxShips /\ players[p].ships_remaining = MaxShips
    BY <1>1, <1>2, <1>3, Mine DEF FleetOK
  <1>9. \A q \in Pid : ~Starting(q, g) /\ ~Restarting(q, g)
    <2>1. \A q \in Pid : ~Starting(q, g)
      BY <1>2, <1>3, NamedThreads
    <2>2. ASSUME NEW q \in Pid, Restarting(q, g) PROVE FALSE
      <3>1. RestartOK(q, g) /\ p \in {q, thr[q].other}
        BY <1>2, <2>2, RestartFacts
      <3> QED BY <1>1, <2>2, <3>1 DEF RestartOK
    <2> QED BY <2>1, <2>2
  <1>10. ASSUME OwnReady(g, o)
         PROVE  /\ players[o].state = "READY" /\ players[o].ships_placed = MaxShips
                /\ players[o].ships_remaining = MaxShips
                /\ thr[o].cmd \in {"NONE", "REJECT_INVITE"}
    <2>1. players[o].state = "READY"
      BY <1>3, <1>4, <1>5, <1>10 DEF FlagsOK, OwnReady, Members
    <2>2. HandlerOK(o) /\ MarkingOK(o) /\ FleetOK(o)
      BY <1>5, Mine
    <2>3. ~(thr[o].cmd = "READY" /\ thr[o].pc \in {"get_game", "mark_ready"}) /\ ~Starting(o, g)
      BY <1>5, <1>7, <1>9, <1>10, <2>2 DEF MarkingOK
    <2>4. thr[o].cmd \in {"NONE", "REJECT_INVITE"}
      BY <1>7, <2>1, <2>2, <2>3 DEF HandlerOK, SectionsOf, StatesIn, Starting
    <2> QED BY <1>3, <1>7, <2>1, <2>2, <2>4 DEF FleetOK
  <1> QED BY <1>1, <1>2, <1>3, <1>4, <1>5, <1>6, <1>7, <1>8, <1>9, <1>10

LEMMA MarkReadyMatch ==
  ASSUME MatchInv, TypeInv', OwnSlot', NEW p \in Pid, MarkReady(p) PROVE MatchInv'
  <1>1. thr[p].pc = "mark_ready" /\ UNCHANGED players
    BY DEF MarkReady, At, playerVars
  <1> SUFFICES ASSUME NEW g, thr[p].game = g, NEW o, OtherMember(g, p) = o PROVE MatchInv'
    OBVIOUS
  <1>2. /\ g \in Gid /\ GameOf(p) = g /\ o \in Pid /\ o # p /\ Members(g) = {p, o} /\ GameOf(o) = g
        /\ OtherMember(g, o) = p /\ thr[p].cmd = "READY" /\ games[g] # FreeGame
        /\ games[g].state = "PLACING_SHIPS" /\ ~OwnReady(g, p)
        /\ players[p].state = "READY" /\ players[p].ships_placed = MaxShips
        /\ players[p].ships_remaining = MaxShips
        /\ OwnReady(g, o) => /\ players[o].state = "READY" /\ players[o].ships_placed = MaxShips
                             /\ players[o].ships_remaining = MaxShips
                             /\ thr[o].cmd \in {"NONE", "REJECT_INVITE"}
        /\ \A q \in Pid : ~Starting(q, g) /\ ~Restarting(q, g)
        /\ ~Creating(o) /\ GameOK(g)
    BY <1>1, DuringMark
  <1> SUFFICES ASSUME NEW c, games[g].creator_id = c, NEW d, games[g].opponent_id = d PROVE MatchInv'
    OBVIOUS
  <1> DEFINE creator == c = p
             cready  == games[g].creator_ready \/ creator
             oready  == games[g].opponent_ready \/ ~creator
             both    == cready /\ oready
  <1>3. games[g] \in Game /\ c # d /\ Members(g) = {c, d} /\ {c, d} = {p, o}
    BY <1>2, GameFields, Mine, TwoSeats DEF Members
  <1>4. both <=> OwnReady(g, o)
    BY <1>2, <1>3 DEF OwnReady, Game
  <1>5. \A h \in Gid \ {g} : p \notin Members(h)
    BY <1>2, NoSeatElsewhere
  <1>6. \A q \in Pid : Near(q, p, p, g) => q \in {p, o}
    BY <1>2 DEF Near
  <1>7. CASE both
    <2>1. /\ games'[g].state = "IN_PROGRESS" /\ games'[g].current_turn = c /\ SameSeatsIn(g)
      <3>1. games' = [games EXCEPT ![g] = Started(games[g])]
        BY <1>7 DEF MarkReady
      <3>2. games'[g] = Started(games[g]) /\ \A h \in Gid \ {g} : games'[h] = games[h]
        BY <1>2, <3>1, Mine, MovesGame
      <3> QED BY <1>3, <3>2 DEF Started, Game, SameSeatsIn
    <2>2. /\ thr'[p].pc = "get_creator" /\ thr'[p].cmd = "READY" /\ thr'[p].game = g
          /\ thr'[p].creator = c /\ thr'[p].other = d
          /\ \A q \in Pid \ {p} : thr'[q] = thr[q]
      <3>1. thr' = [thr EXCEPT ![p] = [thr[p] EXCEPT !.pc = "get_creator", !.creator = c, !.other = d]]
        BY <1>7 DEF MarkReady
      <3>2. thr'[p] = [thr[p] EXCEPT !.pc = "get_creator", !.creator = c, !.other = d]
            /\ \A q \in Pid \ {p} : thr'[q] = thr[q]
        BY <3>1, Mine, MovesThread
      <3>3. thr[p] \in Thread
        BY Locals, Mine
      <3> QED BY <1>2, <3>2, <3>3 DEF Thread
    <2>3. /\ players[o].state = "READY" /\ players[o].ships_placed = MaxShips
          /\ players[o].ships_remaining = MaxShips
          /\ thr[o].cmd \in {"NONE", "REJECT_INVITE"}
      BY <1>2, <1>4, <1>7
    <2> HIDE DEF both
    <2>4. /\ \A h \in Gid : Members(h)' = Members(h)
          /\ \A q \in Pid : GameOf(q)' = GameOf(q)
          /\ \A r \in Pid : RequestOK(r)'
          /\ \A r \in Pid : thr[r].pc # "none" => thr'[r].pc # "none"
      BY <1>1, <1>2, <2>1, <2>2, SeatsInGame
    <2>5. ThreadInv(p)'
      <3>1. HandlerOK(p)' /\ LocalOK(p)'
        BY <1>1, <1>2, <2>2, <2>4 DEF HandlerOK, SectionsOf, StatesIn, LocalOK
      <3> QED BY <2>2, <3>1 DEF ThreadInv, CreatorOK, Creating, AnswerOK, Invitations, MarkingOK, ShotOK
    <2>6. ThreadInv(o)'
      <3>1. /\ HandlerOK(o) /\ LocalOK(o) /\ AnswerOK(o) /\ thr'[o] = thr[o]
        BY <1>2, <2>2, Mine
      <3>2. HandlerOK(o)' /\ LocalOK(o)'
        BY <1>1, <1>2, <2>4, <3>1 DEF HandlerOK, LocalOK
      <3>3. AnswerOK(o)'
        BY <1>2, <2>3, <2>4, <3>1, NamedThreads DEF AnswerOK, HandlerOK, SectionsOf
      <3>4. thr[o].pc \notin {"finish_self", "finish_opponent"}
        BY <2>3, <3>1 DEF HandlerOK, SectionsOf
      <3> QED BY <1>2, <2>3, <3>1, <3>2, <3>3, <3>4 DEF ThreadInv, CreatorOK, Creating, MarkingOK, ShotOK
    <2>7. AttachedOK(p)' /\ FleetOK(p)' /\ AttachedOK(o)' /\ FleetOK(o)'
      BY <1>1, <1>2, <2>1, <2>3, <2>4, NoIdNowhere DEF AttachedOK, FleetOK, Phases
    <2>8. \A q \in Pid : /\ Starting(q, g)' <=> q = p
                         /\ ~Restarting(q, g)'
      BY <1>2, <2>2, <2>4 DEF Starting, Restarting
    <2>9. GameInv(g)'
      <3>1. GameOK(g)'
        BY <1>2, <2>1 DEF GameOK, SameSeatsIn
      <3>2. FightOK(g)'
        <4>1. Members(g)' = {p, o} /\ c \in {p, o}
          BY <1>2, <1>3, <2>4
        <4>2. MaxShips # 0
          BY ConstantsAssumption
        <4> QED BY <1>1, <1>2, <2>1, <2>3, <2>8, <4>1, <4>2 DEF FightOK
      <3> QED BY <2>1, <3>1, <3>2 DEF GameInv, FlagsOK, FinishOK
    <2>10. ASSUME NEW q \in Pid PROVE PairInv(q, g)'
      <3>1. SeatOK(q, g)'
        BY <1>2, <2>4 DEF SeatOK
      <3>2. StartOK(q, g)'
        <4> SUFFICES ASSUME q = p PROVE StartOK(q, g)'
          BY <2>8 DEF StartOK
        <4>1. games'[g].creator_id = c /\ games'[g].opponent_id = d
          BY <2>1 DEF SameSeatsIn
        <4>2. \A i \in {c, d} : players'[i].state = "READY" /\ players'[i].ships_remaining = MaxShips
          BY <1>1, <1>2, <1>3, <2>3
        <4> QED BY <2>1, <2>2, <2>8, <4>1, <4>2 DEF StartOK
      <3> QED BY <2>8, <3>1, <3>2 DEF PairInv, RestartOK
    <2> QED BY <1>1, <1>2, <1>5, <1>6, <2>1, <2>2, <2>4, <2>5, <2>6, <2>7, <2>9, <2>10, LocalStep
            DEF SameSeatsIn
  <1>8. CASE ~both
    <2>1. /\ games'[g].state = "PLACING_SHIPS" /\ games'[g].current_turn = games[g].current_turn
          /\ games'[g].creator_ready = cready /\ games'[g].opponent_ready = oready
          /\ SameSeatsIn(g)
      <3>1. games' = [games EXCEPT ![g] = [games[g] EXCEPT !.creator_ready = cready,
                                                          !.opponent_ready = oready]]
        BY <1>8 DEF MarkReady
      <3>2. games'[g] = [games[g] EXCEPT !.creator_ready = cready, !.opponent_ready = oready]
            /\ \A h \in Gid \ {g} : games'[h] = games[h]
        BY <1>2, <3>1, Mine, MovesGame
      <3> HIDE DEF cready, oready
      <3> QED BY <1>2, <1>3, <3>2 DEF Game, SameSeatsIn
    <2>2. thr'[p].pc = "receive" /\ thr'[p].cmd = "NONE" /\ \A q \in Pid \ {p} : thr'[q] = thr[q]
      BY <1>8, Mine, ReturnThread DEF MarkReady
    <2>3. /\ ~OwnReady(g, o) /\ OwnReady(g, o)' <=> OwnReady(g, o)
          /\ OwnReady(g, p)'
      BY <1>2, <1>3, <1>4, <1>8, <2>1 DEF OwnReady, SameSeatsIn
    <2>4. /\ \A h \in Gid : Members(h)' = Members(h)
          /\ \A i : OtherMember(g, i)' = OtherMember(g, i)
          /\ \A q \in Pid : GameOf(q)' = GameOf(q)
          /\ \A r \in Pid : RequestOK(r)'
          /\ \A r \in Pid : thr[r].pc # "none" => thr'[r].pc # "none"
      BY <1>1, <1>2, <2>1, <2>2, SeatsInGame
    <2>5. ThreadInv(p)'
      BY <1>1, <1>2, <2>2, IdleThread
    <2>6. ThreadInv(o)'
      <3>1. /\ HandlerOK(o) /\ LocalOK(o) /\ AnswerOK(o) /\ MarkingOK(o) /\ ShotOK(o) /\ thr'[o] = thr[o]
        BY <1>2, <2>2, Mine
      <3>2. HandlerOK(o)' /\ LocalOK(o)'
        BY <1>1, <1>2, <2>4, <3>1 DEF HandlerOK, LocalOK
      <3>3. AnswerOK(o)'
        <4>1. thr[o].pc \in {"assign_opponent", "seat_requester", "seat_creator"} => thr[o].game = g
          BY <1>2, OwnGame
        <4>2. thr[o].pc = "assign_opponent" => FALSE
          BY <1>2, <3>1, <4>1 DEF AnswerOK
        <4> QED BY <1>2, <2>1, <2>4, <3>1, <4>1, <4>2, NamedThreads DEF AnswerOK, SameSeatsIn
      <3>4. MarkingOK(o)'
        BY <1>2, <2>1, <2>3, <2>4, <3>1 DEF MarkingOK
      <3>5. ShotOK(o)'
        <4>1. thr[o].cmd \in {"FIRE", "REMATCH"}
                /\ thr[o].pc \notin {"read_game_id", "get_game", "check_turn", "ask_rematch"}
              => thr[o].game = g
          BY <1>2, OwnGame
        <4>2. thr[o].pc \notin {"finish_self", "finish_opponent"} /\ thr[o].cmd # "FIRE"
          BY <1>2, <3>1, OwnGame DEF ShotOK
        <4> QED BY <1>1, <1>2, <2>4, <3>1, <4>1, <4>2 DEF ShotOK
      <3> QED BY <1>2, <3>1, <3>2, <3>3, <3>4, <3>5 DEF ThreadInv, CreatorOK, Creating
    <2>7. AttachedOK(p)' /\ FleetOK(p)' /\ AttachedOK(o)' /\ FleetOK(o)'
      <3>1. AttachedOK(p) /\ FleetOK(p) /\ AttachedOK(o) /\ FleetOK(o)
        BY <1>2, Mine
      <3> QED BY <1>1, <1>2, <2>1, <2>4, <3>1 DEF AttachedOK, FleetOK
    <2>8. \A q \in Pid : ~Starting(q, g)' /\ ~Restarting(q, g)'
      BY <1>2, <2>2, <2>4 DEF Starting, Restarting
    <2>9. GameInv(g)'
      <3>1. GameOK(g)'
        BY <1>2, <2>1 DEF GameOK, SameSeatsIn
      <3>2. FlagsOK(g)'
        BY <1>1, <1>2, <1>3, <2>1, <2>3 DEF FlagsOK, OwnReady, SameSeatsIn
      <3> QED BY <2>1, <3>1, <3>2 DEF GameInv, FightOK, FinishOK
    <2>10. ASSUME NEW q \in Pid PROVE PairInv(q, g)'
      <3>1. SeatOK(q, g)'
        BY <1>2, <2>4 DEF SeatOK
      <3> QED BY <2>8, <3>1 DEF PairInv, StartOK, RestartOK
    <2> QED BY <1>1, <1>2, <1>5, <1>6, <2>1, <2>2, <2>4, <2>5, <2>6, <2>7, <2>9, <2>10, LocalStep
            DEF SameSeatsIn
  <1> QED BY <1>7, <1>8

-----------------------------------------------------------------------------
(* The games that wait for a player                                        *)

LEMMA CreateGameMatch ==
  ASSUME MatchInv, TypeInv', OwnSlot', NEW p \in Pid, CreateGame(p) PROVE MatchInv'
  <1>1. thr[p].pc = "create" /\ UNCHANGED players
    BY DEF CreateGame, At, playerVars
  <1>2. CASE Return(p) /\ UNCHANGED games
    BY <1>1, <1>2, ReturnQuiet DEF Held
  <1>3. CASE ~(Return(p) /\ UNCHANGED games)
    <2>1. PICK g \in Gid : /\ games[g].id = NoId
                           /\ games' = [games EXCEPT ![g] = NewGame(g, p)]
                           /\ thr' = [thr EXCEPT ![p] = [thr[p] EXCEPT !.pc = "copy_code", !.game = g]]
      BY <1>3 DEF CreateGame, gameVars
    <2>2. thr[p].cmd = "CREATE_GAME" /\ players[p].state = "LOBBY"
      BY <1>1, Mine DEF HandlerOK, SectionsOf, StatesIn
    <2>3. GameOf(p) = NoId /\ ~Creating(p) /\ ~Waiting(p)
      BY <1>1, <2>2, Mine DEF AttachedOK, Phases, Creating, Waiting
    <2>4. /\ Unseated(p) /\ \A h \in Gid : games[h].pending_invite_from # p
          /\ \A q \in Pid : ~Answering(q, p)
      BY <2>3, NoSeat
    <2>5. /\ games[g] = FreeGame /\ games[g].state = "FINISHED" /\ games[g].pending_invite_from = NoId
          /\ Members(g) = {NoId}
      <3>1. games[g] = FreeGame
        BY <2>1, NoIdNowhere DEF MatchInv, Games, GameInv, GameOK
      <3> QED BY <3>1 DEF FreeGame, Members
    <2>6. /\ games'[g].id = g /\ games'[g].state = "WAITING_PLAYERS" /\ games'[g].creator_id = p
          /\ games'[g].opponent_id = NoId /\ games'[g].pending_invite_from = NoId
          /\ ~games'[g].creator_ready /\ ~games'[g].opponent_ready
          /\ \A h \in Gid \ {g} : games'[h] = games[h]
      <3>1. games'[g] = NewGame(g, p) /\ \A h \in Gid \ {g} : games'[h] = games[h]
        BY <2>1, Mine, MovesGame
      <3> QED BY <3>1 DEF NewGame, FreeGame
    <2>7. /\ thr'[p].pc = "copy_code" /\ thr'[p].cmd = "CREATE_GAME" /\ thr'[p].game = g
          /\ \A q \in Pid \ {p} : thr'[q] = thr[q]
      <3>1. thr'[p] = [thr[p] EXCEPT !.pc = "copy_code", !.game = g]
            /\ \A q \in Pid \ {p} : thr'[q] = thr[q]
        BY <2>1, Mine, MovesThread
      <3>2. thr[p] \in Thread
        BY Locals, Mine
      <3> QED BY <2>2, <3>1, <3>2 DEF Thread
    <2>8. /\ \A q \in Pid : GameOf(q)' = GameOf(q)
          /\ Members(g)' = {p, NoId} /\ \A h \in Gid \ {g} : Members(h)' = Members(h)
      BY <1>1, <2>6 DEF GameOf, Members
    <2>9. \A q \in Pid : Near(q, p, p, g) => ThreadInv(q)' /\ AttachedOK(q)' /\ FleetOK(q)'
      <3>1. HandlerOK(p)' /\ LocalOK(p)' /\ CreatorOK(p)'
        BY <1>1, <2>2, <2>6, <2>7 DEF HandlerOK, SectionsOf, StatesIn, LocalOK, CreatorOK
      <3>2. ThreadInv(p)' /\ AttachedOK(p)' /\ FleetOK(p)'
        BY <1>1, <2>2, <2>3, <2>7, <2>8, <3>1
        DEF ThreadInv, AnswerOK, Invitations, MarkingOK, ShotOK, AttachedOK, FleetOK
      <3> QED BY <2>5, <3>2, NoIdNowhere DEF Near
    <2>10. ASSUME NEW r \in Pid PROVE RequestOK(r)'
      <3>1. RequestOK(r)
        BY Mine
      <3>2. Waiting(r) /\ r # p => Waiting(r)'
        BY <1>1, <2>7, <2>8 DEF Waiting
      <3>3. \A q \in Pid : Answering(q, r)' => Answering(q, r) /\ q # p /\ thr'[q] = thr[q]
        BY <2>7 DEF Answering
      <3>4. \A h \in Gid : games'[h].pending_invite_from = games[h].pending_invite_from
        BY <2>5, <2>6
      <3>5. Unseated(r) /\ r # p => Unseated(r)'
        BY <2>8, NoIdNowhere DEF Unseated
      <3> QED BY <2>4, <3>1, <3>2, <3>3, <3>4, <3>5 DEF RequestOK
    <2>11. GameInv(g)'
      BY <2>6 DEF GameInv, GameOK, FlagsOK, FightOK, FinishOK
    <2>12. ASSUME NEW q \in Pid PROVE PairInv(q, g)'
      <3>1. SeatOK(q, g)'
        BY <2>3, <2>7, <2>8, NoIdNowhere DEF SeatOK, Creating
      <3>2. ~Starting(q, g) /\ ~Restarting(q, g)
        BY <2>5, NamedThreads, RestartFacts
      <3>3. ~Starting(q, g)' /\ ~Restarting(q, g)'
        BY <2>7, <2>8, <3>2 DEF Starting, Restarting
      <3> QED BY <3>1, <3>3 DEF PairInv, StartOK, RestartOK
    <2>13. \A q \in Pid : q \in Members(g)' => Unseated(q)
      BY <2>4, <2>8, NoIdNowhere
    <2> QED BY <1>1, <2>3, <2>4, <2>6, <2>7, <2>8, <2>9, <2>10, <2>11, <2>12, <2>13, LocalStep DEF Unseated
  <1> QED BY <1>2, <1>3

LEMMA FileRequestMatch ==
  ASSUME MatchInv, TypeInv', OwnSlot', NEW p \in Pid, FileRequest(p) PROVE MatchInv'
  <1>1. thr[p].pc = "file_request" /\ UNCHANGED players
    BY DEF FileRequest, At, playerVars
  <1>2. CASE Return(p) /\ UNCHANGED games
    BY <1>1, <1>2, ReturnQuiet DEF Held
  <1>3. CASE ~(Return(p) /\ UNCHANGED games)
    <2> SUFFICES ASSUME NEW g, thr[p].game = g PROVE MatchInv'
      OBVIOUS
    <2>1. g \in Gid /\ games[g] \in Game
      BY <1>1, Locals, GameFields, Mine DEF ThreadOK, GameSections
    <2> SUFFICES ASSUME NEW c, games[g].creator_id = c PROVE MatchInv'
      OBVIOUS
    <2>2. /\ c # p /\ games[g].state = "WAITING_PLAYERS" /\ GameLockFree(g)
          /\ games' = [games EXCEPT ![g].pending_invite_from = p]
          /\ thr' = [thr EXCEPT ![p] = [Idle("set_invited") EXCEPT !.cmd = "JOIN_GAME", !.creator = c]]
      BY <1>3 DEF FileRequest
    <2>3. thr[p].cmd = "JOIN_GAME" /\ players[p].state = "LOBBY"
      BY <1>1, Mine DEF HandlerOK, SectionsOf, StatesIn
    <2>4. GameOf(p) = NoId /\ ~Creating(p) /\ ~Waiting(p)
      BY <1>1, <2>3, Mine DEF AttachedOK, Phases, Creating, Waiting
    <2>5. /\ Unseated(p) /\ \A h \in Gid : games[h].pending_invite_from # p
          /\ \A q \in Pid : ~Answering(q, p)
      BY <2>4, NoSeat
    <2>6. /\ games[g].id = g /\ c \in Pid /\ games[g].opponent_id = NoId
          /\ ~games[g].creator_ready /\ ~games[g].opponent_ready
          /\ Members(g) = {c, NoId}
          /\ \A q \in Pid : ~Starting(q, g) /\ ~Restarting(q, g)
      BY <2>1, <2>2, WaitingGame DEF Members
    <2>7. /\ games'[g].id = g /\ games'[g].state = "WAITING_PLAYERS" /\ games'[g].creator_id = c
          /\ games'[g].opponent_id = NoId /\ games'[g].pending_invite_from = p
          /\ ~games'[g].creator_ready /\ ~games'[g].opponent_ready
          /\ \A h \in Gid \ {g} : games'[h] = games[h]
      <3>1. games' = [games EXCEPT ![g] = [games[g] EXCEPT !.pending_invite_from = p]]
        BY <2>2
      <3>2. games'[g] = [games[g] EXCEPT !.pending_invite_from = p]
            /\ \A h \in Gid \ {g} : games'[h] = games[h]
        BY <2>1, <3>1, Mine, MovesGame
      <3> QED BY <2>1, <2>2, <2>6, <3>2 DEF Game
    <2>8. /\ thr'[p].pc = "set_invited" /\ thr'[p].cmd = "JOIN_GAME"
          /\ \A q \in Pid \ {p} : thr'[q] = thr[q]
      <3>1. thr'[p] = [Idle("set_invited") EXCEPT !.cmd = "JOIN_GAME", !.creator = c]
            /\ \A q \in Pid \ {p} : thr'[q] = thr[q]
        BY <2>2, Mine, MovesThread
      <3> QED BY <3>1 DEF Idle
    <2>9. /\ \A q \in Pid : GameOf(q)' = GameOf(q)
          /\ \A h \in Gid : Members(h)' = Members(h)
      BY <1>1, <2>6, <2>7 DEF GameOf, Members
    <2>10. ThreadInv(p)' /\ AttachedOK(p)' /\ FleetOK(p)'
      <3>1. HandlerOK(p)' /\ LocalOK(p)'
        BY <1>1, <2>3, <2>8 DEF HandlerOK, SectionsOf, StatesIn, LocalOK
      <3> QED BY <1>1, <2>3, <2>4, <2>8, <2>9, <3>1
          DEF ThreadInv, CreatorOK, Creating, AnswerOK, Invitations, MarkingOK, ShotOK, AttachedOK, FleetOK
    <2>11. ThreadInv(c)' /\ AttachedOK(c)' /\ FleetOK(c)'
      <3>1. /\ HandlerOK(c) /\ LocalOK(c) /\ CreatorOK(c) /\ AnswerOK(c) /\ MarkingOK(c) /\ ShotOK(c)
            /\ AttachedOK(c) /\ FleetOK(c) /\ thr'[c] = thr[c] /\ players'[c] = players[c]
            /\ GameOf(c)' = GameOf(c)
        BY <1>1, <2>2, <2>6, <2>8, <2>9, Mine
      <3>2. GameOf(c) \in {g, NoId} /\ (GameOf(c) = g => GameOf(c) \in Gid)
        BY <2>1, <2>6, NoSeatElsewhere
      <3>3. HandlerOK(c)' /\ LocalOK(c)'
        BY <3>1 DEF HandlerOK, LocalOK
      <3>4. CreatorOK(c)'
        <4>1. Creating(c) => thr[c].game = g
          BY <2>1, <2>6, OwnGame, NoSeatElsewhere
        <4> QED BY <2>1, <2>7, <3>1, <4>1 DEF CreatorOK, Creating
      <3>5. AnswerOK(c)'
        <4>1. thr[c].pc \in {"assign_opponent", "seat_requester", "seat_creator"} => thr[c].game = g
          BY <2>1, <2>6, <3>2, OwnGame, NoIdNowhere
        <4>2. thr[c].pc \notin {"assign_opponent", "seat_requester", "seat_creator"}
          BY <2>2, <2>6, <3>1, <4>1 DEF AnswerOK, GameLockFree
        <4>3. \A r \in Pid : thr[r].pc # "none" => thr'[r].pc # "none"
          BY <2>8
        <4> QED BY <2>6, <3>1, <4>2, <4>3, NamedThreads DEF AnswerOK
      <3>6. MarkingOK(c)'
        <4>1. ~(thr[c].cmd = "READY" /\ thr[c].pc \in {"get_game", "mark_ready"})
          BY <2>2, <2>6, <3>1, <3>2, OwnGame, NoIdNowhere DEF MarkingOK
        <4> QED BY <3>1, <4>1 DEF MarkingOK
      <3>7. ShotOK(c)'
        <4>1. thr[c].cmd # "FIRE" /\ thr[c].pc \notin {"finish_self", "finish_opponent"}
          BY <2>2, <2>6, <3>1, <3>2, OwnGame, NoIdNowhere DEF ShotOK, HandlerOK, SectionsOf
        <4>2. thr[c].cmd = "REMATCH"
                /\ thr[c].pc \notin {"read_game_id", "get_game", "check_turn", "ask_rematch"}
              => thr[c].game = g
          BY <2>6, <3>2, OwnGame, NoIdNowhere
        <4>3. \A i : OtherMember(g, i)' = OtherMember(g, i)
          BY <2>6, <2>7 DEF OtherMember
        <4> QED BY <3>1, <4>1, <4>2, <4>3 DEF ShotOK
      <3>8. AttachedOK(c)' /\ FleetOK(c)'
        BY <2>1, <2>2, <2>7, <2>9, <3>1, <3>2, NoIdNowhere DEF AttachedOK, FleetOK
      <3> QED BY <3>3, <3>4, <3>5, <3>6, <3>7, <3>8 DEF ThreadInv
    <2>12. ASSUME NEW r \in Pid PROVE RequestOK(r)'
      <3>1. RequestOK(r)
        BY Mine
      <3>2. (Waiting(r) /\ r # p => Waiting(r)') /\ Waiting(p)'
        BY <1>1, <2>3, <2>4, <2>8, <2>9 DEF Waiting
      <3>3. \A q \in Pid : Answering(q, r)' => Answering(q, r) /\ q # p /\ thr'[q] = thr[q]
        BY <2>8 DEF Answering
      <3>4. Unseated(r)' <=> Unseated(r)
        BY <2>9 DEF Unseated
      <3>5. /\ r = p => \A h \in Gid : games'[h].pending_invite_from = r => h = g
            /\ r # p => \A h \in Gid : games'[h].pending_invite_from = r
                          => games[h].pending_invite_from = r
        BY <2>5, <2>7
      <3> QED BY <2>5, <3>1, <3>2, <3>3, <3>4, <3>5 DEF RequestOK
    <2>13. GameInv(g)'
      BY <2>6, <2>7 DEF GameInv, GameOK, FlagsOK, FightOK, FinishOK
    <2>14. ASSUME NEW q \in Pid PROVE PairInv(q, g)'
      <3>1. SeatOK(q, g)'
        <4>1. SeatOK(q, g)
          BY <2>1 DEF MatchInv, Pairs, PairInv
        <4> SUFFICES ASSUME q = c PROVE SeatOK(c, g)'
          BY <2>1, <2>6, <2>9, NoIdNowhere DEF SeatOK
        <4>2. GameOf(c) = g \/ (GameOf(c) = NoId /\ Creating(c) /\ thr[c].game = g)
          BY <2>6, <4>1, NoIdNowhere DEF SeatOK
        <4>3. thr'[c] = thr[c] /\ GameOf(c)' = GameOf(c)
          BY <2>2, <2>6, <2>8, <2>9
        <4>4. Creating(c)' <=> Creating(c)
          BY <4>3 DEF Creating
        <4> QED BY <4>2, <4>3, <4>4 DEF SeatOK
      <3>2. ~Starting(q, g)' /\ ~Restarting(q, g)'
        BY <2>6, <2>8, <2>9 DEF Starting, Restarting
      <3> QED BY <3>1, <3>2 DEF PairInv, StartOK, RestartOK
    <2>15. \A q \in Pid : Near(q, p, p, g) => q \in {p, c}
      BY <2>6, NoIdNowhere DEF Near
    <2> QED BY <1>1, <2>1, <2>4, <2>5, <2>7, <2>8, <2>9, <2>10, <2>11, <2>12, <2>13, <2>14, <2>15, LocalStep
            DEF Unseated
  <1> QED BY <1>2, <1>3

(* the game of a creator that answers a request, and who has filed it *)
LEMMA DuringReply ==
  ASSUME MatchInv, NEW p \in Pid, NEW g \in Gid, NEW r \in Pid, GameOf(p) = g, thr[p].game = g,
         thr[p].other = r, games[g].creator_id = p, games[g].pending_invite_from = r
  PROVE  /\ games[g].state = "WAITING_PLAYERS" /\ games[g].id = g /\ games[g].opponent_id = NoId
         /\ ~games[g].creator_ready /\ ~games[g].opponent_ready /\ Members(g) = {p, NoId}
         /\ Waiting(r) /\ Unseated(r) /\ r # p
         /\ \A h \in Gid : games[h].pending_invite_from = r => h = g
         /\ \A q \in Pid : ~Answering(q, r) /\ ~Starting(q, g) /\ ~Restarting(q, g)
         /\ ~Waiting(p) /\ (\A h \in Gid : games[h].pending_invite_from # p)
         /\ \A q \in Pid : ~Answering(q, p)
  <1>1. games[g].state = "WAITING_PLAYERS"
    <2>1. games[g] # FreeGame /\ GameOK(g)
      BY NoIdNowhere DEF FreeGame, MatchInv, Games, GameInv
    <2> QED BY <2>1, NoIdNowhere DEF GameOK
  <1>2. /\ games[g].id = g /\ games[g].opponent_id = NoId /\ ~games[g].creator_ready
        /\ ~games[g].opponent_ready /\ Members(g) = {p, NoId}
        /\ \A q \in Pid : ~Starting(q, g) /\ ~Restarting(q, g)
    BY <1>1, WaitingGame DEF Members
  <1>3. /\ Waiting(r) /\ Unseated(r)
        /\ \A h \in Gid : games[h].pending_invite_from = r => h = g
        /\ \A q \in Pid : ~Answering(q, r)
    BY Mine DEF RequestOK
  <1>4. r # p
    BY <1>2, <1>3 DEF Unseated
  <1>5. ~Waiting(p)
    BY NoIdNowhere DEF Waiting
  <1> QED BY <1>1, <1>2, <1>3, <1>4, <1>5, NotAsked

LEMMA AssignOpponentMatch ==
  ASSUME MatchInv, TypeInv', OwnSlot', NEW p \in Pid, AssignOpponent(p) PROVE MatchInv'
  <1>1. thr[p].pc = "assign_opponent" /\ UNCHANGED players
    BY DEF AssignOpponent, At, playerVars
  <1> SUFFICES ASSUME NEW g, thr[p].game = g, NEW r, thr[p].other = r PROVE MatchInv'
    OBVIOUS
  <1>2. /\ g \in Gid /\ GameOf(p) = g /\ games[g].creator_id = p /\ games[g].pending_invite_from = r
        /\ r \in Pid /\ thr[p].cmd = "ACCEPT_INVITE" /\ players[p].state = "WAITING_OPPONENT"
        /\ thr[r].pc # "none" /\ players[r].id = r
    <2>1. g \in Gid /\ GameOf(p) = g
      BY <1>1, OwnGame
    <2>2. thr[p].cmd = "ACCEPT_INVITE" /\ players[p].state = "WAITING_OPPONENT"
      BY <1>1, Mine DEF HandlerOK, SectionsOf, StatesIn
    <2>3. games[g].creator_id = p /\ games[g].pending_invite_from = r /\ r \in Pid
      BY <1>1, <2>2, Mine, NamedThreads DEF AnswerOK, Invitations
    <2>4. thr[r].pc # "none"
      BY <1>1, <2>2, Mine DEF AnswerOK, Invitations
    <2> QED BY <2>1, <2>2, <2>3, <2>4 DEF MatchInv, OwnSlot
  <1>3. /\ games[g].id = g /\ games[g].opponent_id = NoId
        /\ ~games[g].creator_ready /\ ~games[g].opponent_ready /\ Members(g) = {p, NoId}
        /\ Waiting(r) /\ Unseated(r) /\ r # p
        /\ \A h \in Gid : games[h].pending_invite_from = r => h = g
        /\ \A q \in Pid : ~Answering(q, r) /\ ~Starting(q, g) /\ ~Restarting(q, g)
        /\ (\A h \in Gid : games[h].pending_invite_from # p)
        /\ \A q \in Pid : ~Answering(q, p)
    BY <1>2, DuringReply
  <1>4. /\ games'[g].id = g /\ games'[g].state = "PLACING_SHIPS" /\ games'[g].creator_id = p
        /\ games'[g].opponent_id = r /\ games'[g].pending_invite_from = NoId
        /\ ~games'[g].creator_ready /\ ~games'[g].opponent_ready
        /\ \A h \in Gid \ {g} : games'[h] = games[h]
    <2>1. games' = [games EXCEPT ![g] = [games[g] EXCEPT !.opponent_id = r,
                                            !.pending_invite_from = NoId, !.state = "PLACING_SHIPS"]]
      BY <1>2 DEF AssignOpponent
    <2>2. games'[g] = [games[g] EXCEPT !.opponent_id = r, !.pending_invite_from = NoId,
                                       !.state = "PLACING_SHIPS"]
          /\ \A h \in Gid \ {g} : games'[h] = games[h]
      BY <1>2, <2>1, Mine, MovesGame
    <2>3. games[g] \in Game
      BY <1>2, GameFields, Mine
    <2> QED BY <1>2, <1>3, <2>2, <2>3 DEF Game
  <1>5. /\ thr'[p].pc = "seat_requester" /\ thr'[p].cmd = "ACCEPT_INVITE" /\ thr'[p].game = g
        /\ thr'[p].other = r /\ \A q \in Pid \ {p} : thr'[q] = thr[q]
    <2>1. thr' = [thr EXCEPT ![p] = [thr[p] EXCEPT !.pc = "seat_requester", !.game = g]]
      BY <1>3 DEF AssignOpponent
    <2>2. thr'[p] = [thr[p] EXCEPT !.pc = "seat_requester", !.game = g]
          /\ \A q \in Pid \ {p} : thr'[q] = thr[q]
      BY <2>1, Mine, MovesThread
    <2>3. thr[p] \in Thread
      BY Locals, Mine
    <2> QED BY <1>2, <2>2, <2>3 DEF Thread
  <1>6. /\ \A q \in Pid : GameOf(q)' = GameOf(q)
        /\ Members(g)' = {p, r} /\ \A h \in Gid \ {g} : Members(h)' = Members(h)
    BY <1>1, <1>4 DEF GameOf, Members
  <1>7. \A q \in Pid : Near(q, p, p, g) => ThreadInv(q)' /\ AttachedOK(q)' /\ FleetOK(q)'
    <2>1. HandlerOK(p)' /\ LocalOK(p)'
      BY <1>1, <1>2, <1>5, <1>6 DEF HandlerOK, SectionsOf, StatesIn, LocalOK
    <2>2. AnswerOK(p)'
      BY <1>2, <1>3, <1>4, <1>5 DEF AnswerOK
    <2>3. AttachedOK(p)' /\ FleetOK(p)'
      BY <1>1, <1>2, <1>4, <1>6, NoIdNowhere DEF AttachedOK, FleetOK, Phases
    <2>4. ThreadInv(p)'
      BY <1>5, <2>1, <2>2 DEF ThreadInv, CreatorOK, Creating, MarkingOK, ShotOK
    <2> QED BY <1>3, <2>3, <2>4, NoIdNowhere DEF Near
  <1>8. ASSUME NEW q \in Pid PROVE RequestOK(q)'
    <2>1. RequestOK(q)
      BY Mine
    <2>2. Waiting(q) /\ q # p => Waiting(q)'
      BY <1>1, <1>5, <1>6 DEF Waiting
    <2>3. \A t \in Pid \ {p} : (Answering(t, q)' <=> Answering(t, q)) /\ thr'[t] = thr[t]
      BY <1>5 DEF Answering
    <2>4. Answering(p, q)' <=> q = r
      BY <1>5 DEF Answering
    <2>5. \A h \in Gid : games'[h].pending_invite_from = q => games[h].pending_invite_from = q /\ h # g
      BY <1>4, NoIdNowhere
    <2>6. Unseated(q) /\ q # r => Unseated(q)'
      BY <1>3, <1>6 DEF Unseated
    <2>7. CASE q = r
      <3>1. Waiting(q)' /\ \A t \in Pid : Answering(t, q)' => t = p
        BY <1>3, <2>2, <2>3, <2>7
      <3>2. \A h \in Gid : games'[h].pending_invite_from # q
        BY <1>3, <2>5, <2>7
      <3> QED BY <1>5, <3>1, <3>2 DEF RequestOK
    <2>8. CASE q = p
      <3>1. \A t \in Pid : ~Answering(t, q)'
        BY <1>3, <2>3, <2>4, <2>8
      <3>2. \A h \in Gid : games'[h].pending_invite_from # q
        BY <1>3, <2>5, <2>8
      <3> QED BY <3>1, <3>2 DEF RequestOK
    <2>9. CASE q \notin {p, r}
      <3>1. /\ \A t \in Pid : Answering(t, q)' => Answering(t, q) /\ thr'[t] = thr[t]
            /\ Waiting(q) => Waiting(q)'
            /\ Unseated(q) => Unseated(q)'
        BY <2>2, <2>3, <2>4, <2>6, <2>9
      <3> QED BY <2>1, <2>5, <3>1 DEF RequestOK
    <2> QED BY <2>7, <2>8, <2>9
  <1>9. GameInv(g)'
    BY <1>2, <1>3, <1>4 DEF GameInv, GameOK, FlagsOK, FightOK, FinishOK
  <1>10. ASSUME NEW q \in Pid PROVE PairInv(q, g)'
    <2>1. SeatOK(q, g)'
      BY <1>2, <1>4, <1>5, <1>6 DEF SeatOK, Admitting
    <2>2. ~Starting(q, g)' /\ ~Restarting(q, g)'
      BY <1>3, <1>5, <1>6 DEF Starting, Restarting
    <2> QED BY <2>1, <2>2 DEF PairInv, StartOK, RestartOK
  <1>11. \A q \in Pid : q \in Members(g)' => q \in Members(g) \/ Unseated(q)
    BY <1>3, <1>6
  <1>12. \A h \in Gid \ {g} : p \notin Members(h)
    BY <1>2, <1>3, NoSeatElsewhere
  <1> QED BY <1>1, <1>2, <1>4, <1>5, <1>6, <1>7, <1>8, <1>9, <1>10, <1>11, <1>12, LocalStep

LEMMA ClearInviteMatch ==
  ASSUME MatchInv, TypeInv', OwnSlot', NEW p \in Pid, ClearInvite(p) PROVE MatchInv'
  <1>1. thr[p].pc = "clear_invite" /\ UNCHANGED players
    BY DEF ClearInvite, At, playerVars
  <1>2. CASE Return(p) /\ UNCHANGED games
    BY <1>1, <1>2, ReturnQuiet DEF Held
  <1>3. CASE ~(Return(p) /\ UNCHANGED games)
    <2> SUFFICES ASSUME NEW g, thr[p].game = g, NEW r, thr[p].other = r PROVE MatchInv'
      OBVIOUS
    <2>1. /\ g \in Gid /\ GameOf(p) = g /\ r \in Pid /\ thr[p].cmd = "REJECT_INVITE"
          /\ players[p].state # "DISCONNECTED" /\ thr[r].pc # "none" /\ players[r].id = r
      <3>1. g \in Gid /\ r \in Pid
        BY <1>1, Locals, Mine DEF ThreadOK, GameSections, OtherSections
      <3>2. thr[p].cmd = "REJECT_INVITE" /\ players[p].state # "DISCONNECTED" /\ GameOf(p) = g
        BY <1>1, Mine DEF HandlerOK, SectionsOf, StatesIn, LocalOK
      <3>3. thr[r].pc # "none"
        BY <1>1, <3>2, Mine DEF AnswerOK, Invitations
      <3> QED BY <3>1, <3>2, <3>3 DEF MatchInv, OwnSlot
    <2>2. /\ games[g].creator_id = p /\ games[g].pending_invite_from = r
          /\ games' = [games EXCEPT ![g].pending_invite_from = NoId]
          /\ Goto(p, "release_requester")
      BY <1>3, <2>1 DEF ClearInvite
    <2>3. /\ games[g].state = "WAITING_PLAYERS" /\ games[g].id = g /\ games[g].opponent_id = NoId
          /\ ~games[g].creator_ready /\ ~games[g].opponent_ready /\ Members(g) = {p, NoId}
          /\ Waiting(r) /\ Unseated(r) /\ r # p
          /\ \A h \in Gid : games[h].pending_invite_from = r => h = g
          /\ \A q \in Pid : ~Answering(q, r) /\ ~Starting(q, g) /\ ~Restarting(q, g)
          /\ (\A h \in Gid : games[h].pending_invite_from # p)
          /\ \A q \in Pid : ~Answering(q, p)
      BY <2>1, <2>2, DuringReply
    <2>4. /\ games'[g].id = g /\ games'[g].state = "WAITING_PLAYERS" /\ games'[g].creator_id = p
          /\ games'[g].opponent_id = NoId /\ games'[g].pending_invite_from = NoId
          /\ ~games'[g].creator_ready /\ ~games'[g].opponent_ready
          /\ \A h \in Gid \ {g} : games'[h] = games[h]
      <3>1. games' = [games EXCEPT ![g] = [games[g] EXCEPT !.pending_invite_from = NoId]]
        BY <2>2
      <3>2. games'[g] = [games[g] EXCEPT !.pending_invite_from = NoId]
            /\ \A h \in Gid \ {g} : games'[h] = games[h]
        BY <2>1, <3>1, Mine, MovesGame
      <3>3. games[g] \in Game
        BY <2>1, GameFields, Mine
      <3> QED BY <2>2, <2>3, <3>2, <3>3 DEF Game
    <2>5. /\ thr'[p].pc = "release_requester" /\ thr'[p].cmd = "REJECT_INVITE" /\ thr'[p].game = g
          /\ thr'[p].other = r /\ \A q \in Pid \ {p} : thr'[q] = thr[q]
      BY <2>1, <2>2, Mine, GotoThread
    <2>6. /\ \A q \in Pid : GameOf(q)' = GameOf(q)
          /\ \A h \in Gid : Members(h)' = Members(h)
      BY <1>1, <2>2, <2>3, <2>4 DEF GameOf, Members
    <2>7. \A q \in Pid : Near(q, p, p, g) => ThreadInv(q)' /\ AttachedOK(q)' /\ FleetOK(q)'
      <3>1. HandlerOK(p)' /\ LocalOK(p)'
        BY <1>1, <2>1, <2>5, <2>6, Fields, Mine DEF HandlerOK, SectionsOf, StatesIn, LocalOK
      <3>2. AnswerOK(p)'
        BY <2>1, <2>3, <2>5 DEF AnswerOK
      <3>3. AttachedOK(p)' /\ FleetOK(p)'
        <4>1. AttachedOK(p) /\ FleetOK(p)
          BY Mine
        <4> QED BY <1>1, <2>1, <2>3, <2>4, <2>6, <4>1 DEF AttachedOK, FleetOK
      <3>4. ThreadInv(p)'
        BY <2>5, <3>1, <3>2 DEF ThreadInv, CreatorOK, Creating, MarkingOK, ShotOK
      <3> QED BY <2>3, <3>3, <3>4, NoIdNowhere DEF Near
    <2>8. ASSUME NEW q \in Pid PROVE RequestOK(q)'
      <3>1. RequestOK(q)
        BY Mine
      <3>2. Waiting(q) /\ q # p => Waiting(q)'
        BY <1>1, <2>5, <2>6 DEF Waiting
      <3>3. \A t \in Pid \ {p} : (Answering(t, q)' <=> Answering(t, q)) /\ thr'[t] = thr[t]
        BY <2>5 DEF Answering
      <3>4. Answering(p, q)' <=> q = r
        BY <2>5 DEF Answering
      <3>5. \A h \in Gid : games'[h].pending_invite_from = q => games[h].pending_invite_from = q /\ h # g
        BY <2>4, NoIdNowhere
      <3>6. Unseated(q) => Unseated(q)'
        BY <2>6 DEF Unseated
      <3>7. CASE q = r
        <4>1. Waiting(q)' /\ Unseated(q)' /\ \A t \in Pid : Answering(t, q)' => t = p
          BY <2>3, <3>2, <3>3, <3>6, <3>7
        <4>2. \A h \in Gid : games'[h].pending_invite_from # q
          BY <2>3, <3>5, <3>7
        <4> QED BY <4>1, <4>2 DEF RequestOK
      <3>8. CASE q = p
        <4>1. \A t \in Pid : ~Answering(t, q)'
          BY <2>3, <3>3, <3>4, <3>8
        <4>2. \A h \in Gid : games'[h].pending_invite_from # q
          BY <2>3, <3>5, <3>8
        <4> QED BY <4>1, <4>2 DEF RequestOK
      <3>9. CASE q \notin {p, r}
        <4>1. /\ \A t \in Pid : Answering(t, q)' => Answering(t, q) /\ thr'[t] = thr[t]
              /\ Waiting(q) => Waiting(q)'
              /\ Unseated(q) => Unseated(q)'
          BY <3>2, <3>3, <3>4, <3>6, <3>9
        <4> QED BY <3>1, <3>5, <4>1 DEF RequestOK
      <3> QED BY <3>7, <3>8, <3>9
    <2>9. GameInv(g)'
      BY <2>4 DEF GameInv, GameOK, FlagsOK, FightOK, FinishOK
    <2>10. ASSUME NEW q \in Pid PROVE PairInv(q, g)'
      <3>1. SeatOK(q, g)'
        BY <2>1, <2>3, <2>6, NoIdNowhere DEF SeatOK
      <3>2. ~Starting(q, g)' /\ ~Restarting(q, g)'
        BY <2>3, <2>5, <2>6 DEF Starting, Restarting
      <3> QED BY <3>1, <3>2 DEF PairInv, StartOK, RestartOK
    <2>11. \A h \in Gid \ {g} : p \notin Members(h)
      BY <2>1, <2>3, NoSeatElsewhere
    <2> QED BY <1>1, <2>1, <2>4, <2>5, <2>6, <2>7, <2>8, <2>9, <2>10, <2>11, LocalStep
  <1> QED BY <1>2, <1>3


-----------------------------------------------------------------------------
(* Every step keeps the invariant                                          *)

(* the handlers that end in leave_current_game, and WAIT_NEW_PLAYER *)
Departing(p) == Leave(p) \/ CheckAlone(p) \/ SetWaiting(p) \/ Reopen(p)

LEMMA NobodyDeparts ==
  ASSUME MatchInv, NEW p \in Pid PROVE ~Departing(p)
  <1>1. HandlerOK(p)
    BY Mine
  <1>2. thr[p].pc \notin {"dissolve", "same_game", "offer", "evict", "remove_game", "reset_self",
                          "lock_table", "remove_player", "check_alone", "set_waiting", "reopen"}
    BY <1>1 DEF HandlerOK, SectionsOf
  <1> QED BY <1>2 DEF Departing, Leave, Dissolve, SameGame, OfferChoice, Evict, RemoveGame,
                      ResetSelf, LockTable, RemovePlayer, CheckAlone, SetWaiting, Reopen, At

LEMMA JoinMatch ==
  ASSUME MatchInv, TypeInv', OwnSlot', NEW p \in Pid, Create(p) \/ Join(p) \/ Invite(p)
  PROVE  MatchInv'
  <1>1. CASE Create(p)
    BY <1>1, CreateGameMatch, CopyCodeMatch, AttachCreatorMatch DEF Create
  <1>2. CASE Join(p)
    BY <1>2, LookupMatch, FileRequestMatch, SetInvitedMatch DEF Join
  <1>3. CASE Invite(p)
    BY <1>3, LookupMatch, CheckInviteMatch, AssignOpponentMatch, SeatRequesterMatch,
       SeatCreatorMatch, ClearInviteMatch, ReleaseRequesterMatch DEF Invite
  <1> QED BY <1>1, <1>2, <1>3

LEMMA PlacingMatch ==
  ASSUME MatchInv, TypeInv', OwnSlot', NEW p \in Pid, Placing(p) PROVE MatchInv'
  BY PlaceShipMatch, SetReadyMatch, MarkReadyMatch, GetMembersMatch, StartCreatorMatch,
     StartOpponentMatch DEF Placing

LEMMA FireMatch ==
  ASSUME MatchInv, TypeInv', OwnSlot', SeveralShips, NEW p \in Pid, Fire(p) PROVE MatchInv'
  BY CheckTurnMatch, AimMatch, ShootMatch, DeclareWinMatch, FinishSelfMatch, FinishOpponentMatch,
     PassTurnMatch DEF Fire

LEMMA AgainMatch ==
  ASSUME MatchInv, TypeInv', OwnSlot', NEW p \in Pid, Again(p), ~Departing(p) PROVE MatchInv'
  BY AskRematchMatch, RestartSelfMatch, RestartOpponentMatch DEF Again, Departing

LEMMA StutterMatch ==
  ASSUME MatchInv, TypeInv', OwnSlot', UNCHANGED vars PROVE MatchInv'
  <1> USE DEF vars
  <1>1. /\ \A p \in Pid : GameOf(p)' = GameOf(p) /\ (Creating(p)' <=> Creating(p))
        /\ \A g : Members(g)' = Members(g) /\ \A p : OtherMember(g, p)' = OtherMember(g, p)
        /\ \A p \in Pid : \A r : (Answering(p, r)' <=> Answering(p, r))
        /\ \A p, r : (Admitting(p, r)' <=> Admitting(p, r))
        /\ \A r : (Waiting(r)' <=> Waiting(r)) /\ (Unseated(r)' <=> Unseated(r))
        /\ \A p, g : (Starting(p, g)' <=> Starting(p, g)) /\ (Restarting(p, g)' <=> Restarting(p, g))
    BY DEF GameOf, Members, OtherMember, Creating, Answering, Admitting, Waiting, Unseated,
           Starting, Restarting
  <1>2. Threads'
    <2> SUFFICES ASSUME NEW p \in Pid PROVE ThreadInv(p)'
      BY DEF Threads
    <2>1. ThreadInv(p)
      BY DEF MatchInv, Threads
    <2> QED BY <1>1, <2>1 DEF ThreadInv, HandlerOK, LocalOK, CreatorOK, AnswerOK, MarkingOK,
                              OwnReady, ShotOK
  <1>3. Players'
    <2> SUFFICES ASSUME NEW p \in Pid PROVE PlayerInv(p)'
      BY DEF Players
    <2>1. PlayerInv(p)
      BY DEF MatchInv, Players
    <2> QED BY <1>1, <2>1 DEF PlayerInv, AttachedOK, RequestOK, FleetOK
  <1>4. Games'
    <2> SUFFICES ASSUME NEW g \in Gid PROVE GameInv(g)'
      BY DEF Games
    <2>1. GameInv(g)
      BY DEF MatchInv, Games
    <2> QED BY <1>1, <2>1 DEF GameInv, GameOK, FlagsOK, FightOK, FinishOK, Used, Wants
  <1>5. Pairs'
    <2> SUFFICES ASSUME NEW p \in Pid, NEW g \in Gid PROVE PairInv(p, g)'
      BY DEF Pairs
    <2>1. PairInv(p, g)
      BY DEF MatchInv, Pairs
    <2> QED BY <1>1, <2>1 DEF PairInv, SeatOK, StartOK, RestartOK
  <1> QED BY <1>1, <1>2, <1>3, <1>4, <1>5 DEF MatchInv, OneSeat

LEMMA MatchStep ==
  ASSUME NobodyLeaves, SeveralShips, MatchInv, [Next]_vars PROVE MatchInv'
  <1>1. TypeInv' /\ OwnSlot'
    BY TypeNext, OwnSlotStep DEF MatchInv
  <1>2. ASSUME NEW p \in Pid, Work(p) PROVE MatchInv'
    <2>1. ~Departing(p)
      BY NobodyDeparts
    <2> QED BY <1>1, <1>2, <2>1, ReadGameIdMatch, GetGameMatch, GetPlayerMatch, LoginMatch,
               JoinMatch, PlacingMatch, FireMatch, AgainMatch DEF Work, Departing
  <1> QED BY <1>1, <1>2, StutterMatch, ConnectMatch, ReceiveMatch DEF Next

(* The match invariant holds of every run in which nobody leaves: the two  *)
(* threads of a match, the two players and their game never disagree on    *)
(* how far it has come (handle_accept_invite, handle_ready, handle_fire    *)
(* and handle_rematch each take their locks one after the other).          *)
THEOREM MatchKept ==
  ASSUME NobodyLeaves, SeveralShips PROVE Spec => []MatchInv
  BY MatchInit, MatchStep, PTL DEF Spec

(* In a match in progress the turn belongs to one of the two players:      *)
(* handle_ready gives it to the creator, handle_fire to the other member.  *)
THEOREM TurnHeld ==
  ASSUME NobodyLeaves, SeveralShips PROVE Spec => []TurnHolder
  BY MatchKept, PropertiesHold, PTL

(* Both players of a match in progress have placed a complete fleet, also  *)
(* after a rematch (handle_ready tests the fleets under the mutexes of the *)
(* players and sets its flags under the mutex of the game).                *)
THEOREM FleetsComplete ==
  ASSUME NobodyLeaves, SeveralShips PROVE Spec => []FleetsPlaced
  BY MatchKept, PropertiesHold, PTL

(* Between the turn check of handle_fire and the change of turn the lock   *)
(* of the game is free, and still no second shot gets in.                  *)
THEOREM ShotsInTurn ==
  ASSUME NobodyLeaves, SeveralShips PROVE Spec => []OneShotInFlight
  BY MatchKept, PropertiesHold, PTL

(* The client a game names as pending waits for the answer in the state    *)
(* handle_join_game gave it, and plays nowhere else.                       *)
THEOREM RequestsStand ==
  ASSUME NobodyLeaves, SeveralShips PROVE Spec => []PendingStands
  BY MatchKept, PropertiesHold, PTL

(* When no handler runs, both players of a match in progress may fire,     *)
(* although handle_ready starts them one after the other.                  *)
THEOREM StartedTogether ==
  ASSUME NobodyLeaves, SeveralShips PROVE Spec => []FightTogether
  BY MatchKept, PropertiesHold, PTL

(* When no handler runs, the players of a finished match are both          *)
(* finished, one of them as the winner, whatever requests for a rematch    *)
(* have come in between (handle_fire, handle_rematch).                     *)
THEOREM FinishedTogether ==
  ASSUME NobodyLeaves, SeveralShips PROVE Spec => []FinishTogether
  BY MatchKept, PropertiesHold, PTL

-----------------------------------------------------------------------------
(* The shots and the turn                                                  *)

LEMMA ShotPlayers ==
  ASSUME MatchInv, NEW p \in Pid, At(p, "shoot"), NEW g, thr[p].game = g, NEW o, thr[p].other = o
  PROVE  /\ o \in Pid /\ o # p
         /\ g \in Gid /\ Used(g) /\ games[g].state = "IN_PROGRESS"
         /\ Members(g) = {p, o} /\ games[g].current_turn = p
  <1>1. thr[p].pc = "shoot" /\ thr[p].cmd = "FIRE"
    BY Mine DEF At, HandlerOK, SectionsOf
  <1>2. /\ o \in Pid /\ o # p /\ g \in Gid /\ games[g].id = g /\ games[g].state = "IN_PROGRESS"
        /\ Members(g) = {p, o} /\ games[g].current_turn = p
    BY <1>1, DuringShot DEF Shooting
  <1> QED BY <1>2 DEF Used

(* No fleet loses a ship. *)
FleetsKept == \A o \in Pid : players'[o].ships_remaining >= players[o].ships_remaining

LEMMA UpdateKeeps ==
  ASSUME TypeInv, NEW x, NEW r, players' = [players EXCEPT ![x] = r],
         x \in Pid /\ players[x] \in Player =>
           r.ships_remaining \in {players[x].ships_remaining, MaxShips}
  PROVE  FleetsKept
  <1>1. \A q \in Pid : players[q] \in Player /\ players[q].ships_remaining \in 0 .. MaxShips
    BY Locals, Fields
  <1>2. \A q \in Pid : players'[q] = IF q = x THEN r ELSE players[q]
    BY DEF TypeInv, TypeOK
  <1>3. \A q \in Pid : players'[q].ships_remaining \in {players[q].ships_remaining, MaxShips}
    BY <1>1, <1>2
  <1> QED BY <1>1, <1>3, ConstantsAssumption DEF FleetsKept

LEMMA SameFleets == ASSUME TypeInv, UNCHANGED players PROVE FleetsKept
  BY Fields, ConstantsAssumption DEF FleetsKept

(* the updates of the handlers *)
LEMMA UpdatesKeep ==
  ASSUME TypeInv, NEW x, NEW s, NEW v
  PROVE  /\ players' = [players EXCEPT ![x].state = s] => FleetsKept
         /\ players' = [players EXCEPT ![x].username = v] => FleetsKept
         /\ players' = [players EXCEPT ![x].ships_placed = v] => FleetsKept
         /\ players' = [players EXCEPT ![x] = [players[x] EXCEPT !.current_game_id = v, !.state = s]]
              => FleetsKept
         /\ players' = [players EXCEPT ![x] = [players[x] EXCEPT !.state = s, !.ships_placed = 0,
                                                                 !.ships_remaining = MaxShips]]
              => FleetsKept
         /\ players' = [players EXCEPT ![x] = [players[x] EXCEPT !.current_game_id = v, !.state = s,
                                                                 !.ships_placed = 0,
                                                                 !.ships_remaining = MaxShips]]
              => FleetsKept
  <1>1. ASSUME players[x] \in Player
        PROVE  /\ [players[x] EXCEPT !.state = s].ships_remaining = players[x].ships_remaining
               /\ [players[x] EXCEPT !.username = v].ships_remaining = players[x].ships_remaining
               /\ [players[x] EXCEPT !.ships_placed = v].ships_remaining = players[x].ships_remaining
               /\ [players[x] EXCEPT !.current_game_id = v, !.state = s].ships_remaining
                     = players[x].ships_remaining
               /\ [players[x] EXCEPT !.state = s, !.ships_placed = 0,
                                     !.ships_remaining = MaxShips].ships_remaining = MaxShips
               /\ [players[x] EXCEPT !.current_game_id = v, !.state = s, !.ships_placed = 0,
                                     !.ships_remaining = MaxShips].ships_remaining = MaxShips
    BY <1>1 DEF Player
  <1>2. players' = [players EXCEPT ![x] = [players[x] EXCEPT !.state = s]] => FleetsKept
    BY <1>1, UpdateKeeps
  <1>3. players' = [players EXCEPT ![x] = [players[x] EXCEPT !.username = v]] => FleetsKept
    BY <1>1, UpdateKeeps
  <1>4. players' = [players EXCEPT ![x] = [players[x] EXCEPT !.ships_placed = v]] => FleetsKept
    BY <1>1, UpdateKeeps
  <1>5. players' = [players EXCEPT ![x] = [players[x] EXCEPT !.current_game_id = v, !.state = s]]
          => FleetsKept
    BY <1>1, UpdateKeeps
  <1>6. players' = [players EXCEPT ![x] = [players[x] EXCEPT !.state = s, !.ships_placed = 0,
                                                             !.ships_remaining = MaxShips]]
          => FleetsKept
    BY <1>1, UpdateKeeps
  <1>7. players' = [players EXCEPT ![x] = [players[x] EXCEPT !.current_game_id = v, !.state = s,
                                                             !.ships_placed = 0,
                                                             !.ships_remaining = MaxShips]]
          => FleetsKept
    BY <1>1, UpdateKeeps
  <1> QED BY <1>2, <1>3, <1>4, <1>5, <1>6, <1>7

(* every step but a shot leaves the fleets, or gives a player a new one *)
LEMMA OtherStepsKeep ==
  ASSUME TypeInv, NEW p \in Pid, Connect(p) \/ Receive(p) \/ Work(p), ~Shoot(p)
  PROVE  FleetsKept
  <1>1. ASSUME Connect(p) PROVE FleetsKept
    <2>1. players' = [players EXCEPT ![p] = [FreePlayer EXCEPT !.id = p, !.state = "CONNECTED"]]
      BY <1>1 DEF Connect
    <2>2. [FreePlayer EXCEPT !.id = p, !.state = "CONNECTED"].ships_remaining = MaxShips
      BY DEF FreePlayer
    <2> QED BY <2>1, <2>2, UpdateKeeps
  <1>2. ASSUME Receive(p) \/ ReadGameId(p) \/ GetGame(p) \/ GetPlayer(p) PROVE FleetsKept
    BY <1>2, SameFleets DEF Receive, ReadGameId, GetGame, GetPlayer, playerVars
  <1>3. ASSUME Login(p) PROVE FleetsKept
    BY <1>3, SameFleets, UpdatesKeep DEF Login, SetUsername, EnterLobby
  <1>4. ASSUME Create(p) \/ Join(p) PROVE FleetsKept
    <2>1. ASSUME AttachCreator(p) PROVE FleetsKept
      BY <2>1, UpdatesKeep DEF AttachCreator
    <2>2. ASSUME SetInvited(p) PROVE FleetsKept
      BY <2>2, UpdatesKeep DEF SetInvited
    <2>3. ASSUME CreateGame(p) \/ CopyCode(p) \/ FindCode(p) \/ FileRequest(p) PROVE FleetsKept
      BY <2>3, SameFleets DEF CreateGame, CopyCode, FindCode, FileRequest, playerVars
    <2> QED BY <1>4, <2>1, <2>2, <2>3 DEF Create, Join
  <1>5. ASSUME Invite(p) PROVE FleetsKept
    <2>1. ASSUME SeatRequester(p) PROVE FleetsKept
      <3>1. players' = [players EXCEPT ![thr[p].other] =
              [players[thr[p].other] EXCEPT !.current_game_id = thr[p].game,
                                            !.state = "PLACING_SHIPS", !.ships_placed = 0,
                                            !.ships_remaining = MaxShips]]
        BY <2>1 DEF SeatRequester
      <3> QED BY <3>1, UpdatesKeep
    <2>4. ASSUME SeatCreator(p) PROVE FleetsKept
      BY <2>4, UpdatesKeep DEF SeatCreator
    <2>2. ASSUME ReleaseRequester(p) PROVE FleetsKept
      BY <2>2, SameFleets, UpdatesKeep DEF ReleaseRequester
    <2>3. ASSUME Resolve(p) \/ CheckInvite(p) \/ AssignOpponent(p) \/ ClearInvite(p) PROVE FleetsKept
      BY <2>3, SameFleets DEF Resolve, CheckInvite, AssignOpponent, ClearInvite, playerVars
    <2> QED BY <1>5, <2>1, <2>2, <2>3, <2>4 DEF Invite
  <1>6. ASSUME Placing(p) PROVE FleetsKept
    BY <1>6, SameFleets, UpdatesKeep DEF Placing, PlaceShip, SetReady, MarkReady, GetCreator,
       GetOpponent, StartCreator, StartOpponent, playerVars
  <1>7. ASSUME Fire(p) PROVE FleetsKept
    BY <1>7, SameFleets, UpdatesKeep DEF Fire, CheckTurn, Aim, OrderFirst, OrderSecond, LockFirst,
       DeclareWin, FinishSelf, FinishOpponent, PassTurn, playerVars
  <1>8. ASSUME Leave(p) PROVE FleetsKept
    <2>1. ASSUME RemovePlayer(p) PROVE FleetsKept
      <3> DEFINE r == [players[p] EXCEPT !.id = NoId, !.state = "DISCONNECTED",
                                         !.current_game_id = NoId, !.username = NoName]
      <3>1. players' = [players EXCEPT ![p] = r]
        BY <2>1 DEF RemovePlayer
      <3>2. r.ships_remaining = players[p].ships_remaining
        BY Locals DEF Player
      <3> QED BY <3>1, <3>2, UpdateKeeps
    <2>2. ASSUME OfferChoice(p) PROVE FleetsKept
      <3>1. players' = [players EXCEPT ![thr[p].other] =
              [players[thr[p].other] EXCEPT !.state = "OPPONENT_LEFT", !.ships_placed = 0,
                                            !.ships_remaining = MaxShips]]
        BY <2>2 DEF OfferChoice
      <3> QED BY <3>1, UpdatesKeep
    <2>4. ASSUME NEW i, players' = ToLobby(i) PROVE FleetsKept
      <3>1. players' = [players EXCEPT ![i] =
              [players[i] EXCEPT !.current_game_id = NoId, !.state = "LOBBY", !.ships_placed = 0,
                                 !.ships_remaining = MaxShips]]
        BY <2>4 DEF ToLobby
      <3> QED BY <3>1, UpdatesKeep
    <2>5. ASSUME Evict(p) \/ ResetSelf(p) PROVE FleetsKept
      BY <2>4, <2>5 DEF Evict, ResetSelf
    <2>3. ASSUME Dissolve(p) \/ SameGame(p) \/ RemoveGame(p) \/ LockTable(p) PROVE FleetsKept
      BY <2>3, SameFleets DEF Dissolve, SameGame, RemoveGame, LockTable, playerVars
    <2> QED BY <1>8, <2>1, <2>2, <2>3, <2>5 DEF Leave
  <1>9. ASSUME Again(p) PROVE FleetsKept
    BY <1>9, SameFleets, UpdatesKeep DEF Again, AskRematch, RestartSelf, RestartOpponent, Restart,
       CheckAlone, SetWaiting, Reopen, playerVars
  <1> QED BY <1>1, <1>2, <1>3, <1>4, <1>5, <1>6, <1>7, <1>8, <1>9 DEF Work

(* A shot counts a ship down only in the fleet of the other player of a    *)
(* match in progress, on the turn of the one who fires.                    *)
THEOREM ShotsOnTurn ==
  ASSUME NobodyLeaves, SeveralShips PROVE Spec => ShotByTurnHolder
  <1> DEFINE Turn == \A o \in Pid : players'[o].ships_remaining < players[o].ships_remaining =>
                       \E g \in Gid : /\ Used(g)
                                      /\ games[g].state = "IN_PROGRESS"
                                      /\ o \in Members(g)
                                      /\ games[g].current_turn \in Members(g) \ {o}
  <1>1. ASSUME MatchInv, [Next]_vars PROVE [Turn]_vars
    <2>1. FleetsKept => Turn
      <3>1. \A o \in Pid : players[o].ships_remaining \in 0 .. MaxShips
                           /\ players'[o].ships_remaining \in 0 .. MaxShips
        BY <1>1, TypeNext DEF MatchInv, TypeInv, TypeOK, Player
      <3> QED BY <3>1, ConstantsAssumption DEF FleetsKept
    <2>2. ASSUME NEW p \in Pid, Shoot(p) PROVE Turn
      <3> SUFFICES ASSUME NEW o \in Pid, players'[o].ships_remaining < players[o].ships_remaining
                   PROVE  \E g \in Gid : /\ Used(g)
                                         /\ games[g].state = "IN_PROGRESS"
                                         /\ o \in Members(g)
                                         /\ games[g].current_turn \in Members(g) \ {o}
        OBVIOUS
      <3>1. o = thr[p].other
        <4>1. \/ UNCHANGED players
              \/ players' = [players EXCEPT ![thr[p].other] =
                    [players[thr[p].other] EXCEPT !.ships_remaining =
                        players[thr[p].other].ships_remaining - 1]]
          BY <2>2 DEF Shoot
        <4>2. players[o].ships_remaining \in 0 .. MaxShips
          BY <1>1, Fields, Mine
        <4>3. players'[o] # players[o]
          BY <4>2, ConstantsAssumption
        <4> QED BY <1>1, <4>1, <4>3 DEF MatchInv, TypeInv, TypeOK
      <3>2. /\ thr[p].game \in Gid /\ Used(thr[p].game) /\ games[thr[p].game].state = "IN_PROGRESS"
            /\ Members(thr[p].game) = {p, o} /\ games[thr[p].game].current_turn = p /\ o # p
        BY <1>1, <2>2, <3>1, ShotPlayers DEF Shoot
      <3> QED BY <3>2
    <2>3. ASSUME NEW p \in Pid, Connect(p) \/ Receive(p) \/ Work(p), ~Shoot(p) PROVE Turn
      BY <1>1, <2>1, <2>3, OtherStepsKeep, Mine
    <2> QED BY <1>1, <2>2, <2>3 DEF Next
  <1> QED BY <1>1, MatchKept, PTL DEF Spec, ShotByTurnHolder
-----------------------------------------------------------------------------
(* No orphan games                                                         *)

LEMMA CreatorAttached ==
  ASSUME MatchInv PROVE NoOrphanGame
  <1> SUFFICES ASSUME Quiescent, NEW g \in Gid, Used(g)
               PROVE  /\ Connected(games[g].creator_id)
                      /\ players[games[g].creator_id].current_game_id = g
    BY DEF NoOrphanGame
  <1> DEFINE c == games[g].creator_id
  <1>1. c \in Pid /\ c \in Members(g)
    BY UsedIsNotFree DEF MatchInv, Games, GameInv, GameOK, Members
  <1>2. \A p \in Pid : thr[p].pc \in {"none", "receive"}
    BY DEF Quiescent
  <1>3. GameOf(c) = g
    BY <1>1, <1>2 DEF MatchInv, Pairs, PairInv, SeatOK, Creating, Admitting
  <1>4. games[g].state \in Phases(players[c].state)
    BY <1>1, <1>3, GameOfPlayer, NoIdNowhere
  <1>5. thr[c].pc \in SectionsOf(thr[c].cmd) /\ players[c].state \in StatesIn(thr[c].cmd, thr[c].pc)
    BY <1>1 DEF MatchInv, Threads, ThreadInv, HandlerOK
  <1>6. thr[c].pc # "none"
    <2> SUFFICES ASSUME thr[c].pc = "none" PROVE FALSE
      OBVIOUS
    <2>1. thr[c].cmd = "NONE"
      BY <1>1, <1>5, Locals DEF SectionsOf, AllCommands, MatchInv
    <2>2. players[c].state = "DISCONNECTED"
      BY <1>5, <2>1 DEF StatesIn
    <2> QED BY <1>4, <2>2 DEF Phases
  <1> QED BY <1>1, <1>3, <1>6, NoIdNowhere DEF MatchInv, OwnSlot, Connected, GameOf

(* An orphan game needs a departure: while nobody leaves, a creator stays  *)
(* attached to the game that handle_create_game has entered in the table.  *)
THEOREM OrphansNeedDeparture ==
  ASSUME NobodyLeaves, SeveralShips PROVE Spec => []NoOrphanGame
  BY MatchKept, CreatorAttached, PTL

-----------------------------------------------------------------------------
(* Creators who admit nobody                                               *)
(*                                                                         *)
(* Clients come and go, but as long as no request is accepted a game has   *)
(* one member, and the thread of its creator is the only one that works on *)
(* it, from gm_create_game to gm_remove_game, but for the request that a   *)
(* JOIN_GAME leaves in it.                                                 *)

NobodyAccepts == "ACCEPT_INVITE" \notin Commands

LeaveSections == {"read_game_id", "get_game", "dissolve", "remove_game", "reset_self"}

(* the sections of the handlers that can then run *)
LoneSections(cmd) ==
  CASE cmd = "NONE"          -> {"none", "receive"}
    [] cmd = "LOGIN"         -> {"set_username", "enter_lobby"}
    [] cmd = "CREATE_GAME"   -> {"create", "copy_code", "attach"}
    [] cmd = "JOIN_GAME"     -> {"find_code", "file_request", "set_invited"}
    [] cmd = "REJECT_INVITE" -> {"resolve", "read_game_id", "get_game", "clear_invite",
                                 "release_requester"}
    [] cmd = "LEAVE_GAME"    -> LeaveSections
    [] cmd = "QUIT"          -> LeaveSections \union {"lock_table", "remove_player"}
    [] OTHER                 -> {}

Owns(p, g) == g \in Gid /\ games[g].id = g /\ games[g].creator_id = p

(* a client is attached to the game that it owns, until it resets itself *)
LoneThread(p) ==
  /\ thr[p].pc \in LoneSections(thr[p].cmd)
  /\ thr[p].pc \in {"none", "lock_table", "remove_player"} => GameOf(p) = NoId
  /\ thr[p].cmd = "LOGIN" => players[p].state = "CONNECTED"
  /\ thr[p].cmd \in {"CREATE_GAME", "JOIN_GAME"} => players[p].state = "LOBBY"
  /\ Creating(p) => Owns(p, thr[p].game)
  /\ thr[p].pc \in {"get_game", "clear_invite", "dissolve", "remove_game"}
       => thr[p].game = GameOf(p)
  /\ players[p].state \in {"DISCONNECTED", "CONNECTED", "LOBBY", "INVITED", "WAITING_OPPONENT"}
  /\ GameOf(p) # NoId <=> players[p].state = "WAITING_OPPONENT"
  /\ GameOf(p) # NoId /\ thr[p].pc # "reset_self" => Owns(p, GameOf(p))

Holds(p, g) == \/ GameOf(p) = g /\ thr[p].pc # "reset_self"
               \/ Creating(p) /\ thr[p].game = g

(* a used game has one member, who holds it *)
LoneGame(g) ==
  games[g].id # NoId =>
    /\ games[g].id = g /\ games[g].creator_id \in Pid
    /\ games[g].opponent_id = NoId
    /\ Holds(games[g].creator_id, g)

LoneInv == (\A p \in Pid : LoneThread(p)) /\ (\A g \in Gid : LoneGame(g))

LEMMA OwnedHeld ==
  ASSUME LoneInv, NEW p \in Pid, NEW g \in Gid, Owns(p, g)
  PROVE  Holds(p, g)
  BY NoIdNowhere DEF LoneInv, LoneGame, Owns

(* what the thread of another client may do to a player: refuse its request *)
Released(q) == /\ players[q].state = "INVITED" /\ players'[q].state = "LOBBY"
               /\ GameOf(q)' = GameOf(q)

(* ... and to a game: ask to join it *)
SameOwner(g) == /\ games'[g].id = games[g].id /\ games'[g].creator_id = games[g].creator_id
                /\ games'[g].opponent_id = games[g].opponent_id

(* a step of one thread that seats nobody but its own client *)
LEMMA LoneUpdate ==
  ASSUME LoneInv, NEW p \in Pid,
         \A q \in Pid \ {p} : thr'[q] = thr[q] /\ (players'[q] = players[q] \/ Released(q)),
         \A g \in Gid :
           \/ games'[g] = games[g]
           \/ SameOwner(g)
           \/ /\ games[g].id = NoId \/ Owns(p, g)
              /\ games'[g].id # NoId =>
                   games'[g].id = g /\ games'[g].creator_id = p /\ games'[g].opponent_id = NoId,
         LoneThread(p)',
         \A g \in Gid : Owns(p, g)' => Holds(p, g)'
  PROVE  LoneInv'
  <1>1. ASSUME NEW q \in Pid \ {p}
        PROVE  LoneThread(q)' /\ \A g : Holds(q, g)' <=> Holds(q, g)
    <2>1. /\ LoneThread(q) /\ thr'[q] = thr[q] /\ GameOf(q)' = GameOf(q)
          /\ players'[q].state = players[q].state \/ Released(q)
      BY DEF LoneInv, Released, GameOf
    <2>2. \A g : Owns(q, g) => Owns(q, g)'
      BY NoIdNowhere DEF Owns, SameOwner
    <2>3. LoneThread(q)'
      BY <2>1, <2>2, NoIdNowhere DEF LoneThread, Creating, Released
    <2> QED BY <2>1, <2>3 DEF Holds, Creating
  <1>2. ASSUME NEW g \in Gid PROVE LoneGame(g)'
    <2> SUFFICES ASSUME games'[g].id # NoId
                 PROVE  /\ games'[g].id = g /\ games'[g].creator_id \in Pid
                        /\ games'[g].opponent_id = NoId /\ Holds(games[g].creator_id, g)'
      BY DEF LoneGame
    <2>1. CASE SameOwner(g) /\ games[g].creator_id # p
      <3>1. LoneGame(g)
        BY DEF LoneInv
      <3> QED BY <1>1, <2>1, <3>1 DEF LoneGame, SameOwner
    <2>2. CASE ~(SameOwner(g) /\ games[g].creator_id # p)
      <3>1. games'[g].id = g /\ games'[g].creator_id = p /\ games'[g].opponent_id = NoId
        BY <2>2 DEF LoneInv, LoneGame, SameOwner
      <3>2. Owns(p, g)'
        BY <3>1 DEF Owns
      <3> QED BY <3>1, <3>2
    <2> QED BY <2>1, <2>2
  <1> QED BY <1>1, <1>2 DEF LoneInv

(* a step that moves one thread and nothing else *)
LEMMA LoneMove ==
  ASSUME LoneInv, NEW p \in Pid, ThreadOnly(p),
         thr'[p].pc \in LoneSections(thr'[p].cmd),
         {thr[p].pc, thr'[p].pc} \cap {"none", "attach", "copy_code", "reset_self",
                                      "lock_table", "remove_player"} = {},
         thr'[p].cmd = "LOGIN" => players[p].state = "CONNECTED",
         thr'[p].cmd \in {"CREATE_GAME", "JOIN_GAME"} => players[p].state = "LOBBY",
         thr'[p].pc \in {"get_game", "clear_invite", "dissolve", "remove_game"}
           => thr'[p].game = GameOf(p)
  PROVE  LoneInv'
  <1>1. LoneThread(p) /\ \A g \in Gid : Owns(p, g) => Holds(p, g)
    BY OwnedHeld DEF LoneInv
  <1>2. LoneThread(p)'
    BY <1>1 DEF LoneThread, GameOf, Creating, Owns, ThreadOnly
  <1>3. \A g \in Gid : Owns(p, g)' => Holds(p, g)'
    BY <1>1 DEF Owns, Holds, GameOf, Creating, ThreadOnly
  <1> QED BY <1>2, <1>3, LoneUpdate DEF ThreadOnly

LEMMA LoneConnect ==
  ASSUME TypeInv, OwnSlot, LoneInv, NEW p \in Pid, Connect(p) PROVE LoneInv'
  <1>1. thr[p].pc = "none"
    BY NoIdNowhere DEF Connect, OwnSlot
  <1>2. GameOf(p) = NoId
    BY <1>1 DEF LoneInv, LoneThread
  <1>3. \A g \in Gid : ~Owns(p, g)
    BY <1>1, <1>2, OwnedHeld, NoIdNowhere DEF Holds, Creating
  <1>4. /\ thr'[p] = Idle("receive")
        /\ players'[p] = [FreePlayer EXCEPT !.id = p, !.state = "CONNECTED"]
        /\ \A q \in Pid \ {p} : players'[q] = players[q] /\ thr'[q] = thr[q]
        /\ games' = games
    BY DEF Connect, gameVars, TypeInv, TypeOK
  <1>5. /\ thr'[p].pc = "receive" /\ thr'[p].cmd = "NONE"
        /\ players'[p].state = "CONNECTED" /\ GameOf(p)' = NoId
    BY <1>4 DEF Idle, FreePlayer, GameOf
  <1>6. LoneThread(p)'
    BY <1>5 DEF LoneThread, LoneSections, Creating
  <1> QED BY <1>3, <1>4, <1>6, LoneUpdate DEF Owns

(* a handler ends *)
LEMMA LoneReturn ==
  ASSUME TypeInv, LoneInv, NEW p \in Pid, Return(p), UNCHANGED <<players, games>>,
         thr[p].pc \notin {"none", "attach", "copy_code", "reset_self", "lock_table", "remove_player"}
  PROVE  LoneInv'
  <1>1. thr'[p] = Idle("receive") /\ \A q \in Pid \ {p} : thr'[q] = thr[q]
    BY MovesThread DEF Return
  <1>2. thr'[p].pc = "receive" /\ thr'[p].cmd = "NONE"
    BY <1>1 DEF Idle
  <1> QED BY <1>1, <1>2, LoneMove DEF LoneSections, ThreadOnly

LEMMA LoneReceive ==
  ASSUME NobodyAccepts, TypeInv, LoneInv, NEW p \in Pid, Receive(p) PROVE LoneInv'
  <1>1. PICK k \in Commands : /\ players[p].state \in Allowed(k)
                              /\ thr' = [thr EXCEPT ![p] = [thr[p] EXCEPT !.pc = FirstSection(k), !.cmd = k]]
    BY DEF Receive
  <1>2. thr'[p] = [thr[p] EXCEPT !.pc = FirstSection(k), !.cmd = k]
        /\ \A q \in Pid \ {p} : thr'[q] = thr[q]
    BY <1>1, MovesThread
  <1>3. thr'[p].pc = FirstSection(k) /\ thr'[p].cmd = k
    BY <1>2, Locals DEF Thread
  <1>4. players[p].state \in {"DISCONNECTED", "CONNECTED", "LOBBY", "INVITED", "WAITING_OPPONENT"}
    BY DEF LoneInv, LoneThread
  <1>5. k \in {"LOGIN", "CREATE_GAME", "JOIN_GAME", "REJECT_INVITE", "LEAVE_GAME", "QUIT"}
    BY <1>1, <1>4, ConstantsAssumption DEF NobodyAccepts, Allowed, AllCommands
  <1>6. FirstSection(k) \in LoneSections(k) 
        /\ FirstSection(k) \in {"set_username", "create", "find_code", "resolve", "read_game_id"}
    BY <1>5 DEF FirstSection, LoneSections, LeaveSections
  <1>7. /\ k = "LOGIN" => players[p].state = "CONNECTED"
        /\ k \in {"CREATE_GAME", "JOIN_GAME"} => players[p].state = "LOBBY"
    BY <1>1 DEF Allowed
  <1>8. ThreadOnly(p) /\ thr[p].pc = "receive"
    BY <1>2 DEF Receive, At, ThreadOnly, playerVars, gameVars
  <1> QED BY <1>3, <1>6, <1>7, <1>8, LoneMove

LEMMA LoneLogin ==
  ASSUME TypeInv, LoneInv, NEW p \in Pid, Login(p) PROVE LoneInv'
  <1>1. LoneThread(p) /\ \A g \in Gid : Owns(p, g) => Holds(p, g)
    BY OwnedHeld DEF LoneInv
  <1>2. games' = games /\ thr[p].pc \in {"set_username", "enter_lobby"}
    BY DEF Login, SetUsername, EnterLobby, gameVars, At
  <1>3. thr[p].cmd = "LOGIN" /\ players[p].state = "CONNECTED" /\ GameOf(p) = NoId
    BY <1>1, <1>2, Locals DEF LoneThread, LoneSections, LeaveSections, AllCommands
  <1>4. ASSUME /\ \A q \in Pid \ {p} : players'[q] = players[q] /\ thr'[q] = thr[q]
               /\ GameOf(p)' = NoId /\ ~Creating(p)'
               /\ LoneThread(p)'
        PROVE  LoneInv'
    <2>1. \A g \in Gid : ~Owns(p, g)'
      BY <1>1, <1>2, <1>3, NoIdNowhere DEF Owns, Holds, Creating
    <2> QED BY <1>2, <1>4, <2>1, LoneUpdate
  <1>5. CASE SetUsername(p)
    <2>1. CASE Return(p) /\ UNCHANGED players
      BY <1>2, <2>1, LoneReturn
    <2>2. ASSUME NEW n \in Names, players' = [players EXCEPT ![p].username = n], Goto(p, "enter_lobby")
          PROVE  LoneInv'
      <3>1. /\ players'[p].state = "CONNECTED" /\ GameOf(p)' = NoId
            /\ \A q \in Pid \ {p} : players'[q] = players[q]
        BY <1>3, <2>2, Locals DEF TypeInv, TypeOK, Player, GameOf
      <3>2. /\ thr'[p].pc = "enter_lobby" /\ thr'[p].cmd = "LOGIN"
            /\ \A q \in Pid \ {p} : thr'[q] = thr[q]
        BY <1>3, <2>2, GotoThread
      <3>3. LoneThread(p)'
        BY <3>1, <3>2 DEF LoneThread, LoneSections, Creating
      <3> QED BY <1>4, <3>1, <3>2, <3>3 DEF Creating
    <2> QED BY <1>5, <2>1, <2>2 DEF SetUsername
  <1>6. CASE EnterLobby(p)
    <2>1. /\ players'[p].state = "LOBBY" /\ GameOf(p)' = NoId
          /\ \A q \in Pid \ {p} : players'[q] = players[q]
      BY <1>3, <1>6, Locals DEF EnterLobby, TypeInv, TypeOK, Player, GameOf
    <2>2. thr'[p] = Idle("receive") /\ \A q \in Pid \ {p} : thr'[q] = thr[q]
      BY <1>6, MovesThread DEF EnterLobby, Return
    <2>3. thr'[p].pc = "receive" /\ thr'[p].cmd = "NONE"
      BY <2>2 DEF Idle
    <2>4. LoneThread(p)'
      BY <2>1, <2>3 DEF LoneThread, LoneSections, Creating
    <2> QED BY <1>4, <2>1, <2>2, <2>3, <2>4 DEF Creating
  <1> QED BY <1>5, <1>6 DEF Login

LEMMA LoneCreate ==
  ASSUME TypeInv, LoneInv, NEW p \in Pid, Create(p) PROVE LoneInv'
  <1>1. LoneThread(p) /\ \A g \in Gid : Owns(p, g) => Holds(p, g)
    BY OwnedHeld DEF LoneInv
  <1>2. thr[p].pc \in {"create", "copy_code", "attach"}
    BY DEF Create, CreateGame, CopyCode, AttachCreator, At
  <1>3. thr[p].cmd = "CREATE_GAME" /\ players[p].state = "LOBBY" /\ GameOf(p) = NoId
    BY <1>1, <1>2, Locals DEF LoneThread, LoneSections, LeaveSections, AllCommands
  <1>4. CASE CreateGame(p)
    <2>0. players' = players /\ thr[p].pc = "create"
      BY <1>4 DEF CreateGame, playerVars, At
    <2>1. CASE Return(p) /\ UNCHANGED gameVars
      BY <2>0, <2>1, LoneReturn DEF gameVars
    <2>2. ASSUME NEW g \in Gid, games[g].id = NoId, games' = [games EXCEPT ![g] = NewGame(g, p)],
                 thr' = [thr EXCEPT ![p] = [thr[p] EXCEPT !.pc = "copy_code", !.game = g]]
          PROVE  LoneInv'
      <3>1. thr'[p] = [thr[p] EXCEPT !.pc = "copy_code", !.game = g]
            /\ \A q \in Pid \ {p} : thr'[q] = thr[q]
        BY <2>2, MovesThread
      <3>2. thr'[p].pc = "copy_code" /\ thr'[p].game = g /\ thr'[p].cmd = "CREATE_GAME"
        BY <1>3, <3>1, Locals DEF Thread
      <3>3. games'[g] = NewGame(g, p) /\ \A h \in Gid \ {g} : games'[h] = games[h]
        BY <2>2 DEF TypeInv, TypeOK
      <3>4. games'[g].id = g /\ games'[g].creator_id = p /\ games'[g].opponent_id = NoId
        BY <3>3 DEF NewGame, FreeGame
      <3>5. LoneThread(p)'
        BY <1>3, <2>0, <3>2, <3>4 DEF LoneThread, LoneSections, GameOf, Creating, Owns
      <3>6. \A h \in Gid : Owns(p, h)' => h = g
        BY <1>1, <1>3, <2>0, <3>3, NoIdNowhere DEF Owns, Holds, Creating
      <3>7. \A h \in Gid : Owns(p, h)' => Holds(p, h)'
        BY <3>2, <3>6 DEF Holds, Creating
      <3>8. \A h \in Gid :
              games'[h] = games[h]
                \/ /\ games[h].id = NoId
                   /\ games'[h].id = h /\ games'[h].creator_id = p /\ games'[h].opponent_id = NoId
        BY <2>2, <3>3, <3>4
      <3> QED BY <2>0, <3>1, <3>5, <3>7, <3>8, LoneUpdate
    <2> QED BY <1>4, <2>1, <2>2 DEF CreateGame
  <1>5. CASE CopyCode(p)
    <2>1. thr[p].pc = "copy_code" /\ players' = players /\ games' = games
      BY <1>5 DEF CopyCode, At, playerVars, gameVars
    <2>2. Owns(p, thr[p].game)
      BY <1>1, <2>1 DEF LoneThread, Creating
    <2>3. thr' = [thr EXCEPT ![p] = [thr[p] EXCEPT !.pc = "attach", !.game = games[thr[p].game].id]]
      BY <1>5 DEF CopyCode
    <2>4. thr'[p] = [thr[p] EXCEPT !.pc = "attach", !.game = games[thr[p].game].id]
          /\ \A q \in Pid \ {p} : thr'[q] = thr[q]
      BY <2>3, MovesThread
    <2>5. thr'[p].pc = "attach" /\ thr'[p].game = thr[p].game /\ thr'[p].cmd = "CREATE_GAME"
      BY <1>3, <2>2, <2>4, Locals DEF Thread, Owns
    <2>6. LoneThread(p)'
      BY <1>3, <2>1, <2>2, <2>5 DEF LoneThread, LoneSections, GameOf, Creating, Owns
    <2>7. \A h \in Gid : Owns(p, h)' => Holds(p, h)'
      BY <1>1, <2>1, <2>5 DEF Owns, Holds, Creating, GameOf
    <2> QED BY <2>1, <2>4, <2>6, <2>7, LoneUpdate
  <1>6. CASE AttachCreator(p)
    <2>1. thr[p].pc = "attach" /\ games' = games
      BY <1>6 DEF AttachCreator, At, gameVars
    <2>2. Owns(p, thr[p].game)
      BY <1>1, <2>1 DEF LoneThread, Creating
    <2>3. /\ players'[p].state = "WAITING_OPPONENT" /\ GameOf(p)' = thr[p].game
          /\ \A q \in Pid \ {p} : players'[q] = players[q]
      BY <1>6, Locals DEF AttachCreator, TypeInv, TypeOK, Player, GameOf
    <2>4. thr'[p] = Idle("receive") /\ \A q \in Pid \ {p} : thr'[q] = thr[q]
      BY <1>6, MovesThread DEF AttachCreator, Return
    <2>5. thr'[p].pc = "receive" /\ thr'[p].cmd = "NONE"
      BY <2>4 DEF Idle
    <2>6. LoneThread(p)'
      BY <2>1, <2>2, <2>3, <2>5, NoIdNowhere DEF LoneThread, LoneSections, Creating, Owns
    <2>7. \A h \in Gid : Owns(p, h)' => Holds(p, h)'
      BY <1>1, <1>3, <2>1, <2>3, <2>5, NoIdNowhere DEF Owns, Holds
    <2> QED BY <2>1, <2>3, <2>4, <2>6, <2>7, LoneUpdate
  <1> QED BY <1>4, <1>5, <1>6 DEF Create

LEMMA LoneLookup ==
  ASSUME TypeInv, LoneInv, NEW p \in Pid, ReadGameId(p) \/ GetGame(p) PROVE LoneInv'
  <1>1. LoneThread(p) /\ \A g \in Gid : Owns(p, g) => Holds(p, g)
    BY OwnedHeld DEF LoneInv
  <1>2. players' = players /\ games' = games /\ thr[p].pc \in {"read_game_id", "get_game"}
    BY DEF ReadGameId, GetGame, playerVars, gameVars, At
  <1>3. thr[p].cmd \in {"REJECT_INVITE", "LEAVE_GAME", "QUIT"}
    BY <1>1, <1>2, Locals DEF LoneThread, LoneSections, AllCommands
  <1>4. CASE ReadGameId(p)
    <2>1. thr' = [thr EXCEPT ![p] = [thr[p] EXCEPT !.pc = "get_game", !.game = players[p].current_game_id]]
      BY <1>4 DEF ReadGameId
    <2>2. thr'[p] = [thr[p] EXCEPT !.pc = "get_game", !.game = players[p].current_game_id]
          /\ \A q \in Pid \ {p} : thr'[q] = thr[q]
      BY <2>1, MovesThread
    <2>3. thr'[p].pc = "get_game" /\ thr'[p].game = GameOf(p) /\ thr'[p].cmd = thr[p].cmd
      BY <2>2, Locals DEF Thread, GameOf
    <2> QED BY <1>2, <1>3, <2>2, <2>3, LoneMove DEF LoneSections, LeaveSections, ThreadOnly
  <1>5. CASE GetGame(p)
    <2>1. thr[p].pc = "get_game" /\ thr[p].game = GameOf(p)
      BY <1>1, <1>5 DEF GetGame, At, LoneThread
    <2>2. CASE Return(p)
      BY <1>2, <2>1, <2>2, LoneReturn
    <2>3. CASE thr[p].cmd = "REJECT_INVITE" /\ Goto(p, "clear_invite")
      <3>1. /\ thr'[p].pc = "clear_invite" /\ thr'[p].cmd = "REJECT_INVITE"
            /\ thr'[p].game = GameOf(p) /\ \A q \in Pid \ {p} : thr'[q] = thr[q]
        BY <2>1, <2>3, GotoThread
      <3> QED BY <1>2, <2>1, <3>1, LoneMove DEF LoneSections, ThreadOnly
    <2>4. CASE thr[p].cmd # "REJECT_INVITE" /\ Goto(p, "dissolve")
      <3>1. /\ thr'[p].pc = "dissolve" /\ thr'[p].cmd \in {"LEAVE_GAME", "QUIT"}
            /\ thr'[p].game = GameOf(p) /\ \A q \in Pid \ {p} : thr'[q] = thr[q]
        BY <1>3, <2>1, <2>4, GotoThread
      <3> QED BY <1>2, <2>1, <3>1, LoneMove DEF LoneSections, LeaveSections, ThreadOnly
    <2>5. CASE /\ thr[p].cmd # "REJECT_INVITE" /\ Goto(p, "reset_self")
               /\ ~(thr[p].game # NoId /\ games[thr[p].game].id = thr[p].game)
      <3>1. GameOf(p) = NoId
        BY <1>1, <2>1, <2>5 DEF LoneThread, Owns
      <3>2. /\ thr'[p].pc = "reset_self" /\ thr'[p].cmd \in {"LEAVE_GAME", "QUIT"}
            /\ \A q \in Pid \ {p} : thr'[q] = thr[q]
        BY <1>3, <2>5, GotoThread
      <3>3. \A g \in Gid : ~Owns(p, g)'
        BY <1>1, <1>2, <2>1, <3>1, NoIdNowhere DEF Owns, Holds, Creating
      <3>4. LoneThread(p)'
        BY <1>1, <1>2, <3>1, <3>2 DEF LoneThread, LoneSections, LeaveSections, GameOf, Creating
      <3> QED BY <1>2, <3>2, <3>3, <3>4, LoneUpdate
    <2> QED BY <1>3, <1>5, <2>2, <2>3, <2>4, <2>5 DEF GetGame
  <1> QED BY <1>4, <1>5

LEMMA LoneJoin ==
  ASSUME TypeInv, LoneInv, NEW p \in Pid, Join(p) PROVE LoneInv'
  <1>1. LoneThread(p) /\ \A g \in Gid : Owns(p, g) => Holds(p, g)
    BY OwnedHeld DEF LoneInv
  <1>2. thr[p].pc \in {"find_code", "file_request", "set_invited"}
    BY DEF Join, FindCode, FileRequest, SetInvited, At
  <1>3. thr[p].cmd = "JOIN_GAME" /\ players[p].state = "LOBBY" /\ GameOf(p) = NoId
    BY <1>1, <1>2, Locals DEF LoneThread, LoneSections, LeaveSections, AllCommands
  <1>4. CASE FindCode(p)
    <2>1. players' = players /\ games' = games
      BY <1>4 DEF FindCode, playerVars, gameVars
    <2>2. CASE Return(p)
      BY <1>2, <2>1, <2>2, LoneReturn
    <2>3. ASSUME NEW g \in Gid, thr' = [thr EXCEPT ![p] = [thr[p] EXCEPT !.pc = "file_request", !.game = g]]
          PROVE  LoneInv'
      <3>1. thr'[p] = [thr[p] EXCEPT !.pc = "file_request", !.game = g]
            /\ \A q \in Pid \ {p} : thr'[q] = thr[q]
        BY <2>3, MovesThread
      <3>2. thr'[p].pc = "file_request" /\ thr'[p].cmd = "JOIN_GAME"
        BY <1>3, <3>1, Locals DEF Thread
      <3> QED BY <1>2, <1>3, <2>1, <3>1, <3>2, LoneMove DEF LoneSections, ThreadOnly
    <2> QED BY <1>4, <2>2, <2>3 DEF FindCode
  <1>5. CASE FileRequest(p)
    <2> DEFINE g == thr[p].game
    <2>1. players' = players /\ thr[p].pc = "file_request"
      BY <1>5 DEF FileRequest, playerVars, At
    <2>2. CASE Return(p) /\ UNCHANGED games
      BY <2>1, <2>2, LoneReturn
    <2>3. CASE /\ games' = [games EXCEPT ![g].pending_invite_from = p]
               /\ thr' = [thr EXCEPT ![p] = [Idle("set_invited") EXCEPT !.cmd = "JOIN_GAME",
                                                                       !.creator = games[g].creator_id]]
      <3>1. thr'[p] = [Idle("set_invited") EXCEPT !.cmd = "JOIN_GAME", !.creator = games[g].creator_id]
            /\ \A q \in Pid \ {p} : thr'[q] = thr[q]
        BY <2>3, MovesThread
      <3>2. thr'[p].pc = "set_invited" /\ thr'[p].cmd = "JOIN_GAME"
        BY <3>1 DEF Idle
      <3>3. \A h \in Gid : SameOwner(h)
        BY <2>3, GameFields DEF TypeInv, TypeOK, Game, SameOwner
      <3>4. LoneThread(p)'
        BY <1>3, <2>1, <3>2 DEF LoneThread, LoneSections, GameOf, Creating
      <3>5. \A h \in Gid : ~Owns(p, h)'
        BY <1>1, <1>3, <2>1, <3>3, NoIdNowhere DEF Owns, SameOwner, Holds, Creating
      <3> QED BY <2>1, <3>1, <3>3, <3>4, <3>5, LoneUpdate
    <2> QED BY <1>5, <2>2, <2>3 DEF FileRequest
  <1>6. CASE SetInvited(p)
    <2>1. games' = games /\ thr[p].pc = "set_invited"
      BY <1>6 DEF SetInvited, gameVars, At
    <2>2. /\ players'[p].state = "INVITED" /\ GameOf(p)' = NoId
          /\ \A q \in Pid \ {p} : players'[q] = players[q]
      BY <1>3, <1>6, Locals DEF SetInvited, TypeInv, TypeOK, Player, GameOf
    <2>3. thr'[p] = Idle("receive") /\ \A q \in Pid \ {p} : thr'[q] = thr[q]
      BY <1>6, MovesThread DEF SetInvited, Return
    <2>4. thr'[p].pc = "receive" /\ thr'[p].cmd = "NONE"
      BY <2>3 DEF Idle
    <2>5. LoneThread(p)'
      BY <2>2, <2>4 DEF LoneThread, LoneSections, Creating
    <2>6. \A h \in Gid : ~Owns(p, h)'
      BY <1>1, <1>3, <2>1, NoIdNowhere DEF Owns, Holds, Creating
    <2> QED BY <2>1, <2>2, <2>3, <2>5, <2>6, LoneUpdate
  <1> QED BY <1>4, <1>5, <1>6 DEF Join

LEMMA LoneInvite ==
  ASSUME TypeInv, LoneInv, NEW p \in Pid, Resolve(p) \/ ClearInvite(p) \/ ReleaseRequester(p)
  PROVE  LoneInv'
  <1>1. LoneThread(p) /\ \A g \in Gid : Owns(p, g) => Holds(p, g)
    BY OwnedHeld DEF LoneInv
  <1>2. thr[p].pc \in {"resolve", "clear_invite", "release_requester"}
    BY DEF Resolve, ClearInvite, ReleaseRequester, At
  <1>3. thr[p].cmd = "REJECT_INVITE"
    BY <1>1, <1>2, Locals DEF LoneThread, LoneSections, LeaveSections, AllCommands
  <1>4. CASE Resolve(p)
    <2>1. players' = players /\ games' = games
      BY <1>4 DEF Resolve, playerVars, gameVars
    <2>2. CASE Return(p)
      BY <1>2, <2>1, <2>2, LoneReturn
    <2>3. ASSUME NEW r \in Pid, thr' = [thr EXCEPT ![p] = [thr[p] EXCEPT !.pc = "read_game_id", !.other = r]]
          PROVE  LoneInv'
      <3>1. thr'[p] = [thr[p] EXCEPT !.pc = "read_game_id", !.other = r]
            /\ \A q \in Pid \ {p} : thr'[q] = thr[q]
        BY <2>3, MovesThread
      <3>2. thr'[p].pc = "read_game_id" /\ thr'[p].cmd = "REJECT_INVITE"
        BY <1>3, <3>1, Locals DEF Thread
      <3> QED BY <1>2, <2>1, <3>1, <3>2, LoneMove DEF LoneSections, ThreadOnly
    <2> QED BY <1>4, <2>2, <2>3 DEF Resolve
  <1>5. CASE ClearInvite(p)
    <2> DEFINE g == thr[p].game
    <2>1. players' = players /\ thr[p].pc = "clear_invite"
      BY <1>5 DEF ClearInvite, playerVars, At
    <2>2. CASE Return(p) /\ UNCHANGED games
      BY <2>1, <2>2, LoneReturn
    <2>3. CASE games' = [games EXCEPT ![g].pending_invite_from = NoId] /\ Goto(p, "release_requester")
      <3>1. g \in Gid /\ g = GameOf(p)
        BY <1>1, <2>1, Locals DEF ThreadOK, GameSections, LoneThread
      <3>2. Owns(p, g)
        BY <1>1, <2>1, <3>1, NoIdNowhere DEF LoneThread
      <3>3. /\ games[g].id = g /\ games[g].creator_id = p /\ games[g].opponent_id = NoId
        BY <3>2, NoIdNowhere DEF Owns, LoneInv, LoneGame
      <3>4. /\ games'[g].id = g /\ games'[g].creator_id = p /\ games'[g].opponent_id = NoId
            /\ \A h \in Gid \ {g} : games'[h] = games[h]
        BY <2>3, <3>1, <3>3, GameFields DEF TypeInv, TypeOK, Game
      <3>5. /\ thr'[p].pc = "release_requester" /\ thr'[p].cmd = "REJECT_INVITE"
            /\ \A q \in Pid \ {p} : thr'[q] = thr[q]
        BY <1>3, <2>3, GotoThread
      <3>6. \A h \in Gid : Owns(p, h)' => Owns(p, h)
        BY <3>2, <3>4 DEF Owns
      <3>7. Owns(p, GameOf(p))'
        BY <2>1, <3>1, <3>4 DEF Owns, GameOf
      <3> HIDE DEF g
      <3>8. LoneThread(p)'
        BY <1>1, <2>1, <3>1, <3>5, <3>7 DEF LoneThread, LoneSections, GameOf, Creating
      <3>9. \A h \in Gid : Owns(p, h)' => Holds(p, h)'
        BY <1>1, <2>1, <3>5, <3>6 DEF Holds, GameOf, Creating
      <3> QED BY <2>1, <3>2, <3>4, <3>5, <3>8, <3>9, LoneUpdate
    <2> QED BY <1>5, <2>2, <2>3 DEF ClearInvite
  <1>6. CASE ReleaseRequester(p)
    <2>1. thr[p].pc = "release_requester" /\ games' = games /\ Return(p)
      BY <1>6 DEF ReleaseRequester, gameVars, At
    <2>2. CASE players[thr[p].other].state # "INVITED"
      <3>1. players' = players
        BY <1>6, <2>2 DEF ReleaseRequester
      <3> QED BY <2>1, <3>1, LoneReturn
    <2>3. CASE players[thr[p].other].state = "INVITED"
      <3> DEFINE r == thr[p].other
      <3>1. r \in Pid
        BY <2>1, Locals DEF ThreadOK, OtherSections
      <3>2. players' = [players EXCEPT ![r].state = "LOBBY"]
        BY <1>6, <2>3 DEF ReleaseRequester
      <3>3. /\ players'[r].state = "LOBBY" /\ GameOf(r) = players'[r].current_game_id
            /\ \A q \in Pid \ {r} : players'[q] = players[q]
        BY <3>1, <3>2, Locals DEF TypeInv, TypeOK, Player, GameOf
      <3>4. thr'[p] = Idle("receive") /\ \A q \in Pid \ {p} : thr'[q] = thr[q]
        BY <2>1, MovesThread DEF Return
      <3>5. thr'[p].pc = "receive" /\ thr'[p].cmd = "NONE"
        BY <3>4 DEF Idle
      <3>6. \A q \in Pid : /\ players'[q] = players[q] \/ Released(q)
                           /\ GameOf(q)' = GameOf(q)
        BY <2>3, <3>3 DEF Released, GameOf
      <3>7. /\ players'[p].state \in {"DISCONNECTED", "CONNECTED", "LOBBY", "INVITED", "WAITING_OPPONENT"}
            /\ players'[p].state = "WAITING_OPPONENT" <=> players[p].state = "WAITING_OPPONENT"
        BY <1>1, <3>6 DEF LoneThread, Released
      <3>8. LoneThread(p)'
        BY <1>1, <2>1, <3>5, <3>6, <3>7 DEF LoneThread, LoneSections, Creating, Owns
      <3>9. \A h \in Gid : Owns(p, h)' => Holds(p, h)'
        BY <1>1, <2>1, <3>5, <3>6 DEF Owns, Holds, Creating
      <3> QED BY <2>1, <3>4, <3>6, <3>8, <3>9, LoneUpdate
    <2> QED BY <2>2, <2>3
  <1> QED BY <1>4, <1>5, <1>6

LEMMA LoneLeave ==
  ASSUME TypeInv, LoneInv, NEW p \in Pid,
         Dissolve(p) \/ RemoveGame(p) \/ ResetSelf(p) \/ LockTable(p) \/ RemovePlayer(p)
  PROVE  LoneInv'
  <1> DEFINE g == thr[p].game
  <1>1. LoneThread(p) /\ \A h \in Gid : Owns(p, h) => Holds(p, h)
    BY OwnedHeld DEF LoneInv
  <1>2. thr[p].pc \in {"dissolve", "remove_game", "reset_self", "lock_table", "remove_player"}
    BY DEF Dissolve, RemoveGame, ResetSelf, LockTable, RemovePlayer, At
  <1>3. /\ thr[p].cmd \in {"LEAVE_GAME", "QUIT"}
        /\ thr[p].pc \in {"lock_table", "remove_player"} => thr[p].cmd = "QUIT"
    BY <1>1, <1>2, Locals DEF LoneThread, LoneSections, LeaveSections, AllCommands
  <1>4. ASSUME thr[p].pc \in {"dissolve", "remove_game"}
        PROVE  g \in Gid /\ g = GameOf(p) /\ Owns(p, g) /\ games[g].opponent_id = NoId
    <2>1. g \in Gid /\ g = GameOf(p)
      BY <1>1, <1>4, Locals DEF ThreadOK, GameSections, LoneThread
    <2>2. Owns(p, g)
      BY <1>1, <1>4, <2>1, NoIdNowhere DEF LoneThread
    <2> QED BY <2>1, <2>2, NoIdNowhere DEF Owns, LoneInv, LoneGame
  <1>5. ASSUME thr[p].pc \in {"reset_self", "lock_table", "remove_player"}
        PROVE \A h \in Gid : ~Owns(p, h)
    BY <1>1, <1>5, NoIdNowhere DEF LoneThread, Holds, Creating
  <1>6. CASE Dissolve(p)
    <2>1. thr[p].pc = "dissolve" /\ players' = players
      BY <1>6 DEF Dissolve, At, playerVars
    <2>2. OtherMember(g, p) = NoId
      BY <1>4, <2>1 DEF Owns, OtherMember
    <2>3. /\ games' = [games EXCEPT ![g].state = "FINISHED"]
          /\ thr' = [thr EXCEPT ![p] = [thr[p] EXCEPT !.pc = "remove_game", !.other = NoId]]
      BY <1>6, <2>2 DEF Dissolve
    <2>4. thr'[p] = [thr[p] EXCEPT !.pc = "remove_game", !.other = NoId]
          /\ \A q \in Pid \ {p} : thr'[q] = thr[q]
      BY <2>3, MovesThread
    <2>5. thr'[p].pc = "remove_game" /\ thr'[p].game = g /\ thr'[p].cmd = thr[p].cmd
      BY <2>4, Locals DEF Thread
    <2>6. /\ games'[g].id = g /\ games'[g].creator_id = p /\ games'[g].opponent_id = NoId
          /\ \A h \in Gid \ {g} : games'[h] = games[h]
      BY <1>4, <2>1, <2>3, GameFields DEF Owns, TypeInv, TypeOK, Game
    <2> HIDE DEF g
    <2>7. Owns(p, GameOf(p))' /\ \A h \in Gid : Owns(p, h)' => Owns(p, h)
      BY <1>4, <2>1, <2>6 DEF Owns, GameOf
    <2>8. LoneThread(p)'
      BY <1>1, <1>3, <1>4, <2>1, <2>5, <2>7 DEF LoneThread, LoneSections, LeaveSections, GameOf, Creating
    <2>9. \A h \in Gid : Owns(p, h)' => Holds(p, h)'
      BY <1>1, <2>1, <2>5, <2>7 DEF Holds, GameOf, Creating
    <2> QED BY <1>4, <2>1, <2>4, <2>6, <2>8, <2>9, LoneUpdate
  <1>7. CASE RemoveGame(p)
    <2>1. thr[p].pc = "remove_game" /\ players' = players /\ Goto(p, "reset_self")
      BY <1>7 DEF RemoveGame, At, playerVars
    <2>2. g \in Gid /\ g = GameOf(p) /\ Owns(p, g)
      BY <1>4, <2>1
    <2>3. games' = [games EXCEPT ![g] = [@ EXCEPT !.id = NoId, !.state = "FINISHED",
                                                  !.creator_id = NoId, !.opponent_id = NoId,
                                                  !.pending_invite_from = NoId]]
      BY <1>7, <2>2 DEF RemoveGame, InTable, Owns
    <2>4. games'[g].id = NoId /\ \A h \in Gid \ {g} : games'[h] = games[h]
      BY <2>2, <2>3, GameFields DEF TypeInv, TypeOK, Game
    <2>5. /\ thr'[p].pc = "reset_self" /\ thr'[p].cmd = thr[p].cmd
          /\ \A q \in Pid \ {p} : thr'[q] = thr[q]
      BY <2>1, GotoThread
    <2> HIDE DEF g
    <2>6. LoneThread(p)'
      BY <1>1, <1>3, <2>1, <2>5 DEF LoneThread, LoneSections, LeaveSections, GameOf, Creating
    <2>7. \A h \in Gid : ~Owns(p, h)'
      <3>1. \A h \in Gid : Owns(p, h) => h = g
        BY <1>1, <2>1, <2>2 DEF Holds, Creating
      <3> QED BY <2>4, <3>1, NoIdNowhere DEF Owns
    <2> QED BY <2>1, <2>2, <2>4, <2>5, <2>6, <2>7, LoneUpdate
  <1>8. CASE ResetSelf(p)
    <2>1. thr[p].pc = "reset_self" /\ games' = games /\ players' = ToLobby(p)
      BY <1>8 DEF ResetSelf, At, gameVars
    <2>2. /\ players'[p].state = "LOBBY" /\ GameOf(p)' = NoId
          /\ \A q \in Pid \ {p} : players'[q] = players[q]
      BY <2>1, Locals DEF ToLobby, TypeInv, TypeOK, Player, GameOf
    <2>3. /\ \/ thr'[p].pc = "receive" /\ thr'[p].cmd = "NONE"
             \/ thr'[p].pc = "lock_table" /\ thr'[p].cmd = "QUIT"
          /\ \A q \in Pid \ {p} : thr'[q] = thr[q]
      <3>1. CASE Goto(p, "lock_table") /\ thr[p].cmd = "QUIT"
        BY <3>1, GotoThread
      <3>2. CASE Return(p)
        <4>1. thr'[p] = Idle("receive") /\ \A q \in Pid \ {p} : thr'[q] = thr[q]
          BY <3>2, MovesThread DEF Return
        <4> QED BY <4>1 DEF Idle
      <3> QED BY <1>8, <3>1, <3>2 DEF ResetSelf
    <2>4. LoneThread(p)'
      BY <2>2, <2>3 DEF LoneThread, LoneSections, Creating
    <2>5. \A h \in Gid : ~Owns(p, h)'
      BY <1>5, <2>1 DEF Owns
    <2> QED BY <2>1, <2>2, <2>3, <2>4, <2>5, LoneUpdate
  <1>9. CASE RemovePlayer(p)
    <2>1. thr[p].pc = "remove_player" /\ games' = games
      BY <1>9 DEF RemovePlayer, At, gameVars
    <2>2. /\ players'[p].state = "DISCONNECTED" /\ GameOf(p)' = NoId
          /\ \A q \in Pid \ {p} : players'[q] = players[q]
      BY <1>9, Locals DEF RemovePlayer, TypeInv, TypeOK, Player, GameOf
    <2>3. thr'[p] = Idle("none") /\ \A q \in Pid \ {p} : thr'[q] = thr[q]
      BY <1>9, MovesThread DEF RemovePlayer
    <2>4. thr'[p].pc = "none" /\ thr'[p].cmd = "NONE"
      BY <2>3 DEF Idle
    <2>5. LoneThread(p)'
      BY <2>2, <2>4 DEF LoneThread, LoneSections, Creating
    <2>6. \A h \in Gid : ~Owns(p, h)'
      BY <1>5, <2>1 DEF Owns
    <2> QED BY <2>1, <2>2, <2>3, <2>5, <2>6, LoneUpdate
  <1>10. CASE LockTable(p)
    <2>1. /\ thr[p].pc = "lock_table" /\ players' = players /\ games' = games
          /\ Goto(p, "remove_player")
      BY <1>10 DEF LockTable, At, playerVars, gameVars
    <2>2. /\ thr'[p].pc = "remove_player" /\ thr'[p].cmd = "QUIT"
          /\ \A q \in Pid \ {p} : thr'[q] = thr[q]
      BY <1>3, <2>1, GotoThread
    <2>3. LoneThread(p)'
      BY <1>1, <2>1, <2>2 DEF LoneThread, LoneSections, GameOf, Creating
    <2>4. \A h \in Gid : ~Owns(p, h)'
      BY <1>5, <2>1 DEF Owns
    <2> QED BY <2>1, <2>2, <2>3, <2>4, LoneUpdate
  <1> QED BY <1>6, <1>7, <1>8, <1>9, <1>10

(* the sections of the other handlers are never entered *)
LEMMA LoneWork ==
  ASSUME TypeInv, LoneInv, NEW p \in Pid, Work(p)
  PROVE  \/ ReadGameId(p) \/ GetGame(p) \/ Login(p) \/ Create(p) \/ Join(p)
         \/ Resolve(p) \/ ClearInvite(p) \/ ReleaseRequester(p)
         \/ Dissolve(p) \/ RemoveGame(p) \/ ResetSelf(p) \/ LockTable(p) \/ RemovePlayer(p)
  <1>1. thr[p].pc \in {"none", "receive", "set_username", "enter_lobby", "create", "copy_code",
                       "attach", "find_code", "file_request", "set_invited", "resolve",
                       "read_game_id", "get_game", "clear_invite", "release_requester",
                       "dissolve", "remove_game", "reset_self", "lock_table", "remove_player"}
    BY Locals DEF LoneInv, LoneThread, LoneSections, LeaveSections, AllCommands
  <1>2. ~GetPlayer(p)
    BY <1>1 DEF GetPlayer, At
  <1>3. Invite(p) => Resolve(p) \/ ClearInvite(p) \/ ReleaseRequester(p)
    BY <1>1 DEF Invite, CheckInvite, AssignOpponent, SeatRequester, SeatCreator, At
  <1>4. ~Placing(p)
    BY <1>1 DEF Placing, PlaceShip, SetReady, MarkReady, GetCreator, GetOpponent, StartCreator,
                StartOpponent, At
  <1>5. ~Fire(p)
    BY <1>1 DEF Fire, CheckTurn, Aim, OrderFirst, OrderSecond, LockFirst, Shoot, DeclareWin,
                FinishSelf, FinishOpponent, PassTurn, At
  <1>6. Leave(p) => Dissolve(p) \/ RemoveGame(p) \/ ResetSelf(p) \/ LockTable(p) \/ RemovePlayer(p)
    BY <1>1 DEF Leave, SameGame, OfferChoice, Evict, At
  <1>7. ~Again(p)
    BY <1>1 DEF Again, AskRematch, RestartSelf, RestartOpponent, CheckAlone, SetWaiting, Reopen, At
  <1> QED BY <1>2, <1>3, <1>4, <1>5, <1>6, <1>7 DEF Work

LEMMA LoneInit == Init => LoneInv
  <1> SUFFICES ASSUME Init PROVE LoneInv
    OBVIOUS
  <1>1. \A g \in Gid : games[g].id = NoId
    BY DEF Init, FreeGame
  <1>2. \A p \in Pid : /\ thr[p].pc = "none" /\ thr[p].cmd = "NONE"
                       /\ players[p].state = "DISCONNECTED" /\ GameOf(p) = NoId
    BY DEF Init, FreePlayer, Idle, GameOf
  <1> QED BY <1>1, <1>2 DEF LoneInv, LoneThread, LoneSections, LoneGame, Creating

LEMMA LoneStep ==
  ASSUME NobodyAccepts, TypeInv, OwnSlot, LoneInv, [Next]_vars PROVE LoneInv'
  <1>1. CASE UNCHANGED vars
    BY <1>1 DEF vars, LoneInv, LoneThread, LoneGame, Holds, Owns, GameOf, Creating
  <1>2. ASSUME NEW p \in Pid, Work(p) PROVE LoneInv'
    BY <1>2, LoneWork, LoneLookup, LoneLogin, LoneCreate, LoneJoin, LoneInvite, LoneLeave
  <1> QED BY <1>1, <1>2, LoneConnect, LoneReceive DEF Next

LEMMA LoneQuiet ==
  ASSUME OwnSlot, LoneInv PROVE NoOrphanGame
  <1> SUFFICES ASSUME Quiescent, NEW g \in Gid, Used(g)
               PROVE  /\ Connected(games[g].creator_id)
                      /\ players[games[g].creator_id].current_game_id = g
    BY DEF NoOrphanGame
  <1> DEFINE c == games[g].creator_id
  <1>1. c \in Pid /\ Holds(c, g)
    BY NoIdNowhere DEF LoneInv, LoneGame, Used
  <1>2. thr[c].pc \in {"none", "receive"}
    BY <1>1 DEF Quiescent
  <1>3. GameOf(c) = g
    BY <1>1, <1>2 DEF Holds, Creating
  <1>4. thr[c].pc # "none"
    BY <1>1, <1>3, NoIdNowhere DEF LoneInv, LoneThread
  <1> QED BY <1>1, <1>3, <1>4, NoIdNowhere DEF OwnSlot, Connected, GameOf

(* An orphan game needs an admission: creators who come and go leave none  *)
(* behind while nobody is accepted, however many threads share the table:  *)
(* the slot that gm_remove_game frees, by its id, is never one that        *)
(* gm_create_game has given to another creator in the meantime.            *)
THEOREM OrphansNeedAdmission ==
  ASSUME NobodyAccepts PROVE Spec => []NoOrphanGame
  <1>1. Init => TypeInv /\ OwnSlot /\ LoneInv
    BY TypeInit, OwnSlotInit, LoneInit
  <1>2. TypeInv /\ OwnSlot /\ LoneInv /\ [Next]_vars => (TypeInv /\ OwnSlot /\ LoneInv)'
    BY TypeNext, OwnSlotStep, LoneStep
  <1> QED BY <1>1, <1>2, LoneQuiet, PTL DEF Spec

=============================================================================
