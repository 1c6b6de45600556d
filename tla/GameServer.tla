----------------------------- MODULE GameServer -----------------------------
(***************************************************************************)
(* The multi-threaded game server: one POSIX thread per client             *)
(* (client_handler.c) working on the two shared tables of game_manager.c.  *)
(*                                                                         *)
(* Every action is one critical section of the code: what a handler reads  *)
(* and writes between one pthread_mutex_lock and the matching unlock.      *)
(* Between two actions of a thread any other thread may run, exactly as    *)
(* between two lock acquisitions of a handler.  thr[p].pc is the critical  *)
(* section the thread that owns player slot p enters next; the other       *)
(* fields of thr[p] are the locals its handler carries from one section to *)
(* the next.  A command that a handler refuses without writing is not a    *)
(* step.  Replies are not modelled here: no handler reads what it sends.   *)
(*                                                                         *)
(* A Player* or Game* is the number of its slot; the id stored in a used   *)
(* slot is that number (free_index + 1) and -1 in a free one.  A board is  *)
(* abstracted to its two counters; module Duel models the boards.  Fields  *)
(* that no handler reads are left out (winner_id, wants_rematch of Player, *)
(* the time stamps), and so is the game code: JOIN_GAME names a game.      *)
(*                                                                         *)
(* A definition marked "fault" is not part of the model: it is what the    *)
(* definition after it would be with a plausible bug, kept to show that    *)
(* the properties notice that bug.                                         *)
(***************************************************************************)
EXTENDS Integers, FiniteSets

CONSTANTS MaxPlayers,   \* MAX_PLAYERS: slots of the player table
          MaxGames,     \* MAX_GAMES: slots of the game table
          MaxShips,     \* MAX_SHIPS: ships of a fleet
          Names,        \* nicknames clients may ask for
          Commands      \* commands the clients of an instance send

NoId   == -1
NoName == ""

AllCommands == {"LOGIN", "CREATE_GAME", "JOIN_GAME", "ACCEPT_INVITE",
                "REJECT_INVITE", "PLACE_SHIP", "READY", "FIRE", "LEAVE_GAME",
                "REMATCH", "REMATCH_DECLINE", "WAIT_NEW_PLAYER", "QUIT"}

ASSUME ConstantsAssumption ==
  /\ MaxPlayers \in Nat \ {0}
  /\ MaxGames \in Nat \ {0}
  /\ MaxShips \in Nat \ {0}
  /\ NoName \notin Names
  /\ Commands \subseteq AllCommands

Pid == 1 .. MaxPlayers
Gid == 1 .. MaxGames

VARIABLES players,        \* gm->players
          player_count,   \* gm->player_count
          games,          \* gm->games
          game_count,     \* gm->game_count
          thr             \* the thread that owns each player slot

vars       == <<players, player_count, games, game_count, thr>>
playerVars == <<players, player_count>>
gameVars   == <<games, game_count>>

-----------------------------------------------------------------------------
(* Types                                                                   *)

PlayerStates == {"DISCONNECTED", "CONNECTED", "LOBBY", "WAITING_OPPONENT",
                 "INVITED", "PLACING_SHIPS", "READY", "IN_GAME", "FINISHED",
                 "OPPONENT_LEFT"}
GameStates   == {"WAITING_PLAYERS", "PLACING_SHIPS", "IN_PROGRESS", "FINISHED"}

Player == [id : Pid \union {NoId}, state : PlayerStates,
           current_game_id : Gid \union {NoId}, username : Names \union {NoName},
           ships_placed : 0 .. MaxShips, ships_remaining : 0 .. MaxShips]

Game == [id : Gid \union {NoId}, state : GameStates,
         creator_id : Pid \union {NoId}, opponent_id : Pid \union {NoId},
         pending_invite_from : Pid \union {NoId}, current_turn : Pid \union {NoId},
         creator_ready : BOOLEAN, opponent_ready : BOOLEAN,
         creator_wants_rematch : BOOLEAN, opponent_wants_rematch : BOOLEAN]

Sections == {"none", "receive", "set_username", "enter_lobby", "create",
             "copy_code", "attach", "find_code", "file_request", "set_invited",
             "resolve", "read_game_id", "get_game", "get_player", "check_invite",
             "assign_opponent", "seat_requester", "seat_creator", "clear_invite",
             "release_requester", "place", "set_ready", "mark_ready",
             "get_creator", "get_opponent", "start_creator", "start_opponent",
             "check_turn", "order_first", "order_second", "lock_first", "shoot",
             "declare_win", "finish_self", "finish_opponent", "pass_turn",
             "dissolve", "same_game", "offer", "evict", "remove_game",
             "reset_self", "lock_table", "remove_player",
             "ask_rematch", "restart_self", "restart_opponent", "check_alone",
             "set_waiting", "reopen"}

Thread == [pc : Sections, cmd : AllCommands \union {"NONE"},
           game : Gid \union {NoId},     \* Game *g, or a copied game id
           other : Pid \union {NoId},    \* Player *opponent / requester / o, or its id
           creator : Pid \union {NoId},  \* Player *c of handle_ready, or its id; creator_id of a JOIN
           flag : BOOLEAN,               \* both (REMATCH), keep_game (leave)
           first : Pid \union {NoId},    \* Player *first of handle_fire
           second : Pid \union {NoId}]   \* Player *second of handle_fire

TypeOK ==
  /\ players \in [Pid -> Player]
  /\ player_count \in Int
  /\ games \in [Gid -> Game]
  /\ game_count \in Int
  /\ thr \in [Pid -> Thread]

-----------------------------------------------------------------------------
(* Initial state: gm_init.  It leaves some fields of the slots unset, and   *)
(* init_player and init_game set them before a handler can read them.      *)

Idle(pc) == [pc |-> pc, cmd |-> "NONE", game |-> NoId, other |-> NoId,
             creator |-> NoId, flag |-> FALSE, first |-> NoId, second |-> NoId]

FreePlayer == [id |-> NoId, state |-> "DISCONNECTED", current_game_id |-> NoId,
               username |-> NoName, ships_placed |-> 0, ships_remaining |-> MaxShips]

FreeGame == [id |-> NoId, state |-> "FINISHED", creator_id |-> NoId,
             opponent_id |-> NoId, pending_invite_from |-> NoId,
             current_turn |-> NoId, creator_ready |-> FALSE,
             opponent_ready |-> FALSE, creator_wants_rematch |-> FALSE,
             opponent_wants_rematch |-> FALSE]

Init ==
  /\ players = [p \in Pid |-> FreePlayer]
  /\ player_count = 0
  /\ games = [g \in Gid |-> FreeGame]
  /\ game_count = 0
  /\ thr = [p \in Pid |-> Idle("none")]

-----------------------------------------------------------------------------
(* Control and locks                                                       *)

At(p, section)   == thr[p].pc = section
Goto(p, section) == thr' = [thr EXCEPT ![p].pc = section]
Return(p)        == thr' = [thr EXCEPT ![p] = Idle("receive")]

Connected(i) == i # NoId /\ players[i].id = i

(* The mutex of a game is held across two actions only while              *)
(* handle_accept_invite goes from its check to its assignments.           *)
GameLockFree(g) ==
  \A t \in Pid : ~(thr[t].pc = "assign_opponent" /\ thr[t].game = g)

(* The mutex of a player is held across two actions only by handle_fire,   *)
(* which waits for a second one; it is not recursive: a thread that holds  *)
(* it does not get it again.                                               *)
PlayerLockFree(i) == \A t \in Pid : ~(At(t, "shoot") /\ thr[t].first = i)

(* gm_remove_player waits for the mutex of the player inside players_lock. *)
TableLockFree == \A t \in Pid : ~At(t, "remove_player")

(* The section the handler of a command enters after its checks. *)
FirstSection(cmd) ==
  CASE cmd = "LOGIN"         -> "set_username"
    [] cmd = "CREATE_GAME"   -> "create"
    [] cmd = "JOIN_GAME"     -> "find_code"
    [] cmd \in {"ACCEPT_INVITE", "REJECT_INVITE"} -> "resolve"
    [] cmd = "PLACE_SHIP"    -> "place"
    [] cmd = "READY"         -> "set_ready"
    [] OTHER                 -> "read_game_id"

(* The states in which the handler of a command goes on: require_login for  *)
(* all but LOGIN and QUIT, then the test at the head of the handler.       *)
Allowed(cmd) ==
  CASE cmd = "LOGIN"                         -> {"CONNECTED"}
    [] cmd \in {"CREATE_GAME", "JOIN_GAME"}  -> {"LOBBY"}
    [] cmd = "ACCEPT_INVITE"                 -> {"WAITING_OPPONENT"}
    [] cmd \in {"PLACE_SHIP", "READY"}       -> {"PLACING_SHIPS"}
    [] cmd = "FIRE"                          -> {"IN_GAME"}
    [] cmd \in {"REMATCH", "REMATCH_DECLINE"} -> {"FINISHED"}
    [] cmd = "WAIT_NEW_PLAYER"               -> {"OPPONENT_LEFT"}
    [] cmd = "QUIT"                          -> PlayerStates
    [] OTHER                                 -> PlayerStates \ {"CONNECTED"}

(* client_handler_thread: a new connection takes the lowest free slot *)
Connect(p) ==
  /\ players[p].id = NoId
  /\ TableLockFree
  /\ \A q \in Pid : q < p => players[q].id # NoId
  /\ players' = [players EXCEPT ![p] = [FreePlayer EXCEPT !.id = p, !.state = "CONNECTED"]]
  /\ player_count' = player_count + 1
  /\ thr' = [thr EXCEPT ![p] = Idle("receive")]
  /\ UNCHANGED gameVars

(* A command arrives and passes require_login and the state check.  A      *)
(* closed connection is handled as QUIT.                                   *)
Receive(p) ==
  /\ At(p, "receive")
  /\ \E cmd \in Commands :
       /\ players[p].state \in Allowed(cmd)
       /\ cmd # "QUIT" => PlayerLockFree(p)
       /\ thr' = [thr EXCEPT ![p] = [@ EXCEPT !.pc = FirstSection(cmd), !.cmd = cmd]]
  /\ UNCHANGED <<playerVars, gameVars>>

(* get_player_game_id *)
ReadGameId(p) ==
  /\ At(p, "read_game_id")
  /\ PlayerLockFree(p)
  /\ thr' = [thr EXCEPT ![p] = [@ EXCEPT !.pc = "get_game", !.game = players[p].current_game_id]]
  /\ UNCHANGED <<playerVars, gameVars>>

(* gm_get_game, and where each handler goes on when it found the game *)
GetGame(p) ==
  /\ At(p, "get_game")
  /\ LET found == thr[p].game # NoId /\ games[thr[p].game].id = thr[p].game
         next  == CASE thr[p].cmd = "ACCEPT_INVITE"   -> "check_invite"
                    [] thr[p].cmd = "REJECT_INVITE"   -> "clear_invite"
                    [] thr[p].cmd = "READY"           -> "mark_ready"
                    [] thr[p].cmd = "FIRE"            -> "check_turn"
                    [] thr[p].cmd = "REMATCH"         -> "ask_rematch"
                    [] thr[p].cmd = "WAIT_NEW_PLAYER" -> "check_alone"
                    [] OTHER                          -> "dissolve"
     IN IF found
        THEN Goto(p, next)
        ELSE IF thr[p].cmd \in {"ACCEPT_INVITE", "REJECT_INVITE", "READY", "FIRE"}
             THEN Return(p)
             ELSE Goto(p, "reset_self")
  /\ UNCHANGED <<playerVars, gameVars>>

\* fault: the rematch is asked again instead
RetryRematch == [Idle("read_game_id") EXCEPT !.cmd = "REMATCH"]

(* handle_rematch without an opponent goes on with leave_current_game *)
GiveUp == [Idle("read_game_id") EXCEPT !.cmd = "LEAVE_GAME"]

(* gm_get_player on the other player of the game, for FIRE, REMATCH and    *)
(* leave_current_game.  handle_fire compares opponent->id with its own id  *)
(* after the lock is released; the id of a slot is its number or -1, so    *)
(* they are equal just when the slots are, whenever it is read.            *)
GetPlayer(p) ==
  /\ At(p, "get_player")
  /\ TableLockFree
  /\ LET o     == thr[p].other
         found == Connected(o)
     IN \/ /\ thr[p].cmd = "FIRE"
           /\ IF found /\ o # p THEN Goto(p, "order_first") ELSE Return(p)
        \/ /\ thr[p].cmd = "REMATCH"
           /\ IF ~found
              THEN thr' = [thr EXCEPT ![p] = GiveUp]
              ELSE IF thr[p].flag THEN Goto(p, "restart_self") ELSE Return(p)
        \/ /\ thr[p].cmd \notin {"FIRE", "REMATCH"}
           /\ Goto(p, IF found THEN "same_game" ELSE "remove_game")
  /\ UNCHANGED <<playerVars, gameVars>>

-----------------------------------------------------------------------------
(* LOGIN                                                                   *)

\* fault: a nickname is compared only with those of players in the lobby
TakenInLobby(n) == \E q \in Pid : players[q].state = "LOBBY" /\ players[q].username = n

UsernameTaken(n) == \E q \in Pid : players[q].id # NoId /\ players[q].username = n

(* gm_set_username: test and set under players_lock *)
SetUsername(p) ==
  /\ At(p, "set_username")
  /\ TableLockFree
  /\ \E n \in Names :
       IF UsernameTaken(n)
       THEN Return(p) /\ UNCHANGED players
       ELSE /\ players' = [players EXCEPT ![p].username = n]
            /\ Goto(p, "enter_lobby")
  /\ UNCHANGED <<player_count, gameVars>>

EnterLobby(p) ==
  /\ At(p, "enter_lobby")
  /\ PlayerLockFree(p)
  /\ players' = [players EXCEPT ![p].state = "LOBBY"]
  /\ Return(p)
  /\ UNCHANGED <<player_count, gameVars>>

-----------------------------------------------------------------------------
(* CREATE_GAME                                                             *)

NewGame(g, creator) ==
  [FreeGame EXCEPT !.id = g, !.state = "WAITING_PLAYERS", !.creator_id = creator]

(* gm_create_game: the lowest free slot, or an error when the table is full *)
CreateGame(p) ==
  /\ At(p, "create")
  /\ \/ /\ \A g \in Gid : games[g].id # NoId
        /\ Return(p)
        /\ UNCHANGED gameVars
     \/ \E g \in Gid :
          /\ games[g].id = NoId
          /\ \A h \in Gid : h < g => games[h].id # NoId
          /\ GameLockFree(g)
          /\ games' = [games EXCEPT ![g] = NewGame(g, p)]
          /\ game_count' = game_count + 1
          /\ thr' = [thr EXCEPT ![p] = [@ EXCEPT !.pc = "copy_code", !.game = g]]
  /\ UNCHANGED playerVars

(* the code and the id of the new game are read back under its lock *)
CopyCode(p) ==
  /\ At(p, "copy_code")
  /\ GameLockFree(thr[p].game)
  /\ thr' = [thr EXCEPT ![p] = [@ EXCEPT !.pc = "attach", !.game = games[thr[p].game].id]]
  /\ UNCHANGED <<playerVars, gameVars>>

AttachCreator(p) ==
  /\ At(p, "attach")
  /\ PlayerLockFree(p)
  /\ players' = [players EXCEPT ![p] = [@ EXCEPT !.current_game_id = thr[p].game,
                                                 !.state = "WAITING_OPPONENT"]]
  /\ Return(p)
  /\ UNCHANGED <<player_count, gameVars>>

-----------------------------------------------------------------------------
(* JOIN_GAME                                                               *)

(* gm_get_game_by_code, for the code of a game in the table *)
FindCode(p) ==
  /\ At(p, "find_code")
  /\ \/ Return(p)
     \/ \E g \in Gid :
          /\ games[g].id # NoId
          /\ thr' = [thr EXCEPT ![p] = [@ EXCEPT !.pc = "file_request", !.game = g]]
  /\ UNCHANGED <<playerVars, gameVars>>

FileRequest(p) ==
  /\ At(p, "file_request")
  /\ GameLockFree(thr[p].game)
  /\ LET g == thr[p].game
     IN IF \/ games[g].creator_id = p
           \/ games[g].state # "WAITING_PLAYERS"
           \/ games[g].opponent_id # NoId
        THEN Return(p) /\ UNCHANGED games
        ELSE /\ games' = [games EXCEPT ![g].pending_invite_from = p]
             /\ thr' = [thr EXCEPT ![p] = [Idle("set_invited") EXCEPT !.cmd = "JOIN_GAME",
                                                                     !.creator = games[g].creator_id]]
  /\ UNCHANGED <<playerVars, game_count>>

SetInvited(p) ==
  /\ At(p, "set_invited")
  /\ PlayerLockFree(p)
  /\ players' = [players EXCEPT ![p].state = "INVITED"]
  /\ Return(p)
  /\ UNCHANGED <<player_count, gameVars>>

-----------------------------------------------------------------------------
(* ACCEPT_INVITE and REJECT_INVITE                                         *)

(* resolve_target_player: a connected player, or none.  ACCEPT_INVITE       *)
(* gives up at once when there is none, REJECT_INVITE after gm_get_game.   *)
Resolve(p) ==
  /\ At(p, "resolve")
  /\ TableLockFree
  /\ \/ Return(p)
     \/ \E r \in Pid :
          /\ players[r].id # NoId
          /\ thr' = [thr EXCEPT ![p] = [@ EXCEPT !.pc = "read_game_id", !.other = r]]
  /\ UNCHANGED <<playerVars, gameVars>>

(* requester->id is read without the lock of the requester, once here and  *)
(* once more in AssignOpponent                                             *)
CheckInvite(p) ==
  /\ At(p, "check_invite")
  /\ GameLockFree(thr[p].game)
  /\ LET g == thr[p].game
     IN IF /\ games[g].state = "WAITING_PLAYERS"
           /\ games[g].creator_id = p
           /\ games[g].pending_invite_from = players[thr[p].other].id
        THEN Goto(p, "assign_opponent")
        ELSE Return(p)
  /\ UNCHANGED <<playerVars, gameVars>>

AssignOpponent(p) ==
  /\ At(p, "assign_opponent")
  /\ LET g == thr[p].game
     IN /\ games' = [games EXCEPT ![g] = [@ EXCEPT !.opponent_id = players[thr[p].other].id,
                                                   !.pending_invite_from = NoId,
                                                   !.state = "PLACING_SHIPS"]]
        /\ thr' = [thr EXCEPT ![p] = [@ EXCEPT !.pc = "seat_requester", !.game = games[g].id]]
  /\ UNCHANGED <<playerVars, game_count>>

SeatRequester(p) ==
  /\ At(p, "seat_requester")
  /\ PlayerLockFree(thr[p].other)
  /\ players' = [players EXCEPT ![thr[p].other] = [@ EXCEPT !.current_game_id = thr[p].game,
                                                            !.state = "PLACING_SHIPS",
                                                            !.ships_placed = 0,
                                                            !.ships_remaining = MaxShips]]
  /\ Goto(p, "seat_creator")
  /\ UNCHANGED <<player_count, gameVars>>

SeatCreator(p) ==
  /\ At(p, "seat_creator")
  /\ PlayerLockFree(p)
  /\ players' = [players EXCEPT ![p] = [@ EXCEPT !.state = "PLACING_SHIPS",
                                                 !.ships_placed = 0,
                                                 !.ships_remaining = MaxShips]]
  /\ Return(p)
  /\ UNCHANGED <<player_count, gameVars>>

\* fault: the refused request stays in the game
KeepInvite(p) ==
  /\ At(p, "clear_invite")
  /\ GameLockFree(thr[p].game)
  /\ IF games[thr[p].game].pending_invite_from = players[thr[p].other].id
     THEN Goto(p, "release_requester")
     ELSE Return(p)
  /\ UNCHANGED <<playerVars, gameVars>>

ClearInvite(p) ==
  /\ At(p, "clear_invite")
  /\ GameLockFree(thr[p].game)
  /\ LET g == thr[p].game
     IN IF /\ games[g].creator_id = p
           /\ games[g].pending_invite_from = players[thr[p].other].id
        THEN /\ games' = [games EXCEPT ![g].pending_invite_from = NoId]
             /\ Goto(p, "release_requester")
        ELSE Return(p) /\ UNCHANGED games
  /\ UNCHANGED <<playerVars, game_count>>

ReleaseRequester(p) ==
  /\ At(p, "release_requester")
  /\ PlayerLockFree(thr[p].other)
  /\ players' = IF players[thr[p].other].state = "INVITED"
                THEN [players EXCEPT ![thr[p].other].state = "LOBBY"]
                ELSE players
  /\ Return(p)
  /\ UNCHANGED <<player_count, gameVars>>

-----------------------------------------------------------------------------
(* PLACE_SHIP and READY                                                    *)

\* fault: off by one in the test of place_ship
ShipLeftInclusive(p) == players[p].ships_placed <= MaxShips

ShipLeft(p) == players[p].ships_placed < MaxShips

\* fault: off by one in all_ships_placed
AllButOnePlaced(p) == players[p].ships_placed >= MaxShips - 1

AllShipsPlaced(p) == players[p].ships_placed >= MaxShips

(* place_ship may succeed while a ship is left to place; a refused         *)
(* placement changes nothing                                               *)
PlaceShip(p) ==
  /\ At(p, "place")
  /\ PlayerLockFree(p)
  /\ \/ UNCHANGED players
     \/ /\ ShipLeft(p)
        /\ players' = [players EXCEPT ![p].ships_placed = @ + 1]
  /\ Return(p)
  /\ UNCHANGED <<player_count, gameVars>>

SetReady(p) ==
  /\ At(p, "set_ready")
  /\ PlayerLockFree(p)
  /\ IF AllShipsPlaced(p)
     THEN /\ players' = [players EXCEPT ![p].state = "READY"]
          /\ thr' = [thr EXCEPT ![p] = [@ EXCEPT !.pc = "get_game",
                                                 !.game = players[p].current_game_id]]
     ELSE Return(p) /\ UNCHANGED players
  /\ UNCHANGED <<player_count, gameVars>>

\* fault: the first turn is not set
StartedWithoutTurn(game) ==
  [game EXCEPT !.creator_ready = TRUE, !.opponent_ready = TRUE, !.state = "IN_PROGRESS"]

(* the game once both flags are set: the creator fires first *)
Started(game) ==
  [game EXCEPT !.creator_ready = TRUE, !.opponent_ready = TRUE,
               !.state = "IN_PROGRESS", !.current_turn = game.creator_id]

MarkReady(p) ==
  /\ At(p, "mark_ready")
  /\ GameLockFree(thr[p].game)
  /\ LET g       == thr[p].game
         creator == games[g].creator_id = p
         cready  == games[g].creator_ready \/ creator
         oready  == games[g].opponent_ready \/ ~creator
     IN IF cready /\ oready
        THEN /\ games' = [games EXCEPT ![g] = Started(@)]
             /\ thr' = [thr EXCEPT ![p] = [@ EXCEPT !.pc = "get_creator",
                                                    !.creator = games[g].creator_id,
                                                    !.other = games[g].opponent_id]]
        ELSE /\ games' = [games EXCEPT ![g] = [@ EXCEPT !.creator_ready = cready,
                                                        !.opponent_ready = oready]]
             /\ Return(p)
  /\ UNCHANGED <<playerVars, game_count>>

GetCreator(p) ==
  /\ At(p, "get_creator")
  /\ TableLockFree
  /\ LET c == thr[p].creator
     IN thr' = [thr EXCEPT ![p] = [@ EXCEPT !.pc = "get_opponent",
                                            !.creator = IF Connected(c) THEN c ELSE NoId]]
  /\ UNCHANGED <<playerVars, gameVars>>

GetOpponent(p) ==
  /\ At(p, "get_opponent")
  /\ TableLockFree
  /\ IF thr[p].creator # NoId /\ Connected(thr[p].other)
     THEN Goto(p, "start_creator")
     ELSE Return(p)
  /\ UNCHANGED <<playerVars, gameVars>>

\* fault: the opponent is not started
StartCreatorOnly(p) ==
  /\ At(p, "start_creator")
  /\ PlayerLockFree(thr[p].creator)
  /\ players' = [players EXCEPT ![thr[p].creator].state = "IN_GAME"]
  /\ Return(p)
  /\ UNCHANGED <<player_count, gameVars>>

StartCreator(p) ==
  /\ At(p, "start_creator")
  /\ PlayerLockFree(thr[p].creator)
  /\ players' = [players EXCEPT ![thr[p].creator].state = "IN_GAME"]
  /\ Goto(p, "start_opponent")
  /\ UNCHANGED <<player_count, gameVars>>

StartOpponent(p) ==
  /\ At(p, "start_opponent")
  /\ PlayerLockFree(thr[p].other)
  /\ players' = [players EXCEPT ![thr[p].other].state = "IN_GAME"]
  /\ Return(p)
  /\ UNCHANGED <<player_count, gameVars>>

-----------------------------------------------------------------------------
(* FIRE                                                                    *)

OtherMember(g, p) ==
  IF games[g].creator_id = p THEN games[g].opponent_id ELSE games[g].creator_id

\* fault: the turn is not checked
MayFireAnytime(g, p) == games[g].state = "IN_PROGRESS"

MayFire(g, p) == games[g].state = "IN_PROGRESS" /\ games[g].current_turn = p

CheckTurn(p) ==
  /\ At(p, "check_turn")
  /\ GameLockFree(thr[p].game)
  /\ LET g == thr[p].game
     IN IF MayFire(g, p)
        THEN thr' = [thr EXCEPT ![p] = [@ EXCEPT !.pc = "get_player", !.other = OtherMember(g, p)]]
        ELSE Return(p)
  /\ UNCHANGED <<playerVars, gameVars>>

\* fault: off by one in check_victory
DefeatedTooEarly(ships) == ships <= 1

(* check_victory *)
Defeated(ships) == ships <= 0

(* player->id < opponent->id, where opponent->id is read without the lock  *)
(* of the opponent, once for each of the two mutexes                       *)
Before(p, o) == p < players[o].id

OrderFirst(p) ==
  /\ At(p, "order_first")
  /\ LET o == thr[p].other
     IN thr' = [thr EXCEPT ![p] = [@ EXCEPT !.pc = "order_second",
                                            !.first = IF Before(p, o) THEN p ELSE o]]
  /\ UNCHANGED <<playerVars, gameVars>>

OrderSecond(p) ==
  /\ At(p, "order_second")
  /\ LET o == thr[p].other
     IN thr' = [thr EXCEPT ![p] = [@ EXCEPT !.pc = "lock_first",
                                            !.second = IF Before(p, o) THEN o ELSE p]]
  /\ UNCHANGED <<playerVars, gameVars>>

LockFirst(p) ==
  /\ At(p, "lock_first")
  /\ PlayerLockFree(thr[p].first)
  /\ Goto(p, "shoot")
  /\ UNCHANGED <<playerVars, gameVars>>

(* The second mutex, then process_fire and check_victory under both: a     *)
(* shot is refused, changes no ship counter, or sinks a placed ship.       *)
Shoot(p) ==
  /\ At(p, "shoot")
  /\ PlayerLockFree(thr[p].second)
  /\ LET o == thr[p].other
     IN \/ Return(p) /\ UNCHANGED players
        \/ /\ \/ UNCHANGED players
              \/ /\ players[o].ships_remaining + players[o].ships_placed > MaxShips
                 /\ players' = [players EXCEPT ![o].ships_remaining = @ - 1]
           /\ Goto(p, IF Defeated(players'[o].ships_remaining) THEN "declare_win" ELSE "pass_turn")
  /\ UNCHANGED <<player_count, gameVars>>

DeclareWin(p) ==
  /\ At(p, "declare_win")
  /\ GameLockFree(thr[p].game)
  /\ games' = [games EXCEPT ![thr[p].game] = [@ EXCEPT !.state = "FINISHED",
                                                       !.creator_wants_rematch = FALSE,
                                                       !.opponent_wants_rematch = FALSE]]
  /\ Goto(p, "finish_self")
  /\ UNCHANGED <<playerVars, game_count>>

FinishSelf(p) ==
  /\ At(p, "finish_self")
  /\ PlayerLockFree(p)
  /\ players' = [players EXCEPT ![p].state = "FINISHED"]
  /\ Goto(p, "finish_opponent")
  /\ UNCHANGED <<player_count, gameVars>>

FinishOpponent(p) ==
  /\ At(p, "finish_opponent")
  /\ PlayerLockFree(thr[p].other)
  /\ players' = [players EXCEPT ![thr[p].other].state = "FINISHED"]
  /\ Return(p)
  /\ UNCHANGED <<player_count, gameVars>>

PassTurn(p) ==
  /\ At(p, "pass_turn")
  /\ GameLockFree(thr[p].game)
  /\ games' = [games EXCEPT ![thr[p].game].current_turn = thr[p].other]
  /\ Return(p)
  /\ UNCHANGED <<playerVars, game_count>>

-----------------------------------------------------------------------------
(* leave_current_game, for LEAVE_GAME, REMATCH_DECLINE and a disconnection *)

Disconnecting(p) == thr[p].cmd # "REMATCH_DECLINE"

\* fault: the seat of the new creator is not emptied
HandedOverTwice(game, o) == [FreeGame EXCEPT !.id = game.id, !.creator_id = o,
                                              !.opponent_id = game.opponent_id]

\* fault: the leaver stays the creator
NotHandedOver(game, o) == [FreeGame EXCEPT !.id = game.id, !.creator_id = game.creator_id]

(* the closed game that is left to o, its new creator *)
HandedOver(game, o) == [FreeGame EXCEPT !.id = game.id, !.creator_id = o]

(* the game is finished, and handed over to the other member unless a       *)
(* rematch was declined                                                    *)
Dissolve(p) ==
  /\ At(p, "dissolve")
  /\ GameLockFree(thr[p].game)
  /\ LET g == thr[p].game
         o == OtherMember(g, p)
     IN /\ games' = IF Disconnecting(p) /\ o # NoId
                    THEN [games EXCEPT ![g] = HandedOver(@, o)]
                    ELSE [games EXCEPT ![g].state = "FINISHED"]
        /\ thr' = [thr EXCEPT ![p] =
                     [@ EXCEPT !.pc = IF o # NoId THEN "get_player" ELSE "remove_game",
                               !.other = o]]
  /\ UNCHANGED <<playerVars, game_count>>

SameGame(p) ==
  /\ At(p, "same_game")
  /\ PlayerLockFree(thr[p].other)
  /\ Goto(p, IF players[thr[p].other].current_game_id # thr[p].game THEN "remove_game"
             ELSE IF Disconnecting(p) THEN "offer" ELSE "evict")
  /\ UNCHANGED <<playerVars, gameVars>>

(* offer_choice_to_survivor; keep_game is true from here on *)
OfferChoice(p) ==
  /\ At(p, "offer")
  /\ PlayerLockFree(thr[p].other)
  /\ players' = [players EXCEPT ![thr[p].other] = [@ EXCEPT !.state = "OPPONENT_LEFT",
                                                            !.ships_placed = 0,
                                                            !.ships_remaining = MaxShips]]
  /\ Goto(p, "reset_self")
  /\ UNCHANGED <<player_count, gameVars>>

(* reset_player_to_lobby *)
ToLobby(i) == [players EXCEPT ![i] = [@ EXCEPT !.state = "LOBBY",
                                               !.current_game_id = NoId,
                                               !.ships_placed = 0,
                                               !.ships_remaining = MaxShips]]

Evict(p) ==
  /\ At(p, "evict")
  /\ PlayerLockFree(thr[p].other)
  /\ players' = ToLobby(thr[p].other)
  /\ Goto(p, "remove_game")
  /\ UNCHANGED <<player_count, gameVars>>

\* fault: the id is not compared before the slot is freed
AnySlot(g) == TRUE

InTable(g) == games[g].id = g

(* gm_remove_game finds the slot by id; turn and flags keep their values *)
RemoveGame(p) ==
  /\ At(p, "remove_game")
  /\ GameLockFree(thr[p].game)
  /\ LET g == thr[p].game
     IN IF InTable(g)
        THEN /\ games' = [games EXCEPT ![g] = [@ EXCEPT !.id = NoId, !.state = "FINISHED",
                                                        !.creator_id = NoId,
                                                        !.opponent_id = NoId,
                                                        !.pending_invite_from = NoId]]
             /\ game_count' = game_count - 1
        ELSE UNCHANGED gameVars
  /\ Goto(p, "reset_self")
  /\ UNCHANGED playerVars

ResetSelf(p) ==
  /\ At(p, "reset_self")
  /\ PlayerLockFree(p)
  /\ players' = ToLobby(p)
  /\ IF thr[p].cmd = "QUIT" THEN Goto(p, "lock_table") ELSE Return(p)
  /\ UNCHANGED <<player_count, gameVars>>

(* gm_remove_player takes players_lock ... *)
LockTable(p) ==
  /\ At(p, "lock_table")
  /\ TableLockFree
  /\ Goto(p, "remove_player")
  /\ UNCHANGED <<playerVars, gameVars>>

(* ... then the mutex of the player, and the thread ends *)
RemovePlayer(p) ==
  /\ At(p, "remove_player")
  /\ PlayerLockFree(p)
  /\ players' = [players EXCEPT ![p] = [@ EXCEPT !.id = NoId, !.state = "DISCONNECTED",
                                                 !.current_game_id = NoId,
                                                 !.username = NoName]]
  /\ player_count' = player_count - 1
  /\ thr' = [thr EXCEPT ![p] = Idle("none")]
  /\ UNCHANGED gameVars

-----------------------------------------------------------------------------
(* REMATCH                                                                 *)

(* reset_game_for_rematch *)
Rematch(game) ==
  [FreeGame EXCEPT !.id = game.id, !.state = "PLACING_SHIPS",
                   !.creator_id = game.creator_id, !.opponent_id = game.opponent_id]

AskRematch(p) ==
  /\ At(p, "ask_rematch")
  /\ GameLockFree(thr[p].game)
  /\ LET g       == thr[p].game
         creator == games[g].creator_id = p
         cwants  == games[g].creator_wants_rematch \/ creator
         owants  == games[g].opponent_wants_rematch \/ ~creator
     IN IF games[g].state # "FINISHED"
        THEN Return(p) /\ UNCHANGED games
        ELSE /\ games' = IF cwants /\ owants
                         THEN [games EXCEPT ![g] = Rematch(@)]
                         ELSE [games EXCEPT ![g] = [@ EXCEPT !.creator_wants_rematch = cwants,
                                                             !.opponent_wants_rematch = owants]]
             /\ thr' = [thr EXCEPT ![p] = [@ EXCEPT !.pc = "get_player",
                                                    !.other = OtherMember(g, p),
                                                    !.flag = cwants /\ owants]]
  /\ UNCHANGED <<playerVars, game_count>>

Restart(i) == [players EXCEPT ![i] = [@ EXCEPT !.state = "PLACING_SHIPS",
                                               !.ships_placed = 0,
                                               !.ships_remaining = MaxShips]]

\* fault: the opponent is not restarted
RestartSelfOnly(p) ==
  /\ At(p, "restart_self")
  /\ PlayerLockFree(p)
  /\ players' = Restart(p)
  /\ Return(p)
  /\ UNCHANGED <<player_count, gameVars>>

RestartSelf(p) ==
  /\ At(p, "restart_self")
  /\ PlayerLockFree(p)
  /\ players' = Restart(p)
  /\ Goto(p, "restart_opponent")
  /\ UNCHANGED <<player_count, gameVars>>

RestartOpponent(p) ==
  /\ At(p, "restart_opponent")
  /\ PlayerLockFree(thr[p].other)
  /\ players' = Restart(thr[p].other)
  /\ Return(p)
  /\ UNCHANGED <<player_count, gameVars>>

-----------------------------------------------------------------------------
(* WAIT_NEW_PLAYER                                                         *)

CheckAlone(p) ==
  /\ At(p, "check_alone")
  /\ GameLockFree(thr[p].game)
  /\ LET g == thr[p].game
     IN IF games[g].state = "FINISHED" /\ games[g].creator_id = p /\ games[g].opponent_id = NoId
        THEN Goto(p, "set_waiting")
        ELSE Return(p)
  /\ UNCHANGED <<playerVars, gameVars>>

SetWaiting(p) ==
  /\ At(p, "set_waiting")
  /\ PlayerLockFree(p)
  /\ players' = [players EXCEPT ![p].state = "WAITING_OPPONENT"]
  /\ Goto(p, "reopen")
  /\ UNCHANGED <<player_count, gameVars>>

Reopen(p) ==
  /\ At(p, "reopen")
  /\ GameLockFree(thr[p].game)
  /\ games' = [games EXCEPT ![thr[p].game] = [@ EXCEPT !.state = "WAITING_PLAYERS",
                                                       !.pending_invite_from = NoId]]
  /\ Return(p)
  /\ UNCHANGED <<playerVars, game_count>>

-----------------------------------------------------------------------------
(* Specification                                                           *)

Login(p)   == SetUsername(p) \/ EnterLobby(p)
Create(p)  == CreateGame(p) \/ CopyCode(p) \/ AttachCreator(p)
Join(p)    == FindCode(p) \/ FileRequest(p) \/ SetInvited(p)
Invite(p)  == \/ Resolve(p) \/ CheckInvite(p) \/ AssignOpponent(p)
              \/ SeatRequester(p) \/ SeatCreator(p)
              \/ ClearInvite(p) \/ ReleaseRequester(p)
Placing(p) == \/ PlaceShip(p) \/ SetReady(p) \/ MarkReady(p) \/ GetCreator(p)
              \/ GetOpponent(p) \/ StartCreator(p) \/ StartOpponent(p)
Aim(p)     == OrderFirst(p) \/ OrderSecond(p) \/ LockFirst(p)
Fire(p)    == \/ CheckTurn(p) \/ Aim(p) \/ Shoot(p) \/ DeclareWin(p) \/ FinishSelf(p)
              \/ FinishOpponent(p) \/ PassTurn(p)
Leave(p)   == \/ Dissolve(p) \/ SameGame(p) \/ OfferChoice(p) \/ Evict(p)
              \/ RemoveGame(p) \/ ResetSelf(p) \/ LockTable(p) \/ RemovePlayer(p)
Again(p)   == \/ AskRematch(p) \/ RestartSelf(p) \/ RestartOpponent(p)
              \/ CheckAlone(p) \/ SetWaiting(p) \/ Reopen(p)

(* what the thread of slot p does on its own, once a command has arrived *)
Work(p) == \/ ReadGameId(p) \/ GetGame(p) \/ GetPlayer(p)
           \/ Login(p) \/ Create(p) \/ Join(p) \/ Invite(p)
           \/ Placing(p) \/ Fire(p) \/ Leave(p) \/ Again(p)

Next == \E p \in Pid : Connect(p) \/ Receive(p) \/ Work(p)

Spec == Init /\ [][Next]_vars

(* Every thread is scheduled, and none is overtaken for ever at a mutex     *)
(* that is given back again and again.  A thread that waits for a mutex it *)
(* holds itself is not helped.  Nothing is assumed of the clients: they    *)
(* need not connect nor send.                                              *)
Fairness == \A p \in Pid : SF_vars(Work(p))

FairSpec == Spec /\ Fairness

-----------------------------------------------------------------------------
(* Properties                                                              *)

Quiescent == \A p \in Pid : thr[p].pc \in {"none", "receive"}

Used(g)       == games[g].id = g
Members(g)    == {games[g].creator_id, games[g].opponent_id}
FullyPlaced(i) == i \in Pid /\ players[i].ships_placed = MaxShips

(* Two connected clients never hold the same nickname, however their       *)
(* LOGINs interleave (gm_set_username tests and sets under one lock).      *)
UniqueUsernames ==
  \A p, q \in Pid :
    p # q /\ Connected(p) /\ Connected(q) /\ players[p].username # NoName
      => players[p].username # players[q].username

(* The two counters of the manager count the used slots, although several  *)
(* threads may try to free the same game (gm_remove_game compares the id). *)
CountsMatch ==
  /\ player_count = Cardinality({p \in Pid : players[p].id # NoId})
  /\ game_count = Cardinality({g \in Gid : games[g].id # NoId})

(* Nobody is seated on both sides of a game, so the check of handle_fire   *)
(* against shooting oneself never refuses a shot.                          *)
NeverAgainstItself ==
  \A g \in Gid : games[g].opponent_id # NoId => games[g].opponent_id # games[g].creator_id

(* When no handler is running, a used game slot belongs to a connected     *)
(* player who is attached to it: leave_current_game leaves no orphan.      *)
NoOrphanGame ==
  Quiescent => \A g \in Gid : Used(g) =>
    /\ Connected(games[g].creator_id)
    /\ players[games[g].creator_id].current_game_id = g

(* A match is only fought with two complete fleets, also after a rematch   *)
(* (handle_ready, reset_game_for_rematch and the boards of handle_rematch  *)
(* are separate critical sections).                                        *)
FleetsPlaced ==
  \A g \in Gid : Used(g) /\ games[g].state = "IN_PROGRESS"
    => \A i \in Members(g) : FullyPlaced(i)

(* A match in progress is somebody's turn, and that somebody plays in it.  *)
TurnHolder ==
  \A g \in Gid : Used(g) /\ games[g].state = "IN_PROGRESS"
    => games[g].current_turn \in Members(g) \ {NoId}

(* handle_fire gives up the lock of the game between the turn check and    *)
(* the change of turn; no second shot of the same game gets in between.    *)
Shooting == {"get_player", "order_first", "order_second", "lock_first", "shoot",
             "declare_win", "pass_turn"}

InShot(p, g) == thr[p].cmd = "FIRE" /\ thr[p].game = g /\ thr[p].pc \in Shooting

OneShotInFlight ==
  \A g \in Gid : \A p, q \in Pid : InShot(p, g) /\ InShot(q, g) => p = q

(* handle_fire never waits for a mutex that it holds itself: "senza questo *)
(* controllo faremmo due pthread_mutex_lock sullo STESSO mutex" (its check *)
(* that the opponent is somebody else).  The code breaks it: the opponent  *)
(* may leave between the two reads of its id.                              *)
LockedOnce == \A p \in Pid : At(p, "shoot") => thr[p].first # thr[p].second

(* A game that waits for a second player is filled or closed by its own    *)
(* creator only: no handler still works on the game that had its slot.     *)
WaitingGameKept ==
  [][\A g \in Gid :
       LET c == games[g].creator_id
       IN Used(g) /\ games[g].state = "WAITING_PLAYERS" /\ games'[g].state # "WAITING_PLAYERS"
            => thr'[c] # thr[c]]_vars

(* Whoever a game names as pending still waits for the answer and plays    *)
(* nowhere else (pending_invite_from is written in the JOIN_GAME of one    *)
(* thread and cleared in the handlers of another).                         *)
PendingStands ==
  \A g \in Gid : \A r \in Pid : Used(g) /\ games[g].pending_invite_from = r
    => /\ players[r].current_game_id = NoId
       /\ At(r, "set_invited") \/ players[r].state = "INVITED"

(* A fleet only loses a ship to the other player of its match, on the      *)
(* turn of that player.                                                    *)
ShotByTurnHolder ==
  [][\A o \in Pid : players'[o].ships_remaining < players[o].ships_remaining =>
       \E g \in Gid : /\ Used(g)
                      /\ games[g].state = "IN_PROGRESS"
                      /\ o \in Members(g)
                      /\ games[g].current_turn \in Members(g) \ {o}]_vars

(* When no handler is running, the players of a match in progress are both *)
(* in the state in which they may fire.                                    *)
FightTogether ==
  Quiescent => \A g \in Gid : Used(g) /\ games[g].state = "IN_PROGRESS"
    => \A i \in Members(g) : i \in Pid /\ players[i].state = "IN_GAME"

(* When no handler is running, a finished match has one winner, one player *)
(* without ships, and both may answer the rematch question.                *)
FinishTogether ==
  Quiescent => \A g \in Gid :
    Used(g) /\ games[g].state = "FINISHED" /\ games[g].opponent_id # NoId
      => /\ \A i \in Members(g) : players[i].state = "FINISHED"
         /\ \E w \in Members(g) : \A i \in Members(g) :
              (i = w) <=> players[i].ships_remaining > 0

(* No command but LOGIN and QUIT is handled for a client that is not       *)
(* logged in (require_login, init_player).                                 *)
LoginFirst ==
  \A p \in Pid : thr[p].cmd \notin {"NONE", "LOGIN", "QUIT"} => players[p].username # NoName

(* Whatever the interleaving, two players that are both ready are both     *)
(* started, unless one leaves the game: the two threads in handle_ready    *)
(* cannot each leave it to the other.                                      *)
StartsWhenReady ==
  \A g \in Gid : \A c, o \in Pid :
    (/\ Used(g) /\ games[g].state = "PLACING_SHIPS"
     /\ games[g].creator_id = c /\ games[g].opponent_id = o
     /\ players[c].state = "READY" /\ players[o].state = "READY")
      ~> \/ players[c].state = "IN_GAME" /\ players[o].state = "IN_GAME"
         \/ Members(g) # {c, o}

(* When one player has asked for the rematch and the other one does, both  *)
(* go back to placing their ships, unless one leaves the game.             *)
RematchStarts ==
  \A g \in Gid : \A p, q \in Pid :
    (/\ games[g].creator_id = p /\ games[g].opponent_id = q
     /\ \/ games[g].creator_wants_rematch /\ At(q, "ask_rematch")
        \/ games[g].opponent_wants_rematch /\ At(p, "ask_rematch"))
      ~> \/ players[p].state = "PLACING_SHIPS" /\ players[q].state = "PLACING_SHIPS"
         \/ Members(g) # {p, q}

(* A thread that holds the mutex it waits for never goes on.               *)
Hangs(p) == At(p, "shoot") /\ thr[p].first = thr[p].second

(* Every handler ends, also when the game or the opponent it works on is   *)
(* removed under it, and a client that quits frees its slot, unless some   *)
(* handle_fire has locked one mutex twice.                                 *)
HandlersReturn ==
  \A p \in Pid : thr[p].pc \notin {"none", "receive"}
    ~> \/ thr[p].pc \in {"none", "receive"}
       \/ \E t \in Pid : Hangs(t)

(* A match whose two players are both leaving is removed.                  *)
AbandonedMatchRemoved ==
  \A g \in Gid : \A p, q \in Pid :
    (/\ Used(g) /\ games[g].creator_id = p /\ games[g].opponent_id = q
     /\ players[p].current_game_id = g /\ players[q].current_game_id = g
     /\ thr[p].cmd = "QUIT" /\ thr[q].cmd = "QUIT")
      ~> ~Used(g)

=============================================================================
