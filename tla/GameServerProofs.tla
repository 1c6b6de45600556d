-------------------------- MODULE GameServerProofs --------------------------
(***************************************************************************)
(* Theorems about GameServer, for every size of the two tables and of the  *)
(* fleet, every set of nicknames and every set of commands: the types, and *)
(* what rests on who owns the slots of the two tables: the nicknames are   *)
(* unique, the counters count, and nobody plays against itself.            *)
(***************************************************************************)
EXTENDS GameServer, TLAPS, FiniteSetTheorems

-----------------------------------------------------------------------------
(* The type invariant                                                      *)
(*                                                                         *)
(* TypeOK is not inductive: a handler dereferences the Game* and Player*    *)
(* it holds, so its locals must be slots of the tables in these sections.  *)

GameSections ==
  {"copy_code", "file_request", "check_invite", "assign_opponent", "clear_invite",
   "mark_ready", "check_turn", "get_player", "order_first", "order_second",
   "lock_first", "shoot", "declare_win", "pass_turn", "dissolve", "same_game",
   "evict", "remove_game", "ask_rematch", "check_alone", "set_waiting", "reopen"}

OtherSections ==
  {"check_invite", "assign_opponent", "seat_requester", "clear_invite",
   "release_requester", "start_creator", "start_opponent", "order_first",
   "order_second", "lock_first", "shoot", "declare_win", "finish_self",
   "finish_opponent", "pass_turn", "same_game", "offer", "evict", "restart_self",
   "restart_opponent"}

Invitations == {"ACCEPT_INVITE", "REJECT_INVITE"}

ThreadOK(t) ==
  /\ t.pc \in GameSections => t.game \in Gid
  /\ t.pc \in OtherSections => t.other \in Pid
  /\ t.pc \in {"read_game_id", "get_game"} /\ t.cmd \in Invitations => t.other \in Pid
  /\ t.pc = "set_ready" => t.cmd \notin Invitations
  /\ t.pc = "start_creator" => t.creator \in Pid

LocalsOK == \A p \in Pid : ThreadOK(thr[p])

TypeInv == TypeOK /\ LocalsOK

(* Updates of one record of the three tables stay in their types. *)

LEMMA ShipRange == 0 \in 0 .. MaxShips /\ MaxShips \in 0 .. MaxShips
  BY ConstantsAssumption

LEMMA PlayerUpdates ==
  ASSUME NEW r \in Player, NEW s \in PlayerStates
  PROVE  /\ [r EXCEPT !.state = s] \in Player
         /\ [r EXCEPT !.state = s, !.ships_placed = 0, !.ships_remaining = MaxShips] \in Player
         /\ [r EXCEPT !.id = NoId, !.state = s, !.current_game_id = NoId,
                      !.username = NoName] \in Player
         /\ \A g \in Gid \union {NoId} :
              /\ [r EXCEPT !.current_game_id = g, !.state = s] \in Player
              /\ [r EXCEPT !.state = s, !.current_game_id = g, !.ships_placed = 0,
                           !.ships_remaining = MaxShips] \in Player
              /\ [r EXCEPT !.current_game_id = g, !.state = s, !.ships_placed = 0,
                           !.ships_remaining = MaxShips] \in Player
  BY ShipRange DEF Player

LEMMA GameUpdates ==
  ASSUME NEW r \in Game, NEW s \in GameStates
  PROVE  /\ [r EXCEPT !.state = s] \in Game
         /\ [r EXCEPT !.id = NoId, !.state = s, !.creator_id = NoId,
                      !.opponent_id = NoId, !.pending_invite_from = NoId] \in Game
         /\ \A o \in Pid \union {NoId} :
              /\ [r EXCEPT !.pending_invite_from = o] \in Game
              /\ [r EXCEPT !.current_turn = o] \in Game
              /\ [r EXCEPT !.state = s, !.pending_invite_from = o] \in Game
              /\ [r EXCEPT !.opponent_id = o, !.pending_invite_from = NoId,
                           !.state = s] \in Game
              /\ [r EXCEPT !.creator_ready = TRUE, !.opponent_ready = TRUE, !.state = s,
                           !.current_turn = o] \in Game
         /\ \A a, b \in BOOLEAN :
              /\ [r EXCEPT !.creator_ready = a, !.opponent_ready = b] \in Game
              /\ [r EXCEPT !.creator_wants_rematch = a, !.opponent_wants_rematch = b] \in Game
              /\ [r EXCEPT !.state = s, !.creator_wants_rematch = a,
                           !.opponent_wants_rematch = b] \in Game
  BY DEF Game

LEMMA NewGameTyped ==
  /\ FreeGame \in Game
  /\ \A g \in Gid \union {NoId}, p \in Pid \union {NoId} :
       /\ [FreeGame EXCEPT !.id = g, !.creator_id = p] \in Game
       /\ [FreeGame EXCEPT !.id = g, !.state = "WAITING_PLAYERS", !.creator_id = p] \in Game
       /\ \A o \in Pid \union {NoId} :
            [FreeGame EXCEPT !.id = g, !.state = "PLACING_SHIPS", !.creator_id = p,
                             !.opponent_id = o] \in Game
  BY DEF FreeGame, Game, GameStates

LEMMA ThreadUpdates ==
  ASSUME NEW t \in Thread, NEW s \in Sections
  PROVE  /\ Idle(s) \in Thread
         /\ \A k \in AllCommands : /\ [t EXCEPT !.pc = s, !.cmd = k] \in Thread
                                  /\ [Idle(s) EXCEPT !.cmd = k] \in Thread
         /\ \A g \in Gid \union {NoId} : [t EXCEPT !.pc = s, !.game = g] \in Thread
         /\ \A o \in Pid \union {NoId} :
              /\ [t EXCEPT !.pc = s, !.other = o] \in Thread
              /\ [t EXCEPT !.pc = s, !.creator = o] \in Thread
              /\ \A c \in Pid \union {NoId} :
                   [t EXCEPT !.pc = s, !.creator = c, !.other = o] \in Thread
              /\ \A b \in BOOLEAN : [t EXCEPT !.pc = s, !.other = o, !.flag = b] \in Thread
  BY DEF Thread, Idle

LEMMA ThreadFetch ==
  ASSUME NEW t \in Thread, NEW s \in Sections,
         NEW g \in Gid \union {NoId}, NEW c \in Pid \union {NoId}, NEW o \in Pid \union {NoId}
  PROVE  /\ [t EXCEPT !.pc = s, !.game = g] \in Thread
         /\ [t EXCEPT !.pc = s, !.other = o] \in Thread
         /\ [t EXCEPT !.pc = s, !.creator = c, !.other = o] \in Thread
  BY ThreadUpdates

LEMMA PlayersStep ==
  ASSUME TypeInv, NEW i \in Pid, NEW r \in Player, players' = [players EXCEPT ![i] = r]
  PROVE  players' \in [Pid -> Player]
  BY DEF TypeInv, TypeOK

LEMMA GamesStep ==
  ASSUME TypeInv, NEW g \in Gid, NEW r \in Game, games' = [games EXCEPT ![g] = r]
  PROVE  games' \in [Gid -> Game]
  BY DEF TypeInv, TypeOK

LEMMA ThreadStep ==
  ASSUME TypeInv, NEW p \in Pid, NEW t \in Thread, ThreadOK(t), thr' = [thr EXCEPT ![p] = t]
  PROVE  thr' \in [Pid -> Thread] /\ LocalsOK'
  BY DEF TypeInv, TypeOK, LocalsOK

LEMMA ReturnStep ==
  ASSUME TypeInv, NEW p \in Pid, Return(p)
  PROVE  thr' \in [Pid -> Thread] /\ LocalsOK'
  <1>1. Idle("receive") \in Thread /\ ThreadOK(Idle("receive"))
    BY DEF Idle, Thread, ThreadOK, Sections, GameSections, OtherSections
  <1> QED BY <1>1, ThreadStep DEF Return

LEMMA GotoStep ==
  ASSUME TypeInv, NEW p \in Pid, NEW s \in Sections, Goto(p, s),
         s \in GameSections => thr[p].game \in Gid,
         s \in OtherSections => thr[p].other \in Pid,
         s \in {"read_game_id", "get_game"} /\ thr[p].cmd \in Invitations => thr[p].other \in Pid,
         s # "set_ready", s = "start_creator" => thr[p].creator \in Pid
  PROVE  thr' \in [Pid -> Thread] /\ LocalsOK'
  <1> DEFINE t == [thr[p] EXCEPT !.pc = s]
  <1>1. thr[p] \in Thread
    BY DEF TypeInv, TypeOK
  <1>2. t \in Thread
    BY <1>1 DEF Thread
  <1>3. ThreadOK(t)
    BY <1>1 DEF Thread, ThreadOK
  <1> QED BY <1>2, <1>3, ThreadStep DEF Goto

LEMMA Locals ==
  ASSUME TypeInv, NEW p \in Pid
  PROVE  /\ thr[p] \in Thread /\ ThreadOK(thr[p])
         /\ thr[p].game \in Gid \union {NoId}
         /\ thr[p].other \in Pid \union {NoId}
         /\ thr[p].creator \in Pid \union {NoId}
         /\ thr[p].cmd \in AllCommands \union {"NONE"}
         /\ players[p] \in Player
  BY DEF TypeInv, TypeOK, LocalsOK, Thread

LEMMA GameFields ==
  ASSUME TypeInv, NEW g \in Gid
  PROVE  /\ games[g] \in Game
         /\ games[g].id \in Gid \union {NoId}
         /\ games[g].creator_id \in Pid \union {NoId}
         /\ games[g].opponent_id \in Pid \union {NoId}
         /\ \A p \in Pid : OtherMember(g, p) \in Pid \union {NoId}
  BY DEF TypeInv, TypeOK, Game, OtherMember

(* One lemma for each group of actions, one case for each action. *)

LEMMA ConnectType == ASSUME TypeInv, NEW p \in Pid, Connect(p) PROVE TypeInv'
  <1>1. [FreePlayer EXCEPT !.id = p, !.state = "CONNECTED"] \in Player
    BY ShipRange DEF FreePlayer, Player, PlayerStates
  <1>2. players' \in [Pid -> Player]
    BY <1>1, PlayersStep DEF Connect
  <1>3. Return(p)
    BY DEF Connect, Return
  <1>4. thr' \in [Pid -> Thread] /\ LocalsOK'
    BY <1>3, ReturnStep
  <1> QED BY <1>2, <1>4 DEF Connect, TypeInv, TypeOK, gameVars

LEMMA ReceiveType == ASSUME TypeInv, NEW p \in Pid, Receive(p) PROVE TypeInv'
  <1>1. PICK k \in Commands : thr' = [thr EXCEPT ![p] = [@ EXCEPT !.pc = FirstSection(k), !.cmd = k]]
    BY DEF Receive
  <1>2. k \in AllCommands
    BY ConstantsAssumption
  <1>3. /\ FirstSection(k) \in Sections
        /\ FirstSection(k) \notin GameSections
        /\ FirstSection(k) \notin OtherSections
        /\ FirstSection(k) # "get_game"
        /\ FirstSection(k) # "start_creator"
        /\ FirstSection(k) \in {"read_game_id", "set_ready"} => k \notin Invitations
    BY <1>2 DEF FirstSection, AllCommands, Sections, GameSections, OtherSections, Invitations
  <1> DEFINE t == [thr[p] EXCEPT !.pc = FirstSection(k), !.cmd = k]
  <1>4. t \in Thread
    BY <1>2, <1>3, Locals, ThreadUpdates
  <1>5. t.pc = FirstSection(k) /\ t.cmd = k
    BY Locals DEF Thread
  <1>6. ThreadOK(t)
    BY <1>3, <1>5 DEF ThreadOK
  <1>7. thr' \in [Pid -> Thread] /\ LocalsOK'
    BY <1>1, <1>4, <1>6, ThreadStep
  <1> QED BY <1>7 DEF Receive, TypeInv, TypeOK, playerVars, gameVars

LEMMA ReadGameIdType == ASSUME TypeInv, NEW p \in Pid, ReadGameId(p) PROVE TypeInv'
  <1> DEFINE t == [thr[p] EXCEPT !.pc = "get_game", !.game = players[p].current_game_id]
  <1>1. thr[p] \in Thread /\ players[p].current_game_id \in Gid \union {NoId}
    BY DEF TypeInv, TypeOK, Player
  <1>2. t \in Thread
    BY <1>1, ThreadUpdates DEF Sections
  <1>3. t.pc = "get_game" /\ t.cmd = thr[p].cmd /\ t.other = thr[p].other
    BY Locals DEF Thread
  <1>4. ThreadOK(t)
    BY <1>3, Locals DEF ThreadOK, GameSections, OtherSections, ReadGameId, At
  <1>5. thr' \in [Pid -> Thread] /\ LocalsOK'
    BY <1>2, <1>4, ThreadStep DEF ReadGameId
  <1> QED BY <1>5 DEF ReadGameId, TypeInv, TypeOK, playerVars, gameVars

LEMMA GetGameType == ASSUME TypeInv, NEW p \in Pid, GetGame(p) PROVE TypeInv'
  <1>1. thr' \in [Pid -> Thread] /\ LocalsOK'
    BY ReturnStep, GotoStep, Locals
    DEF GetGame, At, ThreadOK, Sections, GameSections, OtherSections, Invitations
  <1> QED BY <1>1 DEF GetGame, TypeInv, TypeOK, playerVars, gameVars

LEMMA GetPlayerType == ASSUME TypeInv, NEW p \in Pid, GetPlayer(p) PROVE TypeInv'
  <1>1. thr[p].game \in Gid
    BY Locals DEF GetPlayer, At, ThreadOK, GameSections
  <1>2. Connected(thr[p].other) => thr[p].other \in Pid
    BY Locals DEF Connected
  <1>3. thr' \in [Pid -> Thread] /\ LocalsOK'
    <2>1. CASE Return(p)
      BY <2>1, ReturnStep
    <2>2. CASE Goto(p, "order_first") /\ Connected(thr[p].other)
      BY <2>2, <1>1, <1>2, GotoStep DEF Sections, GameSections, OtherSections
    <2>3. CASE thr' = [thr EXCEPT ![p] = GiveUp]
      <3>1. GiveUp \in Thread
        BY ThreadUpdates, Locals DEF GiveUp, Sections, AllCommands
      <3>2. ThreadOK(GiveUp)
        BY DEF GiveUp, Idle, ThreadOK, GameSections, OtherSections, Invitations
      <3> QED BY <2>3, <3>1, <3>2, ThreadStep
    <2>4. CASE Goto(p, "restart_self") /\ Connected(thr[p].other)
      BY <2>4, <1>1, <1>2, GotoStep DEF Sections, GameSections, OtherSections
    <2>5. CASE Goto(p, "same_game") /\ Connected(thr[p].other)
      BY <2>5, <1>1, <1>2, GotoStep DEF Sections, GameSections, OtherSections
    <2>6. CASE Goto(p, "remove_game")
      BY <2>6, <1>1, GotoStep DEF Sections, GameSections, OtherSections
    <2> QED BY <2>1, <2>2, <2>3, <2>4, <2>5, <2>6 DEF GetPlayer
  <1> QED BY <1>3 DEF GetPlayer, TypeInv, TypeOK, playerVars, gameVars

LEMMA LoginType == ASSUME TypeInv, NEW p \in Pid, Login(p) PROVE TypeInv'
  <1>1. CASE SetUsername(p)
    <2>1. players' \in [Pid -> Player]
      BY <1>1 DEF SetUsername, TypeInv, TypeOK, Player
    <2>2. thr' \in [Pid -> Thread] /\ LocalsOK'
      BY <1>1, ReturnStep, GotoStep DEF SetUsername, Sections, GameSections, OtherSections
    <2> QED BY <1>1, <2>1, <2>2 DEF SetUsername, TypeInv, TypeOK, gameVars
  <1>2. CASE EnterLobby(p)
    <2>1. players' \in [Pid -> Player]
      BY <1>2 DEF EnterLobby, TypeInv, TypeOK, Player, PlayerStates
    <2>2. thr' \in [Pid -> Thread] /\ LocalsOK'
      BY <1>2, ReturnStep DEF EnterLobby
    <2> QED BY <1>2, <2>1, <2>2 DEF EnterLobby, TypeInv, TypeOK, gameVars
  <1> QED BY <1>1, <1>2 DEF Login

LEMMA CreateType == ASSUME TypeInv, NEW p \in Pid, Create(p) PROVE TypeInv'
  <1>1. CASE CreateGame(p)
    <2>1. CASE Return(p) /\ UNCHANGED gameVars
      <3>1. thr' \in [Pid -> Thread] /\ LocalsOK'
        BY <2>1, ReturnStep
      <3> QED BY <1>1, <2>1, <3>1 DEF CreateGame, TypeInv, TypeOK, gameVars, playerVars
    <2>2. ASSUME NEW g \in Gid,
                 games' = [games EXCEPT ![g] = NewGame(g, p)],
                 game_count' = game_count + 1,
                 thr' = [thr EXCEPT ![p] = [@ EXCEPT !.pc = "copy_code", !.game = g]]
          PROVE  TypeInv'
      <3> DEFINE t == [thr[p] EXCEPT !.pc = "copy_code", !.game = g]
      <3>1. games' \in [Gid -> Game]
        BY <2>2, NewGameTyped, GamesStep, Locals DEF NewGame
      <3>0. thr[p] \in Thread
        BY Locals
      <3>2. t \in Thread
        BY <3>0, ThreadUpdates DEF Sections
      <3>3. ThreadOK(t)
        BY Locals DEF Thread, ThreadOK, OtherSections
      <3>4. thr' \in [Pid -> Thread] /\ LocalsOK'
        BY <2>2, <3>2, <3>3, ThreadStep
      <3>5. UNCHANGED playerVars
        BY <1>1 DEF CreateGame
      <3> QED BY <2>2, <3>1, <3>4, <3>5 DEF TypeInv, TypeOK, playerVars
    <2> QED BY <1>1, <2>1, <2>2 DEF CreateGame
  <1>2. CASE CopyCode(p)
    <2> DEFINE t == [thr[p] EXCEPT !.pc = "attach", !.game = games[thr[p].game].id]
    <2>0. thr[p] \in Thread
      BY Locals
    <2>1. games[thr[p].game].id \in Gid \union {NoId}
      BY <1>2, GameFields, Locals DEF CopyCode, At, ThreadOK, GameSections
    <2>2. t \in Thread
      BY <2>0, <2>1, ThreadUpdates DEF Sections
    <2>3. ThreadOK(t)
      BY Locals DEF Thread, ThreadOK, GameSections, OtherSections
    <2>4. thr' \in [Pid -> Thread] /\ LocalsOK'
      BY <1>2, <2>2, <2>3, ThreadStep DEF CopyCode
    <2> QED BY <1>2, <2>4 DEF CopyCode, TypeInv, TypeOK, playerVars, gameVars
  <1>3. CASE AttachCreator(p)
    <2>1. players' \in [Pid -> Player]
      BY <1>3, Locals, PlayerUpdates, PlayersStep DEF AttachCreator, PlayerStates
    <2>2. thr' \in [Pid -> Thread] /\ LocalsOK'
      BY <1>3, ReturnStep DEF AttachCreator
    <2> QED BY <1>3, <2>1, <2>2 DEF AttachCreator, TypeInv, TypeOK, gameVars
  <1> QED BY <1>1, <1>2, <1>3 DEF Create

LEMMA JoinType == ASSUME TypeInv, NEW p \in Pid, Join(p) PROVE TypeInv'
  <1>0. thr[p] \in Thread
    BY Locals
  <1>1. CASE FindCode(p)
    <2>1. ASSUME NEW g \in Gid, thr' = [thr EXCEPT ![p] = [@ EXCEPT !.pc = "file_request", !.game = g]]
          PROVE  thr' \in [Pid -> Thread] /\ LocalsOK'
      <3> DEFINE t == [thr[p] EXCEPT !.pc = "file_request", !.game = g]
      <3>1. t \in Thread
        BY <1>0, ThreadUpdates DEF Sections
      <3>2. ThreadOK(t)
        BY <1>0 DEF Thread, ThreadOK, OtherSections
      <3> QED BY <2>1, <3>1, <3>2, ThreadStep
    <2>2. thr' \in [Pid -> Thread] /\ LocalsOK'
      BY <1>1, <2>1, ReturnStep DEF FindCode
    <2> QED BY <1>1, <2>2 DEF FindCode, TypeInv, TypeOK, playerVars, gameVars
  <1>2. CASE FileRequest(p)
    <2> DEFINE g == thr[p].game
               t == [Idle("set_invited") EXCEPT !.cmd = "JOIN_GAME",
                                                 !.creator = games[g].creator_id]
    <2>1. g \in Gid /\ games[g].creator_id \in Pid \union {NoId}
      BY <1>2, Locals, GameFields DEF FileRequest, At, ThreadOK, GameSections
    <2>2. games' \in [Gid -> Game]
      BY <1>2, <2>1 DEF FileRequest, TypeInv, TypeOK, Game
    <2>3. t \in Thread /\ ThreadOK(t)
      BY <2>1 DEF Idle, Thread, ThreadOK, Sections, AllCommands, GameSections, OtherSections
    <2>4. thr' \in [Pid -> Thread] /\ LocalsOK'
      BY <1>2, <2>3, ReturnStep, ThreadStep DEF FileRequest
    <2> QED BY <1>2, <2>2, <2>4 DEF FileRequest, TypeInv, TypeOK, playerVars
  <1>3. CASE SetInvited(p)
    <2>1. players' \in [Pid -> Player]
      BY <1>3 DEF SetInvited, TypeInv, TypeOK, Player, PlayerStates
    <2>2. thr' \in [Pid -> Thread] /\ LocalsOK'
      BY <1>3, ReturnStep DEF SetInvited
    <2> QED BY <1>3, <2>1, <2>2 DEF SetInvited, TypeInv, TypeOK, gameVars
  <1> QED BY <1>1, <1>2, <1>3 DEF Join

LEMMA InviteType == ASSUME TypeInv, NEW p \in Pid, Invite(p) PROVE TypeInv'
  <1>0. thr[p] \in Thread
    BY Locals
  <1> DEFINE g == thr[p].game
             r == thr[p].other
  <1>1. CASE Resolve(p)
    <2>1. ASSUME NEW q \in Pid, thr' = [thr EXCEPT ![p] = [@ EXCEPT !.pc = "read_game_id", !.other = q]]
          PROVE  thr' \in [Pid -> Thread] /\ LocalsOK'
      <3> DEFINE t == [thr[p] EXCEPT !.pc = "read_game_id", !.other = q]
      <3>1. t \in Thread
        BY <1>0, ThreadUpdates DEF Sections
      <3>2. ThreadOK(t)
        BY <1>0 DEF Thread, ThreadOK, GameSections
      <3> QED BY <2>1, <3>1, <3>2, ThreadStep
    <2>2. thr' \in [Pid -> Thread] /\ LocalsOK'
      BY <1>1, <2>1, ReturnStep DEF Resolve
    <2> QED BY <1>1, <2>2 DEF Resolve, TypeInv, TypeOK, playerVars, gameVars
  <1>2. CASE CheckInvite(p)
    <2>1. thr' \in [Pid -> Thread] /\ LocalsOK'
      BY <1>2, Locals, ReturnStep, GotoStep
      DEF CheckInvite, At, ThreadOK, Sections, GameSections, OtherSections
    <2> QED BY <1>2, <2>1 DEF CheckInvite, TypeInv, TypeOK, playerVars, gameVars
  <1>3. CASE AssignOpponent(p)
    <2> DEFINE t == [thr[p] EXCEPT !.pc = "seat_requester", !.game = games[g].id]
    <2>1. g \in Gid /\ r \in Pid
      BY <1>3, Locals DEF AssignOpponent, At, ThreadOK, GameSections, OtherSections
    <2>2. games[g] \in Game /\ games[g].id \in Gid \union {NoId}
      BY <2>1, GameFields
    <2>3. players[r].id \in Pid \union {NoId}
      BY <2>1 DEF TypeInv, TypeOK, Player
    <2>4. games' \in [Gid -> Game]
      BY <1>3, <2>1, <2>2, <2>3, GameUpdates, GamesStep DEF AssignOpponent, GameStates
    <2>5. t \in Thread
      <3>1. games[g].id \in Gid \union {NoId}
        BY <2>2
      <3>2. "seat_requester" \in Sections
        BY DEF Sections
      <3> QED BY <1>0, <3>1, <3>2, ThreadFetch
    <2>6. ThreadOK(t)
      BY <1>0, <2>1 DEF Thread, ThreadOK, GameSections
    <2>7. thr' \in [Pid -> Thread] /\ LocalsOK'
      BY <1>3, <2>5, <2>6, ThreadStep DEF AssignOpponent
    <2> QED BY <1>3, <2>4, <2>7 DEF AssignOpponent, TypeInv, TypeOK, playerVars
  <1>4. CASE SeatRequester(p)
    <2>1. g \in Gid \union {NoId} /\ r \in Pid
      BY <1>4, Locals DEF SeatRequester, At, ThreadOK, OtherSections
    <2>2. players[r] \in Player
      BY <2>1, Locals
    <2>3. players' \in [Pid -> Player]
      BY <1>4, <2>1, <2>2, PlayerUpdates, PlayersStep DEF SeatRequester, PlayerStates
    <2>4. thr' \in [Pid -> Thread] /\ LocalsOK'
      BY <1>4, GotoStep DEF SeatRequester, Sections, GameSections, OtherSections
    <2> QED BY <1>4, <2>3, <2>4 DEF SeatRequester, TypeInv, TypeOK, gameVars
  <1>5. CASE SeatCreator(p)
    <2>1. players' \in [Pid -> Player]
      BY <1>5, Locals, PlayerUpdates, PlayersStep DEF SeatCreator, PlayerStates
    <2>2. thr' \in [Pid -> Thread] /\ LocalsOK'
      BY <1>5, ReturnStep DEF SeatCreator
    <2> QED BY <1>5, <2>1, <2>2 DEF SeatCreator, TypeInv, TypeOK, gameVars
  <1>6. CASE ClearInvite(p)
    <2>1. g \in Gid /\ r \in Pid
      BY <1>6, Locals DEF ClearInvite, At, ThreadOK, GameSections, OtherSections
    <2>2. games' \in [Gid -> Game]
      BY <1>6, <2>1 DEF ClearInvite, TypeInv, TypeOK, Game
    <2>3. thr' \in [Pid -> Thread] /\ LocalsOK'
      BY <1>6, <2>1, ReturnStep, GotoStep DEF ClearInvite, Sections, GameSections
    <2> QED BY <1>6, <2>2, <2>3 DEF ClearInvite, TypeInv, TypeOK, playerVars
  <1>7. CASE ReleaseRequester(p)
    <2>1. r \in Pid
      BY <1>7, Locals DEF ReleaseRequester, At, ThreadOK, OtherSections
    <2>2. players' \in [Pid -> Player]
      BY <1>7, <2>1 DEF ReleaseRequester, TypeInv, TypeOK, Player, PlayerStates
    <2>3. thr' \in [Pid -> Thread] /\ LocalsOK'
      BY <1>7, ReturnStep DEF ReleaseRequester
    <2> QED BY <1>7, <2>2, <2>3 DEF ReleaseRequester, TypeInv, TypeOK, gameVars
  <1> QED BY <1>1, <1>2, <1>3, <1>4, <1>5, <1>6, <1>7 DEF Invite

LEMMA PlacingType == ASSUME TypeInv, NEW p \in Pid, Placing(p) PROVE TypeInv'
  <1>0. thr[p] \in Thread
    BY Locals
  <1>1. CASE PlaceShip(p)
    <2>1. players' \in [Pid -> Player]
      <3>1. players[p].ships_placed \in 0 .. MaxShips
        BY DEF TypeInv, TypeOK, Player
      <3>2. ShipLeft(p) => players[p].ships_placed + 1 \in 0 .. MaxShips
        BY <3>1, ConstantsAssumption DEF ShipLeft
      <3> QED BY <1>1, <3>2 DEF PlaceShip, TypeInv, TypeOK, Player
    <2>2. thr' \in [Pid -> Thread] /\ LocalsOK'
      BY <1>1, ReturnStep DEF PlaceShip
    <2> QED BY <1>1, <2>1, <2>2 DEF PlaceShip, TypeInv, TypeOK, gameVars
  <1>2. CASE SetReady(p)
    <2> DEFINE t == [thr[p] EXCEPT !.pc = "get_game", !.game = players[p].current_game_id]
    <2>1. players' \in [Pid -> Player]
      BY <1>2 DEF SetReady, TypeInv, TypeOK, Player, PlayerStates
    <2>2. players[p].current_game_id \in Gid \union {NoId}
      BY DEF TypeInv, TypeOK, Player
    <2>3. t \in Thread
      BY <1>0, <2>2, ThreadUpdates DEF Sections
    <2>4. ThreadOK(t)
      <3>1. t.pc = "get_game" /\ t.cmd = thr[p].cmd
        BY <1>0 DEF Thread
      <3>2. thr[p].cmd \notin Invitations
        BY <1>2, Locals DEF SetReady, At, ThreadOK
      <3> QED BY <3>1, <3>2 DEF ThreadOK, GameSections, OtherSections
    <2>5. thr' \in [Pid -> Thread] /\ LocalsOK'
      BY <1>2, <2>3, <2>4, ReturnStep, ThreadStep DEF SetReady
    <2> QED BY <1>2, <2>1, <2>5 DEF SetReady, TypeInv, TypeOK, gameVars
  <1>3. CASE MarkReady(p)
    <2> DEFINE g == thr[p].game
               t == [thr[p] EXCEPT !.pc = "get_creator", !.creator = games[g].creator_id,
                                   !.other = games[g].opponent_id]
    <2>1. g \in Gid
      BY <1>3, Locals DEF MarkReady, At, ThreadOK, GameSections
    <2>2. /\ games[g] \in Game
          /\ games[g].creator_id \in Pid \union {NoId}
          /\ games[g].opponent_id \in Pid \union {NoId}
      BY <2>1, GameFields
    <2>3. Started(games[g]) \in Game
      BY <2>2, GameUpdates DEF Started, GameStates
    <2>4. ASSUME NEW a \in BOOLEAN, NEW b \in BOOLEAN
          PROVE  [games[g] EXCEPT !.creator_ready = a, !.opponent_ready = b] \in Game
      BY <2>2 DEF Game
    <2>5. games[g].creator_ready \in BOOLEAN /\ games[g].opponent_ready \in BOOLEAN
      BY <2>2 DEF Game
    <2>6. games' \in [Gid -> Game]
      BY <1>3, <2>1, <2>3, <2>4, <2>5, GamesStep DEF MarkReady
    <2>7. t \in Thread
      <3>1. games[g].creator_id \in Pid \union {NoId} /\ games[g].opponent_id \in Pid \union {NoId}
        BY <2>2
      <3>2. "get_creator" \in Sections
        BY DEF Sections
      <3> QED BY <1>0, <3>1, <3>2, ThreadFetch
    <2>8. ThreadOK(t)
      BY <1>0 DEF Thread, ThreadOK, GameSections, OtherSections
    <2>9. thr' \in [Pid -> Thread] /\ LocalsOK'
      BY <1>3, <2>7, <2>8, ReturnStep, ThreadStep DEF MarkReady
    <2> QED BY <1>3, <2>6, <2>9 DEF MarkReady, TypeInv, TypeOK, playerVars
  <1>4. CASE GetCreator(p)
    <2> DEFINE c == IF Connected(thr[p].creator) THEN thr[p].creator ELSE NoId
               t == [thr[p] EXCEPT !.pc = "get_opponent", !.creator = c]
    <2>1. c \in Pid \union {NoId}
      BY <1>0 DEF Thread
    <2>2. t \in Thread
      BY <1>0, <2>1, ThreadUpdates DEF Sections
    <2>3. ThreadOK(t)
      BY <1>0 DEF Thread, ThreadOK, GameSections, OtherSections
    <2>4. thr' = [thr EXCEPT ![p] = t]
      BY <1>4 DEF GetCreator
    <2>5. thr' \in [Pid -> Thread] /\ LocalsOK'
      <3> HIDE DEF t
      <3> QED BY <2>2, <2>3, <2>4, ThreadStep
    <2> QED BY <1>4, <2>5 DEF GetCreator, TypeInv, TypeOK, playerVars, gameVars
  <1>5. CASE GetOpponent(p)
    <2>1. thr[p].creator # NoId => thr[p].creator \in Pid
      BY <1>0 DEF Thread
    <2>2. Connected(thr[p].other) => thr[p].other \in Pid
      BY <1>0 DEF Thread, Connected
    <2>3. thr' \in [Pid -> Thread] /\ LocalsOK'
      BY <1>5, <2>1, <2>2, ReturnStep, GotoStep
      DEF GetOpponent, Sections, GameSections, OtherSections
    <2> QED BY <1>5, <2>3 DEF GetOpponent, TypeInv, TypeOK, playerVars, gameVars
  <1>6. CASE StartCreator(p)
    <2>1. thr[p].creator \in Pid /\ thr[p].other \in Pid
      BY <1>6, Locals DEF StartCreator, At, ThreadOK, OtherSections
    <2>2. players' \in [Pid -> Player]
      BY <1>6, <2>1 DEF StartCreator, TypeInv, TypeOK, Player, PlayerStates
    <2>3. thr' \in [Pid -> Thread] /\ LocalsOK'
      BY <1>6, <2>1, GotoStep DEF StartCreator, Sections, GameSections, OtherSections
    <2> QED BY <1>6, <2>2, <2>3 DEF StartCreator, TypeInv, TypeOK, gameVars
  <1>7. CASE StartOpponent(p)
    <2>1. thr[p].other \in Pid
      BY <1>7, Locals DEF StartOpponent, At, ThreadOK, OtherSections
    <2>2. players' \in [Pid -> Player]
      BY <1>7, <2>1 DEF StartOpponent, TypeInv, TypeOK, Player, PlayerStates
    <2>3. thr' \in [Pid -> Thread] /\ LocalsOK'
      BY <1>7, ReturnStep DEF StartOpponent
    <2> QED BY <1>7, <2>2, <2>3 DEF StartOpponent, TypeInv, TypeOK, gameVars
  <1> QED BY <1>1, <1>2, <1>3, <1>4, <1>5, <1>6, <1>7 DEF Placing

(* The steps of handle_fire that take its locks set only first and second. *)
LEMMA AimStep ==
  ASSUME TypeInv, NEW p \in Pid, Aim(p)
  PROVE  \E t \in Thread :
           /\ thr' = [thr EXCEPT ![p] = t]
           /\ t.pc \in {"order_second", "lock_first", "shoot"}
           /\ t.cmd = thr[p].cmd /\ t.game = thr[p].game /\ t.other = thr[p].other
           /\ t.creator = thr[p].creator /\ t.flag = thr[p].flag
  <1> DEFINE o == thr[p].other
  <1>0. thr[p] \in Thread
    BY Locals
  <1>1. CASE OrderFirst(p)
    <2>1. o \in Pid
      BY <1>1, Locals DEF OrderFirst, At, ThreadOK, OtherSections
    <2>2. PICK q \in Pid : thr' = [thr EXCEPT ![p] = [thr[p] EXCEPT !.pc = "order_second",
                                                                  !.first = q]]
      BY <1>1, <2>1 DEF OrderFirst
    <2>3. [thr[p] EXCEPT !.pc = "order_second", !.first = q] \in Thread
      BY <1>0 DEF Thread, Sections
    <2> QED BY <1>0, <2>2, <2>3 DEF Thread
  <1>2. CASE OrderSecond(p)
    <2>1. o \in Pid
      BY <1>2, Locals DEF OrderSecond, At, ThreadOK, OtherSections
    <2>2. PICK q \in Pid : thr' = [thr EXCEPT ![p] = [thr[p] EXCEPT !.pc = "lock_first",
                                                                  !.second = q]]
      BY <1>2, <2>1 DEF OrderSecond
    <2>3. [thr[p] EXCEPT !.pc = "lock_first", !.second = q] \in Thread
      BY <1>0 DEF Thread, Sections
    <2> QED BY <1>0, <2>2, <2>3 DEF Thread
  <1>3. CASE LockFirst(p)
    <2>1. [thr[p] EXCEPT !.pc = "shoot"] \in Thread
      BY <1>0 DEF Thread, Sections
    <2> QED BY <1>0, <1>3, <2>1 DEF LockFirst, Goto, Thread
  <1> QED BY <1>1, <1>2, <1>3 DEF Aim

LEMMA AimFrame ==
  ASSUME NEW p, Aim(p)
  PROVE  /\ thr[p].pc \in {"order_first", "order_second", "lock_first"}
         /\ UNCHANGED <<players, player_count, games, game_count>>
  BY DEF Aim, OrderFirst, OrderSecond, LockFirst, At, playerVars, gameVars

LEMMA FireType == ASSUME TypeInv, NEW p \in Pid, Fire(p) PROVE TypeInv'
  <1>0. thr[p] \in Thread
    BY Locals
  <1> DEFINE g == thr[p].game
             o == thr[p].other
  <1>1. CASE CheckTurn(p)
    <2> DEFINE t == [thr[p] EXCEPT !.pc = "get_player", !.other = OtherMember(g, p)]
    <2>1. g \in Gid
      BY <1>1, Locals DEF CheckTurn, At, ThreadOK, GameSections
    <2>2. OtherMember(g, p) \in Pid \union {NoId}
      BY <2>1, GameFields
    <2>3. t \in Thread
      BY <1>0, <2>2, ThreadUpdates DEF Sections
    <2>4. ThreadOK(t)
      BY <1>0, <2>1 DEF Thread, ThreadOK, OtherSections
    <2>5. thr' \in [Pid -> Thread] /\ LocalsOK'
      BY <1>1, <2>3, <2>4, ReturnStep, ThreadStep DEF CheckTurn
    <2> QED BY <1>1, <2>5 DEF CheckTurn, TypeInv, TypeOK, playerVars, gameVars
  <1>2. CASE Shoot(p)
    <2>1. g \in Gid /\ o \in Pid
      BY <1>2, Locals DEF Shoot, At, ThreadOK, GameSections, OtherSections
    <2>2. /\ players[o].ships_placed \in 0 .. MaxShips
          /\ players[o].ships_remaining \in 0 .. MaxShips
      BY <2>1 DEF TypeInv, TypeOK, Player
    <2>3. players[o].ships_remaining + players[o].ships_placed > MaxShips
            => players[o].ships_remaining - 1 \in 0 .. MaxShips
      BY <2>2, ConstantsAssumption
    <2>4. players' \in [Pid -> Player]
      BY <1>2, <2>1, <2>3 DEF Shoot, TypeInv, TypeOK, Player
    <2>5. thr' \in [Pid -> Thread] /\ LocalsOK'
      BY <1>2, <2>1, ReturnStep, GotoStep DEF Shoot, Sections, GameSections, OtherSections
    <2> QED BY <1>2, <2>4, <2>5 DEF Shoot, TypeInv, TypeOK, gameVars
  <1>3. CASE DeclareWin(p)
    <2>1. g \in Gid /\ o \in Pid
      BY <1>3, Locals DEF DeclareWin, At, ThreadOK, GameSections, OtherSections
    <2>2. games[g] \in Game
      BY <2>1, GameFields
    <2>3. games' \in [Gid -> Game]
      BY <1>3, <2>1, <2>2, GameUpdates, GamesStep DEF DeclareWin, GameStates
    <2>4. thr' \in [Pid -> Thread] /\ LocalsOK'
      BY <1>3, <2>1, GotoStep DEF DeclareWin, Sections, GameSections, OtherSections
    <2> QED BY <1>3, <2>3, <2>4 DEF DeclareWin, TypeInv, TypeOK, playerVars
  <1>4. CASE FinishSelf(p)
    <2>1. o \in Pid
      BY <1>4, Locals DEF FinishSelf, At, ThreadOK, OtherSections
    <2>2. players' \in [Pid -> Player]
      BY <1>4 DEF FinishSelf, TypeInv, TypeOK, Player, PlayerStates
    <2>3. thr' \in [Pid -> Thread] /\ LocalsOK'
      BY <1>4, <2>1, GotoStep DEF FinishSelf, Sections, GameSections, OtherSections
    <2> QED BY <1>4, <2>2, <2>3 DEF FinishSelf, TypeInv, TypeOK, gameVars
  <1>5. CASE FinishOpponent(p)
    <2>1. o \in Pid
      BY <1>5, Locals DEF FinishOpponent, At, ThreadOK, OtherSections
    <2>2. players' \in [Pid -> Player]
      BY <1>5, <2>1 DEF FinishOpponent, TypeInv, TypeOK, Player, PlayerStates
    <2>3. thr' \in [Pid -> Thread] /\ LocalsOK'
      BY <1>5, ReturnStep DEF FinishOpponent
    <2> QED BY <1>5, <2>2, <2>3 DEF FinishOpponent, TypeInv, TypeOK, gameVars
  <1>6. CASE PassTurn(p)
    <2>1. g \in Gid /\ o \in Pid
      BY <1>6, Locals DEF PassTurn, At, ThreadOK, GameSections, OtherSections
    <2>2. games' \in [Gid -> Game]
      BY <1>6, <2>1 DEF PassTurn, TypeInv, TypeOK, Game
    <2>3. thr' \in [Pid -> Thread] /\ LocalsOK'
      BY <1>6, ReturnStep DEF PassTurn
    <2> QED BY <1>6, <2>2, <2>3 DEF PassTurn, TypeInv, TypeOK, playerVars
  <1>7. CASE Aim(p)
    <2>1. g \in Gid /\ o \in Pid
      BY <1>7, AimFrame, Locals DEF ThreadOK, GameSections, OtherSections
    <2>2. PICK t \in Thread :
            /\ thr' = [thr EXCEPT ![p] = t]
            /\ t.pc \in {"order_second", "lock_first", "shoot"}
            /\ t.game = g /\ t.other = o
      BY <1>7, AimStep
    <2>3. ThreadOK(t)
      BY <2>1, <2>2 DEF ThreadOK, GameSections, OtherSections
    <2>4. thr' \in [Pid -> Thread] /\ LocalsOK'
      BY <2>2, <2>3, ThreadStep
    <2> QED BY <1>7, <2>4, AimFrame DEF TypeInv, TypeOK
  <1> QED BY <1>1, <1>2, <1>3, <1>4, <1>5, <1>6, <1>7 DEF Fire

LEMMA LeaveType == ASSUME TypeInv, NEW p \in Pid, Leave(p) PROVE TypeInv'
  <1>0. thr[p] \in Thread
    BY Locals
  <1> DEFINE g == thr[p].game
             o == thr[p].other
  <1>1. CASE Dissolve(p)
    <2> DEFINE q == OtherMember(g, p)
               s == IF q # NoId THEN "get_player" ELSE "remove_game"
               t == [thr[p] EXCEPT !.pc = s, !.other = q]
    <2>1. g \in Gid
      BY <1>1, Locals DEF Dissolve, At, ThreadOK, GameSections
    <2>2. /\ games[g] \in Game
          /\ games[g].id \in Gid \union {NoId}
          /\ q \in Pid \union {NoId}
      BY <2>1, GameFields
    <2>3. HandedOver(games[g], q) \in Game
      BY <2>2, NewGameTyped DEF HandedOver
    <2>4. [games[g] EXCEPT !.state = "FINISHED"] \in Game
      BY <2>2, GameUpdates DEF GameStates
    <2>5. games' \in [Gid -> Game]
      BY <1>1, <2>1, <2>3, <2>4, GamesStep DEF Dissolve
    <2>6. t \in Thread
      <3>1. q \in Pid \union {NoId}
        BY <2>2
      <3> HIDE DEF q
      <3>2. s \in Sections
        BY DEF Sections
      <3> QED BY <1>0, <3>1, <3>2, ThreadFetch
    <2>7. ThreadOK(t)
      BY <1>0, <2>1, <2>2 DEF Thread, ThreadOK, OtherSections
    <2>8. thr' \in [Pid -> Thread] /\ LocalsOK'
      BY <1>1, <2>6, <2>7, ThreadStep DEF Dissolve
    <2> QED BY <1>1, <2>5, <2>8 DEF Dissolve, TypeInv, TypeOK, playerVars
  <1>2. CASE SameGame(p)
    <2>1. g \in Gid /\ o \in Pid
      BY <1>2, Locals DEF SameGame, At, ThreadOK, GameSections, OtherSections
    <2>2. thr' \in [Pid -> Thread] /\ LocalsOK'
      BY <1>2, <2>1, GotoStep DEF SameGame, Sections, GameSections, OtherSections
    <2> QED BY <1>2, <2>2 DEF SameGame, TypeInv, TypeOK, playerVars, gameVars
  <1>3. CASE OfferChoice(p)
    <2>1. o \in Pid /\ players[o] \in Player
      BY <1>3, Locals DEF OfferChoice, At, ThreadOK, OtherSections
    <2>2. players' \in [Pid -> Player]
      BY <1>3, <2>1, PlayerUpdates, PlayersStep DEF OfferChoice, PlayerStates
    <2>3. thr' \in [Pid -> Thread] /\ LocalsOK'
      BY <1>3, GotoStep DEF OfferChoice, Sections, GameSections, OtherSections
    <2> QED BY <1>3, <2>2, <2>3 DEF OfferChoice, TypeInv, TypeOK, gameVars
  <1>4. CASE Evict(p)
    <2>1. g \in Gid /\ o \in Pid /\ players[o] \in Player
      BY <1>4, Locals DEF Evict, At, ThreadOK, GameSections, OtherSections
    <2>2. players' \in [Pid -> Player]
      BY <1>4, <2>1, PlayerUpdates, PlayersStep DEF Evict, ToLobby, PlayerStates
    <2>3. thr' \in [Pid -> Thread] /\ LocalsOK'
      BY <1>4, <2>1, GotoStep DEF Evict, Sections, GameSections, OtherSections
    <2> QED BY <1>4, <2>2, <2>3 DEF Evict, TypeInv, TypeOK, gameVars
  <1>5. CASE RemoveGame(p)
    <2>1. g \in Gid
      BY <1>5, Locals DEF RemoveGame, At, ThreadOK, GameSections
    <2>2. games[g] \in Game
      BY <2>1, GameFields
    <2>3. games' \in [Gid -> Game] /\ game_count' \in Int
      <3> DEFINE r == [games[g] EXCEPT !.id = NoId, !.state = "FINISHED", !.creator_id = NoId,
                                       !.opponent_id = NoId, !.pending_invite_from = NoId]
      <3>1. r \in Game
        BY <2>2, GameUpdates DEF GameStates
      <3>2. CASE InTable(g)
        <4>1. games' = [games EXCEPT ![g] = r] /\ game_count' = game_count - 1
          BY <1>5, <3>2 DEF RemoveGame
        <4> HIDE DEF r
        <4> QED BY <2>1, <3>1, <4>1, GamesStep DEF TypeInv, TypeOK
      <3>3. CASE ~InTable(g)
        BY <1>5, <3>3 DEF RemoveGame, TypeInv, TypeOK, gameVars
      <3> QED BY <3>2, <3>3
    <2>4. thr' \in [Pid -> Thread] /\ LocalsOK'
      BY <1>5, GotoStep DEF RemoveGame, Sections, GameSections, OtherSections
    <2> QED BY <1>5, <2>3, <2>4 DEF RemoveGame, TypeInv, TypeOK, playerVars
  <1>6. CASE ResetSelf(p)
    <2>1. players' \in [Pid -> Player]
      BY <1>6, Locals, PlayerUpdates, PlayersStep DEF ResetSelf, ToLobby, PlayerStates
    <2>2. thr' \in [Pid -> Thread] /\ LocalsOK'
      BY <1>6, ReturnStep, GotoStep DEF ResetSelf, Sections, GameSections, OtherSections
    <2> QED BY <1>6, <2>1, <2>2 DEF ResetSelf, TypeInv, TypeOK, gameVars
  <1>7. CASE RemovePlayer(p)
    <2>1. players' \in [Pid -> Player]
      BY <1>7, Locals, PlayerUpdates, PlayersStep DEF RemovePlayer, PlayerStates
    <2>2. Idle("none") \in Thread /\ ThreadOK(Idle("none"))
      BY DEF Idle, Thread, ThreadOK, Sections, GameSections, OtherSections
    <2>3. thr' \in [Pid -> Thread] /\ LocalsOK'
      BY <1>7, <2>2, ThreadStep DEF RemovePlayer
    <2> QED BY <1>7, <2>1, <2>3 DEF RemovePlayer, TypeInv, TypeOK, gameVars
  <1>8. CASE LockTable(p)
    <2>1. thr' \in [Pid -> Thread] /\ LocalsOK'
      BY <1>8, GotoStep DEF LockTable, Sections, GameSections, OtherSections
    <2> QED BY <1>8, <2>1 DEF LockTable, TypeInv, TypeOK, playerVars, gameVars
  <1> QED BY <1>1, <1>2, <1>3, <1>4, <1>5, <1>6, <1>7, <1>8 DEF Leave

LEMMA AgainType == ASSUME TypeInv, NEW p \in Pid, Again(p) PROVE TypeInv'
  <1>0. thr[p] \in Thread
    BY Locals
  <1> DEFINE g == thr[p].game
             o == thr[p].other
  <1>1. CASE AskRematch(p)
    <2> DEFINE q == OtherMember(g, p)
    <2>1. g \in Gid
      BY <1>1, Locals DEF AskRematch, At, ThreadOK, GameSections
    <2>2. /\ games[g] \in Game
          /\ games[g].id \in Gid \union {NoId}
          /\ games[g].creator_id \in Pid \union {NoId}
          /\ games[g].opponent_id \in Pid \union {NoId}
          /\ q \in Pid \union {NoId}
      BY <2>1, GameFields
    <2>3. /\ games[g].creator_wants_rematch \in BOOLEAN
          /\ games[g].opponent_wants_rematch \in BOOLEAN
      BY <2>2 DEF Game
    <2>4. Rematch(games[g]) \in Game
      BY <2>2, NewGameTyped DEF Rematch
    <2>5. ASSUME NEW a \in BOOLEAN, NEW b \in BOOLEAN
          PROVE  [games[g] EXCEPT !.creator_wants_rematch = a,
                                  !.opponent_wants_rematch = b] \in Game
      BY <2>2 DEF Game
    <2>6. games' \in [Gid -> Game]
      BY <1>1, <2>1, <2>3, <2>4, <2>5, GamesStep DEF AskRematch, TypeInv, TypeOK
    <2>7. ASSUME NEW b \in BOOLEAN
          PROVE  LET t == [thr[p] EXCEPT !.pc = "get_player", !.other = q, !.flag = b]
                 IN t \in Thread /\ ThreadOK(t)
      <3> HIDE DEF q
      <3> DEFINE t == [thr[p] EXCEPT !.pc = "get_player", !.other = q, !.flag = b]
      <3>1. t \in Thread
        BY <1>0, <2>2, <2>7, ThreadUpdates DEF Sections
      <3>2. ThreadOK(t)
        BY <1>0, <2>1 DEF Thread, ThreadOK, OtherSections
      <3> QED BY <3>1, <3>2
    <2>8. thr' \in [Pid -> Thread] /\ LocalsOK'
      BY <1>1, <2>3, <2>7, ReturnStep, ThreadStep DEF AskRematch
    <2> QED BY <1>1, <2>6, <2>8 DEF AskRematch, TypeInv, TypeOK, playerVars
  <1>2. CASE RestartSelf(p)
    <2>1. o \in Pid
      BY <1>2, Locals DEF RestartSelf, At, ThreadOK, OtherSections
    <2>2. players' \in [Pid -> Player]
      BY <1>2, Locals, PlayerUpdates, PlayersStep DEF RestartSelf, Restart, PlayerStates
    <2>3. thr' \in [Pid -> Thread] /\ LocalsOK'
      BY <1>2, <2>1, GotoStep DEF RestartSelf, Sections, GameSections, OtherSections
    <2> QED BY <1>2, <2>2, <2>3 DEF RestartSelf, TypeInv, TypeOK, gameVars
  <1>3. CASE RestartOpponent(p)
    <2>1. o \in Pid /\ players[o] \in Player
      BY <1>3, Locals DEF RestartOpponent, At, ThreadOK, OtherSections
    <2>2. players' \in [Pid -> Player]
      BY <1>3, <2>1, PlayerUpdates, PlayersStep DEF RestartOpponent, Restart, PlayerStates
    <2>3. thr' \in [Pid -> Thread] /\ LocalsOK'
      BY <1>3, ReturnStep DEF RestartOpponent
    <2> QED BY <1>3, <2>2, <2>3 DEF RestartOpponent, TypeInv, TypeOK, gameVars
  <1>4. CASE CheckAlone(p)
    <2>1. thr' \in [Pid -> Thread] /\ LocalsOK'
      BY <1>4, Locals, ReturnStep, GotoStep
      DEF CheckAlone, At, ThreadOK, Sections, GameSections, OtherSections
    <2> QED BY <1>4, <2>1 DEF CheckAlone, TypeInv, TypeOK, playerVars, gameVars
  <1>5. CASE SetWaiting(p)
    <2>1. players' \in [Pid -> Player]
      BY <1>5 DEF SetWaiting, TypeInv, TypeOK, Player, PlayerStates
    <2>2. thr' \in [Pid -> Thread] /\ LocalsOK'
      BY <1>5, Locals, GotoStep
      DEF SetWaiting, At, ThreadOK, Sections, GameSections, OtherSections
    <2> QED BY <1>5, <2>1, <2>2 DEF SetWaiting, TypeInv, TypeOK, gameVars
  <1>6. CASE Reopen(p)
    <2>1. g \in Gid /\ games[g] \in Game
      BY <1>6, Locals, GameFields DEF Reopen, At, ThreadOK, GameSections
    <2>2. games' \in [Gid -> Game]
      BY <1>6, <2>1, GameUpdates, GamesStep DEF Reopen, GameStates
    <2>3. thr' \in [Pid -> Thread] /\ LocalsOK'
      BY <1>6, ReturnStep DEF Reopen
    <2> QED BY <1>6, <2>2, <2>3 DEF Reopen, TypeInv, TypeOK, playerVars
  <1> QED BY <1>1, <1>2, <1>3, <1>4, <1>5, <1>6 DEF Again

LEMMA TypeInit == Init => TypeInv
  <1>1. FreePlayer \in Player
    BY ShipRange DEF FreePlayer, Player, PlayerStates
  <1>2. FreeGame \in Game
    BY NewGameTyped
  <1>3. Idle("none") \in Thread /\ ThreadOK(Idle("none"))
    BY DEF Idle, Thread, ThreadOK, Sections, GameSections, OtherSections
  <1> QED BY <1>1, <1>2, <1>3 DEF Init, TypeInv, TypeOK, LocalsOK

LEMMA TypeNext == TypeInv /\ [Next]_vars => TypeInv'
  <1> SUFFICES ASSUME TypeInv, [Next]_vars PROVE TypeInv'
    OBVIOUS
  <1>1. CASE UNCHANGED vars
    BY <1>1 DEF vars, TypeInv, TypeOK, LocalsOK
  <1>2. ASSUME NEW p \in Pid, Connect(p) \/ Receive(p) \/ Work(p) PROVE TypeInv'
    BY <1>2, ConnectType, ReceiveType, ReadGameIdType, GetGameType, GetPlayerType,
       LoginType, CreateType, JoinType, InviteType, PlacingType, FireType, LeaveType,
       AgainType
    DEF Work
  <1> QED BY <1>1, <1>2 DEF Next

(* Every variable keeps its type, and every handler dereferences only      *)
(* slots of the tables.                                                    *)
THEOREM Typing == Spec => []TypeOK
  <1>1. TypeInv => TypeOK
    BY DEF TypeInv
  <1> QED BY TypeInit, TypeNext, <1>1, PTL DEF Spec

-----------------------------------------------------------------------------
(* What the steps of a thread leave alone                                  *)

(* The sections that are left out: the end of a thread, and the one that    *)
(* handle_accept_invite enters with the lock of the game.                  *)
Special == {"none", "assign_opponent"}

(* Only the thread of p moves, to another section than these. *)
Moves(p) ==
  /\ thr[p].pc # "none" /\ thr'[p].pc \notin Special
  /\ \A q \in Pid \ {p} : thr'[q] = thr[q]

(* No slot of the player table changes hands, and no nickname changes. *)
SamePlayers ==
  /\ player_count' = player_count
  /\ \A q \in Pid : /\ players'[q].id = players[q].id
                    /\ players'[q].username = players[q].username

LEMMA ThreadMoves ==
  ASSUME TypeInv, NEW p \in Pid, thr[p].pc # "none",
         NEW t, thr' = [thr EXCEPT ![p] = t], t.pc \notin Special
  PROVE  Moves(p)
  <1>1. thr \in [Pid -> Thread]
    BY DEF TypeInv, TypeOK
  <1> QED BY <1>1 DEF Moves

LEMMA FetchMoves ==
  ASSUME TypeInv, NEW p \in Pid, NEW s, thr[p].pc # "none", s \notin Special, NEW g, NEW o, NEW b
  PROVE  /\ thr' = [thr EXCEPT ![p] = [thr[p] EXCEPT !.pc = s, !.game = g]] => Moves(p)
         /\ thr' = [thr EXCEPT ![p] = [thr[p] EXCEPT !.pc = s, !.other = o]] => Moves(p)
         /\ thr' = [thr EXCEPT ![p] = [thr[p] EXCEPT !.pc = s, !.creator = o]] => Moves(p)
         /\ thr' = [thr EXCEPT ![p] = [thr[p] EXCEPT !.pc = s, !.creator = g, !.other = o]] => Moves(p)
         /\ thr' = [thr EXCEPT ![p] = [thr[p] EXCEPT !.pc = s, !.other = o, !.flag = b]] => Moves(p)
  <1>1. thr[p] \in Thread
    BY Locals
  <1>2. /\ [thr[p] EXCEPT !.pc = s, !.game = g].pc = s
        /\ [thr[p] EXCEPT !.pc = s, !.other = o].pc = s
        /\ [thr[p] EXCEPT !.pc = s, !.creator = o].pc = s
        /\ [thr[p] EXCEPT !.pc = s, !.creator = g, !.other = o].pc = s
        /\ [thr[p] EXCEPT !.pc = s, !.other = o, !.flag = b].pc = s
    BY <1>1 DEF Thread
  <1>3. ASSUME NEW t, t.pc = s, thr' = [thr EXCEPT ![p] = t] PROVE Moves(p)
    BY <1>3, ThreadMoves
  <1> QED BY <1>2, <1>3

LEMMA ReturnMoves ==
  ASSUME TypeInv, NEW p \in Pid, thr[p].pc # "none", Return(p)
  PROVE  Moves(p)
  <1>1. Idle("receive").pc = "receive"
    BY DEF Idle
  <1> QED BY <1>1, ThreadMoves DEF Return, Special

LEMMA GotoMoves ==
  ASSUME TypeInv, NEW p \in Pid, NEW s, thr[p].pc # "none", Goto(p, s), s \notin Special
  PROVE  Moves(p)
  <1>1. thr' = [thr EXCEPT ![p] = [thr[p] EXCEPT !.pc = s]]
    BY DEF Goto
  <1>2. [thr[p] EXCEPT !.pc = s].pc = s
    BY Locals DEF Thread
  <1> QED BY <1>1, <1>2, ThreadMoves

LEMMA ReceiveMoves == ASSUME TypeInv, NEW p \in Pid, Receive(p) PROVE Moves(p) /\ SamePlayers
  <1>1. PICK k \in Commands : thr' = [thr EXCEPT ![p] = [@ EXCEPT !.pc = FirstSection(k), !.cmd = k]]
    BY DEF Receive
  <1>2. FirstSection(k) \notin Special
    BY DEF FirstSection, Special
  <1>3. [thr[p] EXCEPT !.pc = FirstSection(k), !.cmd = k].pc = FirstSection(k)
    BY Locals DEF Thread
  <1>4. Moves(p)
    BY <1>1, <1>2, <1>3, ThreadMoves DEF Receive, At, Special
  <1> QED BY <1>4 DEF Receive, SamePlayers, playerVars

LEMMA LookupMoves ==
  ASSUME TypeInv, NEW p \in Pid, ReadGameId(p) \/ GetGame(p) \/ GetPlayer(p)
  PROVE  Moves(p) /\ SamePlayers
  <1>1. SamePlayers
    BY DEF ReadGameId, GetGame, GetPlayer, SamePlayers, playerVars
  <1>2. CASE ReadGameId(p)
    BY <1>1, <1>2, FetchMoves DEF ReadGameId, At, Special
  <1>3. CASE GetGame(p)
    BY <1>1, <1>3, ReturnMoves, GotoMoves DEF GetGame, At, Special
  <1>4. CASE GetPlayer(p)
    <2>1. thr' = [thr EXCEPT ![p] = GiveUp] => Moves(p)
      BY <1>4, ThreadMoves DEF GetPlayer, At, Special, GiveUp, Idle
    <2> QED BY <1>1, <1>4, <2>1, ReturnMoves, GotoMoves DEF GetPlayer, At, Special
  <1> QED BY <1>2, <1>3, <1>4

LEMMA LoginMoves ==
  ASSUME TypeInv, NEW p \in Pid, Login(p)
  PROVE  Moves(p) /\ (EnterLobby(p) => SamePlayers)
  <1>1. EnterLobby(p) => SamePlayers
    BY DEF EnterLobby, SamePlayers, TypeInv, TypeOK, Player
  <1> QED BY <1>1, ReturnMoves, GotoMoves DEF Login, SetUsername, EnterLobby, At, Special

LEMMA CreateMoves == ASSUME TypeInv, NEW p \in Pid, Create(p) PROVE Moves(p) /\ SamePlayers
  <1>1. CASE CreateGame(p)
    BY <1>1, ReturnMoves, FetchMoves DEF CreateGame, At, Special, SamePlayers, playerVars
  <1>2. CASE CopyCode(p)
    BY <1>2, FetchMoves DEF CopyCode, At, Special, SamePlayers, playerVars
  <1>3. CASE AttachCreator(p)
    BY <1>3, ReturnMoves DEF AttachCreator, At, Special, SamePlayers, TypeInv, TypeOK, Player
  <1> QED BY <1>1, <1>2, <1>3 DEF Create

LEMMA JoinMoves == ASSUME TypeInv, NEW p \in Pid, Join(p) PROVE Moves(p) /\ SamePlayers
  <1>1. CASE FindCode(p)
    BY <1>1, ReturnMoves, FetchMoves DEF FindCode, At, Special, SamePlayers, playerVars
  <1>2. CASE FileRequest(p)
    BY <1>2, ReturnMoves, ThreadMoves DEF FileRequest, At, Special, Idle, SamePlayers, playerVars
  <1>3. CASE SetInvited(p)
    BY <1>3, ReturnMoves DEF SetInvited, At, Special, SamePlayers, TypeInv, TypeOK, Player
  <1> QED BY <1>1, <1>2, <1>3 DEF Join

LEMMA InviteMoves == ASSUME TypeInv, NEW p \in Pid, Invite(p), ~CheckInvite(p) PROVE Moves(p) /\ SamePlayers
  <1>1. CASE Resolve(p)
    BY <1>1, ReturnMoves, FetchMoves DEF Resolve, At, Special, SamePlayers, playerVars
  <1>2. CASE ClearInvite(p)
    BY <1>2, ReturnMoves, GotoMoves DEF ClearInvite, At, Special, SamePlayers, playerVars
  <1>3. CASE AssignOpponent(p)
    BY <1>3, FetchMoves DEF AssignOpponent, At, Special, SamePlayers, playerVars
  <1>4. CASE SeatRequester(p)
    BY <1>4, GotoMoves DEF SeatRequester, At, Special, SamePlayers, TypeInv, TypeOK, Player
  <1>5. CASE SeatCreator(p)
    BY <1>5, ReturnMoves DEF SeatCreator, At, Special, SamePlayers, TypeInv, TypeOK, Player
  <1>6. CASE ReleaseRequester(p)
    BY <1>6, ReturnMoves DEF ReleaseRequester, At, Special, SamePlayers, TypeInv, TypeOK, Player
  <1> QED BY <1>1, <1>2, <1>3, <1>4, <1>5, <1>6 DEF Invite

LEMMA PlacingMoves == ASSUME TypeInv, NEW p \in Pid, Placing(p) PROVE Moves(p) /\ SamePlayers
  <1>1. CASE PlaceShip(p)
    BY <1>1, ReturnMoves DEF PlaceShip, At, Special, SamePlayers, TypeInv, TypeOK, Player
  <1>2. CASE SetReady(p)
    <2>1. Moves(p)
      BY <1>2, ReturnMoves, FetchMoves DEF SetReady, At, Special
    <2> QED BY <1>2, <2>1 DEF SetReady, SamePlayers, TypeInv, TypeOK, Player
  <1>3. CASE MarkReady(p)
    <2> DEFINE t == [thr[p] EXCEPT !.pc = "get_creator",
                                   !.creator = games[thr[p].game].creator_id,
                                   !.other = games[thr[p].game].opponent_id]
    <2>1. Return(p) \/ thr' = [thr EXCEPT ![p] = t]
      BY <1>3 DEF MarkReady
    <2>2. thr[p].pc = "mark_ready"
      BY <1>3 DEF MarkReady, At, Special
    <2>3. t.pc = "get_creator"
      BY Locals DEF Thread
    <2>4. ASSUME thr' = [thr EXCEPT ![p] = t] PROVE Moves(p)
      <3> HIDE DEF t
      <3> QED BY <2>2, <2>3, <2>4, ThreadMoves DEF Special
    <2>5. Moves(p)
      BY <2>1, <2>2, <2>4, ReturnMoves
    <2> QED BY <1>3, <2>5 DEF MarkReady, SamePlayers, playerVars
  <1>4. CASE GetCreator(p)
    BY <1>4, FetchMoves DEF GetCreator, At, Special, SamePlayers, playerVars
  <1>5. CASE GetOpponent(p)
    BY <1>5, ReturnMoves, GotoMoves DEF GetOpponent, At, Special, SamePlayers, playerVars
  <1>6. CASE StartCreator(p)
    BY <1>6, GotoMoves DEF StartCreator, At, Special, SamePlayers, TypeInv, TypeOK, Player
  <1>7. CASE StartOpponent(p)
    BY <1>7, ReturnMoves DEF StartOpponent, At, Special, SamePlayers, TypeInv, TypeOK, Player
  <1> QED BY <1>1, <1>2, <1>3, <1>4, <1>5, <1>6, <1>7 DEF Placing

LEMMA FireMoves == ASSUME TypeInv, NEW p \in Pid, Fire(p) PROVE Moves(p) /\ SamePlayers
  <1>1. CASE CheckTurn(p)
    BY <1>1, ReturnMoves, FetchMoves DEF CheckTurn, At, Special, SamePlayers, playerVars
  <1>2. CASE Shoot(p)
    <2>1. Moves(p)
      BY <1>2, ReturnMoves, GotoMoves DEF Shoot, At, Special
    <2> QED BY <1>2, <2>1 DEF Shoot, SamePlayers, TypeInv, TypeOK, Player
  <1>3. CASE DeclareWin(p) \/ PassTurn(p)
    BY <1>3, ReturnMoves, GotoMoves DEF DeclareWin, PassTurn, At, Special, SamePlayers, playerVars
  <1>4. CASE FinishSelf(p)
    BY <1>4, GotoMoves DEF FinishSelf, At, Special, SamePlayers, TypeInv, TypeOK, Player
  <1>5. CASE FinishOpponent(p)
    BY <1>5, ReturnMoves DEF FinishOpponent, At, Special, SamePlayers, TypeInv, TypeOK, Player
  <1>6. CASE Aim(p)
    <2>1. Moves(p)
      BY <1>6, AimStep, AimFrame, ThreadMoves DEF Special
    <2> QED BY <1>6, <2>1, AimFrame DEF SamePlayers
  <1> QED BY <1>1, <1>2, <1>3, <1>4, <1>5, <1>6 DEF Fire

LEMMA LeaveMoves ==
  ASSUME TypeInv, NEW p \in Pid, Leave(p), ~RemovePlayer(p) PROVE Moves(p) /\ SamePlayers
  <1>1. CASE Dissolve(p)
    <2>1. (IF OtherMember(thr[p].game, p) # NoId THEN "get_player" ELSE "remove_game") \notin Special
      BY DEF Special
    <2> QED BY <1>1, <2>1, FetchMoves DEF Dissolve, At, Special, SamePlayers, playerVars
  <1>2. CASE SameGame(p)
    BY <1>2, GotoMoves DEF SameGame, At, Special, SamePlayers, playerVars
  <1>3. CASE OfferChoice(p)
    BY <1>3, GotoMoves DEF OfferChoice, At, Special, SamePlayers, TypeInv, TypeOK, Player
  <1>4. CASE Evict(p)
    BY <1>4, GotoMoves DEF Evict, ToLobby, At, Special, SamePlayers, TypeInv, TypeOK, Player
  <1>5. CASE RemoveGame(p)
    BY <1>5, GotoMoves DEF RemoveGame, At, Special, SamePlayers, playerVars
  <1>6. CASE ResetSelf(p)
    <2>1. Moves(p)
      BY <1>6, ReturnMoves, GotoMoves DEF ResetSelf, At, Special
    <2> QED BY <1>6, <2>1 DEF ResetSelf, ToLobby, SamePlayers, TypeInv, TypeOK, Player
  <1>7. CASE LockTable(p)
    BY <1>7, GotoMoves DEF LockTable, At, Special, SamePlayers, playerVars
  <1> QED BY <1>1, <1>2, <1>3, <1>4, <1>5, <1>6, <1>7 DEF Leave

LEMMA AgainMoves == ASSUME TypeInv, NEW p \in Pid, Again(p) PROVE Moves(p) /\ SamePlayers
  <1>1. CASE AskRematch(p)
    <2> DEFINE g == thr[p].game
               c == games[g].creator_wants_rematch \/ games[g].creator_id = p
               w == games[g].opponent_wants_rematch \/ games[g].creator_id # p
               t == [thr[p] EXCEPT !.pc = "get_player", !.other = OtherMember(g, p), !.flag = c /\ w]
    <2>1. Return(p) \/ thr' = [thr EXCEPT ![p] = t]
      BY <1>1 DEF AskRematch
    <2>2. t.pc = "get_player"
      BY Locals DEF Thread
    <2>3. thr[p].pc = "ask_rematch"
      BY <1>1 DEF AskRematch, At, Special
    <2>4. ASSUME thr' = [thr EXCEPT ![p] = t] PROVE Moves(p)
      <3> HIDE DEF t
      <3> QED BY <2>2, <2>3, <2>4, ThreadMoves DEF Special
    <2>5. Moves(p)
      BY <2>1, <2>3, <2>4, ReturnMoves
    <2> QED BY <1>1, <2>5 DEF AskRematch, SamePlayers, playerVars
  <1>2. CASE RestartSelf(p)
    BY <1>2, GotoMoves DEF RestartSelf, Restart, At, Special, SamePlayers, TypeInv, TypeOK, Player
  <1>3. CASE RestartOpponent(p)
    BY <1>3, ReturnMoves DEF RestartOpponent, Restart, At, Special, SamePlayers, TypeInv, TypeOK, Player
  <1>4. CASE CheckAlone(p) \/ Reopen(p)
    BY <1>4, ReturnMoves, GotoMoves DEF CheckAlone, Reopen, At, Special, SamePlayers, playerVars
  <1>5. CASE SetWaiting(p)
    BY <1>5, GotoMoves DEF SetWaiting, At, Special, SamePlayers, TypeInv, TypeOK, Player
  <1> QED BY <1>1, <1>2, <1>3, <1>4, <1>5 DEF Again

LEMMA CheckInviteSame == ASSUME TypeInv, NEW p \in Pid, CheckInvite(p) PROVE SamePlayers
  BY DEF CheckInvite, SamePlayers, playerVars

(* Every step but a connection, the check of an invitation and the end of  *)
(* a thread.                                                               *)
LEMMA RunningStep ==
  ASSUME TypeInv, NEW p \in Pid, Receive(p) \/ Work(p), ~CheckInvite(p), ~RemovePlayer(p)
  PROVE  Moves(p) /\ (SetUsername(p) \/ SamePlayers)
  BY ReceiveMoves, LookupMoves, LoginMoves, CreateMoves, JoinMoves, InviteMoves,
     PlacingMoves, FireMoves, LeaveMoves, AgainMoves
  DEF Work, Login

-----------------------------------------------------------------------------
(* Nicknames                                                               *)

LEMMA UniqueStep ==
  ASSUME TypeInv, UniqueUsernames, [Next]_vars PROVE UniqueUsernames'
  <1>1. CASE UNCHANGED vars
    BY <1>1 DEF vars, UniqueUsernames, Connected
  <1>2. ASSUME SamePlayers PROVE UniqueUsernames'
    BY <1>2 DEF SamePlayers, UniqueUsernames, Connected
  <1>3. ASSUME NEW p \in Pid, SetUsername(p) PROVE UniqueUsernames'
    BY <1>3 DEF SetUsername, UsernameTaken, UniqueUsernames, Connected, TypeInv, TypeOK, Player
  <1>4. ASSUME NEW p \in Pid, Connect(p) PROVE UniqueUsernames'
    BY <1>4 DEF Connect, FreePlayer, UniqueUsernames, Connected, TypeInv, TypeOK, Player
  <1>5. ASSUME NEW p \in Pid, RemovePlayer(p) PROVE UniqueUsernames'
    BY <1>5 DEF RemovePlayer, UniqueUsernames, Connected, TypeInv, TypeOK, Player
  <1> QED BY <1>1, <1>2, <1>3, <1>4, <1>5, RunningStep, CheckInviteSame DEF Next

(* Two connected clients never hold the same nickname, whatever the size   *)
(* of the table and however their LOGINs interleave (gm_set_username).     *)
THEOREM Nicknames == Spec => []UniqueUsernames
  <1>1. Init => UniqueUsernames
    BY DEF Init, UniqueUsernames, Connected, FreePlayer
  <1>2. TypeInv /\ UniqueUsernames /\ [Next]_vars => UniqueUsernames'
    BY UniqueStep
  <1> QED BY <1>1, <1>2, TypeInit, TypeNext, PTL DEF Spec

-----------------------------------------------------------------------------
(* The owner of a slot                                                     *)

(* A thread runs exactly while its slot is used. *)
OwnSlot == \A p \in Pid : players[p].id = IF thr[p].pc = "none" THEN NoId ELSE p

LEMMA OwnSlotStep ==
  ASSUME TypeInv, OwnSlot, [Next]_vars PROVE OwnSlot'
  <1>1. CASE UNCHANGED vars
    BY <1>1 DEF vars, OwnSlot
  <1>2. ASSUME NEW p \in Pid, Moves(p), \A q \in Pid : players'[q].id = players[q].id
        PROVE  OwnSlot'
    BY <1>2 DEF Moves, Special, OwnSlot
  <1>3. ASSUME NEW p \in Pid, SetUsername(p) PROVE \A q \in Pid : players'[q].id = players[q].id
    BY <1>3 DEF SetUsername, TypeInv, TypeOK, Player
  <1>4. ASSUME NEW p \in Pid, CheckInvite(p) PROVE OwnSlot'
    <2>1. /\ thr[p].pc # "none" /\ thr'[p].pc # "none"
          /\ \A q \in Pid \ {p} : thr'[q] = thr[q]
      BY <1>4 DEF CheckInvite, At, Goto, Return, Idle, TypeInv, TypeOK, Thread
    <2> QED BY <1>4, <2>1, CheckInviteSame DEF SamePlayers, OwnSlot
  <1>5. ASSUME NEW p \in Pid, Connect(p) PROVE OwnSlot'
    BY <1>5 DEF Connect, FreePlayer, Idle, OwnSlot, TypeInv, TypeOK
  <1>6. ASSUME NEW p \in Pid, RemovePlayer(p) PROVE OwnSlot'
    BY <1>6 DEF RemovePlayer, Idle, OwnSlot, TypeInv, TypeOK, Player
  <1> QED BY <1>1, <1>2, <1>3, <1>4, <1>5, <1>6, RunningStep DEF Next, SamePlayers

LEMMA OwnSlotInit == Init => OwnSlot
  BY DEF Init, OwnSlot, FreePlayer, Idle

-----------------------------------------------------------------------------
(* What a step does to the members of a game                               *)

(* Nobody enters or leaves a game; a pending request may be dropped. *)
SameSeats ==
  /\ game_count' = game_count
  /\ \A g \in Gid :
       /\ games'[g].id = games[g].id
       /\ games'[g].creator_id = games[g].creator_id
       /\ games'[g].opponent_id = games[g].opponent_id
       /\ games'[g].pending_invite_from \in {games[g].pending_invite_from, NoId}

SameMembers(r, h) ==
  /\ r.id = h.id /\ r.creator_id = h.creator_id /\ r.opponent_id = h.opponent_id
  /\ r.pending_invite_from \in {h.pending_invite_from, NoId}

LEMMA SeatsKept ==
  ASSUME TypeInv, NEW g \in Gid, NEW r, SameMembers(r, games[g]),
         games' = [games EXCEPT ![g] = r], game_count' = game_count
  PROVE  SameSeats
  <1>1. games \in [Gid -> Game]
    BY DEF TypeInv, TypeOK
  <1> QED BY <1>1 DEF SameSeats, SameMembers

LEMMA UpdatesKeepMembers ==
  ASSUME NEW h \in Game, NEW s, NEW a, NEW b
  PROVE  /\ SameMembers([h EXCEPT !.creator_ready = a, !.opponent_ready = b], h)
         /\ SameMembers(Started(h), h)
         /\ SameMembers([h EXCEPT !.state = s, !.creator_wants_rematch = a,
                                  !.opponent_wants_rematch = b], h)
         /\ SameMembers([h EXCEPT !.current_turn = a], h)
         /\ SameMembers([h EXCEPT !.pending_invite_from = NoId], h)
         /\ SameMembers([h EXCEPT !.state = s, !.pending_invite_from = NoId], h)
         /\ SameMembers([h EXCEPT !.creator_wants_rematch = a, !.opponent_wants_rematch = b], h)
         /\ SameMembers(Rematch(h), h)
  BY DEF SameMembers, Game, Started, Rematch, FreeGame

LEMMA GameStepSeats ==
  ASSUME TypeInv, NEW p \in Pid,
         \/ MarkReady(p) \/ DeclareWin(p) \/ PassTurn(p) \/ ClearInvite(p)
         \/ AskRematch(p) \/ Reopen(p)
  PROVE  SameSeats
  <1> DEFINE g == thr[p].game
  <1>1. g \in Gid
    BY Locals
    DEF MarkReady, DeclareWin, PassTurn, ClearInvite, AskRematch, Reopen, At, ThreadOK, GameSections
  <1>2. games[g] \in Game
    BY <1>1, GameFields
  <1>3. ASSUME NEW r, SameMembers(r, games[g]), games' = [games EXCEPT ![g] = r],
               game_count' = game_count
        PROVE  SameSeats
    BY <1>1, <1>3, SeatsKept
  <1>4. UNCHANGED gameVars => SameSeats
    BY DEF SameSeats, gameVars
  <1>5. CASE MarkReady(p)
    <2> DEFINE c == games[g].creator_ready \/ games[g].creator_id = p
               o == games[g].opponent_ready \/ ~(games[g].creator_id = p)
               r == [games[g] EXCEPT !.creator_ready = c, !.opponent_ready = o]
    <2>1. /\ games' = [games EXCEPT ![g] = Started(games[g])] \/ games' = [games EXCEPT ![g] = r]
          /\ game_count' = game_count
      BY <1>5 DEF MarkReady
    <2>2. SameMembers(Started(games[g]), games[g]) /\ SameMembers(r, games[g])
      <3> HIDE DEF c, o
      <3> QED BY <1>2, UpdatesKeepMembers
    <2> HIDE DEF g, r
    <2> QED BY <1>3, <2>1, <2>2
  <1>6. CASE DeclareWin(p)
    BY <1>2, <1>3, <1>6, UpdatesKeepMembers DEF DeclareWin
  <1>7. CASE PassTurn(p)
    BY <1>2, <1>3, <1>7, UpdatesKeepMembers DEF PassTurn
  <1>8. CASE ClearInvite(p)
    BY <1>2, <1>3, <1>4, <1>8, UpdatesKeepMembers DEF ClearInvite, gameVars
  <1>9. CASE AskRematch(p)
    <2> DEFINE c == games[g].creator_wants_rematch \/ games[g].creator_id = p
               o == games[g].opponent_wants_rematch \/ ~(games[g].creator_id = p)
               r == [games[g] EXCEPT !.creator_wants_rematch = c, !.opponent_wants_rematch = o]
    <2>1. /\ \/ games' = games
             \/ games' = [games EXCEPT ![g] = Rematch(games[g])]
             \/ games' = [games EXCEPT ![g] = r]
          /\ game_count' = game_count
      BY <1>9 DEF AskRematch
    <2>2. SameMembers(Rematch(games[g]), games[g]) /\ SameMembers(r, games[g])
      <3> HIDE DEF c, o
      <3> QED BY <1>2, UpdatesKeepMembers
    <2> HIDE DEF g, r
    <2> QED BY <1>3, <1>4, <2>1, <2>2 DEF gameVars
  <1>10. CASE Reopen(p)
    BY <1>2, <1>3, <1>10, UpdatesKeepMembers DEF Reopen
  <1> QED BY <1>5, <1>6, <1>7, <1>8, <1>9, <1>10

(* The five actions that change who is in a game. *)
Seating(p) == \/ CreateGame(p) \/ FileRequest(p) \/ AssignOpponent(p)
              \/ Dissolve(p) \/ RemoveGame(p)

LEMMA OtherStepSeats ==
  ASSUME TypeInv, NEW p \in Pid, Connect(p) \/ Receive(p) \/ Work(p), ~Seating(p)
  PROVE  SameSeats
  <1>1. UNCHANGED gameVars => SameSeats
    BY DEF SameSeats, gameVars
  <1>2. CASE Connect(p) \/ Receive(p) \/ ReadGameId(p) \/ GetGame(p) \/ GetPlayer(p) \/ Login(p)
    BY <1>1, <1>2
    DEF Connect, Receive, ReadGameId, GetGame, GetPlayer, Login, SetUsername, EnterLobby
  <1>3. CASE Create(p) \/ Join(p)
    BY <1>1, <1>3 DEF Create, CopyCode, AttachCreator, Join, FindCode, SetInvited, Seating
  <1>4. CASE Invite(p)
    BY <1>1, <1>4, GameStepSeats
    DEF Invite, Resolve, CheckInvite, SeatRequester, SeatCreator, ReleaseRequester, Seating
  <1>5. CASE Placing(p)
    BY <1>1, <1>5, GameStepSeats
    DEF Placing, PlaceShip, SetReady, GetCreator, GetOpponent, StartCreator, StartOpponent
  <1>6. CASE Fire(p)
    BY <1>1, <1>6, GameStepSeats, AimFrame
    DEF Fire, CheckTurn, Shoot, FinishSelf, FinishOpponent, gameVars
  <1>7. CASE Leave(p)
    BY <1>1, <1>7
    DEF Leave, SameGame, OfferChoice, Evict, ResetSelf, LockTable, RemovePlayer, Seating
  <1>8. CASE Again(p)
    BY <1>1, <1>8, GameStepSeats
    DEF Again, RestartSelf, RestartOpponent, CheckAlone, SetWaiting
  <1> QED BY <1>2, <1>3, <1>4, <1>5, <1>6, <1>7, <1>8 DEF Work

-----------------------------------------------------------------------------
(* The counters                                                            *)

UsedPlayers == {p \in Pid : players[p].id # NoId}
UsedGames   == {g \in Gid : games[g].id # NoId}

LEMMA UsedFinite == IsFiniteSet(UsedPlayers) /\ IsFiniteSet(UsedGames)
  <1>1. IsFiniteSet(Pid) /\ IsFiniteSet(Gid)
    BY ConstantsAssumption, FS_Interval DEF Pid, Gid
  <1> QED BY <1>1, FS_Subset DEF UsedPlayers, UsedGames

LEMMA PlayerCountStep ==
  ASSUME TypeInv, OwnSlot, [Next]_vars, player_count = Cardinality(UsedPlayers)
  PROVE  player_count' = Cardinality(UsedPlayers')
  <1>1. CASE UNCHANGED vars
    BY <1>1 DEF vars, UsedPlayers
  <1>2. CASE SamePlayers
    <2>1. UsedPlayers' = UsedPlayers
      BY <1>2 DEF SamePlayers, UsedPlayers
    <2> QED BY <1>2, <2>1 DEF SamePlayers
  <1>3. ASSUME NEW p \in Pid, SetUsername(p) PROVE player_count' = Cardinality(UsedPlayers')
    <2>1. UsedPlayers' = UsedPlayers
      BY <1>3 DEF SetUsername, UsedPlayers, TypeInv, TypeOK, Player
    <2> QED BY <1>3, <2>1 DEF SetUsername
  <1>4. ASSUME NEW p \in Pid, Connect(p) PROVE player_count' = Cardinality(UsedPlayers')
    <2>1. p # NoId
      BY DEF Pid, NoId
    <2>2. UsedPlayers' = UsedPlayers \union {p} /\ p \notin UsedPlayers
      BY <1>4, <2>1 DEF Connect, FreePlayer, UsedPlayers, TypeInv, TypeOK
    <2>3. Cardinality(UsedPlayers') = Cardinality(UsedPlayers) + 1
      BY <2>2, UsedFinite, FS_AddElement
    <2> QED BY <1>4, <2>3 DEF Connect
  <1>5. ASSUME NEW p \in Pid, RemovePlayer(p) PROVE player_count' = Cardinality(UsedPlayers')
    <2>1. p # NoId
      BY DEF Pid, NoId
    <2>2. p \in UsedPlayers
      BY <1>5, <2>1 DEF RemovePlayer, At, OwnSlot, UsedPlayers
    <2>3. UsedPlayers' = UsedPlayers \ {p}
      BY <1>5 DEF RemovePlayer, UsedPlayers, TypeInv, TypeOK, Player
    <2>4. Cardinality(UsedPlayers') = Cardinality(UsedPlayers) - 1
      BY <2>2, <2>3, UsedFinite, FS_RemoveElement
    <2> QED BY <1>5, <2>4 DEF RemovePlayer
  <1> QED BY <1>1, <1>2, <1>3, <1>4, <1>5, RunningStep, CheckInviteSame DEF Next

LEMMA GameCountStep ==
  ASSUME TypeInv, [Next]_vars, game_count = Cardinality(UsedGames)
  PROVE  game_count' = Cardinality(UsedGames')
  <1>1. UNCHANGED gameVars => game_count' = Cardinality(UsedGames')
    BY DEF gameVars, UsedGames
  <1>2. CASE SameSeats
    <2>1. UsedGames' = UsedGames
      BY <1>2 DEF SameSeats, UsedGames
    <2> QED BY <1>2, <2>1 DEF SameSeats
  <1>3. ASSUME NEW p \in Pid, CreateGame(p), ~UNCHANGED gameVars
        PROVE  game_count' = Cardinality(UsedGames')
    <2>1. PICK g \in Gid : /\ games[g].id = NoId
                          /\ games' = [games EXCEPT ![g] = NewGame(g, p)]
                          /\ game_count' = game_count + 1
      BY <1>3 DEF CreateGame
    <2>2. NewGame(g, p).id = g /\ g # NoId
      BY DEF NewGame, FreeGame, Gid, NoId
    <2>3. UsedGames' = UsedGames \union {g} /\ g \notin UsedGames
      BY <2>1, <2>2 DEF UsedGames, TypeInv, TypeOK
    <2>4. Cardinality(UsedGames') = Cardinality(UsedGames) + 1
      BY <2>3, UsedFinite, FS_AddElement
    <2> QED BY <2>1, <2>4
  <1>4. ASSUME NEW p \in Pid, RemoveGame(p), ~UNCHANGED gameVars
        PROVE  game_count' = Cardinality(UsedGames')
    <2> DEFINE g == thr[p].game
    <2>1. g \in Gid
      BY <1>4, Locals DEF RemoveGame, At, ThreadOK, GameSections
    <2>2. games[g].id = g /\ g # NoId /\ game_count' = game_count - 1
      BY <1>4, <2>1 DEF RemoveGame, InTable, gameVars, Gid, NoId
    <2>3. games'[g].id = NoId /\ \A h \in Gid \ {g} : games'[h] = games[h]
      BY <1>4, <2>1, <2>2 DEF RemoveGame, InTable, TypeInv, TypeOK, Game
    <2>4. UsedGames' = UsedGames \ {g} /\ g \in UsedGames
      BY <2>1, <2>2, <2>3 DEF UsedGames
    <2>5. Cardinality(UsedGames') = Cardinality(UsedGames) - 1
      BY <2>4, UsedFinite, FS_RemoveElement
    <2> QED BY <2>2, <2>5
  <1>5. ASSUME NEW p \in Pid, FileRequest(p) \/ AssignOpponent(p) \/ Dissolve(p)
        PROVE  game_count' = Cardinality(UsedGames')
    <2>1. game_count' = game_count
      BY <1>5 DEF FileRequest, AssignOpponent, Dissolve
    <2>2. ASSUME NEW g, NEW r, games' = games \/ games' = [games EXCEPT ![g] = r],
                 g \in Gid => r.id = games[g].id
          PROVE  game_count' = Cardinality(UsedGames')
      <3>1. UsedGames' = UsedGames
        BY <2>2 DEF UsedGames, TypeInv, TypeOK
      <3> QED BY <2>1, <3>1
    <2> DEFINE g == thr[p].game
    <2>3. CASE FileRequest(p)
      <3> DEFINE r == [games[g] EXCEPT !.pending_invite_from = p]
      <3>1. games' = games \/ games' = [games EXCEPT ![g] = r]
        BY <2>3 DEF FileRequest
      <3>2. g \in Gid => r.id = games[g].id
        BY GameFields DEF Game
      <3> HIDE DEF r
      <3> QED BY <2>2, <3>1, <3>2
    <2>4. CASE AssignOpponent(p)
      <3> DEFINE r == [games[g] EXCEPT !.opponent_id = players[thr[p].other].id,
                                       !.pending_invite_from = NoId, !.state = "PLACING_SHIPS"]
      <3>1. games' = [games EXCEPT ![g] = r]
        BY <2>4 DEF AssignOpponent
      <3>2. g \in Gid => r.id = games[g].id
        BY GameFields DEF Game
      <3> HIDE DEF r
      <3> QED BY <2>2, <3>1, <3>2
    <2>5. CASE Dissolve(p)
      <3>1. UsedGames' = UsedGames
        BY <2>5 DEF Dissolve, HandedOver, FreeGame, UsedGames, TypeInv, TypeOK, Game
      <3> QED BY <2>1, <3>1
    <2> QED BY <1>5, <2>3, <2>4, <2>5
  <1>6. UNCHANGED vars => UNCHANGED gameVars
    BY DEF vars, gameVars
  <1> QED BY <1>1, <1>2, <1>3, <1>4, <1>5, <1>6, OtherStepSeats DEF Next, Seating

(* The two counters count the used slots, for every size of the tables:    *)
(* no game is removed twice, no player counted twice (gm_remove_game,      *)
(* gm_create_game, gm_add_player, gm_remove_player).                       *)
THEOREM Counters == Spec => []CountsMatch
  <1> DEFINE Inv == TypeInv /\ OwnSlot /\ CountsMatch
  <1>1. CountsMatch <=> /\ player_count = Cardinality(UsedPlayers)
                       /\ game_count = Cardinality(UsedGames)
    BY DEF CountsMatch, UsedPlayers, UsedGames
  <1>2. CountsMatch' <=> /\ player_count' = Cardinality(UsedPlayers')
                        /\ game_count' = Cardinality(UsedGames')
    BY DEF CountsMatch, UsedPlayers, UsedGames
  <1>3. Init => CountsMatch
    <2>1. Init => UsedPlayers = {} /\ UsedGames = {}
      BY DEF Init, UsedPlayers, UsedGames, FreePlayer, FreeGame
    <2> QED BY <1>1, <2>1, FS_EmptySet DEF Init
  <1>4. Init => Inv
    BY <1>3, TypeInit, OwnSlotInit
  <1>5. Inv /\ [Next]_vars => Inv'
    BY <1>1, <1>2, TypeNext, OwnSlotStep, PlayerCountStep, GameCountStep
  <1> QED BY <1>4, <1>5, PTL DEF Spec

-----------------------------------------------------------------------------
(* Nobody on both sides of a game                                          *)

(* A creator is not the author of the request that is pending in its game. *)
NoOwnRequest ==
  \A g \in Gid : games[g].pending_invite_from # NoId =>
                    games[g].pending_invite_from # games[g].creator_id

(* handle_accept_invite keeps the lock of the game from its check to its   *)
(* assignments: what it has checked still holds when it assigns.           *)
AcceptHolds ==
  \A p \in Pid : thr[p].pc = "assign_opponent" =>
    games[thr[p].game].creator_id = p /\ thr[p].other # p

SeatInv == OwnSlot /\ NeverAgainstItself /\ NoOwnRequest /\ AcceptHolds

(* A step that leaves the thread in assign_opponent alone and its game too. *)
LEMMA AcceptKept ==
  ASSUME TypeInv, AcceptHolds, NEW p \in Pid, Moves(p),
         \A q \in Pid \ {p} : thr[q].pc = "assign_opponent" =>
           games'[thr[q].game].creator_id = games[thr[q].game].creator_id
  PROVE  AcceptHolds'
  BY DEF AcceptHolds, Moves, Special

LEMMA SeatInvSame ==
  ASSUME TypeInv, SeatInv, SameSeats PROVE NeverAgainstItself' /\ NoOwnRequest'
  BY DEF SeatInv, SameSeats, NeverAgainstItself, NoOwnRequest

LEMMA AcceptingGame ==
  ASSUME TypeInv, NEW p \in Pid, thr[p].pc = "assign_opponent"
  PROVE  thr[p].game \in Gid /\ thr[p].other \in Pid
  BY Locals DEF ThreadOK, GameSections, OtherSections

(* One game changes, and its lock is free or its creator is kept. *)
LEMMA OneGameStep ==
  ASSUME TypeInv, SeatInv, NEW p \in Pid, Moves(p), NEW g \in Gid, NEW r,
         games' = [games EXCEPT ![g] = r],
         GameLockFree(g) \/ r.creator_id = games[g].creator_id,
         r.opponent_id # NoId => r.opponent_id # r.creator_id,
         r.pending_invite_from # NoId => r.pending_invite_from # r.creator_id
  PROVE  NeverAgainstItself' /\ NoOwnRequest' /\ AcceptHolds'
  <1>1. games \in [Gid -> Game]
    BY DEF TypeInv, TypeOK
  <1>2. games'[g] = r /\ \A h \in Gid \ {g} : games'[h] = games[h]
    BY <1>1
  <1>3. NeverAgainstItself' /\ NoOwnRequest'
    BY <1>2 DEF SeatInv, NeverAgainstItself, NoOwnRequest
  <1>4. ASSUME NEW q \in Pid \ {p}, thr[q].pc = "assign_opponent"
        PROVE  games'[thr[q].game].creator_id = games[thr[q].game].creator_id
    BY <1>2, <1>4, AcceptingGame DEF GameLockFree
  <1> QED BY <1>3, <1>4, AcceptKept DEF SeatInv

LEMMA CreateSeats == ASSUME TypeInv, SeatInv, NEW p \in Pid, CreateGame(p)
                     PROVE  NeverAgainstItself' /\ NoOwnRequest' /\ AcceptHolds'
  <1>1. Moves(p)
    BY CreateMoves DEF Create
  <1>2. CASE UNCHANGED gameVars
    BY <1>1, <1>2, AcceptKept DEF SeatInv, NeverAgainstItself, NoOwnRequest, gameVars
  <1>3. CASE ~UNCHANGED gameVars
    <2>1. PICK g \in Gid : GameLockFree(g) /\ games' = [games EXCEPT ![g] = NewGame(g, p)]
      BY <1>3 DEF CreateGame
    <2>2. NewGame(g, p).opponent_id = NoId /\ NewGame(g, p).pending_invite_from = NoId
      BY DEF NewGame, FreeGame
    <2> QED BY <1>1, <2>1, <2>2, OneGameStep
  <1> QED BY <1>2, <1>3

LEMMA RequestSeats == ASSUME TypeInv, SeatInv, NEW p \in Pid, FileRequest(p)
                      PROVE  NeverAgainstItself' /\ NoOwnRequest' /\ AcceptHolds'
  <1> DEFINE g == thr[p].game
             r == [games[g] EXCEPT !.pending_invite_from = p]
  <1>1. Moves(p)
    BY JoinMoves DEF Join
  <1>2. CASE games' = games
    BY <1>1, <1>2, AcceptKept DEF SeatInv, NeverAgainstItself, NoOwnRequest
  <1>3. CASE games' # games
    <2>1. g \in Gid
      BY Locals DEF FileRequest, At, ThreadOK, GameSections
    <2>2. GameLockFree(g) /\ games[g].creator_id # p /\ games' = [games EXCEPT ![g] = r]
      BY <1>3 DEF FileRequest
    <2>3. /\ r.creator_id = games[g].creator_id /\ r.opponent_id = games[g].opponent_id
          /\ r.pending_invite_from = p
      BY <2>1, GameFields DEF Game
    <2>4. r.opponent_id # NoId => r.opponent_id # r.creator_id
      BY <2>1, <2>3 DEF SeatInv, NeverAgainstItself
    <2> HIDE DEF g, r
    <2> QED BY <1>1, <2>1, <2>2, <2>3, <2>4, OneGameStep
  <1> QED BY <1>2, <1>3

LEMMA AssignSeats == ASSUME TypeInv, SeatInv, NEW p \in Pid, AssignOpponent(p)
                     PROVE  NeverAgainstItself' /\ NoOwnRequest' /\ AcceptHolds'
  <1> DEFINE g == thr[p].game
             o == players[thr[p].other].id
             r == [games[g] EXCEPT !.opponent_id = o, !.pending_invite_from = NoId,
                                   !.state = "PLACING_SHIPS"]
  <1>1. Moves(p)
    BY InviteMoves DEF Invite, AssignOpponent, CheckInvite, At
  <1>2. g \in Gid /\ thr[p].other \in Pid /\ games' = [games EXCEPT ![g] = r]
    BY AcceptingGame DEF AssignOpponent, At
  <1>3. games[g].creator_id = p /\ thr[p].other # p
    BY DEF SeatInv, AcceptHolds, AssignOpponent, At
  <1>4. o # NoId => o # p
    BY <1>2, <1>3 DEF SeatInv, OwnSlot
  <1>5. r.creator_id = games[g].creator_id /\ r.opponent_id = o /\ r.pending_invite_from = NoId
    BY <1>2, GameFields DEF Game
  <1> HIDE DEF g, o, r
  <1> QED BY <1>1, <1>2, <1>3, <1>4, <1>5, OneGameStep

LEMMA LeaveSeats == ASSUME TypeInv, SeatInv, NEW p \in Pid, Dissolve(p) \/ RemoveGame(p)
                    PROVE  NeverAgainstItself' /\ NoOwnRequest' /\ AcceptHolds'
  <1> DEFINE g == thr[p].game
             q == OtherMember(g, p)
             closed == [games[g] EXCEPT !.state = "FINISHED"]
             freed  == [games[g] EXCEPT !.id = NoId, !.state = "FINISHED", !.creator_id = NoId,
                                        !.opponent_id = NoId, !.pending_invite_from = NoId]
  <1>1. Moves(p)
    BY LeaveMoves DEF Leave, Dissolve, RemoveGame, RemovePlayer, At
  <1>2. g \in Gid /\ GameLockFree(g)
    BY Locals DEF Dissolve, RemoveGame, At, ThreadOK, GameSections
  <1>3. \/ games' = games
        \/ games' = [games EXCEPT ![g] = HandedOver(games[g], q)]
        \/ games' = [games EXCEPT ![g] = closed]
        \/ games' = [games EXCEPT ![g] = freed]
    BY DEF Dissolve, RemoveGame, gameVars
  <1>4. HandedOver(games[g], q).opponent_id = NoId /\ HandedOver(games[g], q).pending_invite_from = NoId
    BY DEF HandedOver, FreeGame
  <1>5. /\ closed.creator_id = games[g].creator_id /\ closed.opponent_id = games[g].opponent_id
        /\ closed.pending_invite_from = games[g].pending_invite_from
        /\ freed.opponent_id = NoId /\ freed.pending_invite_from = NoId
    BY <1>2, GameFields DEF Game
  <1>6. /\ closed.opponent_id # NoId => closed.opponent_id # closed.creator_id
        /\ closed.pending_invite_from # NoId => closed.pending_invite_from # closed.creator_id
    BY <1>2, <1>5 DEF SeatInv, NeverAgainstItself, NoOwnRequest
  <1>7. CASE games' = games
    BY <1>1, <1>7, AcceptKept DEF SeatInv, NeverAgainstItself, NoOwnRequest
  <1>8. ASSUME NEW r, games' = [games EXCEPT ![g] = r],
               r.opponent_id # NoId => r.opponent_id # r.creator_id,
               r.pending_invite_from # NoId => r.pending_invite_from # r.creator_id
        PROVE  NeverAgainstItself' /\ NoOwnRequest' /\ AcceptHolds'
    BY <1>1, <1>2, <1>8, OneGameStep
  <1> HIDE DEF g, q, closed, freed
  <1> QED BY <1>3, <1>4, <1>5, <1>6, <1>7, <1>8

(* The check of handle_accept_invite refuses the creator itself, although  *)
(* it compares ids that are both -1 when the requester has gone.           *)
LEMMA CheckSeats == ASSUME TypeInv, SeatInv, NEW p \in Pid, CheckInvite(p)
                    PROVE  NeverAgainstItself' /\ NoOwnRequest' /\ AcceptHolds'
  <1> DEFINE g == thr[p].game
             r == thr[p].other
  <1>1. g \in Gid /\ r \in Pid
    BY Locals DEF CheckInvite, At, ThreadOK, GameSections, OtherSections
  <1>2. UNCHANGED games
    BY DEF CheckInvite, gameVars
  <1>3. \A q \in Pid \ {p} : thr'[q] = thr[q]
    BY DEF CheckInvite, Return, Goto, TypeInv, TypeOK
  <1>4. CASE thr'[p].pc # "assign_opponent"
    BY <1>2, <1>3, <1>4 DEF SeatInv, AcceptHolds, NeverAgainstItself, NoOwnRequest
  <1>5. CASE thr'[p].pc = "assign_opponent"
    <2>1. ~Return(p)
      BY <1>5 DEF Return, Idle, TypeInv, TypeOK
    <2>2. games[g].creator_id = p /\ games[g].pending_invite_from = players[r].id /\ Goto(p, "assign_opponent")
      BY <2>1 DEF CheckInvite
    <2>3. players[p].id = p /\ p # NoId
      BY DEF CheckInvite, At, SeatInv, OwnSlot, Pid, NoId
    <2>4. r # p
      BY <1>1, <2>2, <2>3 DEF SeatInv, NoOwnRequest
    <2>5. thr'[p].game = g /\ thr'[p].other = r
      BY <2>2, Locals DEF Goto, TypeInv, TypeOK, Thread
    <2> HIDE DEF g, r
    <2> QED BY <1>2, <1>3, <2>2, <2>4, <2>5 DEF SeatInv, AcceptHolds, NeverAgainstItself, NoOwnRequest
  <1> QED BY <1>4, <1>5

LEMMA SeatInvStep == ASSUME TypeInv, SeatInv, [Next]_vars PROVE SeatInv'
  <1>1. OwnSlot'
    BY OwnSlotStep DEF SeatInv
  <1>2. CASE UNCHANGED vars
    BY <1>1, <1>2 DEF vars, SeatInv, NeverAgainstItself, NoOwnRequest, AcceptHolds
  <1>3. ASSUME NEW p \in Pid, Seating(p) PROVE SeatInv'
    BY <1>1, <1>3, CreateSeats, RequestSeats, AssignSeats, LeaveSeats DEF Seating, SeatInv
  <1>4. ASSUME NEW p \in Pid, CheckInvite(p) PROVE SeatInv'
    BY <1>1, <1>4, CheckSeats DEF SeatInv
  <1>5. ASSUME NEW p \in Pid, Connect(p) \/ RemovePlayer(p) PROVE SeatInv'
    <2>1. UNCHANGED games
      BY <1>5 DEF Connect, RemovePlayer, gameVars
    <2>2. \A q \in Pid : thr'[q].pc = "assign_opponent" => thr'[q] = thr[q]
      BY <1>5 DEF Connect, RemovePlayer, Idle, TypeInv, TypeOK
    <2> QED BY <1>1, <2>1, <2>2 DEF SeatInv, NeverAgainstItself, NoOwnRequest, AcceptHolds
  <1>6. ASSUME NEW p \in Pid, Moves(p), SameSeats PROVE SeatInv'
    <2>1. \A q \in Pid : thr[q].pc = "assign_opponent" =>
            games'[thr[q].game].creator_id = games[thr[q].game].creator_id
      BY <1>6, AcceptingGame DEF SameSeats
    <2> QED BY <1>1, <1>6, <2>1, AcceptKept, SeatInvSame DEF SeatInv
  <1> QED BY <1>2, <1>3, <1>4, <1>5, <1>6, RunningStep, OtherStepSeats DEF Next

(* Nobody is seated on both sides of a game, for every number of players:   *)
(* the check of handle_fire against a shot at oneself is never needed.     *)
THEOREM TwoSides == Spec => []NeverAgainstItself
  <1>1. Init => SeatInv
    BY OwnSlotInit
    DEF Init, SeatInv, NeverAgainstItself, NoOwnRequest, AcceptHolds, FreeGame, Idle
  <1>2. TypeInv /\ SeatInv /\ [Next]_vars => SeatInv'
    BY SeatInvStep
  <1>3. SeatInv => NeverAgainstItself
    BY DEF SeatInv
  <1> QED BY <1>1, <1>2, <1>3, TypeInit, TypeNext, PTL DEF Spec

=============================================================================
