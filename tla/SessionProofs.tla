---------------------------- MODULE SessionProofs ----------------------------
(***************************************************************************)
(* Theorems about Session, for any number of clients and games: the server *)
(* of a session is the one of GameServer, and while nobody leaves no       *)
(* client waits in vain and none is asked to fire out of turn.             *)
(***************************************************************************)
EXTENDS Session, GameServerMatch

(* One command at a time: the user types once the last one is answered.    *)
Patient == MaxAhead = 1

-----------------------------------------------------------------------------
(* Types, and who is connected                                             *)

MessageTypes == {"ERROR", "WELCOME", "GAME_CREATED", "JOIN_REQUEST", "JOIN_ACCEPTED",
                 "JOIN_REJECTED", "GAME_START", "SHIP_PLACED", "YOUR_TURN", "WAIT_TURN",
                 "PLAY_AGAIN_PROMPT", "BACK_TO_LOBBY", "OPPONENT_DISCONNECTED",
                 "WAITING_NEW_PLAYER"}

Message == [type : MessageTypes, n : Int]
LetterOf(types) == [to : Pid \union {NoId}, type : types, n : Int]
Letter == LetterOf(MessageTypes)

(* those that leave it open whose turn it is *)
Quiet == MessageTypes \ {"YOUR_TURN"}

SessionTypeOK ==
  /\ client \in [Pid -> [state : C!ClientStates, typed : Commands \union {"none"},
                         challenged : BOOLEAN]]
  /\ toServer \in [Pid -> Seq(AllCommands)]
  /\ outbox \in [Pid -> Seq(Letter)]
  /\ toClient \in [Pid -> Seq(Message)]

(* a client is connected as long as it has a thread *)
Linked(p) ==
  /\ client[p].state = "DISCONNECTED" <=> thr[p].pc = "none"
  /\ client[p].state = "DISCONNECTED" => client[p].typed = "none" /\ toClient[p] = <<>>

-----------------------------------------------------------------------------
(* What a client waits for                                                 *)

(* a message of one of the types is on its way to p *)
Posted(t, p, types) ==
  \E i \in DOMAIN outbox[t] : outbox[t][i].to = p /\ outbox[t][i].type \in types

Coming(p, types) ==
  \/ \E i \in DOMAIN toClient[p] : toClient[p][i].type \in types
  \/ \E t \in Pid : Posted(t, p, types)

Queued(p, cmd) == \E i \in DOMAIN toServer[p] : toServer[p][i] = cmd

Asking(p) == thr[p].cmd = "REMATCH" /\ thr[p].pc \in {"read_game_id", "get_game", "ask_rematch"}

(* p has asked for the rematch and the other player has not *)
Agreed(p) == WantsRematch(p) /\ games[GameOf(p)].state = "FINISHED"

(* a thread is about to start the rematch of p *)
RestartDue(p) == \E t \in Pid : Restarting(t, GameOf(t)) /\ p \in {t, thr[t].other}

(* the command sent in each state, the messages that end it, and what the  *)
(* server does in between                                                  *)
WaitStates  == {"WAITING_LOGIN", "WAITING_SERVER"}
Asked(w)    == IF w = "WAITING_LOGIN" THEN "LOGIN" ELSE "REMATCH"
Endings(w)  == IF w = "WAITING_LOGIN" THEN {"ERROR", "WELCOME"} ELSE {"ERROR", "GAME_START"}
Busy(p, w)  == IF w = "WAITING_LOGIN" THEN thr[p].cmd = "LOGIN"
                                      ELSE Asking(p) \/ Agreed(p) \/ RestartDue(p)

AnswerInv(p) ==
  /\ Linked(p)
  /\ \A w \in WaitStates : client[p].state = w =>
       Queued(p, Asked(w)) \/ Coming(p, Endings(w)) \/ Busy(p, w)

-----------------------------------------------------------------------------
(* Whose turn the clients believe it is                                    *)

Turn(p) == /\ GameOf(p) # NoId
           /\ games[GameOf(p)].state = "IN_PROGRESS"
           /\ games[GameOf(p)].current_turn = p

TurnMessages == {"YOUR_TURN", "WAIT_TURN", "PLAY_AGAIN_PROMPT"}

(* the client of p takes it for its turn once it has shown what is coming *)
Told(p) ==
  \/ /\ client[p].state = "MY_TURN"
     /\ \A i \in DOMAIN toClient[p] : toClient[p][i].type \notin TurnMessages
  \/ \E i \in DOMAIN toClient[p] :
       /\ toClient[p][i].type = "YOUR_TURN"
       /\ \A j \in DOMAIN toClient[p] : j > i => toClient[p][j].type \notin TurnMessages

(* a FIRE of p is typed, on its way or being handled *)
Handling(p) ==
  thr[p].cmd = "FIRE" /\ thr[p].pc \notin {"finish_self", "finish_opponent"}

Firing(p) == client[p].typed = "FIRE" \/ Queued(p, "FIRE") \/ Handling(p)

OneFire(p) ==
  /\ client[p].typed = "FIRE" => ~Queued(p, "FIRE") /\ thr[p].cmd # "FIRE"
  /\ Queued(p, "FIRE") => thr[p].cmd # "FIRE"
  /\ \A i, j \in DOMAIN toServer[p] :
       toServer[p][i] = "FIRE" /\ toServer[p][j] = "FIRE" => i = j

(* YOUR_TURN waits in an outbox, or a thread is about to start the match *)
Turns(m, p) == m.to = p /\ m.type = "YOUR_TURN"

Turned(t, p)     == \E i \in DOMAIN outbox[t] : Turns(outbox[t][i], p)
StartsWith(t, p) == Starting(t, GameOf(t)) /\ thr[t].creator = p
Promised(t, p)   == Turned(t, p) \/ StartsWith(t, p)

Once(t, p) == \A i, j \in DOMAIN outbox[t] :
                Turns(outbox[t][i], p) /\ Turns(outbox[t][j], p) => i = j

PromiseOK(p) ==
  /\ \A t \in Pid : Promised(t, p) => Turn(p) /\ ~Told(p) /\ ~Firing(p)
  /\ \A t, u \in Pid : Promised(t, p) /\ Promised(u, p) => t = u
  /\ \A t \in Pid : ~(Turned(t, p) /\ StartsWith(t, p)) /\ Once(t, p)

(* the thread of p has passed the turn and has not written so yet *)
Passed(p) ==
  \E o \in Pid \ {p} :
    GameOf(p) # NoId /\ GameOf(o) = GameOf(p) /\ outbox[p] = TurnPassed(p, o)

(* the thread of the winner p is finishing the match *)
Finishing(p) ==
  /\ GameOf(p) # NoId
  /\ games[GameOf(p)].state = "FINISHED" /\ ~Wants(GameOf(p), p)
  /\ \/ thr[p].pc \in {"finish_self", "finish_opponent"}
     \/ outbox[p] # <<>> /\ outbox[p][1].to = p /\ outbox[p][1].type = "PLAY_AGAIN_PROMPT"

TurnInv(p) ==
  /\ PromiseOK(p)
  /\ Told(p) /\ ~Turn(p) => Passed(p) \/ Finishing(p)
  /\ Firing(p) => Turn(p)
  /\ OneFire(p)

AnswerInvs == \A p \in Pid : AnswerInv(p)
TurnInvs == \A p \in Pid : TurnInv(p)

-----------------------------------------------------------------------------
(* The server of a session                                                 *)

(* what a step of a session does to the server *)
LEMMA ServerStep ==
  ASSUME NEW p \in Pid, Arrive(p) \/ Type(p) \/ Interrupt(p) \/ Deliver(p)
  PROVE  \/ UNCHANGED vars
         \/ Connect(p) /\ Arrive(p)
         \/ Receive(p) /\ TakeCommand(p)
         \/ Work(p) /\ Serve(p)
  <1>1. CASE Arrive(p)
    BY <1>1 DEF Arrive
  <1>2. CASE TakeCommand(p)
    BY <1>2 DEF TakeCommand
  <1>3. CASE Serve(p)
    BY <1>3 DEF Serve
  <1>4. CASE Type(p) \/ Interrupt(p) \/ Write(p) \/ Show(p) \/ Act(p)
    BY <1>4 DEF Type, Interrupt, Write, Show, Act
  <1> QED BY <1>1, <1>2, <1>3, <1>4 DEF Deliver

(* The server that the clients of a session talk to over their streams is  *)
(* the one of GameServer: a step of a session is a critical section of a   *)
(* handler or does not touch the tables, so every theorem about Spec holds *)
(* of every session.                                                       *)
THEOREM SessionIsServer == SessionSpec => Spec
  <1>1. SessionInit => Init
    BY DEF SessionInit
  <1>2. [SessionNext]_allVars => [Next]_vars
    BY ServerStep DEF SessionNext, Next, allVars
  <1> QED BY <1>1, <1>2, PTL DEF SessionSpec, Spec

-----------------------------------------------------------------------------
(* What a step of one thread does to the players and games of the others    *)

(* the step of the thread of p *)
ThreadStepOf(p) == Connect(p) \/ Receive(p) \/ Work(p)

LEMMA OthersWait ==
  ASSUME MatchInv, NEW p \in Pid, ThreadStepOf(p)
  PROVE  \A q \in Pid \ {p} : thr'[q] = thr[q]
  <1>1. TypeInv /\ OwnSlot
    BY DEF MatchInv
  <1>2. CASE Connect(p)
    BY <1>1, <1>2, MovesThread DEF Connect
  <1>3. CASE CheckInvite(p)
    BY <1>1, <1>3 DEF CheckInvite, At, Goto, Return, TypeInv, TypeOK
  <1>4. ~RemovePlayer(p)
    BY NobodyDeparts DEF Departing, Leave
  <1> QED BY <1>1, <1>2, <1>3, <1>4, RunningStep DEF ThreadStepOf, Moves

(* a player stays attached to its game *)
LEMMA StaysAttached ==
  ASSUME MatchInv, NEW p \in Pid, ThreadStepOf(p), NEW q \in Pid, GameOf(q) # NoId
  PROVE  GameOf(q)' = GameOf(q)
  <1> DEFINE Kept == GameOf(q)' = GameOf(q)
  <1>1. TypeInv /\ OwnSlot
    BY DEF MatchInv
  <1>2. ASSUME NEW x \in Pid, NEW r, players' = [players EXCEPT ![x] = r],
               r.current_game_id = players[x].current_game_id
        PROVE  Kept
    BY <1>1, <1>2, MovesPlayer DEF GameOf
  <1>3. ASSUME UNCHANGED players PROVE Kept
    BY <1>3 DEF GameOf
  <1>4. CASE Connect(p)
    <2>1. GameOf(q) \in Gid /\ q \in Members(GameOf(q))
      BY GameOfPlayer
    <2>2. thr[q].pc # "none"
      BY <2>1, MemberRuns
    <2>3. q # p
      BY <1>1, <1>4, <2>2, NoIdNowhere DEF Connect, OwnSlot
    <2> QED BY <1>1, <1>4, <2>3, MovesPlayer DEF Connect, GameOf
  <1>5. CASE AttachCreator(p)
    <2>1. q # p
      BY <1>5, OwnGame DEF AttachCreator, At, Creating
    <2> QED BY <1>1, <1>5, <2>1, MovesPlayer DEF AttachCreator, GameOf
  <1>6. CASE SeatRequester(p)
    <2> DEFINE x == thr[p].other
    <2>1. thr[p].pc = "seat_requester" /\ Answering(p, x)
      BY <1>6 DEF SeatRequester, At, Answering
    <2>2. x \in Pid
      BY <2>1, NamedThreads
    <2>3. GameOf(x) = NoId
      BY <2>1, <2>2, AnsweredFacts
    <2> QED BY <1>1, <1>6, <2>2, <2>3, MovesPlayer DEF SeatRequester, GameOf
  <1>7. CASE Login(p)
    BY <1>7, <1>1 DEF Login, SetUsername, EnterLobby, GameOf, TypeInv, TypeOK, Player
  <1>8. CASE Join(p) \/ CreateGame(p) \/ CopyCode(p)
    BY <1>8, <1>1 DEF Join, CreateGame, CopyCode, FindCode, FileRequest, SetInvited, GameOf,
                      playerVars, TypeInv, TypeOK, Player
  <1>9. CASE Invite(p) /\ ~SeatRequester(p)
    <2>1. CASE SeatCreator(p)
      BY <1>1, <2>1 DEF SeatCreator, GameOf, TypeInv, TypeOK, Player
    <2>2. CASE ReleaseRequester(p)
      BY <1>1, <2>2 DEF ReleaseRequester, GameOf, TypeInv, TypeOK, Player
    <2>3. CASE \/ Resolve(p) \/ CheckInvite(p) \/ AssignOpponent(p) \/ ClearInvite(p)
      BY <1>3, <2>3 DEF Resolve, CheckInvite, AssignOpponent, ClearInvite, playerVars
    <2> QED BY <1>9, <2>1, <2>2, <2>3 DEF Invite
  <1>10. CASE Placing(p)
    BY <1>10, <1>1 DEF Placing, PlaceShip, SetReady, MarkReady, GetCreator, GetOpponent,
                       StartCreator, StartOpponent, GameOf, playerVars, TypeInv, TypeOK, Player
  <1>11. CASE Fire(p)
    BY <1>11, <1>1 DEF Fire, CheckTurn, Aim, OrderFirst, OrderSecond, LockFirst, Shoot, DeclareWin,
                       FinishSelf, FinishOpponent, PassTurn, GameOf, playerVars, TypeInv, TypeOK, Player
  <1>12. CASE AskRematch(p) \/ RestartSelf(p) \/ RestartOpponent(p)
    <2>1. CASE AskRematch(p)
      BY <1>3, <2>1 DEF AskRematch, playerVars
    <2>2. CASE RestartSelf(p)
      BY <1>1, <2>2 DEF RestartSelf, Restart, GameOf, TypeInv, TypeOK, Player
    <2>3. CASE RestartOpponent(p)
      BY <1>1, <2>3 DEF RestartOpponent, Restart, GameOf, TypeInv, TypeOK, Player
    <2> QED BY <1>12, <2>1, <2>2, <2>3
  <1>13. CASE Receive(p) \/ ReadGameId(p) \/ GetGame(p) \/ GetPlayer(p)
    BY <1>3, <1>13 DEF Receive, ReadGameId, GetGame, GetPlayer, playerVars
  <1> QED BY <1>4, <1>5, <1>6, <1>7, <1>8, <1>9, <1>10, <1>11, <1>12, <1>13, NobodyDeparts
          DEF ThreadStepOf, Work, Departing, Create, Again

(* only three sections change a game that is fought or finished *)
LEMMA MatchUntouched ==
  ASSUME MatchInv, NEW p \in Pid, ThreadStepOf(p), NEW g \in Gid, Used(g),
         games[g].state \in {"IN_PROGRESS", "FINISHED"},
         ~(thr[p].game = g /\ thr[p].pc \in {"pass_turn", "declare_win", "ask_rematch"})
  PROVE  games'[g] = games[g]
  <1>1. TypeInv /\ OwnSlot
    BY DEF MatchInv
  <1>2. games[g] # FreeGame /\ games[g].id = g /\ g # NoId
    BY UsedIsNotFree, NoIdNowhere DEF Used
  <1>3. ASSUME NEW h \in Gid, NEW r, games' = [games EXCEPT ![h] = r], h # g
        PROVE  games'[g] = games[g]
    BY <1>1, <1>3, MovesGame
  <1>4. CASE CreateGame(p)
    BY <1>2, <1>3, <1>4 DEF CreateGame, gameVars
  <1>5. CASE FileRequest(p)
    BY <1>1, <1>3, <1>5, Locals DEF FileRequest, At, ThreadOK, GameSections
  <1>6. CASE AssignOpponent(p)
    <2>1. thr[p].game \in Gid /\ games[thr[p].game].state = "WAITING_PLAYERS"
      BY <1>1, <1>6, Mine, Locals DEF AssignOpponent, At, ThreadOK, GameSections, AnswerOK
    <2> QED BY <1>3, <1>6, <2>1 DEF AssignOpponent
  <1>7. CASE ClearInvite(p)
    <2>1. thr[p].pc = "clear_invite" /\ thr[p].game \in Gid /\ thr[p].other \in Pid
      BY <1>1, <1>7, Locals DEF ClearInvite, At, ThreadOK, GameSections, OtherSections
    <2> DEFINE r == thr[p].other
    <2>2. CASE games' = games
      BY <2>2
    <2>3. CASE games' # games
      <3>1. /\ games[thr[p].game].pending_invite_from = players[r].id
            /\ games' = [games EXCEPT ![thr[p].game] =
                 [games[thr[p].game] EXCEPT !.pending_invite_from = NoId]]
        BY <1>7, <2>3 DEF ClearInvite
      <3>2. thr[r].pc # "none"
        <4>1. AnswerOK(p) /\ HandlerOK(p)
          BY Mine
        <4> QED BY <2>1, <4>1 DEF AnswerOK, HandlerOK, SectionsOf, Invitations
      <3>3. games[thr[p].game].pending_invite_from = r
        BY <1>1, <2>1, <3>1, <3>2 DEF OwnSlot
      <3>4. thr[p].game # g
        BY <1>2, <2>1, <3>3, TwoSeats, NoIdNowhere
      <3> QED BY <1>3, <2>1, <3>1, <3>4
    <2> QED BY <2>2, <2>3
  <1>8. CASE MarkReady(p)
    <2>1. thr[p].pc = "mark_ready"
      BY <1>8 DEF MarkReady, At
    <2>2. thr[p].game \in Gid /\ games[thr[p].game].state = "PLACING_SHIPS"
      BY <2>1, DuringMark
    <2> QED BY <1>3, <1>8, <2>2 DEF MarkReady
  <1>9. CASE DeclareWin(p) \/ PassTurn(p) \/ AskRematch(p)
    <2>1. thr[p].game # g /\ thr[p].game \in Gid
      BY <1>1, <1>9, Locals DEF DeclareWin, PassTurn, AskRematch, At, ThreadOK, GameSections
    <2>2. CASE DeclareWin(p)
      BY <1>3, <2>1, <2>2 DEF DeclareWin
    <2>3. CASE PassTurn(p)
      BY <1>1, <2>1, <2>3 DEF PassTurn, TypeInv, TypeOK
    <2>4. CASE AskRematch(p)
      BY <1>3, <2>1, <2>4 DEF AskRematch
    <2> QED BY <1>9, <2>2, <2>3, <2>4
  <1>10. CASE \/ Connect(p) \/ Receive(p) \/ ReadGameId(p) \/ GetGame(p) \/ GetPlayer(p) \/ Login(p)
              \/ CopyCode(p) \/ AttachCreator(p) \/ FindCode(p) \/ SetInvited(p)
    BY <1>10 DEF Connect, Receive, ReadGameId, GetGame, GetPlayer, Login, SetUsername, EnterLobby,
                 CopyCode, AttachCreator, FindCode, SetInvited, gameVars
  <1>11. CASE \/ Resolve(p) \/ CheckInvite(p) \/ SeatRequester(p) \/ SeatCreator(p)
              \/ ReleaseRequester(p)
              \/ (Placing(p) /\ ~MarkReady(p))
    BY <1>11 DEF Resolve, CheckInvite, SeatRequester, SeatCreator, ReleaseRequester, Placing,
                 PlaceShip, SetReady, GetCreator, GetOpponent, StartCreator, StartOpponent, gameVars
  <1>12. CASE \/ CheckTurn(p) \/ Aim(p) \/ Shoot(p) \/ FinishSelf(p) \/ FinishOpponent(p)
              \/ RestartSelf(p) \/ RestartOpponent(p)
    BY <1>12, AimFrame DEF CheckTurn, Shoot, FinishSelf, FinishOpponent, RestartSelf, RestartOpponent, gameVars
  <1> QED BY <1>4, <1>5, <1>6, <1>7, <1>8, <1>9, <1>10, <1>11, <1>12, NobodyDeparts
          DEF ThreadStepOf, Work, Departing, Create, Join, Invite, Fire, Again

-----------------------------------------------------------------------------
(* The types of the channels                                               *)

LEMMA OneLetter ==
  ASSUME NEW q, NEW T
  PROVE  /\ Len(To(q, T)) = 1 /\ DOMAIN To(q, T) = {1}
         /\ To(q, T)[1] = [to |-> q, type |-> T, n |-> 0]
  BY DEF To

LEMMA Concatenated ==
  ASSUME NEW S, NEW s \in Seq(S), NEW t \in Seq(S)
  PROVE  /\ s \o t \in Seq(S) /\ Len(s \o t) = Len(s) + Len(t)
         /\ \A i \in 1 .. Len(s) + Len(t) : (s \o t)[i] = IF i <= Len(s) THEN s[i] ELSE t[i - Len(s)]
  OBVIOUS

LEMMA TwoInARow ==
  ASSUME NEW a, NEW b PROVE <<a>> \o <<b>> = <<a, b>>
  <1> DEFINE s == <<a>> \o <<b>>
             t == <<a, b>>
  <1>1. <<a>> \in Seq({a, b}) /\ <<b>> \in Seq({a, b}) /\ t \in Seq({a, b})
    OBVIOUS
  <1>2. s \in Seq({a, b}) /\ Len(s) = 2 /\ Len(t) = 2
    BY <1>1, Concatenated
  <1>3. 1 \in 1 .. 2 /\ 2 \in 1 .. 2
    OBVIOUS
  <1>4. s[1] = <<a>>[1] /\ s[2] = <<b>>[2 - 1]
    BY <1>1, <1>3, Concatenated
  <1>5. s[1] = t[1] /\ s[2] = t[2]
    BY <1>4
  <1> HIDE DEF s, t
  <1>6. s = t
    BY <1>1, <1>2, <1>5
  <1> QED BY <1>6 DEF s, t

LEMMA TwoLetters ==
  ASSUME NEW q, NEW T, NEW r, NEW U
  PROVE  To(q, T) \o To(r, U) = <<[to |-> q, type |-> T, n |-> 0], [to |-> r, type |-> U, n |-> 0]>>
  <1> DEFINE a == [to |-> q, type |-> T, n |-> 0]
             b == [to |-> r, type |-> U, n |-> 0]
  <1>1. <<a>> \o <<b>> = <<a, b>>
    BY TwoInARow
  <1>2. To(q, T) = <<a>> /\ To(r, U) = <<b>>
    BY DEF To
  <1> HIDE DEF a, b
  <1>3. To(q, T) \o To(r, U) = <<a, b>>
    BY <1>1, <1>2
  <1> QED BY <1>3 DEF a, b

LEMMA LettersTyped ==
  ASSUME NEW types, NEW q \in Pid \union {NoId}, NEW T \in types
  PROVE  To(q, T) \in Seq(LetterOf(types))
  <1>1. [to |-> q, type |-> T, n |-> 0] \in LetterOf(types)
    BY DEF LetterOf
  <1> QED BY <1>1 DEF To

(* the messages of each section *)
LEMMA NoMessages ==
  ASSUME NEW p \in Pid,
         thr[p].pc \notin Refusing \union
           {"get_game", "get_player", "enter_lobby", "attach", "set_invited", "seat_creator",
            "release_requester", "place", "start_opponent", "finish_opponent", "pass_turn",
            "offer", "evict", "reset_self", "restart_opponent", "set_waiting"}
  PROVE  Messages(p) = <<>>
  BY DEF Messages

LEMMA Errors ==
  ASSUME NEW p \in Pid, thr[p].pc \in Refusing \union {"get_game", "get_player"}
  PROVE  Messages(p) \in {<<>>, To(p, "ERROR")}
  BY DEF Messages, Refusing

LEMMA Refusals ==
  ASSUME NEW p \in Pid
  PROVE  /\ thr[p].pc \in Refusing /\ thr'[p].pc = "receive" => Messages(p) = To(p, "ERROR")
         /\ thr[p].pc = "get_game" /\ thr'[p].pc \in {"receive", "reset_self"} /\ thr[p].cmd \in Reading
              => Messages(p) = To(p, "ERROR")
  BY DEF Messages, Refusing

LEMMA Answers ==
  ASSUME NEW p \in Pid, NEW o, thr[p].other = o
  PROVE  /\ thr[p].pc = "enter_lobby" => Messages(p) = To(p, "WELCOME")
         /\ thr[p].pc = "attach" => Messages(p) = To(p, "GAME_CREATED")
         /\ thr[p].pc = "set_invited" => Messages(p) = To(thr[p].creator, "JOIN_REQUEST")
         /\ thr[p].pc = "seat_creator" => Messages(p) = To(o, "JOIN_ACCEPTED") \o MatchOpens(p, o)
         /\ thr[p].pc = "release_requester" => Messages(p) = To(o, "JOIN_REJECTED")
         /\ thr[p].pc = "place" => Messages(p) \in {<<>>, Placed(p, players'[p].ships_placed)}
         /\ thr[p].pc = "restart_opponent" => Messages(p) = MatchOpens(p, o)
  BY DEF Messages, Refusing

LEMMA TurnAnswers ==
  ASSUME NEW p \in Pid, NEW o, thr[p].other = o
  PROVE  /\ thr[p].pc = "start_opponent" => Messages(p) = To(thr[p].creator, "YOUR_TURN") \o To(o, "WAIT_TURN")
         /\ thr[p].pc = "finish_opponent" => Messages(p) = To(p, "PLAY_AGAIN_PROMPT") \o To(o, "PLAY_AGAIN_PROMPT")
         /\ thr[p].pc = "pass_turn" => Messages(p) = TurnPassed(p, o)
  BY DEF Messages, Refusing

(* while nobody leaves, these are all *)
Speaking == {"enter_lobby", "attach", "set_invited", "seat_creator", "release_requester",
             "place", "restart_opponent", "start_opponent", "finish_opponent", "pass_turn"}

LEMMA Speakers ==
  ASSUME MatchInv, NEW p \in Pid, thr[p].pc \notin Speaking
  PROVE  Messages(p) \in {<<>>, To(p, "ERROR")}
  <1>1. HandlerOK(p)
    BY Mine
  <1>2. thr[p].pc \notin {"offer", "evict", "reset_self", "set_waiting"}
    BY <1>1 DEF HandlerOK, SectionsOf
  <1>3. CASE thr[p].pc \in Refusing \union {"get_game", "get_player"}
    BY <1>3, Errors
  <1>4. CASE thr[p].pc \notin Refusing \union {"get_game", "get_player"}
    <2>1. thr[p].pc \notin Refusing \union
           {"get_game", "get_player", "enter_lobby", "attach", "set_invited", "seat_creator",
            "release_requester", "place", "start_opponent", "finish_opponent", "pass_turn",
            "offer", "evict", "reset_self", "restart_opponent", "set_waiting"}
      BY <1>2, <1>4 DEF Speaking
    <2> QED BY <2>1, NoMessages
  <1> QED BY <1>3, <1>4

(* only two sections announce a turn *)
LEMMA MessagesWithin ==
  ASSUME MatchInv, TypeInv', NEW p \in Pid, NEW types \in {MessageTypes, Quiet},
         thr[p].pc \in {"start_opponent", "pass_turn"} => types = MessageTypes
  PROVE  Messages(p) \in Seq(LetterOf(types))
  <1>1. PICK o : o = thr[p].other
    OBVIOUS
  <1>2. PICK c : c = thr[p].creator
    OBVIOUS
  <1>3. p \in Pid \union {NoId} /\ o \in Pid \union {NoId} /\ c \in Pid \union {NoId}
    BY <1>1, <1>2, Fields, Mine
  <1>q. Quiet \subseteq types
    BY DEF Quiet
  <1>4. Placed(p, players'[p].ships_placed) \in Seq(LetterOf(types))
    <2>1. players'[p].ships_placed \in 0 .. MaxShips
      BY DEF TypeInv, TypeOK, Player
    <2>2. [to |-> p, type |-> "SHIP_PLACED", n |-> players'[p].ships_placed] \in LetterOf(types)
      BY <2>1, <1>3, <1>q, ConstantsAssumption DEF LetterOf, Quiet, MessageTypes
    <2> QED BY <2>2 DEF Placed
  <1>5. ASSUME NEW q \in Pid \union {NoId}, NEW r \in Pid \union {NoId}, NEW T \in types, NEW U \in types
        PROVE  To(q, T) \in Seq(LetterOf(types)) /\ To(q, T) \o To(r, U) \in Seq(LetterOf(types))
    <2>1. To(q, T) \in Seq(LetterOf(types)) /\ To(r, U) \in Seq(LetterOf(types))
      BY LettersTyped
    <2> QED BY <2>1, Concatenated
  <1>t. {"ERROR", "WELCOME", "GAME_CREATED", "JOIN_REQUEST", "JOIN_ACCEPTED", "JOIN_REJECTED", "GAME_START",
         "PLAY_AGAIN_PROMPT", "WAIT_TURN"} \subseteq types
    BY <1>q DEF Quiet, MessageTypes
  <1>6. MatchOpens(p, o) \in Seq(LetterOf(types))
    BY <1>3, <1>5, <1>t DEF MatchOpens
  <1>7. To(o, "JOIN_ACCEPTED") \in Seq(LetterOf(types))
    BY <1>3, <1>5, <1>t
  <1>8. To(o, "JOIN_ACCEPTED") \o MatchOpens(p, o) \in Seq(LetterOf(types))
    BY <1>6, <1>7, Concatenated
  <1>9. \A q \in {p, o, c} : \A T \in types : To(q, T) \in Seq(LetterOf(types))
    BY <1>3, <1>5
  <1>e. <<>> \in Seq(LetterOf(types))
    OBVIOUS
  <1>10. CASE thr[p].pc \notin Speaking
    <2>1. Messages(p) \in {<<>>, To(p, "ERROR")}
      BY <1>10, Speakers
    <2>2. To(p, "ERROR") \in Seq(LetterOf(types))
      BY <1>9, <1>t
    <2> QED BY <1>e, <2>1, <2>2
  <1>11. To(p, "PLAY_AGAIN_PROMPT") \o To(o, "PLAY_AGAIN_PROMPT") \in Seq(LetterOf(types))
    BY <1>3, <1>5, <1>t
  <1>12. CASE thr[p].pc = "finish_opponent"
    BY <1>1, <1>11, <1>12, TurnAnswers
  <1>13. CASE thr[p].pc \in {"start_opponent", "pass_turn"}
    <2>1. {"YOUR_TURN", "WAIT_TURN"} \subseteq types
      BY <1>13 DEF MessageTypes
    <2>2. To(c, "YOUR_TURN") \o To(o, "WAIT_TURN") \in Seq(LetterOf(types))
          /\ TurnPassed(p, o) \in Seq(LetterOf(types))
      BY <1>3, <1>5, <2>1 DEF TurnPassed
    <2> QED BY <1>1, <1>2, <1>13, <2>2, TurnAnswers
  <1>14. CASE thr[p].pc \in Speaking \ {"start_opponent", "finish_opponent", "pass_turn"}
    <2>1. Messages(p) \in {To(p, "WELCOME"), To(p, "GAME_CREATED"), To(c, "JOIN_REQUEST"),
                           To(o, "JOIN_ACCEPTED") \o MatchOpens(p, o), To(o, "JOIN_REJECTED"), <<>>,
                           Placed(p, players'[p].ships_placed), MatchOpens(p, o)}
      BY <1>1, <1>2, <1>14, Answers DEF Speaking
    <2>2. To(p, "WELCOME") \in Seq(LetterOf(types)) /\ To(p, "GAME_CREATED") \in Seq(LetterOf(types))
          /\ To(c, "JOIN_REQUEST") \in Seq(LetterOf(types)) /\ To(o, "JOIN_REJECTED") \in Seq(LetterOf(types))
      BY <1>9, <1>t
    <2> QED BY <1>e, <1>4, <1>6, <1>8, <2>1, <2>2
  <1> QED BY <1>10, <1>12, <1>13, <1>14

LEMMA MessagesTyped ==
  ASSUME MatchInv, TypeInv', NEW p \in Pid
  PROVE  Messages(p) \in Seq(Letter)
  BY MessagesWithin DEF Letter

LEMMA SessionTypeInit == SessionInit => SessionTypeOK
  BY DEF SessionInit, SessionTypeOK, Gone, C!ClientStates

Rows == <<client, toServer, outbox, toClient>>

(* the channels after a step, one by one *)
LEMMA RowsStep ==
  ASSUME SessionTypeOK, NEW p \in Pid
  PROVE  /\ \A x \in [state : C!ClientStates, typed : Commands \union {"none"}, challenged : BOOLEAN] :
              [client EXCEPT ![p] = x] \in
                [Pid -> [state : C!ClientStates, typed : Commands \union {"none"}, challenged : BOOLEAN]]
         /\ \A x \in Seq(AllCommands) : [toServer EXCEPT ![p] = x] \in [Pid -> Seq(AllCommands)]
         /\ \A x \in Seq(Letter) : [outbox EXCEPT ![p] = x] \in [Pid -> Seq(Letter)]
         /\ \A x \in Seq(Message) :
              [toClient EXCEPT ![p] = x] \in [Pid -> Seq(Message)]
  BY DEF SessionTypeOK

LEMMA ShownStates ==
  ASSUME NEW s \in C!ClientStates, NEW m
  PROVE  C!AfterMessage(s, m) \in C!ClientStates
  BY DEF C!AfterMessage, C!AfterError, C!Shown, C!ClientStates

(* while nobody leaves, a typed line is a command and keeps its meaning *)
LEMMA ActFacts ==
  ASSUME NobodyLeaves, SessionTypeOK, NEW p \in Pid, Act(p)
  PROVE  /\ client[p].typed # "none"
         /\ UNCHANGED <<vars, toClient, outbox>>
         /\ \E cmd \in Commands :
              /\ cmd = client[p].typed /\ cmd \in AllCommands /\ cmd \notin {"QUIT", "LEAVE_GAME", "WAIT_NEW_PLAYER", "REMATCH_DECLINE"}
              /\ client' = [client EXCEPT ![p] = Sent(client[p], cmd)]
              /\ toServer' = [toServer EXCEPT ![p] = Append(toServer[p], cmd)]
              /\ toClient' = toClient /\ outbox' = outbox
  <1>1. PICK cmd : cmd = client[p].typed
    OBVIOUS
  <1>2. /\ cmd \in Commands /\ cmd # "none" /\ cmd # "q" /\ cmd \in AllCommands
        /\ cmd \notin {"QUIT", "LEAVE_GAME", "WAIT_NEW_PLAYER", "REMATCH_DECLINE"}
    BY <1>1, ConstantsAssumption DEF Act, SessionTypeOK, NobodyLeaves, AllCommands
  <1>3. C!Meaning(client[p].state, client[p].typed) = cmd
    BY <1>1, <1>2 DEF C!Meaning
  <1> QED BY <1>1, <1>2, <1>3 DEF Act

LEMMA SessionTypeStep ==
  ASSUME MatchInv, TypeInv', NobodyLeaves, SessionTypeOK,
         NEW p \in Pid, Arrive(p) \/ Type(p) \/ Interrupt(p) \/ Deliver(p)
  PROVE  SessionTypeOK'
  <1>1. CASE Arrive(p)
    BY <1>1 DEF Arrive, channels, SessionTypeOK, C!ClientStates
  <1>2. CASE Type(p)
    <2>1. PICK input \in C!Offered(client[p].state) :
             /\ input # "q" => input \in Commands
             /\ input = "q" => C!Meaning(client[p].state, "q") \in Commands
             /\ client' = [client EXCEPT ![p].typed = input]
      BY <1>2 DEF Type
    <2>2. input \in Commands
      BY <2>1 DEF C!Meaning, NobodyLeaves
    <2> QED BY <1>2, <2>1, <2>2 DEF Type, channels, SessionTypeOK
  <1>3. ~Interrupt(p)
    BY DEF Interrupt, NobodyLeaves
  <1>4. CASE TakeCommand(p)
    <2>1. toServer' \in [Pid -> Seq(AllCommands)]
      BY <1>4, RowsStep DEF TakeCommand, SessionTypeOK
    <2>2. To(p, "ERROR") \in Seq(Letter)
      BY LettersTyped DEF Letter, MessageTypes
    <2>3. outbox' = outbox \/ outbox' = [outbox EXCEPT ![p] = To(p, "ERROR")]
      BY <1>4 DEF TakeCommand
    <2>4. outbox' \in [Pid -> Seq(Letter)]
      BY <2>2, <2>3, RowsStep DEF SessionTypeOK
    <2> QED BY <1>4, <2>1, <2>4 DEF TakeCommand, SessionTypeOK
  <1>5. CASE Serve(p)
    BY <1>5, RowsStep, MessagesTyped DEF Serve, SessionTypeOK
  <1>6. CASE Write(p)
    <2> DEFINE m == Head(outbox[p])
    <2>1. outbox' \in [Pid -> Seq(Letter)] /\ m \in Letter
      BY <1>6, RowsStep DEF Write, SessionTypeOK
    <2>2. [type |-> m.type, n |-> m.n] \in Message
      BY <2>1 DEF Letter, LetterOf, Message
    <2>3. CASE UNCHANGED toClient
      BY <1>6, <2>1, <2>3 DEF Write, SessionTypeOK
    <2>4. CASE /\ Connected(m.to)
               /\ toClient' = [toClient EXCEPT ![m.to] = Append(toClient[m.to], [type |-> m.type, n |-> m.n])]
      <3>1. m.to \in Pid
        BY <2>1, <2>4 DEF Letter, LetterOf, Connected
      <3>2. toClient' \in [Pid -> Seq(Message)]
        BY <2>2, <2>4, <3>1, RowsStep DEF SessionTypeOK
      <3> QED BY <1>6, <2>1, <3>2 DEF Write, SessionTypeOK
    <2> QED BY <1>6, <2>3, <2>4 DEF Write
  <1>7. CASE Show(p)
    <2> DEFINE m == Head(toClient[p])
               x == [client[p] EXCEPT !.state = C!AfterMessage(client[p].state, m),
                                      !.challenged = client[p].challenged \/ m.type = "JOIN_REQUEST"]
    <2>1. /\ toClient' = [toClient EXCEPT ![p] = Tail(toClient[p])]
          /\ client' = [client EXCEPT ![p] = x]
          /\ toServer' = [toServer EXCEPT ![p] = toServer[p] \o C!Replies(m)]
          /\ outbox' = outbox /\ toClient[p] # <<>>
      BY <1>7 DEF Show
    <2>2. Tail(toClient[p]) \in Seq(Message)
      BY <2>1 DEF SessionTypeOK
    <2>3. toServer[p] \o C!Replies(m) \in Seq(AllCommands)
      <3>1. C!Replies(m) \in {<<>>, <<"READY">>}
        BY DEF C!Replies
      <3>2. <<"READY">> \in Seq(AllCommands) /\ <<>> \in Seq(AllCommands)
        BY DEF AllCommands
      <3> HIDE DEF m
      <3> QED BY <3>1, <3>2, Concatenated DEF SessionTypeOK
    <2>4. x \in [state : C!ClientStates, typed : Commands \union {"none"}, challenged : BOOLEAN]
      <3>1. C!AfterMessage(client[p].state, m) \in C!ClientStates
        BY ShownStates DEF SessionTypeOK
      <3> HIDE DEF m
      <3> QED BY <3>1 DEF SessionTypeOK
    <2> HIDE DEF m, x
    <2> QED BY <2>1, <2>2, <2>3, <2>4, RowsStep DEF SessionTypeOK
  <1>8. CASE Act(p)
    <2>1. PICK cmd \in Commands :
            /\ cmd \in AllCommands
            /\ client' = [client EXCEPT ![p] = Sent(client[p], cmd)]
            /\ toServer' = [toServer EXCEPT ![p] = Append(toServer[p], cmd)]
            /\ toClient' = toClient /\ outbox' = outbox
      BY <1>8, ActFacts
    <2>2. Sent(client[p], cmd) \in [state : C!ClientStates, typed : Commands \union {"none"}, challenged : BOOLEAN]
      <3>1. C!AfterCommand(client[p].state, cmd) \in C!ClientStates
        BY DEF C!AfterCommand, C!ClientStates, SessionTypeOK
      <3> QED BY <3>1 DEF Sent, SessionTypeOK
    <2>3. Append(toServer[p], cmd) \in Seq(AllCommands)
      BY <2>1 DEF SessionTypeOK
    <2> QED BY <2>1, <2>2, <2>3, RowsStep DEF SessionTypeOK
  <1> QED BY <1>1, <1>2, <1>3, <1>4, <1>5, <1>6, <1>7, <1>8 DEF Deliver

-----------------------------------------------------------------------------
(* What the steps do to the channels                                       *)

LEMMA TailKeeps ==
  ASSUME NEW S, NEW s \in Seq(S), s # <<>>
  PROVE  /\ \A i \in DOMAIN s : i # 1 => \E k \in DOMAIN Tail(s) : k + 1 = i /\ Tail(s)[k] = s[i]
         /\ \A k \in DOMAIN Tail(s) : \E i \in DOMAIN s : i = k + 1 /\ Tail(s)[k] = s[i]
         /\ Head(s) = s[1] /\ Tail(s) \in Seq(S) /\ 1 \in DOMAIN s
  <1> DEFINE t == Tail(s)
  <1>1. /\ Len(s) \in Nat /\ Len(s) > 0 /\ Len(t) = Len(s) - 1
        /\ DOMAIN s = 1 .. Len(s) /\ DOMAIN t = 1 .. Len(t)
    OBVIOUS
  <1>2. \A k \in 1 .. Len(s) - 1 : t[k] = s[k + 1]
    OBVIOUS
  <1>3. Head(s) = s[1] /\ t \in Seq(S)
    OBVIOUS
  <1> HIDE DEF t
  <1>4. ASSUME NEW i \in DOMAIN s, i # 1 PROVE \E k \in DOMAIN t : k + 1 = i /\ t[k] = s[i]
    <2>1. PICK k : k = i - 1
      OBVIOUS
    <2>2. k \in 1 .. Len(s) - 1 /\ k + 1 = i
      BY <1>1, <1>4, <2>1
    <2> QED BY <1>1, <1>2, <2>2
  <1>5. ASSUME NEW k \in DOMAIN t PROVE \E i \in DOMAIN s : i = k + 1 /\ t[k] = s[i]
    <2>1. PICK i : i = k + 1
      OBVIOUS
    <2>2. i \in DOMAIN s /\ k \in 1 .. Len(s) - 1
      BY <1>1, <2>1
    <2> QED BY <1>2, <2>1, <2>2
  <1> QED BY <1>1, <1>3, <1>4, <1>5 DEF t

LEMMA AppendKeeps ==
  ASSUME NEW S, NEW s \in Seq(S), NEW x \in S
  PROVE  /\ \A i \in DOMAIN s : i \in DOMAIN Append(s, x) /\ Append(s, x)[i] = s[i]
         /\ Len(s) + 1 \in DOMAIN Append(s, x) /\ Append(s, x)[Len(s) + 1] = x
         /\ \A j \in DOMAIN Append(s, x) : j \in DOMAIN s \/ (j = Len(s) + 1 /\ j > 0)
         /\ \A i \in DOMAIN s : i < Len(s) + 1
  <1> DEFINE t == Append(s, x)
  <1>1. Len(t) = Len(s) + 1 /\ Len(s) \in Nat /\ DOMAIN s = 1 .. Len(s) /\ DOMAIN t = 1 .. Len(t)
    OBVIOUS
  <1>2. t[Len(s) + 1] = x /\ \A i \in DOMAIN s : t[i] = s[i]
    OBVIOUS
  <1> HIDE DEF t
  <1>3. /\ \A i \in DOMAIN s : i \in DOMAIN t /\ i < Len(s) + 1
        /\ Len(s) + 1 \in DOMAIN t
        /\ \A j \in DOMAIN t : j \in DOMAIN s \/ (j = Len(s) + 1 /\ j > 0)
    BY <1>1
  <1> QED BY <1>2, <1>3 DEF t

LEMMA TakeFacts ==
  ASSUME SessionTypeOK, NEW p \in Pid, TakeCommand(p)
  PROVE  /\ UNCHANGED <<client, toClient, history>>
         /\ \A q \in Pid \ {p} : toServer'[q] = toServer[q] /\ outbox'[q] = outbox[q]
         /\ toServer'[p] = Tail(toServer[p]) /\ toServer[p] # <<>>
         /\ thr[p].pc = "receive" /\ outbox[p] = <<>>
         /\ \/ Receive(p) /\ thr'[p].cmd = Head(toServer[p]) /\ outbox' = outbox
            \/ outbox'[p] = To(p, "ERROR") /\ UNCHANGED vars
  BY DEF TakeCommand, SessionTypeOK, At

LEMMA ServeFacts ==
  ASSUME SessionTypeOK, NEW p \in Pid, Serve(p)
  PROVE  /\ UNCHANGED <<client, toServer, toClient, history>>
         /\ \A q \in Pid \ {p} : outbox'[q] = outbox[q]
         /\ outbox'[p] = Messages(p) /\ outbox[p] = <<>> /\ Work(p)
  BY DEF Serve, SessionTypeOK

LEMMA WriteFacts ==
  ASSUME SessionTypeOK, NEW p \in Pid, Write(p), NEW m, m = outbox[p][1]
  PROVE  /\ UNCHANGED <<vars, client, toServer, history>>
         /\ outbox[p] # <<>> /\ outbox'[p] = Tail(outbox[p]) /\ 1 \in DOMAIN outbox[p]
         /\ \A q \in Pid \ {p} : outbox'[q] = outbox[q]
         /\ m \in Letter /\ [type |-> m.type, n |-> m.n] \in Message
         /\ \A q \in Pid : \/ q = m.to /\ toClient'[q] = Append(toClient[q], [type |-> m.type, n |-> m.n])
                                /\ client[q].state # "DISCONNECTED"
                           \/ toClient'[q] = toClient[q]
         /\ m.to \in Pid /\ Connected(m.to) /\ client[m.to].state # "DISCONNECTED" =>
              toClient'[m.to] = Append(toClient[m.to], [type |-> m.type, n |-> m.n])
  <1>1. m = Head(outbox[p]) /\ m \in Letter /\ 1 \in DOMAIN outbox[p]
    BY DEF Write, SessionTypeOK
  <1>2. [type |-> m.type, n |-> m.n] \in Message
    BY <1>1 DEF Letter, LetterOf, Message
  <1>3. CASE UNCHANGED toClient /\ ~(Connected(m.to) /\ client[m.to].state # "DISCONNECTED")
    BY <1>1, <1>2, <1>3 DEF Write, SessionTypeOK
  <1>4. CASE /\ Connected(m.to) /\ client[m.to].state # "DISCONNECTED"
             /\ toClient' = [toClient EXCEPT ![m.to] = Append(toClient[m.to], [type |-> m.type, n |-> m.n])]
    <2>1. m.to \in Pid
      BY <1>1, <1>4 DEF Letter, LetterOf, Connected
    <2> QED BY <1>1, <1>2, <1>4, <2>1 DEF Write, SessionTypeOK
  <1> QED BY <1>1, <1>3, <1>4 DEF Write

LEMMA ShowFacts ==
  ASSUME SessionTypeOK, NEW p \in Pid, Show(p), NEW m, m = toClient[p][1]
  PROVE  /\ UNCHANGED <<vars, outbox, history>>
         /\ toClient[p] # <<>> /\ toClient'[p] = Tail(toClient[p])
         /\ m \in Message /\ 1 \in DOMAIN toClient[p]
         /\ client'[p].state = C!AfterMessage(client[p].state, m)
         /\ client'[p].typed = client[p].typed
         /\ toServer'[p] = toServer[p] \/ toServer'[p] = toServer[p] \o <<"READY">>
         /\ \A q \in Pid \ {p} : /\ toClient'[q] = toClient[q] /\ toServer'[q] = toServer[q]
                                 /\ client'[q] = client[q]
  <1>1. m = Head(toClient[p]) /\ m \in Message /\ 1 \in DOMAIN toClient[p]
    BY DEF Show, SessionTypeOK
  <1>2. toServer[p] \o C!Replies(m) \in {toServer[p], toServer[p] \o <<"READY">>}
    BY DEF C!Replies, SessionTypeOK
  <1>3. toServer' = [toServer EXCEPT ![p] = toServer[p] \o C!Replies(m)]
    BY <1>1 DEF Show
  <1>4. toServer'[p] = toServer[p] \o C!Replies(m) /\ \A q \in Pid \ {p} : toServer'[q] = toServer[q]
    BY <1>3 DEF SessionTypeOK
  <1>5. /\ client'[p].state = C!AfterMessage(client[p].state, m)
        /\ client'[p].typed = client[p].typed
        /\ \A q \in Pid \ {p} : client'[q] = client[q]
    BY <1>1 DEF Show, SessionTypeOK
  <1> QED BY <1>1, <1>2, <1>4, <1>5 DEF Show, SessionTypeOK

(* a queue that grows keeps its commands in their places *)
LEMMA ReadyAppended ==
  ASSUME SessionTypeOK, NEW p \in Pid, NEW s, s = toServer[p] \o <<"READY">>
  PROVE  /\ \A i \in DOMAIN toServer[p] : i \in DOMAIN s /\ s[i] = toServer[p][i]
         /\ \A i \in DOMAIN s : i \in DOMAIN toServer[p] \/ s[i] = "READY"
  <1>1. <<"READY">> \in Seq(AllCommands) /\ Len(<<"READY">>) = 1 /\ <<"READY">>[1] = "READY"
    BY DEF AllCommands
  <1>2. toServer[p] \in Seq(AllCommands)
    BY DEF SessionTypeOK
  <1>3. /\ s \in Seq(AllCommands) /\ Len(s) = Len(toServer[p]) + 1
        /\ \A i \in 1 .. Len(toServer[p]) + 1 : s[i] = IF i <= Len(toServer[p]) THEN toServer[p][i]
                                                      ELSE <<"READY">>[i - Len(toServer[p])]
    BY <1>1, <1>2, Concatenated
  <1> QED BY <1>1, <1>2, <1>3

-----------------------------------------------------------------------------
(* Every client that waits is answered                                     *)

(* a message is on its way until it is shown *)
LEMMA ComingKept ==
  ASSUME SessionTypeOK, NEW p \in Pid, NEW types, Coming(p, types),
         UNCHANGED toClient, \A t \in Pid : outbox'[t] = outbox[t] \/ outbox[t] = <<>>
  PROVE  Coming(p, types)'
  <1>1. CASE \E i \in DOMAIN toClient[p] : toClient[p][i].type \in types
    BY <1>1 DEF Coming
  <1>2. ASSUME NEW t \in Pid, Posted(t, p, types) PROVE Coming(p, types)'
    <2>1. outbox[t] # <<>>
      BY <1>2 DEF Posted
    <2>2. outbox'[t] = outbox[t]
      BY <2>1
    <2> QED BY <1>2, <2>2 DEF Posted, Coming
  <1> QED BY <1>1, <1>2 DEF Coming

LEMMA ComingWritten ==
  ASSUME SessionTypeOK, NEW a \in Pid, Write(a), NEW p \in Pid, NEW types, Coming(p, types),
         Connected(p), client[p].state # "DISCONNECTED"
  PROVE  Coming(p, types)'
  <1>1. PICK m : m = outbox[a][1]
    OBVIOUS
  <1>2. /\ outbox[a] # <<>> /\ outbox'[a] = Tail(outbox[a]) /\ outbox[a] \in Seq(Letter)
        /\ \A q \in Pid \ {a} : outbox'[q] = outbox[q]
        /\ m \in Letter /\ [type |-> m.type, n |-> m.n] \in Message
        /\ \/ toClient'[p] = Append(toClient[p], [type |-> m.type, n |-> m.n])
           \/ toClient'[p] = toClient[p]
        /\ m.to = p => toClient'[p] = Append(toClient[p], [type |-> m.type, n |-> m.n])
    BY <1>1, WriteFacts DEF SessionTypeOK
  <1>3. toClient[p] \in Seq(Message)
    BY DEF SessionTypeOK
  <1>4. PICK x \in Message : x = [type |-> m.type, n |-> m.n]
    BY <1>2
  <1>5. \A i \in DOMAIN toClient[p] : i \in DOMAIN toClient'[p] /\ toClient'[p][i] = toClient[p][i]
    BY <1>2, <1>3, <1>4, AppendKeeps
  <1>6. CASE \E i \in DOMAIN toClient[p] : toClient[p][i].type \in types
    BY <1>5, <1>6 DEF Coming
  <1>7. ASSUME NEW t \in Pid, NEW i \in DOMAIN outbox[t], outbox[t][i].to = p,
               outbox[t][i].type \in types
        PROVE  Coming(p, types)'
    <2>1. CASE t # a
      BY <1>2, <1>7, <2>1 DEF Coming, Posted
    <2>2. CASE t = a /\ i = 1
      <3>1. toClient'[p] = Append(toClient[p], x) /\ x.type \in types
        BY <1>1, <1>2, <1>4, <1>7, <2>2
      <3>2. PICK k : k = Len(toClient[p]) + 1
        OBVIOUS
      <3>3. k \in DOMAIN toClient'[p] /\ toClient'[p][k] = x
        BY <1>3, <3>1, <3>2, AppendKeeps
      <3> QED BY <3>1, <3>3 DEF Coming
    <2>3. CASE t = a /\ i # 1
      <3>1. PICK k \in DOMAIN outbox'[a] : outbox'[a][k] = outbox[a][i]
        BY <1>2, <1>7, <2>3, TailKeeps
      <3> QED BY <1>7, <2>3, <3>1 DEF Coming, Posted
    <2> QED BY <2>1, <2>2, <2>3
  <1> QED BY <1>6, <1>7 DEF Coming, Posted

LEMMA ComingShown ==
  ASSUME SessionTypeOK, NEW a \in Pid, Show(a), NEW p \in Pid, NEW types, Coming(p, types),
         a = p => toClient[p][1].type \notin types
  PROVE  Coming(p, types)'
  <1>1. /\ UNCHANGED outbox /\ toClient[a] # <<>> /\ toClient'[a] = Tail(toClient[a])
        /\ \A q \in Pid \ {a} : toClient'[q] = toClient[q]
        /\ toClient[a] \in Seq(Message)
    BY ShowFacts DEF SessionTypeOK
  <1>2. CASE \E t \in Pid : Posted(t, p, types)
    BY <1>1, <1>2 DEF Coming, Posted
  <1>3. ASSUME NEW i \in DOMAIN toClient[p], toClient[p][i].type \in types PROVE Coming(p, types)'
    <2>1. CASE a # p
      BY <1>1, <1>3, <2>1 DEF Coming
    <2>2. CASE a = p
      <3>1. /\ i # 1 /\ toClient'[p] = Tail(toClient[p])
            /\ toClient[p] \in Seq(Message) /\ toClient[p] # <<>>
        BY <1>1, <1>3, <2>2
      <3>2. \E k \in DOMAIN Tail(toClient[p]) : k + 1 = i /\ Tail(toClient[p])[k] = toClient[p][i]
        BY <3>1, TailKeeps
      <3> QED BY <1>3, <3>1, <3>2 DEF Coming
    <2> QED BY <2>1, <2>2
  <1> QED BY <1>2, <1>3 DEF Coming

LEMMA ComingStep ==
  ASSUME NobodyLeaves, SessionTypeOK, NEW a \in Pid, Arrive(a) \/ Type(a) \/ Deliver(a),
         NEW p \in Pid, NEW types, Coming(p, types),
         Connected(p), client[p].state # "DISCONNECTED",
         Show(a) /\ a = p => toClient[p][1].type \notin types
  PROVE  Coming(p, types)'
  <1>1. CASE Arrive(a) \/ Type(a)
    BY <1>1, ComingKept DEF Arrive, Type, channels
  <1>2. CASE Act(a)
    BY <1>2, ActFacts, ComingKept
  <1>3. CASE TakeCommand(a)
    BY <1>3, TakeFacts, ComingKept
  <1>4. CASE Serve(a)
    BY <1>4, ServeFacts, ComingKept
  <1> QED BY <1>1, <1>2, <1>3, <1>4, ComingWritten, ComingShown DEF Deliver

(* a command is queued until it is taken *)
LEMMA QueuedStep ==
  ASSUME NobodyLeaves, SessionTypeOK, NEW a \in Pid, Arrive(a) \/ Type(a) \/ Deliver(a),
         NEW p \in Pid, NEW cmd, Queued(p, cmd)
  PROVE  Queued(p, cmd)' \/ (a = p /\ TakeCommand(p) /\ Head(toServer[p]) = cmd)
  <1>1. PICK i \in DOMAIN toServer[p] : toServer[p][i] = cmd
    BY DEF Queued
  <1>2. ASSUME toServer'[p] = toServer[p] PROVE Queued(p, cmd)'
    BY <1>1, <1>2 DEF Queued
  <1>3. CASE Arrive(a) \/ Type(a)
    BY <1>2, <1>3 DEF Arrive, Type, channels
  <1>4. CASE Serve(a) \/ Write(a)
    BY <1>2, <1>4 DEF Serve, Write
  <1>5. CASE TakeCommand(a)
    <2>1. /\ toServer'[a] = Tail(toServer[a]) /\ toServer[a] # <<>> /\ toServer[p] \in Seq(AllCommands)
          /\ \A q \in Pid \ {a} : toServer'[q] = toServer[q]
      BY <1>5, TakeFacts DEF SessionTypeOK
    <2>2. CASE a # p
      BY <1>2, <2>1, <2>2
    <2>3. CASE a = p /\ i = 1
      BY <1>1, <1>5, <2>1, <2>3, TailKeeps
    <2>4. CASE a = p /\ i # 1
      <3>1. toServer'[p] = Tail(toServer[p]) /\ toServer[p] # <<>> /\ toServer[p] \in Seq(AllCommands)
        BY <2>1, <2>4
      <3>2. \E k \in DOMAIN Tail(toServer[p]) : k + 1 = i /\ Tail(toServer[p])[k] = toServer[p][i]
        BY <2>4, <3>1, TailKeeps
      <3> QED BY <1>1, <3>1, <3>2 DEF Queued
    <2> QED BY <2>2, <2>3, <2>4
  <1>6. CASE Show(a)
    <2>1. CASE a # p
      BY <1>2, <1>6, <2>1, ShowFacts
    <2>2. CASE a = p
      <3>1. toServer'[p] = toServer[p] \/ toServer'[p] = toServer[p] \o <<"READY">>
        BY <1>6, <2>2, ShowFacts
      <3>2. i \in DOMAIN toServer'[p] /\ toServer'[p][i] = cmd
        BY <1>1, <3>1, ReadyAppended
      <3> QED BY <3>2 DEF Queued
    <2> QED BY <2>1, <2>2
  <1>7. CASE Act(a)
    <2>1. PICK c \in AllCommands : toServer' = [toServer EXCEPT ![a] = Append(toServer[a], c)]
      BY <1>7, ActFacts
    <2>2. CASE a # p
      BY <1>2, <2>1, <2>2 DEF SessionTypeOK
    <2>3. CASE a = p
      <3>1. toServer'[p] = Append(toServer[p], c) /\ toServer[p] \in Seq(AllCommands)
        BY <2>1, <2>3 DEF SessionTypeOK
      <3>2. i \in DOMAIN toServer'[p] /\ toServer'[p][i] = cmd
        BY <1>1, <3>1, AppendKeeps
      <3> QED BY <3>2 DEF Queued
    <2> QED BY <2>2, <2>3
  <1> QED BY <1>3, <1>4, <1>5, <1>6, <1>7 DEF Deliver

-----------------------------------------------------------------------------
(* What the server does for a client that waits                            *)

LEMMA ActionsAt ==
  ASSUME NEW p \in Pid, Work(p), ~Departing(p)
  PROVE  /\ thr[p].pc \notin {"none", "receive"}
         /\ thr[p].pc = "set_username" => SetUsername(p)
         /\ thr[p].pc = "enter_lobby" => EnterLobby(p)
         /\ thr[p].pc = "read_game_id" => ReadGameId(p)
         /\ thr[p].pc = "get_game" => GetGame(p)
         /\ thr[p].pc = "get_player" => GetPlayer(p)
         /\ thr[p].pc = "ask_rematch" => AskRematch(p)
         /\ thr[p].pc = "restart_self" => RestartSelf(p)
         /\ thr[p].pc = "restart_opponent" => RestartOpponent(p)
         /\ thr[p].pc = "mark_ready" => MarkReady(p)
         /\ thr[p].pc = "get_creator" => GetCreator(p)
         /\ thr[p].pc = "get_opponent" => GetOpponent(p)
         /\ thr[p].pc = "start_creator" => StartCreator(p)
         /\ thr[p].pc = "start_opponent" => StartOpponent(p)
         /\ thr[p].pc = "check_turn" => CheckTurn(p)
         /\ thr[p].pc \in {"order_first", "order_second", "lock_first"} => Aim(p)
         /\ thr[p].pc = "shoot" => Shoot(p)
         /\ thr[p].pc = "declare_win" => DeclareWin(p)
         /\ thr[p].pc = "finish_self" => FinishSelf(p)
         /\ thr[p].pc = "finish_opponent" => FinishOpponent(p)
         /\ thr[p].pc = "pass_turn" => PassTurn(p)
  <1>1. /\ SetUsername(p) => thr[p].pc = "set_username"
        /\ EnterLobby(p) => thr[p].pc = "enter_lobby"
        /\ ReadGameId(p) => thr[p].pc = "read_game_id"
        /\ GetGame(p) => thr[p].pc = "get_game"
        /\ GetPlayer(p) => thr[p].pc = "get_player"
    BY DEF SetUsername, EnterLobby, ReadGameId, GetGame, GetPlayer, At
  <1>2. /\ Create(p) => thr[p].pc \in {"create", "copy_code", "attach"}
        /\ Join(p) => thr[p].pc \in {"find_code", "file_request", "set_invited"}
    BY DEF Create, CreateGame, CopyCode, AttachCreator, Join, FindCode, FileRequest, SetInvited, At
  <1>3. Invite(p) => thr[p].pc \in {"resolve", "check_invite", "assign_opponent", "seat_requester",
                                    "seat_creator", "clear_invite", "release_requester"}
    BY DEF Invite, Resolve, CheckInvite, AssignOpponent, SeatRequester, SeatCreator, ClearInvite,
           ReleaseRequester, At
  <1>4. /\ PlaceShip(p) => thr[p].pc = "place"
        /\ SetReady(p) => thr[p].pc = "set_ready"
        /\ MarkReady(p) => thr[p].pc = "mark_ready"
        /\ GetCreator(p) => thr[p].pc = "get_creator"
        /\ GetOpponent(p) => thr[p].pc = "get_opponent"
        /\ StartCreator(p) => thr[p].pc = "start_creator"
        /\ StartOpponent(p) => thr[p].pc = "start_opponent"
    BY DEF PlaceShip, SetReady, MarkReady, GetCreator, GetOpponent, StartCreator, StartOpponent, At
  <1>5. /\ CheckTurn(p) => thr[p].pc = "check_turn"
        /\ Aim(p) => thr[p].pc \in {"order_first", "order_second", "lock_first"}
        /\ Shoot(p) => thr[p].pc = "shoot"
        /\ DeclareWin(p) => thr[p].pc = "declare_win"
        /\ FinishSelf(p) => thr[p].pc = "finish_self"
        /\ FinishOpponent(p) => thr[p].pc = "finish_opponent"
        /\ PassTurn(p) => thr[p].pc = "pass_turn"
    BY AimFrame DEF CheckTurn, Shoot, DeclareWin, FinishSelf, FinishOpponent, PassTurn, At
  <1>6. /\ AskRematch(p) => thr[p].pc = "ask_rematch"
        /\ RestartSelf(p) => thr[p].pc = "restart_self"
        /\ RestartOpponent(p) => thr[p].pc = "restart_opponent"
    BY DEF AskRematch, RestartSelf, RestartOpponent, At
  <1> HIDE DEF Departing
  <1>7. \/ ReadGameId(p) \/ GetGame(p) \/ GetPlayer(p) \/ SetUsername(p) \/ EnterLobby(p)
        \/ Create(p) \/ Join(p) \/ Invite(p)
        \/ PlaceShip(p) \/ SetReady(p) \/ MarkReady(p) \/ GetCreator(p) \/ GetOpponent(p)
        \/ StartCreator(p) \/ StartOpponent(p)
        \/ CheckTurn(p) \/ Aim(p) \/ Shoot(p)
        \/ DeclareWin(p) \/ FinishSelf(p) \/ FinishOpponent(p) \/ PassTurn(p)
        \/ AskRematch(p) \/ RestartSelf(p) \/ RestartOpponent(p)
    BY DEF Work, Login, Placing, Fire, Again, Departing
  <1> QED BY <1>1, <1>2, <1>3, <1>4, <1>5, <1>6, <1>7

(* a thread without a command is at rest *)
LEMMA NoCommand ==
  ASSUME MatchInv, NEW p \in Pid
  PROVE  /\ thr[p].pc \in {"none", "receive"} <=> thr[p].cmd = "NONE"
         /\ Connect(p) => thr[p].pc = "none"
         /\ Receive(p) => thr[p].pc = "receive"
  <1>1. thr[p].pc \in {"none", "receive"} <=> thr[p].cmd = "NONE"
    BY Mine DEF HandlerOK, SectionsOf
  <1>2. Connect(p) => thr[p].pc = "none"
    BY NoIdNowhere DEF Connect, MatchInv, OwnSlot
  <1> QED BY <1>1, <1>2 DEF Receive, At

LEMMA ReturnIdle ==
  ASSUME TypeInv, NEW p \in Pid, Return(p) PROVE thr'[p].pc = "receive" /\ thr'[p].cmd = "NONE"
  BY DEF Return, Idle, TypeInv, TypeOK

LEMMA WantsIsWants ==
  ASSUME MatchInv, NEW p \in Pid, NEW g, GameOf(p) = g, g # NoId, games[g].state = "FINISHED"
  PROVE  WantsRematch(p) <=> Wants(g, p)
  <1>1. g \in Gid /\ p \in Members(g) /\ games[g].id = g
    BY GameOfPlayer
  <1>2. games[g] # FreeGame
    BY <1>1, UsedIsNotFree DEF Used
  <1>3. games[g].creator_id # games[g].opponent_id
    BY <1>1, <1>2, TwoSeats
  <1> QED BY <1>1, <1>3 DEF WantsRematch, Wants, Members, GameOf

(* handle_rematch on a finished game *)
LEMMA AskRematchFacts ==
  ASSUME MatchInv, NEW p \in Pid, AskRematch(p), NEW g, thr[p].game = g,
         NEW o, OtherMember(g, p) = o, games[g].state = "FINISHED"
  PROVE  /\ o \in Pid /\ o # p /\ Members(g) = {p, o} /\ GameOf(p) = g /\ GameOf(o) = g /\ g \in Gid
         /\ UNCHANGED players
         /\ thr'[p].pc = "get_player" /\ thr'[p].cmd = "REMATCH" /\ thr'[p].other = o
         /\ \A h \in Gid \ {g} : games'[h] = games[h]
         /\ Wants(g, o) => thr'[p].flag
         /\ ~Wants(g, o) => /\ games'[g].state = "FINISHED" /\ Wants(g, p)' /\ ~Wants(g, o)'
                            /\ games'[g].id = g
                            /\ games'[g].creator_id = games[g].creator_id
                            /\ games'[g].opponent_id = games[g].opponent_id
  <1>1. thr[p].pc = "ask_rematch"
    BY DEF AskRematch, At
  <1>2. /\ g \in Gid /\ GameOf(p) = g /\ o \in Pid /\ o # p /\ Members(g) = {p, o} /\ GameOf(o) = g
        /\ OtherMember(g, o) = p /\ thr[p].cmd = "REMATCH" /\ games[g] # FreeGame /\ Used(g)
        /\ games[g].pending_invite_from = NoId
        /\ players[p].state = "FINISHED" /\ players[o].state \in {"IN_GAME", "FINISHED"}
        /\ games[g].current_turn \in {p, o}
        /\ Wants(g, o) => players[o].state = "FINISHED" /\ thr[o].cmd # "FIRE"
        /\ \A q \in Pid : ~Starting(q, g) /\ ~Restarting(q, g)
        /\ ~Creating(o) /\ ~(thr[o].cmd = "READY" /\ thr[o].pc \in {"get_game", "mark_ready"})
        /\ thr[o].pc \notin {"assign_opponent", "seat_requester", "seat_creator"}
        /\ GameOK(g) /\ FinishOK(g)
    BY <1>1, DuringAnswer
  <1> DEFINE creator == games[g].creator_id = p
             cwants  == games[g].creator_wants_rematch \/ creator
             owants  == games[g].opponent_wants_rematch \/ ~creator
             both    == cwants /\ owants
  <1>3. games[g] \in Game /\ thr[p] \in Thread
    BY <1>2, GameFields, Mine, Locals
  <1>4. both <=> Wants(g, o)
    BY <1>2, <1>3 DEF Wants, OtherMember, Game
  <1>5. thr' = [thr EXCEPT ![p] = [thr[p] EXCEPT !.pc = "get_player", !.other = o, !.flag = both]]
    BY DEF AskRematch
  <1>6. thr'[p] = [thr[p] EXCEPT !.pc = "get_player", !.other = o, !.flag = both]
    BY <1>5, Mine, MovesThread
  <1>7. thr'[p].pc = "get_player" /\ thr'[p].cmd = "REMATCH" /\ thr'[p].other = o /\ thr'[p].flag = both
    <2> HIDE DEF both
    <2> QED BY <1>2, <1>3, <1>6 DEF Thread
  <1>8. \A h \in Gid \ {g} : games'[h] = games[h]
    BY <1>2, Mine, MovesGame DEF AskRematch
  <1>9. ASSUME ~Wants(g, o)
        PROVE  /\ games'[g].state = "FINISHED" /\ Wants(g, p)' /\ ~Wants(g, o)' /\ games'[g].id = g
               /\ games'[g].creator_id = games[g].creator_id
               /\ games'[g].opponent_id = games[g].opponent_id
    <2>1. games' = [games EXCEPT ![g] = [games[g] EXCEPT !.creator_wants_rematch = cwants,
                                                        !.opponent_wants_rematch = owants]]
      BY <1>4, <1>9 DEF AskRematch
    <2> DEFINE r == [games[g] EXCEPT !.creator_wants_rematch = cwants,
                                     !.opponent_wants_rematch = owants]
    <2> HIDE DEF r
    <2>2. games'[g] = [games[g] EXCEPT !.creator_wants_rematch = cwants,
                                       !.opponent_wants_rematch = owants]
      <3>1. games' = [games EXCEPT ![g] = r] /\ TypeInv /\ g \in Gid
        BY <1>2, <2>1, Mine DEF r
      <3>2. games'[g] = r
        BY <3>1, MovesGame
      <3> QED BY <3>2 DEF r
    <2>3. /\ games'[g].state = "FINISHED" /\ games'[g].id = g
          /\ games'[g].creator_wants_rematch = cwants /\ games'[g].opponent_wants_rematch = owants
          /\ games'[g].creator_id = games[g].creator_id /\ games'[g].opponent_id = games[g].opponent_id
      BY <1>2, <1>3, <2>2 DEF Game, Used
    <2>4. Wants(g, p)' /\ ~Wants(g, o)'
      BY <1>2, <1>9, <2>3 DEF Wants, OtherMember
    <2> QED BY <2>3, <2>4
  <1>10. UNCHANGED players
    BY DEF AskRematch, playerVars
  <1> HIDE DEF both
  <1> QED BY <1>2, <1>4, <1>7, <1>8, <1>9, <1>10

(* a message to p of one of the types follows the section of a *)
Says(a, p, types) ==
  \E i \in DOMAIN Messages(a) : Messages(a)[i].to = p /\ Messages(a)[i].type \in types

LEMMA SaysOne ==
  ASSUME NEW a \in Pid, NEW p, NEW T, NEW types, T \in types, Messages(a) = To(p, T)
  PROVE  Says(a, p, types)
  <1>1. PICK s : s = Messages(a)
    OBVIOUS
  <1>2. DOMAIN s = {1} /\ s[1] = [to |-> p, type |-> T, n |-> 0]
    BY <1>1, OneLetter
  <1>3. \E i \in DOMAIN s : s[i].to = p /\ s[i].type \in types
    BY <1>2
  <1> QED BY <1>1, <1>3 DEF Says

LEMMA LoginBusy ==
  ASSUME MatchInv, NEW a \in Pid, ThreadStepOf(a), NEW p \in Pid, Busy(p, "WAITING_LOGIN")
  PROVE  Busy(p, "WAITING_LOGIN")' \/ (Work(a) /\ Says(a, p, Endings("WAITING_LOGIN")))
  <1>1. thr[p].cmd = "LOGIN"
    BY DEF Busy
  <1>2. CASE a # p
    <2>1. thr'[p] = thr[p]
      BY <1>2, OthersWait
    <2> QED BY <1>1, <2>1 DEF Busy
  <1>3. CASE a = p
    <2>1. thr[p].pc \in {"set_username", "enter_lobby"} /\ Work(p) /\ TypeInv /\ ~Departing(p)
      BY <1>1, <1>3, NoCommand, Mine, NobodyDeparts DEF HandlerOK, SectionsOf, ThreadStepOf
    <2>2. CASE thr[p].pc = "set_username"
      <3>1. Return(p) \/ Goto(p, "enter_lobby")
        BY <2>1, <2>2, ActionsAt DEF SetUsername
      <3>2. CASE Return(p)
        <4>1. Messages(p) = To(p, "ERROR")
          BY <2>1, <2>2, <3>2, ReturnIdle, Refusals DEF Refusing
        <4> QED BY <1>3, <2>1, <4>1, SaysOne DEF Endings
      <3>3. CASE Goto(p, "enter_lobby")
        BY <1>1, <2>1, <3>3, GotoThread DEF Busy
      <3> QED BY <3>1, <3>2, <3>3
    <2>3. CASE thr[p].pc = "enter_lobby"
      <3>1. Messages(p) = To(p, "WELCOME")
        BY <2>3, Answers
      <3> QED BY <1>3, <2>1, <3>1, SaysOne DEF Endings
    <2> QED BY <2>1, <2>2, <2>3
  <1> QED BY <1>2, <1>3

LEMMA AskingBusy ==
  ASSUME MatchInv, NEW a \in Pid, ThreadStepOf(a), NEW p \in Pid, Asking(p)
  PROVE  Asking(p)' \/ Agreed(p)' \/ RestartDue(p)' \/ (Work(a) /\ Says(a, p, {"ERROR", "GAME_START"}))
  <1>1. thr[p].cmd = "REMATCH" /\ thr[p].pc \in {"read_game_id", "get_game", "ask_rematch"}
    BY DEF Asking
  <1>2. CASE a # p
    <2>1. thr'[p] = thr[p]
      BY <1>2, OthersWait
    <2> QED BY <1>1, <2>1 DEF Asking
  <1>3. CASE a = p
    <2>1. Work(p) /\ TypeInv /\ ~Departing(p)
      BY <1>1, <1>3, NoCommand, Mine, NobodyDeparts DEF ThreadStepOf
    <2>2. CASE thr[p].pc = "read_game_id"
      <3>1. thr' = [thr EXCEPT ![p] = [thr[p] EXCEPT !.pc = "get_game", !.game = players[p].current_game_id]]
        BY <2>1, <2>2, ActionsAt DEF ReadGameId
      <3>2. thr'[p] = [thr[p] EXCEPT !.pc = "get_game", !.game = players[p].current_game_id]
        BY <2>1, <3>1, MovesThread
      <3>3. thr'[p].pc = "get_game" /\ thr'[p].cmd = "REMATCH"
        BY <1>1, <2>1, <3>2, Locals DEF Thread
      <3> QED BY <3>3 DEF Asking
    <2>3. CASE thr[p].pc = "get_game"
      <3>1. Goto(p, "ask_rematch") \/ Goto(p, "reset_self")
        BY <1>1, <2>1, <2>3, ActionsAt DEF GetGame
      <3>2. CASE Goto(p, "ask_rematch")
        BY <1>1, <2>1, <3>2, GotoThread DEF Asking
      <3>3. CASE Goto(p, "reset_self")
        <4>1. Messages(p) = To(p, "ERROR")
          BY <1>1, <2>1, <2>3, <3>3, GotoThread, Refusals DEF Reading
        <4> QED BY <1>3, <2>1, <4>1, SaysOne
      <3> QED BY <3>1, <3>2, <3>3
    <2>4. CASE thr[p].pc = "ask_rematch"
      <3>1. AskRematch(p)
        BY <2>1, <2>4, ActionsAt
      <3>2. PICK g : g = thr[p].game
        OBVIOUS
      <3>3. PICK o : o = OtherMember(g, p)
        OBVIOUS
      <3>4. CASE games[g].state # "FINISHED"
        <4>1. Return(p)
          BY <3>1, <3>2, <3>4 DEF AskRematch
        <4>2. Messages(p) = To(p, "ERROR")
          BY <2>1, <2>4, <4>1, ReturnIdle, Refusals DEF Refusing
        <4> QED BY <1>3, <2>1, <4>2, SaysOne
      <3>5. CASE games[g].state = "FINISHED" /\ Wants(g, o)
        <4>1. /\ GameOf(p) = g /\ UNCHANGED players
              /\ thr'[p].pc = "get_player" /\ thr'[p].cmd = "REMATCH" /\ thr'[p].flag
          BY <3>1, <3>2, <3>3, <3>5, AskRematchFacts
        <4>2. Restarting(p, GameOf(p))'
          BY <4>1 DEF Restarting, GameOf
        <4> QED BY <4>2 DEF RestartDue
      <3>6. CASE games[g].state = "FINISHED" /\ ~Wants(g, o)
        <4>1. /\ GameOf(p) = g /\ UNCHANGED players /\ g \in Gid
              /\ games'[g].state = "FINISHED" /\ Wants(g, p)'
              /\ games'[g].creator_id = games[g].creator_id
              /\ games'[g].opponent_id = games[g].opponent_id
          BY <3>1, <3>2, <3>3, <3>6, AskRematchFacts
        <4>2. GameOf(p)' = g /\ g # NoId
          BY <4>1, NoIdNowhere DEF GameOf
        <4>3. p \in Members(g)
          BY <4>1, <4>2, GameOfPlayer
        <4>4. WantsRematch(p)'
          BY <4>1, <4>2, <4>3 DEF WantsRematch, GameOf, Wants, Members
        <4> QED BY <4>1, <4>2, <4>4 DEF Agreed
      <3> QED BY <3>4, <3>5, <3>6
    <2> QED BY <1>1, <2>2, <2>3, <2>4
  <1> QED BY <1>2, <1>3

LEMMA AgreedBusy ==
  ASSUME MatchInv, NEW a \in Pid, ThreadStepOf(a), NEW p \in Pid, Agreed(p)
  PROVE  Agreed(p)' \/ RestartDue(p)'
  <1>1. PICK g : g = GameOf(p)
    OBVIOUS
  <1>2. g # NoId /\ games[g].state = "FINISHED"
    BY <1>1 DEF Agreed, WantsRematch, GameOf
  <1>3. g \in Gid /\ Used(g) /\ p \in Members(g) /\ Wants(g, p) /\ GameOf(p)' = g
    BY <1>1, <1>2, GameOfPlayer, WantsIsWants, StaysAttached DEF Agreed, Used
  <1>4. ASSUME games'[g] = games[g] PROVE Agreed(p)'
    BY <1>1, <1>2, <1>3, <1>4 DEF Agreed, WantsRematch, GameOf
  <1>5. CASE ~(thr[a].game = g /\ thr[a].pc \in {"pass_turn", "declare_win", "ask_rematch"})
    BY <1>2, <1>3, <1>4, <1>5, MatchUntouched
  <1>6. CASE thr[a].game = g /\ thr[a].pc \in {"pass_turn", "declare_win"}
    <2>1. thr[a].cmd = "FIRE"
      BY <1>6, Mine DEF HandlerOK, SectionsOf
    <2> QED BY <1>2, <1>6, <2>1, Mine DEF ShotOK, Shooting
  <1>7. CASE thr[a].game = g /\ thr[a].pc = "ask_rematch"
    <2>1. Work(a) /\ ~Departing(a)
      BY <1>7, NoCommand, NobodyDeparts DEF ThreadStepOf
    <2>2. AskRematch(a)
      BY <1>7, <2>1, ActionsAt
    <2>3. PICK o : o = OtherMember(g, a)
      OBVIOUS
    <2>4. /\ o \in Pid /\ o # a /\ Members(g) = {a, o} /\ GameOf(a) = g /\ UNCHANGED players
          /\ thr'[a].pc = "get_player" /\ thr'[a].cmd = "REMATCH" /\ thr'[a].other = o
          /\ Wants(g, o) => thr'[a].flag
          /\ ~Wants(g, o) => /\ games'[g].state = "FINISHED" /\ Wants(g, a)'
                             /\ games'[g].creator_id = games[g].creator_id
                             /\ games'[g].opponent_id = games[g].opponent_id
      BY <1>2, <1>7, <2>2, <2>3, AskRematchFacts
    <2>5. CASE Wants(g, o)
      <3>1. Restarting(a, GameOf(a))'
        BY <2>4, <2>5 DEF Restarting, GameOf
      <3>2. p \in {a, thr'[a].other}
        BY <1>3, <2>4
      <3> QED BY <3>1, <3>2 DEF RestartDue
    <2>6. CASE ~Wants(g, o)
      <3>1. p = a
        BY <1>3, <2>4, <2>6
      <3>2. WantsRematch(p)'
        BY <1>2, <1>3, <2>4, <2>6, <3>1 DEF WantsRematch, GameOf, Wants, Members
      <3> QED BY <1>3, <2>4, <2>6, <3>2 DEF Agreed
    <2> QED BY <2>5, <2>6
  <1> QED BY <1>5, <1>6, <1>7

LEMMA RestartBusy ==
  ASSUME MatchInv, NEW a \in Pid, ThreadStepOf(a), NEW p \in Pid, RestartDue(p)
  PROVE  RestartDue(p)' \/ (Work(a) /\ Says(a, p, {"ERROR", "GAME_START"}))
  <1>1. PICK t \in Pid : Restarting(t, GameOf(t)) /\ p \in {t, thr[t].other}
    BY DEF RestartDue
  <1>2. PICK g : g = GameOf(t)
    OBVIOUS
  <1>3. PICK o : o = thr[t].other
    OBVIOUS
  <1>4. thr[t].cmd = "REMATCH" /\ thr[t].pc \in {"get_player", "restart_self", "restart_opponent"}
    BY <1>1, Mine DEF Restarting, HandlerOK, SectionsOf
  <1>5. g \in Gid /\ g # NoId
    BY <1>2, <1>4, OwnGame, NoIdNowhere
  <1>6. o \in Pid /\ o \in Members(g)
    BY <1>1, <1>2, <1>3, <1>5, RestartFacts
  <1>7. GameOf(t)' = g
    BY <1>2, <1>5, StaysAttached
  <1>8. ASSUME \/ thr'[t].pc \in {"restart_self", "restart_opponent"}
               \/ thr'[t].cmd = "REMATCH" /\ thr'[t].pc = "get_player" /\ thr'[t].flag,
               thr'[t].other = o
        PROVE  RestartDue(p)'
    <2>1. Restarting(t, GameOf(t))'
      BY <1>8 DEF Restarting
    <2> QED BY <1>1, <1>3, <1>8, <2>1 DEF RestartDue
  <1>9. CASE a # t
    <2>1. thr'[t] = thr[t]
      BY <1>9, OthersWait
    <2> QED BY <1>1, <1>3, <1>8, <2>1 DEF Restarting
  <1>10. CASE a = t
    <2>1. Work(t) /\ TypeInv /\ ~Departing(t)
      BY <1>4, <1>10, NoCommand, Mine, NobodyDeparts DEF ThreadStepOf
    <2>2. CASE thr[t].pc = "get_player"
      <3>1. Connected(o)
        BY <1>5, <1>6, MemberRuns, NoIdNowhere DEF Connected, MatchInv, OwnSlot
      <3>2. Goto(t, "restart_self")
        BY <1>1, <1>3, <1>4, <2>1, <2>2, <3>1, ActionsAt DEF GetPlayer, Restarting
      <3> QED BY <1>3, <1>8, <2>1, <3>2, GotoThread
    <2>3. CASE thr[t].pc = "restart_self"
      <3>1. Goto(t, "restart_opponent")
        BY <2>1, <2>3, ActionsAt DEF RestartSelf
      <3> QED BY <1>3, <1>8, <2>1, <3>1, GotoThread
    <2>4. CASE thr[t].pc = "restart_opponent"
      <3>1. PICK s : s = Messages(t)
        OBVIOUS
      <3>2. s = To(t, "GAME_START") \o To(o, "GAME_START")
        BY <1>3, <2>4, <3>1, Answers DEF MatchOpens
      <3>3. /\ DOMAIN s = {1, 2} /\ s[1] = [to |-> t, type |-> "GAME_START", n |-> 0]
            /\ s[2] = [to |-> o, type |-> "GAME_START", n |-> 0]
        <4>1. s = <<[to |-> t, type |-> "GAME_START", n |-> 0], [to |-> o, type |-> "GAME_START", n |-> 0]>>
          BY <3>2, TwoLetters
        <4> QED BY <4>1
      <3>4. \E i \in DOMAIN s : s[i].to = p /\ s[i].type = "GAME_START"
        BY <1>1, <1>3, <3>3
      <3> QED BY <1>10, <2>1, <3>1, <3>4 DEF Says
    <2> QED BY <1>4, <2>2, <2>3, <2>4
  <1> QED BY <1>9, <1>10

(* the server goes on with what a client waits for, or answers it *)
LEMMA BusyStep ==
  ASSUME MatchInv, NEW a \in Pid, ThreadStepOf(a), NEW p \in Pid, NEW w \in WaitStates, Busy(p, w)
  PROVE  Busy(p, w)' \/ (Work(a) /\ Says(a, p, Endings(w)))
  <1>1. CASE w = "WAITING_LOGIN"
    BY <1>1, LoginBusy
  <1>2. CASE w = "WAITING_SERVER"
    <2>1. Asking(p) \/ Agreed(p) \/ RestartDue(p)
      BY <1>2 DEF Busy
    <2>2. Asking(p)' \/ Agreed(p)' \/ RestartDue(p)' => Busy(p, w)'
      BY <1>2 DEF Busy
    <2>3. Endings(w) = {"ERROR", "GAME_START"}
      BY <1>2 DEF Endings
    <2> QED BY <2>1, <2>2, <2>3, AskingBusy, AgreedBusy, RestartBusy
  <1> QED BY <1>1, <1>2 DEF WaitStates

-----------------------------------------------------------------------------
(* The steps of a session keep the promise                                 *)

(* no thread ends, and only a new connection starts one *)
LEMMA StaysRunning ==
  ASSUME MatchInv, NEW a \in Pid, ThreadStepOf(a)
  PROVE  \A q \in Pid : \/ thr'[q].pc = "none" <=> thr[q].pc = "none"
                        \/ q = a /\ Connect(a)
  <1>1. TypeInv
    BY DEF MatchInv
  <1>2. CASE Connect(a)
    BY <1>2, OthersWait
  <1>3. CASE CheckInvite(a)
    <2>1. thr[a].pc = "check_invite" /\ (thr' = [thr EXCEPT ![a].pc = "assign_opponent"] \/ Return(a))
      BY <1>3 DEF CheckInvite, At, Goto
    <2>2. thr'[a].pc # "none"
      BY <1>1, <1>3, ReturnIdle, GotoThread DEF CheckInvite
    <2> QED BY <2>1, <2>2, OthersWait
  <1>4. CASE Receive(a) \/ Work(a)
    <2>1. ~RemovePlayer(a)
      BY NobodyDeparts DEF Departing, Leave
    <2>2. CASE ~CheckInvite(a)
      <3>1. thr[a].pc # "none" /\ thr'[a].pc # "none"
        BY <1>1, <1>4, <2>1, <2>2, RunningStep DEF Moves, Special
      <3> QED BY <3>1, OthersWait
    <2> QED BY <1>3, <2>2
  <1> QED BY <1>2, <1>4 DEF ThreadStepOf

(* what a step of a session does to the tables *)
LEMMA TablesStep ==
  ASSUME NEW a \in Pid, Arrive(a) \/ Type(a) \/ Deliver(a)
  PROVE  UNCHANGED vars \/ ThreadStepOf(a)
  BY ServerStep DEF ThreadStepOf

LEMMA ShownStaysOn ==
  ASSUME NEW s \in C!ClientStates, s # "DISCONNECTED", NEW m
  PROVE  /\ C!AfterMessage(s, m) # "DISCONNECTED"
         /\ \A w \in WaitStates : C!AfterMessage(s, m) = w => s = w
         /\ \A w \in WaitStates : s = w /\ m.type \in Endings(w) => C!AfterMessage(s, m) # w
  BY DEF C!AfterMessage, C!AfterError, C!Shown, C!CompletesFleet, C!ClientStates, WaitStates, Endings

LEMMA SentStaysOn ==
  ASSUME NEW s \in C!ClientStates, NEW cmd \in AllCommands,
         cmd \notin {"QUIT", "LEAVE_GAME", "WAIT_NEW_PLAYER", "REMATCH_DECLINE"}
  PROVE  /\ s # "DISCONNECTED" => C!AfterCommand(s, cmd) # "DISCONNECTED"
         /\ \A w \in WaitStates : C!AfterCommand(s, cmd) = w => s = w \/ cmd = Asked(w)
  BY DEF C!AfterCommand, C!Awaited, C!ClientStates, WaitStates, Asked

LEMMA LinkedStep ==
  ASSUME MatchInv, NobodyLeaves, SessionTypeOK, NEW a \in Pid, Arrive(a) \/ Type(a) \/ Deliver(a),
         NEW p \in Pid, Linked(p)
  PROVE  Linked(p)'
  <1>1. CASE Arrive(a)
    <2>1. /\ Connect(a) /\ client' = [client EXCEPT ![a].state = "CONNECTED"]
          /\ toClient' = toClient /\ thr' = [thr EXCEPT ![a] = Idle("receive")]
      BY <1>1 DEF Arrive, channels, Connect
    <2>2. thr'[p].pc = IF p = a THEN "receive" ELSE thr[p].pc
      BY <2>1 DEF Idle, MatchInv, TypeInv, TypeOK
    <2>3. client'[p].state = IF p = a THEN "CONNECTED" ELSE client[p].state
      BY <2>1 DEF SessionTypeOK
    <2>4. p # a => client'[p] = client[p]
      BY <2>1 DEF SessionTypeOK
    <2> QED BY <2>1, <2>2, <2>3, <2>4 DEF Linked
  <1>2. CASE Type(a)
    <2>1. PICK input \in C!Offered(client[a].state) : client' = [client EXCEPT ![a].typed = input]
      BY <1>2 DEF Type
    <2>2. client'[p].state = client[p].state /\ (p # a => client'[p] = client[p])
      BY <2>1 DEF SessionTypeOK
    <2>3. client[a].state # "DISCONNECTED"
      BY <2>1 DEF C!Offered
    <2>4. toClient' = toClient /\ thr' = thr
      BY <1>2 DEF Type, channels, vars
    <2> QED BY <2>2, <2>3, <2>4 DEF Linked
  <1>3. CASE Act(a)
    <2>1. PICK cmd \in Commands :
            /\ cmd \in AllCommands /\ cmd \notin {"QUIT", "LEAVE_GAME", "WAIT_NEW_PLAYER", "REMATCH_DECLINE"}
            /\ client' = [client EXCEPT ![a] = Sent(client[a], cmd)]
      BY <1>3, ActFacts
    <2>2. toClient' = toClient /\ thr' = thr /\ client[a].typed # "none"
      BY <1>3, ActFacts DEF vars
    <2>3. /\ client'[a].state = C!AfterCommand(client[a].state, cmd)
          /\ p # a => client'[p] = client[p]
      BY <2>1 DEF SessionTypeOK, Sent
    <2>4. client[a].state # "DISCONNECTED" => client'[a].state # "DISCONNECTED"
      BY <2>1, <2>3, SentStaysOn DEF SessionTypeOK
    <2> QED BY <2>2, <2>3, <2>4 DEF Linked
  <1>4. CASE TakeCommand(a) \/ Serve(a)
    <2>1. client' = client /\ toClient' = toClient
      BY <1>4 DEF TakeCommand, Serve
    <2>2. thr'[p].pc = "none" <=> thr[p].pc = "none"
      <3>1. UNCHANGED vars \/ Receive(a) \/ Work(a)
        BY <1>4 DEF TakeCommand, Serve
      <3>2. CASE UNCHANGED vars
        BY <3>2 DEF vars
      <3>3. CASE Receive(a) \/ Work(a)
        <4>1. thr[a].pc # "none"
          BY <3>3, NoCommand, ActionsAt, NobodyDeparts
        <4>2. ~Connect(a)
          BY <4>1, NoCommand
        <4> QED BY <3>3, <4>2, StaysRunning DEF ThreadStepOf
      <3> QED BY <3>1, <3>2, <3>3
    <2> QED BY <2>1, <2>2 DEF Linked
  <1>5. CASE Write(a)
    <2>1. thr' = thr /\ client' = client
          /\ (client[p].state # "DISCONNECTED" \/ toClient'[p] = toClient[p])
      BY <1>5, WriteFacts DEF vars
    <2> QED BY <2>1 DEF Linked
  <1>6. CASE Show(a)
    <2>1. PICK m : m = toClient[a][1]
      OBVIOUS
    <2>2. /\ thr' = thr /\ toClient[a] # <<>>
          /\ client'[a].state = C!AfterMessage(client[a].state, m)
          /\ p # a => toClient'[p] = toClient[p] /\ client'[p] = client[p]
      BY <1>6, <2>1, ShowFacts DEF vars
    <2>3. client[a].state # "DISCONNECTED" => client'[a].state # "DISCONNECTED"
      BY <2>2, ShownStaysOn DEF SessionTypeOK
    <2> QED BY <2>2, <2>3 DEF Linked
  <1> QED BY <1>1, <1>2, <1>3, <1>4, <1>5, <1>6 DEF Deliver

(* a client enters a waiting state with the command that is to be answered *)
LEMMA StartsToWait ==
  ASSUME MatchInv, NobodyLeaves, SessionTypeOK, NEW a \in Pid, Arrive(a) \/ Type(a) \/ Deliver(a),
         NEW p \in Pid, Linked(p), NEW w \in WaitStates, client'[p].state = w
  PROVE  client[p].state = w \/ Queued(p, Asked(w))'
  <1>1. CASE Arrive(a)
    <2>1. client'[p].state = IF p = a THEN "CONNECTED" ELSE client[p].state
      BY <1>1 DEF Arrive, SessionTypeOK
    <2> QED BY <2>1 DEF WaitStates
  <1>2. CASE Type(a)
    BY <1>2 DEF Type, SessionTypeOK
  <1>3. CASE TakeCommand(a) \/ Serve(a) \/ Write(a)
    BY <1>3 DEF TakeCommand, Serve, Write
  <1>4. CASE Show(a)
    <2>1. PICK m : m = toClient[a][1]
      OBVIOUS
    <2>2. /\ toClient[a] # <<>> /\ client'[a].state = C!AfterMessage(client[a].state, m)
          /\ p # a => client'[p] = client[p]
      BY <1>4, <2>1, ShowFacts
    <2>3. CASE p = a
      <3>1. client[p].state # "DISCONNECTED" /\ client[p].state \in C!ClientStates
        BY <2>2, <2>3 DEF Linked, SessionTypeOK
      <3> QED BY <2>2, <2>3, <3>1, ShownStaysOn
    <2> QED BY <2>2, <2>3
  <1>5. CASE Act(a)
    <2>1. PICK cmd \in Commands :
            /\ cmd \in AllCommands /\ cmd \notin {"QUIT", "LEAVE_GAME", "WAIT_NEW_PLAYER", "REMATCH_DECLINE"}
            /\ client' = [client EXCEPT ![a] = Sent(client[a], cmd)]
            /\ toServer' = [toServer EXCEPT ![a] = Append(toServer[a], cmd)]
      BY <1>5, ActFacts
    <2>2. /\ client'[a].state = C!AfterCommand(client[a].state, cmd)
          /\ p # a => client'[p] = client[p]
      BY <2>1 DEF SessionTypeOK, Sent
    <2>3. CASE p = a
      <3>1. client[p].state = w \/ cmd = Asked(w)
        BY <2>1, <2>2, <2>3, SentStaysOn DEF SessionTypeOK
      <3>2. toServer'[p] = Append(toServer[p], cmd) /\ toServer[p] \in Seq(AllCommands)
        BY <2>1, <2>3 DEF SessionTypeOK
      <3>3. PICK k : k = Len(toServer[p]) + 1
        OBVIOUS
      <3>4. k \in DOMAIN toServer'[p] /\ toServer'[p][k] = cmd
        BY <2>1, <3>2, <3>3, AppendKeeps
      <3> QED BY <3>1, <3>4 DEF Queued
    <2> QED BY <2>2, <2>3
  <1> QED BY <1>1, <1>2, <1>3, <1>4, <1>5 DEF Deliver

(* a section answers, and the answer waits in the outbox of its thread *)
LEMMA SaidIsComing ==
  ASSUME SessionTypeOK, NEW a \in Pid, Serve(a), NEW p \in Pid, NEW types, Says(a, p, types)
  PROVE  Coming(p, types)'
  <1>1. outbox'[a] = Messages(a)
    BY ServeFacts
  <1>2. PICK s : s = Messages(a)
    OBVIOUS
  <1>3. \E i \in DOMAIN s : s[i].to = p /\ s[i].type \in types
    BY <1>2 DEF Says
  <1>4. outbox'[a] = s
    BY <1>1, <1>2
  <1> QED BY <1>3, <1>4 DEF Coming, Posted

LEMMA BusyKept ==
  ASSUME UNCHANGED vars, NEW p \in Pid, NEW w, Busy(p, w) PROVE Busy(p, w)'
  BY DEF vars, Busy, Asking, Agreed, WantsRematch, RestartDue, Restarting, GameOf

(* a command that is taken is worked on, or refused with an ERROR *)
LEMMA TakenCommand ==
  ASSUME MatchInv, SessionTypeOK, NEW p \in Pid, TakeCommand(p), NEW w \in WaitStates,
         Head(toServer[p]) = Asked(w)
  PROVE  Busy(p, w)' \/ Coming(p, Endings(w))'
  <1>1. \/ Receive(p) /\ thr'[p].cmd = Asked(w)
        \/ outbox'[p] = To(p, "ERROR")
    BY TakeFacts
  <1>2. CASE Receive(p) /\ thr'[p].cmd = Asked(w)
    <2>1. PICK k \in Commands : thr' = [thr EXCEPT ![p] = [thr[p] EXCEPT !.pc = FirstSection(k), !.cmd = k]]
      BY <1>2 DEF Receive
    <2>2. thr'[p] = [thr[p] EXCEPT !.pc = FirstSection(k), !.cmd = k] /\ thr[p] \in Thread
      BY <2>1, Mine, MovesThread, Locals
    <2>3. thr'[p].pc = FirstSection(k) /\ thr'[p].cmd = k
      BY <2>2 DEF Thread
    <2>4. k = Asked(w)
      BY <1>2, <2>3
    <2>5. CASE w = "WAITING_LOGIN"
      BY <2>3, <2>4, <2>5 DEF Busy, Asked
    <2>6. CASE w = "WAITING_SERVER"
      <3>1. thr'[p].cmd = "REMATCH" /\ thr'[p].pc = "read_game_id"
        BY <2>3, <2>4, <2>6 DEF Asked, FirstSection
      <3> QED BY <2>6, <3>1 DEF Busy, Asking
    <2> QED BY <2>5, <2>6 DEF WaitStates
  <1>3. CASE outbox'[p] = To(p, "ERROR")
    <2>1. PICK s : s = To(p, "ERROR")
      OBVIOUS
    <2>2. DOMAIN s = {1} /\ s[1] = [to |-> p, type |-> "ERROR", n |-> 0]
      BY <2>1, OneLetter
    <2>3. "ERROR" \in Endings(w)
      BY DEF Endings
    <2>4. \E i \in DOMAIN s : s[i].to = p /\ s[i].type \in Endings(w)
      BY <2>2, <2>3
    <2> QED BY <1>3, <2>1, <2>4 DEF Coming, Posted
  <1> QED BY <1>1, <1>2, <1>3

(* what the server is doing for a client becomes an answer *)
LEMMA BusyAnswered ==
  ASSUME MatchInv, NobodyLeaves, SessionTypeOK, NEW a \in Pid, Arrive(a) \/ Type(a) \/ Deliver(a),
         NEW p \in Pid, NEW w \in WaitStates, Busy(p, w)
  PROVE  Busy(p, w)' \/ Coming(p, Endings(w))'
  <1>1. \/ UNCHANGED vars
        \/ Connect(a)
        \/ Receive(a)
        \/ Work(a) /\ Serve(a)
    BY ServerStep
  <1>2. CASE UNCHANGED vars
    BY <1>2, BusyKept
  <1>3. CASE Connect(a) \/ Receive(a)
    <2>1. ~Work(a)
      BY <1>3, NoCommand, ActionsAt, NobodyDeparts
    <2> QED BY <1>3, <2>1, BusyStep DEF ThreadStepOf
  <1>4. CASE Work(a) /\ Serve(a)
    <2>1. Busy(p, w)' \/ Says(a, p, Endings(w))
      BY <1>4, BusyStep DEF ThreadStepOf
    <2> QED BY <1>4, <2>1, SaidIsComing
  <1> QED BY <1>1, <1>2, <1>3, <1>4

LEMMA AnswerStep ==
  ASSUME MatchInv, NobodyLeaves, SessionTypeOK, NEW a \in Pid, Arrive(a) \/ Type(a) \/ Deliver(a),
         NEW p \in Pid, AnswerInv(p)
  PROVE  AnswerInv(p)'
  <1>1. Linked(p) /\ Linked(p)'
    BY LinkedStep DEF AnswerInv
  <1>2. ASSUME NEW w \in WaitStates, client'[p].state = w
        PROVE  Queued(p, Asked(w))' \/ Coming(p, Endings(w))' \/ Busy(p, w)'
    <2>1. CASE client[p].state # w
      BY <1>1, <1>2, <2>1, StartsToWait
    <2>2. CASE client[p].state = w
      <3>1. Queued(p, Asked(w)) \/ Coming(p, Endings(w)) \/ Busy(p, w)
        BY <2>2 DEF AnswerInv
      <3>2. CASE Queued(p, Asked(w))
        BY <3>2, QueuedStep, TakenCommand
      <3>3. CASE Coming(p, Endings(w))
        <4>1. client[p].state # "DISCONNECTED"
          BY <2>2 DEF WaitStates
        <4>2. Connected(p)
          BY <1>1, <4>1, NoIdNowhere DEF Linked, Connected, MatchInv, OwnSlot
        <4>3. Show(a) /\ a = p => toClient[p][1].type \notin Endings(w)
          <5> SUFFICES ASSUME Show(p), toClient[p][1].type \in Endings(w), a = p PROVE FALSE
            OBVIOUS
          <5>1. PICK m : m = toClient[p][1]
            OBVIOUS
          <5>2. client'[p].state = C!AfterMessage(client[p].state, m)
            BY <5>1, ShowFacts
          <5>3. m.type \in Endings(w) /\ client[p].state \in C!ClientStates
            BY <5>1 DEF SessionTypeOK
          <5> QED BY <1>2, <2>2, <4>1, <5>2, <5>3, ShownStaysOn
        <4> QED BY <3>3, <4>1, <4>2, <4>3, ComingStep
      <3>4. CASE Busy(p, w)
        BY <3>4, BusyAnswered
      <3> QED BY <3>1, <3>2, <3>3, <3>4
    <2> QED BY <2>1, <2>2
  <1> QED BY <1>1, <1>2 DEF AnswerInv

LEMMA AnswerInit == SessionInit => AnswerInvs
  BY DEF SessionInit, Init, Idle, Gone, AnswerInvs, AnswerInv, Linked, WaitStates

(* when nothing is on its way, the rematch has been asked for *)
LEMMA AnsweredAtRest ==
  ASSUME MatchInv, SessionTypeOK, AnswerInvs PROVE Answered
  <1> SUFFICES ASSUME AtRest, NEW p \in Pid, NEW w \in WaitStates, client[p].state = w
               PROVE  WantsRematch(p)
    BY DEF Answered, WaitStates
  <1>1. \A q \in Pid : /\ thr[q].pc \in {"none", "receive"} /\ thr[q].cmd = "NONE"
                       /\ toServer[q] = <<>> /\ outbox[q] = <<>> /\ toClient[q] = <<>>
    BY NoCommand DEF AtRest
  <1>2. ~Queued(p, Asked(w)) /\ ~Coming(p, Endings(w))
    BY <1>1 DEF Queued, Coming, Posted
  <1>3. ~Asking(p) /\ ~RestartDue(p) /\ thr[p].cmd # "LOGIN"
    BY <1>1 DEF Asking, RestartDue, Restarting
  <1>4. Busy(p, w)
    BY <1>2 DEF AnswerInvs, AnswerInv
  <1> QED BY <1>3, <1>4 DEF Busy, Agreed

LEMMA AnswerStutter ==
  ASSUME UNCHANGED allVars, SessionTypeOK, AnswerInvs PROVE SessionTypeOK' /\ AnswerInvs'
  <1> USE DEF allVars, sessionVars, channels, history
  <1>1. SessionTypeOK'
    BY DEF SessionTypeOK
  <1>2. ASSUME NEW p \in Pid PROVE AnswerInv(p)'
    <2>1. Linked(p)'
      BY DEF AnswerInvs, AnswerInv, Linked, vars
    <2>2. ASSUME NEW w \in WaitStates PROVE /\ Queued(p, Asked(w)) => Queued(p, Asked(w))'
                                            /\ Coming(p, Endings(w)) => Coming(p, Endings(w))'
                                            /\ Busy(p, w) => Busy(p, w)'
      <3>1. Queued(p, Asked(w)) => Queued(p, Asked(w))'
        BY DEF Queued
      <3>2. Coming(p, Endings(w)) => Coming(p, Endings(w))'
        BY DEF Coming, Posted
      <3> QED BY <3>1, <3>2, BusyKept
    <2> QED BY <2>1, <2>2 DEF AnswerInvs, AnswerInv
  <1> QED BY <1>1, <1>2 DEF AnswerInvs

(* the invariants of a session in which nobody leaves *)
LEMMA AnswersKept ==
  ASSUME NobodyLeaves, SeveralShips
  PROVE  SessionSpec => [](MatchInv /\ SessionTypeOK /\ AnswerInvs)
  <1> DEFINE Inv == SessionTypeOK /\ AnswerInvs
  <1>1. SessionInit => Inv
    BY SessionTypeInit, AnswerInit
  <1>2. ASSUME MatchInv, MatchInv', Inv, [SessionNext]_allVars PROVE Inv'
    <2>1. CASE UNCHANGED allVars
      BY <1>2, <2>1, AnswerStutter
    <2>2. ASSUME NEW a \in Pid, Arrive(a) \/ Type(a) \/ Interrupt(a) \/ Deliver(a) PROVE Inv'
      <3>1. ~Interrupt(a)
        BY DEF Interrupt, NobodyLeaves
      <3>2. SessionTypeOK'
        BY <1>2, <2>2, SessionTypeStep DEF MatchInv
      <3>3. \A p \in Pid : AnswerInv(p)'
        BY <1>2, <2>2, <3>1, AnswerStep DEF AnswerInvs
      <3> QED BY <3>2, <3>3 DEF AnswerInvs
    <2> QED BY <1>2, <2>1, <2>2 DEF SessionNext
  <1>3. SessionSpec => []MatchInv
    BY SessionIsServer, MatchKept, PTL
  <1> QED BY <1>1, <1>2, <1>3, PTL DEF SessionSpec

(* While nobody leaves, every LOGIN and every REMATCH is answered, for any  *)
(* number of clients and games and whatever they type ahead: the receiving *)
(* and the input thread of a client overwrite each other's state           *)
(* (client.c), a handler writes its answers after it has given up its      *)
(* locks, and still no client is left waiting, but for the one whose       *)
(* opponent has not agreed to the rematch.                                 *)
THEOREM EveryoneAnswered ==
  ASSUME NobodyLeaves, SeveralShips PROVE SessionSpec => []Answered
  BY AnswersKept, AnsweredAtRest, PTL

-----------------------------------------------------------------------------
(* Whose turn it is, and which commands a thread works on                  *)

(* the turn only leaves a player by its own shot *)
LEMMA TurnStep ==
  ASSUME MatchInv, NEW a \in Pid, ThreadStepOf(a), NEW p \in Pid, Turn(p)
  PROVE  Turn(p)' \/ (a = p /\ thr[p].pc \in {"pass_turn", "declare_win"})
  <1>1. PICK g : g = GameOf(p)
    OBVIOUS
  <1>2. /\ g # NoId /\ games[g].state = "IN_PROGRESS" /\ games[g].current_turn = p
        /\ g \in Gid /\ Used(g) /\ GameOf(p)' = g
    BY <1>1, GameOfPlayer, StaysAttached DEF Turn, Used
  <1>3. ASSUME games'[g] = games[g] PROVE Turn(p)'
    BY <1>2, <1>3 DEF Turn
  <1>4. CASE ~(thr[a].game = g /\ thr[a].pc \in {"pass_turn", "declare_win", "ask_rematch"})
    BY <1>2, <1>3, <1>4, MatchUntouched
  <1>5. CASE thr[a].game = g /\ thr[a].pc \in {"pass_turn", "declare_win"}
    <2>1. thr[a].cmd = "FIRE"
      BY <1>5, Mine DEF HandlerOK, SectionsOf
    <2>2. games[g].current_turn = a
      BY <1>5, <2>1, DuringShot DEF Shooting
    <2> QED BY <1>2, <1>5, <2>2
  <1>6. CASE thr[a].game = g /\ thr[a].pc = "ask_rematch"
    <2>1. Work(a) /\ ~Departing(a)
      BY <1>6, NoCommand, NobodyDeparts DEF ThreadStepOf
    <2>2. AskRematch(a)
      BY <1>6, <2>1, ActionsAt
    <2>3. games' = games
      BY <1>2, <1>6, <2>2 DEF AskRematch
    <2> QED BY <1>3, <2>3
  <1> QED BY <1>4, <1>5, <1>6

(* a thread at work keeps its command or is done with it *)
KeepsCommand(p) == thr'[p].cmd \in {thr[p].cmd, "NONE"}

LEMMA ThreadKeeps ==
  ASSUME TypeInv, NEW p \in Pid, NEW t, thr' = [thr EXCEPT ![p] = t], t.cmd \in {thr[p].cmd, "NONE"}
  PROVE  KeepsCommand(p)
  BY MovesThread DEF KeepsCommand

LEMMA FetchKeeps ==
  ASSUME TypeInv, NEW p \in Pid, NEW s, NEW g, NEW o, NEW b
  PROVE  /\ thr' = [thr EXCEPT ![p] = [thr[p] EXCEPT !.pc = s, !.game = g]] => KeepsCommand(p)
         /\ thr' = [thr EXCEPT ![p] = [thr[p] EXCEPT !.pc = s, !.other = o]] => KeepsCommand(p)
         /\ thr' = [thr EXCEPT ![p] = [thr[p] EXCEPT !.pc = s, !.creator = o]] => KeepsCommand(p)
         /\ thr' = [thr EXCEPT ![p] = [thr[p] EXCEPT !.pc = s, !.creator = g, !.other = o]] => KeepsCommand(p)
         /\ thr' = [thr EXCEPT ![p] = [thr[p] EXCEPT !.pc = s, !.other = o, !.flag = b]] => KeepsCommand(p)
  <1> DEFINE c == thr[p].cmd
  <1>1. thr[p] \in Thread
    BY Locals
  <1>2. /\ [thr[p] EXCEPT !.pc = s, !.game = g].cmd = c
        /\ [thr[p] EXCEPT !.pc = s, !.other = o].cmd = c
        /\ [thr[p] EXCEPT !.pc = s, !.creator = o].cmd = c
        /\ [thr[p] EXCEPT !.pc = s, !.creator = g, !.other = o].cmd = c
        /\ [thr[p] EXCEPT !.pc = s, !.other = o, !.flag = b].cmd = c
    BY <1>1 DEF Thread
  <1>3. ASSUME NEW t, t.cmd = c, thr' = [thr EXCEPT ![p] = t] PROVE KeepsCommand(p)
    BY <1>3, ThreadKeeps
  <1> HIDE DEF c
  <1> QED BY <1>2, <1>3

LEMMA ReturnKeeps == ASSUME TypeInv, NEW p \in Pid, Return(p) PROVE KeepsCommand(p)
  BY ReturnIdle DEF KeepsCommand

LEMMA GotoKeeps == ASSUME TypeInv, NEW p \in Pid, NEW s, Goto(p, s) PROVE KeepsCommand(p)
  BY GotoThread DEF KeepsCommand

LEMMA WorkKeepsCommand ==
  ASSUME MatchInv, NEW p \in Pid, Work(p) PROVE KeepsCommand(p)
  <1>1. TypeInv
    BY Mine
  <1>2. CASE ReadGameId(p) \/ GetGame(p)
    BY <1>1, <1>2, FetchKeeps, ReturnKeeps, GotoKeeps DEF ReadGameId, GetGame
  <1>3. CASE GetPlayer(p)
    <2>1. thr[p].pc = "get_player"
      BY <1>3 DEF GetPlayer, At
    <2>2. ASSUME thr[p].cmd = "REMATCH" PROVE Connected(thr[p].other)
      <3>1. thr[p].other = OtherMember(thr[p].game, p) /\ thr[p].game = GameOf(p)
        BY <2>1, <2>2, Mine DEF ShotOK, LocalOK
      <3>2. players[p].state \in {"FINISHED", "PLACING_SHIPS"}
        BY <2>1, <2>2, Mine DEF HandlerOK, StatesIn
      <3>3. GameOf(p) # NoId
        BY <3>2, Mine DEF AttachedOK
      <3>4. /\ GameOf(p) \in Gid /\ p \in Members(GameOf(p))
            /\ games[GameOf(p)].state \in {"FINISHED", "PLACING_SHIPS"}
            /\ games[GameOf(p)] # FreeGame
        BY <3>2, <3>3, GameOfPlayer, UsedIsNotFree DEF Phases, Used
      <3>5. thr[p].other \in Pid /\ thr[p].other \in Members(GameOf(p))
        BY <3>1, <3>4, TwoSeats
      <3>6. thr[thr[p].other].pc # "none"
        BY <3>4, <3>5, MemberRuns
      <3> QED BY <3>5, <3>6, NoIdNowhere DEF MatchInv, OwnSlot, Connected
    <2> QED BY <1>1, <1>3, <2>2, ReturnKeeps, GotoKeeps DEF GetPlayer
  <1>4. CASE Login(p)
    BY <1>1, <1>4, ReturnKeeps, GotoKeeps DEF Login, SetUsername, EnterLobby
  <1>5. CASE Create(p)
    BY <1>1, <1>5, FetchKeeps, ReturnKeeps DEF Create, CreateGame, CopyCode, AttachCreator
  <1>6. CASE FindCode(p) \/ SetInvited(p)
    BY <1>1, <1>6, FetchKeeps, ReturnKeeps DEF FindCode, SetInvited
  <1>7. CASE FileRequest(p)
    <2>1. thr[p].cmd = "JOIN_GAME"
      BY <1>7, Mine DEF FileRequest, At, HandlerOK, SectionsOf
    <2> DEFINE t == [Idle("set_invited") EXCEPT !.cmd = "JOIN_GAME", !.creator = games[thr[p].game].creator_id]
    <2>2. Return(p) \/ thr' = [thr EXCEPT ![p] = t]
      BY <1>7 DEF FileRequest
    <2>3. t.cmd = "JOIN_GAME"
      BY DEF Idle
    <2> HIDE DEF t
    <2> QED BY <1>1, <2>1, <2>2, <2>3, ReturnKeeps, ThreadKeeps
  <1>8. CASE Resolve(p) \/ AssignOpponent(p)
    BY <1>1, <1>8, FetchKeeps, ReturnKeeps DEF Resolve, AssignOpponent
  <1>9. CASE CheckInvite(p) \/ SeatRequester(p) \/ SeatCreator(p) \/ ClearInvite(p) \/ ReleaseRequester(p)
    BY <1>1, <1>9, ReturnKeeps, GotoKeeps
       DEF CheckInvite, SeatRequester, SeatCreator, ClearInvite, ReleaseRequester
  <1>10. CASE PlaceShip(p) \/ SetReady(p) \/ GetCreator(p) \/ GetOpponent(p) \/ StartCreator(p) \/ StartOpponent(p)
    BY <1>1, <1>10, FetchKeeps, ReturnKeeps, GotoKeeps
       DEF PlaceShip, SetReady, GetCreator, GetOpponent, StartCreator, StartOpponent
  <1>11. CASE MarkReady(p)
    <2> DEFINE t == [thr[p] EXCEPT !.pc = "get_creator", !.creator = games[thr[p].game].creator_id,
                                   !.other = games[thr[p].game].opponent_id]
    <2>1. Return(p) \/ thr' = [thr EXCEPT ![p] = t]
      BY <1>11 DEF MarkReady
    <2>2. t.cmd = thr[p].cmd
      BY <1>1, Locals DEF Thread
    <2> HIDE DEF t
    <2> QED BY <1>1, <2>1, <2>2, ReturnKeeps, ThreadKeeps
  <1>12. CASE CheckTurn(p)
    BY <1>1, <1>12, FetchKeeps, ReturnKeeps DEF CheckTurn
  <1>13. CASE Shoot(p) \/ DeclareWin(p) \/ FinishSelf(p) \/ FinishOpponent(p) \/ PassTurn(p)
    BY <1>1, <1>13, ReturnKeeps, GotoKeeps DEF Shoot, DeclareWin, FinishSelf, FinishOpponent, PassTurn
  <1>14. CASE AskRematch(p)
    <2>1. Return(p) \/ \E o, b : thr' = [thr EXCEPT ![p] = [thr[p] EXCEPT !.pc = "get_player", !.other = o, !.flag = b]]
      BY <1>14 DEF AskRematch
    <2>2. ASSUME NEW o, NEW b, NEW t, t = [thr[p] EXCEPT !.pc = "get_player", !.other = o, !.flag = b],
                 thr' = [thr EXCEPT ![p] = t]
          PROVE  KeepsCommand(p)
      <3>1. t.cmd = thr[p].cmd
        BY <1>1, <2>2, Locals DEF Thread
      <3> QED BY <1>1, <2>2, <3>1, ThreadKeeps
    <2> QED BY <1>1, <2>1, <2>2, ReturnKeeps
  <1>15. CASE RestartSelf(p) \/ RestartOpponent(p)
    BY <1>1, <1>15, ReturnKeeps, GotoKeeps DEF RestartSelf, RestartOpponent
  <1>16. CASE Aim(p)
    <2>1. PICK t : thr' = [thr EXCEPT ![p] = t] /\ t.cmd = thr[p].cmd
      BY <1>1, <1>16, AimStep
    <2> QED BY <1>1, <2>1, ThreadKeeps
  <1> QED BY <1>2, <1>3, <1>4, <1>5, <1>6, <1>7, <1>8, <1>9, <1>10, <1>11, <1>12, <1>13, <1>14, <1>15,
             <1>16, NobodyDeparts DEF Work, Join, Invite, Placing, Fire, Departing, Again

Launching == {"get_creator", "get_opponent", "start_creator", "start_opponent"}

(* a match is started by the READY that completes the pair, and by no other *)
(* step                                                                     *)
LEMMA StartsStep ==
  ASSUME MatchInv, MatchInv', NEW a \in Pid, ThreadStepOf(a), NEW t \in Pid, NEW p \in Pid, StartsWith(t, p)'
  PROVE  StartsWith(t, p) \/ (t = a /\ MarkReady(a))
  <1>1. thr'[t].pc \in Launching /\ thr'[t].creator = p
    BY DEF StartsWith, Starting, Launching
  <1>2. CASE t # a
    BY <1>1, <1>2, OthersWait DEF StartsWith, Starting, Launching
  <1>3. CASE t = a
    <2>1. thr'[a].cmd = "READY"
      <3>1. HandlerOK(a)'
        BY DEF MatchInv, Threads, ThreadInv
      <3> QED BY <1>1, <1>3, <3>1 DEF HandlerOK, SectionsOf, Launching
    <2>2. Work(a)
      <3>1. CASE Connect(a)
        <4>1. thr'[a] = Idle("receive")
          BY <3>1, MovesThread, Mine DEF Connect
        <4> QED BY <1>1, <1>3, <4>1 DEF Idle, Launching
      <3>2. CASE Receive(a)
        <4>1. PICK k \in Commands : thr' = [thr EXCEPT ![a] = [thr[a] EXCEPT !.pc = FirstSection(k), !.cmd = k]]
          BY <3>2 DEF Receive
        <4>2. thr[a] \in Thread /\ thr'[a] = [thr[a] EXCEPT !.pc = FirstSection(k), !.cmd = k]
          BY <4>1, Mine, Locals, MovesThread
        <4>3. thr'[a].pc = FirstSection(k)
          BY <4>2 DEF Thread
        <4> QED BY <1>1, <1>3, <4>3 DEF FirstSection, Launching
      <3> QED BY <3>1, <3>2 DEF ThreadStepOf
    <2>3. thr[a].cmd = "READY" /\ ~Departing(a)
      BY <2>1, <2>2, WorkKeepsCommand, NobodyDeparts DEF KeepsCommand
    <2>4. thr[a].pc \in {"set_ready", "get_game", "mark_ready"} \union Launching
      BY <2>3, Mine DEF HandlerOK, SectionsOf, Launching
    <2>5. TypeInv /\ thr[a] \in Thread
      BY Mine, Locals
    <2>6. CASE thr[a].pc = "set_ready"
      <3>1. SetReady(a)
        BY <2>2, <2>3, <2>6 DEF Work, Departing, Login, SetUsername, EnterLobby, ReadGameId, GetGame, GetPlayer,
             Create, CreateGame, CopyCode, AttachCreator, Join, FindCode, FileRequest, SetInvited,
             Invite, Resolve, CheckInvite, AssignOpponent, SeatRequester, SeatCreator, ClearInvite,
             ReleaseRequester, Placing, PlaceShip, MarkReady, GetCreator, GetOpponent, StartCreator,
             StartOpponent, Fire, CheckTurn, Aim, OrderFirst, OrderSecond, LockFirst, Shoot,
             DeclareWin, FinishSelf, FinishOpponent, PassTurn, Again, AskRematch, RestartSelf, RestartOpponent, At
      <3>2. Return(a) \/ thr' = [thr EXCEPT ![a] = [thr[a] EXCEPT !.pc = "get_game", !.game = players[a].current_game_id]]
        BY <3>1 DEF SetReady
      <3>3. thr'[a].pc \in {"receive", "get_game"}
        <4> DEFINE row == [thr[a] EXCEPT !.pc = "get_game", !.game = players[a].current_game_id]
        <4>1. row.pc = "get_game"
          BY <2>5 DEF Thread
        <4>2. Return(a) \/ thr' = [thr EXCEPT ![a] = row]
          BY <3>2
        <4> HIDE DEF row
        <4> QED BY <2>5, <4>1, <4>2, ReturnIdle, MovesThread
      <3> QED BY <1>1, <1>3, <3>3 DEF Launching
    <2>7. CASE thr[a].pc = "get_game"
      <3>1. GetGame(a)
        BY <2>2, <2>3, <2>7, ActionsAt
      <3>2. Return(a) \/ Goto(a, "mark_ready")
        BY <2>3, <3>1 DEF GetGame
      <3>3. thr'[a].pc \in {"receive", "mark_ready"}
        BY <2>5, <3>2, ReturnIdle, GotoThread
      <3> QED BY <1>1, <1>3, <3>3 DEF Launching
    <2>8. CASE thr[a].pc = "mark_ready"
      BY <1>3, <2>2, <2>3, <2>8, ActionsAt
    <2>9. CASE thr[a].pc \in Launching
      <3>1. thr'[a].creator \in {thr[a].creator, NoId}
        <4>1. CASE GetCreator(a)
          <5>1. PICK i \in {thr[a].creator, NoId} :
                  thr' = [thr EXCEPT ![a] = [thr[a] EXCEPT !.pc = "get_opponent", !.creator = i]]
            BY <4>1 DEF GetCreator
          <5>2. thr'[a] = [thr[a] EXCEPT !.pc = "get_opponent", !.creator = i]
            BY <2>5, <5>1, MovesThread
          <5>3. thr'[a].creator = i
            BY <2>5, <5>2 DEF Thread
          <5> QED BY <5>3
        <4>2. CASE GetOpponent(a) \/ StartCreator(a) \/ StartOpponent(a)
          <5>1. Return(a) \/ Goto(a, "start_creator") \/ Goto(a, "start_opponent")
            BY <4>2 DEF GetOpponent, StartCreator, StartOpponent
          <5>2. ASSUME Return(a) PROVE FALSE
            <6>1. thr'[a].pc = "receive"
              BY <2>5, <5>2, ReturnIdle
            <6> QED BY <1>1, <1>3, <6>1 DEF Launching
          <5> QED BY <2>5, <5>1, <5>2, GotoThread
        <4> QED BY <2>2, <2>3, <2>9, <4>1, <4>2, ActionsAt DEF Launching
      <3>2. thr[a].creator = p
        BY <1>1, <1>3, <3>1, NoIdNowhere
      <3> QED BY <1>3, <2>9, <3>2 DEF StartsWith, Starting, Launching
    <2> QED BY <2>4, <2>6, <2>7, <2>8, <2>9
  <1> QED BY <1>2, <1>3

-----------------------------------------------------------------------------
(* What keeps the turns that the clients know                              *)

LEMMA TurnKept ==
  ASSUME NEW p \in Pid, TurnInv(p), OneFire(p)',
         Turn(p) => Turn(p)', Told(p)' => Told(p), Firing(p)' => Firing(p),
         \A t \in Pid : Promised(t, p)' => Promised(t, p),
         \A t \in Pid : ~(Turned(t, p)' /\ StartsWith(t, p)') /\ Once(t, p)',
         Told(p)' /\ Passed(p) => Passed(p)',
         Told(p)' /\ Finishing(p) => Finishing(p)'
  PROVE  TurnInv(p)'
  <1>1. /\ PromiseOK(p) /\ (Told(p) /\ ~Turn(p) => Passed(p) \/ Finishing(p))
        /\ Firing(p) => Turn(p)
    BY DEF TurnInv
  <1>2. PromiseOK(p)'
    <2>1. \A t \in Pid : Promised(t, p)' => Turn(p)' /\ ~Told(p)' /\ ~Firing(p)'
      BY <1>1 DEF PromiseOK
    <2>2. \A t, u \in Pid : Promised(t, p)' /\ Promised(u, p)' => t = u
      BY <1>1 DEF PromiseOK
    <2> QED BY <2>1, <2>2 DEF PromiseOK
  <1> QED BY <1>1, <1>2 DEF TurnInv

(* an outbox that stays, loses its first letter or announces p no turn *)
NoTurn(letters, p) == \A i \in DOMAIN letters : ~Turns(letters[i], p)

LEMMA LettersKept ==
  ASSUME SessionTypeOK, NEW t \in Pid, NEW p \in Pid, Once(t, p),
         \/ outbox'[t] = outbox[t]
         \/ outbox[t] # <<>> /\ outbox'[t] = Tail(outbox[t])
         \/ NoTurn(outbox'[t], p)
  PROVE  (Turned(t, p)' => Turned(t, p)) /\ Once(t, p)'
  <1>1. CASE outbox'[t] = outbox[t]
    BY <1>1 DEF Turned, Once
  <1>2. CASE outbox[t] # <<>> /\ outbox'[t] = Tail(outbox[t])
    <2>1. outbox[t] \in Seq(Letter)
      BY DEF SessionTypeOK
    <2>2. \A k \in DOMAIN outbox'[t] : \E i \in DOMAIN outbox[t] : i = k + 1 /\ outbox'[t][k] = outbox[t][i]
      BY <1>2, <2>1, TailKeeps
    <2>3. outbox'[t] \in Seq(Letter)
      BY <1>2, <2>1, TailKeeps
    <2>4. Turned(t, p)' => Turned(t, p)
      BY <2>2 DEF Turned
    <2>5. ASSUME NEW k \in DOMAIN outbox'[t], NEW l \in DOMAIN outbox'[t],
                 Turns(outbox'[t][k], p), Turns(outbox'[t][l], p)
          PROVE  k = l
      <3>1. PICK i \in DOMAIN outbox[t] : i = k + 1 /\ outbox'[t][k] = outbox[t][i]
        BY <2>2
      <3>2. PICK j \in DOMAIN outbox[t] : j = l + 1 /\ outbox'[t][l] = outbox[t][j]
        BY <2>2
      <3>3. i = j
        BY <2>5, <3>1, <3>2 DEF Once
      <3>4. k \in Nat /\ l \in Nat
        BY <2>3
      <3> QED BY <3>1, <3>2, <3>3, <3>4
    <2> QED BY <2>4, <2>5 DEF Once
  <1>3. CASE NoTurn(outbox'[t], p)
    BY <1>3 DEF NoTurn, Turned, Once, Turns
  <1> QED BY <1>1, <1>2, <1>3

LEMMA SameView ==
  ASSUME NEW p \in Pid, client'[p] = client[p], toClient'[p] = toClient[p],
         toServer'[p] = toServer[p], thr'[p] = thr[p]
  PROVE  /\ Told(p)' <=> Told(p)
         /\ Firing(p)' <=> Firing(p)
         /\ OneFire(p)' <=> OneFire(p)
  <1>1. Told(p)' <=> Told(p)
    BY DEF Told
  <1>2. Queued(p, "FIRE")' <=> Queued(p, "FIRE")
    BY DEF Queued
  <1>3. Firing(p)' <=> Firing(p)
    BY <1>2 DEF Firing, Handling
  <1>4. OneFire(p)' <=> OneFire(p)
    BY <1>2 DEF OneFire
  <1> QED BY <1>1, <1>3, <1>4

LEMMA PassedStays ==
  ASSUME NEW p \in Pid, Passed(p), outbox'[p] = outbox[p],
         \A q \in Pid : GameOf(q) # NoId => GameOf(q)' = GameOf(q)
  PROVE  Passed(p)'
  <1>1. PICK o \in Pid \ {p} : GameOf(p) # NoId /\ GameOf(o) = GameOf(p) /\ outbox[p] = TurnPassed(p, o)
    BY DEF Passed
  <1>2. GameOf(p)' # NoId /\ GameOf(o)' = GameOf(p)'
    BY <1>1
  <1>3. outbox'[p] = TurnPassed(p, o)
    BY <1>1
  <1> QED BY <1>2, <1>3 DEF Passed

LEMMA TablesKept ==
  ASSUME UNCHANGED vars, NEW p \in Pid
  PROVE  /\ Turn(p)' <=> Turn(p)
         /\ \A t \in Pid : StartsWith(t, p)' <=> StartsWith(t, p)
         /\ \A q \in Pid : GameOf(q)' = GameOf(q)
         /\ Passed(p) /\ outbox'[p] = outbox[p] => Passed(p)'
         /\ Finishing(p) /\ outbox'[p] = outbox[p] => Finishing(p)'
  <1>1. players' = players /\ games' = games /\ thr' = thr
    BY DEF vars
  <1>2. \A q \in Pid : GameOf(q)' = GameOf(q)
    BY <1>1 DEF GameOf
  <1>3. Turn(p)' <=> Turn(p)
    BY <1>1, <1>2 DEF Turn
  <1>4. \A t \in Pid : StartsWith(t, p)' <=> StartsWith(t, p)
    BY <1>1, <1>2 DEF StartsWith, Starting
  <1>5. Finishing(p) /\ outbox'[p] = outbox[p] => Finishing(p)'
    BY <1>1, <1>2 DEF Finishing, Wants
  <1> QED BY <1>2, <1>3, <1>4, <1>5, PassedStays

(* the winner is still finishing the match *)
LEMMA FinishingStays ==
  ASSUME MatchInv, NEW a \in Pid, ThreadStepOf(a), NEW p \in Pid \ {a}, Finishing(p),
         outbox'[p] = outbox[p]
  PROVE  Finishing(p)'
  <1>1. PICK g : g = GameOf(p)
    OBVIOUS
  <1>2. /\ g # NoId /\ games[g].state = "FINISHED" /\ ~Wants(g, p) /\ thr'[p] = thr[p]
        /\ g \in Gid /\ Used(g) /\ GameOf(p)' = g /\ p \in Members(g)
    BY <1>1, GameOfPlayer, StaysAttached, OthersWait DEF Finishing, Used
  <1>3. ASSUME games'[g].state = "FINISHED", ~Wants(g, p)' PROVE Finishing(p)'
    BY <1>2, <1>3 DEF Finishing
  <1>4. CASE games'[g] = games[g]
    BY <1>2, <1>3, <1>4 DEF Wants
  <1>5. CASE ~(thr[a].game = g /\ thr[a].pc \in {"pass_turn", "declare_win", "ask_rematch"})
    BY <1>2, <1>4, <1>5, MatchUntouched
  <1>6. CASE thr[a].game = g /\ thr[a].pc \in {"pass_turn", "declare_win"}
    <2>1. thr[a].cmd = "FIRE"
      BY <1>6, Mine DEF HandlerOK, SectionsOf
    <2> QED BY <1>2, <1>6, <2>1, Mine DEF ShotOK, Shooting
  <1>7. CASE thr[a].game = g /\ thr[a].pc = "ask_rematch"
    <2>1. Work(a) /\ ~Departing(a)
      BY <1>7, NoCommand, NobodyDeparts DEF ThreadStepOf
    <2>2. AskRematch(a)
      BY <1>7, <2>1, ActionsAt
    <2>3. PICK o : o = OtherMember(g, a)
      OBVIOUS
    <2>4. /\ o # a /\ Members(g) = {a, o}
          /\ ~Wants(g, o) => games'[g].state = "FINISHED" /\ ~Wants(g, o)'
      BY <1>2, <1>7, <2>2, <2>3, AskRematchFacts
    <2>5. o = p
      BY <1>2, <2>4
    <2> QED BY <1>2, <1>3, <2>4, <2>5
  <1> QED BY <1>5, <1>6, <1>7

(* a thread that is not writing is finishing a match only in two sections *)
LEMMA SilentThread ==
  ASSUME NEW p \in Pid, outbox[p] = <<>>
  PROVE  /\ ~Passed(p) /\ \A q \in Pid : ~Turned(p, q)
         /\ Finishing(p) => thr[p].pc \in {"finish_self", "finish_opponent"}
  <1>1. ASSUME NEW o \in Pid, outbox[p] = TurnPassed(p, o) PROVE FALSE
    <2>1. PICK s : s = TurnPassed(p, o)
      OBVIOUS
    <2>2. s = <<[to |-> p, type |-> "WAIT_TURN", n |-> 0], [to |-> o, type |-> "YOUR_TURN", n |-> 0]>>
      BY <2>1, TwoLetters DEF TurnPassed
    <2>3. s # <<>>
      BY <2>2
    <2> QED BY <1>1, <2>1, <2>3
  <1> QED BY <1>1 DEF Passed, Turned, Finishing

(* a step that promises no turn keeps the promises *)
LEMMA PromisesKept ==
  ASSUME SessionTypeOK, NEW p \in Pid, TurnInv(p),
         \A t \in Pid : \/ outbox'[t] = outbox[t]
                        \/ outbox[t] # <<>> /\ outbox'[t] = Tail(outbox[t])
                        \/ NoTurn(outbox'[t], p),
         \A t \in Pid : StartsWith(t, p)' => StartsWith(t, p)
  PROVE  /\ \A t \in Pid : Promised(t, p)' => Promised(t, p)
         /\ \A t \in Pid : ~(Turned(t, p)' /\ StartsWith(t, p)') /\ Once(t, p)'
  <1>1. \A t \in Pid : ~(Turned(t, p) /\ StartsWith(t, p)) /\ Once(t, p)
    BY DEF TurnInv, PromiseOK
  <1>2. ASSUME NEW t \in Pid PROVE (Turned(t, p)' => Turned(t, p)) /\ Once(t, p)'
    BY <1>1, LettersKept
  <1> QED BY <1>1, <1>2 DEF Promised

-----------------------------------------------------------------------------
(* The clients and their streams                                           *)

LEMMA ChannelTurn ==
  ASSUME SessionTypeOK, UNCHANGED vars, NEW p \in Pid, TurnInv(p), OneFire(p)',
         \A t \in Pid : \/ outbox'[t] = outbox[t]
                        \/ outbox[t] # <<>> /\ outbox'[t] = Tail(outbox[t])
                        \/ NoTurn(outbox'[t], p),
         Told(p)' => Told(p), Firing(p)' => Firing(p),
         Told(p)' /\ Passed(p) => Passed(p)',
         Told(p)' /\ Finishing(p) => Finishing(p)'
  PROVE  TurnInv(p)'
  <1>1. (Turn(p)' <=> Turn(p)) /\ \A t \in Pid : StartsWith(t, p)' <=> StartsWith(t, p)
    BY TablesKept
  <1>2. /\ \A t \in Pid : Promised(t, p)' => Promised(t, p)
        /\ \A t \in Pid : ~(Turned(t, p)' /\ StartsWith(t, p)') /\ Once(t, p)'
    BY <1>1, PromisesKept
  <1> QED BY <1>1, <1>2, TurnKept

(* a client that nothing happens to *)
LEMMA BystanderTurn ==
  ASSUME SessionTypeOK, UNCHANGED vars, NEW p \in Pid, TurnInv(p),
         client'[p] = client[p], toClient'[p] = toClient[p],
         toServer'[p] = toServer[p], outbox'[p] = outbox[p],
         \A t \in Pid : \/ outbox'[t] = outbox[t]
                        \/ outbox[t] # <<>> /\ outbox'[t] = Tail(outbox[t])
                        \/ NoTurn(outbox'[t], p)
  PROVE  TurnInv(p)'
  <1>1. thr'[p] = thr[p]
    BY DEF vars
  <1>2. /\ Told(p)' <=> Told(p)
        /\ Firing(p)' <=> Firing(p)
        /\ OneFire(p)' <=> OneFire(p)
    BY <1>1, SameView
  <1>3. (Passed(p) => Passed(p)') /\ (Finishing(p) => Finishing(p)')
    BY TablesKept
  <1>4. OneFire(p)
    BY DEF TurnInv
  <1> QED BY <1>2, <1>3, <1>4, ChannelTurn

LEMMA FireOffered ==
  ASSUME NEW s, "FIRE" \in C!Offered(s) PROVE s = "MY_TURN"
  BY DEF C!Offered

(* a patient user is asked to fire only in its turn *)
LEMMA TypeTurn ==
  ASSUME MatchInv, Patient, SessionTypeOK, NEW a \in Pid, Type(a), NEW p \in Pid, TurnInv(p)
  PROVE  TurnInv(p)'
  <1>1. PICK input \in C!Offered(client[a].state) : client' = [client EXCEPT ![a].typed = input]
    BY DEF Type
  <1>2. /\ UNCHANGED vars /\ toServer' = toServer /\ outbox' = outbox /\ toClient' = toClient
        /\ client[a].typed = "none" /\ Unanswered(a) < MaxAhead
    BY DEF Type, channels
  <1>3. CASE p # a
    <2>1. client'[p] = client[p]
      BY <1>1, <1>3 DEF SessionTypeOK
    <2> QED BY <1>2, <2>1, BystanderTurn
  <1>4. CASE p = a
    <2>1. client'[p].state = client[p].state /\ client'[p].typed = input /\ thr' = thr
          /\ client[p].typed = "none"
      BY <1>1, <1>2, <1>4 DEF SessionTypeOK, vars
    <2>2. /\ Told(p)' <=> Told(p)
          /\ Queued(p, "FIRE")' <=> Queued(p, "FIRE")
          /\ Handling(p)' <=> Handling(p)
      BY <1>2, <2>1 DEF Told, Queued, Handling
    <2>3. OneFire(p)
      BY DEF TurnInv
    <2>4. (Passed(p) => Passed(p)') /\ (Finishing(p) => Finishing(p)')
      BY <1>2, TablesKept
    <2>5. CASE input # "FIRE"
      <3>1. Firing(p)' => Firing(p)
        BY <2>1, <2>2, <2>5 DEF Firing
      <3>2. OneFire(p)'
        BY <1>2, <2>1, <2>2, <2>3, <2>5 DEF OneFire
      <3> QED BY <1>2, <2>2, <2>4, <3>1, <3>2, ChannelTurn
    <2>6. CASE input = "FIRE"
      <3>1. client[p].state = "MY_TURN"
        BY <1>1, <1>4, <2>6, FireOffered
      <3>2. toServer[p] = <<>> /\ At(p, "receive") /\ outbox[p] = <<>> /\ toClient[p] = <<>>
        <4>1. Len(toServer[p]) \in Nat
          BY DEF SessionTypeOK
        <4>2. Unanswered(p) < 1
          BY <1>2, <1>4 DEF Patient
        <4> DEFINE rest == At(p, "receive") /\ outbox[p] = <<>> /\ toClient[p] = <<>>
        <4>3. PICK n \in Nat : n = Len(toServer[p])
          BY <4>1
        <4>4. Unanswered(p) = n + IF rest THEN 0 ELSE 1
          BY <4>3 DEF Unanswered
        <4>5. rest /\ n = 0
          <5> HIDE DEF rest
          <5>1. CASE rest
            BY <4>2, <4>4, <5>1
          <5>2. CASE ~rest
            BY <4>2, <4>4, <5>2
          <5> QED BY <5>1, <5>2
        <4>6. At(p, "receive") /\ outbox[p] = <<>> /\ toClient[p] = <<>> /\ Len(toServer[p]) = 0
          BY <4>3, <4>5
        <4> QED BY <4>6 DEF SessionTypeOK
      <3>3. Told(p)
        BY <3>1, <3>2 DEF Told
      <3>4. thr[p].pc = "receive" /\ thr[p].cmd = "NONE"
        BY <3>2, NoCommand DEF At
      <3>5. Turn(p)
        BY <3>2, <3>3, <3>4, SilentThread DEF TurnInv
      <3>6. \A t \in Pid : ~Promised(t, p)
        BY <3>3 DEF TurnInv, PromiseOK
      <3>7. (Turn(p)' <=> Turn(p)) /\ \A t \in Pid : StartsWith(t, p)' <=> StartsWith(t, p)
        BY <1>2, TablesKept
      <3>8. /\ \A t \in Pid : Promised(t, p)' => Promised(t, p)
            /\ \A t \in Pid : ~(Turned(t, p)' /\ StartsWith(t, p)') /\ Once(t, p)'
        BY <1>2, <3>7, PromisesKept
      <3>9. PromiseOK(p)'
        BY <3>6, <3>8 DEF PromiseOK
      <3>10. OneFire(p)'
        BY <1>2, <2>1, <3>2, <3>4 DEF OneFire, Queued
      <3> QED BY <3>5, <3>7, <3>9, <3>10 DEF TurnInv
    <2> QED BY <2>5, <2>6
  <1> QED BY <1>3, <1>4

(* a FIRE that is sent is queued *)
LEMMA ActTurn ==
  ASSUME NobodyLeaves, SessionTypeOK, NEW a \in Pid, Act(a), NEW p \in Pid, TurnInv(p)
  PROVE  TurnInv(p)'
  <1>1. PICK cmd \in Commands :
          /\ cmd = client[a].typed /\ cmd \in AllCommands
          /\ cmd \notin {"QUIT", "LEAVE_GAME", "WAIT_NEW_PLAYER", "REMATCH_DECLINE"}
          /\ client' = [client EXCEPT ![a] = Sent(client[a], cmd)]
          /\ toServer' = [toServer EXCEPT ![a] = Append(toServer[a], cmd)]
          /\ toClient' = toClient /\ outbox' = outbox
    BY ActFacts
  <1>2. UNCHANGED vars /\ thr' = thr
    BY ActFacts DEF vars
  <1>3. CASE p # a
    <2>1. client'[p] = client[p] /\ toServer'[p] = toServer[p]
      BY <1>1, <1>3 DEF SessionTypeOK
    <2> QED BY <1>1, <1>2, <2>1, BystanderTurn
  <1>4. CASE p = a
    <2>1. /\ client'[p].state = C!AfterCommand(client[p].state, cmd) /\ client'[p].typed = "none"
          /\ toServer'[p] = Append(toServer[p], cmd) /\ toServer[p] \in Seq(AllCommands)
          /\ client[p].typed = cmd
      BY <1>1, <1>4 DEF SessionTypeOK, Sent
    <2>2. Told(p)' => Told(p)
      <3>1. client'[p].state = "MY_TURN" => client[p].state = "MY_TURN"
        BY <2>1 DEF C!AfterCommand
      <3> QED BY <1>1, <3>1 DEF Told
    <2>3. PICK l : l = Len(toServer[p]) + 1
      OBVIOUS
    <2>4. /\ \A i \in DOMAIN toServer[p] : i \in DOMAIN toServer'[p] /\ toServer'[p][i] = toServer[p][i]
          /\ l \in DOMAIN toServer'[p] /\ toServer'[p][l] = cmd
          /\ \A j \in DOMAIN toServer'[p] : j \in DOMAIN toServer[p] \/ j = l
      BY <1>1, <2>1, <2>3, AppendKeeps
    <2>5. Queued(p, "FIRE")' <=> Queued(p, "FIRE") \/ cmd = "FIRE"
      BY <2>4 DEF Queued
    <2>6. OneFire(p)
      BY DEF TurnInv
    <2>7. Firing(p)' => Firing(p)
      BY <1>2, <2>1, <2>5 DEF Firing, Handling
    <2>8. OneFire(p)'
      <3>1. client'[p].typed # "FIRE"
        BY <2>1
      <3>2. Queued(p, "FIRE")' => thr'[p].cmd # "FIRE"
        BY <1>2, <2>1, <2>5, <2>6 DEF OneFire
      <3>3. ASSUME NEW i \in DOMAIN toServer'[p], NEW j \in DOMAIN toServer'[p],
                   toServer'[p][i] = "FIRE", toServer'[p][j] = "FIRE"
            PROVE  i = j
        <4>1. CASE cmd = "FIRE"
          <5>1. ~Queued(p, "FIRE")
            BY <2>1, <2>6, <4>1 DEF OneFire
          <5> QED BY <2>4, <3>3, <5>1 DEF Queued
        <4>2. CASE cmd # "FIRE"
          BY <2>4, <2>6, <3>3, <4>2 DEF OneFire
        <4> QED BY <4>1, <4>2
      <3> QED BY <3>1, <3>2, <3>3 DEF OneFire
    <2>9. (Passed(p) => Passed(p)') /\ (Finishing(p) => Finishing(p)')
      BY <1>1, <1>2, TablesKept
    <2> QED BY <1>1, <1>2, <2>2, <2>7, <2>8, <2>9, ChannelTurn
  <1> QED BY <1>3, <1>4

LEMMA ShownTurn ==
  ASSUME NEW s, NEW m, C!AfterMessage(s, m) = "MY_TURN"
  PROVE  m.type = "YOUR_TURN" \/ (s = "MY_TURN" /\ m.type \notin TurnMessages)
  BY DEF C!AfterMessage, C!AfterError, C!Shown, C!CompletesFleet, TurnMessages

(* what is shown has been on its way *)
LEMMA ShowTurn ==
  ASSUME SessionTypeOK, NEW a \in Pid, Show(a), NEW p \in Pid, TurnInv(p)
  PROVE  TurnInv(p)'
  <1>1. PICK m : m = toClient[a][1]
    OBVIOUS
  <1>2. /\ UNCHANGED vars /\ outbox' = outbox /\ thr' = thr
        /\ toClient[a] # <<>> /\ toClient'[a] = Tail(toClient[a])
        /\ client'[a].state = C!AfterMessage(client[a].state, m)
        /\ client'[a].typed = client[a].typed
        /\ toServer'[a] = toServer[a] \/ toServer'[a] = toServer[a] \o <<"READY">>
        /\ \A q \in Pid \ {a} : /\ toClient'[q] = toClient[q] /\ toServer'[q] = toServer[q]
                                /\ client'[q] = client[q]
    BY <1>1, ShowFacts DEF vars
  <1>3. CASE p # a
    BY <1>2, <1>3, BystanderTurn
  <1>4. CASE p = a
    <2>1. /\ m = toClient[p][1] /\ toClient[p] # <<>> /\ toClient'[p] = Tail(toClient[p])
          /\ toClient[p] \in Seq(Message)
          /\ client'[p].state = C!AfterMessage(client[p].state, m)
          /\ client'[p].typed = client[p].typed
          /\ toServer'[p] = toServer[p] \/ toServer'[p] = toServer[p] \o <<"READY">>
      BY <1>1, <1>2, <1>4 DEF SessionTypeOK
    <2>2. /\ \A i \in DOMAIN toClient[p] : i # 1 =>
               \E k \in DOMAIN toClient'[p] : k + 1 = i /\ toClient'[p][k] = toClient[p][i]
          /\ \A k \in DOMAIN toClient'[p] :
               \E i \in DOMAIN toClient[p] : i = k + 1 /\ toClient'[p][k] = toClient[p][i]
          /\ 1 \in DOMAIN toClient[p]
      BY <2>1, TailKeeps
    <2>3. DOMAIN toClient[p] \subseteq Nat /\ DOMAIN toClient'[p] \subseteq Nat
      <3>1. toClient'[p] \in Seq(Message)
        BY <2>1, TailKeeps
      <3> QED BY <2>1, <3>1
    <2>4. Told(p)' => Told(p)
      <3>1. ASSUME client'[p].state = "MY_TURN",
                   \A k \in DOMAIN toClient'[p] : toClient'[p][k].type \notin TurnMessages
            PROVE  Told(p)
        <4>1. \A i \in DOMAIN toClient[p] : i # 1 => toClient[p][i].type \notin TurnMessages
          BY <2>2, <3>1
        <4>2. CASE m.type = "YOUR_TURN"
          <5>1. \A j \in DOMAIN toClient[p] : j > 1 => toClient[p][j].type \notin TurnMessages
            BY <2>3, <4>1
          <5> QED BY <2>1, <2>2, <4>2, <5>1 DEF Told
        <4>3. CASE client[p].state = "MY_TURN" /\ m.type \notin TurnMessages
          BY <2>1, <4>1, <4>3 DEF Told
        <4>4. C!AfterMessage(client[p].state, m) = "MY_TURN"
          BY <2>1, <3>1
        <4>5. m.type = "YOUR_TURN" \/ (client[p].state = "MY_TURN" /\ m.type \notin TurnMessages)
          BY <4>4, ShownTurn
        <4> QED BY <4>2, <4>3, <4>5
      <3>2. ASSUME NEW k \in DOMAIN toClient'[p], toClient'[p][k].type = "YOUR_TURN",
                   \A l \in DOMAIN toClient'[p] : l > k => toClient'[p][l].type \notin TurnMessages
            PROVE  Told(p)
        <4>1. PICK i \in DOMAIN toClient[p] : i = k + 1 /\ toClient'[p][k] = toClient[p][i]
          BY <2>2
        <4>2. ASSUME NEW j \in DOMAIN toClient[p], j > i PROVE toClient[p][j].type \notin TurnMessages
          <5>1. j # 1
            BY <2>3, <4>1, <4>2
          <5>2. PICK l \in DOMAIN toClient'[p] : l + 1 = j /\ toClient'[p][l] = toClient[p][j]
            BY <2>2, <5>1
          <5>3. l > k
            BY <2>3, <4>1, <4>2, <5>2
          <5> QED BY <3>2, <5>2, <5>3
        <4> QED BY <3>2, <4>1, <4>2 DEF Told
      <3> QED BY <3>1, <3>2 DEF Told
    <2>5. ASSUME NEW i \in DOMAIN toServer'[p], toServer'[p][i] = "FIRE"
          PROVE  i \in DOMAIN toServer[p] /\ toServer[p][i] = "FIRE"
      <3>1. CASE toServer'[p] = toServer[p]
        BY <2>5, <3>1
      <3>2. CASE toServer'[p] = toServer[p] \o <<"READY">>
        <4>1. /\ \A j \in DOMAIN toServer[p] : j \in DOMAIN toServer'[p] /\ toServer'[p][j] = toServer[p][j]
              /\ \A j \in DOMAIN toServer'[p] : j \in DOMAIN toServer[p] \/ toServer'[p][j] = "READY"
          BY <3>2, ReadyAppended
        <4> QED BY <2>5, <4>1
      <3> QED BY <2>1, <3>1, <3>2
    <2>6. Queued(p, "FIRE")' => Queued(p, "FIRE")
      BY <2>5 DEF Queued
    <2>7. Firing(p)' => Firing(p)
      BY <1>2, <2>1, <2>6 DEF Firing, Handling
    <2>8. OneFire(p)
      BY DEF TurnInv
    <2>9. OneFire(p)'
      BY <1>2, <2>1, <2>5, <2>6, <2>8 DEF OneFire
    <2>10. (Passed(p) => Passed(p)') /\ (Finishing(p) => Finishing(p)')
      BY <1>2, TablesKept
    <2> QED BY <1>2, <2>4, <2>7, <2>9, <2>10, ChannelTurn
  <1> QED BY <1>3, <1>4

(* a YOUR_TURN that is written reaches the player whose turn it is; any    *)
(* other message leaves no client more sure of its turn                    *)
LEMMA WriteTurn ==
  ASSUME MatchInv, SessionTypeOK, NEW a \in Pid, Write(a), NEW p \in Pid, TurnInv(p), Linked(p)
  PROVE  TurnInv(p)'
  <1>1. PICK m : m = outbox[a][1]
    OBVIOUS
  <1>2. /\ UNCHANGED <<vars, client, toServer, history>> /\ thr' = thr
        /\ outbox[a] # <<>> /\ outbox'[a] = Tail(outbox[a]) /\ 1 \in DOMAIN outbox[a]
        /\ \A q \in Pid \ {a} : outbox'[q] = outbox[q]
        /\ m \in Letter /\ [type |-> m.type, n |-> m.n] \in Message
        /\ \/ p = m.to /\ toClient'[p] = Append(toClient[p], [type |-> m.type, n |-> m.n])
           \/ toClient'[p] = toClient[p]
        /\ m.to = p /\ Connected(p) /\ client[p].state # "DISCONNECTED" =>
             toClient'[p] = Append(toClient[p], [type |-> m.type, n |-> m.n])
    BY <1>1, WriteFacts DEF vars
  <1>3. /\ Turn(p)' <=> Turn(p)
        /\ \A t \in Pid : StartsWith(t, p)' <=> StartsWith(t, p)
        /\ Firing(p)' <=> Firing(p)
        /\ OneFire(p)' <=> OneFire(p)
    <2>1. Queued(p, "FIRE")' <=> Queued(p, "FIRE")
      BY <1>2 DEF Queued
    <2>2. Firing(p)' <=> Firing(p)
      BY <1>2, <2>1 DEF Firing, Handling
    <2>3. OneFire(p)' <=> OneFire(p)
      BY <1>2, <2>1 DEF OneFire
    <2> QED BY <1>2, <2>2, <2>3, TablesKept
  <1>4. \A t \in Pid : outbox'[t] = outbox[t] \/ (outbox[t] # <<>> /\ outbox'[t] = Tail(outbox[t]))
    BY <1>2
  <1>5. /\ \A t \in Pid : Promised(t, p)' => Promised(t, p)
        /\ \A t \in Pid : ~(Turned(t, p)' /\ StartsWith(t, p)') /\ Once(t, p)'
    BY <1>3, <1>4, PromisesKept
  <1>6. OneFire(p)
    BY DEF TurnInv
  <1>7. CASE m.to = p /\ m.type = "YOUR_TURN"
    <2>1. Turned(a, p)
      BY <1>1, <1>2, <1>7 DEF Turned, Turns
    <2>2. Turn(p) /\ ~Firing(p) /\ ~StartsWith(a, p) /\ Once(a, p)
          /\ \A t \in Pid : Promised(t, p) => t = a
      BY <2>1 DEF TurnInv, PromiseOK, Promised
    <2>3. ~Turned(a, p)'
      <3> SUFFICES ASSUME NEW k \in DOMAIN outbox'[a], Turns(outbox'[a][k], p) PROVE FALSE
        BY DEF Turned
      <3>1. outbox[a] \in Seq(Letter)
        BY DEF SessionTypeOK
      <3>2. outbox'[a] \in Seq(Letter)
        BY <1>2, <3>1, TailKeeps
      <3>3. PICK i \in DOMAIN outbox[a] : i = k + 1 /\ outbox'[a][k] = outbox[a][i]
        BY <1>2, <3>1, TailKeeps
      <3>4. k \in Nat /\ k > 0
        BY <3>2
      <3>5. i # 1
        BY <3>3, <3>4
      <3>6. Turns(outbox[a][i], p) /\ Turns(outbox[a][1], p)
        BY <1>1, <1>7, <3>3 DEF Turns
      <3> QED BY <1>2, <2>2, <3>5, <3>6 DEF Once
    <2>4. \A t \in Pid : ~Promised(t, p)'
      BY <1>3, <1>5, <2>2, <2>3 DEF Promised
    <2>5. PromiseOK(p)'
      BY <1>5, <2>4 DEF PromiseOK
    <2> QED BY <1>3, <1>6, <2>2, <2>5 DEF TurnInv
  <1>8. CASE ~(m.to = p /\ m.type = "YOUR_TURN")
    <2>1. (Told(p)' => Told(p)) /\ (m.to = p /\ m.type \in TurnMessages => ~Told(p)')
      <3>1. CASE m.to # p
        <4>1. toClient'[p] = toClient[p]
          BY <1>2, <3>1
        <4> QED BY <1>2, <3>1, <4>1 DEF Told
      <3>2. CASE m.to = p /\ ~(Connected(p) /\ client[p].state # "DISCONNECTED")
        <4>1. client[p].state = "DISCONNECTED"
          BY <3>2, NoIdNowhere DEF Linked, MatchInv, OwnSlot, Connected
        <4>2. thr[p].pc = "none"
          BY <4>1 DEF Linked
        <4>3. ~Connected(p)
          BY <4>2, NoIdNowhere DEF MatchInv, OwnSlot, Connected
        <4>4. toClient'[p] = toClient[p]
          BY <1>1, <1>2, <3>2, <4>3 DEF Write, SessionTypeOK
        <4>5. toClient[p] = <<>>
          BY <4>1 DEF Linked
        <4>6. ~Told(p)'
          BY <1>2, <4>1, <4>4, <4>5 DEF Told
        <4> QED BY <4>6
      <3>3. CASE m.to = p /\ Connected(p) /\ client[p].state # "DISCONNECTED"
        <4>1. PICK x \in Message : x = [type |-> m.type, n |-> m.n]
          BY <1>2
        <4>2. toClient'[p] = Append(toClient[p], x) /\ toClient[p] \in Seq(Message) /\ x.type = m.type
          BY <1>2, <3>3, <4>1 DEF SessionTypeOK
        <4>3. PICK l : l = Len(toClient[p]) + 1
          OBVIOUS
        <4>4. /\ \A i \in DOMAIN toClient[p] : i \in DOMAIN toClient'[p] /\ toClient'[p][i] = toClient[p][i] /\ i < l
              /\ l \in DOMAIN toClient'[p] /\ toClient'[p][l] = x
              /\ \A j \in DOMAIN toClient'[p] : j \in DOMAIN toClient[p] \/ j = l
          BY <4>2, <4>3, AppendKeeps
        <4>5. m.type # "YOUR_TURN"
          BY <1>8, <3>3
        <4>6. Told(p)' => Told(p)
          <5>1. ASSUME client'[p].state = "MY_TURN",
                       \A i \in DOMAIN toClient'[p] : toClient'[p][i].type \notin TurnMessages
                PROVE  Told(p)
            BY <1>2, <4>4, <5>1 DEF Told
          <5>2. ASSUME NEW i \in DOMAIN toClient'[p], toClient'[p][i].type = "YOUR_TURN",
                       \A j \in DOMAIN toClient'[p] : j > i => toClient'[p][j].type \notin TurnMessages
                PROVE  Told(p)
            <6>1. i \in DOMAIN toClient[p]
              BY <4>2, <4>4, <4>5, <5>2
            <6> QED BY <4>4, <5>2, <6>1 DEF Told
          <5> QED BY <5>1, <5>2 DEF Told
        <4>7. ASSUME m.type \in TurnMessages PROVE ~Told(p)'
          <5>1. ~(\A i \in DOMAIN toClient'[p] : toClient'[p][i].type \notin TurnMessages)
            BY <4>2, <4>4, <4>7
          <5>2. ASSUME NEW i \in DOMAIN toClient'[p], toClient'[p][i].type = "YOUR_TURN",
                       \A j \in DOMAIN toClient'[p] : j > i => toClient'[p][j].type \notin TurnMessages
                PROVE  FALSE
            <6>1. i \in DOMAIN toClient[p]
              BY <4>2, <4>4, <4>5, <5>2
            <6>2. l > i
              <7>1. i \in Nat /\ l \in Nat /\ i < l
                BY <4>2, <4>3, <4>4, <6>1
              <7> QED BY <7>1
            <6> QED BY <4>2, <4>4, <4>7, <5>2, <6>2
          <5> QED BY <5>1, <5>2 DEF Told
        <4> QED BY <4>6, <4>7
      <3> QED BY <3>1, <3>2, <3>3
    <2>2. Told(p)' /\ Passed(p) => Passed(p)'
      <3>1. CASE p # a
        BY <1>2, <3>1, TablesKept
      <3>2. CASE p = a
        <4> SUFFICES ASSUME Passed(p), Told(p)' PROVE FALSE
          OBVIOUS
        <4>1. PICK o : outbox[p] = TurnPassed(p, o)
          BY DEF Passed
        <4>2. PICK s : s = TurnPassed(p, o)
          OBVIOUS
        <4>3. s = <<[to |-> p, type |-> "WAIT_TURN", n |-> 0], [to |-> o, type |-> "YOUR_TURN", n |-> 0]>>
          BY <4>2, TwoLetters DEF TurnPassed
        <4>4. m = s[1]
          BY <1>1, <3>2, <4>1, <4>2
        <4>5. m.to = p /\ m.type = "WAIT_TURN"
          BY <4>3, <4>4
        <4> QED BY <2>1, <4>5 DEF TurnMessages
      <3> QED BY <3>1, <3>2
    <2>3. Told(p)' /\ Finishing(p) => Finishing(p)'
      <3>1. CASE p # a
        BY <1>2, <3>1, TablesKept
      <3>2. CASE p = a
        <4> SUFFICES ASSUME Finishing(p), Told(p)' PROVE Finishing(p)'
          OBVIOUS
        <4>1. CASE m.to = p /\ m.type = "PLAY_AGAIN_PROMPT"
          BY <2>1, <4>1 DEF TurnMessages
        <4>2. CASE ~(m.to = p /\ m.type = "PLAY_AGAIN_PROMPT")
          BY <1>1, <1>2, <3>2, <4>2 DEF Finishing, GameOf, Wants, vars
        <4> QED BY <4>1, <4>2
      <3> QED BY <3>1, <3>2
    <2> QED BY <1>2, <1>3, <1>4, <1>6, <2>1, <2>2, <2>3, ChannelTurn
  <1> QED BY <1>7, <1>8

-----------------------------------------------------------------------------
(* The threads                                                             *)

(* the step of another thread that announces p no turn *)
LEMMA OthersTurn ==
  ASSUME MatchInv, MatchInv', SessionTypeOK, NEW a \in Pid, ThreadStepOf(a),
         NEW p \in Pid \ {a}, TurnInv(p),
         client'[p] = client[p], toServer'[p] = toServer[p], toClient'[p] = toClient[p],
         \A t \in Pid \ {a} : outbox'[t] = outbox[t],
         outbox'[a] = outbox[a] \/ NoTurn(outbox'[a], p),
         MarkReady(a) => ~StartsWith(a, p)'
  PROVE  TurnInv(p)'
  <1>1. thr'[p] = thr[p] /\ outbox'[p] = outbox[p]
    BY OthersWait
  <1>2. /\ Told(p)' <=> Told(p)
        /\ Firing(p)' <=> Firing(p)
        /\ OneFire(p)' <=> OneFire(p)
    BY <1>1, SameView
  <1>3. Turn(p) => Turn(p)'
    BY TurnStep
  <1>4. \A t \in Pid : StartsWith(t, p)' => StartsWith(t, p)
    BY StartsStep
  <1>5. /\ \A t \in Pid : Promised(t, p)' => Promised(t, p)
        /\ \A t \in Pid : ~(Turned(t, p)' /\ StartsWith(t, p)') /\ Once(t, p)'
    BY <1>4, PromisesKept
  <1>6. Passed(p) => Passed(p)'
    BY <1>1, PassedStays, StaysAttached
  <1>7. Finishing(p) => Finishing(p)'
    BY <1>1, FinishingStays
  <1>8. OneFire(p)
    BY DEF TurnInv
  <1> QED BY <1>2, <1>3, <1>5, <1>6, <1>7, <1>8, TurnKept

LEMMA ArriveTurn ==
  ASSUME MatchInv, MatchInv', SessionTypeOK, NEW a \in Pid, Arrive(a), Linked(a), NEW p \in Pid, TurnInv(p)
  PROVE  TurnInv(p)'
  <1>1. /\ Connect(a) /\ ThreadStepOf(a) /\ client[a].state = "DISCONNECTED"
        /\ client' = [client EXCEPT ![a].state = "CONNECTED"]
        /\ toServer' = toServer /\ outbox' = outbox /\ toClient' = toClient
        /\ thr' = [thr EXCEPT ![a] = Idle("receive")]
    BY DEF Arrive, channels, ThreadStepOf, Connect
  <1>2. thr[a].pc = "none" /\ thr[a].cmd = "NONE"
    BY <1>1, NoCommand
  <1>3. ~MarkReady(a)
    BY <1>2 DEF MarkReady, At
  <1>4. CASE p # a
    <2>1. client'[p] = client[p]
      BY <1>1, <1>4 DEF SessionTypeOK
    <2> QED BY <1>1, <1>3, <1>4, <2>1, OthersTurn
  <1>5. CASE p = a
    <2>1. /\ client'[p].state = "CONNECTED" /\ client'[p].typed = client[p].typed
          /\ toClient'[p] = <<>> /\ thr'[p].cmd = "NONE"
      <3>1. thr'[a] = Idle("receive")
        BY <1>1, Mine, MovesThread
      <3> QED BY <1>1, <1>5, <3>1 DEF SessionTypeOK, Linked, Idle
    <2>2. ~Told(p)'
      BY <2>1 DEF Told
    <2>3. Queued(p, "FIRE")' <=> Queued(p, "FIRE")
      BY <1>1 DEF Queued
    <2>4. OneFire(p)
      BY DEF TurnInv
    <2>5. OneFire(p)' /\ (Firing(p)' => Firing(p))
      BY <1>1, <2>1, <2>3, <2>4 DEF OneFire, Firing, Handling
    <2>6. Turn(p) => Turn(p)'
      BY <1>1, <1>2, <1>5, TurnStep
    <2>7. \A t \in Pid : StartsWith(t, p)' => StartsWith(t, p)
      BY <1>1, <1>3, StartsStep
    <2>8. /\ \A t \in Pid : Promised(t, p)' => Promised(t, p)
          /\ \A t \in Pid : ~(Turned(t, p)' /\ StartsWith(t, p)') /\ Once(t, p)'
      BY <1>1, <2>7, PromisesKept
    <2> QED BY <2>2, <2>5, <2>6, <2>8, TurnKept
  <1> QED BY <1>4, <1>5

LEMMA QuietError ==
  ASSUME NEW p, NEW q PROVE NoTurn(To(p, "ERROR"), q)
  <1>1. PICK s : s = To(p, "ERROR")
    OBVIOUS
  <1>2. DOMAIN s = {1} /\ s[1] = [to |-> p, type |-> "ERROR", n |-> 0]
    BY <1>1, OneLetter
  <1>3. NoTurn(s, q)
    BY <1>2 DEF NoTurn, Turns
  <1> QED BY <1>1, <1>3

(* a FIRE that is taken was queued, and was the only one *)
LEMMA TakeTurn ==
  ASSUME MatchInv, MatchInv', SessionTypeOK, NEW a \in Pid, TakeCommand(a), NEW p \in Pid, TurnInv(p)
  PROVE  TurnInv(p)'
  <1>1. /\ client' = client /\ toClient' = toClient
        /\ \A q \in Pid \ {a} : toServer'[q] = toServer[q] /\ outbox'[q] = outbox[q]
        /\ toServer'[a] = Tail(toServer[a]) /\ toServer[a] # <<>>
        /\ thr[a].pc = "receive" /\ outbox[a] = <<>>
        /\ \/ Receive(a) /\ thr'[a].cmd = Head(toServer[a]) /\ outbox' = outbox
           \/ outbox'[a] = To(a, "ERROR") /\ UNCHANGED vars
    BY TakeFacts
  <1>2. outbox'[a] = outbox[a] \/ NoTurn(outbox'[a], p)
    BY <1>1, QuietError
  <1>3. ThreadStepOf(a) \/ UNCHANGED vars
    BY <1>1 DEF ThreadStepOf
  <1>4. ~MarkReady(a)
    BY <1>1 DEF MarkReady, At
  <1>5. CASE p # a
    <2>1. CASE ThreadStepOf(a)
      BY <1>1, <1>2, <1>4, <1>5, <2>1, OthersTurn
    <2>2. CASE UNCHANGED vars
      <3>1. \A t \in Pid : outbox'[t] = outbox[t] \/ NoTurn(outbox'[t], p)
        BY <1>1, <1>2
      <3> QED BY <1>1, <1>5, <2>2, <3>1, BystanderTurn
    <2> QED BY <1>3, <2>1, <2>2
  <1>6. CASE p = a
    <2>1. /\ toServer'[p] = Tail(toServer[p]) /\ toServer[p] # <<>> /\ toServer[p] \in Seq(AllCommands)
          /\ thr[p].pc = "receive" /\ outbox[p] = <<>> /\ thr[p].cmd = "NONE"
      BY <1>1, <1>6, NoCommand DEF SessionTypeOK
    <2>2. /\ \A k \in DOMAIN toServer'[p] :
               \E i \in DOMAIN toServer[p] : i = k + 1 /\ toServer'[p][k] = toServer[p][i]
          /\ Head(toServer[p]) = toServer[p][1] /\ 1 \in DOMAIN toServer[p] /\ toServer'[p] \in Seq(AllCommands)
      BY <2>1, TailKeeps
    <2>3. thr'[p].cmd \in {"NONE", Head(toServer[p])}
      BY <1>1, <1>6, <2>1 DEF vars
    <2>4. Told(p)' <=> Told(p)
      BY <1>1 DEF Told
    <2>5. Queued(p, "FIRE")' => Queued(p, "FIRE")
      BY <2>2 DEF Queued
    <2>6. thr'[p].cmd = "FIRE" => Queued(p, "FIRE") /\ toServer[p][1] = "FIRE"
      BY <2>2, <2>3 DEF Queued
    <2>7. OneFire(p)
      BY DEF TurnInv
    <2>8. Firing(p)' => Firing(p)
      BY <1>1, <2>5, <2>6 DEF Firing, Handling
    <2>9. ASSUME NEW k \in DOMAIN toServer'[p], toServer'[p][k] = "FIRE"
          PROVE  toServer[p][1] # "FIRE" /\ \E i \in DOMAIN toServer[p] : i = k + 1 /\ toServer[p][i] = "FIRE"
      <3>1. PICK i \in DOMAIN toServer[p] : i = k + 1 /\ toServer'[p][k] = toServer[p][i]
        BY <2>2
      <3>2. k \in Nat /\ k > 0
        BY <2>2
      <3>3. i # 1
        BY <3>1, <3>2
      <3>4. toServer[p][1] # "FIRE"
        BY <2>2, <2>7, <2>9, <3>1, <3>3 DEF OneFire
      <3> QED BY <2>9, <3>1, <3>4
    <2>10. OneFire(p)'
      <3>1. client'[p].typed = "FIRE" => ~Queued(p, "FIRE")' /\ thr'[p].cmd # "FIRE"
        BY <1>1, <2>5, <2>6, <2>7 DEF OneFire
      <3>2. Queued(p, "FIRE")' => thr'[p].cmd # "FIRE"
        BY <2>6, <2>9 DEF Queued
      <3>3. ASSUME NEW k \in DOMAIN toServer'[p], NEW l \in DOMAIN toServer'[p],
                   toServer'[p][k] = "FIRE", toServer'[p][l] = "FIRE"
            PROVE  k = l
        <4>1. PICK i \in DOMAIN toServer[p] : i = k + 1 /\ toServer[p][i] = "FIRE"
          BY <2>9, <3>3
        <4>2. PICK j \in DOMAIN toServer[p] : j = l + 1 /\ toServer[p][j] = "FIRE"
          BY <2>9, <3>3
        <4>3. i = j
          BY <2>7, <4>1, <4>2 DEF OneFire
        <4>4. k \in Nat /\ l \in Nat
          BY <2>2
        <4> QED BY <4>1, <4>2, <4>3, <4>4
      <3> QED BY <3>1, <3>2, <3>3 DEF OneFire
    <2>11. Turn(p) => Turn(p)'
      <3>1. CASE ThreadStepOf(a)
        BY <1>6, <2>1, <3>1, TurnStep
      <3>2. CASE UNCHANGED vars
        BY <3>2, TablesKept
      <3> QED BY <1>3, <3>1, <3>2
    <2>12. \A t \in Pid : StartsWith(t, p)' => StartsWith(t, p)
      <3>1. CASE ThreadStepOf(a)
        BY <1>4, <3>1, StartsStep
      <3>2. CASE UNCHANGED vars
        BY <3>2, TablesKept
      <3> QED BY <1>3, <3>1, <3>2
    <2>13. /\ \A t \in Pid : Promised(t, p)' => Promised(t, p)
           /\ \A t \in Pid : ~(Turned(t, p)' /\ StartsWith(t, p)') /\ Once(t, p)'
      <3>1. \A t \in Pid : outbox'[t] = outbox[t] \/ NoTurn(outbox'[t], p)
        BY <1>1, <1>2
      <3> QED BY <2>12, <3>1, PromisesKept
    <2>14. ~Passed(p) /\ ~Finishing(p)
      BY <2>1, SilentThread
    <2> QED BY <2>4, <2>8, <2>10, <2>11, <2>13, <2>14, TurnKept
  <1> QED BY <1>5, <1>6

LEMMA QuietMessages ==
  ASSUME MatchInv, TypeInv', NEW a \in Pid, thr[a].pc \notin {"start_opponent", "pass_turn"}, NEW p
  PROVE  NoTurn(Messages(a), p)
  <1>1. PICK s : s = Messages(a)
    OBVIOUS
  <1>2. s \in Seq(LetterOf(Quiet))
    BY <1>1, MessagesWithin
  <1>3. \A i \in DOMAIN s : s[i].type # "YOUR_TURN"
    <2>1. \A i \in DOMAIN s : s[i] \in LetterOf(Quiet)
      BY <1>2
    <2> QED BY <2>1 DEF LetterOf, Quiet
  <1>4. NoTurn(s, p)
    BY <1>3 DEF NoTurn, Turns
  <1> QED BY <1>1, <1>4

(* no section makes a client believe or ask anything *)
LEMMA ServeView ==
  ASSUME MatchInv, SessionTypeOK, NEW a \in Pid, Serve(a), NEW p \in Pid, OneFire(p)
  PROVE  /\ Told(p)' <=> Told(p)
         /\ Firing(p)' => Firing(p)
         /\ OneFire(p)'
  <1>1. Work(a) /\ client' = client /\ toServer' = toServer /\ toClient' = toClient
    BY ServeFacts
  <1>2. CASE p # a
    <2>1. thr'[p] = thr[p]
      BY <1>1, <1>2, OthersWait DEF ThreadStepOf
    <2> QED BY <1>1, <2>1, SameView
  <1>3. CASE p = a
    <2>1. Told(p)' <=> Told(p)
      BY <1>1 DEF Told
    <2>2. Queued(p, "FIRE")' <=> Queued(p, "FIRE")
      BY <1>1 DEF Queued
    <2>3. thr'[p].cmd = "FIRE" => thr[p].cmd = "FIRE"
      BY <1>1, <1>3, WorkKeepsCommand DEF KeepsCommand
    <2>4. OneFire(p)'
      BY <1>1, <2>2, <2>3 DEF OneFire
    <2>5. Handling(p)' => Handling(p)
      <3> SUFFICES ASSUME Handling(p)', thr[p].pc \in {"finish_self", "finish_opponent"} PROVE FALSE
        BY <2>3 DEF Handling
      <3>1. FinishSelf(p) \/ FinishOpponent(p)
        BY <1>1, <1>3, NobodyDeparts, ActionsAt
      <3>2. Goto(p, "finish_opponent") \/ Return(p)
        BY <3>1 DEF FinishSelf, FinishOpponent
      <3>3. thr'[p].pc = "finish_opponent" \/ thr'[p].cmd = "NONE"
        BY <3>2, Mine, GotoThread, ReturnIdle
      <3> QED BY <3>3 DEF Handling
    <2>6. Firing(p)' => Firing(p)
      BY <1>1, <2>2, <2>5 DEF Firing
    <2> QED BY <2>1, <2>4, <2>6
  <1> QED BY <1>2, <1>3

(* a section that tells p nothing about its turn *)
LEMMA ServeQuietly ==
  ASSUME MatchInv, MatchInv', SessionTypeOK, NEW a \in Pid, Serve(a), NEW p \in Pid, TurnInv(p),
         NoTurn(Messages(a), p), MarkReady(a) => ~StartsWith(a, p)',
         p = a => thr[a].pc \notin {"pass_turn", "declare_win", "finish_self", "finish_opponent"}
  PROVE  TurnInv(p)'
  <1>1. /\ Work(a) /\ client' = client /\ toServer' = toServer /\ toClient' = toClient
        /\ \A t \in Pid \ {a} : outbox'[t] = outbox[t]
        /\ outbox'[a] = Messages(a) /\ outbox[a] = <<>>
    BY ServeFacts
  <1>2. NoTurn(outbox'[a], p) /\ ThreadStepOf(a)
    BY <1>1 DEF ThreadStepOf
  <1>3. CASE p # a
    BY <1>1, <1>2, <1>3, OthersTurn
  <1>4. CASE p = a
    <2>1. OneFire(p)
      BY DEF TurnInv
    <2>2. (Told(p)' <=> Told(p)) /\ (Firing(p)' => Firing(p)) /\ OneFire(p)'
      BY <2>1, ServeView
    <2>3. Turn(p) => Turn(p)'
      BY <1>2, <1>4, TurnStep
    <2>4. \A t \in Pid : StartsWith(t, p)' => StartsWith(t, p)
      BY <1>2, StartsStep
    <2>5. /\ \A t \in Pid : Promised(t, p)' => Promised(t, p)
          /\ \A t \in Pid : ~(Turned(t, p)' /\ StartsWith(t, p)') /\ Once(t, p)'
      <3>1. \A t \in Pid : outbox'[t] = outbox[t] \/ NoTurn(outbox'[t], p)
        BY <1>1, <1>2
      <3> QED BY <2>4, <3>1, PromisesKept
    <2>6. ~Passed(p) /\ ~Finishing(p)
      BY <1>1, <1>4, SilentThread
    <2> QED BY <2>2, <2>3, <2>5, <2>6, TurnKept
  <1> QED BY <1>3, <1>4

(* the player that p has passed the turn to has it, and cannot fire yet *)
LEMMA PassedFacts ==
  ASSUME TurnInvs, NEW p \in Pid, Passed(p)
  PROVE  \E x \in Pid \ {p} : GameOf(p) # NoId /\ GameOf(x) = GameOf(p) /\ Turn(x) /\ ~Firing(x)
  <1>1. PICK x \in Pid \ {p} : GameOf(p) # NoId /\ GameOf(x) = GameOf(p) /\ outbox[p] = TurnPassed(p, x)
    BY DEF Passed
  <1>2. PICK s : s = TurnPassed(p, x)
    OBVIOUS
  <1>3. s = <<[to |-> p, type |-> "WAIT_TURN", n |-> 0], [to |-> x, type |-> "YOUR_TURN", n |-> 0]>>
    BY <1>2, TwoLetters DEF TurnPassed
  <1>4. 2 \in DOMAIN s /\ Turns(s[2], x)
    BY <1>3 DEF Turns
  <1>5. Turned(p, x)
    BY <1>1, <1>2, <1>4 DEF Turned
  <1>6. Turn(x) /\ ~Firing(x)
    BY <1>5 DEF TurnInvs, TurnInv, PromiseOK, Promised
  <1> QED BY <1>1, <1>6

(* declare_win and what follows it: the winner still takes it for its turn *)
LEMMA FinishTurn ==
  ASSUME MatchInv, MatchInv', SessionTypeOK, NEW p \in Pid, Serve(p), TurnInv(p),
         thr[p].pc \in {"declare_win", "finish_self", "finish_opponent"}
  PROVE  TurnInv(p)'
  <1>1. /\ Work(p) /\ client' = client /\ toServer' = toServer /\ toClient' = toClient
        /\ \A t \in Pid \ {p} : outbox'[t] = outbox[t]
        /\ outbox'[p] = Messages(p) /\ outbox[p] = <<>>
    BY ServeFacts
  <1>2. NoTurn(outbox'[p], p) /\ ThreadStepOf(p)
    BY <1>1, QuietMessages, Mine DEF ThreadStepOf, MatchInv
  <1>3. OneFire(p)
    BY DEF TurnInv
  <1>4. (Told(p)' <=> Told(p)) /\ (Firing(p)' => Firing(p)) /\ OneFire(p)'
    BY <1>3, ServeView
  <1>5. \A t \in Pid : StartsWith(t, p)' => StartsWith(t, p)
    BY <1>2, StartsStep DEF MarkReady, At
  <1>6. /\ \A t \in Pid : Promised(t, p)' => Promised(t, p)
        /\ \A t \in Pid : ~(Turned(t, p)' /\ StartsWith(t, p)') /\ Once(t, p)'
    <2>1. \A t \in Pid : outbox'[t] = outbox[t] \/ NoTurn(outbox'[t], p)
      BY <1>1, <1>2
    <2> QED BY <1>5, <2>1, PromisesKept
  <1>7. TypeInv /\ ~Departing(p) /\ thr[p].cmd = "FIRE"
    BY NobodyDeparts, Mine DEF HandlerOK, SectionsOf
  <1>8. PICK g : g = thr[p].game
    OBVIOUS
  <1>9. PICK o : o = thr[p].other
    OBVIOUS
  <1>10. CASE thr[p].pc = "declare_win"
    <2>1. DeclareWin(p)
      BY <1>1, <1>7, <1>10, ActionsAt
    <2>2. g \in Gid /\ GameOf(p) = g /\ p \in Members(g)
      BY <1>7, <1>8, <1>9, <1>10, DuringShot DEF Shooting
    <2>3. GameOf(p)' = g /\ g # NoId
      BY <1>2, <2>2, StaysAttached, NoIdNowhere
    <2>4. games'[g].state = "FINISHED" /\ ~games'[g].creator_wants_rematch /\ ~games'[g].opponent_wants_rematch
      <3>1. games[g] \in Game
        BY <1>7, <2>2, GameFields
      <3>2. games'[g] = [games[g] EXCEPT !.state = "FINISHED", !.creator_wants_rematch = FALSE,
                                         !.opponent_wants_rematch = FALSE]
        BY <1>7, <1>8, <2>1, <2>2, MovesGame DEF DeclareWin
      <3> QED BY <3>1, <3>2 DEF Game
    <2>5. thr'[p].pc = "finish_self"
      BY <1>7, <2>1, GotoThread DEF DeclareWin
    <2>6. Finishing(p)'
      BY <2>3, <2>4, <2>5 DEF Finishing, Wants
    <2>7. Firing(p) /\ \A t \in Pid : ~Promised(t, p)
      BY <1>7, <1>10 DEF Firing, Handling, TurnInv, PromiseOK
    <2>8. ~Firing(p)'
      <3>1. client[p].typed # "FIRE" /\ ~Queued(p, "FIRE")
        BY <1>3, <1>7 DEF OneFire
      <3>2. client'[p].typed # "FIRE" /\ ~Queued(p, "FIRE")'
        BY <1>1, <3>1 DEF Queued
      <3> QED BY <2>5, <3>2 DEF Firing, Handling
    <2>9. PromiseOK(p)'
      BY <1>6, <2>7 DEF PromiseOK
    <2> QED BY <1>4, <2>6, <2>8, <2>9 DEF TurnInv
  <1>11. CASE thr[p].pc \in {"finish_self", "finish_opponent"}
    <2>1. FinishSelf(p) \/ FinishOpponent(p)
      BY <1>1, <1>7, <1>11, ActionsAt
    <2>2. games' = games
      BY <2>1 DEF FinishSelf, FinishOpponent, gameVars
    <2>3. g \in Gid /\ GameOf(p) = g /\ games[g].state = "FINISHED" /\ ~Wants(g, p)
      BY <1>8, <1>9, <1>11, DuringFinish
    <2>4. GameOf(p)' = g /\ g # NoId
      BY <1>2, <2>3, StaysAttached, NoIdNowhere
    <2>5. ASSUME thr[p].pc = "finish_self" PROVE Finishing(p)'
      <3>1. FinishSelf(p)
        BY <1>1, <1>7, <2>5, ActionsAt
      <3>2. thr'[p].pc = "finish_opponent"
        BY <1>7, <3>1, GotoThread DEF FinishSelf
      <3> QED BY <2>2, <2>3, <2>4, <3>2 DEF Finishing, Wants
    <2>6. ASSUME thr[p].pc = "finish_opponent" PROVE Finishing(p)'
      <3>1. Messages(p) = To(p, "PLAY_AGAIN_PROMPT") \o To(o, "PLAY_AGAIN_PROMPT")
        BY <1>9, <2>6, TurnAnswers
      <3>2. PICK s : s = To(p, "PLAY_AGAIN_PROMPT") \o To(o, "PLAY_AGAIN_PROMPT")
        OBVIOUS
      <3>3. s = <<[to |-> p, type |-> "PLAY_AGAIN_PROMPT", n |-> 0], [to |-> o, type |-> "PLAY_AGAIN_PROMPT", n |-> 0]>>
        BY <3>2, TwoLetters
      <3>4. s # <<>> /\ s[1].to = p /\ s[1].type = "PLAY_AGAIN_PROMPT"
        BY <3>3
      <3>5. outbox'[p] = s
        BY <1>1, <3>1, <3>2
      <3> QED BY <2>2, <2>3, <2>4, <3>4, <3>5 DEF Finishing, Wants
    <2>7. Finishing(p)'
      BY <1>11, <2>5, <2>6
    <2>8. Turn(p) => Turn(p)'
      BY <1>2, <1>11, TurnStep
    <2> QED BY <1>4, <1>6, <2>7, <2>8, SilentThread, <1>1, TurnKept
  <1> QED BY <1>10, <1>11

(* a start is promised once the pair is ready, to a creator that knows     *)
(* nothing of it yet                                                       *)
LEMMA StartTurn ==
  ASSUME MatchInv, MatchInv', SessionTypeOK, TurnInvs, NEW a \in Pid, Serve(a), MarkReady(a),
         NEW p \in Pid, StartsWith(a, p)'
  PROVE  TurnInv(p)'
  <1>1. /\ Work(a) /\ client' = client /\ toServer' = toServer /\ toClient' = toClient
        /\ \A t \in Pid \ {a} : outbox'[t] = outbox[t]
        /\ outbox'[a] = Messages(a) /\ outbox[a] = <<>>
    BY ServeFacts
  <1>2. PICK g : g = thr[a].game
    OBVIOUS
  <1>3. PICK o : o = OtherMember(g, a)
    OBVIOUS
  <1>4. thr[a].pc = "mark_ready" /\ TypeInv /\ ThreadStepOf(a) /\ TurnInv(p)
    BY <1>1 DEF MarkReady, At, MatchInv, ThreadStepOf, TurnInvs
  <1>5. /\ g \in Gid /\ g # NoId /\ GameOf(a) = g /\ GameOf(o) = g /\ Members(g) = {a, o}
        /\ games[g].state = "PLACING_SHIPS"
    <2>1. thr[a].game = g /\ OtherMember(g, a) = o /\ thr[a].pc = "mark_ready"
      BY <1>2, <1>3, <1>4
    <2>2. g \in Gid /\ GameOf(a) = g /\ Members(g) = {a, o} /\ GameOf(o) = g /\ games[g].state = "PLACING_SHIPS"
      BY <2>1, DuringMark
    <2> QED BY <2>2, NoIdNowhere
  <1>6. games'[g] = Started(games[g]) /\ games[g].creator_id = p
    <2>1. thr'[a].pc # "receive" /\ thr'[a].creator = p
      BY DEF StartsWith, Starting
    <2>2. ~Return(a)
      BY <1>4, <2>1, ReturnIdle
    <2>3. PICK c : c = games[g].creator_id
      OBVIOUS
    <2>4. PICK d : d = games[g].opponent_id
      OBVIOUS
    <2>5. /\ games' = [games EXCEPT ![g] = Started(games[g])]
          /\ thr' = [thr EXCEPT ![a] = [thr[a] EXCEPT !.pc = "get_creator", !.creator = c, !.other = d]]
      BY <1>2, <2>2, <2>3, <2>4 DEF MarkReady
    <2>6. thr'[a] = [thr[a] EXCEPT !.pc = "get_creator", !.creator = c, !.other = d] /\ thr[a] \in Thread
      BY <1>4, <2>5, MovesThread, Locals
    <2>7. thr'[a].creator = c
      BY <2>6 DEF Thread
    <2> QED BY <1>4, <1>5, <2>1, <2>3, <2>5, <2>7, MovesGame
  <1>7. GameOf(p) = g /\ GameOf(p)' = g
    <2>1. p \in {a, o}
      BY <1>5, <1>6 DEF Members
    <2> QED BY <1>4, <1>5, <2>1, StaysAttached
  <1>8. Turn(p)'
    <2>1. games[g] \in Game
      BY <1>4, <1>5, GameFields
    <2>2. games'[g].state = "IN_PROGRESS" /\ games'[g].current_turn = p
      BY <1>6, <2>1 DEF Started, Game
    <2> QED BY <1>5, <1>7, <2>2 DEF Turn
  <1>9. ~Turn(p) /\ ~Firing(p) /\ \A t \in Pid : ~Promised(t, p)
    BY <1>4, <1>5, <1>7 DEF Turn, TurnInv, PromiseOK
  <1>10. ~Told(p)
    <2>1. ~Passed(p)
      BY <1>5, <1>7, PassedFacts DEF Turn
    <2>2. ~Finishing(p)
      BY <1>5, <1>7 DEF Finishing
    <2> QED BY <1>4, <1>9, <2>1, <2>2 DEF TurnInv
  <1>11. ~Told(p)' /\ ~Firing(p)' /\ OneFire(p)'
    BY <1>4, <1>9, <1>10, ServeView DEF TurnInv
  <1>12. ASSUME NEW t \in Pid PROVE ~Turned(t, p)' /\ Once(t, p)'
    <2>1. NoTurn(Messages(a), p)
      BY <1>4, QuietMessages DEF MatchInv
    <2>2. outbox'[t] = outbox[t] \/ NoTurn(outbox'[t], p)
      BY <1>1, <2>1
    <2>3. Once(t, p) /\ ~Turned(t, p)
      BY <1>4, <1>9 DEF TurnInv, PromiseOK, Promised
    <2> QED BY <2>2, <2>3, LettersKept
  <1>13. ASSUME NEW t \in Pid, Promised(t, p)' PROVE t = a
    <2>1. StartsWith(t, p)'
      BY <1>12, <1>13 DEF Promised
    <2>2. ~StartsWith(t, p)
      BY <1>9 DEF Promised
    <2> QED BY <1>4, <2>1, <2>2, StartsStep
  <1>14. PromiseOK(p)'
    <2>1. \A t, u \in Pid : Promised(t, p)' /\ Promised(u, p)' => t = u
      BY <1>13
    <2>2. \A t \in Pid : ~(Turned(t, p)' /\ StartsWith(t, p)') /\ Once(t, p)'
      BY <1>12
    <2>3. \A t \in Pid : Promised(t, p)' => Turn(p)' /\ ~Told(p)' /\ ~Firing(p)'
      BY <1>8, <1>11
    <2> QED BY <2>1, <2>2, <2>3 DEF PromiseOK
  <1> QED BY <1>8, <1>11, <1>14 DEF TurnInv

(* the start that was promised is announced *)
LEMMA LaunchTurn ==
  ASSUME MatchInv, MatchInv', SessionTypeOK, NEW a \in Pid, Serve(a), thr[a].pc = "start_opponent",
         NEW p \in Pid, TurnInv(p)
  PROVE  TurnInv(p)'
  <1>1. /\ Work(a) /\ client' = client /\ toServer' = toServer /\ toClient' = toClient
        /\ \A t \in Pid \ {a} : outbox'[t] = outbox[t]
        /\ outbox'[a] = Messages(a) /\ outbox[a] = <<>>
    BY ServeFacts
  <1>2. PICK c : c = thr[a].creator
    OBVIOUS
  <1>3. PICK o : o = thr[a].other
    OBVIOUS
  <1>4. PICK s : s = To(c, "YOUR_TURN") \o To(o, "WAIT_TURN")
    OBVIOUS
  <1>5. s = <<[to |-> c, type |-> "YOUR_TURN", n |-> 0], [to |-> o, type |-> "WAIT_TURN", n |-> 0]>>
    BY <1>4, TwoLetters
  <1>6. outbox'[a] = s /\ Messages(a) = s
    BY <1>1, <1>2, <1>3, <1>4, TurnAnswers
  <1>7. DOMAIN s = {1, 2} /\ \A i \in DOMAIN s : Turns(s[i], p) => i = 1 /\ p = c
    BY <1>5 DEF Turns
  <1>8. ~MarkReady(a) /\ ThreadStepOf(a) /\ TypeInv
    BY <1>1 DEF MarkReady, At, ThreadStepOf, MatchInv
  <1>9. CASE p # c
    <2>1. NoTurn(Messages(a), p)
      BY <1>6, <1>7, <1>9 DEF NoTurn
    <2> QED BY <1>8, <2>1, ServeQuietly
  <1>10. CASE p = c
    <2>1. StartsWith(a, p)
      BY <1>2, <1>10 DEF StartsWith, Starting
    <2>2. /\ Turn(p) /\ ~Told(p) /\ ~Firing(p) /\ OneFire(p)
          /\ \A t \in Pid : Promised(t, p) => t = a
      BY <2>1 DEF TurnInv, PromiseOK, Promised
    <2>3. Turn(p)'
      BY <1>8, <2>2, TurnStep
    <2>4. ~Told(p)' /\ ~Firing(p)' /\ OneFire(p)'
      BY <2>2, ServeView
    <2>5. ~StartsWith(a, p)'
      <3>1. StartOpponent(a)
        BY <1>1, <1>8, NobodyDeparts, ActionsAt
      <3>2. thr'[a].pc = "receive"
        BY <1>8, <3>1, ReturnIdle DEF StartOpponent
      <3> QED BY <3>2 DEF StartsWith, Starting
    <2>6. ASSUME NEW t \in Pid \ {a} PROVE ~Turned(t, p)' /\ ~StartsWith(t, p)' /\ Once(t, p)'
      <3>1. ~Turned(t, p) /\ ~StartsWith(t, p) /\ Once(t, p)
        BY <2>2 DEF Promised, TurnInv, PromiseOK
      <3>2. outbox'[t] = outbox[t]
        BY <1>1
      <3>3. ~StartsWith(t, p)'
        BY <1>8, <3>1, StartsStep
      <3> QED BY <3>1, <3>2, <3>3, LettersKept
    <2>7. Once(a, p)'
      <3>1. \A i, j \in DOMAIN s : Turns(s[i], p) /\ Turns(s[j], p) => i = j
        BY <1>7
      <3> QED BY <1>6, <3>1 DEF Once, Turns
    <2>8. \A t \in Pid : Promised(t, p)' => t = a
      BY <2>6 DEF Promised
    <2>9. PromiseOK(p)'
      <3>1. \A t \in Pid : ~(Turned(t, p)' /\ StartsWith(t, p)') /\ Once(t, p)'
        BY <2>5, <2>6, <2>7
      <3>2. \A t \in Pid : Promised(t, p)' => Turn(p)' /\ ~Told(p)' /\ ~Firing(p)'
        BY <2>3, <2>4
      <3>3. \A t, u \in Pid : Promised(t, p)' /\ Promised(u, p)' => t = u
        BY <2>8
      <3> QED BY <3>1, <3>2, <3>3 DEF PromiseOK
    <2> QED BY <2>3, <2>4, <2>9 DEF TurnInv
  <1> QED BY <1>9, <1>10

(* the turn goes to the opponent, who knows nothing of it yet *)
LEMMA PassTurnTurn ==
  ASSUME MatchInv, MatchInv', SessionTypeOK, TurnInvs, NEW a \in Pid, Serve(a), thr[a].pc = "pass_turn",
         NEW p \in Pid
  PROVE  TurnInv(p)'
  <1>1. /\ Work(a) /\ client' = client /\ toServer' = toServer /\ toClient' = toClient
        /\ \A t \in Pid \ {a} : outbox'[t] = outbox[t]
        /\ outbox'[a] = Messages(a) /\ outbox[a] = <<>>
    BY ServeFacts
  <1>2. PICK g : g = thr[a].game
    OBVIOUS
  <1>3. PICK o : o = thr[a].other
    OBVIOUS
  <1>4. PICK s : s = TurnPassed(a, o)
    OBVIOUS
  <1>5. s = <<[to |-> a, type |-> "WAIT_TURN", n |-> 0], [to |-> o, type |-> "YOUR_TURN", n |-> 0]>>
    BY <1>4, TwoLetters DEF TurnPassed
  <1>6. outbox'[a] = s /\ Messages(a) = s
    BY <1>1, <1>3, <1>4, TurnAnswers
  <1>7. DOMAIN s = {1, 2} /\ \A i \in DOMAIN s : Turns(s[i], p) => i = 2 /\ p = o
    BY <1>5 DEF Turns
  <1>8. /\ ~MarkReady(a) /\ ThreadStepOf(a) /\ TypeInv /\ TurnInv(p) /\ OneFire(p)
        /\ thr[a].cmd = "FIRE" /\ ~Departing(a)
    BY <1>1, NobodyDeparts, Mine DEF MarkReady, At, ThreadStepOf, MatchInv, TurnInvs, TurnInv, HandlerOK, SectionsOf
  <1>9. /\ g \in Gid /\ GameOf(a) = g /\ o \in Pid /\ o # a /\ GameOf(o) = g
        /\ games[g].state = "IN_PROGRESS" /\ games[g].current_turn = a
    BY <1>2, <1>3, <1>8, DuringShot DEF Shooting
  <1>10. Firing(a) /\ g # NoId
    BY <1>8, <1>9, NoIdNowhere DEF Firing, Handling
  <1>11. PassTurn(a)
    BY <1>1, <1>8, ActionsAt
  <1>12. thr'[a].pc = "receive" /\ thr'[a].cmd = "NONE"
    BY <1>8, <1>11, ReturnIdle DEF PassTurn
  <1>13. /\ (Told(p)' <=> Told(p)) /\ (Firing(p)' => Firing(p)) /\ OneFire(p)'
         /\ GameOf(a)' = g /\ GameOf(o)' = g
    BY <1>8, <1>9, <1>10, ServeView, StaysAttached
  <1>14. \A t \in Pid : StartsWith(t, p)' => StartsWith(t, p)
    BY <1>8, StartsStep
  <1>15. CASE p \notin {a, o}
    <2>1. NoTurn(Messages(a), p)
      BY <1>6, <1>7, <1>15 DEF NoTurn
    <2> QED BY <1>8, <1>15, <2>1, ServeQuietly
  <1>16. CASE p = a
    <2>1. \A t \in Pid : ~Promised(t, p)
      BY <1>8, <1>10, <1>16 DEF TurnInv, PromiseOK
    <2>2. NoTurn(outbox'[a], p)
      BY <1>6, <1>7, <1>9, <1>16 DEF NoTurn
    <2>3. \A t \in Pid : outbox'[t] = outbox[t] \/ NoTurn(outbox'[t], p)
      BY <1>1, <2>2
    <2>4. /\ \A t \in Pid : Promised(t, p)' => Promised(t, p)
          /\ \A t \in Pid : ~(Turned(t, p)' /\ StartsWith(t, p)') /\ Once(t, p)'
      BY <1>8, <1>14, <2>3, PromisesKept
    <2>5. PromiseOK(p)'
      BY <2>1, <2>4 DEF PromiseOK
    <2>6. Passed(a)'
      BY <1>4, <1>6, <1>9, <1>10, <1>13 DEF Passed
    <2>7. ~Firing(p)'
      <3>1. client[p].typed # "FIRE" /\ ~Queued(p, "FIRE")
        BY <1>8, <1>16 DEF OneFire
      <3>2. client'[p].typed # "FIRE" /\ ~Queued(p, "FIRE")'
        BY <1>1, <3>1 DEF Queued
      <3>3. ~Handling(p)'
        BY <1>12, <1>16 DEF Handling
      <3> QED BY <3>2, <3>3 DEF Firing
    <2>8. Passed(p)'
      BY <1>16, <2>6
    <2> QED BY <1>13, <2>5, <2>7, <2>8 DEF TurnInv
  <1>17. CASE p = o
    <2>1. ~Turn(p) /\ ~Firing(p) /\ \A t \in Pid : ~Promised(t, p)
      BY <1>8, <1>9, <1>17 DEF Turn, TurnInv, PromiseOK
    <2>2. ~Told(p)
      <3>1. ~Passed(p)
        <4> SUFFICES ASSUME Passed(p) PROVE FALSE
          OBVIOUS
        <4>1. PICK x \in Pid \ {p} : GameOf(x) = GameOf(p) /\ Turn(x) /\ ~Firing(x)
          BY PassedFacts
        <4>2. x = a
          BY <1>9, <1>17, <4>1 DEF Turn
        <4> QED BY <1>10, <4>1, <4>2
      <3>2. ~Finishing(p)
        BY <1>9, <1>17 DEF Finishing
      <3> QED BY <1>8, <2>1, <3>1, <3>2 DEF TurnInv
    <2>3. Turn(p)'
      <3>1. games' = [games EXCEPT ![g].current_turn = o]
        BY <1>2, <1>3, <1>11 DEF PassTurn
      <3>2. games[g] \in Game /\ games' = [games EXCEPT ![g] = [games[g] EXCEPT !.current_turn = o]]
        BY <1>8, <1>9, <3>1, GameFields
      <3>3. games'[g] = [games[g] EXCEPT !.current_turn = o]
        BY <1>8, <1>9, <3>2, MovesGame
      <3>4. games'[g].state = "IN_PROGRESS" /\ games'[g].current_turn = p
        BY <1>9, <1>17, <3>2, <3>3 DEF Game
      <3> QED BY <1>10, <1>13, <1>17, <3>4 DEF Turn
    <2>4. ASSUME NEW t \in Pid \ {a} PROVE ~Turned(t, p)' /\ Once(t, p)'
      <3>1. ~Turned(t, p) /\ Once(t, p) /\ outbox'[t] = outbox[t]
        BY <1>1, <1>8, <2>1 DEF Promised, TurnInv, PromiseOK
      <3> QED BY <3>1, LettersKept
    <2>5. Once(a, p)'
      <3>1. \A i, j \in DOMAIN s : Turns(s[i], p) /\ Turns(s[j], p) => i = j
        BY <1>7
      <3> QED BY <1>6, <3>1 DEF Once, Turns
    <2>6. \A t \in Pid : ~StartsWith(t, p)'
      BY <1>14, <2>1 DEF Promised
    <2>7. PromiseOK(p)'
      <3>1. \A t \in Pid : ~(Turned(t, p)' /\ StartsWith(t, p)') /\ Once(t, p)'
        BY <2>4, <2>5, <2>6
      <3>2. \A t \in Pid : Promised(t, p)' => Turn(p)' /\ ~Told(p)' /\ ~Firing(p)'
        BY <1>13, <2>1, <2>2, <2>3
      <3>3. \A t \in Pid : Promised(t, p)' => t = a
        BY <2>4, <2>6 DEF Promised
      <3>4. \A t, u \in Pid : Promised(t, p)' /\ Promised(u, p)' => t = u
        BY <3>3
      <3> QED BY <3>1, <3>2, <3>4 DEF PromiseOK
    <2> QED BY <1>13, <2>1, <2>3, <2>7 DEF TurnInv
  <1> QED BY <1>15, <1>16, <1>17

LEMMA ServeTurn ==
  ASSUME MatchInv, MatchInv', SessionTypeOK, TurnInvs, NEW a \in Pid, Serve(a), NEW p \in Pid
  PROVE  TurnInv(p)'
  <1>1. TurnInv(p) /\ TypeInv'
    BY DEF TurnInvs, MatchInv
  <1>2. CASE thr[a].pc = "start_opponent"
    BY <1>1, <1>2, LaunchTurn
  <1>3. CASE thr[a].pc = "pass_turn"
    BY <1>3, PassTurnTurn
  <1>4. CASE MarkReady(a) /\ StartsWith(a, p)'
    BY <1>4, StartTurn
  <1>5. CASE p = a /\ thr[a].pc \in {"declare_win", "finish_self", "finish_opponent"}
    <2>1. Serve(p) /\ thr[p].pc \in {"declare_win", "finish_self", "finish_opponent"}
      BY <1>5
    <2> QED BY <1>1, <2>1, FinishTurn
  <1>6. CASE /\ thr[a].pc \notin {"start_opponent", "pass_turn"}
             /\ MarkReady(a) => ~StartsWith(a, p)'
             /\ p = a => thr[a].pc \notin {"pass_turn", "declare_win", "finish_self", "finish_opponent"}
    <2>1. NoTurn(Messages(a), p)
      BY <1>1, <1>6, QuietMessages
    <2> QED BY <1>1, <1>6, <2>1, ServeQuietly
  <1> QED BY <1>2, <1>3, <1>4, <1>5, <1>6

-----------------------------------------------------------------------------
(* No client is asked to fire out of turn                                  *)

LEMMA TurnInit == SessionInit => TurnInvs
  <1> SUFFICES ASSUME SessionInit, NEW p \in Pid PROVE TurnInv(p)
    BY DEF TurnInvs
  <1>1. \A t \in Pid : /\ thr[t].pc = "none" /\ thr[t].cmd = "NONE" /\ toServer[t] = <<>> /\ outbox[t] = <<>>
                       /\ toClient[t] = <<>> /\ client[t].state = "DISCONNECTED" /\ client[t].typed = "none"
    BY DEF SessionInit, Init, Idle, Gone
  <1>2. ~Told(p) /\ ~Firing(p) /\ OneFire(p)
    BY <1>1 DEF Told, Firing, Handling, Queued, OneFire
  <1>3. \A t \in Pid : ~Turned(t, p) /\ ~StartsWith(t, p) /\ Once(t, p)
    BY <1>1 DEF Turned, StartsWith, Starting, Once
  <1> QED BY <1>2, <1>3 DEF TurnInv, PromiseOK, Promised

LEMMA TurnStutter ==
  ASSUME UNCHANGED allVars, SessionTypeOK, TurnInvs PROVE TurnInvs'
  <1>1. /\ UNCHANGED vars /\ client' = client /\ toClient' = toClient
        /\ toServer' = toServer /\ outbox' = outbox
    BY DEF allVars, sessionVars, channels
  <1>2. ASSUME NEW p \in Pid PROVE TurnInv(p)'
    BY <1>1, BystanderTurn DEF TurnInvs
  <1> QED BY <1>2 DEF TurnInvs

LEMMA TurnsStep ==
  ASSUME NobodyLeaves, Patient, MatchInv, MatchInv', SessionTypeOK, AnswerInvs, TurnInvs,
         NEW a \in Pid, Arrive(a) \/ Type(a) \/ Deliver(a)
  PROVE  TurnInvs'
  <1> SUFFICES ASSUME NEW p \in Pid PROVE TurnInv(p)'
    BY DEF TurnInvs
  <1>1. TurnInv(p) /\ Linked(p) /\ Linked(a)
    BY DEF TurnInvs, AnswerInvs, AnswerInv
  <1>2. CASE Arrive(a)
    BY <1>1, <1>2, ArriveTurn
  <1>3. CASE Type(a)
    BY <1>1, <1>3, TypeTurn
  <1>4. CASE TakeCommand(a)
    BY <1>1, <1>4, TakeTurn
  <1>5. CASE Serve(a)
    BY <1>5, ServeTurn
  <1>6. CASE Write(a)
    BY <1>1, <1>6, WriteTurn
  <1>7. CASE Show(a)
    BY <1>1, <1>7, ShowTurn
  <1>8. CASE Act(a)
    BY <1>1, <1>8, ActTurn
  <1> QED BY <1>2, <1>3, <1>4, <1>5, <1>6, <1>7, <1>8 DEF Deliver

(* when nothing is on its way, whoever takes it for its turn has it *)
LEMMA NoFalseTurnAtRest ==
  ASSUME MatchInv, TurnInvs PROVE NoFalseTurn
  <1> SUFFICES ASSUME AtRest, NEW p \in Pid, client[p].state = "MY_TURN"
               PROVE  \E g \in Gid : games[g].state = "IN_PROGRESS" /\ games[g].current_turn = p
    BY DEF NoFalseTurn
  <1>1. toClient[p] = <<>> /\ outbox[p] = <<>> /\ thr[p].pc \in {"none", "receive"}
    BY DEF AtRest
  <1>2. Told(p)
    BY <1>1 DEF Told
  <1>3. ~Passed(p) /\ ~Finishing(p)
    BY <1>1, SilentThread
  <1>4. Turn(p)
    BY <1>2, <1>3 DEF TurnInvs, TurnInv
  <1>5. GameOf(p) \in Gid
    BY <1>4, GameOfPlayer DEF Turn
  <1> QED BY <1>4, <1>5 DEF Turn

(* While nobody leaves and every user types one command at a time, no      *)
(* client is left believing that it is its turn when it is not: for any    *)
(* number of clients and games, although handle_ready and handle_fire      *)
(* announce the turns after they have given up the locks of the game, and  *)
(* the announcements of two handlers to one client may change places.      *)
THEOREM NobodyFiresFalsely ==
  ASSUME NobodyLeaves, SeveralShips, Patient PROVE SessionSpec => []NoFalseTurn
  <1> DEFINE Base == MatchInv /\ SessionTypeOK /\ AnswerInvs
  <1>1. SessionInit => TurnInvs
    BY TurnInit
  <1>2. ASSUME Base, Base', TurnInvs, [SessionNext]_allVars PROVE TurnInvs'
    <2>1. CASE UNCHANGED allVars
      BY <1>2, <2>1, TurnStutter
    <2>2. ASSUME NEW a \in Pid, Arrive(a) \/ Type(a) \/ Interrupt(a) \/ Deliver(a) PROVE TurnInvs'
      <3>1. ~Interrupt(a)
        BY DEF Interrupt, NobodyLeaves
      <3> QED BY <1>2, <2>2, <3>1, TurnsStep
    <2> QED BY <1>2, <2>1, <2>2 DEF SessionNext
  <1>3. Base /\ TurnInvs => NoFalseTurn
    BY NoFalseTurnAtRest
  <1>4. SessionSpec => []Base
    BY AnswersKept
  <1> QED BY <1>1, <1>2, <1>3, <1>4, PTL DEF SessionSpec

=============================================================================
