------------------------------- MODULE Session -------------------------------
(***************************************************************************)
(* Clients and server together.  The client whose connection owns slot p   *)
(* is the automaton of module Client, its server thread is the one of      *)
(* module GameServer, and two ordered byte streams connect them.           *)
(*                                                                         *)
(* A handler sends its messages after the critical section that they       *)
(* follow, with no lock held: they wait in outbox[p] and are written one   *)
(* by one, in steps between which every other thread may run, and the      *)
(* handler goes on only when they are written.  A message goes to whatever *)
(* connection the player slot has at that moment (gm_notify_player).       *)
(***************************************************************************)
EXTENDS GameServer, Sequences, SequencesExt

CONSTANTS MaxAhead,      \* commands of a user that may be unanswered at a time
          Buffer,        \* messages that fit into a connection before write() blocks
          MaxArrivals    \* connections in all (a bound of the model)

VARIABLES client,      \* state, typed line and open question of each client
          toServer,    \* commands on their way to the thread of slot p
          outbox,      \* messages that the thread of slot p has still to write
          toClient,    \* messages on their way to the client of slot p
          arrivals,    \* connections so far
          parted       \* history: a client has left a game or its connection

channels    == <<toServer, outbox, toClient>>
history     == <<arrivals, parted>>
sessionVars == <<client, channels, history>>
allVars     == <<vars, sessionVars>>

C == INSTANCE Client

ASSUME SessionAssumption == {MaxAhead, Buffer, MaxArrivals} \subseteq Nat \ {0}

Gone == [state |-> "DISCONNECTED", typed |-> "none", challenged |-> FALSE]

SessionInit ==
  /\ Init
  /\ client = [p \in Pid |-> Gone]
  /\ toServer = [p \in Pid |-> <<>>]
  /\ outbox = [p \in Pid |-> <<>>]
  /\ toClient = [p \in Pid |-> <<>>]
  /\ arrivals = 0
  /\ parted = FALSE

-----------------------------------------------------------------------------
(* The messages of the handlers                                            *)

To(q, type)       == <<[to |-> q, type |-> type, n |-> 0]>>
Placed(p, number) == <<[to |-> p, type |-> "SHIP_PLACED", n |-> number]>>

\* fault: the turns are announced to the wrong players
TurnsSwapped(shooter, next) == To(shooter, "YOUR_TURN") \o To(next, "WAIT_TURN")

(* the end of handle_fire: the turn has passed from the shooter to the next *)
TurnPassed(shooter, next) == To(shooter, "WAIT_TURN") \o To(next, "YOUR_TURN")

(* both members of a game are sent to the placement of their ships *)
MatchOpens(p, q) == To(p, "GAME_START") \o To(q, "GAME_START")

(* Sections after which a handler that gives up answers with an ERROR.      *)
Refusing == {"set_username", "create", "find_code", "file_request", "resolve",
             "check_invite", "clear_invite", "set_ready", "check_turn", "shoot",
             "ask_rematch", "check_alone"}

Reading == {"ACCEPT_INVITE", "REJECT_INVITE", "READY", "FIRE", "REMATCH", "WAIT_NEW_PLAYER"}

(* The messages that the thread of p writes after the critical section it  *)
(* has just left; those that only print are left out.                      *)
Messages(p) ==
  LET at   == thr[p].pc
      cmd  == thr[p].cmd
      o    == thr[p].other
      back == thr'[p].pc = "receive"
      next == thr'[p].pc
  IN CASE at \in Refusing /\ back -> To(p, "ERROR")
       [] at = "get_game" /\ next \in {"receive", "reset_self"} /\ cmd \in Reading -> To(p, "ERROR")
       [] at = "get_player" /\ cmd = "FIRE" /\ back -> To(p, "ERROR")
       [] at = "get_player" /\ cmd = "REMATCH" /\ next = "read_game_id" -> To(p, "ERROR")
       [] at = "enter_lobby"       -> To(p, "WELCOME")
       [] at = "attach"            -> To(p, "GAME_CREATED")
       [] at = "set_invited"       -> To(thr[p].creator, "JOIN_REQUEST")
       [] at = "seat_creator"      -> To(o, "JOIN_ACCEPTED") \o MatchOpens(p, o)
       [] at = "release_requester" -> To(o, "JOIN_REJECTED")
       [] at = "place" /\ players' # players -> Placed(p, players'[p].ships_placed)
       [] at = "start_opponent"    -> To(thr[p].creator, "YOUR_TURN") \o To(o, "WAIT_TURN")
       [] at = "finish_opponent"   -> To(p, "PLAY_AGAIN_PROMPT") \o To(o, "PLAY_AGAIN_PROMPT")
       [] at = "pass_turn"         -> TurnPassed(p, o)
       [] at = "offer"             -> To(o, "OPPONENT_DISCONNECTED")
       [] at = "evict"             -> To(o, "BACK_TO_LOBBY")
       [] at = "reset_self" /\ cmd # "QUIT" -> To(p, "BACK_TO_LOBBY")
       [] at = "restart_opponent"  -> MatchOpens(p, o)
       [] at = "set_waiting"       -> To(p, "WAITING_NEW_PLAYER")
       [] OTHER                    -> <<>>

-----------------------------------------------------------------------------
(* The server thread of slot p                                             *)

(* receive_message, require_login and the state check at the head of the   *)
(* handler                                                                 *)
TakeCommand(p) ==
  /\ At(p, "receive") /\ outbox[p] = <<>> /\ toServer[p] # <<>>
  /\ toServer' = [toServer EXCEPT ![p] = Tail(@)]
  /\ \/ /\ Receive(p)
        /\ thr'[p].cmd = Head(toServer[p])
        /\ UNCHANGED outbox
     \/ /\ PlayerLockFree(p)
        /\ players[p].state \notin Allowed(Head(toServer[p]))
        /\ outbox' = [outbox EXCEPT ![p] = To(p, "ERROR")]
        /\ UNCHANGED vars
  /\ UNCHANGED <<client, toClient, history>>

(* the next critical section of the handler *)
Serve(p) ==
  /\ outbox[p] = <<>>
  /\ Work(p)
  /\ outbox' = [outbox EXCEPT ![p] = Messages(p)]
  /\ UNCHANGED <<client, toServer, toClient, history>>

(* gm_notify_player, which reads the descriptor under the mutex of the     *)
(* player, and send_message; what is written to a connection that is gone  *)
(* is lost                                                                 *)
Write(p) ==
  /\ outbox[p] # <<>>
  /\ PlayerLockFree(Head(outbox[p]).to)
  /\ outbox' = [outbox EXCEPT ![p] = Tail(@)]
  /\ LET m == Head(outbox[p])
     IN IF Connected(m.to) /\ client[m.to].state # "DISCONNECTED"
        THEN /\ Len(toClient[m.to]) < Buffer
             /\ toClient' = [toClient EXCEPT ![m.to] = Append(@, [type |-> m.type, n |-> m.n])]
        ELSE UNCHANGED toClient
  /\ UNCHANGED <<vars, client, toServer, history>>

-----------------------------------------------------------------------------
(* The client of slot p                                                    *)

(* client_connect, accept() and gm_add_player *)
Arrive(p) ==
  /\ client[p].state = "DISCONNECTED"
  /\ Connect(p)
  /\ client' = [client EXCEPT ![p].state = "CONNECTED"]
  /\ arrivals < MaxArrivals
  /\ arrivals' = arrivals + 1
  /\ UNCHANGED <<channels, parted>>

(* the receiving thread shows a message *)
Show(p) ==
  /\ toClient[p] # <<>>
  /\ toClient' = [toClient EXCEPT ![p] = Tail(@)]
  /\ LET m == Head(toClient[p])
     IN /\ client' = [client EXCEPT ![p].state = C!AfterMessage(@, m),
                                    ![p].challenged = @ \/ m.type = "JOIN_REQUEST"]
        /\ toServer' = [toServer EXCEPT ![p] = @ \o C!Replies(m)]
  /\ UNCHANGED <<vars, outbox, history>>

(* What the user still waits for.  With MaxAhead = 1 a user types only once *)
(* everything that was sent has been answered and shown.                   *)
Unanswered(p) ==
  Len(toServer[p]) + IF At(p, "receive") /\ outbox[p] = <<>> /\ toClient[p] = <<>> THEN 0 ELSE 1

(* The input thread has read a line that the present state offers.  A user *)
(* answers a request to join only after having seen one.                   *)
Type(p) ==
  /\ client[p].typed = "none"
  /\ Unanswered(p) < MaxAhead
  /\ \E input \in C!Offered(client[p].state) :
       /\ input # "q" => input \in Commands
       /\ input = "q" => C!Meaning(client[p].state, "q") \in Commands
       /\ input \in {"ACCEPT_INVITE", "REJECT_INVITE"} => client[p].challenged
       /\ client' = [client EXCEPT ![p].typed = input]
  /\ UNCHANGED <<vars, channels, history>>

Parting == {"LEAVE_GAME", "REMATCH_DECLINE", "QUIT"}

Sent(c, cmd) ==
  [state |-> C!AfterCommand(c.state, cmd), typed |-> "none",
   challenged |-> c.challenged /\ cmd \notin {"ACCEPT_INVITE", "REJECT_INVITE"}]

(* The input thread carries out the line, in whatever state the receiving  *)
(* thread has meanwhile put the client.                                    *)
Act(p) ==
  /\ client[p].typed # "none"
  /\ LET c   == client[p]
         cmd == C!Meaning(c.state, c.typed)
     IN /\ client' = [client EXCEPT ![p] = IF cmd = "QUIT" THEN Gone ELSE Sent(c, cmd)]
        /\ toServer' = [toServer EXCEPT ![p] = Append(@, cmd)]
        /\ toClient' = IF cmd = "QUIT" THEN [toClient EXCEPT ![p] = <<>>] ELSE toClient
        /\ parted' = (parted \/ cmd \in Parting)
  /\ UNCHANGED <<vars, outbox, arrivals>>

(* Ctrl-C, or the connection breaks: the server reads QUIT or an end of    *)
(* file after what was sent before                                         *)
Interrupt(p) ==
  /\ "QUIT" \in Commands
  /\ client[p].state # "DISCONNECTED"
  /\ client' = [client EXCEPT ![p] = Gone]
  /\ toServer' = [toServer EXCEPT ![p] = Append(@, "QUIT")]
  /\ toClient' = [toClient EXCEPT ![p] = <<>>]
  /\ parted' = TRUE
  /\ UNCHANGED <<vars, outbox, arrivals>>

-----------------------------------------------------------------------------
(* Specification                                                           *)

(* what happens without a decision of a user *)
Deliver(p) == TakeCommand(p) \/ Serve(p) \/ Write(p) \/ Show(p) \/ Act(p)

SessionNext == \E p \in Pid : Arrive(p) \/ Type(p) \/ Interrupt(p) \/ Deliver(p)

SessionSpec == SessionInit /\ [][SessionNext]_allVars

-----------------------------------------------------------------------------
(* Properties                                                              *)

(* nothing is on its way and no handler runs *)
AtRest ==
  \A p \in Pid : /\ thr[p].pc \in {"none", "receive"} /\ client[p].typed = "none"
                 /\ toServer[p] = <<>> /\ outbox[p] = <<>> /\ toClient[p] = <<>>

WantsRematch(p) ==
  LET g == players[p].current_game_id
  IN /\ g # NoId
     /\ \/ games[g].creator_id = p /\ games[g].creator_wants_rematch
        \/ games[g].opponent_id = p /\ games[g].opponent_wants_rematch

(* A client that waits for the server is answered: when nothing is on its  *)
(* way it only waits for the opponent to agree to a rematch, although the  *)
(* two threads of the client overwrite each other's state.                 *)
Answered ==
  AtRest => \A p \in Pid : client[p].state \in {"WAITING_LOGIN", "WAITING_SERVER"}
                            => WantsRematch(p)

(* When nothing is on its way, only the client whose turn it is is asked    *)
(* to fire (the messages of two handlers to one client may change places). *)
NoFalseTurn ==
  AtRest /\ ~parted => \A p \in Pid : client[p].state = "MY_TURN"
    => \E g \in Gid : games[g].state = "IN_PROGRESS" /\ games[g].current_turn = p

(* When nothing is on its way, the client whose turn it is may fire.       *)
TurnHolderKnows ==
  AtRest => \A g \in Gid : Used(g) /\ games[g].state = "IN_PROGRESS"
    => client[games[g].current_turn].state = "MY_TURN"

=============================================================================
