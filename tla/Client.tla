------------------------------- MODULE Client -------------------------------
(***************************************************************************)
(* The automaton of the terminal client (client.c).  Two threads share     *)
(* client->state without a lock: the receiving thread writes it for each   *)
(* message (handle_response), the input thread reads it, asks the user for *)
(* a command that the state offers, and may write it before the command is *)
(* sent (client_run).  The operators here are the two transition tables;   *)
(* module Session runs the threads.                                        *)
(*                                                                         *)
(* What is printed and the boards are left out, and so are the messages    *)
(* that only print or only touch a board: they never change the state.     *)
(***************************************************************************)
EXTENDS Integers, FiniteSets

CONSTANT MaxShips   \* ships of a fleet

ClientStates == {"DISCONNECTED", "CONNECTED", "WAITING_LOGIN", "IN_LOBBY",
                 "WAITING_OPPONENT", "PLACING_SHIPS", "WAITING_START", "MY_TURN",
                 "WAITING_TURN", "OPPONENT_DISCONNECTED", "GAME_OVER", "WAITING_SERVER"}

-----------------------------------------------------------------------------
(* The receiving thread                                                    *)

(* the state that a message leads to, whatever the state before *)
Shown ==
  [WELCOME |-> "IN_LOBBY", GAME_CREATED |-> "WAITING_OPPONENT",
   JOIN_ACCEPTED |-> "WAITING_START", JOIN_REJECTED |-> "IN_LOBBY",
   GAME_START |-> "PLACING_SHIPS", YOUR_TURN |-> "MY_TURN",
   WAIT_TURN |-> "WAITING_TURN", PLAY_AGAIN_PROMPT |-> "GAME_OVER",
   BACK_TO_LOBBY |-> "IN_LOBBY", OPPONENT_DISCONNECTED |-> "OPPONENT_DISCONNECTED",
   WAITING_NEW_PLAYER |-> "WAITING_OPPONENT"]

\* fault: a refused LOGIN is not asked again
AfterErrorNoRetry(s) == IF s \in {"WAITING_SERVER", "GAME_OVER"} THEN "IN_LOBBY" ELSE s

(* an ERROR is taken for the answer to the last command that waits for one *)
AfterError(s) ==
  CASE s = "WAITING_LOGIN"                   -> "CONNECTED"
    [] s \in {"WAITING_SERVER", "GAME_OVER"} -> "IN_LOBBY"
    [] OTHER                                 -> s

(* SHIP_PLACED with the number of the last ship completes the fleet *)
CompletesFleet(m) == m.type = "SHIP_PLACED" /\ m.n >= MaxShips

(* handle_response: client->state after message m is shown in state s *)
AfterMessage(s, m) ==
  IF m.type = "ERROR" THEN AfterError(s)
  ELSE IF CompletesFleet(m) THEN "WAITING_START"
  ELSE IF m.type \in DOMAIN Shown THEN Shown[m.type]
  ELSE s

(* what the receiving thread sends by itself: READY for a complete fleet *)
Replies(m) == IF CompletesFleet(m) THEN <<"READY">> ELSE <<>>

-----------------------------------------------------------------------------
(* The input thread                                                        *)

(* What the user may type in each state; "q" is the letter of the lobby,    *)
(* all other inputs are named after the command they send.                 *)
Offered(s) ==
  CASE s = "CONNECTED"                             -> {"LOGIN"}
    [] s \in {"IN_LOBBY", "WAITING_OPPONENT"}      ->
         {"CREATE_GAME", "JOIN_GAME", "ACCEPT_INVITE", "REJECT_INVITE", "q"}
    [] s = "PLACING_SHIPS"                         -> {"PLACE_SHIP", "LEAVE_GAME"}
    [] s \in {"WAITING_START", "WAITING_TURN"}     -> {"LEAVE_GAME"}
    [] s = "MY_TURN"                               -> {"FIRE", "LEAVE_GAME"}
    [] s = "OPPONENT_DISCONNECTED"                 -> {"WAIT_NEW_PLAYER", "LEAVE_GAME"}
    [] s = "GAME_OVER"                             -> {"REMATCH", "REMATCH_DECLINE"}
    [] OTHER                                       -> {}

(* the command sent for an input: "q" looks at the state again *)
Meaning(s, input) ==
  IF input # "q" THEN input
  ELSE IF s = "WAITING_OPPONENT" THEN "LEAVE_GAME" ELSE "QUIT"

Awaited == {"LEAVE_GAME", "WAIT_NEW_PLAYER", "REMATCH", "REMATCH_DECLINE"}

(* client->state once command cmd has been sent in state s *)
AfterCommand(s, cmd) ==
  CASE cmd = "LOGIN"     -> "WAITING_LOGIN"
    [] cmd \in Awaited   -> "WAITING_SERVER"
    [] cmd = "QUIT"      -> "DISCONNECTED"
    [] OTHER             -> s

=============================================================================
