------------------------------- MODULE Picture -------------------------------
(***************************************************************************)
(* What the clients show of a match.  Each client draws two boards of its   *)
(* own from the messages it receives (handle_response): ships when the     *)
(* server confirms them, its own shots from HIT, SUNK and MISS, the shots   *)
(* of the enemy from ENEMY_FIRE, and two empty boards at GAME_START.  The   *)
(* messages wait in inbox[p] until they are read.                          *)
(*                                                                         *)
(* handle_fire notifies both players before it passes the turn or ends the *)
(* match, and handle_rematch announces the new match to both, so the        *)
(* messages about one board leave in the order of the handlers: here they   *)
(* leave with the handler.  The messages that change the state of a client  *)
(* are the subject of Session.                                             *)
(***************************************************************************)
EXTENDS Duel

VARIABLES picture,   \* my_board, enemy_board and ships_placed of each client
          inbox      \* messages on their way to each client

pictureVars == <<vars, picture, inbox>>

EmptyGrid == [c \in Cell |-> "EMPTY"]
Blank     == [my_board |-> EmptyGrid, enemy_board |-> EmptyGrid, ships_placed |-> 0]

-----------------------------------------------------------------------------
(* handle_response                                                         *)

\* fault: the shots of the last match stay on the enemy board
ClearedMine(pic) == [pic EXCEPT !.my_board = EmptyGrid, !.ships_placed = 0]

(* clear_boards *)
Cleared(pic) == Blank

(* update_my_board_with_ship; the coordinates come in the order typed *)
Drawing(pic, ship) == [c \in Cell |-> IF Covers(ship, c) THEN "SHIP" ELSE pic.my_board[c]]

HitOrMiss(result) == IF result \in {"HIT", "SUNK"} THEN "HIT" ELSE "MISS"

(* the picture after message m *)
Redrawn(pic, m) ==
  CASE m.type = "GAME_START"  -> Cleared(pic)
    [] m.type = "SHIP_PLACED" -> [pic EXCEPT !.ships_placed = m.number,
                                             !.my_board = Drawing(pic, m.ship)]
    [] m.type = "ENEMY_FIRE"  -> [pic EXCEPT !.my_board[m.cell] = HitOrMiss(m.result)]
    [] m.type = "SHOT"        -> [pic EXCEPT !.enemy_board[m.cell] = HitOrMiss(m.result)]

Show(p) ==
  /\ inbox[p] # <<>>
  /\ picture' = [picture EXCEPT ![p] = Redrawn(@, Head(inbox[p]))]
  /\ inbox' = [inbox EXCEPT ![p] = Tail(@)]
  /\ UNCHANGED vars

-----------------------------------------------------------------------------
(* The messages of the handlers                                            *)

GameStart == <<[type |-> "GAME_START"]>>

ToEach(Message(_)) == inbox' = [p \in Side |-> inbox[p] \o Message(p)]

PictureInit ==
  /\ Init
  /\ picture = [p \in Side |-> Blank]
  /\ inbox = [p \in Side |-> GameStart]

(* handle_place_ship answers with the number of ships on the board *)
AskPlace(p) ==
  \E r1, c1, r2, c2 \in Coordinates :
    LET ship      == ShipAt(r1, c1, r2, c2)
        Answer(q) == IF q # p THEN <<>>
                     ELSE <<[type |-> "SHIP_PLACED", number |-> Len(boards'[p].ships), ship |-> ship]>>
    IN PlaceAt(p, ship) /\ ToEach(Answer)

(* handle_ready, sent by the client for the last ship of the fleet *)
SendReady(p) ==
  /\ picture[p].ships_placed >= Len(ShipSizes)
  /\ Ready(p)
  /\ UNCHANGED inbox

(* handle_fire: HIT, SUNK or MISS for p, ENEMY_FIRE for the other *)
AskFire(p) ==
  \E cell \in Targets :
    LET Notice(q) == <<[type |-> IF q = p THEN "SHOT" ELSE "ENEMY_FIRE",
                        cell |-> cell, result |-> answer']>>
    IN FireAt(p, cell) /\ ToEach(Notice)

(* handle_rematch: GAME_START for both when both have asked *)
AskRematch(p) ==
  LET Announced(q) == IF state' = "PLACING_SHIPS" THEN GameStart ELSE <<>>
  IN Rematch(p) /\ ToEach(Announced)

(* a user acts on what the client shows: everything sent has been read *)
Act(p) ==
  /\ inbox[p] = <<>>
  /\ AskPlace(p) \/ SendReady(p) \/ AskFire(p) \/ AskRematch(p)
  /\ UNCHANGED picture

PictureNext == \E p \in Side : Show(p) \/ Act(p)

PictureSpec == PictureInit /\ [][PictureNext]_pictureVars

-----------------------------------------------------------------------------
(* Properties                                                              *)

(* what a client shows once it has read the at most two messages that wait *)
Read(p) ==
  LET first == Redrawn(picture[p], inbox[p][1])
  IN CASE Len(inbox[p]) = 0 -> picture[p]
       [] Len(inbox[p]) = 1 -> first
       [] Len(inbox[p]) = 2 -> Redrawn(first, inbox[p][2])

(* Once a client has read what is on its way to it, it shows its own board *)
(* and its view of the enemy's as the server has them, in every match: the *)
(* server never sends its boards, only what changes.  A client is never    *)
(* behind by more than the result of its own shot and the next of the enemy. *)
PictureTrue ==
  \A p \in Side :
    /\ Len(inbox[p]) \in 0 .. 2
    /\ Read(p) = [my_board     |-> boards[p].cells,
                  enemy_board  |-> boards[p].enemy_view,
                  ships_placed |-> Len(boards[p].ships)]

=============================================================================
