-------------------------------- MODULE Duel --------------------------------
(***************************************************************************)
(* One match between two seated players, board by board: PLACE_SHIP, READY, *)
(* FIRE and REMATCH of client_handler.c on the boards of game_logic.c.      *)
(*                                                                         *)
(* Each action is a whole handler, and nobody leaves: how the critical      *)
(* sections of the handlers interleave, and departures, are the subject of  *)
(* GameServer, which abstracts a board to its two counters.                 *)
(***************************************************************************)
EXTENDS Board, FiniteSets

CONSTANTS Coordinates,   \* rows and columns that clients send to place a ship
          Targets        \* cells that clients fire at

VARIABLES boards,          \* player->board of each side
          state,           \* g->state
          ready,           \* g->creator_ready, g->opponent_ready
          current_turn,    \* g->current_turn
          winner_id,       \* g->winner_id
          wants_rematch,   \* g->creator_wants_rematch, g->opponent_wants_rematch
          answer           \* the result that the last accepted FIRE sent back

vars == <<boards, state, ready, current_turn, winner_id, wants_rematch, answer>>

Side     == {"creator", "opponent"}
Enemy(p) == IF p = "creator" THEN "opponent" ELSE "creator"
NoFlags  == [p \in Side |-> FALSE]

TypeOK ==
  /\ boards \in [Side -> BoardType]
  /\ state \in {"PLACING_SHIPS", "IN_PROGRESS", "FINISHED"}
  /\ ready \in [Side -> BOOLEAN]
  /\ current_turn \in Side \union {"none"}
  /\ winner_id \in Side \union {"none"}
  /\ wants_rematch \in [Side -> BOOLEAN]
  /\ answer \in {"none", "MISS", "HIT", "SUNK"}

Init ==
  /\ boards = [p \in Side |-> NewBoard]
  /\ state = "PLACING_SHIPS"
  /\ ready = NoFlags
  /\ current_turn = "none"
  /\ winner_id = "none"
  /\ wants_rematch = NoFlags
  /\ answer = "none"

(* handle_place_ship; a refused placement changes nothing.  A player that   *)
(* is ready is no longer in PLAYER_PLACING_SHIPS.                          *)
PlaceAt(p, ship) ==
  /\ state = "PLACING_SHIPS" /\ ~ready[p]
  /\ CanPlace(boards[p], ship)
  /\ boards' = [boards EXCEPT ![p] = WithShip(boards[p], ship)]
  /\ UNCHANGED <<state, ready, current_turn, winner_id, wants_rematch, answer>>

PlaceShip(p) == \E r1, c1, r2, c2 \in Coordinates : PlaceAt(p, ShipAt(r1, c1, r2, c2))

(* handle_ready *)
Ready(p) ==
  /\ state = "PLACING_SHIPS" /\ ~ready[p]
  /\ AllPlaced(boards[p])
  /\ ready' = [ready EXCEPT ![p] = TRUE]
  /\ IF ready[Enemy(p)]
     THEN state' = "IN_PROGRESS" /\ current_turn' = "creator"
     ELSE UNCHANGED <<state, current_turn>>
  /\ UNCHANGED <<boards, winner_id, wants_rematch, answer>>

(* handle_fire; a refused shot changes nothing and leaves the turn *)
FireAt(p, cell) ==
  LET target == boards[Enemy(p)]
      after  == FiredUpon(target, cell)
  IN /\ state = "IN_PROGRESS" /\ current_turn = p
     /\ ~Refused(target, boards[p], cell)
     /\ boards' = [boards EXCEPT ![Enemy(p)] = after, ![p] = Noted(@, target, cell)]
     /\ answer' = Outcome(target, cell)
     /\ IF Defeat(after)
        THEN /\ state' = "FINISHED"
             /\ winner_id' = p
             /\ wants_rematch' = NoFlags
             /\ UNCHANGED current_turn
        ELSE /\ current_turn' = Enemy(p)
             /\ UNCHANGED <<state, winner_id, wants_rematch>>
     /\ UNCHANGED ready

Fire(p) == \E cell \in Targets : FireAt(p, cell)

(* handle_rematch and reset_game_for_rematch: the second request starts     *)
(* the next match                                                          *)
Rematch(p) ==
  /\ state = "FINISHED"
  /\ IF wants_rematch[Enemy(p)]
     THEN /\ boards' = [q \in Side |-> InitBoard(boards[q])]
          /\ state' = "PLACING_SHIPS"
          /\ ready' = NoFlags
          /\ current_turn' = "none"
          /\ winner_id' = "none"
          /\ wants_rematch' = NoFlags
          /\ answer' = "none"
     ELSE /\ wants_rematch' = [wants_rematch EXCEPT ![p] = TRUE]
          /\ UNCHANGED <<boards, state, ready, current_turn, winner_id, answer>>

Next == \E p \in Side : PlaceShip(p) \/ Ready(p) \/ Fire(p) \/ Rematch(p)

Spec == Init /\ [][Next]_vars

-----------------------------------------------------------------------------
(* Properties                                                              *)

ShipCells(s)       == {c \in Cell : Covers(s, c)}
Fleet(p)           == [i \in 1 .. Len(boards[p].ships) |-> ShipCells(boards[p].ships[i])]
FiredAt(p)         == {c \in Cell : boards[p].enemy_view[c] # "EMPTY"}
HitCells(board, s) == {c \in ShipCells(s) : board.cells[c] = "HIT"}

(* What a player sees of the enemy board is exactly what it has fired at,   *)
(* and agrees with that board, also in a rematch (process_fire writes two   *)
(* boards, handle_rematch resets two).                                     *)
ViewsAgree ==
  \A p \in Side : \A c \in Cell :
    LET there == boards[Enemy(p)].cells[c]
    IN boards[p].enemy_view[c] = IF there \in {"HIT", "MISS"} THEN there ELSE "EMPTY"

(* The counters that decide who wins agree with the cells: a ship counts    *)
(* its hit cells, and ships_remaining the ships that are still afloat.      *)
CountersAgree ==
  \A p \in Side :
    LET board  == boards[p]
        afloat == {i \in 1 .. Len(board.ships) :
                     ShipCells(board.ships[i]) # HitCells(board, board.ships[i])}
    IN /\ \A i \in 1 .. Len(board.ships) :
            board.ships[i].hits = Cardinality(HitCells(board, board.ships[i]))
       /\ AllPlaced(board) => board.ships_remaining = Cardinality(afloat)

(* a straight free line of the length of the next ship, inside the grid *)
Legal(board, r1, c1, r2, c2) ==
  /\ <<r1, c1>> \in Cell /\ <<r2, c2>> \in Cell
  /\ r1 = r2 \/ c1 = c2
  /\ LET line == ShipCells(ShipAt(r1, c1, r2, c2))
     IN /\ Cardinality(line) = ShipSizes[Len(board.ships) + 1]
        /\ \A c \in line : board.cells[c] = "EMPTY"

(* place_ship accepts every straight free line of the right length that     *)
(* lies in the grid, whichever end is given first, and no other input.      *)
PlacementExact ==
  \A p \in Side : \A r1, c1, r2, c2 \in Coordinates :
    state = "PLACING_SHIPS" /\ ~AllPlaced(boards[p])
      => (CanPlace(boards[p], ShipAt(r1, c1, r2, c2)) <=> Legal(boards[p], r1, c1, r2, c2))

(* The boards, their views and their counters implement the game that the   *)
(* players understand, replies included.                                   *)
Game == INSTANCE Battleship
          WITH fleet  <- [p \in Side |-> Fleet(p)],
               shots  <- [p \in Side |-> FiredAt(p)],
               turn   <- IF state = "IN_PROGRESS" THEN current_turn ELSE "none",
               winner <- winner_id

ImplementsBattleship == Game!Spec

=============================================================================
