------------------------------- MODULE Board --------------------------------
(***************************************************************************)
(* The rules of the game on one board (game_logic.c): which placements are *)
(* accepted, what a shot does, and when a fleet is defeated.  Pure          *)
(* operators: a Board is a record, and its array ships[0 .. ships_placed-1] *)
(* is a sequence.  Entries of ships that are not placed yet are never read. *)
(***************************************************************************)
EXTENDS Integers, Sequences

CONSTANTS GridSize,    \* GRID_SIZE
          ShipSizes    \* SHIP_SIZES, as a sequence

ASSUME BoardAssumption ==
  /\ GridSize \in Nat \ {0}
  /\ ShipSizes \in Seq(1 .. GridSize)
  /\ Len(ShipSizes) > 0

Index == 0 .. GridSize - 1
Cell  == Index \X Index

CellStates == {"EMPTY", "SHIP", "HIT", "MISS"}

(* A ship, or the coordinates of a placement with no hits yet. *)
ShipAt(r1, c1, r2, c2) ==
  [start_row |-> r1, start_col |-> c1, end_row |-> r2, end_col |-> c2, hits |-> 0]

Ship == [start_row : Index, start_col : Index, end_row : Index, end_col : Index, hits : Nat]

BoardType == [cells : [Cell -> CellStates], enemy_view : [Cell -> CellStates \ {"SHIP"}],
              ships : Seq(Ship), ships_remaining : 0 .. Len(ShipSizes)]

NewBoard == [cells |-> [c \in Cell |-> "EMPTY"], enemy_view |-> [c \in Cell |-> "EMPTY"],
             ships |-> <<>>, ships_remaining |-> Len(ShipSizes)]

\* fault: the view of the enemy board survives the reset
KeepView(board) == [NewBoard EXCEPT !.enemy_view = board.enemy_view]

(* init_board overwrites every field of the board *)
InitBoard(board) == NewBoard

-----------------------------------------------------------------------------
(* Placing                                                                 *)

Lower(a, b)  == IF a < b THEN a ELSE b
Higher(a, b) == IF a > b THEN a ELSE b

\* fault: ships that touch in their last cell do not overlap
Ahead(a1, a2, b1, b2) ==
  Lower(a1, a2) < Higher(b1, b2) /\ Higher(a1, a2) > Lower(b1, b2)

(* two intervals of rows, or of columns, have an index in common *)
Meet(a1, a2, b1, b2) ==
  Lower(a1, a2) <= Higher(b1, b2) /\ Higher(a1, a2) >= Lower(b1, b2)

ShipsOverlap(s, t) ==
  /\ Meet(t.start_row, t.end_row, s.start_row, s.end_row)
  /\ Meet(t.start_col, t.end_col, s.start_col, s.end_col)

\* fault: the last row and column are refused
InsideGrid(s) == {s.start_row, s.start_col, s.end_row, s.end_col} \subseteq 0 .. GridSize - 2

\* fault: one row and column too many are accepted
BeyondGrid(s) == {s.start_row, s.start_col, s.end_row, s.end_col} \subseteq 0 .. GridSize

InGrid(s) == {s.start_row, s.start_col, s.end_row, s.end_col} \subseteq Index

Aligned(s) == s.start_row = s.end_row \/ s.start_col = s.end_col

(* abs(end - start) + 1 along the row if there is one, else the column *)
Size(s) ==
  IF s.start_row = s.end_row
  THEN Higher(s.start_col, s.end_col) - Lower(s.start_col, s.end_col) + 1
  ELSE Higher(s.start_row, s.end_row) - Lower(s.start_row, s.end_row) + 1

AllPlaced(board) == Len(board.ships) >= Len(ShipSizes)

(* place_ship answers PLACEMENT_OK *)
CanPlace(board, s) ==
  /\ ~AllPlaced(board)
  /\ InGrid(s)
  /\ Aligned(s)
  /\ Size(s) = ShipSizes[Len(board.ships) + 1]
  /\ \A i \in 1 .. Len(board.ships) : ~ShipsOverlap(board.ships[i], s)

(* the test of find_ship_at, and the cells that place_ship marks *)
Covers(s, cell) ==
  /\ cell[1] \in Lower(s.start_row, s.end_row) .. Higher(s.start_row, s.end_row)
  /\ cell[2] \in Lower(s.start_col, s.end_col) .. Higher(s.start_col, s.end_col)

WithShip(board, s) ==
  [board EXCEPT !.ships = Append(@, s),
                !.cells = [c \in Cell |-> IF Covers(s, c) THEN "SHIP" ELSE board.cells[c]]]

-----------------------------------------------------------------------------
(* Firing                                                                  *)

(* process_fire answers FIRE_INVALID *)
Refused(target, attacker, cell) ==
  \/ cell \notin Cell
  \/ attacker.enemy_view[cell] \in {"HIT", "MISS"}
  \/ target.cells[cell] \in {"HIT", "MISS"}

\* fault: the last ship of the fleet is not searched
ShipsButLast(board, cell) ==
  {i \in 1 .. Len(board.ships) - 1 : Covers(board.ships[i], cell)}

(* find_ship_at looks for the first of these *)
ShipsOn(board, cell) == {i \in 1 .. Len(board.ships) : Covers(board.ships[i], cell)}

FindShip(board, cell) ==
  CHOOSE i \in ShipsOn(board, cell) : \A j \in ShipsOn(board, cell) : i <= j

(* the shot completes the hits on a ship *)
Sinks(board, cell) ==
  /\ ShipsOn(board, cell) # {}
  /\ LET s == board.ships[FindShip(board, cell)] IN s.hits + 1 >= Size(s)

WithHit(ships, i) == [ships EXCEPT ![i].hits = ships[i].hits + 1]

Struck(target, cell) ==
  [target EXCEPT !.cells[cell] = "HIT",
                 !.ships = IF ShipsOn(target, cell) = {} THEN target.ships
                           ELSE WithHit(target.ships, FindShip(target, cell)),
                 !.ships_remaining = IF Sinks(target, cell) THEN @ - 1 ELSE @]

(* the result of an accepted shot, and the two boards after it *)
Outcome(target, cell) ==
  IF target.cells[cell] # "SHIP" THEN "MISS"
  ELSE IF Sinks(target, cell) THEN "SUNK" ELSE "HIT"

FiredUpon(target, cell) ==
  IF target.cells[cell] = "SHIP" THEN Struck(target, cell)
  ELSE [target EXCEPT !.cells[cell] = "MISS"]

Noted(attacker, target, cell) ==
  [attacker EXCEPT !.enemy_view[cell] = IF target.cells[cell] = "SHIP" THEN "HIT" ELSE "MISS"]

(* check_victory *)
Defeat(board) == board.ships_remaining <= 0

=============================================================================
