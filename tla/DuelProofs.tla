----------------------------- MODULE DuelProofs -----------------------------
(***************************************************************************)
(* Theorems about the rules of Board, for every size of the grid and every *)
(* fleet, and about the boards of Duel: what a player sees, that           *)
(* place_ship accepts exactly the legal placements, and that the counters  *)
(* of a board agree with its cells: each ship counts its hits, and         *)
(* ships_remaining the ships that are still afloat.                        *)
(***************************************************************************)
EXTENDS Duel, FiniteSetTheorems, TLAPS

-----------------------------------------------------------------------------
(* Overlapping ships                                                       *)

(* Meet says whether two intervals have an index in common. *)
LEMMA MeetExact ==
  ASSUME NEW a1 \in Index, NEW a2 \in Index, NEW b1 \in Index, NEW b2 \in Index
  PROVE  Meet(a1, a2, b1, b2) <=>
           \E i \in Index : /\ i \in Lower(a1, a2) .. Higher(a1, a2)
                            /\ i \in Lower(b1, b2) .. Higher(b1, b2)
  <1> DEFINE low == Higher(Lower(a1, a2), Lower(b1, b2))
  <1>1. ASSUME Meet(a1, a2, b1, b2)
        PROVE  /\ low \in Index
               /\ low \in Lower(a1, a2) .. Higher(a1, a2)
               /\ low \in Lower(b1, b2) .. Higher(b1, b2)
    BY <1>1, BoardAssumption DEF Meet, Lower, Higher, Index
  <1>2. ASSUME NEW i \in Index, i \in Lower(a1, a2) .. Higher(a1, a2),
               i \in Lower(b1, b2) .. Higher(b1, b2)
        PROVE  Meet(a1, a2, b1, b2)
    BY <1>2, BoardAssumption DEF Meet, Lower, Higher, Index
  <1> QED BY <1>1, <1>2

(* The comparison of corners in ships_overlap is exact: it holds when and   *)
(* only when some cell of the grid belongs to both ships, whichever end of  *)
(* a ship is given first.                                                  *)
THEOREM OverlapExact ==
  ASSUME NEW s \in Ship, NEW t \in Ship
  PROVE  ShipsOverlap(s, t) <=> \E c \in Cell : Covers(s, c) /\ Covers(t, c)
  <1>1. /\ s.start_row \in Index /\ s.end_row \in Index
        /\ s.start_col \in Index /\ s.end_col \in Index
        /\ t.start_row \in Index /\ t.end_row \in Index
        /\ t.start_col \in Index /\ t.end_col \in Index
    BY DEF Ship
  <1>2. ASSUME ShipsOverlap(s, t) PROVE \E c \in Cell : Covers(s, c) /\ Covers(t, c)
    <2>1. PICK r \in Index : /\ r \in Lower(t.start_row, t.end_row) .. Higher(t.start_row, t.end_row)
                            /\ r \in Lower(s.start_row, s.end_row) .. Higher(s.start_row, s.end_row)
      BY <1>1, <1>2, MeetExact DEF ShipsOverlap
    <2>2. PICK k \in Index : /\ k \in Lower(t.start_col, t.end_col) .. Higher(t.start_col, t.end_col)
                            /\ k \in Lower(s.start_col, s.end_col) .. Higher(s.start_col, s.end_col)
      BY <1>1, <1>2, MeetExact DEF ShipsOverlap
    <2>3. <<r, k>> \in Cell
      BY <2>1, <2>2 DEF Cell
    <2>4. Covers(s, <<r, k>>) /\ Covers(t, <<r, k>>)
      BY <2>1, <2>2 DEF Covers
    <2> QED BY <2>3, <2>4
  <1>3. ASSUME NEW c \in Cell, Covers(s, c), Covers(t, c) PROVE ShipsOverlap(s, t)
    <2>1. c[1] \in Index /\ c[2] \in Index
      BY DEF Cell
    <2> QED BY <1>1, <1>3, <2>1, MeetExact DEF Covers, ShipsOverlap
  <1> QED BY <1>2, <1>3

-----------------------------------------------------------------------------
(* The views of the two players                                            *)

(* A board is a record of four fields whose cells and view are functions.   *)
Shape(b) ==
  /\ b = [cells |-> b.cells, enemy_view |-> b.enemy_view,
          ships |-> b.ships, ships_remaining |-> b.ships_remaining]
  /\ b.cells \in [Cell -> CellStates]
  /\ b.enemy_view \in [Cell -> CellStates]

BoardsOK == /\ boards = [p \in Side |-> boards[p]]
            /\ \A p \in Side : Shape(boards[p])

(* No shot is marked on a board while ships are placed on it: place_ship    *)
(* would overwrite the mark.                                               *)
PlacedBeforeShots ==
  state = "PLACING_SHIPS" =>
    \A p \in Side : \A c \in Cell : boards[p].cells[c] \in {"EMPTY", "SHIP"}

ViewInv == BoardsOK /\ ViewsAgree /\ PlacedBeforeShots

Mark(b, cell) == IF b.cells[cell] = "SHIP" THEN "HIT" ELSE "MISS"

LEMMA NewBoardShape == Shape(NewBoard)
  BY DEF Shape, NewBoard, CellStates

LEMMA WithShipShape ==
  ASSUME NEW b, Shape(b), NEW s
  PROVE  /\ Shape(WithShip(b, s))
         /\ WithShip(b, s).enemy_view = b.enemy_view
         /\ \A c \in Cell : WithShip(b, s).cells[c] = IF Covers(s, c) THEN "SHIP" ELSE b.cells[c]
  <1> DEFINE w == WithShip(b, s)
             k == [c \in Cell |-> IF Covers(s, c) THEN "SHIP" ELSE b.cells[c]]
  <1>1. w = [b EXCEPT !.ships = Append(b.ships, s), !.cells = k]
    BY DEF WithShip
  <1>2. k \in [Cell -> CellStates]
    BY DEF Shape, CellStates
  <1> HIDE DEF k, w
  <1>3. Shape(w) /\ w.enemy_view = b.enemy_view /\ w.cells = k
    BY <1>1, <1>2 DEF Shape
  <1> QED BY <1>3 DEF k, w

LEMMA FiredUponShape ==
  ASSUME NEW b, Shape(b), NEW cell \in Cell
  PROVE  /\ Shape(FiredUpon(b, cell))
         /\ FiredUpon(b, cell).enemy_view = b.enemy_view
         /\ FiredUpon(b, cell).cells = [b.cells EXCEPT ![cell] = Mark(b, cell)]
  <1>1. [b.cells EXCEPT ![cell] = Mark(b, cell)] \in [Cell -> CellStates]
    BY DEF Shape, Mark, CellStates
  <1>2. CASE b.cells[cell] = "SHIP"
    <2>1. FiredUpon(b, cell) = Struck(b, cell) /\ Mark(b, cell) = "HIT"
      BY <1>2 DEF FiredUpon, Mark
    <2>2. PICK s, n : Struck(b, cell) = [b EXCEPT !.cells[cell] = "HIT", !.ships = s,
                                                  !.ships_remaining = n]
      BY DEF Struck
    <2> QED BY <1>1, <2>1, <2>2 DEF Shape
  <1>3. CASE b.cells[cell] # "SHIP"
    <2>1. FiredUpon(b, cell) = [b EXCEPT !.cells[cell] = "MISS"] /\ Mark(b, cell) = "MISS"
      BY <1>3 DEF FiredUpon, Mark
    <2> QED BY <1>1, <2>1 DEF Shape
  <1> QED BY <1>2, <1>3

LEMMA NotedShape ==
  ASSUME NEW a, Shape(a), NEW b, NEW cell \in Cell
  PROVE  /\ Shape(Noted(a, b, cell))
         /\ Noted(a, b, cell).cells = a.cells
         /\ Noted(a, b, cell).enemy_view = [a.enemy_view EXCEPT ![cell] = Mark(b, cell)]
  <1>1. Noted(a, b, cell) = [a EXCEPT !.enemy_view[cell] = Mark(b, cell)]
    BY DEF Noted, Mark
  <1>2. Mark(b, cell) \in CellStates
    BY DEF Mark, CellStates
  <1> HIDE DEF Mark
  <1> QED BY <1>1, <1>2 DEF Shape

LEMMA ViewStep == ASSUME ViewInv, [Next]_vars PROVE ViewInv'
  <1>1. CASE UNCHANGED vars
    BY <1>1 DEF vars, ViewInv, BoardsOK, ViewsAgree, PlacedBeforeShots
  <1>2. ASSUME NEW p \in Side, PlaceShip(p) PROVE ViewInv'
    <2>1. PICK s : boards' = [boards EXCEPT ![p] = WithShip(boards[p], s)]
      BY <1>2 DEF PlaceShip, PlaceAt
    <2>2. BoardsOK'
      BY <2>1, WithShipShape DEF ViewInv, BoardsOK
    <2>3. \A c \in Cell : /\ boards'[p].enemy_view[c] = boards[p].enemy_view[c]
                          /\ boards'[p].cells[c] \in {"EMPTY", "SHIP"}
                          /\ boards[p].cells[c] \in {"EMPTY", "SHIP"}
      BY <1>2, <2>1, WithShipShape DEF ViewInv, BoardsOK, PlacedBeforeShots, PlaceShip, PlaceAt
    <2>4. \A q \in Side \ {p} : boards'[q] = boards[q]
      BY <2>1 DEF ViewInv, BoardsOK
    <2>5. ViewsAgree'
      BY <2>3, <2>4 DEF ViewInv, ViewsAgree, Enemy, Side
    <2>6. PlacedBeforeShots'
      BY <1>2, <2>3, <2>4 DEF ViewInv, PlacedBeforeShots, PlaceShip, PlaceAt
    <2> QED BY <2>2, <2>5, <2>6 DEF ViewInv
  <1>3. ASSUME NEW p \in Side, Ready(p) PROVE ViewInv'
    BY <1>3 DEF Ready, ViewInv, BoardsOK, ViewsAgree, PlacedBeforeShots
  <1>4. ASSUME NEW p \in Side, Fire(p) PROVE ViewInv'
    <2> DEFINE e == Enemy(p)
    <2>1. PICK cell \in Targets :
            /\ ~Refused(boards[e], boards[p], cell)
            /\ boards' = [boards EXCEPT ![e] = FiredUpon(boards[e], cell),
                                        ![p] = Noted(boards[p], boards[e], cell)]
      BY <1>4 DEF Fire, FireAt, Enemy, Side
    <2>2. cell \in Cell /\ e \in Side /\ e # p /\ Side = {p, e} /\ Enemy(e) = p
      BY <2>1 DEF Refused, Enemy, Side
    <2> DEFINE a == FiredUpon(boards[e], cell)
               b == Noted(boards[p], boards[e], cell)
    <2>3. boards'[e] = a /\ boards'[p] = b /\ boards' = [q \in Side |-> boards'[q]]
      BY <2>1, <2>2 DEF ViewInv, BoardsOK
    <2>4. Shape(a) /\ a.enemy_view = boards[e].enemy_view
          /\ a.cells = [boards[e].cells EXCEPT ![cell] = Mark(boards[e], cell)]
      BY <2>2, FiredUponShape DEF ViewInv, BoardsOK
    <2>5. Shape(b) /\ b.cells = boards[p].cells
          /\ b.enemy_view = [boards[p].enemy_view EXCEPT ![cell] = Mark(boards[e], cell)]
      BY <2>2, NotedShape DEF ViewInv, BoardsOK
    <2>6. Mark(boards[e], cell) \in {"HIT", "MISS"}
      BY DEF Mark
    <2>7. Shape(boards[e]) /\ Shape(boards[p])
      BY <2>2 DEF ViewInv, BoardsOK
    <2> HIDE DEF a, b, e
    <2>8. BoardsOK'
      BY <2>2, <2>3, <2>4, <2>5 DEF BoardsOK
    <2>9. ViewsAgree'
      <3>1. ASSUME NEW c \in Cell
            PROVE  b.enemy_view[c] = IF a.cells[c] \in {"HIT", "MISS"} THEN a.cells[c] ELSE "EMPTY"
        BY <2>2, <2>4, <2>5, <2>6, <2>7 DEF ViewInv, ViewsAgree, Shape, e
      <3>2. ASSUME NEW c \in Cell
            PROVE  a.enemy_view[c] = IF b.cells[c] \in {"HIT", "MISS"} THEN b.cells[c] ELSE "EMPTY"
        BY <2>2, <2>4, <2>5 DEF ViewInv, ViewsAgree
      <3> QED BY <2>2, <2>3, <3>1, <3>2 DEF ViewsAgree, e
    <2>10. PlacedBeforeShots'
      BY <1>4 DEF Fire, FireAt, PlacedBeforeShots
    <2> QED BY <2>8, <2>9, <2>10 DEF ViewInv
  <1>5. ASSUME NEW p \in Side, Rematch(p) PROVE ViewInv'
    <2>1. CASE UNCHANGED <<boards, state>>
      BY <2>1 DEF ViewInv, BoardsOK, ViewsAgree, PlacedBeforeShots
    <2>2. CASE boards' = [q \in Side |-> InitBoard(boards[q])]
      <3>1. boards' = [q \in Side |-> NewBoard]
        BY <2>2 DEF InitBoard
      <3>2. \A c \in Cell : NewBoard.cells[c] = "EMPTY" /\ NewBoard.enemy_view[c] = "EMPTY"
        BY DEF NewBoard
      <3> QED BY <3>1, <3>2, NewBoardShape
              DEF ViewInv, BoardsOK, ViewsAgree, PlacedBeforeShots, Enemy, Side
    <2> QED BY <1>5, <2>1, <2>2 DEF Rematch
  <1> QED BY <1>1, <1>2, <1>3, <1>4, <1>5 DEF Next

(* What a player sees of the enemy board agrees with that board, for every  *)
(* grid, every fleet and every sequence of commands, rematches included.   *)
THEOREM Views == Spec => []ViewsAgree
  <1>1. Init => ViewInv
    <2>1. \A c \in Cell : NewBoard.cells[c] = "EMPTY" /\ NewBoard.enemy_view[c] = "EMPTY"
      BY DEF NewBoard
    <2> QED BY <2>1, NewBoardShape
            DEF Init, ViewInv, BoardsOK, ViewsAgree, PlacedBeforeShots, Enemy, Side
  <1>2. ViewInv /\ [Next]_vars => ViewInv'
    BY ViewStep
  <1>3. ViewInv => ViewsAgree
    BY DEF ViewInv
  <1> QED BY <1>1, <1>2, <1>3, PTL DEF Spec

-----------------------------------------------------------------------------
(* The size of a ship                                                      *)

LEMMA LinesOfCells ==
  ASSUME NEW s \in Ship
  PROVE  /\ s.start_row \in Index /\ s.end_row \in Index
         /\ s.start_col \in Index /\ s.end_col \in Index
         /\ ShipCells(s) = (Lower(s.start_row, s.end_row) .. Higher(s.start_row, s.end_row))
                           \X (Lower(s.start_col, s.end_col) .. Higher(s.start_col, s.end_col))
  <1>1. /\ s.start_row \in Index /\ s.end_row \in Index
        /\ s.start_col \in Index /\ s.end_col \in Index
    BY DEF Ship
  <1> DEFINE rows == Lower(s.start_row, s.end_row) .. Higher(s.start_row, s.end_row)
             cols == Lower(s.start_col, s.end_col) .. Higher(s.start_col, s.end_col)
  <1>2. rows \subseteq Index /\ cols \subseteq Index
    BY <1>1, BoardAssumption DEF Index, Lower, Higher
  <1>3. ShipCells(s) = {c \in Index \X Index : c[1] \in rows /\ c[2] \in cols}
    BY DEF ShipCells, Cell, Covers
  <1> HIDE DEF rows, cols
  <1>4. ShipCells(s) = rows \X cols
    BY <1>2, <1>3
  <1> QED BY <1>1, <1>4 DEF rows, cols

(* The length that place_ship computes from the two ends is the number of  *)
(* cells of an aligned ship, whichever end comes first.                    *)
LEMMA SizeCountsCells ==
  ASSUME NEW s \in Ship, Aligned(s)
  PROVE  Cardinality(ShipCells(s)) = Size(s)
  <1> DEFINE lowR == Lower(s.start_row, s.end_row)    topR == Higher(s.start_row, s.end_row)
             lowC == Lower(s.start_col, s.end_col)    topC == Higher(s.start_col, s.end_col)
  <1>1. /\ lowR \in Int /\ topR \in Int /\ lowR <= topR
        /\ lowC \in Int /\ topC \in Int /\ lowC <= topC
        /\ s.start_row = s.end_row => lowR = topR
        /\ s.start_row # s.end_row => lowC = topC
        /\ s.start_row = s.end_row => Size(s) = topC - lowC + 1
        /\ s.start_row # s.end_row => Size(s) = topR - lowR + 1
    BY LinesOfCells, BoardAssumption DEF Aligned, Lower, Higher, Index, Size
  <1>2. ShipCells(s) = (lowR .. topR) \X (lowC .. topC)
    BY LinesOfCells
  <1> HIDE DEF lowR, topR, lowC, topC
  <1>3. /\ IsFiniteSet(lowR .. topR) /\ Cardinality(lowR .. topR) = topR - lowR + 1
        /\ IsFiniteSet(lowC .. topC) /\ Cardinality(lowC .. topC) = topC - lowC + 1
    <2>1. ~(lowR > topR) /\ ~(lowC > topC)
      BY <1>1
    <2> QED BY <1>1, <2>1, FS_Interval
  <1>4. Cardinality(ShipCells(s)) = (topR - lowR + 1) * (topC - lowC + 1)
    BY <1>2, <1>3, FS_Product
  <1>5. CASE s.start_row = s.end_row
    <2>1. topR - lowR + 1 = 1 /\ topC - lowC + 1 \in Int
      BY <1>1, <1>5
    <2> QED BY <1>1, <1>4, <1>5, <2>1
  <1>6. CASE s.start_row # s.end_row
    <2>1. topC - lowC + 1 = 1 /\ topR - lowR + 1 \in Int
      BY <1>1, <1>6
    <2> QED BY <1>1, <1>4, <1>6, <2>1
  <1> QED BY <1>5, <1>6

-----------------------------------------------------------------------------
(* The cells and the ships of a board in the placing phase                 *)

(* the marked cells are those of the ships in the array *)
Drawn(board) ==
  /\ board.ships \in Seq(Ship)
  /\ \A c \in Cell : board.cells[c] =
       IF \E i \in 1 .. Len(board.ships) : Covers(board.ships[i], c) THEN "SHIP" ELSE "EMPTY"

PlacingInv == /\ BoardsOK
              /\ state = "PLACING_SHIPS" => \A p \in Side : Drawn(boards[p])

LEMMA NewBoardDrawn == Drawn(NewBoard)
  BY DEF Drawn, NewBoard

LEMMA WithShipFields ==
  ASSUME NEW b, Shape(b), NEW s
  PROVE  /\ WithShip(b, s).ships = Append(b.ships, s)
         /\ WithShip(b, s).ships_remaining = b.ships_remaining
  <1> DEFINE w == WithShip(b, s)
             k == [c \in Cell |-> IF Covers(s, c) THEN "SHIP" ELSE b.cells[c]]
  <1>1. w = [b EXCEPT !.ships = Append(b.ships, s), !.cells = k]
    BY DEF WithShip
  <1> HIDE DEF k, w
  <1>2. w.ships = Append(b.ships, s) /\ w.ships_remaining = b.ships_remaining
    BY <1>1 DEF Shape
  <1> QED BY <1>2 DEF w

LEMMA WithShipDrawn ==
  ASSUME NEW b, Shape(b), Drawn(b), NEW s \in Ship
  PROVE  Drawn(WithShip(b, s))
  <1> DEFINE w == WithShip(b, s)
             n == Len(b.ships)
  <1>1. w.ships = Append(b.ships, s)
    BY WithShipFields
  <1>2. \A c \in Cell : w.cells[c] = IF Covers(s, c) THEN "SHIP" ELSE b.cells[c]
    BY WithShipShape
  <1> HIDE DEF w
  <1>3. b.ships \in Seq(Ship) /\ n \in Nat
    BY DEF Drawn
  <1>4. /\ w.ships \in Seq(Ship) /\ Len(w.ships) = n + 1
        /\ w.ships[n + 1] = s
        /\ \A i \in 1 .. n : w.ships[i] = b.ships[i]
    BY <1>1, <1>3
  <1>5. ASSUME NEW c \in Cell
        PROVE  (\E i \in 1 .. n + 1 : Covers(w.ships[i], c))
                 <=> Covers(s, c) \/ \E i \in 1 .. n : Covers(b.ships[i], c)
    <2>1. \A i \in 1 .. n + 1 : i = n + 1 \/ i \in 1 .. n
      BY <1>3
    <2>2. n + 1 \in 1 .. n + 1 /\ \A i \in 1 .. n : i \in 1 .. n + 1
      BY <1>3
    <2> QED BY <1>4, <2>1, <2>2
  <1>6. ASSUME NEW c \in Cell
        PROVE  w.cells[c] = IF \E i \in 1 .. Len(w.ships) : Covers(w.ships[i], c)
                            THEN "SHIP" ELSE "EMPTY"
    BY <1>2, <1>4, <1>5 DEF Drawn
  <1> QED BY <1>4, <1>6 DEF Drawn, w

(* on such a board a ship is kept off the others just when its cells are empty *)
LEMMA EmptyMeansFree ==
  ASSUME NEW b, Drawn(b), NEW s \in Ship
  PROVE  (\A i \in 1 .. Len(b.ships) : ~ShipsOverlap(b.ships[i], s))
           <=> \A c \in ShipCells(s) : b.cells[c] = "EMPTY"
  <1>1. \A i \in 1 .. Len(b.ships) : b.ships[i] \in Ship
    BY DEF Drawn
  <1>2. \A i \in 1 .. Len(b.ships) :
          ShipsOverlap(b.ships[i], s) <=> \E c \in Cell : Covers(b.ships[i], c) /\ Covers(s, c)
    BY <1>1, OverlapExact
  <1> QED BY <1>2 DEF Drawn, ShipCells

-----------------------------------------------------------------------------
(* The invariant                                                           *)

LEMMA PlacingStep == ASSUME PlacingInv, ViewInv, [Next]_vars PROVE PlacingInv'
  <1>1. BoardsOK'
    BY ViewStep DEF ViewInv
  <1>2. CASE UNCHANGED vars
    BY <1>2 DEF vars, PlacingInv, BoardsOK
  <1>3. ASSUME NEW p \in Side, PlaceShip(p) PROVE PlacingInv'
    <2>1. PICK r1, c1, r2, c2 \in Coordinates :
            /\ CanPlace(boards[p], ShipAt(r1, c1, r2, c2))
            /\ boards' = [boards EXCEPT ![p] = WithShip(boards[p], ShipAt(r1, c1, r2, c2))]
            /\ state = "PLACING_SHIPS"
      BY <1>3 DEF PlaceShip, PlaceAt
    <2> DEFINE s == ShipAt(r1, c1, r2, c2)
    <2>2. s \in Ship
      BY <2>1 DEF CanPlace, InGrid, ShipAt, Ship
    <2> HIDE DEF s
    <2>3. Drawn(WithShip(boards[p], s))
      BY <2>1, <2>2, WithShipDrawn DEF PlacingInv, BoardsOK
    <2>4. boards'[p] = WithShip(boards[p], s) /\ \A q \in Side \ {p} : boards'[q] = boards[q]
      BY <2>1 DEF PlacingInv, BoardsOK, s
    <2> QED BY <1>1, <2>1, <2>3, <2>4 DEF PlacingInv
  <1>4. ASSUME NEW p \in Side, Ready(p) PROVE PlacingInv'
    BY <1>1, <1>4 DEF Ready, PlacingInv
  <1>5. ASSUME NEW p \in Side, Fire(p) PROVE PlacingInv'
    BY <1>1, <1>5 DEF Fire, FireAt, PlacingInv
  <1>6. ASSUME NEW p \in Side, Rematch(p) PROVE PlacingInv'
    <2>1. CASE UNCHANGED <<boards, state>>
      BY <1>1, <2>1 DEF PlacingInv
    <2>2. CASE boards' = [q \in Side |-> InitBoard(boards[q])]
      BY <1>1, <2>2, NewBoardDrawn DEF PlacingInv, InitBoard
    <2> QED BY <1>6, <2>1, <2>2 DEF Rematch
  <1> QED BY <1>2, <1>3, <1>4, <1>5, <1>6 DEF Next

LEMMA PlacingExact == PlacingInv => PlacementExact
  <1> SUFFICES ASSUME PlacingInv, state = "PLACING_SHIPS",
                      NEW p \in Side, ~AllPlaced(boards[p]),
                      NEW r1 \in Coordinates, NEW c1 \in Coordinates,
                      NEW r2 \in Coordinates, NEW c2 \in Coordinates
               PROVE  CanPlace(boards[p], ShipAt(r1, c1, r2, c2))
                        <=> Legal(boards[p], r1, c1, r2, c2)
    BY DEF PlacementExact
  <1> DEFINE s == ShipAt(r1, c1, r2, c2)
  <1>1. InGrid(s) <=> <<r1, c1>> \in Cell /\ <<r2, c2>> \in Cell
    BY DEF InGrid, ShipAt, Cell
  <1>2. Aligned(s) <=> r1 = r2 \/ c1 = c2
    BY DEF Aligned, ShipAt
  <1>3. InGrid(s) => s \in Ship
    BY DEF InGrid, ShipAt, Ship
  <1>4. Drawn(boards[p])
    BY DEF PlacingInv
  <1> HIDE DEF s
  <1>5. InGrid(s) /\ Aligned(s) => Cardinality(ShipCells(s)) = Size(s)
    BY <1>3, SizeCountsCells
  <1>6. InGrid(s) => ((\A i \in 1 .. Len(boards[p].ships) : ~ShipsOverlap(boards[p].ships[i], s))
                       <=> \A c \in ShipCells(s) : boards[p].cells[c] = "EMPTY")
    BY <1>3, <1>4, EmptyMeansFree
  <1> QED BY <1>1, <1>2, <1>5, <1>6 DEF CanPlace, Legal, s

(* place_ship accepts every straight free line of the right length that    *)
(* lies in the grid, and nothing else, for every grid, every fleet and all  *)
(* coordinates a client may send.                                          *)
THEOREM Placements == Spec => []PlacementExact
  <1>1. Init => PlacingInv /\ ViewInv
    <2>1. \A c \in Cell : NewBoard.cells[c] = "EMPTY" /\ NewBoard.enemy_view[c] = "EMPTY"
      BY DEF NewBoard
    <2> QED BY <2>1, NewBoardShape, NewBoardDrawn
            DEF Init, PlacingInv, ViewInv, BoardsOK, ViewsAgree, PlacedBeforeShots, Enemy, Side
  <1>2. PlacingInv /\ ViewInv /\ [Next]_vars => (PlacingInv /\ ViewInv)'
    BY PlacingStep, ViewStep
  <1>3. PlacingInv => PlacementExact
    BY PlacingExact
  <1> QED BY <1>1, <1>2, <1>3, PTL DEF Spec

-----------------------------------------------------------------------------
(* A fleet on a board                                                      *)

Entries(b) == 1 .. Len(b.ships)

(* the ships that have no cell left *)
Sunk(b) == {i \in Entries(b) : HitCells(b, b.ships[i]) = ShipCells(b.ships[i])}

(* the array holds the first ships of the fleet, straight and of the length *)
(* that is due                                                             *)
Lined(b) ==
  /\ b.ships \in Seq(Ship)
  /\ Len(b.ships) <= Len(ShipSizes)
  /\ \A i \in Entries(b) : Aligned(b.ships[i]) /\ Size(b.ships[i]) = ShipSizes[i]

(* no cell belongs to two ships, which is why find_ship_at may stop at the  *)
(* first one                                                               *)
Apart(b) == \A c \in Cell : \A i, j \in ShipsOn(b, c) : i = j

(* the cells of the ships are those marked SHIP or HIT *)
Marked(b) == \A c \in Cell : b.cells[c] \in {"SHIP", "HIT"} <=> ShipsOn(b, c) # {}

Counted(b) ==
  /\ \A i \in Entries(b) : b.ships[i].hits = Cardinality(HitCells(b, b.ships[i]))
  /\ b.ships_remaining = Len(ShipSizes) - Cardinality(Sunk(b))

FleetOK(b) == Shape(b) /\ Lined(b) /\ Apart(b) /\ Marked(b) /\ Counted(b)

FleetInv == BoardsOK /\ \A p \in Side : FleetOK(boards[p])

-----------------------------------------------------------------------------
(* The effect of a shot that hits                                          *)

LEMMA StruckFields ==
  ASSUME NEW b, Shape(b), NEW cell \in Cell, ShipsOn(b, cell) # {}
  PROVE  /\ Struck(b, cell).cells = [b.cells EXCEPT ![cell] = "HIT"]
         /\ Struck(b, cell).ships = WithHit(b.ships, FindShip(b, cell))
         /\ Struck(b, cell).ships_remaining =
              IF Sinks(b, cell) THEN b.ships_remaining - 1 ELSE b.ships_remaining
  <1> DEFINE s == WithHit(b.ships, FindShip(b, cell))
             n == IF Sinks(b, cell) THEN b.ships_remaining - 1 ELSE b.ships_remaining
  <1>1. Struck(b, cell) = [b EXCEPT !.cells[cell] = "HIT", !.ships = s, !.ships_remaining = n]
    BY DEF Struck
  <1> HIDE DEF s, n
  <1>2. /\ Struck(b, cell).cells = [b.cells EXCEPT ![cell] = "HIT"]
        /\ Struck(b, cell).ships = s
        /\ Struck(b, cell).ships_remaining = n
    BY <1>1 DEF Shape
  <1> QED BY <1>2 DEF s, n

-----------------------------------------------------------------------------
(* Cells of a ship, hit and not                                            *)

LEMMA CellsFinite ==
  ASSUME NEW s
  PROVE  IsFiniteSet(ShipCells(s)) /\ Cardinality(ShipCells(s)) \in Nat
  <1>1. IsFiniteSet(Index)
    BY BoardAssumption, FS_Interval DEF Index
  <1>2. IsFiniteSet(Cell)
    BY <1>1, FS_Product DEF Cell
  <1>3. ShipCells(s) \in SUBSET Cell
    BY DEF ShipCells
  <1> QED BY <1>2, <1>3, FS_Subset, FS_CardinalityType

LEMMA HitsFinite ==
  ASSUME NEW b, NEW s
  PROVE  /\ HitCells(b, s) \in SUBSET ShipCells(s)
         /\ IsFiniteSet(HitCells(b, s)) /\ Cardinality(HitCells(b, s)) \in Nat
  <1>1. HitCells(b, s) \in SUBSET ShipCells(s)
    BY DEF HitCells
  <1> QED BY <1>1, CellsFinite, FS_Subset, FS_CardinalityType

(* a ship has at least the cell of its first end *)
LEMMA CellsNotEmpty ==
  ASSUME NEW s \in Ship
  PROVE  ShipCells(s) # {}
  <1>1. /\ s.start_row \in Lower(s.start_row, s.end_row) .. Higher(s.start_row, s.end_row)
        /\ s.start_col \in Lower(s.start_col, s.end_col) .. Higher(s.start_col, s.end_col)
    BY LinesOfCells, BoardAssumption DEF Index, Lower, Higher
  <1>2. <<s.start_row, s.start_col>> \in ShipCells(s)
    BY <1>1, LinesOfCells
  <1> QED BY <1>2

LEMMA SunkFinite ==
  ASSUME NEW b, Lined(b)
  PROVE  /\ Len(b.ships) \in Nat
         /\ IsFiniteSet(Entries(b)) /\ Cardinality(Entries(b)) = Len(b.ships)
         /\ Sunk(b) \in SUBSET Entries(b) /\ IsFiniteSet(Sunk(b))
         /\ Cardinality(Sunk(b)) \in 0 .. Len(b.ships)
         /\ Cardinality(Sunk(b)) = Len(b.ships) => Sunk(b) = Entries(b)
  <1>1. Len(b.ships) \in Nat
    BY DEF Lined
  <1>2. IsFiniteSet(Entries(b)) /\ Cardinality(Entries(b)) = Len(b.ships)
    BY <1>1, FS_Interval DEF Entries
  <1>3. Sunk(b) \in SUBSET Entries(b)
    BY DEF Sunk
  <1>4. /\ IsFiniteSet(Sunk(b)) /\ Cardinality(Sunk(b)) <= Len(b.ships)
        /\ Cardinality(Sunk(b)) = Len(b.ships) => Sunk(b) = Entries(b)
    BY <1>2, <1>3, FS_Subset
  <1>5. Cardinality(Sunk(b)) \in Nat
    BY <1>4, FS_CardinalityType
  <1> QED BY <1>1, <1>2, <1>3, <1>4, <1>5

(* hits are not coordinates: they move no ship *)
SameLine(s, t) ==
  /\ s.start_row = t.start_row /\ s.end_row = t.end_row
  /\ s.start_col = t.start_col /\ s.end_col = t.end_col

LEMMA SameCells ==
  ASSUME NEW s, NEW t, SameLine(s, t)
  PROVE  /\ \A c : Covers(s, c) <=> Covers(t, c)
         /\ ShipCells(s) = ShipCells(t)
         /\ Aligned(s) <=> Aligned(t)
         /\ Size(s) = Size(t)
  BY DEF SameLine, Covers, ShipCells, Aligned, Size

-----------------------------------------------------------------------------
(* Which ship a shot finds, and when it sinks                              *)

LEMMA FoundShip ==
  ASSUME NEW b, Lined(b), Apart(b), NEW cell \in Cell, ShipsOn(b, cell) # {}
  PROVE  /\ ShipsOn(b, cell) = {FindShip(b, cell)}
         /\ FindShip(b, cell) \in Entries(b)
         /\ b.ships[FindShip(b, cell)] \in Ship
         /\ Covers(b.ships[FindShip(b, cell)], cell)
  <1>1. PICK k : k \in ShipsOn(b, cell)
    OBVIOUS
  <1>2. ShipsOn(b, cell) = {k}
    BY <1>1 DEF Apart
  <1>3. k \in Entries(b) /\ k \in Int /\ Covers(b.ships[k], cell) /\ b.ships[k] \in Ship
    BY <1>1 DEF ShipsOn, Entries, Lined
  <1>4. \A j \in ShipsOn(b, cell) : k <= j
    BY <1>2, <1>3
  <1>5. FindShip(b, cell) = k
    BY <1>1, <1>2, <1>4 DEF FindShip
  <1> QED BY <1>2, <1>3, <1>5

(* The test of hits against the size is the question whether this cell was  *)
(* the last of the ship.                                                   *)
LEMMA SinksExact ==
  ASSUME NEW b, FleetOK(b), NEW cell \in Cell, b.cells[cell] = "SHIP"
  PROVE  LET s == b.ships[FindShip(b, cell)]
         IN  Sinks(b, cell) <=> HitCells(b, s) \union {cell} = ShipCells(s)
  <1> DEFINE k == FindShip(b, cell)
             s == b.ships[k]
  <1>1. ShipsOn(b, cell) # {}
    BY DEF FleetOK, Marked
  <1>2. k \in Entries(b) /\ s \in Ship /\ Covers(s, cell)
    BY <1>1, FoundShip DEF FleetOK
  <1>3. /\ s.hits = Cardinality(HitCells(b, s))
        /\ Cardinality(ShipCells(s)) = Size(s)
    BY <1>2, SizeCountsCells DEF FleetOK, Counted, Lined
  <1>4. Sinks(b, cell) <=> s.hits + 1 >= Size(s)
    BY <1>1 DEF Sinks
  <1> HIDE DEF k, s
  <1>5. cell \notin HitCells(b, s)
    BY DEF HitCells
  <1>6. /\ IsFiniteSet(HitCells(b, s) \union {cell})
        /\ Cardinality(HitCells(b, s) \union {cell}) = Cardinality(HitCells(b, s)) + 1
    BY <1>5, HitsFinite, FS_AddElement
  <1>7. HitCells(b, s) \union {cell} \in SUBSET ShipCells(s)
    BY <1>2, HitsFinite DEF ShipCells
  <1>8. /\ Cardinality(HitCells(b, s) \union {cell}) <= Cardinality(ShipCells(s))
        /\ Cardinality(ShipCells(s)) = Cardinality(HitCells(b, s) \union {cell})
             => HitCells(b, s) \union {cell} = ShipCells(s)
    BY <1>7, CellsFinite, FS_Subset
  <1>9. Sinks(b, cell) <=> HitCells(b, s) \union {cell} = ShipCells(s)
    BY <1>3, <1>4, <1>6, <1>8, CellsFinite, HitsFinite
  <1> QED BY <1>9 DEF k, s

-----------------------------------------------------------------------------
(* The actions keep a fleet in order                                       *)

(* boards with the same ships and the same marks on them *)
LEMMA SameFleet ==
  ASSUME NEW b, FleetOK(b), NEW w, Shape(w), w.ships = b.ships,
         w.ships_remaining = b.ships_remaining,
         \A c \in Cell : w.cells[c] = b.cells[c] \/ {w.cells[c], b.cells[c]} = {"EMPTY", "MISS"}
  PROVE  FleetOK(w)
  <1>1. Entries(w) = Entries(b) /\ \A c : ShipsOn(w, c) = ShipsOn(b, c)
    BY DEF Entries, ShipsOn
  <1>2. \A s : HitCells(w, s) = HitCells(b, s)
    BY DEF HitCells, ShipCells
  <1>3. Sunk(w) = Sunk(b)
    BY <1>1, <1>2 DEF Sunk
  <1>4. Lined(w) /\ Apart(w) /\ Counted(w)
    BY <1>1, <1>2, <1>3 DEF FleetOK, Lined, Apart, Counted
  <1>5. Marked(w)
    BY <1>1 DEF FleetOK, Marked
  <1> QED BY <1>4, <1>5 DEF FleetOK

LEMMA NewBoardFleet == FleetOK(NewBoard)
  <1>1. /\ NewBoard.ships = <<>> /\ NewBoard.ships_remaining = Len(ShipSizes)
        /\ \A c \in Cell : NewBoard.cells[c] = "EMPTY"
    BY DEF NewBoard
  <1>2. Entries(NewBoard) = {} /\ Sunk(NewBoard) = {} /\ \A c : ShipsOn(NewBoard, c) = {}
    BY <1>1 DEF Entries, Sunk, ShipsOn
  <1>3. Len(ShipSizes) \in Nat /\ Cardinality({}) = 0
    BY BoardAssumption, FS_EmptySet
  <1>4. Lined(NewBoard)
    BY <1>1, <1>2, <1>3 DEF Lined
  <1>5. Apart(NewBoard) /\ Marked(NewBoard) /\ Counted(NewBoard)
    BY <1>1, <1>2, <1>3 DEF Apart, Marked, Counted
  <1> QED BY <1>4, <1>5, NewBoardShape DEF FleetOK

LEMMA NotedFleet ==
  ASSUME NEW a, FleetOK(a), NEW b, NEW cell \in Cell
  PROVE  FleetOK(Noted(a, b, cell))
  <1> DEFINE w == Noted(a, b, cell)
  <1>1. Shape(a)
    BY DEF FleetOK
  <1>2. /\ Shape(w)
        /\ w.cells = a.cells
        /\ w.enemy_view = [a.enemy_view EXCEPT ![cell] = Mark(b, cell)]
    BY <1>1, NotedShape
  <1>3. w = [a EXCEPT !.enemy_view[cell] = Mark(b, cell)]
    BY DEF Noted, Mark
  <1> HIDE DEF w
  <1>4. w.ships = a.ships /\ w.ships_remaining = a.ships_remaining
    BY <1>1, <1>3 DEF Shape
  <1>5. FleetOK(w)
    BY <1>2, <1>4, SameFleet
  <1> QED BY <1>5 DEF w

LEMMA MissFleet ==
  ASSUME NEW b, FleetOK(b), NEW cell \in Cell, b.cells[cell] = "EMPTY"
  PROVE  FleetOK(FiredUpon(b, cell))
  <1> DEFINE w == FiredUpon(b, cell)
  <1>1. Shape(b)
    BY DEF FleetOK
  <1>2. /\ Shape(w)
        /\ w.enemy_view = b.enemy_view
        /\ w.cells = [b.cells EXCEPT ![cell] = Mark(b, cell)]
    BY <1>1, FiredUponShape
  <1>3. w = [b EXCEPT !.cells[cell] = "MISS"] /\ Mark(b, cell) = "MISS"
    BY DEF FiredUpon, Mark
  <1> HIDE DEF w
  <1>4. w.ships = b.ships /\ w.ships_remaining = b.ships_remaining
    BY <1>1, <1>3 DEF Shape
  <1>5. \A c \in Cell : w.cells[c] = b.cells[c] \/ {w.cells[c], b.cells[c]} = {"EMPTY", "MISS"}
    BY <1>1, <1>2, <1>3 DEF Shape
  <1>6. FleetOK(w)
    BY <1>2, <1>4, <1>5, SameFleet
  <1> QED BY <1>6 DEF w

(* The ships and the sunk ones after a hit. *)
LEMMA HitShips ==
  ASSUME NEW b, FleetOK(b), NEW cell \in Cell, b.cells[cell] = "SHIP"
  PROVE  LET w == FiredUpon(b, cell)
             k == FindShip(b, cell)
         IN /\ Lined(w) /\ Entries(w) = Entries(b) /\ \A c : ShipsOn(w, c) = ShipsOn(b, c)
            /\ w.cells = [b.cells EXCEPT ![cell] = "HIT"]
            /\ \A i \in Entries(b) :
                 /\ ShipCells(w.ships[i]) = ShipCells(b.ships[i])
                 /\ w.ships[i].hits = IF i = k THEN b.ships[i].hits + 1 ELSE b.ships[i].hits
                 /\ HitCells(w, w.ships[i]) =
                      IF i = k THEN HitCells(b, b.ships[i]) \union {cell}
                      ELSE HitCells(b, b.ships[i])
            /\ Sunk(w) = IF Sinks(b, cell) THEN Sunk(b) \union {k} ELSE Sunk(b)
            /\ k \in Entries(b) /\ k \notin Sunk(b)
            /\ w.ships_remaining =
                 IF Sinks(b, cell) THEN b.ships_remaining - 1 ELSE b.ships_remaining
  <1> DEFINE w == FiredUpon(b, cell)
             k == FindShip(b, cell)
  <1>1. ShipsOn(b, cell) = {k} /\ k \in Entries(b) /\ b.ships[k] \in Ship /\ Covers(b.ships[k], cell)
    BY FoundShip DEF FleetOK, Marked
  <1>2. w = Struck(b, cell)
    BY DEF FiredUpon
  <1>3. /\ w.cells = [b.cells EXCEPT ![cell] = "HIT"]
        /\ w.ships = WithHit(b.ships, k)
        /\ w.ships_remaining = IF Sinks(b, cell) THEN b.ships_remaining - 1 ELSE b.ships_remaining
    BY <1>1, <1>2, StruckFields DEF FleetOK
  <1>4. Sinks(b, cell) <=> HitCells(b, b.ships[k]) \union {cell} = ShipCells(b.ships[k])
    BY SinksExact
  <1> HIDE DEF w, k
  <1>5. b.ships \in Seq(Ship) /\ Len(b.ships) \in Nat /\ Len(b.ships) <= Len(ShipSizes)
        /\ \A i \in Entries(b) : Aligned(b.ships[i]) /\ Size(b.ships[i]) = ShipSizes[i]
    BY DEF FleetOK, Lined
  <1> DEFINE t == [b.ships[k] EXCEPT !.hits = b.ships[k].hits + 1]
  <1>6. t \in Ship /\ SameLine(t, b.ships[k]) /\ t.hits = b.ships[k].hits + 1
    BY <1>1 DEF Ship, SameLine
  <1>7. w.ships = [b.ships EXCEPT ![k] = t]
    BY <1>3 DEF WithHit
  <1> HIDE DEF t
  <1>8. /\ w.ships \in Seq(Ship) /\ Len(w.ships) = Len(b.ships)
        /\ w.ships[k] = t /\ \A i \in Entries(b) \ {k} : w.ships[i] = b.ships[i]
    BY <1>1, <1>5, <1>6, <1>7 DEF Entries
  <1>9. \A i \in Entries(b) :
          /\ SameLine(w.ships[i], b.ships[i])
          /\ w.ships[i].hits = IF i = k THEN b.ships[i].hits + 1 ELSE b.ships[i].hits
    BY <1>6, <1>8 DEF SameLine
  <1>10. Entries(w) = Entries(b)
    BY <1>8 DEF Entries
  <1>11. \A i \in Entries(b) : /\ ShipCells(w.ships[i]) = ShipCells(b.ships[i])
                               /\ \A c : Covers(w.ships[i], c) <=> Covers(b.ships[i], c)
                               /\ Aligned(w.ships[i]) /\ Size(w.ships[i]) = ShipSizes[i]
    BY <1>5, <1>9, SameCells
  <1>12. Lined(w)
    BY <1>5, <1>8, <1>10, <1>11 DEF Lined
  <1>13. \A c : ShipsOn(w, c) = ShipsOn(b, c)
    BY <1>10, <1>11 DEF ShipsOn, Entries
  <1>14. ASSUME NEW i \in Entries(b)
         PROVE  HitCells(w, w.ships[i]) =
                  IF i = k THEN HitCells(b, b.ships[i]) \union {cell} ELSE HitCells(b, b.ships[i])
    <2>1. HitCells(w, w.ships[i]) = {c \in ShipCells(b.ships[i]) : w.cells[c] = "HIT"}
      BY <1>11 DEF HitCells
    <2>2. cell \in ShipCells(b.ships[i]) <=> i = k
      BY <1>1 DEF ShipsOn, Entries, ShipCells
    <2>3. \A c \in Cell : w.cells[c] = "HIT" <=> b.cells[c] = "HIT" \/ c = cell
      BY <1>3 DEF FleetOK, Shape
    <2>4. ShipCells(b.ships[i]) \subseteq Cell
      BY DEF ShipCells
    <2> QED BY <2>1, <2>2, <2>3, <2>4 DEF HitCells
  <1>15. k \notin Sunk(b)
    BY <1>1 DEF Sunk, HitCells, ShipCells
  <1>16. Sunk(w) = IF Sinks(b, cell) THEN Sunk(b) \union {k} ELSE Sunk(b)
    BY <1>1, <1>4, <1>10, <1>11, <1>14, <1>15 DEF Sunk
  <1> QED BY <1>1, <1>3, <1>9, <1>10, <1>11, <1>12, <1>13, <1>14, <1>15, <1>16 DEF w, k

LEMMA HitFleet ==
  ASSUME NEW b, FleetOK(b), NEW cell \in Cell, b.cells[cell] = "SHIP"
  PROVE  FleetOK(FiredUpon(b, cell))
  <1> DEFINE w == FiredUpon(b, cell)
             k == FindShip(b, cell)
  <1>1. /\ Lined(w) /\ Entries(w) = Entries(b) /\ \A c : ShipsOn(w, c) = ShipsOn(b, c)
        /\ w.cells = [b.cells EXCEPT ![cell] = "HIT"]
        /\ \A i \in Entries(b) :
             /\ ShipCells(w.ships[i]) = ShipCells(b.ships[i])
             /\ w.ships[i].hits = IF i = k THEN b.ships[i].hits + 1 ELSE b.ships[i].hits
             /\ HitCells(w, w.ships[i]) =
                  IF i = k THEN HitCells(b, b.ships[i]) \union {cell} ELSE HitCells(b, b.ships[i])
        /\ Sunk(w) = IF Sinks(b, cell) THEN Sunk(b) \union {k} ELSE Sunk(b)
        /\ k \in Entries(b) /\ k \notin Sunk(b)
        /\ w.ships_remaining = IF Sinks(b, cell) THEN b.ships_remaining - 1 ELSE b.ships_remaining
    BY HitShips
  <1>2. Shape(w)
    BY FiredUponShape DEF FleetOK
  <1> HIDE DEF w, k
  <1>3. Apart(w)
    BY <1>1 DEF FleetOK, Apart
  <1>4. Marked(w)
    BY <1>1 DEF FleetOK, Shape, Marked
  <1>5. \A i \in Entries(b) : b.ships[i].hits = Cardinality(HitCells(b, b.ships[i]))
    BY DEF FleetOK, Counted
  <1>6. ASSUME NEW i \in Entries(b)
        PROVE  w.ships[i].hits = Cardinality(HitCells(w, w.ships[i]))
    <2>1. cell \notin HitCells(b, b.ships[i])
      BY DEF HitCells
    <2>2. Cardinality(HitCells(b, b.ships[i]) \union {cell})
            = Cardinality(HitCells(b, b.ships[i])) + 1
      BY <2>1, HitsFinite, FS_AddElement
    <2> QED BY <1>1, <1>5, <2>2
  <1>7. Cardinality(Sunk(b) \union {k}) = Cardinality(Sunk(b)) + 1
    BY <1>1, SunkFinite, FS_AddElement DEF FleetOK
  <1>8. Cardinality(Sunk(b)) \in Int /\ Len(ShipSizes) \in Int
        /\ b.ships_remaining = Len(ShipSizes) - Cardinality(Sunk(b))
    BY BoardAssumption, SunkFinite DEF FleetOK, Counted
  <1>9. w.ships_remaining = Len(ShipSizes) - Cardinality(Sunk(w))
    BY <1>1, <1>7, <1>8
  <1>10. Counted(w)
    BY <1>1, <1>6, <1>9 DEF Counted
  <1> QED BY <1>1, <1>2, <1>3, <1>4, <1>10 DEF FleetOK, w

LEMMA PlacedFleet ==
  ASSUME NEW b, FleetOK(b), \A c \in Cell : b.cells[c] \in {"EMPTY", "SHIP"},
         NEW s \in Ship, s.hits = 0, CanPlace(b, s)
  PROVE  FleetOK(WithShip(b, s))
  <1> DEFINE w == WithShip(b, s)
             n == Len(b.ships)
  <1>1. Shape(b) /\ Lined(b)
    BY DEF FleetOK
  <1>2. /\ Shape(w) /\ w.enemy_view = b.enemy_view
        /\ \A c \in Cell : w.cells[c] = IF Covers(s, c) THEN "SHIP" ELSE b.cells[c]
        /\ w.ships = Append(b.ships, s)
        /\ w.ships_remaining = b.ships_remaining
    BY <1>1, WithShipShape, WithShipFields
  <1> HIDE DEF w
  <1>3. b.ships \in Seq(Ship) /\ n \in Nat /\ Len(ShipSizes) \in Nat /\ n < Len(ShipSizes)
    BY <1>1, BoardAssumption DEF Lined, CanPlace, AllPlaced
  <1>4. /\ w.ships \in Seq(Ship) /\ Len(w.ships) = n + 1 /\ w.ships[n + 1] = s
        /\ \A i \in Entries(b) : w.ships[i] = b.ships[i]
    BY <1>2, <1>3 DEF Entries
  <1>5. Entries(w) = Entries(b) \union {n + 1} /\ n + 1 \notin Entries(b)
    BY <1>3, <1>4 DEF Entries
  <1>6. Lined(w)
    BY <1>1, <1>3, <1>4, <1>5 DEF Lined, CanPlace
  <1>7. \A i \in Entries(b), c \in Cell : ~(Covers(s, c) /\ Covers(b.ships[i], c))
    <2>1. \A i \in Entries(b) : b.ships[i] \in Ship /\ ~ShipsOverlap(b.ships[i], s)
      BY <1>3 DEF CanPlace, Entries
    <2> QED BY <2>1, OverlapExact
  <1>8. ASSUME NEW c \in Cell
        PROVE  ShipsOn(w, c) = IF Covers(s, c) THEN {n + 1} ELSE ShipsOn(b, c)
    <2>1. ShipsOn(w, c) = {i \in Entries(w) : Covers(w.ships[i], c)}
      BY DEF ShipsOn, Entries
    <2>2. ShipsOn(b, c) = {i \in Entries(b) : Covers(b.ships[i], c)}
      BY DEF ShipsOn, Entries
    <2> QED BY <1>4, <1>5, <1>7, <2>1, <2>2
  <1>9. Apart(w)
    BY <1>8 DEF FleetOK, Apart
  <1>10. Marked(w)
    BY <1>2, <1>8 DEF FleetOK, Marked
  <1>11. \A t : HitCells(b, t) = {} /\ HitCells(w, t) = {}
    BY <1>2 DEF HitCells, ShipCells
  <1>12. Sunk(b) = {} /\ Sunk(w) = {}
    <2>1. ASSUME NEW i \in Entries(w) PROVE w.ships[i] \in Ship
      BY <2>1, <1>4 DEF Entries
    <2>2. ASSUME NEW i \in Entries(b) PROVE b.ships[i] \in Ship
      BY <2>2, <1>3 DEF Entries
    <2> QED BY <1>11, <2>1, <2>2, CellsNotEmpty DEF Sunk
  <1>13. \A i \in Entries(w) : w.ships[i].hits = Cardinality(HitCells(w, w.ships[i]))
    <2>1. \A i \in Entries(b) : b.ships[i].hits = 0
      BY <1>11, FS_EmptySet DEF FleetOK, Counted
    <2> QED BY <1>4, <1>5, <1>11, <2>1, FS_EmptySet
  <1>14. Counted(w)
    BY <1>2, <1>12, <1>13 DEF FleetOK, Counted
  <1> QED BY <1>2, <1>6, <1>9, <1>10, <1>14 DEF FleetOK, w

-----------------------------------------------------------------------------
(* The invariant                                                           *)

LEMMA FleetInit == Init => FleetInv
  BY NewBoardFleet, NewBoardShape DEF Init, FleetInv, BoardsOK

LEMMA FleetStep == ASSUME FleetInv, ViewInv, [Next]_vars PROVE FleetInv'
  <1>1. BoardsOK'
    BY ViewStep DEF ViewInv
  <1>2. CASE UNCHANGED boards
    BY <1>1, <1>2 DEF FleetInv
  <1>3. ASSUME NEW p \in Side, PlaceShip(p) PROVE FleetInv'
    <2>1. PICK r1, c1, r2, c2 \in Coordinates :
            /\ CanPlace(boards[p], ShipAt(r1, c1, r2, c2))
            /\ boards' = [boards EXCEPT ![p] = WithShip(boards[p], ShipAt(r1, c1, r2, c2))]
            /\ state = "PLACING_SHIPS"
      BY <1>3 DEF PlaceShip, PlaceAt
    <2> DEFINE s == ShipAt(r1, c1, r2, c2)
    <2>2. s \in Ship /\ s.hits = 0
      BY <2>1 DEF CanPlace, InGrid, ShipAt, Ship
    <2> HIDE DEF s
    <2>3. \A c \in Cell : boards[p].cells[c] \in {"EMPTY", "SHIP"}
      BY <2>1 DEF ViewInv, PlacedBeforeShots
    <2>4. FleetOK(WithShip(boards[p], s))
      BY <2>1, <2>2, <2>3, PlacedFleet DEF FleetInv, s
    <2>5. boards'[p] = WithShip(boards[p], s) /\ \A q \in Side \ {p} : boards'[q] = boards[q]
      BY <2>1 DEF FleetInv, BoardsOK, s
    <2> QED BY <1>1, <2>4, <2>5 DEF FleetInv
  <1>4. ASSUME NEW p \in Side, Fire(p) PROVE FleetInv'
    <2> DEFINE e == Enemy(p)
    <2>1. PICK cell \in Targets :
            /\ ~Refused(boards[e], boards[p], cell)
            /\ boards' = [boards EXCEPT ![e] = FiredUpon(boards[e], cell),
                                        ![p] = Noted(boards[p], boards[e], cell)]
      BY <1>4 DEF Fire, FireAt, Enemy, Side
    <2>2. cell \in Cell /\ boards[e].cells[cell] \notin {"HIT", "MISS"}
      BY <2>1 DEF Refused
    <2>3. e \in Side /\ e # p /\ Side = {p, e}
      BY DEF Enemy, Side
    <2>4. boards[e].cells[cell] \in {"EMPTY", "SHIP"}
      BY <2>2, <2>3 DEF FleetInv, BoardsOK, Shape, CellStates
    <2>5. FleetOK(FiredUpon(boards[e], cell))
      BY <2>2, <2>3, <2>4, MissFleet, HitFleet DEF FleetInv
    <2>6. FleetOK(Noted(boards[p], boards[e], cell))
      BY <2>2, NotedFleet DEF FleetInv
    <2>7. /\ boards'[e] = FiredUpon(boards[e], cell)
          /\ boards'[p] = Noted(boards[p], boards[e], cell)
      BY <2>1, <2>3 DEF FleetInv, BoardsOK
    <2> QED BY <1>1, <2>3, <2>5, <2>6, <2>7 DEF FleetInv
  <1>5. CASE boards' = [q \in Side |-> InitBoard(boards[q])]
    BY <1>1, <1>5, NewBoardFleet DEF FleetInv, InitBoard
  <1>6. ASSUME NEW p \in Side, Ready(p) \/ Rematch(p)
        PROVE  UNCHANGED boards \/ boards' = [q \in Side |-> InitBoard(boards[q])]
    BY <1>6 DEF Ready, Rematch
  <1>7. UNCHANGED vars => UNCHANGED boards
    BY DEF vars
  <1> QED BY <1>2, <1>3, <1>4, <1>5, <1>6, <1>7 DEF Next

(* The strengthened invariant of every match. *)
THEOREM FleetsInOrder == Spec => [](FleetInv /\ ViewInv)
  <1>1. Init => FleetInv /\ ViewInv
    <2>1. \A c \in Cell : NewBoard.cells[c] = "EMPTY" /\ NewBoard.enemy_view[c] = "EMPTY"
      BY DEF NewBoard
    <2>2. Init => ViewInv
      BY <2>1, NewBoardShape
         DEF Init, ViewInv, BoardsOK, ViewsAgree, PlacedBeforeShots, Enemy, Side
    <2> QED BY <2>2, FleetInit
  <1>2. FleetInv /\ ViewInv /\ [Next]_vars => (FleetInv /\ ViewInv)'
    BY FleetStep, ViewStep
  <1> QED BY <1>1, <1>2, PTL DEF Spec

-----------------------------------------------------------------------------
(* What follows from it                                                    *)

LEMMA CountersFromFleet == ASSUME FleetInv PROVE CountersAgree
  <1> SUFFICES ASSUME NEW p \in Side
               PROVE  LET board  == boards[p]
                          afloat == {i \in 1 .. Len(board.ships) :
                                       ShipCells(board.ships[i]) # HitCells(board, board.ships[i])}
                      IN /\ \A i \in 1 .. Len(board.ships) :
                              board.ships[i].hits = Cardinality(HitCells(board, board.ships[i]))
                         /\ AllPlaced(board) => board.ships_remaining = Cardinality(afloat)
    BY DEF CountersAgree
  <1> DEFINE b == boards[p]
             afloat == {i \in 1 .. Len(b.ships) : ShipCells(b.ships[i]) # HitCells(b, b.ships[i])}
  <1>1. Lined(b) /\ Counted(b)
    BY DEF FleetInv, FleetOK
  <1>2. afloat = Entries(b) \ Sunk(b) /\ Entries(b) \intersect Sunk(b) = Sunk(b)
    BY DEF Entries, Sunk
  <1> HIDE DEF afloat
  <1>3. Cardinality(afloat) = Len(b.ships) - Cardinality(Sunk(b))
    <2>1. IsFiniteSet(Entries(b)) /\ Cardinality(Entries(b)) = Len(b.ships)
      BY <1>1, SunkFinite
    <2>2. Cardinality(Entries(b) \ Sunk(b))
            = Cardinality(Entries(b)) - Cardinality(Entries(b) \intersect Sunk(b))
      BY <2>1, FS_Difference
    <2> QED BY <1>2, <2>1, <2>2
  <1>4. AllPlaced(b) => Len(b.ships) = Len(ShipSizes)
    BY <1>1, BoardAssumption, SunkFinite DEF Lined, AllPlaced
  <1>5. AllPlaced(b) => b.ships_remaining = Cardinality(afloat)
    BY <1>1, <1>3, <1>4 DEF Counted
  <1>6. \A i \in 1 .. Len(b.ships) : b.ships[i].hits = Cardinality(HitCells(b, b.ships[i]))
    BY <1>1 DEF Counted, Entries
  <1> QED BY <1>5, <1>6 DEF afloat

(* The counters that decide who has won agree with the cells, for every    *)
(* grid, every fleet and every sequence of commands, rematches included:   *)
(* process_fire never counts a hit twice nor on the wrong ship.            *)
THEOREM CountersExact == Spec => []CountersAgree
  <1>1. FleetInv => CountersAgree
    BY CountersFromFleet
  <1> QED BY <1>1, FleetsInOrder, PTL

(* The variables other than the boards. *)
FlagsOK ==
  /\ state \in {"PLACING_SHIPS", "IN_PROGRESS", "FINISHED"}
  /\ ready \in [Side -> BOOLEAN]
  /\ current_turn \in Side \union {"none"}
  /\ winner_id \in Side \union {"none"}
  /\ wants_rematch \in [Side -> BOOLEAN]
  /\ answer \in {"none", "MISS", "HIT", "SUNK"}

LEMMA FlagsInit == Init => FlagsOK
  BY DEF Init, FlagsOK, NoFlags

LEMMA FlagsStep == ASSUME FlagsOK, [Next]_vars PROVE FlagsOK'
  <1> USE DEF FlagsOK
  <1>1. ASSUME NEW p \in Side, PlaceShip(p) PROVE FlagsOK'
    BY <1>1 DEF PlaceShip, PlaceAt
  <1>2. ASSUME NEW p \in Side, Ready(p) PROVE FlagsOK'
    BY <1>2 DEF Ready, Side
  <1>3. ASSUME NEW p \in Side, Fire(p) PROVE FlagsOK'
    BY <1>3 DEF Fire, FireAt, Outcome, Enemy, Side, NoFlags
  <1>4. ASSUME NEW p \in Side, Rematch(p) PROVE FlagsOK'
    BY <1>4 DEF Rematch, NoFlags
  <1>5. CASE UNCHANGED vars
    BY <1>5 DEF vars
  <1> QED BY <1>1, <1>2, <1>3, <1>4, <1>5 DEF Next

LEMMA BoardsTyped == ASSUME FleetInv, ViewInv PROVE boards \in [Side -> BoardType]
  <1> SUFFICES ASSUME NEW p \in Side PROVE boards[p] \in BoardType
    BY DEF FleetInv, BoardsOK
  <1> DEFINE b == boards[p]
  <1>1. Shape(b) /\ Lined(b) /\ Counted(b)
    BY DEF FleetInv, FleetOK
  <1>2. ASSUME NEW c \in Cell PROVE b.enemy_view[c] # "SHIP"
    BY DEF ViewInv, ViewsAgree
  <1>3. b.enemy_view \in [Cell -> CellStates \ {"SHIP"}]
    BY <1>1, <1>2 DEF Shape
  <1>4. b.ships_remaining \in 0 .. Len(ShipSizes)
    BY <1>1, BoardAssumption, SunkFinite DEF Lined, Counted
  <1>5. b.ships \in Seq(Ship)
    BY <1>1 DEF Lined
  <1> HIDE DEF b
  <1>6. b \in BoardType
    BY <1>1, <1>3, <1>4, <1>5 DEF Shape, BoardType
  <1> QED BY <1>6 DEF b

LEMMA FlagsAlways == Spec => []FlagsOK
  <1>1. FlagsOK /\ [Next]_vars => FlagsOK'
    BY FlagsStep
  <1> QED BY <1>1, FlagsInit, PTL DEF Spec

(* Every match is well typed; ships_remaining stays within 0 and the size  *)
(* of the fleet, and no ship of the enemy is ever seen.                    *)
THEOREM DuelTyping == Spec => []TypeOK
  <1>1. FleetInv /\ ViewInv /\ FlagsOK => TypeOK
    BY BoardsTyped DEF FlagsOK, TypeOK
  <1> QED BY <1>1, FlagsAlways, FleetsInOrder, PTL

=============================================================================
