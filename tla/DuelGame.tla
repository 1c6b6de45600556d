------------------------------- MODULE DuelGame -------------------------------
(***************************************************************************)
(* Duel implements Battleship: with boards, views and counters the server  *)
(* plays the game that the players understand, on every grid and with      *)
(* every fleet.                                                            *)
(***************************************************************************)
EXTENDS DuelProofs

-----------------------------------------------------------------------------
(* Ships as lines                                                          *)

(* An aligned ship is one of the straight lines of its length. *)
LEMMA ShipIsLine ==
  ASSUME NEW s \in Ship, Aligned(s)
  PROVE  ShipCells(s) \in Game!Lines(Size(s))
  <1> DEFINE lowR == Lower(s.start_row, s.end_row)    topR == Higher(s.start_row, s.end_row)
             lowC == Lower(s.start_col, s.end_col)    topC == Higher(s.start_col, s.end_col)
             n == Size(s)
  <1>1. /\ lowR \in Index /\ lowC \in Index /\ lowR \in Int /\ lowC \in Int
        /\ topR \in Int /\ topC \in Int
        /\ s.start_row = s.end_row => lowR = topR /\ topC = lowC + n - 1
        /\ s.start_row # s.end_row => lowC = topC /\ topR = lowR + n - 1
    BY LinesOfCells, BoardAssumption DEF Aligned, Lower, Higher, Index, Size
  <1>2. ShipCells(s) = (lowR .. topR) \X (lowC .. topC) /\ ShipCells(s) \subseteq Game!Cell
    BY LinesOfCells DEF ShipCells, Cell, Index, Game!Cell
  <1> HIDE DEF lowR, topR, lowC, topC, n
  <1>3. CASE s.start_row = s.end_row
    <2>1. lowR .. topR = {lowR}
      BY <1>1, <1>3
    <2>2. ShipCells(s) = {lowR} \X (lowC .. lowC + n - 1)
      BY <1>1, <1>2, <1>3, <2>1
    <2> QED BY <1>1, <1>2, <2>2 DEF Game!Lines, Index, n
  <1>4. CASE s.start_row # s.end_row
    <2>1. lowC .. topC = {lowC}
      BY <1>1, <1>4
    <2>2. ShipCells(s) = (lowR .. lowR + n - 1) \X {lowC}
      BY <1>1, <1>2, <1>4, <2>1
    <2> QED BY <1>1, <1>2, <2>2 DEF Game!Lines, Index, n
  <1> QED BY <1>3, <1>4

(* A shot moves no ship. *)
LEMMA ShotKeepsShips ==
  ASSUME NEW b, FleetOK(b), NEW cell \in Cell, b.cells[cell] \in {"EMPTY", "SHIP"}
  PROVE  LET w == FiredUpon(b, cell)
         IN /\ Len(w.ships) = Len(b.ships)
            /\ \A i \in Entries(b) : ShipCells(w.ships[i]) = ShipCells(b.ships[i])
            /\ \A c : ShipsOn(w, c) = ShipsOn(b, c)
  <1> DEFINE w == FiredUpon(b, cell)
  <1>1. CASE b.cells[cell] = "EMPTY"
    <2>1. w = [b EXCEPT !.cells[cell] = "MISS"] /\ Shape(b)
      BY <1>1 DEF FiredUpon, FleetOK
    <2>2. w.ships = b.ships
      BY <2>1 DEF Shape
    <2> QED BY <2>2 DEF ShipsOn
  <1>2. CASE b.cells[cell] = "SHIP"
    <2>1. Entries(w) = Entries(b) /\ Lined(b) /\ Lined(w)
      BY <1>2, HitShips DEF FleetOK
    <2> HIDE DEF w
    <2>2. Len(w.ships) = Len(b.ships)
      <3>1. Cardinality(Entries(w)) = Len(w.ships) /\ Cardinality(Entries(b)) = Len(b.ships)
        BY <2>1, SunkFinite
      <3> QED BY <2>1, <3>1
    <2> QED BY <1>2, <2>2, HitShips DEF w
  <1> QED BY <1>1, <1>2

-----------------------------------------------------------------------------
(* Sunk ships and shots                                                    *)

(* what a shows of t is what a has fired at *)
Seen(a, t) ==
  \A c \in Cell : a.enemy_view[c] = IF t.cells[c] \in {"HIT", "MISS"} THEN t.cells[c] ELSE "EMPTY"

(* A ship is sunk when and only when the enemy has fired at all its cells. *)
LEMMA SunkIsShot ==
  ASSUME NEW a, NEW t, FleetOK(t), Seen(a, t), NEW i \in Entries(t)
  PROVE  i \in Sunk(t) <=> ShipCells(t.ships[i]) \subseteq {c \in Cell : a.enemy_view[c] # "EMPTY"}
  <1> DEFINE s == t.ships[i]
  <1>1. ASSUME NEW c \in ShipCells(s)
        PROVE  c \in Cell /\ t.cells[c] \in {"SHIP", "HIT"}
    <2>1. c \in Cell /\ i \in ShipsOn(t, c)
      BY <1>1 DEF ShipCells, ShipsOn, Entries
    <2> QED BY <2>1 DEF FleetOK, Marked
  <1>2. ASSUME NEW c \in ShipCells(s)
        PROVE  t.cells[c] = "HIT" <=> a.enemy_view[c] # "EMPTY"
    BY <1>1, <1>2 DEF Seen
  <1> QED BY <1>1, <1>2 DEF Sunk, HitCells

(* check_victory, with all ships placed: every ship is sunk. *)
LEMMA DefeatExact ==
  ASSUME NEW t, FleetOK(t), AllPlaced(t)
  PROVE  /\ Entries(t) = 1 .. Len(ShipSizes)
         /\ Defeat(t) <=> \A i \in Entries(t) : i \in Sunk(t)
  <1>1. Lined(t) /\ Counted(t)
    BY DEF FleetOK
  <1>2. Len(t.ships) = Len(ShipSizes) /\ Len(ShipSizes) \in Nat
    BY <1>1, SunkFinite, BoardAssumption DEF Lined, AllPlaced
  <1>3. Entries(t) = 1 .. Len(ShipSizes)
    BY <1>2 DEF Entries
  <1>4. Defeat(t) <=> Cardinality(Sunk(t)) = Len(t.ships)
    BY <1>1, <1>2, SunkFinite DEF Counted, Defeat
  <1>5. Cardinality(Sunk(t)) = Len(t.ships) <=> Sunk(t) = Entries(t)
    BY <1>1, SunkFinite
  <1>6. Sunk(t) = Entries(t) <=> \A i \in Entries(t) : i \in Sunk(t)
    BY DEF Sunk
  <1> QED BY <1>3, <1>4, <1>5, <1>6

-----------------------------------------------------------------------------
(* The phases of a match                                                   *)

(* Shots are fired only between complete fleets, and there is a winner just *)
(* when the match is over.                                                 *)
MatchInv ==
  /\ ready \in [Side -> BOOLEAN]
  /\ \A p \in Side : ready[p] => AllPlaced(boards[p])
  /\ state = "IN_PROGRESS" => \A p \in Side : ready[p]
  /\ winner_id # "none" <=> state = "FINISHED"

(* The boards after a shot at cell, and what they show. *)
LEMMA Shot ==
  ASSUME FleetInv, ViewInv, NEW p \in Side, NEW cell, FireAt(p, cell)
  PROVE  LET e == Enemy(p)
             t == boards[e]
         IN /\ e \in Side /\ e # p /\ Side = {p, e} /\ Enemy(e) = p
            /\ cell \in Cell /\ t.cells[cell] \in {"EMPTY", "SHIP"}
            /\ boards[p].enemy_view[cell] = "EMPTY"
            /\ boards'[e] = FiredUpon(t, cell)
            /\ boards'[e].cells = [t.cells EXCEPT ![cell] = Mark(t, cell)]
            /\ boards'[e].enemy_view = t.enemy_view
            /\ boards'[p].ships = boards[p].ships
            /\ boards'[p].cells = boards[p].cells
            /\ boards'[p].enemy_view = [boards[p].enemy_view EXCEPT ![cell] = Mark(t, cell)]
            /\ Len(boards'[e].ships) = Len(t.ships)
            /\ \A i \in Entries(t) : ShipCells(boards'[e].ships[i]) = ShipCells(t.ships[i])
  <1> DEFINE e == Enemy(p)
             t == boards[e]
  <1>1. /\ ~Refused(t, boards[p], cell)
        /\ boards' = [boards EXCEPT ![e] = FiredUpon(t, cell), ![p] = Noted(boards[p], t, cell)]
    BY DEF FireAt, Enemy, Side
  <1>2. e \in Side /\ e # p /\ Side = {p, e} /\ Enemy(e) = p
    BY DEF Enemy, Side
  <1>3. FleetOK(t) /\ FleetOK(boards[p]) /\ Shape(t) /\ Shape(boards[p])
    BY <1>2 DEF FleetInv, FleetOK
  <1>4. cell \in Cell /\ t.cells[cell] \in {"EMPTY", "SHIP"}
    BY <1>1, <1>3 DEF Refused, Shape, CellStates
  <1>5. boards[p].enemy_view[cell] = "EMPTY"
    BY <1>1, <1>4 DEF Refused, ViewInv, ViewsAgree
  <1>6. boards'[e] = FiredUpon(t, cell) /\ boards'[p] = Noted(boards[p], t, cell)
    BY <1>1, <1>2 DEF FleetInv, BoardsOK
  <1>7. /\ Shape(FiredUpon(t, cell))
        /\ FiredUpon(t, cell).enemy_view = t.enemy_view
        /\ FiredUpon(t, cell).cells = [t.cells EXCEPT ![cell] = Mark(t, cell)]
    BY <1>3, <1>4, FiredUponShape
  <1>8. /\ Shape(Noted(boards[p], t, cell))
        /\ Noted(boards[p], t, cell).cells = boards[p].cells
        /\ Noted(boards[p], t, cell).enemy_view
             = [boards[p].enemy_view EXCEPT ![cell] = Mark(t, cell)]
    BY <1>3, <1>4, NotedShape
  <1>9. Noted(boards[p], t, cell).ships = boards[p].ships
    <2>1. Noted(boards[p], t, cell) = [boards[p] EXCEPT !.enemy_view[cell] = Mark(t, cell)]
      BY DEF Noted, Mark
    <2> QED BY <1>3, <2>1 DEF Shape
  <1>10. /\ Len(FiredUpon(t, cell).ships) = Len(t.ships)
         /\ \A i \in Entries(t) : ShipCells(FiredUpon(t, cell).ships[i]) = ShipCells(t.ships[i])
    BY <1>3, <1>4, ShotKeepsShips
  <1> QED BY <1>2, <1>4, <1>5, <1>6, <1>7, <1>8, <1>9, <1>10

LEMMA MatchInit == Init => MatchInv
  BY DEF Init, MatchInv, NoFlags

LEMMA MatchStep == ASSUME MatchInv, FleetInv, ViewInv, [Next]_vars PROVE MatchInv'
  <1>1. CASE UNCHANGED vars
    BY <1>1 DEF vars, MatchInv
  <1>2. ASSUME NEW p \in Side, PlaceShip(p) PROVE MatchInv'
    <2>1. ~ready[p] /\ state = "PLACING_SHIPS" /\ UNCHANGED <<ready, state, winner_id>>
      BY <1>2 DEF PlaceShip, PlaceAt
    <2>2. \A q \in Side \ {p} : boards'[q] = boards[q]
      BY <1>2 DEF PlaceShip, PlaceAt, FleetInv, BoardsOK
    <2> QED BY <2>1, <2>2 DEF MatchInv
  <1>3. ASSUME NEW p \in Side, Ready(p) PROVE MatchInv'
    BY <1>3 DEF Ready, MatchInv, Enemy, Side
  <1>4. ASSUME NEW p \in Side, NEW cell, FireAt(p, cell) PROVE MatchInv'
    <2>1. \A q \in Side : Len(boards'[q].ships) = Len(boards[q].ships)
      <3>1. /\ Side = {p, Enemy(p)}
            /\ boards'[p].ships = boards[p].ships
            /\ Len(boards'[Enemy(p)].ships) = Len(boards[Enemy(p)].ships)
        BY <1>4, Shot
      <3> QED BY <3>1
    <2>2. \A q \in Side : AllPlaced(boards[q]) => AllPlaced(boards'[q])
      BY <2>1 DEF AllPlaced
    <2>3. state = "IN_PROGRESS" /\ UNCHANGED ready /\ winner_id = "none"
      BY <1>4 DEF FireAt, MatchInv
    <2>5. \/ state' = "FINISHED" /\ winner_id' = p
          \/ UNCHANGED <<state, winner_id>>
      BY <1>4 DEF FireAt
    <2>6. winner_id' # "none" <=> state' = "FINISHED"
      BY <2>3, <2>5 DEF Side
    <2>4. \A q \in Side : ready[q]
      BY <2>3 DEF MatchInv
    <2> QED BY <2>2, <2>3, <2>4, <2>6 DEF MatchInv
  <1>5. ASSUME NEW p \in Side, Rematch(p) PROVE MatchInv'
    BY <1>5 DEF Rematch, MatchInv, NoFlags
  <1> QED BY <1>1, <1>2, <1>3, <1>4, <1>5 DEF Next, Fire

-----------------------------------------------------------------------------
(* Every step of Duel is a step of Battleship, or changes nothing that the *)
(* players see                                                             *)

LEMMA PlaceRefines ==
  ASSUME FleetInv, ViewInv, MatchInv, NEW p \in Side, PlaceShip(p)
  PROVE  Game!Place(p)
  <1>1. PICK r1, c1, r2, c2 \in Coordinates : PlaceAt(p, ShipAt(r1, c1, r2, c2))
    BY DEF PlaceShip
  <1> DEFINE s == ShipAt(r1, c1, r2, c2)
             b == boards[p]
             l == ShipCells(s)
  <1>2. s \in Ship
    BY <1>1 DEF PlaceAt, CanPlace, InGrid, ShipAt, Ship
  <1> HIDE DEF s
  <1>3. /\ state = "PLACING_SHIPS" /\ ~ready[p] /\ CanPlace(b, s)
        /\ boards' = [boards EXCEPT ![p] = WithShip(b, s)]
        /\ UNCHANGED <<state, ready, current_turn, winner_id, answer>>
    BY <1>1 DEF PlaceAt, s
  <1>4. Shape(b) /\ Lined(b) /\ boards = [q \in Side |-> boards[q]]
    BY DEF FleetInv, FleetOK, BoardsOK
  <1>5. /\ boards'[p] = WithShip(b, s)
        /\ \A q \in Side \ {p} : boards'[q] = boards[q]
    BY <1>3, <1>4
  <1>6. boards'[p].ships = Append(b.ships, s) /\ boards'[p].enemy_view = b.enemy_view
    <2>1. /\ Shape(WithShip(b, s))
          /\ WithShip(b, s).enemy_view = b.enemy_view
          /\ \A c \in Cell : WithShip(b, s).cells[c] = IF Covers(s, c) THEN "SHIP" ELSE b.cells[c]
      BY <1>4, WithShipShape
    <2> QED BY <1>4, <1>5, <2>1, WithShipFields
  <1>7. b.ships \in Seq(Ship) /\ Len(b.ships) \in Nat /\ Len(b.ships) < Len(ShipSizes)
    BY <1>3, <1>4, BoardAssumption DEF Lined, CanPlace, AllPlaced
  <1>8. l \in Game!Lines(ShipSizes[Len(b.ships) + 1])
    BY <1>2, <1>3, ShipIsLine DEF CanPlace
  <1>9. \A i \in 1 .. Len(b.ships) : ShipCells(b.ships[i]) \intersect l = {}
    <2>1. \A i \in 1 .. Len(b.ships) : b.ships[i] \in Ship /\ ~ShipsOverlap(b.ships[i], s)
      BY <1>3, <1>7 DEF CanPlace
    <2> QED BY <1>2, <2>1, OverlapExact DEF ShipCells
  <1>10. Fleet(p)' = Append(Fleet(p), l) /\ \A q \in Side \ {p} : Fleet(q)' = Fleet(q)
    <2>1. Len(boards'[p].ships) = Len(b.ships) + 1 /\ boards'[p].ships[Len(b.ships) + 1] = s
          /\ \A i \in 1 .. Len(b.ships) : boards'[p].ships[i] = b.ships[i]
      BY <1>2, <1>6, <1>7
    <2>2. Fleet(p)' = [i \in 1 .. Len(b.ships) + 1 |-> ShipCells(boards'[p].ships[i])]
      BY <2>1 DEF Fleet
    <2>3. Fleet(p) = [i \in 1 .. Len(b.ships) |-> ShipCells(b.ships[i])] /\ Len(Fleet(p)) = Len(b.ships)
      BY <1>7 DEF Fleet
    <2> QED BY <1>5, <1>7, <2>1, <2>2, <2>3 DEF Fleet
  <1>11. \A q \in Side : FiredAt(q)' = FiredAt(q)
    BY <1>5, <1>6 DEF FiredAt
  <1>12. Len(Fleet(p)) = Len(b.ships) /\ \A i \in 1 .. Len(b.ships) : Fleet(p)[i] = ShipCells(b.ships[i])
    BY <1>7 DEF Fleet
  <1> DEFINE F == [q \in Side |-> Fleet(q)]
  <1>13. F' = [F EXCEPT ![p] = Append(@, l)] /\ F[p] = Fleet(p)
    BY <1>10
  <1>14. [q \in Side |-> FiredAt(q)]' = [q \in Side |-> FiredAt(q)]
    BY <1>11
  <1> HIDE DEF l, F
  <1>15. /\ ~ready[p]
         /\ Len(F[p]) < Len(ShipSizes)
         /\ l \in Game!Lines(ShipSizes[Len(F[p]) + 1])
         /\ \A i \in 1 .. Len(F[p]) : F[p][i] \intersect l = {}
    BY <1>3, <1>7, <1>8, <1>9, <1>12, <1>13
  <1> QED BY <1>3, <1>13, <1>14, <1>15 DEF Game!Place, Game!Side, F, Side

LEMMA ReadyRefines ==
  ASSUME FleetInv, MatchInv, NEW p \in Side, Ready(p)
  PROVE  Game!DeclareReady(p)
  <1> DEFINE F == [q \in Side |-> Fleet(q)]
             S == [q \in Side |-> FiredAt(q)]
             t == IF state = "IN_PROGRESS" THEN current_turn ELSE "none"
  <1>1. UNCHANGED boards
    BY DEF Ready
  <1>2. F' = F /\ S' = S
    BY <1>1 DEF Fleet, FiredAt
  <1>3. Len(F[p]) = Len(ShipSizes)
    <2>1. Lined(boards[p]) /\ AllPlaced(boards[p])
      BY DEF FleetInv, FleetOK, Ready
    <2>2. Len(boards[p].ships) = Len(ShipSizes) /\ Len(boards[p].ships) \in Nat
      BY <2>1, BoardAssumption, SunkFinite DEF Lined, AllPlaced
    <2> QED BY <2>2 DEF Fleet
  <1>4. t' = IF ready[Enemy(p)] THEN "creator" ELSE "none"
    BY DEF Ready
  <1>5. ~ready[p] /\ ready' = [ready EXCEPT ![p] = TRUE] /\ UNCHANGED <<winner_id, answer>>
    BY DEF Ready
  <1> HIDE DEF F, S, t
  <1> QED BY <1>2, <1>3, <1>4, <1>5 DEF Game!DeclareReady, Game!Side, Game!Enemy, Enemy, F, S, t, Side

LEMMA FireRefines ==
  ASSUME FleetInv, FleetInv', ViewInv, ViewInv', MatchInv, NEW p \in Side, Fire(p)
  PROVE  Game!Shoot(p)
  <1>1. PICK cell \in Targets : FireAt(p, cell)
    BY DEF Fire
  <1> DEFINE e == Enemy(p)
             t == boards[e]
             w == boards'[e]
             k == FindShip(t, cell)
             F == [q \in Side |-> Fleet(q)]
             S == [q \in Side |-> FiredAt(q)]
             turn == IF state = "IN_PROGRESS" THEN current_turn ELSE "none"
             ships == {F[Game!Enemy(p)][i] : i \in 1 .. Len(ShipSizes)}
             struck == {s \in ships : cell \in s}
             fired == S[p] \union {cell}
  <1>2. /\ e \in Side /\ e # p /\ Side = {p, e} /\ Enemy(e) = p
        /\ cell \in Cell /\ t.cells[cell] \in {"EMPTY", "SHIP"}
        /\ boards[p].enemy_view[cell] = "EMPTY"
        /\ w = FiredUpon(t, cell)
        /\ w.enemy_view = t.enemy_view
        /\ boards'[p].ships = boards[p].ships
        /\ boards'[p].enemy_view = [boards[p].enemy_view EXCEPT ![cell] = Mark(t, cell)]
        /\ Len(w.ships) = Len(t.ships)
        /\ \A i \in Entries(t) : ShipCells(w.ships[i]) = ShipCells(t.ships[i])
    BY <1>1, Shot
  <1>3. /\ FleetOK(t) /\ AllPlaced(t) /\ FleetOK(w) /\ AllPlaced(w)
        /\ boards[p].enemy_view \in [Cell -> CellStates]
    <2>1. AllPlaced(t)
      BY <1>1, <1>2 DEF FireAt, MatchInv
    <2>2. FleetOK(t) /\ FleetOK(boards[p]) /\ FleetOK(w)
      BY <1>2 DEF FleetInv
    <2> QED BY <1>2, <2>1, <2>2 DEF AllPlaced, FleetOK, Shape
  <1>4. Entries(t) = 1 .. Len(ShipSizes) /\ Entries(w) = 1 .. Len(ShipSizes)
    BY <1>3, DefeatExact
  (* the ships stay, and one cell is added to the shots of p *)
  <1>5. F' = F
    <2>1. Fleet(p)' = Fleet(p)
      BY <1>2 DEF Fleet
    <2>2. Fleet(e)' = Fleet(e)
      BY <1>2 DEF Fleet, Entries
    <2> QED BY <1>2, <2>1, <2>2
  <1>6. S' = [S EXCEPT ![p] = fired] /\ cell \in Cell \ S[p]
    <2>1. FiredAt(p)' = FiredAt(p) \union {cell}
      BY <1>2, <1>3 DEF FiredAt, Mark
    <2>2. FiredAt(e)' = FiredAt(e)
      BY <1>2 DEF FiredAt
    <2>3. cell \notin FiredAt(p)
      BY <1>2 DEF FiredAt
    <2> QED BY <1>2, <2>1, <2>2, <2>3
  <1>7. \A i \in Entries(t) : F[e][i] = ShipCells(t.ships[i]) /\ ShipCells(w.ships[i]) = F[e][i]
    BY <1>2 DEF Fleet, Entries
  (* a ship is sunk after the shot when all its cells have been fired at *)
  <1>8. \A i \in Entries(t) : i \in Sunk(w) <=> F[e][i] \subseteq fired
    <2>1. Seen(boards'[p], w)
      BY <1>2 DEF ViewInv, ViewsAgree, Seen
    <2>2. FiredAt(p)' = fired
      BY <1>2, <1>6
    <2>3. fired = {c \in Cell : boards'[p].enemy_view[c] # "EMPTY"}
      BY <2>2 DEF FiredAt
    <2>4. \A i \in Entries(w) :
            i \in Sunk(w)
              <=> ShipCells(w.ships[i]) \subseteq {c \in Cell : boards'[p].enemy_view[c] # "EMPTY"}
      BY <1>3, <2>1, SunkIsShot
    <2> HIDE DEF e, t, w, F, fired
    <2> QED
      <3> SUFFICES ASSUME NEW i \in Entries(t)
                   PROVE  i \in Sunk(w) <=> F[e][i] \subseteq fired
        OBVIOUS
      <3>1. i \in Entries(w) /\ ShipCells(w.ships[i]) = F[e][i]
        BY <1>4, <1>7
      <3> QED BY <2>3, <2>4, <3>1
  <1>9. ships = {F[e][i] : i \in Entries(t)}
    BY <1>4 DEF Game!Enemy, Enemy
  <1>10. Defeat(w) <=> \A s \in ships : s \subseteq fired
    BY <1>3, <1>4, <1>8, <1>9, DefeatExact
  (* what the shooter is told *)
  <1>11. Outcome(t, cell) = IF struck = {} THEN "MISS"
                            ELSE IF \E s \in struck : s \subseteq fired THEN "SUNK" ELSE "HIT"
    <2>1. \A i \in Entries(t) : cell \in F[e][i] <=> i \in ShipsOn(t, cell)
      BY <1>2, <1>7 DEF ShipCells, ShipsOn, Entries
    <2>2. t.cells[cell] = "SHIP" <=> ShipsOn(t, cell) # {}
      BY <1>2, <1>3 DEF FleetOK, Marked
    <2>3. CASE t.cells[cell] # "SHIP"
      BY <1>9, <2>1, <2>2, <2>3 DEF Outcome
    <2>4. CASE t.cells[cell] = "SHIP"
      <3>1. ShipsOn(t, cell) = {k} /\ k \in Entries(t)
        BY <1>2, <1>3, <2>2, <2>4, FoundShip DEF FleetOK
      <3>2. struck = {F[e][k]}
        BY <1>9, <2>1, <3>1
      <3>3. Sinks(t, cell) <=> k \in Sunk(w)
        <4>1. /\ Sunk(FiredUpon(t, cell)) = IF Sinks(t, cell) THEN Sunk(t) \union {k} ELSE Sunk(t)
              /\ k \notin Sunk(t)
          BY <1>2, <1>3, <2>4, HitShips
        <4> QED BY <1>2, <4>1
      <3>4. Sinks(t, cell) <=> F[e][k] \subseteq fired
        BY <1>8, <3>1, <3>3
      <3> QED BY <2>4, <3>2, <3>4 DEF Outcome
    <2> QED BY <2>3, <2>4
  <1>12. /\ turn = p
         /\ answer' = Outcome(t, cell)
         /\ winner_id' = IF Defeat(w) THEN p ELSE "none"
         /\ turn' = IF Defeat(w) THEN "none" ELSE e
         /\ UNCHANGED ready
    <2>1. /\ state = "IN_PROGRESS" /\ current_turn = p /\ winner_id = "none"
          /\ answer' = Outcome(t, cell) /\ UNCHANGED ready
      BY <1>1 DEF FireAt, MatchInv
    <2>2. CASE Defeat(w)
      BY <1>1, <1>2, <2>1, <2>2 DEF FireAt
    <2>3. CASE ~Defeat(w)
      BY <1>1, <1>2, <2>1, <2>3 DEF FireAt
    <2> QED BY <2>1, <2>2, <2>3
  <1>13. Game!Enemy(p) = e /\ Game!Cell = Cell /\ Game!Side = Side
    BY DEF Game!Enemy, Game!Cell, Game!Side, Enemy, Cell, Index, Side
  <1> HIDE DEF e, t, w, k, F, S, turn
  <1>14. /\ turn = p
         /\ cell \in Game!Cell \ S[p]
         /\ S' = [S EXCEPT ![p] = @ \union {cell}]
         /\ answer' = IF struck = {} THEN "MISS"
                      ELSE IF \E s \in struck : s \subseteq S[p] \union {cell} THEN "SUNK" ELSE "HIT"
         /\ winner_id' = IF \A s \in ships : s \subseteq S[p] \union {cell} THEN p ELSE "none"
         /\ turn' = IF \A s \in ships : s \subseteq S[p] \union {cell} THEN "none" ELSE Game!Enemy(p)
         /\ F' = F /\ UNCHANGED ready
    BY <1>5, <1>6, <1>10, <1>11, <1>12, <1>13
  <1> QED BY <1>13, <1>14 DEF Game!Shoot, F, S, turn

LEMMA RematchRefines ==
  ASSUME MatchInv, NEW p \in Side, Rematch(p)
  PROVE  Game!PlayAgain \/ UNCHANGED Game!vars
  <1>1. CASE wants_rematch[Enemy(p)]
    <2>1. /\ boards' = [q \in Side |-> NewBoard] /\ state' = "PLACING_SHIPS"
          /\ ready' = NoFlags /\ winner_id' = "none" /\ answer' = "none"
          /\ winner_id # "none"
      BY <1>1 DEF Rematch, MatchInv, InitBoard
    <2>2. \A q \in Side : Fleet(q)' = <<>> /\ FiredAt(q)' = {}
      BY <2>1 DEF Fleet, FiredAt, NewBoard
    <2> QED BY <2>1, <2>2 DEF Game!PlayAgain, Game!Fresh, Game!Side, Side, NoFlags
  <1>2. CASE ~wants_rematch[Enemy(p)]
    <2>1. UNCHANGED <<boards, state, ready, current_turn, winner_id, answer>>
      BY <1>2 DEF Rematch
    <2> QED BY <2>1 DEF Game!vars, Fleet, FiredAt
  <1> QED BY <1>1, <1>2

LEMMA InitRefines == Init => Game!Init
  <1> SUFFICES ASSUME Init PROVE Game!Init
    OBVIOUS
  <1>1. \A q \in Side : Fleet(q) = <<>> /\ FiredAt(q) = {}
    BY DEF Init, Fleet, FiredAt, NewBoard
  <1> QED BY <1>1 DEF Init, Game!Init, Game!Fresh, Game!Side, Side, NoFlags

LEMMA StepRefines ==
  ASSUME FleetInv, FleetInv', ViewInv, ViewInv', MatchInv, [Next]_vars
  PROVE  [Game!Next]_(Game!vars)
  <1>1. CASE UNCHANGED vars
    BY <1>1 DEF vars, Game!vars, Fleet, FiredAt
  <1>2. ASSUME NEW p \in Side, PlaceShip(p) PROVE Game!Next
    BY <1>2, PlaceRefines DEF Game!Next, Game!Side, Side
  <1>3. ASSUME NEW p \in Side, Ready(p) PROVE Game!Next
    BY <1>3, ReadyRefines DEF Game!Next, Game!Side, Side
  <1>4. ASSUME NEW p \in Side, Fire(p) PROVE Game!Next
    BY <1>4, FireRefines DEF Game!Next, Game!Side, Side
  <1>5. ASSUME NEW p \in Side, Rematch(p) PROVE Game!Next \/ UNCHANGED Game!vars
    BY <1>5, RematchRefines DEF Game!Next
  <1> QED BY <1>1, <1>2, <1>3, <1>4, <1>5 DEF Next

(* Boards, views and counters implement the game that the players           *)
(* understand, answers, winners and rematches included, for every grid,     *)
(* every fleet and all coordinates that clients may send.                  *)
THEOREM Implementation == Spec => ImplementsBattleship
  <1> DEFINE Inv == FleetInv /\ ViewInv /\ MatchInv
  <1>1. Spec => []MatchInv
    <2>1. MatchInv /\ (FleetInv /\ ViewInv) /\ [Next]_vars => MatchInv'
      BY MatchStep
    <2> QED BY <2>1, MatchInit, FleetsInOrder, PTL DEF Spec
  <1>2. Inv /\ Inv' /\ [Next]_vars => [Game!Next]_(Game!vars)
    BY StepRefines
  <1>3. Spec => []Inv
    BY <1>1, FleetsInOrder, PTL
  <1> HIDE DEF Inv
  <1> QED BY <1>2, <1>3, InitRefines, PTL DEF Spec, ImplementsBattleship, Game!Spec

=============================================================================
