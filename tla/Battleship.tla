----------------------------- MODULE Battleship -----------------------------
(***************************************************************************)
(* The game of Battleship as two players understand it, without boards and *)
(* counters: a fleet is a sequence of sets of cells, and a player has fired *)
(* at a set of cells.  Duel is shown to implement it.                      *)
(***************************************************************************)
EXTENDS Integers, Sequences

CONSTANTS GridSize, ShipSizes

VARIABLES fleet,     \* the ships of each side, as sets of cells
          shots,     \* the cells each side has fired at
          ready,     \* who has declared its fleet complete
          turn,      \* who fires next, "none" when nobody may
          winner,
          answer     \* what the last shooter was told

vars == <<fleet, shots, ready, turn, winner, answer>>

Side     == {"creator", "opponent"}
Enemy(p) == IF p = "creator" THEN "opponent" ELSE "creator"
Cell     == (0 .. GridSize - 1) \X (0 .. GridSize - 1)

(* the straight lines of n cells in the grid *)
Lines(n) ==
  {l \in {{r} \X (c .. c + n - 1) : r, c \in 0 .. GridSize - 1}
         \union {(r .. r + n - 1) \X {c} : r, c \in 0 .. GridSize - 1} : l \subseteq Cell}

Fresh == /\ fleet = [p \in Side |-> <<>>]
         /\ shots = [p \in Side |-> {}]
         /\ ready = [p \in Side |-> FALSE]
         /\ turn = "none"
         /\ winner = "none"
         /\ answer = "none"

Init == Fresh

(* a ship is put where it touches no other one *)
Place(p) ==
  /\ ~ready[p]
  /\ Len(fleet[p]) < Len(ShipSizes)
  /\ \E l \in Lines(ShipSizes[Len(fleet[p]) + 1]) :
       /\ \A i \in 1 .. Len(fleet[p]) : fleet[p][i] \intersect l = {}
       /\ fleet' = [fleet EXCEPT ![p] = Append(@, l)]
  /\ UNCHANGED <<shots, ready, turn, winner, answer>>

DeclareReady(p) ==
  /\ ~ready[p]
  /\ Len(fleet[p]) = Len(ShipSizes)
  /\ ready' = [ready EXCEPT ![p] = TRUE]
  /\ turn' = IF ready[Enemy(p)] THEN "creator" ELSE "none"
  /\ UNCHANGED <<fleet, shots, winner, answer>>

(* The other side then fires, unless the last ship has been sunk. *)
Shoot(p) ==
  /\ turn = p
  /\ \E c \in Cell \ shots[p] :
       LET ships   == {fleet[Enemy(p)][i] : i \in 1 .. Len(ShipSizes)}
           struck  == {s \in ships : c \in s}
           sunk(s) == s \subseteq shots[p] \union {c}
           beaten  == \A s \in ships : sunk(s)
       IN /\ shots' = [shots EXCEPT ![p] = @ \union {c}]
          /\ answer' = IF struck = {} THEN "MISS"
                       ELSE IF \E s \in struck : sunk(s) THEN "SUNK" ELSE "HIT"
          /\ winner' = IF beaten THEN p ELSE "none"
          /\ turn' = IF beaten THEN "none" ELSE Enemy(p)
  /\ UNCHANGED <<fleet, ready>>

(* a new match between the same players *)
PlayAgain == winner # "none" /\ Fresh'

Next == PlayAgain \/ \E p \in Side : Place(p) \/ DeclareReady(p) \/ Shoot(p)

Spec == Init /\ [][Next]_vars

=============================================================================
