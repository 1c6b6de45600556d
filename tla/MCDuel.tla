------------------------------- MODULE MCDuel -------------------------------
(***************************************************************************)
(* An instance of Duel, with what the clients show of it, for TLC.         *)
(***************************************************************************)
EXTENDS Picture

(* the indices of a 2 x 2 grid, and one beyond each border *)
Around2 == -1 .. 2

AllCells == Around2 \X Around2

TwoShips == <<2, 1>>

=============================================================================
