---------------------------- MODULE MCGameServer ----------------------------
(***************************************************************************)
(* Instances of GameServer for TLC.                                        *)
(***************************************************************************)
EXTENDS GameServer, TLC

NameSymmetry == Permutations(Names)

(* A match that has just started between the clients of the first two      *)
(* slots, as MarkReady and StartOpponent leave it, under some two names.   *)
MatchStarted ==
  LET username == CHOOSE f \in [1 .. 2 -> Names] : f[1] # f[2]
  IN /\ players = [p \in Pid |->
          IF p > 2 THEN FreePlayer
          ELSE [id |-> p, state |-> "IN_GAME", current_game_id |-> 1, username |-> username[p],
                ships_placed |-> MaxShips, ships_remaining |-> MaxShips]]
     /\ player_count = 2
     /\ games = [g \in Gid |->
          IF g # 1 THEN FreeGame ELSE Started([NewGame(1, 1) EXCEPT !.opponent_id = 2])]
     /\ game_count = 1
     /\ thr = [p \in Pid |-> Idle(IF p > 2 THEN "none" ELSE "receive")]

StartedSpec     == MatchStarted /\ [][Next]_vars
FairStartedSpec == StartedSpec /\ Fairness

=============================================================================
