---------------------------- MODULE PictureProofs ----------------------------
(***************************************************************************)
(* Matches played through clients: what is proved of Duel holds of the      *)
(* composition, and the clients draw the boards of the server.             *)
(***************************************************************************)
EXTENDS Picture, DuelGame, SequenceTheorems, TLAPS

LEMMA ActIsMove == ASSUME NEW p \in Side, Act(p) PROVE Next
  <1>1. ASSUME AskPlace(p) PROVE PlaceShip(p)
    BY <1>1 DEF AskPlace, PlaceShip
  <1>2. ASSUME SendReady(p) PROVE Ready(p)
    BY <1>2 DEF SendReady
  <1>3. ASSUME AskFire(p) PROVE Fire(p)
    BY <1>3 DEF AskFire, Fire
  <1>4. ASSUME AskRematch(p) PROVE Rematch(p)
    BY <1>4 DEF AskRematch
  <1> QED BY <1>1, <1>2, <1>3, <1>4 DEF Act, Next

(* With clients that draw and messages that wait, the server still plays    *)
(* the match of Duel: each step is one of its handlers or leaves its        *)
(* variables alone.                                                        *)
THEOREM PictureIsDuel == PictureSpec => Spec
  <1>1. PictureInit => Init
    BY DEF PictureInit
  <1>2. [PictureNext]_pictureVars => [Next]_vars
    <2>1. ASSUME NEW p \in Side, Show(p) PROVE UNCHANGED vars
      BY <2>1 DEF Show
    <2>2. CASE UNCHANGED pictureVars
      BY <2>2 DEF pictureVars
    <2> QED BY <2>1, <2>2, ActIsMove DEF PictureNext
  <1> QED BY <1>1, <1>2, PTL DEF PictureSpec, Spec

(* The boards, the views, the counters and the placements of a match that   *)
(* is played through clients, and the game that the players see, for every  *)
(* grid and fleet.                                                         *)
THEOREM PlayedThroughClients ==
  PictureSpec => /\ [](TypeOK /\ ViewsAgree /\ CountersAgree /\ PlacementExact)
                 /\ ImplementsBattleship
  BY PictureIsDuel, DuelTyping, Views, CountersExact, Placements, Implementation, PTL

-----------------------------------------------------------------------------
(* The messages that wait                                                  *)

Results == {"MISS", "HIT", "SUNK"}

Messages == [type : {"GAME_START"}]
              \union [type : {"SHIP_PLACED"}, number : Nat, ship : Ship]
              \union [type : {"SHOT", "ENEMY_FIRE"}, cell : Cell, result : Results]

(* Users act on what they have read, so that one who has asked for          *)
(* something waits with an empty inbox, and only a player whose turn it is *)
(* can have two messages to read.                                          *)
Waits(p) ==
  /\ inbox[p] \in Seq(Messages) /\ Len(inbox[p]) \in 0 .. 2
  /\ state = "PLACING_SHIPS" /\ ready[p] => Len(inbox[p]) = 0
  /\ state = "FINISHED" /\ wants_rematch[p] => Len(inbox[p]) = 0
  /\ state = "PLACING_SHIPS" \/ (state = "IN_PROGRESS" /\ current_turn # p)
       => Len(inbox[p]) \in 0 .. 1

Backlog == \A p \in Side : Waits(p)

ClientsOK == /\ inbox = [p \in Side |-> inbox[p]]
             /\ picture = [p \in Side |-> picture[p]]

PictureInv == ClientsOK /\ Backlog /\ PictureTrue

LEMMA TailOf ==
  ASSUME NEW S, NEW s \in Seq(S), Len(s) \in 1 .. 2
  PROVE  /\ Tail(s) \in Seq(S)
         /\ Len(s) = 1 => Len(Tail(s)) = 0
         /\ Len(s) = 2 => Len(Tail(s)) = 1 /\ Tail(s)[1] = s[2]
  OBVIOUS

(* a message that comes to an inbox of at most one *)
LEMMA Received ==
  ASSUME NEW p \in Side, inbox[p] \in Seq(Messages), Len(inbox[p]) \in 0 .. 1,
         NEW m \in Messages, inbox'[p] = Append(inbox[p], m), picture'[p] = picture[p]
  PROVE  /\ Read(p)' = Redrawn(Read(p), m)
         /\ inbox'[p] \in Seq(Messages) /\ Len(inbox'[p]) = Len(inbox[p]) + 1
  <1>1. /\ inbox'[p] \in Seq(Messages) /\ Len(inbox'[p]) = Len(inbox[p]) + 1
        /\ inbox'[p][Len(inbox[p]) + 1] = m
    OBVIOUS
  <1>2. CASE Len(inbox[p]) = 0
    BY <1>1, <1>2 DEF Read
  <1>3. CASE Len(inbox[p]) = 1
    <2>1. inbox'[p][1] = inbox[p][1]
      BY <1>3
    <2> QED BY <1>1, <1>3, <2>1 DEF Read
  <1> QED BY <1>1, <1>2, <1>3

(* the picture that the server's boards call for *)
Target(p) == [my_board     |-> boards[p].cells,
              enemy_board  |-> boards[p].enemy_view,
              ships_placed |-> Len(boards[p].ships)]

(* reading a message takes nothing away from what will have been read *)
LEMMA ShowStep ==
  ASSUME PictureInv, NEW p \in Side, Show(p)
  PROVE  PictureInv'
  <1>1. /\ UNCHANGED vars /\ inbox[p] # <<>>
        /\ picture' = [picture EXCEPT ![p] = Redrawn(picture[p], Head(inbox[p]))]
        /\ inbox' = [inbox EXCEPT ![p] = Tail(inbox[p])]
    BY DEF Show
  <1>2. UNCHANGED <<boards, state, ready, current_turn, wants_rematch>>
    BY <1>1 DEF vars
  <1>3. inbox[p] \in Seq(Messages) /\ Len(inbox[p]) \in 1 .. 2
    <2>1. inbox[p] \in Seq(Messages) /\ Len(inbox[p]) \in 0 .. 2
      BY DEF PictureInv, Backlog, Waits
    <2> QED BY <1>1, <2>1
  <1>4. /\ picture'[p] = Redrawn(picture[p], inbox[p][1])
        /\ inbox'[p] = Tail(inbox[p])
        /\ \A q \in Side \ {p} : inbox'[q] = inbox[q] /\ picture'[q] = picture[q]
        /\ ClientsOK'
    <2>1. Head(inbox[p]) = inbox[p][1]
      BY <1>1, <1>3
    <2> QED BY <1>1, <2>1 DEF PictureInv, ClientsOK
  <1>5. \A q \in Side \ {p} : Read(q)' = Read(q)
    BY <1>4 DEF Read
  <1>6. /\ inbox'[p] \in Seq(Messages)
        /\ Len(inbox[p]) = 1 => Len(inbox'[p]) = 0
        /\ Len(inbox[p]) = 2 => Len(inbox'[p]) = 1 /\ inbox'[p][1] = inbox[p][2]
    BY <1>3, <1>4, TailOf
  <1>7. Read(p)' = Read(p)
    <2>1. CASE Len(inbox[p]) = 1
      BY <1>4, <1>6, <2>1 DEF Read
    <2>2. CASE Len(inbox[p]) = 2
      BY <1>4, <1>6, <2>2 DEF Read
    <2> QED BY <1>3, <2>1, <2>2
  <1>8. Backlog'
    <2>1. Waits(p)'
      <3>1. ~(state = "PLACING_SHIPS" /\ ready[p]) /\ ~(state = "FINISHED" /\ wants_rematch[p])
        BY <1>3 DEF PictureInv, Backlog, Waits
      <3>2. Len(inbox'[p]) = 0 \/ Len(inbox'[p]) = 1
        BY <1>3, <1>6
      <3>3. Len(inbox'[p]) \in 0 .. 2 /\ Len(inbox'[p]) \in 0 .. 1
        BY <3>2
      <3> QED BY <1>2, <1>6, <3>1, <3>3 DEF Waits
    <2>2. ASSUME NEW q \in Side \ {p} PROVE Waits(q)'
      <3>1. Waits(q) /\ inbox'[q] = inbox[q]
        BY <1>4 DEF PictureInv, Backlog
      <3> QED BY <1>2, <3>1 DEF Waits
    <2> QED BY <2>1, <2>2 DEF Backlog
  <1>9. PictureTrue'
    <2>1. ASSUME NEW q \in Side PROVE Len(inbox'[q]) \in 0 .. 2
      BY <1>8 DEF Backlog, Waits
    <2>2. ASSUME NEW q \in Side PROVE Read(q)' = Target(q)'
      <3>1. Read(q) = Target(q) /\ Read(q)' = Read(q)
        BY <1>5, <1>7 DEF PictureInv, PictureTrue, Target
      <3> QED BY <1>2, <3>1 DEF Target
    <2> QED BY <2>1, <2>2 DEF PictureTrue, Target
  <1> QED BY <1>4, <1>8, <1>9 DEF PictureInv

-----------------------------------------------------------------------------
(* The messages of the handlers say what changes on the boards             *)

LEMMA ShipPlacedTells ==
  ASSUME FleetInv, NEW p \in Side, NEW s \in Ship, PlaceAt(p, s)
  PROVE  /\ \A q \in Side \ {p} : boards'[q] = boards[q]
         /\ Len(boards'[p].ships) \in Nat
         /\ Redrawn(Target(p), [type |-> "SHIP_PLACED", number |-> Len(boards'[p].ships), ship |-> s])
              = Target(p)'
  <1> DEFINE b == boards[p]
             w == WithShip(b, s)
  <1>1. Shape(b) /\ Lined(b) /\ boards' = [boards EXCEPT ![p] = w]
    BY DEF FleetInv, FleetOK, PlaceAt
  <1>2. boards'[p] = w /\ \A q \in Side \ {p} : boards'[q] = boards[q]
    BY <1>1 DEF FleetInv, BoardsOK
  <1>3. /\ Shape(w) /\ w.enemy_view = b.enemy_view
        /\ \A c \in Cell : w.cells[c] = IF Covers(s, c) THEN "SHIP" ELSE b.cells[c]
    BY <1>1, WithShipShape
  <1>4. Len(w.ships) \in Nat
    BY <1>1, WithShipFields DEF Lined
  <1> HIDE DEF b, w
  <1>5. w.cells = [c \in Cell |-> IF Covers(s, c) THEN "SHIP" ELSE b.cells[c]]
    BY <1>3 DEF Shape
  <1>6. Target(p)' = [my_board |-> w.cells, enemy_board |-> b.enemy_view,
                      ships_placed |-> Len(w.ships)]
    BY <1>2, <1>3 DEF Target
  <1>7. Redrawn(Target(p), [type |-> "SHIP_PLACED", number |-> Len(w.ships), ship |-> s])
          = [my_board |-> w.cells, enemy_board |-> b.enemy_view, ships_placed |-> Len(w.ships)]
    BY <1>5 DEF Redrawn, Drawing, Target, b
  <1> QED BY <1>2, <1>4, <1>6, <1>7

LEMMA ShotTells ==
  ASSUME FleetInv, ViewInv, NEW p \in Side, NEW cell, FireAt(p, cell)
  PROVE  /\ cell \in Cell /\ answer' \in Results
         /\ Redrawn(Target(p), [type |-> "SHOT", cell |-> cell, result |-> answer']) = Target(p)'
         /\ Redrawn(Target(Enemy(p)), [type |-> "ENEMY_FIRE", cell |-> cell, result |-> answer'])
              = Target(Enemy(p))'
  <1> DEFINE e == Enemy(p)
             t == boards[e]
  <1>1. /\ cell \in Cell
        /\ boards'[e].cells = [t.cells EXCEPT ![cell] = Mark(t, cell)]
        /\ boards'[e].enemy_view = t.enemy_view
        /\ boards'[p].ships = boards[p].ships
        /\ boards'[p].cells = boards[p].cells
        /\ boards'[p].enemy_view = [boards[p].enemy_view EXCEPT ![cell] = Mark(t, cell)]
        /\ Len(boards'[e].ships) = Len(t.ships)
    BY Shot
  <1>2. answer' \in Results /\ HitOrMiss(answer') = Mark(t, cell)
    BY DEF FireAt, Outcome, Results, HitOrMiss, Mark
  <1> HIDE DEF e, t
  <1>3. Target(p)' = [my_board |-> boards[p].cells,
                      enemy_board |-> [boards[p].enemy_view EXCEPT ![cell] = Mark(t, cell)],
                      ships_placed |-> Len(boards[p].ships)]
    BY <1>1 DEF Target
  <1>4. Target(e)' = [my_board |-> [t.cells EXCEPT ![cell] = Mark(t, cell)],
                      enemy_board |-> t.enemy_view,
                      ships_placed |-> Len(t.ships)]
    BY <1>1 DEF Target
  <1>5. Redrawn(Target(p), [type |-> "SHOT", cell |-> cell, result |-> answer']) = Target(p)'
    BY <1>2, <1>3 DEF Redrawn, Target
  <1>6. Redrawn(Target(e), [type |-> "ENEMY_FIRE", cell |-> cell, result |-> answer']) = Target(e)'
    BY <1>2, <1>4 DEF Redrawn, Target, t
  <1> QED BY <1>1, <1>2, <1>5, <1>6 DEF e

-----------------------------------------------------------------------------
(* Every step keeps the pictures true                                      *)

LEMMA Untouched ==
  ASSUME NEW q, inbox'[q] = inbox[q], picture'[q] = picture[q]
  PROVE  Read(q)' = Read(q)
  BY DEF Read

(* a player who acts has nothing to read *)
LEMMA ActorHasRead ==
  ASSUME PictureInv, NEW p \in Side, Act(p)
  PROVE  /\ Len(inbox[p]) = 0 /\ inbox[p] \in Seq(Messages)
         /\ UNCHANGED picture
         /\ \A q \in Side : inbox[q] \in Seq(Messages) /\ Len(inbox[q]) \in 0 .. 2
         /\ \A q \in Side : Read(q) = Target(q)
  BY DEF Act, PictureInv, Backlog, Waits, PictureTrue, Target

LEMMA PlaceTold ==
  ASSUME PictureInv, FleetInv, NEW p \in Side, Act(p), AskPlace(p)
  PROVE  PictureInv'
  <1> DEFINE n == Len(boards'[p].ships)
  <1>1. PICK r1, c1, r2, c2 \in Coordinates :
          /\ PlaceAt(p, ShipAt(r1, c1, r2, c2))
          /\ inbox' = [q \in Side |-> inbox[q] \o
                         IF q # p THEN <<>>
                         ELSE <<[type |-> "SHIP_PLACED", number |-> n,
                                 ship |-> ShipAt(r1, c1, r2, c2)]>>]
    BY DEF AskPlace, ToEach
  <1> DEFINE s == ShipAt(r1, c1, r2, c2)
             m == [type |-> "SHIP_PLACED", number |-> n, ship |-> s]
  <1>2. s \in Ship
    BY <1>1 DEF PlaceAt, CanPlace, InGrid, ShipAt, Ship
  <1>3. /\ \A q \in Side \ {p} : boards'[q] = boards[q]
        /\ n \in Nat /\ Redrawn(Target(p), m) = Target(p)'
    BY <1>1, <1>2, ShipPlacedTells
  <1>4. m \in Messages
    BY <1>2, <1>3 DEF Messages
  <1>5. /\ inbox'[p] = inbox[p] \o <<m>> /\ ClientsOK'
        /\ \A q \in Side \ {p} : inbox'[q] = inbox[q] \o <<>>
    BY <1>1, ActorHasRead DEF ClientsOK, PictureInv
  <1>6. UNCHANGED <<state, ready, current_turn, wants_rematch, picture>>
        /\ state = "PLACING_SHIPS" /\ ~ready[p]
    BY <1>1, ActorHasRead DEF PlaceAt
  <1> HIDE DEF m, n, s
  <1>7. inbox'[p] = Append(inbox[p], m)
    BY <1>4, <1>5, ActorHasRead
  <1>8. \A q \in Side \ {p} : inbox'[q] = inbox[q]
    BY <1>5, ActorHasRead
  <1>9. /\ Read(p)' = Redrawn(Read(p), m)
        /\ inbox'[p] \in Seq(Messages) /\ Len(inbox'[p]) = 1
    <2>1. Len(inbox[p]) \in 0 .. 1 /\ Len(inbox[p]) + 1 = 1 /\ picture'[p] = picture[p]
      BY <1>6, ActorHasRead
    <2>2. /\ Read(p)' = Redrawn(Read(p), m)
          /\ inbox'[p] \in Seq(Messages) /\ Len(inbox'[p]) = Len(inbox[p]) + 1
      BY <1>4, <1>7, <2>1, ActorHasRead, Received
    <2> QED BY <2>1, <2>2
  <1>10. Backlog'
    <2>1. Waits(p)'
      BY <1>6, <1>9 DEF Waits
    <2>2. ASSUME NEW q \in Side \ {p} PROVE Waits(q)'
      <3>1. Waits(q) /\ inbox'[q] = inbox[q]
        BY <1>8 DEF PictureInv, Backlog
      <3> QED BY <1>6, <3>1 DEF Waits
    <2> QED BY <2>1, <2>2 DEF Backlog
  <1>11. ASSUME NEW q \in Side PROVE Read(q)' = Target(q)'
    <2>1. CASE q = p
      BY <1>3, <1>9, <2>1, ActorHasRead
    <2>2. CASE q # p
      <3>1. Read(q)' = Read(q) /\ Target(q)' = Target(q)
        BY <1>3, <1>6, <1>8, <2>2, Untouched DEF Target
      <3> QED BY <3>1, ActorHasRead
    <2> QED BY <2>1, <2>2
  <1> QED BY <1>5, <1>10, <1>11 DEF PictureInv, PictureTrue, Target, Backlog, Waits

LEMMA ReadyTold ==
  ASSUME PictureInv, FlagsOK, NEW p \in Side, Act(p), SendReady(p)
  PROVE  PictureInv'
  <1>1. UNCHANGED <<boards, inbox, picture, wants_rematch>>
    BY ActorHasRead DEF SendReady, Ready
  <1>2. /\ state = "PLACING_SHIPS"
        /\ \A q \in Side : ready'[q] <=> ready[q] \/ q = p
        /\ state' \in {"PLACING_SHIPS", "IN_PROGRESS"}
        /\ state' = "IN_PROGRESS" => ready[Enemy(p)]
    BY DEF SendReady, Ready, FlagsOK
  <1>3. \A q \in Side : ready'[q] => Len(inbox[q]) = 0
    BY <1>2, ActorHasRead DEF PictureInv, Backlog, Waits
  <1>4. Backlog'
    <2> SUFFICES ASSUME NEW q \in Side PROVE Waits(q)'
      BY DEF Backlog
    <2>1. Waits(q)
      BY DEF PictureInv, Backlog
    <2>2. state' = "IN_PROGRESS" => Len(inbox[q]) = 0
      <3>1. state' = "IN_PROGRESS" => ready'[q]
        BY <1>2 DEF Enemy, Side
      <3> QED BY <1>3, <3>1
    <2> QED BY <1>1, <1>2, <1>3, <2>1, <2>2 DEF Waits
  <1>5. ASSUME NEW q \in Side PROVE Read(q)' = Target(q)'
    <2>1. Read(q)' = Read(q) /\ Target(q)' = Target(q)
      BY <1>1 DEF Read, Target
    <2> QED BY <2>1, ActorHasRead
  <1>6. ClientsOK'
    BY <1>1 DEF PictureInv, ClientsOK
  <1> QED BY <1>4, <1>5, <1>6 DEF PictureInv, PictureTrue, Target, Backlog, Waits

LEMMA FireTold ==
  ASSUME PictureInv, FleetInv, ViewInv, NEW p \in Side, Act(p), AskFire(p)
  PROVE  PictureInv'
  <1> DEFINE e == Enemy(p)
             Msg(kind, cell) == [type |-> kind, cell |-> cell, result |-> answer']
  <1>1. PICK cell \in Targets :
          /\ FireAt(p, cell)
          /\ inbox' = [q \in Side |-> inbox[q] \o
                         <<[type |-> IF q = p THEN "SHOT" ELSE "ENEMY_FIRE",
                            cell |-> cell, result |-> answer']>>]
    BY DEF AskFire, ToEach
  <1>2. /\ cell \in Cell /\ answer' \in Results
        /\ Redrawn(Target(p), Msg("SHOT", cell)) = Target(p)'
        /\ Redrawn(Target(e), Msg("ENEMY_FIRE", cell)) = Target(e)'
    BY <1>1, ShotTells
  <1>3. e \in Side /\ e # p /\ Side = {p, e}
    BY DEF Enemy, Side
  <1> DEFINE m1 == Msg("SHOT", cell)
             m2 == Msg("ENEMY_FIRE", cell)
  <1>4. m1 \in Messages /\ m2 \in Messages
    BY <1>2 DEF Messages
  <1>5. inbox'[p] = inbox[p] \o <<m1>> /\ inbox'[e] = inbox[e] \o <<m2>> /\ ClientsOK'
    BY <1>1, <1>3, ActorHasRead DEF ClientsOK, PictureInv
  <1>6. /\ state = "IN_PROGRESS" /\ current_turn = p /\ UNCHANGED <<ready, picture>>
        /\ \/ state' = "FINISHED" /\ wants_rematch' = NoFlags
           \/ UNCHANGED state /\ current_turn' = e
    BY <1>1, ActorHasRead DEF FireAt
  <1>7. Len(inbox[e]) \in 0 .. 1
    BY <1>3, <1>6 DEF PictureInv, Backlog, Waits
  <1> HIDE DEF m1, m2, e
  <1>8. inbox'[p] = Append(inbox[p], m1) /\ inbox'[e] = Append(inbox[e], m2)
    <2>1. inbox[p] \in Seq(Messages) /\ inbox[e] \in Seq(Messages)
      BY <1>3, ActorHasRead
    <2> QED BY <1>4, <1>5, <2>1
  <1>9. /\ Read(p)' = Redrawn(Read(p), m1)
        /\ inbox'[p] \in Seq(Messages) /\ Len(inbox'[p]) = 1
    <2>1. Len(inbox[p]) \in 0 .. 1 /\ Len(inbox[p]) + 1 = 1 /\ picture'[p] = picture[p]
      BY <1>6, ActorHasRead
    <2>2. /\ Read(p)' = Redrawn(Read(p), m1)
          /\ inbox'[p] \in Seq(Messages) /\ Len(inbox'[p]) = Len(inbox[p]) + 1
      BY <1>4, <1>8, <2>1, ActorHasRead, Received
    <2> QED BY <2>1, <2>2
  <1>10. /\ Read(e)' = Redrawn(Read(e), m2)
         /\ inbox'[e] \in Seq(Messages) /\ Len(inbox'[e]) \in 0 .. 2
    <2>1. inbox[e] \in Seq(Messages) /\ picture'[e] = picture[e]
      BY <1>3, <1>6, ActorHasRead
    <2>2. /\ Read(e)' = Redrawn(Read(e), m2)
          /\ inbox'[e] \in Seq(Messages) /\ Len(inbox'[e]) = Len(inbox[e]) + 1
      BY <1>3, <1>4, <1>7, <1>8, <2>1, Received
    <2>3. \A n \in 0 .. 1 : n + 1 \in 0 .. 2
      OBVIOUS
    <2> QED BY <1>7, <2>2, <2>3
  <1>11. Backlog'
    <2>1. Waits(p)'
      BY <1>6, <1>9 DEF Waits, NoFlags
    <2>2. Waits(e)'
      BY <1>3, <1>6, <1>10 DEF Waits, NoFlags
    <2> QED BY <1>3, <2>1, <2>2 DEF Backlog
  <1>12. Read(p)' = Target(p)' /\ Read(e)' = Target(e)'
    BY <1>2, <1>3, <1>9, <1>10, ActorHasRead DEF m1, m2, e
  <1> QED BY <1>3, <1>5, <1>11, <1>12 DEF PictureInv, PictureTrue, Target, Backlog, Waits

LEMMA RematchTold ==
  ASSUME PictureInv, FlagsOK, NEW p \in Side, Act(p), AskRematch(p)
  PROVE  PictureInv'
  <1>1. /\ state = "FINISHED" /\ Rematch(p) /\ UNCHANGED picture
        /\ inbox' = [q \in Side |-> inbox[q] \o
                       IF state' = "PLACING_SHIPS" THEN GameStart ELSE <<>>]
    BY ActorHasRead DEF AskRematch, ToEach, Rematch
  <1>2. ClientsOK'
    BY <1>1 DEF ClientsOK, PictureInv
  <1>3. CASE wants_rematch[Enemy(p)]
    <2> DEFINE m == [type |-> "GAME_START"]
    <2>1. /\ state' = "PLACING_SHIPS" /\ boards' = [q \in Side |-> NewBoard]
          /\ ready' = NoFlags /\ wants_rematch' = NoFlags
      BY <1>1, <1>3 DEF Rematch, InitBoard
    <2>2. ASSUME NEW q \in Side PROVE inbox[q] \in Seq(Messages) /\ Len(inbox[q]) = 0
      <3>1. Enemy(p) \in Side /\ Side = {p, Enemy(p)}
        BY DEF Enemy, Side
      <3>2. Len(inbox[Enemy(p)]) = 0
        BY <1>1, <1>3, <3>1 DEF PictureInv, Backlog, Waits
      <3> QED BY <3>1, <3>2, ActorHasRead
    <2>3. ASSUME NEW q \in Side
          PROVE  inbox'[q] \in Seq(Messages) /\ Len(inbox'[q]) = 1 /\ inbox'[q][1] = m
      <3>1. inbox'[q] = inbox[q] \o <<m>> /\ m \in Messages
        BY <1>1, <2>1 DEF GameStart, Messages
      <3> HIDE DEF m
      <3>2. inbox'[q] = Append(inbox[q], m)
        BY <2>2, <3>1
      <3> QED BY <2>2, <3>1, <3>2
    <2>4. Backlog'
      BY <2>1, <2>3 DEF Backlog, Waits, NoFlags
    <2>5. ASSUME NEW q \in Side PROVE Read(q)' = Target(q)'
      <3>1. Read(q)' = Blank
        BY <2>3 DEF Read, Redrawn, Cleared
      <3>2. Target(q)' = Blank
        BY <2>1 DEF Target, NewBoard, Blank, EmptyGrid
      <3> QED BY <3>1, <3>2
    <2> QED BY <1>2, <2>4, <2>5 DEF PictureInv, PictureTrue, Target, Backlog, Waits
  <1>4. CASE ~wants_rematch[Enemy(p)]
    <2>1. /\ UNCHANGED <<boards, state, ready, current_turn>>
          /\ wants_rematch' = [wants_rematch EXCEPT ![p] = TRUE]
      BY <1>1, <1>4 DEF Rematch
    <2>2. \A q \in Side : inbox'[q] = inbox[q]
      BY <1>1, <2>1, ActorHasRead
    <2>3. Backlog'
      <3> SUFFICES ASSUME NEW q \in Side PROVE Waits(q)'
        BY DEF Backlog
      <3>1. Waits(q) /\ inbox'[q] = inbox[q]
        BY <2>2 DEF PictureInv, Backlog
      <3>2. CASE q = p
        BY <1>1, <2>1, <3>1, <3>2, ActorHasRead DEF Waits
      <3>3. CASE q # p
        <4>1. wants_rematch'[q] = wants_rematch[q]
          BY <2>1, <3>3 DEF FlagsOK
        <4> QED BY <1>1, <2>1, <3>1, <4>1 DEF Waits
      <3> QED BY <3>2, <3>3
    <2>4. ASSUME NEW q \in Side PROVE Read(q)' = Target(q)'
      <3>1. Read(q)' = Read(q) /\ Target(q)' = Target(q)
        BY <1>1, <2>1, <2>2, Untouched DEF Target
      <3> QED BY <3>1, ActorHasRead
    <2> QED BY <1>2, <2>3, <2>4 DEF PictureInv, PictureTrue, Target, Backlog, Waits
  <1> QED BY <1>3, <1>4

LEMMA PictureStep ==
  ASSUME PictureInv, FleetInv, ViewInv, FlagsOK, [PictureNext]_pictureVars
  PROVE  PictureInv'
  <1>1. CASE UNCHANGED pictureVars
    <2>1. UNCHANGED <<boards, state, ready, current_turn, wants_rematch, picture, inbox>>
      BY <1>1 DEF pictureVars, vars
    <2>2. UNCHANGED <<ClientsOK, Backlog, PictureTrue>>
      BY <2>1 DEF ClientsOK, Backlog, Waits, PictureTrue, Read
    <2> QED BY <2>2 DEF PictureInv
  <1>2. ASSUME NEW p \in Side, Act(p) PROVE PictureInv'
    BY <1>2, PlaceTold, ReadyTold, FireTold, RematchTold DEF Act
  <1> QED BY <1>1, <1>2, ShowStep DEF PictureNext

LEMMA PictureStart == PictureInit => PictureInv
  <1> SUFFICES ASSUME PictureInit PROVE PictureInv
    OBVIOUS
  <1> DEFINE m == [type |-> "GAME_START"]
  <1>1. /\ inbox = [p \in Side |-> <<m>>] /\ picture = [p \in Side |-> Blank] /\ m \in Messages
        /\ boards = [p \in Side |-> NewBoard] /\ ready = NoFlags /\ wants_rematch = NoFlags
        /\ state = "PLACING_SHIPS"
    BY DEF PictureInit, GameStart, Messages, Init
  <1>2. \A p \in Side : inbox[p] \in Seq(Messages) /\ Len(inbox[p]) = 1 /\ inbox[p][1] = m
    BY <1>1
  <1>3. Backlog
    BY <1>1, <1>2 DEF Backlog, Waits, NoFlags
  <1>4. ASSUME NEW p \in Side PROVE Read(p) = Target(p)
    <2>1. Read(p) = Blank
      BY <1>2 DEF Read, Redrawn, Cleared
    <2>2. Target(p) = Blank
      BY <1>1 DEF Target, NewBoard, Blank, EmptyGrid
    <2> QED BY <2>1, <2>2
  <1> QED BY <1>1, <1>3, <1>4 DEF PictureInv, ClientsOK, PictureTrue, Target, Backlog, Waits

(* Once a client has read its messages, it shows its own board and what it *)
(* knows of the enemy's as the server has them, for every grid and fleet   *)
(* and in every rematch; it never has more than two messages to read.      *)
THEOREM PicturesTrue == PictureSpec => []PictureTrue
  <1>1. PictureSpec => [](FleetInv /\ ViewInv /\ FlagsOK)
    BY PictureIsDuel, FleetsInOrder, FlagsAlways, PTL
  <1>2. PictureInv /\ (FleetInv /\ ViewInv /\ FlagsOK) /\ [PictureNext]_pictureVars => PictureInv'
    BY PictureStep
  <1>3. PictureInv => PictureTrue
    BY DEF PictureInv
  <1> QED BY <1>1, <1>2, <1>3, PictureStart, PTL DEF PictureSpec

=============================================================================
