# Battleship socket server: TLA+ models, model checking and proofs

This directory specifies the Battleship client/server program of this repository
in TLA+, checks the specifications with TLC on small instances and proves the
most important properties for every instance with TLAPS. Source paths below are
relative to `src/`; `client_handler.c`, `game_manager.c` and `game_logic.c` are in
`server/src/`.

## 1. The system

| Component | State it keeps | Operations | Modelled |
|---|---|---|---|
| Client handlers (`client_handler.c`) | one POSIX thread per client, locals that survive from one critical section to the next | LOGIN, CREATE_GAME, LIST_GAMES, JOIN_GAME, ACCEPT_INVITE, REJECT_INVITE, PLACE_SHIP, READY, FIRE, LEAVE_GAME, REMATCH, REMATCH_DECLINE, WAIT_NEW_PLAYER, QUIT, disconnection | `GameServer` (interleavings), `Session` (messages), `Duel` and `Picture` (boards) |
| Game manager (`game_manager.c`) | table of players, table of games, two counters, one mutex per table, player and game | add/remove/get/set_username for players, create/get/find/remove for games, notify | `GameServer`, `Session`, `Listener` |
| Game rules (`game_logic.c`) | a `Board` per player: grid, view of the enemy grid, ships, counters | `init_board`, `place_ship`, `process_fire`, `check_victory`, `reset_game_for_rematch`, random codes | `Board`, `Duel`, `Battleship` |
| Protocol (`protocol.c`) | none | `parse_message`, `build_response`, `send_message`, `receive_message` | `Wire` |
| Listener (`server.c`) | listening socket, `running`, global pointer for the signal handler | accept loop, thread creation, SIGINT/SIGTERM, shutdown | `Listener` |
| Client automaton (`client/src/client.c`) | `client->state`, two boards, a receiving thread and an input thread | one reaction per message and per input line, `client_send` | `Client` and `Session` (state), `Picture` (boards), `Wire` (sending) |
| Client interface (`ui.c`), entry points, build files | none that matters | output, argument parsing | no |

Components interact through the two tables: handlers never call each other, they
write each other's `Player` and the common `Game`. A handler takes a lock, reads
or writes a few fields, gives the lock up, and goes on with pointers and ids it
has copied. Anything may have happened by the time it takes the next lock: the
opponent may have left, the game may have been handed over, removed or replaced
by another game in the same slot (ids are slot numbers, so the new game has the
same id), a client may have disconnected and its slot been given to another one.
This is where the code is hard, and what the core module is about.

What makes each component correct:

* *Tables*: counters count the used slots; nicknames are unique; no game is left
  without somebody who can end it.
* *Match*: only complete fleets fight; it is always one member's turn; one shot
  at a time; both members start, finish and restart together, whichever thread
  is faster.
* *Departures*: whatever handler is running when a player leaves, the survivor
  gets a choice, and a game nobody is in is removed.
* *Boards*: exactly the legal placements are accepted, and grid, views and
  counters tell one story, the one players know as Battleship.
* *Threads*: no handler waits for ever; in particular a shooter, which alone
  takes the locks of two players, must never wait for one it holds. The code does
  not keep the second (section 4), and hence not the first.
* *Clients*: once everything on the way has been read, a client's boards are the
  server's; nobody waits for an answer that will not come, and nobody is told to
  fire out of turn.
* *Connections*: descriptors are owned and closed once; a player slot never names
  a closed one; the accept loop survives errors and ends on a signal.
* *Messages*: they arrive whole, in order and as they were meant.

`PROJECT.json` lists the hazards at their lines, with the properties that guard
them.

## 2. Modules

| Module | Contents |
|---|---|
| `GameServer` | the multi-threaded server: state, one action per critical section, properties |
| `MCGameServer` | instances for TLC: symmetry of nicknames, the start from a running match |
| `GameServerProofs` | type correctness, with the types of the handlers' locals; unique nicknames, counters, no game of a client against itself |
| `GameServerMatch` | a match from the request to the rematch, while nobody leaves; creators who come and go alone |
| `Board` | the rules on one board, pure operators |
| `Duel` | one match on boards: whole handlers, one after the other |
| `Battleship` | the abstract game, without boards or counters |
| `Picture` | `Duel` played through two clients that draw boards of their own from messages |
| `MCDuel` | an instance of `Picture` |
| `DuelProofs` | `ships_overlap` is exact; the views agree with the boards; exactly the legal placements are accepted; hit counters and `ships_remaining` agree with the cells; types |
| `DuelGame` | `Duel` implements `Battleship` |
| `PictureProofs` | a match played through the clients is a match of `Duel`, and the clients draw its boards |
| `Client` | the two transition tables of the client: after a message, after an input line |
| `Session` | `GameServer` with the messages of its handlers, the streams, and a `Client` per slot |
| `MCSession` | instances of `Session` |
| `SessionProofs` | the server of a session is `GameServer`; while nobody leaves, everyone is answered and nobody is told to fire out of turn |
| `Listener` | the accept loop, the two ends of a connection's thread, descriptors, the stop signal |
| `ListenerProofs` | slots lead to their clients; no descriptor is lost or closed twice |
| `Wire` | one direction of a connection, byte by byte |
| `MCWire` | an instance of `Wire`: messages around every limit |
| `WireProofs` | messages arrive whole, one by one and in order, and are understood as they were meant |

### GameServer

`players` and `games` are the two tables, indexed by slot; a `Player *` or
`Game *` is a slot number, and so is the id stored in a used slot (`free_index + 1`).
`thr[p]` is the thread that owns player slot `p`: `pc` names the critical section
it enters next, `cmd` the command it handles, `game`, `other`, `creator`, `flag`,
`first` and `second` the locals it carries along.

| Handler | Sections (in order) |
|---|---|
| `handle_login` | `SetUsername`, `EnterLobby` |
| `handle_create_game` | `CreateGame`, `CopyCode`, `AttachCreator` |
| `handle_join_game` | `FindCode`, `FileRequest`, `SetInvited` |
| `handle_accept_invite` | `Resolve`, `ReadGameId`, `GetGame`, `CheckInvite`, `AssignOpponent`, `SeatRequester`, `SeatCreator` |
| `handle_reject_invite` | `Resolve`, `ReadGameId`, `GetGame`, `ClearInvite`, `ReleaseRequester` |
| `handle_place_ship` | `PlaceShip` |
| `handle_ready` | `SetReady`, `GetGame`, `MarkReady`, `GetCreator`, `GetOpponent`, `StartCreator`, `StartOpponent` |
| `handle_fire` | `ReadGameId`, `GetGame`, `CheckTurn`, `GetPlayer`, `OrderFirst`, `OrderSecond`, `LockFirst`, `Shoot`, then `PassTurn` or `DeclareWin`, `FinishSelf`, `FinishOpponent` |
| `leave_current_game` (LEAVE_GAME, REMATCH_DECLINE, QUIT) | `ReadGameId`, `GetGame`, `Dissolve`, `GetPlayer`, `SameGame`, `OfferChoice` or `Evict`, `RemoveGame`, `ResetSelf`, `LockTable`, `RemovePlayer` |
| `handle_rematch` | `ReadGameId`, `GetGame`, `AskRematch`, `GetPlayer`, `RestartSelf`, `RestartOpponent`, or on to `leave_current_game` |
| `handle_wait_new_player` | `ReadGameId`, `GetGame`, `CheckAlone`, `SetWaiting`, `Reopen` |

Decisions a reader should know:

* A critical section is atomic because everything it touches is touched under the
  same mutex. Where a handler waits for a mutex inside a section, or reads shared
  state outside any, the section is cut into steps. Three mutexes are held from one
  step to a later one, and are guards of all the steps that need them:
  * the game's, from `CheckInvite` to `AssignOpponent` (`GameLockFree`), because
    `handle_accept_invite` reads `requester->id` twice (381 and 387) without the
    requester's lock;
  * that of the player `first`, from `LockFirst` to `Shoot` (`PlayerLockFree`), because
    `handle_fire` takes a second one inside it. It is not recursive: with
    `first = second` the thread never goes on. `opponent->id` is read for the order
    of the two at 616 and at 617, without a lock and separately (the Makefile sets
    no optimisation): `OrderFirst` and `OrderSecond`;
  * `players_lock`, from `LockTable` to `RemovePlayer` (`TableLockFree`), because
    `gm_remove_player` waits for the lock of the player inside it.
* Other accesses without the lock of what they touch, and why they are no steps:
  `opponent->id` at 606 is compared with the shooter's id, and the id of a slot is its
  number or -1, so the outcome is the same whenever it is read; the id that
  `gm_get_player` reads (`client_handler.c:595` and others) is under the lock of the
  table, under which it is also written; `gm_add_player` initialises a slot under that
  lock only, and a write of a stale pointer can fall before or after it, but the model
  does not let it fall in the middle; `gm_set_username` writes a nickname under
  the table's lock and `gm_copy_username` copies it under the player's, for messages
  that only print.
* `gm_notify_player` takes the lock of the player it writes to. `GameServer` has no
  messages; in `Session` it is a guard of `Write`.
* The state check at the head of a handler reads only the state of the handler's
  own player; it is one step with the arrival of the command (`Receive`), and a
  refused command is not a step. Nothing a handler does before its next section
  depends on when exactly this check runs.
* `handle_leave_game` reads `current_game_id` twice. The second read decides
  alone, except when the first finds no game; both outcomes are those of one
  read, which the model has.
* `place_ship` and `process_fire` are abstracted to what they do to
  `ships_placed` and `ships_remaining`: a placement succeeds or not, a shot sinks a
  ship that was placed or not. `Duel` has the boards.
* A closed connection is the command QUIT: the code does the same for both.
* Definitions marked `fault` are not part of the model. Each is what the
  definition after it would be with a plausible bug; `PROJECT.json` pairs them
  with the property that notices.

### Board, Duel and Battleship

`Board` has the pure functions of `game_logic.c`: `CanPlace` is the sequence of
checks of `place_ship`, `WithShip` its effect, `Refused`, `FiredUpon`, `Noted` and
`Outcome` the branches of `process_fire`. `Duel` runs whole handlers on two boards.
`Battleship` knows no boards: a fleet is a sequence of sets of cells, a player has
fired at a set of cells, a shot sinks a ship when it completes its cells, and a
player wins when every ship of the enemy is complete. `Duel` implements it under
the mapping at its end (`ImplementsBattleship`), the replies MISS, HIT and SUNK
included.

### Picture

Each client keeps two boards that the server never sends: it draws them from
SHIP_PLACED, HIT, SUNK, MISS and ENEMY_FIRE and clears them at GAME_START
(`Redrawn`, `handle_response`). `Picture` adds the drawings and the messages on
their way (`inbox`) to `Duel`; every action of `Act` is one of `Duel` with its
answers, and READY is sent when the drawing counts a whole fleet, as the client
does. A user acts when everything sent to it has been read; `Read(p)` is the drawing
of a client once it has read what waits for it. The messages about a shot leave with its handler: both players are notified before the turn passes,
so those of two shots cannot change places while nobody leaves.

### Client and Session

`Client` has two tables. `AfterMessage` is `handle_response`: most messages lead to
one state whatever the state before (`Shown`); ERROR and SHIP_PLACED look further.
`Offered`, `Meaning` and `AfterCommand` are the switch of `client_run`.

`Session` extends `GameServer`. Commands wait in `toServer[p]`; when a critical
section ends, `Messages(p)` says what the handler writes, and `Write` writes it
piece by piece while other threads run; `toClient[p]` is the stream to the client.
On the client, `Show` is one message in the receiving thread, under `ui_lock`; the
input thread reads a line in the state in which it was offered (`Type`) and acts
on it later, in whatever state it then finds (`Act`): this is the race of the two
threads over `client->state`. A client may break off at any time (`Interrupt`).
LIST_GAMES and the messages that only print are left out.

### Listener

`main` is the accept loop; `Dial`, the free descriptors and their reuse are the
kernel. `Start` includes the failures of `malloc` and `pthread_create`. A worker
takes a slot, serves, frees the slot, closes the descriptor. `Signal` may come at
any point; it is taken by the main thread, which Linux prefers (a worker that
took it would leave `accept()` asleep on a closed socket). The loop is modelled
from its first test on.

### Wire

Bytes, partial writes, one-byte reads, the line feed, the limits of `protocol.h`,
`strtok_r` and the `send_lock` of the client. `Line` sends what fits when a message
is too long, as the code does, which ignores the result of `build_response`.
The server has no lock per socket: its handlers are `Wire` with one sender only
as long as no two of them notify the same player at once.

## 3. Model checking

Every bound is a constant of the cfg.

| Run | Instance | Shows |
|---|---|---|
| `Server` | 2 client slots, 1 game slot, 2 ships, every command | types, counters, nicknames, sides and turns under every interleaving, with reconnections and stale pointers |
| `Match` | 3 clients, 1 game, 2 ships, nobody leaves | fleets complete, turn held by a member, one shot in flight, shots only by the turn holder, start and finish together, pending requests that stand, rematches included |
| `Progress` | 2 clients from a started match, every way of leaving, fair threads | two READYs start the match, two REMATCHes restart it, handlers return unless one has locked a mutex twice, a match both players quit is removed; no game slot without a creator attached to it |
| `Duel` | 2x2 grid, ships of 2 and 1, coordinates -1..2, two clients | views, counters, placement, refinement of `Battleship`, drawings of the clients, through rematches |
| `Session` | 2 clients, 1 game, 2 ships, every command, 2 connections | nobody waits in vain; nobody is told to fire out of turn |
| `Listener` | 2 slots, 3 descriptors, 4 connections | slots, descriptors, stop, survival of errors |
| `Wire` | 2 senders, 3 messages, buffer of 7 bytes, 2 fields of 3 bytes, 4 bytes on the way | framing, understanding at the limits, `client_send` returns |
| `LoginFirst`, `Orphan`, `SelfLock`, `StaleDecline`, `TurnsLost` | 2 clients, the commands needed | counterexamples, section 4 |

Why these bounds are enough to be interesting. One game slot forces slots and
ids to be reused at once, which is where stale ids bite. Two clients give every
race between a creator and an opponent, and between a handler and a new
connection in the slot of the client it works on; a third one adds competing
requests and a stranger who reuses the slot of a player. Two ships separate
"some", "all" and "all but one". On the grid, ships of different lengths and the
coordinates one beyond each border give every comparison both outcomes, and 2x2
lets TLC play matches to the end; that placement is exact on larger grids, where
lines cross, is a theorem. Three descriptors over two slots give a refused client
and a process out of descriptors, four connections reuse both. The limits of
`Wire` are small enough for every message of `AtLimits` to be just inside or just
outside one of them; 4 bytes on the way force partial writes. `MaxConns`,
`MaxSends` and `MaxArrivals` end the runs.

`Session` assumes patient users: with `MaxAhead = 1` a user types when the last
command has been answered and shown, not before. `Interrupt` does not
wait, so parting crosses everything. `MaxArrivals = 2` means that nobody reconnects;
`Server` and `Progress` have reconnections. `NoFalseTurn` speaks of sessions in which
nobody has parted, since departures do break the states (section 4); `Answered`
speaks of all of them. Neither depends on the number of clients while nobody
leaves: that is proved (section 5). That the states of client and server agree is no
property: it fails as soon as three clients play (section 4).

`Progress` starts in `MatchStarted`, the state in which `MarkReady` and
`StartOpponent` leave a first match between the clients of slots 1 and 2. It is a
reachable state of `Spec`. The run therefore claims something of what follows a
running match; JOIN_GAME and ACCEPT_INVITE are not sent, and with them
`NoOrphanGame` fails (section 4). A third slot, for a stranger that takes the place
of a player, makes no difference to it (TLC, the same start without fairness, 3.3
million states).

Deadlock is checked in `Duel` only. In the runs of `GameServer` with both FIRE and
QUIT the code can stop for good (section 4, `SelfLock`): `HandlersReturn` says of
`Progress` that it does so in this way only. In the other runs nobody can
leave, the process may end, or a bound of the model may be reached, so a state in
which nothing more happens is a legitimate end.

Symmetry (`NameSymmetry`) permutes nicknames only, in runs of `Spec` without
liveness. Slots are not symmetric: the lowest free one is taken.

Fairness is strong fairness of `Work(p)` for each slot: the operating system runs
every thread, and one that waits for a mutex which is given back again and again
gets it in the end. Weak fairness would let clients that fire, leave and
reconnect without end overtake it at every turn. A thread that holds a mutex across
two steps goes on, unless it waits for that very mutex, and handlers contain no
unbounded loop. Nothing is assumed of clients: `Connect` and `Receive` are not
fair. In `Listener` the main thread and the workers are fair, clients, signals and
the end of a service (`Serve`) are not. `ConnectionTaken` asks for a free
descriptor again and again, because a full process is emptied by its clients
only. In `Wire` threads run and the receiver reads; the mutex is not assumed to
be fair, and a sender passes another at most `MaxSends` times.

## 4. Where the code and its documentation disagree

Each is a TLC counterexample of a run with `expect: violation`.

* `LoginFirst`. "Cosi' nessun comando di gioco passa prima della LOGIN"
  (`game_logic.c:38`). A handler holding a stale `Player *` sets the state of a
  fresh connection, which then passes `require_login`.
* `Orphan`. "non restano partite orfane" (`README.md:149-152`). ACCEPT_INVITE fills
  the seat in the game before it attaches the requester; a LEAVE_GAME of the
  requester in between sees no game.
* `SelfLock`. "Senza questo controllo faremmo due pthread_mutex_lock sullo STESSO mutex
  non ricorsivo e il thread si bloccherebbe per sempre" (`client_handler.c:601-605`).
  The check at 606 comes too early: `opponent->id` becomes -1 between 616, which
  makes `first` the shooter, and 617, which makes `second` the shooter too. Or it
  is -1 at 616, and a new client has the slot at 617: then both are that
  client. The handler keeps this mutex; a thread that comes to free the slot waits for
  it in `gm_remove_player`, with `players_lock`, and the whole server stops.
* `StaleDecline`. "controlliamo che sia davvero il compagno di QUESTA partita"
  (`client_handler.c:126`), but not that the game is still one's own. Both players
  decline the rematch; the first handler frees the game and its client creates a
  new one in the slot, with the same id; the second handler ends and removes it.
* `TurnsLost`. "Il server alterna i turni" (`README.md:54`). `handle_ready` writes
  WAIT_TURN to the second player without a lock, after YOUR_TURN to the first;
  the first shot's YOUR_TURN may overtake it. Both clients then wait, and the one
  whose turn it is refuses every shot its user types (`client.c:679`).

Others were met while modelling and have no run of their own:

* READY's flag can be written after the departure of the opponent has reset the
  game (`client_handler.c:523`): the next match starts when the new opponent alone
  is ready, against "Devi prima posizionare tutte e 5 le navi" (509).
* States written after the game's lock was released overwrite `OPPONENT_LEFT`
  (316, 403, 545, 549, 672, 676), against "chi resta passa in uno stato di attesa
  della scelta" (`README.md:153`).
* A request outlives the wish to join (379); a second JOIN_GAME overwrites the
  request of the first, who stays INVITED (311).
* With three clients, nobody leaving, a client can show a match that its server state
  denies: TLC finds a trace of 65 states (3 slots, 1 game, `MaxArrivals` = 3, otherwise the
  instance of `Session`; invariant: with nothing on its way, the server's state of a
  client is one that its own state stands for). A second JOIN_GAME overwrites the first request (311); the creator, who has been shown
  the first one, names the second client in its ACCEPT_INVITE before that client's
  `SetInvited` (316) has run, which then writes INVITED over PLACING_SHIPS. The
  server refuses the ships of that client from then on.
* "Niente lock annidati, tranne uno" (`README.md:139`): `gm_create_game`,
  `gm_remove_game` and `gm_remove_player` take the lock of an object inside the
  lock of its table. No other code takes them in the opposite order. The canonical
  order of FIRE, of which the same paragraph says that no circular wait can form, is
  the subject of `SelfLock`.
* A client that does not read blocks, in `write()`, the handler of its opponent
  (`README.md:135` and 144-146 say otherwise).
* A stop signal during `server_init` is forgotten (`server.c:88`).

## 5. Proofs

All theorems hold for every value of the constants that satisfies the named
assumptions `ConstantsAssumption` (`GameServer`), `BoardAssumption` (`Board`),
`ListenerAssumption` (`Listener`) or `WireAssumption` (`Wire`).

**Typing** (`GameServerProofs`): `Spec => []TypeOK`. Not inductive alone: a handler
indexes the tables with the slot it remembers, so the proof needs to know that a
thread at a section that dereferences `game`, `other` or `creator` holds a slot and
not -1. `LocalsOK` says which local is a slot at which section, and
`TypeInv == TypeOK /\ LocalsOK` is inductive. One lemma per group of actions, one
step per action.

**Nicknames** (`GameServerProofs`): `UniqueUsernames` is kept by each step, given the
types; the test and the write are in one critical section, and no stale write
touches a nickname.

**Counters**: `CountsMatch` needs `OwnSlot`: a thread that runs owns a used player
slot, so that `RemovePlayer` always frees a used one. The rest is the cardinality
of a set that gains or loses one element.

**TwoSides**: `NeverAgainstItself` needs to know what the two unlocked reads of
`requester->id` can return. `SeatInv` adds to it that a pending request is never
the creator's own (`NoOwnRequest`), that a creator at `assign_opponent` works on a
requester that is not itself (`AcceptHolds`), and `OwnSlot`, which excludes that
an id of -1 is taken for the creator.

**OverlapExact** (`DuelProofs`): for straight ships in any grid, `ShipsOverlap`
holds exactly when the ships have a cell in common. The interval test is exact
for each axis (`MeetExact`), and two rectangles meet when they meet on both.

**Views** (`DuelProofs`): `Spec => []ViewsAgree`. The strengthening `ViewInv` adds the
shape of the records (`BoardsOK`) and that no shot is marked on a board while ships
are placed on it (`PlacedBeforeShots`), since `place_ship` would overwrite the mark.
Lemmas say which cells `WithShip`, `FiredUpon` and `Noted` change.

**Placements** (`DuelProofs`): `Spec => []PlacementExact`, on every grid with every
fleet. What `CanPlace` accepts is compared with `Legal` check by check: borders,
line, length (the number of cells of a straight ship is its length), and cells
already taken. The last needs `OverlapExact` and the invariant that, while ships
are placed, exactly the cells of the ships on the board are not empty.

**CountersExact, DuelTyping** (`DuelProofs`): `CountersAgree` compares counters
with sets of cells and is not inductive: a hit is counted for the right ship only
because the ships of a board have no cell in common (`Apart`), and once only
because the cells of the ships are those marked SHIP or HIT (`Marked`). `FleetInv`
says both of each board, with the shape of the array of ships (`Lined`) and the two
counters as cardinalities (`Counted`), and holds together with `ViewInv`
(`FleetsInOrder`). The proofs follow `place_ship` (one more ship, apart from the
others), `process_fire` (one more cell of one ship, one ship less if it was the
last one) and the resets. `FlagsOK`, an invariant of its own, adds the types of
the other variables.

**Implementation** (`DuelGame`): `Spec => ImplementsBattleship`. A handler of `Duel`
is one step of `Battleship` or none. The mapping turns entries of `ships` into sets
of cells and views into sets of shots, so each step needs what counters mean in
the abstract state: `hits >= size` says that every cell of the ship has been fired
at, `ships_remaining = 0` says it of all ships, and an accepted placement is a line
of the right length that crosses no other. `FleetInv` and `ViewInv` give these
facts; `MatchInv` of that module adds that only complete fleets fight and that
there is a winner just when the match is over.

**PictureIsDuel, PlayedThroughClients** (`PictureProofs`): every step of `PictureSpec` is a
step of `Duel` or leaves its variables alone (`ActIsMove`), so types, views,
counters, placements and the refinement hold of matches played through clients,
however late these read.

**PicturesTrue** (`PictureProofs`): `PictureSpec => []PictureTrue`. `PictureInv` adds
`Backlog`: a client has at most two messages to read, two only when its turn has
come, and none when it has asked for something. Without it a new message could
meet a queue that changes what it means.

**The match theorems** (`GameServerMatch`): `TurnHeld`, `FleetsComplete`, `ShotsInTurn`,
`RequestsStand`, `StartedTogether`, `FinishedTogether` and the action
property `ShotsOnTurn`, for any number of clients, games and ships, under two
hypotheses. `NobodyLeaves`: the clients send none of LEAVE_GAME, REMATCH_DECLINE,
WAIT_NEW_PLAYER and QUIT. `SeveralShips`: `MaxShips > 1`. The code has `MAX_SHIPS` = 5;
with one ship the creator could win before `StartOpponent` has run, which would
then put the loser back into a finished game. The `Match` run is an instance of
both. Departures are outside for a reason: `leave_current_game` hands a game over
while the handler of the opponent may still work on it, and `FleetsPlaced`, for
one, then fails (section 4).

None of these properties is inductive, because a match is kept together by locals
of threads: the thread that is at `start_opponent`, at `declare_win` or at
`restart_opponent` is the reason why two players are in different states. The
invariant `MatchInv` of this module says

* of each thread, at which sections its handler can be and in which state its
  player then is (`HandlerOK`), that the game it has copied is still that of its
  player (`LocalOK`), that a game it has just created is still its own
  (`CreatorOK`), and what the checks it has passed still guarantee (`AnswerOK`,
  `MarkingOK`, `ShotOK`);
* of each player, that it has a seat in its game, whose state fits its own
  (`AttachedOK`), that its request is pending in one game or in the hands of one
  thread (`RequestOK`), and what its counters say (`FleetOK`);
* of each game, who can be in its two seats (`GameOK`), that no flag is set too
  early (`FlagsOK`), who may be without ships, and which thread is about to notice
  (`FightOK`, `FinishOK`);
* of each thread and game, that one thread starts (`StartOK`) and one restarts
  (`RestartOK`) a match, and that a seat belongs to a player attached to the game or
  to one that a thread is about to attach (`SeatOK`).

It is built on `TypeInv` and `OwnSlot`. There is one lemma per action
(`ConnectMatch` ... `RestartOpponentMatch`), and frame lemmas reduce each to what the
step can disturb: `ThreadStepMatch` for steps that only move a thread,
`OutsiderStep` for a client that is in no game, and `LocalStep` for those that
change one game and one or two players in it: whatever is not `Near` is untouched.

**OrphansNeedDeparture, OrphansNeedAdmission** (`GameServerMatch`): the run `Orphan` shows
that a LEAVE_GAME during an ACCEPT_INVITE leaves an orphan. These two theorems say
that it takes both: `Spec => []NoOrphanGame` under `NobodyLeaves` and `SeveralShips` (from
`MatchInv`), and under `NobodyAccepts`, that ACCEPT_INVITE is not sent, with all
departures and any reuse of slots. The second rests on `LoneInv`: a used game
belongs to its creator (`Owns`), and the creator holds it (`Holds`), either attached to
it or with the game in a local of `handle_create_game`, until `gm_remove_game` has
freed it; so each game is written by one thread, but for a pending request, and
no thread is late. `LoneUpdate` is its frame lemma. TLC checked `LoneInv` first, with
3 clients and 2 games (2.2 million states).

**SessionIsServer** (`SessionProofs`): a step of a session is a step of `GameServer` or
leaves its variables alone, so all theorems above hold of sessions.

**EveryoneAnswered** (`SessionProofs`): `SessionSpec => []Answered` under `NobodyLeaves`
and `SeveralShips`, for any number of clients and games, any buffer and any
`MaxAhead`. `Answered` speaks of moments at which nothing is on its way, and is far from
inductive. `AnswerInv(p)` says of every moment why a client that waits will be
answered: its command is still in its stream (`Queued`); or the thread works on
it, or the rematch is asked for and the opponent has not agreed, or some thread is
about to restart the match (`Busy`); or a message that ends the waiting is in some
outbox or stream (`Coming`). A step hands the reason on to the next of these.
One stale state of the client is harmless: the input thread may put a client
back to waiting after the answer was shown, but it then puts a command in
the stream. `Linked` adds that nothing is written to a client that has no thread.

**NobodyFiresFalsely** (`SessionProofs`): `SessionSpec => []NoFalseTurn` under, in
addition, `Patient` (`MaxAhead = 1`). Users who type ahead break it (TLC, `MaxAhead` = 2):
a FIRE that waits in the stream is served as soon as the turn comes, and the
messages of the two shots then cross: the clients end with the turns exchanged.
`TurnInv(p)` relates three beliefs:
the game's `current_turn` (`Turn`), what the client will believe once it has read
what is in its stream (`Told`), and the shot it may have typed (`Firing`). A shot is
only typed on a turn, and there is one at a time (`OneFire`). A YOUR_TURN that waits in
an outbox, or a thread that is about to start the match, is a promise
(`PromiseOK`): a player has one at most, has the turn, does not know it yet and
does not fire. The client that
has just fired still takes it for its turn while the WAIT_TURN that follows is in
the outbox of its own thread (`Passed`), or the end of the match is (`Finishing`).
Both invariants were checked by TLC before they were proved, with 3 clients and
2 games (4.1 million states).

**Typing, SlotsLead, NoDescriptorLost** (`ListenerProofs`): `TypeOK`, `SlotsLeadHome`
and `EveryFdOwned` follow from `ListenerInv`, which says from both sides who holds what: a running
worker holds an open descriptor that leads to its client (`WorkersHold`), a used
slot belongs to a worker (`SlotsOwned`), the main thread between `accept` and
`pthread_create` holds one that no worker knows (`MainHolds`), every open
descriptor is held (`PeersHeld`), and a connection still in the queue has neither
(`WaitingFresh`). One lemma per thread action.

**Framing** (`WireProofs`): `Spec => []Framed`, for any number of sending threads and
any sizes of message, buffer and connection, if what is sent are single lines
(`SingleLines`: the client sends trimmed lines of the user, the server pieces of
lines it has received). Bytes are in four places (the receiver's buffer, the
connection, the writer's hands, the messages received), so `WireInv` lays them on
one tape: the lines of `sent` one after the other, with the position `cut[j]` at
which each ends. `Positions` says that messages received, buffer, stream and
what is left to write are consecutive pieces of it, that the buffer begins where a
line begins and is shorter than it, and that while the connection is up the
pieces reach the end. `Exclusive` is `send_lock`: one thread has something left. When
the connection breaks, what was left is dropped from the end. A step moves bytes
from a piece to the next (`Written`, `Consumed`) or makes the tape longer
(`TapeGrows`); `LineRead` is the reason why the receiver stops at the end of a
line and nowhere else, a line feed or a full buffer (`LineShape`).

**Understanding** (`WireProofs`): `Spec => []Understood`, if moreover every message has a
first field (`Worded`: its command or response type). What a message arrives as is
`Framed`'s; what is new is that `Tokens` undoes `Joined` (`ParsedLine`). Both go
through the message field by field, the one with the recursive function of
`FlattenSeq`, the other by the ranks of the bytes that follow a separator. `Spells` is
the middle: numbers `c[i]` at which field `i` ends in the line. `JoinedSpells` finds them
by induction over the fields (`FlattenDefined`, `FlatPlaces`), `StartsSpelled` and
`TokenSpelled` show that the tokens begin and end there, `InOrder` that they come in
order. The provers have no induction theorem they can instantiate, since the library's
take an operator; `UpTo` is one about a set instead, proved from the well-foundedness
of the naturals.

Only model-checked: liveness (the run `Progress`, `StopsOnSignal` and
`ConnectionTaken` of `Listener`, `SendReturns` of `Wire`), which is out of the prover's
reach; `NoOrphanGame` after a match has started (run `Progress`), `TurnHolder` with
departures (run `Server`), and `Answered` and `NoFalseTurn` where clients part (run
`Session`). What is violated (`LockedOnce` and the others of section 4) is shown by
TLC alone.

## 6. Not modelled

* LIST_GAMES, which only reads, and the messages that only print.
* The mutexes as such, but for the three that are held across steps (section 2).
  What a thread finds behind a mutex that `gm_destroy` has destroyed, before the
  process ends, is undefined.
* Game codes, which are random and not compared with those in use, and nicknames
  that look like ids: the models name games by slot and let a creator answer any
  connected client.
* Two handlers writing to one socket in parts, and a descriptor that is closed and
  reused between `gm_notify_player`'s read and its write.
* Users that type ahead, in `Session`; departures, in `Picture`.
* `server_init`, argument parsing, `ui.c`, and the parsing of typed lines.
  `parse_coords` and `print_board` are not used by the handlers.

The list of hazards in `PROJECT.json` says which of these has which risk.

## 7. Plan

Done, in this order: `GameServer` with its proofs; `Board`, `Battleship`, `Duel`;
`Client` and `Session`; `Listener` and its proofs; `Wire`; `Picture` and the
proofs about placement.
Then the proofs about counters, the refinement of `Battleship`, the drawings of the
clients, the matches of `GameServer`, the framing of `Wire`, the sessions, what `Wire` makes
of a message, and what orphan games take.

Left: which of the properties with departures hold beyond the instances of TLC.
A handler that is late can find its game handed over and its slot reused, once
per further client, so `TurnHolder` (four clients) and `NoOrphanGame` (two games, a
late REMATCH_DECLINE) are not expected to hold in general, and the runs claim them for
their instances only. Two writers on one socket, joining `Session` and `Wire`; an
abstract server with atomic transitions of a match.
