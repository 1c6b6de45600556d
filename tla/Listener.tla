------------------------------ MODULE Listener ------------------------------
(***************************************************************************)
(* The life of a connection on the server (server.c and the two ends of    *)
(* client_handler_thread): the main thread accepts it and starts a thread, *)
(* the thread takes a player slot, serves, frees the slot and closes the   *)
(* descriptor.  A stop signal is handled by the main thread, wherever it    *)
(* is in its loop, and the process ends when main returns.                 *)
(*                                                                         *)
(* The kernel is modelled as far as the code relies on it: accept() gives  *)
(* the lowest free descriptor, and one that is closed may be given again.  *)
(* What the handlers do while a client is served is the subject of         *)
(* GameServer.  The loop is taken from its first test on: a signal during  *)
(* server_init, before running is set, is not modelled.                    *)
(***************************************************************************)
EXTENDS Integers, FiniteSets

CONSTANTS MaxPlayers,   \* MAX_PLAYERS
          MaxFds,       \* descriptors the process may have open for clients
          MaxConns      \* connections clients open in all (a bound of the model)

ASSUME ListenerAssumption == {MaxPlayers, MaxFds, MaxConns} \subseteq Nat \ {0}

Slot == 1 .. MaxPlayers
Fd   == 1 .. MaxFds
Conn == 1 .. MaxConns
None == -1

VARIABLES main,        \* main thread: where it is in server_start, and client_fd
          running,     \* server->running
          listening,   \* the listening socket is open
          worker,      \* the thread that serves each connection: place, socket_fd, slot
          socket_fd,   \* players[i].socket_fd, None in a free slot
          peer,        \* connection behind each descriptor, None if it is closed
          waiting      \* connections that accept() has not returned yet

vars == <<main, running, listening, worker, socket_fd, peer, waiting>>

TypeOK ==
  /\ main \in [pc : {"accept", "start", "returned"}, fd : Fd \union {None}]
  /\ running \in BOOLEAN /\ listening \in BOOLEAN
  /\ worker \in [Conn -> [pc : {"none", "add", "refuse", "serve", "leave", "close", "ended"},
                          fd : Fd \union {None}, slot : Slot \union {None}]]
  /\ socket_fd \in [Slot -> Fd \union {None}]
  /\ peer \in [Fd -> Conn \union {None}]
  /\ waiting \subseteq Conn

NoWorker == [pc |-> "none", fd |-> None, slot |-> None]

Init ==
  /\ main = [pc |-> "accept", fd |-> None]
  /\ running = TRUE /\ listening = TRUE
  /\ worker = [c \in Conn |-> NoWorker]
  /\ socket_fd = [s \in Slot |-> None]
  /\ peer = [f \in Fd |-> None]
  /\ waiting = {}

(* connections that were opened *)
Known == {c \in Conn : c \in waiting \/ worker[c].pc # "none" \/ \E f \in Fd : peer[f] = c}

Closed(f)    == [peer EXCEPT ![f] = None]
Lowest(i, S) == i \in S /\ \A j \in S : i <= j
FreeFds   == {f \in Fd : peer[f] = None}

\* fault: the search goes one slot too far
SlotsAndNext == {s \in 1 .. MaxPlayers + 1 : s \in Slot => socket_fd[s] = None}

FreeSlots == {s \in Slot : socket_fd[s] = None}

Step(c, pc) == worker' = [worker EXCEPT ![c].pc = pc]

-----------------------------------------------------------------------------
(* Clients and the operator                                                *)

(* connect(): the kernel queues the connection (listen) *)
Dial(c) ==
  /\ main.pc # "returned" /\ listening
  /\ c \notin Known
  /\ \A d \in Conn : d < c => d \in Known
  /\ waiting' = waiting \union {c}
  /\ UNCHANGED <<main, running, listening, worker, socket_fd, peer>>

(* handle_signal and server_stop; accept() returns with EINTR or EBADF *)
Signal ==
  /\ main.pc # "returned" /\ running
  /\ running' = FALSE
  /\ listening' = FALSE
  /\ waiting' = {}
  /\ worker' = [c \in Conn |-> IF c \in waiting THEN [NoWorker EXCEPT !.pc = "ended"] ELSE worker[c]]
  /\ UNCHANGED <<main, socket_fd, peer>>

-----------------------------------------------------------------------------
(* The main thread: server_start                                           *)

(* without a free descriptor accept() fails and is called again *)
Accept ==
  /\ main.pc = "accept" /\ running
  /\ \E c \in Conn, f \in Fd :
       /\ Lowest(c, waiting) /\ Lowest(f, FreeFds)
       /\ waiting' = waiting \ {c}
       /\ peer' = [peer EXCEPT ![f] = c]
       /\ main' = [pc |-> "start", fd |-> f]
  /\ UNCHANGED <<running, listening, worker, socket_fd>>

\* fault: the descriptor is not closed when the thread cannot be created
StartAndForget ==
  /\ main.pc = "start"
  /\ \E pc \in {"add", "ended"} :
       worker' = [worker EXCEPT ![peer[main.fd]] =
                    [NoWorker EXCEPT !.pc = pc, !.fd = IF pc = "add" THEN main.fd ELSE None]]
  /\ main' = [pc |-> "accept", fd |-> None]
  /\ UNCHANGED <<running, listening, socket_fd, peer, waiting>>

\* fault: the loop is left when the thread cannot be created
StartOrStop ==
  /\ main.pc = "start"
  /\ LET c == peer[main.fd]
     IN \/ /\ worker' = [worker EXCEPT ![c] = [NoWorker EXCEPT !.pc = "add", !.fd = main.fd]]
           /\ main' = [pc |-> "accept", fd |-> None]
           /\ UNCHANGED peer
        \/ /\ worker' = [worker EXCEPT ![c].pc = "ended"]
           /\ main' = [pc |-> "returned", fd |-> None]
           /\ peer' = Closed(main.fd)
  /\ UNCHANGED <<running, listening, socket_fd, waiting>>

(* malloc() and pthread_create(), each of which may fail *)
Start ==
  /\ main.pc = "start"
  /\ LET c == peer[main.fd]
     IN \/ /\ worker' = [worker EXCEPT ![c] = [NoWorker EXCEPT !.pc = "add", !.fd = main.fd]]
           /\ UNCHANGED peer
        \/ /\ worker' = [worker EXCEPT ![c].pc = "ended"]
           /\ peer' = Closed(main.fd)
  /\ main' = [pc |-> "accept", fd |-> None]
  /\ UNCHANGED <<running, listening, socket_fd, waiting>>

\* fault: the loop waits for another connection before it looks at running
StopAfterAccept == main.pc = "accept" /\ ~running /\ waiting # {}

LoopEnds == main.pc = "accept" /\ ~running

(* server_start returns, main returns: the process ends with its threads *)
Exit ==
  /\ LoopEnds
  /\ main' = [main EXCEPT !.pc = "returned"]
  /\ peer' = [f \in Fd |-> None]
  /\ socket_fd' = [s \in Slot |-> None]
  /\ worker' = [c \in Conn |-> [NoWorker EXCEPT !.pc = "ended"]]
  /\ UNCHANGED <<running, listening, waiting>>

-----------------------------------------------------------------------------
(* The thread of a connection: client_handler_thread                       *)

(* gm_add_player *)
Add(c) ==
  /\ worker[c].pc = "add"
  /\ \/ FreeSlots = {} /\ Step(c, "refuse") /\ UNCHANGED socket_fd
     \/ \E s \in FreeSlots :
          /\ Lowest(s, FreeSlots)
          /\ socket_fd' = [socket_fd EXCEPT ![s] = worker[c].fd]
          /\ worker' = [worker EXCEPT ![c] = [pc |-> "serve", fd |-> worker[c].fd, slot |-> s]]
  /\ UNCHANGED <<main, running, listening, peer, waiting>>

(* QUIT, end of file or an error of read() ends the loop *)
Serve(c) ==
  /\ worker[c].pc = "serve"
  /\ Step(c, "leave")
  /\ UNCHANGED <<main, running, listening, socket_fd, peer, waiting>>

\* fault: the connection is closed and the slot is not freed
LeaveClosed(c) ==
  /\ worker[c].pc = "leave"
  /\ peer' = Closed(worker[c].fd)
  /\ Step(c, "close")
  /\ UNCHANGED <<main, running, listening, socket_fd, waiting>>

(* handle_disconnect, whose last step is gm_remove_player *)
Leave(c) ==
  /\ worker[c].pc = "leave"
  /\ socket_fd' = [socket_fd EXCEPT ![worker[c].slot] = None]
  /\ worker' = [worker EXCEPT ![c] = [pc |-> "close", fd |-> worker[c].fd, slot |-> None]]
  /\ UNCHANGED <<main, running, listening, peer, waiting>>

(* close() and the end of the thread, also for a client that was refused *)
Close(c) ==
  /\ worker[c].pc \in {"close", "refuse"}
  /\ peer' = Closed(worker[c].fd)
  /\ worker' = [worker EXCEPT ![c] = [NoWorker EXCEPT !.pc = "ended"]]
  /\ UNCHANGED <<main, running, listening, socket_fd, waiting>>

-----------------------------------------------------------------------------
(* Specification                                                           *)

Main    == Accept \/ Start \/ Exit
Work(c) == Add(c) \/ Leave(c) \/ Close(c)

Next == Signal \/ Main \/ \E c \in Conn : Dial(c) \/ Serve(c) \/ Work(c)

Spec == Init /\ [][Next]_vars

(* The main thread and the workers are scheduled.  A client need not dial, *)
(* nor ever leave, and nobody need stop the server.                        *)
FairSpec == Spec /\ WF_vars(Main) /\ \A c \in Conn : WF_vars(Work(c))

-----------------------------------------------------------------------------
(* Properties                                                              *)

(* The descriptor in a player slot is open and leads to the client whose    *)
(* thread owns the slot, so gm_notify_player never reads one that has been  *)
(* closed and given to somebody else (the slot is freed before close()).   *)
SlotsLeadHome ==
  \A s \in Slot : socket_fd[s] # None =>
    \E c \in Conn : worker[c].slot = s /\ worker[c].fd = socket_fd[s] /\ peer[socket_fd[s]] = c

(* Every open descriptor is about to be closed by exactly one thread: none  *)
(* is leaked on an error path and none is closed twice.                    *)
EveryFdOwned ==
  \A f \in Fd : peer[f] # None =>
    \/ main.fd = f /\ \A c \in Conn : worker[c].fd # f
    \/ main.fd # f /\ Cardinality({c \in Conn : worker[c].fd = f}) = 1

(* A stop signal ends the server, wherever it meets the accept loop.       *)
StopsOnSignal == ~running ~> main.pc = "returned"

(* Unless the process stays out of descriptors for ever, a client that      *)
(* connects is given a thread or let go: the accept loop survives errors.  *)
ConnectionTaken ==
  \A c \in Conn : []<>(FreeFds # {}) => (c \in waiting ~> worker[c].pc # "none")

=============================================================================
