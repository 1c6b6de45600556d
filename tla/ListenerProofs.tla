---------------------------- MODULE ListenerProofs ---------------------------
(***************************************************************************)
(* Descriptors and slots of the server, for any number of slots,           *)
(* descriptors and connections.                                            *)
(***************************************************************************)
EXTENDS Listener, FiniteSetTheorems, TLAPS

Holding == {"add", "refuse", "serve", "leave", "close"}

(* the thread of a connection holds the descriptor that leads to it, and a *)
(* slot while it serves                                                    *)
WorkersHold ==
  \A c \in Conn :
    /\ worker[c].pc \in Holding => worker[c].fd \in Fd /\ peer[worker[c].fd] = c
    /\ worker[c].pc \notin Holding => worker[c].fd = None
    /\ worker[c].slot # None <=> worker[c].pc \in {"serve", "leave"}
    /\ worker[c].slot # None => socket_fd[worker[c].slot] = worker[c].fd

SlotsOwned == \A s \in Slot : socket_fd[s] # None => \E c \in Conn : worker[c].slot = s

(* the main thread holds the descriptor it has just been given *)
MainHolds ==
  /\ main.pc = "start" => /\ main.fd \in Fd
                          /\ peer[main.fd] \in Conn
                          /\ worker[peer[main.fd]].pc = "none"
  /\ main.pc # "start" => main.fd = None

PeersHeld ==
  \A f \in Fd : peer[f] # None => main.fd = f \/ worker[peer[f]].fd = f

(* a connection that waits has no descriptor and no thread *)
WaitingFresh ==
  \A c \in waiting : worker[c].pc = "none" /\ \A f \in Fd : peer[f] # c

(* a stopped server takes no connections *)
Stopped == ~running => waiting = {} /\ ~listening

ListenerInv ==
  TypeOK /\ WorkersHold /\ SlotsOwned /\ MainHolds /\ PeersHeld /\ WaitingFresh /\ Stopped

-----------------------------------------------------------------------------

LEMMA NoneIsNoIndex == None \notin Slot /\ None \notin Fd /\ None \notin Conn
  BY DEF None, Slot, Fd, Conn

LEMMA InitHolds == Init => ListenerInv
  BY NoneIsNoIndex
  DEF Init, ListenerInv, TypeOK, WorkersHold, SlotsOwned, MainHolds, PeersHeld,
      WaitingFresh, NoWorker, Holding, Stopped

LEMMA OperatorStep ==
  ASSUME ListenerInv, Signal \/ \E c \in Conn : Dial(c) PROVE ListenerInv'
  <1>1. CASE Signal
    <2>1. TypeOK'
      BY <1>1 DEF ListenerInv, TypeOK, Signal, NoWorker
    <2>2. \A c \in Conn : c \in waiting => worker[c].fd = None /\ worker[c].slot = None
      BY DEF ListenerInv, WaitingFresh, WorkersHold, Holding
    <2>3. \A c \in Conn : /\ worker'[c].fd = worker[c].fd /\ worker'[c].slot = worker[c].slot
                          /\ c \in waiting => worker'[c].pc = "ended"
                          /\ c \notin waiting => worker'[c] = worker[c]
      BY <1>1, <2>2 DEF Signal, NoWorker
    <2>4. /\ UNCHANGED <<main, peer, socket_fd>> /\ waiting' = {}
      BY <1>1 DEF Signal
    <2>5. WorkersHold'
      BY <2>2, <2>3, <2>4 DEF ListenerInv, WorkersHold, WaitingFresh, Holding
    <2>6. SlotsOwned' /\ PeersHeld' /\ WaitingFresh'
      BY <2>3, <2>4, NoneIsNoIndex DEF ListenerInv, TypeOK, SlotsOwned, PeersHeld, WaitingFresh
    <2>7. MainHolds'
      <3>1. main.pc = "start" => peer[main.fd] \notin waiting
        BY DEF ListenerInv, MainHolds, WaitingFresh
      <3> QED BY <2>3, <2>4, <3>1 DEF ListenerInv, MainHolds
    <2>8. Stopped'
      BY <1>1 DEF Signal, Stopped
    <2> QED BY <2>1, <2>5, <2>6, <2>7, <2>8 DEF ListenerInv
  <1>2. ASSUME NEW c \in Conn, Dial(c) PROVE ListenerInv'
    BY <1>2 DEF ListenerInv, TypeOK, WorkersHold, SlotsOwned, MainHolds, PeersHeld,
                WaitingFresh, Dial, Known, Stopped
  <1> QED BY <1>1, <1>2

LEMMA MainStep == ASSUME ListenerInv, Main PROVE ListenerInv'
  <1>1. CASE Accept
    <2>1. PICK c \in Conn, f \in Fd :
            /\ c \in waiting /\ peer[f] = None
            /\ waiting' = waiting \ {c}
            /\ peer' = [peer EXCEPT ![f] = c]
            /\ main' = [pc |-> "start", fd |-> f]
      BY <1>1 DEF Accept, Lowest, FreeFds
    <2>2. UNCHANGED <<running, listening, worker, socket_fd>> /\ main.pc = "accept"
      BY <1>1 DEF Accept
    <2>3. TypeOK'
      BY <2>1, <2>2 DEF ListenerInv, TypeOK
    <2>4. peer'[f] = c /\ \A h \in Fd \ {f} : peer'[h] = peer[h]
      BY <2>1 DEF ListenerInv, TypeOK
    <2>5. \A d \in Conn : worker[d].pc \in Holding => worker[d].fd # f
      BY <2>1, NoneIsNoIndex DEF ListenerInv, WorkersHold
    <2>6. WorkersHold'
      BY <2>2, <2>4, <2>5 DEF ListenerInv, WorkersHold
    <2>7. SlotsOwned' /\ MainHolds' /\ WaitingFresh'
      BY <2>1, <2>2, <2>4 DEF ListenerInv, SlotsOwned, MainHolds, WaitingFresh
    <2>8. PeersHeld'
      BY <2>1, <2>2, <2>4, NoneIsNoIndex DEF ListenerInv, PeersHeld, MainHolds
    <2>9. Stopped'
      BY <2>1, <2>2 DEF ListenerInv, Stopped
    <2> QED BY <2>3, <2>6, <2>7, <2>8, <2>9 DEF ListenerInv
  <1>2. CASE Start
    <2> DEFINE c == peer[main.fd]
    <2>1. /\ main.pc = "start" /\ main.fd \in Fd /\ c \in Conn
          /\ worker[c].pc = "none" /\ worker[c].fd = None /\ worker[c].slot = None
      BY <1>2 DEF Start, ListenerInv, MainHolds, WorkersHold, Holding
    <2>2. c \notin waiting
      BY <2>1 DEF ListenerInv, WaitingFresh
    <2>3. main' = [pc |-> "accept", fd |-> None]
          /\ UNCHANGED <<running, listening, socket_fd, waiting>>
      BY <1>2 DEF Start
    <2>4. Stopped'
      BY <2>3 DEF ListenerInv, Stopped
    <2>5. CASE worker' = [worker EXCEPT ![c] = [NoWorker EXCEPT !.pc = "add", !.fd = main.fd]]
               /\ UNCHANGED peer
      <3>1. worker'[c] = [pc |-> "add", fd |-> main.fd, slot |-> None]
            /\ \A d \in Conn \ {c} : worker'[d] = worker[d]
        BY <2>1, <2>5 DEF ListenerInv, TypeOK, NoWorker
      <3>2. TypeOK'
        BY <2>1, <2>3, <2>5 DEF ListenerInv, TypeOK, NoWorker
      <3> HIDE DEF c
      <3>3. WorkersHold'
        <4>1. peer[main.fd] = c
          BY DEF c
        <4> SUFFICES ASSUME NEW d \in Conn
                     PROVE  /\ worker'[d].pc \in Holding =>
                                worker'[d].fd \in Fd /\ peer[worker'[d].fd] = d
                            /\ worker'[d].pc \notin Holding => worker'[d].fd = None
                            /\ worker'[d].slot # None <=> worker'[d].pc \in {"serve", "leave"}
                            /\ worker'[d].slot # None => socket_fd[worker'[d].slot] = worker'[d].fd
          BY <2>3, <2>5 DEF WorkersHold
        <4>2. CASE d = c
          BY <2>1, <3>1, <4>1, <4>2 DEF Holding
        <4>3. CASE d # c
          BY <3>1, <4>3 DEF ListenerInv, WorkersHold
        <4> QED BY <4>2, <4>3
      <3>4. SlotsOwned' /\ MainHolds' /\ WaitingFresh'
        BY <2>1, <2>2, <2>3, <2>5, <3>1, NoneIsNoIndex
        DEF ListenerInv, TypeOK, SlotsOwned, MainHolds, WaitingFresh
      <3>5. PeersHeld'
        <4> SUFFICES ASSUME NEW f \in Fd, peer[f] # None PROVE worker'[peer[f]].fd = f
          BY <2>5 DEF PeersHeld
        <4>1. CASE main.fd = f
          BY <3>1, <4>1 DEF c
        <4>2. CASE worker[peer[f]].fd = f
          <5>1. peer[f] \in Conn \ {c}
            BY <2>1, <4>2, NoneIsNoIndex DEF ListenerInv, TypeOK
          <5> QED BY <3>1, <4>2, <5>1
        <4> QED BY <4>1, <4>2 DEF ListenerInv, PeersHeld
      <3> QED BY <2>4, <3>2, <3>3, <3>4, <3>5 DEF ListenerInv
    <2>6. CASE worker' = [worker EXCEPT ![c].pc = "ended"] /\ peer' = Closed(main.fd)
      <3>1. worker'[c].pc = "ended" /\ worker'[c].fd = None /\ worker'[c].slot = None
            /\ \A d \in Conn \ {c} : worker'[d] = worker[d]
        BY <2>1, <2>6 DEF ListenerInv, TypeOK
      <3>2. peer'[main.fd] = None /\ \A h \in Fd \ {main.fd} : peer'[h] = peer[h]
        BY <2>1, <2>6 DEF ListenerInv, TypeOK, Closed
      <3>3. TypeOK'
        BY <2>1, <2>3, <2>6 DEF ListenerInv, TypeOK, Closed
      <3> HIDE DEF c
      <3>4. \A d \in Conn \ {c} : worker[d].pc \in Holding => worker[d].fd # main.fd
        BY <2>1 DEF ListenerInv, WorkersHold, c
      <3>5. WorkersHold'
        BY <2>1, <2>3, <3>1, <3>2, <3>4 DEF ListenerInv, WorkersHold, Holding
      <3>6. SlotsOwned' /\ MainHolds' /\ WaitingFresh'
        BY <2>1, <2>2, <2>3, <3>1, <3>2, NoneIsNoIndex
        DEF ListenerInv, TypeOK, SlotsOwned, MainHolds, WaitingFresh
      <3>7. PeersHeld'
        BY <2>1, <2>3, <3>1, <3>2, NoneIsNoIndex DEF ListenerInv, TypeOK, PeersHeld
      <3> QED BY <2>4, <3>3, <3>5, <3>6, <3>7 DEF ListenerInv
    <2> QED BY <1>2, <2>5, <2>6 DEF Start
  <1>3. CASE Exit
    BY <1>3, NoneIsNoIndex
    DEF Exit, LoopEnds, ListenerInv, TypeOK, WorkersHold, SlotsOwned, MainHolds, PeersHeld,
        WaitingFresh, NoWorker, Holding, Stopped
  <1> QED BY <1>1, <1>2, <1>3 DEF Main

LEMMA AddStep == ASSUME ListenerInv, NEW c \in Conn, Add(c) PROVE ListenerInv'
  <1>1. /\ UNCHANGED <<main, running, listening, peer, waiting>>
        /\ worker[c].pc = "add" /\ worker[c].fd \in Fd /\ peer[worker[c].fd] = c
        /\ worker[c].slot = None /\ c \notin waiting
    BY DEF Add, ListenerInv, TypeOK, WorkersHold, WaitingFresh, Holding
  <1>2. main.pc = "start" => peer[main.fd] # c
    BY <1>1 DEF ListenerInv, MainHolds
  <1>3. CASE Step(c, "refuse") /\ UNCHANGED socket_fd
    BY <1>1, <1>2, <1>3 DEF Step, ListenerInv, TypeOK, WorkersHold, SlotsOwned, MainHolds,
       PeersHeld, WaitingFresh, Stopped, Holding
  <1>4. ASSUME NEW s \in Slot, socket_fd[s] = None,
               socket_fd' = [socket_fd EXCEPT ![s] = worker[c].fd],
               worker' = [worker EXCEPT ![c] = [pc |-> "serve", fd |-> worker[c].fd, slot |-> s]]
        PROVE  ListenerInv'
    <2>1. worker'[c] = [pc |-> "serve", fd |-> worker[c].fd, slot |-> s]
          /\ \A d \in Conn \ {c} : worker'[d] = worker[d]
      BY <1>4 DEF ListenerInv, TypeOK
    <2>2. socket_fd'[s] = worker[c].fd /\ \A t \in Slot \ {s} : socket_fd'[t] = socket_fd[t]
      BY <1>4 DEF ListenerInv, TypeOK
    <2>3. \A d \in Conn : worker[d].slot # s
      <3> SUFFICES ASSUME NEW d \in Conn, worker[d].slot = s PROVE FALSE
        OBVIOUS
      <3>1. worker[d].fd = None /\ worker[d].pc \in Holding
        BY <1>4, NoneIsNoIndex DEF ListenerInv, WorkersHold, Holding
      <3> QED BY <3>1, NoneIsNoIndex DEF ListenerInv, WorkersHold
    <2>4. TypeOK'
      BY <1>1, <1>4 DEF ListenerInv, TypeOK
    <2>5. WorkersHold'
      BY <1>1, <2>1, <2>2, <2>3, NoneIsNoIndex DEF ListenerInv, TypeOK, WorkersHold, Holding
    <2>6. SlotsOwned'
      BY <1>1, <2>1, <2>2, NoneIsNoIndex DEF ListenerInv, SlotsOwned
    <2>7. MainHolds' /\ WaitingFresh' /\ Stopped'
      BY <1>1, <1>2, <2>1 DEF ListenerInv, TypeOK, MainHolds, WaitingFresh, Stopped
    <2>8. PeersHeld'
      BY <1>1, <2>1 DEF ListenerInv, TypeOK, PeersHeld
    <2> QED BY <2>4, <2>5, <2>6, <2>7, <2>8 DEF ListenerInv
  <1> QED BY <1>3, <1>4 DEF Add, FreeSlots

LEMMA LeaveStep == ASSUME ListenerInv, NEW c \in Conn, Leave(c) PROVE ListenerInv'
  <1> DEFINE s == worker[c].slot
  <1>1. /\ UNCHANGED <<main, running, listening, peer, waiting>>
        /\ worker[c].pc = "leave" /\ worker[c].fd \in Fd /\ peer[worker[c].fd] = c
        /\ s \in Slot /\ socket_fd[s] = worker[c].fd /\ c \notin waiting
    BY DEF Leave, ListenerInv, TypeOK, WorkersHold, WaitingFresh, Holding
  <1>2. main.pc = "start" => peer[main.fd] # c
    BY <1>1 DEF ListenerInv, MainHolds
  <1>3. worker'[c] = [pc |-> "close", fd |-> worker[c].fd, slot |-> None]
        /\ \A d \in Conn \ {c} : worker'[d] = worker[d]
    BY DEF Leave, ListenerInv, TypeOK
  <1>4. socket_fd'[s] = None /\ \A t \in Slot \ {s} : socket_fd'[t] = socket_fd[t]
    BY <1>1 DEF Leave, ListenerInv, TypeOK
  <1>5. \A d \in Conn \ {c} : worker[d].slot # s
    <2> SUFFICES ASSUME NEW d \in Conn \ {c}, worker[d].slot = s PROVE FALSE
      OBVIOUS
    <2>1. worker[d].fd = worker[c].fd /\ worker[d].pc \in Holding
      BY <1>1, NoneIsNoIndex DEF ListenerInv, WorkersHold, Holding
    <2> QED BY <1>1, <2>1 DEF ListenerInv, WorkersHold
  <1>6. TypeOK'
    BY <1>1 DEF Leave, ListenerInv, TypeOK
  <1> HIDE DEF s
  <1>7. WorkersHold'
    BY <1>1, <1>3, <1>4, <1>5, NoneIsNoIndex DEF ListenerInv, TypeOK, WorkersHold, Holding
  <1>8. SlotsOwned'
    <2> SUFFICES ASSUME NEW t \in Slot, socket_fd'[t] # None
                 PROVE  \E d \in Conn : worker'[d].slot = t
      BY DEF SlotsOwned
    <2>1. t # s /\ socket_fd[t] # None
      BY <1>4
    <2>2. PICK d \in Conn : worker[d].slot = t
      BY <2>1 DEF ListenerInv, SlotsOwned
    <2> QED BY <1>3, <2>1, <2>2 DEF s
  <1>9. MainHolds' /\ WaitingFresh' /\ Stopped' /\ PeersHeld'
    BY <1>1, <1>2, <1>3 DEF ListenerInv, TypeOK, MainHolds, WaitingFresh, Stopped, PeersHeld
  <1> QED BY <1>6, <1>7, <1>8, <1>9 DEF ListenerInv

LEMMA CloseStep == ASSUME ListenerInv, NEW c \in Conn, Close(c) PROVE ListenerInv'
  <1> DEFINE f == worker[c].fd
  <1>1. /\ UNCHANGED <<main, running, listening, socket_fd, waiting>>
        /\ f \in Fd /\ peer[f] = c /\ worker[c].pc # "none"
        /\ worker[c].slot = None /\ c \notin waiting
    BY DEF Close, ListenerInv, TypeOK, WorkersHold, WaitingFresh, Holding
  <1>2. main.pc = "start" => main.fd # f /\ peer[main.fd] # c
    BY <1>1 DEF ListenerInv, MainHolds
  <1>3. worker'[c] = [pc |-> "ended", fd |-> None, slot |-> None]
        /\ \A d \in Conn \ {c} : worker'[d] = worker[d]
    BY DEF Close, ListenerInv, TypeOK, NoWorker
  <1>4. peer'[f] = None /\ \A h \in Fd \ {f} : peer'[h] = peer[h]
    BY <1>1 DEF Close, Closed, ListenerInv, TypeOK
  <1>5. \A d \in Conn \ {c} : worker[d].pc \in Holding => worker[d].fd # f
    BY <1>1 DEF ListenerInv, WorkersHold
  <1>6. TypeOK'
    BY <1>1 DEF Close, Closed, ListenerInv, TypeOK, NoWorker
  <1> HIDE DEF f
  <1>7. WorkersHold'
    BY <1>1, <1>3, <1>4, <1>5, NoneIsNoIndex DEF ListenerInv, TypeOK, WorkersHold, Holding
  <1>8. SlotsOwned'
    BY <1>1, <1>3, NoneIsNoIndex DEF ListenerInv, TypeOK, SlotsOwned
  <1>9. MainHolds' /\ WaitingFresh' /\ Stopped'
    BY <1>1, <1>2, <1>3, <1>4, NoneIsNoIndex
    DEF ListenerInv, TypeOK, MainHolds, WaitingFresh, Stopped
  <1>10. PeersHeld'
    <2> SUFFICES ASSUME NEW h \in Fd, peer'[h] # None
                 PROVE  main'.fd = h \/ worker'[peer'[h]].fd = h
      BY DEF PeersHeld
    <2>1. h # f /\ peer'[h] = peer[h] /\ peer[h] \in Conn
      BY <1>4 DEF ListenerInv, TypeOK
    <2>2. CASE main.fd = h
      BY <1>1, <2>2
    <2>3. CASE worker[peer[h]].fd = h
      BY <1>3, <2>1, <2>3 DEF f
    <2> QED BY <2>1, <2>2, <2>3 DEF ListenerInv, PeersHeld
  <1> QED BY <1>6, <1>7, <1>8, <1>9, <1>10 DEF ListenerInv

LEMMA ListenerStep == ASSUME ListenerInv, [Next]_vars PROVE ListenerInv'
  <1>1. CASE UNCHANGED vars
    BY <1>1 DEF vars, ListenerInv, TypeOK, WorkersHold, SlotsOwned, MainHolds, PeersHeld,
                WaitingFresh, Stopped
  <1>2. ASSUME NEW c \in Conn, Serve(c) PROVE ListenerInv'
    BY <1>2 DEF Serve, Step, ListenerInv, TypeOK, WorkersHold, SlotsOwned, MainHolds,
                PeersHeld, WaitingFresh, Stopped, Holding
  <1> QED BY <1>1, <1>2, OperatorStep, MainStep, AddStep, LeaveStep, CloseStep DEF Next, Work

LEMMA Invariant == Spec => []ListenerInv
  BY InitHolds, ListenerStep, PTL DEF Spec

(* Every variable of the listener keeps its type. *)
THEOREM Typing == Spec => []TypeOK
  BY Invariant, PTL DEF ListenerInv

(* The types of the listener, and: the descriptor in every player slot leads *)
(* to the client whose thread owns the slot, for any number of slots,       *)
(* descriptors and connections (close() comes after gm_remove_player).     *)
THEOREM SlotsLead == Spec => [](TypeOK /\ SlotsLeadHome)
  <1>1. ListenerInv => TypeOK /\ SlotsLeadHome
    <2> SUFFICES ASSUME ListenerInv, NEW s \in Slot, socket_fd[s] # None
                 PROVE  \E c \in Conn : /\ worker[c].slot = s /\ worker[c].fd = socket_fd[s]
                                        /\ peer[socket_fd[s]] = c
      BY DEF SlotsLeadHome, ListenerInv
    <2>1. PICK c \in Conn : worker[c].slot = s
      BY DEF ListenerInv, SlotsOwned
    <2> QED BY <2>1, NoneIsNoIndex DEF ListenerInv, WorkersHold, Holding
  <1> QED BY <1>1, Invariant, PTL

(* Every open descriptor has exactly one thread that will close it, on the  *)
(* error paths of server_start too.                                        *)
THEOREM NoDescriptorLost == Spec => []EveryFdOwned
  <1>1. ListenerInv => EveryFdOwned
    <2> SUFFICES ASSUME ListenerInv, NEW f \in Fd, peer[f] # None
                 PROVE  \/ main.fd = f /\ \A c \in Conn : worker[c].fd # f
                        \/ main.fd # f /\ Cardinality({c \in Conn : worker[c].fd = f}) = 1
      BY DEF EveryFdOwned
    <2>1. \A c \in Conn : worker[c].fd = f => worker[c].pc \in Holding /\ peer[f] = c
      BY NoneIsNoIndex DEF ListenerInv, WorkersHold
    <2>2. CASE main.fd = f
      <3>1. worker[peer[f]].pc = "none"
        BY <2>2, NoneIsNoIndex DEF ListenerInv, MainHolds
      <3> QED BY <2>1, <2>2, <3>1 DEF Holding
    <2>3. CASE main.fd # f
      <3>1. peer[f] \in Conn /\ worker[peer[f]].fd = f
        BY <2>3 DEF ListenerInv, TypeOK, PeersHeld
      <3>2. {c \in Conn : worker[c].fd = f} = {peer[f]}
        BY <2>1, <3>1
      <3> QED BY <2>3, <3>2, FS_Singleton
    <2> QED BY <2>2, <2>3
  <1> QED BY <1>1, Invariant, PTL

=============================================================================
