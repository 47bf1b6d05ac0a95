----------------------- MODULE ServerLifecycle_proofs -----------------------
(***************************************************************************)
(* Theorems about ServerLifecycle, for any number of clients, descriptors  *)
(* and delayed actions, wherever close() runs and whether or not closing a *)
(* socket wakes who waits on it: what stop() leaves behind, which sockets  *)
(* a thread of an open session reaches, and that the threads implement the *)
(* roster of connections.                                                  *)
(***************************************************************************)
EXTENDS ServerLifecycle, TLAPS

\* A session is in the hands of the server's threads from the moment its
\* receive loop may start.
Inserted(c) ==
    \/ loop[c].at # "none"
    \/ acceptor.at = "spawn" /\ acceptor.client = c

Ended(c) == loop[c].at \in {"none", "done"}

\* Whatever a thread has in hand is a session that was inserted: what is to be
\* closed, and what an action sends to.
Known ==
    /\ acceptor.at \in {"insert", "spawn"} =>
           acceptor.client \in Clients /\ loop[acceptor.client].at = "none"
    /\ \A c \in Clients : ~Inserted(c) => ~closed[c]
    /\ \A c \in sessions : Inserted(c) /\ loop[c].at # "done"
    /\ \A c \in todo : Inserted(c)
    /\ \A t \in Threads : ~MayGoOn(t) =>
           closing[t].target \in Clients /\ Inserted(closing[t].target)
    /\ \A i \in Actions : action[i].at # "none" =>
           action[i].client \in Clients /\ Inserted(action[i].client)

LEMMA TypeInit == Init => TypeOK
  BY NamesDiffer DEF Init, TypeOK, Stages, Sockets, Peers, Threads, NotClosing,
       NoLoop, NoAction

\* What a thread's record can be, and that one field of it moves within it.
LoopStates == [at : {"none", "check", "call", "blocked", "close", "erase", "done"},
               fd : Sockets, on : Peers]
CloseStates == [target : Peers, step : {"none", "flag", "free", "reset"}]
ActionStates == [at : {"none", "sleep", "send", "done"}, client : Peers, fd : Sockets]

LEMMA LoopMoves ==
    ASSUME NEW f \in [Clients -> LoopStates], NEW c
    PROVE  [f EXCEPT ![c].at = "check"] \in [Clients -> LoopStates]
  BY DEF LoopStates

LEMMA CloseMoves ==
    ASSUME NEW f \in [Threads -> CloseStates], NEW t
    PROVE  /\ [f EXCEPT ![t].step = "free"] \in [Threads -> CloseStates]
           /\ [f EXCEPT ![t] = NotClosing] \in [Threads -> CloseStates]
  BY DEF CloseStates, NotClosing, Peers

LEMMA ActionEnds ==
    ASSUME NEW f \in [Actions -> ActionStates], NEW i
    PROVE  [f EXCEPT ![i].at = "done", ![i].fd = NoFd] \in [Actions -> ActionStates]
<1> DEFINE g == [f EXCEPT ![i].at = "done"]
<1>1. g \in [Actions -> ActionStates]
  BY DEF ActionStates
<1>2. \A h \in [Actions -> ActionStates] :
          [h EXCEPT ![i].fd = NoFd] \in [Actions -> ActionStates]
  BY DEF ActionStates, Sockets
<1> HIDE DEF g
<1>3. [g EXCEPT ![i].fd = NoFd] \in [Actions -> ActionStates]
  BY <1>1, <1>2
<1> QED
  BY <1>3 DEF g

LEMMA TypeNext == TypeOK /\ Known /\ [Next]_vars => TypeOK'
<1> SUFFICES ASSUME TypeOK, Known, [Next]_vars PROVE TypeOK'
  OBVIOUS
<1> USE DEF TypeOK, Stages, Sockets, Peers, Threads, netVars, sessionVars,
     stopVars, udpVars, NotClosing, NoLoop, NoAction, MayGoOn
<1>1. CASE CheckAccept
  BY <1>1 DEF CheckAccept, Acceptor
<1>2. CASE CallAccept
  BY <1>2 DEF CallAccept, Acceptor
<1>3. CASE AcceptWakes
  BY <1>3 DEF AcceptWakes, Acceptor
<1>4. CASE AcceptFails
  BY <1>4 DEF AcceptFails, Acceptor
<1>5. CASE InsertSession
  <2>1. acceptor.client \in Clients
    BY <1>5 DEF InsertSession, Known
  <2>2. sock' \in [Clients -> Sockets] /\ sessions' \subseteq Clients
    BY <1>5, <2>1 DEF InsertSession
  <2> QED
    BY <1>5, <2>2 DEF InsertSession, Acceptor
<1>6. CASE SpawnLoop
  <2>1. acceptor.client \in Clients
    BY <1>6 DEF SpawnLoop, Known
  <2>2. loop' = [loop EXCEPT ![acceptor.client].at = "check"]
    BY <1>6 DEF SpawnLoop
  <2>3. loop' \in [Clients -> LoopStates]
    <3>1. loop \in [Clients -> LoopStates]
      BY DEF LoopStates
    <3> HIDE DEF TypeOK
    <3> QED
      BY <2>2, <3>1, LoopMoves
  <2> QED
    BY <1>6, <2>3 DEF SpawnLoop, LoopStates
<1>7. ASSUME NEW c \in Clients, NEW f \in Descriptors, Accept(c, f)
      PROVE  TypeOK'
  BY <1>7 DEF Accept
<1>8. ASSUME NEW c \in Clients, CheckLoop(c)
      PROVE  TypeOK'
  BY <1>8 DEF CheckLoop
<1>9. ASSUME NEW c \in Clients, CallRecv(c)
      PROVE  TypeOK'
  BY <1>9 DEF CallRecv, PeerOf
<1>10. ASSUME NEW c \in Clients, RecvWakes(c)
      PROVE  TypeOK'
  BY <1>10 DEF RecvWakes, Loop
<1>11. ASSUME NEW c \in Clients, HangUp(c)
      PROVE  TypeOK'
  BY <1>11 DEF HangUp, Loop
<1>12. ASSUME NEW c \in Clients, Handle(c)
      PROVE  TypeOK'
  <2>1. CASE UNCHANGED <<closing, action>>
    BY <1>12, <2>1 DEF Handle, Loop, Uses
  <2>2. ASSUME NEW i \in Actions, Schedule(i, c), UNCHANGED closing
        PROVE  TypeOK'
    <3>1. action' = [action EXCEPT ![i] =
                        [at |-> "sleep", client |-> c, fd |-> NoFd]]
      BY <2>2 DEF Schedule
    <3>2. action' \in [Actions -> [at : {"none", "sleep", "send", "done"},
                                   client : Peers, fd : Sockets]]
      BY <3>1
    <3> QED
      BY <1>12, <2>2, <3>2 DEF Handle, Loop, Uses
  <2>3. ASSUME NEW d \in sessions \ {c}, StartClosing(c, d), UNCHANGED action
        PROVE  TypeOK'
    BY <1>12, <2>3 DEF Handle, Loop, Uses, StartClosing
  <2> QED
    BY <1>12, <2>1, <2>2, <2>3 DEF Handle
<1>13. ASSUME NEW c \in Clients, EndLoop(c)
      PROVE  TypeOK'
  BY <1>13 DEF EndLoop, Loop, StartClosing
<1>14. ASSUME NEW c \in Clients, EraseSession(c)
      PROVE  TypeOK'
  BY <1>14 DEF EraseSession, Loop
<1>15. ASSUME NEW t \in Threads, Flag(t)
      PROVE  TypeOK'
  <2>1. closing[t].target \in Clients
    BY <1>15 DEF Flag, Known
  <2>2. closed' \in [Clients -> BOOLEAN]
    BY <1>15, <2>1 DEF Flag
  <2>3. closing' \in [Threads -> CloseStates]
    <3>1. closing \in [Threads -> CloseStates]
      BY DEF CloseStates
    <3>2. closing' = [closing EXCEPT ![t] = NotClosing]
            \/ closing' = [closing EXCEPT ![t].step = "free"]
      BY <1>15 DEF Flag, CloseAt
    <3>3. /\ [closing EXCEPT ![t].step = "free"] \in [Threads -> CloseStates]
          /\ [closing EXCEPT ![t] = NotClosing] \in [Threads -> CloseStates]
      BY <3>1, CloseMoves
    <3> HIDE DEF TypeOK, Threads, NotClosing
    <3> QED
      BY <3>2, <3>3
  <2> QED
    BY <1>15, <2>2, <2>3 DEF Flag, CloseStates
<1>16. ASSUME NEW t \in Threads, Free(t)
      PROVE  TypeOK'
  BY <1>16 DEF Free, CloseAt
<1>17. ASSUME NEW t \in Threads, Reset(t)
      PROVE  TypeOK'
  <2>1. closing[t].target \in Clients
    BY <1>17 DEF Reset, Known
  <2>2. sock' \in [Clients -> Sockets]
    BY <1>17, <2>1 DEF Reset
  <2>3. closing' \in [Threads -> [target : Peers,
                                  step : {"none", "flag", "free", "reset"}]]
    BY <1>17 DEF Reset
  <2> QED
    BY <1>17, <2>2, <2>3 DEF Reset
<1>18. ASSUME NEW i \in Actions, Wake(i)
      PROVE  TypeOK'
  <2>1. action[i].client \in Clients
    BY <1>18 DEF Wake, Known
  <2>2. action' \in [Actions -> [at : {"none", "sleep", "send", "done"},
                                 client : Peers, fd : Sockets]]
    BY <1>18, <2>1 DEF Wake
  <2> QED
    BY <1>18, <2>2 DEF Wake
<1>19. ASSUME NEW i \in Actions, SendAll(i)
      PROVE  TypeOK'
  <2>1. action' \in [Actions -> [at : {"none", "sleep", "send", "done"},
                                 client : Peers, fd : Sockets]]
    <3>1. action \in [Actions -> ActionStates]
      BY DEF ActionStates
    <3>2. action' \in [Actions -> ActionStates]
      BY <1>19, <3>1, ActionEnds DEF SendAll
    <3> QED
      BY <3>2 DEF ActionStates
  <2>2. action[i].client \in Clients
    BY <1>19 DEF SendAll, Known
  <2>3. strays' \subseteq Clients
    BY <1>19, <2>2 DEF SendAll, Uses
  <2> QED
    BY <1>19, <2>1, <2>3 DEF SendAll
<1>20. CASE CheckUdp
  BY <1>20 DEF CheckUdp, Udp
<1>21. CASE UdpWakes
  BY <1>21 DEF UdpWakes, Udp
<1>22. CASE Datagram
  <2>1. CASE UNCHANGED action
    BY <1>22, <2>1 DEF Datagram, Udp
  <2>2. ASSUME NEW i \in Actions, NEW c \in sessions, Schedule(i, c)
        PROVE  TypeOK'
    BY <1>22, <2>2 DEF Datagram, Udp, Schedule
  <2> QED
    BY <1>22, <2>1, <2>2 DEF Datagram
<1>23. CASE CloseActive
  BY <1>23 DEF CloseActive, MainGoes, StartClosing
<1>24. CASE Quit
  BY <1>24 DEF Quit, MainGoes
<1>25. CASE CloseListener
  BY <1>25 DEF CloseListener, MainGoes
<1>26. CASE StopUdp
  BY <1>26 DEF StopUdp, MainGoes
<1>27. CASE JoinUdp
  BY <1>27 DEF JoinUdp, MainGoes
<1>28. CASE Snapshot
  BY <1>28 DEF Snapshot, MainGoes
<1>29. CASE CloseNext
  BY <1>29 DEF CloseNext, MainGoes, StartClosing
<1>30. CASE AllClosed
  BY <1>30 DEF AllClosed, MainGoes
<1>31. CASE JoinAcceptor
  BY <1>31 DEF JoinAcceptor, MainGoes
<1>32. CASE JoinLoops
  BY <1>32 DEF JoinLoops, MainGoes
<1>33. CASE JoinActions
  BY <1>33 DEF JoinActions, MainGoes
<1>34. CASE UNCHANGED vars
  BY <1>34 DEF vars, netVars, sessionVars, stopVars, udpVars
<1> QED
  BY <1>1, <1>2, <1>3, <1>4, <1>5, <1>6, <1>7, <1>8, <1>9, <1>10, <1>11, <1>12,
       <1>13, <1>14, <1>15, <1>16, <1>17, <1>18, <1>19, <1>20, <1>21, <1>22,
       <1>23, <1>24, <1>25, <1>26, <1>27, <1>28, <1>29, <1>30, <1>31, <1>32,
       <1>33, <1>34
     DEF Next, Stop, AcceptLoop, ReceiveLoop, DelayedAction, UdpLoop, Close,
          Threads

LEMMA KnownInit == Init => Known
  BY DEF Init, Known, Inserted, Threads, NotClosing, NoLoop, NoAction, MayGoOn

LEMMA KnownNext == TypeOK /\ TypeOK' /\ Known /\ [Next]_vars => Known'
<1> SUFFICES ASSUME TypeOK, TypeOK', Known, [Next]_vars PROVE Known'
  OBVIOUS
<1> USE NamesDiffer DEF TypeOK, Known, Inserted, Sockets, Peers, Threads,
     netVars, sessionVars, stopVars, udpVars, NotClosing, NoLoop, NoAction,
     MayGoOn
<1>1. CASE CheckAccept
  BY <1>1 DEF CheckAccept, Acceptor
<1>2. CASE CallAccept
  BY <1>2 DEF CallAccept, Acceptor
<1>3. CASE AcceptWakes
  BY <1>3 DEF AcceptWakes, Acceptor
<1>4. CASE AcceptFails
  BY <1>4 DEF AcceptFails, Acceptor
<1>5. CASE InsertSession
  BY <1>5 DEF InsertSession, Acceptor
<1>6. CASE SpawnLoop
  BY <1>6 DEF SpawnLoop
<1>7. ASSUME NEW c \in Clients, NEW f \in Descriptors, Accept(c, f)
      PROVE  Known'
  BY <1>7 DEF Accept
<1>8. ASSUME NEW c \in Clients, CheckLoop(c)
      PROVE  Known'
  BY <1>8 DEF CheckLoop
<1>9. ASSUME NEW c \in Clients, CallRecv(c)
      PROVE  Known'
  BY <1>9 DEF CallRecv, PeerOf
<1>10. ASSUME NEW c \in Clients, RecvWakes(c)
      PROVE  Known'
  BY <1>10 DEF RecvWakes, Loop
<1>11. ASSUME NEW c \in Clients, HangUp(c)
      PROVE  Known'
  BY <1>11 DEF HangUp, Loop
<1>12. ASSUME NEW c \in Clients, Handle(c)
      PROVE  Known'
  <2>0. /\ UNCHANGED acceptor
        /\ loop[c].at = "blocked"
        /\ \E at \in {"check", "close"} :
              loop' = [loop EXCEPT ![c] = [NoLoop EXCEPT !.at = at]]
    BY <1>12 DEF Handle, Loop
  <2>1. \A d \in Clients : Inserted(d)' <=> Inserted(d)
    BY <2>0
  <2>2. UNCHANGED <<acceptor, closed, sessions, todo>>
    BY <1>12 DEF Handle, Loop
  <2>3. acceptor.at \in {"insert", "spawn"} => loop'[acceptor.client].at = "none"
    BY <1>12 DEF Handle, Loop
  <2>4. \A d \in sessions : loop'[d].at # "done"
    BY <1>12 DEF Handle, Loop
  <2>5. \A t \in Threads : closing'[t].step # "none" =>
           closing'[t].target \in Clients /\ Inserted(closing'[t].target)
    <3>1. CASE UNCHANGED closing
      BY <3>1
    <3>2. ASSUME NEW d \in sessions \ {c}, StartClosing(c, d)
          PROVE  \A t \in Threads : closing'[t].step # "none" =>
                     closing'[t].target \in Clients /\ Inserted(closing'[t].target)
      <4>1. closing' = [closing EXCEPT ![c] = [target |-> d, step |-> "flag"]]
        BY <3>2 DEF StartClosing
      <4> HIDE DEF Inserted
      <4> QED
        BY <4>1, d \in Clients, Inserted(d)
    <3> QED
      BY <1>12, <3>1, <3>2 DEF Handle
  <2>6. \A j \in Actions : action'[j].at # "none" =>
           action'[j].client \in Clients /\ Inserted(action'[j].client)
    <3>1. CASE UNCHANGED action
      BY <3>1
    <3>2. ASSUME NEW i \in Actions, Schedule(i, c)
          PROVE  \A j \in Actions : action'[j].at # "none" =>
                     action'[j].client \in Clients /\ Inserted(action'[j].client)
      <4>1. action' = [action EXCEPT ![i] =
                          [at |-> "sleep", client |-> c, fd |-> NoFd]]
        BY <3>2 DEF Schedule
      <4>2. Inserted(c)
        BY <1>12 DEF Handle
      <4> HIDE DEF Inserted
      <4> QED
        BY <4>1, <4>2
    <3> QED
      BY <1>12, <3>1, <3>2 DEF Handle
  <2> HIDE DEF Inserted
  <2> QED
    BY <2>1, <2>2, <2>3, <2>4, <2>5, <2>6
<1>13. ASSUME NEW c \in Clients, EndLoop(c)
      PROVE  Known'
  BY <1>13 DEF EndLoop, Loop, StartClosing
<1>14. ASSUME NEW c \in Clients, EraseSession(c)
      PROVE  Known'
  BY <1>14 DEF EraseSession, Loop
<1>15. ASSUME NEW t \in Threads, Flag(t)
      PROVE  Known'
  <2>1. /\ closing[t].target \in Clients /\ Inserted(closing[t].target)
        /\ UNCHANGED <<acceptor, sessions, todo, loop, action>>
        /\ closed' = [closed EXCEPT ![closing[t].target] = TRUE]
    BY <1>15 DEF Flag
  <2>2. closing' = [closing EXCEPT ![t] = NotClosing]
          \/ closing' = [closing EXCEPT ![t].step = "free"]
    BY <1>15 DEF Flag, CloseAt
  <2>3. \A u \in Threads : ~MayGoOn(u)' =>
            ~MayGoOn(u) /\ closing'[u].target = closing[u].target
    BY <1>15, <2>2 DEF Flag
  <2>4. \A d \in Clients : (Inserted(d)' <=> Inserted(d))
    BY <2>1
  <2> HIDE DEF Inserted, MayGoOn
  <2> QED
    BY <2>1, <2>3, <2>4
<1>16. ASSUME NEW t \in Threads, Free(t)
      PROVE  Known'
  BY <1>16 DEF Free, CloseAt
<1>17. ASSUME NEW t \in Threads, Reset(t)
      PROVE  Known'
  BY <1>17 DEF Reset
<1>18. ASSUME NEW i \in Actions, Wake(i)
      PROVE  Known'
  BY <1>18 DEF Wake
<1>19. ASSUME NEW i \in Actions, SendAll(i)
      PROVE  Known'
  BY <1>19 DEF SendAll, Uses, PeerOf
<1>20. CASE CheckUdp
  BY <1>20 DEF CheckUdp, Udp
<1>21. CASE UdpWakes
  BY <1>21 DEF UdpWakes, Udp
<1>22. CASE Datagram
  <2>1. CASE UNCHANGED action
    BY <1>22, <2>1 DEF Datagram, Udp
  <2>2. ASSUME NEW i \in Actions, NEW c \in sessions, Schedule(i, c)
        PROVE  Known'
    <3>1. action' = [action EXCEPT ![i] =
                        [at |-> "sleep", client |-> c, fd |-> NoFd]]
      BY <2>2 DEF Schedule
    <3>2. \A j \in Actions : action'[j].at # "none" =>
             action'[j].client \in Clients /\ Inserted(action'[j].client)
      <4> HIDE DEF Inserted
      <4> QED
        BY <3>1, c \in Clients, Inserted(c)
    <3> QED
      BY <1>22, <2>2, <3>2 DEF Datagram, Udp
  <2> QED
    BY <1>22, <2>1, <2>2 DEF Datagram
<1>23. CASE CloseActive
  BY <1>23 DEF CloseActive, MainGoes, StartClosing
<1>24. CASE Quit
  BY <1>24 DEF Quit, MainGoes
<1>25. CASE CloseListener
  BY <1>25 DEF CloseListener, MainGoes
<1>26. CASE StopUdp
  BY <1>26 DEF StopUdp, MainGoes
<1>27. CASE JoinUdp
  BY <1>27 DEF JoinUdp, MainGoes
<1>28. CASE Snapshot
  BY <1>28 DEF Snapshot, MainGoes
<1>29. CASE CloseNext
  BY <1>29 DEF CloseNext, MainGoes, StartClosing
<1>30. CASE AllClosed
  BY <1>30 DEF AllClosed, MainGoes
<1>31. CASE JoinAcceptor
  BY <1>31 DEF JoinAcceptor, MainGoes
<1>32. CASE JoinLoops
  BY <1>32 DEF JoinLoops, MainGoes
<1>33. CASE JoinActions
  BY <1>33 DEF JoinActions, MainGoes
<1>34. CASE UNCHANGED vars
  BY <1>34 DEF vars, netVars, sessionVars, stopVars, udpVars
<1> QED
  BY <1>1, <1>2, <1>3, <1>4, <1>5, <1>6, <1>7, <1>8, <1>9, <1>10, <1>11, <1>12,
       <1>13, <1>14, <1>15, <1>16, <1>17, <1>18, <1>19, <1>20, <1>21, <1>22,
       <1>23, <1>24, <1>25, <1>26, <1>27, <1>28, <1>29, <1>30, <1>31, <1>32,
       <1>33, <1>34
     DEF Next, Stop, AcceptLoop, ReceiveLoop, DelayedAction, UdpLoop, Close,
          Threads

\* What stop() has joined stays ended, and no thread goes on with anything
\* else while it is in close().
Joined ==
    /\ main \in {"snapshot", "closeAll", "joinAcceptor", "joinLoops", "joinActions",
                 "stopped"} => udp = "done"
    /\ main \in {"joinLoops", "joinActions", "stopped"} => acceptor.at = "done"
    /\ main \in {"joinActions", "stopped"} => \A c \in Clients : Ended(c)
    /\ main = "stopped" => \A i \in Actions : action[i].at \in {"none", "done"}
    /\ main \notin {"serve", "closeAll"} => MayGoOn(Main)
    /\ \A c \in Clients :
           loop[c].at \in {"none", "call", "blocked", "done"} => MayGoOn(c)

LEMMA JoinedInit == Init => Joined
  BY DEF Init, Joined, Ended, NotClosing, NoLoop, NoAction, MayGoOn, Threads

LEMMA JoinedNext == TypeOK /\ TypeOK' /\ Joined /\ [Next]_vars => Joined'
<1> SUFFICES ASSUME TypeOK, TypeOK', Joined, [Next]_vars PROVE Joined'
  OBVIOUS
<1> USE NamesDiffer DEF TypeOK, Joined, Ended, Stages, Sockets, Peers, Threads,
     netVars, sessionVars, stopVars, udpVars, NotClosing, NoLoop, NoAction,
     MayGoOn
<1>1. CASE CheckAccept
  BY <1>1 DEF CheckAccept, Acceptor
<1>2. CASE CallAccept
  BY <1>2 DEF CallAccept, Acceptor
<1>3. CASE AcceptWakes
  BY <1>3 DEF AcceptWakes, Acceptor
<1>4. CASE AcceptFails
  BY <1>4 DEF AcceptFails, Acceptor
<1>5. CASE InsertSession
  BY <1>5 DEF InsertSession, Acceptor
<1>6. CASE SpawnLoop
  BY <1>6 DEF SpawnLoop
<1>7. ASSUME NEW c \in Clients, NEW f \in Descriptors, Accept(c, f)
      PROVE  Joined'
  BY <1>7 DEF Accept
<1>8. ASSUME NEW c \in Clients, CheckLoop(c)
      PROVE  Joined'
  BY <1>8 DEF CheckLoop
<1>9. ASSUME NEW c \in Clients, CallRecv(c)
      PROVE  Joined'
  BY <1>9 DEF CallRecv, PeerOf
<1>10. ASSUME NEW c \in Clients, RecvWakes(c)
      PROVE  Joined'
  BY <1>10 DEF RecvWakes, Loop
<1>11. ASSUME NEW c \in Clients, HangUp(c)
      PROVE  Joined'
  BY <1>11 DEF HangUp, Loop
<1>12. ASSUME NEW c \in Clients, Handle(c)
      PROVE  Joined'
  <2>1. CASE UNCHANGED <<closing, action>>
    BY <1>12, <2>1 DEF Handle, Loop, Uses
  <2>2. ASSUME NEW i \in Actions, Schedule(i, c), UNCHANGED closing
        PROVE  Joined'
    <3>1. action'[i].at = "sleep" /\ \A j \in Actions \ {i} : action'[j] = action[j]
      BY <2>2 DEF Schedule
    <3>2. UNCHANGED <<stopVars, udpVars, acceptor>> /\ main # "stopped"
      BY <1>12 DEF Handle, Loop, Ended
    <3>3. \A d \in Clients : loop'[d].at = loop[d].at \/ d = c
      BY <1>12 DEF Handle, Loop
    <3>4. main \notin {"joinActions", "stopped"} /\ loop'[c].at \in {"check", "close"}
      BY <1>12 DEF Handle, Loop, Ended
    <3> HIDE DEF TypeOK
    <3> QED
      BY <2>2, <3>2, <3>3, <3>4
  <2>3. ASSUME NEW d \in sessions \ {c}, StartClosing(c, d), UNCHANGED action
        PROVE  Joined'
    BY <1>12, <2>3 DEF Handle, Loop, Uses, StartClosing
  <2> QED
    BY <1>12, <2>1, <2>2, <2>3 DEF Handle
<1>13. ASSUME NEW c \in Clients, EndLoop(c)
      PROVE  Joined'
  BY <1>13 DEF EndLoop, Loop, StartClosing
<1>14. ASSUME NEW c \in Clients, EraseSession(c)
      PROVE  Joined'
  BY <1>14 DEF EraseSession, Loop
<1>15. ASSUME NEW t \in Threads, Flag(t)
      PROVE  Joined'
  BY <1>15 DEF Flag, CloseAt
<1>16. ASSUME NEW t \in Threads, Free(t)
      PROVE  Joined'
  BY <1>16 DEF Free, CloseAt
<1>17. ASSUME NEW t \in Threads, Reset(t)
      PROVE  Joined'
  BY <1>17 DEF Reset
<1>18. ASSUME NEW i \in Actions, Wake(i)
      PROVE  Joined'
  BY <1>18 DEF Wake
<1>19. ASSUME NEW i \in Actions, SendAll(i)
      PROVE  Joined'
  BY <1>19 DEF SendAll, Uses, PeerOf
<1>20. CASE CheckUdp
  BY <1>20 DEF CheckUdp, Udp
<1>21. CASE UdpWakes
  BY <1>21 DEF UdpWakes, Udp
<1>22. CASE Datagram
  <2>1. CASE UNCHANGED action
    BY <1>22, <2>1 DEF Datagram, Udp
  <2>2. ASSUME NEW i \in Actions, NEW c \in sessions, Schedule(i, c)
        PROVE  Joined'
    BY <1>22, <2>2 DEF Datagram, Udp, Schedule
  <2> QED
    BY <1>22, <2>1, <2>2 DEF Datagram
<1>23. CASE CloseActive
  BY <1>23 DEF CloseActive, MainGoes, StartClosing
<1>24. CASE Quit
  BY <1>24 DEF Quit, MainGoes
<1>25. CASE CloseListener
  BY <1>25 DEF CloseListener, MainGoes
<1>26. CASE StopUdp
  BY <1>26 DEF StopUdp, MainGoes
<1>27. CASE JoinUdp
  BY <1>27 DEF JoinUdp, MainGoes
<1>28. CASE Snapshot
  BY <1>28 DEF Snapshot, MainGoes
<1>29. CASE CloseNext
  BY <1>29 DEF CloseNext, MainGoes, StartClosing
<1>30. CASE AllClosed
  BY <1>30 DEF AllClosed, MainGoes
<1>31. CASE JoinAcceptor
  BY <1>31 DEF JoinAcceptor, MainGoes
<1>32. CASE JoinLoops
  BY <1>32 DEF JoinLoops, MainGoes
<1>33. CASE JoinActions
  BY <1>33 DEF JoinActions, MainGoes
<1>34. CASE UNCHANGED vars
  BY <1>34 DEF vars, netVars, sessionVars, stopVars, udpVars
<1> QED
  BY <1>1, <1>2, <1>3, <1>4, <1>5, <1>6, <1>7, <1>8, <1>9, <1>10, <1>11, <1>12,
       <1>13, <1>14, <1>15, <1>16, <1>17, <1>18, <1>19, <1>20, <1>21, <1>22,
       <1>23, <1>24, <1>25, <1>26, <1>27, <1>28, <1>29, <1>30, <1>31, <1>32,
       <1>33, <1>34
     DEF Next, Stop, AcceptLoop, ReceiveLoop, DelayedAction, UdpLoop, Close,
          Threads

\* Thread t has won the race to close session c and is not through with it.
Closer(t, c) == closing[t].target = c /\ closing[t].step \in {"free", "reset"}
Freeing(t, c) == closing[t].target = c /\ closing[t].step = "free"

HandedOver ==
    acceptor.at = "insert" =>
        acceptor.fd \in Descriptors /\ conn[acceptor.fd] = acceptor.client

OpenAreOwn ==
    \A c \in Clients : Inserted(c) /\ ~closed[c] =>
        sock[c] \in Descriptors /\ conn[sock[c]] = c

OneCloses ==
    /\ \A t \in Threads, c \in Clients : Closer(t, c) => closed[c]
    /\ \A t, u \in Threads, c \in Clients : Closer(t, c) /\ Closer(u, c) => t = u

ClosersOwn ==
    \A t \in Threads, c \in Clients : Freeing(t, c) =>
        sock[c] \in Descriptors /\ conn[sock[c]] = c

Accounted ==
    \A f \in Descriptors, c \in Clients : conn[f] = c =>
        \/ acceptor.at = "insert" /\ acceptor.client = c /\ acceptor.fd = f
        \/ ~closed[c] /\ Inserted(c) /\ sock[c] = f
        \/ sock[c] = f /\ \E t \in Threads : Freeing(t, c)

EndsClosed ==
    \A c \in Clients :
        /\ loop[c].at = "erase" =>
               closed[c] \/ (closing[c].target = c /\ closing[c].step = "flag")
        /\ loop[c].at = "done" => closed[c]

\* A descriptor is the connection of a session exactly from accept() to the one
\* close() that gives it back, whatever other close() comes, and sock names it.
Owned ==
    HandedOver /\ OpenAreOwn /\ OneCloses /\ ClosersOwn /\ Accounted /\ EndsClosed

LEMMA OwnedInit == Init => Owned
  BY NamesDiffer
     DEF Init, Owned, HandedOver, OpenAreOwn, OneCloses, ClosersOwn, Accounted,
         EndsClosed, Inserted, Closer, Freeing, NotClosing, NoLoop

\* Steps that leave the sockets alone and at most begin a close().
LEMMA OwnedUntouched ==
    ASSUME Owned, UNCHANGED <<conn, closed, sock, acceptor>>,
           \A d \in Clients : Inserted(d)' <=> Inserted(d),
           \A t \in Threads, d \in Clients :
               (Closer(t, d)' <=> Closer(t, d)) /\ (Freeing(t, d)' <=> Freeing(t, d)),
           EndsClosed'
    PROVE  Owned'
<1>1. HandedOver'
  BY DEF Owned, HandedOver
<1>2. OpenAreOwn'
  BY DEF Owned, OpenAreOwn
<1>3. OneCloses'
  BY DEF Owned, OneCloses
<1>4. ClosersOwn'
  BY DEF Owned, ClosersOwn
<1>5. Accounted'
  BY DEF Owned, Accounted
<1> QED
  BY <1>1, <1>2, <1>3, <1>4, <1>5 DEF Owned

\* A receive loop that goes from one place to another before its end.
LEMMA LoopGoesOn ==
    ASSUME TypeOK, Owned, NEW c \in Clients,
           UNCHANGED <<conn, closed, sock, acceptor, closing>>,
           loop[c].at # "none", loop'[c].at \notin {"none", "erase", "done"},
           \A d \in Clients \ {c} : loop'[d] = loop[d]
    PROVE  Owned'
<1>1. \A d \in Clients : Inserted(d)' <=> Inserted(d)
  BY DEF Inserted
<1>2. EndsClosed'
  BY DEF Owned, EndsClosed
<1>3. \A t \in Threads, d \in Clients :
        (Closer(t, d)' <=> Closer(t, d)) /\ (Freeing(t, d)' <=> Freeing(t, d))
  BY DEF Closer, Freeing
<1> QED
  BY <1>1, <1>2, <1>3, OwnedUntouched

LEMMA OwnedNext ==
    TypeOK /\ TypeOK' /\ Known /\ Known' /\ Joined /\ Owned /\ [Next]_vars => Owned'
<1> SUFFICES ASSUME TypeOK, TypeOK', Known, Known', Joined, Owned, [Next]_vars
     PROVE Owned'
  OBVIOUS
<1>1. CASE CheckAccept
  BY <1>1
     DEF CheckAccept, Acceptor, Owned, HandedOver, OpenAreOwn, OneCloses,
         ClosersOwn, Accounted, EndsClosed, Closer, Freeing, Inserted, netVars,
         sessionVars
<1>2. CASE CallAccept
  BY <1>2
     DEF CallAccept, Acceptor, Owned, HandedOver, OpenAreOwn, OneCloses,
         ClosersOwn, Accounted, EndsClosed, Closer, Freeing, Inserted, netVars,
         sessionVars
<1>3. CASE AcceptWakes
  BY <1>3
     DEF AcceptWakes, Acceptor, Owned, HandedOver, OpenAreOwn, OneCloses,
         ClosersOwn, Accounted, EndsClosed, Closer, Freeing, Inserted, netVars,
         sessionVars
<1>4. CASE AcceptFails
  BY <1>4
     DEF AcceptFails, Acceptor, Owned, HandedOver, OpenAreOwn, OneCloses,
         ClosersOwn, Accounted, EndsClosed, Closer, Freeing, Inserted, netVars,
         sessionVars
<1>5. CASE InsertSession
  <2>1. HandedOver'
    BY <1>5 DEF InsertSession, Acceptor, HandedOver
  <2>2. OpenAreOwn'
    BY <1>5
       DEF InsertSession, Known, Owned, HandedOver, OpenAreOwn, Inserted,
           TypeOK, netVars
  <2>3. OneCloses'
    BY <1>5 DEF InsertSession, Acceptor, Owned, OneCloses, Closer
  <2>4. ClosersOwn'
    BY <1>5
       DEF InsertSession, Acceptor, Owned, HandedOver, ClosersOwn, Freeing,
           netVars
  <2>5. Accounted'
    BY <1>5
       DEF InsertSession, Acceptor, Known, Joined, Owned, HandedOver,
           ClosersOwn, Accounted, EndsClosed, Freeing, Inserted, TypeOK, Peers,
           netVars, MayGoOn
  <2>6. EndsClosed'
    BY <1>5 DEF InsertSession, Acceptor, Owned, EndsClosed
  <2> QED
    BY <2>1, <2>2, <2>3, <2>4, <2>5, <2>6 DEF Owned
<1>6. CASE SpawnLoop
  <2>1. UNCHANGED <<conn, closed, sock, closing>>
    BY <1>6 DEF SpawnLoop, netVars, sessionVars
  <2>2. acceptor.at = "spawn" /\ acceptor'.at = "check" /\ acceptor.client \in Clients
    BY <1>6 DEF SpawnLoop, Known
  <2>3. loop' = [loop EXCEPT ![acceptor.client].at = "check"]
    BY <1>6 DEF SpawnLoop
  <2>4. \A c \in Clients :
           /\ loop'[c].at \in {"erase", "done"} => loop'[c] = loop[c]
           /\ Inserted(c)' <=> Inserted(c)
    BY <2>2, <2>3 DEF Inserted, TypeOK
  <2>5. \A t \in Threads, c \in Clients :
           (Closer(t, c)' <=> Closer(t, c)) /\ (Freeing(t, c)' <=> Freeing(t, c))
    BY <2>1 DEF Closer, Freeing
  <2>6. HandedOver'
    BY <2>2 DEF HandedOver
  <2>7. OpenAreOwn' /\ ClosersOwn'
    BY <2>1, <2>4, <2>5 DEF Owned, OpenAreOwn, ClosersOwn
  <2>8. OneCloses'
    BY <2>1, <2>5 DEF Owned, OneCloses
  <2>9. Accounted'
    BY <2>1, <2>2, <2>4, <2>5 DEF Owned, Accounted
  <2>10. EndsClosed'
    BY <2>1, <2>4 DEF Owned, EndsClosed
  <2> QED
    BY <2>6, <2>7, <2>8, <2>9, <2>10 DEF Owned
<1>7. ASSUME NEW c \in Clients, NEW f \in Descriptors, Accept(c, f)
      PROVE  Owned'
  BY <1>7, NamesDiffer
     DEF Accept, Owned, HandedOver, OpenAreOwn, OneCloses, ClosersOwn,
         Accounted, EndsClosed, Closer, Freeing, Inserted, TypeOK, sessionVars
<1>8. ASSUME NEW c \in Clients, CheckLoop(c)
      PROVE  Owned'
  <2>1. /\ UNCHANGED <<conn, closed, sock, acceptor, closing>>
        /\ loop[c].at # "none" /\ loop'[c].at \notin {"none", "erase", "done"}
        /\ \A d \in Clients \ {c} : loop'[d] = loop[d]
    BY <1>8 DEF CheckLoop, netVars, sessionVars
  <2> QED
    BY <2>1, LoopGoesOn
<1>9. ASSUME NEW c \in Clients, CallRecv(c)
      PROVE  Owned'
  <2>1. /\ UNCHANGED <<conn, closed, sock, acceptor, closing>>
        /\ loop[c].at # "none" /\ loop'[c].at \notin {"none", "erase", "done"}
        /\ \A d \in Clients \ {c} : loop'[d] = loop[d]
    BY <1>9 DEF CallRecv, netVars, sessionVars
  <2> QED
    BY <2>1, LoopGoesOn
<1>10. ASSUME NEW c \in Clients, RecvWakes(c)
      PROVE  Owned'
  <2>1. /\ UNCHANGED <<conn, closed, sock, acceptor, closing>>
        /\ loop[c].at # "none" /\ loop'[c].at \notin {"none", "erase", "done"}
        /\ \A d \in Clients \ {c} : loop'[d] = loop[d]
    BY <1>10 DEF RecvWakes, Loop, netVars, sessionVars
  <2> QED
    BY <2>1, LoopGoesOn
<1>11. ASSUME NEW c \in Clients, HangUp(c)
      PROVE  Owned'
  <2>1. /\ UNCHANGED <<conn, closed, sock, acceptor, closing>>
        /\ loop[c].at # "none" /\ loop'[c].at \notin {"none", "erase", "done"}
        /\ \A d \in Clients \ {c} : loop'[d] = loop[d]
    BY <1>11 DEF HangUp, Loop, netVars, sessionVars
  <2> QED
    BY <2>1, LoopGoesOn
<1>12. ASSUME NEW c \in Clients, Handle(c)
      PROVE  Owned'
  <2>1. UNCHANGED <<conn, closed, sock, acceptor>>
    BY <1>12 DEF Handle, Loop, StartClosing, netVars, sessionVars
  <2>2. \A d \in Clients : Inserted(d)' <=> Inserted(d)
    BY <1>12, <2>1 DEF Handle, Loop, StartClosing, Inserted, TypeOK, NoLoop
  <2>3. \A t \in Threads : closing'[t] # closing[t] =>
           closing[t].step = "none" /\ closing'[t].step = "flag"
    BY <1>12 DEF Handle, Loop, StartClosing, MayGoOn, TypeOK, Threads
  <2>4. \A t \in Threads, d \in Clients :
           (Closer(t, d)' <=> Closer(t, d)) /\ (Freeing(t, d)' <=> Freeing(t, d))
    BY <2>3 DEF Closer, Freeing
  <2>5. EndsClosed'
    <3>1. loop'[c].at \in {"check", "close"}
      BY <1>12 DEF Handle, Loop, TypeOK, NoLoop
    <3>2. \A d \in Clients \ {c} : loop'[d] = loop[d]
      BY <1>12 DEF Handle, Loop, TypeOK
    <3>3. \A d \in Clients \ {c} : closing'[d] = closing[d]
      BY <1>12 DEF Handle, StartClosing, TypeOK, Threads
    <3> QED
      BY <2>1, <3>1, <3>2, <3>3 DEF Owned, EndsClosed
  <2> QED
    BY <2>1, <2>2, <2>4, <2>5, OwnedUntouched
<1>13. ASSUME NEW c \in Clients, EndLoop(c)
      PROVE  Owned'
  <2>1. UNCHANGED <<conn, closed, sock, acceptor>>
    BY <1>13 DEF EndLoop, Loop, StartClosing, netVars, sessionVars
  <2>2. \A d \in Clients : Inserted(d)' <=> Inserted(d)
    BY <1>13, <2>1 DEF EndLoop, Loop, StartClosing, Inserted, TypeOK, NoLoop
  <2>3. \A t \in Threads : closing'[t] # closing[t] =>
           closing[t].step = "none" /\ closing'[t].step = "flag"
    BY <1>13 DEF EndLoop, Loop, StartClosing, MayGoOn, TypeOK, Threads
  <2>4. \A t \in Threads, d \in Clients :
           (Closer(t, d)' <=> Closer(t, d)) /\ (Freeing(t, d)' <=> Freeing(t, d))
    BY <2>3 DEF Closer, Freeing
  <2>5. EndsClosed'
    <3>1. loop'[c].at = "erase" /\ closing'[c].target = c /\ closing'[c].step = "flag"
      BY <1>13 DEF EndLoop, Loop, StartClosing, TypeOK, Threads, NoLoop
    <3>2. \A d \in Clients \ {c} : loop'[d] = loop[d] /\ closing'[d] = closing[d]
      BY <1>13 DEF EndLoop, Loop, StartClosing, TypeOK, Threads
    <3> QED
      BY <2>1, <3>1, <3>2 DEF Owned, EndsClosed
  <2> QED
    BY <2>1, <2>2, <2>4, <2>5, OwnedUntouched
<1>14. ASSUME NEW c \in Clients, EraseSession(c)
      PROVE  Owned'
  <2>1. UNCHANGED <<conn, closed, sock, acceptor, closing>> /\ MayGoOn(c)
    BY <1>14 DEF EraseSession, Loop, netVars
  <2>2. loop[c].at = "erase" /\ loop'[c].at = "done"
    BY <1>14 DEF EraseSession, Loop, TypeOK, NoLoop
  <2>3. \A d \in Clients \ {c} : loop'[d] = loop[d]
    BY <1>14 DEF EraseSession, Loop, TypeOK
  <2>4. closed[c]
    <3>1. closing[c].step = "none"
      BY <1>14 DEF EraseSession, Loop, MayGoOn
    <3> QED
      BY <2>2, <3>1 DEF Owned, EndsClosed
  <2>5. EndsClosed'
    BY <2>1, <2>2, <2>3, <2>4 DEF Owned, EndsClosed
  <2>6. \A d \in Clients : Inserted(d)' <=> Inserted(d)
    BY <2>1, <2>2, <2>3 DEF Inserted
  <2>7. \A t \in Threads, d \in Clients :
           (Closer(t, d)' <=> Closer(t, d)) /\ (Freeing(t, d)' <=> Freeing(t, d))
    BY <2>1 DEF Closer, Freeing
  <2> QED
    BY <2>1, <2>5, <2>6, <2>7, OwnedUntouched
<1>15. ASSUME NEW t \in Threads, Flag(t)
      PROVE  Owned'
  <2> DEFINE d == closing[t].target
  <2>1. d \in Clients /\ Inserted(d)
    BY <1>15 DEF Flag, Known, MayGoOn
  <2>2. UNCHANGED <<conn, sock, acceptor, loop>>
    BY <1>15 DEF Flag, netVars
  <2>3. closed' = [closed EXCEPT ![d] = TRUE] /\ closing[t].step = "flag"
    BY <1>15 DEF Flag
  <2>4. \A c \in Clients : Inserted(c)' <=> Inserted(c)
    BY <2>2 DEF Inserted
  <2>5. EndsClosed'
    <3>1. \A c \in Clients : closed[c] => closed'[c]
      BY <2>1, <2>3 DEF TypeOK
    <3>2. closed'[d]
      BY <2>1, <2>3 DEF TypeOK
    <3>3. \A c \in Clients \ {t} : closing'[c] = closing[c]
      BY <1>15 DEF Flag, CloseAt, TypeOK, Threads
    <3>4. \A c \in Clients : loop[c].at = "done" => closed'[c]
      BY <3>1 DEF Owned, EndsClosed
    <3>5. ASSUME NEW c \in Clients, loop[c].at = "erase", ~closed[c], c # d
          PROVE  closing'[c].target = c /\ closing'[c].step = "flag"
      <4>1. closing[c].target = c /\ closing[c].step = "flag"
        BY <3>5 DEF Owned, EndsClosed
      <4> QED
        BY <3>3, <3>5, <4>1
    <3>6. \A c \in Clients : loop[c].at = "erase" =>
             closed'[c] \/ (closing'[c].target = c /\ closing'[c].step = "flag")
      <4> SUFFICES ASSUME NEW c \in Clients, loop[c].at = "erase"
                   PROVE  closed'[c] \/ (closing'[c].target = c /\ closing'[c].step = "flag")
        OBVIOUS
      <4>1. CASE closed[c]
        BY <3>1, <4>1
      <4>2. CASE c = d
        BY <3>2, <4>2
      <4> QED
        BY <3>5, <4>1, <4>2
    <3> QED
      BY <2>2, <3>4, <3>6 DEF EndsClosed
  <2> HIDE DEF d
  <2>6. CASE closed[d]
    <3>1. closed' = closed
      BY <2>1, <2>3, <2>6 DEF TypeOK
    <3>2. closing' = [closing EXCEPT ![t] = NotClosing]
      BY <1>15, <2>6 DEF Flag, d
    <3>3. \A u \in Threads, c \in Clients :
             (Closer(u, c)' <=> Closer(u, c)) /\ (Freeing(u, c)' <=> Freeing(u, c))
      BY <2>3, <3>2 DEF Closer, Freeing, TypeOK, NotClosing
    <3> QED
      BY <2>2, <2>4, <2>5, <3>1, <3>3, OwnedUntouched
  <2>7. CASE ~closed[d]
    <3>1. closing' = [closing EXCEPT ![t].step = "free"]
      BY <1>15, <2>7 DEF Flag, CloseAt, d
    <3>2. \A u \in Threads, c \in Clients :
             /\ Closer(u, c)' <=> Closer(u, c) \/ (u = t /\ c = d)
             /\ Freeing(u, c)' <=> Freeing(u, c) \/ (u = t /\ c = d)
      <4>1. \A u \in Threads \ {t} : closing'[u] = closing[u]
        BY <3>1 DEF TypeOK
      <4>2. closing'[t].target = d /\ closing'[t].step = "free"
        BY <3>1 DEF TypeOK, d
      <4> QED
        BY <2>3, <4>1, <4>2 DEF Closer, Freeing
    <3>3. \A u \in Threads : ~Closer(u, d)
      BY <2>1, <2>7 DEF Owned, OneCloses
    <3>4. sock[d] \in Descriptors /\ conn[sock[d]] = d
      BY <2>1, <2>7 DEF Owned, OpenAreOwn
    <3>5. HandedOver'
      BY <2>2 DEF Owned, HandedOver
    <3>6. OpenAreOwn'
      BY <2>2, <2>3, <2>4 DEF Owned, OpenAreOwn, TypeOK
    <3>7. OneCloses'
      BY <2>1, <2>3, <3>2, <3>3 DEF Owned, OneCloses, TypeOK
    <3>8. ClosersOwn'
      BY <2>2, <3>2, <3>4 DEF Owned, ClosersOwn
    <3>9. Accounted'
      <4> SUFFICES ASSUME NEW f \in Descriptors, NEW c \in Clients, conn[f] = c
                   PROVE  \/ acceptor.at = "insert" /\ acceptor.client = c /\ acceptor.fd = f
                          \/ ~closed'[c] /\ Inserted(c) /\ sock[c] = f
                          \/ sock[c] = f /\ \E u \in Threads : Freeing(u, c)'
        BY <2>2, <2>4 DEF Accounted
      <4>1. CASE c = d
        BY <2>1, <2>7, <3>2, <3>3, <4>1 DEF Owned, Accounted, Freeing, Closer
      <4>2. CASE c # d
        BY <2>3, <3>2, <4>2 DEF Owned, Accounted, TypeOK
      <4> QED
        BY <4>1, <4>2
    <3> QED
      BY <2>5, <3>5, <3>6, <3>7, <3>8, <3>9 DEF Owned
  <2> QED
    BY <2>6, <2>7
<1>16. ASSUME NEW t \in Threads, Free(t)
      PROVE  Owned'
  <2> DEFINE d == closing[t].target
  <2>1. d \in Clients /\ Inserted(d) /\ Freeing(t, d) /\ Closer(t, d)
    BY <1>16, NamesDiffer DEF Free, Known, MayGoOn, Freeing, Closer
  <2>2. closed[d] /\ sock[d] \in Descriptors /\ conn[sock[d]] = d
    BY <2>1 DEF Owned, OneCloses, ClosersOwn
  <2>3. conn' = [f \in Descriptors |-> IF f = sock[d] THEN Nobody ELSE conn[f]]
    BY <1>16, NamesDiffer DEF Free
  <2>4. UNCHANGED <<sock, closed, acceptor, loop>>
    BY <1>16, NamesDiffer DEF Free, sessionVars
  <2>5. closing' = [closing EXCEPT ![t].step = "reset"]
    BY <1>16, NamesDiffer DEF Free, CloseAt
  <2> HIDE DEF d
  <2>6. \A c \in Clients : Inserted(c)' <=> Inserted(c)
    BY <2>4 DEF Inserted
  <2>7. \A u \in Threads, c \in Clients :
           (Closer(u, c)' <=> Closer(u, c)) /\ (Freeing(u, c)' <=> Freeing(u, c) /\ u # t)
    <3>1. \A u \in Threads \ {t} : closing'[u] = closing[u]
      BY <2>5 DEF TypeOK
    <3>2. closing'[t].target = closing[t].target /\ closing'[t].step = "reset"
      BY <2>5 DEF TypeOK
    <3> QED
      BY <2>1, <3>1, <3>2 DEF Closer, Freeing
  <2>8. HandedOver'
    <3>1. acceptor.at = "insert" => acceptor.client # d
      BY <2>1 DEF Known, Inserted
    <3> QED
      BY <2>2, <2>3, <2>4, <3>1 DEF Owned, HandedOver
  <2>9. OpenAreOwn'
    BY <2>2, <2>3, <2>4, <2>6 DEF Owned, OpenAreOwn
  <2>10. OneCloses'
    BY <2>4, <2>7 DEF Owned, OneCloses
  <2>11. ClosersOwn'
    <3>1. \A u \in Threads \ {t} : ~Freeing(u, d)
      BY <2>1 DEF Owned, OneCloses, Freeing, Closer
    <3> QED
      BY <2>2, <2>3, <2>4, <2>7, <3>1 DEF Owned, ClosersOwn
  <2>12. Accounted'
    <3>1. \A f \in Descriptors, c \in Clients : conn'[f] = c =>
             conn[f] = c /\ f # sock[d]
      BY <2>3, NamesDiffer
    <3>2. \A c \in Clients : Freeing(t, c) => c = d
      BY DEF Freeing, d
    <3> QED
      BY <2>2, <2>4, <2>6, <2>7, <3>1, <3>2 DEF Owned, Accounted
  <2>13. EndsClosed'
    <3>1. \A c \in Clients : closing[c].step = "flag" => closing'[c] = closing[c]
      BY <2>1, <2>5 DEF Freeing, TypeOK, Threads
    <3> QED
      BY <2>4, <3>1 DEF Owned, EndsClosed
  <2> QED
    BY <2>8, <2>9, <2>10, <2>11, <2>12, <2>13 DEF Owned
<1>17. ASSUME NEW t \in Threads, Reset(t)
      PROVE  Owned'
  <2> DEFINE d == closing[t].target
  <2>1. /\ UNCHANGED <<conn, closed, acceptor, loop>>
        /\ closing[t].step = "reset" /\ d \in Clients
        /\ sock' = [sock EXCEPT ![d] = NoFd]
        /\ closing' = [closing EXCEPT ![t] = NotClosing]
    BY <1>17 DEF Reset, Known, MayGoOn, netVars
  <2>2. /\ Closer(t, d) /\ closed[d]
        /\ \A u \in Threads : Freeing(u, d) => u = t
    BY <2>1 DEF Owned, OneCloses, Closer, Freeing
  <2>3. closing'[t].step = "none" /\ \A u \in Threads \ {t} : closing'[u] = closing[u]
    BY <2>1 DEF NotClosing, TypeOK
  <2>4. \A c \in Clients : c # d => sock'[c] = sock[c]
    BY <2>1 DEF TypeOK
  <2>5. \A u \in Threads, c \in Clients :
           /\ Closer(u, c)' => u # t /\ Closer(u, c)
           /\ Freeing(u, c)' <=> Freeing(u, c)
    BY <2>1, <2>3 DEF Closer, Freeing
  <2>6. \A u \in Threads : ~Freeing(u, d)
    BY <2>1, <2>2 DEF Freeing
  <2>7. \A c \in Clients : Inserted(c)' <=> Inserted(c)
    BY <2>1 DEF Inserted
  <2> HIDE DEF d
  <2>8. HandedOver'
    BY <2>1 DEF Owned, HandedOver
  <2>9. OpenAreOwn'
    BY <2>1, <2>2, <2>4, <2>7 DEF Owned, OpenAreOwn
  <2>10. OneCloses'
    BY <2>1, <2>5 DEF Owned, OneCloses
  <2>11. ClosersOwn'
    BY <2>1, <2>4, <2>5, <2>6 DEF Owned, ClosersOwn
  <2>12. Accounted'
    BY <2>1, <2>2, <2>4, <2>5, <2>6, <2>7 DEF Owned, Accounted
  <2>13. EndsClosed'
    <3>1. \A c \in Clients : closing[c].step = "flag" => closing'[c] = closing[c]
      BY <2>1, <2>3 DEF Threads
    <3> QED
      BY <2>1, <3>1 DEF Owned, EndsClosed
  <2> QED
    BY <2>8, <2>9, <2>10, <2>11, <2>12, <2>13 DEF Owned
<1>18. ASSUME NEW i \in Actions, Wake(i)
      PROVE  Owned'
  BY <1>18
     DEF Wake, Owned, HandedOver, OpenAreOwn, OneCloses, ClosersOwn, Accounted,
         EndsClosed, Closer, Freeing, Inserted, netVars, sessionVars
<1>19. ASSUME NEW i \in Actions, SendAll(i)
      PROVE  Owned'
  BY <1>19
     DEF SendAll, Owned, HandedOver, OpenAreOwn, OneCloses, ClosersOwn, Accounted,
         EndsClosed, Closer, Freeing, Inserted, sessionVars
<1>20. CASE CheckUdp
  BY <1>20
     DEF CheckUdp, Udp, Owned, HandedOver, OpenAreOwn, OneCloses, ClosersOwn,
         Accounted, EndsClosed, Closer, Freeing, Inserted, netVars, sessionVars
<1>21. CASE UdpWakes
  BY <1>21
     DEF UdpWakes, Udp, Owned, HandedOver, OpenAreOwn, OneCloses, ClosersOwn,
         Accounted, EndsClosed, Closer, Freeing, Inserted, netVars, sessionVars
<1>22. CASE Datagram
  BY <1>22
     DEF Datagram, Udp, Owned, HandedOver, OpenAreOwn, OneCloses, ClosersOwn,
         Accounted, EndsClosed, Closer, Freeing, Inserted, netVars, sessionVars
<1>23. CASE CloseActive
  <2>1. UNCHANGED <<conn, closed, sock, acceptor>>
    BY <1>23 DEF CloseActive, MainGoes, StartClosing, netVars, sessionVars
  <2>2. \A d \in Clients : Inserted(d)' <=> Inserted(d)
    BY <1>23, <2>1
       DEF CloseActive, MainGoes, StartClosing, Inserted, TypeOK, NoLoop
  <2>3. \A t \in Threads : closing'[t] # closing[t] =>
           closing[t].step = "none" /\ closing'[t].step = "flag"
    BY <1>23 DEF CloseActive, MainGoes, StartClosing, MayGoOn, TypeOK, Threads
  <2>4. \A t \in Threads, d \in Clients :
           (Closer(t, d)' <=> Closer(t, d)) /\ (Freeing(t, d)' <=> Freeing(t, d))
    BY <2>3 DEF Closer, Freeing
  <2>5. EndsClosed'
    <3>1. UNCHANGED loop /\ \A d \in Clients : closing'[d] = closing[d]
      BY <1>23, NamesDiffer
         DEF CloseActive, MainGoes, StartClosing, TypeOK, Threads
    <3> QED
      BY <2>1, <3>1 DEF Owned, EndsClosed
  <2> QED
    BY <2>1, <2>2, <2>4, <2>5, OwnedUntouched
<1>24. CASE Quit
  BY <1>24
     DEF Quit, MainGoes, Owned, HandedOver, OpenAreOwn, OneCloses, ClosersOwn,
         Accounted, EndsClosed, Closer, Freeing, Inserted, sessionVars
<1>25. CASE CloseListener
  BY <1>25
     DEF CloseListener, MainGoes, Owned, HandedOver, OpenAreOwn, OneCloses,
         ClosersOwn, Accounted, EndsClosed, Closer, Freeing, Inserted, sessionVars
<1>26. CASE StopUdp
  BY <1>26
     DEF StopUdp, MainGoes, Owned, HandedOver, OpenAreOwn, OneCloses,
         ClosersOwn, Accounted, EndsClosed, Closer, Freeing, Inserted, sessionVars
<1>27. CASE JoinUdp
  BY <1>27
     DEF JoinUdp, MainGoes, Owned, HandedOver, OpenAreOwn, OneCloses,
         ClosersOwn, Accounted, EndsClosed, Closer, Freeing, Inserted, sessionVars
<1>28. CASE Snapshot
  BY <1>28
     DEF Snapshot, MainGoes, Owned, HandedOver, OpenAreOwn, OneCloses,
         ClosersOwn, Accounted, EndsClosed, Closer, Freeing, Inserted, sessionVars
<1>29. CASE CloseNext
  <2>1. UNCHANGED <<conn, closed, sock, acceptor>>
    BY <1>29 DEF CloseNext, MainGoes, StartClosing, netVars, sessionVars
  <2>2. \A d \in Clients : Inserted(d)' <=> Inserted(d)
    BY <1>29, <2>1
       DEF CloseNext, MainGoes, StartClosing, Inserted, TypeOK, NoLoop
  <2>3. \A t \in Threads : closing'[t] # closing[t] =>
           closing[t].step = "none" /\ closing'[t].step = "flag"
    BY <1>29 DEF CloseNext, MainGoes, StartClosing, MayGoOn, TypeOK, Threads
  <2>4. \A t \in Threads, d \in Clients :
           (Closer(t, d)' <=> Closer(t, d)) /\ (Freeing(t, d)' <=> Freeing(t, d))
    BY <2>3 DEF Closer, Freeing
  <2>5. EndsClosed'
    <3>1. UNCHANGED loop /\ \A d \in Clients : closing'[d] = closing[d]
      BY <1>29, NamesDiffer
         DEF CloseNext, MainGoes, StartClosing, TypeOK, Threads
    <3> QED
      BY <2>1, <3>1 DEF Owned, EndsClosed
  <2> QED
    BY <2>1, <2>2, <2>4, <2>5, OwnedUntouched
<1>30. CASE AllClosed
  BY <1>30
     DEF AllClosed, MainGoes, Owned, HandedOver, OpenAreOwn, OneCloses,
         ClosersOwn, Accounted, EndsClosed, Closer, Freeing, Inserted, sessionVars
<1>31. CASE JoinAcceptor
  BY <1>31
     DEF JoinAcceptor, MainGoes, Owned, HandedOver, OpenAreOwn, OneCloses,
         ClosersOwn, Accounted, EndsClosed, Closer, Freeing, Inserted, sessionVars
<1>32. CASE JoinLoops
  BY <1>32
     DEF JoinLoops, MainGoes, Owned, HandedOver, OpenAreOwn, OneCloses,
         ClosersOwn, Accounted, EndsClosed, Closer, Freeing, Inserted, sessionVars
<1>33. CASE JoinActions
  BY <1>33
     DEF JoinActions, MainGoes, Owned, HandedOver, OpenAreOwn, OneCloses,
         ClosersOwn, Accounted, EndsClosed, Closer, Freeing, Inserted, sessionVars
<1>34. CASE UNCHANGED vars
  BY <1>34
     DEF vars, netVars, sessionVars, Owned, HandedOver, OpenAreOwn, OneCloses,
         ClosersOwn, Accounted, EndsClosed, Closer, Freeing, Inserted
<1> QED
  BY <1>1, <1>2, <1>3, <1>4, <1>5, <1>6, <1>7, <1>8, <1>9, <1>10, <1>11, <1>12,
       <1>13, <1>14, <1>15, <1>16, <1>17, <1>18, <1>19, <1>20, <1>21, <1>22,
       <1>23, <1>24, <1>25, <1>26, <1>27, <1>28, <1>29, <1>30, <1>31, <1>32,
       <1>33, <1>34
     DEF Next, Stop, AcceptLoop, ReceiveLoop, DelayedAction, UdpLoop, Close,
          Threads

\* As long as a session is open, its threads have the number of its own
\* connection in hand.  A loop that waits waits for somebody.
Used ==
    /\ \A c \in Clients : loop[c].at = "blocked" => loop[c].on # Nobody
    /\ \A c \in Clients : ~closed[c] =>
           /\ loop[c].at = "call" => loop[c].fd = sock[c]
           /\ loop[c].at = "blocked" => loop[c].on = c
    /\ \A i \in Actions : action[i].at = "send" /\ ~closed[action[i].client] =>
           action[i].fd = sock[action[i].client]
    /\ StraysAreClosed

LEMMA UsedInit == Init => Used
  BY DEF Init, Used, StraysAreClosed, NoLoop, NoAction

LEMMA UsedNext ==
    TypeOK /\ TypeOK' /\ Known /\ Owned /\ Used /\ [Next]_vars => Used'
<1> SUFFICES ASSUME TypeOK, TypeOK', Known, Owned, Used, [Next]_vars PROVE Used'
  OBVIOUS
<1> USE NamesDiffer DEF TypeOK, Known, Owned, Used, StraysAreClosed, OpenAreOwn,
     OneCloses, Closer,
       Inserted, Sockets, Peers, Threads, netVars, sessionVars, stopVars, udpVars, NoLoop, MayGoOn
<1>1. CASE CheckAccept
  BY <1>1 DEF CheckAccept, Acceptor
<1>2. CASE CallAccept
  BY <1>2 DEF CallAccept, Acceptor
<1>3. CASE AcceptWakes
  BY <1>3 DEF AcceptWakes, Acceptor
<1>4. CASE AcceptFails
  BY <1>4 DEF AcceptFails, Acceptor
<1>5. CASE InsertSession
  BY <1>5 DEF InsertSession, Acceptor
<1>6. CASE SpawnLoop
  BY <1>6 DEF SpawnLoop
<1>7. ASSUME NEW c \in Clients, NEW f \in Descriptors, Accept(c, f)
      PROVE  Used'
  BY <1>7 DEF Accept
<1>8. ASSUME NEW c \in Clients, CheckLoop(c)
      PROVE  Used'
  BY <1>8 DEF CheckLoop
<1>9. ASSUME NEW c \in Clients, CallRecv(c)
      PROVE  Used'
  BY <1>9 DEF CallRecv, PeerOf
<1>10. ASSUME NEW c \in Clients, RecvWakes(c)
      PROVE  Used'
  BY <1>10 DEF RecvWakes, Loop
<1>11. ASSUME NEW c \in Clients, HangUp(c)
      PROVE  Used'
  BY <1>11 DEF HangUp, Loop
<1>12. ASSUME NEW c \in Clients, Handle(c)
      PROVE  Used'
  <2>1. UNCHANGED <<closed, sock>> /\ loop'[c].at \in {"check", "close"}
    BY <1>12 DEF Handle, Loop
  <2>2. \A d \in Clients \ {c} : loop'[d] = loop[d]
    BY <1>12 DEF Handle, Loop
  <2>3. \A i \in Actions : action'[i].at = "send" => action'[i] = action[i]
    BY <1>12 DEF Handle, Loop, Schedule
  <2>4. StraysAreClosed'
    BY <1>12, <2>1 DEF Handle, Uses
  <2>5. \A d \in Clients :
           /\ loop'[d].at = "blocked" => loop'[d].on # Nobody
           /\ ~closed'[d] =>
                  /\ loop'[d].at = "call" => loop'[d].fd = sock'[d]
                  /\ loop'[d].at = "blocked" => loop'[d].on = d
    BY <2>1, <2>2
  <2>6. \A i \in Actions : action'[i].at = "send" /\ ~closed'[action'[i].client] =>
           action'[i].fd = sock'[action'[i].client]
    BY <2>1, <2>3
  <2> QED
    BY <2>4, <2>5, <2>6
<1>13. ASSUME NEW c \in Clients, EndLoop(c)
      PROVE  Used'
  BY <1>13 DEF EndLoop, Loop, StartClosing
<1>14. ASSUME NEW c \in Clients, EraseSession(c)
      PROVE  Used'
  BY <1>14 DEF EraseSession, Loop
<1>15. ASSUME NEW t \in Threads, Flag(t)
      PROVE  Used'
  BY <1>15 DEF Flag, CloseAt
<1>16. ASSUME NEW t \in Threads, Free(t)
      PROVE  Used'
  BY <1>16 DEF Free, CloseAt
<1>17. ASSUME NEW t \in Threads, Reset(t)
      PROVE  Used'
  BY <1>17 DEF Reset
<1>18. ASSUME NEW i \in Actions, Wake(i)
      PROVE  Used'
  BY <1>18 DEF Wake
<1>19. ASSUME NEW i \in Actions, SendAll(i)
      PROVE  Used'
  BY <1>19 DEF SendAll, Uses, PeerOf
<1>20. CASE CheckUdp
  BY <1>20 DEF CheckUdp, Udp
<1>21. CASE UdpWakes
  BY <1>21 DEF UdpWakes, Udp
<1>22. CASE Datagram
  BY <1>22 DEF Datagram, Udp, Schedule
<1>23. CASE CloseActive
  BY <1>23 DEF CloseActive, MainGoes, StartClosing
<1>24. CASE Quit
  BY <1>24 DEF Quit, MainGoes
<1>25. CASE CloseListener
  BY <1>25 DEF CloseListener, MainGoes
<1>26. CASE StopUdp
  BY <1>26 DEF StopUdp, MainGoes
<1>27. CASE JoinUdp
  BY <1>27 DEF JoinUdp, MainGoes
<1>28. CASE Snapshot
  BY <1>28 DEF Snapshot, MainGoes
<1>29. CASE CloseNext
  BY <1>29 DEF CloseNext, MainGoes, StartClosing
<1>30. CASE AllClosed
  BY <1>30 DEF AllClosed, MainGoes
<1>31. CASE JoinAcceptor
  BY <1>31 DEF JoinAcceptor, MainGoes
<1>32. CASE JoinLoops
  BY <1>32 DEF JoinLoops, MainGoes
<1>33. CASE JoinActions
  BY <1>33 DEF JoinActions, MainGoes
<1>34. CASE UNCHANGED vars
  BY <1>34 DEF vars, netVars, sessionVars, stopVars, udpVars
<1> QED
  BY <1>1, <1>2, <1>3, <1>4, <1>5, <1>6, <1>7, <1>8, <1>9, <1>10, <1>11, <1>12,
       <1>13, <1>14, <1>15, <1>16, <1>17, <1>18, <1>19, <1>20, <1>21, <1>22,
       <1>23, <1>24, <1>25, <1>26, <1>27, <1>28, <1>29, <1>30, <1>31, <1>32,
       <1>33, <1>34
     DEF Next, Stop, AcceptLoop, ReceiveLoop, DelayedAction, UdpLoop, Close,
          Threads

\* A session's loop waits for its client, or is about to; the main thread is
\* about to close it.
Waits(c) == loop[c].at \in {"call", "blocked"}
Doomed(c) == closing[Main].target = c /\ closing[Main].step = "flag"

\* Every session whose loop runs is listed, so that stop's snapshot has those
\* that wait for their clients; until they are closed they are still to do.
Served ==
    /\ running <=> main = "serve"
    /\ acceptor.at = "spawn" => acceptor.client \in sessions
    /\ \A c \in Clients : ~Ended(c) => c \in sessions
    /\ main \in {"joinAcceptor", "joinLoops", "joinActions", "stopped"} => todo = {}
    /\ main \in {"closeAll", "joinAcceptor", "joinLoops", "joinActions", "stopped"} =>
           \A c \in Clients : Waits(c) => closed[c] \/ c \in todo \/ Doomed(c)

LEMMA ServedInit == Init => Served
  BY DEF Init, Served, Ended, NoLoop

\* Steps that let a session wait, close or end only as before.
LEMMA ServedKept ==
    ASSUME Served, UNCHANGED <<running, main, todo, sessions>>,
           acceptor'.at = "spawn" => acceptor' = acceptor,
           \A c \in Clients : Ended(c) => Ended(c)',
           \A c \in Clients : Waits(c)' => Waits(c) \/ running,
           \A c \in Clients : closed[c] => closed'[c],
           \A c \in Clients : Doomed(c) => Doomed(c)' \/ closed'[c]
    PROVE  Served'
  BY DEF Served

LEMMA ServedNext ==
    TypeOK /\ TypeOK' /\ Known /\ Served /\ [Next]_vars => Served'
<1> SUFFICES ASSUME TypeOK, TypeOK', Known, Served, [Next]_vars PROVE Served'
  OBVIOUS
\* Steps that leave sessions, loops and close() alone.
<1>1. ASSUME UNCHANGED <<running, main, todo, sessions, loop, closed, closing>>,
             acceptor'.at = "spawn" => acceptor' = acceptor
      PROVE  Served'
  BY <1>1, ServedKept DEF Ended, Waits, Doomed
<1>2. CASE CheckAccept \/ CallAccept \/ AcceptWakes \/ AcceptFails
  <2>1. acceptor'.at # "spawn"
    BY <1>2 DEF CheckAccept, CallAccept, AcceptWakes, AcceptFails, Acceptor, TypeOK
  <2> QED
    BY <1>1, <1>2, <2>1
       DEF CheckAccept, CallAccept, AcceptWakes, AcceptFails, Acceptor, sessionVars, stopVars
<1>3. ASSUME NEW c \in Clients, NEW f \in Descriptors, Accept(c, f) PROVE Served'
  BY <1>1, <1>3 DEF Accept, sessionVars, stopVars
<1>4. CASE InsertSession
  <2>1. /\ sessions' = sessions \cup {acceptor.client} /\ acceptor'.client = acceptor.client
        /\ UNCHANGED <<running, main, todo, loop, closed, closing>>
    BY <1>4 DEF InsertSession, Acceptor, stopVars, TypeOK
  <2> QED
    BY <2>1 DEF Served, Ended, Waits, Doomed
<1>5. CASE SpawnLoop
  <2> DEFINE c == acceptor.client
  <2>1. /\ c \in sessions /\ c \in Clients
        /\ loop' = [loop EXCEPT ![c].at = "check"] /\ acceptor'.at = "check"
        /\ UNCHANGED <<running, main, todo, sessions, closed, closing>>
    BY <1>5 DEF SpawnLoop, Known, Served, stopVars, sessionVars
  <2>2. \A d \in Clients : loop'[d].at = IF d = c THEN "check" ELSE loop[d].at
    BY <2>1 DEF TypeOK
  <2>3. \A d \in Clients : (Waits(d)' => Waits(d)) /\ (~Ended(d)' => ~Ended(d) \/ d = c)
    BY <2>2 DEF Waits, Ended
  <2> QED
    BY <2>1, <2>3 DEF Served, Doomed
<1>6. ASSUME NEW c \in Clients, CheckLoop(c) PROVE Served'
  <2>1. /\ loop[c].at = "check"
        /\ \E l \in LoopStates : l.at \in {"call", "close"} /\ (l.at = "call" => running)
                                 /\ loop' = [loop EXCEPT ![c] = l]
    <3>1. [NoLoop EXCEPT !.at = "close"] = [at |-> "close", fd |-> NoFd, on |-> Nobody]
      BY DEF NoLoop
    <3> QED
      BY <1>6, <3>1 DEF CheckLoop, LoopStates, Sockets, Peers, TypeOK
  <2>2. \A d \in Clients : (Waits(d)' => Waits(d) \/ running) /\ (Ended(d) => Ended(d)')
    BY <2>1 DEF Waits, Ended, TypeOK
  <2> QED
    BY <1>6, <2>2, ServedKept DEF CheckLoop, sessionVars, stopVars, Doomed
<1>7. ASSUME NEW c \in Clients, CallRecv(c) PROVE Served'
  <2> DEFINE l == [at |-> IF PeerOf(loop[c].fd) = Nobody THEN "close" ELSE "blocked",
                  fd |-> NoFd, on |-> PeerOf(loop[c].fd)]
  <2>1. loop[c].at = "call" /\ loop' = [loop EXCEPT ![c] = l]
    BY <1>7 DEF CallRecv
  <2>2. \A d \in Clients : (Waits(d)' => Waits(d) \/ running) /\ (Ended(d) => Ended(d)')
    BY <2>1 DEF Waits, Ended, TypeOK
  <2> QED
    BY <1>7, <2>2, ServedKept DEF CallRecv, sessionVars, stopVars, Doomed
\* A loop that goes on; a close() that it enters is not the main thread's.
<1>8. ASSUME NEW c \in Clients, NEW at \in {"check", "close", "erase"}, Loop(c, at),
             loop[c].at \in {"blocked", "close"},
             closing' = closing \/ \E d : StartClosing(c, d),
             UNCHANGED sessionVars
      PROVE  Served'
  <2>1. loop' = [loop EXCEPT ![c] = [at |-> at, fd |-> NoFd, on |-> Nobody]]
    <3>1. [NoLoop EXCEPT !.at = at] = [at |-> at, fd |-> NoFd, on |-> Nobody]
      BY DEF NoLoop
    <3> QED
      BY <1>8, <3>1 DEF Loop
  <2>2. \A d \in Clients : (Waits(d)' => Waits(d)) /\ (Ended(d) => Ended(d)')
    BY <1>8, <2>1 DEF Waits, Ended, TypeOK
  <2>3. closing'[Main] = closing[Main]
    BY <1>8, NamesDiffer DEF StartClosing, TypeOK, Threads
  <2>4. UNCHANGED <<running, main, todo, acceptor>>
    BY <1>8 DEF Loop, stopVars
  <2> QED
    BY <1>8, <2>2, <2>3, <2>4, ServedKept DEF sessionVars, Doomed
<1>9. ASSUME NEW c \in Clients, RecvWakes(c) \/ HangUp(c) \/ Handle(c) \/ EndLoop(c)
      PROVE  Served'
  <2>1. \E at \in {"check", "close", "erase"} : Loop(c, at)
    BY <1>9 DEF RecvWakes, HangUp, Handle, EndLoop
  <2>2. loop[c].at \in {"blocked", "close"} /\ UNCHANGED sessionVars
        /\ (closing' = closing \/ \E d : StartClosing(c, d))
    BY <1>9 DEF RecvWakes, HangUp, Handle, EndLoop
  <2> QED
    BY <1>8, <2>1, <2>2
<1>10. ASSUME NEW c \in Clients, EraseSession(c) PROVE Served'
  <2>1. /\ loop' = [loop EXCEPT ![c] = [NoLoop EXCEPT !.at = "done"]]
        /\ sessions' = sessions \ {c} /\ loop[c].at = "erase"
        /\ UNCHANGED <<running, main, todo, acceptor, closed, closing>>
    BY <1>10 DEF EraseSession, Loop, stopVars
  <2>2. [NoLoop EXCEPT !.at = "done"] = [at |-> "done", fd |-> NoFd, on |-> Nobody]
    BY DEF NoLoop
  <2>3. Ended(c)' /\ \A d \in Clients : d # c => loop'[d] = loop[d]
    BY <2>1, <2>2 DEF Ended, TypeOK
  <2>4. acceptor.at = "spawn" => acceptor.client # c
    BY <2>1 DEF Known
  <2> QED
    BY <2>1, <2>2, <2>3, <2>4 DEF Served, Ended, Waits, Doomed
<1>11. ASSUME NEW t \in Threads, Close(t) PROVE Served'
  <2>1. /\ UNCHANGED <<running, main, todo, sessions, acceptor, loop>>
        /\ \/ /\ closed' = [closed EXCEPT ![closing[t].target] = TRUE]
              /\ closing[t].step = "flag"
           \/ closed' = closed /\ closing[t].step # "flag"
        /\ \E r : closing' = [closing EXCEPT ![t] = r]
    <3>1. \A step : CloseAt(t, step) => \E r : closing' = [closing EXCEPT ![t] = r]
      BY DEF CloseAt
    <3> QED
      BY <1>11, <3>1 DEF Close, Flag, Free, Reset, stopVars, sessionVars
  <2>2. \A c \in Clients : closed[c] => closed'[c]
    BY <2>1 DEF TypeOK
  <2>3. \A c \in Clients : Doomed(c) => Doomed(c)' \/ closed'[c]
    <3>1. CASE t = Main
      BY <2>1, <3>1 DEF Doomed, TypeOK, Threads
    <3>2. CASE t # Main
      BY <2>1, <3>2 DEF Doomed, TypeOK, Threads
    <3> QED
      BY <3>1, <3>2
  <2> QED
    BY <2>1, <2>2, <2>3, ServedKept DEF Ended, Waits
<1>12. ASSUME NEW i \in Actions, Wake(i) \/ SendAll(i) PROVE Served'
  BY <1>1, <1>12 DEF Wake, SendAll, sessionVars, stopVars
<1>13. CASE CheckUdp \/ UdpWakes \/ Datagram \/ UNCHANGED vars
  BY <1>1, <1>13 DEF CheckUdp, UdpWakes, Datagram, Udp, vars, sessionVars, stopVars
\* The main thread.
<1>14. CASE CloseActive
  BY <1>14 DEF CloseActive, MainGoes, Served, sessionVars, Ended
<1>15. CASE Quit
  BY <1>15 DEF Quit, MainGoes, Served, sessionVars, Ended
<1>16. CASE CloseListener \/ StopUdp \/ JoinUdp
  BY <1>16 DEF CloseListener, StopUdp, JoinUdp, MainGoes, Served, sessionVars, Ended
<1>17. CASE Snapshot
  <2>1. \A c \in Clients : Waits(c) => c \in sessions
    BY DEF Served, Waits, Ended
  <2> QED
    BY <1>17, <2>1 DEF Snapshot, MainGoes, Served, sessionVars, Ended, Waits
<1>18. CASE CloseNext
  <2>1. PICK c \in todo : StartClosing(Main, c) /\ todo' = todo \ {c}
    BY <1>18 DEF CloseNext
  <2>2. Doomed(c)'
    BY <2>1 DEF StartClosing, Doomed, TypeOK, Threads
  <2>3. \A d \in Clients : ~Doomed(d)
    BY <1>18 DEF CloseNext, MainGoes, MayGoOn, Doomed
  <2>4. main = "closeAll" /\ UNCHANGED <<running, main, sessions, closed, acceptor, loop>>
    BY <1>18 DEF CloseNext, MainGoes, sessionVars
  <2> QED
    BY <2>1, <2>2, <2>3, <2>4 DEF Served, Ended, Waits
<1>19. CASE AllClosed
  BY <1>19 DEF AllClosed, MainGoes, Served, sessionVars, Ended, Waits, Doomed
<1>20. CASE JoinAcceptor \/ JoinLoops \/ JoinActions
  BY <1>20
     DEF JoinAcceptor, JoinLoops, JoinActions, MainGoes, Served, sessionVars, Ended, Waits, Doomed
<1> QED
  BY <1>2, <1>3, <1>4, <1>5, <1>6, <1>7, <1>9, <1>10, <1>11, <1>12, <1>13, <1>14,
     <1>15, <1>16, <1>17, <1>18, <1>19, <1>20
     DEF Next, Stop, AcceptLoop, ReceiveLoop, DelayedAction, UdpLoop, Threads

ServerInv == TypeOK /\ Known /\ Joined /\ Owned /\ Used /\ Served

LEMMA Inductive == Spec => []ServerInv
<1>1. Init => ServerInv
  BY TypeInit, KnownInit, JoinedInit, OwnedInit, UsedInit, ServedInit DEF ServerInv
<1>2. ServerInv /\ [Next]_vars => ServerInv'
  BY TypeNext, KnownNext, JoinedNext, OwnedNext, UsedNext, ServedNext DEF ServerInv
<1> QED
  BY <1>1, <1>2, PTL DEF Spec

\* The type invariant.
THEOREM ServerIsTyped == Spec => []TypeOK
<1>1. ServerInv => TypeOK
  BY DEF ServerInv
<1> QED
  BY <1>1, Inductive, PTL

\* TcpLzssServer::stop: when it returns, every thread of the server has ended
\* and every connection is closed, that of a client accepted after the
\* snapshot included.
THEOREM NothingRunsOn == Spec => []NothingRunsAfterStop
<1>1. ServerInv => NothingRunsAfterStop
  <2> SUFFICES ASSUME ServerInv, main = "stopped" PROVE NothingRunsAfterStop
    BY DEF NothingRunsAfterStop
  <2>1. udp = "done" /\ acceptor.at = "done" /\ MayGoOn(Main)
    BY DEF ServerInv, Joined
  <2>2. \A i \in Actions : action[i].at \in {"none", "done"}
    BY DEF ServerInv, Joined
  <2>3. \A c \in Clients : loop[c].at \in {"none", "done"} /\ MayGoOn(c)
    BY DEF ServerInv, Joined, Ended
  <2>4. sessions = {}
    BY <2>1, <2>3 DEF ServerInv, TypeOK, Known, Inserted
  <2>5. ASSUME NEW c \in Clients, NEW f \in Descriptors, conn[f] = c
        PROVE  FALSE
    <3>1. ~(\E t \in Threads : Freeing(t, c))
      BY <2>1, <2>3 DEF Freeing, Threads, MayGoOn
    <3>2. ~closed[c] /\ Inserted(c)
      BY <2>1, <2>5, <3>1 DEF ServerInv, Owned, Accounted
    <3>3. loop[c].at = "done"
      BY <2>1, <2>3, <3>2 DEF Inserted
    <3> QED
      BY <3>2, <3>3 DEF ServerInv, Owned, EndsClosed
  <2> QED
    BY <2>1, <2>2, <2>3, <2>4, <2>5 DEF NothingRunsAfterStop, Open
<1> QED
  BY <1>1, Inductive, PTL

\* TcpLzssServer::stop: the receive loops it joins are not blocked on a
\* connection that no thread is about to close.
THEOREM JoinedLoopsEnd == Spec => []JoinedLoopsWake
<1>1. ServerInv => JoinedLoopsWake
  <2> SUFFICES ASSUME ServerInv, main = "joinLoops", NEW c \in Clients, Open(loop[c].on),
                      NEW d, d = loop[c].on, loop[c].at = "blocked"
               PROVE  \/ loop[d].at \in {"check", "close"}
                      \/ \E t \in Threads :
                             closing[t].target = d /\ closing[t].step \in {"flag", "free"}
    BY DEF JoinedLoopsWake
  <2>1. PICK f \in Descriptors : conn[f] = d
    BY DEF Open
  <2>2. acceptor.at = "done" /\ MayGoOn(Main) /\ todo = {}
    BY DEF ServerInv, Joined, Served
  <2>3. d \in Clients
    BY <2>1 DEF ServerInv, TypeOK, Used, Peers
  <2>4. CASE \E t \in Threads : Freeing(t, d)
    BY <2>4 DEF Freeing
  <2>5. CASE ~closed[d] /\ Inserted(d)
    <3>1. ~Waits(d)
      BY <2>2, <2>3, <2>5 DEF ServerInv, Served, Doomed, MayGoOn
    <3>2. loop[d].at \in {"check", "close", "erase"}
      BY <2>2, <2>3, <2>5, <3>1
         DEF ServerInv, TypeOK, Inserted, Owned, EndsClosed, Waits
    <3>3. CASE loop[d].at = "erase"
      BY <2>3, <2>5, <3>3 DEF ServerInv, Owned, EndsClosed, Threads
    <3> QED
      BY <3>2, <3>3
  <2> QED
    BY <2>1, <2>2, <2>3, <2>4, <2>5 DEF ServerInv, Owned, Accounted
<1> QED
  BY <1>1, Inductive, PTL

\* ClientSession::close: of the threads that come to it at the same time one
\* closes the socket, and the number it closes is still that of its own session.
THEOREM SocketsAreTheirOwn == Spec => ClosesOwnSocket
<1> DEFINE A == \A f \in Descriptors :
                   conn[f] # Nobody /\ conn'[f] # conn[f] => closed[conn[f]]
<1>1. ServerInv /\ [Next]_vars => [A]_vars
  <2> SUFFICES ASSUME ServerInv, Next PROVE A
    OBVIOUS
  <2>1. ASSUME NEW t \in Threads, Free(t) PROVE A
    BY <2>1 DEF Free, ServerInv, TypeOK, Known, Owned, OneCloses, ClosersOwn,
         Closer, Freeing, MayGoOn
  <2>2. ASSUME NEW c \in Clients, NEW f \in Descriptors, Accept(c, f) PROVE A
    BY <2>2 DEF Accept, ServerInv, TypeOK
  <2>3. CASE UNCHANGED conn
    BY <2>3
  <2>4. \/ UNCHANGED conn
        \/ \E t \in Threads : Free(t)
        \/ \E c \in Clients, f \in Descriptors : Accept(c, f)
    BY DEF Next, Stop, AcceptLoop, ReceiveLoop, DelayedAction, UdpLoop, Close,
           Threads, netVars, sessionVars, stopVars, udpVars, Acceptor,
           Loop, Udp, MainGoes, CheckAccept, CallAccept, AcceptWakes,
           AcceptFails, InsertSession, SpawnLoop, CheckLoop, CallRecv,
           RecvWakes, HangUp, Handle, EndLoop, EraseSession, Flag,
           Reset, Wake, SendAll, CheckUdp, UdpWakes, Datagram,
           CloseActive, Quit, CloseListener, StopUdp, JoinUdp,
           Snapshot, CloseNext, AllClosed, JoinAcceptor, JoinLoops,
           JoinActions
  <2> QED
    BY <2>1, <2>2, <2>3, <2>4
<1> QED
  BY <1>1, Inductive, PTL DEF Spec, ClosesOwnSocket

\* ClientSession::send_frame and recv: no thread of a session that is open reads
\* from or writes to the connection of another client.
THEOREM OpenSessionsDoNotStray == Spec => []StraysAreClosed
<1>1. ServerInv => StraysAreClosed
  BY DEF ServerInv, Used
<1> QED
  BY <1>1, Inductive, PTL

-----------------------------------------------------------------------------
(* The roster *)

\* UdpGameServer::stop comes after the server's running_ is reset.
UdpOutlives == udpOpen \/ main # "serve"

LEMMA OutlivesAlways == Spec => []UdpOutlives
<1>1. Init => UdpOutlives
  BY DEF Init, UdpOutlives
<1>2. UdpOutlives /\ [Next]_vars => UdpOutlives'
  <2> SUFFICES ASSUME UdpOutlives, [Next]_vars PROVE UdpOutlives'
    OBVIOUS
  <2>1. CASE UNCHANGED <<udpOpen, main>>
    BY <2>1 DEF UdpOutlives
  <2>2. CASE UNCHANGED udpOpen /\ main' # "serve"
    BY <2>2 DEF UdpOutlives
  <2>3. CASE StopUdp
    BY <2>3 DEF StopUdp, MainGoes, UdpOutlives
  <2>4. \/ UNCHANGED <<udpOpen, main>>
        \/ UNCHANGED udpOpen /\ main' # "serve"
        \/ StopUdp
    BY DEF Next, Stop, AcceptLoop, ReceiveLoop, DelayedAction, UdpLoop, Close,
           vars, stopVars, udpVars, Acceptor,
           Loop, Udp, MainGoes, CheckAccept, CallAccept, Accept, AcceptWakes,
           AcceptFails, InsertSession, SpawnLoop, CheckLoop, CallRecv,
           RecvWakes, HangUp, Handle, EndLoop, EraseSession, Flag, Free,
           Reset, Wake, SendAll, CheckUdp, UdpWakes, Datagram,
           CloseActive, Quit, CloseListener, JoinUdp,
           Snapshot, CloseNext, AllClosed, JoinAcceptor, JoinLoops,
           JoinActions
  <2> QED
    BY <2>1, <2>2, <2>3, <2>4
<1> QED
  BY <1>1, <1>2, PTL DEF Spec

\* What the roster does not see: a step that leaves the stage of every client
\* and of every action, the helpers and the phase as they are.
StagesRest == \A c \in Clients : StageOf(c)' = StageOf(c)
TasksRest == \A i \in Actions : TaskOf(i)' = TaskOf(i)

\* Nothing of such a step is seen.
LEMMA RosterRests ==
    ASSUME StagesRest, TasksRest, UNCHANGED <<Phase, Helpers, conn, sessions, closed>>
    PROVE  UNCHANGED Roster!rosterVars
  BY DEF StagesRest, TasksRest, Roster!rosterVars

\* One client goes to another stage, one task to another state.
LEMMA StageMoves ==
    ASSUME NEW c \in Clients, NEW s, StageOf(c)' = s,
           \A d \in Clients \ {c} : StageOf(d)' = StageOf(d)
    PROVE  [d \in Clients |-> StageOf(d)]'
               = [[d \in Clients |-> StageOf(d)] EXCEPT ![c] = s]
  OBVIOUS

LEMMA TaskMoves ==
    ASSUME NEW i \in Actions, NEW s, TaskOf(i)' = s,
           \A j \in Actions \ {i} : TaskOf(j)' = TaskOf(j)
    PROVE  [j \in Actions |-> TaskOf(j)]'
               = [[j \in Actions |-> TaskOf(j)] EXCEPT ![i] = s]
  OBVIOUS

\* A receive loop that goes on is served before and after.
LEMMA ServedRests ==
    ASSUME NEW c \in Clients, UNCHANGED acceptor,
           loop[c].at \notin {"none", "done"}, loop'[c].at \notin {"none", "done"},
           \A d \in Clients \ {c} : loop'[d] = loop[d]
    PROVE  StagesRest
  BY DEF StagesRest, StageOf

\* The accept loop, as the roster sees it.
LEMMA RosterAccepts ==
    ASSUME ServerInv, AcceptLoop \/ AcceptFails
    PROVE  [Roster!RosterNext]_(Roster!rosterVars)
<1> USE DEF ServerInv, TypeOK, Sockets, Peers
<1>1. ASSUME acceptor.at \in {"check", "call", "blocked"},
             \E at \in {"check", "call", "blocked"} : Acceptor(at),
             UNCHANGED <<netVars, sessionVars, loop>>
      PROVE  UNCHANGED Roster!rosterVars
  <2>1. StagesRest
    BY <1>1 DEF Acceptor, StagesRest, StageOf
  <2>2. TasksRest
    BY <1>1 DEF Acceptor, TasksRest, TaskOf
  <2>3. UNCHANGED <<Phase, Helpers, conn, sessions, closed>>
    BY <1>1 DEF Acceptor, Phase, Helpers, netVars, sessionVars, stopVars, udpVars
  <2> QED
    BY <2>1, <2>2, <2>3, RosterRests
<1>2. ASSUME acceptor.at \in {"check", "call", "blocked"}, Acceptor("done"),
             UNCHANGED <<netVars, sessionVars, loop>>
      PROVE  Roster!DismissAcceptor
  <2>1. StagesRest
    BY <1>2 DEF Acceptor, StagesRest, StageOf
  <2>2. TasksRest
    BY <1>2 DEF Acceptor, TasksRest, TaskOf
  <2>3. UNCHANGED <<Phase, conn, sessions, closed>>
    BY <1>2 DEF Acceptor, Phase, netVars, sessionVars, stopVars
  <2>4. "acceptor" \in Helpers /\ Helpers' = Helpers \ {"acceptor"}
    BY <1>2 DEF Acceptor, Helpers, udpVars
  <2>5. \A c \in Clients : StageOf(c) # "admitted"
    BY <1>2 DEF StageOf
  <2> QED
    BY <2>1, <2>2, <2>3, <2>4, <2>5
       DEF Roster!DismissAcceptor, StagesRest, TasksRest
<1>3. CASE CheckAccept \/ CallAccept \/ AcceptWakes \/ AcceptFails
  BY <1>1, <1>2, <1>3
     DEF CheckAccept, CallAccept, AcceptWakes, AcceptFails, Roster!RosterNext
<1>4. CASE InsertSession
  <2>0. PICK c \in Clients : c = acceptor.client
    BY <1>4 DEF InsertSession, Known
  <2>1. StageOf(c) = "admitted"
    BY <1>4, <2>0 DEF InsertSession, Known, StageOf
  <2>2. c \notin sessions
    BY <1>4, <2>0 DEF InsertSession, Known, Inserted
  <2>3. StagesRest
    BY <1>4 DEF InsertSession, Acceptor, StagesRest, StageOf
  <2>4. TasksRest
    BY <1>4 DEF InsertSession, Acceptor, TasksRest, TaskOf
  <2>5. UNCHANGED <<Phase, Helpers, conn, closed>> /\ sessions' = sessions \cup {c}
    BY <1>4, <2>0 DEF InsertSession, Acceptor, Phase, Helpers, netVars, stopVars, udpVars
  <2>6. Roster!List(c)
    BY <2>1, <2>2, <2>3, <2>4, <2>5 DEF Roster!List, StagesRest, TasksRest
  <2> QED
    BY <2>6 DEF Roster!RosterNext
<1>5. CASE SpawnLoop
  <2>0. PICK c \in Clients : c = acceptor.client
    BY <1>5 DEF SpawnLoop, Known
  <2>1. StageOf(c) = "admitted"
    BY <1>5, <2>0 DEF SpawnLoop, Known, StageOf
  <2>2. c \in sessions
    BY <1>5, <2>0 DEF SpawnLoop, Served
  <2>3. loop'[c].at = "check" /\ \A d \in Clients \ {c} : loop'[d] = loop[d]
    BY <1>5, <2>0 DEF SpawnLoop
  <2>4. StageOf(c)' = "served"
    BY <2>3 DEF StageOf
  <2>5. \A d \in Clients \ {c} : StageOf(d)' = StageOf(d)
    BY <1>5, <2>0, <2>3 DEF SpawnLoop, StageOf
  <2>6. TasksRest
    BY <1>5 DEF SpawnLoop, TasksRest, TaskOf
  <2>7. UNCHANGED <<Phase, Helpers, conn, sessions, closed>>
    BY <1>5 DEF SpawnLoop, Phase, Helpers, netVars, sessionVars, stopVars, udpVars
  <2>8. Roster!Serve(c)
    BY <2>1, <2>2, <2>4, <2>5, <2>6, <2>7, StageMoves DEF Roster!Serve, TasksRest
  <2> QED
    BY <2>8 DEF Roster!RosterNext
<1> QED
  BY <1>3, <1>4, <1>5 DEF AcceptLoop

\* accept() gives a client that has not come before a number that is free.
LEMMA RosterAdmits ==
    ASSUME ServerInv, NEW c \in Clients, NEW f \in Descriptors, Accept(c, f)
    PROVE  Roster!Admit(c, f)
<1> USE DEF ServerInv, TypeOK, Sockets, Peers
<1>1. StageOf(c) = "new" /\ \A d \in Clients : StageOf(d) # "admitted"
  BY DEF Accept, StageOf
<1>2. StageOf(c)' = "admitted" /\ \A d \in Clients \ {c} : StageOf(d)' = StageOf(d)
  BY DEF Accept, StageOf
<1>3. TasksRest
  BY DEF Accept, TasksRest, TaskOf
<1>4. UNCHANGED <<Phase, Helpers, sessions, closed>> /\ "acceptor" \in Helpers
  BY DEF Accept, Phase, Helpers, sessionVars, stopVars, udpVars
<1>5. conn[f] = Nobody /\ conn' = [conn EXCEPT ![f] = c]
  BY DEF Accept
<1> QED
  BY <1>1, <1>2, <1>3, <1>4, <1>5, StageMoves DEF Roster!Admit, TasksRest

\* A receive loop ends after the close of its session, and takes it off the
\* list; what it puts off before is a new task.
LEMMA RosterReceives ==
    ASSUME ServerInv, NEW c \in Clients,
           \/ CheckLoop(c) \/ CallRecv(c) \/ RecvWakes(c) \/ EndLoop(c)
           \/ EraseSession(c) \/ Handle(c) \/ HangUp(c)
    PROVE  [Roster!RosterNext]_(Roster!rosterVars)
<1> USE DEF ServerInv, TypeOK, Sockets, Peers
<1>1. ASSUME loop[c].at \notin {"none", "done"}, loop'[c].at \notin {"none", "done"},
             \A d \in Clients \ {c} : loop'[d] = loop[d],
             UNCHANGED <<conn, sessions, closed, stopVars, udpVars, acceptor, action>>
      PROVE  UNCHANGED Roster!rosterVars
  <2>1. StagesRest
    BY <1>1, ServedRests
  <2>2. TasksRest
    BY <1>1 DEF TasksRest, TaskOf
  <2>3. UNCHANGED <<Phase, Helpers, conn, sessions, closed>>
    BY <1>1 DEF Phase, Helpers, stopVars, udpVars
  <2> QED
    BY <2>1, <2>2, <2>3, RosterRests
<1>2. CASE CheckLoop(c) \/ CallRecv(c) \/ RecvWakes(c) \/ EndLoop(c) \/ HangUp(c)
  <2>0. loop[c].at \in {"check", "call", "blocked", "close"}
    BY <1>2 DEF CheckLoop, CallRecv, RecvWakes, EndLoop, HangUp
  <2>1. /\ loop[c].at \notin {"none", "done"} /\ loop'[c].at \notin {"none", "done"}
        /\ \A d \in Clients \ {c} : loop'[d] = loop[d]
    <3>1. CASE CheckLoop(c)
      BY <2>0, <3>1 DEF CheckLoop
    <3>2. CASE CallRecv(c)
      BY <2>0, <3>2 DEF CallRecv
    <3>3. CASE RecvWakes(c) \/ EndLoop(c) \/ HangUp(c)
      <4>1. PICK at \in {"close", "erase"} :
                loop' = [loop EXCEPT ![c] = [NoLoop EXCEPT !.at = at]]
        BY <3>3 DEF RecvWakes, EndLoop, HangUp, Loop
      <4> QED
        BY <2>0, <4>1 DEF NoLoop
    <3> QED
      BY <1>2, <3>1, <3>2, <3>3
  <2>2. UNCHANGED <<conn, sessions, closed, stopVars, udpVars, acceptor, action>>
    BY <1>2 DEF CheckLoop, CallRecv, RecvWakes, EndLoop, HangUp, Loop, netVars, sessionVars
  <2> QED
    BY <1>1, <2>1, <2>2
<1>3. CASE Handle(c)
  <2>1. /\ loop[c].at \notin {"none", "done"} /\ loop'[c].at \notin {"none", "done"}
        /\ \A d \in Clients \ {c} : loop'[d] = loop[d]
    <3>1. loop[c].at = "blocked"
      BY <1>3 DEF Handle
    <3>2. PICK at \in {"check", "close"} :
              loop' = [loop EXCEPT ![c] = [NoLoop EXCEPT !.at = at]]
      BY <1>3 DEF Handle, Loop
    <3> QED
      BY <3>1, <3>2 DEF NoLoop
  <2>2. UNCHANGED <<conn, sessions, closed, stopVars, udpVars, acceptor>>
    BY <1>3 DEF Handle, Loop, sessionVars
  <2>3. CASE UNCHANGED action
    BY <1>1, <2>1, <2>2, <2>3
  <2>4. ASSUME NEW i \in Actions, Schedule(i, c)
        PROVE  Roster!PutOff(i)
    <3>1. StagesRest
      BY <2>1, <2>2, ServedRests
    <3>2. UNCHANGED <<Phase, Helpers, conn, sessions, closed>>
      BY <2>2 DEF Phase, Helpers, stopVars, udpVars
    <3>3. TaskOf(i) = "new" /\ TaskOf(i)' = "due"
      BY <2>4 DEF Schedule, TaskOf
    <3>4. \A j \in Actions \ {i} : TaskOf(j)' = TaskOf(j)
      BY <2>4 DEF Schedule, TaskOf
    <3>5. c \in sessions /\ StageOf(c) = "served"
      BY <2>1 DEF Served, Ended, StageOf
    <3> QED
      BY <3>1, <3>2, <3>3, <3>4, <3>5, TaskMoves DEF Roster!PutOff, StagesRest
  <2>5. UNCHANGED action \/ \E i \in Actions : Schedule(i, c)
    BY <1>3 DEF Handle
  <2> QED
    BY <2>3, <2>4, <2>5 DEF Roster!RosterNext
<1>4. CASE EraseSession(c)
  <2>1. StageOf(c) = "served" /\ StageOf(c)' = "gone"
    BY <1>4 DEF EraseSession, Loop, StageOf
  <2>2. \A d \in Clients \ {c} : StageOf(d)' = StageOf(d)
    BY <1>4 DEF EraseSession, Loop, StageOf
  <2>3. TasksRest
    BY <1>4 DEF EraseSession, Loop, TasksRest, TaskOf
  <2>4. UNCHANGED <<Phase, Helpers, conn, closed>> /\ sessions' = sessions \ {c}
    BY <1>4 DEF EraseSession, Loop, Phase, Helpers, netVars, stopVars, udpVars
  <2>5. closed[c]
    BY <1>4 DEF EraseSession, Loop, Owned, EndsClosed, MayGoOn
  <2> QED
    BY <2>1, <2>2, <2>3, <2>4, <2>5, StageMoves
       DEF Roster!Leave, Roster!RosterNext, TasksRest
<1> QED
  BY <1>2, <1>3, <1>4

\* Who sets the flag of close() dooms a session that is listed, and frees its
\* number afterwards; for everybody else nothing happens.
LEMMA RosterCloses ==
    ASSUME ServerInv, NEW t \in Threads, Close(t)
    PROVE  [Roster!RosterNext]_(Roster!rosterVars)
<1> USE DEF ServerInv, TypeOK, Sockets, Peers
<1>1. UNCHANGED <<sessions, stopVars, udpVars, acceptor, loop, action>>
  BY DEF Close, Flag, Free, Reset, sessionVars
<1>2. StagesRest /\ TasksRest /\ UNCHANGED <<Phase, Helpers>>
  BY <1>1 DEF StagesRest, StageOf, TasksRest, TaskOf, Phase, Helpers, stopVars, udpVars
<1>3. PICK c \in Clients : c = closing[t].target
  BY DEF Close, Flag, Free, Reset, Known, MayGoOn
<1>4. CASE Flag(t)
  <2>1. conn' = conn /\ closed' = [closed EXCEPT ![c] = TRUE]
    BY <1>3, <1>4 DEF Flag, netVars
  <2>2. CASE closed[c]
    <3>1. closed' = closed
      BY <2>1, <2>2
    <3> QED
      BY <1>1, <1>2, <2>1, <3>1, RosterRests
  <2>3. CASE ~closed[c]
    <3>1. Inserted(c) /\ loop[c].at # "done"
      BY <1>3, <1>4, <2>3 DEF Flag, Known, MayGoOn, Owned, EndsClosed
    <3>2. c \in sessions
      BY <3>1 DEF Inserted, Served, Ended
    <3>3. {d \in Clients : closed'[d]} = {d \in Clients : closed[d]} \cup {c}
      BY <2>1
    <3> QED
      BY <1>1, <1>2, <2>1, <2>3, <3>2, <3>3
         DEF Roster!Doom, Roster!RosterNext, StagesRest, TasksRest
  <2> QED
    BY <2>2, <2>3
<1>5. CASE Free(t)
  <2>1. PICK f \in Descriptors : f = sock[c] /\ conn[f] = c
    BY <1>3, <1>5 DEF Free, Owned, ClosersOwn, Freeing
  <2>2. closed[c]
    BY <1>3, <1>5 DEF Free, Owned, OneCloses, Closer
  <2>3. conn' = [conn EXCEPT ![f] = Nobody] /\ closed' = closed
    BY <1>3, <1>5, <2>1 DEF Free, sessionVars
  <2>4. Roster!Release(f)
    BY <1>1, <1>2, <2>1, <2>2, <2>3 DEF Roster!Release, StagesRest, TasksRest
  <2> QED
    BY <2>4 DEF Roster!RosterNext
<1>6. CASE Reset(t)
  <2>1. UNCHANGED <<conn, closed>>
    BY <1>6 DEF Reset, netVars
  <2> QED
    BY <1>1, <1>2, <2>1, RosterRests
<1> QED
  BY <1>4, <1>5, <1>6 DEF Close

\* Delayed actions and the UDP thread.
LEMMA RosterDelays ==
    ASSUME ServerInv, UdpOutlives,
           (\E i \in Actions : DelayedAction(i)) \/ UdpLoop \/ Datagram
    PROVE  [Roster!RosterNext]_(Roster!rosterVars)
<1> USE DEF ServerInv, TypeOK, Sockets, Peers
<1>1. UNCHANGED <<conn, sessions, closed, stopVars, udpOpen, acceptor, loop>>
  BY DEF DelayedAction, Wake, SendAll, UdpLoop, CheckUdp, UdpWakes, Datagram, Udp,
         netVars, sessionVars, udpVars
<1>2. StagesRest /\ UNCHANGED Phase
  BY <1>1 DEF StagesRest, StageOf, Phase, stopVars
<1>3. ASSUME NEW i \in Actions, DelayedAction(i)
      PROVE  Roster!Finish(i) \/ UNCHANGED Roster!rosterVars
  <2>1. Helpers' = Helpers
    BY <1>1, <1>3 DEF DelayedAction, Wake, SendAll, Helpers, udpVars
  <2>2. TaskOf(i) = "due" /\ TaskOf(i)' \in {"due", "done"}
    BY <1>3 DEF DelayedAction, Wake, SendAll, TaskOf
  <2>3. \A j \in Actions \ {i} : TaskOf(j)' = TaskOf(j)
    BY <1>3 DEF DelayedAction, Wake, SendAll, TaskOf
  <2>4. CASE TaskOf(i)' = "due"
    BY <1>1, <1>2, <2>1, <2>2, <2>3, <2>4, RosterRests DEF TasksRest
  <2>5. CASE TaskOf(i)' = "done"
    BY <1>1, <1>2, <2>1, <2>2, <2>3, <2>5, TaskMoves DEF Roster!Finish, StagesRest
  <2> QED
    BY <2>2, <2>4, <2>5
<1>4. CASE UdpLoop
  <2>1. TasksRest
    BY <1>4 DEF UdpLoop, CheckUdp, UdpWakes, TasksRest, TaskOf
  <2>2. CASE udp # "done" /\ udp' # "done"
    <3>1. Helpers' = Helpers
      BY <1>1, <2>2 DEF Helpers
    <3> QED
      BY <1>1, <1>2, <2>1, <3>1, RosterRests
  <2>3. CASE udp # "done" /\ udp' = "done"
    <3>1. ~udpOpen
      BY <1>4, <2>3 DEF UdpLoop, CheckUdp, UdpWakes, Udp
    <3>2. Phase = "closing"
      BY <2>3, <3>1 DEF UdpOutlives, Served, Joined, Phase
    <3>3. "udp" \in Helpers /\ Helpers' = Helpers \ {"udp"}
      BY <1>1, <2>3 DEF Helpers
    <3> QED
      BY <1>1, <1>2, <2>1, <3>2, <3>3
         DEF Roster!DismissUdp, Roster!RosterNext, StagesRest, TasksRest
  <2> QED
    BY <1>4, <2>2, <2>3 DEF UdpLoop, CheckUdp, UdpWakes
<1>5. CASE Datagram
  <2>1. Helpers' = Helpers /\ "udp" \in Helpers
    BY <1>1, <1>5 DEF Datagram, Udp, Helpers
  <2>2. CASE UNCHANGED action
    BY <1>1, <1>2, <2>1, <2>2, RosterRests DEF TasksRest, TaskOf
  <2>3. ASSUME NEW i \in Actions, NEW c \in sessions, Schedule(i, c)
        PROVE  Roster!PutOff(i)
    <3>1. TaskOf(i) = "new" /\ TaskOf(i)' = "due"
      BY <2>3 DEF Schedule, TaskOf
    <3>2. \A j \in Actions \ {i} : TaskOf(j)' = TaskOf(j)
      BY <2>3 DEF Schedule, TaskOf
    <3> QED
      BY <1>1, <1>2, <2>1, <3>1, <3>2, TaskMoves DEF Roster!PutOff, StagesRest
  <2> QED
    BY <1>5, <2>2, <2>3 DEF Datagram, Roster!RosterNext
<1> QED
  BY <1>3, <1>4, <1>5 DEF Roster!RosterNext

\* The main thread is seen when the server is shut and when stop() returns:
\* NothingRunsAfterStop says that everybody has gone by then.
LEMMA RosterStops ==
    ASSUME ServerInv, NothingRunsAfterStop',
           \/ CloseActive \/ Quit \/ CloseListener \/ StopUdp \/ JoinUdp \/ Snapshot
           \/ CloseNext \/ AllClosed \/ JoinAcceptor \/ JoinLoops \/ JoinActions
    PROVE  [Roster!RosterNext]_(Roster!rosterVars)
<1> USE DEF ServerInv, TypeOK, Sockets, Peers
<1>1. UNCHANGED <<conn, sessions, closed, udp, acceptor, loop, action>>
  BY DEF MainGoes, CloseActive, Quit, CloseListener, StopUdp, JoinUdp, Snapshot,
         CloseNext, AllClosed, JoinAcceptor, JoinLoops, JoinActions, sessionVars
<1>2. StagesRest /\ TasksRest /\ UNCHANGED Helpers
  BY <1>1 DEF StagesRest, StageOf, TasksRest, TaskOf, Helpers
<1>3. CASE Quit
  <2>1. Phase = "open" /\ Phase' = "closing"
    BY <1>3 DEF Quit, MainGoes, Phase, Served
  <2> QED
    BY <1>1, <1>2, <2>1 DEF Roster!Shut, Roster!RosterNext, StagesRest, TasksRest
<1>4. CASE JoinActions
  <2>1. Phase = "closing" /\ Phase' = "over"
    BY <1>4 DEF JoinActions, MainGoes, Phase, Served
  <2>2. main' = "stopped"
    BY <1>4 DEF JoinActions, MainGoes
  <2>3. Helpers = {} /\ sessions = {}
    BY <1>1, <2>2 DEF NothingRunsAfterStop, Helpers
  <2>4. \A c \in Clients : StageOf(c) \in {"new", "gone"}
    BY <1>1, <2>2 DEF NothingRunsAfterStop, StageOf
  <2>5. \A f \in Descriptors : conn[f] = Nobody
    BY <1>1, <2>2 DEF NothingRunsAfterStop, Open
  <2>6. \A i \in Actions : TaskOf(i) # "due"
    BY <1>1, <2>2 DEF NothingRunsAfterStop, TaskOf
  <2> QED
    BY <1>1, <1>2, <2>1, <2>3, <2>4, <2>5, <2>6
       DEF Roster!End, Roster!RosterNext, StagesRest, TasksRest
<1>5. CASE ~Quit /\ ~JoinActions
  <2>1. UNCHANGED running /\ main # "stopped" /\ main' # "stopped"
    BY <1>5
       DEF MainGoes, CloseActive, CloseListener, StopUdp, JoinUdp, Snapshot,
           CloseNext, AllClosed, JoinAcceptor, JoinLoops
  <2>2. UNCHANGED Phase
    BY <2>1 DEF Phase
  <2> QED
    BY <1>1, <1>2, <2>2, RosterRests
<1> QED
  BY <1>3, <1>4, <1>5

\* Every step of every thread is one of the roster's, or none.
LEMMA RosterStep ==
    ASSUME ServerInv, UdpOutlives, NothingRunsAfterStop', [Next]_vars
    PROVE  [Roster!RosterNext]_(Roster!rosterVars)
<1>1. ASSUME NEW c \in Clients, NEW f \in Descriptors, Accept(c, f)
      PROVE  Roster!RosterNext
  BY <1>1, RosterAdmits DEF Roster!RosterNext
<1>2. CASE UNCHANGED vars
  <2>1. StagesRest /\ TasksRest
    BY <1>2 DEF vars, StagesRest, TasksRest, StageOf, TaskOf
  <2>2. UNCHANGED <<Phase, Helpers, conn, sessions, closed>>
    BY <1>2 DEF vars, netVars, sessionVars, stopVars, udpVars, Phase, Helpers
  <2> QED
    BY <2>1, <2>2, RosterRests
<1> QED
  BY <1>1, <1>2, RosterAccepts, RosterReceives, RosterCloses, RosterDelays, RosterStops
     DEF Next, Stop, ReceiveLoop, Threads

\* The threads of the server, with their sockets closed from anywhere and the
\* order in which stop() joins them, implement the roster: one number, one
\* thread and one close for every client, and nothing after the end.
THEOREM ThreadsAreRostered == Spec => ImplementsRoster
<1>1. Init => Roster!RosterInit
  BY NamesDiffer
     DEF Init, Roster!RosterInit, Phase, Helpers, StageOf, TaskOf, NoLoop, NoAction
<1>2. ServerInv /\ UdpOutlives /\ NothingRunsAfterStop' /\ [Next]_vars
          => [Roster!RosterNext]_(Roster!rosterVars)
  BY RosterStep
<1> QED
  BY <1>1, <1>2, Inductive, OutlivesAlways, NothingRunsOn, PTL
     DEF Spec, ImplementsRoster, Roster!RosterSpec
=============================================================================
