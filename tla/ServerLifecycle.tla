--------------------------- MODULE ServerLifecycle ---------------------------
(***************************************************************************)
(* The threads of the server, from the first accept to the return of       *)
(* TcpLzssServer::stop: the main thread (command_loop, then stop), the     *)
(* accept loop, a receive loop per client, the UDP thread and the threads  *)
(* of delayed actions.  What they share here are the sockets: close() of a *)
(* session runs in whichever thread comes first, without a lock, and gives *)
(* the descriptor back to the system, which hands it to the next           *)
(* connection while other threads may still be about to use the number.    *)
(* What is said over the sockets is left to the other modules.             *)
(***************************************************************************)
EXTENDS Naturals, FiniteSets

CONSTANTS
    Clients,        \* connections that clients make
    Descriptors,    \* numbers the system gives to sockets of clients
    NoFd,           \* kInvalidSocket
    Nobody,         \* no connection
    Main,           \* the main thread
    Actions,        \* delayed actions, a thread each
    CloseWakes      \* closing a socket ends a blocked accept or recvfrom on it:
                    \* TRUE on Windows

ASSUME NamesDiffer ==
    /\ NoFd \notin Descriptors
    /\ Nobody \notin Clients
    /\ Main \notin Clients
ASSUME CloseWakesOrNot == CloseWakes \in BOOLEAN

VARIABLES
    running,        \* running_
    main,           \* where the main thread is
    todo,           \* sessions of stop's snapshot that it has not closed yet
    listening,      \* the listener is open
    acceptor,       \* the accept loop: where it is, with which connection
    sessions,       \* sessions_
    closed,         \* closed[c]: the session's atomic flag
    sock,           \* sock[c]: session->socket
    conn,           \* conn[f]: the connection that descriptor f stands for
    loop,           \* loop[c]: where the receive loop of c is, its descriptor
                    \* and the connection it waits for
    closing,        \* closing[t]: the close() that thread t is in
    udpOpen,        \* the UDP socket is open and its running_ set
    udp,            \* where the UDP thread is
    action,         \* action[i]: delayed action i
    strays          \* history: sessions a thread of which has read from or written
                    \* to the connection of another client

netVars == <<listening, conn, strays>>
sessionVars == <<sessions, closed, sock>>
stopVars == <<running, main, todo>>
udpVars == <<udpOpen, udp>>
vars == <<netVars, sessionVars, stopVars, udpVars, acceptor, loop, closing, action>>

Threads == Clients \cup {Main}
NotClosing == [target |-> Nobody, step |-> "none"]
NoLoop == [at |-> "none", fd |-> NoFd, on |-> Nobody]
NoAction == [at |-> "none", client |-> Nobody, fd |-> NoFd]

Init ==
    /\ running = TRUE
    /\ main = "serve"
    /\ todo = {}
    /\ listening = TRUE
    /\ acceptor = [at |-> "check", client |-> Nobody, fd |-> NoFd]
    /\ sessions = {}
    /\ closed = [c \in Clients |-> FALSE]
    /\ sock = [c \in Clients |-> NoFd]
    /\ conn = [f \in Descriptors |-> Nobody]
    /\ loop = [c \in Clients |-> NoLoop]
    /\ closing = [t \in Threads |-> NotClosing]
    /\ udpOpen = TRUE
    /\ udp = "check"
    /\ action = [i \in Actions |-> NoAction]
    /\ strays = {}

Open(c) == \E f \in Descriptors : conn[f] = c

\* The connection that a number stands for now.
PeerOf(f) == IF f \in Descriptors THEN conn[f] ELSE Nobody

\* A thread of session c uses the connection of peer, if there is one.
Uses(c, peer) ==
    strays' = IF peer \in {c, Nobody} THEN strays ELSE strays \cup {c}

-----------------------------------------------------------------------------
\* ClientSession::close, in three steps of thread t.

StartClosing(t, c) == closing' = [closing EXCEPT ![t] = [target |-> c, step |-> "flag"]]
MayGoOn(t) == closing[t].step = "none"
CloseAt(t, step) == closing' = [closing EXCEPT ![t].step = step]

\* Mutant of Flag: whoever comes closes the socket.
FlagAnyway(t) ==
    /\ closing[t].step = "flag"
    /\ closed' = [closed EXCEPT ![closing[t].target] = TRUE]
    /\ CloseAt(t, "free")
    /\ UNCHANGED <<netVars, sessions, sock, stopVars, udpVars, acceptor, loop, action>>

\* Mutant of Flag: the flag is tested and left as it is.
FlagUnset(t) ==
    /\ closing[t].step = "flag"
    /\ IF closed[closing[t].target]
       THEN closing' = [closing EXCEPT ![t] = NotClosing]
       ELSE CloseAt(t, "free")
    /\ UNCHANGED <<netVars, sessionVars, stopVars, udpVars, acceptor, loop, action>>

\* closed.exchange(true): only the first to come goes on.
Flag(t) ==
    /\ closing[t].step = "flag"
    /\ closed' = [closed EXCEPT ![closing[t].target] = TRUE]
    /\ IF closed[closing[t].target]
       THEN closing' = [closing EXCEPT ![t] = NotClosing]
       ELSE CloseAt(t, "free")
    /\ UNCHANGED <<netVars, sessions, sock, stopVars, udpVars, acceptor, loop, action>>

\* ShutdownSocket and CloseSocket: the number is free again.
Free(t) ==
    /\ closing[t].step = "free"
    /\ conn' = [f \in Descriptors |->
                    IF f = sock[closing[t].target] THEN Nobody ELSE conn[f]]
    /\ CloseAt(t, "reset")
    /\ UNCHANGED <<listening, strays, sessionVars, stopVars, udpVars,
                   acceptor, loop, action>>

Reset(t) ==
    /\ closing[t].step = "reset"
    /\ sock' = [sock EXCEPT ![closing[t].target] = NoFd]
    /\ closing' = [closing EXCEPT ![t] = NotClosing]
    /\ UNCHANGED <<netVars, sessions, closed, stopVars, udpVars, acceptor, loop, action>>

Close(t) == Flag(t) \/ Free(t) \/ Reset(t)

-----------------------------------------------------------------------------
\* The accept loop.

Acceptor(at) ==
    /\ acceptor' = [acceptor EXCEPT !.at = at]
    /\ UNCHANGED <<stopVars, udpVars, closing, action>>

CheckAccept ==
    /\ acceptor.at = "check"
    /\ Acceptor(IF running THEN "call" ELSE "done")
    /\ UNCHANGED <<netVars, sessionVars, loop>>

\* accept() is called: it fails if the listener has been closed.
CallAccept ==
    /\ acceptor.at = "call"
    /\ Acceptor(IF listening THEN "blocked" ELSE "done")
    /\ UNCHANGED <<netVars, sessionVars, loop>>

\* A client connects.
Accept(c, f) ==
    /\ acceptor.at = "blocked"
    /\ listening \/ ~CloseWakes
    /\ loop[c].at = "none"
    /\ conn[f] = Nobody
    /\ acceptor' = [at |-> "insert", client |-> c, fd |-> f]
    /\ conn' = [conn EXCEPT ![f] = c]
    /\ UNCHANGED <<listening, strays, sessionVars, stopVars, udpVars,
                   loop, closing, action>>

\* accept() fails, be it that the listener was closed under it, and the loop
\* breaks whatever the reason was.
AcceptWakes ==
    /\ acceptor.at = "blocked"
    /\ ~listening /\ CloseWakes
    /\ Acceptor("done")
    /\ UNCHANGED <<netVars, sessionVars, loop>>

AcceptFails ==
    /\ acceptor.at = "blocked"
    /\ Acceptor("done")
    /\ UNCHANGED <<netVars, sessionVars, loop>>

InsertSession ==
    /\ acceptor.at = "insert"
    /\ sessions' = sessions \cup {acceptor.client}
    /\ sock' = [sock EXCEPT ![acceptor.client] = acceptor.fd]
    /\ Acceptor("spawn")
    /\ UNCHANGED <<netVars, closed, loop>>

SpawnLoop ==
    /\ acceptor.at = "spawn"
    /\ loop' = [loop EXCEPT ![acceptor.client].at = "check"]
    /\ acceptor' = [at |-> "check", client |-> Nobody, fd |-> NoFd]
    /\ UNCHANGED <<netVars, sessionVars, stopVars, udpVars, closing, action>>

AcceptLoop ==
    \/ CheckAccept \/ CallAccept \/ AcceptWakes \/ InsertSession \/ SpawnLoop

-----------------------------------------------------------------------------
\* Receive loops.

Loop(c, at) ==
    /\ MayGoOn(c)
    /\ loop' = [loop EXCEPT ![c] = [NoLoop EXCEPT !.at = at]]
    /\ UNCHANGED <<stopVars, udpVars, acceptor>>

\* The loop's condition, and recv's argument.
CheckLoop(c) ==
    /\ loop[c].at = "check"
    /\ MayGoOn(c)
    /\ loop' = [loop EXCEPT ![c] =
                    IF running /\ ~closed[c]
                    THEN [at |-> "call", fd |-> sock[c], on |-> Nobody]
                    ELSE [NoLoop EXCEPT !.at = "close"]]
    /\ UNCHANGED <<netVars, sessionVars, stopVars, udpVars, acceptor, closing, action>>

CallRecv(c) ==
    /\ loop[c].at = "call"
    /\ LET peer == PeerOf(loop[c].fd)
       IN  loop' = [loop EXCEPT ![c] =
                       [at |-> IF peer = Nobody THEN "close" ELSE "blocked",
                        fd |-> NoFd, on |-> peer]]
    /\ UNCHANGED <<netVars, sessionVars, stopVars, udpVars, acceptor, closing, action>>

\* The connection has been shut down at this end.
RecvWakes(c) ==
    /\ loop[c].at = "blocked"
    /\ ~Open(loop[c].on)
    /\ Loop(c, "close")
    /\ UNCHANGED <<netVars, sessionVars, closing, action>>

\* The client of the connection hangs up.
HangUp(c) ==
    /\ loop[c].at = "blocked"
    /\ Open(loop[c].on)
    /\ Loop(c, "close")
    /\ UNCHANGED <<netVars, sessionVars, closing, action>>

Schedule(i, c) ==
    /\ action[i].at = "none"
    /\ main # "joinActions"
    /\ action' = [action EXCEPT ![i] = [at |-> "sleep", client |-> c, fd |-> NoFd]]

\* Bytes come in on the connection that recv waits for and are handled: a
\* handler may schedule an action, close another session (a login taken over)
\* or throw.
Handle(c) ==
    /\ loop[c].at = "blocked"
    /\ Open(loop[c].on)
    /\ Uses(c, loop[c].on)
    /\ \/ Loop(c, "check") /\ UNCHANGED <<closing, action>>
       \/ Loop(c, "close") /\ UNCHANGED <<closing, action>>
       \/ Loop(c, "check") /\ UNCHANGED closing /\ \E i \in Actions : Schedule(i, c)
       \/ /\ Loop(c, "check") /\ UNCHANGED action
          /\ \E d \in sessions \ {c} : StartClosing(c, d)
    /\ UNCHANGED <<listening, conn, sessionVars>>

EndLoop(c) ==
    /\ loop[c].at = "close"
    /\ Loop(c, "erase")
    /\ StartClosing(c, c)
    /\ UNCHANGED <<netVars, sessionVars, action>>

EraseSession(c) ==
    /\ loop[c].at = "erase"
    /\ Loop(c, "done")
    /\ sessions' = sessions \ {c}
    /\ UNCHANGED <<netVars, closed, sock, closing, action>>

ReceiveLoop(c) ==
    \/ CheckLoop(c) \/ CallRecv(c) \/ RecvWakes(c) \/ EndLoop(c)
    \/ EraseSession(c) \/ Close(c)

-----------------------------------------------------------------------------
\* Delayed actions: they send to their session.

Wake(i) ==
    /\ action[i].at = "sleep"
    /\ action' = [action EXCEPT ![i] =
                      IF running /\ ~closed[@.client]
                      THEN [at |-> "send", client |-> @.client, fd |-> sock[@.client]]
                      ELSE [at |-> "done", client |-> @.client, fd |-> NoFd]]
    /\ UNCHANGED <<netVars, sessionVars, stopVars, udpVars, acceptor, loop, closing>>

\* An exception of send is caught where the action was called.
SendAll(i) ==
    /\ action[i].at = "send"
    /\ action' = [action EXCEPT ![i].at = "done", ![i].fd = NoFd]
    /\ Uses(action[i].client, PeerOf(action[i].fd))
    /\ UNCHANGED <<listening, conn, sessionVars, stopVars, udpVars, acceptor, loop, closing>>

DelayedAction(i) == Wake(i) \/ SendAll(i)

-----------------------------------------------------------------------------
\* The UDP thread.  A frame may be a mission's last and schedule its result.

Udp(at) ==
    /\ udp' = at
    /\ UNCHANGED <<netVars, sessionVars, stopVars, udpOpen, acceptor, loop, closing>>

CheckUdp ==
    /\ udp = "check"
    /\ Udp(IF udpOpen THEN "blocked" ELSE "done")
    /\ UNCHANGED action

\* A datagram comes in and is handled.
Datagram ==
    /\ udp = "blocked"
    /\ udpOpen \/ ~CloseWakes
    /\ Udp("check")
    /\ \/ UNCHANGED action
       \/ \E i \in Actions, c \in sessions : Schedule(i, c)

\* recvfrom fails: the loop goes on as long as it is to run.
UdpWakes == udp = "blocked" /\ ~udpOpen /\ CloseWakes /\ Udp("check") /\ UNCHANGED action

UdpLoop == CheckUdp \/ UdpWakes

-----------------------------------------------------------------------------
\* The main thread.

MainGoes(from, to) ==
    /\ main = from
    /\ MayGoOn(Main)
    /\ main' = to
    /\ UNCHANGED <<conn, strays, sessionVars, udp, acceptor, loop, action>>

\* "close" of the command loop: the active session.
CloseActive ==
    /\ MainGoes("serve", "serve")
    /\ \E c \in sessions : StartClosing(Main, c)
    /\ UNCHANGED <<listening, running, todo, udpOpen>>

\* "quit" or the end of the input.
Quit ==
    /\ MainGoes("serve", "closeListener")
    /\ running' = FALSE
    /\ UNCHANGED <<listening, todo, udpOpen, closing>>

CloseListener ==
    /\ MainGoes("closeListener", "stopUdp")
    /\ listening' = FALSE
    /\ UNCHANGED <<running, todo, udpOpen, closing>>

StopUdp ==
    /\ MainGoes("stopUdp", "joinUdp")
    /\ udpOpen' = FALSE
    /\ UNCHANGED <<listening, running, todo, closing>>

JoinUdp ==
    /\ udp = "done"
    /\ MainGoes("joinUdp", "snapshot")
    /\ UNCHANGED <<listening, running, todo, udpOpen, closing>>

\* Mutant of Snapshot: no session is closed.
SnapshotNothing ==
    /\ MainGoes("snapshot", "closeAll")
    /\ todo' = {}
    /\ UNCHANGED <<listening, running, udpOpen, closing>>

Snapshot ==
    /\ MainGoes("snapshot", "closeAll")
    /\ todo' = sessions
    /\ UNCHANGED <<listening, running, udpOpen, closing>>

CloseNext ==
    /\ MainGoes("closeAll", "closeAll")
    /\ \E c \in todo : StartClosing(Main, c) /\ todo' = todo \ {c}
    /\ UNCHANGED <<listening, running, udpOpen>>

AllClosed ==
    /\ todo = {}
    /\ MainGoes("closeAll", "joinAcceptor")
    /\ UNCHANGED <<listening, running, todo, udpOpen, closing>>

JoinAcceptor ==
    /\ acceptor.at = "done"
    /\ MainGoes("joinAcceptor", "joinLoops")
    /\ UNCHANGED <<listening, running, todo, udpOpen, closing>>

\* Mutant of JoinLoops: the loops are left to end by themselves.
JoinNoLoops ==
    /\ MainGoes("joinLoops", "joinActions")
    /\ UNCHANGED <<listening, running, todo, udpOpen, closing>>

JoinLoops ==
    /\ \A c \in Clients : loop[c].at \in {"none", "done"}
    /\ MainGoes("joinLoops", "joinActions")
    /\ UNCHANGED <<listening, running, todo, udpOpen, closing>>

JoinActions ==
    /\ \A i \in Actions : action[i].at \in {"none", "done"}
    /\ MainGoes("joinActions", "stopped")
    /\ UNCHANGED <<listening, running, todo, udpOpen, closing>>

Stop ==
    \/ CloseListener \/ StopUdp \/ JoinUdp \/ Snapshot \/ CloseNext \/ AllClosed
    \/ JoinAcceptor \/ JoinLoops \/ JoinActions \/ Close(Main)

Next ==
    \/ CloseActive \/ Quit \/ Stop
    \/ AcceptLoop \/ AcceptFails
    \/ \E c \in Clients, f \in Descriptors : Accept(c, f)
    \/ \E c \in Clients : ReceiveLoop(c) \/ Handle(c) \/ HangUp(c)
    \/ \E i \in Actions : DelayedAction(i)
    \/ UdpLoop \/ Datagram

Spec == Init /\ [][Next]_vars

\* Every thread that can go on does.  Clients need not connect, send or hang
\* up, and the operator need not quit.
FairSpec ==
    /\ Spec
    /\ WF_vars(Stop)
    /\ WF_vars(AcceptLoop)
    /\ WF_vars(UdpLoop)
    /\ \A c \in Clients : WF_vars(ReceiveLoop(c))
    /\ \A i \in Actions : WF_vars(DelayedAction(i))

-----------------------------------------------------------------------------
\* Where the main thread can be.
Stages == {"serve", "closeListener", "stopUdp", "joinUdp", "snapshot",
           "closeAll", "joinAcceptor", "joinLoops", "joinActions", "stopped"}
Sockets == Descriptors \cup {NoFd}
Peers == Clients \cup {Nobody}
\* Threads are where they can be, and descriptors are descriptors.
TypeOK ==
    /\ running \in BOOLEAN
    /\ main \in Stages
    /\ todo \subseteq Clients
    /\ listening \in BOOLEAN
    /\ acceptor \in [at : {"check", "call", "blocked", "insert", "spawn", "done"},
                     client : Peers, fd : Sockets]
    /\ sessions \subseteq Clients
    /\ closed \in [Clients -> BOOLEAN]
    /\ sock \in [Clients -> Sockets]
    /\ conn \in [Descriptors -> Peers]
    /\ loop \in [Clients ->
                    [at : {"none", "check", "call", "blocked", "close", "erase", "done"},
                     fd : Sockets, on : Peers]]
    /\ closing \in [Threads -> [target : Peers, step : {"none", "flag", "free", "reset"}]]
    /\ udpOpen \in BOOLEAN
    /\ udp \in {"check", "blocked", "done"}
    /\ action \in [Actions -> [at : {"none", "sleep", "send", "done"},
                               client : Peers, fd : Sockets]]
    /\ strays \subseteq Clients

\* When stop() has returned no thread of the server runs: main returns and
\* the server that they refer to is destroyed.  Nor is a connection left open
\* or a session listed, one that was accepted after the snapshot included.
NothingRunsAfterStop ==
    main = "stopped" =>
        /\ udp = "done"
        /\ acceptor.at = "done"
        /\ \A c \in Clients : loop[c].at \in {"none", "done"} /\ MayGoOn(c)
        /\ \A i \in Actions : action[i].at \in {"none", "done"}
        /\ sessions = {} /\ \A c \in Clients : ~Open(c)

\* close() gives back the descriptor of its own session only, although the
\* number may by then stand for another connection.
ClosesOwnSocket ==
    [][\A f \in Descriptors :
           conn[f] # Nobody /\ conn'[f] # conn[f] => closed[conn[f]]]_vars

\* A thread of a session reads from or writes to another client's connection
\* only when the session has been closed: not as long as it is open.
StraysAreClosed ==
    \A c \in strays : closed[c]

\* A receive loop that stop() waits for is not blocked on a connection that
\* nobody is about to close: be it of a session the snapshot missed or, under
\* a number that was used again, of another client than its own.
JoinedLoopsWake ==
    main = "joinLoops" =>
        \A c \in Clients : loop[c].at = "blocked" /\ Open(loop[c].on) =>
            LET d == loop[c].on
            IN  \/ loop[d].at \in {"check", "close"}
                \/ \E t \in Threads :
                       closing[t].target = d /\ closing[t].step \in {"flag", "free"}

\* What the threads come to: a client is at the door from accept() until its
\* loop runs, and gone when the loop has ended.
Phase == IF running THEN "open" ELSE IF main = "stopped" THEN "over" ELSE "closing"

Helpers ==
    {h \in {"acceptor", "udp"} :
        IF h = "acceptor" THEN acceptor.at # "done" ELSE udp # "done"}

StageOf(c) ==
    IF loop[c].at = "none"
    THEN IF acceptor.at \in {"insert", "spawn"} /\ acceptor.client = c
         THEN "admitted" ELSE "new"
    ELSE IF loop[c].at = "done" THEN "gone" ELSE "served"

TaskOf(i) ==
    IF action[i].at = "none" THEN "new"
    ELSE IF action[i].at = "done" THEN "done" ELSE "due"

Roster == INSTANCE ServerRoster WITH
    phase <- Phase, helpers <- Helpers, stage <- [c \in Clients |-> StageOf(c)],
    table <- conn, listed <- sessions, doomed <- {c \in Clients : closed[c]},
    task <- [i \in Actions |-> TaskOf(i)]

\* Whoever closes a session, however often and while whichever thread is about
\* to use its number: a number is one connection's from accept() to the one
\* close() of its own session, a session is listed until its thread ends, which
\* is after the close; and once stop() has returned nothing more happens.
ImplementsRoster == Roster!RosterSpec

\* stop() returns, where closing a socket wakes who waits on it: no thread is
\* joined that waits for something nobody will do.
StopReturns == CloseWakes => (~running ~> main = "stopped")
=============================================================================
