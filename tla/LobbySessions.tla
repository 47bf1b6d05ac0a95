--------------------------- MODULE LobbySessions ---------------------------
(***************************************************************************)
(* The TCP sessions of the server and the rooms they host: accept_loop and *)
(* client_loop (TcpConnectionLoop.cpp), the two ways a session gets a      *)
(* login (TcpAuthHandlers.cpp), room creation and leaving                  *)
(* (TcpStateHandlers.cpp, TcpRuntimeRoomState.cpp,                         *)
(* TcpRoomLeaveHandlers.cpp) and the operator's commands that touch them   *)
(* (TcpAdminCommands.cpp).                                                 *)
(*                                                                         *)
(* Every session has a thread of its own.  A step is what one thread does  *)
(* under one lock, so handlers that lock twice are two steps and other     *)
(* threads run in between.  The reply handshake of a session (the          *)
(* awaiting_* flags and the delayed replies) is module RoomHandshake.      *)
(***************************************************************************)
EXTENDS RoomRegistry, FiniteSets

CONSTANTS
    NoClient,       \* "no such client"
    NoMission,      \* the session has no created-room context
    Untitled,       \* created context whose mission_title is empty
    MaxFrames,      \* bound: frames received by all sessions together
    MaxBatch        \* bound: frames that one recv delivers

ASSUME NoClientIsNone == NoClient \notin Clients
ASSUME NoMissionIsNone == {NoMission, Untitled} \cap Missions = {}
ASSUME ContextsDiffer == NoMission # Untitled
ASSUME BoundsAreNumbers == MaxFrames \in Nat /\ MaxBatch \in Nat

VARIABLES
    sessions,       \* keys of sessions_, the map under sessions_mutex_
    mapOwner,       \* the thread that holds sessions_mutex_ across steps
    nextClient,     \* next_client_id_
    number,         \* number[c]: the socket number accept returned for c
    active,         \* active_client_id_
    adminTarget,    \* session the operator's close command got hold of
    closed,         \* closed[c]: ClientSession::closed
    login,          \* login[c]: authenticated_login_id
    created,        \* created[c]: created_mission_rule_id and title
    pc,             \* pc[c]: where the thread of session c is
    attempt,        \* attempt[c]: locals of handle_login_challenge
    buffered,       \* buffered[c]: frames decoded and not yet handled
    frames,         \* number of frames received so far
    standing        \* history: standing[c] are the open sessions that have
                    \* held the login c asks for ever since c's scan began

sessionVars == <<sessions, mapOwner, nextClient, number, active, adminTarget,
                 closed, login, created, pc, attempt, buffered, frames>>
serverVars == <<registryVars, sessionVars>>
vars == <<serverVars, standing>>

Attempt == [login : Logins \cup {NoLogin}, force : BOOLEAN, at : Nat]
NoAttempt == [login |-> NoLogin, force |-> FALSE, at |-> 0]
Contexts == Missions \cup {NoMission, Untitled}

\* absent: not accepted.  run: between two frames, or at the loop condition.
\* recv: the condition was false and socket was read, recv is not called yet.
\* wait: in recv on its own connection.  stray: in recv on another's.  scan,
\* evict, bind: handle_login_challenge.  upsert: 0x0C.  ack, remove, clear:
\* 0x12.  withdraw, erase: the end of client_loop.
Places == {"absent", "run", "recv", "wait", "stray", "scan", "evict", "bind",
           "upsert", "ack", "remove", "clear", "close", "withdraw", "erase",
           "gone"}

Init ==
    /\ RegistryInit
    /\ sessions = {}
    /\ mapOwner = NoClient
    /\ nextClient = 1
    /\ number = [c \in Clients |-> c]
    /\ active = NoClient
    /\ adminTarget = NoClient
    /\ closed = [c \in Clients |-> FALSE]
    /\ login = [c \in Clients |-> NoLogin]
    /\ created = [c \in Clients |-> NoMission]
    /\ pc = [c \in Clients |-> "absent"]
    /\ attempt = [c \in Clients |-> NoAttempt]
    /\ buffered = [c \in Clients |-> 0]
    /\ frames = 0
    /\ standing = [c \in Clients |-> {}]

Goto(c, place) == pc' = [pc EXCEPT ![c] = place]

\* drain_logical_packets pops the next whole frame.  It does not look at
\* closed: frames that are already decoded are handled whatever happened to
\* the session since.
TakeFrame(c) ==
    /\ pc[c] = "run"
    /\ buffered[c] > 0
    /\ buffered' = [buffered EXCEPT ![c] = @ - 1]

\* An exception leaves drain_logical_packets and ends client_loop's try.
Abandon(c) ==
    /\ Goto(c, "close")
    /\ buffered' = [buffered EXCEPT ![c] = 0]

MapFree == mapOwner = NoClient
-----------------------------------------------------------------------------
(* Connection lifecycle *)

\* close() gave the number of session c's socket back, and accept returned it
\* for a client that is still connected.
NumberTaken(c) ==
    closed[c] /\ \E d \in sessions : ~closed[d] /\ number[d] = number[c]

\* Numbers that close() gave back while a thread may still use them.
FreeNumbers ==
    {number[c] : c \in {d \in sessions : closed[d] /\ ~NumberTaken(d)}}

\* The new socket has a number of its own, or one that was given back.
Accept ==
    /\ nextClient \in Clients
    /\ MapFree
    /\ nextClient' = nextClient + 1
    /\ sessions' = sessions \cup {nextClient}
    /\ \E n \in {nextClient} \cup FreeNumbers :
        number' = [number EXCEPT ![nextClient] = n]
    /\ active' = nextClient
    /\ Goto(nextClient, "run")
    /\ UNCHANGED <<registryVars, mapOwner, adminTarget, closed, login, created,
                   attempt, buffered, frames>>

\* The loop condition, and the read of session->socket for recv, which takes
\* no lock.
LoopAgain(c) ==
    /\ pc[c] = "run"
    /\ buffered[c] = 0
    /\ Goto(c, IF closed[c] THEN "close" ELSE "recv")
    /\ UNCHANGED <<registryVars, sessions, mapOwner, nextClient, number, active,
                   adminTarget, closed, login, created, attempt, buffered,
                   frames>>

\* recv is called on the number read: when the session was closed since, it
\* fails, or it listens to the client that has the number now.
CallRecv(c) ==
    /\ pc[c] = "recv"
    /\ \/ ~closed[c] /\ Goto(c, "wait")
       \/ closed[c] /\ Goto(c, "close")
       \/ NumberTaken(c) /\ Goto(c, "stray")
    /\ UNCHANGED <<registryVars, sessions, mapOwner, nextClient, number, active,
                   adminTarget, closed, login, created, attempt, buffered,
                   frames>>

\* recv returns data, in a session that was closed meanwhile too (it had
\* arrived before): so many whole frames, none when they end further on.
Receive(c) ==
    /\ pc[c] \in {"wait", "stray"}
    /\ \E n \in 0..MaxBatch :
        /\ frames + n <= MaxFrames
        /\ buffered' = [buffered EXCEPT ![c] = n]
        /\ frames' = frames + n
    /\ Goto(c, "run")
    /\ UNCHANGED <<registryVars, sessions, mapOwner, nextClient, number, active,
                   adminTarget, closed, login, created, attempt>>

\* Mutant of HangUp: a receive loop that the close of another thread does
\* not end.
HangUpByPeer(c) ==
    /\ pc[c] \in {"wait", "stray"}
    /\ ~closed[c]
    /\ Goto(c, "close")
    /\ UNCHANGED <<registryVars, sessions, mapOwner, nextClient, number,
                   active, adminTarget, closed, login, created, attempt,
                   buffered, frames>>

\* recv returns 0 or an error.
HangUp(c) ==
    /\ pc[c] \in {"wait", "stray"}
    /\ Goto(c, "close")
    /\ UNCHANGED <<registryVars, sessions, mapOwner, nextClient, number,
                   active, adminTarget, closed, login, created, attempt,
                   buffered, frames>>

\* Mutant of CloseOwn: the rooms of an ended session are forgotten.
CloseWithoutWithdrawing(c) ==
    /\ pc[c] = "close"
    /\ closed' = [closed EXCEPT ![c] = TRUE]
    /\ Goto(c, "erase")
    /\ UNCHANGED <<registryVars, sessions, mapOwner, nextClient, number,
                   active, adminTarget, login, created, attempt, buffered,
                   frames>>

\* session->close() at the end of client_loop.
CloseOwn(c) ==
    /\ pc[c] = "close"
    /\ closed' = [closed EXCEPT ![c] = TRUE]
    /\ Goto(c, "withdraw")
    /\ UNCHANGED <<registryVars, sessions, mapOwner, nextClient, number,
                   active, adminTarget, login, created, attempt, buffered,
                   frames>>

\* remove_created_rooms_for_session(session) at the end of client_loop.
WithdrawRooms(c) ==
    /\ pc[c] = "withdraw"
    /\ RemoveForHost(c, login[c])
    /\ Goto(c, "erase")
    /\ UNCHANGED <<sessions, mapOwner, nextClient, number, active, adminTarget,
                   closed, login, created, attempt, buffered, frames>>

\* sessions_.begin(): the lowest client id that is left.
Lowest(S) == CHOOSE c \in S : \A d \in S : c <= d

\* Mutant of EraseSession: the active client is not handed over.
EraseKeepsActive(c) ==
    /\ pc[c] = "erase"
    /\ MapFree
    /\ sessions' = sessions \ {c}
    /\ Goto(c, "gone")
    /\ UNCHANGED <<registryVars, mapOwner, nextClient, number, active,
                   adminTarget, closed, login, created, attempt, buffered,
                   frames>>

EraseSession(c) ==
    /\ pc[c] = "erase"
    /\ MapFree
    /\ sessions' = sessions \ {c}
    /\ active' = CASE active # c -> active
                   [] sessions' = {} -> NoClient
                   [] OTHER -> Lowest(sessions')
    /\ Goto(c, "gone")
    /\ UNCHANGED <<registryVars, mapOwner, nextClient, number, adminTarget,
                   closed, login, created, attempt, buffered, frames>>
-----------------------------------------------------------------------------
(* Logging in *)

\* handle_connect_lobby (0x01): the login is bound without a password and
\* without a look at the other sessions.
ConnectLobby(c, l) ==
    /\ TakeFrame(c)
    /\ login' = [login EXCEPT ![c] = l]
    /\ UNCHANGED <<registryVars, sessions, mapOwner, nextClient, number,
                   active, adminTarget, closed, created, pc, attempt, frames>>

\* handle_login_challenge (0x9F) once authenticate has accepted the password:
\* find_authenticated_session_by_login takes sessions_mutex_ for the scan.
StartLogin(c, l, force) ==
    /\ TakeFrame(c)
    /\ MapFree
    /\ mapOwner' = c
    /\ attempt' = [attempt EXCEPT ![c] =
                       [login |-> l, force |-> force, at |-> 0]]
    /\ Goto(c, "scan")
    /\ UNCHANGED <<registryVars, sessions, nextClient, number, active,
                   adminTarget, closed, login, created, frames>>

\* Sessions the scan of c has not examined yet, in client-id order.
Unexamined(c) == {d \in sessions \ {c} : d > attempt[c].at}

HoldsLogin(d, l) == ~closed[d] /\ login[d] = l

\* One turn of the scan: examine one session under its own state_mutex.
ScanOn(c) ==
    /\ pc[c] = "scan"
    /\ \E d \in Unexamined(c) :
        /\ \A e \in Unexamined(c) : d <= e
        /\ ~HoldsLogin(d, attempt[c].login)
        /\ attempt' = [attempt EXCEPT ![c].at = d]
    /\ UNCHANGED <<registryVars, sessions, mapOwner, nextClient, number,
                   active, adminTarget, closed, login, created, pc, buffered,
                   frames>>

\* Mutant of ScanHit: the error is sent, but the handler goes on.
ScanHitGoesOn(c) ==
    /\ pc[c] = "scan"
    /\ \E d \in Unexamined(c) :
        /\ \A e \in Unexamined(c) : d <= e
        /\ HoldsLogin(d, attempt[c].login)
        /\ attempt' = [attempt EXCEPT ![c].at = d]
        /\ Goto(c, IF attempt[c].force THEN "evict" ELSE "bind")
    /\ mapOwner' = NoClient
    /\ UNCHANGED <<registryVars, sessions, nextClient, number, active,
                   adminTarget, closed, login, created, buffered, frames>>

\* The account is in use: refused with error 4, or taken over by force.
ScanHit(c) ==
    /\ pc[c] = "scan"
    /\ \E d \in Unexamined(c) :
        /\ \A e \in Unexamined(c) : d <= e
        /\ HoldsLogin(d, attempt[c].login)
        /\ IF attempt[c].force
              THEN /\ attempt' = [attempt EXCEPT ![c].at = d]
                   /\ Goto(c, "evict")
              ELSE /\ attempt' = [attempt EXCEPT ![c] = NoAttempt]
                   /\ Goto(c, "run")
    /\ mapOwner' = NoClient
    /\ UNCHANGED <<registryVars, sessions, nextClient, number, active,
                   adminTarget, closed, login, created, buffered, frames>>

ScanMiss(c) ==
    /\ pc[c] = "scan"
    /\ Unexamined(c) = {}
    /\ mapOwner' = NoClient
    /\ Goto(c, "bind")
    /\ UNCHANGED <<registryVars, sessions, nextClient, number, active,
                   adminTarget, closed, login, created, attempt, buffered,
                   frames>>

\* existing->close(): flag and socket only, the thread of the evicted
\* session finds out later.
Evict(c) ==
    /\ pc[c] = "evict"
    /\ closed' = [closed EXCEPT ![attempt[c].at] = TRUE]
    /\ Goto(c, "bind")
    /\ UNCHANGED <<registryVars, sessions, mapOwner, nextClient, number,
                   active, adminTarget, login, created, attempt, buffered,
                   frames>>

Bind(c) ==
    /\ pc[c] = "bind"
    /\ login' = [login EXCEPT ![c] = attempt[c].login]
    /\ attempt' = [attempt EXCEPT ![c] = NoAttempt]
    /\ Goto(c, "run")
    /\ UNCHANGED <<registryVars, sessions, mapOwner, nextClient, number,
                   active, adminTarget, closed, created, buffered, frames>>
-----------------------------------------------------------------------------
(* Hosting a room *)

\* capture_dynamic_room_state (0x0C): the context is set under state_mutex.
CaptureCreate(c, m) ==
    /\ TakeFrame(c)
    /\ created' = [created EXCEPT ![c] = m]
    /\ Goto(c, "upsert")
    /\ UNCHANGED <<registryVars, sessions, mapOwner, nextClient, number,
                   active, adminTarget, closed, login, attempt, frames>>

\* upsert_created_room_from_session: an empty title lists nothing.
PublishRoom(c) ==
    /\ pc[c] = "upsert"
    /\ IF created[c] \in Missions
          THEN UpsertRoom(c, login[c], created[c])
          ELSE UNCHANGED registryVars
    /\ Goto(c, "run")
    /\ UNCHANGED <<sessions, mapOwner, nextClient, number, active, adminTarget,
                   closed, login, created, attempt, buffered, frames>>

\* handle_room_leave_request (0x12) marks the session as leaving ...
BeginLeave(c) ==
    /\ TakeFrame(c)
    /\ Goto(c, "ack")
    /\ UNCHANGED <<registryVars, sessions, mapOwner, nextClient, number,
                   active, adminTarget, closed, login, created, attempt,
                   frames>>

\* ... acknowledges at once; SendAll throws when the socket is broken ...
AckLeave(c) ==
    /\ pc[c] = "ack"
    /\ \/ Goto(c, "remove") /\ UNCHANGED buffered
       \/ Abandon(c)
    /\ UNCHANGED <<registryVars, sessions, mapOwner, nextClient, number,
                   active, adminTarget, closed, login, created, attempt,
                   frames>>

\* ... takes the rooms off the list ...
RemoveRooms(c) ==
    /\ pc[c] = "remove"
    /\ RemoveForHost(c, login[c])
    /\ Goto(c, "clear")
    /\ UNCHANGED <<sessions, mapOwner, nextClient, number, active, adminTarget,
                   closed, login, created, attempt, buffered, frames>>

\* ... and forgets the context (clear_created_room_state_for_session).
ClearContext(c) ==
    /\ pc[c] = "clear"
    /\ created' = [created EXCEPT ![c] = NoMission]
    /\ Goto(c, "run")
    /\ UNCHANGED <<registryVars, sessions, mapOwner, nextClient, number,
                   active, adminTarget, closed, login, attempt, buffered,
                   frames>>

\* Every other frame: its handler leaves this state alone, or throws while
\* it streams its reply inline.
OtherFrame(c) ==
    /\ \/ TakeFrame(c) /\ UNCHANGED pc
       \/ pc[c] = "run" /\ buffered[c] > 0 /\ Abandon(c)
    /\ UNCHANGED <<registryVars, sessions, mapOwner, nextClient, number,
                   active, adminTarget, closed, login, created, attempt,
                   frames>>
-----------------------------------------------------------------------------
(* Operator commands *)

\* set_active
UseClient(c) ==
    /\ c \in sessions
    /\ MapFree
    /\ active' = c
    /\ UNCHANGED <<registryVars, sessions, mapOwner, nextClient, number,
                   adminTarget, closed, login, created, pc, attempt, buffered,
                   frames>>

\* close_active, first half: active_session() looks the session up.
PickActive ==
    /\ adminTarget = NoClient
    /\ MapFree
    /\ active \in sessions
    /\ adminTarget' = active
    /\ UNCHANGED <<registryVars, sessions, mapOwner, nextClient, number,
                   active, closed, login, created, pc, attempt, buffered,
                   frames>>

\* close_active, second half: close() on whatever became of it since.
ClosePicked ==
    /\ adminTarget # NoClient
    /\ closed' = [closed EXCEPT ![adminTarget] = TRUE]
    /\ adminTarget' = NoClient
    /\ UNCHANGED <<registryVars, sessions, mapOwner, nextClient, number,
                   active, login, created, pc, attempt, buffered, frames>>
-----------------------------------------------------------------------------

\* What the thread of session c does on its own account, without its client
\* having to send or to read anything.
OwnSteps(c) ==
    \/ CloseOwn(c) \/ WithdrawRooms(c) \/ EraseSession(c)
    \/ ScanOn(c) \/ ScanHit(c) \/ ScanMiss(c) \/ Evict(c) \/ Bind(c)
    \/ PublishRoom(c) \/ RemoveRooms(c) \/ ClearContext(c)

FrameSteps(c) ==
    \/ \E l \in Logins : ConnectLobby(c, l)
    \/ \E l \in Logins, force \in BOOLEAN : StartLogin(c, l, force)
    \/ \E m \in Missions \cup {Untitled} : CaptureCreate(c, m)
    \/ BeginLeave(c)
    \/ OtherFrame(c)

\* What it does with the number of its socket: sends of the handlers (each is
\* over when the next frame or the loop condition is looked at), and recv.
SocketSteps(c) ==
    FrameSteps(c) \/ AckLeave(c) \/ LoopAgain(c) \/ CallRecv(c)

SessionNext(c) == Receive(c) \/ HangUp(c) \/ OwnSteps(c) \/ SocketSteps(c)

ServerNext ==
    \/ Accept
    \/ \E c \in Clients : SessionNext(c) \/ UseClient(c)
    \/ PickActive
    \/ ClosePicked

\* The history variable: set when a scan begins, and from then on it loses
\* the sessions that close or change their login.
Watch ==
    standing' =
        [c \in Clients |->
            CASE pc'[c] \notin {"scan", "evict", "bind"} -> {}
              [] pc[c] = "run" /\ pc'[c] = "scan" ->
                    {d \in sessions \ {c} : HoldsLogin(d, attempt'[c].login)}
              [] OTHER ->
                    {d \in standing[c] :
                        ~closed'[d] /\ login'[d] = attempt[c].login}]

Next == ServerNext /\ Watch

Spec == Init /\ [][Next]_vars

\* A started thread keeps running.  In a closed session send and recv return,
\* because the socket was shut down or its number is nobody's; a thread that
\* uses a number another client has got meanwhile may be held up by that
\* client for ever, and an open session by its own.
ThreadRuns(c) ==
    /\ WF_serverVars(OwnSteps(c))
    /\ WF_serverVars(/\ closed[c] /\ ~NumberTaken(c)
                     /\ SocketSteps(c) \/ HangUp(c))
    /\ WF_serverVars(closed[c] /\ pc[c] = "wait" /\ HangUp(c))

FairSpec == Spec /\ \A c \in Clients : ThreadRuns(c)
-----------------------------------------------------------------------------
(* Properties *)

TypeOK ==
    /\ RegistryTypeOK
    /\ sessions \subseteq Clients
    /\ mapOwner \in Clients \cup {NoClient}
    /\ nextClient \in Nat
    /\ number \in [Clients -> Clients]
    /\ active \in Clients \cup {NoClient}
    /\ adminTarget \in Clients \cup {NoClient}
    /\ closed \in [Clients -> BOOLEAN]
    /\ login \in [Clients -> Logins \cup {NoLogin}]
    /\ created \in [Clients -> Contexts]
    /\ pc \in [Clients -> Places]
    /\ attempt \in [Clients -> Attempt]
    /\ buffered \in [Clients -> Nat]
    /\ frames \in Nat
    /\ standing \in [Clients -> SUBSET Clients]

\* A listed room always has a host that is still connected: however a session
\* ends, and whoever else overwrote or removed rooms in the meantime, its
\* client_loop has taken its rooms off the list before it leaves sessions_.
RoomsHaveHosts ==
    \A r \in rooms : r.host \in sessions /\ pc[r.host] # "erase"

\* A session without a created-room context hosts nothing: leaving a room
\* forgets the context only after the rooms are off the list, also when the
\* session has changed its login since it created them.
RoomsHaveContexts ==
    \A r \in rooms : created[r.host] # NoMission

\* The operator's active client is a connected one, and there is one as long
\* as anybody is connected (accept_loop, client_loop, set_active).
ActiveIsConnected ==
    /\ active # NoClient => active \in sessions
    /\ active = NoClient => sessions = {}

\* sessions_mutex_ is held across steps only by a login scan, so the lookups
\* nested in it cannot leave it locked.
MapOwnerScans ==
    \A c \in Clients : mapOwner = c <=> pc[c] = "scan"

\* A login without force is never accepted past another open session that
\* held the account all along: whatever binds, closes or goes while the scan
\* runs, find_authenticated_session_by_login overlooks nobody.  (Two
\* challenges that overlap do both succeed: neither holds the account yet.)
ScanOverlooksNobody ==
    \A c \in Clients :
        pc[c] = "bind" /\ ~attempt[c].force => standing[c] = {}

\* The room list of one account is out of reach of every other: a room is
\* rewritten or taken off by the session that hosts it, or by one that goes
\* by the same login at that moment (upsert and remove_for_host match the
\* client id or the login, the clean-up of a session that ends included).
RoomsChangeByOwnAccount ==
    [][\A r \in rooms : r \notin rooms' =>
          \E c \in sessions :
             /\ pc'[c] # pc[c]
             /\ c = r.host \/ (login[c] # NoLogin /\ login[c] = r.login)]_vars

\* A room keeps the id it was listed under for as long as it is listed.
RoomIdsAreStable ==
    [][\A r \in rooms, s \in rooms' : r.ticket = s.ticket => r.id = s.id]_vars

\* A closed session goes: whoever closed it (a forced login, the operator,
\* its own client), its thread takes it out of sessions_, for as long as it
\* does not use the number of its socket for another client's: socket is read
\* without a lock, and close() frees the number.  A thread that was in recv
\* when its session was closed goes in any case.
ClosedSessionsGo ==
    \A c \in Clients :
        closed[c] /\ c \in sessions ~>
            \/ c \notin sessions
            \/ NumberTaken(c) /\ pc[c] \in {"run", "ack", "recv", "stray"}

\* The room list, as a room directory.
Directory ==
    INSTANCE RoomDirectory WITH
        members <- sessions,
        account <- login,
        listing <- {[ticket |-> r.ticket, host |-> r.host, login |-> r.login,
                     mission |-> r.mission] : r \in rooms}

\* The session threads, their locks and the registry implement the room
\* directory: every step is one step of the directory or none.
ImplementsDirectory == Directory!DirSpec
=============================================================================
