------------------------ MODULE LobbySessions_proofs ------------------------
(***************************************************************************)
(* What LobbySessions guarantees for any number of clients, accounts,      *)
(* missions and frames: proofs of its invariants and action properties.    *)
(***************************************************************************)
EXTENDS LobbySessions, WellFoundedInduction, TLAPS

\* TypeOK without the history variable.
ServerTypeOK ==
    /\ RegistryTypeOK
    /\ sessions \subseteq Clients
    /\ mapOwner \in Clients \cup {NoClient}
    /\ nextClient \in Nat
    /\ number \in [Clients -> Clients]
    /\ active \in Clients \cup {NoClient}
    /\ adminTarget \in Clients \cup {NoClient}
    /\ closed \in [Clients -> BOOLEAN]
    /\ login \in [Clients -> Logins \cup {NoLogin}]
    /\ created \in [Clients -> Contexts]
    /\ pc \in [Clients -> Places]
    /\ attempt \in [Clients -> Attempt]
    /\ buffered \in [Clients -> Nat]
    /\ frames \in Nat

-----------------------------------------------------------------------------
(* The registry's operations keep its type *)

\* RoomRegistry::upsert keeps the registry well typed.
LEMMA UpsertType ==
    ASSUME RegistryTypeOK, NEW c \in Clients, NEW l \in Logins \cup {NoLogin},
           NEW m \in Missions, UpsertRoom(c, l, m)
    PROVE  RegistryTypeOK'
<1>1. CASE InsertRoom(c, l, m)
  <2>1. (nextRoomId + 1) % RoomIdSpace \in 0..(RoomIdSpace - 1)
    BY RoomIdSpaceIsWidth DEF RegistryTypeOK
  <2>2. [ticket |-> nextTicket, id |-> nextRoomId, host |-> c, login |-> l,
         mission |-> m] \in Room
    BY DEF RegistryTypeOK, Room
  <2> QED BY <1>1, <2>1, <2>2 DEF InsertRoom, RegistryTypeOK
<1>2. CASE OverwriteRoom(c, l, m)
  <2>1. PICK r \in rooms :
            rooms' = (rooms \ {r})
                \cup {[r EXCEPT !.host = c, !.login = l, !.mission = m]}
    BY <1>2 DEF OverwriteRoom
  <2>2. [r EXCEPT !.host = c, !.login = l, !.mission = m] \in Room
    BY DEF RegistryTypeOK, Room
  <2> QED BY <1>2, <2>1, <2>2 DEF OverwriteRoom, RegistryTypeOK
<1> QED BY <1>1, <1>2 DEF UpsertRoom

\* RoomRegistry::remove_for_host keeps the registry well typed.
LEMMA RemoveType ==
    ASSUME RegistryTypeOK, NEW c \in Clients, NEW l, RemoveForHost(c, l)
    PROVE  RegistryTypeOK'
BY DEF RemoveForHost, Matches, RegistryTypeOK

-----------------------------------------------------------------------------
(* Type correctness *)

\* The server starts typed.
LEMMA InitType == Init => TypeOK
<1> SUFFICES ASSUME Init PROVE TypeOK OBVIOUS
<1>1. RegistryTypeOK
  BY RoomIdSpaceIsWidth DEF Init, RegistryInit, RegistryTypeOK
<1>2. NoAttempt \in Attempt
  BY DEF NoAttempt, Attempt
<1> QED BY <1>1, <1>2 DEF Init, TypeOK, Contexts, Places

\* sessions_.begin() is there whenever sessions_ is not empty.
LEMMA LowestIsLowest ==
    ASSUME NEW S, S \subseteq Nat, S # {}
    PROVE  Lowest(S) \in S /\ \A d \in S : Lowest(S) <= d
<1>1. \E c \in S : \A d \in S : ~ (<<d, c>> \in OpToRel(<, Nat))
  BY NatLessThanWellFounded, WFMin
<1>2. \E c \in S : \A d \in S : c <= d
  <2>1. PICK c \in S : \A d \in S : ~ (<<d, c>> \in OpToRel(<, Nat))
    BY <1>1
  <2>2. ASSUME NEW d \in S PROVE c <= d
    <3>1. <<d, c>> \in Nat \X Nat /\ <<d, c>>[1] = d /\ <<d, c>>[2] = c
      OBVIOUS
    <3>2. <<d, c>> \in OpToRel(<, Nat) <=>
              <<d, c>> \in Nat \X Nat /\ <<d, c>>[1] < <<d, c>>[2]
      BY Zenon DEF OpToRel
    <3>3. ~ (d < c)
      BY <2>1, <3>1, <3>2
    <3> QED BY <3>3
  <2> QED BY <2>2
<1> QED BY <1>2 DEF Lowest

\* Connection lifecycle.
LEMMA ConnectionType ==
    ASSUME ServerTypeOK, NEW c \in Clients,
           \/ Accept \/ LoopAgain(c) \/ CallRecv(c) \/ Receive(c)
           \/ HangUp(c) \/ CloseOwn(c) \/ WithdrawRooms(c) \/ EraseSession(c)
    PROVE  ServerTypeOK'
<1> USE DEF ServerTypeOK, Places
<1>1. CASE Accept
  <2>1. number' \in [Clients -> Clients]
    BY <1>1 DEF Accept, FreeNumbers
  <2> QED BY <1>1, <2>1 DEF Accept, Goto, registryVars, RegistryTypeOK
<1>2. CASE Receive(c)
  BY <1>2, BoundsAreNumbers DEF Receive, Goto, registryVars, RegistryTypeOK
<1>3. CASE HangUp(c)
  BY <1>3 DEF HangUp, Goto, registryVars, RegistryTypeOK
<1>4. CASE CloseOwn(c)
  BY <1>4 DEF CloseOwn, Goto, registryVars, RegistryTypeOK
<1>5. CASE WithdrawRooms(c)
  <2>1. RegistryTypeOK'
    BY <1>5, RemoveType DEF WithdrawRooms
  <2> QED BY <1>5, <2>1 DEF WithdrawRooms, Goto
<1>6. CASE EraseSession(c)
  <2>1. active' \in Clients \cup {NoClient}
    <3>1. sessions' # {} => Lowest(sessions') \in sessions'
      BY <1>6, LowestIsLowest, ClientsAreNumbers DEF EraseSession
    <3> QED BY <1>6, <3>1 DEF EraseSession
  <2> QED BY <1>6, <2>1 DEF EraseSession, Goto, registryVars, RegistryTypeOK
<1>7. CASE LoopAgain(c)
  BY <1>7 DEF LoopAgain, Goto, registryVars, RegistryTypeOK
<1>8. CASE CallRecv(c)
  BY <1>8 DEF CallRecv, Goto, registryVars, RegistryTypeOK
<1> QED BY <1>1, <1>2, <1>3, <1>4, <1>5, <1>6, <1>7, <1>8

\* Logging in.
LEMMA LoginType ==
    ASSUME ServerTypeOK, NEW c \in Clients,
           \/ \E l \in Logins : ConnectLobby(c, l)
           \/ \E l \in Logins, force \in BOOLEAN : StartLogin(c, l, force)
           \/ ScanOn(c) \/ ScanHit(c) \/ ScanMiss(c) \/ Evict(c) \/ Bind(c)
    PROVE  ServerTypeOK'
<1> USE DEF ServerTypeOK, Places
<1>1. ASSUME NEW l \in Logins, ConnectLobby(c, l) PROVE ServerTypeOK'
  BY <1>1 DEF ConnectLobby, TakeFrame, registryVars, RegistryTypeOK
<1>2. ASSUME NEW l \in Logins, NEW force \in BOOLEAN, StartLogin(c, l, force)
      PROVE  ServerTypeOK'
  <2>1. [login |-> l, force |-> force, at |-> 0] \in Attempt
    BY DEF Attempt
  <2> QED BY <1>2, <2>1
          DEF StartLogin, TakeFrame, Goto, registryVars, RegistryTypeOK
<1>3. ASSUME NEW d \in Unexamined(c)
      PROVE  [attempt[c] EXCEPT !.at = d] \in Attempt
  <2>1. d \in Nat
    BY ClientsAreNumbers DEF Unexamined
  <2>2. attempt[c] \in Attempt
    OBVIOUS
  <2> HIDE DEF ServerTypeOK
  <2> QED BY <2>1, <2>2 DEF Attempt
<1>4. CASE ScanOn(c)
  <2>1. PICK d \in Unexamined(c) : attempt' = [attempt EXCEPT ![c].at = d]
    BY <1>4 DEF ScanOn
  <2>2. attempt' \in [Clients -> Attempt]
    BY <2>1, <1>3
  <2> QED BY <1>4, <2>2 DEF ScanOn, registryVars, RegistryTypeOK
<1>5. CASE ScanHit(c)
  <2>1. attempt' \in [Clients -> Attempt]
    <3>1. PICK d \in Unexamined(c) :
              \/ attempt' = [attempt EXCEPT ![c].at = d]
              \/ attempt' = [attempt EXCEPT ![c] = NoAttempt]
      BY <1>5 DEF ScanHit
    <3>2. NoAttempt \in Attempt
      BY DEF NoAttempt, Attempt
    <3> QED BY <3>1, <3>2, <1>3
  <2>2. pc' \in [Clients -> Places]
    BY <1>5 DEF ScanHit, Goto
  <2> QED BY <1>5, <2>1, <2>2 DEF ScanHit, registryVars, RegistryTypeOK
<1>6. CASE ScanMiss(c)
  BY <1>6 DEF ScanMiss, Goto, registryVars, RegistryTypeOK
<1>7. CASE Evict(c)
  BY <1>7 DEF Evict, Goto, registryVars, RegistryTypeOK
<1>8. CASE Bind(c)
  <2>1. attempt[c].login \in Logins \cup {NoLogin} /\ NoAttempt \in Attempt
    BY DEF Attempt, NoAttempt
  <2> QED BY <1>8, <2>1 DEF Bind, Goto, registryVars, RegistryTypeOK
<1> QED BY <1>1, <1>2, <1>4, <1>5, <1>6, <1>7, <1>8

\* Hosting a room, and the operator's commands.
LEMMA RoomType ==
    ASSUME ServerTypeOK, NEW c \in Clients,
           \/ \E m \in Missions \cup {Untitled} : CaptureCreate(c, m)
           \/ PublishRoom(c) \/ BeginLeave(c) \/ AckLeave(c) \/ RemoveRooms(c)
           \/ ClearContext(c) \/ OtherFrame(c)
           \/ UseClient(c) \/ PickActive \/ ClosePicked
    PROVE  ServerTypeOK'
<1> USE DEF ServerTypeOK, Places
<1>1. ASSUME NEW m \in Missions \cup {Untitled}, CaptureCreate(c, m)
      PROVE  ServerTypeOK'
  BY <1>1 DEF CaptureCreate, TakeFrame, Goto, Contexts, registryVars,
              RegistryTypeOK
<1>2. CASE PublishRoom(c)
  <2>1. RegistryTypeOK'
    BY <1>2, UpsertType DEF PublishRoom, registryVars, RegistryTypeOK
  <2> QED BY <1>2, <2>1 DEF PublishRoom, Goto
<1>3. CASE BeginLeave(c)
  BY <1>3 DEF BeginLeave, TakeFrame, Goto, registryVars, RegistryTypeOK
<1>4. CASE AckLeave(c)
  BY <1>4 DEF AckLeave, Abandon, Goto, registryVars, RegistryTypeOK
<1>5. CASE RemoveRooms(c)
  <2>1. RegistryTypeOK'
    BY <1>5, RemoveType DEF RemoveRooms
  <2> QED BY <1>5, <2>1 DEF RemoveRooms, Goto
<1>6. CASE ClearContext(c)
  BY <1>6 DEF ClearContext, Goto, Contexts, registryVars, RegistryTypeOK
<1>7. CASE OtherFrame(c)
  BY <1>7 DEF OtherFrame, TakeFrame, Abandon, Goto, registryVars,
              RegistryTypeOK
<1>8. CASE UseClient(c)
  BY <1>8 DEF UseClient, registryVars, RegistryTypeOK
<1>9. CASE PickActive
  BY <1>9 DEF PickActive, registryVars, RegistryTypeOK
<1>10. CASE ClosePicked
  BY <1>10 DEF ClosePicked, registryVars, RegistryTypeOK
<1> QED BY <1>1, <1>2, <1>3, <1>4, <1>5, <1>6, <1>7, <1>8, <1>9, <1>10

\* A stutter changes nothing.
LEMMA StutterType ==
    ASSUME ServerTypeOK, UNCHANGED serverVars
    PROVE  ServerTypeOK'
BY DEF ServerTypeOK, serverVars, sessionVars, registryVars, RegistryTypeOK

\* Every step of the server keeps its variables typed.
LEMMA ServerType ==
    ASSUME ServerTypeOK, ServerNext
    PROVE  ServerTypeOK'
<1>1. CASE Accept
  <2>1. nextClient \in Clients
    BY <1>1 DEF Accept
  <2> QED BY <1>1, <2>1, ConnectionType
<1>2. CASE PickActive \/ ClosePicked
  <2>1. \E c \in Clients : TRUE
    BY <1>2, NoClientIsNone DEF PickActive, ClosePicked, ServerTypeOK
  <2> QED BY <1>2, <2>1, RoomType
<1>3. ASSUME NEW c \in Clients, SessionNext(c) \/ UseClient(c)
      PROVE  ServerTypeOK'
  <2>1. CASE Receive(c) \/ HangUp(c) \/ UseClient(c)
    BY <2>1, ConnectionType, RoomType
  <2>2. CASE OwnSteps(c)
    BY <2>2, ConnectionType, LoginType, RoomType DEF OwnSteps
  <2>3. CASE SocketSteps(c)
    BY <2>3, ConnectionType, LoginType, RoomType DEF SocketSteps, FrameSteps
  <2> QED BY <1>3, <2>1, <2>2, <2>3 DEF SessionNext
<1> QED BY <1>1, <1>2, <1>3 DEF ServerNext

\* The history variable stays a set of sessions per client.
LEMMA WatchType ==
    ASSUME TypeOK, Watch
    PROVE  standing' \in [Clients -> SUBSET Clients]
BY DEF TypeOK, Watch

\* Every step, the history variable included.
LEMMA TypeStep == TypeOK /\ [Next]_vars => TypeOK'
<1> SUFFICES ASSUME TypeOK, [Next]_vars PROVE TypeOK' OBVIOUS
<1>1. ServerTypeOK
  BY DEF TypeOK, ServerTypeOK
<1>2. CASE Next
  <2>1. ServerTypeOK'
    BY <1>1, <1>2, ServerType DEF Next
  <2>2. standing' \in [Clients -> SUBSET Clients]
    BY <1>2, WatchType DEF Next
  <2> QED BY <2>1, <2>2 DEF TypeOK, ServerTypeOK
<1>3. CASE UNCHANGED vars
  <2>1. ServerTypeOK' /\ standing' = standing
    BY <1>1, <1>3, StutterType DEF vars
  <2> QED BY <2>1 DEF TypeOK, ServerTypeOK
<1> QED BY <1>2, <1>3

\* Every variable keeps its type, for any number of clients: the accept loop,
\* the session threads and the operator between them never produce a session
\* state, a room or an active client outside the declared ranges.
THEOREM TypeCorrect == Spec => []TypeOK
BY InitType, TypeStep, PTL DEF Spec

-----------------------------------------------------------------------------
(* Rooms and the sessions that host them *)

\* A session is in sessions_ exactly while its thread is in client_loop; its
\* rooms are off the list from remove_created_rooms_for_session on, and also
\* between the two halves of a leave.
Hosting ==
    /\ \A c \in Clients : c \in sessions <=> pc[c] \notin {"absent", "gone"}
    /\ RoomsHaveHosts
    /\ RoomsHaveContexts
    /\ \A r \in rooms : pc[r.host] # "clear"

\* Nobody is there and nothing is listed at the start.
LEMMA HostingInit == Init => Hosting
BY DEF Init, RegistryInit, Hosting, RoomsHaveHosts, RoomsHaveContexts

\* A step of one thread, to a place that neither ends the session nor forgets
\* the context, disturbs nothing.
LEMMA MoveKeepsHosting ==
    ASSUME TypeOK, Hosting, NEW c \in Clients, NEW place \in Places,
           pc[c] \notin {"absent", "gone"},
           place \notin {"absent", "gone", "erase", "clear"},
           rooms' = rooms, sessions' = sessions,
           pc' = [pc EXCEPT ![c] = place],
           \/ created' = created
           \/ \E m \in Missions \cup {Untitled} :
                 created' = [created EXCEPT ![c] = m]
    PROVE  Hosting'
<1>1. \A r \in rooms : r.host \in Clients
  BY DEF TypeOK, RegistryTypeOK, Room
<1>2. NoMission \notin Missions \cup {Untitled}
  BY NoMissionIsNone, ContextsDiffer
<1> QED BY <1>1, <1>2 DEF TypeOK, Hosting, RoomsHaveHosts, RoomsHaveContexts

\* A step that touches none of this.
LEMMA IdleKeepsHosting ==
    ASSUME Hosting, UNCHANGED <<rooms, sessions, pc, created>>
    PROVE  Hosting'
BY DEF Hosting, RoomsHaveHosts, RoomsHaveContexts

\* Taking a session's rooms off the list leaves none that it hosts.
LEMMA RemovalKeepsHosting ==
    ASSUME TypeOK, Hosting, NEW c \in Clients,
           WithdrawRooms(c) \/ RemoveRooms(c)
    PROVE  Hosting'
<1>1. /\ rooms' = rooms \ Matches(c, login[c])
      /\ sessions' = sessions /\ created' = created
      /\ pc[c] \in {"withdraw", "remove"}
      /\ \E place \in {"erase", "clear"} : pc' = [pc EXCEPT ![c] = place]
  BY DEF WithdrawRooms, RemoveRooms, RemoveForHost, Goto
<1>2. \A r \in rooms' : r \in rooms /\ r.host \in Clients /\ r.host # c
  BY <1>1 DEF Matches, MatchesHost, TypeOK, RegistryTypeOK, Room
<1> QED BY <1>1, <1>2 DEF TypeOK, Hosting, RoomsHaveHosts, RoomsHaveContexts

\* A room that is published is hosted by a session in the middle of 0x0C,
\* whoever hosted it before.
LEMMA PublishKeepsHosting ==
    ASSUME TypeOK, Hosting, NEW c \in Clients, PublishRoom(c)
    PROVE  Hosting'
<1>1. /\ pc[c] = "upsert" /\ pc' = [pc EXCEPT ![c] = "run"]
      /\ sessions' = sessions /\ created' = created
  BY DEF PublishRoom, Goto
<1>2. CASE created[c] \notin Missions
  <2>1. rooms' = rooms
    BY <1>2 DEF PublishRoom, registryVars
  <2> QED BY <1>1, <2>1, MoveKeepsHosting DEF Places
<1>3. CASE created[c] \in Missions
  <2>1. \A r \in rooms' : r \in rooms \/ r.host = c
    <3>1. CASE InsertRoom(c, login[c], created[c])
      BY <3>1 DEF InsertRoom
    <3>2. CASE OverwriteRoom(c, login[c], created[c])
      <4>1. PICK r \in rooms :
                rooms' = (rooms \ {r})
                    \cup {[r EXCEPT !.host = c, !.login = login[c],
                                    !.mission = created[c]]}
        BY <3>2 DEF OverwriteRoom
      <4>2. r \in Room
        BY DEF TypeOK, RegistryTypeOK
      <4> QED BY <4>1, <4>2 DEF Room
    <3> QED BY <1>3, <3>1, <3>2 DEF PublishRoom, UpsertRoom
  <2>2. created[c] # NoMission
    BY <1>3, NoMissionIsNone
  <2>3. \A r \in rooms : r.host \in Clients
    BY DEF TypeOK, RegistryTypeOK, Room
  <2> QED BY <1>1, <2>1, <2>2, <2>3
          DEF TypeOK, Hosting, RoomsHaveHosts, RoomsHaveContexts
<1> QED BY <1>2, <1>3

\* Every step keeps hosts and rooms together.
LEMMA HostingStep == TypeOK /\ Hosting /\ [Next]_vars => Hosting'
<1> SUFFICES ASSUME TypeOK, Hosting, [Next]_vars PROVE Hosting' OBVIOUS
<1>0. \A r \in rooms : r.host \in Clients
  BY DEF TypeOK, RegistryTypeOK, Room
<1>1. CASE Accept
  BY <1>0, <1>1 DEF Accept, Goto, registryVars, TypeOK, Hosting,
                    RoomsHaveHosts, RoomsHaveContexts
<1>2. CASE PickActive \/ ClosePicked
  BY <1>2, IdleKeepsHosting DEF PickActive, ClosePicked, registryVars
<1>3. ASSUME NEW c \in Clients,
             \/ UseClient(c) \/ ScanOn(c)
             \/ \E l \in Logins : ConnectLobby(c, l)
      PROVE  Hosting'
  BY <1>3, IdleKeepsHosting
     DEF UseClient, ScanOn, ConnectLobby, registryVars
<1>4. ASSUME NEW c \in Clients,
             \/ LoopAgain(c) \/ CallRecv(c) \/ Receive(c) \/ HangUp(c)
             \/ CloseOwn(c) \/ ScanMiss(c) \/ Evict(c) \/ Bind(c)
             \/ \E l \in Logins, force \in BOOLEAN : StartLogin(c, l, force)
             \/ \E m \in Missions \cup {Untitled} : CaptureCreate(c, m)
             \/ BeginLeave(c)
      PROVE  Hosting'
  <2>1. /\ rooms' = rooms /\ sessions' = sessions
        /\ pc[c] \notin {"absent", "gone"}
        /\ \E place \in {"recv", "wait", "stray", "close", "withdraw", "bind",
                         "run", "scan", "upsert", "ack"} :
              pc' = [pc EXCEPT ![c] = place]
        /\ \/ created' = created
           \/ \E m \in Missions \cup {Untitled} :
                 created' = [created EXCEPT ![c] = m]
    BY <1>4 DEF LoopAgain, CallRecv, Receive, HangUp, CloseOwn, ScanMiss,
                Evict, Bind, StartLogin, CaptureCreate, BeginLeave, TakeFrame,
                Goto, registryVars
  <2> QED BY <2>1, MoveKeepsHosting DEF Places
<1>5. ASSUME NEW c \in Clients, ScanHit(c) \/ AckLeave(c) \/ OtherFrame(c)
      PROVE  Hosting'
  <2>1. /\ rooms' = rooms /\ sessions' = sessions /\ created' = created
        /\ pc[c] \notin {"absent", "gone"}
        /\ \/ pc' = pc
           \/ \E place \in {"evict", "run", "remove", "close"} :
                 pc' = [pc EXCEPT ![c] = place]
    BY <1>5 DEF ScanHit, AckLeave, OtherFrame, Abandon, TakeFrame, Goto,
                registryVars
  <2> QED BY <2>1, MoveKeepsHosting, IdleKeepsHosting DEF Places
<1>6. ASSUME NEW c \in Clients, WithdrawRooms(c) \/ RemoveRooms(c)
      PROVE  Hosting'
  BY <1>6, RemovalKeepsHosting
<1>7. ASSUME NEW c \in Clients, PublishRoom(c) PROVE Hosting'
  BY <1>7, PublishKeepsHosting
<1>8. ASSUME NEW c \in Clients, ClearContext(c) PROVE Hosting'
  BY <1>0, <1>8 DEF ClearContext, Goto, registryVars, TypeOK, Hosting,
                    RoomsHaveHosts, RoomsHaveContexts
<1>9. ASSUME NEW c \in Clients, EraseSession(c) PROVE Hosting'
  BY <1>0, <1>9 DEF EraseSession, Goto, registryVars, TypeOK, Hosting,
                    RoomsHaveHosts, RoomsHaveContexts
<1>10. CASE UNCHANGED vars
  BY <1>10, IdleKeepsHosting DEF vars, serverVars, sessionVars, registryVars
<1> QED BY <1>1, <1>2, <1>3, <1>4, <1>5, <1>6, <1>7, <1>8, <1>9, <1>10
        DEF Next, ServerNext, SessionNext, OwnSteps, SocketSteps, FrameSteps

\* So they are together in every reachable state.
LEMMA HostingInvariant == Spec => [](TypeOK /\ Hosting)
BY InitType, TypeStep, HostingInit, HostingStep, PTL DEF Spec

\* However sessions end, are evicted or take each other's rooms over, every
\* listed room is hosted by a session that is still connected.
THEOREM HostsAreConnected == Spec => []RoomsHaveHosts
<1>1. Hosting => RoomsHaveHosts BY DEF Hosting
<1> QED BY HostingInvariant, <1>1, PTL

\* A session that has left its room, or never had one, is not the host of any
\* room on the list.
THEOREM HostsHaveContexts == Spec => []RoomsHaveContexts
<1>1. Hosting => RoomsHaveContexts BY DEF Hosting
<1> QED BY HostingInvariant, <1>1, PTL

-----------------------------------------------------------------------------
(* Room ids *)

\* Id j comes d rooms after id i, at a distance that has not gone round.
Follows(i, j, d) ==
    d < RoomIdSpace => j = i + d \/ j = i + d - RoomIdSpace

\* Tickets name rooms, and within one round of next_room_id_ the ids are as
\* far apart as the tickets.
Numbering ==
    /\ \A r \in rooms : /\ r.ticket < nextTicket
                        /\ Follows(r.id, nextRoomId, nextTicket - r.ticket)
    /\ \A r, s \in rooms :
          /\ r.ticket = s.ticket => r = s
          /\ r.ticket <= s.ticket => Follows(r.id, s.id, s.ticket - r.ticket)

\* An empty list is numbered.
LEMMA NumberingInit == Init => Numbering
BY DEF Init, RegistryInit, Numbering

\* A new room continues the numbering.
LEMMA InsertKeepsNumbering ==
    ASSUME RegistryTypeOK, Numbering, NEW c \in Clients,
           NEW l \in Logins \cup {NoLogin}, NEW m \in Missions,
           InsertRoom(c, l, m)
    PROVE  Numbering'
<1> DEFINE new == [ticket |-> nextTicket, id |-> nextRoomId, host |-> c,
                   login |-> l, mission |-> m]
<1>1. /\ rooms' = rooms \cup {new}
      /\ nextTicket' = nextTicket + 1
      /\ nextRoomId' = (nextRoomId + 1) % RoomIdSpace
  BY DEF InsertRoom
<1>2. /\ RoomIdSpace \in Nat /\ RoomIdSpace > 1
      /\ nextTicket \in Nat /\ nextRoomId \in 0..(RoomIdSpace - 1)
      /\ \A r \in rooms : r.ticket \in Nat /\ r.id \in 0..(RoomIdSpace - 1)
  BY RoomIdSpaceIsWidth DEF RegistryTypeOK, Room
<1>3. nextRoomId' = nextRoomId + 1 \/ nextRoomId' = nextRoomId + 1 - RoomIdSpace
  BY <1>1, <1>2
<1>4. nextRoomId' \in 0..(RoomIdSpace - 1)
  BY <1>1, <1>2
<1>5. /\ new.ticket = nextTicket
      /\ new.id = nextRoomId
  OBVIOUS
<1>6. ASSUME NEW r \in rooms'
      PROVE  /\ r.ticket < nextTicket'
             /\ Follows(r.id, nextRoomId', nextTicket' - r.ticket)
  BY <1>1, <1>2, <1>3, <1>4, <1>5 DEF Numbering, Follows
<1>7. ASSUME NEW r \in rooms', NEW s \in rooms'
      PROVE  /\ r.ticket = s.ticket => r = s
             /\ r.ticket <= s.ticket => Follows(r.id, s.id, s.ticket - r.ticket)
  <2>1. CASE r \in rooms /\ s \in rooms
    BY <2>1 DEF Numbering
  <2>2. CASE r \in rooms /\ s = new
    BY <2>2, <1>2, <1>5 DEF Numbering
  <2>3. CASE r = new /\ s \in rooms
    BY <2>3, <1>2, <1>5 DEF Numbering
  <2>4. CASE r = new /\ s = new
    BY <2>4, <1>2, <1>5 DEF Follows
  <2> QED BY <1>1, <2>1, <2>2, <2>3, <2>4
<1> QED BY <1>6, <1>7 DEF Numbering, Follows

\* A room that is overwritten keeps its ticket and its id.
LEMMA OverwriteKeepsNumbering ==
    ASSUME RegistryTypeOK, Numbering, NEW c, NEW l, NEW m,
           OverwriteRoom(c, l, m)
    PROVE  /\ Numbering'
           /\ \A r \in rooms, s \in rooms' : r.ticket = s.ticket => r.id = s.id
<1>1. PICK r \in rooms :
          rooms' = (rooms \ {r})
              \cup {[r EXCEPT !.host = c, !.login = l, !.mission = m]}
  BY DEF OverwriteRoom
<1> DEFINE renewed == [r EXCEPT !.host = c, !.login = l, !.mission = m]
<1>2. renewed.ticket = r.ticket /\ renewed.id = r.id
  BY DEF RegistryTypeOK, Room
<1>3. \A s \in rooms' : \/ s \in rooms /\ s # r
                        \/ s = renewed
  BY <1>1
<1>4. nextTicket' = nextTicket /\ nextRoomId' = nextRoomId
  BY DEF OverwriteRoom
<1> HIDE DEF renewed
<1>5. \A s \in rooms' : \E o \in rooms : o.ticket = s.ticket /\ o.id = s.id
  BY <1>2, <1>3
<1>6. \A s, t \in rooms' : s.ticket = t.ticket => s = t
  BY <1>2, <1>3 DEF Numbering
<1> QED BY <1>4, <1>5, <1>6 DEF Numbering, Follows

\* Every step keeps the numbering, and the id of every room that stays.
LEMMA NumberingStep ==
    ASSUME TypeOK, Numbering, [Next]_vars
    PROVE  /\ Numbering'
           /\ \A r \in rooms, s \in rooms' : r.ticket = s.ticket => r.id = s.id
<1>1. ASSUME NEW c \in Clients, PublishRoom(c), created[c] \in Missions
      PROVE  /\ Numbering'
             /\ \A r \in rooms, s \in rooms' :
                    r.ticket = s.ticket => r.id = s.id
  <2>1. RegistryTypeOK /\ login[c] \in Logins \cup {NoLogin}
    BY DEF TypeOK
  <2>2. CASE InsertRoom(c, login[c], created[c])
    <3>1. Numbering'
      BY <1>1, <2>1, <2>2, InsertKeepsNumbering
    <3>2. \A s \in rooms' : s \in rooms \/ s.ticket = nextTicket
      BY <2>2 DEF InsertRoom
    <3>3. \A r \in rooms : r.ticket # nextTicket
      BY <2>1 DEF Numbering, RegistryTypeOK, Room
    <3> QED BY <3>1, <3>2, <3>3 DEF Numbering
  <2>3. CASE OverwriteRoom(c, login[c], created[c])
    BY <2>1, <2>3, OverwriteKeepsNumbering
  <2> QED BY <1>1, <2>2, <2>3 DEF PublishRoom, UpsertRoom
<1>2. ASSUME rooms' \subseteq rooms, UNCHANGED <<nextTicket, nextRoomId>>
      PROVE  /\ Numbering'
             /\ \A r \in rooms, s \in rooms' :
                    r.ticket = s.ticket => r.id = s.id
  BY <1>2 DEF Numbering, Follows
<1>3. ASSUME NEW c \in Clients, WithdrawRooms(c) \/ RemoveRooms(c)
      PROVE  rooms' \subseteq rooms /\ UNCHANGED <<nextTicket, nextRoomId>>
  BY <1>3 DEF WithdrawRooms, RemoveRooms, RemoveForHost
<1>4. ASSUME NEW c \in Clients, PublishRoom(c), created[c] \notin Missions
      PROVE  rooms' \subseteq rooms /\ UNCHANGED <<nextTicket, nextRoomId>>
  BY <1>4 DEF PublishRoom, registryVars
<1>5. \/ UNCHANGED registryVars
      \/ \E c \in Clients :
            PublishRoom(c) \/ WithdrawRooms(c) \/ RemoveRooms(c)
  BY DEF Next, ServerNext, SessionNext, OwnSteps, SocketSteps, FrameSteps,
         vars, serverVars, Accept, LoopAgain, CallRecv, Receive, HangUp,
         CloseOwn, EraseSession, ConnectLobby, StartLogin, ScanOn, ScanHit,
         ScanMiss, Evict, Bind, CaptureCreate, BeginLeave, AckLeave,
         ClearContext, OtherFrame, UseClient, PickActive, ClosePicked
<1>6. CASE UNCHANGED registryVars
  BY <1>2, <1>6 DEF registryVars
<1> QED BY <1>1, <1>2, <1>3, <1>4, <1>5, <1>6

\* So the list is numbered in every reachable state.
LEMMA NumberingInvariant == Spec => [](TypeOK /\ Numbering)
<1>1. TypeOK /\ Numbering /\ [Next]_vars => Numbering' BY NumberingStep
<1> QED BY InitType, TypeStep, NumberingInit, <1>1, PTL DEF Spec

\* Two listed rooms carry the same 16-bit id only when next_room_id_ has gone
\* all the way round between their creations.
THEOREM IdsTellApart == Spec => []RoomIdsTellApart
<1>1. TypeOK /\ Numbering => RoomIdsTellApart
  <2> SUFFICES ASSUME TypeOK, Numbering, NEW r \in rooms, NEW s \in rooms,
                      r # s, r.id = s.id
               PROVE  \/ r.ticket - s.ticket >= RoomIdSpace
                      \/ s.ticket - r.ticket >= RoomIdSpace
    BY DEF RoomIdsTellApart
  <2>1. r.ticket \in Nat /\ s.ticket \in Nat /\ r.id \in Nat
        /\ RoomIdSpace \in Nat
    BY RoomIdSpaceIsWidth DEF TypeOK, RegistryTypeOK, Room
  <2>2. r.ticket # s.ticket
    BY DEF Numbering
  <2> QED BY <2>1, <2>2 DEF Numbering, Follows
<1> QED BY NumberingInvariant, <1>1, PTL

\* A room keeps its id for as long as it is listed, through every upsert.
THEOREM IdsAreStable == Spec => RoomIdsAreStable
<1>1. TypeOK /\ Numbering /\ [Next]_vars =>
        [\A r \in rooms, s \in rooms' : r.ticket = s.ticket => r.id = s.id]_vars
  BY NumberingStep
<1> QED BY NumberingInvariant, <1>1, PTL DEF Spec, RoomIdsAreStable

-----------------------------------------------------------------------------
(* Whose rooms a step may touch *)

\* RoomRegistry::upsert replaces at most one room, and one that matches.
LEMMA UpsertTouchesMatches ==
    ASSUME NEW c, NEW l, NEW m, UpsertRoom(c, l, m),
           NEW r \in rooms, r \notin rooms'
    PROVE  MatchesHost(r, c, l)
BY DEF UpsertRoom, InsertRoom, OverwriteRoom, IsFirstMatch, Matches

\* A room is rewritten or removed only by the session that hosts it or by one
\* that goes by its login: publishing, leaving and the clean-up of an ended
\* session included.
THEOREM AccountsKeepTheirRooms == Spec => RoomsChangeByOwnAccount
<1>1. TypeOK /\ Hosting /\ [Next]_vars =>
        [\A r \in rooms : r \notin rooms' =>
            \E c \in sessions :
               /\ pc'[c] # pc[c]
               /\ c = r.host \/ (login[c] # NoLogin /\ login[c] = r.login)]_vars
  <2> SUFFICES ASSUME TypeOK, Hosting, [Next]_vars,
                      NEW r \in rooms, r \notin rooms'
               PROVE  \E c \in sessions :
                         /\ pc'[c] # pc[c]
                         /\ \/ c = r.host
                            \/ login[c] # NoLogin /\ login[c] = r.login
    OBVIOUS
  <2>1. \E c \in Clients : PublishRoom(c) \/ WithdrawRooms(c) \/ RemoveRooms(c)
    BY DEF Next, ServerNext, SessionNext, OwnSteps, SocketSteps, FrameSteps,
           vars, serverVars, registryVars, Accept, LoopAgain, CallRecv,
           Receive, HangUp, CloseOwn, EraseSession, ConnectLobby, StartLogin,
           ScanOn, ScanHit, ScanMiss, Evict, Bind, CaptureCreate, BeginLeave,
           AckLeave, ClearContext, OtherFrame, UseClient, PickActive,
           ClosePicked
  <2>2. PICK c \in Clients : PublishRoom(c) \/ WithdrawRooms(c) \/ RemoveRooms(c)
    BY <2>1
  <2>3. MatchesHost(r, c, login[c])
    <3>1. CASE PublishRoom(c)
      <4>1. UpsertRoom(c, login[c], created[c])
        BY <3>1 DEF PublishRoom, registryVars
      <4> QED BY <4>1, UpsertTouchesMatches
    <3>2. CASE WithdrawRooms(c) \/ RemoveRooms(c)
      BY <3>2 DEF WithdrawRooms, RemoveRooms, RemoveForHost, Matches
    <3> QED BY <2>2, <3>1, <3>2
  <2>4. pc'[c] # pc[c] /\ pc[c] \notin {"absent", "gone"}
    BY <2>2 DEF PublishRoom, WithdrawRooms, RemoveRooms, Goto, TypeOK
  <2>5. c \in sessions
    BY <2>4 DEF Hosting
  <2> QED BY <2>3, <2>4, <2>5 DEF MatchesHost
<1> QED BY HostingInvariant, <1>1, PTL DEF Spec, RoomsChangeByOwnAccount

-----------------------------------------------------------------------------
(* The locks and the sessions a login challenge works with *)

\* Every step takes and releases sessions_mutex_ together with its place.
LEMMA MapOwnerStep ==
    TypeOK /\ MapOwnerScans /\ [Next]_vars => MapOwnerScans'
<1> SUFFICES ASSUME TypeOK, MapOwnerScans, [Next]_vars PROVE MapOwnerScans'
  OBVIOUS
<1>1. CASE Accept \/ PickActive \/ ClosePicked \/ UNCHANGED vars
  BY <1>1, NoClientIsNone
     DEF Accept, PickActive, ClosePicked, vars, serverVars, sessionVars,
         MapFree, Goto, MapOwnerScans, TypeOK
<1>2. ASSUME NEW c \in Clients, \E l \in Logins, force \in BOOLEAN :
                                   StartLogin(c, l, force)
      PROVE  MapOwnerScans'
  BY <1>2, NoClientIsNone
     DEF StartLogin, TakeFrame, MapFree, Goto, MapOwnerScans, TypeOK
<1>3. ASSUME NEW c \in Clients, ScanHit(c) \/ ScanMiss(c)
      PROVE  MapOwnerScans'
  BY <1>3, NoClientIsNone DEF ScanHit, ScanMiss, Goto, MapOwnerScans, TypeOK
<1>4. ASSUME NEW c \in Clients,
             \/ LoopAgain(c) \/ CallRecv(c) \/ Receive(c) \/ HangUp(c)
             \/ UseClient(c)
             \/ CloseOwn(c) \/ WithdrawRooms(c) \/ EraseSession(c)
             \/ ScanOn(c) \/ Evict(c) \/ Bind(c) \/ PublishRoom(c)
             \/ AckLeave(c) \/ RemoveRooms(c) \/ ClearContext(c)
             \/ \E l \in Logins : ConnectLobby(c, l)
             \/ \E m \in Missions \cup {Untitled} : CaptureCreate(c, m)
             \/ BeginLeave(c) \/ OtherFrame(c)
      PROVE  MapOwnerScans'
  <2>1. /\ mapOwner' = mapOwner
        /\ \/ pc' = pc
           \/ /\ pc[c] # "scan"
              /\ \E place \in Places \ {"scan"} :
                    pc' = [pc EXCEPT ![c] = place]
    BY <1>4 DEF LoopAgain, CallRecv, Receive, HangUp, UseClient, CloseOwn,
                WithdrawRooms, EraseSession, ScanOn, Evict, Bind, PublishRoom,
                AckLeave, Abandon, RemoveRooms, ClearContext, ConnectLobby,
                CaptureCreate, BeginLeave, OtherFrame, TakeFrame, Goto, Places
  <2> QED BY <2>1 DEF MapOwnerScans, TypeOK
<1> QED BY <1>1, <1>2, <1>3, <1>4
        DEF Next, ServerNext, SessionNext, OwnSteps, SocketSteps, FrameSteps

\* So the lock and the scans agree in every reachable state.
LEMMA MapOwnerInvariant == Spec => [](TypeOK /\ MapOwnerScans)
<1>1. Init => MapOwnerScans
  <2>1. Init => mapOwner = NoClient /\ pc = [c \in Clients |-> "absent"]
    BY DEF Init
  <2> QED BY <2>1, NoClientIsNone DEF MapOwnerScans
<1> QED BY InitType, TypeStep, <1>1, MapOwnerStep, PTL DEF Spec

\* Only a scan holds sessions_mutex_ from one step to the next, and every way
\* out of it releases the lock.
THEOREM OnlyScansHoldTheMap == Spec => []MapOwnerScans
BY MapOwnerInvariant, PTL

-----------------------------------------------------------------------------
(* The scan *)

Attempting == {"scan", "evict", "bind"}

\* The sessions that have held the wanted login all along are still ahead of
\* the scan; past the scan there are none, unless the login is forced.
ScanInv ==
    \A c \in Clients :
        /\ pc[c] = "scan" => standing[c] \subseteq Unexamined(c)
        /\ pc[c] \in Attempting =>
              \A d \in standing[c] : HoldsLogin(d, attempt[c].login)
        /\ pc[c] = "evict" => attempt[c].force
        /\ pc[c] = "bind" /\ ~attempt[c].force => standing[c] = {}

\* What a step can mean to a client c: it is c's own move in a challenge, or
\* leaves c's challenge alone, and then nobody comes or goes during its scan.
LEMMA ChallengeSteps ==
    ASSUME TypeOK, MapOwnerScans, ServerNext, NEW c \in Clients
    PROVE  \/ \E l \in Logins, force \in BOOLEAN : StartLogin(c, l, force)
           \/ ScanOn(c) \/ ScanHit(c) \/ ScanMiss(c) \/ Evict(c)
           \/ pc'[c] \notin Attempting
           \/ /\ pc'[c] = pc[c] /\ attempt'[c] = attempt[c]
              /\ pc[c] = "scan" => sessions' = sessions
<1> DEFINE Left ==
        \/ pc'[c] \notin Attempting
        \/ /\ pc'[c] = pc[c] /\ attempt'[c] = attempt[c]
           /\ pc[c] = "scan" => sessions' = sessions
<1>1. pc[c] = "scan" => ~MapFree
  BY NoClientIsNone DEF MapOwnerScans, MapFree
<1>2. CASE Accept \/ PickActive \/ ClosePicked
  <2>1. CASE Accept
    BY <2>1, <1>1 DEF Accept, Goto, TypeOK, Attempting
  <2> QED BY <1>2, <2>1 DEF PickActive, ClosePicked
<1>3. ASSUME NEW d \in Clients,
             \/ LoopAgain(d) \/ CallRecv(d) \/ Receive(d) \/ HangUp(d)
             \/ UseClient(d)
             \/ CloseOwn(d) \/ WithdrawRooms(d) \/ EraseSession(d)
             \/ Bind(d) \/ PublishRoom(d)
             \/ AckLeave(d) \/ RemoveRooms(d) \/ ClearContext(d)
             \/ \E l \in Logins : ConnectLobby(d, l)
             \/ \E m \in Missions \cup {Untitled} : CaptureCreate(d, m)
             \/ BeginLeave(d) \/ OtherFrame(d)
      PROVE  Left
  <2>1. /\ MapFree \/ sessions' = sessions
        /\ attempt' = attempt \/ Bind(d)
        /\ \/ pc' = pc /\ attempt' = attempt
           \/ \E place \in Places \ Attempting : pc' = [pc EXCEPT ![d] = place]
    BY <1>3 DEF LoopAgain, CallRecv, Receive, HangUp, UseClient, CloseOwn,
                WithdrawRooms, EraseSession, Bind, PublishRoom, AckLeave,
                Abandon, RemoveRooms, ClearContext, ConnectLobby,
                CaptureCreate, BeginLeave, OtherFrame, TakeFrame, Goto, Places,
                Attempting
  <2>2. d # c => attempt'[c] = attempt[c]
    BY <2>1 DEF Bind, TypeOK
  <2> QED BY <1>1, <2>1, <2>2 DEF TypeOK
<1>4. ASSUME NEW d \in Clients, d # c,
             \/ \E l \in Logins, force \in BOOLEAN : StartLogin(d, l, force)
             \/ ScanOn(d) \/ ScanHit(d) \/ ScanMiss(d) \/ Evict(d)
      PROVE  Left
  BY <1>4 DEF StartLogin, ScanOn, ScanHit, ScanMiss, Evict, Goto, TypeOK
<1> QED BY <1>2, <1>3, <1>4
        DEF ServerNext, SessionNext, OwnSteps, SocketSteps, FrameSteps

\* What Watch makes of standing[c] during a challenge.
LEMMA WatchShrinks ==
    ASSUME TypeOK, Watch, NEW c \in Clients, pc'[c] \in Attempting,
           ~ (pc[c] = "run" /\ pc'[c] = "scan")
    PROVE  standing'[c] = {d \in standing[c] :
                              ~closed'[d] /\ login'[d] = attempt[c].login}
BY DEF Watch, Attempting

\* Every step keeps what the scans know.
LEMMA ScanStep ==
    ASSUME TypeOK, MapOwnerScans, ScanInv, Next
    PROVE  ScanInv'
<1> SUFFICES ASSUME NEW c \in Clients, pc'[c] \in Attempting
             PROVE  /\ pc'[c] = "scan" => standing'[c] \subseteq Unexamined(c)'
                    /\ \A d \in standing'[c] : HoldsLogin(d, attempt[c].login)'
                    /\ pc'[c] = "evict" => attempt'[c].force
                    /\ pc'[c] = "bind" /\ ~attempt'[c].force => standing'[c] = {}
  BY DEF ScanInv, Attempting
<1> USE DEF Attempting
<1>1. ASSUME NEW l \in Logins, NEW force \in BOOLEAN, StartLogin(c, l, force)
      PROVE  /\ pc'[c] = "scan"
             /\ standing'[c] \subseteq Unexamined(c)'
             /\ \A d \in standing'[c] : HoldsLogin(d, attempt[c].login)'
  <2>1. /\ pc[c] = "run" /\ pc'[c] = "scan"
        /\ attempt'[c] = [login |-> l, force |-> force, at |-> 0]
        /\ sessions' = sessions /\ closed' = closed /\ login' = login
    BY <1>1 DEF StartLogin, TakeFrame, Goto, TypeOK
  <2>2. standing'[c] = {d \in sessions \ {c} : HoldsLogin(d, l)}
    BY <2>1 DEF Next, Watch
  <2>3. \A d \in sessions : d > 0
    BY ClientsAreNumbers DEF TypeOK
  <2> QED BY <2>1, <2>2, <2>3 DEF Unexamined, HoldsLogin
<1>2. ASSUME pc[c] \in Attempting, attempt'[c].login = attempt[c].login
      PROVE  /\ standing'[c] \subseteq standing[c]
             /\ \A d \in standing'[c] : HoldsLogin(d, attempt[c].login)'
  <2>1. standing'[c] = {d \in standing[c] :
                          ~closed'[d] /\ login'[d] = attempt[c].login}
    BY <1>2, WatchShrinks DEF Next
  <2> QED BY <1>2, <2>1 DEF HoldsLogin
<1>3. CASE ScanOn(c)
  <2>1. PICK d \in Unexamined(c) :
            /\ \A e \in Unexamined(c) : d <= e
            /\ ~HoldsLogin(d, attempt[c].login)
            /\ attempt' = [attempt EXCEPT ![c].at = d]
    BY <1>3 DEF ScanOn
  <2>2. /\ pc[c] = "scan" /\ pc' = pc /\ sessions' = sessions
        /\ attempt'[c].login = attempt[c].login /\ attempt'[c].at = d
    BY <1>3, <2>1 DEF ScanOn, TypeOK, Attempt
  <2>3. \A e \in Unexamined(c) : e \in Nat
    BY ClientsAreNumbers DEF Unexamined, TypeOK
  <2>4. standing[c] \subseteq Unexamined(c) \ {d}
    BY <2>1, <2>2 DEF ScanInv
  <2>5. Unexamined(c) \ {d} \subseteq Unexamined(c)'
    BY <2>1, <2>2, <2>3 DEF Unexamined
  <2> QED BY <1>2, <2>2, <2>4, <2>5
<1>4. CASE ScanHit(c)
  <2>1. pc[c] = "scan" /\ pc'[c] = "evict" /\ attempt[c].force
    BY <1>4 DEF ScanHit, Goto, TypeOK
  <2>2. attempt'[c].login = attempt[c].login /\ attempt'[c].force
    <3>1. attempt \in [Clients -> Attempt]
      BY DEF TypeOK
    <3>2. \E d \in Unexamined(c) : attempt' = [attempt EXCEPT ![c].at = d]
      BY <1>4, <2>1 DEF ScanHit
    <3> QED BY <2>1, <3>1, <3>2 DEF Attempt
  <2> QED BY <1>2, <2>1, <2>2
<1>5. CASE ScanMiss(c)
  <2>1. pc[c] = "scan" /\ pc'[c] = "bind" /\ attempt' = attempt
    BY <1>5 DEF ScanMiss, Goto, TypeOK
  <2>2. standing[c] = {}
    BY <1>5, <2>1 DEF ScanMiss, ScanInv
  <2> QED BY <1>2, <2>1, <2>2
<1>6. CASE Evict(c)
  <2>1. pc[c] = "evict" /\ pc'[c] = "bind" /\ attempt' = attempt
    BY <1>6 DEF Evict, Goto, TypeOK
  <2> QED BY <1>2, <2>1 DEF ScanInv
<1>7. CASE /\ pc'[c] = pc[c] /\ attempt'[c] = attempt[c]
           /\ pc[c] = "scan" => sessions' = sessions
  <2>1. pc[c] = "scan" => Unexamined(c)' = Unexamined(c)
    BY <1>7 DEF Unexamined
  <2> QED BY <1>2, <1>7, <2>1 DEF ScanInv
<1> QED BY <1>1, <1>3, <1>4, <1>5, <1>6, <1>7, ChallengeSteps DEF Next

\* A login without force is accepted only if no other open session has held
\* the account ever since the scan for it began.
THEOREM NobodyIsOverlooked == Spec => []ScanOverlooksNobody
<1>1. Init => ScanInv
  BY DEF Init, ScanInv, Attempting
<1>2. TypeOK /\ MapOwnerScans /\ ScanInv /\ [Next]_vars => ScanInv'
  <2>1. ScanInv /\ UNCHANGED vars => ScanInv'
    BY DEF ScanInv, Unexamined, HoldsLogin, vars, serverVars, sessionVars
  <2> QED BY <2>1, ScanStep
<1>3. ScanInv => ScanOverlooksNobody
  BY DEF ScanInv, ScanOverlooksNobody
<1> QED BY MapOwnerInvariant, <1>1, <1>2, <1>3, PTL DEF Spec

-----------------------------------------------------------------------------
(* The active client *)

\* The operator's active client is connected, and while anybody is connected
\* there is one: the erased session hands over to the first that is left.
THEOREM ActiveClientIsConnected == Spec => []ActiveIsConnected
<1>1. Init => ActiveIsConnected
  BY DEF Init, ActiveIsConnected
<1>2. TypeOK /\ ActiveIsConnected /\ [Next]_vars => ActiveIsConnected'
  <2> SUFFICES ASSUME TypeOK, ActiveIsConnected, [Next]_vars
               PROVE  ActiveIsConnected'
    OBVIOUS
  <2>1. CASE Accept
    BY <2>1, NoClientIsNone DEF Accept, ActiveIsConnected
  <2>2. ASSUME NEW c \in Clients, EraseSession(c) PROVE ActiveIsConnected'
    <3>1. sessions' # {} => Lowest(sessions') \in sessions'
      BY <2>2, LowestIsLowest, ClientsAreNumbers DEF EraseSession, TypeOK
    <3>2. NoClient \notin sessions'
      BY <2>2, NoClientIsNone DEF EraseSession, TypeOK
    <3> QED BY <2>2, <3>1, <3>2 DEF EraseSession, ActiveIsConnected
  <2>3. ASSUME NEW c \in Clients, UseClient(c) PROVE ActiveIsConnected'
    BY <2>3, NoClientIsNone DEF UseClient, ActiveIsConnected
  <2>4. CASE UNCHANGED <<sessions, active>>
    BY <2>4 DEF ActiveIsConnected
  <2> QED BY <2>1, <2>2, <2>3, <2>4
          DEF Next, ServerNext, SessionNext, OwnSteps, SocketSteps, FrameSteps,
              vars, serverVars, sessionVars, LoopAgain, CallRecv, Receive,
              HangUp, CloseOwn, WithdrawRooms, ConnectLobby, StartLogin,
              ScanOn, ScanHit, ScanMiss, Evict, Bind, CaptureCreate,
              PublishRoom, BeginLeave, AckLeave, RemoveRooms, ClearContext,
              OtherFrame, PickActive, ClosePicked
<1> QED BY TypeCorrect, <1>1, <1>2, PTL DEF Spec
=============================================================================
