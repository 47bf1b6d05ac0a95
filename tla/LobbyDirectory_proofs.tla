----------------------- MODULE LobbyDirectory_proofs -----------------------
(***************************************************************************)
(* The session threads and the registry implement the room directory, for  *)
(* any number of sessions, accounts and missions: the initial states are   *)
(* initial states of the directory and every step is one of its steps or   *)
(* leaves it alone.                                                        *)
(***************************************************************************)
EXTENDS LobbySessions_proofs

Listed(r) ==
    [ticket |-> r.ticket, host |-> r.host, login |-> r.login,
     mission |-> r.mission]

Listing == {Listed(r) : r \in rooms}

\* The accept loop has not used an id that is still to come, and a challenge
\* that has passed its scan is about a login.
Arrivals ==
    /\ \A c \in sessions : c < nextClient
    /\ \A c \in Clients : pc[c] \in Attempting => attempt[c].login \in Logins

\* Nobody is there at the start.
LEMMA ArrivalsInit == Init => Arrivals
BY DEF Init, Arrivals, Attempting

\* Ids are handed out in order, and attempts carry what the client asked for.
LEMMA ArrivalsStep ==
    ASSUME TypeOK, Arrivals, [Next]_vars
    PROVE  Arrivals'
<1>1. CASE Accept
  <2>1. /\ nextClient \in Clients /\ nextClient' = nextClient + 1
        /\ sessions' = sessions \cup {nextClient}
        /\ attempt' = attempt /\ pc' = [pc EXCEPT ![nextClient] = "run"]
    BY <1>1 DEF Accept, Goto
  <2>2. \A c \in sessions : c \in Nat /\ nextClient \in Nat
    BY ClientsAreNumbers DEF TypeOK
  <2>3. \A c \in sessions' : c < nextClient'
    BY <2>1, <2>2 DEF Arrivals, TypeOK
  <2> QED BY <2>1, <2>3 DEF Arrivals, Attempting, TypeOK
<1>2. ASSUME NEW c \in Clients,
             \E l \in Logins, force \in BOOLEAN : StartLogin(c, l, force)
      PROVE  Arrivals'
  <2>1. PICK l \in Logins, force \in BOOLEAN : StartLogin(c, l, force)
    BY <1>2
  <2>2. /\ attempt' = [attempt EXCEPT ![c] =
                           [login |-> l, force |-> force, at |-> 0]]
        /\ pc' = [pc EXCEPT ![c] = "scan"]
        /\ UNCHANGED <<sessions, nextClient>>
    BY <2>1 DEF StartLogin, Goto
  <2> QED BY <2>2 DEF Arrivals, TypeOK
<1>3. ASSUME NEW c \in Clients, ScanOn(c) \/ ScanHit(c)
      PROVE  Arrivals'
  <2>1. /\ UNCHANGED <<sessions, nextClient>>
        /\ \/ /\ \E d \in Clients : attempt' = [attempt EXCEPT ![c].at = d]
              /\ pc[c] = "scan"
              /\ pc' = pc \/ pc' = [pc EXCEPT ![c] = "evict"]
           \/ /\ attempt' = [attempt EXCEPT ![c] = NoAttempt]
              /\ pc' = [pc EXCEPT ![c] = "run"]
    BY <1>3 DEF ScanOn, ScanHit, Goto, Unexamined, TypeOK
  <2>2. \A d \in sessions' : d < nextClient'
    BY <2>1 DEF Arrivals
  <2>3. ASSUME NEW d \in Clients, pc'[d] \in Attempting
        PROVE  attempt'[d].login \in Logins
    <3>0. attempt \in [Clients -> Attempt] /\ pc \in [Clients -> Places]
      BY DEF TypeOK
    <3>1. CASE d = c
      BY <2>1, <2>3, <3>0, <3>1 DEF Arrivals, Attempting, Attempt
    <3>2. CASE d # c
      BY <2>1, <2>3, <3>2 DEF Arrivals, TypeOK
    <3> QED BY <3>1, <3>2
  <2> QED BY <2>2, <2>3 DEF Arrivals
<1>4. ASSUME NEW c \in Clients, Bind(c)
      PROVE  Arrivals'
  BY <1>4 DEF Bind, Goto, Arrivals, Attempting, TypeOK
<1>5. ASSUME NEW c \in Clients,
             \/ LoopAgain(c) \/ CallRecv(c) \/ Receive(c) \/ HangUp(c)
             \/ UseClient(c)
             \/ CloseOwn(c) \/ WithdrawRooms(c) \/ EraseSession(c)
             \/ ScanMiss(c) \/ Evict(c) \/ PublishRoom(c)
             \/ AckLeave(c) \/ RemoveRooms(c) \/ ClearContext(c)
             \/ \E l \in Logins : ConnectLobby(c, l)
             \/ \E m \in Missions \cup {Untitled} : CaptureCreate(c, m)
             \/ BeginLeave(c) \/ OtherFrame(c)
      PROVE  Arrivals'
  <2>1. /\ attempt' = attempt /\ nextClient' = nextClient
        /\ sessions' \subseteq sessions
        /\ \/ pc' = pc
           \/ \E place \in Places \ Attempting :
                 pc' = [pc EXCEPT ![c] = place]
           \/ pc[c] \in Attempting /\ pc' = [pc EXCEPT ![c] = "bind"]
    BY <1>5 DEF LoopAgain, CallRecv, Receive, HangUp, UseClient, CloseOwn,
                WithdrawRooms, EraseSession, ScanMiss, Evict, PublishRoom,
                AckLeave, Abandon, RemoveRooms, ClearContext, ConnectLobby,
                CaptureCreate, BeginLeave, OtherFrame, TakeFrame, Goto, Places,
                Attempting
  <2> QED BY <2>1 DEF Arrivals, Attempting, TypeOK
<1>6. CASE PickActive \/ ClosePicked \/ UNCHANGED vars
  BY <1>6 DEF PickActive, ClosePicked, vars, serverVars, sessionVars, Arrivals
<1> QED BY <1>1, <1>2, <1>3, <1>4, <1>5, <1>6
        DEF Next, ServerNext, SessionNext, OwnSteps, SocketSteps, FrameSteps

\* What the refinement rests on.
Lobby == Hosting /\ Numbering /\ Arrivals

\* All of it holds in every reachable state.
LEMMA LobbyInvariant == Spec => [](TypeOK /\ Lobby)
<1>1. TypeOK /\ Numbering /\ [Next]_vars => Numbering'
  BY NumberingStep
<1>2. TypeOK /\ Arrivals /\ [Next]_vars => Arrivals'
  BY ArrivalsStep
<1>3. Lobby <=> Hosting /\ Numbering /\ Arrivals
  BY DEF Lobby
<1> QED BY InitType, TypeStep, HostingInit, HostingStep, NumberingInit,
           ArrivalsInit, <1>1, <1>2, <1>3, PTL DEF Spec
-----------------------------------------------------------------------------
(* The steps of the registry *)

\* A listed room is one of the registry's, without its id.
LEMMA ListedIsRoom ==
    ASSUME TypeOK, NEW r \in rooms
    PROVE  /\ r \in Room /\ Listed(r) \in Listing
           /\ Listed(r).ticket = r.ticket /\ Listed(r).host = r.host
           /\ Listed(r).login = r.login /\ Listed(r).mission = r.mission
BY DEF TypeOK, RegistryTypeOK, Listed, Listing

\* What a client matches by RoomRegistry's rule is what it owns in the
\* directory.
LEMMA MatchesAreOwned ==
    ASSUME TypeOK, NEW c \in Clients
    PROVE  Directory!OwnedBy(c) = {Listed(r) : r \in Matches(c, login[c])}
<1>1. Directory!OwnedBy(c) =
        {x \in Listing : x.host = c \/ (login[c] # NoLogin /\ x.login = login[c])}
  BY DEF Directory!OwnedBy, Listing, Listed
<1> QED BY <1>1, ListedIsRoom DEF Listing, Matches, MatchesHost

\* push_back opens a room at the end of the list.
LEMMA InsertOpens ==
    ASSUME TypeOK, Lobby, NEW c \in Clients, NEW m \in Missions,
           c \in sessions, InsertRoom(c, login[c], m),
           UNCHANGED <<sessions, login>>
    PROVE  Directory!Open(c, m)
<1> DEFINE room == [ticket |-> nextTicket, id |-> nextRoomId, host |-> c,
                    login |-> login[c], mission |-> m]
           new == Listed(room)
<1>1. new = [ticket |-> nextTicket, host |-> c, login |-> login[c],
             mission |-> m]
  BY DEF Listed
<1>2. Listing' = Listing \cup {new}
  BY DEF InsertRoom, Listing, Listed
<1>3. \A s \in Listing : s.ticket < nextTicket
  BY ListedIsRoom DEF Listing, Lobby, Numbering
<1>4. Directory!OwnedBy(c) = {}
  BY MatchesAreOwned DEF InsertRoom
<1>5. new \in [ticket : Nat, host : Clients, login : Logins \cup {NoLogin},
               mission : Missions]
  BY <1>1 DEF TypeOK, RegistryTypeOK
<1>6. /\ new \in Listing' /\ new.host = c /\ new.login = login[c]
      /\ new.mission = m /\ new.ticket = nextTicket
  BY <1>1, <1>2
<1> HIDE DEF new
<1>7. \E r \in Listing' :
        /\ r \in [ticket : Nat, host : Clients, login : Logins \cup {NoLogin},
                  mission : Missions]
        /\ r.host = c /\ r.login = login[c] /\ r.mission = m
        /\ \A s \in Listing : s.ticket < r.ticket
        /\ Listing' = Listing \cup {r}
  BY <1>2, <1>3, <1>5, <1>6
<1> QED BY <1>4, <1>7 DEF Directory!Open, Directory!ListedRoom, Listing, Listed

\* Overwriting the first match renews it in place: tickets tell rooms apart.
LEMMA OverwriteRenews ==
    ASSUME TypeOK, Lobby, NEW c \in Clients, NEW m \in Missions,
           c \in sessions, OverwriteRoom(c, login[c], m),
           UNCHANGED <<sessions, login>>
    PROVE  Directory!Renew(c, m)
<1>1. PICK r \in rooms :
        /\ IsFirstMatch(r, c, login[c])
        /\ rooms' = (rooms \ {r})
              \cup {[r EXCEPT !.host = c, !.login = login[c], !.mission = m]}
  BY DEF OverwriteRoom
<1> DEFINE room == [r EXCEPT !.host = c, !.login = login[c], !.mission = m]
           old == Listed(r)
           new == [ticket |-> r.ticket, host |-> c, login |-> login[c],
                   mission |-> m]
<1>2. r \in Room
  BY ListedIsRoom
<1>3. Listed(room) = new
  <2>1. /\ room.ticket = r.ticket /\ room.host = c
        /\ room.login = login[c] /\ room.mission = m
    BY <1>2 DEF Room
  <2> QED BY <2>1 DEF Listed
<1>4. \A s \in rooms \ {r} : Listed(s) # old
  BY ListedIsRoom DEF Lobby, Numbering
<1>5. Listing' = {Listed(s) : s \in rooms'}
  BY DEF Listing, Listed
<1>6. Listing' = (Listing \ {old}) \cup {new}
  <2>1. rooms' = (rooms \ {r}) \cup {room}
    BY <1>1
  <2> HIDE DEF room, old, new
  <2>2. Listing = {Listed(s) : s \in rooms \ {r}} \cup {old}
    BY DEF Listing, old
  <2>3. Listing \ {old} = {Listed(s) : s \in rooms \ {r}}
    BY <1>4, <2>2
  <2> QED BY <1>3, <1>5, <2>1, <2>3
<1>7. old \in Directory!OwnedBy(c)
  BY <1>1, MatchesAreOwned DEF IsFirstMatch
<1>8. \E x \in Directory!OwnedBy(c) :
        Listing' = (Listing \ {x})
            \cup {[ticket |-> x.ticket, host |-> c, login |-> login[c],
                   mission |-> m]}
  <2>1. old.ticket = r.ticket
    BY ListedIsRoom
  <2> HIDE DEF old
  <2> QED BY <1>6, <1>7, <2>1
<1> QED BY <1>8 DEF Directory!Renew, Listing, Listed

\* remove_for_host withdraws what the client owns.
LEMMA RemoveWithdraws ==
    ASSUME TypeOK, Lobby, NEW c \in Clients, c \in sessions,
           RemoveForHost(c, login[c]), UNCHANGED <<sessions, login>>
    PROVE  Directory!Withdraw(c)
<1>1. Listing' = {Listed(r) : r \in rooms \ Matches(c, login[c])}
  BY DEF RemoveForHost, Listing, Listed
<1>2. \A r, s \in rooms : Listed(r) = Listed(s) => r = s
  BY ListedIsRoom DEF Lobby, Numbering
<1>3. Matches(c, login[c]) \subseteq rooms
  BY DEF Matches
<1>4. Listing' = Listing \ {Listed(r) : r \in Matches(c, login[c])}
  BY <1>1, <1>2, <1>3 DEF Listing
<1>5. Listing' = Listing \ Directory!OwnedBy(c)
  BY <1>4, MatchesAreOwned
<1> QED BY <1>5 DEF Directory!Withdraw, Listing, Listed
-----------------------------------------------------------------------------
(* Every step *)

\* A step that changes none of what the directory knows.
LEMMA DirectoryRests ==
    ASSUME UNCHANGED <<rooms, sessions, login>>
    PROVE  UNCHANGED Directory!dirVars
BY DEF Directory!dirVars

\* Threads that come and go.
LEMMA MembersStep ==
    ASSUME TypeOK, Lobby,
           Accept \/ \E c \in Clients : EraseSession(c)
    PROVE  Directory!DirNext
<1>1. CASE Accept
  <2>1. /\ nextClient \in Clients
        /\ sessions' = sessions \cup {nextClient}
        /\ UNCHANGED <<rooms, login>>
    BY <1>1 DEF Accept, registryVars
  <2>2. nextClient \notin sessions
    BY <2>1, ClientsAreNumbers DEF Lobby, Arrivals
  <2>3. Directory!Join(nextClient)
    BY <2>1, <2>2 DEF Directory!Join
  <2> QED BY <2>1, <2>3 DEF Directory!DirNext
<1>2. ASSUME NEW c \in Clients, EraseSession(c) PROVE Directory!DirNext
  <2>1. /\ pc[c] = "erase" /\ sessions' = sessions \ {c}
        /\ UNCHANGED <<rooms, login>>
    BY <1>2 DEF EraseSession, registryVars
  <2>2. c \in sessions
    BY <2>1 DEF Lobby, Hosting
  <2>3. \A r \in rooms : r.host # c
    BY <2>1 DEF Lobby, Hosting, RoomsHaveHosts
  <2>4. Directory!HostedBy(c) = {}
    BY <2>3 DEF Directory!HostedBy
  <2>5. Directory!Part(c)
    BY <2>1, <2>2, <2>4 DEF Directory!Part
  <2> QED BY <2>5 DEF Directory!DirNext
<1> QED BY <1>1, <1>2

\* Sessions that get a login.
LEMMA AccountStep ==
    ASSUME TypeOK, Lobby, NEW c \in Clients,
           Bind(c) \/ \E l \in Logins : ConnectLobby(c, l)
    PROVE  Directory!DirNext
<1>1. PICK l \in Logins : login' = [login EXCEPT ![c] = l]
  BY DEF Bind, ConnectLobby, Lobby, Arrivals, Attempting
<1>2. c \in sessions /\ UNCHANGED <<rooms, sessions>>
  BY DEF Bind, ConnectLobby, TakeFrame, registryVars, Lobby, Hosting
<1>3. Directory!GoBy(c, l)
  BY <1>1, <1>2 DEF Directory!GoBy
<1> QED BY <1>3 DEF Directory!DirNext

\* Rooms that are listed and taken off.
LEMMA ListingStep ==
    ASSUME TypeOK, Lobby, NEW c \in Clients,
           PublishRoom(c) \/ WithdrawRooms(c) \/ RemoveRooms(c)
    PROVE  Directory!DirNext \/ UNCHANGED Directory!dirVars
<1>1. c \in sessions /\ UNCHANGED <<sessions, login>>
  BY DEF PublishRoom, WithdrawRooms, RemoveRooms, Lobby, Hosting
<1>2. CASE PublishRoom(c) /\ created[c] \in Missions
  <2>1. PICK m \in Missions : UpsertRoom(c, login[c], m)
    BY <1>2 DEF PublishRoom
  <2>2. CASE InsertRoom(c, login[c], m)
    <3>1. Directory!Open(c, m)
      BY <1>1, <2>2, InsertOpens
    <3> QED BY <3>1 DEF Directory!DirNext
  <2>3. CASE OverwriteRoom(c, login[c], m)
    <3>1. Directory!Renew(c, m)
      BY <1>1, <2>3, OverwriteRenews
    <3> QED BY <3>1 DEF Directory!DirNext
  <2> QED BY <2>1, <2>2, <2>3 DEF UpsertRoom
<1>3. CASE PublishRoom(c) /\ created[c] \notin Missions
  BY <1>1, <1>3, DirectoryRests DEF PublishRoom, registryVars
<1>4. CASE WithdrawRooms(c) \/ RemoveRooms(c)
  <2>1. Directory!Withdraw(c)
    BY <1>1, <1>4, RemoveWithdraws DEF WithdrawRooms, RemoveRooms
  <2> QED BY <2>1 DEF Directory!DirNext
<1> QED BY <1>2, <1>3, <1>4

\* Every step of the server is one step of the directory, or none.
LEMMA DirectoryStep ==
    ASSUME TypeOK, Lobby, [Next]_vars
    PROVE  [Directory!DirNext]_(Directory!dirVars)
<1>1. \/ UNCHANGED <<rooms, sessions, login>>
      \/ Accept
      \/ \E c \in Clients :
            \/ EraseSession(c) \/ Bind(c)
            \/ \E l \in Logins : ConnectLobby(c, l)
            \/ PublishRoom(c) \/ WithdrawRooms(c) \/ RemoveRooms(c)
  BY DEF Next, ServerNext, SessionNext, OwnSteps, SocketSteps, FrameSteps,
         vars, serverVars, sessionVars, registryVars, LoopAgain, CallRecv,
         Receive, HangUp, CloseOwn, StartLogin, ScanOn, ScanHit, ScanMiss,
         Evict, CaptureCreate, BeginLeave, AckLeave, ClearContext, OtherFrame,
         UseClient, PickActive, ClosePicked
<1> QED BY <1>1, DirectoryRests, MembersStep, AccountStep, ListingStep

\* The lobby implements the room directory: whatever the threads, the
\* takeovers and the operator do, clients see a list to which members add at
\* the end, that its owners renew in place, and on which nobody who has gone
\* leaves a room.
THEOREM LobbyIsDirectory == Spec => ImplementsDirectory
<1>1. Init => Directory!DirInit
  BY DEF Init, RegistryInit, Directory!DirInit
<1>2. TypeOK /\ Lobby /\ [Next]_vars => [Directory!DirNext]_(Directory!dirVars)
  BY DirectoryStep
<1> QED BY <1>1, <1>2, LobbyInvariant, PTL
        DEF Spec, ImplementsDirectory, Directory!DirSpec
=============================================================================
