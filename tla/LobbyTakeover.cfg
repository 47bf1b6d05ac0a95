\* Two fair sessions of two accounts: takeovers, relogins, evictions, and the
\* end of every session that is closed.
SPECIFICATION FairSpec
CONSTANTS
    Clients <- MCClients
    Logins <- MCTwoLogins
    NoLogin = "none"
    Missions <- MCMissions
    RoomIdSpace = 2
    NoClient = 0
    NoMission = 0
    Untitled = 1
    MaxFrames = 3
    MaxBatch = 2
INVARIANTS
    RoomIdsTellApart
    RoomsHaveHosts
    ScanOverlooksNobody
    ActiveIsConnected
PROPERTIES
    RoomsChangeByOwnAccount
    ImplementsDirectory
    ClosedSessionsGo
CHECK_DEADLOCK FALSE
