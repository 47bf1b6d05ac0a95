\* Two fair peers and two clients without combat: who is bound to whom, who is
\* told, and that every started mission ends.
SPECIFICATION FairSpec
CONSTANTS
    Peers = {p1, p2}
    Clients <- MCClients
    NoClient = 0
    Player = "player"
    Objectives <- MCNoHostiles
    Hostiles <- MCNoHostiles
    PlayerLife = 5
    ObjectiveLife = 5
    HostileLife = 6
    MaxSpirit = 0
INVARIANTS
    ResultsMatchMissions
PROPERTIES
    ImplementsLedger
    StartedMissionsEnd
CHECK_DEADLOCK FALSE
