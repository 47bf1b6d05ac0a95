\* One peer: combat with several hits to every life.
SPECIFICATION Spec
CONSTANTS
    Peers = {p1}
    Clients <- MCOneClient
    NoClient = 0
    Player = "player"
    Objectives <- MCObjective
    Hostiles <- MCTwoHostiles
    PlayerLife = 12
    ObjectiveLife = 7
    HostileLife = 8
    MaxSpirit = 5
INVARIANTS
    LostMissionsAreReported
    VerdictsStand
    DeadAreLifeless
PROPERTIES
    LivesOnlyFall
CHECK_DEADLOCK FALSE
