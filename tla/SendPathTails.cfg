\* One thread sends packets whose last bytes look like those before them.
SPECIFICATION Spec
CONSTANTS
    GroupSize = 8
    MinMatch = 4
    MaxMatch = 18
    WindowSize = 32
    Senders = {loop}
    Operators = {}
    Nobody = Nobody
    Packets <- MCLongTails
    MaxSends = 2
INVARIANTS
    PacketsArriveIntact
CHECK_DEADLOCK FALSE
