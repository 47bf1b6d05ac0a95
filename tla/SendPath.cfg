\* Two threads share a session's encoder and socket.  No packet leaves room
\* for a match; groups and window are small, so that packets
\* span them.
SPECIFICATION Spec
CONSTANTS
    GroupSize = 4
    MinMatch = 3
    MaxMatch = 3
    WindowSize = 4
    Senders = {loop, op}
    Operators = {op}
    Nobody = Nobody
    Packets <- MCShortTails
    MaxSends = 2
INVARIANTS
    NothingIsHeldBack
PROPERTIES
    ImplementsChannel
CHECK_DEADLOCK FALSE
