\* Two connections over two descriptors, a delayed action, and an operator
\* who may close a session and quits when he likes.
SPECIFICATION FairSpec
CONSTANTS
    Clients = {1, 2}
    Descriptors = {f1, f2}
    NoFd = NoFd
    Nobody = 0
    Main = Main
    Actions = {i1}
    CloseWakes = TRUE
INVARIANTS
    NothingRunsAfterStop
    StraysAreClosed
    JoinedLoopsWake
PROPERTIES
    ImplementsRoster
    StopReturns
CHECK_DEADLOCK FALSE
