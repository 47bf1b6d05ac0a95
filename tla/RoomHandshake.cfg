\* One fair session, every order of its frames, delayed replies and operator.
SPECIFICATION FairSpec
CONSTANTS
    MaxFrames = 4
    MaxTokens = 2
INVARIANTS
    AnswersAreArmed
    OwedIsOnItsWay
PROPERTIES
    CreateIsAnswered
CHECK_DEADLOCK FALSE
