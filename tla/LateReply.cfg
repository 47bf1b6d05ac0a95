\* A delayed room reply outlives the leave it should be skipped for.
SPECIFICATION Spec
CONSTANTS
    MaxFrames = 3
    MaxTokens = 1
INVARIANTS
    NoReplyAfterLeave
CHECK_DEADLOCK FALSE
