SPECIFICATION FairSpec
CONSTANTS
    Controllers = {"stack"}
    Ring = 1
    RxRing = 3
    Quota = 2
    Thresh = 3
    HiWat = 2
    NoTxInt = FALSE
    RecThresh = 0
    ProbeFails = TRUE
    SlowIsr = FALSE
INVARIANTS  NotDeaf NothingForgotten
CHECK_DEADLOCK FALSE
PROPERTIES FramesTaken PacketsMove QueueWoken
