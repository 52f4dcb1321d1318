\* Two demo requests at the same time, to any of the six addresses, under fair
\* scheduling.
SPECIFICATION DemoFairSpec
CONSTANTS
    Requests = {r1, r2}
    Operations = {"post"}
    Replies <- MCReplies
    NoReply = NoReply
    Network = {TRUE}
    BlockGiven = {TRUE}
    MayCancel = FALSE
    Codes <- MCCodes
    NoCode = NoCode
    NullCode = NullCode
    ServerData <- MCData
INVARIANTS
    DemoTypeOK
    DemoCrashExplained
PROPERTIES
    ImplementsOneShotCalls
    ImplementsPipeline
CHECK_DEADLOCK FALSE
