\* Two requests of the kinds that are promised an answer, network available.
SPECIFICATION FairSpec
CONSTANTS
    Requests = {r1, r2}
    Operations <- Answering
    Replies <- MCReplies
    NoReply = NoReply
    Network = {TRUE}
    BlockGiven = {TRUE}
    MayCancel = FALSE
    Codes <- MCCodes
    NoCode = NoCode
    NullCode = NullCode
PROPERTIES
    ImplementsOneShotCalls
CHECK_DEADLOCK FALSE
