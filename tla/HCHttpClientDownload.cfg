\* Downloads, network available.
SPECIFICATION FairSpec
CONSTANTS
    Requests = {r1, r2}
    Operations = {"downloadWithRequest", "downloadWithResumeData"}
    Replies <- MCReplies
    NoReply = NoReply
    Network = {TRUE}
    BlockGiven = {TRUE}
    MayCancel = FALSE
    Codes <- MCCodes
    NoCode = NoCode
    NullCode = NullCode
PROPERTIES
    RequestsAnswered
CHECK_DEADLOCK FALSE
