\* Uploads with a network that comes and goes.
SPECIFICATION FairSpec
CONSTANTS
    Requests = {r1, r2}
    Operations = {"upload"}
    Replies <- MCReplies
    NoReply = NoReply
    Network = {TRUE, FALSE}
    BlockGiven = {TRUE}
    MayCancel = FALSE
    Codes <- MCCodes
    NoCode = NoCode
    NullCode = NullCode
PROPERTIES
    RequestsAnswered
CHECK_DEADLOCK FALSE
