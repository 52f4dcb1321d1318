\* Two requests of every kind, a network that comes and goes, cancellation.
SPECIFICATION FairSpec
CONSTANTS
    Requests = {r1, r2}
    Operations <- EveryKind
    Replies <- MCReplies
    NoReply = NoReply
    Network = {TRUE, FALSE}
    BlockGiven = {TRUE, FALSE}
    MayCancel = TRUE
    Codes <- MCCodes
    NoCode = NoCode
    NullCode = NullCode
INVARIANTS
    TypeOK
    CalledOnce
    SuccessIsHonest
    FailedZeroExplained
    CrashExplained
    AcceptedSucceeds
    SettledIsTold
PROPERTIES
    AnswersAreOneShot
    SilenceExplained
CHECK_DEADLOCK FALSE
