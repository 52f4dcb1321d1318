\* Two overlapping requests from any of the six buttons, every kind of reply,
\* one recreation of the activity, under fair scheduling of threads and of the
\* main looper.
SPECIFICATION FairSpec
CONSTANTS
    Workers = {w1, w2}
    Buttons = {1, 2, 3, 4, 5, 6}
    Replies <- AllReplies
    MaxActivities = 2
    NoWorker = NoWorker
    Blank = Blank
    NoReply = NoReply
    Unset = Unset
    NoPerson = NoPerson
INVARIANTS
    TypeOK
    CrashExplained
    ShownByOwner
    NoReplyDropped
    RepliesWaitOnce
PROPERTIES
    NoResurrection
    ImplementsOneShotCalls
CHECK_DEADLOCK FALSE
