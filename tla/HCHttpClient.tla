---------------------------- MODULE HCHttpClient ----------------------------
(***************************************************************************)
(* The iOS request pipeline: requests enter through the class methods of   *)
(* BaseHandler (or HCHttpClient's HEAD method) on the main thread, become  *)
(* tasks of the one AFHTTPSessionManager that HCHttpClient owns, and come  *)
(* back through three queues to a completion block on the main thread:     *)
(*                                                                         *)
(*   network --> delegateQ (serial) --> parsing (concurrent) --> mainQ     *)
(*                   |                                             ^       *)
(*                   +------------- without a reply ---------------+       *)
(*                                                                         *)
(* AFNetworking, NSURLSession and the network are modelled from their use. *)
(***************************************************************************)
EXTENDS BaseHandler

CONSTANTS
    Requests,     \* identities of the requests
    Operations,   \* the operations in use
    Replies,      \* the replies the server may give
    NoReply,      \* no reply (yet)
    Network,      \* the states that the network takes: is it available?
    BlockGiven,   \* the choices for "the caller passes a failed block"
    MayCancel     \* is cancelRequest ever called?

\* RTHttpRequestType and RTHttpFileOperationType.
Rest == {"get", "post", "delete", "put", "postFile"}
FileOperations == {"upload", "downloadWithResumeData", "downloadWithRequest"}

\* What a caller passes to the request methods, one set for each of them: the
\* operation, and whether a failed block comes with it.  The address, the
\* parameters and the other blocks make no difference to how a request ends.
RestCall == [op : Rest, failed : BOOLEAN]
FileCall == [op : FileOperations, failed : BOOLEAN]
HeadCall == [op : {"head"}, failed : BOOLEAN]

\* What BaseHandler, which has no method for HEAD, takes and passes on.
HandlerCall == RestCall \cup FileCall

ASSUME ClientAssumption ==
    /\ Operations \subseteq Rest \cup FileOperations \cup {"head"}
    /\ Replies \subseteq Reply
    /\ NoReply \notin Reply
    /\ Network \subseteq BOOLEAN
    /\ BlockGiven \subseteq BOOLEAN
    /\ MayCancel \in BOOLEAN

VARIABLES
    online,      \* what isConnectionAvailable answers
    pc,          \* how far each request has come
    op,          \* its operation
    hasFailed,   \* its caller passed a failed block
    outcome,     \* the reply it got
    delegateQ,   \* finished tasks on the session's operation queue
    mainQ,       \* completion blocks on the main queue
    calls,       \* what the completion block did to its caller
    crashed      \* an exception has ended the app

requestVars == <<op, hasFailed, outcome, calls>>
vars == <<online, pc, requestVars, delegateQ, mainQ, crashed>>

\* "swallowed": no task was made; "suspended": a task that never starts.
PCs == {"new", "swallowed", "suspended", "sent", "finished", "parsing",
        "completing", "settled", "cancelled"}

TypeOK ==
    /\ online \in BOOLEAN
    /\ pc \in [Requests -> PCs]
    /\ op \in [Requests -> Rest \cup FileOperations \cup {"head"}]
    /\ hasFailed \in [Requests -> BOOLEAN]
    /\ outcome \in [Requests -> Replies \cup {NoReply}]
    /\ delegateQ \in Seq(Requests)
    /\ mainQ \in Seq(Requests)
    /\ calls \in [Requests -> Seq(Callback)]
    /\ crashed \in BOOLEAN

Init ==
    /\ online \in Network
    /\ pc = [r \in Requests |-> "new"]
    /\ op = [r \in Requests |-> "get"]
    /\ hasFailed = [r \in Requests |-> TRUE]
    /\ outcome = [r \in Requests |-> NoReply]
    /\ delegateQ = << >>
    /\ mainQ = << >>
    /\ calls = [r \in Requests |-> << >>]
    /\ crashed = FALSE

Step(r, from, to) ==
    /\ ~crashed
    /\ pc[r] = from
    /\ pc' = [pc EXCEPT ![r] = to]

-----------------------------------------------------------------------------
(* Starting a request, on the main thread. *)

\* Mutant: the switch has no case for PUT.
RestTask_NoPut(o) == IF o \in {"put", "postFile"} THEN "swallowed" ELSE "sent"

\* Where the switch over the method leaves a request, after the prepare block
\* was called: a method without a case makes no task.
RestTask(o) == IF o = "postFile" THEN "swallowed" ELSE "sent"

\* Offline no file operation makes a task, and nobody resumes a download.
FileTask(o) ==
    IF ~online THEN "swallowed" ELSE IF o = "upload" THEN "sent" ELSE "suspended"

\* Offline HEAD posts a notification that nobody observes.
HeadTask == IF online THEN "sent" ELSE "swallowed"

Start(r, call, stage) ==
    /\ Step(r, "new", stage)
    /\ op' = [op EXCEPT ![r] = call.op]
    /\ hasFailed' = [hasFailed EXCEPT ![r] = call.failed]
    /\ UNCHANGED <<online, outcome, calls, delegateQ, mainQ, crashed>>

requestWithPath(r, call) == call \in RestCall /\ Start(r, call, RestTask(call.op))

requestWithPath_file(r, call) == call \in FileCall /\ Start(r, call, FileTask(call.op))

requestWithPathInHEAD(r, call) == call \in HeadCall /\ Start(r, call, HeadTask)

\* The two class methods of BaseHandler.
HandlerRequest(r, call) ==
    call \in HandlerCall /\ (requestWithPath(r, call) \/ requestWithPath_file(r, call))

\* cancelRequest cancels the operations of the session's delegate queue, not
\* its tasks: the ends of tasks that wait there are lost.
cancelRequest ==
    /\ MayCancel /\ ~crashed /\ delegateQ # << >>
    /\ pc' = [r \in Requests |->
                IF \E i \in 1..Len(delegateQ) : delegateQ[i] = r
                THEN "cancelled" ELSE pc[r]]
    /\ delegateQ' = << >>
    /\ UNCHANGED <<online, requestVars, mainQ, crashed>>

-----------------------------------------------------------------------------
(* The network and AFNetworking. *)

NetworkChanges ==
    /\ ~crashed
    /\ online' \in Network \ {online}
    /\ UNCHANGED <<pc, requestVars, delegateQ, mainQ, crashed>>

\* What may end a task; a reply to HEAD has no body.
Ending(o) == {NoReply} \cup {reply \in Replies : o = "head" => reply.body.kind = "empty"}

\* A task ends with a reply, or without one after at most timeoutInterval.
Finish(r, reply) ==
    /\ Step(r, "sent", "finished")
    /\ reply \in Ending(op[r])
    /\ outcome' = [outcome EXCEPT ![r] = reply]
    /\ delegateQ' = Append(delegateQ, r)
    /\ UNCHANGED <<online, op, hasFailed, calls, mainQ, crashed>>

\* URLSession:task:didCompleteWithError: hands an error to the main queue and
\* a reply to the concurrent processing queue.
DidComplete ==
    /\ delegateQ # << >>
    /\ LET r == Head(delegateQ) IN
         IF outcome[r] = NoReply
         THEN Step(r, "finished", "completing") /\ mainQ' = Append(mainQ, r)
         ELSE Step(r, "finished", "parsing") /\ UNCHANGED mainQ
    /\ delegateQ' = Tail(delegateQ)
    /\ UNCHANGED <<online, requestVars, crashed>>

Parse(r) ==
    /\ Step(r, "parsing", "completing")
    /\ mainQ' = Append(mainQ, r)
    /\ UNCHANGED <<online, requestVars, delegateQ, crashed>>

-----------------------------------------------------------------------------
(* The completion block, on the main thread. *)

Result(r) ==
    IF outcome[r] = NoReply THEN ErrorWith(Nil) ELSE responseObjectForResponse(outcome[r])

\* AFNetworking leaves the nil blocks of a HEAD request alone.
CompletionOfHead(result, f) ==
    IF ~result.error THEN <<Success>>
    ELSE IF f THEN <<Failed(NoCode)>> ELSE << >>

Completion(r) ==
    LET result == Result(r) IN
    IF op[r] = "head" THEN CompletionOfHead(result, hasFailed[r])
    ELSE IF result.error THEN handlerErrorWithTask_error(result.body, hasFailed[r])
    ELSE IF op[r] = "upload" THEN uploadSuccess(result.body, hasFailed[r])
    ELSE requestSuccess(result.body, hasFailed[r])

Did(r, callback) == \E i \in 1..Len(calls[r]) : calls[r][i] = callback

\* The block at the head of the main queue runs and does that.
RunBlock(r, did) ==
    /\ mainQ # << >> /\ r = Head(mainQ)
    /\ Step(r, "completing", "settled")
    /\ calls' = [calls EXCEPT ![r] = @ \o did]
    /\ crashed' = \E i \in 1..Len(did) : did[i] = Raised
    /\ mainQ' = Tail(mainQ)
    /\ UNCHANGED <<online, op, hasFailed, outcome, delegateQ>>

RunCompletion == \E r \in Requests : RunBlock(r, Completion(r))

-----------------------------------------------------------------------------
Caller ==
    \E r \in Requests, o \in Operations, f \in BlockGiven :
        LET call == [op |-> o, failed |-> f] IN
        HandlerRequest(r, call) \/ requestWithPathInHEAD(r, call)

Ends(r) == \E reply \in Replies \cup {NoReply} : Finish(r, reply)

Next ==
    \/ Caller
    \/ cancelRequest
    \/ NetworkChanges
    \/ \E r \in Requests : Ends(r) \/ Parse(r)
    \/ DidComplete
    \/ RunCompletion

Spec == Init /\ [][Next]_vars

\* A task is resumed with a timeout, and the three queues are drained.
Fairness ==
    /\ \A r \in Requests : WF_vars(Ends(r)) /\ WF_vars(Parse(r))
    /\ WF_vars(DidComplete)
    /\ WF_vars(RunCompletion)

FairSpec == Spec /\ Fairness

-----------------------------------------------------------------------------
(* Properties. *)

\* A request has one end: at most one of its blocks is called, and that once
\* (BaseHandler.m:189-211 and 234-257 fall from the success branch into the
\* error handling unless they return).
CalledOnce == \A r \in Requests : Len(calls[r]) <= 1

\* The success block is called only for a reply of the server whose status and
\* type are acceptable and whose body is a dictionary that reports no failure.
SuccessIsHonest ==
    \A r \in Requests :
        op[r] # "head" /\ Did(r, Success) =>
            outcome[r] # NoReply /\ Valid(outcome[r]) /\ Accepted(outcome[r].body)

\* The failed block receives 0, the code of success (BaseEntity.h:12), only if
\* the server sent that very code in a reply that was refused for its status
\* or type.
FailedZeroExplained ==
    \A r \in Requests :
        Did(r, Failed(0)) =>
            /\ outcome[r] # NoReply /\ ~Valid(outcome[r])
            /\ outcome[r].body.code = 0

\* A reply that reports success ends in the success block, which is the code
\* absent or 0 in a dictionary with an acceptable status and type
\* (BaseHandler.m:189-206, 235-252): no branch takes it for a failure, and it
\* is not lost between the queues.
AcceptedSucceeds ==
    \A r \in Requests :
        /\ pc[r] = "settled" /\ op[r] # "head"
        /\ outcome[r] # NoReply /\ outcome[r].status /\ outcome[r].type
        /\ outcome[r].body.kind = "dict" /\ outcome[r].body.code \in {NoCode, 0}
        => calls[r] = <<Success>>

\* A request that passed a failed block does not settle in silence, whatever
\* its operation and however it ends, with a reply or without one
\* (BaseHandler.m:44-95).
SettledIsTold ==
    \A r \in Requests : pc[r] = "settled" /\ hasFailed[r] => calls[r] # << >>

\* The app dies in a completion block only for one of three reasons: the code
\* of the reply is no number or text, a failed block is missing where the data
\* path calls it unconditionally (BaseHandler.m:92-94), or an upload is
\* answered by an array (BaseHandler.m:237-239).
CrashExplained ==
    crashed =>
        \E r \in Requests :
            /\ Did(r, Raised) /\ outcome[r] # NoReply
            /\ \/ outcome[r].body.code = NullCode
               \/ ~hasFailed[r] /\ ~Result(r).error
               \/ op[r] = "upload" /\ outcome[r].body.kind = "array"

\* Every request that passes a failed block, and had its prepare block called,
\* gets an answer, unless the app dies (BaseHandler.h:28-38, HCHttpClient.h:61-63).
RequestsAnswered ==
    \A r \in Requests :
        (pc[r] # "new" /\ hasFailed[r]) ~> (calls[r] # << >> \/ crashed)

\* RequestsAnswered is too much to promise.  What is true: of the callers that
\* passed a failed block, those are left without an answer whose operation has
\* no task that can run (HCHttpClient.m:110, 149, 157), who were offline when
\* they asked for an upload or a HEAD (HCHttpClient.m:139), or whose task had
\* ended and was waiting on the delegate queue when that queue was cancelled
\* (HCHttpClient.m:206).  A network that goes away after the start silences
\* none, and neither does another request that was cancelled or never started.
SilenceExplained ==
    \A r \in Requests :
        (pc[r] # "new" /\ hasFailed[r]) ~>
            \/ calls[r] # << >> \/ crashed
            \/ op[r] \in {"postFile", "downloadWithResumeData", "downloadWithRequest"}
            \/ op[r] \in {"upload", "head"} /\ pc[r] = "swallowed"
            \/ pc[r] = "cancelled"

\* The pipeline as one-shot calls: a request is answered when its block was
\* called.  An exception answers nobody.
Calls == INSTANCE OneShotCalls WITH
    Callers <- Requests,
    Answers <- {<<c>> : c \in Callback \ {Raised}},
    NoAnswer <- << >>,
    asked <- {r \in Requests : pc[r] # "new"},
    answer <- [r \in Requests |-> IF Did(r, Raised) THEN << >> ELSE calls[r]],
    dead <- crashed

\* Whatever the operations, and whatever is cancelled: no request is answered
\* before it was made, or again, or after the app has died, and only a request
\* without an answer can kill the app (BaseHandler.m:188-211, 234-257).
AnswersAreOneShot == Calls!Spec

\* Where every operation in use is promised an answer, the pipeline implements
\* one-shot calls: each request is answered once, after it was made, unless an
\* exception ends the app (BaseHandler.m:188-211, 234-257).
ImplementsOneShotCalls == Calls!FairSpec

=============================================================================
