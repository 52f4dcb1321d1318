------------------------- MODULE HCHttpClientProofs -------------------------
(***************************************************************************)
(* Proofs about HCHttpClient, for any set of requests, codes and replies.  *)
(*                                                                         *)
(* The safety properties speak of what the completion block did.  CallsOK  *)
(* says that it did exactly what Completion computes from the request, and *)
(* only once the request is settled; what Completion may compute is a      *)
(* matter of lemmas about the operators of BaseHandler.                    *)
(***************************************************************************)
EXTENDS HCHttpClient, TLAPS

CallsOK ==
    \A r \in Requests : calls[r] = IF pc[r] = "settled" THEN Completion(r) ELSE << >>

\* The app is dead once a block has raised, and only then.
RaisedOK == crashed <=> \E r \in Requests : Did(r, Raised)

\* The tasks at that stage, each in that queue once, and nothing else in it.
Queued(q, stage) ==
    /\ {q[i] : i \in 1..Len(q)} = {r \in Requests : pc[r] = stage}
    /\ \A i, j \in 1..Len(q) : q[i] = q[j] => i = j

TasksAreQueued == Queued(delegateQ, "finished") /\ Queued(mainQ, "completing")

IInv == TypeOK /\ CallsOK /\ RaisedOK /\ TasksAreQueued

-----------------------------------------------------------------------------
(* What a completion block may do. *)

\* Parsing yields an object, or an error without a body.
LEMMA ParseJSONResult ==
    ASSUME NEW body \in Body
    PROVE  /\ ParseJSON(body).body \in Objects
           /\ ParseJSON(body).error \in BOOLEAN
           /\ ~ParseJSON(body).error => ParseJSON(body).body \in {body, Nil}
           /\ ParseJSON(body).error => ParseJSON(body).body = Nil
  BY DEF ParseJSON, Object, ErrorWith, Objects

\* A body comes back whole: without an error from a valid reply, with an error
\* from an invalid one.
LEMMA ResponseResult ==
    ASSUME NEW reply \in Reply
    PROVE  LET res == responseObjectForResponse(reply) IN
           /\ res.body \in Objects
           /\ res.error \in BOOLEAN
           /\ ~res.error /\ res.body # Nil => Valid(reply) /\ res.body = reply.body
           /\ res.error /\ res.body # Nil => ~Valid(reply) /\ res.body = reply.body
<1>1. reply.body \in Body
  BY DEF Reply
<1>2. CASE Valid(reply)
  BY <1>1, <1>2, ParseJSONResult DEF responseObjectForResponse
<1>3. CASE ~Valid(reply)
  BY <1>1, <1>3 DEF responseObjectForResponse, Object, ErrorWith, Objects
<1> QED
  BY <1>2, <1>3

\* A readable object has a code to report.
LEMMA FailureCodeType ==
    ASSUME NEW obj \in Objects, ~Unreadable(obj)
    PROVE  FailureCode(obj) \in Codes \cup {404}
  BY DEF Objects, Body, Nil, Unreadable, FailureCode, IsDict

\* The three things that a block may do to its caller are told apart.
LEMMA CallbacksDiffer ==
    ASSUME NEW c
    PROVE  Success # Raised /\ Failed(c) # Success /\ Failed(c) # Raised
  BY DEF Success, Raised, Failed

\* The outcomes of the error handler of a failed task.
LEMMA ErrorHandler ==
    ASSUME NEW obj \in Objects, NEW f \in BOOLEAN,
           NEW done, done = handlerErrorWithTask_error(obj, f)
    PROVE  \/ done = << >> /\ ~f
           \/ done = <<Raised>> /\ Unreadable(obj)
           \/ \E c \in Codes \cup {404} :
                done = <<Failed(c)>> /\ (c = 0 => IsDict(obj) /\ obj.code = 0)
<1>1. FailureCode(obj) = 0 => IsDict(obj) /\ obj.code = 0
  BY DEF FailureCode
<1> QED
  BY <1>1, FailureCodeType DEF handlerErrorWithTask_error

\* The outcomes of either success block.
LEMMA SuccessBlocks ==
    ASSUME NEW obj \in Objects, NEW f \in BOOLEAN, NEW done,
           \/ done = requestSuccess(obj, f)
           \/ done = uploadSuccess(obj, f) /\ obj.kind # "array"
    PROVE  \/ done = <<Raised>> /\ (Unreadable(obj) \/ ~f)
           \/ done = <<Success>> /\ Accepted(obj)
           \/ \E c \in Codes \cup {404} : done = <<Failed(c)>> /\ c # 0
<1>1. ~Unreadable(obj) /\ ~Accepted(obj) => FailureCode(obj) # 0
  BY DEF FailureCode, Accepted
<1> QED
  BY <1>1, FailureCodeType
     DEF requestSuccess, uploadSuccess, handlerErrorWithTask_data

\* Why a completion block may raise.
Explained(r) ==
    /\ outcome[r] # NoReply
    /\ \/ outcome[r].body.code = NullCode
       \/ ~hasFailed[r] /\ ~Result(r).error
       \/ op[r] = "upload" /\ outcome[r].body.kind = "array"

\* When it may call the success block.
Honest(r) ==
    op[r] # "head" =>
        outcome[r] # NoReply /\ Valid(outcome[r]) /\ Accepted(outcome[r].body)

\* When it may report the code 0 as a failure.
Refused(r) ==
    outcome[r] # NoReply /\ ~Valid(outcome[r]) /\ outcome[r].body.code = 0

\* What the session hands to the completion block comes from the reply.
LEMMA ResultType ==
    ASSUME TypeOK, NEW r \in Requests
    PROVE  LET obj == Result(r).body IN
           /\ obj \in Objects /\ Result(r).error \in BOOLEAN
           /\ ~Result(r).error => outcome[r] # NoReply
           /\ obj # Nil => outcome[r] # NoReply /\ obj = outcome[r].body
           /\ obj # Nil => (Result(r).error <=> ~Valid(outcome[r]))
<1>1. CASE outcome[r] = NoReply
  BY <1>1 DEF Result, ErrorWith, Objects
<1>2. CASE outcome[r] # NoReply
  <2>1. outcome[r] \in Reply
    BY <1>2, ClientAssumption DEF TypeOK
  <2> QED
    BY <1>2, <2>1, ResponseResult DEF Result
<1> QED
  BY <1>1, <1>2

\* A completion block does one thing at most, and never without reason.
LEMMA CompletionCases ==
    ASSUME TypeOK, NEW r \in Requests
    PROVE  \/ Completion(r) = << >>
           \/ Completion(r) = <<Raised>> /\ Explained(r)
           \/ Completion(r) = <<Success>> /\ Honest(r)
           \/ \E c \in Codes \cup {404, NoCode} :
                Completion(r) = <<Failed(c)>> /\ (c = 0 => Refused(r))
<1> DEFINE obj == Result(r).body
<1>1. obj \in Objects /\ hasFailed[r] \in BOOLEAN
  BY ResultType DEF TypeOK
<1>2. ASSUME obj.kind # "nil"
      PROVE  /\ outcome[r] # NoReply /\ obj = outcome[r].body
             /\ Result(r).error <=> ~Valid(outcome[r])
  BY <1>2, ResultType DEF Nil
<1>3. CASE op[r] = "head"
  <2>1. Completion(r) \in {<<Success>>, <<Failed(NoCode)>>, << >>}
    BY <1>3 DEF Completion, CompletionOfHead
  <2>2. 0 \in Int /\ NoCode # 0
    BY CodeAssumption
  <2>3. Honest(r)
    BY <1>3 DEF Honest
  <2>4. CASE Completion(r) = <<Failed(NoCode)>>
    <3> NoCode \in Codes \cup {404, NoCode}
      OBVIOUS
    <3> QED
      BY <2>2, <2>4
  <2> QED
    BY <2>1, <2>3, <2>4
<1>4. CASE op[r] # "head" /\ Result(r).error
  <2>1. Completion(r) = handlerErrorWithTask_error(obj, hasFailed[r])
    BY <1>4 DEF Completion
  <2> QED
    BY <1>1, <1>2, <1>4, <2>1, ErrorHandler DEF Explained, Refused, Unreadable, IsDict
<1>5. CASE op[r] = "upload" /\ ~Result(r).error /\ obj.kind = "array"
  <2>1. Completion(r) = <<Raised>>
    BY <1>5 DEF Completion, uploadSuccess
  <2> QED
    BY <1>2, <1>5, <2>1 DEF Explained
<1>6. CASE op[r] # "head" /\ ~Result(r).error /\ ~(op[r] = "upload" /\ obj.kind = "array")
  <2>1. \/ Completion(r) = requestSuccess(obj, hasFailed[r])
        \/ Completion(r) = uploadSuccess(obj, hasFailed[r]) /\ obj.kind # "array"
    BY <1>6 DEF Completion
  <2>2. outcome[r] # NoReply
    BY <1>6, ResultType
  <2>3. \/ Completion(r) = <<Raised>> /\ (Unreadable(obj) \/ ~hasFailed[r])
        \/ Completion(r) = <<Success>> /\ Accepted(obj)
        \/ \E c \in Codes \cup {404} : Completion(r) = <<Failed(c)>> /\ c # 0
    BY <1>1, <2>1, SuccessBlocks
  <2> QED
    BY <1>2, <1>6, <2>2, <2>3 DEF Explained, Honest, Unreadable, Accepted, IsDict
<1> QED
  BY <1>3, <1>4, <1>5, <1>6, ResultType

\* In short: it calls one block or raises, or does nothing.
LEMMA CompletionType ==
    ASSUME TypeOK, NEW r \in Requests
    PROVE  /\ Completion(r) \in {<< >>} \cup {<<c>> : c \in Callback}
           /\ Completion(r) \in Seq(Callback) /\ Len(Completion(r)) <= 1
<1>1. /\ Success \in Callback /\ Raised \in Callback
      /\ \A c \in Codes \cup {404, NoCode} : Failed(c) \in Callback
  BY DEF Success, Raised, Failed, Callback
<1>2. Completion(r) \in {<< >>} \cup {<<c>> : c \in Callback}
  BY <1>1, CompletionCases
<1>3. ASSUME NEW c \in Callback PROVE <<c>> \in Seq(Callback) /\ Len(<<c>>) <= 1
  OBVIOUS
<1>4. << >> \in Seq(Callback) /\ Len(<< >>) <= 1
  OBVIOUS
<1> QED
  BY <1>2, <1>3, <1>4

-----------------------------------------------------------------------------
(* The invariant. *)

LEMMA InitInv == Init => IInv
<1> SUFFICES ASSUME Init PROVE IInv
  OBVIOUS
<1>1. TypeOK
  <2>1. online \in BOOLEAN
    BY ClientAssumption DEF Init
  <2>2. << >> \in Seq(Callback) /\ << >> \in Seq(Requests)
    OBVIOUS
  <2> QED
    BY <2>1, <2>2 DEF Init, TypeOK, PCs, Rest
<1>2. RaisedOK
  BY DEF Init, RaisedOK, Did
<1> QED
  BY <1>1, <1>2 DEF Init, IInv, CallsOK, TasksAreQueued, Queued

\* A step that settles nobody and changes no settled request keeps CallsOK.
LEMMA CallsKept ==
    ASSUME CallsOK, TypeOK, UNCHANGED calls,
           \A r \in Requests :
             /\ pc'[r] = "settled" <=> pc[r] = "settled"
             /\ pc[r] = "settled" =>
                  op'[r] = op[r] /\ hasFailed'[r] = hasFailed[r] /\ outcome'[r] = outcome[r]
    PROVE  CallsOK'
<1>1. ASSUME NEW r \in Requests, pc[r] = "settled" PROVE Completion(r)' = Completion(r)
  BY <1>1 DEF Completion, Result
<1> QED
  BY <1>1 DEF CallsOK

\* Queues without repetitions, as the sets of what they hold.
Holds(q, S) ==
    /\ q \in Seq(Requests)
    /\ {q[i] : i \in 1..Len(q)} = S
    /\ \A i, j \in 1..Len(q) : q[i] = q[j] => i = j

\* The requests at a stage.
At(stage) == {r \in Requests : pc[r] = stage}

LEMMA HoldsAppend ==
    ASSUME NEW q, NEW S, NEW r \in Requests \ S, Holds(q, S)
    PROVE  Holds(Append(q, r), S \cup {r})
<1> DEFINE new == Append(q, r)
<1>1. q \in Seq(Requests) /\ Len(q) \in Nat /\ new \in Seq(Requests)
  BY DEF Holds
<1>2. /\ Len(new) = Len(q) + 1 /\ new[Len(q) + 1] = r
      /\ \A i \in 1..Len(q) : new[i] = q[i]
  BY <1>1
<1>3. \A i \in 1..Len(q) : q[i] # r
  BY DEF Holds
<1>4. \A i, j \in 1..Len(new) : new[i] = new[j] => i = j
  BY <1>1, <1>2, <1>3 DEF Holds
<1>5. {new[i] : i \in 1..Len(new)} = S \cup {r}
  <2>1. 1..Len(new) = 1..Len(q) \cup {Len(q) + 1}
    BY <1>1, <1>2
  <2> QED
    BY <1>2, <2>1 DEF Holds
<1> QED
  BY <1>1, <1>4, <1>5 DEF Holds

LEMMA HoldsTail ==
    ASSUME NEW q, NEW S, Holds(q, S), q # << >>
    PROVE  Head(q) \in S /\ Holds(Tail(q), S \ {Head(q)})
<1> DEFINE new == Tail(q)
<1>1. /\ q \in Seq(Requests) /\ Len(q) \in Nat /\ Len(q) > 0
      /\ new \in Seq(Requests) /\ Len(new) = Len(q) - 1
      /\ Head(q) = q[1] /\ \A i \in 1..Len(new) : new[i] = q[i + 1]
  BY DEF Holds
<1>2. \A i, j \in 1..Len(new) : new[i] = new[j] => i = j
  BY <1>1 DEF Holds
<1>3. Head(q) \in S
  BY <1>1 DEF Holds
<1>4. {new[i] : i \in 1..Len(new)} \subseteq S \ {Head(q)}
  BY <1>1 DEF Holds
<1>5. S \ {Head(q)} \subseteq {new[i] : i \in 1..Len(new)}
  <2> SUFFICES ASSUME NEW x \in S, x # Head(q) PROVE \E i \in 1..Len(new) : x = new[i]
    OBVIOUS
  <2>1. PICK j \in 1..Len(q) : x = q[j]
    BY DEF Holds
  <2>2. j - 1 \in 1..Len(new) /\ new[j - 1] = x
    BY <1>1, <2>1
  <2> QED
    BY <2>2
<1> QED
  BY <1>1, <1>2, <1>3, <1>4, <1>5 DEF Holds

\* TasksAreQueued in these terms.
LEMMA QueuedHolds ==
    ASSUME TypeOK
    PROVE  TasksAreQueued <=>
             Holds(delegateQ, At("finished")) /\ Holds(mainQ, At("completing"))
  BY DEF TypeOK, TasksAreQueued, Queued, Holds, At

LEMMA QueuesHold ==
    ASSUME IInv
    PROVE  Holds(delegateQ, At("finished")) /\ Holds(mainQ, At("completing"))
  BY QueuedHolds DEF IInv

LEMMA QueuedAgain ==
    ASSUME TypeOK', Holds(delegateQ', At("finished")'), Holds(mainQ', At("completing")')
    PROVE  TasksAreQueued'
  BY DEF TypeOK, TasksAreQueued, Queued, Holds, At

\* A step of one request that neither enters nor leaves a queue.
LEMMA QueuedKept ==
    ASSUME IInv, TypeOK', NEW r \in Requests, NEW c \in PCs,
           pc[r] \notin {"finished", "completing"}, c \notin {"finished", "completing"},
           pc' = [pc EXCEPT ![r] = c], UNCHANGED <<delegateQ, mainQ>>
    PROVE  TasksAreQueued'
<1>1. At("finished")' = At("finished") /\ At("completing")' = At("completing")
  BY DEF IInv, TypeOK, At
<1> QED
  BY <1>1, QueuesHold, QueuedAgain

Call == RestCall \cup FileCall \cup HeadCall
Started == {"sent", "suspended", "swallowed"}

\* Whichever method is called, a request starts, with a task or without one.
LEMMA CallerStarts ==
    ASSUME Caller
    PROVE  \E r \in Requests, call \in Call, stage \in Started : Start(r, call, stage)
<1>1. ASSUME NEW o PROVE RestTask(o) \in Started /\ FileTask(o) \in Started /\ HeadTask \in Started
  BY DEF RestTask, FileTask, HeadTask, Started
<1> QED
  BY <1>1 DEF Caller, HandlerRequest, requestWithPath, requestWithPath_file,
              requestWithPathInHEAD, Call

LEMMA StartInv ==
    ASSUME IInv, NEW r \in Requests, NEW call \in Call, NEW stage \in Started,
           Start(r, call, stage)
    PROVE  IInv'
<1>1. stage \notin {"settled", "finished", "completing"} /\ stage \in PCs
  BY DEF Started, PCs
<1>2. /\ pc[r] = "new" /\ pc' = [pc EXCEPT ![r] = stage]
      /\ op' = [op EXCEPT ![r] = call.op] /\ hasFailed' = [hasFailed EXCEPT ![r] = call.failed]
      /\ UNCHANGED <<online, outcome, calls, delegateQ, mainQ, crashed>>
  BY DEF Start, Step
<1>3. call.failed \in BOOLEAN /\ call.op \in Rest \cup FileOperations \cup {"head"}
  BY DEF Call, RestCall, FileCall, HeadCall
<1>4. TypeOK'
  BY <1>1, <1>2, <1>3 DEF IInv, TypeOK
<1>5. CallsOK'
  BY <1>1, <1>2, CallsKept DEF IInv, TypeOK
<1>6. RaisedOK'
  BY <1>2 DEF IInv, RaisedOK, Did
<1>7. TasksAreQueued'
  BY <1>1, <1>2, <1>4, QueuedKept
<1> QED
  BY <1>4, <1>5, <1>6, <1>7 DEF IInv

LEMMA CancelInv == ASSUME IInv, cancelRequest PROVE IInv'
<1>1. /\ pc' = [r \in Requests |->
                  IF \E i \in 1..Len(delegateQ) : delegateQ[i] = r
                  THEN "cancelled" ELSE pc[r]]
      /\ delegateQ' = << >>
      /\ UNCHANGED <<online, op, hasFailed, outcome, calls, mainQ, crashed>>
  BY DEF cancelRequest, requestVars
<1>2. TypeOK'
  BY <1>1 DEF IInv, TypeOK, PCs
<1>3. /\ \A r \in Requests : pc'[r] = "settled" <=> pc[r] = "settled"
      /\ At("finished")' = {} /\ At("completing")' = At("completing")
  BY <1>1 DEF IInv, TasksAreQueued, Queued, At
<1>4. CallsOK'
  BY <1>1, <1>3, CallsKept DEF IInv
<1>5. RaisedOK'
  BY <1>1 DEF IInv, RaisedOK, Did
<1>6. TasksAreQueued'
  <2>1. Holds(delegateQ', {})
    BY <1>1 DEF Holds
  <2> QED
    BY <1>1, <1>2, <1>3, <2>1, QueuesHold, QueuedAgain
<1> QED
  BY <1>2, <1>4, <1>5, <1>6 DEF IInv

LEMMA FinishInv ==
    ASSUME IInv, NEW r \in Requests, NEW reply \in Replies \cup {NoReply},
           Finish(r, reply)
    PROVE  IInv'
<1>1. /\ pc[r] = "sent" /\ pc' = [pc EXCEPT ![r] = "finished"]
      /\ outcome' = [outcome EXCEPT ![r] = reply]
      /\ delegateQ' = Append(delegateQ, r)
      /\ UNCHANGED <<online, op, hasFailed, calls, mainQ, crashed>>
  BY DEF Finish, Step
<1>2. TypeOK'
  BY <1>1 DEF IInv, TypeOK, PCs
<1>3. CallsOK'
  BY <1>1, CallsKept DEF IInv, TypeOK
<1>4. RaisedOK'
  BY <1>1 DEF IInv, RaisedOK, Did
<1>5. TasksAreQueued'
  <2>1. At("finished")' = At("finished") \cup {r} /\ At("completing")' = At("completing")
    BY <1>1 DEF IInv, TypeOK, At
  <2>2. r \notin At("finished")
    BY <1>1 DEF At
  <2> QED
    BY <1>1, <1>2, <2>1, <2>2, QueuesHold, HoldsAppend, QueuedAgain
<1> QED
  BY <1>2, <1>3, <1>4, <1>5 DEF IInv

LEMMA DidCompleteInv == ASSUME IInv, DidComplete PROVE IInv'
<1> DEFINE h == Head(delegateQ)
<1>1. /\ delegateQ # << >> /\ pc[h] = "finished" /\ delegateQ' = Tail(delegateQ)
      /\ mainQ' \in {mainQ, Append(mainQ, h)}
      /\ UNCHANGED <<online, op, hasFailed, outcome, calls, crashed>>
  BY DEF DidComplete, Step, requestVars
<1>2. PICK c \in {"completing", "parsing"} : pc' = [pc EXCEPT ![h] = c]
  BY DEF DidComplete, Step
<1>3. /\ h \in Requests /\ h = delegateQ[1]
      /\ delegateQ \in Seq(Requests) /\ Len(delegateQ) \in Nat \ {0}
  BY <1>1 DEF IInv, TypeOK
<1>4. TypeOK'
  <2>1. delegateQ' \in Seq(Requests) /\ mainQ' \in Seq(Requests)
    <3>1. mainQ \in Seq(Requests)
      BY DEF IInv, TypeOK
    <3>2. Append(mainQ, h) \in Seq(Requests) /\ Tail(delegateQ) \in Seq(Requests)
      BY <1>1, <1>3, <3>1
    <3> QED
      BY <1>1, <3>1, <3>2
  <2>2. pc' \in [Requests -> PCs]
    BY <1>2, <1>3 DEF IInv, TypeOK, PCs
  <2> QED
    BY <1>1, <2>1, <2>2 DEF IInv, TypeOK
<1>5. CallsOK'
  BY <1>1, <1>2, <1>3, CallsKept DEF IInv, TypeOK
<1>6. RaisedOK'
  BY <1>1 DEF IInv, RaisedOK, Did
<1>7. TasksAreQueued'
  <2>0. pc \in [Requests -> PCs]
    BY DEF IInv, TypeOK
  <2>1. At("finished")' = At("finished") \ {h}
    BY <1>2, <1>3, <2>0 DEF At
  <2>2. Holds(delegateQ', At("finished")')
    BY <1>1, <2>1, QueuesHold, HoldsTail
  <2>3. Holds(mainQ', At("completing")')
    <3>1. CASE outcome[h] = NoReply
      <4>1. mainQ' = Append(mainQ, h) /\ pc' = [pc EXCEPT ![h] = "completing"]
        BY <3>1 DEF DidComplete, Step
      <4>2. At("completing")' = At("completing") \cup {h} /\ h \notin At("completing")
        BY <1>1, <1>3, <2>0, <4>1 DEF At
      <4> QED
        BY <1>3, <4>1, <4>2, QueuesHold, HoldsAppend
    <3>2. CASE outcome[h] # NoReply
      <4>1. mainQ' = mainQ /\ pc' = [pc EXCEPT ![h] = "parsing"]
        BY <3>2 DEF DidComplete, Step
      <4>2. At("completing")' = At("completing")
        BY <1>1, <1>3, <2>0, <4>1 DEF At
      <4> QED
        BY <4>1, <4>2, QueuesHold
    <3> QED
      BY <3>1, <3>2
  <2> QED
    BY <1>4, <2>2, <2>3, QueuedAgain
<1> QED
  BY <1>4, <1>5, <1>6, <1>7 DEF IInv

LEMMA ParseInv == ASSUME IInv, NEW r \in Requests, Parse(r) PROVE IInv'
<1>1. /\ pc[r] = "parsing" /\ pc' = [pc EXCEPT ![r] = "completing"]
      /\ mainQ' = Append(mainQ, r)
      /\ UNCHANGED <<online, op, hasFailed, outcome, calls, delegateQ, crashed>>
  BY DEF Parse, Step, requestVars
<1>2. TypeOK'
  BY <1>1 DEF IInv, TypeOK, PCs
<1>3. CallsOK'
  BY <1>1, CallsKept DEF IInv, TypeOK
<1>4. RaisedOK'
  BY <1>1 DEF IInv, RaisedOK, Did
<1>5. TasksAreQueued'
  <2>1. At("completing")' = At("completing") \cup {r} /\ At("finished")' = At("finished")
    BY <1>1 DEF IInv, TypeOK, At
  <2>2. r \notin At("completing")
    BY <1>1 DEF At
  <2> QED
    BY <1>1, <1>2, <2>1, <2>2, QueuesHold, HoldsAppend, QueuedAgain
<1> QED
  BY <1>2, <1>3, <1>4, <1>5 DEF IInv

\* A block that does that to its caller kills the app if it raises.
LEMMA RaisedKept ==
    ASSUME TypeOK, RaisedOK, ~crashed, NEW h \in Requests, NEW did,
           calls' = [calls EXCEPT ![h] = did],
           crashed' = \E i \in 1..Len(did) : did[i] = Raised
    PROVE  RaisedOK'
<1>1. calls'[h] = did /\ \A r \in Requests : r # h => calls'[r] = calls[r]
  BY DEF TypeOK
<1>2. Did(h, Raised)' <=> crashed'
  BY <1>1 DEF Did
<1>3. \A r \in Requests : r # h => ~Did(r, Raised)'
  BY <1>1 DEF Did, RaisedOK
<1> QED
  BY <1>2, <1>3 DEF RaisedOK

\* The block of the request at the head of the main queue, which has called
\* nobody yet, does what Completion says.
LEMMA RunCompletionInv == ASSUME IInv, RunCompletion PROVE IInv'
<1>0. PICK h \in Requests : RunBlock(h, Completion(h))
  BY DEF RunCompletion
<1>1. /\ mainQ # << >> /\ ~crashed /\ pc[h] = "completing"
      /\ pc' = [pc EXCEPT ![h] = "settled"]
      /\ calls' = [calls EXCEPT ![h] = @ \o Completion(h)]
      /\ crashed' = \E i \in 1..Len(Completion(h)) : Completion(h)[i] = Raised
      /\ mainQ' = Tail(mainQ)
      /\ UNCHANGED <<online, op, hasFailed, outcome, delegateQ>>
  BY <1>0 DEF RunBlock, Step
<1>3. Completion(h) \in Seq(Callback)
  BY CompletionType DEF IInv
<1>4. calls' = [calls EXCEPT ![h] = Completion(h)]
  <2>1. calls[h] = << >>
    BY <1>1 DEF IInv, CallsOK
  <2> QED
    BY <1>1, <1>3, <2>1
<1>5. TypeOK'
  <2>1. crashed' \in BOOLEAN
    BY <1>1
  <2> QED
    BY <1>1, <1>3, <1>4, <2>1 DEF IInv, TypeOK, PCs
<1>6. CallsOK'
  <2>1. ASSUME NEW r \in Requests PROVE Completion(r)' = Completion(r)
    BY <1>1 DEF Completion, Result
  <2> QED
    BY <1>1, <1>4, <2>1 DEF IInv, TypeOK, CallsOK
<1>7. RaisedOK'
  BY <1>0, <1>1, <1>4, RaisedKept DEF IInv
<1>8. TasksAreQueued'
  <2>1. At("completing")' = At("completing") \ {h} /\ At("finished")' = At("finished")
    BY <1>1 DEF IInv, TypeOK, At
  <2> QED
    BY <1>0, <1>1, <1>5, <2>1, QueuesHold, HoldsTail, QueuedAgain DEF RunBlock
<1> QED
  BY <1>5, <1>6, <1>7, <1>8 DEF IInv

LEMMA NextInv == IInv /\ [Next]_vars => IInv'
<1> SUFFICES ASSUME IInv, [Next]_vars PROVE IInv'
  OBVIOUS
<1>1. CASE Caller
  BY <1>1, CallerStarts, StartInv
<1>2. CASE cancelRequest
  BY <1>2, CancelInv
<1>3. CASE NetworkChanges
  <2>1. online' \in BOOLEAN /\ UNCHANGED <<pc, op, hasFailed, outcome, calls, delegateQ, mainQ, crashed>>
    BY <1>3, ClientAssumption DEF NetworkChanges, requestVars
  <2> QED
    BY <2>1, CallsKept DEF IInv, TypeOK, RaisedOK, TasksAreQueued, Queued, Did
<1>4. ASSUME NEW r \in Requests, Ends(r) \/ Parse(r) PROVE IInv'
  BY <1>4, FinishInv, ParseInv DEF Ends
<1>5. CASE DidComplete
  BY <1>5, DidCompleteInv
<1>6. CASE RunCompletion
  BY <1>6, RunCompletionInv
<1>7. CASE UNCHANGED vars
  <2>1. UNCHANGED <<online, pc, op, hasFailed, outcome, calls, delegateQ, mainQ, crashed>>
    BY <1>7 DEF vars, requestVars
  <2> QED
    BY <2>1, CallsKept DEF IInv, TypeOK, RaisedOK, TasksAreQueued, Queued, Did
<1> QED
  BY <1>1, <1>2, <1>3, <1>4, <1>5, <1>6, <1>7 DEF Next

\* Every reachable state satisfies the invariant: a request was called back
\* exactly as its completion block computes, and only when it has settled.
THEOREM Invariance == Spec => []IInv
  BY InitInv, NextInv, PTL DEF Spec

-----------------------------------------------------------------------------
(* The safety properties. *)

\* The type invariant of the request pipeline holds for any set of requests.
THEOREM TypeCorrect == Spec => []TypeOK
<1> IInv => TypeOK
  BY DEF IInv
<1> QED
  BY Invariance, PTL

\* What a request's caller was told is what the completion block computed, or
\* nothing yet.
LEMMA CallsOfRequest ==
    ASSUME IInv, NEW r \in Requests
    PROVE  \/ calls[r] = << >>
           \/ calls[r] = <<Raised>> /\ Explained(r)
           \/ calls[r] = <<Success>> /\ Honest(r)
           \/ \E c \in Codes \cup {404, NoCode} :
                calls[r] = <<Failed(c)>> /\ (c = 0 => Refused(r))
  BY CompletionCases DEF IInv, CallsOK

\* An answer is the only one: no branch of a completion block falls through
\* into the next (BaseHandler.m:189-211, 234-257).
THEOREM OneEnd == Spec => []CalledOnce
<1>1. IInv => CalledOnce
  BY CompletionType DEF IInv, CallsOK, CalledOnce
<1> QED
  BY <1>1, Invariance, PTL

\* Success is reported for an accepted reply only (BaseHandler.m:190-204).
THEOREM Honesty == Spec => []SuccessIsHonest
<1>1. ASSUME IInv, NEW r \in Requests, Did(r, Success) PROVE Honest(r)
  BY <1>1, CallsOfRequest, CallbacksDiffer DEF Did
<1>2. IInv => SuccessIsHonest
  BY <1>1 DEF SuccessIsHonest, Honest
<1> QED
  BY <1>2, Invariance, PTL

\* The failed block never receives 0 by accident (BaseHandler.m:57-94).
THEOREM NoFalseZero == Spec => []FailedZeroExplained
<1>1. ASSUME IInv, NEW r \in Requests, Did(r, Failed(0)) PROVE Refused(r)
  <2>1. \A c : Failed(c) = Failed(0) => c = 0
    BY DEF Failed
  <2> QED
    BY <1>1, <2>1, CallsOfRequest, CallbacksDiffer DEF Did
<1>2. IInv => FailedZeroExplained
  BY <1>1 DEF FailedZeroExplained, Refused
<1> QED
  BY <1>2, Invariance, PTL

\* The app dies in a completion block for the three known reasons only
\* (BaseHandler.m:57-94, 237-239).
THEOREM CrashesExplained == Spec => []CrashExplained
<1>1. ASSUME IInv, NEW r \in Requests, Did(r, Raised) PROVE Explained(r)
  BY <1>1, CallsOfRequest, CallbacksDiffer DEF Did
<1>2. IInv => CrashExplained
  BY <1>1 DEF IInv, RaisedOK, CrashExplained, Explained
<1> QED
  BY <1>2, Invariance, PTL

\* A reply that reports success always ends in the success block
\* (BaseHandler.m:189-206, 235-252).
THEOREM SuccessIsReported == Spec => []AcceptedSucceeds
<1>1. ASSUME TypeOK, NEW r \in Requests, op[r] # "head", outcome[r] # NoReply,
             outcome[r].status, outcome[r].type,
             outcome[r].body.kind = "dict", outcome[r].body.code \in {NoCode, 0}
      PROVE  Completion(r) = <<Success>>
  <2>1. Result(r) = Object(outcome[r].body)
    BY <1>1 DEF Result, responseObjectForResponse, Valid, ParseJSON
  <2>2. Accepted(outcome[r].body) /\ ~Unreadable(outcome[r].body)
    BY <1>1, CodeAssumption DEF Accepted, Unreadable, IsDict
  <2> QED
    BY <1>1, <2>1, <2>2 DEF Completion, requestSuccess, uploadSuccess, Object
<1>2. IInv => AcceptedSucceeds
  BY <1>1 DEF IInv, CallsOK, AcceptedSucceeds
<1> QED
  BY <1>2, Invariance, PTL

\* No request with a failed block settles in silence (BaseHandler.m:44-95).
THEOREM NobodySettlesInSilence == Spec => []SettledIsTold
<1>1. ASSUME NEW r \in Requests, hasFailed[r] PROVE Completion(r) # << >>
  BY <1>1 DEF Completion, CompletionOfHead, handlerErrorWithTask_error, requestSuccess,
              uploadSuccess, handlerErrorWithTask_data
<1>2. IInv => SettledIsTold
  BY <1>1 DEF IInv, CallsOK, SettledIsTold
<1> QED
  BY <1>2, Invariance, PTL

-----------------------------------------------------------------------------
(* The refinement. *)

\* A step that makes no request and calls nobody is invisible.
LEMMA InvisibleStep ==
    ASSUME UNCHANGED <<calls, crashed>>,
           \A r \in Requests : pc'[r] = "new" <=> pc[r] = "new"
    PROVE  UNCHANGED Calls!vars
  BY DEF Calls!vars, Did

\* The end of the completion block answers its request, kills the app, or, if
\* the caller passed no failed block, goes unnoticed.
LEMMA CompletionRefines ==
    ASSUME IInv, RunCompletion
    PROVE  [Calls!Next]_Calls!vars
<1>1. PICK h \in Requests : RunBlock(h, Completion(h))
  BY DEF RunCompletion
<1>2. /\ ~crashed /\ pc[h] = "completing"
      /\ pc' = [pc EXCEPT ![h] = "settled"]
      /\ calls' = [calls EXCEPT ![h] = @ \o Completion(h)]
      /\ crashed' = \E i \in 1..Len(Completion(h)) : Completion(h)[i] = Raised
  BY <1>1 DEF RunBlock, Step
<1>3. calls[h] = << >> /\ Completion(h) \in Seq(Callback)
  BY <1>1, <1>2, CompletionType DEF IInv, CallsOK
<1>4. calls' = [calls EXCEPT ![h] = Completion(h)]
  BY <1>2, <1>3
<1>5. {r \in Requests : pc'[r] # "new"} = {r \in Requests : pc[r] # "new"}
      /\ h \in {r \in Requests : pc[r] # "new"}
  BY <1>1, <1>2 DEF IInv, TypeOK
<1>6. /\ calls'[h] = Completion(h)
      /\ \A r \in Requests : r # h => calls'[r] = calls[r]
  BY <1>1, <1>4 DEF IInv, TypeOK
<1>7. /\ ~Did(h, Raised) /\ (Did(h, Raised)' <=> crashed')
      /\ \A r \in Requests : r # h => (Did(r, Raised)' <=> Did(r, Raised))
  BY <1>1, <1>2, <1>3, <1>6 DEF Did
<1> DEFINE answer == [r \in Requests |-> IF Did(r, Raised) THEN << >> ELSE calls[r]]
<1>8. /\ answer[h] = << >>
      /\ answer' = [answer EXCEPT ![h] = IF crashed' THEN << >> ELSE Completion(h)]
  BY <1>1, <1>3, <1>6, <1>7
<1> crashed \in BOOLEAN /\ crashed' \in BOOLEAN
  BY <1>2 DEF IInv, TypeOK
<1>9. CASE crashed'
  <2>1. answer' = answer
    BY <1>1, <1>8, <1>9
  <2>2. Calls!Die(h)
    BY <1>1, <1>2, <1>5, <1>8, <1>9, <2>1 DEF Calls!Die
  <2> QED
    BY <1>1, <2>2 DEF Calls!Next
<1>10. CASE ~crashed' /\ Completion(h) = << >>
  <2>1. answer' = answer
    BY <1>1, <1>8, <1>10
  <2> QED
    BY <1>2, <1>5, <1>10, <2>1 DEF Calls!vars
<1>11. CASE ~crashed' /\ Completion(h) # << >>
  <2>1. PICK c \in Callback \ {Raised} : Completion(h) = <<c>>
    <3>1. PICK c \in Callback : Completion(h) = <<c>>
      BY <1>1, <1>11, CompletionType DEF IInv
    <3>2. c # Raised
      BY <1>2, <1>11, <3>1
    <3> QED
      BY <3>1, <3>2
  <2>2. answer' = [answer EXCEPT ![h] = <<c>>]
    BY <1>8, <1>11, <2>1
  <2>3. Calls!Answer(h, <<c>>)
    BY <1>1, <1>2, <1>5, <1>8, <1>11, <2>2 DEF Calls!Answer
  <2> QED
    BY <1>1, <2>1, <2>3 DEF Calls!Next
<1> QED
  BY <1>9, <1>10, <1>11

\* The initial state and every step of the pipeline are those of one-shot
\* calls: a request asks, its completion block answers or kills, everything
\* else is invisible (BaseHandler.m:188-211, 234-257).
THEOREM RefinesOneShotCalls == Spec => AnswersAreOneShot
<1>1. Init => Calls!Init
  BY DEF Init, Calls!Init, Did
<1>2. IInv /\ [Next]_vars => [Calls!Next]_Calls!vars
  <2> SUFFICES ASSUME IInv, [Next]_vars PROVE [Calls!Next]_Calls!vars
    OBVIOUS
  <2> pc \in [Requests -> PCs]
    BY DEF IInv, TypeOK
  <2>1. CASE Caller
    <3>1. PICK r \in Requests, call \in Call, stage \in Started : Start(r, call, stage)
      BY <2>1, CallerStarts
    <3>2. /\ ~crashed /\ pc[r] = "new" /\ pc' = [pc EXCEPT ![r] = stage]
          /\ UNCHANGED <<calls, crashed>>
      BY <3>1 DEF Start, Step
    <3>3. stage # "new"
      BY DEF Started
    <3>4. Calls!Ask(r)
      BY <3>2, <3>3 DEF Calls!Ask, Did
    <3> QED
      BY <3>4 DEF Calls!Next
  <2>2. ASSUME NEW r \in Requests, Ends(r) \/ Parse(r)
        PROVE  UNCHANGED Calls!vars
    BY <2>2, InvisibleStep DEF Ends, Finish, Parse, Step, requestVars
  <2>3. CASE cancelRequest
    BY <2>3, InvisibleStep DEF cancelRequest, requestVars, IInv, TasksAreQueued, Queued
  <2>4. CASE DidComplete
    BY <2>4, InvisibleStep DEF DidComplete, Step, requestVars
  <2>5. CASE NetworkChanges \/ UNCHANGED vars
    BY <2>5, InvisibleStep DEF NetworkChanges, vars, requestVars
  <2> QED
    BY <2>1, <2>2, <2>3, <2>4, <2>5, CompletionRefines DEF Next
<1> QED
  BY <1>1, <1>2, Invariance, PTL DEF Spec, AnswersAreOneShot, Calls!Spec
=============================================================================
