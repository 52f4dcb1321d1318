----------------------- MODULE MobileApiHandlerProofs -----------------------
(***************************************************************************)
(* Proofs about the demo requests, for any set of requests, codes, replies *)
(* and data.  They rest on the lemmas of HCHttpClientProofs about what a   *)
(* completion block may do.                                                *)
(***************************************************************************)
EXTENDS MobileApiHandler, HCHttpClientProofs

\* The blocks that run are those of the pipeline and of TestViewController.
DemoCallsOK ==
    \A r \in Requests : calls[r] = IF pc[r] = "settled" THEN DemoCompletion(r) ELSE << >>

\* Every request is a POST with a failed block (its initial values until then).
PostsOK == \A r \in Requests : op[r] \in {"get", "post"} /\ hasFailed[r]

DemoInv == DemoTypeOK /\ DemoCallsOK /\ RaisedOK /\ PostsOK

-----------------------------------------------------------------------------
(* What the success blocks of TestViewController may do. *)

\* A decoder yields an entity, or an array where it was handed arrays.
LEMMA DecoderType ==
    ASSUME NEW d \in Data
    PROVE  parseObjectWithKeyValues(d) \in OneEntity /\ parseObjectArrayWithKeyValues(d) \in Decoded
  BY DEF parseObjectWithKeyValues, parseObjectArrayWithKeyValues, Person, phoneOf,
         NoEntity, NestedArray, OneEntity, Decoded

\* A block raises only over data without a first phone.
LEMMA BlockRaisesOnly ==
    ASSUME NEW p \in Paths, NEW d \in Data, BlockRaises(p, d)
    PROVE  NoFirstPhone(p, d)
  BY DEF BlockRaises, NoFirstPhone, ReadingRaises, parseObjectWithKeyValues,
         parseObjectArrayWithKeyValues, Person, phoneOf, NoEntity, NestedArray, Data, JsonPhone

\* A demo block does what the pipeline's block does, or raises after success.
LEMMA DemoCompletionCases ==
    ASSUME DemoTypeOK, NEW r \in Requests
    PROVE  \/ DemoCompletion(r) = Completion(r)
           \/ /\ DemoCompletion(r) = <<Success, Raised>> /\ Completion(r) = <<Success>>
              /\ NoFirstPhone(path[r], data[r])
  BY BlockRaisesOnly DEF DemoCompletion, DemoTypeOK

LEMMA DemoCompletionType ==
    ASSUME DemoTypeOK, NEW r \in Requests
    PROVE  DemoCompletion(r) \in Seq(Callback)
<1>1. Success \in Callback /\ Raised \in Callback
  BY DEF Success, Raised, Callback
<1>2. <<Success, Raised>> \in Seq(Callback)
  BY <1>1
<1> QED
  BY <1>2, DemoCompletionCases, CompletionType DEF DemoTypeOK

-----------------------------------------------------------------------------
(* The invariant. *)

LEMMA DemoInitInv == DemoInit => DemoInv
<1> SUFFICES ASSUME DemoInit PROVE DemoInv
  OBVIOUS
<1>1. TypeOK /\ RaisedOK
  BY InitInv DEF DemoInit, IInv
<1>2. DemoTypeOK
  BY <1>1 DEF DemoInit, DemoTypeOK, Paths, NoData, Data
<1>3. DemoCallsOK /\ PostsOK
  BY DEF DemoInit, Init, DemoCallsOK, PostsOK
<1> QED
  BY <1>1, <1>2, <1>3 DEF DemoInv

\* A step that settles nobody and changes no settled request keeps DemoCallsOK.
LEMMA DemoCallsKept ==
    ASSUME DemoCallsOK, UNCHANGED calls,
           \A r \in Requests :
             /\ pc'[r] = "settled" <=> pc[r] = "settled"
             /\ pc[r] = "settled" =>
                  /\ op'[r] = op[r] /\ hasFailed'[r] = hasFailed[r] /\ outcome'[r] = outcome[r]
                  /\ path'[r] = path[r] /\ data'[r] = data[r]
    PROVE  DemoCallsOK'
<1>1. ASSUME NEW r \in Requests, pc[r] = "settled"
      PROVE  DemoCompletion(r)' = DemoCompletion(r)
  <2>1. Completion(r)' = Completion(r)
    BY <1>1 DEF Completion, Result
  <2> QED
    BY <1>1, <2>1 DEF DemoCompletion
<1> QED
  BY <1>1 DEF DemoCallsOK

LEMMA DemoStartInv ==
    ASSUME DemoInv, NEW r \in Requests, NEW p \in Paths,
           MobileRequest(r, [path |-> p, failed |-> TRUE])
    PROVE  DemoInv'
<1>1. /\ pc[r] = "new" /\ pc' = [pc EXCEPT ![r] = "sent"]
      /\ op' = [op EXCEPT ![r] = "post"] /\ hasFailed' = [hasFailed EXCEPT ![r] = TRUE]
      /\ path' = [path EXCEPT ![r] = p]
      /\ UNCHANGED <<online, outcome, calls, delegateQ, mainQ, crashed, data>>
  BY DEF MobileRequest, requestWithPath, Start, Step, RestTask
<1>2. DemoTypeOK'
  BY <1>1 DEF DemoInv, DemoTypeOK, TypeOK, PCs, Rest
<1>3. DemoCallsOK'
  BY <1>1, DemoCallsKept DEF DemoInv, DemoTypeOK, TypeOK
<1>4. RaisedOK' /\ PostsOK'
  BY <1>1 DEF DemoInv, DemoTypeOK, TypeOK, RaisedOK, Did, PostsOK
<1> QED
  BY <1>2, <1>3, <1>4 DEF DemoInv

LEMMA DemoFinishInv ==
    ASSUME DemoInv, NEW r \in Requests, DemoFinish(r)
    PROVE  DemoInv'
<1>1. PICK reply \in Replies \cup {NoReply}, d \in Data :
        /\ Finish(r, reply)
        /\ data' = [data EXCEPT ![r] = d] \/ UNCHANGED data
        /\ UNCHANGED path
  <2>1. NoData \in Data /\ ServerData \subseteq Data
    BY DataAssumption DEF NoData, Data
  <2> QED
    BY <2>1 DEF DemoFinish, demoVars
<1>2. /\ pc[r] = "sent" /\ pc' = [pc EXCEPT ![r] = "finished"]
      /\ outcome' = [outcome EXCEPT ![r] = reply]
      /\ delegateQ' = Append(delegateQ, r)
      /\ UNCHANGED <<online, op, hasFailed, calls, mainQ, crashed>>
  BY <1>1 DEF Finish, Step
<1>3. TypeOK'
  BY <1>2 DEF DemoInv, DemoTypeOK, TypeOK, PCs
<1>4. DemoTypeOK'
  BY <1>1, <1>3 DEF DemoInv, DemoTypeOK
<1>5. DemoCallsOK'
  BY <1>1, <1>2, DemoCallsKept DEF DemoInv, DemoTypeOK, TypeOK
<1>6. RaisedOK' /\ PostsOK'
  BY <1>2 DEF DemoInv, RaisedOK, Did, PostsOK
<1> QED
  BY <1>4, <1>5, <1>6 DEF DemoInv

\* A request moves on in the queues of AFNetworking.
Moved(r) ==
    /\ pc[r] # "settled"
    /\ \E c \in {"completing", "parsing"} : pc' = [pc EXCEPT ![r] = c]
    /\ delegateQ' \in Seq(Requests) /\ mainQ' \in Seq(Requests)
    /\ UNCHANGED <<online, op, hasFailed, outcome, calls, crashed>>

\* The queues of AFNetworking move a request on and touch nothing else.
LEMMA DemoQueuesInv ==
    ASSUME DemoInv, UNCHANGED demoVars,
           DidComplete \/ \E r \in Requests : Parse(r)
    PROVE  DemoInv'
<1>1. \E r \in Requests : Moved(r)
  <2>1. CASE DidComplete
    <3>1. PICK h \in Requests : h = Head(delegateQ)
      BY <2>1 DEF DidComplete, DemoInv, DemoTypeOK, TypeOK
    <3>2. /\ pc[h] = "finished" /\ delegateQ' = Tail(delegateQ) /\ delegateQ # << >>
          /\ mainQ' \in {mainQ, Append(mainQ, h)}
          /\ \E c \in {"completing", "parsing"} : pc' = [pc EXCEPT ![h] = c]
          /\ UNCHANGED <<online, op, hasFailed, outcome, calls, crashed>>
      BY <2>1, <3>1 DEF DidComplete, Step, requestVars
    <3>3. delegateQ \in Seq(Requests) /\ mainQ \in Seq(Requests)
      BY DEF DemoInv, DemoTypeOK, TypeOK
    <3>4. Tail(delegateQ) \in Seq(Requests) /\ Append(mainQ, h) \in Seq(Requests)
      BY <3>2, <3>3
    <3> QED
      BY <3>2, <3>3, <3>4 DEF Moved
  <2>2. ASSUME NEW r \in Requests, Parse(r) PROVE Moved(r)
    <3>1. mainQ \in Seq(Requests) /\ delegateQ \in Seq(Requests)
      BY DEF DemoInv, DemoTypeOK, TypeOK
    <3> QED
      BY <2>2, <3>1 DEF Parse, Step, requestVars, Moved
  <2> QED
    BY <2>1, <2>2
<1>2. UNCHANGED <<path, data>>
  BY DEF demoVars
<1>3. PICK r \in Requests, c \in {"completing", "parsing"} :
        /\ pc[r] # "settled" /\ pc' = [pc EXCEPT ![r] = c]
        /\ delegateQ' \in Seq(Requests) /\ mainQ' \in Seq(Requests)
        /\ UNCHANGED <<online, op, hasFailed, outcome, calls, crashed>>
  BY <1>1 DEF Moved
<1>4. DemoTypeOK'
  BY <1>2, <1>3 DEF DemoInv, DemoTypeOK, TypeOK, PCs
<1>5. DemoCallsOK'
  BY <1>2, <1>3, DemoCallsKept DEF DemoInv, DemoTypeOK, TypeOK
<1>6. RaisedOK' /\ PostsOK'
  BY <1>3 DEF DemoInv, RaisedOK, Did, PostsOK
<1> QED
  BY <1>4, <1>5, <1>6 DEF DemoInv

\* What the step of a block changes.
LEMMA RunDemoStep ==
    ASSUME DemoInv, NEW h \in Requests, RunBlock(h, DemoCompletion(h))
    PROVE  /\ ~crashed /\ pc[h] = "completing" /\ calls[h] = << >>
           /\ pc' = [pc EXCEPT ![h] = "settled"]
           /\ calls' = [calls EXCEPT ![h] = DemoCompletion(h)]
           /\ crashed' = \E i \in 1..Len(DemoCompletion(h)) : DemoCompletion(h)[i] = Raised
           /\ crashed' \in BOOLEAN
           /\ mainQ' = Tail(mainQ) /\ mainQ # << >>
           /\ UNCHANGED <<online, op, hasFailed, outcome, delegateQ>>
<1>1. /\ ~crashed /\ pc[h] = "completing"
      /\ pc' = [pc EXCEPT ![h] = "settled"]
      /\ calls' = [calls EXCEPT ![h] = @ \o DemoCompletion(h)]
      /\ crashed' = \E i \in 1..Len(DemoCompletion(h)) : DemoCompletion(h)[i] = Raised
      /\ mainQ' = Tail(mainQ) /\ mainQ # << >>
      /\ UNCHANGED <<online, op, hasFailed, outcome, delegateQ>>
  BY DEF RunBlock, Step
<1>2. calls[h] = << >> /\ DemoCompletion(h) \in Seq(Callback)
  BY <1>1, DemoCompletionType DEF DemoInv, DemoCallsOK
<1>3. calls' = [calls EXCEPT ![h] = DemoCompletion(h)]
  BY <1>1, <1>2
<1> QED
  BY <1>1, <1>2, <1>3

LEMMA RunDemoInv == ASSUME DemoInv, RunDemo PROVE DemoInv'
<1>1. PICK h \in Requests : RunBlock(h, DemoCompletion(h)) /\ UNCHANGED <<path, data>>
  BY DEF RunDemo, demoVars
<1>2. /\ pc' = [pc EXCEPT ![h] = "settled"]
      /\ calls' = [calls EXCEPT ![h] = DemoCompletion(h)]
      /\ crashed' = \E i \in 1..Len(DemoCompletion(h)) : DemoCompletion(h)[i] = Raised
      /\ crashed' \in BOOLEAN
      /\ mainQ' = Tail(mainQ) /\ mainQ # << >>
      /\ UNCHANGED <<online, op, hasFailed, outcome, delegateQ>>
  BY <1>1, RunDemoStep
<1>3. DemoTypeOK'
  <2>1. DemoCompletion(h) \in Seq(Callback)
    BY DemoCompletionType DEF DemoInv
  <2> QED
    BY <1>1, <1>2, <2>1 DEF DemoInv, DemoTypeOK, TypeOK, PCs
<1>4. DemoCallsOK'
  <2>1. ASSUME NEW r \in Requests PROVE DemoCompletion(r)' = DemoCompletion(r)
    <3>1. Completion(r)' = Completion(r)
      BY <1>2 DEF Completion, Result
    <3> QED
      BY <1>1, <3>1 DEF DemoCompletion
  <2> QED
    BY <1>2, <2>1 DEF DemoInv, DemoTypeOK, TypeOK, DemoCallsOK
<1>5. RaisedOK'
  BY <1>1, <1>2, RunDemoStep, RaisedKept DEF DemoInv, DemoTypeOK
<1>6. PostsOK'
  BY <1>2 DEF DemoInv, PostsOK
<1> QED
  BY <1>3, <1>4, <1>5, <1>6 DEF DemoInv

LEMMA DemoNextInv == DemoInv /\ [DemoNext]_allVars => DemoInv'
<1> SUFFICES ASSUME DemoInv, [DemoNext]_allVars PROVE DemoInv'
  OBVIOUS
<1>1. CASE Demo
  BY <1>1, DemoStartInv DEF Demo
<1>2. ASSUME NEW r \in Requests, DemoFinish(r) PROVE DemoInv'
  BY <1>2, DemoFinishInv
<1>3. CASE (DidComplete \/ \E r \in Requests : Parse(r)) /\ UNCHANGED demoVars
  BY <1>3, DemoQueuesInv
<1>4. CASE RunDemo
  BY <1>4, RunDemoInv
<1>5. CASE UNCHANGED allVars
  <2>1. UNCHANGED <<online, pc, op, hasFailed, outcome, calls, delegateQ, mainQ, crashed, path, data>>
    BY <1>5 DEF allVars, vars, requestVars, demoVars
  <2> QED
    BY <2>1, DemoCallsKept DEF DemoInv, DemoTypeOK, TypeOK, RaisedOK, Did, PostsOK
<1> QED
  BY <1>1, <1>2, <1>3, <1>4, <1>5 DEF DemoNext

\* Every reachable state of the demo satisfies the invariant: each settled
\* request did what its two blocks compute, and none lacks a failed block.
THEOREM DemoInvariance == DemoSpec => []DemoInv
  BY DemoInitInv, DemoNextInv, PTL DEF DemoSpec

-----------------------------------------------------------------------------
(* The properties. *)

\* The type invariant of the demo requests holds for any requests and data.
THEOREM DemoTypeCorrect == DemoSpec => []DemoTypeOK
<1> DemoInv => DemoTypeOK
  BY DEF DemoInv
<1> QED
  BY DemoInvariance, PTL

\* Only an unreadable code or a person with an empty array of phones lets a
\* demo request kill the app (TestViewController.m:44-121).
THEOREM DemoCrashesExplained == DemoSpec => []DemoCrashExplained
<1>1. ASSUME DemoInv, NEW r \in Requests, Did(r, Raised)
      PROVE  /\ outcome[r] # NoReply
             /\ \/ outcome[r].body.code = NullCode
                \/ /\ Did(r, Success) /\ Valid(outcome[r]) /\ Accepted(outcome[r].body)
                   /\ NoFirstPhone(path[r], data[r])
  <2> USE <1>1
  <2>1. calls[r] = DemoCompletion(r) /\ TypeOK /\ DemoTypeOK
    BY DEF DemoInv, DemoTypeOK, DemoCallsOK, Did
  <2>2. op[r] \notin {"head", "upload"} /\ hasFailed[r]
    BY DEF DemoInv, PostsOK
  <2>3. CASE DemoCompletion(r) = Completion(r)
    <3>0. \/ calls[r] = << >>
          \/ calls[r] = <<Raised>> /\ Explained(r)
          \/ calls[r] = <<Success>>
          \/ \E c : calls[r] = <<Failed(c)>>
      BY <2>1, <2>3, CompletionCases
    <3>1. Explained(r)
      BY <3>0, CallbacksDiffer DEF Did
    <3> QED
      BY <2>2, <3>1 DEF Explained
  <2>4. CASE /\ DemoCompletion(r) = <<Success, Raised>> /\ Completion(r) = <<Success>>
             /\ NoFirstPhone(path[r], data[r])
    <3>1. Honest(r)
      BY <2>1, <2>4, CompletionCases, CallbacksDiffer
    <3>2. Did(r, Success)
      BY <2>1, <2>4 DEF Did
    <3> QED
      BY <2>2, <2>4, <3>1, <3>2 DEF Honest
  <2> QED
    BY <2>1, <2>3, <2>4, DemoCompletionCases
<1>2. DemoInv => DemoCrashExplained
  BY <1>1 DEF DemoInv, RaisedOK, DemoCrashExplained
<1> QED
  BY <1>2, DemoInvariance, PTL

-----------------------------------------------------------------------------
(* The refinement. *)

\* The end of a demo request answers it, or kills the app.
LEMMA RunDemoRefines == ASSUME DemoInv, RunDemo PROVE Calls!Next
<1>1. PICK h \in Requests : RunBlock(h, DemoCompletion(h))
  BY DEF RunDemo
<1>2. /\ ~crashed /\ pc[h] = "completing" /\ calls[h] = << >>
      /\ pc' = [pc EXCEPT ![h] = "settled"]
      /\ calls' = [calls EXCEPT ![h] = DemoCompletion(h)]
      /\ crashed' = \E i \in 1..Len(DemoCompletion(h)) : DemoCompletion(h)[i] = Raised
      /\ crashed' \in BOOLEAN
  BY <1>1, RunDemoStep
<1>3. /\ {r \in Requests : pc'[r] # "new"} = {r \in Requests : pc[r] # "new"}
      /\ h \in {r \in Requests : pc[r] # "new"}
  BY <1>2 DEF DemoInv, DemoTypeOK, TypeOK
<1>4. /\ calls'[h] = DemoCompletion(h)
      /\ \A r \in Requests : r # h => calls'[r] = calls[r]
  BY <1>2 DEF DemoInv, DemoTypeOK, TypeOK
<1>5. /\ ~Did(h, Raised) /\ (Did(h, Raised)' <=> crashed')
      /\ \A r \in Requests : r # h => (Did(r, Raised)' <=> Did(r, Raised))
  BY <1>2, <1>4 DEF Did
<1> DEFINE answer == [r \in Requests |-> IF Did(r, Raised) THEN << >> ELSE calls[r]]
<1>6. /\ answer[h] = << >>
      /\ answer' = [answer EXCEPT ![h] = IF crashed' THEN << >> ELSE DemoCompletion(h)]
  BY <1>2, <1>4, <1>5
<1> crashed \in BOOLEAN /\ crashed' \in BOOLEAN
  BY <1>2 DEF DemoInv, DemoTypeOK, TypeOK
<1>7. CASE crashed'
  <2>1. answer' = answer
    BY <1>6, <1>7
  <2>2. Calls!Die(h)
    BY <1>2, <1>3, <1>6, <1>7, <2>1 DEF Calls!Die
  <2> QED
    BY <2>2 DEF Calls!Next
<1>8. CASE ~crashed'
  <2>1. PICK c \in Callback \ {Raised} : DemoCompletion(h) = <<c>>
    <3>1. DemoCompletion(h) # <<Success, Raised>> /\ DemoCompletion(h) # <<Raised>>
      BY <1>2, <1>8
    <3>2. Completion(h) # << >>
      <4>1. op[h] # "head" /\ op[h] # "upload" /\ hasFailed[h]
        BY DEF DemoInv, PostsOK
      <4> QED
        BY <4>1 DEF Completion, handlerErrorWithTask_error, requestSuccess,
                    handlerErrorWithTask_data
    <3>3. Completion(h) \in {<< >>} \cup {<<c>> : c \in Callback}
      BY CompletionType DEF DemoInv, DemoTypeOK
    <3> QED
      BY <3>1, <3>2, <3>3, DemoCompletionCases DEF DemoInv
  <2>2. answer' = [answer EXCEPT ![h] = <<c>>]
    BY <1>6, <1>8, <2>1
  <2>3. Calls!Answer(h, <<c>>)
    BY <1>2, <1>3, <1>6, <1>8, <2>2 DEF Calls!Answer
  <2> QED
    BY <2>1, <2>3 DEF Calls!Next
<1> QED
  BY <1>7, <1>8

\* The composition still implements one-shot calls: each demo request is
\* answered once, by one of its two blocks, unless a block ends the app
\* (MobileApiHandler.m:16-71, TestViewController.m:44-121).
THEOREM DemoRefinesOneShotCalls == DemoSpec => Calls!Spec
<1>1. DemoInit => Calls!Init
  BY DEF DemoInit, Init, Calls!Init, Did
<1>2. DemoInv /\ [DemoNext]_allVars => [Calls!Next]_Calls!vars
  <2> SUFFICES ASSUME DemoInv, [DemoNext]_allVars PROVE [Calls!Next]_Calls!vars
    OBVIOUS
  <2> pc \in [Requests -> PCs]
    BY DEF DemoInv, DemoTypeOK, TypeOK
  <2>1. ASSUME NEW r \in Requests, NEW p \in Paths,
               MobileRequest(r, [path |-> p, failed |-> TRUE])
        PROVE  Calls!Next
    <3>1. /\ ~crashed /\ pc[r] = "new" /\ pc' = [pc EXCEPT ![r] = "sent"]
          /\ UNCHANGED <<calls, crashed>>
      BY <2>1 DEF MobileRequest, requestWithPath, Start, Step, RestTask
    <3>2. Calls!Ask(r)
      BY <3>1 DEF Calls!Ask, Did
    <3> QED
      BY <3>2 DEF Calls!Next
  <2>2. ASSUME NEW r \in Requests, DemoFinish(r) \/ Parse(r)
        PROVE  UNCHANGED Calls!vars
    BY <2>2, InvisibleStep DEF DemoFinish, Finish, Parse, Step, requestVars
  <2>3. CASE DidComplete
    BY <2>3, InvisibleStep DEF DidComplete, Step, requestVars
  <2>4. CASE UNCHANGED allVars
    BY <2>4, InvisibleStep DEF allVars, vars, requestVars
  <2> QED
    BY <2>1, <2>2, <2>3, <2>4, RunDemoRefines DEF DemoNext, Demo
<1> QED
  BY <1>1, <1>2, DemoInvariance, PTL DEF DemoSpec, Calls!Spec

-----------------------------------------------------------------------------
(* The demo as a use of the pipeline. *)

\* The two mapped variables: what BaseHandler's blocks did, and whether one of
\* them has raised.
theirCalls == [r \in Requests |-> IF BlockRaised(r) THEN <<Success>> ELSE calls[r]]
theyRaised == crashed /\ ~ \E r \in Requests : BlockRaised(r)

\* The operators of the instance are those of the pipeline: they read neither
\* of the mapped variables.
LEMMA SameCompletion ==
    ASSUME NEW r
    PROVE  Pipeline!Completion(r) = Completion(r) /\ Pipeline!Raised = Raised
<1>1. Pipeline!Result(r) = Result(r)
  BY DEF Pipeline!Result, Result, Pipeline!responseObjectForResponse, responseObjectForResponse,
         Pipeline!Valid, Valid, Pipeline!ValidationError, ValidationError,
         Pipeline!ParseJSON, ParseJSON, Pipeline!Object, Object,
         Pipeline!ErrorWith, ErrorWith, Pipeline!Nil, Nil
<1> QED
  BY <1>1
     DEF Pipeline!Completion, Completion, Pipeline!CompletionOfHead, CompletionOfHead,
         Pipeline!handlerErrorWithTask_error, handlerErrorWithTask_error,
         Pipeline!handlerErrorWithTask_data, handlerErrorWithTask_data,
         Pipeline!requestSuccess, requestSuccess, Pipeline!uploadSuccess, uploadSuccess,
         Pipeline!Accepted, Accepted, Pipeline!Unreadable, Unreadable, Pipeline!IsDict, IsDict,
         Pipeline!FailureCode, FailureCode, Pipeline!Success, Success, Pipeline!Failed, Failed,
         Pipeline!Raised, Raised

\* As long as the app lives no block of TestViewController has raised.
LEMMA LivingPipeline ==
    ASSUME DemoInv, ~crashed
    PROVE  theirCalls = calls /\ ~theyRaised /\ \A r \in Requests : ~BlockRaised(r)
<1>1. ASSUME NEW r \in Requests, BlockRaised(r) PROVE FALSE
  <2>1. Len(calls[r]) = 2 /\ calls[r][2] = Raised
    BY <1>1 DEF BlockRaised
  <2>2. Did(r, Raised)
    BY <2>1 DEF Did
  <2> QED
    BY <2>2 DEF DemoInv, RaisedOK
<1>2. \A r \in Requests : ~BlockRaised(r)
  BY <1>1
<1> QED
  BY <1>2 DEF DemoInv, DemoTypeOK, TypeOK, theirCalls, theyRaised

\* A step that runs no block leaves the mapped variables alone.
LEMMA PipelineUndisturbed ==
    ASSUME UNCHANGED <<calls, crashed>>
    PROVE  UNCHANGED <<theirCalls, theyRaised>>
  BY DEF theirCalls, theyRaised, BlockRaised

LEMMA DemoRequestInPipeline ==
    ASSUME DemoInv, NEW r \in Requests, NEW p \in Paths,
           MobileRequest(r, [path |-> p, failed |-> TRUE])
    PROVE  Pipeline!Caller
<1> DEFINE call == [op |-> "post", failed |-> TRUE]
<1>1. /\ ~crashed /\ pc[r] = "new" /\ pc' = [pc EXCEPT ![r] = "sent"]
      /\ op' = [op EXCEPT ![r] = "post"] /\ hasFailed' = [hasFailed EXCEPT ![r] = TRUE]
      /\ UNCHANGED <<online, outcome, calls, delegateQ, mainQ, crashed>>
  BY DEF MobileRequest, requestWithPath, Start, Step, RestTask
<1>2. ~theyRaised /\ UNCHANGED <<theirCalls, theyRaised>>
  BY <1>1, LivingPipeline, PipelineUndisturbed
<1>3. Pipeline!Start(r, call, "sent")
  BY <1>1, <1>2 DEF Pipeline!Start, Pipeline!Step, theirCalls, theyRaised
<1>4. call \in Pipeline!RestCall /\ Pipeline!RestTask(call.op) = "sent"
  BY DEF Pipeline!RestCall, Pipeline!Rest, Pipeline!RestTask
<1>5. Pipeline!HandlerRequest(r, call)
  BY <1>3, <1>4 DEF Pipeline!HandlerRequest, Pipeline!HandlerCall, Pipeline!requestWithPath
<1> QED
  BY <1>5, DemoAssumption DEF Pipeline!Caller

LEMMA DemoFinishInPipeline ==
    ASSUME DemoInv, NEW r \in Requests, DemoFinish(r)
    PROVE  Pipeline!Ends(r)
<1>1. PICK reply \in Replies \cup {NoReply} : Finish(r, reply)
  BY DEF DemoFinish
<1>2. /\ ~crashed /\ pc[r] = "sent" /\ pc' = [pc EXCEPT ![r] = "finished"]
      /\ reply \in Pipeline!Ending(op[r])
      /\ outcome' = [outcome EXCEPT ![r] = reply]
      /\ delegateQ' = Append(delegateQ, r)
      /\ UNCHANGED <<online, op, hasFailed, calls, mainQ, crashed>>
  BY <1>1 DEF Finish, Step, Ending, Pipeline!Ending
<1>3. ~theyRaised /\ UNCHANGED <<theirCalls, theyRaised>>
  BY <1>2, LivingPipeline, PipelineUndisturbed
<1>4. Pipeline!Finish(r, reply)
  BY <1>2, <1>3 DEF Pipeline!Finish, Pipeline!Step, theirCalls, theyRaised
<1> QED
  BY <1>4 DEF Pipeline!Ends

LEMMA QueuesInPipeline ==
    ASSUME DemoInv, ~crashed, UNCHANGED <<calls, crashed>>
    PROVE  /\ DidComplete => Pipeline!DidComplete
           /\ \A r \in Requests : Parse(r) => Pipeline!Parse(r)
<1>1. ~theyRaised /\ UNCHANGED <<theirCalls, theyRaised>>
  BY LivingPipeline, PipelineUndisturbed
<1>2. ASSUME DidComplete PROVE Pipeline!DidComplete
  BY <1>1, <1>2 DEF DidComplete, Step, requestVars, Pipeline!DidComplete, Pipeline!Step,
                    Pipeline!requestVars, theirCalls, theyRaised
<1>3. ASSUME NEW r \in Requests, Parse(r) PROVE Pipeline!Parse(r)
  BY <1>1, <1>3 DEF Parse, Step, requestVars, Pipeline!Parse, Pipeline!Step,
                    Pipeline!requestVars, theirCalls, theyRaised
<1> QED
  BY <1>2, <1>3

\* BaseHandler's block has done what it does before the block of
\* TestViewController may raise.
LEMMA DemoBlockInPipeline == ASSUME DemoInv, RunDemo PROVE Pipeline!RunCompletion
<1>1. PICK h \in Requests : RunBlock(h, DemoCompletion(h))
  BY DEF RunDemo
<1>2. /\ ~crashed /\ pc[h] = "completing" /\ calls[h] = << >>
      /\ pc' = [pc EXCEPT ![h] = "settled"]
      /\ calls' = [calls EXCEPT ![h] = DemoCompletion(h)]
      /\ crashed' = \E i \in 1..Len(DemoCompletion(h)) : DemoCompletion(h)[i] = Raised
      /\ mainQ' = Tail(mainQ) /\ mainQ # << >> /\ h = Head(mainQ)
      /\ UNCHANGED <<online, op, hasFailed, outcome, delegateQ>>
  BY <1>1, RunDemoStep DEF RunBlock
<1>3. /\ theirCalls = calls /\ ~theyRaised /\ \A r \in Requests : ~BlockRaised(r)
      /\ calls \in [Requests -> Seq(Callback)]
  BY <1>2, LivingPipeline DEF DemoInv, DemoTypeOK, TypeOK
<1>4. /\ calls'[h] = DemoCompletion(h)
      /\ \A r \in Requests : r # h => calls'[r] = calls[r] /\ ~BlockRaised(r)'
  BY <1>2, <1>3 DEF BlockRaised
<1>5. Completion(h) \in Seq(Callback) /\ Len(Completion(h)) <= 1
  BY CompletionType DEF DemoInv, DemoTypeOK
<1>6. /\ theirCalls' = [theirCalls EXCEPT ![h] = Completion(h)]
      /\ theyRaised' = \E i \in 1..Len(Completion(h)) : Completion(h)[i] = Raised
  <2>1. CASE DemoCompletion(h) = Completion(h)
    <3>1. ~BlockRaised(h)'
      BY <1>4, <1>5, <2>1 DEF BlockRaised
    <3> QED
      BY <1>2, <1>3, <1>4, <2>1, <3>1 DEF theirCalls, theyRaised
  <2>2. CASE DemoCompletion(h) = <<Success, Raised>> /\ Completion(h) = <<Success>>
    <3>1. BlockRaised(h)'
      BY <1>4, <2>2 DEF BlockRaised
    <3>2. theirCalls' = [theirCalls EXCEPT ![h] = Completion(h)]
      BY <1>3, <1>4, <2>2, <3>1 DEF theirCalls
    <3>3. theyRaised' = FALSE
      BY <3>1 DEF theyRaised
    <3>4. (\E i \in 1..Len(Completion(h)) : Completion(h)[i] = Raised) = FALSE
      BY <2>2, CallbacksDiffer
    <3> QED
      BY <3>2, <3>3, <3>4
  <2> QED
    BY <2>1, <2>2, DemoCompletionCases DEF DemoInv
<1>7. theirCalls' = [theirCalls EXCEPT ![h] = @ \o Completion(h)]
  <2>1. theirCalls[h] = << >>
    BY <1>2, <1>3
  <2>2. << >> \o Completion(h) = Completion(h)
    BY <1>5
  <2> QED
    BY <1>6, <2>1, <2>2
<1>8. Pipeline!Completion(h) = Completion(h) /\ Pipeline!Raised = Raised
  BY SameCompletion
<1>9. /\ theirCalls' = [theirCalls EXCEPT ![h] = @ \o Pipeline!Completion(h)]
      /\ theyRaised' = \E i \in 1..Len(Pipeline!Completion(h)) :
                          Pipeline!Completion(h)[i] = Pipeline!Raised
  BY <1>6, <1>7, <1>8
<1> QED
  BY <1>1, <1>2, <1>3, <1>9
     DEF Pipeline!RunCompletion, Pipeline!RunBlock, Pipeline!Step, theirCalls, theyRaised

LEMMA DemoInitInPipeline == DemoInit => Pipeline!Init
  BY DEF DemoInit, Init, Pipeline!Init, BlockRaised

LEMMA DemoStepInPipeline ==
    ASSUME DemoInv, [DemoNext]_allVars
    PROVE  [Pipeline!Next]_Pipeline!vars
<1>1. CASE Demo
  BY <1>1, DemoRequestInPipeline DEF Demo, Pipeline!Next
<1>2. ASSUME NEW r \in Requests, DemoFinish(r) PROVE Pipeline!Next
  BY <1>2, DemoFinishInPipeline DEF Pipeline!Next
<1>3. CASE DidComplete \/ \E r \in Requests : Parse(r)
  <2>1. ~crashed /\ UNCHANGED <<calls, crashed>>
    BY <1>3 DEF DidComplete, Parse, Step, requestVars
  <2> QED
    BY <1>3, <2>1, QueuesInPipeline DEF Pipeline!Next
<1>4. CASE RunDemo
  BY <1>4, DemoBlockInPipeline DEF Pipeline!Next
<1>5. CASE UNCHANGED allVars
  <2>1. UNCHANGED <<online, pc, op, hasFailed, outcome, calls, delegateQ, mainQ, crashed>>
    BY <1>5 DEF allVars, vars, requestVars
  <2>2. UNCHANGED <<theirCalls, theyRaised>>
    BY <2>1, PipelineUndisturbed
  <2> QED
    BY <2>1, <2>2 DEF Pipeline!vars, Pipeline!requestVars, theirCalls, theyRaised
<1> QED
  BY <1>1, <1>2, <1>3, <1>4, <1>5 DEF DemoNext

\* Every behaviour of the demo is one of the pipeline, up to what the blocks
\* of TestViewController raise (MobileApiHandler.m:16-71).
THEOREM DemoRefinesPipeline == DemoSpec => ImplementsPipeline
  BY DemoInitInPipeline, DemoStepInPipeline, DemoInvariance, PTL
     DEF DemoSpec, ImplementsPipeline, Pipeline!Spec
-----------------------------------------------------------------------------
(* What the demo inherits: the theorems of HCHttpClientProofs, about the   *)
(* mapped variables.                                                       *)

Proved == INSTANCE HCHttpClientProofs WITH calls <- theirCalls, crashed <- theyRaised

\* The theorems rest on the assumptions about the constants, which are the same.
LEMMA ProvedAssumptions == Proved!CodeAssumption /\ Proved!ClientAssumption
<1>1. Proved!CodeAssumption
  BY CodeAssumption DEF Proved!CodeAssumption
<1>2. Proved!ClientAssumption
  BY ClientAssumption
     DEF Proved!ClientAssumption, Proved!Rest, Rest, Proved!FileOperations, FileOperations,
         Proved!Reply, Reply, Proved!Body, Body
<1> QED
  BY <1>1, <1>2

\* The two instances of the pipeline are one specification.
LEMMA SamePipeline == Pipeline!Spec => Proved!Spec
  BY DEF Pipeline!Spec, Proved!Spec, Pipeline!Init, Proved!Init, Pipeline!Next,
         Proved!Next, Pipeline!vars, Proved!vars, Pipeline!requestVars,
         Proved!requestVars, Pipeline!Caller, Proved!Caller,
         Pipeline!HandlerRequest, Proved!HandlerRequest, Pipeline!HandlerCall,
         Proved!HandlerCall, Pipeline!RestCall, Proved!RestCall, Pipeline!FileCall,
         Proved!FileCall, Pipeline!HeadCall, Proved!HeadCall, Pipeline!Rest,
         Proved!Rest, Pipeline!FileOperations, Proved!FileOperations,
         Pipeline!requestWithPath, Proved!requestWithPath,
         Pipeline!requestWithPath_file, Proved!requestWithPath_file,
         Pipeline!requestWithPathInHEAD, Proved!requestWithPathInHEAD,
         Pipeline!RestTask, Proved!RestTask, Pipeline!FileTask, Proved!FileTask,
         Pipeline!HeadTask, Proved!HeadTask, Pipeline!Start, Proved!Start,
         Pipeline!Step, Proved!Step, Pipeline!cancelRequest, Proved!cancelRequest,
         Pipeline!NetworkChanges, Proved!NetworkChanges, Pipeline!Ends, Proved!Ends,
         Pipeline!Finish, Proved!Finish, Pipeline!Ending, Proved!Ending,
         Pipeline!DidComplete, Proved!DidComplete, Pipeline!Parse, Proved!Parse,
         Pipeline!RunCompletion, Proved!RunCompletion, Pipeline!RunBlock,
         Proved!RunBlock, Pipeline!Completion, Proved!Completion,
         Pipeline!CompletionOfHead, Proved!CompletionOfHead, Pipeline!Result,
         Proved!Result, Pipeline!responseObjectForResponse,
         Proved!responseObjectForResponse, Pipeline!Valid, Proved!Valid,
         Pipeline!ValidationError, Proved!ValidationError, Pipeline!ParseJSON,
         Proved!ParseJSON, Pipeline!Object, Proved!Object, Pipeline!ErrorWith,
         Proved!ErrorWith, Pipeline!Nil, Proved!Nil,
         Pipeline!handlerErrorWithTask_error, Proved!handlerErrorWithTask_error,
         Pipeline!handlerErrorWithTask_data, Proved!handlerErrorWithTask_data,
         Pipeline!requestSuccess, Proved!requestSuccess, Pipeline!uploadSuccess,
         Proved!uploadSuccess, Pipeline!Success, Proved!Success, Pipeline!Failed,
         Proved!Failed, Pipeline!Raised, Proved!Raised, Pipeline!Accepted,
         Proved!Accepted, Pipeline!Unreadable, Proved!Unreadable, Pipeline!IsDict,
         Proved!IsDict, Pipeline!FailureCode, Proved!FailureCode, theirCalls,
         theyRaised

\* What a demo request did to its caller, it did in the pipeline, except that
\* it may have raised afterwards.
LEMMA InheritedCalls ==
    ASSUME NEW r \in Requests, NEW c, c # Raised, Did(r, c)
    PROVE  Proved!Did(r, c)
<1>1. CASE BlockRaised(r)
  <2>1. c = Success
    BY <1>1 DEF Did, BlockRaised
  <2> QED
    BY <1>1, <2>1 DEF Proved!Did, theirCalls
<1>2. CASE ~BlockRaised(r)
  BY <1>2 DEF Did, Proved!Did, theirCalls
<1> QED
  BY <1>1, <1>2

\* The guarantees of the pipeline hold of the demo: its success is honest, its
\* failed block never receives 0 by accident, and no request settles in silence
\* (BaseHandler.m:44-211, MobileApiHandler.m:16-71).
THEOREM DemoInherits ==
    DemoSpec => []SuccessIsHonest /\ []FailedZeroExplained /\ []SettledIsTold
<1>1. DemoSpec => Proved!Spec
  BY DemoRefinesPipeline, SamePipeline DEF ImplementsPipeline
<1>2. Proved!Spec => []Proved!SuccessIsHonest
  BY ProvedAssumptions, Proved!Honesty
<1>3. Proved!Spec => []Proved!FailedZeroExplained
  BY ProvedAssumptions, Proved!NoFalseZero
<1>4. Proved!Spec => []Proved!SettledIsTold
  BY ProvedAssumptions, Proved!NobodySettlesInSilence
<1>5. Proved!SuccessIsHonest => SuccessIsHonest
  BY InheritedCalls, CallbacksDiffer
     DEF Proved!SuccessIsHonest, SuccessIsHonest, Proved!Success, Success,
         Proved!Valid, Valid, Proved!Accepted, Accepted, Proved!IsDict, IsDict
<1>6. Proved!FailedZeroExplained => FailedZeroExplained
  BY InheritedCalls, CallbacksDiffer
     DEF Proved!FailedZeroExplained, FailedZeroExplained, Proved!Failed, Failed,
         Proved!Valid, Valid
<1>7. Proved!SettledIsTold => SettledIsTold
  BY DEF Proved!SettledIsTold, SettledIsTold, theirCalls, BlockRaised
<1> QED
  BY <1>1, <1>2, <1>3, <1>4, <1>5, <1>6, <1>7, PTL
=============================================================================
