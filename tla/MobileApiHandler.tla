-------------------------- MODULE MobileApiHandler --------------------------
(***************************************************************************)
(* The demo requests of the iOS app: TestViewController asks               *)
(* MobileApiHandler for six addresses, each a POST through BaseHandler and *)
(* HCHttpClient whose success block decodes the member "data" of the reply *)
(* and hands the outcome to the block of TestViewController.               *)
(*                                                                         *)
(* The module composes the request pipeline with these blocks: what a      *)
(* request does to its caller is now also what the caller's own block does *)
(* with the answer.  POST asks for no reachability and nobody cancels.     *)
(***************************************************************************)
EXTENDS HCHttpClient, BaseEntity

CONSTANT ServerData    \* the data that the server may send

ASSUME DataAssumption == ServerData \subseteq Data

\* The demo makes POSTs with a failed block.
ASSUME DemoAssumption == "post" \in Operations /\ TRUE \in BlockGiven

Paths == {"singlePerson", "manyPerson", "emptyArray", "emptyString", "nullData", "emptyData"}

\* What the six methods take, besides a prepare and a success block.
MobileCall == [path : Paths, failed : BOOLEAN]

VARIABLES
    path,    \* the address of each request
    data     \* the member "data" of the reply it got

demoVars == <<path, data>>
allVars == <<vars, demoVars>>

DemoTypeOK ==
    /\ TypeOK
    /\ path \in [Requests -> Paths]
    /\ data \in [Requests -> Data]

DemoInit ==
    /\ Init
    /\ path = [r \in Requests |-> "singlePerson"]
    /\ data = [r \in Requests |-> NoData]

\* Mutant: the failed block of the caller is not passed on.
MobileRequest_NoFailed(r, call) ==
    /\ call \in MobileCall
    /\ requestWithPath(r, [op |-> "post", failed |-> FALSE])
    /\ path' = [path EXCEPT ![r] = call.path]
    /\ UNCHANGED data

\* requestWithPath1 to requestWithPath6: a POST, with the failed block as given.
MobileRequest(r, call) ==
    /\ call \in MobileCall
    /\ requestWithPath(r, [op |-> "post", failed |-> call.failed])
    /\ path' = [path EXCEPT ![r] = call.path]
    /\ UNCHANGED data

\* TestViewController passes a failed block every time.
Demo == \E r \in Requests, p \in Paths : MobileRequest(r, [path |-> p, failed |-> TRUE])

\* A reply that is a dictionary comes with its data.
DemoFinish(r) ==
    \/ \E reply \in Replies, d \in ServerData \cup {NoData} :
         /\ Finish(r, reply)
         /\ d = NoData \/ reply.body.kind = "dict"
         /\ data' = [data EXCEPT ![r] = d]
         /\ UNCHANGED path
    \/ Finish(r, NoReply) /\ UNCHANGED demoVars

\* Does the success block of that request raise?  The last three addresses
\* hand the dictionary on, and their blocks log it.
BlockRaises(p, d) ==
    \/ p = "singlePerson" /\ ReadingRaises(parseObjectWithKeyValues(d))
    \/ p \in {"manyPerson", "emptyArray"} /\ ReadingRaises(parseObjectArrayWithKeyValues(d))

\* Mutant: a reply without data is reported to nobody.
DemoCompletion_DataNeeded(r) ==
    IF Completion(r) = <<Success>> /\ data[r] = NoData THEN << >> ELSE Completion(r)

DemoCompletion(r) ==
    IF Completion(r) = <<Success>> /\ BlockRaises(path[r], data[r])
    THEN <<Success, Raised>> ELSE Completion(r)

RunDemo == \E r \in Requests : RunBlock(r, DemoCompletion(r)) /\ UNCHANGED demoVars

DemoNext ==
    \/ Demo
    \/ \E r \in Requests : DemoFinish(r) \/ (Parse(r) /\ UNCHANGED demoVars)
    \/ DidComplete /\ UNCHANGED demoVars
    \/ RunDemo

DemoSpec == DemoInit /\ [][DemoNext]_allVars

\* As for the pipeline: a task times out, and its queues are drained.
DemoFairness ==
    /\ \A r \in Requests :
         WF_allVars(DemoFinish(r)) /\ WF_allVars(Parse(r) /\ UNCHANGED demoVars)
    /\ WF_allVars(DidComplete /\ UNCHANGED demoVars)
    /\ WF_allVars(RunDemo)

DemoFairSpec == DemoSpec /\ DemoFairness

-----------------------------------------------------------------------------
(* Properties. *)

\* Data out of which the first person has an array of phones without a single
\* phone in it, or is itself an array.
NoFirstPhone(p, d) ==
    \/ p = "singlePerson" /\ d.kind = "dict" /\ d.phone \in {"empty", "scalars"}
    \/ /\ p \in {"manyPerson", "emptyArray"}
       /\ d.kind = "arrays" \/ (d.kind = "dicts" /\ d.phone \in {"empty", "scalars"})

\* A demo request kills the app only by a code that is no number or text, or
\* by an accepted reply with a person whose array of phones is empty
\* (TestViewController.m:50, 65, 83).  Data that are missing, null, text, a
\* number or an empty array, which five of the addresses are named for, are
\* harmless, and so is every failure.
DemoCrashExplained ==
    crashed =>
        \E r \in Requests :
            /\ Did(r, Raised) /\ outcome[r] # NoReply
            /\ \/ outcome[r].body.code = NullCode
               \/ /\ Did(r, Success) /\ Valid(outcome[r]) /\ Accepted(outcome[r].body)
                  /\ NoFirstPhone(path[r], data[r])

\* The pipeline below the demo: what the block of TestViewController raises is
\* no doing of BaseHandler's completion block, which has called it by then.
BlockRaised(r) == calls[r] = <<Success, Raised>>

Pipeline == INSTANCE HCHttpClient WITH
    calls <- [r \in Requests |-> IF BlockRaised(r) THEN <<Success>> ELSE calls[r]],
    crashed <- crashed /\ ~ \E r \in Requests : BlockRaised(r)

\* The demo keeps to the contract of the pipeline: MobileApiHandler and the
\* blocks of TestViewController neither add an answer to those of BaseHandler
\* nor keep one back (MobileApiHandler.m:16-71), so that whatever holds of
\* every use of the pipeline holds of the demo.
ImplementsPipeline == Pipeline!Spec

=============================================================================
