---------------------------- MODULE BaseHandler ----------------------------
(***************************************************************************)
(* What the iOS client makes of the end of an HTTP request: the response   *)
(* serializer (ios/HttpClient/HCJSONResponseSerializerWithData.m) and the  *)
(* completion blocks of BaseHandler (ios/Handle/BaseHandler.m).            *)
(*                                                                         *)
(* A block of the program becomes the sequence of what it does to its      *)
(* caller: it calls the success or the failed block, or raises an          *)
(* exception, which nothing catches.                                       *)
(***************************************************************************)
EXTENDS Integers, Sequences

CONSTANTS
    Codes,      \* values that integerValue may find under "code"
    NoCode,     \* the dictionary has no member "code"
    NullCode    \* "code" is an NSNull or a container: it has no integerValue

ASSUME CodeAssumption ==
    /\ Codes \subseteq Int
    /\ NoCode \notin Int
    /\ NullCode \notin Int /\ NullCode # NoCode

-----------------------------------------------------------------------------
(* Replies. *)

\* A body as JSON: "other" is text that is no JSON object or array, "binary"
\* is not even UTF-8.
Body ==
    [kind : {"dict"}, code : Codes \cup {NoCode, NullCode}] \cup
    [kind : {"array", "empty", "other", "binary"}, code : {NoCode}]

\* The end of a request: a reply, with its status in 200..299 or not and its
\* MIME type acceptable or not, or no reply at all (refused, reset, timed out).
Reply == [status : BOOLEAN, type : BOOLEAN, body : Body]

\* What AFNetworking hands to a completion block: an object (nil for nil) or
\* an error, which may carry the body under JSONResponseSerializerWithDataKey.
Nil == [kind |-> "nil", code |-> NoCode]
Object(body) == [error |-> FALSE, body |-> body]
ErrorWith(body) == [error |-> TRUE, body |-> body]

Objects == Body \cup {Nil}

-----------------------------------------------------------------------------
(* HCJSONResponseSerializerWithData. *)

\* AFHTTPResponseSerializer's validateResponse: a bad type alone is an error
\* only if there is data.
Valid(reply) == reply.status /\ reply.type
ValidationError(reply) == ~reply.status \/ (~reply.type /\ reply.body.kind # "empty")

\* AFJSONResponseSerializer on a valid response.
ParseJSON(body) ==
    IF body.kind \in {"dict", "array"} THEN Object(body)
    ELSE IF body.kind = "empty" THEN Object(Nil)
    ELSE ErrorWith(Nil)

\* Mutant: the body of an invalid response is parsed all the same.
responseObjectForResponse_NotValidated(reply) == ParseJSON(reply.body)

\* An invalid response yields nil, and the error with the body in it if there
\* is an error.
responseObjectForResponse(reply) ==
    IF Valid(reply) THEN ParseJSON(reply.body)
    ELSE IF ~ValidationError(reply) THEN Object(Nil)
    ELSE ErrorWith(IF reply.body.kind = "binary" THEN Nil ELSE reply.body)

-----------------------------------------------------------------------------
(* The blocks of BaseHandler. *)

Success == [block |-> "success", code |-> 0]
Failed(code) == [block |-> "failed", code |-> code]
Raised == [block |-> "raised", code |-> 0]

Callback == [block : {"success", "raised"}, code : {0}] \cup
            [block : {"failed"}, code : Codes \cup {404, NoCode}]

IsDict(obj) == obj.kind = "dict"
Unreadable(obj) == IsDict(obj) /\ obj.code = NullCode

\* The code of a dictionary, 404 without one.
FailureCode(obj) == IF IsDict(obj) /\ obj.code # NoCode THEN obj.code ELSE 404

\* Mutant: a failure without a body is reported to nobody.
handlerErrorWithTask_error_Silent(body, hasFailed) ==
    IF ~hasFailed \/ body = Nil THEN << >>
    ELSE IF Unreadable(body) THEN <<Raised>>
    ELSE <<Failed(FailureCode(body))>>

\* Mutant: the code is passed on as it is, without integerValue.
handlerErrorWithTask_error_RawCode(body, hasFailed) ==
    IF ~hasFailed THEN << >> ELSE <<Failed(FailureCode(body))>>

\* Mutant: the block is called without a test for nil.
handlerErrorWithTask_error_Unguarded(body, hasFailed) ==
    IF ~hasFailed \/ Unreadable(body) THEN <<Raised>>
    ELSE <<Failed(FailureCode(body))>>

\* handlerErrorWithTask:error:complete: leaves a nil block alone.
handlerErrorWithTask_error(body, hasFailed) ==
    IF ~hasFailed THEN << >>
    ELSE IF Unreadable(body) THEN <<Raised>>
    ELSE <<Failed(FailureCode(body))>>

\* handlerErrorWithTask:data:complete: calls a nil block, which crashes.
handlerErrorWithTask_data(obj, hasFailed) ==
    IF ~hasFailed \/ Unreadable(obj) THEN <<Raised>>
    ELSE <<Failed(FailureCode(obj))>>

\* Mutant: 200 is the code of success.
Accepted_200(obj) == IsDict(obj) /\ obj.code \in {NoCode, 200}

\* Both success blocks take a dictionary whose code is absent or 0.
Accepted(obj) == IsDict(obj) /\ obj.code \in {NoCode, 0}

\* Mutant: no return after the call of the success block.
requestSuccess_NoReturn(obj, hasFailed) ==
    IF Unreadable(obj) THEN <<Raised>>
    ELSE IF Accepted(obj) THEN <<Success>> \o handlerErrorWithTask_data(obj, hasFailed)
    ELSE handlerErrorWithTask_data(obj, hasFailed)

\* The success block of requestWithPath:method:parameters:prepare:...
requestSuccess(obj, hasFailed) ==
    IF Unreadable(obj) THEN <<Raised>>
    ELSE IF Accepted(obj) THEN <<Success>>
    ELSE handlerErrorWithTask_data(obj, hasFailed)

\* The success block of the upload method: an array is passed to
\* JSONObjectWithData:, which takes only NSData.
uploadSuccess(obj, hasFailed) ==
    IF obj.kind = "array" \/ Unreadable(obj) THEN <<Raised>>
    ELSE IF Accepted(obj) THEN <<Success>>
    ELSE handlerErrorWithTask_data(obj, hasFailed)

=============================================================================
