--------------------------- MODULE MCHCHttpClient ---------------------------
(***************************************************************************)
(* Values of the constants of HCHttpClient for TLC.                        *)
(***************************************************************************)
EXTENDS HCHttpClient

MCCodes == {0, 200, 404}

Dict(code) == [kind |-> "dict", code |-> code]
Other(kind) == [kind |-> kind, code |-> NoCode]
Good(body) == [status |-> TRUE, type |-> TRUE, body |-> body]
BadStatus(body) == [status |-> FALSE, type |-> TRUE, body |-> body]
BadType(body) == [status |-> TRUE, type |-> FALSE, body |-> body]

\* One reply for each branch of the serializer and of the completion blocks.
MCReplies ==
    {Good(Dict(c)) : c \in {0, 200, NoCode, NullCode}} \cup
    {Good(Other(k)) : k \in {"array", "empty", "other"}} \cup
    {BadStatus(Dict(0)), BadStatus(Dict(NullCode)), BadStatus(Other("binary")),
     BadStatus(Other("empty")), BadType(Other("empty")), BadType(Dict(0))}

\* The operations of which every request is promised an answer.
Answering == {"get", "post", "delete", "put", "upload", "head"}

\* One operation for each case that the pipeline tells apart.  POST and DELETE
\* have cases of their own in the switch but go the way of GET and PUT.
EveryKind == (Rest \ {"post", "delete"}) \cup FileOperations \cup {"head"}
=============================================================================
