------------------------- MODULE MCMobileApiHandler -------------------------
(***************************************************************************)
(* Values of the constants of MobileApiHandler for TLC.                    *)
(***************************************************************************)
EXTENDS MobileApiHandler

MCCodes == {0, 200, 404}

Dict(code) == [kind |-> "dict", code |-> code]
NoBody == [kind |-> "empty", code |-> NoCode]
Good(body) == [status |-> TRUE, type |-> TRUE, body |-> body]
BadStatus(body) == [status |-> FALSE, type |-> TRUE, body |-> body]

\* Accepted, refused by the code, and, accepted or not, a code that has
\* no integerValue; and no body at all.
MCReplies ==
    {Good(Dict(c)) : c \in {0, 200, NullCode}} \cup {BadStatus(Dict(NullCode)), Good(NoBody)}

\* Data that harm some of the addresses, and data that harm none.
MCData ==
    {[kind |-> "dict", phone |-> "empty"], [kind |-> "dict", phone |-> "absent"],
     [kind |-> "dicts", phone |-> "scalars"], [kind |-> "dicts", phone |-> "dicts"],
     [kind |-> "arrays", phone |-> "absent"], [kind |-> "null", phone |-> "absent"]}

=============================================================================
