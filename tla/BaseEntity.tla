----------------------------- MODULE BaseEntity -----------------------------
(***************************************************************************)
(* How the member "data" of a reply becomes entities on iOS                *)
(* (ios/Entity/BaseEntity.m), and which of them the blocks of the demo     *)
(* requests (ios/TestViewController.m) may safely read.                    *)
(*                                                                         *)
(* MJExtension, which does the decoding, is modelled from its use.  Of an  *)
(* entity only its phones are kept: every other property is merely logged. *)
(***************************************************************************)

-----------------------------------------------------------------------------
(* Data, as the server sends it. *)

\* The member "phone" of a person: absent, null, text, or an array that is
\* empty, holds only numbers and texts, or holds a dictionary.
JsonPhone == {"absent", "null", "text", "empty", "scalars", "dicts"}

\* The member "data".  An array counts as what its first dictionary or array
\* makes it; "text" is text that is not itself JSON.
Data ==
    [kind : {"absent", "null", "text", "number", "scalars", "arrays"}, phone : {"absent"}] \cup
    [kind : {"dict", "dicts"}, phone : JsonPhone]

NoData == [kind |-> "absent", phone |-> "absent"]

-----------------------------------------------------------------------------
(* Decoding. *)

\* An entity and its phones.  Objective-C's nil answers every message with
\* nil, so that no entity reads like one without phones; an element of the
\* wrong class, an NSArray, answers no message of an entity.
OneEntity == [class : {"OneEntity"}, phone : {"nil", "empty", "full"}]

Person(phone) == [class |-> "OneEntity", phone |-> phone]
NoEntity == Person("nil")
NestedArray == [class |-> "NSArray", phone |-> "nil"]

\* What a decoder of BaseEntity hands to a block: an entity, or an array of
\* them, which counts as its first object.
Decoded == OneEntity \cup {NestedArray}

\* Mutant: a person without phones gets an empty array of them.
phoneOf_NeverNil(phone) == IF phone = "dicts" THEN "full" ELSE "empty"

\* objectClassInArray makes the elements PhoneEntity objects; what is no
\* dictionary is dropped, and what is no array leaves the property nil.
phoneOf(phone) ==
    IF phone = "dicts" THEN "full"
    ELSE IF phone \in {"empty", "scalars"} THEN "empty" ELSE "nil"

\* Only a dictionary makes an entity; an exception of the decoder makes none.
parseObjectWithKeyValues(data) ==
    IF data.kind = "dict" THEN Person(phoneOf(data.phone)) ELSE NoEntity

\* The first object of the decoded array.  What is no JSON object at all makes
\* an empty array, a dictionary none.
parseObjectArrayWithKeyValues(data) ==
    IF data.kind = "dicts" THEN Person(phoneOf(data.phone))
    ELSE IF data.kind = "arrays" THEN NestedArray ELSE NoEntity

-----------------------------------------------------------------------------
(* Reading. *)

\* phoneArr[0] of an empty array raises, of nil it is nil.
ReadingRaises(entity) == entity.class = "NSArray" \/ entity.phone = "empty"

=============================================================================
