------------------------------ MODULE JsonHelp ------------------------------
(***************************************************************************)
(* The decoding helper of the Android client                               *)
(* (android/app/src/main/java/com/awesomeproject/JsonHelp.java) and the    *)
(* bean it fills (bean/SinglePerson.java).                                 *)
(*                                                                         *)
(* A JSON text is abstracted to what the callers can tell apart: its kind  *)
(* and the beans that decoding it can yield.  A bean is abstracted to the  *)
(* two nested fields whose absence makes a caller fail.                    *)
(***************************************************************************)
EXTENDS Naturals, Sequences

CONSTANT NoPerson        \* Java's null where a SinglePerson is expected

\* A decoded SinglePerson: is getComputer() non-null, and does getPhone()
\* have a non-null element at index 1?  Gson leaves absent fields null.
SinglePerson == [computer : BOOLEAN, secondPhone : BOOLEAN]

ASSUME NoPersonAssumption == NoPerson \notin SinglePerson

Bean == SinglePerson \cup {NoPerson}

\* The string that JSONObject.getString("data") hands to JsonHelp.  "people"
\* holds what getItem yields for the object itself, or for each element of an
\* array; it is empty for a JSON null, for the empty string and for any other
\* scalar ("text").
Kinds == {"object", "array", "null", "empty", "text"}
JsonData == [kind : Kinds, people : Seq(Bean)]

WellFormed(d) ==
    /\ d.kind = "object" => Len(d.people) = 1 /\ d.people[1] \in SinglePerson
    /\ d.kind \in {"null", "empty", "text"} => d.people = << >>

\* JSON to object.  The empty string is rejected before decoding; "null"
\* decodes to null; anything else that is not an object makes Gson throw, and
\* the exception is swallowed.
getItem(d) == IF d.kind = "object" THEN d.people[1] ELSE NoPerson

\* JSON to list.  A text that is no array makes the JSONArray constructor
\* throw before anything was added, which leaves the list empty.
getItemList(d) == IF d.kind = "array" THEN d.people ELSE << >>

=============================================================================
