------------------------ MODULE MCAndroidXpjxModule ------------------------
(***************************************************************************)
(* Values of the constants of AndroidXpjxModule for TLC.                   *)
(***************************************************************************)
EXTENDS AndroidXpjxModule, TLC

CONSTANTS m1, m2, m3

Message(type, cities, hobbies) == [type |-> type, cities |-> cities, hobbies |-> hobbies]

\* Two taps of HomeScreen, and a message with a city too many.
MCShape == (m1 :> Message("showLogin", 3, 4)) @@ (m2 :> Message("showLogin", 3, 4))
           @@ (m3 :> Message("showLogin", 2, 1))
=============================================================================
