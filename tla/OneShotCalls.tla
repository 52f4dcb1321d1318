---------------------------- MODULE OneShotCalls ----------------------------
(***************************************************************************)
(* What the asynchronous parts of the app promise to the code that asks: a *)
(* caller gets one answer, after it asked, and keeps it, as long as the    *)
(* app lives.  Shown to implement this specification: NetworkActivity (a   *)
(* click on the Android request screen), HCHttpClient (a request of the    *)
(* iOS session client), and XpjxModule and AndroidXpjxModule (a tap of the *)
(* React Native screen that the bridge is to answer with an alert).        *)
(***************************************************************************)
CONSTANTS
    Callers,    \* who may ask, once each
    Answers,    \* the possible answers
    NoAnswer    \* none yet, no member of Answers

VARIABLES
    asked,      \* the callers that have asked
    answer,     \* their answers
    dead        \* the app has crashed

vars == <<asked, answer, dead>>

TypeOK ==
    /\ asked \subseteq Callers
    /\ answer \in [Callers -> Answers \cup {NoAnswer}]
    /\ dead \in BOOLEAN

Init ==
    /\ asked = {}
    /\ answer = [c \in Callers |-> NoAnswer]
    /\ dead = FALSE

Ask(c) ==
    /\ ~dead
    /\ c \notin asked
    /\ asked' = asked \cup {c}
    /\ UNCHANGED <<answer, dead>>

Answer(c, a) ==
    /\ ~dead
    /\ c \in asked /\ answer[c] = NoAnswer
    /\ answer' = [answer EXCEPT ![c] = a]
    /\ UNCHANGED <<asked, dead>>

\* Only a request that still waits for its answer can kill the app.
Die(c) ==
    /\ ~dead
    /\ c \in asked /\ answer[c] = NoAnswer
    /\ dead' = TRUE
    /\ UNCHANGED <<asked, answer>>

Next ==
    \E c \in Callers :
        \/ Ask(c)
        \/ \E a \in Answers : Answer(c, a)
        \/ Die(c)

Spec == Init /\ [][Next]_vars

FairSpec ==
    Spec /\ \A c \in Callers : WF_vars(\E a \in Answers : Answer(c, a))

=============================================================================
