-------------------------- MODULE AndroidXpjxModule --------------------------
(***************************************************************************)
(* The Android bridge module XpjxModule (react/XpjxModule.java) with its   *)
(* JavaScript client HomeScreen (HomeScreen.js).                           *)
(*                                                                         *)
(* A reload destroys the React context and builds a new one on a thread of *)
(* its own, which constructs a new XpjxModule.  The constructor overwrites *)
(* the static field context, through which every module object, the old    *)
(* ones included, sends its events:                                        *)
(*                                                                         *)
(*   JS of g --nativeQ[g]--> module of g --context--> jsQ[c] --> JS of c   *)
(*                                                                         *)
(* The field is neither volatile nor locked.  React Native (0.60) is       *)
(* modelled from its use; on Android its NativeEventEmitter tells the      *)
(* native module nothing, so a listener is a matter of JavaScript alone.   *)
(***************************************************************************)
EXTENDS Integers, Sequences

CONSTANTS
    Messages,          \* identities of the messages
    Shape,             \* what each message looks like
    MaxReloads,        \* bound on the reloads
    MaxMounts,         \* bound on the mountings of HomeScreen
    NoContext,         \* no context
    ScreenMayUnmount   \* may HomeScreen unmount while its context lives?

\* The members of a message that handleMessage looks at: its type, the length
\* of city, and how many members hobby1, hobby2, ... hobby has.
Shapes == [type : {"none", "showLogin", "change_status_color", "other"},
           cities : Nat, hobbies : Nat]

ASSUME AndroidAssumption ==
    /\ Shape \in [Messages -> Shapes]
    /\ MaxReloads \in Nat
    /\ MaxMounts \in Nat
    /\ NoContext \notin Nat
    /\ ScreenMayUnmount \in BOOLEAN

Contexts == 0..MaxReloads

\* A context is constructed, initialised and destroyed; its threads drain what
\* they have before they end.
States == {"none", "building", "live", "destroyed", "gone"}
Over == {"destroyed", "gone"}

VARIABLES
    context,    \* the static field
    state,      \* the life of each context
    mounts,     \* number of times HomeScreen was mounted
    mounted,    \* is HomeScreen mounted, and subscribed, in that context?
    left,       \* the contexts in which HomeScreen was ever unmounted
    unsent,     \* messages not sent yet
    askedIn,    \* the context in which a message was sent
    nativeQ,    \* calls of handleMessage on the native modules thread
    jsQ,        \* events on the JavaScript thread
    shown       \* the contexts that alerted the answer to a message

screenVars == <<mounts, mounted, left>>
messageVars == <<unsent, askedIn, shown>>
vars == <<context, state, screenVars, messageVars, nativeQ, jsQ>>

TypeOK ==
    /\ context \in Contexts
    /\ state \in [Contexts -> States]
    /\ mounts \in 0..MaxMounts
    /\ mounted \in [Contexts -> BOOLEAN]
    /\ left \subseteq Contexts
    /\ unsent \subseteq Messages
    /\ askedIn \in [Messages -> Contexts \cup {NoContext}]
    /\ nativeQ \in [Contexts -> Seq(Messages)]
    /\ jsQ \in [Contexts -> Seq(Messages)]
    /\ shown \in [Messages -> Seq(Contexts)]

\* The first context is under construction.
Init ==
    /\ context = 0
    /\ state = [g \in Contexts |-> IF g = 0 THEN "building" ELSE "none"]
    /\ mounts = 0
    /\ mounted = [g \in Contexts |-> FALSE]
    /\ left = {}
    /\ unsent = Messages
    /\ askedIn = [m \in Messages |-> NoContext]
    /\ nativeQ = [g \in Contexts |-> << >>]
    /\ jsQ = [g \in Contexts |-> << >>]
    /\ shown = [m \in Messages |-> << >>]

-----------------------------------------------------------------------------
(* React contexts. *)

\* Mutant: a new context is constructed while the old one is still alive.
Construct_First ==
    /\ context < MaxReloads /\ state[context] # "building"
    /\ context' = context + 1
    /\ state' = [state EXCEPT ![context + 1] = "building"]
    /\ UNCHANGED <<screenVars, messageVars, nativeQ, jsQ>>

\* A reload constructs a context, and with it the package's XpjxModule, once
\* the old context is destroyed.
Construct ==
    /\ context < MaxReloads /\ state[context] \in Over
    /\ context' = context + 1
    /\ state' = [state EXCEPT ![context + 1] = "building"]
    /\ UNCHANGED <<screenVars, messageVars, nativeQ, jsQ>>

\* initializeWithInstance: from now on the context has JavaScript modules.
Initialise ==
    /\ state[context] = "building"
    /\ state' = [state EXCEPT ![context] = "live"]
    /\ UNCHANGED <<context, screenVars, messageVars, nativeQ, jsQ>>

\* Mutant: the module clears the static field when its context goes.
Destroy_Clears ==
    /\ state[context] = "live"
    /\ state' = [state EXCEPT ![context] = "destroyed"]
    /\ context' = NoContext
    /\ UNCHANGED <<screenVars, messageVars, nativeQ, jsQ>>

\* A destroyed context takes no events any more.
Destroy ==
    /\ state[context] = "live"
    /\ state' = [state EXCEPT ![context] = "destroyed"]
    /\ UNCHANGED <<context, screenVars, messageVars, nativeQ, jsQ>>

\* The threads of a destroyed context end; what they still had is dropped.
Quit(g) ==
    /\ state[g] = "destroyed"
    /\ state' = [state EXCEPT ![g] = "gone"]
    /\ mounted' = [mounted EXCEPT ![g] = FALSE]
    /\ nativeQ' = [nativeQ EXCEPT ![g] = << >>]
    /\ jsQ' = [jsQ EXCEPT ![g] = << >>]
    /\ UNCHANGED <<context, mounts, left, messageVars>>

-----------------------------------------------------------------------------
(* HomeScreen, on the JavaScript thread of its context. *)

\* componentDidMount subscribes to getSessionIdEvent.
Mount(g) ==
    /\ state[g] = "live" /\ ~mounted[g] /\ mounts < MaxMounts
    /\ mounts' = mounts + 1
    /\ mounted' = [mounted EXCEPT ![g] = TRUE]
    /\ UNCHANGED <<context, state, left, messageVars, nativeQ, jsQ>>

\* componentWillUnmount, when the back button ends the activity; a later
\* activity mounts HomeScreen again in the same context.
Unmount(g) ==
    /\ ScreenMayUnmount /\ mounted[g]
    /\ mounted' = [mounted EXCEPT ![g] = FALSE]
    /\ left' = left \cup {g}
    /\ UNCHANGED <<context, state, mounts, messageVars, nativeQ, jsQ>>

\* A tap, which may still be waiting on the thread of a destroyed context.
ToggleModal(g, m) ==
    /\ mounted[g] /\ m \in unsent
    /\ unsent' = unsent \ {m}
    /\ askedIn' = [askedIn EXCEPT ![m] = g]
    /\ nativeQ' = [nativeQ EXCEPT ![g] = Append(@, m)]
    /\ UNCHANGED <<context, state, screenVars, shown, jsQ>>

\* The listener alerts, if there is one.
ReceiveEvent(g) ==
    /\ jsQ[g] # << >>
    /\ jsQ' = [jsQ EXCEPT ![g] = Tail(@)]
    /\ shown' = IF mounted[g] THEN [shown EXCEPT ![Head(jsQ[g])] = Append(@, g)] ELSE shown
    /\ UNCHANGED <<context, state, screenVars, unsent, askedIn, nativeQ>>

-----------------------------------------------------------------------------
(* XpjxModule, on the native modules thread of its context. *)

\* Mutant: the second loop starts at hobby0, which no message has.
Throws_FromZero(m) == Shape[m].cities > 0

\* Reading the message throws where hobby has no member for each city.
Throws(m) == Shape[m].hobbies < Shape[m].cities

\* Mutant: nothing makes the thread see that its own constructor has run.
Visible_Stale(g) == 0..context

\* What an unsynchronised read of context may yield: the threads of g start
\* after g was stored, and may see any later value, or none of them.
Visible(g) == g..context

\* Mutant: the event is sent with a check and again without one.
sendEventToRn_Twice(c, m) ==
    jsQ' = IF state[c] = "live" THEN [jsQ EXCEPT ![c] = @ \o <<m, m>>] ELSE jsQ

\* getJSModule throws before the context is initialised, and emit is ignored
\* after it was destroyed.
sendEventToRn(c, m) ==
    jsQ' = IF state[c] = "live" THEN [jsQ EXCEPT ![c] = Append(@, m)] ELSE jsQ

\* handleMessage catches every exception, and leaves its promise alone.
HandleMessage(g) ==
    /\ nativeQ[g] # << >>
    /\ LET m == Head(nativeQ[g]) IN
         IF Shape[m].type = "showLogin" /\ ~Throws(m)
         THEN \E c \in Visible(g) : sendEventToRn(c, m)
         ELSE UNCHANGED jsQ
    /\ nativeQ' = [nativeQ EXCEPT ![g] = Tail(@)]
    /\ UNCHANGED <<context, state, screenVars, messageVars>>

-----------------------------------------------------------------------------
Reload == Construct \/ Initialise \/ Destroy

ScreenStep(g) == Mount(g) \/ Unmount(g) \/ \E m \in Messages : ToggleModal(g, m)

Next ==
    \/ Reload
    \/ \E g \in Contexts : Quit(g) \/ ScreenStep(g) \/ ReceiveEvent(g) \/ HandleMessage(g)

Spec == Init /\ [][Next]_vars

\* The threads of each context drain their queues.
Fairness == \A g \in Contexts : WF_vars(ReceiveEvent(g)) /\ WF_vars(HandleMessage(g))

FairSpec == Spec /\ Fairness

-----------------------------------------------------------------------------
(* Properties. *)

\* A message that asks for the login and names a hobby for each city.
Answerable(m) == Shape[m].type = "showLogin" /\ Shape[m].hobbies >= Shape[m].cities

Queued(queue, m) == \E g \in Contexts : \E i \in 1..Len(queue[g]) : queue[g][i] = m

\* A tap's answer gets lost only if the context of the tap was destroyed or
\* its HomeScreen was unmounted, however often the static field was
\* overwritten and whichever of its values a thread saw (XpjxModule.java:34, 43).
LossExplained ==
    \A m \in Messages \ unsent :
        Answerable(m) /\ ~Queued(nativeQ, m) /\ ~Queued(jsQ, m) /\ shown[m] = << >> =>
            state[askedIn[m]] \in Over \/ askedIn[m] \in left

\* An answer appears in a context that did not ask for it only if the context
\* that asked was destroyed (XpjxModule.java:43 sends through the static field).
AbroadExplained ==
    \A m \in Messages : \A i \in 1..Len(shown[m]) :
        shown[m][i] # askedIn[m] => state[askedIn[m]] \in Over

\* As long as its context lives, and HomeScreen stays, every answerable tap
\* ends in its alert.
TapsAlert ==
    \A m \in Messages, g \in Contexts :
        Answerable(m) /\ askedIn[m] = g ~> (shown[m] # << >> \/ state[g] \in Over \/ g \in left)

\* The taps as one-shot calls, answered by the context that alerts.
Calls == INSTANCE OneShotCalls WITH
    Callers <- Messages,
    Answers <- {<<g>> : g \in Contexts},
    NoAnswer <- << >>,
    asked <- Messages \ unsent,
    answer <- shown,
    dead <- FALSE

\* A tap is alerted once at most, after it was made and for good, across
\* reloads and remountings.  Nothing promises that it is alerted at all.
ImplementsOneShotCalls == Calls!Spec

=============================================================================
