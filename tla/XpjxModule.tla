----------------------------- MODULE XpjxModule -----------------------------
(***************************************************************************)
(* The iOS bridge module XpjxModule (ios/XpjxModule.m), an RCTEventEmitter,*)
(* with its JavaScript client HomeScreen (HomeScreen.js).                  *)
(*                                                                         *)
(* Three threads and two queues separate a tap on HomeScreen from the      *)
(* alert it asks for:                                                      *)
(*                                                                         *)
(*   JS thread --methodQ--> module queue --mainQ--> main thread            *)
(*       ^                                              | NSNotification   *)
(*       +-------------------- jsQ ---------------------+                  *)
(*                                                                         *)
(* The module is one shared object for the life of the process: a reload   *)
(* of the bridge runs init on it again, and its RCTEventEmitter state (the *)
(* listener count) survives.  RCTEventEmitter, RCTBridge, the JavaScript   *)
(* NativeEventEmitter and NSNotificationCenter are modelled from their use.*)
(***************************************************************************)
EXTENDS Naturals, Sequences, FiniteSets

CONSTANTS
    Messages,          \* identities of the messages HomeScreen may send
    LoginMessages,     \* those whose type is "showLogin"
    NoMessage,         \* no argument
    MaxMounts,         \* bound on the mountings of HomeScreen
    MaxReloads,        \* bound on the reloads of the bridge
    ScreenMayUnmount   \* may HomeScreen unmount while its bridge lives?

ASSUME XpjxAssumption ==
    /\ LoginMessages \subseteq Messages
    /\ NoMessage \notin Messages
    /\ MaxMounts \in Nat
    /\ MaxReloads \in Nat
    /\ ScreenMayUnmount \in BOOLEAN

Notifications == {"sendCustomEventNotification", "getPayResultsNotification",
                  "getSessionIdNotification"}

VARIABLES
    reloads,        \* number of reloads: identifies the live JS context
    mounts,         \* number of times HomeScreen was mounted
    mounted,        \* HomeScreen is mounted, and subscribed to getSessionIdEvent
    unsent,         \* messages not sent yet
    unsettled,      \* messages of the live context whose promise is pending
    methodQ,        \* calls from JS waiting on the module's method queue
    mainQ,          \* blocks that handleMessage dispatched to the main queue
    posting,        \* observer calls left of the notification being posted
    observers,      \* registrations of the module in the notification center
    listenerCount,  \* RCTEventEmitter's _listenerCount
    jsQ,            \* emit calls on their way to the live JS context
    alerts          \* alerts shown for each message

jsVars == <<mounts, mounted, unsent, unsettled, alerts>>
vars == <<reloads, jsVars, methodQ, mainQ, posting, observers, listenerCount, jsQ>>

Call == [op : {"addListener", "removeListeners"}, msg : {NoMessage}]
        \cup [op : {"handleMessage"}, msg : Messages]

TypeOK ==
    /\ reloads \in 0..MaxReloads
    /\ mounts \in 0..MaxMounts
    /\ mounted \in BOOLEAN
    /\ unsent \subseteq Messages
    /\ unsettled \subseteq Messages
    /\ methodQ \in Seq(Call)
    /\ mainQ \in Seq(Messages)
    /\ posting \in Seq(Messages)
    /\ observers \in [Notifications -> Nat]
    /\ listenerCount \in Nat
    /\ jsQ \in Seq(Messages)
    /\ alerts \in [Messages -> Nat]

-----------------------------------------------------------------------------
(* The notification center's view of the module. *)

NoObservers == [n \in Notifications |-> 0]

\* addObserver: for each of the three names; registrations accumulate.
AddObservers(obs) == [n \in Notifications |-> obs[n] + 1]

\* Mutant: init without removeObserver:.
ReInit_KeepsOld(obs) == AddObservers(obs)

\* Mutant: init calls removeObserver: last.
ReInit_RemovesLast(obs) == NoObservers

\* init drops whatever an earlier init of the shared object registered.
ReInit(obs) == AddObservers(NoObservers)

Init ==
    /\ reloads = 0
    /\ mounts = 0
    /\ mounted = FALSE
    /\ unsent = Messages
    /\ unsettled = {}
    /\ methodQ = << >>
    /\ mainQ = << >>
    /\ posting = << >>
    /\ observers = ReInit(NoObservers)
    /\ listenerCount = 0
    /\ jsQ = << >>
    /\ alerts = [m \in Messages |-> 0]

-----------------------------------------------------------------------------
(* JS thread: HomeScreen.  Each step runs to completion. *)

Calls(op, m) == methodQ' = Append(methodQ, [op |-> op, msg |-> m])

\* Mutant: a subscription through DeviceEventEmitter, which tells the native
\* module nothing.
Mount_DeviceEventEmitter ==
    /\ ~mounted /\ mounts < MaxMounts
    /\ mounts' = mounts + 1
    /\ mounted' = TRUE
    /\ UNCHANGED <<reloads, unsent, unsettled, alerts, methodQ, mainQ, posting,
                   observers, listenerCount, jsQ>>

\* componentDidMount subscribes through a NativeEventEmitter, which calls the
\* native addListener.
Mount ==
    /\ ~mounted /\ mounts < MaxMounts
    /\ mounts' = mounts + 1
    /\ mounted' = TRUE
    /\ Calls("addListener", NoMessage)
    /\ UNCHANGED <<reloads, unsent, unsettled, alerts, mainQ, posting,
                   observers, listenerCount, jsQ>>

\* Mutant: the subscription is removed twice.
Unmount_Twice ==
    /\ ScreenMayUnmount /\ mounted
    /\ mounted' = FALSE
    /\ LET remove == [op |-> "removeListeners", msg |-> NoMessage] IN
         methodQ' = methodQ \o <<remove, remove>>
    /\ UNCHANGED <<reloads, mounts, unsent, unsettled, alerts, mainQ, posting,
                   observers, listenerCount, jsQ>>

\* componentWillUnmount removes the subscription.
Unmount ==
    /\ ScreenMayUnmount /\ mounted
    /\ mounted' = FALSE
    /\ Calls("removeListeners", NoMessage)
    /\ UNCHANGED <<reloads, mounts, unsent, unsettled, alerts, mainQ, posting,
                   observers, listenerCount, jsQ>>

\* A tap: toggleModal calls handleMessage and chains on its promise.
ToggleModal(m) ==
    /\ mounted /\ m \in unsent
    /\ unsent' = unsent \ {m}
    /\ unsettled' = unsettled \cup {m}
    /\ Calls("handleMessage", m)
    /\ UNCHANGED <<reloads, mounts, mounted, alerts, mainQ, posting,
                   observers, listenerCount, jsQ>>

\* RCTDeviceEventEmitter emits getSessionIdEvent: HomeScreen's listener, if
\* there is one, alerts.
ReceiveEvent ==
    /\ jsQ # << >>
    /\ jsQ' = Tail(jsQ)
    /\ alerts' = IF mounted THEN [alerts EXCEPT ![Head(jsQ)] = @ + 1] ELSE alerts
    /\ UNCHANGED <<reloads, mounts, mounted, unsent, unsettled, methodQ,
                   mainQ, posting, observers, listenerCount>>

-----------------------------------------------------------------------------
(* The module's method queue: it runs the calls from JS one by one. *)

NextCall(op) ==
    /\ methodQ # << >>
    /\ Head(methodQ).op = op
    /\ methodQ' = Tail(methodQ)

\* The first listener triggers startObserving, whose body is commented out.
AddListener ==
    /\ NextCall("addListener")
    /\ listenerCount' = listenerCount + 1
    /\ UNCHANGED <<reloads, jsVars, mainQ, posting, observers, jsQ>>

\* Dropping the last listener triggers stopObserving: removeObserver:self.
RemoveListeners ==
    /\ NextCall("removeListeners")
    /\ listenerCount' = IF listenerCount > 0 THEN listenerCount - 1 ELSE 0
    /\ observers' = IF listenerCount' = 0 THEN NoObservers ELSE observers
    /\ UNCHANGED <<reloads, jsVars, mainQ, posting, jsQ>>

\* handleMessage defers to the main queue; it calls neither the resolver nor
\* the rejecter of the promise, now or later.
HandleMessage ==
    /\ NextCall("handleMessage")
    /\ mainQ' = Append(mainQ, Head(methodQ).msg)
    /\ UNCHANGED <<reloads, jsVars, posting, observers, listenerCount, jsQ>>

-----------------------------------------------------------------------------
(* Main thread. *)

\* Mutant: the block does not look at the message's type.
RunBlock_AnyType ==
    /\ mainQ # << >> /\ posting = << >>
    /\ mainQ' = Tail(mainQ)
    /\ posting' = [i \in 1..observers["getSessionIdNotification"] |-> Head(mainQ)]
    /\ UNCHANGED <<reloads, jsVars, methodQ, observers, listenerCount, jsQ>>

\* Mutant: the notification is posted without its userInfo.
RunBlock_NoUserInfo ==
    /\ mainQ # << >> /\ posting = << >>
    /\ mainQ' = Tail(mainQ)
    /\ posting' = IF Head(mainQ) \in LoginMessages
                  THEN [i \in 1..observers["getSessionIdNotification"] |-> NoMessage]
                  ELSE << >>
    /\ UNCHANGED <<reloads, jsVars, methodQ, observers, listenerCount, jsQ>>

\* The block of handleMessage: a "showLogin" message posts
\* getSessionIdNotification, which calls every registered observer in turn
\* before the block goes on; a message of another type does nothing.
RunBlock ==
    /\ mainQ # << >> /\ posting = << >>
    /\ mainQ' = Tail(mainQ)
    /\ posting' = IF Head(mainQ) \in LoginMessages
                  THEN [i \in 1..observers["getSessionIdNotification"] |-> Head(mainQ)]
                  ELSE << >>
    /\ UNCHANGED <<reloads, jsVars, methodQ, observers, listenerCount, jsQ>>

\* getSessionId: sends getSessionIdEvent; RCTEventEmitter passes it on to JS
\* only if it counts a listener, and warns otherwise.
GetSessionId ==
    /\ posting # << >>
    /\ posting' = Tail(posting)
    /\ jsQ' = IF listenerCount > 0 THEN Append(jsQ, Head(posting)) ELSE jsQ
    /\ UNCHANGED <<reloads, jsVars, methodQ, mainQ, observers, listenerCount>>

\* The bridge reloads: the JS context, its queued calls and the events bound
\* for it are gone, blocks on the main queue stay, and the new bridge runs
\* init on the shared module object.
Reload ==
    /\ posting = << >> /\ reloads < MaxReloads
    /\ reloads' = reloads + 1
    /\ mounted' = FALSE
    /\ unsettled' = {}
    /\ methodQ' = << >>
    /\ jsQ' = << >>
    /\ observers' = ReInit(observers)
    /\ UNCHANGED <<mounts, unsent, alerts, mainQ, posting, listenerCount>>

-----------------------------------------------------------------------------
ModuleStep == AddListener \/ RemoveListeners \/ HandleMessage
MainStep == RunBlock \/ GetSessionId

Environment ==
    \/ Mount
    \/ Unmount
    \/ \E m \in Messages : ToggleModal(m)
    \/ Reload

Next == Environment \/ ReceiveEvent \/ ModuleStep \/ MainStep

Spec == Init /\ [][Next]_vars

\* The three threads keep draining their queues; nothing makes the user tap,
\* or the screen mount or unmount.
Fairness == WF_vars(ReceiveEvent) /\ WF_vars(ModuleStep) /\ WF_vars(MainStep)

FairSpec == Spec /\ Fairness

-----------------------------------------------------------------------------
(* Properties. *)

\* However often the bridge reloads, each notification has at most one
\* registration of the shared object, and either all three are registered or
\* none is (removeObserver: in init, XpjxModule.m:62-69, and in stopObserving).
RegisteredOnce == observers \in {NoObservers, AddObservers(NoObservers)}

\* One tap never shows two alerts, whatever reloads, unmountings and
\* remountings happen while its message, notification or event is under way.
AlertedAtMostOnce == \A m \in Messages : alerts[m] <= 1

\* The FIFO order of the method queue makes the listener of componentDidMount
\* count before any message of that screen is handled, so that an event is
\* never dropped for coming too early.
ListenerBeforeMessage ==
    methodQ # << >> /\ Head(methodQ).op = "handleMessage" => listenerCount > 0

\* RCTEventEmitter and HomeScreen agree: once the calls under way are
\* processed, a mounted HomeScreen is counted, so that emptying the count
\* (stopObserving) can never silence a screen that is still subscribed.
Pending(op) == Cardinality({i \in 1..Len(methodQ) : methodQ[i].op = op})
SubscriberCounted ==
    mounted => listenerCount + Pending("addListener") > Pending("removeListeners")

\* What the comment on sendCustomEvent: says of the notification methods
\* ("on receiving the notification, send the event to the RN side"): while
\* HomeScreen listens, the module observes the notifications it forwards.
ListeningMeansObserving ==
    mounted /\ methodQ = << >> => observers = AddObservers(NoObservers)

\* No login message is lost while its JS context lives: until it is alerted,
\* its call, its block, its notification or its event is under way, for neither
\* the listener count nor the registrations ever let one drop (XpjxModule.m:26-47,
\* 63-69 and 87-89).  This holds where HomeScreen stays mounted.
InQueue(m, q) == \E i \in 1..Len(q) : q[i] = m
UnderWay(m) ==
    \/ InQueue([op |-> "handleMessage", msg |-> m], methodQ)
    \/ InQueue(m, mainQ) \/ InQueue(m, posting) \/ InQueue(m, jsQ)
TapsKept == \A m \in LoginMessages \cap unsettled : alerts[m] = 1 \/ UnderWay(m)

\* As long as its JS context lives, every login message ends in its alert.
TapsAlert ==
    \A m \in LoginMessages, g \in 0..MaxReloads :
        (m \in unsettled /\ reloads = g) ~> (alerts[m] = 1 \/ reloads # g)

\* The promise that handleMessage returns to HomeScreen is settled, as
\* toggleModal's then-callback expects, or its JS context goes away.
PromisesSettle == \A m \in Messages : m \in unsettled ~> m \notin unsettled

\* The bridge as one-shot calls: a message of type "showLogin" asks, its alert
\* is the one answer.  A message of another type asks for nothing.
Taps == INSTANCE OneShotCalls WITH
    Callers <- Messages,
    Answers <- {1},
    NoAnswer <- 0,
    asked <- LoginMessages \ unsent,
    answer <- alerts,
    dead <- FALSE

\* The bridge implements the safety part of one-shot calls: across reloads,
\* unmountings and remountings no tap is alerted twice, or before it was made,
\* only one that asked for the login is (XpjxModule.m:35), and no alert is taken
\* back (HomeScreen.js:56-97, XpjxModule.m:26-47).
ImplementsOneShotCalls == Taps!Spec
=============================================================================
