---------------------------- MODULE IOSAppProofs ----------------------------
(***************************************************************************)
(* The iOS app has a bridge whose HomeScreen never unmounts, for stacks of *)
(* any depth and any set of messages.  The invariant of NavigationProofs   *)
(* survives reloads; by it a button leaves the one HomeScreen, the first   *)
(* screen of the stack, where it is.  What XpjxModuleProofs and            *)
(* XpjxTapsProofs prove of such a bridge then holds of the app.            *)
(***************************************************************************)
EXTENDS IOSApp, TLAPS

NavP == INSTANCE NavigationProofs WITH HardwareBack <- FALSE
TapsP == INSTANCE XpjxTapsProofs WITH ScreenMayUnmount <- FALSE

\* The constants of both instances are what their modules ask for.
LEMMA NavPAssumptions == NavP!NavigationAssumption
  BY AppAssumption DEF NavP!NavigationAssumption

LEMMA TapsPAssumptions == TapsP!XpjxAssumption /\ ~FALSE
  BY XpjxAssumption DEF TapsP!XpjxAssumption

-----------------------------------------------------------------------------
(* The stack. *)

\* The buttons, the start and the transitions of the app are the navigator's.
LEMMA NavSteps ==
    /\ Nav!Button => NavP!Button
    /\ Nav!Button \/ Nav!Relaunch \/ Nav!Render => NavP!Next
  BY DEF Nav!Button, NavP!Button, Nav!Relaunch, NavP!Relaunch, Nav!Render, NavP!Render,
         NavP!Next, Nav!GoToDetails, NavP!GoToDetails, Nav!GoToDetailsAgain,
         NavP!GoToDetailsAgain, Nav!GoToHome, NavP!GoToHome, Nav!GoBack, NavP!GoBack,
         Nav!Tap, NavP!Tap, Nav!Navigate, NavP!Navigate, Nav!Push, NavP!Push,
         Nav!Back, NavP!Back, Nav!NewRoute, NavP!NewRoute

LEMMA AppInitStack == AppInit => NavP!IInv
<1> SUFFICES ASSUME AppInit PROVE NavP!IInv
  OBVIOUS
<1>1. /\ running = FALSE /\ routes = << >> /\ nextKey = 0
      /\ front = NavP!NewRoute("Home", 0)
  BY DEF AppInit, Nav!NewRoute, NavP!NewRoute
<1>2. front \in NavP!Route
  BY <1>1, AppAssumption DEF NavP!NewRoute, NavP!Route
<1>3. routes \in Seq(NavP!Route) /\ nextKey \in 0..MaxKey + 1
  BY <1>1, AppAssumption
<1> QED
  BY <1>1, <1>2, <1>3
     DEF NavP!IInv, NavP!TypeOK, NavP!StackOK, NavP!StoppedOK, NavP!OneDetailsFromHome

\* A reload leaves no stack, and every other step is one of the navigator.
LEMMA AppStepStack == NavP!IInv /\ [AppNext]_appVars => NavP!IInv'
<1> SUFFICES ASSUME NavP!IInv, [AppNext]_appVars PROVE NavP!IInv'
  OBVIOUS
<1>1. CASE Launch \/ Browse \/ Transition
  <2>1. NavP!Next
    BY <1>1, NavSteps DEF Launch, Browse, Transition
  <2> QED
    BY <2>1, NavPAssumptions, NavP!StepIInv
<1>2. CASE ReloadApp
  <2>1. running' = FALSE /\ routes' = << >> /\ UNCHANGED <<front, nextKey>>
    BY <1>2 DEF ReloadApp
  <2>2. routes' \in Seq(NavP!Route)
    BY <2>1
  <2>3. front \in NavP!Route /\ nextKey \in 0..MaxKey + 1
    BY DEF NavP!IInv, NavP!TypeOK
  <2> QED
    BY <2>1, <2>2, <2>3
       DEF NavP!IInv, NavP!TypeOK, NavP!StackOK, NavP!StoppedOK, NavP!OneDetailsFromHome
<1>3. CASE Threads \/ UNCHANGED appVars \/ \E m \in Messages : Login(m)
  <2>1. UNCHANGED NavP!vars
    BY <1>3 DEF Threads, Login, Nav!Tap, appVars, navVars, NavP!vars
  <2> QED
    BY <2>1, NavPAssumptions, NavP!StepIInv
<1> QED
  BY <1>1, <1>2, <1>3 DEF AppNext

\* No button takes HomeScreen off the stack.
LEMMA HomeScreensStay ==
    ASSUME NavP!IInv, Nav!Button
    PROVE  HomeScreens(routes) \subseteq HomeScreens(routes')
<1>1. NavP!Button /\ NavP!Next
  BY NavSteps
<1>2. running /\ running'
  BY <1>1, NavPAssumptions, NavP!ButtonSteps
<1>3. routes'[1] = routes[1]
  BY <1>1, <1>2, NavPAssumptions, NavP!HomeStep
<1>4. NavP!IInv'
  BY <1>1, NavPAssumptions, NavP!StepIInv
<1>5. NavP!Stack(routes, nextKey) /\ Len(routes') \in Nat \ {0} /\ routes'[1].name = "Home"
  BY <1>2, <1>4 DEF NavP!IInv, NavP!StackOK, NavP!Stack
<1>6. 1 \in 1..Len(routes')
  BY <1>5
<1>7. ASSUME NEW i \in 1..Len(routes), routes[i].name = "Home" PROVE i = 1
  BY <1>5, <1>7, NavPAssumptions, NavP!HomeIsFirst
<1> QED
  BY <1>3, <1>5, <1>6, <1>7 DEF HomeScreens

-----------------------------------------------------------------------------
(* The bridge. *)

\* Every step of the app is one of a bridge whose HomeScreen stays mounted, or
\* none: the user's taps, the navigator's transitions and the reloads included.
LEMMA BridgeStep ==
    ASSUME NavP!IInv, [AppNext]_appVars
    PROVE  [Mounted!Next]_Mounted!vars
<1>1. CASE Launch
  <2>1. Mounted!Mount
    BY <1>1 DEF Launch, Mount, Mounted!Mount, Calls, Mounted!Calls
  <2> QED
    BY <2>1 DEF Mounted!Next, Mounted!Environment
<1>2. CASE Browse \/ Transition \/ UNCHANGED appVars
  <2>1. UNCHANGED vars
    BY <1>2, HomeScreensStay DEF Browse, Transition, appVars
  <2> QED
    BY <2>1 DEF vars, jsVars, Mounted!vars, Mounted!jsVars
<1>3. ASSUME NEW m \in Messages, Login(m) PROVE Mounted!Next
  <2>1. Mounted!ToggleModal(m)
    BY <1>3 DEF Login, ToggleModal, Mounted!ToggleModal, Calls, Mounted!Calls
  <2> QED
    BY <2>1 DEF Mounted!Next, Mounted!Environment
<1>4. CASE ReloadApp
  <2>1. Mounted!Reload
    BY <1>4 DEF ReloadApp, Reload, Mounted!Reload, ReInit, Mounted!ReInit, AddObservers,
                Mounted!AddObservers, NoObservers, Mounted!NoObservers, Notifications,
                Mounted!Notifications
  <2> QED
    BY <2>1 DEF Mounted!Next, Mounted!Environment
<1>5. CASE Threads
  <2>1. ReceiveEvent => Mounted!ReceiveEvent
    BY DEF ReceiveEvent, Mounted!ReceiveEvent
  <2>2. ModuleStep => Mounted!ModuleStep
    BY DEF ModuleStep, Mounted!ModuleStep, AddListener, Mounted!AddListener,
           RemoveListeners, Mounted!RemoveListeners, HandleMessage, Mounted!HandleMessage,
           NextCall, Mounted!NextCall, jsVars, Mounted!jsVars, NoObservers,
           Mounted!NoObservers, Notifications, Mounted!Notifications
  <2>3. MainStep => Mounted!MainStep
    BY DEF MainStep, Mounted!MainStep, RunBlock, Mounted!RunBlock, GetSessionId,
           Mounted!GetSessionId, jsVars, Mounted!jsVars
  <2> QED
    BY <1>5, <2>1, <2>2, <2>3 DEF Threads, Mounted!Next
<1> QED
  BY <1>1, <1>2, <1>3, <1>4, <1>5 DEF AppNext

\* The app implements a bridge whose HomeScreen stays mounted (App.js:6-13,
\* DetailPage.js:12-22): what XpjxModule assumes by ~ScreenMayUnmount is true.
THEOREM RefinesMountedBridge == AppSpec => ImplementsMountedBridge
<1>1. AppInit => Mounted!Init
  BY DEF AppInit, Init, Mounted!Init, ReInit, Mounted!ReInit, AddObservers,
         Mounted!AddObservers, NoObservers, Mounted!NoObservers, Notifications,
         Mounted!Notifications
<1>2. NavP!IInv /\ [AppNext]_appVars => [Mounted!Next]_Mounted!vars
  BY BridgeStep
<1> QED
  BY <1>1, <1>2, AppInitStack, AppStepStack, PTL
     DEF AppSpec, ImplementsMountedBridge, Mounted!Spec

-----------------------------------------------------------------------------
(* What the app inherits. *)

\* The two instances of the bridge are one specification.
LEMMA SameBridge == Mounted!Spec => TapsP!Spec
  BY DEF Mounted!Spec, TapsP!Spec, Mounted!Init, TapsP!Init, Mounted!Next,
         TapsP!Next, Mounted!vars, TapsP!vars, Mounted!jsVars, TapsP!jsVars,
         Mounted!Environment, TapsP!Environment, Mounted!Mount, TapsP!Mount,
         Mounted!Unmount, TapsP!Unmount, Mounted!ToggleModal, TapsP!ToggleModal,
         Mounted!Reload, TapsP!Reload, Mounted!ReceiveEvent, TapsP!ReceiveEvent,
         Mounted!ModuleStep, TapsP!ModuleStep, Mounted!AddListener,
         TapsP!AddListener, Mounted!RemoveListeners, TapsP!RemoveListeners,
         Mounted!HandleMessage, TapsP!HandleMessage, Mounted!NextCall,
         TapsP!NextCall, Mounted!Calls, TapsP!Calls, Mounted!MainStep,
         TapsP!MainStep, Mounted!RunBlock, TapsP!RunBlock, Mounted!GetSessionId,
         TapsP!GetSessionId, Mounted!ReInit, TapsP!ReInit, Mounted!AddObservers,
         TapsP!AddObservers, Mounted!NoObservers, TapsP!NoObservers,
         Mounted!Notifications, TapsP!Notifications

\* In the app no login message is lost as long as its JS context lives, and a
\* listening HomeScreen is served, whatever the user browses meanwhile
\* (XpjxModule.m:26-47, 62-69 and 84-89).
THEOREM AppInherits == AppSpec => []ListeningMeansObserving /\ []TapsKept
<1>1. AppSpec => TapsP!Spec
  BY RefinesMountedBridge, SameBridge DEF ImplementsMountedBridge
<1>2. TapsP!Spec => []TapsP!ListeningMeansObserving
  BY TapsPAssumptions, TapsP!ListenersAreServed
<1>3. TapsP!Spec => []TapsP!TapsKept
  BY TapsPAssumptions, TapsP!NoTapIsLost
<1>4. TapsP!ListeningMeansObserving => ListeningMeansObserving
  BY DEF TapsP!ListeningMeansObserving, ListeningMeansObserving, TapsP!NoObservers,
         NoObservers, TapsP!AddObservers, AddObservers, TapsP!Notifications, Notifications
<1>5. TapsP!TapsKept => TapsKept
  BY DEF TapsP!TapsKept, TapsKept, TapsP!UnderWay, UnderWay, TapsP!InQueue, InQueue
<1> QED
  BY <1>1, <1>2, <1>3, <1>4, <1>5, PTL

=============================================================================
