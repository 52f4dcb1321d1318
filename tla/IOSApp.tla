------------------------------- MODULE IOSApp -------------------------------
(***************************************************************************)
(* The iOS app: the stack navigator (Navigation, without a hardware back   *)
(* button) and the bridge (XpjxModule) of one JavaScript context.          *)
(*                                                                         *)
(* The two meet in HomeScreen.  The navigator decides when it is mounted   *)
(* and whether the user can touch it; its listener and its taps are the    *)
(* bridge's.  Both read the same taps, and a reload of the bridge takes    *)
(* both down.  So the stack decides what XpjxModule leaves open by its     *)
(* constant ScreenMayUnmount: does HomeScreen leave while its bridge lives?*)
(***************************************************************************)
EXTENDS XpjxModule

CONSTANTS
    MaxRoutes,  \* bound on the depth of the stack
    MaxKey      \* bound on the keys given to routes

\* The stack alone decides whether HomeScreen unmounts.
ASSUME AppAssumption ==
    /\ MaxRoutes \in Nat \ {0}
    /\ MaxKey \in Nat \ {0}
    /\ ScreenMayUnmount = TRUE

VARIABLES
    running, routes, front, nextKey     \* see Navigation

navVars == <<running, routes, front, nextKey>>
appVars == <<vars, navVars>>

Nav == INSTANCE Navigation WITH HardwareBack <- FALSE

\* The bridge has loaded; it renders App next.
AppInit ==
    /\ Init
    /\ running = FALSE
    /\ routes = << >>
    /\ front = Nav!NewRoute("Home", 0)
    /\ nextKey = 0

-----------------------------------------------------------------------------
\* App is rendered: the navigator's initial route mounts HomeScreen.
Launch == Nav!Relaunch /\ Mount

HomeScreens(stack) ==
    {stack[i] : i \in {j \in 1..Len(stack) : stack[j].name = "Home"}}

\* A button of either screen.  React unmounts a screen whose route is gone.
Browse ==
    /\ Nav!Button
    /\ IF HomeScreens(routes) \subseteq HomeScreens(routes')
       THEN UNCHANGED vars
       ELSE Unmount

\* The login button of HomeScreen, as long as the user can touch it.
Login(m) ==
    /\ Nav!Tap("Home") /\ UNCHANGED <<routes, nextKey>>
    /\ ToggleModal(m)

\* A reload takes the JavaScript context down, and the navigator with it.
ReloadApp ==
    /\ Reload
    /\ running' = FALSE
    /\ routes' = << >>
    /\ UNCHANGED <<front, nextKey>>

\* The threads of the bridge, and the navigator's transitions, go on their own.
Threads == (ReceiveEvent \/ ModuleStep \/ MainStep) /\ UNCHANGED navVars
Transition == Nav!Render /\ UNCHANGED vars

AppNext ==
    \/ Launch
    \/ Browse
    \/ \E m \in Messages : Login(m)
    \/ ReloadApp
    \/ Threads
    \/ Transition

AppSpec == AppInit /\ [][AppNext]_appVars

\* The fairness of the bridge's threads; nothing makes the user tap.
AppFairSpec == AppSpec /\ Fairness

-----------------------------------------------------------------------------
(* Properties. *)

Mounted == INSTANCE XpjxModule WITH ScreenMayUnmount <- FALSE

\* However the user browses while the threads of the bridge are under way, and
\* wherever a reload falls, the bridge is one whose HomeScreen never unmounts:
\* no button of HomeScreen.js:149-152 or DetailPage.js:12-22 ever reaches
\* removeListeners, hence stopObserving (XpjxModule.m:84-89), after which no
\* login could be answered any more.
ImplementsMountedBridge == Mounted!Spec

=============================================================================
