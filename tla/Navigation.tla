----------------------------- MODULE Navigation -----------------------------
(***************************************************************************)
(* The stack navigator of the app (App.js) with its two screens, and the   *)
(* buttons that HomeScreen and DetailPage put on them.                     *)
(*                                                                         *)
(* A tap is answered by the screen that the user sees, front, which may be *)
(* behind the stack: taps that come before the next rendering still act on *)
(* the old screen.  The router of react-navigation 3 is modelled from its  *)
(* use.                                                                    *)
(***************************************************************************)
EXTENDS Integers, Sequences

CONSTANTS
    MaxRoutes,      \* bound on the depth of the stack
    MaxKey,         \* bound on the keys given to routes
    HardwareBack    \* does the device have a back button (Android)?

ASSUME NavigationAssumption ==
    /\ MaxRoutes \in Nat \ {0}
    /\ MaxKey \in Nat \ {0}
    /\ HardwareBack \in BOOLEAN

Route == [name : {"Home", "Details"}, key : 0..MaxKey]
NewRoute(name, key) == [name |-> name, key |-> key]

VARIABLES
    running,    \* the root view is on the screen
    routes,     \* the stack of screens, all of them mounted
    front,      \* the screen that the user sees and touches
    nextKey     \* routes get keys of their own, in order

vars == <<running, routes, front, nextKey>>

TypeOK ==
    /\ running \in BOOLEAN
    /\ routes \in Seq(Route)
    /\ front \in Route
    /\ nextKey \in 0..MaxKey + 1

\* createAppContainer starts with the initial route.
Init ==
    /\ running = TRUE
    /\ routes = <<NewRoute("Home", 0)>>
    /\ front = NewRoute("Home", 0)
    /\ nextKey = 1

-----------------------------------------------------------------------------
(* The router. *)

\* push adds a route with a fresh key.
Push(name) ==
    /\ Len(routes) < MaxRoutes /\ nextKey <= MaxKey
    /\ routes' = Append(routes, NewRoute(name, nextKey))
    /\ nextKey' = nextKey + 1

\* navigate goes back to the first route of that name, or pushes one.
Navigate(name) ==
    \/ \E i \in 1..Len(routes) :
         /\ routes[i].name = name
         /\ \A j \in 1..i - 1 : routes[j].name # name
         /\ routes' = SubSeq(routes, 1, i)
         /\ UNCHANGED nextKey
    \/ (\A i \in 1..Len(routes) : routes[i].name # name) /\ Push(name)

\* Mutant: back takes the topmost route, whoever asked.
Back_Topmost(key) ==
    /\ Len(routes) > 1
    /\ routes' = SubSeq(routes, 1, Len(routes) - 1)
    /\ UNCHANGED nextKey

\* goBack of a screen removes that screen and whatever lies on it; the first
\* screen, and one that is no longer on the stack, it leaves alone.
Back(key) ==
    /\ \E i \in 2..Len(routes) :
         routes[i].key = key /\ routes' = SubSeq(routes, 1, i - 1)
    /\ UNCHANGED nextKey

-----------------------------------------------------------------------------
(* The user. *)

Tap(name) == running /\ front.name = name /\ UNCHANGED <<running, front>>

\* Mutant: the button of HomeScreen pushes.
GoToDetails_Push == Tap("Home") /\ Push("Details")

\* Mutant: the button of HomeScreen gives the component's name, not the route's.
GoToDetails_ByComponent == Tap("Home") /\ Navigate("DetailPage")

\* "Go to Details" on HomeScreen.
GoToDetails == Tap("Home") /\ Navigate("Details")

\* "Go to Details... again" on DetailPage.
GoToDetailsAgain == Tap("Details") /\ Push("Details")

\* Mutant: the button of DetailPage replaces the stack by a new HomeScreen.
GoToHome_Replace ==
    /\ Tap("Details") /\ nextKey <= MaxKey
    /\ routes' = <<NewRoute("Home", nextKey)>>
    /\ nextKey' = nextKey + 1

\* "Go to Home" on DetailPage.
GoToHome == Tap("Details") /\ Navigate("Home")

\* "Go back" on DetailPage; the header's back button and the swipe do the same.
GoBack == Tap("Details") /\ Back(front.key)

\* Mutant: the last screen is popped as well, and the app stays.
PressBack_PopsRoot ==
    /\ HardwareBack /\ running /\ routes # << >>
    /\ routes' = SubSeq(routes, 1, Len(routes) - 1)
    /\ UNCHANGED <<running, front, nextKey>>

\* The hardware button pops the topmost screen; on the first one it ends the
\* activity, which unmounts everything.
PressBack ==
    /\ HardwareBack /\ running
    /\ routes' = SubSeq(routes, 1, Len(routes) - 1)
    /\ running' = (Len(routes) > 1)
    /\ UNCHANGED <<front, nextKey>>

\* The app is started again under the same bridge.
Relaunch ==
    /\ ~running /\ nextKey <= MaxKey
    /\ running' = TRUE
    /\ routes' = <<NewRoute("Home", nextKey)>>
    /\ front' = NewRoute("Home", nextKey)
    /\ nextKey' = nextKey + 1

\* The topmost screen is rendered and takes the touches from now on.
Render ==
    /\ running /\ front # routes[Len(routes)]
    /\ front' = routes[Len(routes)]
    /\ UNCHANGED <<running, routes, nextKey>>

-----------------------------------------------------------------------------
Button == GoToDetails \/ GoToDetailsAgain \/ GoToHome \/ GoBack

Next == Button \/ PressBack \/ Relaunch \/ Render

Spec == Init /\ [][Next]_vars

-----------------------------------------------------------------------------
(* Properties. *)

\* HomeScreen is mounted once, below everything else, as long as the root view
\* lives: no sequence of taps unmounts it (App.js:6-13).  This is what the
\* model of the iOS bridge assumes by ScreenMayUnmount = FALSE.
HomeAtBottom ==
    running =>
        /\ routes # << >> /\ routes[1].name = "Home"
        /\ \A i \in 2..Len(routes) : routes[i].name = "Details"

\* And it is the same HomeScreen, with its listener, until the app is left.
HomeStays == [][running /\ running' => routes'[1] = routes[1]]_vars

\* However fast "Go to Details" is tapped, it opens one DetailPage: while the
\* user sees HomeScreen, nothing lies on a DetailPage (HomeScreen.js:149-152).
OneDetailsFromHome == running /\ front.name = "Home" => Len(routes) <= 2

\* No tap removes a screen older than the one the user sees, except "Go to
\* Home": "Go back" tapped twice goes back once, also after a hardware press
\* that is not rendered yet, and never further than the screen below the one
\* that was tapped (DetailPage.js:10-22).
OlderScreensStay ==
    [][GoToDetails \/ GoToDetailsAgain \/ GoBack =>
         \A i \in 1..Len(routes) :
            routes[i].key < front.key =>
                \E j \in 1..Len(routes') : routes'[j] = routes[i]]_vars

=============================================================================
