-------------------------- MODULE NavigationProofs --------------------------
(***************************************************************************)
(* Proofs about Navigation, for stacks of any depth.  The stack is always  *)
(* a HomeScreen below DetailPages, in the order of their keys; the router  *)
(* only pushes a DetailPage on it or cuts it above its first screen.       *)
(***************************************************************************)
EXTENDS Navigation, TLAPS

\* A HomeScreen below DetailPages, in the order in which they got their keys.
Stack(q, next) ==
    /\ q \in Seq(Route) /\ Len(q) \in Nat \ {0}
    /\ q[1].name = "Home"
    /\ \A i \in 2..Len(q) : q[i].name = "Details"
    /\ \A i, j \in 1..Len(q) : i < j => q[i].key < q[j].key
    /\ \A i \in 1..Len(q) : q[i].key < next

StackOK == running => Stack(routes, nextKey)
StoppedOK == ~running => routes = << >>

IInv == TypeOK /\ StackOK /\ StoppedOK /\ OneDetailsFromHome

-----------------------------------------------------------------------------
(* The two things that the router does to the stack. *)

\* A positive number that is at most two.
LEMMA OneOrTwo == ASSUME NEW n \in Nat \ {0}, n <= 2 PROVE n = 1 \/ n = 2
  OBVIOUS

\* A positive number has a positive predecessor or is one.
LEMMA Positive == ASSUME NEW n \in Nat \ {0} PROVE n = 1 \/ (n > 1 /\ n - 1 \in 1..n)
  OBVIOUS

\* A route is one.
LEMMA NewRouteType ==
    ASSUME NEW name \in {"Home", "Details"}, NEW key \in 0..MaxKey
    PROVE  /\ NewRoute(name, key) \in Route
           /\ NewRoute(name, key).name = name /\ NewRoute(name, key).key = key
  BY DEF NewRoute, Route

\* Pushing a DetailPage with the next key leaves the rest of the stack alone.
LEMMA PushStack ==
    ASSUME NEW k \in 0..MaxKey, NEW q, Stack(q, k)
    PROVE  LET r == Append(q, NewRoute("Details", k)) IN
           /\ Stack(r, k + 1) /\ Len(r) = Len(q) + 1
           /\ \A i \in 1..Len(q) : r[i] = q[i]
<1> DEFINE d == NewRoute("Details", k)
           r == Append(q, d)
<1>1. d \in Route /\ d.name = "Details" /\ d.key = k
  BY NewRouteType
<1>2. q \in Seq(Route) /\ Len(q) \in Nat \ {0}
  BY DEF Stack
<1> HIDE DEF d
<1>3. /\ r \in Seq(Route) /\ Len(r) = Len(q) + 1 /\ r[Len(q) + 1] = d
      /\ \A i \in 1..Len(q) : r[i] = q[i]
  BY <1>1, <1>2
<1>4. \A i \in 1..Len(q) : q[i].key \in Int /\ q[i].key < k
  <2> TAKE i \in 1..Len(q)
  <2>1. q[i] \in Route
    BY <1>2
  <2> QED
    BY <2>1 DEF Stack, Route
<1>5. k \in Int /\ Len(q) \in Int
  BY <1>2, NavigationAssumption
<1> HIDE DEF r
<1>6. /\ r[1].name = "Home"
      /\ \A i \in 2..Len(r) : r[i].name = "Details"
  <2>1. 1 \in 1..Len(q)
    BY <1>2
  <2>2. \A i \in 2..Len(r) : i \in 2..Len(q) \/ i = Len(q) + 1
    BY <1>3, <1>5
  <2>3. \A i \in 2..Len(q) : i \in 1..Len(q)
    BY <1>5
  <2> QED
    BY <1>1, <1>3, <2>1, <2>2, <2>3 DEF Stack
<1>7. \A i, j \in 1..Len(r) : i < j => r[i].key < r[j].key
  <2>1. \A i \in 1..Len(r) : i \in 1..Len(q) \/ i = Len(q) + 1
    BY <1>3, <1>5
  <2> TAKE i, j \in 1..Len(r)
  <2> HAVE i < j
  <2>2. i \in 1..Len(q)
    BY <1>3, <1>5
  <2>3. CASE j \in 1..Len(q)
    BY <1>3, <2>2, <2>3 DEF Stack
  <2>4. CASE j = Len(q) + 1
    BY <1>1, <1>3, <1>4, <2>2, <2>4
  <2> QED
    BY <2>1, <2>3, <2>4
<1>8. \A i \in 1..Len(r) : r[i].key < k + 1
  BY <1>1, <1>3, <1>4, <1>5
<1> QED
  BY <1>2, <1>3, <1>6, <1>7, <1>8 DEF Stack, r, d

\* Cutting the stack above one of its screens keeps what lies below.
LEMMA CutStack ==
    ASSUME NEW k \in Nat, NEW q, Stack(q, k), NEW n \in 1..Len(q)
    PROVE  LET r == SubSeq(q, 1, n) IN
           /\ Stack(r, k) /\ Len(r) = n
           /\ \A i \in 1..n : r[i] = q[i]
<1> DEFINE r == SubSeq(q, 1, n)
<1>1. q \in Seq(Route) /\ Len(q) \in Nat \ {0} /\ n \in Nat \ {0} /\ n <= Len(q)
  BY DEF Stack
<1>2. /\ r \in Seq(Route) /\ Len(r) = n
      /\ \A i \in 1..n : r[i] = q[i]
  BY <1>1
<1>3. \A i \in 1..n : i \in 1..Len(q)
  BY <1>1
<1>4. \A i \in 2..n : i \in 2..Len(q) /\ i \in 1..n
  BY <1>1
<1>5. 1 \in 1..n
  BY <1>1
<1> HIDE DEF r
<1> QED
  BY <1>1, <1>2, <1>3, <1>4, <1>5 DEF Stack, r

\* The first route named Home is the first of the stack, and a Details lies
\* above it.
LEMMA HomeIsFirst ==
    ASSUME NEW k, NEW q, Stack(q, k), NEW i \in 1..Len(q)
    PROVE  /\ q[i].name = "Home" => i = 1
           /\ q[i].name # "Home" => q[i].name = "Details" /\ i \in 2..Len(q)
<1>1. i = 1 \/ i \in 2..Len(q)
  BY DEF Stack
<1> QED
  BY <1>1 DEF Stack

-----------------------------------------------------------------------------
(* Steps. *)

\* What every router action called from a screen does: it pushes a DetailPage
\* or cuts the stack.
Pushed ==
    /\ nextKey \in 0..MaxKey
    /\ routes' = Append(routes, NewRoute("Details", nextKey))
    /\ nextKey' = nextKey + 1

CutAt(n) == routes' = SubSeq(routes, 1, n) /\ nextKey' = nextKey

\* A button of HomeScreen or DetailPage pushes or cuts; which of them does what.
LEMMA ButtonSteps ==
    ASSUME IInv, Button
    PROVE  /\ running /\ running' /\ front' = front
           /\ \/ Pushed
              \/ \E n \in 1..Len(routes) : CutAt(n)
           /\ front.name = "Home" =>
                \/ Pushed /\ Len(routes) = 1
                \/ CutAt(Len(routes)) /\ Len(routes) \in {1, 2}
<1>1. running /\ running' /\ front' = front
  BY DEF Button, GoToDetails, GoToDetailsAgain, GoToHome, GoBack, Tap, IInv, TypeOK
<1>2. Stack(routes, nextKey) /\ nextKey \in 0..MaxKey + 1 /\ MaxKey \in Nat
  BY <1>1, NavigationAssumption DEF IInv, StackOK, TypeOK
<1>3. Len(routes) \in Nat \ {0} /\ Len(routes) \in 1..Len(routes) /\ 1 \in 1..Len(routes)
  BY <1>2 DEF Stack
<1>4. ASSUME Push("Details") PROVE Pushed
  BY <1>2, <1>4 DEF Push, Pushed
<1>5. CASE GoToDetails
  <2>1. front.name = "Home" /\ Navigate("Details") /\ Len(routes) <= 2
    BY <1>1, <1>5 DEF GoToDetails, Tap, IInv, OneDetailsFromHome
  <2>2. CASE \A i \in 1..Len(routes) : routes[i].name # "Details"
    <3>1. Pushed
      BY <2>1, <2>2, <1>4 DEF Navigate
    <3>2. Len(routes) = 1
      <4>1. ASSUME Len(routes) = 2 PROVE FALSE
        <5>1. 2 \in 1..Len(routes) /\ routes[2].name # "Home"
          BY <2>2, <4>1, <1>2 DEF Stack
        <5> QED
          BY <5>1, <2>2, <1>2, HomeIsFirst
      <4>2. Len(routes) = 1 \/ Len(routes) = 2
        BY <2>1, <1>3, OneOrTwo
      <4> QED
        BY <4>1, <4>2
    <3> QED
      BY <3>1, <3>2, <1>1, <2>1
  <2>3. CASE \E i \in 1..Len(routes) : routes[i].name = "Details"
    <3>1. PICK i \in 1..Len(routes) :
            routes[i].name = "Details" /\ routes' = SubSeq(routes, 1, i) /\ nextKey' = nextKey
      BY <2>1, <2>3 DEF Navigate
    <3>2. i \in 2..Len(routes)
      BY <3>1, <1>2, HomeIsFirst
    <3>3. i = 2 /\ Len(routes) = 2
      <4>1. Len(routes) = 1 \/ Len(routes) = 2
        BY <2>1, <1>3, OneOrTwo
      <4>2. ASSUME Len(routes) = 1 PROVE FALSE
        BY <4>2, <3>2
      <4>3. ASSUME Len(routes) = 2 PROVE i = 2
        BY <4>3, <3>2
      <4> QED
        BY <4>1, <4>2, <4>3
    <3> QED
      BY <3>1, <3>3, <1>1, <1>3 DEF CutAt
  <2> QED
    BY <2>2, <2>3
<1>6. CASE GoToDetailsAgain
  BY <1>1, <1>4, <1>6 DEF GoToDetailsAgain, Tap
<1>7. CASE GoToHome
  <2>1. front.name = "Details" /\ Navigate("Home")
    BY <1>7 DEF GoToHome, Tap
  <2>2. routes[1].name = "Home"
    BY <1>2 DEF Stack
  <2>3. PICK i \in 1..Len(routes) :
          routes[i].name = "Home" /\ routes' = SubSeq(routes, 1, i) /\ nextKey' = nextKey
    BY <2>1, <2>2, <1>3 DEF Navigate
  <2>4. i = 1
    BY <2>3, <1>2, HomeIsFirst
  <2> QED
    BY <2>1, <2>3, <2>4, <1>1, <1>3 DEF CutAt
<1>8. CASE GoBack
  <2>1. front.name = "Details" /\ Back(front.key)
    BY <1>8 DEF GoBack, Tap
  <2>2. PICK i \in 2..Len(routes) :
          routes[i].key = front.key /\ routes' = SubSeq(routes, 1, i - 1) /\ nextKey' = nextKey
    BY <2>1 DEF Back
  <2>3. i - 1 \in 1..Len(routes)
    BY <1>3
  <2> QED
    BY <2>1, <2>2, <2>3, <1>1 DEF CutAt
<1> QED
  BY <1>5, <1>6, <1>7, <1>8 DEF Button

\* Of the buttons that do not go home, one cuts below the screen it is on, and
\* the others cut nothing off.
LEMMA OtherButtonSteps ==
    ASSUME IInv, GoToDetails \/ GoToDetailsAgain \/ GoBack
    PROVE  \/ Pushed
           \/ CutAt(Len(routes))
           \/ \E i \in 2..Len(routes) : routes[i].key = front.key /\ CutAt(i - 1)
<1>1. CASE GoToDetails
  <2>1. Button /\ front.name = "Home"
    BY <1>1 DEF Button, GoToDetails, Tap
  <2> QED
    BY <2>1, ButtonSteps
<1>2. CASE GoToDetailsAgain
  BY <1>2, NavigationAssumption DEF GoToDetailsAgain, Push, Pushed, IInv, TypeOK
<1>3. CASE GoBack
  BY <1>3 DEF GoBack, Back, CutAt
<1> QED
  BY <1>1, <1>2, <1>3

-----------------------------------------------------------------------------
(* The invariant. *)

\* The app starts with a HomeScreen alone.
LEMMA InitIInv == Init => IInv
<1> SUFFICES ASSUME Init PROVE IInv
  OBVIOUS
<1> DEFINE h == NewRoute("Home", 0)
<1>1. h \in Route /\ h.name = "Home" /\ h.key = 0
  BY NewRouteType, NavigationAssumption
<1>2. running = TRUE /\ routes = <<h>> /\ front = h /\ nextKey = 1
  BY DEF Init
<1> HIDE DEF h
<1>3. routes \in Seq(Route) /\ Len(routes) = 1 /\ routes[1] = h
  BY <1>1, <1>2
<1>4. TypeOK
  BY <1>1, <1>2, <1>3, NavigationAssumption DEF TypeOK
<1>5. Stack(routes, nextKey)
  BY <1>1, <1>2, <1>3 DEF Stack
<1> QED
  BY <1>2, <1>3, <1>4, <1>5 DEF IInv, StackOK, StoppedOK, OneDetailsFromHome

\* Every step keeps the invariant.
LEMMA StepIInv == IInv /\ [Next]_vars => IInv'
<1> SUFFICES ASSUME IInv, [Next]_vars PROVE IInv'
  OBVIOUS
<1>0. /\ running \in BOOLEAN /\ routes \in Seq(Route) /\ front \in Route
      /\ nextKey \in 0..MaxKey + 1 /\ MaxKey \in Nat
      /\ nextKey \in Nat /\ Len(routes) \in Nat
  BY NavigationAssumption DEF IInv, TypeOK
<1>1. CASE Button
  <2>1. running /\ running' /\ front' = front /\ Stack(routes, nextKey)
    BY <1>1, ButtonSteps DEF IInv, StackOK
  <2>2. Stack(routes', nextKey') /\ nextKey' \in 0..MaxKey + 1
    <3>1. CASE Pushed
      BY <3>1, <2>1, <1>0, PushStack DEF Pushed
    <3>2. ASSUME NEW n \in 1..Len(routes), CutAt(n)
          PROVE  Stack(routes', nextKey') /\ nextKey' \in 0..MaxKey + 1
      BY <3>2, <2>1, <1>0, CutStack DEF CutAt
    <3> QED
      BY <3>1, <3>2, <1>1, ButtonSteps
  <2>3. ASSUME front.name = "Home" PROVE Len(routes') <= 2
    <3>1. CASE Pushed /\ Len(routes) = 1
      <4>1. Len(routes') = Len(routes) + 1
        BY <3>1, <2>1, PushStack DEF Pushed
      <4> QED
        BY <4>1, <3>1
    <3>2. CASE CutAt(Len(routes)) /\ Len(routes) \in {1, 2}
      BY <3>2, <1>0 DEF CutAt
    <3> QED
      BY <3>1, <3>2, <2>3, <1>1, ButtonSteps
  <2> QED
    BY <2>1, <2>2, <2>3, <1>0
       DEF IInv, TypeOK, StackOK, StoppedOK, OneDetailsFromHome, Stack
<1>2. CASE PressBack
  <2>1. /\ running /\ running' = (Len(routes) > 1) /\ front' = front
        /\ routes' = SubSeq(routes, 1, Len(routes) - 1) /\ nextKey' = nextKey
        /\ Stack(routes, nextKey)
    BY <1>2 DEF PressBack, IInv, StackOK
  <2>2. Len(routes) \in Nat \ {0}
    BY <2>1 DEF Stack
  <2>3. CASE Len(routes) > 1
    <3>1. Len(routes) - 1 \in 1..Len(routes)
      BY <2>2, <2>3
    <3>2. Stack(routes', nextKey') /\ Len(routes') = Len(routes) - 1
      BY <3>1, <2>1, <1>0, CutStack
    <3>3. front.name = "Home" => Len(routes') <= 2
      <4>1. ASSUME front.name = "Home" PROVE Len(routes) <= 2
        BY <4>1, <2>1 DEF IInv, OneDetailsFromHome
      <4> QED
        BY <4>1, <3>2, <2>2
    <3>4. running' \in BOOLEAN /\ running'
      BY <2>1, <2>3
    <3> QED
      BY <3>2, <3>3, <3>4, <2>1, <2>2, <2>3, <1>0
         DEF IInv, TypeOK, StackOK, StoppedOK, OneDetailsFromHome, Stack
  <2>4. CASE Len(routes) = 1
    <3>1. SubSeq(routes, 1, 0) = << >>
      BY <1>0
    <3>2. (Len(routes) > 1) = FALSE /\ Len(routes) - 1 = 0
      BY <2>4
    <3>3. routes' = << >> /\ running' = FALSE
      BY <3>1, <3>2, <2>1
    <3> QED
      BY <3>3, <2>1, <1>0 DEF IInv, TypeOK, StackOK, StoppedOK, OneDetailsFromHome
  <2>5. Len(routes) > 1 \/ Len(routes) = 1
    BY <2>2, Positive
  <2> QED
    BY <2>3, <2>4, <2>5
<1>3. CASE Relaunch
  <2> DEFINE h == NewRoute("Home", nextKey)
  <2>1. /\ nextKey \in 0..MaxKey /\ running' = TRUE /\ routes' = <<h>> /\ front' = h
        /\ nextKey' = nextKey + 1
    BY <1>3, <1>0 DEF Relaunch
  <2>2. h \in Route /\ h.name = "Home" /\ h.key = nextKey
    BY <2>1, NewRouteType
  <2> HIDE DEF h
  <2>3. routes' \in Seq(Route) /\ Len(routes') = 1 /\ routes'[1] = h
    BY <2>1, <2>2
  <2>4. Stack(routes', nextKey')
    BY <2>1, <2>2, <2>3, <1>0 DEF Stack
  <2> QED
    BY <2>1, <2>2, <2>3, <2>4, <1>0
       DEF IInv, TypeOK, StackOK, StoppedOK, OneDetailsFromHome
<1>4. CASE Render
  <2>1. /\ running /\ running' = running /\ routes' = routes /\ nextKey' = nextKey
        /\ front' = routes[Len(routes)] /\ Stack(routes, nextKey)
    BY <1>4 DEF Render, IInv, StackOK
  <2>2. Len(routes) \in 1..Len(routes)
    BY <2>1 DEF Stack
  <2>3. front' \in Route
    BY <2>1, <2>2, <1>0
  <2>4. front'.name = "Home" => Len(routes') <= 2
    BY <2>1, <2>2, HomeIsFirst
  <2> QED
    BY <2>1, <2>3, <2>4, <1>0
       DEF IInv, TypeOK, StackOK, StoppedOK, OneDetailsFromHome
<1>5. CASE UNCHANGED vars
  BY <1>5 DEF vars, IInv, TypeOK, StackOK, StoppedOK, OneDetailsFromHome
<1> QED
  BY <1>1, <1>2, <1>3, <1>4, <1>5 DEF Next

\* The invariant holds throughout.
THEOREM Invariance == Spec => []IInv
<1>1. Init => IInv
  BY InitIInv
<1>2. IInv /\ [Next]_vars => IInv'
  BY StepIInv
<1> QED
  BY <1>1, <1>2, PTL DEF Spec

-----------------------------------------------------------------------------
(* What a reader should know. *)

\* The variables keep their types: the stack only ever holds the two screens
\* that App.js names.
THEOREM TypeCorrect == Spec => []TypeOK
<1>1. IInv => TypeOK
  BY DEF IInv
<1> QED
  BY Invariance, <1>1, PTL

\* HomeScreen lies below everything else as long as the root view lives.
THEOREM HomeIsAtBottom == Spec => []HomeAtBottom
<1>1. IInv => HomeAtBottom
  <2> SUFFICES ASSUME IInv, running PROVE HomeAtBottom
    BY DEF HomeAtBottom
  <2>1. Stack(routes, nextKey)
    BY DEF IInv, StackOK
  <2>2. routes # << >>
    BY <2>1 DEF Stack
  <2> QED
    BY <2>1, <2>2 DEF Stack, HomeAtBottom
<1> QED
  BY Invariance, <1>1, PTL

\* "Go to Details" opens one DetailPage, however fast it is tapped.
THEOREM OneDetails == Spec => []OneDetailsFromHome
<1>1. IInv => OneDetailsFromHome
  BY DEF IInv
<1> QED
  BY Invariance, <1>1, PTL

\* No step of a running app takes the first screen away.
LEMMA HomeStep ==
    ASSUME IInv, Next, running, running'
    PROVE  routes'[1] = routes[1]
<1>0. /\ Stack(routes, nextKey) /\ nextKey \in Nat
      /\ Len(routes) \in Nat \ {0} /\ 1 \in 1..Len(routes)
  BY NavigationAssumption DEF IInv, TypeOK, StackOK, Stack
<1>1. ASSUME NEW n \in 1..Len(routes), CutAt(n) PROVE routes'[1] = routes[1]
  <2>1. 1 \in 1..n
    BY <1>1, <1>0
  <2> QED
    BY <2>1, <1>1, <1>0, CutStack DEF CutAt
<1>2. CASE Button
  <2>1. CASE Pushed
    BY <2>1, <1>0, PushStack DEF Pushed
  <2> QED
    BY <2>1, <1>1, <1>2, ButtonSteps
<1>3. CASE PressBack
  <2>1. running' = (Len(routes) > 1) /\ CutAt(Len(routes) - 1)
    BY <1>3 DEF PressBack, CutAt
  <2>2. Len(routes) - 1 \in 1..Len(routes)
    <3>1. ASSUME Len(routes) = 1 PROVE FALSE
      <4>1. (Len(routes) > 1) = FALSE
        BY <3>1
      <4> QED
        BY <4>1, <2>1
    <3> QED
      BY <3>1, <1>0, Positive
  <2> QED
    BY <2>1, <2>2, <1>1
<1>4. CASE Relaunch
  BY <1>4 DEF Relaunch
<1>5. CASE Render
  BY <1>5 DEF Render
<1> QED
  BY <1>2, <1>3, <1>4, <1>5 DEF Next

\* The HomeScreen that the app shows at its start is there until it is left.
THEOREM HomeRemains == Spec => HomeStays
<1>1. IInv /\ [Next]_vars => [running /\ running' => routes'[1] = routes[1]]_vars
  BY HomeStep
<1> QED
  BY Invariance, <1>1, PTL DEF Spec, HomeStays

\* The step that OlderScreensStay demands.
OlderStay ==
    GoToDetails \/ GoToDetailsAgain \/ GoBack =>
        \A i \in 1..Len(routes) :
            routes[i].key < front.key =>
                \E j \in 1..Len(routes') : routes'[j] = routes[i]

\* No tap but "Go to Home" removes a screen older than the one that the user
\* sees: "Go back" tapped twice goes back once, whatever the hardware button
\* did meanwhile.
THEOREM OlderScreensRemain == Spec => OlderScreensStay
<1>1. IInv /\ [Next]_vars => [OlderStay]_vars
  <2> SUFFICES ASSUME IInv, GoToDetails \/ GoToDetailsAgain \/ GoBack,
                      NEW i \in 1..Len(routes), routes[i].key < front.key
               PROVE  \E j \in 1..Len(routes') : routes'[j] = routes[i]
    BY DEF OlderStay
  <2>0. routes \in Seq(Route) /\ nextKey \in Nat /\ Len(routes) \in Nat /\ front \in Route
    BY NavigationAssumption DEF IInv, TypeOK
  <2>1. running
    <3>1. routes # << >>
      BY <2>0
    <3> QED
      BY <3>1 DEF IInv, StoppedOK
  <2>2. Stack(routes, nextKey)
    BY <2>1 DEF IInv, StackOK
  <2>3. ASSUME NEW n \in 1..Len(routes), CutAt(n), i <= n
        PROVE  \E j \in 1..Len(routes') : routes'[j] = routes[i]
    <3>1. i \in 1..n
      BY <2>3
    <3> QED
      BY <3>1, <2>0, <2>2, <2>3, CutStack DEF CutAt
  <2>4. CASE Pushed
    <3>1. Len(routes') = Len(routes) + 1 /\ routes'[i] = routes[i]
      BY <2>4, <2>2, PushStack DEF Pushed
    <3>2. i \in 1..Len(routes')
      BY <3>1, <2>0
    <3> QED
      BY <3>1, <3>2
  <2>5. CASE CutAt(Len(routes))
    <3>1. Len(routes) \in 1..Len(routes) /\ i <= Len(routes)
      BY <2>0
    <3> QED
      BY <3>1, <2>5, <2>3
  <2>6. ASSUME NEW k \in 2..Len(routes), routes[k].key = front.key, CutAt(k - 1)
        PROVE  \E j \in 1..Len(routes') : routes'[j] = routes[i]
    <3>1. k \in 1..Len(routes) /\ k - 1 \in 1..Len(routes)
      BY <2>0
    <3>2. routes[i].key \in Int /\ routes[k].key \in Int
      <4>1. routes[i] \in Route /\ routes[k] \in Route
        BY <3>1, <2>0
      <4> QED
        BY <4>1 DEF Route
    <3>3. ~(k < i) /\ k # i
      BY <3>1, <3>2, <2>6, <2>2 DEF Stack
    <3>4. i <= k - 1
      BY <3>1, <3>3
    <3> QED
      BY <3>1, <3>4, <2>6, <2>3
  <2> QED
    BY <2>4, <2>5, <2>6, OtherButtonSteps
<1> QED
  BY Invariance, <1>1, PTL DEF Spec, OlderScreensStay, OlderStay

=============================================================================
