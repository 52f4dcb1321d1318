--------------------------- MODULE XpjxTapsProofs ---------------------------
(***************************************************************************)
(* What becomes of a tap on the iOS bridge, for any set of messages and    *)
(* any number of mountings and reloads: it is answered once at most (the   *)
(* refinement of OneShotCalls), and, where HomeScreen stays mounted, it is *)
(* never lost on its way (TapsKept).  Both rest on the invariant of        *)
(* XpjxModuleProofs, by which a message is in one place at a time.         *)
(***************************************************************************)
EXTENDS XpjxModuleProofs

\* UnderWay in terms of the elements of the queues.
LEMMA UnderWayElements ==
    ASSUME NEW m
    PROVE  UnderWay(m) <=>
             \/ [op |-> "handleMessage", msg |-> m] \in Elements(methodQ)
             \/ m \in Elements(mainQ) \cup Elements(posting) \cup Elements(jsQ)
  BY DEF UnderWay, InQueue, Elements

\* The same of the next state.
LEMMA UnderWayNext ==
    ASSUME NEW m,
           \/ [op |-> "handleMessage", msg |-> m] \in Elements(methodQ')
           \/ m \in Elements(mainQ') \cup Elements(posting') \cup Elements(jsQ')
    PROVE  UnderWay(m)'
  BY DEF UnderWay, InQueue, Elements

-----------------------------------------------------------------------------
(* No tap is answered twice, or before it was made. *)

\* The only step that shows an alert takes it from the event queue, and the
\* message of that event was sent and not alerted yet.
LEMMA AlertAnswers ==
    ASSUME Inv, ReceiveEvent
    PROVE  [Taps!Next]_Taps!vars
<1> DEFINE h == Head(jsQ)
<1>1. /\ jsQ # << >> /\ UNCHANGED unsent
      /\ alerts' = alerts \/ alerts' = [alerts EXCEPT ![h] = alerts[h] + 1]
  BY DEF ReceiveEvent
<1>2. h \in Messages /\ h \in Elements(jsQ)
  BY <1>1, TailElements DEF Inv, TypeOK
<1>3. OnePlace(h)
  BY <1>2 DEF Inv, OneToken
<1>4. h \in LoginMessages \ unsent /\ alerts[h] = 0
  BY <1>2, <1>3 DEF OnePlace, Alerted, Inv, TypeOK, LoginsOnly
<1> HIDE DEF h
<1>5. CASE alerts' = alerts
  BY <1>1, <1>5 DEF Taps!vars
<1>6. CASE alerts' = [alerts EXCEPT ![h] = alerts[h] + 1]
  <2>1. alerts' = [alerts EXCEPT ![h] = 1]
    BY <1>4, <1>6
  <2>2. Taps!Answer(h, 1)
    BY <1>1, <1>4, <2>1 DEF Taps!Answer
  <2> QED
    BY <1>2, <2>2 DEF Taps!Next
<1> QED
  BY <1>1, <1>5, <1>6

LEMMA TapAsks ==
    ASSUME Inv, NEW m \in Messages, ToggleModal(m)
    PROVE  [Taps!Next]_Taps!vars
<1>1. m \in unsent /\ unsent' = unsent \ {m} /\ UNCHANGED alerts
  BY DEF ToggleModal
<1>2. CASE m \in LoginMessages
  <2>1. Taps!Ask(m)
    BY <1>1, <1>2 DEF Taps!Ask
  <2> QED
    BY <2>1 DEF Taps!Next
<1>3. CASE m \notin LoginMessages
  BY <1>1, <1>3 DEF Taps!vars
<1> QED
  BY <1>2, <1>3

\* Every step of the bridge is a tap, an alert or invisible
\* (HomeScreen.js:56-97, XpjxModule.m:26-47).
THEOREM RefinesOneShotCalls == Spec => ImplementsOneShotCalls
<1>1. Init => Taps!Init
  BY XpjxAssumption DEF Init, Taps!Init
<1>2. Inv /\ [Next]_vars => [Taps!Next]_Taps!vars
  <2> SUFFICES ASSUME Inv, [Next]_vars PROVE [Taps!Next]_Taps!vars
    OBVIOUS
  <2>1. ASSUME NEW m \in Messages, ToggleModal(m) PROVE [Taps!Next]_Taps!vars
    BY <2>1, TapAsks
  <2>2. CASE UNCHANGED <<unsent, alerts>>
    BY <2>2 DEF Taps!vars
  <2> QED
    BY <2>1, <2>2, AlertAnswers
       DEF Next, Environment, Mount, Unmount, Reload, ModuleStep, AddListener,
           RemoveListeners, HandleMessage, MainStep, RunBlock, GetSessionId, jsVars, vars
<1> QED
  BY <1>1, <1>2, Invariance, PTL DEF Spec, ImplementsOneShotCalls, Taps!Spec

-----------------------------------------------------------------------------
(* No tap is lost, where HomeScreen stays mounted.                           *)
(*                                                                           *)
(* A tap could be lost at three points: its notification finds no observer,  *)
(* its event no counted listener, or HomeScreen no listener of its own.      *)
(* NeverStopped excludes the first, and Served the other two.                *)

Served ==
    /\ unsettled # {} => mounted
    /\ mainQ # << >> \/ posting # << >> => listenerCount > 0

LEMMA NobodyUnsubscribes ==
    ASSUME TypeOK, NeverStopped
    PROVE  ~RemoveListeners
<1> SUFFICES ASSUME RemoveListeners PROVE FALSE
  OBVIOUS
<1>1. methodQ # << >> /\ Head(methodQ).op = "removeListeners"
  BY DEF RemoveListeners, NextCall
<1>2. 1 \in 1..Len(methodQ) /\ Head(methodQ) = methodQ[1]
  BY <1>1 DEF TypeOK
<1> QED
  BY <1>1, <1>2 DEF NeverStopped

\* The listener count only grows, and is positive before a message is handled.
LEMMA ServedStep ==
    ASSUME ~ScreenMayUnmount, TypeOK, NeverStopped, ListenerBeforeMessage, Served, [Next]_vars
    PROVE  Served'
<1>1. ~RemoveListeners
  BY NobodyUnsubscribes
<1>2. CASE AddListener
  <2>1. listenerCount' > 0 /\ UNCHANGED <<unsettled, mounted>>
    BY <1>2 DEF AddListener, TypeOK, jsVars
  <2> QED
    BY <2>1 DEF Served
<1>3. CASE HandleMessage
  <2>1. listenerCount > 0 /\ UNCHANGED <<unsettled, mounted, listenerCount>>
    BY <1>3 DEF HandleMessage, NextCall, ListenerBeforeMessage, jsVars
  <2> QED
    BY <2>1 DEF Served
<1>4. CASE Mount \/ Reload \/ ReceiveEvent \/ \E m \in Messages : ToggleModal(m)
  BY <1>4 DEF Mount, Reload, ReceiveEvent, ToggleModal, Served
<1>5. CASE MainStep
  <2>1. mainQ # << >> \/ posting # << >>
    BY <1>5 DEF MainStep, RunBlock, GetSessionId
  <2>2. UNCHANGED <<unsettled, mounted, listenerCount>>
    BY <1>5 DEF MainStep, RunBlock, GetSessionId, jsVars
  <2> QED
    BY <2>1, <2>2 DEF Served
<1>6. CASE UNCHANGED vars
  BY <1>6 DEF vars, jsVars, Served
<1> QED
  BY <1>1, <1>2, <1>3, <1>4, <1>5, <1>6 DEF Next, Environment, Unmount, ModuleStep

\* A step that takes nothing out of the queues loses nothing.
LEMMA KeptWhileQueued ==
    ASSUME TapsKept, UNCHANGED alerts, unsettled' \subseteq unsettled,
           Elements(methodQ) \subseteq Elements(methodQ'),
           UNCHANGED <<mainQ, posting, jsQ>>
    PROVE  TapsKept'
<1> SUFFICES ASSUME NEW m \in LoginMessages \cap unsettled', alerts'[m] # 1
             PROVE  UnderWay(m)'
  BY DEF TapsKept
<1>1. UnderWay(m)
  BY DEF TapsKept
<1> QED
  BY <1>1, UnderWayElements, UnderWayNext

LEMMA CallKeeps ==
    ASSUME TypeOK, TapsKept, Mount \/ \E m \in Messages : ToggleModal(m)
    PROVE  TapsKept'
<1>1. CASE Mount
  <2>1. [op |-> "addListener", msg |-> NoMessage] \in Call
    BY DEF Call
  <2>2. Elements(methodQ) \subseteq Elements(methodQ')
    BY <1>1, <2>1, AppendElements DEF Mount, Calls, TypeOK
  <2> QED
    BY <1>1, <2>2, KeptWhileQueued DEF Mount
<1>2. ASSUME NEW m \in Messages, ToggleModal(m) PROVE TapsKept'
  <2> DEFINE c == [op |-> "handleMessage", msg |-> m]
  <2>1. c \in Call
    BY DEF Call
  <2>2. Elements(methodQ') = Elements(methodQ) \cup {c}
    BY <1>2, <2>1, AppendElements DEF ToggleModal, Calls, TypeOK
  <2>3. unsettled' = unsettled \cup {m} /\ UNCHANGED <<alerts, mainQ, posting, jsQ>>
    BY <1>2 DEF ToggleModal
  <2>4. UnderWay(m)'
    BY <2>2, UnderWayNext
  <2>5. ASSUME NEW n \in LoginMessages \cap unsettled, alerts'[n] # 1
        PROVE  UnderWay(n)'
    <3>1. UnderWay(n)
      BY <2>3, <2>5 DEF TapsKept
    <3> QED
      BY <2>2, <2>3, <3>1, UnderWayElements, UnderWayNext
  <2> QED
    BY <2>3, <2>4, <2>5 DEF TapsKept
<1> QED
  BY <1>1, <1>2

\* The method queue hands a message on to the main queue.
LEMMA ModuleKeeps ==
    ASSUME TypeOK, TapsKept, AddListener \/ HandleMessage
    PROVE  TapsKept'
<1> DEFINE h == Head(methodQ)
<1>1. /\ methodQ # << >> /\ methodQ' = Tail(methodQ)
      /\ UNCHANGED <<alerts, unsettled, posting, jsQ>>
  BY DEF AddListener, HandleMessage, NextCall, jsVars
<1>2. h \in Call /\ Elements(methodQ) \subseteq Elements(methodQ') \cup {h}
  BY <1>1, TailElements DEF TypeOK
<1>3. CASE AddListener
  <2>1. h.op = "addListener" /\ UNCHANGED mainQ
    BY <1>3 DEF AddListener, NextCall
  <2> SUFFICES ASSUME NEW m \in LoginMessages \cap unsettled, alerts'[m] # 1
               PROVE  UnderWay(m)'
    BY <1>1 DEF TapsKept
  <2>2. UnderWay(m)
    BY <1>1 DEF TapsKept
  <2>3. [op |-> "handleMessage", msg |-> m] # h
    BY <2>1
  <2> QED
    BY <1>1, <1>2, <2>1, <2>2, <2>3, UnderWayElements, UnderWayNext
<1>4. CASE HandleMessage
  <2>1. h.op = "handleMessage" /\ mainQ' = Append(mainQ, h.msg)
    BY <1>4 DEF HandleMessage, NextCall
  <2>2. h.msg \in Messages
    BY <1>2, <2>1 DEF Call
  <2>3. Elements(mainQ') = Elements(mainQ) \cup {h.msg}
    BY <2>1, <2>2, AppendElements DEF TypeOK
  <2> SUFFICES ASSUME NEW m \in LoginMessages \cap unsettled, alerts'[m] # 1
               PROVE  UnderWay(m)'
    BY <1>1 DEF TapsKept
  <2>4. UnderWay(m)
    BY <1>1 DEF TapsKept
  <2>5. [op |-> "handleMessage", msg |-> m] = h => m = h.msg
    OBVIOUS
  <2> HIDE DEF h
  <2> QED
    BY <1>1, <1>2, <2>3, <2>4, <2>5, UnderWayElements, UnderWayNext
<1> QED
  BY <1>3, <1>4

\* The block posts a notification, and the module observes it.
LEMMA RunBlockKeeps ==
    ASSUME TypeOK, NeverStopped, TapsKept, RunBlock
    PROVE  TapsKept'
<1> DEFINE h == Head(mainQ)
<1>1. /\ mainQ # << >> /\ posting = << >> /\ mainQ' = Tail(mainQ)
      /\ UNCHANGED <<alerts, unsettled, methodQ, jsQ>>
  BY DEF RunBlock, jsVars
<1>2. h \in Messages /\ Elements(mainQ) \subseteq Elements(mainQ') \cup {h}
  BY <1>1, TailElements DEF TypeOK
<1>3. Elements(posting) = {}
  BY <1>1 DEF Elements
<1>4. h \in LoginMessages => h \in Elements(posting')
  <2>1. observers["getSessionIdNotification"] = 1
    BY ObserverTypes DEF NeverStopped, Notifications
  <2>2. h \in LoginMessages => posting' = [i \in 1..1 |-> h]
    BY <2>1 DEF RunBlock
  <2>3. h \in LoginMessages => Len(posting') = 1 /\ posting'[1] = h
    BY <2>2
  <2> QED
    BY <2>3 DEF Elements
<1> SUFFICES ASSUME NEW m \in LoginMessages \cap unsettled, alerts'[m] # 1
             PROVE  UnderWay(m)'
  BY <1>1 DEF TapsKept
<1>5. UnderWay(m)
  BY <1>1 DEF TapsKept
<1> HIDE DEF h
<1> QED
  BY <1>1, <1>2, <1>3, <1>4, <1>5, UnderWayElements, UnderWayNext

\* RCTEventEmitter counts a listener and passes the event on.
LEMMA GetSessionIdKeeps ==
    ASSUME TypeOK, Served, TapsKept, GetSessionId
    PROVE  TapsKept'
<1> DEFINE h == Head(posting)
<1>1. /\ posting # << >> /\ posting' = Tail(posting) /\ jsQ' = Append(jsQ, h)
      /\ UNCHANGED <<alerts, unsettled, methodQ, mainQ>>
  BY DEF GetSessionId, Served, jsVars
<1>2. h \in Messages /\ Elements(posting) \subseteq Elements(posting') \cup {h}
  BY <1>1, TailElements DEF TypeOK
<1>3. Elements(jsQ') = Elements(jsQ) \cup {h}
  BY <1>1, <1>2, AppendElements DEF TypeOK
<1> SUFFICES ASSUME NEW m \in LoginMessages \cap unsettled, alerts'[m] # 1
             PROVE  UnderWay(m)'
  BY <1>1 DEF TapsKept
<1>4. UnderWay(m)
  BY <1>1 DEF TapsKept
<1> HIDE DEF h
<1> QED
  BY <1>1, <1>2, <1>3, <1>4, UnderWayElements, UnderWayNext

\* HomeScreen, mounted as long as a message of its own is unsettled, alerts.
LEMMA ReceiveEventKeeps ==
    ASSUME Inv, Served, TapsKept, ReceiveEvent
    PROVE  TapsKept'
<1> DEFINE h == Head(jsQ)
<1>1. /\ jsQ # << >> /\ jsQ' = Tail(jsQ)
      /\ alerts' = IF mounted THEN [alerts EXCEPT ![h] = @ + 1] ELSE alerts
      /\ UNCHANGED <<unsettled, methodQ, mainQ, posting>>
  BY DEF ReceiveEvent
<1>2. /\ h \in Messages /\ h \in Elements(jsQ)
      /\ Elements(jsQ) \subseteq Elements(jsQ') \cup {h}
  BY <1>1, TailElements DEF Inv, TypeOK
<1>3. alerts[h] = 0 /\ alerts \in [Messages -> Nat]
  <2>1. OnePlace(h)
    BY <1>2 DEF Inv, OneToken
  <2> QED
    BY <1>2, <2>1 DEF OnePlace, Alerted, Inv, TypeOK
<1> SUFFICES ASSUME NEW m \in LoginMessages \cap unsettled, alerts'[m] # 1
             PROVE  UnderWay(m)'
  BY <1>1 DEF TapsKept
<1> HIDE DEF h
<1>4. alerts' = [alerts EXCEPT ![h] = 1]
  <2>1. mounted
    BY DEF Served
  <2> QED
    BY <1>1, <1>3, <2>1
<1>5. m # h /\ alerts[m] # 1
  BY <1>2, <1>3, <1>4, XpjxAssumption
<1>6. UnderWay(m)
  BY <1>5 DEF TapsKept
<1> QED
  BY <1>1, <1>2, <1>5, <1>6, UnderWayElements, UnderWayNext

LEMMA KeptStep ==
    ASSUME ~ScreenMayUnmount, Inv, NeverStopped, Served, TapsKept, [Next]_vars
    PROVE  TapsKept'
<1>0. TypeOK
  BY DEF Inv
<1>1. ~RemoveListeners
  BY <1>0, NobodyUnsubscribes
<1>2. CASE Reload
  BY <1>2 DEF Reload, TapsKept
<1>3. CASE UNCHANGED vars
  BY <1>3, KeptWhileQueued DEF vars, jsVars
<1> QED
  BY <1>0, <1>1, <1>2, <1>3, CallKeeps, ModuleKeeps, RunBlockKeeps, GetSessionIdKeeps,
     ReceiveEventKeeps DEF Next, Environment, Unmount, ModuleStep, MainStep

\* Where HomeScreen stays mounted, no login message is lost as long as its JS
\* context lives, however the threads interleave (XpjxModule.m:26-47, 62-69
\* and 87-89).
THEOREM NoTapIsLost == ~ScreenMayUnmount /\ Spec => []TapsKept
<1> SUFFICES ASSUME ~ScreenMayUnmount PROVE Spec => []TapsKept
  OBVIOUS
<1>1. Init => NeverStopped /\ Served /\ TapsKept
  BY DEF Init, ReInit, NeverStopped, Served, TapsKept
<1>2. Inv /\ NeverStopped /\ [Next]_vars => NeverStopped'
  BY NeverStoppedStep DEF Inv
<1>3. Inv /\ NeverStopped /\ ListenerBeforeMessage /\ Served /\ [Next]_vars => Served'
  BY ServedStep DEF Inv
<1>4. Inv /\ NeverStopped /\ Served /\ TapsKept /\ [Next]_vars => TapsKept'
  BY KeptStep
<1> QED
  BY <1>1, <1>2, <1>3, <1>4, Invariance, ListenersComeFirst, PTL DEF Spec

=============================================================================
