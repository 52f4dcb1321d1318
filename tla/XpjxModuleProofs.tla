-------------------------- MODULE XpjxModuleProofs --------------------------
(***************************************************************************)
(* Proofs about XpjxModule, for any set of messages and any number of      *)
(* mountings and reloads.                                                  *)
(*                                                                         *)
(* AlertedAtMostOnce is not inductive: a message travels through four      *)
(* queues on its way to its alert.  OneToken says that it is in one place  *)
(* at a time (not sent, called, dispatched, posted, emitted or alerted)    *)
(* and there at most once.  It needs RegisteredOnce, because every         *)
(* registration of the module would multiply the notification.             *)
(***************************************************************************)
EXTENDS XpjxModule, FiniteSetTheorems, FunctionTheorems, TLAPS

\* The elements of a queue, and a queue without repetitions.
Elements(q) == {q[i] : i \in 1..Len(q)}
Distinct(q) == \A i, j \in 1..Len(q) : q[i] = q[j] => i = j

Handling(c) == c.op = "handleMessage"

\* The messages whose call waits on the method queue.
Called == {c.msg : c \in {d \in Elements(methodQ) : Handling(d)}}

CalledOnce ==
    \A i, j \in 1..Len(methodQ) :
        /\ Handling(methodQ[i]) /\ Handling(methodQ[j])
        /\ methodQ[i].msg = methodQ[j].msg
        => i = j

Alerted == {m \in Messages : alerts[m] > 0}

\* Message m is in at most one of the places on its way.
OnePlace(m) ==
    /\ m \in unsent =>
         m \notin Called \cup Elements(mainQ) \cup Elements(posting)
                  \cup Elements(jsQ) \cup Alerted
    /\ m \in Called =>
         m \notin Elements(mainQ) \cup Elements(posting) \cup Elements(jsQ) \cup Alerted
    /\ m \in Elements(mainQ) =>
         m \notin Elements(posting) \cup Elements(jsQ) \cup Alerted
    /\ m \in Elements(posting) => m \notin Elements(jsQ) \cup Alerted
    /\ m \in Elements(jsQ) => m \notin Alerted

\* No message is in two places, or twice in one.
OneToken ==
    /\ CalledOnce /\ Distinct(mainQ) /\ Distinct(posting) /\ Distinct(jsQ)
    /\ AlertedAtMostOnce
    /\ \A m \in Messages : OnePlace(m)

\* Only a message that asked for the login is ever answered by an alert.
OnlyLoginAlerts == \A m \in Messages : alerts[m] > 0 => m \in LoginMessages

\* Only login messages get past the test of the message's type.
LoginsOnly ==
    /\ Elements(posting) \subseteq LoginMessages
    /\ Elements(jsQ) \subseteq LoginMessages
    /\ OnlyLoginAlerts

Inv == TypeOK /\ RegisteredOnce /\ OneToken /\ LoginsOnly

-----------------------------------------------------------------------------
(* Queues. *)

\* Dequeuing takes the head out of the elements.
LEMMA TailElements ==
    ASSUME NEW S, NEW q \in Seq(S), q # << >>
    PROVE  /\ Head(q) \in S /\ Head(q) \in Elements(q)
           /\ Tail(q) \in Seq(S)
           /\ Elements(Tail(q)) \subseteq Elements(q)
           /\ Elements(q) \subseteq Elements(Tail(q)) \cup {Head(q)}
           /\ Distinct(q) => Distinct(Tail(q)) /\ Head(q) \notin Elements(Tail(q))
<1>1. /\ Len(q) \in Nat \ {0} /\ Len(Tail(q)) = Len(q) - 1
      /\ \A i \in 1..Len(Tail(q)) : Tail(q)[i] = q[i + 1]
      /\ Head(q) = q[1] /\ Tail(q) \in Seq(S)
  OBVIOUS
<1>2. Head(q) \in S /\ Head(q) \in Elements(q)
  BY <1>1 DEF Elements
<1>3. Elements(Tail(q)) \subseteq Elements(q)
  BY <1>1 DEF Elements
<1>4. Elements(q) \subseteq Elements(Tail(q)) \cup {Head(q)}
  <2> SUFFICES ASSUME NEW i \in 1..Len(q), i # 1
               PROVE  q[i] \in Elements(Tail(q))
    BY <1>1 DEF Elements
  <2>1. i - 1 \in 1..Len(Tail(q)) /\ Tail(q)[i - 1] = q[i]
    BY <1>1
  <2> QED
    BY <2>1 DEF Elements
<1>5. Distinct(q) => Distinct(Tail(q)) /\ Head(q) \notin Elements(Tail(q))
  BY <1>1 DEF Elements, Distinct
<1> QED
  BY <1>1, <1>2, <1>3, <1>4, <1>5

\* Enqueuing adds one element.
LEMMA AppendElements ==
    ASSUME NEW S, NEW q \in Seq(S), NEW x \in S
    PROVE  /\ Append(q, x) \in Seq(S)
           /\ Elements(Append(q, x)) = Elements(q) \cup {x}
           /\ Distinct(q) /\ x \notin Elements(q) => Distinct(Append(q, x))
<1>1. /\ Len(q) \in Nat /\ Len(Append(q, x)) = Len(q) + 1
      /\ \A i \in 1..Len(q) : Append(q, x)[i] = q[i]
      /\ Append(q, x)[Len(q) + 1] = x /\ Append(q, x) \in Seq(S)
  OBVIOUS
<1>2. Elements(Append(q, x)) = Elements(q) \cup {x}
  <2>1. Elements(Append(q, x)) \subseteq Elements(q) \cup {x}
    BY <1>1 DEF Elements
  <2>2. x \in Elements(Append(q, x))
    BY <1>1 DEF Elements
  <2>3. Elements(q) \subseteq Elements(Append(q, x))
    BY <1>1 DEF Elements
  <2> QED
    BY <2>1, <2>2, <2>3
<1>3. Distinct(q) /\ x \notin Elements(q) => Distinct(Append(q, x))
  BY <1>1 DEF Elements, Distinct
<1> QED
  BY <1>1, <1>2, <1>3
-----------------------------------------------------------------------------
(* The method queue, which also holds calls that carry no message. *)

LEMMA CallAppended ==
    ASSUME methodQ \in Seq(Call), NEW c \in Call, methodQ' = Append(methodQ, c),
           CalledOnce, Handling(c) => c.msg \notin Called
    PROVE  /\ Called' = Called \cup {d.msg : d \in {e \in {c} : Handling(e)}}
           /\ CalledOnce'
<1>1. Elements(methodQ)' = Elements(methodQ) \cup {c}
  BY AppendElements DEF Elements
<1>2. Called' = Called \cup {d.msg : d \in {e \in {c} : Handling(e)}}
  BY <1>1 DEF Called, Handling
<1>3. /\ Len(methodQ) \in Nat /\ Len(methodQ') = Len(methodQ) + 1
      /\ \A i \in 1..Len(methodQ) : methodQ'[i] = methodQ[i]
      /\ methodQ'[Len(methodQ) + 1] = c
  OBVIOUS
<1>4. \A i \in 1..Len(methodQ) : Handling(methodQ[i]) => methodQ[i].msg \in Called
  BY DEF Called, Elements
<1>5. CalledOnce'
  <2> SUFFICES ASSUME NEW i \in 1..Len(methodQ'), NEW j \in 1..Len(methodQ'),
                      Handling(methodQ'[i]), Handling(methodQ'[j]),
                      methodQ'[i].msg = methodQ'[j].msg
               PROVE  i = j
    BY DEF CalledOnce, Handling
  <2>1. CASE i \in 1..Len(methodQ) /\ j \in 1..Len(methodQ)
    BY <2>1, <1>3 DEF CalledOnce
  <2>2. CASE i = Len(methodQ) + 1 /\ j = Len(methodQ) + 1
    BY <2>2
  <2>3. CASE i = Len(methodQ) + 1 /\ j \in 1..Len(methodQ)
    BY <2>3, <1>3, <1>4
  <2>4. CASE j = Len(methodQ) + 1 /\ i \in 1..Len(methodQ)
    BY <2>4, <1>3, <1>4
  <2> QED
    BY <2>1, <2>2, <2>3, <2>4, <1>3
<1> QED
  BY <1>2, <1>5

LEMMA CallTaken ==
    ASSUME methodQ \in Seq(Call), methodQ # << >>, methodQ' = Tail(methodQ), CalledOnce
    PROVE  /\ Called' \subseteq Called
           /\ Handling(Head(methodQ)) =>
                Head(methodQ).msg \in Called /\ Head(methodQ).msg \notin Called'
           /\ CalledOnce'
<1>1. /\ Len(methodQ) \in Nat \ {0} /\ Len(methodQ') = Len(methodQ) - 1
      /\ \A i \in 1..Len(methodQ') : methodQ'[i] = methodQ[i + 1]
      /\ Head(methodQ) = methodQ[1]
  OBVIOUS
<1>2. Elements(methodQ)' \subseteq Elements(methodQ) /\ Head(methodQ) \in Elements(methodQ)
  BY TailElements DEF Elements
<1>3. Called' \subseteq Called
  BY <1>2 DEF Called, Handling
<1>4. CalledOnce'
  BY <1>1 DEF CalledOnce, Handling
<1>5. ASSUME Handling(Head(methodQ))
      PROVE  Head(methodQ).msg \in Called /\ Head(methodQ).msg \notin Called'
  <2>1. Head(methodQ).msg \in Called
    BY <1>2, <1>5 DEF Called
  <2>2. ASSUME NEW i \in 1..Len(methodQ'), Handling(methodQ'[i])
        PROVE  methodQ'[i].msg # Head(methodQ).msg
    BY <1>1, <1>5, <2>2 DEF CalledOnce
  <2>3. Head(methodQ).msg \notin Called'
    BY <2>2 DEF Called, Elements, Handling
  <2> QED
    BY <2>1, <2>3
<1> QED
  BY <1>3, <1>4, <1>5
-----------------------------------------------------------------------------
(* Types and registrations. *)

LEMMA ObserverTypes ==
    /\ NoObservers \in [Notifications -> Nat]
    /\ AddObservers(NoObservers) \in [Notifications -> Nat]
    /\ \A n \in Notifications : AddObservers(NoObservers)[n] = 1
  BY DEF NoObservers, AddObservers

LEMMA InitInv == Init => Inv
<1> SUFFICES ASSUME Init PROVE Inv
  OBVIOUS
<1> USE XpjxAssumption DEF Init
<1>1. TypeOK
  <2>1. observers \in [Notifications -> Nat]
    BY ObserverTypes DEF ReInit
  <2>2. alerts \in [Messages -> Nat]
    OBVIOUS
  <2>3. methodQ \in Seq(Call) /\ mainQ \in Seq(Messages)
        /\ posting \in Seq(Messages) /\ jsQ \in Seq(Messages)
    OBVIOUS
  <2>4. reloads \in 0..MaxReloads /\ mounts \in 0..MaxMounts /\ listenerCount \in Nat
    OBVIOUS
  <2>5. mounted \in BOOLEAN /\ unsent \subseteq Messages /\ unsettled \subseteq Messages
    OBVIOUS
  <2> HIDE DEF Init
  <2> QED
    BY <2>1, <2>2, <2>3, <2>4, <2>5 DEF TypeOK
<1>2. RegisteredOnce
  BY DEF RegisteredOnce, ReInit
<1>3. /\ Called = {} /\ Alerted = {} /\ Elements(mainQ) = {}
      /\ Elements(posting) = {} /\ Elements(jsQ) = {}
  BY DEF Called, Alerted, Elements
<1>4. OneToken
  BY <1>3 DEF OneToken, OnePlace, CalledOnce, Distinct, AlertedAtMostOnce
<1>5. LoginsOnly
  BY <1>3 DEF LoginsOnly, OnlyLoginAlerts
<1> QED
  BY <1>1, <1>2, <1>4, <1>5 DEF Inv

\* The two sets of notifications that the module can be registered for.
LEMMA RegisteredStep ==
    ASSUME RegisteredOnce, [Next]_vars
    PROVE  RegisteredOnce'
<1>1. observers' \in {observers, NoObservers, AddObservers(NoObservers)}
  BY DEF Next, Environment, ModuleStep, MainStep, Mount, Unmount, ToggleModal,
     ReceiveEvent, AddListener, RemoveListeners, HandleMessage, RunBlock,
     GetSessionId, Reload, ReInit, vars
<1> QED
  BY <1>1 DEF RegisteredOnce, NoObservers, AddObservers

LEMMA TypeStep ==
    ASSUME TypeOK, RegisteredOnce, [Next]_vars
    PROVE  TypeOK'
<1> USE XpjxAssumption
<1>1. /\ [op |-> "addListener", msg |-> NoMessage] \in Call
      /\ [op |-> "removeListeners", msg |-> NoMessage] \in Call
      /\ \A m \in Messages : [op |-> "handleMessage", msg |-> m] \in Call
  BY DEF Call
<1>2. CASE Mount
  BY <1>1, <1>2 DEF TypeOK, Mount, Calls
<1>3. CASE Unmount
  <2>1. methodQ' \in Seq(Call)
    BY <1>1, <1>3 DEF TypeOK, Unmount, Calls
  <2>2. mounted' \in BOOLEAN
    BY <1>3 DEF Unmount
  <2> QED
    BY <1>3, <2>1, <2>2 DEF TypeOK, Unmount
<1>4. ASSUME NEW m \in Messages, ToggleModal(m) PROVE TypeOK'
  BY <1>1, <1>4 DEF TypeOK, ToggleModal, Calls
<1>5. CASE ReceiveEvent
  <2>1. Head(jsQ) \in Messages /\ Tail(jsQ) \in Seq(Messages)
    BY <1>5 DEF TypeOK, ReceiveEvent
  <2>2. [alerts EXCEPT ![Head(jsQ)] = @ + 1] \in [Messages -> Nat]
    BY <2>1 DEF TypeOK
  <2> QED
    BY <1>5, <2>1, <2>2 DEF TypeOK, ReceiveEvent
<1>6. CASE AddListener
  BY <1>6 DEF TypeOK, AddListener, NextCall, jsVars
<1>7. CASE RemoveListeners
  <2>1. observers' \in [Notifications -> Nat]
    BY <1>7, ObserverTypes DEF TypeOK, RemoveListeners
  <2> QED
    BY <1>7, <2>1 DEF TypeOK, RemoveListeners, NextCall, jsVars
<1>8. CASE HandleMessage
  <2>1. Head(methodQ) \in Call /\ Tail(methodQ) \in Seq(Call)
    BY <1>8 DEF TypeOK, HandleMessage, NextCall
  <2>2. Head(methodQ).msg \in Messages
    BY <1>8, <2>1 DEF HandleMessage, NextCall, Call
  <2> QED
    BY <1>8, <2>1, <2>2 DEF TypeOK, HandleMessage, NextCall, jsVars
<1>9. CASE RunBlock
  <2>1. Head(mainQ) \in Messages /\ Tail(mainQ) \in Seq(Messages)
    BY <1>9 DEF TypeOK, RunBlock
  <2>2. observers["getSessionIdNotification"] \in Nat
    BY DEF TypeOK, Notifications
  <2>3. posting' \in Seq(Messages)
    BY <1>9, <2>1, <2>2 DEF RunBlock
  <2> QED
    BY <1>9, <2>1, <2>3 DEF TypeOK, RunBlock, jsVars
<1>10. CASE GetSessionId
  BY <1>10 DEF TypeOK, GetSessionId, jsVars
<1>11. CASE Reload
  <2>1. observers' \in [Notifications -> Nat]
    BY <1>11, ObserverTypes DEF Reload, ReInit
  <2>2. methodQ' \in Seq(Call) /\ jsQ' \in Seq(Messages)
    BY <1>11 DEF Reload
  <2>3. reloads' \in 0..MaxReloads
    BY <1>11 DEF TypeOK, Reload
  <2> QED
    BY <1>11, <2>1, <2>2, <2>3 DEF TypeOK, Reload
<1>12. CASE UNCHANGED vars
  BY <1>12 DEF TypeOK, vars, jsVars
<1> QED
  BY <1>2, <1>3, <1>4, <1>5, <1>6, <1>7, <1>8, <1>9, <1>10, <1>11, <1>12
     DEF Next, Environment, ModuleStep, MainStep
-----------------------------------------------------------------------------
(* A message is in one place at a time. *)

\* The JavaScript side: a call without message, a tap, and the alert.
LEMMA PlainCallToken ==
    ASSUME TypeOK, OneToken, Mount \/ Unmount
    PROVE  OneToken'
<1>1. PICK c \in Call : methodQ' = Append(methodQ, c) /\ ~Handling(c)
  BY DEF Mount, Unmount, Calls, Call, Handling
<1>2. Called' = Called /\ CalledOnce'
  BY <1>1, CallAppended DEF TypeOK, OneToken
<1>3. UNCHANGED <<unsent, mainQ, posting, jsQ, alerts>>
  BY DEF Mount, Unmount
<1> QED
  BY <1>2, <1>3 DEF OneToken, OnePlace, Elements, Distinct, Alerted, AlertedAtMostOnce

LEMMA ToggleModalToken ==
    ASSUME TypeOK, OneToken, NEW m \in Messages, ToggleModal(m)
    PROVE  OneToken'
<1> DEFINE c == [op |-> "handleMessage", msg |-> m]
<1>1. /\ c \in Call /\ Handling(c) /\ c.msg = m /\ methodQ' = Append(methodQ, c)
      /\ m \in unsent /\ unsent' = unsent \ {m}
      /\ UNCHANGED <<mainQ, posting, jsQ, alerts>>
  BY DEF ToggleModal, Calls, Call, Handling
<1>2. m \notin Called
  BY <1>1 DEF OneToken, OnePlace
<1> HIDE DEF c
<1>3. Called' = Called \cup {m} /\ CalledOnce'
  BY <1>1, <1>2, CallAppended DEF TypeOK, OneToken
<1>4. \A n \in Messages : OnePlace(n)'
  BY <1>1, <1>3 DEF OneToken, OnePlace, Elements, Alerted
<1> QED
  BY <1>1, <1>3, <1>4 DEF OneToken, Distinct, AlertedAtMostOnce

LEMMA ReceiveEventToken ==
    ASSUME TypeOK, OneToken, ReceiveEvent
    PROVE  OneToken'
<1> DEFINE h == Head(jsQ)
<1>1. /\ jsQ # << >> /\ jsQ' = Tail(jsQ)
      /\ alerts' = alerts \/ alerts' = [alerts EXCEPT ![h] = alerts[h] + 1]
      /\ UNCHANGED <<unsent, methodQ, mainQ, posting>>
  BY DEF ReceiveEvent
<1>2. /\ h \in Messages /\ h \in Elements(jsQ)
      /\ Elements(jsQ') \subseteq Elements(jsQ) /\ h \notin Elements(jsQ')
      /\ Distinct(jsQ')
  BY <1>1, TailElements DEF TypeOK, OneToken
<1>3. h \notin Alerted /\ alerts[h] = 0
  BY <1>2 DEF OneToken, OnePlace, Alerted, TypeOK
<1>4. Alerted' \subseteq Alerted \cup {h} /\ AlertedAtMostOnce'
  <2>1. \A m \in Messages :
          alerts'[m] = alerts[m] \/ (m = h /\ alerts'[m] = 1)
    BY <1>1, <1>2, <1>3 DEF TypeOK
  <2>2. \A m \in Messages : alerts[m] <= 1
    BY DEF OneToken, AlertedAtMostOnce
  <2> HIDE DEF h
  <2>3. AlertedAtMostOnce'
    BY <2>1, <2>2 DEF AlertedAtMostOnce
  <2>4. Alerted' \subseteq Alerted \cup {h}
    BY <2>1 DEF Alerted
  <2> QED
    BY <2>3, <2>4
<1>5. Called' = Called /\ CalledOnce'
  BY <1>1 DEF OneToken, Called, CalledOnce, Elements
<1> HIDE DEF h
<1>6. \A m \in Messages : OnePlace(m)'
  <2> SUFFICES ASSUME NEW m \in Messages PROVE OnePlace(m)'
    OBVIOUS
  <2>1. OnePlace(m)
    BY DEF OneToken
  <2>2. /\ Elements(mainQ)' = Elements(mainQ) /\ Elements(posting)' = Elements(posting)
        /\ Elements(jsQ)' = Elements(jsQ')
    BY <1>1 DEF Elements
  <2>3. OnePlace(h)
    BY <1>2 DEF OneToken
  <2> QED
    BY <1>1, <1>2, <1>4, <1>5, <2>1, <2>2, <2>3 DEF OnePlace
<1> QED
  BY <1>1, <1>2, <1>4, <1>5, <1>6 DEF OneToken, Distinct
\* The native side: the two queues of the module, then the notification.
LEMMA ListenerCallToken ==
    ASSUME TypeOK, OneToken, AddListener \/ RemoveListeners
    PROVE  OneToken'
<1>1. /\ methodQ # << >> /\ methodQ' = Tail(methodQ)
      /\ UNCHANGED <<unsent, mainQ, posting, jsQ, alerts>>
  BY DEF AddListener, RemoveListeners, NextCall, jsVars
<1>2. Called' \subseteq Called /\ CalledOnce'
  BY <1>1, CallTaken DEF TypeOK, OneToken
<1> QED
  BY <1>1, <1>2 DEF OneToken, OnePlace, Elements, Distinct, Alerted, AlertedAtMostOnce

LEMMA HandleMessageToken ==
    ASSUME TypeOK, OneToken, HandleMessage
    PROVE  OneToken'
<1> DEFINE h == Head(methodQ).msg
<1>1. /\ methodQ # << >> /\ methodQ' = Tail(methodQ) /\ Handling(Head(methodQ))
      /\ mainQ' = Append(mainQ, h)
      /\ UNCHANGED <<unsent, posting, jsQ, alerts>>
  BY DEF HandleMessage, NextCall, jsVars, Handling
<1>2. h \in Messages
  <2>1. Head(methodQ) \in Call
    BY <1>1 DEF TypeOK
  <2> QED
    BY <1>1, <2>1 DEF Call, Handling
<1>3. Called' \subseteq Called /\ h \in Called /\ h \notin Called' /\ CalledOnce'
  BY <1>1, CallTaken DEF TypeOK, OneToken
<1>4. OnePlace(h)
  BY <1>2 DEF OneToken
<1> HIDE DEF h
<1>5. Elements(mainQ') = Elements(mainQ) \cup {h} /\ Distinct(mainQ')
  BY <1>1, <1>2, <1>3, <1>4, AppendElements DEF TypeOK, OneToken, OnePlace
<1>6. \A m \in Messages : OnePlace(m)'
  <2> SUFFICES ASSUME NEW m \in Messages PROVE OnePlace(m)'
    OBVIOUS
  <2>1. OnePlace(m)
    BY DEF OneToken
  <2>2. /\ Elements(mainQ)' = Elements(mainQ') /\ Elements(posting)' = Elements(posting)
        /\ Elements(jsQ)' = Elements(jsQ) /\ Alerted' = Alerted
    BY <1>1 DEF Elements, Alerted
  <2> QED
    BY <1>1, <1>3, <1>4, <1>5, <2>1, <2>2 DEF OnePlace
<1> QED
  BY <1>1, <1>3, <1>5, <1>6 DEF OneToken, Distinct, AlertedAtMostOnce

LEMMA RunBlockToken ==
    ASSUME TypeOK, RegisteredOnce, OneToken, RunBlock
    PROVE  OneToken'
<1> DEFINE h == Head(mainQ)
<1> DEFINE n == observers["getSessionIdNotification"]
<1>1. /\ mainQ # << >> /\ mainQ' = Tail(mainQ)
      /\ posting' = << >> \/ posting' = [i \in 1..n |-> h]
      /\ UNCHANGED <<unsent, methodQ, jsQ, alerts>>
  BY DEF RunBlock, jsVars
<1>2. /\ h \in Messages /\ h \in Elements(mainQ)
      /\ Elements(mainQ') \subseteq Elements(mainQ) /\ h \notin Elements(mainQ')
      /\ Distinct(mainQ')
  BY <1>1, TailElements DEF TypeOK, OneToken
<1>3. n \in {0, 1}
  BY DEF RegisteredOnce, NoObservers, AddObservers, Notifications
<1>4. OnePlace(h)
  BY <1>2 DEF OneToken
<1> HIDE DEF h, n
<1>5. Elements(posting') \subseteq {h} /\ Distinct(posting')
  <2>1. CASE posting' = << >>
    BY <2>1 DEF Elements, Distinct
  <2>2. CASE posting' = [i \in 1..n |-> h]
    <3>1. Len(posting') = n /\ \A i \in 1..n : posting'[i] = h
      BY <1>3, <2>2
    <3> QED
      BY <1>3, <3>1 DEF Elements, Distinct
  <2> QED
    BY <1>1, <2>1, <2>2
<1>6. Called' = Called /\ CalledOnce'
  BY <1>1 DEF OneToken, Called, CalledOnce, Elements
<1>7. \A m \in Messages : OnePlace(m)'
  <2> SUFFICES ASSUME NEW m \in Messages PROVE OnePlace(m)'
    OBVIOUS
  <2>1. OnePlace(m)
    BY DEF OneToken
  <2>2. /\ Elements(mainQ)' = Elements(mainQ') /\ Elements(posting)' = Elements(posting')
        /\ Elements(jsQ)' = Elements(jsQ) /\ Alerted' = Alerted
    BY <1>1 DEF Elements, Alerted
  <2> QED
    BY <1>1, <1>2, <1>4, <1>5, <1>6, <2>1, <2>2 DEF OnePlace
<1> QED
  BY <1>1, <1>2, <1>5, <1>6, <1>7 DEF OneToken, Distinct, AlertedAtMostOnce
LEMMA GetSessionIdToken ==
    ASSUME TypeOK, OneToken, GetSessionId
    PROVE  OneToken'
<1> DEFINE h == Head(posting)
<1>1. /\ posting # << >> /\ posting' = Tail(posting)
      /\ jsQ' = jsQ \/ jsQ' = Append(jsQ, h)
      /\ UNCHANGED <<unsent, methodQ, mainQ, alerts>>
  BY DEF GetSessionId, jsVars
<1>2. /\ h \in Messages /\ h \in Elements(posting)
      /\ Elements(posting') \subseteq Elements(posting) /\ h \notin Elements(posting')
      /\ Distinct(posting')
  BY <1>1, TailElements DEF TypeOK, OneToken
<1>3. OnePlace(h)
  BY <1>2 DEF OneToken
<1> HIDE DEF h
<1>4. Elements(jsQ') \subseteq Elements(jsQ) \cup {h} /\ Distinct(jsQ')
  <2>1. CASE jsQ' = jsQ
    BY <2>1 DEF Elements, OneToken, Distinct
  <2>2. CASE jsQ' = Append(jsQ, h)
    BY <2>2, <1>2, <1>3, AppendElements DEF TypeOK, OneToken, OnePlace
  <2> QED
    BY <1>1, <2>1, <2>2
<1>5. Called' = Called /\ CalledOnce'
  BY <1>1 DEF OneToken, Called, CalledOnce, Elements
<1>6. \A m \in Messages : OnePlace(m)'
  <2> SUFFICES ASSUME NEW m \in Messages PROVE OnePlace(m)'
    OBVIOUS
  <2>1. OnePlace(m)
    BY DEF OneToken
  <2>2. /\ Elements(mainQ)' = Elements(mainQ) /\ Elements(posting)' = Elements(posting')
        /\ Elements(jsQ)' = Elements(jsQ') /\ Alerted' = Alerted
    BY <1>1 DEF Elements, Alerted
  <2> QED
    BY <1>1, <1>2, <1>3, <1>4, <1>5, <2>1, <2>2 DEF OnePlace
<1> QED
  BY <1>1, <1>2, <1>4, <1>5, <1>6 DEF OneToken, Distinct, AlertedAtMostOnce

LEMMA ReloadToken ==
    ASSUME TypeOK, OneToken, Reload
    PROVE  OneToken'
<1>1. Called' = {} /\ CalledOnce' /\ Elements(jsQ)' = {} /\ Distinct(jsQ)'
  BY DEF Reload, Called, CalledOnce, Elements, Distinct
<1>2. UNCHANGED <<unsent, mainQ, posting, alerts>>
  BY DEF Reload
<1> QED
  BY <1>1, <1>2 DEF OneToken, OnePlace, Elements, Distinct, Alerted, AlertedAtMostOnce

LEMMA TokenStep ==
    ASSUME TypeOK, RegisteredOnce, OneToken, [Next]_vars
    PROVE  OneToken'
<1>1. CASE UNCHANGED vars
  BY <1>1 DEF vars, jsVars, OneToken, OnePlace, CalledOnce, Called, Elements,
     Distinct, Alerted, AlertedAtMostOnce
<1>2. ASSUME NEW m \in Messages, ToggleModal(m) PROVE OneToken'
  BY <1>2, ToggleModalToken
<1> QED
  BY <1>1, <1>2, PlainCallToken, ReceiveEventToken, ListenerCallToken,
     HandleMessageToken, RunBlockToken, GetSessionIdToken, ReloadToken
     DEF Next, Environment, ModuleStep, MainStep

\* Past the test of the type there are only login messages.
LEMMA LoginStep ==
    ASSUME TypeOK, LoginsOnly, [Next]_vars
    PROVE  LoginsOnly'
<1>1. CASE RunBlock
  <2>1. UNCHANGED <<jsQ, alerts>>
    BY <1>1 DEF RunBlock, jsVars
  <2>2. observers["getSessionIdNotification"] \in Nat
    BY DEF TypeOK, Notifications
  <2>3. Elements(posting') \subseteq LoginMessages
    BY <1>1, <2>2 DEF RunBlock, Elements
  <2> QED
    BY <2>1, <2>3 DEF LoginsOnly, OnlyLoginAlerts, Elements
<1>2. CASE GetSessionId
  <2>1. /\ posting # << >> /\ posting' = Tail(posting)
        /\ jsQ' = jsQ \/ jsQ' = Append(jsQ, Head(posting))
        /\ UNCHANGED alerts
    BY <1>2 DEF GetSessionId, jsVars
  <2>2. /\ Head(posting) \in Messages /\ Head(posting) \in Elements(posting)
        /\ Elements(posting') \subseteq Elements(posting)
    BY <2>1, TailElements DEF TypeOK
  <2>3. Elements(jsQ') \subseteq Elements(jsQ) \cup Elements(posting)
    <3>1. Elements(Append(jsQ, Head(posting))) = Elements(jsQ) \cup {Head(posting)}
      BY <2>2, AppendElements DEF TypeOK
    <3> QED
      BY <2>1, <2>2, <3>1
  <2>4. /\ Elements(posting)' = Elements(posting')
        /\ Elements(jsQ)' = Elements(jsQ')
    BY DEF Elements
  <2> QED
    BY <2>1, <2>2, <2>3, <2>4 DEF LoginsOnly, OnlyLoginAlerts
<1>3. CASE ReceiveEvent
  <2>1. /\ jsQ # << >> /\ jsQ' = Tail(jsQ) /\ UNCHANGED posting
        /\ alerts' = alerts \/ alerts' = [alerts EXCEPT ![Head(jsQ)] = @ + 1]
    BY <1>3 DEF ReceiveEvent
  <2>2. /\ Head(jsQ) \in LoginMessages
        /\ Elements(jsQ') \subseteq LoginMessages
    BY <2>1, TailElements DEF TypeOK, LoginsOnly
  <2>3. OnlyLoginAlerts'
    <3>1. \A m \in Messages : alerts'[m] = alerts[m] \/ m = Head(jsQ)
      BY <2>1, <2>2, XpjxAssumption DEF TypeOK
    <3> QED
      BY <2>2, <3>1 DEF LoginsOnly, OnlyLoginAlerts
  <2>4. Elements(posting)' = Elements(posting) /\ Elements(jsQ)' = Elements(jsQ')
    BY <2>1 DEF Elements
  <2> QED
    BY <2>2, <2>3, <2>4 DEF LoginsOnly
<1>4. CASE UNCHANGED <<posting, jsQ, alerts>>
  BY <1>4 DEF LoginsOnly, OnlyLoginAlerts, Elements
<1>5. CASE Reload
  BY <1>5 DEF Reload, LoginsOnly, OnlyLoginAlerts, Elements
<1> QED
  BY <1>1, <1>2, <1>3, <1>4, <1>5 DEF Next, Environment, ModuleStep, MainStep, Mount,
     Unmount, ToggleModal, AddListener, RemoveListeners, HandleMessage, jsVars, vars

-----------------------------------------------------------------------------
(* The theorems. *)

\* Every reachable state satisfies the inductive invariant.
THEOREM Invariance == Spec => []Inv
<1>1. Inv /\ [Next]_vars => Inv'
  BY TypeStep, RegisteredStep, TokenStep, LoginStep DEF Inv
<1> QED
  BY InitInv, <1>1, PTL DEF Spec

\* Variables keep their types; in particular what the main queue and the
\* notification carry are messages.
THEOREM TypeCorrect == Spec => []TypeOK
<1>1. Inv => TypeOK
  BY DEF Inv
<1> QED
  BY <1>1, Invariance, PTL

\* However often the bridge reloads, the shared module is registered at most
\* once for each notification (XpjxModule.m:59-72 and 83-85).
THEOREM NeverRegisteredTwice == Spec => []RegisteredOnce
<1>1. Inv => RegisteredOnce
  BY DEF Inv
<1> QED
  BY <1>1, Invariance, PTL

\* One tap shows at most one alert, whatever remountings and reloads happen
\* on the way (XpjxModule.m:26-47, 63 and 87-89; HomeScreen.js:56-97).
THEOREM NeverAlertedTwice == Spec => []AlertedAtMostOnce
<1>1. Inv => AlertedAtMostOnce
  BY DEF Inv, OneToken
<1> QED
  BY <1>1, Invariance, PTL

\* Only a login message is answered by an alert (XpjxModule.m:35).
THEOREM AlertsAnswerLogins == Spec => []OnlyLoginAlerts
<1>1. Inv => OnlyLoginAlerts
  BY DEF Inv, LoginsOnly
<1> QED
  BY <1>1, Invariance, PTL
-----------------------------------------------------------------------------
(* ListenerBeforeMessage.  It needs to know that the calls on the method     *)
(* queue alternate.  f[i] says whether HomeScreen is subscribed after the    *)
(* first i calls on the queue: f[0] is what the native side knows by now,    *)
(* f[Len(methodQ)] is what the JavaScript side knows already.                *)

Subscribed == IF mounted THEN 1 ELSE 0

Explains(f, q) ==
    \A i \in 1..Len(q) :
        /\ q[i].op = "addListener" => f[i - 1] = 0 /\ f[i] = 1
        /\ q[i].op = "removeListeners" => f[i - 1] = 1 /\ f[i] = 0
        /\ q[i].op = "handleMessage" => f[i - 1] = 1 /\ f[i] = 1

Alternating ==
    \E f \in [0..Len(methodQ) -> {0, 1}] :
        /\ f[0] <= listenerCount
        /\ f[Len(methodQ)] = Subscribed
        /\ Explains(f, methodQ)

\* A call from JavaScript that fits the last value and leads to the new one.
LEMMA AppendAlternating ==
    ASSUME methodQ \in Seq(Call), Alternating, NEW c \in Call,
           methodQ' = Append(methodQ, c), UNCHANGED listenerCount,
           c.op = "addListener" => ~mounted /\ mounted',
           c.op = "removeListeners" => mounted /\ ~mounted',
           c.op = "handleMessage" => mounted /\ mounted'
    PROVE  Alternating'
<1> DEFINE n == Len(methodQ)
<1>1. /\ n \in Nat /\ Len(methodQ') = n + 1 /\ methodQ'[n + 1] = c
      /\ \A i \in 1..n : methodQ'[i] = methodQ[i]
  OBVIOUS
<1> HIDE DEF n
<1>2. PICK f \in [0..n -> {0, 1}] :
        f[0] <= listenerCount /\ f[n] = Subscribed /\ Explains(f, methodQ)
  BY DEF Alternating, n
<1> DEFINE g == [i \in 0..(n + 1) |-> IF i = n + 1 THEN Subscribed' ELSE f[i]]
<1>3. /\ g[n + 1] = Subscribed' /\ \A i \in 0..n : g[i] = f[i]
      /\ g \in [0..(n + 1) -> {0, 1}]
  BY <1>1, <1>2 DEF Subscribed
<1> HIDE DEF g
<1>4. ASSUME NEW i \in 1..n
      PROVE  /\ methodQ'[i].op = "addListener" => g[i - 1] = 0 /\ g[i] = 1
             /\ methodQ'[i].op = "removeListeners" => g[i - 1] = 1 /\ g[i] = 0
             /\ methodQ'[i].op = "handleMessage" => g[i - 1] = 1 /\ g[i] = 1
  BY <1>1, <1>2, <1>3 DEF Explains, n
<1>5. /\ c.op = "addListener" => g[n] = 0 /\ g[n + 1] = 1
      /\ c.op = "removeListeners" => g[n] = 1 /\ g[n + 1] = 0
      /\ c.op = "handleMessage" => g[n] = 1 /\ g[n + 1] = 1
  BY <1>1, <1>2, <1>3 DEF Subscribed
<1>6. Explains(g, methodQ')
  <2> SUFFICES ASSUME NEW i \in 1..(n + 1)
               PROVE  /\ methodQ'[i].op = "addListener" => g[i - 1] = 0 /\ g[i] = 1
                      /\ methodQ'[i].op = "removeListeners" => g[i - 1] = 1 /\ g[i] = 0
                      /\ methodQ'[i].op = "handleMessage" => g[i - 1] = 1 /\ g[i] = 1
    BY <1>1 DEF Explains
  <2>1. CASE i \in 1..n
    BY <2>1, <1>4
  <2>2. CASE i = n + 1
    BY <2>2, <1>1, <1>5
  <2> QED
    BY <2>1, <2>2, <1>1
<1>7. g[0] <= listenerCount'
  BY <1>1, <1>2, <1>3
<1> QED
  BY <1>1, <1>3, <1>6, <1>7 DEF Alternating

\* The native side takes the first call, which turns f[0] into f[1].
LEMMA TailAlternating ==
    ASSUME TypeOK, Alternating, ModuleStep
    PROVE  Alternating'
<1> DEFINE n == Len(methodQ)
<1>1. /\ methodQ # << >> /\ methodQ' = Tail(methodQ) /\ UNCHANGED mounted
      /\ Head(methodQ) = methodQ[1]
  BY DEF ModuleStep, AddListener, RemoveListeners, HandleMessage, NextCall, jsVars, TypeOK
<1>2. /\ n \in Nat \ {0} /\ Len(methodQ') = n - 1
      /\ \A i \in 1..(n - 1) : methodQ'[i] = methodQ[i + 1]
  BY <1>1 DEF TypeOK
<1> HIDE DEF n
<1>3. PICK f \in [0..n -> {0, 1}] :
        f[0] <= listenerCount /\ f[n] = Subscribed /\ Explains(f, methodQ)
  BY DEF Alternating, n
<1> DEFINE g == [i \in 0..(n - 1) |-> f[i + 1]]
<1>4. /\ g \in [0..(n - 1) -> {0, 1}]
      /\ \A i \in 0..(n - 1) : g[i] = f[i + 1]
  BY <1>2, <1>3
<1> HIDE DEF g
<1>5. Explains(g, methodQ')
  <2>1. ASSUME NEW i \in 1..(n - 1)
        PROVE  /\ methodQ[i + 1].op = "addListener" => f[i] = 0 /\ f[i + 1] = 1
               /\ methodQ[i + 1].op = "removeListeners" => f[i] = 1 /\ f[i + 1] = 0
               /\ methodQ[i + 1].op = "handleMessage" => f[i] = 1 /\ f[i + 1] = 1
    <3>1. i + 1 \in 1..n /\ (i + 1) - 1 = i
      BY <1>2
    <3> QED
      BY <1>3, <3>1 DEF Explains, n
  <2>2. \A i \in 1..(n - 1) : g[i - 1] = f[i] /\ g[i] = f[i + 1]
    BY <1>2, <1>4
  <2> QED
    BY <1>2, <2>1, <2>2 DEF Explains
<1>6. g[0] <= listenerCount'
  <2>1. /\ methodQ[1].op = "addListener" => f[1] = 1
        /\ methodQ[1].op = "removeListeners" => f[0] = 1 /\ f[1] = 0
        /\ methodQ[1].op = "handleMessage" => f[0] = 1 /\ f[1] = 1
    BY <1>2, <1>3 DEF Explains, n
  <2>2. CASE AddListener
    BY <1>1, <1>2, <1>3, <1>4, <2>1, <2>2 DEF AddListener, NextCall, TypeOK
  <2>3. CASE RemoveListeners
    BY <1>1, <1>2, <1>3, <1>4, <2>1, <2>3 DEF RemoveListeners, NextCall, TypeOK
  <2>4. CASE HandleMessage
    BY <1>1, <1>2, <1>3, <1>4, <2>1, <2>4 DEF HandleMessage, NextCall, TypeOK
  <2> QED
    BY <2>2, <2>3, <2>4 DEF ModuleStep
<1>7. g[n - 1] = Subscribed'
  BY <1>1, <1>2, <1>3, <1>4 DEF Subscribed
<1> QED
  BY <1>2, <1>4, <1>5, <1>6, <1>7 DEF Alternating
LEMMA EmptyAlternating ==
    ASSUME methodQ = << >>, mounted = FALSE, listenerCount \in Nat
    PROVE  Alternating
<1> DEFINE f == [i \in 0..0 |-> 0]
<1>1. f \in [0..Len(methodQ) -> {0, 1}] /\ f[0] = 0
  OBVIOUS
<1>2. Explains(f, methodQ) /\ f[Len(methodQ)] = Subscribed
  BY <1>1 DEF Explains, Subscribed
<1> QED
  BY <1>1, <1>2 DEF Alternating

LEMMA AlternatingStep ==
    ASSUME TypeOK, Alternating, TypeOK', [Next]_vars
    PROVE  Alternating'
<1>1. CASE Mount
  <2>1. [op |-> "addListener", msg |-> NoMessage] \in Call
    BY DEF Call
  <2> QED
    BY <1>1, <2>1, AppendAlternating DEF Mount, Calls, TypeOK
<1>2. CASE Unmount
  <2>1. [op |-> "removeListeners", msg |-> NoMessage] \in Call
    BY DEF Call
  <2> QED
    BY <1>2, <2>1, AppendAlternating DEF Unmount, Calls, TypeOK
<1>3. ASSUME NEW m \in Messages, ToggleModal(m) PROVE Alternating'
  <2>1. [op |-> "handleMessage", msg |-> m] \in Call
    BY DEF Call
  <2> QED
    BY <1>3, <2>1, AppendAlternating DEF ToggleModal, Calls, TypeOK
<1>4. CASE ModuleStep
  BY <1>4, TailAlternating
<1>5. CASE UNCHANGED <<methodQ, mounted, listenerCount>>
  BY <1>5 DEF Alternating, Subscribed, Explains
<1>6. CASE Reload
  <2>1. /\ methodQ' = << >> /\ mounted' = FALSE /\ listenerCount' \in Nat
    BY <1>6 DEF Reload, TypeOK
  <2> DEFINE f == [i \in 0..0 |-> 0]
  <2>2. f \in [0..Len(methodQ') -> {0, 1}] /\ f[0] = 0 /\ Len(methodQ') = 0
    BY <2>1
  <2>3. Explains(f, methodQ') /\ f[Len(methodQ')] = Subscribed'
    BY <2>1, <2>2 DEF Explains, Subscribed
  <2> QED
    BY <2>1, <2>2, <2>3 DEF Alternating
<1> QED
  BY <1>1, <1>2, <1>3, <1>4, <1>5, <1>6
     DEF Next, Environment, MainStep, ReceiveEvent, RunBlock, GetSessionId, jsVars, vars

\* The calls on the method queue alternate, throughout.
THEOREM AlternatingAlways == Spec => []Alternating
<1>1. Init => Alternating
  <2> SUFFICES ASSUME Init PROVE Alternating
    OBVIOUS
  <2>1. methodQ = << >> /\ mounted = FALSE /\ listenerCount \in Nat
    BY DEF Init
  <2> QED
    BY <2>1, EmptyAlternating
<1>2. TypeOK /\ TypeOK' /\ Alternating /\ [Next]_vars => Alternating'
  BY AlternatingStep
<1> QED
  BY <1>1, <1>2, TypeCorrect, PTL DEF Spec

\* When a message is handled, the native side counts the listener of the
\* screen that sent it, so that the answer is not dropped for want of
\* listeners (HomeScreen.js:56 and 82, XpjxModule.m:88).
THEOREM ListenersComeFirst == Spec => []ListenerBeforeMessage
<1>1. TypeOK /\ Alternating => ListenerBeforeMessage
  <2> SUFFICES ASSUME TypeOK, Alternating, methodQ # << >>,
                      Head(methodQ).op = "handleMessage"
               PROVE  listenerCount > 0
    BY DEF ListenerBeforeMessage
  <2>1. PICK f \in [0..Len(methodQ) -> {0, 1}] :
          f[0] <= listenerCount /\ Explains(f, methodQ)
    BY DEF Alternating
  <2>2. 1 \in 1..Len(methodQ) /\ Head(methodQ) = methodQ[1]
    BY DEF TypeOK
  <2>3. f[0] = 1
    BY <2>1, <2>2 DEF Explains
  <2> QED
    BY <2>1, <2>3 DEF TypeOK
<1> QED
  BY <1>1, TypeCorrect, AlternatingAlways, PTL
-----------------------------------------------------------------------------
(* SubscriberCounted.  The calls of a kind are counted by their places in    *)
(* the queue.                                                                *)

Places(q, op) == {i \in 1..Len(q) : q[i].op = op}
Count(q, op) == Cardinality(Places(q, op))

\* A queue has finitely many places.
LEMMA PlacesFinite ==
    ASSUME NEW q \in Seq(Call), NEW op
    PROVE  IsFiniteSet(Places(q, op)) /\ Count(q, op) \in Nat
<1>1. IsFiniteSet(1..Len(q))
  BY FS_Interval
<1>2. Places(q, op) \in SUBSET (1..Len(q))
  BY DEF Places
<1>3. IsFiniteSet(Places(q, op))
  BY <1>1, <1>2, FS_Subset
<1> QED
  BY <1>3, FS_CardinalityType DEF Count

\* An appended call counts one for its kind.
LEMMA CountAppend ==
    ASSUME NEW q \in Seq(Call), NEW c \in Call, NEW op
    PROVE  Count(Append(q, c), op) = IF c.op = op THEN Count(q, op) + 1 ELSE Count(q, op)
<1> DEFINE r == Append(q, c)
           n == Len(q)
<1>1. /\ n \in Nat /\ Len(r) = n + 1 /\ r[n + 1] = c
      /\ \A i \in 1..n : r[i] = q[i]
  OBVIOUS
<1>2. 1..(n + 1) = (1..n) \cup {n + 1} /\ n + 1 \notin 1..n
  BY <1>1
<1>3. n + 1 \notin Places(q, op)
  BY <1>2 DEF Places
<1> HIDE DEF r
<1>4. CASE c.op = op
  <2>1. Places(r, op) = Places(q, op) \cup {n + 1}
    BY <1>1, <1>2, <1>4 DEF Places
  <2> QED
    <3>1. IsFiniteSet(Places(q, op))
      BY PlacesFinite
    <3>2. Cardinality(Places(r, op)) = Cardinality(Places(q, op)) + 1
      BY <2>1, <1>3, <3>1, FS_AddElement
    <3> QED
      BY <1>4, <3>2 DEF Count, r
<1>5. CASE c.op # op
  <2>1. Places(r, op) = Places(q, op)
    BY <1>1, <1>2, <1>5 DEF Places
  <2> QED
    BY <2>1, <1>5 DEF Count, r
<1> QED
  BY <1>4, <1>5

\* The call that is taken counted one for its kind.
LEMMA CountTail ==
    ASSUME NEW q \in Seq(Call), q # << >>, NEW op
    PROVE  /\ Tail(q) \in Seq(Call)
           /\ Count(q, op) = IF Head(q).op = op THEN Count(Tail(q), op) + 1
                                                ELSE Count(Tail(q), op)
<1> DEFINE t == Tail(q)
           n == Len(q)
           S == Places(t, op)
           T == Places(q, op) \ {1}
           f == [i \in S |-> i + 1]
<1>1. /\ n \in Nat \ {0} /\ t \in Seq(Call) /\ Len(t) = n - 1 /\ Head(q) = q[1]
      /\ \A i \in 1..(n - 1) : t[i] = q[i + 1]
  OBVIOUS
<1> HIDE DEF t
<1>2. \A i \in S : i \in 1..(n - 1) /\ i + 1 \in 1..n /\ i + 1 # 1 /\ q[i + 1].op = op
  BY <1>1 DEF Places
<1>3. \A i \in S : i + 1 \in T
  BY <1>2 DEF Places
<1>4. \A j \in T : j - 1 \in S /\ (j - 1) + 1 = j
  <2> TAKE j \in T
  <2>1. j \in 1..n /\ j # 1 /\ q[j].op = op
    BY DEF Places
  <2>2. j - 1 \in 1..(n - 1) /\ (j - 1) + 1 = j
    BY <2>1, <1>1
  <2>3. t[j - 1] = q[j]
    BY <2>2, <1>1
  <2> QED
    BY <2>1, <2>2, <2>3, <1>1 DEF Places
<1>5. f \in [S -> T]
  BY <1>3
<1>6. f \in Bijection(S, T)
  <2>1. \A a, b \in S : f[a] = f[b] => a = b
    BY <1>2
  <2>2. \A j \in T : \E i \in S : f[i] = j
    BY <1>4
  <2> QED
    BY <2>1, <2>2, <1>5, Fun_IsBij
<1>7. ExistsBijection(S, T)
  BY <1>6 DEF ExistsBijection
<1>8. Cardinality(T) = Count(t, op)
  BY <1>1, <1>7, PlacesFinite, FS_Bijection DEF Count
<1>9. 1 \in Places(q, op) <=> Head(q).op = op
  BY <1>1 DEF Places
<1>10. IsFiniteSet(Places(q, op)) /\ Count(q, op) \in Nat
  BY PlacesFinite
<1>11. Cardinality(T) = IF 1 \in Places(q, op) THEN Count(q, op) - 1 ELSE Count(q, op)
  BY <1>10, FS_RemoveElement DEF Count
<1> QED
  BY <1>1, <1>8, <1>9, <1>10, <1>11 DEF t

\* The listener count and the calls under way add up to the subscription, or
\* to more after a reload, which keeps the count.
Balanced ==
    listenerCount + Count(methodQ, "addListener")
        >= Count(methodQ, "removeListeners") + Subscribed

\* Every step keeps the balance; that a counted listener is never taken for
\* an uncounted one needs Alternating.
LEMMA BalancedStep ==
    ASSUME TypeOK, TypeOK', Alternating, Balanced, [Next]_vars
    PROVE  Balanced'
<1> DEFINE A == Count(methodQ, "addListener")
           R == Count(methodQ, "removeListeners")
<1>0. /\ methodQ \in Seq(Call) /\ listenerCount \in Nat
      /\ A \in Nat /\ R \in Nat /\ listenerCount + A >= R + Subscribed
      /\ mounted \in BOOLEAN /\ mounted' \in BOOLEAN
  BY PlacesFinite DEF TypeOK, Balanced
<1>1. CASE Mount
  <2> DEFINE c == [op |-> "addListener", msg |-> NoMessage]
  <2>1. c \in Call /\ c.op = "addListener"
    BY DEF Call
  <2>2. methodQ' = Append(methodQ, c) /\ listenerCount' = listenerCount
        /\ ~mounted /\ mounted'
    BY <1>1 DEF Mount, Calls
  <2> HIDE DEF c
  <2>3. Count(methodQ', "addListener") = A + 1 /\ Count(methodQ', "removeListeners") = R
    BY <2>1, <2>2, <1>0, CountAppend
  <2>4. Subscribed' = 1 /\ Subscribed = 0
    BY <2>2 DEF Subscribed
  <2> HIDE DEF A, R
  <2> QED
    BY <2>2, <2>3, <2>4, <1>0 DEF Balanced
<1>2. CASE Unmount
  <2> DEFINE c == [op |-> "removeListeners", msg |-> NoMessage]
  <2>1. c \in Call /\ c.op = "removeListeners"
    BY DEF Call
  <2>2. methodQ' = Append(methodQ, c) /\ listenerCount' = listenerCount
        /\ mounted /\ ~mounted'
    BY <1>2 DEF Unmount, Calls
  <2> HIDE DEF c
  <2>3. Count(methodQ', "addListener") = A /\ Count(methodQ', "removeListeners") = R + 1
    BY <2>1, <2>2, <1>0, CountAppend
  <2>4. Subscribed' = 0 /\ Subscribed = 1
    BY <2>2 DEF Subscribed
  <2> HIDE DEF A, R
  <2> QED
    BY <2>2, <2>3, <2>4, <1>0 DEF Balanced
<1>3. ASSUME NEW m \in Messages, ToggleModal(m) PROVE Balanced'
  <2> DEFINE c == [op |-> "handleMessage", msg |-> m]
  <2>1. c \in Call /\ c.op = "handleMessage"
    BY DEF Call
  <2>2. methodQ' = Append(methodQ, c) /\ listenerCount' = listenerCount
        /\ mounted' = mounted
    BY <1>3 DEF ToggleModal, Calls
  <2> HIDE DEF c
  <2>3. Count(methodQ', "addListener") = A /\ Count(methodQ', "removeListeners") = R
    BY <2>1, <2>2, <1>0, CountAppend
  <2>4. Subscribed' = Subscribed
    BY <2>2 DEF Subscribed
  <2> HIDE DEF A, R
  <2> QED
    BY <2>2, <2>3, <2>4, <1>0 DEF Balanced
<1>4. CASE ModuleStep
  <2>1. methodQ # << >> /\ methodQ' = Tail(methodQ) /\ mounted' = mounted
    BY <1>4 DEF ModuleStep, AddListener, RemoveListeners, HandleMessage, NextCall, jsVars
  <2>2. /\ A = IF Head(methodQ).op = "addListener"
                THEN Count(methodQ', "addListener") + 1 ELSE Count(methodQ', "addListener")
        /\ R = IF Head(methodQ).op = "removeListeners"
                THEN Count(methodQ', "removeListeners") + 1
                ELSE Count(methodQ', "removeListeners")
        /\ Count(methodQ', "addListener") \in Nat
        /\ Count(methodQ', "removeListeners") \in Nat
    BY <2>1, <1>0, CountTail, PlacesFinite
  <2>3. Subscribed' = Subscribed /\ Subscribed \in {0, 1}
    BY <2>1 DEF Subscribed
  <2>4. CASE AddListener
    <3>1. Head(methodQ).op = "addListener" /\ listenerCount' = listenerCount + 1
      BY <2>4 DEF AddListener, NextCall
    <3> HIDE DEF A, R
    <3> QED
      BY <3>1, <2>2, <2>3, <1>0 DEF Balanced
  <2>5. CASE RemoveListeners
    <3>1. /\ Head(methodQ).op = "removeListeners"
          /\ listenerCount' = IF listenerCount > 0 THEN listenerCount - 1 ELSE 0
      BY <2>5 DEF RemoveListeners, NextCall
    <3>2. listenerCount > 0
      <4>1. PICK f \in [0..Len(methodQ) -> {0, 1}] :
              f[0] <= listenerCount /\ Explains(f, methodQ)
        BY DEF Alternating
      <4>2. 1 \in 1..Len(methodQ) /\ Head(methodQ) = methodQ[1]
        BY <2>1, <1>0
      <4>3. f[0] = 1
        BY <4>1, <4>2, <3>1 DEF Explains
      <4> QED
        BY <4>1, <4>3, <1>0
    <3> HIDE DEF A, R
    <3> QED
      <4>1. listenerCount' = listenerCount - 1
        BY <3>1, <3>2
      <4>2. A = Count(methodQ', "addListener")
            /\ R = Count(methodQ', "removeListeners") + 1
        BY <3>1, <2>2
      <4> QED
        BY <4>1, <4>2, <2>2, <2>3, <1>0 DEF Balanced
  <2>6. CASE HandleMessage
    <3>1. Head(methodQ).op = "handleMessage" /\ listenerCount' = listenerCount
      BY <2>6 DEF HandleMessage, NextCall
    <3> HIDE DEF A, R
    <3> QED
      BY <3>1, <2>2, <2>3, <1>0 DEF Balanced
  <2> QED
    BY <1>4, <2>4, <2>5, <2>6 DEF ModuleStep
<1>5. CASE UNCHANGED <<methodQ, mounted, listenerCount>>
  BY <1>5 DEF Balanced, Subscribed
<1>6. CASE Reload
  <2>1. methodQ' = << >> /\ mounted' = FALSE /\ listenerCount' = listenerCount
    BY <1>6 DEF Reload
  <2>2. Places(methodQ', "addListener") = {} /\ Places(methodQ', "removeListeners") = {}
    BY <2>1 DEF Places
  <2>3. Subscribed' = 0
    BY <2>1 DEF Subscribed
  <2>4. Count(methodQ', "addListener") = 0 /\ Count(methodQ', "removeListeners") = 0
    BY <2>2, FS_EmptySet DEF Count
  <2> HIDE DEF A, R
  <2> QED
    BY <2>1, <2>3, <2>4, <1>0 DEF Balanced
<1> QED
  BY <1>1, <1>2, <1>3, <1>4, <1>5, <1>6
     DEF Next, Environment, MainStep, ReceiveEvent, RunBlock, GetSessionId, jsVars, vars

\* Once the calls under way are processed, a mounted HomeScreen is counted
\* (HomeScreen.js:56 and 78), so that stopObserving cannot silence it.
THEOREM SubscribersAreCounted == Spec => []SubscriberCounted
<1>1. Init => Balanced
  <2> SUFFICES ASSUME Init PROVE Balanced
    OBVIOUS
  <2>1. methodQ = << >> /\ mounted = FALSE /\ listenerCount = 0
    BY DEF Init
  <2>2. Places(methodQ, "addListener") = {} /\ Places(methodQ, "removeListeners") = {}
    BY <2>1 DEF Places
  <2> QED
    BY <2>1, <2>2, FS_EmptySet DEF Balanced, Count, Subscribed
<1>2. TypeOK /\ TypeOK' /\ Alternating /\ Balanced /\ [Next]_vars => Balanced'
  BY BalancedStep
<1>3. TypeOK /\ Balanced => SubscriberCounted
  <2> SUFFICES ASSUME TypeOK, Balanced, mounted
               PROVE  listenerCount + Pending("addListener") > Pending("removeListeners")
    BY DEF SubscriberCounted
  <2>1. /\ Pending("addListener") = Count(methodQ, "addListener")
        /\ Pending("removeListeners") = Count(methodQ, "removeListeners")
    BY DEF Pending, Count, Places
  <2>2. /\ listenerCount \in Nat /\ Count(methodQ, "addListener") \in Nat
        /\ Count(methodQ, "removeListeners") \in Nat
    BY PlacesFinite DEF TypeOK
  <2> QED
    BY <2>1, <2>2 DEF Balanced, Subscribed
<1> QED
  BY <1>1, <1>2, <1>3, TypeCorrect, AlternatingAlways, PTL DEF Spec

-----------------------------------------------------------------------------
(* ListeningMeansObserving holds where HomeScreen stays mounted: nobody ever *)
(* asks the module to stop observing.                                        *)

NeverStopped ==
    /\ observers = AddObservers(NoObservers)
    /\ \A i \in 1..Len(methodQ) : methodQ[i].op # "removeListeners"

\* A step of a bridge whose screen stays mounted.
LEMMA NeverStoppedStep ==
    ASSUME ~ScreenMayUnmount, TypeOK, NeverStopped, [Next]_vars
    PROVE  NeverStopped'
<1>0. methodQ \in Seq(Call) /\ Len(methodQ) \in Nat
  BY DEF TypeOK
<1>1. ASSUME NEW c \in Call, methodQ' = Append(methodQ, c), c.op # "removeListeners",
             observers' = observers
      PROVE  NeverStopped'
  <2>1. /\ Len(methodQ') = Len(methodQ) + 1 /\ methodQ'[Len(methodQ) + 1] = c
        /\ \A i \in 1..Len(methodQ) : methodQ'[i] = methodQ[i]
    BY <1>0, <1>1
  <2>2. \A i \in 1..Len(methodQ') : i \in 1..Len(methodQ) \/ i = Len(methodQ) + 1
    BY <2>1, <1>0
  <2> QED
    BY <2>1, <2>2, <1>1 DEF NeverStopped
<1>2. CASE Mount
  <2>1. [op |-> "addListener", msg |-> NoMessage] \in Call
    BY DEF Call
  <2> QED
    BY <2>1, <1>1, <1>2 DEF Mount, Calls
<1>3. ASSUME NEW m \in Messages, ToggleModal(m) PROVE NeverStopped'
  <2>1. [op |-> "handleMessage", msg |-> m] \in Call
    BY DEF Call
  <2> QED
    BY <2>1, <1>1, <1>3 DEF ToggleModal, Calls
<1>4. CASE AddListener \/ HandleMessage
  <2>1. methodQ # << >> /\ methodQ' = Tail(methodQ) /\ observers' = observers
    BY <1>4 DEF AddListener, HandleMessage, NextCall
  <2>2. /\ Len(methodQ') = Len(methodQ) - 1
        /\ \A i \in 1..Len(methodQ') : i + 1 \in 1..Len(methodQ) /\ methodQ'[i] = methodQ[i + 1]
    BY <2>1, <1>0
  <2> QED
    BY <2>1, <2>2 DEF NeverStopped
<1>5. CASE RemoveListeners
  <2>1. methodQ # << >> /\ Head(methodQ).op = "removeListeners"
    BY <1>5 DEF RemoveListeners, NextCall
  <2>2. 1 \in 1..Len(methodQ) /\ Head(methodQ) = methodQ[1]
    BY <2>1, <1>0
  <2> QED
    BY <2>1, <2>2 DEF NeverStopped
<1>6. CASE Reload
  BY <1>6 DEF Reload, ReInit, NeverStopped
<1>7. CASE UNCHANGED <<methodQ, observers>>
  BY <1>7 DEF NeverStopped
<1> QED
  BY <1>2, <1>3, <1>4, <1>5, <1>6, <1>7
     DEF Next, Environment, Unmount, ModuleStep, MainStep, ReceiveEvent, RunBlock,
         GetSessionId, jsVars, vars

\* Under the navigator as it is, a listening HomeScreen is one that the module
\* observes its notifications for (XpjxModule.m:62-69 and 84).
THEOREM ListenersAreServed == ~ScreenMayUnmount /\ Spec => []ListeningMeansObserving
<1> SUFFICES ASSUME ~ScreenMayUnmount PROVE Spec => []ListeningMeansObserving
  OBVIOUS
<1>1. Init => NeverStopped
  BY DEF Init, ReInit, NeverStopped
<1>2. TypeOK /\ NeverStopped /\ [Next]_vars => NeverStopped'
  BY NeverStoppedStep
<1>3. NeverStopped => ListeningMeansObserving
  BY DEF NeverStopped, ListeningMeansObserving
<1> QED
  BY <1>1, <1>2, <1>3, TypeCorrect, PTL DEF Spec

=============================================================================
