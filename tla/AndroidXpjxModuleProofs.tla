---------------------- MODULE AndroidXpjxModuleProofs ----------------------
(***************************************************************************)
(* Proofs about AndroidXpjxModule, for any messages and any number of      *)
(* reloads and mountings.                                                  *)
(*                                                                         *)
(* The argument follows a message: it is unsent, or in the queue of the    *)
(* context that asked, or an event in one queue, or at its end, and never  *)
(* in two of these places.  Only the latest context is alive, so that the  *)
(* thread of a live context can read no other value of the static field.   *)
(***************************************************************************)
EXTENDS AndroidXpjxModule, TLAPS

Elems(q) == {q[i] : i \in 1..Len(q)}
Distinct(q) == \A i, j \in 1..Len(q) : q[i] = q[j] => i = j

Native(g) == Elems(nativeQ[g])
Events(g) == Elems(jsQ[g])

\* Only the latest context can be alive, and only contexts that have been
\* alive have a HomeScreen or calls.
ContextsOK ==
    /\ \A g \in Contexts : g > context => state[g] = "none"
    /\ \A g \in Contexts : g < context => state[g] \in Over
    /\ \A g \in Contexts : mounted[g] => state[g] \in {"live", "destroyed"}

\* No message is queued twice.
QueuesOK ==
    /\ \A g \in Contexts : Distinct(nativeQ[g]) /\ Distinct(jsQ[g])
    /\ \A g, h \in Contexts : g # h => Events(g) \cap Events(h) = {}
    /\ \A g, h \in Contexts : Native(g) \cap Events(h) = {}

\* A queued message was sent and not answered yet, and where its event goes.
MessagesOK ==
    /\ \A g \in Contexts : \A m \in Native(g) :
         m \notin unsent /\ askedIn[m] = g /\ shown[m] = << >>
    /\ \A g \in Contexts : \A m \in Events(g) :
         /\ m \notin unsent /\ shown[m] = << >>
         /\ g = askedIn[m] \/ state[askedIn[m]] \in Over
    /\ \A m \in unsent : shown[m] = << >>
    /\ \A m \in Messages \ unsent :
         askedIn[m] \in Contexts /\ state[askedIn[m]] \in {"live", "destroyed", "gone"}

\* A message was alerted once at most, and abroad only after its context ended.
ShownOK ==
    \A m \in Messages :
        \/ shown[m] = << >>
        \/ \E g \in Contexts : shown[m] = <<g>> /\ (g = askedIn[m] \/ state[askedIn[m]] \in Over)

\* The answer to a tap of a live context whose HomeScreen stayed is under way
\* within that context, or was shown.
KeptOK ==
    \A m \in Messages \ unsent :
        Answerable(m) /\ state[askedIn[m]] = "live" /\ askedIn[m] \notin left =>
            /\ mounted[askedIn[m]]
            /\ shown[m] # << >> \/ m \in Native(askedIn[m]) \/ m \in Events(askedIn[m])

IInv == TypeOK /\ ContextsOK /\ QueuesOK /\ MessagesOK /\ ShownOK /\ KeptOK

-----------------------------------------------------------------------------
(* Queues. *)

\* The empty queue.
LEMMA EmptyQueue == Elems(<< >>) = {} /\ Distinct(<< >>)
  BY DEF Elems, Distinct

\* Appending adds one element.
LEMMA AppendQueue ==
    ASSUME NEW S, NEW q \in Seq(S), NEW x \in S
    PROVE  /\ Append(q, x) \in Seq(S)
           /\ Elems(Append(q, x)) = Elems(q) \cup {x}
           /\ Distinct(q) /\ x \notin Elems(q) => Distinct(Append(q, x))
<1>1. /\ Len(q) \in Nat /\ Len(Append(q, x)) = Len(q) + 1
      /\ Append(q, x)[Len(q) + 1] = x
      /\ \A i \in 1..Len(q) : Append(q, x)[i] = q[i]
  OBVIOUS
<1>2. 1..(Len(q) + 1) = (1..Len(q)) \cup {Len(q) + 1}
  BY <1>1
<1>3. Elems(Append(q, x)) = Elems(q) \cup {x}
  BY <1>1, <1>2 DEF Elems
<1>4. ASSUME Distinct(q), x \notin Elems(q) PROVE Distinct(Append(q, x))
  BY <1>1, <1>2, <1>4 DEF Elems, Distinct
<1> QED
  BY <1>3, <1>4

\* Taking the head of a queue without repetitions removes that element.
LEMMA TailQueue ==
    ASSUME NEW S, NEW q \in Seq(S), q # << >>, Distinct(q)
    PROVE  /\ Head(q) \in S /\ Head(q) \in Elems(q) /\ Tail(q) \in Seq(S)
           /\ Elems(Tail(q)) = Elems(q) \ {Head(q)}
           /\ Distinct(Tail(q))
<1>1. /\ Len(q) \in Nat \ {0} /\ Head(q) = q[1] /\ Tail(q) \in Seq(S)
      /\ Len(Tail(q)) = Len(q) - 1
      /\ \A i \in 1..(Len(q) - 1) : Tail(q)[i] = q[i + 1]
  OBVIOUS
<1>2. Head(q) \in S /\ Head(q) \in Elems(q)
  BY <1>1 DEF Elems
<1>3. ASSUME NEW m \in Elems(Tail(q)) PROVE m \in Elems(q) /\ m # Head(q)
  <2>1. PICK i \in 1..(Len(q) - 1) : m = q[i + 1]
    BY <1>1, <1>3 DEF Elems
  <2> QED
    BY <1>1, <2>1 DEF Elems, Distinct
<1>4. ASSUME NEW m \in Elems(q), m # Head(q) PROVE m \in Elems(Tail(q))
  <2>1. PICK i \in 1..Len(q) : m = q[i]
    BY DEF Elems
  <2>2. i - 1 \in 1..(Len(q) - 1) /\ Tail(q)[i - 1] = m
    BY <1>1, <1>4, <2>1
  <2> QED
    BY <1>1, <2>2 DEF Elems
<1>5. Distinct(Tail(q))
  BY <1>1 DEF Distinct
<1> QED
  BY <1>1, <1>2, <1>3, <1>4, <1>5

\* Elements of a queue of messages are messages.
LEMMA QueueType ==
    ASSUME TypeOK, NEW g \in Contexts
    PROVE  Native(g) \subseteq Messages /\ Events(g) \subseteq Messages
  BY DEF TypeOK, Native, Events, Elems

-----------------------------------------------------------------------------
(* The invariant. *)

LEMMA InitInv == Init => IInv
<1> SUFFICES ASSUME Init PROVE IInv
  OBVIOUS
<1> USE AndroidAssumption
<1>1. \A g \in Contexts : Native(g) = {} /\ Events(g) = {}
  BY EmptyQueue DEF Init, Native, Events
<1>2. TypeOK
  BY DEF Init, TypeOK, Contexts, States
<1>3. ContextsOK
  BY DEF Init, ContextsOK, Contexts
<1>4. QueuesOK
  BY <1>1, EmptyQueue DEF Init, QueuesOK
<1> QED
  BY <1>1, <1>2, <1>3, <1>4 DEF Init, IInv, MessagesOK, ShownOK, KeptOK

\* The life of contexts goes one way and leaves screens and messages alone.
LEMMA ReloadInv == ASSUME IInv, Reload PROVE IInv'
<1> USE AndroidAssumption
<1> USE DEF IInv
<1>1. /\ UNCHANGED <<mounts, mounted, left, unsent, askedIn, shown, nativeQ, jsQ>>
      /\ \A g \in Contexts : Native(g)' = Native(g) /\ Events(g)' = Events(g)
  BY DEF Reload, Construct, Initialise, Destroy, screenVars, messageVars, Native, Events
<1>2. /\ context' \in Contexts /\ state' \in [Contexts -> States]
      /\ \A g \in Contexts :
           /\ state[g] \in Over => state'[g] \in Over
           /\ state[g] \in {"live", "destroyed", "gone"} => state'[g] \in {"live", "destroyed", "gone"}
           /\ state[g] \in {"live", "destroyed"} => state'[g] \in {"live", "destroyed"}
           /\ state'[g] = "live" => state[g] \in {"live", "building"}
  <2>1. CASE Construct
    <3>1. context + 1 \in Contexts /\ context + 1 > context
      BY <2>1 DEF Construct, TypeOK, Contexts
    <3>2. state[context + 1] = "none"
      BY <3>1 DEF ContextsOK
    <3> QED
      BY <2>1, <3>1, <3>2 DEF Construct, TypeOK, States, Over
  <2>2. CASE Initialise
    BY <2>2 DEF Initialise, TypeOK, States, Over
  <2>3. CASE Destroy
    BY <2>3 DEF Destroy, TypeOK, States, Over
  <2> QED
    BY <2>1, <2>2, <2>3 DEF Reload
<1>3. TypeOK'
  BY <1>1, <1>2 DEF TypeOK
<1>4. ContextsOK'
  <2>1. \A g \in Contexts : mounted'[g] => state'[g] \in {"live", "destroyed"}
    BY <1>1, <1>2 DEF ContextsOK
  <2>2. CASE Construct
    <3>1. /\ context' = context + 1 /\ context \in Contexts
          /\ \A g \in Contexts : g # context + 1 => state'[g] = state[g]
      BY <2>2 DEF Construct, TypeOK
    <3>2. \A g \in Contexts : g > context' => g > context /\ g # context + 1
      BY <3>1 DEF Contexts
    <3>3. \A g \in Contexts : g < context' => (g < context \/ g = context) /\ g # context + 1
      BY <3>1 DEF Contexts
    <3>4. state[context] \in Over
      BY <2>2 DEF Construct
    <3> QED
      BY <2>1, <3>1, <3>2, <3>3, <3>4 DEF ContextsOK
  <2>3. CASE Initialise \/ Destroy
    <3>1. /\ context' = context /\ context \in Contexts
          /\ \A g \in Contexts : g # context => state'[g] = state[g]
      BY <2>3 DEF Initialise, Destroy, TypeOK
    <3>2. \A g \in Contexts : g > context \/ g < context => g # context
      BY <3>1 DEF Contexts
    <3> QED
      BY <2>1, <3>1, <3>2 DEF ContextsOK
  <2> QED
    BY <2>2, <2>3 DEF Reload
<1>5. QueuesOK'
  BY <1>1 DEF QueuesOK
<1>6. MessagesOK'
  <2>1. \A g \in Contexts : \A m \in Events(g) : askedIn[m] \in Contexts
    BY QueueType DEF MessagesOK
  <2> QED
    BY <1>1, <1>2, <2>1 DEF MessagesOK
<1>7. ShownOK'
  <2>1. ASSUME NEW m \in Messages, shown[m] # << >> PROVE askedIn[m] \in Contexts
    BY <2>1 DEF MessagesOK
  <2> QED
    BY <1>1, <1>2, <2>1 DEF ShownOK
<1>8. KeptOK'
  <2>1. ASSUME NEW m \in Messages \ unsent, state'[askedIn[m]] = "live"
        PROVE  state[askedIn[m]] = "live"
    BY <1>2, <2>1 DEF MessagesOK
  <2> QED
    BY <1>1, <2>1 DEF KeptOK, MessagesOK, Answerable
<1> QED
  BY <1>3, <1>4, <1>5, <1>6, <1>7, <1>8

\* A context that ends takes its own queues along.
LEMMA QuitInv == ASSUME IInv, NEW g \in Contexts, Quit(g) PROVE IInv'
<1> USE DEF IInv
<1>1. /\ state[g] = "destroyed" /\ state' = [state EXCEPT ![g] = "gone"]
      /\ mounted' = [mounted EXCEPT ![g] = FALSE]
      /\ nativeQ' = [nativeQ EXCEPT ![g] = << >>]
      /\ jsQ' = [jsQ EXCEPT ![g] = << >>]
      /\ UNCHANGED <<context, mounts, left, unsent, askedIn, shown>>
  BY DEF Quit, messageVars
<1>2. \A h \in Contexts :
        /\ Native(h)' = IF h = g THEN {} ELSE Native(h)
        /\ Events(h)' = IF h = g THEN {} ELSE Events(h)
        /\ Distinct(nativeQ'[h]) /\ Distinct(jsQ'[h])
  BY <1>1, EmptyQueue DEF TypeOK, QueuesOK, Native, Events
<1>3. \A h \in Contexts :
        /\ state[h] \in Over => state'[h] \in Over
        /\ state[h] \in {"live", "destroyed", "gone"} => state'[h] \in {"live", "destroyed", "gone"}
        /\ state'[h] = "live" => state[h] = "live" /\ h # g
  BY <1>1 DEF TypeOK, Over
<1>4. TypeOK'
  BY <1>1 DEF TypeOK, States
<1>5. ContextsOK'
  BY <1>1, <1>3 DEF TypeOK, ContextsOK, Over, Contexts
<1>6. QueuesOK'
  BY <1>2 DEF QueuesOK
<1>7. MessagesOK'
  <2>1. \A h \in Contexts : \A m \in Events(h) : askedIn[m] \in Contexts
    BY QueueType DEF MessagesOK
  <2> QED
    BY <1>1, <1>2, <1>3, <2>1 DEF MessagesOK
<1>8. ShownOK'
  <2>1. ASSUME NEW m \in Messages, shown[m] # << >> PROVE askedIn[m] \in Contexts
    BY <2>1 DEF MessagesOK
  <2> QED
    BY <1>1, <1>3, <2>1 DEF ShownOK
<1>9. KeptOK'
  <2>1. ASSUME NEW m \in Messages \ unsent, state'[askedIn[m]] = "live"
        PROVE  askedIn[m] \in Contexts /\ state[askedIn[m]] = "live" /\ askedIn[m] # g
    BY <1>3, <2>1 DEF MessagesOK
  <2> QED
    BY <1>1, <1>2, <2>1 DEF KeptOK, Answerable, TypeOK
<1> QED
  BY <1>4, <1>5, <1>6, <1>7, <1>8, <1>9

LEMMA MountInv == ASSUME IInv, NEW g \in Contexts, Mount(g) \/ Unmount(g) PROVE IInv'
<1> USE AndroidAssumption
<1> USE DEF IInv
<1>1. /\ UNCHANGED <<context, state, unsent, askedIn, shown, nativeQ, jsQ>>
      /\ \A h \in Contexts : Native(h)' = Native(h) /\ Events(h)' = Events(h)
  BY DEF Mount, Unmount, messageVars, Native, Events
<1>2. \/ /\ state[g] = "live" /\ mounted' = [mounted EXCEPT ![g] = TRUE] /\ left' = left
         /\ mounts < MaxMounts /\ mounts' = mounts + 1
      \/ /\ mounted' = [mounted EXCEPT ![g] = FALSE] /\ left' = left \cup {g}
         /\ mounts' = mounts
  BY DEF Mount, Unmount
<1>3. TypeOK'
  <2>1. mounts' \in 0..MaxMounts
    BY <1>2 DEF TypeOK
  <2>2. mounted' \in [Contexts -> BOOLEAN] /\ left' \subseteq Contexts
    BY <1>2 DEF TypeOK
  <2> QED
    BY <1>1, <2>1, <2>2 DEF TypeOK
<1>4. ContextsOK'
  BY <1>1, <1>2 DEF TypeOK, ContextsOK
<1>5. QueuesOK'
  BY <1>1 DEF QueuesOK
<1>6. MessagesOK' /\ ShownOK'
  BY <1>1 DEF MessagesOK, ShownOK
<1>7. KeptOK'
  <2>1. \A m \in Messages \ unsent : askedIn[m] \in Contexts
    BY DEF MessagesOK
  <2>2. \A h \in Contexts : h \notin left' => h \notin left /\ (mounted[h] => mounted'[h])
    BY <1>2 DEF TypeOK
  <2> QED
    BY <1>1, <2>1, <2>2 DEF KeptOK, Answerable
<1> QED
  BY <1>3, <1>4, <1>5, <1>6, <1>7

\* A tap puts a fresh message into the queue of its own context.
LEMMA TapInv ==
    ASSUME IInv, NEW g \in Contexts, NEW m \in Messages, ToggleModal(g, m)
    PROVE  IInv'
<1> USE DEF IInv
<1>1. /\ mounted[g] /\ m \in unsent /\ unsent' = unsent \ {m}
      /\ askedIn' = [askedIn EXCEPT ![m] = g]
      /\ nativeQ' = [nativeQ EXCEPT ![g] = Append(@, m)]
      /\ UNCHANGED <<context, state, mounts, mounted, left, shown, jsQ>>
  BY DEF ToggleModal, screenVars
<1>2. m \notin Native(g) /\ \A h \in Contexts : m \notin Events(h)
  BY <1>1 DEF MessagesOK
<1>3. nativeQ[g] \in Seq(Messages)
  BY DEF TypeOK
<1>4. /\ Append(nativeQ[g], m) \in Seq(Messages)
      /\ Elems(Append(nativeQ[g], m)) = Native(g) \cup {m}
      /\ Distinct(Append(nativeQ[g], m))
  BY <1>2, <1>3, AppendQueue DEF QueuesOK, Native
<1>5. \A h \in Contexts :
        /\ Native(h)' = IF h = g THEN Native(g) \cup {m} ELSE Native(h)
        /\ Events(h)' = Events(h)
        /\ Distinct(nativeQ'[h]) /\ Distinct(jsQ'[h])
  BY <1>1, <1>4 DEF TypeOK, QueuesOK, Native, Events
<1>6. \A n \in Messages : askedIn'[n] = IF n = m THEN g ELSE askedIn[n]
  BY <1>1 DEF TypeOK
<1>7. state[g] \in {"live", "destroyed"} /\ shown[m] = << >>
  BY <1>1 DEF ContextsOK, MessagesOK
<1>8. TypeOK'
  BY <1>1, <1>4 DEF TypeOK
<1>9. ContextsOK'
  BY <1>1 DEF ContextsOK
<1>10. QueuesOK'
  BY <1>2, <1>5 DEF QueuesOK
<1>11. MessagesOK'
  <2>1. ASSUME NEW h \in Contexts, NEW n \in Native(h)'
        PROVE  n \notin unsent' /\ askedIn'[n] = h /\ shown'[n] = << >>
    BY <1>1, <1>5, <1>6, <1>7, <2>1, QueueType DEF MessagesOK
  <2>2. ASSUME NEW h \in Contexts, NEW n \in Events(h)'
        PROVE  /\ n \notin unsent' /\ shown'[n] = << >>
               /\ h = askedIn'[n] \/ state'[askedIn'[n]] \in Over
    BY <1>1, <1>2, <1>5, <1>6, <2>2, QueueType DEF MessagesOK
  <2> QED
    BY <1>1, <1>6, <1>7, <2>1, <2>2 DEF MessagesOK
<1>12. ShownOK'
  BY <1>1, <1>6, <1>7 DEF ShownOK
<1>13. KeptOK'
  <2>1. \A n \in Messages \ unsent : askedIn[n] \in Contexts
    BY DEF MessagesOK
  <2> QED
    BY <1>1, <1>5, <1>6, <2>1 DEF KeptOK, Answerable
<1> QED
  BY <1>8, <1>9, <1>10, <1>11, <1>12, <1>13

\* An event leaves its queue and shows its message, unless nobody listens.
LEMMA ReceiveInv == ASSUME IInv, NEW g \in Contexts, ReceiveEvent(g) PROVE IInv'
<1> USE DEF IInv
<1>0. jsQ[g] \in Seq(Messages) /\ jsQ[g] # << >> /\ Distinct(jsQ[g])
  BY DEF ReceiveEvent, TypeOK, QueuesOK
<1>1. PICK m \in Messages : m = Head(jsQ[g]) /\ m \in Events(g)
  BY <1>0, TailQueue DEF Events
<1>2. /\ jsQ' = [jsQ EXCEPT ![g] = Tail(@)]
      /\ shown' = IF mounted[g] THEN [shown EXCEPT ![m] = Append(@, g)] ELSE shown
      /\ UNCHANGED <<context, state, mounts, mounted, left, unsent, askedIn, nativeQ>>
  BY <1>1 DEF ReceiveEvent, screenVars
<1>3. /\ Tail(jsQ[g]) \in Seq(Messages) /\ Elems(Tail(jsQ[g])) = Events(g) \ {m}
      /\ Distinct(Tail(jsQ[g]))
  BY <1>0, <1>1, TailQueue DEF Events
<1>4. \A h \in Contexts :
        /\ Native(h)' = Native(h)
        /\ Events(h)' = IF h = g THEN Events(g) \ {m} ELSE Events(h)
        /\ Distinct(nativeQ'[h]) /\ Distinct(jsQ'[h])
  BY <1>2, <1>3 DEF TypeOK, QueuesOK, Native, Events
<1>5. /\ m \notin unsent /\ shown[m] = << >>
      /\ g = askedIn[m] \/ state[askedIn[m]] \in Over
      /\ askedIn[m] \in Contexts
  BY <1>1 DEF MessagesOK
<1>6. /\ shown'[m] = IF mounted[g] THEN <<g>> ELSE << >>
      /\ \A n \in Messages : n # m => shown'[n] = shown[n]
      /\ shown' \in [Messages -> Seq(Contexts)]
  <2>1. Append(<< >>, g) = <<g>> /\ <<g>> \in Seq(Contexts)
    OBVIOUS
  <2> QED
    BY <1>2, <1>5, <2>1 DEF TypeOK
<1>7. \A h \in Contexts : m \notin Native(h)' /\ m \notin Events(h)'
  BY <1>1, <1>4 DEF QueuesOK
<1>8. TypeOK'
  BY <1>2, <1>3, <1>6 DEF TypeOK
<1>9. ContextsOK'
  BY <1>2 DEF ContextsOK
<1>10. QueuesOK'
  BY <1>4 DEF QueuesOK
<1>11. MessagesOK'
  <2>1. ASSUME NEW h \in Contexts, NEW n \in Native(h)'
        PROVE  n \notin unsent' /\ askedIn'[n] = h /\ shown'[n] = << >>
    BY <1>2, <1>4, <1>6, <1>7, <2>1, QueueType DEF MessagesOK
  <2>2. ASSUME NEW h \in Contexts, NEW n \in Events(h)'
        PROVE  /\ n \notin unsent' /\ shown'[n] = << >>
               /\ h = askedIn'[n] \/ state'[askedIn'[n]] \in Over
    BY <1>2, <1>4, <1>6, <1>7, <2>2, QueueType DEF MessagesOK
  <2>3. \A n \in unsent : n \in Messages /\ n # m
    BY <1>5 DEF TypeOK
  <2> QED
    BY <1>2, <1>5, <1>6, <2>1, <2>2, <2>3 DEF MessagesOK
<1>12. ShownOK'
  BY <1>2, <1>5, <1>6 DEF ShownOK
<1>13. KeptOK'
  <2>1. ASSUME NEW n \in Messages \ unsent, n # m PROVE askedIn[n] \in Contexts
    BY DEF MessagesOK
  <2>2. <<g>> # << >>
    OBVIOUS
  <2>3. mounted[askedIn[m]] /\ state[askedIn[m]] = "live" => shown'[m] # << >>
    BY <1>5, <1>6, <2>2 DEF Over
  <2> QED
    BY <1>2, <1>4, <1>5, <1>6, <2>1, <2>3 DEF KeptOK, Answerable
<1> QED
  BY <1>8, <1>9, <1>10, <1>11, <1>12, <1>13

\* A call leaves its queue; its event, if it gets anywhere, goes to one live
\* context: its own, if that one is still alive.
LEMMA HandleInv == ASSUME IInv, NEW g \in Contexts, HandleMessage(g) PROVE IInv'
<1> USE DEF IInv
<1>0. nativeQ[g] \in Seq(Messages) /\ nativeQ[g] # << >> /\ Distinct(nativeQ[g])
  BY DEF HandleMessage, TypeOK, QueuesOK
<1>1. PICK m \in Messages : m = Head(nativeQ[g]) /\ m \in Native(g)
  BY <1>0, TailQueue DEF Native
<1>2. /\ nativeQ' = [nativeQ EXCEPT ![g] = Tail(@)]
      /\ UNCHANGED <<context, state, mounts, mounted, left, unsent, askedIn, shown>>
      /\ UNCHANGED jsQ \/ \E c \in Visible(g) : sendEventToRn(c, m)
      /\ Answerable(m) => \E c \in Visible(g) : sendEventToRn(c, m)
  <2>1. Shape[m].hobbies \in Nat /\ Shape[m].cities \in Nat
    BY AndroidAssumption DEF Shapes
  <2> QED
    BY <1>1, <2>1 DEF HandleMessage, screenVars, messageVars, Answerable, Throws
<1>3. /\ Tail(nativeQ[g]) \in Seq(Messages) /\ Elems(Tail(nativeQ[g])) = Native(g) \ {m}
      /\ Distinct(Tail(nativeQ[g]))
  BY <1>0, <1>1, TailQueue DEF Native
<1>4. /\ m \notin unsent /\ askedIn[m] = g /\ shown[m] = << >>
      /\ \A h \in Contexts : m \notin Events(h)
      /\ state[g] \in {"live", "destroyed", "gone"}
  BY <1>1 DEF MessagesOK, QueuesOK
<1>5. \A h \in Contexts :
        /\ Native(h)' = IF h = g THEN Native(g) \ {m} ELSE Native(h)
        /\ Distinct(nativeQ'[h])
  BY <1>2, <1>3 DEF TypeOK, QueuesOK, Native
<1>6. ASSUME NEW c \in Visible(g), sendEventToRn(c, m), state[c] = "live"
      PROVE  c \in Contexts /\ (c = g \/ state[g] \in Over) /\ jsQ' = [jsQ EXCEPT ![c] = Append(@, m)]
  <2>1. c \in Contexts
    BY AndroidAssumption DEF Visible, Contexts, TypeOK
  <2>2. c = context
    BY <1>6, <2>1 DEF ContextsOK, Visible, TypeOK, Contexts, Over
  <2>3. g = context \/ g < context
    BY <2>2 DEF Visible, TypeOK, Contexts
  <2> QED
    BY <1>6, <2>1, <2>2, <2>3 DEF ContextsOK, sendEventToRn
<1>7. state[g] = "live" => Visible(g) = {g}
  <2>1. ASSUME state[g] = "live" PROVE g = context
    <3>1. ~(g > context) /\ ~(g < context)
      BY <2>1 DEF ContextsOK, Over
    <3>2. g \in Int /\ context \in Int
      BY DEF TypeOK, Contexts
    <3> QED
      BY <3>1, <3>2
  <2>2. context \in Int => context..context = {context}
    OBVIOUS
  <2> QED
    BY <2>1, <2>2 DEF Visible, TypeOK, Contexts
<1>8. CASE UNCHANGED jsQ
  <2>1. \A h \in Contexts : Events(h)' = Events(h) /\ Distinct(jsQ'[h])
    BY <1>8 DEF Events, QueuesOK
  <2>2. ~(Answerable(m) /\ state[g] = "live")
    <3> SUFFICES ASSUME Answerable(m), state[g] = "live" PROVE FALSE
      OBVIOUS
    <3>1. jsQ' = [jsQ EXCEPT ![g] = Append(@, m)]
      BY <1>2, <1>6, <1>7
    <3>2. jsQ[g] \in Seq(Messages)
      BY DEF TypeOK
    <3>3. jsQ'[g] = Append(jsQ[g], m)
      BY <3>1 DEF TypeOK
    <3>4. Len(jsQ'[g]) = Len(jsQ[g]) + 1 /\ Len(jsQ[g]) \in Nat
      BY <3>2, <3>3
    <3> QED
      BY <1>8, <3>4
  <2>3. TypeOK'
    BY <1>2, <1>3, <1>8 DEF TypeOK
  <2>4. ContextsOK' /\ ShownOK'
    BY <1>2 DEF ContextsOK, ShownOK
  <2>5. QueuesOK'
    BY <1>5, <2>1 DEF QueuesOK
  <2>6. MessagesOK'
    BY <1>2, <1>5, <2>1 DEF MessagesOK
  <2>7. KeptOK'
    <3>1. \A n \in Messages \ unsent : askedIn[n] \in Contexts
      BY DEF MessagesOK
    <3> QED
      BY <1>2, <1>4, <1>5, <2>1, <2>2, <3>1 DEF KeptOK, Answerable
  <2> QED
    BY <2>3, <2>4, <2>5, <2>6, <2>7
<1>9. ASSUME NEW c \in Contexts, c = g \/ state[g] \in Over,
             jsQ' = [jsQ EXCEPT ![c] = Append(@, m)]
      PROVE  IInv'
  <2>1. jsQ[c] \in Seq(Messages) /\ Distinct(jsQ[c]) /\ m \notin Elems(jsQ[c])
    BY <1>4 DEF TypeOK, QueuesOK, Events
  <2>2. /\ Append(jsQ[c], m) \in Seq(Messages)
        /\ Elems(Append(jsQ[c], m)) = Events(c) \cup {m}
        /\ Distinct(Append(jsQ[c], m))
    BY <2>1, AppendQueue DEF Events
  <2>3. \A h \in Contexts :
          /\ Events(h)' = IF h = c THEN Events(c) \cup {m} ELSE Events(h)
          /\ Distinct(jsQ'[h])
    BY <1>9, <2>2 DEF TypeOK, QueuesOK, Events
  <2>4. \A h \in Contexts : m \notin Native(h)'
    BY <1>4, <1>5 DEF MessagesOK
  <2>5. TypeOK'
    BY <1>2, <1>3, <1>9, <2>2 DEF TypeOK
  <2>6. ContextsOK' /\ ShownOK'
    BY <1>2 DEF ContextsOK, ShownOK
  <2>7. QueuesOK'
    BY <1>4, <1>5, <2>3, <2>4 DEF QueuesOK
  <2>8. MessagesOK'
    BY <1>2, <1>4, <1>5, <1>9, <2>3 DEF MessagesOK
  <2>9. KeptOK'
    <3>1. \A n \in Messages \ unsent : askedIn[n] \in Contexts
      BY DEF MessagesOK
    <3>2. state[g] = "live" => m \in Events(g)'
      BY <1>9, <2>3 DEF Over
    <3> QED
      BY <1>2, <1>4, <1>5, <2>3, <3>1, <3>2 DEF KeptOK, Answerable
  <2> QED
    BY <2>5, <2>6, <2>7, <2>8, <2>9
<1> QED
  BY <1>2, <1>6, <1>8, <1>9 DEF sendEventToRn

LEMMA NextInv == IInv /\ [Next]_vars => IInv'
<1> SUFFICES ASSUME IInv, [Next]_vars PROVE IInv'
  OBVIOUS
<1>1. CASE Reload
  BY <1>1, ReloadInv
<1>2. ASSUME NEW g \in Contexts,
             Quit(g) \/ ScreenStep(g) \/ ReceiveEvent(g) \/ HandleMessage(g)
      PROVE  IInv'
  BY <1>2, QuitInv, MountInv, TapInv, ReceiveInv, HandleInv DEF ScreenStep
<1>3. CASE UNCHANGED vars
  <2>1. UNCHANGED <<context, state, mounts, mounted, left, unsent, askedIn, shown, nativeQ, jsQ>>
    BY <1>3 DEF vars, screenVars, messageVars
  <2> QED
    BY <2>1 DEF IInv, TypeOK, ContextsOK, QueuesOK, MessagesOK, ShownOK, KeptOK, Native,
                Events, Answerable
<1> QED
  BY <1>1, <1>2, <1>3 DEF Next

\* Every reachable state satisfies the invariant: a message is in one place,
\* and the thread of a live context serves that context.
THEOREM Invariance == Spec => []IInv
  BY InitInv, NextInv, PTL DEF Spec

-----------------------------------------------------------------------------
(* The properties. *)

\* The type invariant holds for any messages and any number of reloads.
THEOREM TypeCorrect == Spec => []TypeOK
<1> IInv => TypeOK
  BY DEF IInv
<1> QED
  BY Invariance, PTL

\* No answer gets lost between a live context and its HomeScreen
\* (XpjxModule.java:28-44, 57-113).
THEOREM LossesExplained == Spec => []LossExplained
<1>1. IInv => LossExplained
  <2> SUFFICES ASSUME IInv, NEW m \in Messages \ unsent, Answerable(m),
                      ~Queued(nativeQ, m), ~Queued(jsQ, m), shown[m] = << >>,
                      state[askedIn[m]] \notin Over, askedIn[m] \notin left
               PROVE  FALSE
    BY DEF LossExplained
  <2>1. askedIn[m] \in Contexts /\ state[askedIn[m]] = "live"
    BY DEF IInv, MessagesOK, Over
  <2>2. m \in Native(askedIn[m]) \/ m \in Events(askedIn[m])
    BY <2>1 DEF IInv, KeptOK
  <2> QED
    BY <2>1, <2>2 DEF Native, Events, Elems, Queued
<1> QED
  BY <1>1, Invariance, PTL

\* An answer strays into another context only after the asking one was
\* destroyed (XpjxModule.java:28, 34, 43).
THEOREM StraysExplained == Spec => []AbroadExplained
<1>1. IInv => AbroadExplained
  BY DEF IInv, ShownOK, AbroadExplained
<1> QED
  BY <1>1, Invariance, PTL

\* The taps implement the safety part of one-shot calls: alerted once at most,
\* after the tap, and for good (HomeScreen.js:56-72, XpjxModule.java:57-113).
THEOREM RefinesOneShotCalls == Spec => ImplementsOneShotCalls
<1>1. Init => Calls!Init
  BY DEF Init, Calls!Init
<1>2. IInv /\ [Next]_vars => [Calls!Next]_Calls!vars
  <2> SUFFICES ASSUME IInv, [Next]_vars PROVE [Calls!Next]_Calls!vars
    OBVIOUS
  <2>1. ASSUME NEW g \in Contexts, NEW m \in Messages, ToggleModal(g, m)
        PROVE  Calls!Ask(m)
    BY <2>1 DEF ToggleModal, Calls!Ask, IInv, TypeOK
  <2>2. ASSUME NEW g \in Contexts, ReceiveEvent(g)
        PROVE  [Calls!Next]_Calls!vars
    <3>1. jsQ[g] \in Seq(Messages) /\ jsQ[g] # << >> /\ Distinct(jsQ[g])
      BY <2>2 DEF ReceiveEvent, IInv, TypeOK, QueuesOK
    <3>2. PICK m \in Messages : m = Head(jsQ[g]) /\ m \in Events(g)
      BY <3>1, TailQueue DEF Events
    <3>3. m \notin unsent /\ shown[m] = << >>
      BY <3>2 DEF IInv, MessagesOK
    <3>4. CASE mounted[g]
      <4>1. shown' = [shown EXCEPT ![m] = Append(@, g)] /\ unsent' = unsent
        BY <2>2, <3>2, <3>4 DEF ReceiveEvent
      <4>2. Append(<< >>, g) = <<g>>
        OBVIOUS
      <4>3. shown' = [shown EXCEPT ![m] = <<g>>]
        BY <3>3, <4>1, <4>2
      <4>4. Calls!Answer(m, <<g>>)
        BY <3>3, <4>1, <4>3 DEF Calls!Answer
      <4> QED
        BY <4>4 DEF Calls!Next
    <3>5. CASE ~mounted[g]
      BY <2>2, <3>5 DEF ReceiveEvent, Calls!vars
    <3> QED
      BY <3>4, <3>5
  <2>3. ASSUME NEW g \in Contexts, Quit(g) \/ Mount(g) \/ Unmount(g) \/ HandleMessage(g)
        PROVE  UNCHANGED Calls!vars
    BY <2>3 DEF Quit, Mount, Unmount, HandleMessage, messageVars, Calls!vars
  <2>4. CASE Reload \/ UNCHANGED vars
    BY <2>4 DEF Reload, Construct, Initialise, Destroy, vars, messageVars, Calls!vars
  <2> QED
    BY <2>1, <2>2, <2>3, <2>4 DEF Next, ScreenStep, Calls!Next
<1> QED
  BY <1>1, <1>2, Invariance, PTL DEF Spec, Calls!Spec, ImplementsOneShotCalls

=============================================================================
