------------------------ MODULE NetworkActivityProofs ------------------------
(***************************************************************************)
(* Proofs about NetworkActivity, for any set of workers, buttons and       *)
(* replies and any number of activity instances.                           *)
(*                                                                         *)
(* None of the safety properties is inductive.  IInv adds to them what a   *)
(* worker's program counter says of its data: which workers have a reply   *)
(* (BodyOK) and which have stored a bean (StoredOK); that the looper's     *)
(* queue holds posted workers only, each once (QueueOK), and all of them   *)
(* (PostedOK); and that a text view shows only finished workers            *)
(* (ShownAreDone), so that a click, which gives an idle worker its owner,  *)
(* cannot change who owns a text on screen.                                *)
(***************************************************************************)
EXTENDS NetworkActivity, TLAPS

NoBodyYet == {"idle", "executing", "ended"}

BodyOK == \A w \in Workers : (pc[w] \in NoBodyYet) <=> (body[w] = NoReply)

Logging == {"scalars", "computer", "phone"}

StoredOK ==
    \A w \in Workers : pc[w] \in Logging => num[w] = 1 /\ stored[w] # Unset

QueueOK ==
    /\ \A i \in 1..Len(uiQueue) : pc[uiQueue[i]] = "posted"
    /\ \A i, j \in 1..Len(uiQueue) : uiQueue[i] = uiQueue[j] => i = j

PostedOK ==
    \A w \in Workers :
        pc[w] = "posted" => \E i \in 1..Len(uiQueue) : uiQueue[i] = w

ShownAreDone == \A a \in Activities : tv[a] # Blank => pc[tv[a]] = "done"

IInv ==
    /\ TypeOK
    /\ BodyOK
    /\ StoredOK
    /\ QueueOK
    /\ PostedOK
    /\ ShownAreDone
    /\ ShownByOwner
    /\ CrashExplained

-----------------------------------------------------------------------------
(* Lemmas about the decoder. *)

\* getItem yields a bean or null, whatever the server sent.
LEMMA GetItemType ==
    ASSUME NEW r \in Replies
    PROVE  getItem(r.data) \in Bean
<1>1. r \in Reply
  BY NetworkAssumption
<1>2. WellFormed(r.data)
  BY <1>1 DEF Reply
<1> QED
  BY <1>2 DEF WellFormed, getItem, Bean

\* A bean on which a log expression of case 1 fails is incomplete.
LEMMA LoggableComplete ==
    ASSUME NEW part, NEW b, ~Loggable(part, b)
    PROVE  ~Complete(b)
  BY DEF Loggable, Complete

-----------------------------------------------------------------------------
(* The invariant holds initially and is preserved. *)

LEMMA InitInv == Init => IInv
<1> SUFFICES ASSUME Init PROVE IInv
  OBVIOUS
<1> USE NetworkAssumption DEF Init
<1>1. TypeOK
  BY DEF TypeOK, Activities, PCs
<1>2. BodyOK /\ StoredOK /\ QueueOK /\ PostedOK
  BY DEF BodyOK, NoBodyYet, StoredOK, Logging, QueueOK, PostedOK
<1>3. ShownAreDone /\ ShownByOwner /\ CrashExplained
  BY DEF ShownAreDone, ShownByOwner, CrashExplained
<1> QED
  BY <1>1, <1>2, <1>3 DEF IInv

\* The steps that change no worker: they disturb the text views at most.
LEMMA ScreenStepInv ==
    ASSUME IInv, Clear \/ OpenMain \/ ComeBack \/ Recreate
    PROVE  IInv'
<1> USE NetworkAssumption
<1>1. UNCHANGED <<uiQueue, pc, workerVars, crashed>>
  BY DEF Clear, OpenMain, ComeBack, Recreate
<1>2. \A a \in Activities : tv'[a] \in {tv[a], Blank}
  BY DEF IInv, TypeOK, Clear, OpenMain, ComeBack, Recreate, Activities
<1>3. TypeOK'
  BY <1>1 DEF IInv, TypeOK, Clear, OpenMain, ComeBack, Recreate, workerVars
<1>4. (BodyOK /\ StoredOK /\ QueueOK /\ PostedOK)'
  BY <1>1 DEF IInv, BodyOK, StoredOK, QueueOK, PostedOK, workerVars
<1>5. (ShownAreDone /\ ShownByOwner)'
  BY <1>1, <1>2 DEF IInv, ShownAreDone, ShownByOwner, workerVars
<1>6. CrashExplained'
  BY <1>1 DEF IInv, CrashExplained, Racing, workerVars
<1> QED
  BY <1>3, <1>4, <1>5, <1>6 DEF IInv

\* A click turns an idle worker, which no text view shows, no queue holds and
\* no other worker reads a bean of, into a busy one.
LEMMA ClickInv ==
    ASSUME IInv, NEW w \in Workers, NEW n \in Buttons, Click(w, n)
    PROVE  IInv'
<1> USE NetworkAssumption
<1>1. /\ pc[w] = "idle" /\ Running
      /\ pc' = [pc EXCEPT ![w] = "executing"]
      /\ num' = [num EXCEPT ![w] = n]
      /\ owner' = [owner EXCEPT ![w] = activity]
      /\ before' = [before EXCEPT ![w] = {u \in Workers : pc[u] = "done"}]
      /\ UNCHANGED <<activity, foreground, tv, uiQueue, body, stored, crashed>>
  BY DEF Click, Step, screenVars
<1>2. TypeOK'
  BY <1>1 DEF IInv, TypeOK, PCs
<1>3. BodyOK'
  BY <1>1 DEF IInv, TypeOK, BodyOK, NoBodyYet
<1>4. StoredOK'
  BY <1>1 DEF IInv, TypeOK, StoredOK, Logging
<1>5. (QueueOK /\ PostedOK)'
  BY <1>1 DEF IInv, TypeOK, QueueOK, PostedOK
<1>6. (ShownAreDone /\ ShownByOwner)'
  BY <1>1 DEF IInv, TypeOK, ShownAreDone, ShownByOwner
<1>7. CrashExplained'
  BY <1>1 DEF CrashExplained, Running
<1> QED
  BY <1>2, <1>3, <1>4, <1>5, <1>6, <1>7 DEF IInv

\* The looper shows the head of its queue, a posted worker that occurs nowhere
\* else in the queue.
LEMMA RunOnUiThreadInv == ASSUME IInv, RunOnUiThread PROVE IInv'
<1> USE NetworkAssumption
<1> DEFINE h == Head(uiQueue)
<1>1. /\ Running /\ uiQueue # << >>
      /\ tv' = [tv EXCEPT ![owner[h]] = h]
      /\ pc' = [pc EXCEPT ![h] = "done"]
      /\ uiQueue' = Tail(uiQueue)
      /\ UNCHANGED <<activity, foreground, num, owner, body, stored, before, crashed>>
  BY DEF RunOnUiThread, workerVars
<1>2. /\ h \in Workers /\ h = uiQueue[1] /\ pc[h] = "posted"
      /\ uiQueue \in Seq(Workers) /\ Len(uiQueue) \in Nat \ {0}
  BY <1>1 DEF IInv, TypeOK, QueueOK
<1>3. TypeOK'
  BY <1>1, <1>2 DEF IInv, TypeOK, PCs
<1>4. BodyOK'
  BY <1>1, <1>2 DEF IInv, TypeOK, BodyOK, NoBodyYet
<1>5. StoredOK'
  BY <1>1, <1>2 DEF IInv, TypeOK, StoredOK, Logging
<1>6. (QueueOK /\ PostedOK)'
  <2>1. /\ Len(uiQueue') = Len(uiQueue) - 1
        /\ \A i \in 1..Len(uiQueue') : uiQueue'[i] = uiQueue[i + 1]
    BY <1>1, <1>2
  <2>2. ASSUME NEW i \in 1..Len(uiQueue')
        PROVE  uiQueue'[i] \in Workers /\ uiQueue'[i] # h
    <3>1. i + 1 \in 1..Len(uiQueue) /\ 1 \in 1..Len(uiQueue) /\ i + 1 # 1
      BY <1>2, <2>1
    <3>2. uiQueue'[i] = uiQueue[i + 1] /\ uiQueue[i + 1] \in Workers
      BY <1>2, <2>1, <3>1
    <3>3. uiQueue[i + 1] # uiQueue[1]
      BY <3>1 DEF IInv, QueueOK
    <3> QED
      BY <1>2, <3>2, <3>3
  <2>3. \A i \in 1..Len(uiQueue') : pc'[uiQueue'[i]] = "posted"
    BY <1>1, <1>2, <2>1, <2>2 DEF IInv, TypeOK, QueueOK
  <2>4. \A i, j \in 1..Len(uiQueue') : uiQueue'[i] = uiQueue'[j] => i = j
    BY <1>2, <2>1 DEF IInv, QueueOK
  <2>5. ASSUME NEW w \in Workers, pc'[w] = "posted"
        PROVE  \E i \in 1..Len(uiQueue') : uiQueue'[i] = w
    <3>1. w # h /\ pc[w] = "posted"
      BY <1>1, <1>2, <2>5 DEF IInv, TypeOK
    <3>2. PICK i \in 1..Len(uiQueue) : uiQueue[i] = w
      BY <3>1 DEF IInv, PostedOK
    <3>3. i - 1 \in 1..Len(uiQueue') /\ (i - 1) + 1 = i
      BY <1>2, <2>1, <3>1, <3>2
    <3> QED
      BY <2>1, <3>2, <3>3
  <2> QED
    BY <2>3, <2>4, <2>5 DEF QueueOK, PostedOK
<1>7. (ShownAreDone /\ ShownByOwner)'
  BY <1>1, <1>2 DEF IInv, TypeOK, ShownAreDone, ShownByOwner
<1>8. CrashExplained'
  BY <1>1 DEF CrashExplained, Running
<1> QED
  BY <1>3, <1>4, <1>5, <1>6, <1>7, <1>8 DEF IInv
-----------------------------------------------------------------------------
(* The steps of a worker. *)

\* A worker that is neither queued nor shown yet may change its control state
\* without harm to the queue and the screen.
LEMMA WorkerFrame ==
    ASSUME IInv, NEW w \in Workers, pc[w] \notin {"posted", "done"},
           NEW c \in PCs \ {"posted"}, pc' = [pc EXCEPT ![w] = c],
           UNCHANGED <<screenVars, uiQueue, owner, before>>
    PROVE  (QueueOK /\ PostedOK /\ ShownAreDone /\ ShownByOwner)'
<1> USE NetworkAssumption DEF screenVars
<1>1. (QueueOK /\ PostedOK)'
  BY DEF IInv, TypeOK, QueueOK, PostedOK
<1>2. (ShownAreDone /\ ShownByOwner)'
  BY DEF IInv, TypeOK, ShownAreDone, ShownByOwner
<1> QED
  BY <1>1, <1>2

LEMMA RequestFailsInv ==
    ASSUME IInv, NEW w \in Workers, RequestFails(w)
    PROVE  IInv'
<1>1. /\ Running /\ pc[w] = "executing" /\ pc' = [pc EXCEPT ![w] = "ended"]
      /\ UNCHANGED <<screenVars, uiQueue, num, owner, body, stored, before, crashed>>
  BY DEF RequestFails, Step, workerVars
<1>2. TypeOK'
  BY <1>1 DEF IInv, TypeOK, PCs, screenVars
<1>3. (BodyOK /\ StoredOK)'
  BY <1>1 DEF IInv, TypeOK, BodyOK, NoBodyYet, StoredOK, Logging
<1>4. (QueueOK /\ PostedOK /\ ShownAreDone /\ ShownByOwner)'
  BY <1>1, WorkerFrame DEF PCs
<1>5. CrashExplained'
  BY <1>1 DEF CrashExplained, Running
<1> QED
  BY <1>2, <1>3, <1>4, <1>5 DEF IInv

LEMMA RespondInv ==
    ASSUME IInv, NEW w \in Workers, NEW r \in Replies, Respond(w, r)
    PROVE  IInv'
<1>1. /\ Running /\ pc[w] = "executing" /\ pc' = [pc EXCEPT ![w] = "received"]
      /\ body' = [body EXCEPT ![w] = r]
      /\ UNCHANGED <<screenVars, uiQueue, num, owner, stored, before, crashed>>
  BY DEF Respond, Step
<1>2. TypeOK'
  BY <1>1 DEF IInv, TypeOK, PCs, screenVars
<1>3. (BodyOK /\ StoredOK)'
  BY <1>1, NetworkAssumption DEF IInv, TypeOK, BodyOK, NoBodyYet, StoredOK, Logging
<1>4. (QueueOK /\ PostedOK /\ ShownAreDone /\ ShownByOwner)'
  BY <1>1, WorkerFrame DEF PCs
<1>5. CrashExplained'
  BY <1>1 DEF CrashExplained, Running
<1> QED
  BY <1>2, <1>3, <1>4, <1>5 DEF IInv

LEMMA ParseFailsInv ==
    ASSUME IInv, NEW w \in Workers, ParseFails(w)
    PROVE  IInv'
<1>1. /\ Running /\ pc[w] = "received" /\ pc' = [pc EXCEPT ![w] = "posting"]
      /\ UNCHANGED <<screenVars, uiQueue, num, owner, body, stored, before, crashed>>
  BY DEF ParseFails, Step, workerVars
<1>2. TypeOK'
  BY <1>1 DEF IInv, TypeOK, PCs, screenVars
<1>3. (BodyOK /\ StoredOK)'
  BY <1>1 DEF IInv, TypeOK, BodyOK, NoBodyYet, StoredOK, Logging
<1>4. (QueueOK /\ PostedOK /\ ShownAreDone /\ ShownByOwner)'
  BY <1>1, WorkerFrame DEF PCs
<1>5. CrashExplained'
  BY <1>1 DEF CrashExplained, Running
<1> QED
  BY <1>2, <1>3, <1>4, <1>5 DEF IInv

LEMMA DecodeListInv ==
    ASSUME IInv, NEW w \in Workers, DecodeList(w)
    PROVE  IInv'
<1>1. /\ Running /\ pc[w] = "received" /\ num[w] = 2
      /\ UNCHANGED <<screenVars, uiQueue, num, owner, body, stored, before>>
  BY DEF DecodeList, workerVars
<1>2. PICK c \in {"crashed", "posting"} : pc' = [pc EXCEPT ![w] = c]
  BY DEF DecodeList, Crash
<1>3. TypeOK'
  <2>1. crashed' \in Workers \cup {NoWorker}
    BY DEF IInv, TypeOK, DecodeList, Crash
  <2> QED
    BY <1>1, <1>2, <2>1 DEF IInv, TypeOK, PCs, screenVars
<1>4. (BodyOK /\ StoredOK)'
  BY <1>1, <1>2 DEF IInv, TypeOK, BodyOK, NoBodyYet, StoredOK, Logging
<1>5. (QueueOK /\ PostedOK /\ ShownAreDone /\ ShownByOwner)'
  BY <1>1, <1>2, WorkerFrame DEF PCs
<1>6. CrashExplained'
  <2>1. CASE FirstMissing(getItemList(body[w].data))
    BY <1>1, <2>1 DEF DecodeList, Crash, CrashExplained
  <2>2. CASE ~FirstMissing(getItemList(body[w].data))
    BY <1>1, <2>2 DEF DecodeList, Running, CrashExplained
  <2> QED
    BY <2>1, <2>2
<1> QED
  BY <1>3, <1>4, <1>5, <1>6 DEF IInv

LEMMA StoreBeanInv ==
    ASSUME IInv, NEW w \in Workers, StoreBean(w)
    PROVE  IInv'
<1> DEFINE c == IF num[w] = 1 THEN "scalars" ELSE "posting"
<1> DEFINE b == getItem(body[w].data)
<1>1. /\ Running /\ pc[w] = "received" /\ pc' = [pc EXCEPT ![w] = c]
      /\ stored' = [stored EXCEPT ![w] = b]
      /\ UNCHANGED <<screenVars, uiQueue, num, owner, body, before, crashed>>
  BY DEF StoreBean, Step
<1>2. body[w] \in Replies
  BY <1>1 DEF IInv, TypeOK, BodyOK, NoBodyYet
<1>3. b \in Bean /\ b # Unset
  BY <1>2, GetItemType, NetworkAssumption
<1>4. TypeOK'
  BY <1>1, <1>3 DEF IInv, TypeOK, PCs, screenVars
<1>5. (BodyOK /\ StoredOK)'
  BY <1>1, <1>3 DEF IInv, TypeOK, BodyOK, NoBodyYet, StoredOK, Logging
<1>6. (QueueOK /\ PostedOK /\ ShownAreDone /\ ShownByOwner)'
  BY <1>1, WorkerFrame DEF PCs
<1>7. CrashExplained'
  BY <1>1 DEF CrashExplained, Running
<1> QED
  BY <1>4, <1>5, <1>6, <1>7 DEF IInv

\* A failing log statement read a bean that its own worker or one that it
\* does not come after had stored.
LEMMA LogBeanInv ==
    ASSUME IInv, NEW w \in Workers, LogBean(w)
    PROVE  IInv'
<1>1. /\ Running /\ pc[w] \in Logging
      /\ UNCHANGED <<screenVars, uiQueue, num, owner, body, stored, before>>
  BY DEF LogBean, workerVars, Follows, Logging
<1>2. PICK c \in {"computer", "phone", "posting", "crashed"} :
        pc' = [pc EXCEPT ![w] = c]
  BY <1>1 DEF LogBean, Crash, Follows, Logging
<1>3. TypeOK'
  <2>1. crashed' \in Workers \cup {NoWorker}
    BY DEF IInv, TypeOK, LogBean, Crash
  <2> QED
    BY <1>1, <1>2, <2>1 DEF IInv, TypeOK, PCs, screenVars
<1>4. (BodyOK /\ StoredOK)'
  BY <1>1, <1>2 DEF IInv, TypeOK, BodyOK, NoBodyYet, StoredOK, Logging
<1>5. (QueueOK /\ PostedOK /\ ShownAreDone /\ ShownByOwner)'
  BY <1>1, <1>2, WorkerFrame DEF PCs, Logging
<1>6. CrashExplained'
  <2>1. PICK b \in Visible(w) :
          \/ UNCHANGED crashed
          \/ ~Loggable(pc[w], b) /\ crashed' = w
    BY DEF LogBean, Crash
  <2>2. CASE UNCHANGED crashed
    BY <1>1, <2>2 DEF Running, CrashExplained
  <2>3. CASE ~Loggable(pc[w], b) /\ crashed' = w
    <3>1. num[w] = 1
      BY <1>1 DEF IInv, StoredOK
    <3>2. CASE b = stored[w]
      BY <1>1, <2>3, <3>1, <3>2, LoggableComplete DEF CrashExplained
    <3>3. CASE b # stored[w]
      <4>1. Racing(w) # {}
        BY <3>3 DEF Visible
      <4> QED
        BY <1>1, <2>3, <3>1, <4>1 DEF CrashExplained, Racing
    <3> QED
      BY <3>2, <3>3
  <2> QED
    BY <2>1, <2>2, <2>3
<1> QED
  BY <1>3, <1>4, <1>5, <1>6 DEF IInv

LEMMA ShowResponseInv ==
    ASSUME IInv, NEW w \in Workers, ShowResponse(w)
    PROVE  IInv'
<1> USE NetworkAssumption
<1>1. /\ Running /\ pc[w] = "posting" /\ pc' = [pc EXCEPT ![w] = "posted"]
      /\ uiQueue' = Append(uiQueue, w)
      /\ UNCHANGED <<screenVars, num, owner, body, stored, before, crashed>>
  BY DEF ShowResponse, Step, workerVars
<1>2. uiQueue \in Seq(Workers) /\ Len(uiQueue) \in Nat
  BY DEF IInv, TypeOK
<1>3. TypeOK'
  BY <1>1 DEF IInv, TypeOK, PCs, screenVars
<1>4. (BodyOK /\ StoredOK)'
  BY <1>1 DEF IInv, TypeOK, BodyOK, NoBodyYet, StoredOK, Logging
<1>5. (QueueOK /\ PostedOK)'
  <2>1. /\ Len(uiQueue') = Len(uiQueue) + 1
        /\ uiQueue'[Len(uiQueue) + 1] = w
        /\ \A i \in 1..Len(uiQueue) :
             uiQueue'[i] = uiQueue[i] /\ uiQueue[i] \in Workers /\ uiQueue[i] # w
    BY <1>1, <1>2 DEF IInv, QueueOK
  <2>2. \A i \in 1..Len(uiQueue') : pc'[uiQueue'[i]] = "posted"
    BY <1>1, <1>2, <2>1 DEF IInv, TypeOK, QueueOK
  <2>3. \A i, j \in 1..Len(uiQueue') : uiQueue'[i] = uiQueue'[j] => i = j
    BY <1>2, <2>1 DEF IInv, QueueOK
  <2>4. ASSUME NEW u \in Workers, pc'[u] = "posted"
        PROVE  \E i \in 1..Len(uiQueue') : uiQueue'[i] = u
    <3>1. CASE u = w
      BY <1>2, <2>1, <3>1
    <3>2. CASE u # w
      <4>1. PICK i \in 1..Len(uiQueue) : uiQueue[i] = u
        BY <1>1, <2>4, <3>2 DEF IInv, TypeOK, PostedOK
      <4> QED
        BY <1>2, <2>1, <4>1
    <3> QED
      BY <3>1, <3>2
  <2> QED
    BY <2>2, <2>3, <2>4 DEF QueueOK, PostedOK
<1>6. (ShownAreDone /\ ShownByOwner)'
  BY <1>1 DEF IInv, TypeOK, ShownAreDone, ShownByOwner, screenVars
<1>7. CrashExplained'
  BY <1>1 DEF CrashExplained, Running
<1> QED
  BY <1>3, <1>4, <1>5, <1>6, <1>7 DEF IInv
-----------------------------------------------------------------------------
(* The theorems. *)

LEMMA NextInv == IInv /\ [Next]_vars => IInv'
<1> SUFFICES ASSUME IInv, [Next]_vars PROVE IInv'
  OBVIOUS
<1>1. ASSUME NEW w \in Workers, NEW n \in Buttons, Click(w, n) PROVE IInv'
  BY <1>1, ClickInv
<1>2. CASE Clear \/ OpenMain \/ ComeBack \/ Recreate
  BY <1>2, ScreenStepInv
<1>3. CASE RunOnUiThread
  BY <1>3, RunOnUiThreadInv
<1>4. ASSUME NEW w \in Workers, WorkerStep(w) PROVE IInv'
  BY <1>4, RequestFailsInv, RespondInv, ParseFailsInv, DecodeListInv,
     StoreBeanInv, LogBeanInv, ShowResponseInv DEF WorkerStep
<1>5. CASE UNCHANGED vars
  BY <1>5 DEF vars, screenVars, workerVars, IInv, TypeOK, BodyOK, StoredOK,
     QueueOK, PostedOK, ShownAreDone, ShownByOwner, CrashExplained, Racing
<1> QED
  BY <1>1, <1>2, <1>3, <1>4, <1>5 DEF Next, User

\* Every reachable state satisfies the inductive invariant.
THEOREM Invariance == Spec => []IInv
  BY InitInv, NextInv, PTL DEF Spec

\* Variables keep their types: in particular decoding never stores anything
\* but a bean or null in singlePersonBean.
THEOREM TypeCorrect == Spec => []TypeOK
<1>1. IInv => TypeOK
  BY DEF IInv
<1> QED
  BY <1>1, Invariance, PTL

\* The process dies only for the three reasons of CrashExplained, whatever the
\* number of overlapping requests (NetworkActivity.java:154-160).
THEOREM CrashesAreExplained == Spec => []CrashExplained
<1>1. IInv => CrashExplained
  BY DEF IInv
<1> QED
  BY <1>1, Invariance, PTL

\* A text view shows only replies asked for by its own activity instance
\* (NetworkActivity.java:198-203).
THEOREM RepliesReachTheirOwner == Spec => []ShownByOwner
<1>1. IInv => ShownByOwner
  BY DEF IInv
<1> QED
  BY <1>1, Invariance, PTL

\* A thread that ends quietly had received no reply
\* (NetworkActivity.java:146-192).
THEOREM NoReplyIsDropped == Spec => []NoReplyDropped
<1>1. IInv => NoReplyDropped
  BY DEF IInv, BodyOK, NoBodyYet, NoReplyDropped
<1> QED
  BY <1>1, Invariance, PTL

\* The looper's queue holds the posted replies, each of them once, for any
\* number of threads that post while it drains (NetworkActivity.java:197-204).
THEOREM NoReplyIsLost == Spec => []RepliesWaitOnce
<1>1. IInv => RepliesWaitOnce
  <2> SUFFICES ASSUME IInv PROVE RepliesWaitOnce
    OBVIOUS
  <2>1. uiQueue \in Seq(Workers) /\ DOMAIN uiQueue = 1..Len(uiQueue)
    BY DEF IInv, TypeOK
  <2>2. \A i \in 1..Len(uiQueue) : uiQueue[i] \in Workers
    BY <2>1
  <2>3. {uiQueue[i] : i \in DOMAIN uiQueue} \subseteq {w \in Workers : pc[w] = "posted"}
    BY <2>1, <2>2 DEF IInv, QueueOK
  <2>4. {w \in Workers : pc[w] = "posted"} \subseteq {uiQueue[i] : i \in DOMAIN uiQueue}
    BY <2>1 DEF IInv, PostedOK
  <2> QED
    BY <2>1, <2>3, <2>4 DEF IInv, QueueOK, RepliesWaitOnce
<1> QED
  BY <1>1, Invariance, PTL

\* A reply that left the screen never comes back to it: no worker is ever
\* queued again once its runnable has run (NetworkActivity.java:197-204).
THEOREM NothingResurrects == Spec => NoResurrection
<1> DEFINE Stays == \A a \in Activities, w \in Workers :
                      pc[w] = "done" /\ tv[a] # w => tv'[a] # w
<1>1. IInv /\ [Next]_vars => [Stays]_vars
  <2> SUFFICES ASSUME IInv, Next PROVE Stays
    OBVIOUS
  <2>1. CASE User
    <3>1. \A a \in Activities : tv'[a] \in {tv[a], Blank}
      BY <2>1 DEF IInv, TypeOK, User, Click, Clear, OpenMain, ComeBack, Recreate,
         screenVars, Activities
    <3> QED
      BY <3>1, NetworkAssumption
  <2>2. CASE RunOnUiThread
    <3>1. pc[Head(uiQueue)] = "posted"
      BY <2>2 DEF RunOnUiThread, IInv, TypeOK, QueueOK
    <3>2. \A a \in Activities : tv'[a] \in {tv[a], Head(uiQueue)}
      BY <2>2 DEF RunOnUiThread, IInv, TypeOK
    <3> QED
      BY <3>1, <3>2
  <2>3. ASSUME NEW w \in Workers, WorkerStep(w) PROVE Stays
    <3>1. UNCHANGED tv
      BY <2>3 DEF WorkerStep, RequestFails, Respond, ParseFails, DecodeList,
         StoreBean, LogBean, ShowResponse, screenVars
    <3> QED
      BY <3>1
  <2> QED
    BY <2>1, <2>2, <2>3 DEF Next
<1> QED
  BY <1>1, Invariance, PTL DEF Spec, NoResurrection
-----------------------------------------------------------------------------
(* Refinement. *)

Busy == PCs \ {"idle", "posted", "done", "ended", "crashed"}

\* A step of a worker other than a failing call either leaves it busy or
\* posted, or crashes it and the process.
LEMMA StepOfBusyWorker ==
    ASSUME IInv, NEW w \in Workers, WorkerStep(w), ~RequestFails(w)
    PROVE  /\ Running /\ pc[w] \in Busy
           /\ \/ /\ crashed' = crashed
                 /\ \E c \in Busy \cup {"posted"} : pc' = [pc EXCEPT ![w] = c]
              \/ /\ crashed' = w
                 /\ pc' = [pc EXCEPT ![w] = "crashed"]
<1> USE DEF Busy, PCs, Step, Crash
<1>1. ASSUME NEW r \in Replies, Respond(w, r)
      PROVE  /\ Running /\ pc[w] = "executing" /\ crashed' = crashed
             /\ pc' = [pc EXCEPT ![w] = "received"]
  BY <1>1 DEF Respond
<1>2. CASE ParseFails(w)
  BY <1>2 DEF ParseFails
<1>3. CASE DecodeList(w)
  BY <1>3 DEF DecodeList
<1>4. CASE StoreBean(w)
  BY <1>4 DEF StoreBean
<1>5. CASE LogBean(w)
  BY <1>5 DEF LogBean, Follows
<1>6. CASE ShowResponse(w)
  BY <1>6 DEF ShowResponse
<1> QED
  BY <1>1, <1>2, <1>3, <1>4, <1>5, <1>6 DEF WorkerStep

\* The initial state and every step of the screen are those of one-shot calls:
\* a click asks, the runnable and a failing call answer, an exception kills,
\* everything else is invisible (NetworkActivity.java:127-204).
THEOREM RefinesOneShotCalls == Spec => Calls!Spec
<1>1. Init => Calls!Init
  BY DEF Init, Calls!Init, Running, AnswerTo
<1>2. IInv /\ [Next]_vars => [Calls!Next]_Calls!vars
  <2> SUFFICES ASSUME IInv, [Next]_vars
               PROVE  [Calls!Next]_Calls!vars
    OBVIOUS
  <2> USE DEF Calls!vars
  <2>1. ASSUME NEW w \in Workers, NEW n \in Buttons, Click(w, n)
        PROVE  Calls!Ask(w)
    BY <2>1 DEF Click, Step, Running, IInv, TypeOK, Calls!Ask, AnswerTo
  <2>2. CASE Clear \/ OpenMain \/ ComeBack \/ Recreate
    <3>1. UNCHANGED <<pc, crashed>>
      BY <2>2 DEF Clear, OpenMain, ComeBack, Recreate
    <3> QED
      BY <3>1 DEF Running, AnswerTo
  <2>3. CASE RunOnUiThread
    <3> DEFINE h == Head(uiQueue)
    <3>1. /\ Running /\ crashed' = crashed
          /\ h \in Workers /\ pc[h] = "posted"
          /\ pc' = [pc EXCEPT ![h] = "done"]
      BY <2>3 DEF RunOnUiThread, IInv, TypeOK, QueueOK
    <3>2. Calls!Answer(h, "shown")
      BY <3>1 DEF Calls!Answer, Running, IInv, TypeOK, AnswerTo
    <3> QED
      BY <3>1, <3>2 DEF Calls!Next
  <2>4. ASSUME NEW w \in Workers, RequestFails(w)
        PROVE  Calls!Answer(w, "failed")
    BY <2>4 DEF RequestFails, Step, Running, IInv, TypeOK, Calls!Answer, AnswerTo
  <2>5. ASSUME NEW w \in Workers, WorkerStep(w), ~RequestFails(w), UNCHANGED crashed
        PROVE  UNCHANGED Calls!vars
    <3>1. PICK c \in Busy \cup {"posted"} :
            pc[w] \in Busy /\ pc' = [pc EXCEPT ![w] = c]
      BY <2>5, StepOfBusyWorker, NetworkAssumption DEF Running
    <3>2. \A u \in Workers : AnswerTo(u)' = AnswerTo(u)
      BY <3>1 DEF Busy, PCs, IInv, TypeOK, AnswerTo
    <3>3. \A u \in Workers : pc'[u] # "idle" <=> pc[u] # "idle"
      BY <3>1 DEF Busy, PCs, IInv, TypeOK
    <3> QED
      BY <2>5, <3>2, <3>3 DEF Running
  <2>6. ASSUME NEW w \in Workers, WorkerStep(w), crashed' # crashed
        PROVE  Calls!Die(w)
    <3> ~RequestFails(w)
      BY <2>6 DEF RequestFails
    <3>1. /\ Running /\ pc[w] \in Busy /\ crashed' = w
          /\ pc' = [pc EXCEPT ![w] = "crashed"]
      BY <2>6, StepOfBusyWorker
    <3> QED
      BY <3>1, NetworkAssumption DEF Calls!Die, Running, Busy, IInv, TypeOK, AnswerTo
  <2>7. CASE UNCHANGED vars
    BY <2>7 DEF vars, Running, AnswerTo
  <2>8. ASSUME NEW w \in Workers, WorkerStep(w)
        PROVE  [Calls!Next]_Calls!vars
    <3>1. CASE RequestFails(w)
      BY <2>4, <3>1 DEF Calls!Next
    <3>2. CASE ~RequestFails(w) /\ UNCHANGED crashed
      BY <2>5, <2>8, <3>2
    <3>3. CASE crashed' # crashed
      BY <2>6, <2>8, <3>3 DEF Calls!Next
    <3> QED
      BY <3>1, <3>2, <3>3
  <2>9. ASSUME NEW w \in Workers, NEW n \in Buttons, Click(w, n)
        PROVE  Calls!Next
    BY <2>1, <2>9 DEF Calls!Next
  <2> QED
    BY <2>2, <2>3, <2>7, <2>8, <2>9 DEF Next, User
<1> QED
  BY <1>1, <1>2, Invariance, PTL DEF Spec, Calls!Spec
=============================================================================
