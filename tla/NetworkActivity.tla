--------------------------- MODULE NetworkActivity ---------------------------
(***************************************************************************)
(* The Android screen NetworkActivity: every click on a request button     *)
(* starts a fresh thread (a worker) that runs one blocking HTTP call,      *)
(* decodes the reply into the activity's field singlePersonBean, logs the  *)
(* bean, and posts a runnable that shows the reply on the UI thread.       *)
(*                                                                         *)
(* The field is plain: neither volatile nor locked, so a worker reads any  *)
(* value that the Java memory model lets it see (see Visible).  A          *)
(* RuntimeException in a worker is caught nowhere and kills the process.   *)
(***************************************************************************)
EXTENDS JsonHelp

CONSTANTS
    Workers,        \* threads: each serves at most one click
    Buttons,        \* the values of requestNetwork's parameter num in use
    Replies,        \* the bodies the server may send
    MaxActivities,  \* bound on the instances of the activity
    NoWorker,       \* no crash so far
    Blank,          \* the empty text
    NoReply,        \* the worker has received no reply
    Unset           \* the worker has stored no bean

\* A reply body: "json" is false when it is no JSON object or has no "data"
\* member, the two cases in which the client meets a JSONException.
Reply == [json : BOOLEAN, data : {d \in JsonData : WellFormed(d)}]

ASSUME NetworkAssumption ==
    /\ Buttons \subseteq 1..6
    /\ Replies \subseteq Reply
    /\ MaxActivities \in Nat \ {0}
    /\ NoWorker \notin Workers
    /\ Blank \notin Workers
    /\ NoReply \notin Replies
    /\ Unset \notin Bean

Activities == 1..MaxActivities

VARIABLES
    activity,    \* the current instance of NetworkActivity
    foreground,  \* it is on screen, not covered by MainActivity
    tv,          \* per instance, whose reply its TextView shows
    uiQueue,     \* runnables posted to the main looper, by posting worker
    pc,          \* control state of each worker
    num,         \* the button that started the worker
    owner,       \* the instance whose listener started it (NetworkActivity.this)
    body,        \* the reply it received
    stored,      \* the value it assigned to owner's singlePersonBean
    before,      \* workers whose work happened-before its start
    crashed      \* the worker whose RuntimeException killed the process

workerVars == <<num, owner, body, stored, before>>
screenVars == <<activity, foreground, tv>>
vars == <<screenVars, uiQueue, pc, workerVars, crashed>>

PCs == {"idle", "executing", "received", "scalars", "computer", "phone",
        "posting", "posted", "done", "ended", "crashed"}

TypeOK ==
    /\ activity \in Activities
    /\ foreground \in BOOLEAN
    /\ tv \in [Activities -> Workers \cup {Blank}]
    /\ uiQueue \in Seq(Workers)
    /\ pc \in [Workers -> PCs]
    /\ num \in [Workers -> 1..6]
    /\ owner \in [Workers -> Activities]
    /\ body \in [Workers -> Replies \cup {NoReply}]
    /\ stored \in [Workers -> Bean \cup {Unset}]
    /\ before \in [Workers -> SUBSET Workers]
    /\ crashed \in Workers \cup {NoWorker}

Init ==
    /\ activity = 1
    /\ foreground = TRUE
    /\ tv = [a \in Activities |-> Blank]
    /\ uiQueue = << >>
    /\ pc = [w \in Workers |-> "idle"]
    /\ num = [w \in Workers |-> 1]
    /\ owner = [w \in Workers |-> 1]
    /\ body = [w \in Workers |-> NoReply]
    /\ stored = [w \in Workers |-> Unset]
    /\ before = [w \in Workers |-> {}]
    /\ crashed = NoWorker

Running == crashed = NoWorker

Step(w, from, to) ==
    /\ Running
    /\ pc[w] = from
    /\ pc' = [pc EXCEPT ![w] = to]

-----------------------------------------------------------------------------
(* Events on the UI thread; each one runs to completion. *)

\* Mutant: the number is one too high; the switch has no case for 7.
Click_OffByOne(w, n) ==
    /\ foreground
    /\ Step(w, "idle", "executing")
    /\ num' = [num EXCEPT ![w] = n + 1]
    /\ owner' = [owner EXCEPT ![w] = activity]
    /\ before' = [before EXCEPT ![w] = {u \in Workers : pc[u] = "done"}]
    /\ UNCHANGED <<screenVars, uiQueue, body, stored, crashed>>

\* A click on a request button: requestNetwork(url, n) starts a thread.
Click(w, n) ==
    /\ foreground
    /\ Step(w, "idle", "executing")
    /\ num' = [num EXCEPT ![w] = n]
    /\ owner' = [owner EXCEPT ![w] = activity]
    /\ before' = [before EXCEPT ![w] = {u \in Workers : pc[u] = "done"}]
    /\ UNCHANGED <<screenVars, uiQueue, body, stored, crashed>>

\* button10: empty the text view.
Clear ==
    /\ Running /\ foreground
    /\ tv' = [tv EXCEPT ![activity] = Blank]
    /\ UNCHANGED <<activity, foreground, uiQueue, pc, workerVars, crashed>>

\* button9 covers the screen with MainActivity; the user comes back from it.
OpenMain ==
    /\ Running /\ foreground
    /\ foreground' = FALSE
    /\ UNCHANGED <<activity, tv, uiQueue, pc, workerVars, crashed>>

ComeBack ==
    /\ Running /\ ~foreground
    /\ foreground' = TRUE
    /\ UNCHANGED <<activity, tv, uiQueue, pc, workerVars, crashed>>

\* The system destroys the instance and creates another (a rotation: the
\* manifest lists no configChanges for this activity), which starts with a
\* blank text; workers and posted runnables keep their old instance.
Recreate ==
    /\ Running /\ foreground
    /\ activity + 1 \in Activities
    /\ activity' = activity + 1
    /\ UNCHANGED <<foreground, tv, uiQueue, pc, workerVars, crashed>>

\* Mutant: the text view in a static field, always that of the newest instance.
RunOnUiThread_StaticView ==
    /\ Running /\ uiQueue # << >>
    /\ LET w == Head(uiQueue) IN
         /\ tv' = [tv EXCEPT ![activity] = w]
         /\ pc' = [pc EXCEPT ![w] = "done"]
    /\ uiQueue' = Tail(uiQueue)
    /\ UNCHANGED <<activity, foreground, workerVars, crashed>>

\* Mutant: the runnable drops whatever else is posted.
RunOnUiThread_DropsOthers ==
    /\ Running /\ uiQueue # << >>
    /\ LET w == Head(uiQueue) IN
         /\ tv' = [tv EXCEPT ![owner[w]] = w]
         /\ pc' = [pc EXCEPT ![w] = "done"]
    /\ uiQueue' = << >>
    /\ UNCHANGED <<activity, foreground, workerVars, crashed>>

\* The main looper runs the oldest posted runnable: tv.setText(response) on
\* the instance the runnable captured.
RunOnUiThread ==
    /\ Running /\ uiQueue # << >>
    /\ LET w == Head(uiQueue) IN
         /\ tv' = [tv EXCEPT ![owner[w]] = w]
         /\ pc' = [pc EXCEPT ![w] = "done"]
    /\ uiQueue' = Tail(uiQueue)
    /\ UNCHANGED <<activity, foreground, workerVars, crashed>>

-----------------------------------------------------------------------------
(* Steps of a worker. *)

\* execute() or body().string() throws an IOException (refused, reset, timed
\* out), or there is no body: the thread ends without showing anything.
RequestFails(w) ==
    /\ Step(w, "executing", "ended")
    /\ UNCHANGED <<screenVars, uiQueue, workerVars, crashed>>

Respond(w, r) ==
    /\ Step(w, "executing", "received")
    /\ body' = [body EXCEPT ![w] = r]
    /\ UNCHANGED <<screenVars, uiQueue, num, owner, stored, before, crashed>>

\* Mutant: showResponse moved into the inner try block.
ParseFails_NotShown(w) ==
    /\ Step(w, "received", "ended")
    /\ ~body[w].json
    /\ UNCHANGED <<screenVars, uiQueue, workerVars, crashed>>

\* Mutant: a body that does not parse is requested again.
ParseFails_Retry(w) ==
    /\ Step(w, "received", "executing")
    /\ ~body[w].json
    /\ UNCHANGED <<screenVars, uiQueue, workerVars, crashed>>

\* new JSONObject(..) or getString("data") throws: the inner catch swallows
\* the JSONException and control goes on to showResponse.
ParseFails(w) ==
    /\ Step(w, "received", "posting")
    /\ ~body[w].json
    /\ UNCHANGED <<screenVars, uiQueue, workerVars, crashed>>

Crash(w) ==
    /\ pc' = [pc EXCEPT ![w] = "crashed"]
    /\ crashed' = w

\* case 2 decodes a list into a local variable and logs its first name.
FirstMissing(people) == people = << >> \/ people[1] = NoPerson

DecodeList(w) ==
    /\ Running /\ pc[w] = "received"
    /\ body[w].json /\ num[w] = 2
    /\ IF FirstMissing(getItemList(body[w].data))
       THEN Crash(w)
       ELSE pc' = [pc EXCEPT ![w] = "posting"] /\ UNCHANGED crashed
    /\ UNCHANGED <<screenVars, uiQueue, workerVars>>

\* The other cases assign the field.  Cases 3 to 6 then only test it for null,
\* with one read; case 1 goes on to log its contents.
StoreBean(w) ==
    /\ Step(w, "received", IF num[w] = 1 THEN "scalars" ELSE "posting")
    /\ body[w].json /\ num[w] # 2
    /\ stored' = [stored EXCEPT ![w] = getItem(body[w].data)]
    /\ UNCHANGED <<screenVars, uiQueue, num, owner, body, before, crashed>>

\* What another thread may find behind a reference it got by a race: Gson fills
\* the bean before the field is assigned, but nothing orders the two for it, so
\* that any part of the bean may still look absent.
Unordered(b) ==
    IF b = NoPerson THEN {NoPerson}
    ELSE {c \in SinglePerson : /\ c.computer => b.computer
                               /\ c.secondPhone => b.secondPhone}

\* Mutant: singlePersonBean in a static field.
Visible_StaticBean(w) ==
    {stored[w]} \cup
    UNION {Unordered(stored[u]) :
           u \in {v \in Workers \ {w} : stored[v] # Unset /\ v \notin before[w]}}

\* The workers whose store to the same field no order puts before w's own: all
\* of the same instance that have stored a bean, except those whose runnable
\* had already run when w was started.
Racing(w) == {u \in Workers \ {w} : /\ owner[u] = owner[w]
                                    /\ stored[u] # Unset
                                    /\ u \notin before[w]}

\* What a read of singlePersonBean by worker w may return after w stored to it.
Visible(w) == {stored[w]} \cup UNION {Unordered(stored[u]) : u \in Racing(w)}

\* The log statement of case 1 reads the field six times: four times for a
\* scalar getter (one step here: each fails on null and on nothing else), then
\* for getComputer().getType() and for getPhone().get(1).getType().
Loggable(part, b) ==
    /\ b # NoPerson
    /\ part = "computer" => b.computer
    /\ part = "phone" => b.secondPhone

Follows == [scalars |-> "computer", computer |-> "phone", phone |-> "posting"]

LogBean(w) ==
    /\ Running /\ pc[w] \in DOMAIN Follows
    /\ \E b \in Visible(w) :
         IF Loggable(pc[w], b)
         THEN pc' = [pc EXCEPT ![w] = Follows[pc[w]]] /\ UNCHANGED crashed
         ELSE Crash(w)
    /\ UNCHANGED <<screenVars, uiQueue, workerVars>>

\* Mutant: the runnable is posted twice.
ShowResponse_Twice(w) ==
    /\ Step(w, "posting", "posted")
    /\ uiQueue' = uiQueue \o <<w, w>>
    /\ UNCHANGED <<screenVars, workerVars, crashed>>

\* showResponse posts the runnable through runOnUiThread.
ShowResponse(w) ==
    /\ Step(w, "posting", "posted")
    /\ uiQueue' = Append(uiQueue, w)
    /\ UNCHANGED <<screenVars, workerVars, crashed>>

-----------------------------------------------------------------------------
WorkerStep(w) ==
    \/ RequestFails(w)
    \/ \E r \in Replies : Respond(w, r)
    \/ ParseFails(w)
    \/ DecodeList(w)
    \/ StoreBean(w)
    \/ LogBean(w)
    \/ ShowResponse(w)

User ==
    \/ \E w \in Workers, n \in Buttons : Click(w, n)
    \/ Clear
    \/ OpenMain
    \/ ComeBack
    \/ Recreate

Next == User \/ RunOnUiThread \/ \E w \in Workers : WorkerStep(w)

Spec == Init /\ [][Next]_vars

\* Threads are scheduled, OkHttp's default connect, read and write timeouts
\* end every call, and the main looper drains its queue.  Nothing makes the
\* user click.
Fairness ==
    /\ \A w \in Workers : WF_vars(WorkerStep(w))
    /\ WF_vars(RunOnUiThread)

FairSpec == Spec /\ Fairness

-----------------------------------------------------------------------------
(* Properties. *)

\* A bean on which the log statement of case 1 cannot fail.
Complete(b) == b # NoPerson /\ b.computer /\ b.secondPhone

\* The process dies only for one of three reasons: a button-2 worker got a list
\* without a first person, a button-1 worker got an incomplete bean itself, or
\* another worker of its screen, still at work when it was started, has stored a
\* bean (NetworkActivity.java:154-160).  In particular buttons 3 to 6 never kill
\* the process by themselves, and neither a finished request nor one of a
\* destroyed instance can do harm to a later one.
CrashExplained ==
    crashed # NoWorker =>
        \/ /\ num[crashed] = 2
           /\ FirstMissing(getItemList(body[crashed].data))
        \/ /\ num[crashed] = 1
           /\ ~Complete(stored[crashed]) \/ Racing(crashed) # {}

\* A reply is shown by the instance whose button asked for it, never by the
\* one that replaced it on screen (the Runnable of lines 198-203 captures its
\* NetworkActivity).
ShownByOwner == \A a \in Activities : tv[a] # Blank => owner[tv[a]] = a

\* A reply that reached the client is not dropped silently: whatever the body
\* was, a thread that ended quietly had received none (the JSONException is
\* caught inside the try block, before showResponse at line 188).
NoReplyDropped == \A w \in Workers : pc[w] = "ended" => body[w] = NoReply

\* No reply is lost or doubled on its way to the screen: those that wait in the
\* main looper's queue are those of the workers that have posted and not been
\* shown, each of them once, across crashes of other workers, recreations and
\* visits to MainActivity (NetworkActivity.java:197-204).
RepliesWaitOnce ==
    /\ {uiQueue[i] : i \in DOMAIN uiQueue} = {w \in Workers : pc[w] = "posted"}
    /\ \A i, j \in DOMAIN uiQueue : uiQueue[i] = uiQueue[j] => i = j

\* A reply is posted once: after it was shown and then cleared by button10 or
\* replaced by another, it never comes back.
NoResurrection ==
    [][\A a \in Activities, w \in Workers :
         pc[w] = "done" /\ tv[a] # w => tv'[a] # w]_vars

\* The screen as one-shot calls: a click is answered when its reply is shown or
\* its call has failed.
AnswerTo(w) ==
    IF pc[w] = "done" THEN "shown" ELSE IF pc[w] = "ended" THEN "failed" ELSE "none"

Calls == INSTANCE OneShotCalls WITH
    Callers <- Workers,
    Answers <- {"shown", "failed"},
    NoAnswer <- "none",
    asked <- {w \in Workers : pc[w] # "idle"},
    answer <- [w \in Workers |-> AnswerTo(w)],
    dead <- ~Running

\* The screen implements one-shot calls: as long as the process lives, each
\* click ends in one answer, which is never taken back
\* (NetworkActivity.java:127-204).
ImplementsOneShotCalls == Calls!FairSpec

=============================================================================
