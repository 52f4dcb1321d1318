# A formal model of TBBDataStructureTest (AwesomeProject)

The repository is a React Native 0.60 application with native Android and iOS
parts. Its own code, about 2000 lines, sits in `App.js`, `HomeScreen.js`,
`DetailPage.js`, `android/app/src/main/java/com/awesomeproject/` and `ios/`; the
remaining 14 000 files are vendored C++ libraries (`third-party/`: boost, folly,
glog, double-conversion) that React Native links and that this project leaves
aside.

Small as it is, the code is concurrent throughout: unsynchronised request
threads on Android, three queues between JavaScript and the native module on
iOS, and three more between a network reply and its completion block. The
specifications here model those parts, TLC checks them on small instances, and
TLAPS proves the main properties for every instance.

## 1. Inventory

| Component | State | Operations | Talks to |
|---|---|---|---|
| `NetworkActivity.java` (Android screen) | `singlePersonBean`, the text view; one thread per click | ten buttons, `requestNetwork`, `showResponse`, `onCreate` | `JsonHelp` (calls), OkHttp (blocking call), the main looper (posted runnables), `MainActivity` (intent) |
| `JsonHelp.java`, `bean/SinglePerson.java` | none | `getItem`, `getItemList`, two encoders without a caller | Gson, org.json |
| `ios/XpjxModule.m` | one shared object: its registrations in the notification center, RCTEventEmitter's listener count | `init`, `handleMessage`, `startObserving`, `stopObserving`, three notification methods | JavaScript (method queue, events), the main queue, the notification center |
| `HomeScreen.js` | its subscription, pending promises | `componentDidMount`, `componentWillUnmount`, `toggleModal`, the event listener | the native module |
| `ios/HttpClient/HCHttpClient.m` | the singleton's session: tasks and its delegate queue | three request methods, `cancelRequest`, `isConnectionAvailable` | AFNetworking, reachability |
| `HCJSONResponseSerializerWithData.m` | none | `responseObjectForResponse` | AFNetworking |
| `ios/Handle/BaseHandler.m` | none (blocks capture the caller's blocks) | two request methods, two error handlers | `HCHttpClient`, the caller's blocks |
| `MobileApiHandler.m`, `TestViewController.m`, `ios/Entity/*` | none | six demo requests, decoding into entities | `BaseHandler`, MJExtension |
| Android `react/XpjxModule.java`, `XpjxPackage.java` | a static React context, shared by all module objects | the constructor, `handleMessage`, `sendEventToRn` | JavaScript (calls, events), the React instance manager |
| `App.js`, `DetailPage.js` | the navigator's stack | push, back, navigate, the hardware button | `HomeScreen` (mounts and unmounts it) |
| `MainActivity`, `MainApplication`, `AppDelegate`, `main.m`, tests, build files | none of their own | start-up | |

What is hard in this code:

* **Interleaving.** `NetworkActivity` reads a plain field six times in a thread
  that shares it with every other click (`NetworkActivity.java:154-156`).
* **Ordering.** Replies reach the text view in the order of the looper; calls,
  events and blocks cross three queues between a tap and its alert.
* **Lifetimes.** A rotation replaces the activity but not its threads; a bridge
  reload replaces the JavaScript context but neither the shared module object
  nor the blocks it has put on the main queue; on Android it replaces the value
  of an unsynchronised static field under the threads that read it. A tap may
  reach a screen that the router has already left.
* **Partial failure.** A body that does not parse, a `code` that is no number, a
  missing failed block, an uncaught exception that ends the process.
* **Liveness.** Every click, tap and request is expected to end in an answer.

What makes each component correct:

* *NetworkActivity*: the process dies only where the data really was incomplete
  and visible; a reply is shown once, by the screen that asked; none is lost.
* *XpjxModule with HomeScreen*: registrations do not pile up, a tap alerts at
  most once and, while its context lives, at least once; the two sides agree on
  who listens.
* *HCHttpClient with BaseHandler*: one block call per request, success only for
  an honest reply, an explained reason for every exception, and an answer in the
  end.
* *MobileApiHandler with the entities*: what the server may send (null, text, an
  empty array, as the addresses say) does not raise in the blocks that read it,
  with the one exception that the code has.
* *Android XpjxModule*: a tap is answered once at most, in the context that asked
  unless that one is gone, and is lost only with its context or its screen.
* *Navigation*: HomeScreen is mounted for as long as the root view lives, and a
  tap does once what it says.

## 2. Modules

| Module | Models | Checked with | Proofs |
|---|---|---|---|
| `JsonHelp` | `getItem`, `getItemList` and the bean | (part of `NetworkActivity`) | |
| `NetworkActivity` | the Android request screen | `MCNetworkActivity` | `NetworkActivityProofs` |
| `XpjxModule` | the iOS module and HomeScreen | `MCXpjxModule` | `XpjxModuleProofs`, `XpjxTapsProofs` |
| `BaseHandler` | serializer and completion blocks as operators | (part of `HCHttpClient`) | |
| `HCHttpClient` | the iOS request pipeline | `MCHCHttpClient` | `HCHttpClientProofs` |
| `BaseEntity` | the decoders of `data`, the entities and how they are read | (part of `MobileApiHandler`) | |
| `MobileApiHandler` | the six demo requests and their blocks, on top of `HCHttpClient` | `MCMobileApiHandler` | `MobileApiHandlerProofs` |
| `AndroidXpjxModule` | the Android bridge module and HomeScreen | `MCAndroidXpjxModule` | `AndroidXpjxModuleProofs` |
| `Navigation` | the stack navigator, its screens' buttons, the hardware button | itself | `NavigationProofs` |
| `IOSApp` | the iOS app: `Navigation` and `XpjxModule` meeting in HomeScreen | itself | `IOSAppProofs` |
| `OneShotCalls` | the abstract promise of the two clients and the two bridges | as a refinement | |

### NetworkActivity

A click starts a thread. `Workers` are those threads; `pc[w]` says how far
`run()` has come: `executing` (in `execute()`), `received` (has the body),
`scalars`, `computer`, `phone` (the reads of the log statement of case 1),
`posting` (about to call `showResponse`), `posted`, `done` (its runnable has
run), `ended` (the `IOException` path), `crashed`. `owner[w]` is the activity
instance whose listener started the thread, that is `NetworkActivity.this`.

`singlePersonBean` is one plain field of each instance. The model keeps the
value every worker stored (`stored`) and lets a read return any value that the
Java memory model allows (`Visible`): the reader's own, or one that a worker of
the same instance stored (`Racing`), unless that worker's runnable had already
run on the main thread when the reader was started, which orders the two stores
(`before`). A reference read by such a race gives no order for the bean behind
it either: any of its parts may still look absent (`Unordered`). The log statement reads the field again for each getter. The first
four reads are one step: each fails on `null` and on nothing else, and any value
visible to one is visible to all of them.

JSON is abstracted to what a caller can notice: the kind of the `data` member
and, for each person, whether `getComputer()` is non-null and `getPhone()` has a
non-null element 1. The two cases that lead to a `JSONException` (no JSON
object, no `data`) are one (`~json`). `getItem` swallows Gson's exceptions and
yields `null`; `getItemList` yields the empty list.

The activity is declared in the manifest without `configChanges`, so a rotation
recreates it (`Recreate`); button 9 covers it (`OpenMain`, `ComeBack`). A
finished activity behaves for its threads like a covered one that never comes
back.

### XpjxModule

Two actors and three queues: JavaScript calls go through `methodQ` to the
module's method queue, `handleMessage` dispatches a block to `mainQ`, the block
posts a notification, whose observer (`posting`: one call for each registration)
sends an event through `jsQ` back to JavaScript. `Reload` throws away the
JavaScript context with its calls and events, keeps the blocks of the main queue
and the shared object, and runs `init` on it again.

What RCTEventEmitter does (counting listeners, calling `startObserving` and
`stopObserving` at the first and the last, dropping an event if it counts none)
is modelled from its use, as it is in React Native 0.60; so are the order of
calls to a module and the notification center, which keeps one registration per
`addObserver:`. The constant `ScreenMayUnmount` says whether HomeScreen may leave
while its bridge lives. In the shipped navigator it may not, which `IOSApp` shows.

### BaseHandler and HCHttpClient

`BaseHandler` has no state of its own. A completion block becomes the sequence
of what it does to its caller: `Success`, `Failed(code)` or `Raised` (an
Objective-C exception). A reply is its status (in 200..299 or not), its MIME
type (acceptable or not) and its body: a dictionary with a code, an array,
nothing, other text, or bytes that are no UTF-8. `code` may be absent, or a
value without an `integerValue` method (`NullCode`).

`RestCall`, `FileCall`, `HeadCall` and `HandlerCall` are what the request methods
take, one set for each signature; `Start` is what they have in common, and
`RestTask`, `FileTask` and `HeadTask` are their switches and the reachability test.
`HCHttpClient` follows a request from there through the network
(`Finish`), the session's serial delegate queue (`DidComplete`), the concurrent
serialization (`Parse`) and the main queue (`RunCompletion`), which runs the
completion block. Methods without a case, file operations and HEAD without a
network make no task (`swallowed`); downloads make one that nobody resumes
(`suspended`). `cancelRequest` empties the delegate queue. A caller is taken to
pass a success block; `BlockGiven` says whether it passes a failed block.

### BaseEntity and MobileApiHandler

`MobileApiHandler` extends `HCHttpClient`: its actions are those of the pipeline
with the address of each request (`path`) and the member `data` of its reply
(`data`) beside them, and its completion (`DemoCompletion`) is the one of
`BaseHandler` followed by what the block of `TestViewController` does with the
decoded data. A POST asks for no reachability, and nobody calls `cancelRequest`
here, so the network and cancellation stay out. `viewDidLoad` has its six calls
commented out (`TestViewController.m:32-37`); the model takes the methods as
called, in any order and number up to the bound.

`data` is abstracted to what the decoders of `BaseEntity` and the readers tell
apart: its kind, and for a person the kind of the member `phone`. Both decoders
are operators. `[OneEntity mj_objectWithKeyValues:]` gives an entity only for a
dictionary; an array of dictionaries gives an array of entities, of which the
blocks look at the first; null, text and numbers give an empty array or nil, and
nil answers every message with nil. Only an array of phones that exists and is
empty makes `phoneArr[0]` raise, and an array nested in `data`, which is no
entity at all, answers no message of one (`ReadingRaises`). MJExtension is
modelled from this use; arrays with null elements, and text that is itself JSON
(which MJExtension would parse), are left out.

### AndroidXpjxModule

Contexts are numbered in the order of their construction. `context` is the static
field; `state` is the life of each context (`building`, `live`, `destroyed`,
`gone`). `Construct` is the constructor of `XpjxModule` in a new context, which a
reload runs, on a thread of its own, once it has torn down the old one;
`Destroy` and `Quit` are the tearing down: the context takes no more events, its
threads drain, and what they still had is dropped. HomeScreen lives in a context
(`mounted`), its taps wait on the native modules thread (`nativeQ`), and the
events on the JavaScript thread (`jsQ`).

`HandleMessage` is the whole handler: a message of another type or one that
throws in the two loops sends nothing (the catch block swallows the exception), a
`showLogin` message sends its event to the context that an unsynchronised read of
the field yields. `Visible(g)` is what the Java memory model allows such a read
on the thread of context `g`: the value that its own constructor stored before
the thread started, or any later one. Sending to a context that is not
initialised throws, sending to a destroyed one is ignored; both lose the event.
On Android a `NativeEventEmitter` of React Native 0.60 calls no native
`addListener`, so subscribing is a matter of JavaScript alone. Of a message, the
model keeps its type, the number of its cities and of its hobbies.

### Navigation

`routes` is the stack, all of whose screens are mounted; `front` is the screen
that the user sees and touches, which lags behind the stack until `Render`. A tap
therefore may come from a screen that the router has already left, which is what
happens when a button is tapped twice during a transition. `Push`, `Navigate` and
`Back` are the router of react-navigation 3 as this code uses it: push always
adds, navigate goes back to the first route of that name or adds one, goBack of a
screen removes that very screen, by its key, and whatever lies on it. With
`HardwareBack` the device has a back button, which pops the topmost screen and on
the first one ends the activity; the app may then be started again under the same
bridge (`Relaunch`), with new routes.

### IOSApp

The navigator and the bridge of one JavaScript context, side by side. `IOSApp`
extends `XpjxModule` with its screen allowed to unmount (`ScreenMayUnmount = TRUE`),
and instances `Navigation` without a hardware button beside it; the stack then
decides. They meet in HomeScreen: `Launch` renders the initial route and mounts it;
`Browse` is a tap on any button of either screen, after which React unmounts a
HomeScreen whose route is gone; `Login` needs a HomeScreen under the user's finger;
`ReloadApp` takes both down, after which the app may be launched again. The threads
of the bridge and the transitions of the navigator go on in between. The
specification it implements is `Mounted!Spec`, the bridge whose HomeScreen never
unmounts.

### OneShotCalls

The common promise: a caller asks once, gets at most one answer, keeps it, and
under fairness gets it, unless the app dies while somebody waits.

| Instance | Asked | Answer | Property |
|---|---|---|---|
| `NetworkActivity!Calls` | clicks | `done` is "shown", `ended` is "failed" | `ImplementsOneShotCalls`, with liveness |
| `HCHttpClient!Calls` | requests | the block call | `AnswersAreOneShot` for all operations, `ImplementsOneShotCalls`, with liveness, for those that are promised an answer |
| `XpjxModule!Taps` | taps that ask for the login | the alert | `ImplementsOneShotCalls`, safety only: a reload may lose a tap |
| `AndroidXpjxModule!Calls` | taps | the alert | the same |

`MobileApiHandler` refines `HCHttpClient` as a whole (`Pipeline`,
`ImplementsPipeline`): where one of its blocks raises, `HCHttpClient`'s state has
the success call only and no crash, since that exception is no doing of the
completion block. `ImplementsOneShotCalls`, which `MobileApiHandler` inherits as a
definition, is about its own state, in which such an exception kills the app.

## 3. Runs

| Run | Bounds | Shows |
|---|---|---|
| `network_activity` | 2 workers, all 6 buttons, all 9 replies, 2 instances | `TypeOK`, `CrashExplained`, `ShownByOwner`, `NoReplyDropped`, `RepliesWaitOnce`, `NoResurrection`, `ImplementsOneShotCalls` |
| `xpjx_module` | 3 messages (2 logins), 3 mountings, 2 reloads | `TypeOK`, `RegisteredOnce`, `ListenerBeforeMessage`, `SubscriberCounted`, `ImplementsOneShotCalls` |
| `xpjx_remount` | 3 messages, 3 mountings, no reload | `ListeningMeansObserving` fails |
| `xpjx_promise` | 3 messages, 1 reload, no unmounting | `PromisesSettle` fails |
| `http_client` | 2 requests, 7 operations, 13 replies, network on and off, cancel | `TypeOK`, `CalledOnce`, `SuccessIsHonest`, `FailedZeroExplained`, `CrashExplained`, `AcceptedSucceeds`, `SettledIsTold`, `AnswersAreOneShot`, `SilenceExplained` |
| `http_client_live` | 2 requests, the 6 operations with an answer, 13 replies, network on | `ImplementsOneShotCalls` |
| `http_offline` | uploads, network on and off | `RequestsAnswered` fails |
| `http_download` | downloads, network on | `RequestsAnswered` fails |
| `mobile_api` | 2 requests, 6 addresses, 6 kinds of data and none, 5 replies | `DemoTypeOK`, `DemoCrashExplained`, `ImplementsPipeline`, `ImplementsOneShotCalls` |
| `android_xpjx` | 2 taps and a message with a city too many, 2 reloads, 3 mountings, unmounting allowed | `TypeOK`, `LossExplained`, `AbroadExplained`, `ImplementsOneShotCalls`, `TapsAlert` |
| `navigation` | 5 routes deep, 8 keys, a hardware button | `TypeOK`, `HomeAtBottom`, `OneDetailsFromHome`, `HomeStays`, `OlderScreensStay` |
| `ios_app` | 3 messages, 2 reloads, 3 launches, 3 routes deep, 5 keys | `ListeningMeansObserving`, `TapsKept`, `TapsAlert`, `ImplementsMountedBridge` |

Why the bounds are enough. The interesting cases are races of two workers or
requests: a late store becomes visible to an earlier reader, and one that is
already `done` when the reader starts must *not* be visible. For more workers
there are the proofs. Two activity instances
give an old and a new screen. Two reloads let registrations pile up twice if they
do, and three mountings let a screen leave, come back, and come back after a
reload. Each reply set holds one body for each branch of the code that decodes it.
`http_client` leaves out POST and DELETE, which differ from GET and PUT in the
method of AFNetworking only; `http_client_live` has them, and the proofs have all.
`mobile_api` takes a representative of each outcome of the decoders, and the
replies that the completion block tells apart: the pipeline below it is checked
with all thirteen, and the proof takes any data. Two reloads give a context
that is over, one in the field and one under construction. Five routes leave room
for three DetailPages to be pushed, cut in the middle and pushed on again. The keys
of `ios_app` allow two reloads with two DetailPages between them in any
distribution, which is enough for every button to meet every state of the queues. The
screens
really may stop (nobody has to click), so no run checks for deadlock: an actor
that ought to go on and does not is what the liveness properties are for.
`MaxActivities`, `MaxMounts`, `MaxReloads`, `MaxRoutes` and `MaxKey` bound counters that the program
does not bound; every worker, message and request is used once.

### Fairness

* `NetworkActivity`: every thread that can go on does (`WF` of each
  `WorkerStep`; OkHttp's default connect, read and write timeouts end a call that
  gets nothing) and the main looper drains its queue. No fairness for the user.
* `XpjxModule`: the JavaScript thread, the module's queue and the main thread
  drain their queues. None for taps, mountings and reloads.
* `HCHttpClient`: a task that was resumed ends (`timeoutInterval = 10`,
  `HCHttpClient.m:27`), and the delegate queue, the serialization of each request
  and the main queue make progress. None for callers, the network and
  cancellation.
* `MobileApiHandler`: the same, for its versions of these actions.
* `AndroidXpjxModule`: the JavaScript and the native modules thread of each context
  drain their queues. None for taps, mountings, reloads and the end of a context.
* `Navigation`: none; its properties are about safety.
* `IOSApp`: that of `XpjxModule`. None for the user and the navigator.

### What the four violations show

* `xpjx_remount`: `stopObserving` (`XpjxModule.m:84`) drops registrations that
  only `init` makes. A screen that unsubscribes and subscribes again is counted
  as a listener, but the module hears nothing. This needs a navigator that
  unmounts HomeScreen, which the one in `App.js` does not do (`ios_app`).
* `xpjx_promise`: `handleMessage` keeps neither of its promise blocks, so the
  `.then` of `HomeScreen.js:94` never runs.
* `http_offline`: an upload that starts without a network
  (`HCHttpClient.m:139`) calls `prepare` and nothing else.
* `http_download`: the tasks made at `HCHttpClient.m:149` and `:157` are never
  resumed.

The last two are the reason for `SilenceExplained` in `http_client`: besides them
only HEAD requests that start offline, `RTHttpRequestPostFile` (no case in the switch
of `HCHttpClient.m:89`) and tasks cancelled while they wait on the delegate queue
leave a caller with a failed block untold.

## 4. Proofs

`NetworkActivityProofs` proves, for any sets of workers, buttons and replies and
any number of activity instances, `[]TypeOK`, `[]CrashExplained`,
`[]ShownByOwner`, `[]NoReplyDropped`, `[]RepliesWaitOnce`, `NoResurrection`, and
that the screen implements `OneShotCalls!Spec`. None is inductive by itself. `IInv`
adds what a program counter says of the data: who has a reply (`BodyOK`); that
whoever is in the log statement was started by button 1 and has stored a bean
(`StoredOK`); that the looper's queue holds posted workers only, each once
(`QueueOK`), and all of them (`PostedOK`), which together are `RepliesWaitOnce`; that
a text view shows finished workers only (`ShownAreDone`), since otherwise a click,
which gives an idle worker its owner, could change who owns a text. `CrashExplained`
then rests on the step `LogBean`: what its failing read returned was the worker's
own bean or came from a racing worker. The refinement rests on `IInv` for the two
facts that make an answer final: the queue's head is `posted`, and only a busy
worker crashes.

`XpjxModuleProofs` proves `[]TypeOK`, `[]RegisteredOnce`, `[]AlertedAtMostOnce`,
`[]OnlyLoginAlerts`, `[]ListenerBeforeMessage`, `[]SubscriberCounted` and, assuming
`~ScreenMayUnmount`, `[]ListeningMeansObserving`. The invariant says that a
message is in one place only, unsent or on one of the queues or answered, that at
most one registration exists, and that `addListener` and `removeListeners`
alternate in the method queue starting from the current subscription, which is
what makes the listener count positive before any message is handled.
`SubscriberCounted` counts calls in a queue: `CountAppend` and `CountTail` say how
the number of a kind changes with the queue (the second by a bijection between the
places before and after), and `Balanced` adds the reloads, which keep the count.
It needs the alternation too: `RemoveListeners` stops at zero, and only there would
it lose a listener.

`XpjxTapsProofs` builds on it. `RefinesOneShotCalls`: an alert answers a tap that
asked for the login and has none, since the message of an event that waits for
JavaScript passed the test of its type and is in no other place (the invariant
above), and all other steps ask or stutter. `NoTapIsLost`
proves `[]TapsKept` assuming `~ScreenMayUnmount`. A message may be dropped at
three points of its way: its notification finds no observer, its event no counted
listener, or HomeScreen no listener of its own. `NeverStopped` excludes the first
(nobody unsubscribes, so the registrations stay) and `Served` the other two (the
listener was counted before the call was handled, and the screen is there as long
as anybody waits). One lemma for each actor (`CallKeeps`, `ModuleKeeps`,
`RunBlockKeeps`, `GetSessionIdKeeps`, `ReceiveEventKeeps`) then follows a message from
one queue to the next. The hypothesis is needed: the run `xpjx_remount` shows a
screen that was unmounted going silent. `IOSAppProofs` discharges it. No run checks
`AlertedAtMostOnce` by itself: `ImplementsOneShotCalls` has no second answer.

`HCHttpClientProofs` proves `[]TypeOK`, `[]CalledOnce`, `[]SuccessIsHonest`,
`[]AcceptedSucceeds`, `[]SettledIsTold`, `[]FailedZeroExplained`, `[]CrashExplained`,
and `AnswersAreOneShot`, the implementation of
`OneShotCalls!Spec`, for any requests, codes, replies and operations. Lemmas
about the operators of `BaseHandler` go first: `CompletionCases` says that a
completion block does at most one thing and for which reason. The invariant then
has to say that what a caller was told is what its block computes, once the
request has settled and not before (`CallsOK`); that the app is dead exactly if a
block raised (`RaisedOK`); and that the two serial queues hold the tasks of their
stages, each once (`TasksAreQueued`). That one says little by itself, but the rest
needs it: `cancelRequest` and `DidComplete` move whatever the delegate queue
holds, and without it they could take a settled request out of its state while its
caller keeps the answer. `HoldsAppend` and `HoldsTail` say how such an equality
moves with the queue. `SuccessIsHonest` and `AcceptedSucceeds` are the two halves of
one statement: the success block runs for those replies and for no others.

`MobileApiHandlerProofs` proves `[]DemoTypeOK`, `[]DemoCrashExplained`, the safety
part of the refinement of `OneShotCalls`, and that the demo implements the pipeline
(`DemoRefinesPipeline`, the property `ImplementsPipeline`). It rests on
`CompletionCases` of `HCHttpClientProofs` and on lemmas about the two decoders: an
entity raises when read exactly for the data that `NoFirstPhone` names. The
refinement maps a block that raised to one that did not, and a crash that comes
from such a block to none; since nothing moves in a dead app, no step below it
needs more (`LivingPipeline`, `PipelineUndisturbed`). `DemoInherits` then takes the
results about the pipeline over to the demo without proving them again:
`HCHttpClientProofs` is instantiated at the mapped state and its theorems are cited,
together with the assumptions on the constants that they need.

`AndroidXpjxModuleProofs` proves `[]TypeOK`, `[]LossExplained`, `[]AbroadExplained` and
`ImplementsOneShotCalls`. `IInv` follows a message from `unsent` through the queue
of its own context and at most one queue of events to its alert (`QueuesOK`,
`MessagesOK`, `ShownOK`); says that only the latest context can be alive
(`ContextsOK`), so that a live context's thread can read no other value of the
field than its own; and that the answer to a tap of such a context is under way or
shown (`KeptOK`), which is what `LossExplained` needs and no weaker fact gives.

`NavigationProofs` proves all five properties of `Navigation`, with and
without a hardware button. The invariant `Stack` says that the keys rise along the
stack: cutting it at the key of an older screen can then only remove newer ones.
`ButtonSteps` reduces every button to a push or a cut, and `OtherButtonSteps` says
which of them those make that do not go home.

`IOSAppProofs` composes the two. The invariant of `NavigationProofs`, instantiated, is
one of the app as well: a reload leaves no stack at all, every other step is the
navigator's or none of its own (`AppStepStack`). With it `HomeScreensStay` shows that
`Browse` never unmounts, so that every step of the app is a step of a bridge with a
mounted HomeScreen, or none (`RefinesMountedBridge`, the property
`ImplementsMountedBridge`). `AppInherits` then cites the theorems about that bridge:
`[]TapsKept` and `[]ListeningMeansObserving` hold of the app, without a hypothesis.

The proofs assume the named assumptions of the modules (`NoPersonAssumption`,
`NetworkAssumption`, `XpjxAssumption`, `CodeAssumption`, `ClientAssumption`,
`DataAssumption`, `DemoAssumption`, `AndroidAssumption`, `NavigationAssumption`,
`AppAssumption`), which TLC evaluates in the runs. They bound nothing: they type the
constants and keep the null values apart from the data. `DemoAssumption` says that
the pipeline below the demo is used with `post` and with a failed block, as the demo
requests use it; `AppAssumption` that the constant `ScreenMayUnmount` forbids nothing,
so that only the stack can.

Model-checked only: liveness, that is both `TapsAlert` (whose safety core, that
no hop drops a message, is `TapsKept` on iOS and `LossExplained` on Android, both
proved), `SilenceExplained` (whose safety core is `SettledIsTold`, proved),
`RequestsAnswered`, `PromisesSettle`, and the fairness part of
`ImplementsOneShotCalls` in the two iOS modules and the Android module that make
requests. Fairness and `ENABLED` are beyond the prover. Every
invariant and action property of a passing run is proved.

## 5. Not modelled

* Vendored libraries, build files, start-up code, the two smoke tests.
* React Native, react-navigation, AFNetworking, MJExtension, NSURLSession,
  NSNotificationCenter, OkHttp, Gson, org.json and the Android framework appear
  only as this code uses them; the map marks those definitions external. Assumed:
  RCTEventEmitter and NativeEventEmitter of React Native 0.60 and its order of
  tearing down and building a React context on Android, the stack router of
  react-navigation 3, AFNetworking 3.1 as in the Podfile (validation before
  parsing, completion blocks on the main queue).
* The composition of `Navigation` with the Android bridge: there the hardware button
  does unmount HomeScreen under a living context, and `AndroidXpjxModule` is checked
  and proved with a screen that unmounts at any time.
* The Android promise of `handleMessage`, which no path settles, as on iOS
  (`xpjx_promise`); `sendEventToRnNoCheck`, `loginFailed` and the iOS class method for
  payments, which have no caller.
* `HomeScreen.fetchBookinfoList`, which is commented out at its only call, and
  rendering.
* The request parameters of `getAuthParameters` (constants) and the pure helpers
  of `BaseHandler` without a caller.
* `BOOL isTrue = [msg objectForKey:@"man"]` (`XpjxModule.m:30`), whose value is
  only logged.

## 6. Plan

The modules were written in the order of their importance.

1. `JsonHelp`, `NetworkActivity` and its proofs: the one component with a data
   race on its own objects.
2. `XpjxModule` with HomeScreen, and its proofs.
3. `BaseHandler`, `HCHttpClient`, the abstract `OneShotCalls`, and the proofs.
4. `BaseEntity` and `MobileApiHandler` on top of `HCHttpClient`, and the proofs.
5. `AndroidXpjxModule`, its refinement of `OneShotCalls`, and the proofs.
6. `Navigation`, and the proofs.
7. `IOSApp`, which composes `Navigation` with `XpjxModule` and discharges
   `ScreenMayUnmount = FALSE`, and the proofs.

All of these are done, with every safety property of a passing run proved. What a
change of the code would call for first: `fetchBookinfoList`, once it is called; the
payment and scheme notifications of `XpjxModule.m`, once something posts them; and
the calls in `viewDidLoad` that would fix an order on the six demo requests.
