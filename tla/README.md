# A TLA+ verification project for com4j

com4j lets Java programs call COM objects.  A COM object may only be called on
the thread that created it, its life is governed by reference counting, and it
may call back.  Most of com4j is therefore a small concurrent runtime: shadow
threads with task queues, wrappers whose native pointer must be released exactly
once, event subscriptions, and a shutdown hook.  Below it native code converts
arguments, owns what it allocates for them, and calls through libffi.  Beside the
runtime there is
`tlbimp`, a batch program that generates Java interfaces from type libraries.

Paths below are relative to `src/runtime/src/main/java/com4j/` unless they begin
with `native/` (for `src/native/`) or `tlbimp/` (for
`src/tlbimp/src/main/java/com4j/tlbimp/`).

## 1. Inventory

| Component | State | Operations | What makes it correct |
|---|---|---|---|
| **ComThreadMulti** (`ComThreadMulti.java`, `Task.java`, `Win32Lock.java`, `native/com4j_Win32Lock.cpp`) | `taskList`, `die`, the event of `lock`, `liveComObjects`, `collectableObjects`; per task `done`, `result`, `exception` | `execute`, `kill`, `detach`, `flushFreeList`, `run0`, `collectGarbage`, `addLiveObject` | tasks run once, in order, one at a time; callers get their own outcome; no lost wake-up; the thread stays while somebody needs it and ends when nobody does |
| **NativePointerPhantomReference** | `ptr` | `releaseNative` | one `Release` per pointer, none while the wrapper is in use, none forgotten |
| **Wrapper** (`Wrapper.java`, `InvocationThunk`) | `isDisposed`, `ptr`, `invCache`, the cached hash code | calls, `dispose`, `queryInterface`, `is`, `advise`, `hashCode` | a call runs once with its own arguments and returns its own result; none on a released pointer |
| **Task context** (`Task.java`, `ComThreadSingle.java`) | thread-local `comThread`, live references of an STA thread | `Task.execute`, `ComThreadSingle.execute`, `detach` | a wrapper is bound to the thread it was created on |
| **COM4J** | shutdown task lists, listeners | `createInstance` ..., `cleanUp`, `addShutdownTask`, the shutdown hook | application tasks run before com4j's own, each once; the hook ends |
| **Event subscriptions** (`EventProxy.java`, `native/eventReceiver.*`) | `nativeProxy`, `connected`, the reference count of the receiver | `advise`, `close`, delivery | the receiver is destroyed once, and not before the source has let go of it |
| **ComObjectCollector** (`util/`) | list of weak references | `onNewObject`, `remove`, `disposeAll` | what was removed is kept, all else is disposed of |
| **ROT, ComCollection** | prefetched element, enumerator pointers | iteration, clean-up, `finalize` | every element once, pointers released once |
| **Native.invoke** (`native/invoke.cpp`, `native/cleanup.h`, `native/unmarshaller.h`, `*ComMethod.java`, `NativeType.java`) | post actions, unmarshallers, temporary references | argument and result conversion for one call | every temporary freed once, also on an error path |
| **Variant and conversions** | the 16-byte image | `set`, `get`, dates, booleans, enums | what is put in comes out |
| **libffi** (`src/libffi/src/prep_cif.c`, `src/libffi/src/x86/ffi.c`) | the bytes counted, the pointer into the argument area | `ffi_prep_cif`, `ffi_prep_args`, `ffi_call` | arguments are within the area, and where the callee looks for them |
| **Type library access** (`native/typelib.h`) | caches of libraries and declarations that do not own them | `getType`, `getBaseInterface` ... | a cached pointer is never one already destroyed; one object per type |
| **tlbimp driver and generator** (`tlbimp/driver/Driver.java`, `tlbimp/Generator.java`) | libraries to generate, generated ones, packages, file names | `generate`, `finish`, `resolve` | every referenced library is generated, once |
| **tlbimp methods and output** (`tlbimp/MethodBinder.java`, `tlbimp/IndentingWriter.java`) | overload under construction, mark and buffer | `declare`, `mark`, `cancel`, `commit` | generated default-value mappings reach the right parameter; cancelled output leaves no trace |
| **registry, GUID, loading of the DLL; Ant task, mojo, command line** | none worth modelling | thin calls | - |

How they interact: a Java thread calls a proxy, `Wrapper.invoke` puts the call in
an `InvocationThunk`, which is a `Task`; `Task.execute` either runs it at once
(already on the COM thread) or hands it to `ComThreadMulti.execute`, which queues
it, signals the event, and waits on the task's monitor.  The worker wakes from
`Win32Lock.suspend`, in which it also dispatches window messages and hence COM
callbacks, collects garbage, runs the queued tasks, and goes back to sleep.
`Native.invoke` converts the arguments and calls through the vtable.  Results
that are COM pointers become new wrappers on the same thread, which register
their phantom reference in `liveComObjects` and tell the listeners.

What is hard: the interleavings of callers, worker, garbage collector, and
shutdown; waiting that is given up (`InterruptedException`) while the task stays
queued; the worker that ends while somebody is about to call it; values read
outside a monitor (`isDisposed`, `invCache`, `nativeProxy`) and used later; calls
nested in calls (events); ownership of native memory on error paths.

## 2. The modules

### ComThreadMulti, and the service it implements

`ComThreadMulti.tla` is one worker, the Java threads that use it, its tasks and
the wrappers living on it.  `wpc` is the place of the worker in `run0()`, `pc[c]`
the place of thread `c` in `execute()` or `kill()`.

| Code | Model |
|---|---|
| `while(!canExit())` | `TestExit`, `CanExit` |
| `lock.suspend(10)` | `WakeUp`: signalled or timed out, the event is auto-reset; `RunsCode`: callbacks are dispatched meanwhile |
| `collectGarbage()` | `Collect` (three places), `CollectGarbage` |
| `taskList.get(0); remove(0)` | `TakeTask`; an empty list is `TasksDrained` |
| `task.invoke()` | `BeginInvoke` (takes the monitor), `EndInvoke` (`done`, outcome, `notify()`) |
| the loop over `liveComObjects`, `lock.dispose()` | `Clobber`, `CloseHandle` |
| `execute()` | `Submit`, `ActivateWorker`, `Wait`, `Unblock`, `Reacquire`, `Return`, `GiveUp` |
| `kill()`, `detach()` | `Kill`, `KillSignal`, `Join`, `JoinInterrupted` |
| `new Wrapper`, `dispose()` | `NewWrapper`; `NestedDispose` on the worker, a request otherwise |
| the Java heap | `Drop`, `Enqueue`, `PeerExits` (external) |

A step ends where another thread could see or change something the code goes on
to use: between adding a task and signalling, between checking `done` and waiting,
between notification and getting the monitor back.  A `Task` object is a value of
`Tasks`; a value may be used again when nobody refers to it.

`TaskService.tla` is the promise: a FIFO of requests, served one at a time, each
caller gets the reply to its own request or gives up.  `ImplementsService` maps
`taskList` to the backlog, the task being run to `busy`, `cur` to what a thread
asked, and the outcome in the task to the reply.

### WrapperCalls

Calls of one wrapper through its `InvocationThunk`, which is a task that is used
again.  `pc[a]` is the place of an actor in `Wrapper.invoke()`; the worker is an
actor too, since event handlers may call.  Sleeping, killing and garbage are left
to `ComThreadMulti`: the worker always gets to its queue here.

| Code | Model |
|---|---|
| `if(isDisposed ...) throw` | guard of `BeginCall`, `Dispose`, `Query` |
| `if(invCache==null) invCache = new ...; invCache.invoke(...)` | `LookUp`, `Create`, `Read`, `ReadNull`: three separate accesses |
| `InvocationThunk.invoke()` | `Enter`, then `Submit` and the wait; `Leave` is its `finally` |
| `execute()` on the worker itself | `CallDirectly` |
| `wait()`, notification, interrupt | `Notify`, `Unblock`, `WaitAgain`, `Return`, `GiveUp` |
| `InvocationThunk.call()` | `BeginInvoke`, `EndInvoke`: method and arguments are cleared unless the call throws |
| `dispose()`, `queryInterface()`, `is()` | `Dispose`, `Query`, `ServeOwn`: their task is named by the calling thread; an interrupt of these is not modelled |

The documentation leaves concurrent access to one object aside
(`ComThreadMulti.java:26-27`).  `TakeTurns` says whether callers serialise their
use of the wrapper; only with it are results promised.  `OwnOutcome` fails without
it (`invCache` may be null at its second read, and two callers may share a thunk).

### EventSubscription

Subscriptions, their native receivers, and a COM thread whose activities nest:
`frames` is its stack of tasks and events.  Events are delivered while it sleeps
and while a COM call (`Advise`, `Unadvise`, anything a handler calls) is under
way, so that a handler can close a subscription in the middle of another
operation.  Native code that uses a null pointer or a deleted receiver ends the
model with `crashed`.

| Code | Model |
|---|---|
| `Wrapper.advise()`, `CEventReceiver::create/init` | `Advise`; `Register`, `Registered`, `NotRegistered` |
| `EventProxy.close()` | `Close` (test of `nativeProxy`), `Return` (`nativeProxy = 0`), `CloseInHandler` |
| `Native.unadvise`, `Disconnect()`, `delete er` | `Disconnect`, `Delete`, `Crash` |
| `CEventReceiver::Invoke`, the event handler | `Deliver`, `EventHandled` |

The event source is external: it registers the receiver before `Advise()`
returns, may refuse `Advise()`, and may refuse `Unadvise()` where `UnadviseFails`.
The code does not survive closes of one cookie that overlap, also where the second
comes from an event handler during `Unadvise()`, nor a `close()` repeated after an
interrupt: `spoilt` marks these subscriptions, and `SafeToClose` and
`CookieOwnsReceiver` say that nothing else goes wrong.

### TaskContext

Which COM thread a wrapper is bound to, and the `ComObjectCollector` that listens
to new wrappers.  `frames[t]` is the stack of thread `t`: tasks it executes or
waits for, tasks a worker runs for others, event handlers, the loop of
`disposeAll()`.  `nested` in a frame is history: a task was executed further in.

| Code | Model |
|---|---|
| `Task.execute(ComThread)` | `Execute`: notes the thread in `comThread`, runs the task at once or queues it; `LeaveExecute` clears the variable, it does not restore it |
| `ComThreadSingle.execute()` | the same with `Single(t)`; another thread gets an exception |
| `ComThreadMulti.run0()`, `Task.invoke()` | `Take`, `EndCall` with `Answer` (success or failure), `Return` |
| `createInstance()`, `wrapSta()`, calls, `dispose()` | `Create`, `Call` |
| events while native code runs, or the worker sleeps | `DeliverEvent`, `EndEvent` |
| constructor of `Wrapper`, `onNewObject()` | `NewWrapper`, `ContextOf`, `Listened` |
| `disposeAll()` | `DisposeAll`, `NextObject`, `LoopFails` (`ConcurrentModificationException`), `LoopEnds`, `Clear` |

Left out: garbage, killing and interrupts (`ComThreadMulti`), and a
`disposeAll()` called by a handler inside of `disposeAll()`.  The collector's
`LinkedList`, which a worker changes without a lock while the application
iterates, is taken as atomic; the worker adds to it between any two steps of the
loop.  `remove()` is left out too: it compares the argument, a proxy, with the
`Wrapper` in the list, so for an object made with an interface it finds nothing.

Two things the code gets wrong are written into the properties.  A task executed
inside another leaves `comThread` null, so a wrapper the outer one then makes is
bound to the worker of its thread; on an STA thread that is the wrong one, and the
assertion in the constructor of `Wrapper` fails (`BoundToItsThread` says that this
is the only case).  An object made after `disposeAll()` looked for the last time
and before `clear()` is forgotten without being disposed of (`missed`).

### NativeCall, Conversions, FfiCall

One native call from `StandardComMethod.invoke` down and back.  `Conversions`
has the conversions of objects to VARIANTs, SAFEARRAYs and dates and back as
operators, `FfiCall` is libffi's part, and `NativeCall` the rest.

| Code | Model |
|---|---|
| `ComMethod.messageParameters`, `NativeType.toNative` | `MessageParameter` |
| the conversion loop of `Environment::invoke` | `ReturnBuffer`, `NoMoreParameters`, one `Convert...` per group of conversions, `Pass` for what follows the `switch` |
| `error(); return NULL` | `Fail`; the use of a null, or of what lies past an end, is `Fault`, which ends the call |
| `add(new ...CleanUp)`, `~Environment` | `Added`, `RunPostAction` |
| `ffi_prep_cif`, its machine dependent part, `ffi_prep_args` | `FfiPrepare`, `CountArgument`, `CountAgain`, `PlaceArgument` |
| the COM method (external) | `CalleeReplaces`, `CalleeReturns`: it keeps COM's rules |
| after `ffi_call` | `ReturnFromNative` |
| `toJava`, the `finally` block | `ConvertResult`, `CleanupParameter` |
| `invokeDispatch` | `ConvertDispatchArgument`, `InvokeDispatch` |

`heap` has an entry for each thing the call must give back, with how often it was
freed and how many Java objects own it.  A value is a class and a small number;
what matters about it is which conversion takes it and what becomes of it.  The
build (`abi`) is chosen once: 32-bit stdcall or Win64.

What the code does wrong shows as the exceptions the properties name: the BSTR of
a by-reference string and the reference of a wrapper in a holder have two owners
(`OwnedTwice`), so does whatever an in/out return value is about; after a failed
call the unmarshaller of such a value is used when it has been deleted
(`NoUseAfterFree`); `error()` leaves the unmarshaller of the return value, an
exception on the Java side, in the `finally` block too, leaves references, and
`invokeDispatch` leaves what its VARIANTs hold and each reference to `IDispatch`
taken for an argument (`NothingLeaks`); dates before 30
December 1899 lose their time of day, or go back a day if they are midnights
(`Variant.fromDate`, which calls itself the opposite of `toDate`), and rows longer
than the first are cut (`Kept`).  In the model but in no property: `INT64_byRef` and `PVOID_byRef` always
fail, a null SAFEARRAY and a holder with a value that no VARIANT takes crash, a
two-dimensional array comes back as an `Object[]` of rows.

`FfiCall` allows every sequence of types, `NativeCall` calls it with those it
has made: `FfiSpec`, a property of run `native_calls`, says that this is an
instance, so that what is proved of `FfiCall` holds of com4j's calls.

### TypeLib, TypeIdentity

The COM objects that show a type library to Java, their reference counts, and the
two caches without references: `CTypeLib::libraries` and the children of each
library.  Java obtains objects from objects and releases them in any order.

| Code | Model |
|---|---|
| `loadTypeLibrary`, `CTypeLib::get` | `LoadTypeLibrary`, `Get` |
| `getChild`, `CTypeDecl::create` | `GetTypeDecl`, `GetChild` |
| `getRef`, `createType`, `CPtrType::create` | `GetRef`, `CreateType`, `PointerTo` in `GetType`, `GetReferred` |
| `raw_getVtblInterface`, `raw_getDispInterface` | `GetVtblInterface`: a missing declaration is used all the same (`crashed`) |
| the other getters that return an object | `GetMember`, `GetParam`, `GetOwner`, `QueryInterface` |
| `Release`, the destructors | `Release`, then `Destruct` once per object of the cascade |

Some paths leave a reference behind: `getRef` one on the library for each call,
`CPtrType::init` one on the target.  `CountedReferences` therefore asks for at
least the references in use, and for exactly those of the parts of a declaration.
(`raw_getTypeDecl` and `loadTypeLibrary` leave references on OLE's objects
too, which are not modelled.)  OLE is taken to return one `ITypeInfo` pointer per
type and one `ITypeLib` per library; the maps of the code depend on it.

`TypeIdentity` is the promise: one object at a time for each type, as long as the
user has it.  `tlbimp` compares declarations by identity and keeps them in maps.
`OneObjectPerType` maps the declarations that exist to it.

## 3. Runs

| Run | Instance | Shows |
|---|---|---|
| `worker_safety` | 2 threads (one may kill), 2 tasks, 2 wrappers | the safety properties and `ImplementsService` |
| `worker_kill` | 2 threads, 1 task, 2 wrappers, killer and cookie | a kill ends the worker once tasks stop coming; enqueued references get released |
| `worker_live` | 2 threads, 2 tasks, 1 wrapper, no killer, no cookie | `execute()` returns, the fair service is implemented, the worker retires |
| `execute_after_kill` | as above with a killer | **violation**: a task queued after the worker's last look is never run and its caller hangs |
| `calls_in_turn` | 2 threads and event handlers in turn, 3 thunks, 4 calls | calls run once, on live pointers, with their own outcome, and return |
| `calls_collide` | 2 threads collide, interrupts | nobody waits for a thunk the worker does not have |
| `calls_interrupted` | 2 threads in turn, interrupts | **violation**: the stale thunk runs a call twice |
| `subscriptions` | 2 threads, handlers, 2 subscriptions, 3 frames, overlapping and interrupted closes | only overlapping or interrupted closes lead to a deleted receiver; cookies and receivers go together; `close()` ends |
| `close_after_refusal` | 1 subscription, one `close()` at a time | **violation**: the second `close()` works on a deleted receiver |
| `task_context` | 2 workers, an application thread that calls and has an STA, 2 wrappers, 5 frames in all | wrappers are bound to the thread of their object but for one case, the collector forgets nothing but in one window, who waits is known to the worker |
| `native_calls` | every conversion with every class of argument, return values of every kind and position, pairs of parameters, both builds | arguments are in the frame and where the callee looks; each allocation goes back once; untouched by-ref values survive the round trip; the calls refine `FfiSpec` |
| `type_libraries` | 2 libraries with a type each that may refer to each other, 4 objects at a time, 3 references each | nothing is deleted while it is used, the caches name exactly what exists, one object per type |

Bounds.  Two threads suffice for every pairwise race (caller and caller, caller
and killer); two tasks for a queue whose order matters and a stale entry behind a
live one; two wrappers for one that is collected while another is used.  Three
thunks are one per actor; `MaxBacklog` and `MaxQueue` (2) bound the tasks that
interrupted threads leave behind, and two stale ones beside a live one are enough
to be mistaken for each other.  `MaxFrames` (3) is a task, an event in it, and a
close in that; in `task_context` the 5 are shared by all threads, enough for a task,
an event, a task in that, and the worker serving it with an event of its own.  Two
wrappers are one disposed of while the other comes in.  `runs` counts to 2, which
is all `RunAtMostOnce` asks.

`MCNativeCall` enumerates calls: each of some 30 conversions with each class
of value it takes, with six kinds of return value; each kind of return value
alone; each by-reference parameter as an in/out return value; each of these beside
a second parameter from a smaller set, on both sides.  Arguments interact through
the order of the clean-up list, alignment and the position of the return buffer,
which pairs show; longer lists are for the proof.  In `MCTypeLib` two libraries
with one type each let references cross; four objects are two libraries, a
declaration and a pointer or part of it; three references are Java's two and one
of another object.

Deadlock
checking is off in every run: a Java program may stop calling, and a dead worker
takes no step.

Fairness.  `WF` of the worker and of each thread: the JVM schedules runnable
threads and COM calls return.  `SF` of `BeginInvoke`: it waits for a monitor that
callers take and release again.  In `WrapperCalls` and `EventSubscription` `SF` of
the end of a COM call or handler: it ends, however often events nest in it; and
`SF` of `Take` in the latter: events leave time for tasks, i.e. messages do not
flood `suspend00()`, whose inner loop would otherwise never end.  No fairness for what the program or the collector
may never do: submit, kill, exit, drop, enqueue, interrupt.

## 4. Proofs

`ComThreadMultiProofs.tla` proves the safety properties for every set of threads,
tasks and wrappers.

* `TypeCorrect`: `TypeOK` is inductive.
* `PointersReleasedOnce` (`ReleasedOnce`) and `PointersAreTracked`
  (`HeldIsTracked`): with `CountFollowsPtr` (a pointer is `"zero"` exactly when its
  count of releases is 1) both are inductive.
* `GarbageCollectionIsSafe` and `NaturalDeathIsSafe` rest on `RootsInv`, which says
  of every wrapper still referred to, by the program or by a task in flight, that
  it is registered, not enqueued, and still there unless disposed or killed.
  `NaturalDeathIsSafe` assumes that nobody holds an event cookie: a cookie does
  not keep the worker alive, and `close()` on a dead one waits for ever.
* `WakeUpsAreNotLost` needs more than the sleeping worker: the invariant speaks of
  every place from which the worker reaches `suspend` without looking at the queue.
* `ServiceImplemented`: a step of the worker is a step of `TaskService` or a
  stutter, given that an outcome is there only when the task is done.

`WrapperCallsProofs.tla`: `TypeCorrect` (with `OwnTasks`: a thread has one task of
its own queued or served exactly while it waits for it) and `WaitersAreServed`,
for every set of threads, thunks and calls, callers colliding and interrupted or
not.  `WaiterInv` adds to `WaiterIsServed` the threads that have woken up, which
may go back to waiting.

What the proxy promises to callers that take turns and wait for their answers
(`TakeTurns`, no `Interrupts`; without either, runs and findings show it broken):
`CallsRunOnce`, `CachedThunkIsFree`, `DisposedIsNotCalled` and `CallersGetTheirOwn`.
One inductive invariant, `TakenTurnsInv`, carries them: one thread at a time is busy
with the wrapper, the worker only in an event inside of that thread's call
(`TurnInv`); no two actors have the same thunk, and the cache has a thunk only until
it is entered (`CacheInv`); a call is where it should be, in the thunk, with the
worker or back as the outcome (`CallInv`); and nobody is busy once it is disposed of.

Assumptions are those of the modules (`ThreadsAssumption`, `CallersAssumption`, `NoneAssumption`).
Liveness (`ExecuteReturns`, `KillEndsWorker`, ...) is model-checked only.

`EventSubscriptionProofs.tla`, for every set of threads and subscriptions, and any
depth of nesting.  `TypeCorrect` has no hypothesis.  The rest assume
`~UnadviseFails`, the source lets go when it is asked to: otherwise the code deletes
the receiver all the same, which run `close_after_refusal` shows.

* `SinksAreAlive` (`NoDanglingSink`) holds whatever overlaps.
* `ClosingIsSafe` (`SafeToClose`) and `CookiesOwnReceivers` rest on `SubscriptionInv`,
  for a subscription whose closes did not overlap: there is at most one task for it,
  queued or on the stack (`OneAtATime`), the task finds the receiver in the state its
  stage counts on (`TaskStages`), and a thread with its answer leaves no task behind
  (`AnswerInv`).
* `CloseMayBeRepeated`: a refusal is the only reason for the violation found.

`TypeLibProofs.tla`, for any libraries and types, and any bounds that are numbers
(`BoundsAreNumbers`).  A call of Java may make several objects and take several
references, so the lemmas are about worlds, an `obj` and a `libraries`, and each
helper of the code has one that says what it does to them.

* `ReferencesAreCounted`, `OwnersOutliveParts`, `CachesNameWhatExists`, `TypeCorrect`:
  `IInv` says that parents and caches agree (`Shape`), that the references are at
  least what Java and the parts of an object have (`Counted`), and that at most one
  object is without any, the one whose destructor is due.  The last makes the
  cascade of destructors a sequence and the lookups safe.
* `ImplementsIdentity`: TypeLib implements `TypeIdentity`.  A library has at most one
  declaration per type, which exists as long as a user has it.

`FfiCallProofs.tla`: `FfiFrame` proves `ArgumentsWithinFrame` for every sequence of
types on either build.  The inductive invariant, `FfiInvariant`, relates the two
loops through history: `counted` keeps the first loop's sum after each argument,
and the placing pointer, rounded up, never gets ahead of the sum for the
arguments placed.  The counts made a second time on Win64 only add to that; the
32 bytes of the shadow area are what the machine dependent part adds.  The lemmas
bound one argument: `CountCovers` says that what is counted for it covers what it
takes.  `FfiOrder`: each argument is placed where the widths of those before it
say, without a gap (`PlacedInv`).

`TaskContextProofs.tla`: for every set of threads and every bound, stacks of any
depth included.

* `TypeCorrect`: `TypeOK` of `TaskContext`, which the run leaves to the proof.
* `WrappersAreBound` (`BoundToItsThread`) needs `StackOK`, which ties the stack of a
  thread to its variable: the last `"execute"` frame owns the variable until a task
  was executed further in, and then the variable is clear.
* `WaitersAreKnown` (`NobodyWaitsInVain`) needs `QueueInv`: queues and workers know
  the threads that wait, and no others, once each.  It excludes neither circles
  of workers that wait for each other nor that an event keeps one of them busy.
* `NothingIsForgotten` (`CollectorRemembers`) needs `CollectInv`, about the frames of
  `disposeAll()`: each object the loop has passed is disposed of, or is the one the
  next frame's task disposes of.  That task reaches the worker under the name of
  the frame that waits for it, and does not fail.

Assumptions are the named ones of `TaskContext`; `FfiCall` has none.

`NativeCallProofs.tla`, for every set of calls as `CallsAssumption` has them: a
return index is that of a parameter, or the one behind them, or -1 (`ComMethod`; what
an annotation of `tlbimp` says is the position of a parameter).

* `ImplementsFfi`: com4j's calls are steps of `FfiSpec`.  The conversion loop only
  passes kinds libffi has a type for (`PassedInv`).  `FfiFrame` therefore holds of
  them (`CallsStayInFrame`), and so does `FfiOrder`.
* `ArgumentsAreFound` (`CalleeFindsArguments`): `LoopInv` says how the two indexes of
  the loop go apart.  Each round takes a parameter and passes an argument, but for
  the one that passes the return buffer and, without one, the last.  What is passed
  is at every point the beginning of what the callee's declaration asks for, and
  `FfiOrder` puts it where the callee looks.
* `EchoesComeBack` (`EchoComesBack`), of the way of a value into a VARIANT and back.
  `PlainTrip`, `VariantTrip` and `ArrayTrip` do the conversions: the first entry of the
  table for a class of objects and the first for the type of VARIANT it makes are the
  same one, and arrays, of any length and with one or two dimensions, follow element
  by element (`HeldComesBack` puts them together).  The recursion has the depth of a
  two-dimensional array at most, so no induction over data is needed.  `EchoInv` does
  the call: each holder that has been converted has an OutParamHandler whose
  unmarshaller carries its value, or has the value already; no other handler and no
  clean-up writes to it.
  The theorem's own hypothesis is `HoldersAreTyped`: holders of objects hold null, an
  object of a class in the table, an array of such objects or of primitives, a
  two-dimensional array or `Variant[]` of them, or what no VARIANT takes.  It leaves
  out arrays with nulls, enums or further arrays as elements, and an empty `Variant`.
  TLC evaluates it for the calls of the run.  `Kept` was wrong before this proof: it
  let midnights before 30 December 1899 come back, which `Variant.fromDate` takes back a day.
* `DatesThatComeBack`: `Variant.fromDate`, by its comment the opposite of `toDate`, is
  so for the dates from that day on and for no other.

`NativeOwnershipProofs.tla`: who gives back what, under the same assumption, for any
number of parameters, of any conversions and arguments, in/out values and failures
included.

* The state is seen as a *world*: the heap, the post actions and the unmarshallers.
  Each post action *claims* entries of the heap (`Claim`), two of them the same one
  only if it is the BSTR of a holder.  An entry that nobody has freed or owns is
  *fresh*.  The first part of the module says what each way to allocate, push an
  action, replace a value or free does to a world.
* `Ownership` is the inductive invariant.  `CoverInv`: a fresh entry is claimed by a
  post action, by the return value or by a parameter of the finally block, or is one
  that an exception loses (`Lost`).  `TurnInv`: what is claimed is still fresh when
  its turn comes.  `ApartInv`: the return value and the parameters have nothing in
  common with each other or with a post action.  `OutInv`: each unmarshaller has the
  one OutParamHandler of its own parameter.  `RetInv`, `RefsInv`: a reference changes
  hands between the unmarshaller and the Java side with its kind and value known,
  which decides whether a Wrapper takes it, `Dispatch` releases it or an exception
  loses it.  `FlowInv`: which of them there can be at which point of the call.
* `EachFreedOnce` needs `TurnInv` and `ApartInv`; the exceptions it names are those
  where two claims meet.  `NeverUsedAfterFree` needs the part of `TurnInv` about
  in/out values: only the failed call has deleted what an OutParamHandler will read.
  `NothingIsLeft` is `CoverInv` at the end of the call, where nobody claims anything
  any more.  `CallsHaveTypes` is `TypeOK`.

Model-checked only: liveness.  It needs fairness and ENABLED, which the installed
provers do not reason about.

## 5. Plan

Modelled and checked: all modules above.  Proved: every safety property the passing
runs check, and the three refinements.  Left: to model more of
what section 6 lists, first the default methods and the shutdown hook, whose
hazards have no property yet.

## 6. Not modelled

* The shutdown hook of `COM4J` runs the application's tasks, then kills a snapshot
  of the workers.  What a kill does is in `ComThreadMulti`; the hook itself is two
  loops over lists that other code owns.
* `ROT` and `ComCollection` iterate with OLE's own interfaces.  That `finalize()`
  releases pointers on another thread is a hazard without a property.
* Chains of default methods and default parameters (`DefaultedComMethod`,
  `UseDefaultValues`): straight-line code around one call.
* Accessors of `com4j.Variant`, `EnumDictionary`, GUID, registry, loading of the DLL.
* Type libraries used by two COM threads: `CTypeLib::libraries` is static and has no
  lock, so nothing could be promised.
* Event arguments and dispatch by DISPID.
* `tlbimp`, its command line, Ant task and mojo: a sequential program that writes
  text.  Its questions are about the text.
* Samples and data.

Coverage.  The larger part of the repository's C and C++ is vendored: libffi's own
tests, and parts of libffi that com4j never calls.  Of the native code that
is com4j's, many lines are tables, COM boilerplate and getters of names and
numbers that have no state.  The share of all these lines that the modules stand
for is therefore small and stays small; the logic of the runtime is in Java.
