# A verification project for quickjs_nodejs

`quickjs_nodejs` gives the QuickJS engine a Node-like host in Go: an event loop
with an owner goroutine, timers, module loading, and the usual modules (fetch,
WebSocket, MessageChannel, structuredClone, AbortController, fs, buffer, URL,
WebCrypto, ...).  This directory holds TLA+ models of it, the TLC configurations
that check them on small instances, and TLAPS proofs of what holds on every
instance.  Paths such as `eventloop.go:651` are relative to `src/<package>/`.

    tlc -workers 2 -config calls.cfg MCEventLoop.tla     model-check one run
    tlapm EventLoopProofs.tla                            check the proofs of a module

## 1. Inventory

### 1.1 The event loop (`eventloop/`) - modelled

One goroutine, the *owner*, is locked to an OS thread and owns a QuickJS runtime
and context.  Everything else is a *client* goroutine.

| State | Where | Who writes it |
|---|---|---|
| `commands` (buffered channel, 256), `done` | `EventLoop` | clients send, owner receives; the owner closes `done` |
| `closeOnce`, `closeErr` | `Close` | whoever is inside the `Once` |
| `closed`, `generation` (atomics) | | owner; clients read them |
| `state`, `tasks`, `timers`, `jsTimers`, `timerCallbacks`, `resources`, `ctx`, `rt` | | owner only |
| `cancelled` of every timer handle (atomic) | `timer.go` | anyone |

Operations: `Schedule`, `SetTimeout`, `SetInterval`, `SetImmediate`, `Timer.Cancel`,
`Interval.Cancel` (never block); `Run`, `Do`, `Start`, `Stop`, `Reload`,
`RegisterResource`, `ContextTask`, `DoContext`, `RunContext`, `Close` (block until
the owner replies); each has a second path for a caller that *is* the owner.
JavaScript reaches the loop by `setTimeout`, `setInterval`, `setImmediate` and
their `clear` functions.

Hard: two selects per call; a command channel that may be full; work that is
queued in one generation and received in another; user code on the owner that
calls Stop, Run, Reload or Close in the middle of the loop that runs it; two
callers of Close, one of them the owner; failure in the middle of Reload; a
pump that prefers tasks to timers; three records of one JavaScript timer.

Correct when: nothing accepted is lost while its generation lives and nothing of
a dead one runs; tasks run once, in order; no call returns before its task; every
call returns; Close leaves nothing behind, closes every resource once and in
reverse order, and is final.

### 1.2 The modules above it

Their goroutines reach the owner through `ctx.Schedule`, which is not the loop's
`Schedule`: it appends to the job queue of the quickjs-go Context, which belongs to
the engine (external) and which `pumpOnce` runs with `ProcessJobs` (`eventloop.go:612`).
A job goes away with its context, and the context may refuse one.

| Component | State | Operations | Hard | Correct when | Model |
|---|---|---|---|---|---|
| limits (`limits.go`) | two channels of slots | acquire, release | release from several paths | slots held = requests alive | SlotPool, and in its users |
| fetch (`fetch/runtime.go`, `module.go`) | map of requests, closed flag | register, cancel, complete, Close; a goroutine per request | abort against answer against Close | each slot is released once, none registered after Close | FetchRuntime |
| websocket | connections, state, `finishOnce`, readyState | open, connect, send, close, fail, finish, closeAll | a goroutine per send; events through a queue that may refuse | one close event, last; no Conn and no slot is left | WebSocketRuntime |
| messagechannel, structuredclone (transfers) | ports, queues, started, detached | postMessage, start, close, transfer, dispatch | transfer while messages are queued; a clone that throws | ends linked, messages kept in order, a started port is woken | MessagePorts |
| abort | listeners, dependents | abort, any, timeout | listeners that abort, remove or throw | each dependent aborted; each listener heard once | AbortSignals |
| module registry, CommonJS | definitions, caches per context | Add, Register, require, resolve, LoadMain | cycles, failing modules, aliases | one evaluation per module, no cache entry of a failed one | Loader |
| fs | root, policies; a goroutine per promise | resolve, authorize, use, settle | the path changes between check and use | what is used is what was authorized | FsAccess |
| url | an href; params as a view of it | the methods of URLSearchParams, setters, walks | writes while it is walked | the view agrees with the href; the methods do what they say | UrlParams |
| buffer, blob | bytes | accessors, slices | boundaries | inverse pairs, ranges | no: no state between calls |
| fetch's Headers, crypto, util, console, process, errors | none between calls | | | | no: checks of characters, primitives, formatting, constructors |
| conformance, internal/testutil | | | | | no: test infrastructure |

The engine itself (quickjs-go) is external: contexts, jobs and promises are
modelled only through what the loop does with them.

### 1.3 Interaction

    client goroutines --commands--> owner --runs--> tasks, timer callbacks,
        ^                             |             Close methods, installers
        |<-------- reply / done ------|                 |
                                      ^---- the API ----|   (re-entrant)

    fetch, websocket, fs goroutines --ctx.Schedule--> the context's own job queue,
        which the owner runs after each task while the loop is started

## 2. Plan

Modules, in order of importance; each comes with its runs, mutants and theorems.

1. **EventLoop** with **TimerHeap**, **SerialQueue** and the proofs of
   **EventLoopProofs**, **EventLoopWorkProofs** - done (sections 3, 7, 9).
2. **FetchRuntime** with **SlotPool** and **FetchRuntimeProofs** - done (section 4).
3. **WebSocketRuntime** with **WebSocketRuntimeProofs**, over the same SlotPool - done
   (section 5).
4. **MessagePorts**, **AbortSignals**, **Loader**, **FsAccess**, **UrlParams**, composed
   by **WebApi** - done (section 6), with **MessagePortsProofs**, **AbortSignalsProofs**,
   **LoaderProofs** and **FsAccessProofs**.
5. Left: pure algorithms against reference definitions on bounded inputs (numeric ranges
   of buffers, Blob slices, `jsDelay`, percent-escaping).

The abstract specifications are `SerialQueue` and `SlotPool`, which is one pool for two
kinds of users.

## 3. The model of the event loop

`EventLoop.tla` has the owner, the clients, the clock and one action per step that
another goroutine could observe.

**The owner's stack.**  The owner runs user code, which calls the API, which may
run more user code.  `stack` is that call stack, innermost frame last; a frame has
a function, a point in it, the client that waits for its reply, and the locals that
survive a call (`progressed`, the timer's entry, the index of `closeResources`, the
`previousState` of a Reload).

| Frame | Code |
|---|---|
| `owner` | `owner()`: receive one command, or pump, until closed |
| `run`, `runTask` | `runUntilIdle`: the task, then a loop of its own |
| `task`, `timer` | `pumpOnce`, `fireDueTimer`: one callback |
| `do`, `nestedDo`, `nestedContext` | `Do`, `DoContext`, `ContextTask` by command or on the owner |
| `reload`, `failedReload`, `close` | `reloadOnOwner`, `closeOnOwner`, with `disposeGeneration` |
| `resource`, `installer` | user code called by these |

| Points of a loop | Code |
|---|---|
| `top` | the loop's condition |
| `drain` | `drainCommands` |
| `work` | `pumpOnce` up to the task or timer it runs |
| `ran` | the look at the state after it (`eventloop.go:608`) |
| `jobs` | `ProcessJobs` and `LoopOnce`: the jobs run in the loop's own frame |
| `check` | `hasPendingWork`, in `runUntilIdle` |
| `wait` | `waitForWork` |

**Clients.**  `cl[c]` is the call goroutine `c` is in: `once` (inside or in front of
`closeOnce.Do`), `send` (the first select of `call`, or the one of `enqueue`),
`await` (the second), `waitdone` (`<-l.done` in Close).  `reply[c]` is its reply
channel, of capacity one.  The generation and the deadline of queued work are
stamped when the call begins, as in the code.

**Work.**  A task, timer or resource is an item with a unique id.  `timers` is the set
of heap entries; `TimerHeap` defines its root and the lazy deletion that leaves
cancelled entries below the root.  `cancelled` are the marked handles.  `jsTimers`
and `timerCallbacks` are the two other records of a JavaScript timer.

**History.**  `accepted`, `ran` and `closedLog` record what was accepted, which
callbacks started in which context, and which resources were closed; no guard reads
them except the one that enumerates timers a caller may hold a handle of.

**Steps.**  A handler that runs on the owner without calling user code is one action,
because only the owner reads what it writes; the exceptions - the channel, `done`,
`closed`, `generation`, `cancelled` - are read by clients, and each of the client's
reads is a step of its own.  `waitForWork` may time out at any moment: the poll
interval bounds it in the code.

**Jobs.**  Every pump that finds the loop running ends with the engine's pending jobs
(promise reactions, what `ctx.Schedule` was given), with a task or timer before them or
without.  What a job calls changes the loop like what a task calls, but the pump's
`progressed` knows only whether LoopOnce did more after them (`JobsReturn`).  Whether jobs
wait is the engine's, so the model lets any pump have some.  A job's Schedule or SetTimeout
goes into the channel after the pump drained it: the item is marked as a job's (`by`).

**Left out.**  What New does when it fails.  Errors of user code other
than the task of a Run and an installer: they are logged and change nothing.  A
client that calls a nil loop or passes nil.

**Assumptions about user code.**  It returns.  Close methods and installers do not
call Run, Do, Reload, Close or the context adapter (`ReentrantOps`): that re-enters a
disposal in progress, and the Go runtime panics or hangs at once.  Jobs do not call them
either: Reload and Close would free the context under ProcessJobs, and Run and the context
adapter would enter the job queue that is being worked off; Do from a job is its task's
body, so part of the job.  A JavaScript frame
does not free the runtime it runs in (`UserReload`, `UserClose` require no JavaScript
timer on the stack).

**Bounds.**  `MaxItems`, `MaxCalls`, `MaxActs`, `MaxNow` bound what is created, the
calls of clients, the calls of user code and the clock; they appear in guards of
actions that begin something, never in the middle of an operation.  `QueueCap` is a
constant of the program (256).  `MaxTimerID` is 2^32 - 1 in the code.

## 4. The model of fetch requests

`FetchRuntime.tla` has the requests of one fetch API (`fetchRuntime` and the goroutine
that `performFetch` starts), the slots of `limits.Runtime`, and the contexts that a
loop has one after another: the slots are made once and outlive a Reload, the runtime
is a resource of its context and goes with it.  `SlotPool.tla` is what the limits
package promises of a slot: at most Max holders, each takes one and gives it back once.

| Model | Code |
|---|---|
| `slots` | `len(fetchSlots)`; `Limited` is a channel that is not nil |
| `requests` | `fetchRuntime.requests`, one map per generation, each request in that of its own |
| `req[r].pc` | where the request's goroutine is: in the transport or reading the body, in front of `ctx.Schedule`, in front of `complete`, between the unlock and `release()` |
| `req[r].cancelled` | its `context.Context` is done |
| `promise[r]` | the promise that `performFetch` returned |
| `jobs` | the context's job queue (external) |
| `phase` | the owner, which runs JavaScript and jobs or is inside `Close`: flag, map, releases; then the context goes |
| `closing` | the local slice of `Close` |

`Fetch` and `FetchRefused` are the two ways out of `performFetch`, which runs on the
owner.  The owner alone registers and takes slots, so its check, its slot and its
registration are one action; a closed runtime takes a slot and gives it back within
that action.  `Complete` and `ReleaseSlot` are `complete` on the request's goroutine, in
two steps because others see the map between them; on the owner (`RunJob`) it is one,
with the settling of the promise that follows in the same job.  `Close` is a step for
the flag, one for the map, one for each request.

External: the transport returns sometime, with anything, before or after it was
cancelled (`RoundTrip`); `ctx.Schedule` appends a job while its context lives, or
refuses (`MayRefuse`; a context that is gone always refuses); a job that its context
has when it goes is never run.  Left out: the cleanup when `fetchHandle` returns nil
(no memory); a second fetch API in one context (each has its own runtime; they share the
slots only); headers, bodies and the response limit.

## 5. The model of WebSockets

`WebSocketRuntime.tla` has the connections of one WebSocket API, with the slots of
`limits.Runtime`.  There are three kinds of goroutine: the owner, which runs the
JavaScript class, the events of the context's queue and `closeAll`; one for each
connection (`<<c, 0>>`), which dials, attaches, reads and finishes; and one for each
send (`<<c, 1>>`, ...).

| Model | Code |
|---|---|
| `slots`, `connections` | `len(webSocketSlots)`; the runtime's map |
| `state[c]`, `code[c]` | the connection's state and close code, under its mutex |
| `link[c]` | its Conn: none, given by the dialer but not attached, up, hung up |
| `thread[t]` | where a goroutine is, and the code it will finish with |
| `fin[c]` | how far the body of `finishOnce.Do` is: hang up, remove from the map, release the slot, report |
| `closer[c]` | how far the owner is in `close` of that connection |
| `phase` | JavaScript runs, `closeAll` has set the flag, `closeAll` has taken its snapshot |
| `readyState[c]` | of the JavaScript object; `NoObject` before the constructor |
| `jobs` | events in the context's queue (external) |
| `seen`, `lost`, `broken`, `received` | history: what the object was told, which open and close events were refused, which connections really failed or were ended by the peer |

The mutex makes each of its critical sections one step, and everything between two of
them is a step of its own: `fail` looks at the state and reports later, `finish` has four
steps while the others wait for its `Once`, `close` marks and then hangs up and then
finishes.  The code a `close` is given is 1000 for every code in range; one out of range
throws after `readyState` was set (`CallCloseBadCode`).  A constructor that finds no slot
throws and leaves nothing.

External: the dialer and the Conn (they give a connection, a message or an error), and
the context's queue, which may refuse (`MayRefuse`).  Left out: payloads, protocols, the
read limit, listeners, and `bufferedAmount`, which the code never changes.

## 6. The models of what lives on the owner

Ports, signals, modules, fs calls and URLs share no state.  `WebApi.tla` composes the
five modules: `part` says which of them a behaviour is about.  Steps of two parts
commute and no property relates two parts, so interleaving them would reach nothing new.

**MessagePorts** - one channel and all the port objects its two ends become.  A transfer
(by `structuredClone` or with a message) detaches the object and makes another with an
id of its own, which takes the peer, the queue and `started` with it.  A value is the
sequence of ports and uncloneable things a clone meets in it, so that a clone may throw
half way; what it did until then stays done, as in the code.  `postMessage` looks the
peer and its queue up before it clones, and the clone may transfer that very peer.
`Dispatch` and `DispatchReturns` are two steps because listeners run in between.  Whether
a port has a listener at the moment is JavaScript's choice, for a port that JavaScript
has (`MayListen`); without one the message is used up and nobody gets the ports it
carries (`DispatchToNobody`) - so it is with a replacement that inherited `started` and
still waits in a queue.  The context may refuse a wakeup.

**AbortSignals** - controllers, `timeout`, `any`, and dispatches as a stack of frames: a
listener is user code, in which everything may be called again, or a dependent signal,
which is the next frame.  `Throw` ends the dispatches up to the user code that called
`abort`.

**Loader** - the registry (definitions, native modules, aliases, the ESM modules built)
and the CommonJS loader.  `frames` is the stack of module bodies, each with the search it
is in; a search is a list of candidates for each folder, computed as in the code (as a
file, with extensions, as a directory with its `package.json` or index; `node_modules`
upward).  A body is user code: it requires, replaces its exports, returns or throws.  The
export factories of a definition are host code: they have a frame of their own
(`CallFactories`), in which they may require anything, the module they make included, and
`prepareDefinition` goes on when they return (`FactoriesReturn`).  The files, their reader
and the path resolver are external.

**FsAccess** - one step for each look a call has at the files and for each use of them:
`resolveLeaf` at the directory, then `resolveExisting`, `resolveWriteTarget` or `isSymlink`
at the target, both again for the destination of a rename; the policies; the use, which
for unlink is an Lstat and then a Remove; and the settling of the promise.  Two calls
interleave at every one of them; a synchronous call holds the owner meanwhile.  The file
system is external: a tree with links, whose paths are followed anew at each use
(`EvalSymlinks`: one link after the other, `MaxLinks` of them at most, as an operating
system gives up too), which may fail at any look or use for reasons of its own (`Fails`);
one call of the operating system is one step.  `os.WriteFile` creates a file where a
dangling link leads (`Followed`, `CanOpen`).  The path of the root itself is not among
those that are given.  `disturbed` marks the calls that had begun to look when another
call's rename put a link (or a directory with one in it) at a new place; writing, making
and removing files and directories disturb nobody.

**UrlParams** - a URL keeps nothing but its href and its `searchParams` nothing at all:
`query` is read and written back by every method, in the middle of a `forEach` or an
iterator too.  `written` numbers the pairs, so that a property can tell two equal pairs
apart.  The order of `sort` is by UTF-16 units (`Units`), the parser is external.

## 7. Runs

The runs of the event loop use `MCEventLoop`, which adds the symmetry of the clients
(used by the runs of safety properties only); the others check `FetchRuntime`,
`WebSocketRuntime` and `WebApi` themselves.

| Run | Question | Instance |
|---|---|---|
| `calls` | Is work lost, or a call orphaned, when goroutines and tasks start, stop, run, nest and close? Is Schedule a serial queue? | 2 clients, 3 calls, 2 items, 2 acts of user code, channel of 2 |
| `timers` | Do cancelled callbacks stay away, do the three records of a JavaScript timer agree, does a Run drain? | the same with 2 clock readings |
| `disposal` | Are Reload and Close complete and final, with failures, resources, installers and tasks that close the loop? | 2 clients, 3 calls, 2 items, 2 acts |
| `fetch` | Does each slot have one owner, who gives it back once, through answers, refusals, Close and Reload? Does the limit hold, is Close complete, do slots come back? | 3 requests, 2 slots, 2 contexts, a Schedule that may refuse |
| `websocket` | Does a connection end once, whoever ends it and when? Does its object hear of it, in order? | 1 socket, 1 slot, 2 writers, 1 message, a Schedule that may refuse |
| `webapi` | Are ports, signals, modules, fs calls and params right under re-entrant user code, transfers, cycles, failures and interleaved calls? | below |
| `live` | Does every call return and does queued work get its turn? | 2 clients, 2 calls, channel of 1, 2 clock readings |

Deadlock is checked except in `fetch`, where the owner stops with its last context, in
`websocket` and `webapi`, where everything that was begun may be done, and in
`disposal`, where a task that calls ContextTask or Close after closing the loop waits
for itself: the program really stops there.  A state in which every call has returned and the owner waits for a command (or is
gone) is not a deadlock (`Quiet`).

What each property says:

- **NothingLost**: accepted work of the live generation is in the channel, in the
  slice, in the heap or on the stack, or it has run, or it was cancelled.
- **NoOrphanCall**: no client has returned from a call whose frame is on the stack.
- **IsSerialQueue**: the channel, the slice and the generation check implement
  `SerialQueue` - accepted tasks run one at a time, once, in order, until Reload
  drops the pending ones or Close ends it - under the refinement mapping
  `pending <- tasks followed by the current tasks in the channel`; a generation that was
  disposed of and has no successor yet is the abstract queue between its dropping and its
  next life (`InReload`).
- **CancelPrevents**: a callback does not start once its timer was cancelled (by code
  on the owner; another goroutine's cancel can come after the owner's last look).
- **JSTimersBacked**: callbacks kept, `jsTimers` and live entries agree.
- **RunDrains**: a Run that ends for lack of work has run all that tasks, timers and jobs
  on the owner queued, except what a job left in the channel: a job of the last pump that
  calls `loop.Schedule` does so after the drain and is no progress, so the Run ends and the
  task waits for the next one.  A job's JavaScript timer is in the heap at once and is
  waited for.  `timers` reaches the exception: without it the property is violated.
- **NoStaleWork**: nothing runs in another generation than its own.
- **CloseIsComplete**: when a Close has returned, with whatever result, there is no
  context, frame, task or timer, and every resource was closed.
- **ResourcesClosed**: each resource is closed at most once, with its context alive,
  in reverse order; until then it is registered.
- **ClosedForever**: a closed loop stays closed and gets no new context.
- **CallsReturn**, **WorkGetsItsTurn**: liveness, under `Fairness`.

Of fetch requests:

- **SlotsAccounted**: the slots taken are those of the requests that are registered, in
  Close's hands or about to release, one each.
- **TransportsBounded**: the transports at work and not cancelled stay within the limit,
  although Close gives slots away while the transports that had them may still work.
- **NothingAfterClose**: after Close nothing is registered and every transport at work
  was cancelled.
- **SettledIsFree**: when JavaScript learns of a result its slot is free: a fetch in
  reaction to it is not refused because of it.
- **SlotsComeBack**: every slot comes back (liveness): by the job, by the goroutine
  when the context refuses the job, or by Close when the job is dropped.
- **IsSlotPool**: all of it implements `SlotPool` under the refinement mapping
  `held <- Holding`, `past <- Started \ Holding`.

Of WebSockets:

- **SlotsAccounted**: the slots taken are those of the connections that are not
  finished; and when `readyState` is CLOSED the slot is free.
- **NoConnLeft**: when the goroutine of a connection has ended its Conn is closed, or
  there never was one; when `closeAll` has returned, what is still registered or up is
  what another goroutine is finishing at that moment.
- **EventOrder**: nothing after the close event, and that only once; no message before
  open, unless the context refused open.
- **NoSpuriousFailure**: a connection that neither failed nor was ended by the peer is
  not reported as failed, whatever its goroutines saw of the hangup.
- **ClosedIsTold**: an object whose connection ended gets to CLOSED (liveness), unless
  the runtime was closed or the context refused the event.
- **CloseEnds**: a close that has begun ends the connection and hangs it up (liveness).

Of what lives on the owner:

- **PortsLinked**: each end of a channel is one live port at most, and two live ends are
  each other's peers, through transfers of both in one clone and clones that fail.
- **MessagesKept**: what was posted to a live end is what was dispatched there (to the
  listeners of the moment, or to none) and then what waits, once and in order.
- **StartedIsWoken**: a started port with messages has a dispatch coming, but for a
  refused wakeup and for a replacement that inherited its messages: the code leaves
  those until the next post or start.
- **PortsReachable**: a live port is held by JavaScript or carried by a waiting message,
  but for the copies of a clone that failed or did not return them, those in the queue of
  a closed port, and those in a message dispatched at a port without listeners.
- **DependentsAgree**: a signal made by `any` is aborted when one of its sources is, with
  the reason of one of them, and never of itself.
- **HeardOnce**: a listener is called once at most, and one that was there when its signal
  was aborted is called, unless an exception ended the dispatch.
- **OneEvaluation**: a module is evaluated by one call at a time, is in the cache and not
  loaded exactly while it is evaluated, and is evaluated again only after a failure.
- **HeldIsCurrent**: all code that required a loaded module has the same exports, but for
  what was given in a cycle before the module was loaded, and what a module's own factories
  were given, or code that they called, before theirs replaced it.
- **RegistryWhole**: a name has one owner, a definition all of its names or none.
- **Confined**: with a root, what a call uses is within it, and what the policy is asked
  about, whatever other calls write, make, remove or rename between its looks and its use -
  unless one of them moved a link, or a directory with one, after it had begun to look.
- **LinksAuthorized**: nothing is used before the policy was asked; and a call whose names
  lead through a link at the moment of use has asked the policy for links (or, if there is
  none, has come so far in the root mode only) - with the same exception.  The exception
  is the case in which the code does not keep what its comments and documents say
  (section 10).
- **ParamsBehave**: what `set`, `delete` and `sort` promise holds of the query before and
  after, walks visit each pair once, and a record's input gives each name once.

**Why the bounds are enough.**  A race in this code is between one goroutine that is
between its check and its send, and one thing the owner does to the loop meanwhile; a
third call supplies the task the owner is in.  So two clients and three calls reach
each pair of operations in every order, with one in progress.  Two items are the
least that have an order; two acts let a task do one thing and then rely on it (close
the loop, then call it; stop it, then run it again), or a pump's jobs do one and report
progress, which counts as an act.  A channel of one or two is
full after one or two calls.  The passing runs together take every action and every
disjunct of `Next`.  What section 9 proves does not rest on bounds.
In `fetch`, three requests and two slots let one request be refused, held or at work in
the old context while the two others fill the next one's limit, and two contexts are
the least that share slots.  Its safety properties are proved for all bounds.

Connections share only the slots and the map, so one socket with its reader, two writers
(two can fail at once), the script's `close` and `closeAll` has every race over the end of
a connection; the count of slots among many is proved, for all bounds.  In `webapi`: four
port objects let each end be transferred once, or one of them twice; two messages have an
order; three signals make a chain or a fan of dependents; two files and a package in
three places (with a native module of the same name) make cycles, both kinds of directory
(a `main` with an extension that is one too), a definition whose factories require it, and
a search that goes up; two fs calls, one of them synchronous, over a root with a file,
a directory and a link out of it, to a directory whose one entry is a link to what is not
there, with two links followed at most, reach each order of looks and uses; three pairs in a query of two, with two names whose order differs between
code points and UTF-16 units, let a walk see writes in front of and behind it.

**Fairness.**  `Fairness` is weak fairness of the owner, of each client that is *in* a
call, and of the clock: Go schedules every runnable goroutine.  Nobody has to begin a
call.  Owner's weak fairness includes that user code returns eventually (its number
of calls is bounded).  Weak fairness is enough although the owner's `wait` may time
out for ever, because a command in the channel is received by the next drain.
`fetch` assumes weak fairness of each request's goroutine, which includes that the
transport returns (http transports do; they time out or are cancelled), of the steps of
a Close that has begun, and of the jobs: the loop is started and pumps.  `websocket`
assumes the same of its goroutines, of a `close` in progress and of the events: the dialer
and writes return (the dialer has a context that close cancels, a write fails when its
Conn is closed), and so does a read whose connection was hung up.  The peer is never forced to send or to close.

**Runs that show a disagreement.**  Each checks one sentence of the repository.

| Run | The repository says | The code does |
|---|---|---|
| `stop_interval` | "Stop pauses pumping while retaining queued tasks and timers." (`eventloop.go:421`) | an interval whose callback calls Stop is dropped (`:651`) |
| `close_failed_run` | "Close permanently stops the owner ..." (`eventloop.go:436`) | a Run task that closes the loop and fails reopens `state`: the owner waits for ever (`:576`) |
| `close_both_sides` | `TestEventLoopCloseFromOwnerDoesNotDeadlock` (`eventloop_test.go:368`) | with another goroutine inside Close it does (`:439`) |
| `resource_late` | "RegisterResource arranges for a resource to close before the runtime closes." (`resource.go:41`) | one registered by a Close method during Reload is dropped (`:62`) |
| `nested_limit` | "... CPU execution limits for the owner runtime." (`eventloop.go:110`) | a nested ContextTask disarms the limit of its caller (`:734`) |

## 8. Mutants

Every property of a passing run has a mutant: a definition of the model changed as a
plausible bug would (a dropped generation check, an index off by one, a guard that
reads the wrong flag), under which TLC finds the property violated.  The mutated
forms stand next to the originals, marked `\* mutant`.

## 9. Proofs

`EventLoopProofs.tla` proves, for every set of clients, every channel capacity, every
choice of operations and all bounds - from `ConstantsAssumption` alone:

- `TypeCorrect`: `Spec => []TypeOK`.
- `NoStaleWorkAlways`: `Spec => []NoStaleWork`.
- `InvariantHolds`: `Spec => []Inv`, from which both follow.

NoStaleWork is not inductive: a task is started by the pump without looking at its
generation, so the tasks must already be those of the live context, and they are
because `disposeGeneration` emptied them before the context changed *and nothing was
added meanwhile* - though Close methods run in between and may schedule.  That rests on
what can be on the stack above a disposal.  Hence `Inv` has three parts:

- `TypeOK`;
- `StackOK`: only the innermost frame of the stack can be in the middle of a disposal,
  in front of an initialization or about to start a timer's callback, except that a
  disposal waits below the Close method it called; its index is within `resources`, its
  generation has no tasks, and a callback about to start is of the live generation;
- `FreshOK`: the context is the current generation's or there is none, every task in
  the slice is of that generation, and what ran was.

The proof has a lemma per action (or per group that touches the same variables) for
each part, and combines them by the disjuncts of `Next`.  `StackOK` and `FreshOK` were
model-checked on the instances of `disposal` and `timers` before they were proved.

It also proves `ClosedIsForever`: `Spec => ClosedForever`.  Only a
Reload makes a context, and one may be in the channel, or on the stack below a Close
method, when a Close comes.  `ClosedInv` adds to `Inv` that a frame of a Reload or of a
Close is innermost but for the Close method or installer it calls, and that the loop is open
as long as that Reload may still succeed and closed below a Close; a Close on the owner
therefore cannot come in between, and one in the channel waits until it is over.

Last, `CallsAreNotOrphaned`: `Spec => []NoOrphanCall`.  Its invariant `CallsInv` says where a call can be: in the channel or on the owner's stack,
never both, once (a Run has two frames, of the loop and of its task, which are
neighbours); a client that waits with its call there has no reply yet; only a Reload calls
an installer; and when `done` is closed the stack is empty.  Each action moves the call of
one client from one of these places to the next, and the reply is sent by the step that
takes the frame away.

Work, timers and resources have a second invariant, `WorkInv` (`WorkInvHolds`, at the end
of the same module).  It adds to `CallsInv` and `ClosedInv`

- `KindsOK`, `IdsOK`: each place holds the kinds of items that belong there, and two items
  with one id are one item (an interval that is queued again has another deadline only);
- `JSOnce`, `PhasesOK`, `JSKept`: a JavaScript timer is in the heap once or its callback on
  the stack once; how far `fireDueTimer` is with it says whether it ran or was cancelled; one
  that is not cancelled can be found by `clearTimeout`;
- `StateOK`: what is closed stays so until a Reload that found the loop open returns.

Each step is shown to do one of a few things to the items in their places (`Effect`), and
the invariants are kept by each of these, whatever the action.  `EventLoopWorkProofs.tla`
draws from it

- `NothingIsLost` (NothingLost), if no task calls `Stop` or no intervals are used: a task that
  stops the loop drops the interval that runs it (section 7, `stop_interval`);
- `JSTimersAreBacked` (JSTimersBacked), under the same hypothesis and as long as the bound on
  items is no larger than `MaxTimerID`, which is 2^32-1 in the code and so not reached.
  `JSInv` says what a disposal has cleared by when (`Cleared`) and relates the table, the heap
  and the callbacks by ids;
- `CancelledNeverStarts` (CancelPrevents), if no other goroutine cancels: such a call may come
  after `fireDueTimer` looked.  `Private` says that an item still in a client's hands is
  nowhere else, which is why a refused enqueue cancels nothing that could start;
- `CloseLeavesNothing` (CloseIsComplete) and `ResourcesCloseInOrder` (ResourcesClosed), if
  Close methods register nothing (section 7, `resource_late`).  `ResourceInv` has `ShutOK`,
  what is left without a context, when closed and when the owner is gone; `RegisterOnce`, that
  a resource is accepted once; and `ResourcesOK`: the list is in the order of acceptance, what
  a disposal has closed is its last part (the index of the disposal's frame says which), and
  every resource is in the list or was closed.  A step rests, begins a disposal, closes one,
  drops the list, registers one or makes a context (`Resourcely`);
- `RunDrainsAll` (RunDrains), under the hypothesis of `NothingIsLost`.  A Run that ends has
  seen the channel empty, found no task and no timer that is left, and lost nothing.  What
  that takes is `DrainOK`: while a pump makes no progress the loop stays open and running and
  what came into the channel since it was seen empty is other goroutines' or its jobs',
  because every other loop on the stack rests at its top or has made progress; and jobs
  that run without progress found neither a task nor anything else in the channel;
- `ImplementsSerialQueue` (IsSerialQueue), without any hypothesis: the event loop implements
  `SerialQueue`.  `QueueInv` adds to `WorkInv` that there is a context unless the loop is
  closed or in the middle of a disposal, that a closed loop is not running (`IdleOK`), and
  that just the commands of the kinds that carry an item have one (`PlainOK`, which was
  model-checked before it was proved).  Each step of an open loop leaves the abstract queue
  as it is (`Stays`), appends one task to it (`Accepts`) or takes its first (`Executes`); any
  other step drops what is pending, ends the queue or stutters (`QueueStep`, `MappedStep`).
  The mapping takes the ids out of two sequences with a recursive function on numbers
  (`IdsIn`); what the proof needs of it - the ids of an empty sequence, of one with an element
  appended, of one without its first - is shown by a least counterexample (`IdsInEmpty`,
  `IdsInAppend`, `IdsInTail`).

`FetchRuntimeProofs.tla` proves, for every finite set of requests, every limit, any
number of Reloads and with or without refusals - from `FetchAssumption` alone - all the
safety properties of the `fetch` run: `FetchTypes` (TypeOK), `SlotsAlwaysAccounted`,
`TransportsAlwaysBounded`, `NothingIsLeft` (NothingAfterClose), `SettledIsAlwaysFree`,
and `ImplementsSlotPool`: `Spec => IsSlotPool` when there is a limit.  Their inductive
invariant `FetchInv` adds to TypeOK and SlotsAccounted

- `Shape`: a request is registered or in Close's hands only while its goroutine has not
  begun to release and its promise is pending; one at work and not cancelled is in one
  of the two; registered ones are of the live generation;
- `PhaseOK`: what Close has emptied in each of its phases, and that a request with a job
  has no goroutine left - otherwise a job and a goroutine might both complete it.

Each action is shown to keep Shape and PhaseOK and to do one of three things to the
slots (`SlotStep`): nothing, one is taken by a request that never had one, or one is
given back by a request that holds it.  `SlotsFollow` turns that into the count, by the
library's facts on cardinalities; `ImplementsSlotPool` turns it into steps of SlotPool.

`WebSocketRuntimeProofs.tla` proves all safety properties of the `websocket` run, for
every finite set of sockets, every limit and all bounds - from `WebSocketAssumption`
alone: `WebSocketTypes`, `SlotsAlwaysAccounted`, `NoConnIsLeft`, `NoFailureIsSpurious`,
`EventsInOrder`, and `ImplementsSlotPool`, the same abstract pool that fetch implements.
`WebSocketInv` adds to the types and the count of slots

- `Life`, what the records of one connection - the object, the map, the state, the body
  of finish, the Conn, the progress of close - say of each other: a connection is
  registered until finish removes it, a Conn that is up is one that finish has not hung
  up, an object is CLOSED only after finish;
- `AtWork`, that a goroutine in front of `fail` or with a bad code belongs to a connection
  that is broken or being closed (this is NoSpuriousFailure before it is reported);
- `Events`, that a queued or dispatched event is true of its connection.

`EventsInOrder` needs `Order` besides: while the reader reads, the open event was refused,
is queued in front of every message, or was told.

`AbortSignalsProofs.tla` proves, for every set of signals and of listeners and whatever
the listeners do - from `SignalsAssumption` alone - `DependentsFollow` (DependentsAgree),
`ListenersHeardOnce` (HeardOnce) and `SignalsTypesHold`.  The first two are not inductive:
while a dispatch is in progress what has not been called yet waits in its frame, and user
code may meanwhile abort, listen and make dependent signals.  `SignalsInv` has

- `Linked`: what waits for a signal and is a signal is one of its dependents;
- `Agree`: a dependent that is not aborted waits for each of its sources, in the list of
  one that is not aborted and in the dispatch of one that is, unless that was cut;
- `Unheard`, `InOnePlace`: a listener that waits was not called, and waits once, in one list
  or in one dispatch - so it cannot be called by two;
- `Kept`: one that was there at the abort was called, waits in its dispatch, or was cut.

Steps that only go on with a dispatch, return or throw are one case (`Ends`).

`LoaderProofs.tla` proves `RegistryStaysWhole` (RegistryWhole), `EvaluatedByOneCall`
(OneEvaluation) and `LoadedExportsShared` (HeldIsCurrent) from `LoaderAssumption`, for any
files, packages and definitions.  RegistryWhole is inductive with its types.  For the other
two `LoaderInv` says that the frames are the host's and below it those of different modules
and of factories (`FramesOK`), and that each module is in one of three standings - absent, being evaluated by
the one frame that is its own, loaded - to which the cache, the exports and the counts of
runs and failures correspond (`CacheInv`).  What a frame searches for does not matter to
either, so the lemmas speak of frames with any search: that also covers the search lists,
which are computed by functions over directories.

`MessagePortsProofs.tla` proves all safety properties of ports, for any number of ports,
messages and dispatches, from `PortsAssumption`: `EndsStayLinked` (PortsLinked),
`NoMessageIsLost` (MessagesKept), `StartedPortsWake` (StartedIsWoken), `PortsStayReachable`
(PortsReachable) and `PortsTypesHold`.  A clone meets any number of values, and each may be
a transfer: what a clone has done after `i` of them (`Progress`, a recursive function) is
shown to exist and to keep `Cloning` by induction on `i`, in first-order form: a set of
numbers at which it fails would have a least one (`Least`, from the library's
`NatLessThanWellFounded`).  `Cloning` relates a clone in progress to the ports before it: which are
where, with their queues and started flags, and that links and ids still fit.  `PortsInv` adds
to the four properties that a live port is numbered below `nextPortID`, is one of the ends,
and its peer is an earlier port other than itself - a peer may be dead, and its number must
not be given to a later copy.

`FsAccessProofs.tla` proves `StaysConfined` (Confined), `LinksAreAuthorized`
(LinksAuthorized) and `FsTypesHold`, for any number of calls, any root and operations, any
files and links and any answers of the policies, from `FsAssumption`.  `FsInv` says

- `FilesOK`: the files are a tree whose inner nodes are directories.  For a rename this
  takes that what is moved keeps its shape under its new name (`Rebased`), that nothing
  comes to lie below a path that is replaced (`Below`), and that a directory is not moved
  into itself;
- `Looked`: what a call has found out, look by look: the directory of its target has no
  link on its way and is in the root (`LeafOK`), a target that was resolved has none at
  all, and a name without a noticed link (`symlink`) has none, also when only the directory
  or only the destination has one.  It is stated about what is *not* there (`OnLink`), for
  that is what stays true while other calls write, make and remove files (`FewerLinks`,
  `CallStays`); only a rename that puts a link at a new place can undo it, and marks those
  it may concern (`FilesMove`);
- `Asked`, `UsedOK`: whom it asked before it used anything, and what it used.

A path without links on it leads to itself or nowhere (`Unlinked`), so the second following
of the links, at the use, finds what was authorized or nothing (`Reached`).  That the first
`MaxLinks` links are followed is a recursive function on numbers, which exists
(`FollowedFrom`, by a least counterexample): a path of which nothing is to be replaced
stays (`Stays`), and what is followed to is a path (`FollowedIsPath`).

The inductive invariants `SignalsInv`, `LoaderInv`, `PortsInv` and `FsInv` were
model-checked on the instance of `webapi` before they were proved.

## 10. What is only model-checked, and what is not modelled

Only model-checked:

- Everything temporal but steps: `CallsReturn`, `WorkGetsItsTurn`, `SlotsComeBack`,
  `ClosedIsTold`, `CloseEnds`.  Liveness under fairness is beyond the prover.
- What the theorems of section 9 exclude by a hypothesis: `CancelPrevents` with cancellations
  by another goroutine, which may come too late, and the two runs that expect a violation.
  The passing runs check the properties on instances that satisfy the hypotheses.
- `ParamsBehave` of `UrlParams`, whose operators select from sequences and sort them: the
  library's definitions of these are recursive and not available to the provers.  The
  properties of ports, signals, modules and fs calls are proved for each module by
  itself; that `WebApi`, which runs one of them at a time, is such a behaviour is not, nor is
  its type invariant `WebTypeOK`, which holds that of `UrlParams`.

Excluded, though the code reaches it: re-entrant disposals (`ReentrantOps`); a
`package.json` whose `main` is a directory with a `package.json` of its own, which
`loadAsDirectory` follows without end when they form a cycle (`LoaderAssumption`);
starvation of timers by tasks that re-queue themselves for ever (a pump that finds a
task does not look at the timers).

Not modelled, and why:

- buffer, blob, crypto, util, console, process, errors, Headers: nothing is kept between
  two calls; they are arithmetic on bytes, checks of characters, primitives and
  formatting.
- The WHATWG URL parser and percent-escaping: state machines over characters.
- Conversions of values between Go and JavaScript, payloads, protocols, byte limits
  (in `FsAccess` what is too long is one of the failures; the sum at
  `fs/access.go:208` overflows for a limit of MaxInt64), a custom PathResolver, the steps
  inside one call of the operating system.
- A CommonJS module that replaces `module.exports` after it was loaded; a base directory
  that is relative, with which a file's key may be the name of a module.
- The exact poll interval and wall-clock times; what New does when it fails.

Noted while modelling, with no run of its own: `searchFolders` has the global folders in
front of `node_modules` (as `Loader` has), where the comment at `module/providers.go:59`
says after.  A fetch promise whose job a live context refuses never settles, and an fs
promise neither: no document says otherwise, so neither is stated as a property.
An fs call follows the links of an authorized name again when it uses it: a rename of
another call of the same script that puts a link there after the look leads it out of the
root (where the `WithRoot` entry at `README.md:129` has such links rejected) and past the
policy that `fs/access.go:96` installs for operations that encounter a link; both
properties except exactly these calls.  `readyState` can go from CLOSING back to OPEN, when close is called before the open event
is dispatched (`websocket/module.go:218`).
