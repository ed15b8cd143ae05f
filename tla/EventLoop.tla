------------------------------- MODULE EventLoop -------------------------------
(***************************************************************************)
(* The scheduler of the eventloop package: one owner goroutine that holds a *)
(* QuickJS runtime, and client goroutines that reach it through a bounded   *)
(* command channel.  The owner's call stack is explicit, because user code  *)
(* (tasks, timer callbacks, resources' Close methods, global installers)    *)
(* runs on it and may call the loop's own API.                              *)
(***************************************************************************)
EXTENDS Naturals, Sequences, FiniteSets, TimerHeap

CONSTANTS
    Clients,       \* goroutines other than the owner
    None,          \* no client: a call made on the owner goroutine
    QueueCap,      \* capacity of the commands channel (256 in New)
    ClientOps,     \* the API operations clients use
    TaskOps,       \* the ones tasks and timer callbacks use
    ResourceOps,   \* the ones a resource's Close method uses
    InstallerOps,  \* the ones a global installer uses
    TaskErrors,    \* whether the task of a Run may fail
    MaxTimerID,    \* largest id an index of timerCallbacks can be deleted for
    \* bounds on what the model explores
    MaxNow,        \* clock readings
    MaxItems,      \* tasks, timers and resources created
    MaxCalls,      \* calls clients make
    MaxActs        \* calls user code makes on the owner

\* call(): the caller blocks until the owner replies.
GuardedCalls == {"Run", "Do", "Start", "Stop", "Reload", "RegisterResource"}
\* ... the context adapter sends its command without looking at closed first.
ContextCalls == {"ContextTask", "DoContext", "RunContext"}
\* enqueue(): the caller never blocks.  SetImmediate is SetTimeout(0).
Timeouts  == {"SetTimeout", "jsTimeout"}
Intervals == {"SetInterval", "jsInterval"}
JSTimers  == {"jsTimeout", "jsInterval"}
Enqueues  == {"Schedule", "SetTimeout", "SetInterval"}

Ops == GuardedCalls \cup ContextCalls \cup Enqueues \cup JSTimers
         \cup {"Close", "Cancel", "ClearJS"}
States  == {"New", "Running", "Stopped", "Closed"}
Results == {"none", "nil", "true", "false", "ErrClosed", "ErrStopped",
            "ErrAlreadyRunning", "taskErr"}

\* Resource.Close methods and installers are called in the middle of a
\* disposal or an initialization; they are taken not to re-enter it.
ReentrantOps == ContextCalls \cup {"Run", "Do", "Reload", "Close"}

ASSUME ConstantsAssumption ==
    /\ None \notin Clients /\ "job" \notin Clients \cup {None}
    /\ QueueCap \in Nat \ {0}
    /\ ClientOps \subseteq Ops \ (JSTimers \cup {"ClearJS"})
    /\ TaskOps \subseteq Ops /\ TaskErrors \subseteq BOOLEAN
    /\ ResourceOps \subseteq Ops \ (ReentrantOps \cup JSTimers)
    /\ InstallerOps \subseteq Ops \ ReentrantOps
    /\ {MaxTimerID, MaxNow, MaxItems, MaxCalls, MaxActs} \subseteq Nat

VARIABLES
    commands,    \* the command channel
    done,        \* done is closed: the owner goroutine has returned
    closeOnce,   \* "free", "done", or who is inside closeOnce.Do
    closeErr,
    closed,      \* the atomic flag
    state, generation,
    ctx,         \* generation of the live context, 0 when there is none
    armed,       \* the runtime's execute timeout is set
    tasks, timers, cancelled, jsTimers, timerCallbacks,
    resources,
    stack,       \* the owner's call stack, innermost call last
    cl, reply,   \* each client's call in progress and its reply channel
    now,
    nextID, calls, acts,        \* counters
    accepted, ran, closedLog    \* history: accepted items, started callbacks,
                                \* resources closed

channelVars == <<commands, done>>
onceVars    == <<closeOnce, closeErr>>
stateVars   == <<closed, state, generation, ctx>>
timerVars   == <<timers, cancelled, jsTimers, timerCallbacks>>
ownerVars   == <<armed, tasks, resources, stack>>
clientVars  == <<cl, reply>>
countVars   == <<nextID, calls, acts>>
historyVars == <<accepted, ran, closedLog>>
vars == <<channelVars, onceVars, stateVars, timerVars, ownerVars, clientVars,
          now, countVars, historyVars>>

-------------------------------------------------------------------------------
\* Values

Owners == Clients \cup {None}

\* Who made an item: a client, the owner (None), or the owner in a job.
Makers == Owners \cup {"job"}

\* A task, timer or resource; kind is the operation that made it.
Item == [id : Nat, gen : Nat, kind : Ops, deadline : Nat, seq : Nat, by : Makers]
NoItem == [id |-> 0, gen |-> 0, kind |-> "Schedule", deadline |-> 0, seq |-> 0,
           by |-> None]
NewItem(kind, delay, by) ==
    [id |-> nextID + 1, gen |-> generation, kind |-> kind,
     deadline |-> now + delay, seq |-> nextID + 1, by |-> by]

\* Bounds: the number of items, and every deadline is a clock reading.
MayCreate(delay) == nextID < MaxItems /\ now + delay <= MaxNow

Command == [op : Ops, client : Owners, item : Item]

\* Frames of the owner's stack.
Loops     == {"owner", "run"}            \* owner(), runUntilIdle()
Bodies    == {"task", "timer", "do", "runTask", "nestedDo", "nestedContext",
              "resource", "installer"}   \* user code, named by its caller
Disposals == {"close", "reload", "failedReload"}
Points    == {"top", "drain", "work", "ran", "jobs", "check", "wait", \* of a loop
              "start", "body", "once", "stuck",     \* of user code
              "resources", "context", "init", "finish"} \* of a disposal
Frame == [fn : Loops \cup Bodies \cup Disposals, pc : Points, client : Owners,
          progressed : BOOLEAN, item : Item, idx : Nat, prev : States]
NewFrame(fn, pc, client) ==
    [fn |-> fn, pc |-> pc, client |-> client, progressed |-> FALSE,
     item |-> NoItem, idx |-> 0, prev |-> "New"]

Top          == stack[Len(stack)]
Below        == SubSeq(stack, 1, Len(stack) - 1)
HasRoomOffByOne == Len(commands) <= QueueCap    \* mutant
HasRoom      == Len(commands) < QueueCap
Running(fns) == stack # <<>> /\ Top.fn \in fns
At(fns, pc)  == Running(fns) /\ Top.pc = pc
GoTo(pc)     == Append(Below, [Top EXCEPT !.pc = pc])
Start(item)  == [id |-> item.id, kind |-> item.kind, gen |-> item.gen, at |-> ctx,
                 late |-> item.id \in cancelled]
Answer(c, r) == IF c \in Clients THEN [reply EXCEPT ![c] = r] ELSE reply

\* Both tests the owner's handlers make before they touch the loop.
IsClosedUnchecked == FALSE    \* mutant
IsClosed == state = "Closed" \/ closed

Init ==
    /\ commands = <<>> /\ done = FALSE
    /\ closeOnce = "free" /\ closeErr = "nil"
    /\ closed = FALSE /\ state = "New" /\ generation = 1 /\ ctx = 1
    /\ armed = FALSE /\ tasks = <<>> /\ resources = <<>>
    /\ timers = {} /\ cancelled = {} /\ jsTimers = {} /\ timerCallbacks = {}
    /\ stack = <<NewFrame("owner", "top", None)>>
    /\ cl = [c \in Clients |->
               [pc |-> "idle", op |-> "Start", item |-> NoItem, res |-> "none"]]
    /\ reply = [c \in Clients |-> "none"]
    /\ now = 0 /\ nextID = 0 /\ calls = 0 /\ acts = 0
    /\ accepted = <<>> /\ ran = <<>> /\ closedLog = <<>>

-------------------------------------------------------------------------------
\* Clients

Waits == {"idle", "once", "send", "await", "waitdone"}
CallState == [pc : Waits, op : Ops, item : Item, res : Results]
Call(pc, op, item, res) == [pc |-> pc, op |-> op, item |-> item, res |-> res]
Return(c, r) == [cl EXCEPT ![c] = Call("idle", @.op, NoItem, r)]
Goto(c, pc)  == [cl EXCEPT ![c] = Call(pc, @.op, @.item, @.res)]

MayCall(c, op) ==
    /\ op \in ClientOps /\ cl[c].pc = "idle" /\ calls < MaxCalls
    /\ calls' = calls + 1

\* Run, Do, Start, ...: refused once closed, else a command is sent.
\* ContextTask and its relatives go straight to call().
BeginCall(c, op) ==
    /\ MayCall(c, op)
    /\ op \in GuardedCalls \cup ContextCalls
    /\ op = "RegisterResource" => nextID < MaxItems
    /\ nextID' = IF op = "RegisterResource" THEN nextID + 1 ELSE nextID
    /\ cl' = [cl EXCEPT ![c] =
                IF op \in GuardedCalls /\ closed
                THEN Call("idle", op, NoItem, "ErrClosed")
                ELSE Call("send", op, IF op = "RegisterResource"
                                      THEN NewItem(op, 0, c) ELSE NoItem, "none")]
    /\ reply' = [reply EXCEPT ![c] = "none"]
    /\ UNCHANGED <<channelVars, onceVars, stateVars, timerVars, ownerVars, now,
                   acts, historyVars>>

\* Schedule, SetTimeout, SetInterval: the generation and the deadline are
\* those of the call, whenever the owner comes to the command.
BeginEnqueue(c, op, delay) ==
    /\ MayCall(c, op)
    /\ op \in Enqueues /\ MayCreate(delay)
    /\ cl' = [cl EXCEPT ![c] =
                IF closed THEN Call("idle", op, NoItem, "false")
                          ELSE Call("send", op, NewItem(op, delay, c), "none")]
    /\ nextID' = nextID + 1
    /\ UNCHANGED <<channelVars, onceVars, stateVars, timerVars, ownerVars, reply,
                   now, acts, historyVars>>

\* call(): the first select.
Send(c) ==
    /\ cl[c].pc = "send" /\ cl[c].op \notin Enqueues
    /\ \/ /\ done
          /\ cl' = IF cl[c].op = "Close" THEN Goto(c, "await") ELSE Return(c, "ErrClosed")
          /\ UNCHANGED commands
       \/ /\ HasRoom
          /\ commands' = Append(commands,
                           [op |-> cl[c].op, client |-> c, item |-> cl[c].item])
          /\ cl' = Goto(c, "await")
    /\ UNCHANGED <<done, onceVars, stateVars, timerVars, ownerVars, reply, now,
                   countVars, historyVars>>

\* call(): the second select picks either branch when both are ready.
OutcomesOnceClosed(c) == {r \in {reply[c]} : r # "none"}    \* mutant
                           \cup (IF closed THEN {"ErrClosed"} ELSE {})
Outcomes(c) == {r \in {reply[c]} : r # "none"} \cup (IF done THEN {"ErrClosed"} ELSE {})

Await(c) ==
    /\ cl[c].pc = "await"
    /\ \E r \in Outcomes(c) :
         IF cl[c].op = "Close"
         THEN /\ closeErr' = r /\ closeOnce' = "done"
              /\ cl' = Goto(c, "waitdone")
         ELSE cl' = Return(c, r) /\ UNCHANGED onceVars
    /\ UNCHANGED <<channelVars, stateVars, timerVars, ownerVars, reply, now,
                   countVars, historyVars>>

\* enqueue(): never blocks.  The owner may return between its two selects, so
\* that a command can still be accepted when done is closed.
Enqueue(c) ==
    /\ cl[c].pc = "send" /\ cl[c].op \in Enqueues
    /\ \/ /\ HasRoom
          /\ commands' = Append(commands,
                           [op |-> cl[c].op, client |-> c, item |-> cl[c].item])
          /\ accepted' = Append(accepted, cl[c].item)
          /\ cl' = Return(c, "true")
          /\ UNCHANGED cancelled
       \/ /\ done \/ Len(commands) = QueueCap
          /\ cancelled' = IF cl[c].op = "Schedule" THEN cancelled
                          ELSE cancelled \cup {cl[c].item.id}
          /\ cl' = Return(c, "false")
          /\ UNCHANGED <<commands, accepted>>
    /\ UNCHANGED <<done, onceVars, stateVars, timers, jsTimers, timerCallbacks,
                   ownerVars, reply, now, countVars, ran, closedLog>>

AcceptedItems == {accepted[i] : i \in DOMAIN accepted}
Cancellable == {a \in AcceptedItems :
                  a.kind \in {"SetTimeout", "SetInterval"} /\ a.id \notin cancelled}

\* Timer.Cancel and Interval.Cancel, from any goroutine.
CancelTimer(c) ==
    /\ MayCall(c, "Cancel")
    /\ \E a \in Cancellable : cancelled' = cancelled \cup {a.id}
    /\ UNCHANGED <<channelVars, onceVars, stateVars, timers, jsTimers, timerCallbacks,
                   ownerVars, clientVars, now, nextID, acts, historyVars>>

BeginClose(c) ==
    /\ MayCall(c, "Close")
    /\ cl' = [cl EXCEPT ![c] = Call("once", "Close", NoItem, "none")]
    /\ reply' = [reply EXCEPT ![c] = "none"]
    /\ UNCHANGED <<channelVars, onceVars, stateVars, timerVars, ownerVars, now,
                   nextID, acts, historyVars>>

\* closeOnce.Do: one caller runs the function, the others wait for it.
CloseOnce(c) ==
    /\ cl[c].pc = "once"
    /\ \/ /\ closeOnce = "done"
          /\ cl' = Goto(c, "waitdone") /\ UNCHANGED onceVars
       \/ /\ closeOnce = "free" /\ closed
          /\ closeOnce' = "done" /\ closeErr' = "ErrClosed"
          /\ cl' = Goto(c, "waitdone")
       \/ /\ closeOnce = "free" /\ ~closed
          /\ closeOnce' = c /\ UNCHANGED closeErr
          /\ cl' = Goto(c, "send")
    /\ UNCHANGED <<channelVars, stateVars, timerVars, ownerVars, reply, now,
                   countVars, historyVars>>

\* Close returns when the owner goroutine has.
DoneOnceClosed(c) == cl[c].pc = "waitdone" /\ closed    \* mutant
Done(c) == cl[c].pc = "waitdone" /\ done

CloseReturns(c) ==
    /\ Done(c)
    /\ cl' = Return(c, closeErr)
    /\ UNCHANGED <<channelVars, onceVars, stateVars, timerVars, ownerVars, reply,
                   now, countVars, historyVars>>

-------------------------------------------------------------------------------
\* handleCommand: cmd has been received and the owner goes on at stack st.

TasksIfRunning(item) == IF state = "Running" /\ item.gen = generation    \* mutant
                        THEN Append(tasks, item) ELSE tasks
TasksLastFirst(item) == IF state # "Closed" /\ item.gen = generation      \* mutant
                        THEN <<item>> \o tasks ELSE tasks
TasksWith(item) == IF state # "Closed" /\ item.gen = generation
                   THEN Append(tasks, item) ELSE tasks

HandleSchedule(cmd, st) ==
    /\ cmd.op = "Schedule"
    /\ tasks' = TasksWith(cmd.item)
    /\ stack' = st
    /\ UNCHANGED <<stateVars, timerVars, armed, resources, reply, accepted>>

HandleAddTimer(cmd, st) ==
    /\ cmd.op \in {"SetTimeout", "SetInterval"}
    /\ IF \/ state = "Closed" \/ cmd.item.gen # generation
          \/ cmd.item.id \in cancelled
       THEN cancelled' = cancelled \cup {cmd.item.id} /\ UNCHANGED timers
       ELSE timers' = timers \cup {cmd.item} /\ UNCHANGED cancelled
    /\ stack' = st
    /\ UNCHANGED <<stateVars, jsTimers, timerCallbacks, armed, tasks, resources,
                   reply, accepted>>

HandleStartStop(cmd, st) ==
    /\ cmd.op \in {"Start", "Stop"}
    /\ state' = IF IsClosed THEN state
                ELSE IF cmd.op = "Start" THEN "Running" ELSE "Stopped"
    /\ reply' = Answer(cmd.client, IF IsClosed THEN "ErrClosed" ELSE "nil")
    /\ stack' = st
    /\ UNCHANGED <<closed, generation, ctx, timerVars, armed, tasks, resources, accepted>>

\* Do, DoContext and ContextTask run the task and reply when it returns.
HandleDo(cmd, st) ==
    /\ cmd.op \in {"Do", "DoContext", "ContextTask"}
    /\ LET err == IF IsClosed THEN "ErrClosed"
                  ELSE IF state # "Running" /\ cmd.op # "ContextTask" THEN "ErrStopped"
                  ELSE "nil"
       IN IF err # "nil"
          THEN reply' = Answer(cmd.client, err) /\ stack' = st /\ UNCHANGED armed
          ELSE /\ stack' = Append(st, NewFrame("do", "body", cmd.client))
               /\ armed' = TRUE /\ UNCHANGED reply
    /\ UNCHANGED <<stateVars, timerVars, tasks, resources, accepted>>

\* runUntilIdle: the task first, then a loop of its own.
EnterRun(client, st) ==
    /\ state' = "Running"
    /\ stack' = st \o <<NewFrame("run", "top", client), NewFrame("runTask", "body", client)>>
    /\ armed' = TRUE

HandleRun(cmd, st) ==
    /\ cmd.op \in {"Run", "RunContext"}
    /\ IF IsClosed \/ state = "Running"
       THEN /\ reply' = Answer(cmd.client,
                          IF IsClosed THEN "ErrClosed" ELSE "ErrAlreadyRunning")
            /\ stack' = st
            /\ UNCHANGED <<state, armed>>
       ELSE EnterRun(cmd.client, st) /\ UNCHANGED reply
    /\ UNCHANGED <<closed, generation, ctx, timerVars, tasks, resources, accepted>>

HandleRegisterResource(cmd, st) ==
    /\ cmd.op = "RegisterResource"
    /\ IF IsClosed
       THEN reply' = Answer(cmd.client, "ErrClosed") /\ UNCHANGED <<resources, accepted>>
       ELSE /\ resources' = Append(resources, cmd.item)
            /\ accepted' = Append(accepted, cmd.item)
            /\ reply' = Answer(cmd.client, "nil")
    /\ stack' = st
    /\ UNCHANGED <<stateVars, timerVars, armed, tasks>>

\* disposeGeneration up to closeResources: tasks are forgotten and every timer
\* handle is marked.
DropTimers ==    \* mutant
    /\ tasks' = tasks /\ timers' = {} /\ jsTimers' = {}
    /\ cancelled' = cancelled \cup {e.id : e \in timers} \cup jsTimers
DropWork ==
    /\ tasks' = <<>> /\ timers' = {} /\ jsTimers' = {}
    /\ cancelled' = cancelled \cup {e.id : e \in timers} \cup jsTimers

DisposalOffByOne(fn, client) ==    \* mutant
    [NewFrame(fn, "resources", client) EXCEPT
       !.idx = IF resources = <<>> THEN 0 ELSE Len(resources) - 1, !.prev = state]
Disposal(fn, client) ==
    [NewFrame(fn, "resources", client) EXCEPT !.idx = Len(resources), !.prev = state]

BeginDisposal(fn, client, st) ==
    /\ DropWork
    /\ stack' = Append(st, Disposal(fn, client))
    /\ UNCHANGED <<timerCallbacks, generation, ctx, armed, resources>>

HandleReload(cmd, st) ==
    /\ cmd.op = "Reload"
    /\ IF IsClosed
       THEN /\ reply' = Answer(cmd.client, "ErrClosed") /\ stack' = st
            /\ UNCHANGED <<stateVars, timerVars, armed, tasks, resources>>
       ELSE /\ state' = "Stopped" /\ UNCHANGED <<closed, reply>>
            /\ BeginDisposal("reload", cmd.client, st)
    /\ UNCHANGED accepted

HandleClose(cmd, st) ==
    /\ cmd.op = "Close"
    /\ IF state = "Closed"
       THEN /\ reply' = Answer(cmd.client, "nil") /\ stack' = st
            /\ UNCHANGED <<stateVars, timerVars, armed, tasks, resources>>
       ELSE /\ state' = "Closed" /\ closed' = TRUE /\ UNCHANGED reply
            /\ BeginDisposal("close", cmd.client, st)
    /\ UNCHANGED accepted

HandleCommand(cmd, st) ==
    /\ \/ HandleSchedule(cmd, st)
       \/ HandleAddTimer(cmd, st)
       \/ HandleStartStop(cmd, st)
       \/ HandleDo(cmd, st)
       \/ HandleRun(cmd, st)
       \/ HandleRegisterResource(cmd, st)
       \/ HandleReload(cmd, st)
       \/ HandleClose(cmd, st)
    /\ UNCHANGED <<done, onceVars, cl, now, countVars, ran, closedLog>>

Receive(st) ==
    /\ commands # <<>>
    /\ commands' = Tail(commands)
    /\ HandleCommand(Head(commands), st)

-------------------------------------------------------------------------------
\* The loops: owner() and, inside a Run, runUntilIdle.

MoveOn(pc) == stack' = GoTo(pc)
OnlyStack == UNCHANGED <<channelVars, onceVars, stateVars, timerVars, armed, tasks,
                         resources, clientVars, now, countVars, historyVars>>

\* owner() waits for one command while the loop is not running.
OwnerReceives ==
    /\ At({"owner"}, "top") /\ state \notin {"Running", "Closed"}
    /\ Receive(stack)

OwnerReturns ==
    /\ At({"owner"}, "top") /\ state = "Closed"
    /\ done' = TRUE /\ stack' = <<>>
    /\ UNCHANGED <<commands, onceVars, stateVars, timerVars, armed, tasks, resources,
                   clientVars, now, countVars, historyVars>>

\* runUntilIdle's loop condition fails: Stop or Close was called.
RunReturns ==
    /\ At({"run"}, "top") /\ state # "Running"
    /\ stack' = Below
    /\ reply' = Answer(Top.client, "nil")
    /\ UNCHANGED <<channelVars, onceVars, stateVars, timerVars, armed, tasks, resources,
                   cl, now, countVars, historyVars>>

PumpOnce ==
    /\ At(Loops, "top") /\ state = "Running"
    /\ stack' = Append(Below, [Top EXCEPT !.pc = "drain", !.progressed = FALSE])
    /\ OnlyStack

DrainCommands ==
    /\ At(Loops, "drain")
    /\ Receive(Append(Below, [Top EXCEPT !.progressed = TRUE]))

Drained ==
    /\ At(Loops, "drain") /\ commands = <<>>
    /\ MoveOn("work")
    /\ OnlyStack

\* pumpOnce returns; without progress the loop waits, a Run if work is pending.
PumpAlwaysProgresses(more) == stack' = GoTo("top")    \* mutant
PumpReturns(more) ==
    stack' = GoTo(IF Top.progressed \/ more THEN "top"
                  ELSE IF Top.fn = "run" THEN "check" ELSE "wait")

NotRunning ==
    /\ \/ At(Loops, "work") /\ (state # "Running" \/ ctx = 0)
       \/ At(Loops, "ran") /\ state # "Running"
    /\ PumpReturns(FALSE)
    /\ OnlyStack

CanWork == At(Loops, "work") /\ state = "Running" /\ ctx # 0

\* What the loop frame becomes once the task or timer it runs has returned.
Progress == Append(Below, [Top EXCEPT !.pc = "ran", !.progressed = TRUE])

RunTask ==
    /\ CanWork /\ tasks # <<>>
    /\ tasks' = Tail(tasks)
    /\ stack' = Append(Progress, NewFrame("task", "body", None))
    /\ armed' = TRUE
    /\ ran' = Append(ran, Start(Head(tasks)))
    /\ UNCHANGED <<channelVars, onceVars, stateVars, timerVars, resources, clientVars,
                   now, countVars, accepted, closedLog>>

KeptAll == timers    \* mutant
Kept == DiscardCancelled(timers, cancelled)
DueOnceLate == {e \in Peek(Kept) : e.deadline < now}    \* mutant
Due  == {e \in Peek(Kept) : e.deadline <= now}

\* fireDueTimer up to runTask: the handle is looked at once.
FireDueTimer ==
    /\ CanWork /\ tasks = <<>>
    /\ \E e \in Due :
         /\ timers' = Kept \ {e}
         /\ IF e.gen # generation
            THEN /\ cancelled' = cancelled \cup {e.id} /\ stack' = Progress
                 /\ UNCHANGED armed
            ELSE /\ stack' = Append(Progress,
                               [NewFrame("timer", "start", None) EXCEPT !.item = e])
                 /\ armed' = TRUE /\ UNCHANGED cancelled
    /\ UNCHANGED <<channelVars, onceVars, stateVars, jsTimers, timerCallbacks, tasks,
                   resources, clientVars, now, countVars, historyVars>>

\* The pump ends with the context's pending jobs (ProcessJobs, LoopOnce): promise
\* reactions and what ctx.Schedule was given, after a task or timer or without.
RunJobs ==
    /\ \/ At(Loops, "ran") /\ state = "Running" /\ UNCHANGED timers
       \/ CanWork /\ tasks = <<>> /\ Due = {} /\ timers' = Kept
    /\ MoveOn("jobs") /\ armed' = TRUE
    /\ UNCHANGED <<channelVars, onceVars, stateVars, cancelled, jsTimers, timerCallbacks,
                   tasks, resources, clientVars, now, countVars, historyVars>>

\* No job is left; LoopOnce says whether it did more, which counts as an act.
JobsReturn(more) ==
    /\ At(Loops, "jobs")
    /\ more => acts < MaxActs
    /\ acts' = IF more THEN acts + 1 ELSE acts
    /\ PumpReturns(more) /\ armed' = FALSE
    /\ UNCHANGED <<channelVars, onceVars, stateVars, timerVars, tasks, resources,
                   clientVars, now, nextID, calls, historyVars>>

\* hasPendingWork, after discardCancelled.
HasPendingTasks == tasks # <<>>    \* mutant
HasPendingWork == tasks # <<>> \/ Kept # {}

RunIsIdle ==
    /\ At({"run"}, "check") /\ ~HasPendingWork
    /\ state' = "Stopped" /\ timers' = Kept
    /\ stack' = Below
    /\ reply' = Answer(Top.client, "nil")
    /\ UNCHANGED <<channelVars, onceVars, closed, generation, ctx, cancelled, jsTimers,
                   timerCallbacks, armed, tasks, resources, cl, now, countVars,
                   historyVars>>

RunHasWork ==
    /\ At({"run"}, "check") /\ HasPendingWork
    /\ timers' = Kept /\ MoveOn("wait")
    /\ UNCHANGED <<channelVars, onceVars, stateVars, cancelled, jsTimers, timerCallbacks,
                   armed, tasks, resources, clientVars, now, countVars, historyVars>>

\* waitForWork: a command, a wakeup or the poll interval ends the wait.
WaitForWork ==
    /\ At(Loops, "wait")
    /\ \/ Receive(GoTo("top"))
       \/ /\ timers' = Kept /\ MoveOn("top")
          /\ UNCHANGED <<channelVars, onceVars, stateVars, cancelled, jsTimers,
                         timerCallbacks, armed, tasks, resources, clientVars, now,
                         countVars, historyVars>>

-------------------------------------------------------------------------------
\* User code on the owner: it calls the loop's API, then returns.  The jobs of
\* a pump run in its loop's frame; they make no call that needs one of its own.

IsJSTimer(f) == f.fn = "timer" /\ f.item.kind \in JSTimers
InJSTimer == \E i \in DOMAIN stack : IsJSTimer(stack[i])

UserOps(fn) == CASE fn = "resource"  -> ResourceOps
                 [] fn = "installer" -> InstallerOps
                 [] fn \in Loops     -> TaskOps \ ReentrantOps
                 [] OTHER            -> TaskOps

MayAct(op) ==
    /\ At(Bodies, "body") \/ At(Loops, "jobs")
    /\ op \in UserOps(Top.fn) /\ acts < MaxActs
    /\ acts' = acts + 1

Maker == IF Top.fn \in Loops THEN "job" ELSE None

\* isOwner is false between the disposal of a context and its successor: the
\* caller is then taken for another goroutine.
IsOwner == ctx # 0

UserStartStop(op) ==
    /\ MayAct(op) /\ op \in {"Start", "Stop"}
    /\ IsOwner /\ ~IsClosed
    /\ state' = IF op = "Start" THEN "Running" ELSE "Stopped"
    /\ UNCHANGED <<channelVars, onceVars, closed, generation, ctx, timerVars, ownerVars,
                   clientVars, now, nextID, calls, historyVars>>

UserEnqueue(op, delay) ==
    /\ MayAct(op) /\ op \in Enqueues /\ MayCreate(delay)
    /\ ~closed
    /\ LET item == NewItem(op, delay, Maker) IN
         IF HasRoom
         THEN /\ commands' = Append(commands, [op |-> op, client |-> None, item |-> item])
              /\ accepted' = Append(accepted, item)
              /\ UNCHANGED cancelled
         ELSE /\ cancelled' = IF op = "Schedule" THEN cancelled
                              ELSE cancelled \cup {item.id}
              /\ UNCHANGED <<commands, accepted>>
    /\ nextID' = nextID + 1
    /\ UNCHANGED <<done, onceVars, stateVars, timers, jsTimers, timerCallbacks, ownerVars,
                   clientVars, now, calls, ran, closedLog>>

\* setTimeout, setInterval and setImmediate called from JavaScript.
JSAddTimer(kind, delay) ==
    /\ MayAct(kind) /\ kind \in JSTimers /\ MayCreate(delay)
    /\ ctx # 0
    /\ LET item == NewItem(kind, delay, Maker) IN
         /\ timers' = timers \cup {item}
         /\ jsTimers' = jsTimers \cup {item.id}
         /\ timerCallbacks' = timerCallbacks \cup {item.id}
         /\ accepted' = Append(accepted, item)
    /\ nextID' = nextID + 1
    /\ UNCHANGED <<channelVars, onceVars, stateVars, cancelled, ownerVars, clientVars,
                   now, calls, ran, closedLog>>

\* The callback is deleted by array index, of which there are 2^32.
ForgetKeepingCallback(id) ==    \* mutant
    jsTimers' = jsTimers \ {id} /\ timerCallbacks' = timerCallbacks
ForgetJSTimer(id) ==
    /\ jsTimers' = jsTimers \ {id}
    /\ timerCallbacks' = IF id <= MaxTimerID THEN timerCallbacks \ {id} ELSE timerCallbacks

ClearJSTimer ==
    /\ MayAct("ClearJS") /\ ctx # 0
    /\ \E id \in jsTimers :
         cancelled' = cancelled \cup {id} /\ ForgetJSTimer(id)
    /\ UNCHANGED <<channelVars, onceVars, stateVars, timers, ownerVars, clientVars, now,
                   nextID, calls, historyVars>>

UserCancel ==
    /\ MayAct("Cancel")
    /\ \E a \in Cancellable : cancelled' = cancelled \cup {a.id}
    /\ UNCHANGED <<channelVars, onceVars, stateVars, timers, jsTimers, timerCallbacks,
                   ownerVars, clientVars, now, nextID, calls, historyVars>>

\* Do on the owner calls the task directly, DoContext and ContextTask under the
\* execute timeout.
UserDo(op) ==
    /\ MayAct(op) /\ op \in {"Do", "DoContext", "ContextTask"}
    /\ IsOwner /\ ~IsClosed
    /\ op # "ContextTask" => state = "Running"
    /\ stack' = Append(stack, NewFrame(IF op = "Do" THEN "nestedDo" ELSE "nestedContext",
                                       "body", None))
    /\ armed' = (armed \/ op # "Do")
    /\ UNCHANGED <<channelVars, onceVars, stateVars, timerVars, tasks, resources,
                   clientVars, now, nextID, calls, historyVars>>

UserRun(op) ==
    /\ MayAct(op) /\ op \in {"Run", "RunContext"}
    /\ IsOwner /\ ~IsClosed /\ state # "Running"
    /\ EnterRun(None, stack)
    /\ UNCHANGED <<channelVars, onceVars, closed, generation, ctx, timerVars, tasks,
                   resources, clientVars, now, nextID, calls, historyVars>>

UserRegisterResource ==
    /\ MayAct("RegisterResource") /\ nextID < MaxItems
    /\ IsOwner /\ ~IsClosed
    /\ LET item == NewItem("RegisterResource", 0, None) IN
         resources' = Append(resources, item) /\ accepted' = Append(accepted, item)
    /\ nextID' = nextID + 1
    /\ UNCHANGED <<channelVars, onceVars, stateVars, timerVars, armed, tasks, stack,
                   clientVars, now, calls, ran, closedLog>>

\* Reload and Close free the runtime: not from under a JavaScript frame.
UserReload ==
    /\ MayAct("Reload") /\ ~InJSTimer
    /\ IsOwner /\ ~IsClosed
    /\ state' = "Stopped" /\ UNCHANGED closed
    /\ BeginDisposal("reload", None, stack)
    /\ UNCHANGED <<channelVars, onceVars, clientVars, now, nextID, calls, historyVars>>

UserClose ==
    /\ MayAct("Close") /\ ~InJSTimer
    /\ MoveOn("once")
    /\ UNCHANGED <<channelVars, onceVars, stateVars, timerVars, armed, tasks, resources,
                   clientVars, now, nextID, calls, historyVars>>

\* closeOnce.Do waits for the goroutine that is inside it.  Without a context
\* isOwner fails, and Close then waits for this very goroutine to return.
UserCloseOnce ==
    /\ At(Bodies, "once") /\ closeOnce \in {"free", "done"}
    /\ IF closeOnce = "free" /\ IsOwner
       THEN /\ closeOnce' = None /\ state' = "Closed" /\ closed' = TRUE
            /\ BeginDisposal("close", None, GoTo("body"))
            /\ UNCHANGED closeErr
       ELSE /\ MoveOn(IF IsOwner THEN "body" ELSE "stuck")
            /\ closeOnce' = "done"
            /\ closeErr' = IF closeOnce = "free" THEN "ErrClosed" ELSE closeErr
            /\ UNCHANGED <<stateVars, timerVars, armed, tasks, resources>>
    /\ UNCHANGED <<channelVars, clientVars, now, countVars, historyVars>>

\* The context adapter then sends its command to itself.
UserCallsItself(op) ==
    /\ MayAct(op) /\ op \in ContextCalls
    /\ ~IsOwner
    /\ commands' = IF HasRoom
                   THEN Append(commands, [op |-> op, client |-> None, item |-> NoItem])
                   ELSE commands
    /\ MoveOn("stuck")
    /\ UNCHANGED <<done, onceVars, stateVars, timerVars, armed, tasks, resources,
                   clientVars, now, nextID, calls, historyVars>>

\* A timer's callback begins.  A JavaScript one is looked up first.
StartTimer ==
    /\ At({"timer"}, "start")
    /\ LET e == Top.item IN
         IF e.kind \in JSTimers /\ (e.id \notin jsTimers \/ e.id \in cancelled)
         THEN /\ MoveOn("finish") /\ UNCHANGED ran
              /\ IF e.id \in jsTimers THEN ForgetJSTimer(e.id)
                                      ELSE UNCHANGED <<jsTimers, timerCallbacks>>
         ELSE /\ MoveOn("body") /\ ran' = Append(ran, Start(e))
              /\ UNCHANGED <<jsTimers, timerCallbacks>>
    /\ UNCHANGED <<channelVars, onceVars, stateVars, timers, cancelled, armed, tasks,
                   resources, clientVars, now, countVars, accepted, closedLog>>

\* The callback returns; fireDueTimer queues an interval's entry again.
TimerReturns ==
    /\ At({"timer"}, "body") \/ At({"timer"}, "finish")
    /\ LET e == Top.item IN
         /\ IF e.kind = "jsTimeout" THEN ForgetJSTimer(e.id)
                                    ELSE UNCHANGED <<jsTimers, timerCallbacks>>
         /\ IF e.kind \in Intervals /\ e.id \notin cancelled /\ state = "Running"
            THEN /\ timers' = timers \cup {[e EXCEPT !.deadline = @ + 1, !.seq = nextID + 1]}
                 /\ nextID' = nextID + 1
            ELSE UNCHANGED <<timers, nextID>>
    /\ stack' = Below /\ armed' = FALSE
    /\ UNCHANGED <<channelVars, onceVars, stateVars, cancelled, tasks, resources,
                   clientVars, now, calls, acts, historyVars>>

\* The other bodies that only return to their caller.
BodyReturns ==
    /\ \E fn \in {"task", "do", "nestedDo", "nestedContext", "resource"} : At({fn}, "body")
    /\ stack' = Below
    /\ armed' = (armed /\ Top.fn \in {"nestedDo", "resource"})
    /\ reply' = IF Top.fn = "do" THEN Answer(Top.client, "nil") ELSE reply
    /\ UNCHANGED <<channelVars, onceVars, stateVars, timerVars, tasks, resources, cl,
                   now, countVars, historyVars>>

\* The task of a Run: an error stops the loop and is the result of the Run.
RunTaskReturns(err) ==
    /\ At({"runTask"}, "body")
    /\ armed' = FALSE
    /\ IF err
       THEN /\ state' = "Stopped"
            /\ stack' = SubSeq(stack, 1, Len(stack) - 2)
            /\ reply' = Answer(Top.client, "taskErr")
       ELSE stack' = Below /\ UNCHANGED <<state, reply>>
    /\ UNCHANGED <<channelVars, onceVars, closed, generation, ctx, timerVars, tasks,
                   resources, cl, now, countVars, historyVars>>

-------------------------------------------------------------------------------
\* disposeGeneration, then the rest of Close or Reload.

\* closeResources walks the slice it finds, from the last one registered when it
\* began; what a Close method registers meanwhile is dropped with the slice.
CloseResource ==
    /\ At(Disposals, "resources") /\ Top.idx > 0
    /\ stack' = Append(Append(Below, [Top EXCEPT !.idx = @ - 1]),
                       NewFrame("resource", "body", None))
    /\ closedLog' = Append(closedLog, [id |-> resources[Top.idx].id, at |-> ctx])
    /\ UNCHANGED <<channelVars, onceVars, stateVars, timerVars, armed, tasks, resources,
                   clientVars, now, countVars, accepted, ran>>

DisposeContext ==
    /\ At(Disposals, "resources") /\ Top.idx = 0
    /\ resources' = <<>> /\ timerCallbacks' = {} /\ ctx' = 0 /\ armed' = FALSE
    /\ MoveOn(IF Top.fn = "reload" THEN "init" ELSE "finish")
    /\ UNCHANGED <<channelVars, onceVars, closed, state, generation, timers, cancelled,
                   jsTimers, tasks, clientVars, now, countVars, historyVars>>

\* initializeGeneration fails: the loop closes and what there is is disposed.
FailReload(st) ==
    /\ closed' = TRUE /\ state' = "Closed"
    /\ DropWork
    /\ stack' = Append(SubSeq(st, 1, Len(st) - 1),
                  [st[Len(st)] EXCEPT !.fn = "failedReload", !.pc = "resources",
                                      !.idx = Len(resources)])

\* A new runtime and context under the next generation; or neither can be made.
InitializeGeneration ==
    /\ At({"reload"}, "init")
    /\ \/ /\ generation' = generation + 1 /\ ctx' = generation + 1
          /\ stack' = Append(GoTo("finish"), NewFrame("installer", "body", None))
          /\ UNCHANGED <<closed, state, timers, cancelled, jsTimers, tasks>>
       \/ FailReload(stack) /\ UNCHANGED <<generation, ctx>>
    /\ UNCHANGED <<channelVars, onceVars, timerCallbacks, armed, resources, clientVars,
                   now, countVars, historyVars>>

InstallerReturns(err) ==
    /\ At({"installer"}, "body")
    /\ IF err THEN FailReload(Below)
              ELSE stack' = Below /\ UNCHANGED <<closed, state, timers, cancelled, jsTimers, tasks>>
    /\ UNCHANGED <<channelVars, onceVars, generation, ctx, timerCallbacks, armed,
                   resources, clientVars, now, countVars, historyVars>>

ReloadReturns ==
    /\ At({"reload", "failedReload"}, "finish")
    /\ IF Top.fn = "reload"
       THEN closed' = FALSE /\ state' = Top.prev
       ELSE UNCHANGED <<closed, state>>
    /\ stack' = Below
    /\ reply' = Answer(Top.client, IF Top.fn = "reload" THEN "nil" ELSE "taskErr")
    /\ UNCHANGED <<channelVars, onceVars, generation, ctx, timerVars, armed, tasks,
                   resources, cl, now, countVars, historyVars>>

\* closeOnOwner returns, to handleCommand or to the owner's own closeOnce.Do.
CloseFinishes ==
    /\ At({"close"}, "finish")
    /\ stack' = Below
    /\ reply' = Answer(Top.client, "nil")
    /\ closeOnce' = IF Top.client = None THEN "done" ELSE closeOnce
    /\ UNCHANGED <<channelVars, closeErr, stateVars, timerVars, armed, tasks, resources,
                   cl, now, countVars, historyVars>>

-------------------------------------------------------------------------------
Tick ==
    /\ now < MaxNow /\ now' = now + 1
    /\ UNCHANGED <<channelVars, onceVars, stateVars, timerVars, ownerVars, clientVars,
                   countVars, historyVars>>

\* Every call has returned and the owner waits for a command or has returned.
Quiet ==
    /\ \A c \in Clients : cl[c].pc = "idle"
    /\ commands = <<>> \/ done
    /\ done \/ (At({"owner"}, "top") /\ state # "Closed")
    /\ UNCHANGED vars

Pumping ==
    \/ OwnerReceives \/ OwnerReturns \/ RunReturns \/ PumpOnce \/ DrainCommands \/ Drained
    \/ NotRunning \/ RunTask \/ FireDueTimer \/ RunJobs
    \/ (\E more \in BOOLEAN : JobsReturn(more))
    \/ RunIsIdle \/ RunHasWork \/ WaitForWork

UserActs ==
    \/ \E op \in Ops :
          \/ UserStartStop(op) \/ UserDo(op) \/ UserRun(op) \/ UserCallsItself(op)
          \/ \E delay \in 0..1 : UserEnqueue(op, delay) \/ JSAddTimer(op, delay)
    \/ ClearJSTimer \/ UserCancel \/ UserRegisterResource \/ UserReload
    \/ UserClose

UserReturns ==
    \/ UserCloseOnce \/ StartTimer \/ TimerReturns \/ BodyReturns
    \/ \E err \in TaskErrors : RunTaskReturns(err)
    \/ \E err \in BOOLEAN : InstallerReturns(err)

Disposing ==
    \/ CloseResource \/ DisposeContext \/ InitializeGeneration \/ ReloadReturns
    \/ CloseFinishes

Owner == Pumping \/ UserActs \/ UserReturns \/ Disposing

\* What a client in a call does next.
Client(c) == Send(c) \/ Await(c) \/ Enqueue(c) \/ CloseOnce(c) \/ CloseReturns(c)

Caller(c) ==
    \/ \E op \in Ops : BeginCall(c, op) \/ \E delay \in 0..1 : BeginEnqueue(c, op, delay)
    \/ CancelTimer(c) \/ BeginClose(c)

Next == Owner \/ (\E c \in Clients : Caller(c) \/ Client(c)) \/ Tick \/ Quiet

Spec == Init /\ [][Next]_vars

\* The owner and every client goroutine in a call are scheduled; user code
\* returns.  Nobody has to call anything.
Fairness == WF_vars(Owner) /\ WF_vars(Tick) /\ \A c \in Clients : WF_vars(Client(c))
FairSpec == Spec /\ Fairness

-------------------------------------------------------------------------------
\* Properties

ChannelTypes ==
    /\ commands \in Seq(Command) /\ Len(commands) <= QueueCap
    /\ done \in BOOLEAN
    /\ closeOnce \in {"free", "done"} \cup Owners /\ closeErr \in Results
StateTypes ==
    /\ closed \in BOOLEAN /\ state \in States /\ generation \in Nat /\ ctx \in Nat
    /\ armed \in BOOLEAN
WorkTypes ==
    /\ tasks \in Seq(Item) /\ timers \subseteq Item /\ cancelled \subseteq Nat
    /\ jsTimers \subseteq Nat /\ timerCallbacks \subseteq Nat
StackTypes == stack \in Seq(Frame) /\ resources \in Seq(Item)
ClientTypes ==
    /\ cl \in [Clients -> CallState]
    /\ reply \in [Clients -> Results]
CountTypes ==
    /\ now \in Nat /\ nextID \in Nat /\ calls \in Nat /\ acts \in Nat
HistoryTypes ==
    /\ accepted \in Seq(Item)
    /\ ran \in Seq([id : Nat, kind : Ops, gen : Nat, at : Nat, late : BOOLEAN])
    /\ closedLog \in Seq([id : Nat, at : Nat])

TypeOK == /\ ChannelTypes /\ StateTypes /\ WorkTypes /\ StackTypes
          /\ ClientTypes /\ CountTypes /\ HistoryTypes

Position(id) == CHOOSE i \in DOMAIN accepted : accepted[i].id = id
HasRun(id)   == \E i \in DOMAIN ran : ran[i].id = id
OnStack(id)  == \E i \in DOMAIN stack : stack[i].fn = "timer" /\ stack[i].item.id = id
Disposes     == \E i \in DOMAIN stack : stack[i].pc = "resources"

\* Work does not cross the generation boundary, and nothing runs once the loop
\* is closed: a task or timer callback starts in the live context of the
\* generation in which it was queued (handleCommand, disposeGeneration).
NoStaleWork == \A i \in DOMAIN ran : ran[i].gen = ran[i].at

InChannel(a) == \E i \in DOMAIN commands : commands[i].item.id = a.id
Held(a) ==
    \/ InChannel(a)
    \/ \E i \in DOMAIN tasks : tasks[i].id = a.id
    \/ \E e \in timers : e.id = a.id
    \/ OnStack(a.id)

\* Work accepted in this generation is waiting, running or, when it runs once,
\* has run; only a cancellation, Reload or Close makes it go away.
NothingLost ==
    ctx = generation /\ ~closed /\ ~Disposes =>
      \A a \in AcceptedItems :
        a.kind # "RegisterResource" /\ a.gen = generation /\ a.id \notin cancelled =>
          Held(a) \/ (a.kind \notin Intervals /\ HasRun(a.id))

\* "Stop pauses pumping while retaining queued tasks and timers" (eventloop.go:421).
StopRetainsWork == state = "Stopped" => NothingLost

\* The callbacks kept for JavaScript timers are those of the timers that can
\* still fire: none is leaked, none is released too early (js_timers.go).
JSTimersBacked ==
    ~Disposes =>
      /\ timerCallbacks = jsTimers
      /\ \A id \in jsTimers : OnStack(id) \/ \E e \in timers : e.id = id
      /\ \A e \in timers : e.kind \in JSTimers /\ e.id \notin cancelled => e.id \in jsTimers

\* A synchronous call does not return while its task is still on the owner's
\* stack, even when the loop is closed under it (call, handleCommand).
NoOrphanCall ==
    \A c \in Clients : cl[c].pc = "idle" =>
      \A i \in DOMAIN stack : stack[i].client # c

\* When Close has returned, on any goroutine and with any result, nothing is
\* left: no context, no work, and every resource was closed (Close, owner).
CloseIsComplete ==
    (\E c \in Clients : cl[c].pc = "idle" /\ cl[c].op = "Close") =>
      /\ ctx = 0 /\ stack = <<>> /\ tasks = <<>> /\ timers = {} /\ jsTimers = {}
      /\ \A a \in AcceptedItems : a.kind = "RegisterResource" =>
           \E i \in DOMAIN closedLog : closedLog[i].id = a.id

Closings(id) == {i \in DOMAIN closedLog : closedLog[i].id = id}

\* A resource is closed at most once, while the context it was registered under
\* is alive, after the ones registered later; it is registered until then.
ResourcesClosed ==
    /\ \A i, j \in DOMAIN closedLog : i < j =>
         /\ closedLog[i].id # closedLog[j].id
         /\ closedLog[i].at <= closedLog[j].at
         /\ closedLog[i].at = closedLog[j].at =>
              Position(closedLog[j].id) < Position(closedLog[i].id)
    /\ \A i \in DOMAIN closedLog : closedLog[i].at # 0
    /\ \A a \in AcceptedItems : a.kind = "RegisterResource" =>
         Closings(a.id) # {} \/ \E i \in DOMAIN resources : resources[i].id = a.id

\* A closed loop stays closed and gets no new context, whatever Reload or Run
\* was waiting in the channel.
ClosedForever == [][closed => closed' /\ (ctx = 0 => ctx' = 0)]_vars

\* "Run ... drains until quiescent": when a Run ends for lack of work, what the
\* owner itself queued in this generation has run or was cancelled.  Only what
\* a job sent through the channel may still be there: a pump runs its jobs
\* after it has looked at the channel and does not count them as progress.
RunDrains ==
    [][RunIsIdle =>
         \A a \in AcceptedItems :
           /\ a.by \in {None, "job"} /\ a.gen = generation /\ a.id \notin cancelled
           /\ a.kind # "RegisterResource"
           => \/ HasRun(a.id) /\ a.kind \notin Intervals
              \/ a.by = "job" /\ InChannel(a)]_vars

\* "Cancel prevents a timer callback from running" (timer.go:44): no callback
\* starts once its timer is cancelled.  It holds for cancellations made on the
\* owner; those of other goroutines race with the expiry.
CancelPrevents == \A i \in DOMAIN ran : ~ran[i].late

Ids(items) == [i \in DOMAIN items |-> items[i].id]
\* The ids of those that are in S, in their order.
AddId(ids, S, x) == IF x \in S THEN Append(ids, x.id) ELSE ids
IdsIn(S, items) ==
    LET ids[n \in 0..Len(items)] == IF n = 0 THEN <<>> ELSE AddId(ids[n - 1], S, items[n])
    IN  ids[Len(items)]
\* A generation was disposed of and has no successor yet.
InReload == \E i \in DOMAIN stack : stack[i].pc \in {"resources", "init"}
ChannelItems == [i \in DOMAIN commands |-> commands[i].item]
LiveTasks == {x \in Item : x.kind = "Schedule" /\ x.gen = generation}
TaskRuns  == [id : Nat, kind : {"Schedule"}, gen : Nat, at : Nat, late : BOOLEAN]
\* The channel and the slice are one queue: the tasks of this generation.
Queued == Ids(tasks) \o IdsIn(LiveTasks, ChannelItems)
Queue == INSTANCE SerialQueue WITH
           Tasks    <- 1..MaxItems,
           open     <- ~closed,
           pending  <- IF closed \/ InReload THEN <<>> ELSE Queued,
           executed <- IdsIn(TaskRuns, ran)

\* Schedule, with its channel, its slice and its generation check, is the
\* queue it is meant to be, across Stop, Reload, Close and nested Runs.
IsSerialQueue == Queue!Spec

\* Every call returns: whatever the others do, nobody waits forever.
CallsReturn == \A c \in Clients : cl[c].pc # "idle" ~> cl[c].pc = "idle"

\* While the loop runs, queued work gets its turn unless it is cancelled,
\* dropped by Reload or Close, or the loop is stopped.
Waiting(id) == \/ \E i \in DOMAIN commands : commands[i].op \in Enqueues /\ commands[i].item.id = id
               \/ \E i \in DOMAIN tasks : tasks[i].id = id
               \/ \E e \in timers : e.id = id
WorkGetsItsTurn ==
    \A id \in 1..MaxItems :
      Waiting(id) ~> (HasRun(id) \/ state # "Running" \/ ~Waiting(id))

-------------------------------------------------------------------------------
\* What the code's documents and tests say, and the code does not do.

\* "Close permanently stops the owner" (eventloop.go:436).
CloseStopsOwner == closed ~> done

\* Close called on the owner does not deadlock (eventloop_test.go:368).
OwnerCloseReturns == At(Bodies, "once") ~> ~At(Bodies, "once")

\* "RegisterResource arranges for a resource to close before the runtime
\* closes" (resource.go:41).
RegisteredIsClosed ==
    ctx = 0 => \A a \in AcceptedItems : a.kind = "RegisterResource" => Closings(a.id) # {}

\* "CPU execution limits for the owner runtime" (eventloop.go:110): a task or
\* callback runs under the execute timeout, a job too.
ExecutionIsLimited ==
    At(Bodies \ {"resource", "installer"}, "body") \/ At(Loops, "jobs") => armed
================================================================================
