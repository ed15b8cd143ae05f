-------------------------- MODULE EventLoopWorkProofs --------------------------
(***************************************************************************)
(* What becomes of the work of an EventLoop, for every set of clients, every *)
(* capacity of the command channel and every bound: a task or timer that was *)
(* accepted waits, runs or has run, a cancelled one does not start, the      *)
(* three records of a JavaScript timer agree, every resource is closed once  *)
(* and in order, nothing is left when Close returns, a Run that ends has     *)
(* drained, and the tasks are the queue that SerialQueue describes.          *)
(***************************************************************************)
EXTENDS EventLoopProofs, SequenceTheorems, WellFoundedInduction

USE DEF channelVars, onceVars, stateVars, timerVars, ownerVars, clientVars,
        countVars, historyVars

-------------------------------------------------------------------------------
\* The loop becomes open only with a new generation.

LEMMA DisposesTop ==
    ASSUME Inv, Disposes
    PROVE  /\ stack # <<>>
           /\ \/ Top.fn \in Disposals /\ Top.pc = "resources"
              \/ /\ Top.fn = "resource" /\ Top.pc = "body"
                 /\ \E i \in DOMAIN Below : Below[i].pc = "resources"
<1>1. PICK i \in DOMAIN stack : stack[i].pc = "resources"
  BY DEF Disposes
<1>2. /\ stack # <<>> /\ Len(stack) \in Nat /\ DOMAIN stack = 1..Len(stack) /\ Len(stack) > 0
      /\ DOMAIN Below = 1..Len(stack) - 1 /\ \A k \in 1..Len(stack) - 1 : Below[k] = stack[k]
  <2>1. stack # <<>>
    <3>1. DOMAIN <<>> = {}
      OBVIOUS
    <3> QED BY <1>1, <3>1
  <2> QED BY <2>1, SeqFacts
<1>3. FrameOK(i) /\ FrameOK(Len(stack))
  BY <1>1, <1>2 DEF Inv, StackOK
<1>4. CASE i = Len(stack)
  BY <1>1, <1>2, <1>3, <1>4 DEF FrameOK, Top
<1>5. CASE i = Len(stack) - 1 /\ stack[i + 1].fn = "resource"
  <2>1. Top.fn = "resource" /\ i \in DOMAIN Below /\ Below[i].pc = "resources"
    BY <1>1, <1>2, <1>5 DEF Top
  <2>2. Top.pc = "body"
    BY <1>3, <2>1 DEF FrameOK, Top
  <2> QED BY <1>2, <2>1, <2>2
<1> QED BY <1>1, <1>3, <1>4, <1>5 DEF FrameOK, Busy

LEMMA ContextStep ==
    ASSUME [Next]_vars
    PROVE  ctx' = ctx \/ (DisposeContext /\ ctx' = 0) \/ InitializeGeneration
<1>1. ASSUME NEW s, Receive(s) PROVE ctx' = ctx
  BY <1>1 DEF Receive, HandleCommand, HandleSchedule, HandleAddTimer, HandleStartStop,
     HandleDo, HandleRun, EnterRun, HandleRegisterResource, HandleReload, HandleClose, BeginDisposal
<1>2. CASE Pumping
  BY <1>1, <1>2 DEF Pumping, OwnerReceives, OwnerReturns, RunReturns, PumpOnce, DrainCommands,
     Drained, NotRunning, RunTask, FireDueTimer, RunJobs, JobsReturn, RunIsIdle, RunHasWork, WaitForWork, OnlyStack
<1>3. CASE UserActs
  <2>1. ASSUME NEW op, UserStartStop(op) \/ UserDo(op) \/ UserCallsItself(op) \/ UserRun(op)
        PROVE  ctx' = ctx
    BY <2>1 DEF UserStartStop, UserDo, UserCallsItself, UserRun
  <2>2. ASSUME NEW op, NEW delay \in 0..1, UserEnqueue(op, delay) \/ JSAddTimer(op, delay)
        PROVE  ctx' = ctx
    BY <2>2 DEF UserEnqueue, JSAddTimer
  <2>3. ASSUME ClearJSTimer \/ UserCancel \/ UserRegisterResource \/ UserReload \/ UserClose
        PROVE  ctx' = ctx
    BY <2>3 DEF ClearJSTimer, UserCancel, UserRegisterResource, UserReload, UserClose, BeginDisposal
  <2> QED BY <1>3, <2>1, <2>2, <2>3 DEF UserActs
<1>4. CASE UserReturns
  BY <1>4 DEF UserReturns, UserCloseOnce, StartTimer, TimerReturns, BodyReturns,
     RunTaskReturns, InstallerReturns, BeginDisposal
<1>5. CASE Disposing
  BY <1>5 DEF Disposing, CloseResource, DisposeContext, ReloadReturns, CloseFinishes
<1> QED BY <1>2, <1>3, <1>4, <1>5, ClientsApart DEF Next, Owner

LEMMA DisposesStep ==
    ASSUME Inv, Disposes, [Next]_vars, ~DisposeContext
    PROVE  Disposes'
<1>1. CASE stack' = stack
  BY <1>1 DEF Disposes
<1>2. stack # <<>> /\ Top \in Frame /\ Below \in Seq(Frame)
  BY DisposesTop, SeqFacts
<1>3. CASE Top.fn \in Disposals /\ Top.pc = "resources"
  <2>1. Top.fn \notin Loops \cup Bodies
    BY <1>3 DEF Loops, Bodies, Disposals
  <2>2. CASE CloseResource
    <3>1. PICK t : t = Top
      OBVIOUS
    <3>2. PICK k : k = t.idx - 1
      OBVIOUS
    <3>3. PICK f : f = [t EXCEPT !.idx = k]
      OBVIOUS
    <3>4. f \in Frame /\ f.pc = "resources"
      <4>1. t \in Frame /\ k \in Nat
        BY <1>2, <2>2, <3>1, <3>2 DEF CloseResource, Frame
      <4> QED BY <1>3, <3>1, <3>3, <4>1 DEF Frame
    <3>5. PICK g \in Frame : g = NewFrame("resource", "body", None)
      BY NewFrameType DEF Bodies, Points, Owners
    <3>6. stack' = Append(Append(Below, f), g)
      BY <2>2, <3>1, <3>2, <3>3, <3>5 DEF CloseResource
    <3>7. Len(Below) + 1 \in DOMAIN stack' /\ stack'[Len(Below) + 1] = f
      BY <1>2, <3>4, <3>5, <3>6
    <3> QED BY <3>4, <3>7 DEF Disposes
  <2>3. ~Pumping
    BY <2>1 DEF Pumping, OwnerReceives, OwnerReturns, RunReturns, PumpOnce, DrainCommands, Drained,
       NotRunning, RunTask, FireDueTimer, RunJobs, JobsReturn, RunIsIdle, RunHasWork, WaitForWork, CanWork, At,
       Running, Loops
  <2>4. ~UserActs
    BY <2>1 DEF UserActs, UserStartStop, UserDo, UserRun, UserCallsItself, UserEnqueue, JSAddTimer,
       ClearJSTimer, UserCancel, UserRegisterResource, UserReload, UserClose, MayAct, At, Running
  <2>5. ~UserReturns
    BY <2>1 DEF UserReturns, UserCloseOnce, StartTimer, TimerReturns, BodyReturns, RunTaskReturns,
       InstallerReturns, At, Running, Bodies
  <2>6. Disposing => CloseResource
    BY <1>3 DEF Disposing, InitializeGeneration, ReloadReturns, CloseFinishes, At, Running
  <2> QED BY <1>1, <2>2, <2>3, <2>4, <2>5, <2>6, ClientsApart DEF Next, Owner
<1>4. CASE /\ Top.fn = "resource" /\ Top.pc = "body"
           /\ \E i \in DOMAIN Below : Below[i].pc = "resources"
  <2>1. Top.fn \notin Loops \cup Disposals
    BY <1>4 DEF Loops, Disposals
  <2>2. ~Pumping
    BY <2>1 DEF Pumping, OwnerReceives, OwnerReturns, RunReturns, PumpOnce, DrainCommands, Drained,
       NotRunning, RunTask, FireDueTimer, RunJobs, JobsReturn, RunIsIdle, RunHasWork, WaitForWork, CanWork, At,
       Running, Loops
  <2>3. ~Disposing
    BY <2>1 DEF Disposing, CloseResource, DisposeContext, InitializeGeneration, ReloadReturns,
       CloseFinishes, At, Running, Disposals
  <2>4. \A op \in ReentrantOps : ~MayAct(op)
    BY <1>4, NotReentrant
  <2>5. UserActs => stack' = stack
    BY <2>4 DEF UserActs, UserStartStop, UserDo, UserRun, UserCallsItself, UserEnqueue, JSAddTimer,
       ClearJSTimer, UserCancel, UserRegisterResource, UserReload, UserClose, ReentrantOps, ContextCalls
  <2>6. UserReturns => stack' = Below
    BY <1>4 DEF UserReturns, UserCloseOnce, StartTimer, TimerReturns, BodyReturns, RunTaskReturns,
       InstallerReturns, At, Running
  <2>7. CASE stack' = Below
    BY <1>4, <2>7 DEF Disposes
  <2> QED BY <1>1, <2>2, <2>3, <2>5, <2>6, <2>7, ClientsApart DEF Next, Owner
<1> QED BY <1>3, <1>4, DisposesTop

LEMMA OpenStep ==
    ASSUME WorkInv, [Next]_vars, Open'
    PROVE  Open \/ (InitializeGeneration /\ generation' = generation + 1)
<1>1. ClosedInv /\ Inv /\ generation \in Nat /\ generation > 0
  BY DEF WorkInv, ClosedInv, WorkOK, StateOK, Inv, TypeOK, StateTypes
<1>2. ~closed
  BY <1>1, ClosedStep DEF Open
<1>3. CASE generation' = generation
  <2>1. ~DisposeContext
    BY <1>1, <1>3 DEF DisposeContext, Open
  <2>2. ctx = generation
    <3>1. CASE InitializeGeneration
      BY <1>1, <1>3, <3>1 DEF InitializeGeneration, FailReload, Open
    <3> QED BY <1>3, <2>1, <3>1, ContextStep DEF Open
  <2>3. ~Disposes
    BY <1>1, <2>1, DisposesStep DEF Open
  <2> QED BY <1>2, <2>2, <2>3 DEF Open
<1> QED BY <1>3, GenerationStep

-------------------------------------------------------------------------------
\* While the callback of a timer runs and the loop is open, the loop is running and
\* nothing but calls on the owner are above it.

Nested == {"nestedDo", "nestedContext"}
SteadyAt(i) == state = "Running" /\ \A j \in DOMAIN stack : j > i => stack[j].fn \in Nested
Live(i) == stack[i].fn = "timer" /\ stack[i].item.gen = generation
Steadies == Open => \A i \in DOMAIN stack : Live(i) => SteadyAt(i)

\* The innermost call is then the callback, or what it called on the owner.
LEMMA SteadyTop ==
    ASSUME Inv, Steadies, Open, NEW i \in DOMAIN stack, Live(i)
    PROVE  /\ stack # <<>> /\ state = "Running" /\ Top.fn \in Nested \cup {"timer"}
           /\ Top.fn = "timer" => i = Len(stack)
<1>1. Len(stack) \in Nat /\ DOMAIN stack = 1..Len(stack) /\ SteadyAt(i)
  BY SeqFacts DEF Steadies
<1>2. stack # <<>>
  <2>1. DOMAIN <<>> = {}
    OBVIOUS
  <2> QED BY <2>1
<1>3. i = Len(stack) \/ (Len(stack) > i /\ Len(stack) \in DOMAIN stack)
  BY <1>1
<1>4. CASE i = Len(stack)
  BY <1>1, <1>2, <1>4 DEF SteadyAt, Live, Top
<1>5. CASE Len(stack) > i /\ Len(stack) \in DOMAIN stack
  BY <1>1, <1>2, <1>5 DEF SteadyAt, Top, Nested
<1> QED BY <1>3, <1>4, <1>5

\* What can be done there, by a timer's callback that does not stop the loop.
LEMMA SteadySteps ==
    ASSUME Inv, "Stop" \notin TaskOps, Open, stack # <<>>, state = "Running",
           Top.fn \in Nested \cup {"timer"}, Owner
    PROVE  \/ stack' = stack /\ state' = state
           \/ ~Open'
           \/ state' = state /\ \E fn \in Nested : stack' = Append(stack, NewFrame(fn, "body", None))
           \/ state' = state /\ \E pc \in Points : stack' = GoTo(pc)
           \/ state' = state /\ stack' = Below
<1>1. Top.fn \in Bodies \ {"resource", "installer", "task", "do", "runTask"} /\ Top \in Frame
      /\ stack \in Seq(Frame)
  BY SeqFacts DEF Nested, Bodies
<1>2. ~Pumping
  BY <1>1 DEF Pumping, OwnerReceives, OwnerReturns, RunReturns, PumpOnce, DrainCommands, Drained,
     NotRunning, RunTask, FireDueTimer, RunJobs, JobsReturn, RunIsIdle, RunHasWork, WaitForWork, CanWork, At,
     Running, Loops, Bodies
<1>3. ~Disposing
  BY <1>1 DEF Disposing, CloseResource, DisposeContext, InitializeGeneration, ReloadReturns,
     CloseFinishes, At, Running, Disposals, Bodies
<1>4. CASE UserActs
  <2>1. CASE \E op \in Ops : UserStartStop(op)
    <3>1. PICK op \in Ops : UserStartStop(op) /\ MayAct(op) /\ op \in {"Start", "Stop"}
      BY <2>1 DEF UserStartStop
    <3>2. op \in TaskOps
      BY <1>1, <3>1 DEF MayAct, UserOps
    <3> QED BY <3>1, <3>2 DEF UserStartStop
  <2>2. CASE \E op \in Ops : UserDo(op)
    BY <2>2 DEF UserDo, Nested
  <2>3. CASE \E op \in Ops : UserRun(op)
    BY <2>3 DEF UserRun
  <2>4. CASE \E op \in Ops : UserCallsItself(op)
    BY <2>4 DEF UserCallsItself, MoveOn, Points
  <2>5. CASE \/ ClearJSTimer \/ UserCancel \/ UserRegisterResource
             \/ \E op \in Ops : \E delay \in 0..1 : UserEnqueue(op, delay) \/ JSAddTimer(op, delay)
    BY <2>5 DEF ClearJSTimer, UserCancel, UserRegisterResource, UserEnqueue, JSAddTimer
  <2>6. CASE UserReload
    <3>1. BeginDisposal("reload", None, stack)
      BY <2>6 DEF UserReload
    <3>2. Disposes'
      BY <1>1, <3>1, DisposalShuts DEF Disposals, Owners
    <3> QED BY <3>2 DEF Open
  <2>7. CASE UserClose
    BY <2>7 DEF UserClose, MoveOn, Points
  <2> QED BY <1>4, <2>1, <2>2, <2>3, <2>4, <2>5, <2>6, <2>7 DEF UserActs
<1>5. CASE UserReturns
  <2>1. CASE UserCloseOnce
    BY <2>1 DEF UserCloseOnce, MoveOn, Points, Open
  <2>2. CASE StartTimer
    BY <2>2 DEF StartTimer, MoveOn, Points
  <2>3. CASE TimerReturns \/ BodyReturns
    BY <2>3 DEF TimerReturns, BodyReturns
  <2>4. ~(\E err \in TaskErrors : RunTaskReturns(err)) /\ ~(\E err \in BOOLEAN : InstallerReturns(err))
    BY <1>1 DEF RunTaskReturns, InstallerReturns, At, Running
  <2> QED BY <1>5, <2>1, <2>2, <2>3, <2>4 DEF UserReturns
<1> QED BY <1>2, <1>3, <1>4, <1>5 DEF Owner

\* A callback that starts is the innermost call of a running loop.
LEMMA SteadyNew ==
    ASSUME Inv, Inv', Effect, NEW i \in DOMAIN stack', Live(i)', generation' = generation,
           \A j \in DOMAIN stack : ~Live(j)
    PROVE  i = Len(stack') /\ state' = "Running"
<1>1. \A f \in Calls : f.item.gen # generation
  BY FiringAt DEF Calls, Live
<1>2. PICK g : g = [at |-> i, item |-> stack'[i].item, phase |-> Phase(stack'[i])]
  OBVIOUS
<1>3. g \in Calls' /\ g.at = i /\ g.item.gen = generation
  BY <1>2, FiringHas DEF Calls, Live
<1>4. \E x \in Item : Pops(x) /\ ~(Calls' \subseteq Calls)
  <2>1. ~(Calls' \subseteq Calls)
    BY <1>1, <1>3
  <2>2. \A f \in Calls : ~Starts(f)
    BY <1>1, <1>3 DEF Starts, Begun
  <2>3. \A f \in Calls : ~Returns(f)
    BY <2>1 DEF Returns
  <2>4. ~Quietly /\ ~Discards /\ ~Drops /\ ~Leaves
    BY <2>1 DEF Quietly, Discards, Drops, Leaves
  <2>5. \A x \in Item : ~Begins(x) /\ ~Sends(x) /\ ~Refused(x) /\ ~Cancels(x) /\ ~Queues(x)
    BY <2>1 DEF Begins, Sends, Refused, Cancels, Queues
  <2>6. \A x \in Item : ~Arms(x) /\ ~Registers(x) /\ ~Posts(x) /\ ~AddsJS(x) /\ ~RunsTask(x)
    BY <2>1 DEF Arms, Registers, Posts, AddsJS, RunsTask
  <2>7. \A id \in Nat : ~ClearsJS(id)
    BY <2>1 DEF ClearsJS
  <2> QED BY <2>1, <2>2, <2>3, <2>4, <2>5, <2>6, <2>7 DEF Effect
<1>5. PICK x \in Item : Pops(x) /\ ~(Calls' \subseteq Calls)
  BY <1>4
<1>6. state' = "Running" /\ \E h : h.at = Len(stack') /\ Calls' = Calls \cup {h}
  BY <1>5 DEF Pops
<1>7. PICK h : h.at = Len(stack') /\ Calls' = Calls \cup {h}
  BY <1>6
<1> QED BY <1>1, <1>3, <1>6, <1>7

LEMMA SteadiesStep ==
    ASSUME WorkInv, WorkInv', "Stop" \notin TaskOps, Steadies, [Next]_vars
    PROVE  Steadies'
<1> SUFFICES ASSUME Open', NEW i \in DOMAIN stack', Live(i)' PROVE SteadyAt(i)'
    BY DEF Steadies
<1>1. Inv /\ Inv' /\ CallsInv /\ KindsOK /\ StateOK /\ IdsOK
  BY DEF WorkInv, CallsInv, WorkOK
<1>2. Effect
  BY <1>1, StepEffect
<1>3. /\ stack \in Seq(Frame) /\ Len(stack) \in Nat /\ DOMAIN stack = 1..Len(stack)
      /\ stack' \in Seq(Frame) /\ Len(stack') \in Nat /\ DOMAIN stack' = 1..Len(stack')
  <2>1. stack \in Seq(Frame) /\ stack' \in Seq(Frame)
    BY <1>1 DEF Inv, TypeOK, StackTypes
  <2> QED BY <2>1
<1>4. generation' = generation
  <2>1. CASE generation' = generation + 1
    <3>1. PICK n : Traces(n)
      BY <1>1, <1>2, EffectTraces
    <3>2. stack'[i].item \in Known'
      <4>1. PICK g : g = [at |-> i, item |-> stack'[i].item, phase |-> Phase(stack'[i])]
        OBVIOUS
      <4>2. g \in Calls' /\ g.item = stack'[i].item
        BY <4>1, FiringHas DEF Calls, Live
      <4> QED BY <4>2 DEF Known, Stored, Fired
    <3>3. \E x \in Known \cup {n} : x.gen = stack'[i].item.gen /\ (x \in Known \/ x.gen = generation)
      BY <3>1, <3>2 DEF Traces, Same, IsNew
    <3>4. stack'[i].item.gen <= generation
      BY <1>1, <3>3, IdTypes DEF IdsOK, IdOK
    <3>5. generation \in Nat
      BY <1>1, IdTypes
    <3> QED BY <2>1, <3>4, <3>5 DEF Live
  <2> QED BY <2>1, GenerationStep
<1>5. Open
  BY <1>4, <1>1, IdTypes, OpenStep
<1>6. CASE \A j \in DOMAIN stack : ~Live(j)
  <2>1. i = Len(stack') /\ state' = "Running"
    BY <1>1, <1>2, <1>4, <1>6, SteadyNew
  <2> QED BY <1>3, <2>1 DEF SteadyAt
<1>7. CASE \E j \in DOMAIN stack : Live(j)
  <2>1. /\ stack # <<>> /\ state = "Running" /\ Top.fn \in Nested \cup {"timer"}
        /\ \A j \in DOMAIN stack : Live(j) => SteadyAt(j)
    BY <1>1, <1>5, <1>7, SteadyTop DEF Steadies
  <2>2. CASE ~Owner
    <3>1. stack' = stack /\ state' = state
      BY <2>2, ClientsApart DEF Next
    <3> QED BY <1>4, <2>1, <3>1 DEF SteadyAt, Live
  <2>3. CASE Owner
    <3>1. \/ stack' = stack /\ state' = state
          \/ state' = state /\ \E fn \in Nested : stack' = Append(stack, NewFrame(fn, "body", None))
          \/ state' = state /\ \E pc \in Points : stack' = GoTo(pc)
          \/ state' = state /\ stack' = Below
      BY <1>1, <1>5, <2>1, <2>3, SteadySteps
    <3>2. CASE stack' = stack /\ state' = state
      BY <1>4, <2>1, <3>2 DEF SteadyAt, Live
    <3>3. CASE state' = state /\ \E fn \in Nested : stack' = Append(stack, NewFrame(fn, "body", None))
      <4>1. PICK fn \in Nested : stack' = Append(stack, NewFrame(fn, "body", None))
        BY <3>3
      <4>2. PICK f : f = NewFrame(fn, "body", None)
        OBVIOUS
      <4>3. f \in Frame /\ f.fn \in Nested
        <5>1. fn \in Bodies /\ "body" \in Points /\ None \in Owners
          BY DEF Nested, Bodies, Points, Owners
        <5>2. NewFrame(fn, "body", None) \in Frame
          BY <5>1, NewFrameType
        <5> QED BY <4>2, <5>2 DEF NewFrame
      <4>4. /\ DOMAIN stack' = 1..Len(stack) + 1 /\ stack'[Len(stack) + 1] = f
            /\ \A j \in 1..Len(stack) : stack'[j] = stack[j]
        BY <1>3, <4>1, <4>2, <4>3, AppendSeq
      <4>5. i \in DOMAIN stack /\ stack'[i] = stack[i]
        BY <1>3, <4>3, <4>4 DEF Live, Nested
      <4>6. SteadyAt(i)
        BY <1>4, <2>1, <4>5 DEF Live
      <4> QED BY <1>3, <3>3, <4>3, <4>4, <4>5, <4>6 DEF SteadyAt
    <3>4. CASE state' = state /\ \E pc \in Points : stack' = GoTo(pc)
      <4>1. PICK pc \in Points : stack' = GoTo(pc)
        BY <3>4
      <4>2. PICK f : f = [Top EXCEPT !.pc = pc]
        OBVIOUS
      <4>3. Top \in Frame /\ Below \in Seq(Frame) /\ Len(Below) = Len(stack) - 1 /\ Len(stack) > 0
            /\ \A j \in 1..Len(stack) - 1 : Below[j] = stack[j]
        BY <1>1, <2>1, SeqFacts
      <4>4. f \in Frame /\ f.fn = Top.fn /\ f.item = Top.item
        BY <4>2, <4>3 DEF Frame
      <4>5. stack' = Append(Below, f)
        BY <4>1, <4>2 DEF GoTo
      <4>6. /\ DOMAIN stack' = 1..Len(Below) + 1 /\ stack'[Len(Below) + 1] = f
            /\ \A j \in 1..Len(Below) : stack'[j] = Below[j]
        BY <4>3, <4>4, <4>5, AppendSeq
      <4>7. /\ DOMAIN stack' = DOMAIN stack
            /\ \A j \in DOMAIN stack : stack'[j].fn = stack[j].fn /\ stack'[j].item = stack[j].item
        <5>1. Len(Below) + 1 = Len(stack) /\ stack[Len(stack)].fn = f.fn
              /\ stack[Len(stack)].item = f.item
          BY <1>3, <4>3, <4>4 DEF Top
        <5>2. \A j \in 1..Len(stack) : j = Len(stack) \/ j \in 1..Len(Below)
          <6>1. Len(stack) \in Nat /\ Len(Below) = Len(stack) - 1
            BY <1>3, <4>3
          <6>2. \A n \in Nat : \A j \in 1..n : j = n \/ j \in 1..(n - 1)
            OBVIOUS
          <6> QED BY <6>1, <6>2
        <5>3. 1..Len(Below) = 1..Len(stack) - 1
          BY <4>3
        <5>4. DOMAIN stack' = DOMAIN stack
          BY <1>3, <4>6, <5>1
        <5> QED BY <1>3, <4>3, <4>6, <5>1, <5>2, <5>3, <5>4
      <4> QED BY <1>4, <2>1, <3>4, <4>7 DEF SteadyAt, Live
    <3>5. CASE state' = state /\ stack' = Below
      <4>1. /\ Below \in Seq(Frame) /\ Len(Below) = Len(stack) - 1 /\ Len(stack) > 0
            /\ DOMAIN Below = 1..Len(stack) - 1
            /\ \A j \in 1..Len(stack) - 1 : Below[j] = stack[j]
        BY <1>1, <2>1, SeqFacts
      <4>2. /\ DOMAIN stack' \subseteq DOMAIN stack
            /\ \A j \in DOMAIN stack' : stack'[j] = stack[j]
        BY <1>3, <3>5, <4>1
      <4> QED BY <1>4, <2>1, <3>5, <4>2 DEF SteadyAt, Live
    <3> QED BY <3>1, <3>2, <3>3, <3>4, <3>5
  <2> QED BY <2>2, <2>3
<1> QED BY <1>6, <1>7

-------------------------------------------------------------------------------
\* Nothing is lost.

\* Accepted work of this generation is where work is, or it runs once and has run.
\* A callback that calls Stop makes fireDueTimer drop its interval: that the loop has
\* no intervals, or that tasks and callbacks do not call Stop, is needed.
Wanted(a) == a.kind # "RegisterResource" /\ a.gen = generation /\ a.id \notin cancelled
Found(a) == (\E x \in Stored : Same(a, x)) \/ (a.kind \notin Intervals /\ a.id \in RanIds)
NotLost == Open => \A a \in AcceptedItems : Wanted(a) => Found(a)
Requeued == \/ "Stop" \notin TaskOps /\ Steadies
            \/ NoIntervals

LEMMA KeptItems == \A e \in timers : e.id \notin cancelled => e \in Kept
  BY DEF Kept, DiscardCancelled

LEMMA CallPhase == ASSUME NEW f \in Calls PROVE f.phase \in {"start", "body", "finish"}
  BY FiringAt DEF Calls, Phase

\* Where work is, it stays, goes on to the next place, or starts.
LEMMA StaysFound ==
    ASSUME WorkInv, Effect, Requeued, Open, Open', NEW x \in Stored, Wanted(x),
           x.id \notin cancelled'
    PROVE  (\E y \in Stored' : Same(x, y)) \/ (x.kind \notin Intervals /\ x.id \in RanIds')
<1>1. Inv /\ KindsOK /\ StateOK /\ IdsOK /\ PhasesOK
  BY DEF WorkInv, CallsInv, WorkOK
<1>2. Same(x, x) /\ x.gen = generation /\ x.kind # "RegisterResource" /\ x.id \notin cancelled
  BY SameItself DEF Wanted
<1>3. x \in timers => x \in Kept
  BY <1>2, KeptItems
<1>4. CASE Quietly
  BY <1>2, <1>4 DEF Quietly, Stored
<1>5. CASE Discards
  BY <1>2, <1>3, <1>5 DEF Discards, Stored
<1>6. CASE Drops \/ Leaves
  BY <1>6 DEF Drops, Leaves
<1>7. ASSUME NEW y \in Item, \/ Begins(y) \/ Sends(y) \/ Refused(y) \/ Cancels(y) \/ Posts(y)
                             \/ AddsJS(y) \/ Registers(y)
      PROVE  x \in Stored'
  <2>1. CASE Begins(y)
    BY <2>1 DEF Begins, Stored
  <2>2. CASE Sends(y)
    BY <2>2 DEF Sends, Stored
  <2>3. CASE Refused(y)
    BY <2>3 DEF Refused, Stored
  <2>4. CASE Cancels(y)
    BY <2>4 DEF Cancels, Stored
  <2>5. CASE Posts(y)
    BY <2>5 DEF Posts, Stored
  <2>6. CASE AddsJS(y)
    BY <2>6 DEF AddsJS, Stored
  <2>7. CASE Registers(y)
    BY <1>2, <2>7 DEF Registers, Takes, Stored
  <2> QED BY <1>7, <2>1, <2>2, <2>3, <2>4, <2>5, <2>6, <2>7
<1>8. ASSUME NEW y \in Item, Queues(y) PROVE x \in Stored'
  <2>1. state # "Closed"
    BY <1>1 DEF StateOK, Open
  <2> QED BY <1>2, <1>8, <2>1 DEF Queues, Takes, Stored
<1>9. ASSUME NEW y \in Item, Arms(y) PROVE x \in Stored'
  BY <1>2, <1>9 DEF Arms, Takes, Stored
<1>10. ASSUME NEW y \in Item, RunsTask(y)
       PROVE  x \in Stored' \/ (x.kind \notin Intervals /\ x.id \in RanIds')
  <2>1. RanIds' = RanIds \cup {y.id}
    BY <1>1, <1>10, RanAppend DEF RunsTask
  <2>2. y.kind \notin Intervals
    BY <1>1, <1>10 DEF RunsTask, KindsOK, Intervals
  <2> QED BY <1>10, <2>1, <2>2 DEF RunsTask, Stored
<1>11. ASSUME NEW y \in Item, Pops(y) PROVE x \in Stored'
  <2>1. Fired(Calls) \subseteq Fired(Calls)' /\ (y.gen = generation => y \in Fired(Calls)')
    <3>1. CASE Calls' = Calls /\ y.gen # generation
      BY <3>1
    <3>2. CASE \E g : g.item = y /\ Calls' = Calls \cup {g}
      <4>1. PICK g : g.item = y /\ Calls' = Calls \cup {g}
        BY <3>2
      <4>2. Fired(Calls') = Fired(Calls) \cup {y}
        BY <4>1, FiredSets
      <4> QED BY <4>2
    <3> QED BY <1>11, <3>1, <3>2 DEF Pops
  <2> QED BY <1>2, <1>3, <1>11, <2>1 DEF Pops, Stored
<1>12. ASSUME NEW id \in Nat, ClearsJS(id) PROVE x \in Stored'
  BY <1>12 DEF ClearsJS, Stored
<1>13. ASSUME NEW f \in Calls, Starts(f) PROVE x \in Stored'
  <2>1. PICK g : g.item = f.item /\ Calls' = (Calls \ {f}) \cup {g}
    BY <1>13 DEF Starts, Begun
  <2>2. Fired(Calls) \subseteq Fired(Calls')
    BY <2>1 DEF Fired
  <2> QED BY <1>13, <2>2 DEF Starts, Stored
<1>14. ASSUME NEW f \in Calls, Returns(f)
       PROVE  (\E y \in Stored' : Same(x, y)) \/ (x.kind \notin Intervals /\ x.id \in RanIds')
  <2>1. CASE x \in SentItems \cup TaskItems \cup timers
    <3>1. timers \subseteq timers' /\ SentItems' = SentItems /\ TaskItems' = TaskItems
      BY <1>14 DEF Returns
    <3> QED BY <1>2, <2>1, <3>1 DEF Stored
  <2>2. CASE x \in Fired(Calls) /\ x # f.item
    <3>1. x \in Fired(Calls')
      BY <1>14, <2>2 DEF Returns, Fired
    <3> QED BY <1>2, <3>1 DEF Stored
  <2>3. CASE x = f.item
    <3>1. f.phase = "body" /\ x.id \in RanIds
      BY <1>1, <1>2, <1>14, <2>3, CallPhase DEF PhasesOK, Returns
    <3>2. ran' = ran
      BY <1>14 DEF Returns
    <3>3. CASE x.kind \notin Intervals
      BY <3>1, <3>2, <3>3, SameRan
    <3>4. CASE x.kind \in Intervals
      <4>1. ~NoIntervals
        <5>1. x \in Known
          BY DEF Known
        <5> QED BY <1>1, <3>4, <5>1 DEF IdsOK, IdOK, NoIntervals
      <4>2. f.at \in DOMAIN stack /\ Live(f.at)
        BY <1>2, <2>3, FiringAt DEF Calls, Live
      <4>3. state = "Running"
        BY <4>1, <4>2 DEF Requeued, Steadies, SteadyAt
      <4>4. PICK e \in Item : Same(e, x) /\ timers' = timers \cup {e}
        BY <1>2, <1>14, <2>3, <3>4, <4>3 DEF Returns
      <4> QED BY <4>4 DEF Same, Stored
    <3> QED BY <3>3, <3>4
  <2> QED BY <2>1, <2>2, <2>3 DEF Stored
<1> QED BY <1>2, <1>4, <1>5, <1>6, <1>7, <1>8, <1>9, <1>10, <1>11, <1>12, <1>13, <1>14 DEF Effect

\* What is accepted is then in the channel or in the heap.
LEMMA AcceptedIsStored ==
    ASSUME Effect, NEW a \in AcceptedItems', a \notin AcceptedItems
    PROVE  a \in Stored' \/ a.kind = "RegisterResource"
<1>1. ASSUME NEW x \in Item, AcceptedItems' = AcceptedItems \cup {x},
             Sends(x) \/ Posts(x) \/ AddsJS(x) \/ Registers(x)
      PROVE  a \in Stored' \/ a.kind = "RegisterResource"
  BY <1>1 DEF Sends, Posts, AddsJS, Registers, Stored
<1>2. \E x \in Item : AcceptedItems' = AcceptedItems \cup {x} /\ (Sends(x) \/ Posts(x) \/ AddsJS(x) \/ Registers(x))
  <2>1. ~Quietly /\ ~Discards /\ ~Drops /\ ~Leaves
    BY DEF Quietly, Discards, Drops, Leaves
  <2>2. \A x \in Item : ~Begins(x) /\ ~Refused(x) /\ ~Cancels(x) /\ ~Queues(x) /\ ~Arms(x)
                        /\ ~RunsTask(x) /\ ~Pops(x)
    BY DEF Begins, Refused, Cancels, Queues, Arms, RunsTask, Pops
  <2>3. (\A id \in Nat : ~ClearsJS(id)) /\ \A f \in Calls : ~Starts(f) /\ ~Returns(f)
    BY DEF ClearsJS, Starts, Returns
  <2>4. \A x \in Item : Sends(x) \/ Posts(x) \/ AddsJS(x) \/ Registers(x)
           => AcceptedItems' = AcceptedItems \/ AcceptedItems' = AcceptedItems \cup {x}
    BY DEF Sends, Posts, AddsJS, Registers
  <2> QED BY <2>1, <2>2, <2>3, <2>4 DEF Effect
<1> QED BY <1>1, <1>2

LEMMA NotLostStep ==
    ASSUME WorkInv, WorkInv', Requeued, NotLost, [Next]_vars
    PROVE  NotLost'
<1> SUFFICES ASSUME Open', NEW a \in AcceptedItems', Wanted(a)' PROVE Found(a)'
    BY DEF NotLost
<1>1. Inv /\ Inv' /\ CallsInv /\ KindsOK /\ StateOK /\ IdsOK
  BY DEF WorkInv, CallsInv, WorkOK
<1>2. Effect
  BY <1>1, StepEffect
<1>3. generation' = generation
  <2>1. CASE generation' = generation + 1
    <3>1. PICK n : Traces(n)
      BY <1>1, <1>2, EffectTraces
    <3>2. a \in Known'
      BY DEF Known
    <3>3. \E x \in Known \cup {n} : x.gen = a.gen /\ (x \in Known \/ x.gen = generation)
      BY <3>1, <3>2 DEF Traces, Same, IsNew
    <3>4. a.gen <= generation
      BY <1>1, <3>3, IdTypes DEF IdsOK, IdOK
    <3>5. generation \in Nat
      BY <1>1, IdTypes
    <3> QED BY <2>1, <3>4, <3>5 DEF Wanted
  <2> QED BY <2>1, GenerationStep
<1>4. Open
  BY <1>3, <1>1, IdTypes, OpenStep
<1>5. cancelled \subseteq cancelled' /\ RanIds \subseteq RanIds'
  BY <1>1, <1>2, MarksStay
<1>6. CASE a \in AcceptedItems
  <2>1. Wanted(a) /\ Found(a) /\ a.id \notin cancelled'
    BY <1>3, <1>4, <1>5, <1>6 DEF Wanted, NotLost
  <2>2. CASE a.kind \notin Intervals /\ a.id \in RanIds
    BY <1>5, <2>2 DEF Found
  <2>3. CASE \E x \in Stored : Same(a, x)
    <3>1. PICK x \in Stored : Same(a, x)
      BY <2>3
    <3>2. Wanted(x) /\ x.id \notin cancelled'
      BY <2>1, <3>1 DEF Same, Wanted
    <3>3. (\E y \in Stored' : Same(x, y)) \/ (x.kind \notin Intervals /\ x.id \in RanIds')
      BY <1>2, <1>4, <3>2, StaysFound
    <3> QED BY <3>1, <3>3 DEF Same, Found
  <2> QED BY <2>1, <2>2, <2>3 DEF Found
<1>7. CASE a \notin AcceptedItems
  <2>1. a \in Stored'
    BY <1>2, <1>7, AcceptedIsStored DEF Wanted
  <2> QED BY <2>1, SameItself DEF Found
<1> QED BY <1>6, <1>7

LEMMA SteadiesHold ==
    ASSUME "Stop" \notin TaskOps
    PROVE  Spec => []Steadies
<1>1. Init => Steadies
  BY DEF Init, Steadies, Live, NewFrame
<1>2. WorkInv /\ WorkInv' /\ Steadies /\ [Next]_vars => Steadies'
  BY SteadiesStep
<1> QED BY <1>1, <1>2, WorkInvHolds, PTL DEF Spec

LEMMA RequeuedHolds ==
    ASSUME "Stop" \notin TaskOps \/ NoIntervals
    PROVE  Spec => []Requeued
<1>1. CASE NoIntervals
  <2>1. Requeued
    BY <1>1 DEF Requeued
  <2> QED BY <2>1, PTL
<1>2. CASE "Stop" \notin TaskOps
  <2>1. Steadies => Requeued
    BY <1>2 DEF Requeued
  <2>2. Spec => []Steadies
    BY <1>2, SteadiesHold
  <2> QED BY <2>1, <2>2, PTL
<1> QED BY <1>1, <1>2

\* Accepted work is neither dropped nor forgotten, whatever channel, slice, heap or
\* callback it is in, across Stop, nested Runs and the lazy deletion of the heap: the
\* handlers of handleCommand, pumpOnce, fireDueTimer and timerHeap.discardCancelled.
\* It is false of a loop whose callbacks stop it and that has intervals.
THEOREM NothingIsLost ==
    ASSUME "Stop" \notin TaskOps \/ NoIntervals
    PROVE  Spec => []NothingLost
<1>1. Init => NotLost
  BY DEF Init, NotLost, AcceptedItems
<1>2. WorkInv /\ WorkInv' /\ Requeued /\ NotLost /\ [Next]_vars => NotLost'
  BY NotLostStep
<1>3. WorkInv /\ NotLost => NothingLost
  <2> SUFFICES ASSUME NotLost, Open, NEW a \in AcceptedItems, Wanted(a)
               PROVE  Held(a) \/ (a.kind \notin Intervals /\ HasRun(a.id))
    BY DEF NothingLost, Open, Wanted
  <2>1. CASE a.kind \notin Intervals /\ a.id \in RanIds
    BY <2>1 DEF RanIds, HasRun
  <2>2. CASE \E x \in Stored : Same(a, x)
    <3>1. PICK x \in Stored : a.id = x.id
      BY <2>2 DEF Same
    <3>2. x \in SentItems => \E i \in DOMAIN commands : commands[i].item.id = a.id
      BY <3>1 DEF SentItems
    <3>3. x \in TaskItems => \E i \in DOMAIN tasks : tasks[i].id = a.id
      BY <3>1 DEF TaskItems, ItemsOf
    <3>4. x \in Fired(Calls) => OnStack(a.id)
      BY <3>1, FiringAt DEF Fired, Calls, OnStack
    <3> QED BY <3>1, <3>2, <3>3, <3>4 DEF Stored, Held, InChannel
  <2> QED BY <2>1, <2>2 DEF NotLost, Found
<1>4. Spec => []Requeued
  BY RequeuedHolds
<1> QED BY <1>1, <1>2, <1>3, <1>4, WorkInvHolds, PTL DEF Spec

-------------------------------------------------------------------------------
\* While a context is disposed there are no timers.

Shut == {"resources", "init"}
Whole(s) == s \in Seq(Frame) /\ \A i \in DOMAIN s : s[i].pc \notin Shut
Cleared == ~Whole(stack) => timers = {} /\ jsTimers = {}

LEMMA WholeAppend ==
    ASSUME NEW s, Whole(s), NEW f \in Frame, f.pc \notin Shut
    PROVE  Whole(Append(s, f))
<1>1. s \in Seq(Frame)
  BY DEF Whole
<1>2. Append(s, f) \in Seq(Frame)
  BY <1>1
<1>3. \A i \in DOMAIN Append(s, f) :
        Append(s, f)[i] = f \/ (i \in DOMAIN s /\ Append(s, f)[i] = s[i])
  BY <1>1
<1> QED BY <1>2, <1>3 DEF Whole

LEMMA WholePrefix ==
    ASSUME NEW s, Whole(s), NEW n \in Int, n <= Len(s)
    PROVE  Whole(SubSeq(s, 1, n))
<1>1. s \in Seq(Frame)
  BY DEF Whole
<1>2. SubSeq(s, 1, n) \in Seq(Frame)
  BY <1>1
<1>3. \A i \in DOMAIN SubSeq(s, 1, n) : i \in DOMAIN s /\ SubSeq(s, 1, n)[i] = s[i]
  BY <1>1
<1> QED BY <1>2, <1>3 DEF Whole

LEMMA WholeTop ==
    ASSUME Inv, stack # <<>>, Top.fn # "resource"
    PROVE  /\ Whole(Below) /\ (Top.pc \notin Shut => Whole(stack)) /\ Top \in Frame
           /\ \A pc \in Points \ Shut : Whole(GoTo(pc))
           /\ \A f \in Frame : f.pc \notin Shut => Whole(Append(Below, f))
<1>1. Calm(Below) /\ Top \in Frame /\ Below \in Seq(Frame)
  BY CalmBelow DEF Inv, TypeOK
<1>2. Whole(Below)
  <2>1. DOMAIN Below = 1..Len(Below)
    BY <1>1
  <2> QED BY <1>1, <2>1 DEF Whole, Calm, Shut, Busy
<1>3. \A f \in Frame : f.pc \notin Shut => Whole(Append(Below, f))
  BY <1>2, WholeAppend
<1>4. Top.pc \notin Shut => Whole(stack)
  BY <1>1, <1>3, TopFiring
<1>5. ASSUME NEW pc \in Points \ Shut PROVE Whole(GoTo(pc))
  <2>1. PICK f : f = [Top EXCEPT !.pc = pc]
    OBVIOUS
  <2>2. f \in Frame /\ f.pc = pc
    BY <1>1, <2>1 DEF Frame
  <2> QED BY <1>3, <2>1, <2>2 DEF GoTo
<1> QED BY <1>1, <1>2, <1>3, <1>4, <1>5

LEMMA WholeNew ==
    ASSUME NEW s, Whole(s), NEW fn \in Loops \cup Bodies \cup Disposals,
           NEW pc \in Points \ Shut, NEW c \in Owners
    PROVE  Whole(Append(s, NewFrame(fn, pc, c)))
<1>1. NewFrame(fn, pc, c) \in Frame
  BY NewFrameType
<1>2. NewFrame(fn, pc, c).pc = pc
  BY DEF NewFrame
<1> QED BY <1>1, <1>2, WholeAppend

LEMMA WholeRun ==
    ASSUME NEW s, Whole(s), NEW c \in Owners, EnterRun(c, s)
    PROVE  Whole(stack')
<1> DEFINE f == NewFrame("run", "top", c)
           g == NewFrame("runTask", "body", c)
<1>1. {"top", "body"} \subseteq Points \ Shut /\ "run" \in Loops /\ "runTask" \in Bodies
  BY DEF Points, Loops, Bodies, Shut
<1>2. Whole(Append(s, f)) /\ f \in Frame
  BY <1>1, WholeNew, NewFrameType
<1>3. Whole(Append(Append(s, f), g)) /\ g \in Frame
  <2> HIDE DEF f
  <2> QED BY <1>1, <1>2, WholeNew, NewFrameType
<1>4. stack' = s \o <<f, g>> /\ s \in Seq(Frame)
  BY DEF EnterRun, Whole
<1> HIDE DEF f, g
<1>5. stack' = Append(Append(s, f), g)
  BY <1>2, <1>3, <1>4
<1> QED BY <1>3, <1>5

\* A disposal begins: the work goes, and every resource is to be closed.
Falls ==
    /\ DropWork
    /\ \E s, f : /\ Whole(s) /\ f \in Frame /\ stack' = Append(s, f)
                 /\ f.pc = "resources" /\ f.idx = Len(resources)

LEMMA DisposalFalls ==
    ASSUME Inv, NEW s, Whole(s), NEW fn \in Disposals, NEW c \in Owners, BeginDisposal(fn, c, s)
    PROVE  Falls
<1> DEFINE f == Disposal(fn, c)
<1>1. f.pc = "resources" /\ f.idx = Len(resources) /\ f \in Frame
  <2>1. NewFrame(fn, "resources", c) \in Frame
    BY NewFrameType DEF Points
  <2>2. Len(resources) \in Nat /\ state \in States
    BY DEF Inv, TypeOK, StackTypes, StateTypes
  <2> QED BY <2>1, <2>2 DEF Disposal, NewFrame, Frame
<1>2. stack' = Append(s, f) /\ DropWork
  BY DEF BeginDisposal
<1> HIDE DEF f
<1> QED BY <1>1, <1>2 DEF Falls

LEMMA FailureFalls ==
    ASSUME Inv, NEW s \in Seq(Frame), s # <<>>, Whole(SubSeq(s, 1, Len(s) - 1)), FailReload(s)
    PROVE  Falls
<1>1. Len(s) \in Nat /\ Len(s) > 0 /\ s[Len(s)] \in Frame /\ Len(resources) \in Nat
  BY DEF Inv, TypeOK, StackTypes
<1>2. PICK f : f = s[Len(s)]
  OBVIOUS
<1>3. PICK g : g = [f EXCEPT !.fn = "failedReload"]
  OBVIOUS
<1>4. PICK h : h = [g EXCEPT !.pc = "resources"]
  OBVIOUS
<1>5. PICK k : k = [h EXCEPT !.idx = Len(resources)]
  OBVIOUS
<1>6. stack' = Append(SubSeq(s, 1, Len(s) - 1), k) /\ DropWork
  BY <1>2, <1>3, <1>4, <1>5 DEF FailReload
<1>7. k \in Frame /\ k.pc = "resources" /\ k.idx = Len(resources)
  <2>1. f \in Frame
    BY <1>1, <1>2
  <2>2. g \in Frame
    BY <2>1, <1>3 DEF Frame, Disposals
  <2>3. h \in Frame /\ h.pc = "resources"
    BY <2>2, <1>4 DEF Frame, Points
  <2> QED BY <2>3, <1>1, <1>5 DEF Frame
<1> QED BY <1>6, <1>7 DEF Falls

LEMMA WholeReceive ==
    ASSUME Inv, NEW s, Whole(s), Receive(s)
    PROVE  Whole(stack') \/ Falls
<1> DEFINE cmd == Head(commands)
<1>1. cmd.client \in Owners
  <2>1. cmd \in Command
    BY StatePlaces DEF Receive
  <2> QED BY <2>1 DEF Command
<1>2. HandleCommand(cmd, s)
  BY DEF Receive
<1> HIDE DEF cmd
<1>3. CASE stack' = s
  BY <1>3
<1>4. CASE stack' = Append(s, NewFrame("do", "body", cmd.client))
  BY <1>1, <1>4, WholeNew DEF Bodies, Points, Shut
<1>5. CASE EnterRun(cmd.client, s)
  BY <1>1, <1>5, WholeRun
<1>6. CASE \E fn \in Disposals : BeginDisposal(fn, cmd.client, s)
  BY <1>1, <1>6, DisposalFalls
<1>7. "reload" \in Disposals /\ "close" \in Disposals
  BY DEF Disposals
<1> QED BY <1>2, <1>3, <1>4, <1>5, <1>6, <1>7
        DEF HandleCommand, HandleSchedule, HandleAddTimer, HandleStartStop, HandleDo,
            HandleRun, HandleRegisterResource, HandleReload, HandleClose

LEMMA WholePumping == ASSUME Inv, Pumping PROVE Whole(stack) /\ (Whole(stack') \/ Falls)
<1>1. stack # <<>> /\ Running(Loops) /\ Top.fn # "resource" /\ Top.pc \notin Shut
  BY DEF Pumping, OwnerReceives, OwnerReturns, RunReturns, PumpOnce, DrainCommands, Drained,
         NotRunning, RunTask, FireDueTimer, RunJobs, JobsReturn, RunIsIdle, RunHasWork, WaitForWork,
         CanWork, At, Running, Loops, Shut
<1>2. /\ Whole(stack) /\ Whole(Below) /\ Top \in Frame
      /\ \A pc \in {"top", "drain", "work", "jobs", "check", "wait"} : Whole(GoTo(pc))
      /\ \A f \in Frame : f.pc \notin Shut => Whole(Append(Below, f))
  BY <1>1, WholeTop DEF Points, Shut
<1>12. Whole(Progress)
  <2>1. PICK f \in Frame : Progress = Append(Below, f) /\ f.pc = "ran"
    BY <1>2, ProgressFrame
  <2> QED BY <1>2, <2>1 DEF Shut
<1>3. CASE OwnerReceives
  BY <1>2, <1>3, WholeReceive DEF OwnerReceives
<1>4. CASE OwnerReturns
  BY <1>2, <1>4 DEF OwnerReturns, Whole
<1>5. CASE RunReturns \/ RunIsIdle
  BY <1>2, <1>5 DEF RunReturns, RunIsIdle
<1>6. CASE PumpOnce
  <2>1. PICK g : g = [Top EXCEPT !.pc = "drain"]
    OBVIOUS
  <2>2. PICK f : f = [g EXCEPT !.progressed = FALSE]
    OBVIOUS
  <2>3. g \in Frame /\ g.pc = "drain"
    BY <1>2, <2>1 DEF Frame, Points
  <2>4. f \in Frame /\ f.pc \notin Shut
    BY <2>2, <2>3 DEF Frame, Shut
  <2>5. stack' = Append(Below, f)
    BY <1>6, <2>1, <2>2 DEF PumpOnce
  <2> QED BY <1>2, <2>4, <2>5
<1>7. CASE DrainCommands
  <2>1. PICK f : f = [Top EXCEPT !.progressed = TRUE]
    OBVIOUS
  <2>2. f \in Frame /\ f.pc \notin Shut
    BY <1>1, <1>2, <2>1 DEF Frame
  <2>3. Receive(Append(Below, f))
    BY <1>7, <2>1 DEF DrainCommands
  <2> QED BY <1>2, <2>2, <2>3, WholeReceive
<1>8. CASE Drained \/ NotRunning \/ RunJobs \/ (\E more \in BOOLEAN : JobsReturn(more)) \/ RunHasWork
  <2>1. \E pc \in {"work", "jobs", "top", "check", "wait"} : stack' = GoTo(pc)
    <3>1. ASSUME NEW more \in BOOLEAN, PumpReturns(more)
          PROVE  \E pc \in {"top", "check", "wait"} : stack' = GoTo(pc)
      BY <3>1 DEF PumpReturns
    <3>2. \A more \in BOOLEAN : JobsReturn(more) => PumpReturns(more)
      BY DEF JobsReturn
    <3>3. NotRunning => PumpReturns(FALSE)
      BY DEF NotRunning
    <3>4. CASE Drained \/ RunJobs \/ RunHasWork
      BY <3>4 DEF Drained, RunJobs, RunHasWork, MoveOn
    <3> QED BY <1>8, <3>1, <3>2, <3>3, <3>4
  <2> QED BY <1>2, <2>1
<1>9. CASE RunTask
  <2>1. "task" \in Bodies /\ "body" \in Points \ Shut /\ None \in Owners
    BY DEF Points, Bodies, Owners, Shut
  <2>2. Whole(Append(Progress, NewFrame("task", "body", None)))
    BY <1>12, <2>1, WholeNew
  <2> QED BY <1>2, <1>9, <2>2 DEF RunTask
<1>10. CASE FireDueTimer
  <2>1. PICK e \in Due :
          \/ stack' = Progress
          \/ stack' = Append(Progress, [NewFrame("timer", "start", None) EXCEPT !.item = e])
    BY <1>10 DEF FireDueTimer
  <2>2. e \in Item
    BY KeptType DEF Due, Peek, Inv, TypeOK, WorkTypes
  <2>3. PICK g : g = NewFrame("timer", "start", None)
    OBVIOUS
  <2>4. g \in Frame /\ g.pc = "start"
    <3>1. g \in Frame
      BY <2>3, NewFrameType DEF Bodies, Points, Owners
    <3> QED BY <2>3, <3>1 DEF NewFrame
  <2>5. PICK f : f = [g EXCEPT !.item = e]
    OBVIOUS
  <2>6. f \in Frame /\ f.pc \notin Shut
    BY <2>2, <2>4, <2>5 DEF Frame, Shut
  <2>7. Whole(Append(Progress, f))
    BY <1>12, <2>6, WholeAppend
  <2> QED BY <1>2, <1>12, <2>1, <2>3, <2>5, <2>7
<1>11. CASE WaitForWork
  BY <1>2, <1>11, WholeReceive DEF WaitForWork, MoveOn
<1> QED BY <1>2, <1>3, <1>4, <1>5, <1>6, <1>7, <1>8, <1>9, <1>10, <1>11 DEF Pumping

\* Only a disposal and the Close methods it calls see a context that is disposed.
LEMMA TornTop ==
    ASSUME Inv, stack # <<>>, ~Whole(stack)
    PROVE  Top.pc \in Shut \/ (Top.fn = "resource" /\ Top.pc = "body")
<1>1. CASE Top.fn = "resource"
  <2>1. Len(stack) \in DOMAIN stack
    BY SeqFacts
  <2> QED BY <1>1, <2>1 DEF Inv, StackOK, FrameOK, Top
<1> QED BY <1>1, WholeTop

LEMMA WholeUserActs ==
    ASSUME Inv, Cleared, UserActs
    PROVE  \/ Whole(stack) /\ (Whole(stack') \/ Falls)
           \/ ~Whole(stack) /\ UNCHANGED <<stack, timers, jsTimers>>
<1>1. stack # <<>>
  BY ActingStack
<1>2. CASE Whole(stack)
  <2>1. Whole(GoTo("once")) /\ Whole(GoTo("stuck"))
    <3>1. Whole(Below) /\ Top \in Frame
      BY <1>1, <1>2, WholePrefix, SeqFacts DEF Below
    <3>2. ASSUME NEW pc \in Points \ Shut PROVE Whole(GoTo(pc))
      <4>1. PICK f : f = [Top EXCEPT !.pc = pc]
        OBVIOUS
      <4>2. f \in Frame /\ f.pc = pc
        BY <3>1, <4>1 DEF Frame
      <4> QED BY <3>1, <4>1, <4>2, WholeAppend DEF GoTo
    <3> QED BY <3>2 DEF Points, Shut
  <2>2. CASE stack' = stack \/ stack' = GoTo("once") \/ stack' = GoTo("stuck")
    BY <1>2, <2>1, <2>2
  <2>3. CASE \E fn \in {"nestedDo", "nestedContext"} : stack' = Append(stack, NewFrame(fn, "body", None))
    BY <1>2, <2>3, WholeNew DEF Bodies, Points, Shut, Owners
  <2>4. CASE EnterRun(None, stack)
    BY <1>2, <2>4, WholeRun DEF Owners
  <2>5. CASE BeginDisposal("reload", None, stack)
    BY <1>2, <2>5, DisposalFalls DEF Disposals, Owners
  <2>6. ASSUME NEW op \in Ops, UserStartStop(op) \/ UserDo(op) \/ UserRun(op) \/ UserCallsItself(op)
        PROVE  \/ Whole(stack) /\ (Whole(stack') \/ Falls)
               \/ ~Whole(stack) /\ UNCHANGED <<stack, timers, jsTimers>>
    BY <2>2, <2>3, <2>4, <2>6 DEF UserStartStop, UserDo, UserRun, UserCallsItself, MoveOn
  <2>7. CASE \E op \in Ops, delay \in 0..1 : UserEnqueue(op, delay) \/ JSAddTimer(op, delay)
    BY <2>2, <2>7 DEF UserEnqueue, JSAddTimer
  <2>8. CASE ClearJSTimer \/ UserCancel \/ UserRegisterResource \/ UserReload \/ UserClose
    BY <2>2, <2>5, <2>8 DEF ClearJSTimer, UserCancel, UserRegisterResource, UserReload, UserClose,
                            MoveOn
  <2> QED BY <1>2, <2>6, <2>7, <2>8 DEF UserActs
<1>3. CASE ~Whole(stack)
  <2>1. jsTimers = {}
    BY <1>3 DEF Cleared
  <2>2. Top.pc \in Shut \/ Top.fn = "resource"
    BY <1>1, <1>3, TornTop
  <2>3. \A op \in JSTimers \cup ReentrantOps : ~MayAct(op)
    <3>1. \A op \in JSTimers \cup ReentrantOps : op \notin ResourceOps
      BY ConstantsAssumption
    <3> QED BY <2>2, <3>1 DEF MayAct, At, UserOps, Shut, Loops
  <2>4. ASSUME NEW op \in Ops, UserStartStop(op) \/ UserDo(op) \/ UserRun(op) \/ UserCallsItself(op)
        PROVE  UNCHANGED <<stack, timers, jsTimers>>
    BY <2>3, <2>4 DEF UserStartStop, UserDo, UserRun, UserCallsItself, ReentrantOps, ContextCalls
  <2>5. ASSUME NEW op \in Ops, NEW delay \in 0..1, UserEnqueue(op, delay) \/ JSAddTimer(op, delay)
        PROVE  UNCHANGED <<stack, timers, jsTimers>>
    BY <2>3, <2>5 DEF UserEnqueue, JSAddTimer
  <2>6. ~ClearJSTimer /\ ~UserReload /\ ~UserClose
    BY <2>1, <2>3 DEF ClearJSTimer, UserReload, UserClose, ReentrantOps
  <2>7. CASE UserCancel \/ UserRegisterResource
    BY <1>3, <2>7 DEF UserCancel, UserRegisterResource
  <2> QED BY <1>3, <2>4, <2>5, <2>6, <2>7 DEF UserActs
<1> QED BY <1>2, <1>3

LEMMA WholeUserReturns ==
    ASSUME CallsInv, UserReturns
    PROVE  \/ Whole(stack) /\ (Whole(stack') \/ Falls)
           \/ /\ ~Whole(stack) /\ Top.fn = "resource" /\ Top.pc = "body" /\ stack' = Below
              /\ UNCHANGED <<timers, jsTimers>>
<1>1. stack # <<>> /\ Inv /\ Top.pc \notin Shut
  BY DEF UserReturns, UserCloseOnce, StartTimer, TimerReturns, BodyReturns, RunTaskReturns,
         InstallerReturns, At, Running, CallsInv, Shut
<1>2. CASE BodyReturns
  <2>1. stack' = Below /\ UNCHANGED <<timers, jsTimers>>
    BY <1>2 DEF BodyReturns
  <2>2. Whole(stack) => Whole(Below)
    BY <1>1, SeqFacts, WholePrefix DEF Below
  <2>3. ~Whole(stack) => Top.fn = "resource" /\ Top.pc = "body"
    BY <1>1, TornTop
  <2> QED BY <2>1, <2>2, <2>3
<1>3. CASE UserCloseOnce
  <2>1. BeginDisposal("close", None, GoTo("body")) \/ \E pc \in {"body", "stuck"} : stack' = GoTo(pc)
    <3>1. CASE closeOnce = "free" /\ IsOwner
      BY <1>3, <3>1 DEF UserCloseOnce
    <3>2. CASE ~(closeOnce = "free" /\ IsOwner)
      BY <1>3, <3>2 DEF UserCloseOnce, MoveOn
    <3> QED BY <3>1, <3>2
  <2>2. Top.fn # "resource"
    <3>1. Len(stack) \in DOMAIN stack
      BY <1>1, SeqFacts
    <3> QED BY <1>1, <1>3, <3>1 DEF Inv, StackOK, FrameOK, Top, UserCloseOnce, At
  <2>3. Whole(stack) /\ \A pc \in {"body", "stuck"} : Whole(GoTo(pc))
    BY <1>1, <2>2, WholeTop DEF Points, Shut
  <2> QED BY <1>1, <2>1, <2>3, DisposalFalls DEF Disposals, Owners
<1>4. CASE StartTimer \/ TimerReturns
  <2>1. Top.fn = "timer"
    BY <1>4 DEF StartTimer, TimerReturns, At, Running
  <2>2. Whole(stack) /\ Whole(Below) /\ \A pc \in {"body", "finish"} : Whole(GoTo(pc))
    BY <1>1, <2>1, WholeTop DEF Points, Shut
  <2> QED BY <1>4, <2>2 DEF StartTimer, TimerReturns, MoveOn
<1>5. CASE \E err \in TaskErrors : RunTaskReturns(err)
  <2>1. Top.fn = "runTask"
    BY <1>5 DEF RunTaskReturns, At, Running
  <2>2. Whole(stack) /\ Whole(Below)
    BY <1>1, <2>1, WholeTop
  <2>3. Whole(SubSeq(stack, 1, Len(stack) - 2))
    BY <1>1, <2>2, SeqFacts, WholePrefix
  <2> QED BY <1>5, <2>2, <2>3 DEF RunTaskReturns
<1>6. CASE \E err \in BOOLEAN : InstallerReturns(err)
  <2>1. Top.fn = "installer"
    BY <1>6 DEF InstallerReturns, At, Running
  <2>2. Whole(stack) /\ Whole(Below) /\ Below \in Seq(Frame)
    BY <1>1, <2>1, WholeTop, SeqFacts
  <2>3. ASSUME FailReload(Below) PROVE Falls
    <3>1. Below # <<>>
      <4>1. Len(stack) \in DOMAIN stack
        BY <1>1, SeqFacts
      <4>2. Len(stack) > 1
        BY <1>1, <2>1, <4>1 DEF Inv, StackOK, FrameOK, Top
      <4>3. Len(Below) = Len(stack) - 1 /\ Len(stack) \in Nat
        BY <1>1, SeqFacts
      <4> QED BY <4>2, <4>3
    <3>2. Len(Below) - 1 \in Int /\ Len(Below) - 1 <= Len(Below)
      BY <2>2
    <3>3. Whole(SubSeq(Below, 1, Len(Below) - 1))
      BY <2>2, <3>2, WholePrefix
    <3> QED BY <1>1, <2>2, <2>3, <3>1, <3>3, FailureFalls
  <2> QED BY <1>6, <2>2, <2>3 DEF InstallerReturns
<1> QED BY <1>2, <1>3, <1>4, <1>5, <1>6 DEF UserReturns

LEMMA WholeDisposing ==
    ASSUME Inv, ReloadReturns \/ CloseFinishes
    PROVE  Whole(stack) /\ Whole(stack')
<1>1. stack # <<>> /\ Top.fn # "resource" /\ Top.pc \notin Shut
  BY DEF ReloadReturns, CloseFinishes, At, Running, Shut
<1> QED BY <1>1, WholeTop DEF ReloadReturns, CloseFinishes

LEMMA ClearedStep ==
    ASSUME CallsInv, Cleared, [Next]_vars
    PROVE  Cleared'
<1>1. Inv
  BY DEF CallsInv
<1>2. CASE CloseResource \/ DisposeContext \/ InitializeGeneration
  <2>1. ~Whole(stack)
    <3>1. stack # <<>> /\ Top.pc \in Shut
      BY <1>2 DEF CloseResource, DisposeContext, InitializeGeneration, At, Running, Shut
    <3>2. Len(stack) \in DOMAIN stack
      BY <1>1, <3>1, SeqFacts
    <3> QED BY <3>1, <3>2 DEF Whole, Top
  <2>2. DropWork \/ UNCHANGED <<timers, jsTimers>>
    BY <1>2 DEF CloseResource, DisposeContext, InitializeGeneration, FailReload
  <2> QED BY <2>1, <2>2 DEF Cleared, DropWork
<1>3. CASE ~(CloseResource \/ DisposeContext \/ InitializeGeneration)
  <2>1. \/ Whole(stack') \/ Falls
        \/ ~Whole(stack) /\ UNCHANGED <<timers, jsTimers>>
        \/ UNCHANGED <<stack, timers, jsTimers>>
    BY <1>1, <1>3, WholePumping, WholeUserActs, WholeUserReturns, WholeDisposing, ClientsApart
    DEF Next, Owner, Disposing
  <2> QED BY <2>1 DEF Cleared, Falls, DropWork
<1> QED BY <1>2, <1>3

LEMMA TornStack ==
    ASSUME Inv
    PROVE  /\ Disposes => ~Whole(stack)
           /\ \A i \in DOMAIN stack : stack[i].pc \in Shut => ~Whole(stack)
  BY DEF Disposes, Whole, Shut

-------------------------------------------------------------------------------
\* The timers that clearTimeout can find: they are those of the live generation, not
\* cancelled, and each is in the heap or has a callback on the stack.

JSFresh ==
    \A x \in timers \cup Fired(Calls) :
      IsJS(x) /\ x.id \notin cancelled => x.gen = generation
JSApart == jsTimers \cap cancelled = {}
JSHeld == \A id \in jsTimers : \E x \in timers \cup Fired(Calls) : x.id = id
JSShut ==
    /\ ctx = 0 => jsTimers = {}
    /\ closed => ctx = 0 \/ Disposes

LEMMA JSOpen ==
    ASSUME Inv, Cleared, JSShut, jsTimers # {}
    PROVE  Open /\ Whole(stack)
<1>1. Whole(stack)
  BY DEF Cleared
<1>2. ~Disposes /\ ctx # 0
  BY <1>1, TornStack DEF JSShut
<1>3. ctx = generation /\ ~closed
  BY <1>2 DEF Inv, FreshOK, JSShut
<1> QED BY <1>1, <1>2, <1>3 DEF Open

\* What can be found is a JavaScript timer.
LEMMA JSIds ==
    ASSUME Inv, IdsOK
    PROVE  /\ \A x \in Known : x.id \in jsTimers => IsJS(x)
           /\ \A id \in jsTimers \cup cancelled : id \in Nat /\ id <= nextID
           /\ \A n : IsNew(n) => n.id \notin jsTimers \cup cancelled
<1>1. \A x \in Known : x.id \in jsTimers => IsJS(x)
  BY DEF IdsOK, IdOK, IsJS
<1>2. \A id \in jsTimers \cup cancelled : id \in Nat /\ id <= nextID
  BY IdTypes DEF IdsOK
<1>3. \A n : IsNew(n) => n.id \notin jsTimers \cup cancelled
  BY <1>2, IdTypes DEF IsNew
<1> QED BY <1>1, <1>2, <1>3

\* A generation is made while there are no timers.
LEMMA NewGeneration ==
    ASSUME Inv, Cleared, InitializeGeneration
    PROVE  jsTimers' = {} /\ timers' = {} /\ jsTimers = {} /\ timers = {}
<1>1. stack # <<>> /\ Top.pc \in Shut /\ Len(stack) \in DOMAIN stack
  BY SeqFacts DEF InitializeGeneration, At, Running, Shut
<1>2. timers = {} /\ jsTimers = {}
  BY <1>1, TornStack DEF Cleared, Top
<1> QED BY <1>2 DEF InitializeGeneration, FailReload, DropWork

\* A timer of the heap or of the stack was there, or is of this generation, or is
\* not a JavaScript timer.
LEMMA JSMoves ==
    ASSUME Inv, Effect
    PROVE  \A y \in timers' \cup Fired(Calls') :
             \/ \E x \in timers \cup Fired(Calls) : Same(x, y)
             \/ ~IsJS(y) \/ y.gen = generation
<1>1. CASE timers' \subseteq timers /\ Fired(Calls') \subseteq Fired(Calls)
  BY <1>1, SameItself
<1>2. CASE Quietly \/ Discards \/ Drops \/ Leaves
  BY <1>1, <1>2, KeptType, FiredSets DEF Quietly, Discards, Drops, DropWork, Leaves
<1>3. ASSUME NEW x \in Item, \/ Begins(x) \/ Sends(x) \/ Refused(x) \/ Cancels(x) \/ Queues(x)
                             \/ Registers(x) \/ Posts(x) \/ RunsTask(x)
      PROVE  timers' = timers /\ Calls' = Calls
  BY <1>3 DEF Begins, Sends, Refused, Cancels, Queues, Registers, Posts, RunsTask
<1>4. ASSUME NEW n \in Item, Arms(n) \/ AddsJS(n), NEW y \in timers' \cup Fired(Calls')
      PROVE  (\E x \in timers \cup Fired(Calls) : Same(x, y)) \/ ~IsJS(y) \/ y.gen = generation
  <2>1. timers' \subseteq timers \cup {n} /\ Calls' = Calls /\ (~IsJS(n) \/ n.gen = generation)
    BY <1>4 DEF Arms, AddsJS, IsJS, IsNew
  <2> QED BY <2>1, SameItself
<1>5. ASSUME NEW n \in Item, Pops(n), NEW y \in timers' \cup Fired(Calls')
      PROVE  \E x \in timers \cup Fired(Calls) : Same(x, y)
  <2>1. n \in timers /\ timers' \subseteq timers
    BY <1>5, KeptType DEF Pops, Due, Peek
  <2>2. Fired(Calls') \subseteq Fired(Calls) \cup {n}
    BY <1>5, FiredSets DEF Pops
  <2> QED BY <2>1, <2>2, SameItself
<1>6. ASSUME NEW id \in Nat, ClearsJS(id) PROVE timers' = timers /\ Calls' = Calls
  BY <1>6 DEF ClearsJS
<1>7. ASSUME NEW f \in Calls, Starts(f)
      PROVE  timers' = timers /\ Fired(Calls') \subseteq Fired(Calls)
  <2>1. PICK g : g.item = f.item /\ Calls' = (Calls \ {f}) \cup {g}
    BY <1>7 DEF Starts, Begun
  <2>2. Fired(Calls') = Fired(Calls \ {f}) \cup {f.item} /\ f.item \in Fired(Calls)
    BY <2>1, FiredSets
  <2> QED BY <1>7, <2>2, FiredSets DEF Starts
<1>8. ASSUME NEW f \in Calls, Returns(f), NEW y \in timers' \cup Fired(Calls')
      PROVE  \E x \in timers \cup Fired(Calls) : Same(x, y)
  <2>1. Calls' = Calls \ {f} /\ f.item \in Fired(Calls) /\ Fired(Calls') \subseteq Fired(Calls)
    BY <1>8, FiredSets DEF Returns
  <2>2. \A e \in timers' : e \in timers \/ Same(f.item, e)
    BY <1>8 DEF Returns, Same
  <2> QED BY <2>1, <2>2, SameItself
<1> QED BY <1>1, <1>2, <1>3, <1>4, <1>5, <1>6, <1>7, <1>8 DEF Effect

LEMMA JSFreshStep ==
    ASSUME WorkInv, WorkInv', Cleared, JSFresh, [Next]_vars
    PROVE  JSFresh'
<1>1. Inv /\ Inv' /\ KindsOK /\ StateOK /\ IdsOK /\ CallsInv /\ JSKept'
  BY DEF WorkInv, CallsInv, WorkOK
<1>2. Effect
  BY <1>1, StepEffect
<1>3. cancelled \subseteq cancelled'
  BY <1>1, <1>2, MarksStay
<1>4. CASE generation' = generation
  <2>1. \A y \in timers' \cup Fired(Calls') :
          \/ \E x \in timers \cup Fired(Calls) : Same(x, y)
          \/ ~IsJS(y) \/ y.gen = generation
    BY <1>1, <1>2, JSMoves
  <2> QED BY <1>3, <1>4, <2>1 DEF JSFresh, Same, IsJS
<1>5. CASE InitializeGeneration
  <2>1. jsTimers' = {}
    BY <1>1, <1>5, NewGeneration
  <2>2. \A x \in timers' \cup Fired(Calls)' : ~(IsJS(x) /\ x.id \notin cancelled')
    BY <1>1, <2>1 DEF JSKept
  <2> QED BY <2>2 DEF JSFresh
<1> QED BY <1>4, <1>5, GenerationStep

\* The root of the heap is not cancelled once the cancelled ones before it are gone.
LEMMA DueIsLive ==
    ASSUME Inv, NEW x \in Due
    PROVE  x \in timers /\ x.id \notin cancelled
<1>1. x \in Kept /\ \A d \in Kept \ {x} : Less(x, d)
  BY DEF Due, Peek
<1>2. PICK d \in timers : d.id \notin cancelled /\ (d = x \/ Less(d, x))
  BY <1>1 DEF Kept, DiscardCancelled
<1>3. d \in Kept /\ x \in timers
  BY <1>1, <1>2 DEF Kept, DiscardCancelled
<1>4. /\ x.deadline \in Nat /\ x.seq \in Nat /\ d.deadline \in Nat /\ d.seq \in Nat
  BY <1>3 DEF Inv, TypeOK, WorkTypes, Item
<1>5. d = x
  BY <1>1, <1>2, <1>3, <1>4 DEF Less
<1> QED BY <1>2, <1>3, <1>5

\* No timer that can be found is cancelled, unless it is cleared.
LEMMA JSApartStep ==
    ASSUME WorkInv, JSFresh, JSApart, Effect
    PROVE  JSApart'
<1>1. Inv /\ IdsOK
  BY DEF WorkInv, CallsInv, WorkOK
<1>2. CASE jsTimers' \subseteq jsTimers /\ cancelled' = cancelled
  BY <1>2 DEF JSApart
<1>3. CASE Quietly \/ Discards \/ Leaves
  BY <1>2, <1>3 DEF Quietly, Discards, Leaves
<1>4. CASE Drops
  BY <1>4 DEF Drops, DropWork, JSApart
<1>5. ASSUME NEW x \in Item, \/ Begins(x) \/ Sends(x) \/ Queues(x) \/ Registers(x) \/ RunsTask(x)
      PROVE  JSApart'
  BY <1>2, <1>5 DEF Begins, Sends, Queues, Registers, RunsTask
<1>6. ASSUME NEW x \in Known, ~IsJS(x), jsTimers' = jsTimers, cancelled' \subseteq cancelled \cup {x.id}
      PROVE  JSApart'
  BY <1>1, <1>6, JSIds DEF JSApart
<1>7. ASSUME NEW x \in Item, Refused(x) \/ Cancels(x) \/ Arms(x) PROVE JSApart'
  <2>1. x \in Known
    BY <1>7 DEF Refused, HandsOver, Cancels, Arms, Takes, Known, Stored
  <2>2. CASE cancelled' = cancelled
    BY <1>2, <1>7, <2>2 DEF Refused, Cancels, Arms
  <2>3. CASE ~IsJS(x) /\ cancelled' = cancelled \cup {x.id}
    BY <1>6, <1>7, <2>1, <2>3 DEF Refused, Cancels, Arms
  <2> QED BY <1>7, <2>2, <2>3 DEF Refused, Cancels, Arms, IsJS
<1>8. ASSUME NEW x \in Item, Posts(x) PROVE JSApart'
  BY <1>1, <1>8, JSIds DEF Posts, JSApart
<1>9. ASSUME NEW x \in Item, AddsJS(x) PROVE JSApart'
  BY <1>1, <1>9, JSIds DEF AddsJS, JSApart
<1>10. ASSUME NEW x \in Item, Pops(x) PROVE JSApart'
  <2>1. x \in timers /\ x.id \notin cancelled /\ x \in Known
    BY <1>1, <1>10, DueIsLive DEF Pops, Known, Stored
  <2>2. CASE x.gen # generation /\ cancelled' = cancelled \cup {x.id}
    <3>1. ~IsJS(x)
      BY <2>1, <2>2 DEF JSFresh
    <3> QED BY <1>6, <1>10, <2>1, <2>2, <3>1 DEF Pops
  <2>3. CASE cancelled' = cancelled
    BY <1>2, <1>10, <2>3 DEF Pops
  <2> QED BY <1>10, <2>2, <2>3 DEF Pops
<1>11. ASSUME NEW id \in Nat, ClearsJS(id) PROVE JSApart'
  BY <1>11 DEF ClearsJS, JSApart
<1>12. ASSUME NEW f \in Calls, Starts(f) \/ Returns(f) PROVE JSApart'
  BY <1>2, <1>12 DEF Starts, Returns
<1> QED BY <1>3, <1>4, <1>5, <1>7, <1>8, <1>9, <1>10, <1>11, <1>12 DEF Effect

\* A timer that can be found moves on to where it can fire.
LEMMA JSHeldStep ==
    ASSUME WorkInv, Requeued, Cleared, JSShut, JSFresh, JSApart, JSHeld, Effect
    PROVE  JSHeld'
<1>1. Inv /\ KindsOK /\ IdsOK /\ JSOnce
  BY DEF WorkInv, CallsInv, WorkOK
<1>2. ASSUME jsTimers' \subseteq jsTimers, Fired(Calls) \subseteq Fired(Calls'),
             \A e \in timers : e.id \in jsTimers => e \in timers' \cup Fired(Calls')
      PROVE  JSHeld'
  BY <1>2 DEF JSHeld
<1>3. CASE Quietly
  BY <1>2, <1>3 DEF Quietly
<1>4. CASE Discards
  <2>1. \A e \in timers : e.id \in jsTimers => e \in Kept
    BY KeptItems DEF JSApart
  <2> QED BY <1>2, <1>4, <2>1 DEF Discards
<1>5. CASE Drops
  BY <1>5 DEF Drops, DropWork, JSHeld
<1>6. CASE Leaves
  <2>1. jsTimers = {}
    BY <1>1, <1>6, JSOpen DEF Leaves, Open
  <2> QED BY <1>6, <2>1 DEF Leaves, JSHeld
<1>7. ASSUME NEW x \in Item, \/ Begins(x) \/ Sends(x) \/ Refused(x) \/ Cancels(x) \/ Queues(x)
                             \/ Arms(x) \/ Registers(x) \/ Posts(x) \/ RunsTask(x)
      PROVE  JSHeld'
  BY <1>2, <1>7 DEF Begins, Sends, Refused, Cancels, Queues, Arms, Registers, Posts, RunsTask
<1>8. ASSUME NEW x \in Item, AddsJS(x) PROVE JSHeld'
  BY <1>8 DEF AddsJS, JSHeld
<1>9. ASSUME NEW x \in Item, Pops(x) PROVE JSHeld'
  <2>1. x \in timers /\ x.id \notin cancelled /\ x \in Known
    BY <1>1, <1>9, DueIsLive DEF Pops, Known, Stored
  <2>2. \A e \in timers : e.id \in jsTimers => e \in Kept
    BY KeptItems DEF JSApart
  <2>3. CASE x.gen # generation /\ Calls' = Calls
    <3>1. ~IsJS(x)
      BY <2>1, <2>3 DEF JSFresh
    <3>2. x.id \notin jsTimers
      BY <1>1, <2>1, <3>1, JSIds
    <3> QED BY <1>2, <1>9, <2>2, <2>3, <3>2 DEF Pops
  <2>4. ASSUME NEW g, g.item = x, Calls' = Calls \cup {g} PROVE JSHeld'
    <3>1. Fired(Calls') = Fired(Calls) \cup {x}
      BY <2>4, FiredSets
    <3> QED BY <1>2, <1>9, <2>2, <3>1 DEF Pops
  <2> QED BY <1>9, <2>3, <2>4 DEF Pops
<1>10. ASSUME NEW id \in Nat, ClearsJS(id) PROVE JSHeld'
  BY <1>2, <1>10 DEF ClearsJS
<1>11. ASSUME NEW f \in Calls, Starts(f) PROVE JSHeld'
  <2>1. PICK g : g.item = f.item /\ Calls' = (Calls \ {f}) \cup {g}
    BY <1>11 DEF Starts, Begun
  <2>2. Fired(Calls) \subseteq Fired(Calls')
    BY <2>1 DEF Fired
  <2>3. jsTimers' \subseteq jsTimers /\ timers' = timers
    BY <1>11 DEF Starts
  <2> QED BY <1>2, <2>2, <2>3
<1>12. ASSUME NEW f \in Calls, Returns(f) PROVE JSHeld'
  <2>1. Calls' = Calls \ {f} /\ f.item \in Fired(Calls) /\ f.item \in Known /\ f.phase # "start"
    BY <1>12, FiredSets DEF Returns, Known, Stored
  <2>2. timers \subseteq timers' /\ jsTimers' \subseteq jsTimers
    BY <1>12 DEF Returns
  <2>3. ASSUME NEW id \in jsTimers', id # f.item.id PROVE \E x \in timers' \cup Fired(Calls') : x.id = id
    <3>1. PICK x \in timers \cup Fired(Calls) : x.id = id
      BY <2>2 DEF JSHeld
    <3>2. CASE x \in timers
      BY <2>2, <3>1, <3>2
    <3>3. CASE x \in Fired(Calls)
      <4>1. x \in Fired(Calls')
        BY <2>1, <2>3, <3>1, <3>3 DEF Fired
      <4> QED BY <3>1, <4>1
    <3> QED BY <3>2, <3>3
  <2>4. ASSUME f.item.id \in jsTimers' PROVE \E x \in timers' : x.id = f.item.id
    <3>1. f.item.id \in jsTimers /\ f.item.kind # "jsTimeout"
      BY <1>12, <2>2, <2>4 DEF Returns
    <3>2. f.item.id \notin cancelled /\ IsJS(f.item) /\ Open
      BY <1>1, <2>1, <3>1, JSIds, JSOpen DEF JSApart
    <3>3. f.item.kind \in Intervals /\ f.item.gen = generation
      BY <2>1, <3>1, <3>2 DEF JSFresh, IsJS, JSTimers, Intervals
    <3>4. ~NoIntervals
      BY <1>1, <2>1, <3>3 DEF IdsOK, IdOK, NoIntervals
    <3>5. f.at \in DOMAIN stack /\ Live(f.at)
      BY <3>3, FiringAt DEF Calls, Live
    <3>6. state = "Running"
      BY <3>2, <3>4, <3>5 DEF Requeued, Steadies, SteadyAt
    <3>7. PICK e \in Item : Same(e, f.item) /\ timers' = timers \cup {e}
      BY <1>12, <3>2, <3>3, <3>6 DEF Returns
    <3> QED BY <3>7 DEF Same
  <2> QED BY <2>3, <2>4 DEF JSHeld
<1> QED BY <1>3, <1>4, <1>5, <1>6, <1>7, <1>8, <1>9, <1>10, <1>11, <1>12 DEF Effect

-------------------------------------------------------------------------------
\* A step that does not begin a disposal keeps the callbacks those of the timers that
\* can be found, and does not close the loop.

Matched == (timerCallbacks = jsTimers => timerCallbacks' = jsTimers') /\ (closed' => closed)
Unmarked == UNCHANGED <<timerCallbacks, jsTimers>> /\ (closed' => closed)

LEMMA FailureShuts ==
    ASSUME Inv, NEW s \in Seq(Frame), s # <<>>, FailReload(s)
    PROVE  Disposes'
<1>1. Len(s) \in Nat /\ Len(s) > 0 /\ s[Len(s)] \in Frame /\ Len(resources) \in Nat
  BY DEF Inv, TypeOK, StackTypes
<1>2. PICK u : u = SubSeq(s, 1, Len(s) - 1)
  OBVIOUS
<1>3. u \in Seq(Frame)
  BY <1>1, <1>2
<1>4. PICK f : f = s[Len(s)]
  OBVIOUS
<1>5. PICK g : g = [f EXCEPT !.fn = "failedReload"]
  OBVIOUS
<1>6. PICK h : h = [g EXCEPT !.pc = "resources"]
  OBVIOUS
<1>7. PICK k : k = [h EXCEPT !.idx = Len(resources)]
  OBVIOUS
<1>8. stack' = Append(u, k)
  BY <1>2, <1>4, <1>5, <1>6, <1>7 DEF FailReload
<1>9. k \in Frame /\ k.pc = "resources"
  <2>1. f \in Frame
    BY <1>1, <1>4
  <2>2. g \in Frame
    BY <2>1, <1>5 DEF Frame, Disposals
  <2>3. h \in Frame /\ h.pc = "resources"
    BY <2>2, <1>6 DEF Frame, Points
  <2> QED BY <2>3, <1>1, <1>7 DEF Frame
<1>10. Len(u) + 1 \in DOMAIN stack' /\ stack'[Len(u) + 1] = k
  BY <1>3, <1>8, <1>9
<1> QED BY <1>9, <1>10 DEF Disposes

LEMMA ReceiveMatched ==
    ASSUME Inv, NEW s \in Seq(Frame), Receive(s)
    PROVE  Unmarked \/ Disposes'
<1> DEFINE cmd == Head(commands)
<1>1. cmd.client \in Owners
  <2>1. cmd \in Command
    BY StatePlaces DEF Receive
  <2> QED BY <2>1 DEF Command
<1>2. HandleCommand(cmd, s)
  BY DEF Receive
<1> HIDE DEF cmd
<1>3. ASSUME NEW fn \in {"reload", "close"}, BeginDisposal(fn, cmd.client, s) PROVE Disposes'
  BY <1>1, <1>3, DisposalShuts DEF Disposals
<1> QED BY <1>2, <1>3
        DEF Unmarked, HandleCommand, HandleSchedule, HandleAddTimer, HandleStartStop, HandleDo,
            HandleRun, EnterRun, HandleRegisterResource, HandleReload, HandleClose

LEMMA PumpingMatched == ASSUME Inv, Pumping PROVE Unmarked \/ Disposes'
<1>1. Running(Loops)
  BY DEF Pumping, OwnerReceives, OwnerReturns, RunReturns, PumpOnce, DrainCommands, Drained,
         NotRunning, RunTask, FireDueTimer, RunJobs, JobsReturn, RunIsIdle, RunHasWork, WaitForWork,
         CanWork, At, Running, Loops
<1>2. CASE OwnerReceives \/ DrainCommands \/ WaitForWork
  <2>1. /\ stack \in Seq(Frame) /\ GoTo("top") \in Seq(Frame)
        /\ Append(Below, [Top EXCEPT !.progressed = TRUE]) \in Seq(Frame)
    BY <1>1, LoopFrame DEF Points, GoesOn
  <2>2. \/ Receive(stack)
        \/ Receive(GoTo("top"))
        \/ Receive(Append(Below, [Top EXCEPT !.progressed = TRUE]))
        \/ Unmarked
    BY <1>2 DEF OwnerReceives, DrainCommands, WaitForWork, MoveOn, Unmarked
  <2> QED BY <2>1, <2>2, ReceiveMatched
<1>3. CASE ~(OwnerReceives \/ DrainCommands \/ WaitForWork)
  BY <1>3 DEF Pumping, OwnerReturns, RunReturns, PumpOnce, Drained, NotRunning, RunTask,
     FireDueTimer, RunJobs, JobsReturn, RunIsIdle, RunHasWork, OnlyStack, Unmarked
<1> QED BY <1>2, <1>3

\* An id small enough for its callback to be deleted.
LEMMA ForgetMatched ==
    ASSUME NEW id, id <= MaxTimerID, ForgetJSTimer(id), closed' = closed
    PROVE  Matched
  BY DEF ForgetJSTimer, Matched

LEMMA UserActsMatched ==
    ASSUME WorkInv, JSHeld, MaxItems <= MaxTimerID, UserActs
    PROVE  Matched \/ Disposes'
<1>1. Inv /\ IdsOK /\ stack # <<>>
  BY ActingStack DEF WorkInv, CallsInv, WorkOK
<1>2. Unmarked => Matched
  BY DEF Unmarked, Matched
<1>3. CASE ClearJSTimer
  <2>1. PICK id \in jsTimers : ForgetJSTimer(id) /\ closed' = closed
    BY <1>3 DEF ClearJSTimer
  <2>2. PICK x \in timers \cup Fired(Calls) : x.id = id
    BY DEF JSHeld
  <2>3. x \in Known /\ x.id <= MaxItems
    BY <1>1 DEF Known, Stored, IdsOK, IdOK
  <2>4. id <= MaxTimerID
    <3>1. id \in Nat /\ MaxItems \in Nat /\ MaxTimerID \in Nat
      BY <1>1, IdTypes, ConstantsAssumption
    <3> QED BY <2>2, <2>3, <3>1
  <2> QED BY <2>1, <2>4, ForgetMatched
<1>4. CASE UserReload
  <2>1. BeginDisposal("reload", None, stack)
    BY <1>4 DEF UserReload
  <2> QED BY <1>1, <2>1, SeqFacts, DisposalShuts DEF Disposals, Owners
<1>5. CASE \E op \in Ops, delay \in 0..1 : JSAddTimer(op, delay)
  BY <1>5 DEF JSAddTimer, Matched
<1>6. CASE \E op \in Ops, delay \in 0..1 : UserEnqueue(op, delay)
  BY <1>2, <1>6 DEF UserEnqueue, Unmarked
<1>7. CASE \E op \in Ops : UserStartStop(op) \/ UserDo(op) \/ UserRun(op) \/ UserCallsItself(op)
  BY <1>2, <1>7 DEF UserStartStop, UserDo, UserRun, UserCallsItself, Unmarked
<1>8. CASE UserCancel \/ UserRegisterResource \/ UserClose
  BY <1>2, <1>8 DEF UserCancel, UserRegisterResource, UserClose, Unmarked
<1> QED BY <1>3, <1>4, <1>5, <1>6, <1>7, <1>8 DEF UserActs

LEMMA UserReturnsMatched ==
    ASSUME WorkInv, MaxItems <= MaxTimerID, UserReturns
    PROVE  Matched \/ Disposes'
<1>1. Inv /\ CallsInv /\ IdsOK
  BY DEF WorkInv, CallsInv, WorkOK
<1>2. Unmarked => Matched
  BY DEF Unmarked, Matched
<1>3. ASSUME stack # <<>>, Top.fn = "timer" PROVE Top.item.id <= MaxTimerID
  <2>1. Len(stack) \in DOMAIN stack /\ stack[Len(stack)] = Top
    BY <1>1, <1>3, SeqFacts DEF Top
  <2>2. \E f \in Calls : f.item = Top.item
    BY <1>3, <2>1, FiringHas DEF Calls
  <2>3. Top.item \in Known
    BY <2>2 DEF Fired, Known, Stored
  <2>4. /\ Top.item.id \in Nat /\ Top.item.id <= MaxItems
        /\ MaxItems \in Nat /\ MaxTimerID \in Nat
    BY <1>1, <2>3, IdTypes, ConstantsAssumption DEF IdsOK, IdOK
  <2> QED BY <2>4
<1>4. CASE UserCloseOnce
  <2>1. CASE closeOnce = "free" /\ IsOwner
    <3>1. BeginDisposal("close", None, GoTo("body"))
      BY <1>4, <2>1 DEF UserCloseOnce
    <3>2. stack # <<>> /\ "body" \in Points
      BY <1>4 DEF UserCloseOnce, At, Running, Points
    <3>3. GoTo("body") \in Seq(Frame)
      BY <1>1, <3>2, TopType, SeqFacts
    <3> QED BY <1>1, <3>1, <3>3, DisposalShuts DEF Disposals, Owners
  <2>2. CASE ~(closeOnce = "free" /\ IsOwner)
    BY <1>2, <1>4, <2>2 DEF UserCloseOnce, Unmarked
  <2> QED BY <2>1, <2>2
<1>5. CASE StartTimer
  <2>1. stack # <<>> /\ Top.fn = "timer" /\ closed' = closed
    BY <1>5 DEF StartTimer, At, Running
  <2>2. ForgetJSTimer(Top.item.id) \/ UNCHANGED <<timerCallbacks, jsTimers>>
    BY <1>5 DEF StartTimer
  <2> QED BY <1>2, <1>3, <2>1, <2>2, ForgetMatched DEF Unmarked
<1>6. CASE TimerReturns
  <2>1. stack # <<>> /\ Top.fn = "timer" /\ closed' = closed
    BY <1>6 DEF TimerReturns, At, Running
  <2>2. ForgetJSTimer(Top.item.id) \/ UNCHANGED <<timerCallbacks, jsTimers>>
    BY <1>6 DEF TimerReturns
  <2> QED BY <1>2, <1>3, <2>1, <2>2, ForgetMatched DEF Unmarked
<1>7. CASE BodyReturns \/ \E err \in TaskErrors : RunTaskReturns(err)
  BY <1>2, <1>7 DEF BodyReturns, RunTaskReturns, Unmarked
<1>8. ASSUME NEW err \in BOOLEAN, InstallerReturns(err) PROVE Matched \/ Disposes'
  <2>1. CASE err
    <3>1. FailReload(Below) /\ stack # <<>> /\ Top.fn = "installer"
      BY <1>8, <2>1 DEF InstallerReturns, At, Running
    <3> QED BY <1>1, <3>1, CallerFrame, FailureShuts
  <2>2. CASE ~err
    BY <1>2, <1>8, <2>2 DEF InstallerReturns, Unmarked
  <2> QED BY <2>1, <2>2
<1> QED BY <1>4, <1>5, <1>6, <1>7, <1>8 DEF UserReturns

LEMMA DisposingMatched ==
    ASSUME Inv, Disposing, ~DisposeContext
    PROVE  Unmarked \/ Disposes'
<1>1. stack # <<>> /\ stack \in Seq(Frame)
  BY SeqFacts DEF Disposing, CloseResource, DisposeContext, InitializeGeneration, ReloadReturns,
                  CloseFinishes, At, Running
<1>2. CASE InitializeGeneration
  <2>1. FailReload(stack) \/ Unmarked
    BY <1>2 DEF InitializeGeneration, Unmarked
  <2> QED BY <1>1, <2>1, FailureShuts
<1>3. CASE CloseResource \/ ReloadReturns \/ CloseFinishes
  BY <1>3 DEF CloseResource, ReloadReturns, CloseFinishes, Unmarked
<1> QED BY <1>2, <1>3 DEF Disposing

LEMMA MatchedStep ==
    ASSUME WorkInv, JSHeld, MaxItems <= MaxTimerID, [Next]_vars, ~DisposeContext
    PROVE  Matched \/ Disposes'
<1>1. Unmarked => Matched
  BY DEF Unmarked, Matched
<1>2. Inv
  BY DEF WorkInv, CallsInv
<1>3. CASE Owner
  BY <1>1, <1>2, <1>3, PumpingMatched, UserActsMatched, UserReturnsMatched, DisposingMatched DEF Owner
<1>4. CASE ~Owner
  BY <1>1, <1>4, ClientsApart DEF Next, Unmarked
<1> QED BY <1>3, <1>4

\* A context that is disposed leaves neither timers nor callbacks.
LEMMA DisposedContext ==
    ASSUME Inv, Cleared, DisposeContext
    PROVE  timerCallbacks' = {} /\ jsTimers' = {} /\ ctx' = 0
<1>1. stack # <<>> /\ Top.pc \in Shut /\ Len(stack) \in DOMAIN stack
  BY SeqFacts DEF DisposeContext, At, Running, Shut
<1>2. jsTimers = {}
  BY <1>1, TornStack DEF Cleared, Top
<1> QED BY <1>2 DEF DisposeContext

JSCallbacks == ~Disposes => timerCallbacks = jsTimers

LEMMA JSCallbacksStep ==
    ASSUME WorkInv, Cleared, JSHeld, JSCallbacks, MaxItems <= MaxTimerID, [Next]_vars
    PROVE  JSCallbacks'
<1>1. Inv
  BY DEF WorkInv, CallsInv
<1>2. CASE DisposeContext
  BY <1>1, <1>2, DisposedContext DEF JSCallbacks
<1>3. CASE ~DisposeContext
  <2>1. Disposes => Disposes'
    BY <1>1, <1>3, DisposesStep
  <2>2. Matched \/ Disposes'
    BY <1>3, MatchedStep
  <2> QED BY <2>1, <2>2 DEF Matched, JSCallbacks
<1> QED BY <1>2, <1>3

\* The loop is closed by a disposal or without a context, and without a context no
\* timer is made.
LEMMA JSShutStep ==
    ASSUME WorkInv, Cleared, JSHeld, JSShut, MaxItems <= MaxTimerID, Effect, [Next]_vars
    PROVE  JSShut'
<1>1. Inv /\ ClosedInv /\ generation \in Nat
  BY IdTypes DEF WorkInv, CallsInv
<1>2. CASE DisposeContext
  BY <1>1, <1>2, DisposedContext DEF JSShut
<1>3. CASE InitializeGeneration
  <2>1. jsTimers' = {}
    BY <1>1, <1>3, NewGeneration
  <2>2. closed' => ctx' = 0 \/ Disposes'
    <3>1. ~DisposeContext
      BY <1>3 DEF InitializeGeneration, DisposeContext, At
    <3>2. (closed' => closed) \/ Disposes'
      BY <3>1, MatchedStep DEF Matched
    <3>3. Disposes => Disposes'
      BY <1>1, <3>1, DisposesStep
    <3> QED BY <1>1, <3>2, <3>3, ClosedStep DEF JSShut
  <2> QED BY <2>1, <2>2 DEF JSShut
<1>4. CASE ~DisposeContext /\ ctx' = ctx
  <2>1. ctx = 0 => jsTimers' = {}
    <3>1. ASSUME ctx = 0 PROVE jsTimers' = {}
      <4>1. jsTimers = {} /\ \A x \in Item : ~AddsJS(x)
        BY <3>1 DEF JSShut, AddsJS
      <4>2. Quietly \/ Discards \/ Drops \/ Leaves => jsTimers' \subseteq jsTimers
        BY <4>1 DEF Quietly, Discards, Drops, DropWork, Leaves
      <4>3. ASSUME NEW x \in Item, \/ Begins(x) \/ Sends(x) \/ Refused(x) \/ Cancels(x) \/ Queues(x)
                                   \/ Arms(x) \/ Registers(x) \/ Posts(x) \/ RunsTask(x) \/ Pops(x)
            PROVE  jsTimers' \subseteq jsTimers
        BY <4>3 DEF Begins, Sends, Refused, Cancels, Queues, Arms, Registers, Posts, RunsTask, Pops
      <4>4. (\A id \in Nat : ClearsJS(id) => jsTimers' \subseteq jsTimers)
            /\ \A f \in Calls : Starts(f) \/ Returns(f) => jsTimers' \subseteq jsTimers
        BY DEF ClearsJS, Starts, Returns
      <4> QED BY <4>1, <4>2, <4>3, <4>4 DEF Effect
    <3> QED BY <3>1
  <2>2. (closed' => closed) \/ Disposes'
    BY <1>4, MatchedStep DEF Matched
  <2>3. Disposes => Disposes'
    BY <1>1, <1>4, DisposesStep
  <2> QED BY <1>4, <2>1, <2>2, <2>3 DEF JSShut
<1> QED BY <1>2, <1>3, <1>4, ContextStep

JSInv == Cleared /\ JSFresh /\ JSApart /\ JSHeld /\ JSShut /\ JSCallbacks

LEMMA JSInit == Init => JSInv
<1> SUFFICES ASSUME Init PROVE JSInv
    OBVIOUS
<1>1. /\ timers = {} /\ jsTimers = {} /\ timerCallbacks = {} /\ ctx = 1 /\ closed = FALSE
      /\ stack = <<NewFrame("owner", "top", None)>>
  BY DEF Init
<1>2. \A i \in DOMAIN stack : stack[i].fn = "owner"
  BY <1>1 DEF NewFrame
<1>3. Fired(Calls) = {}
  <2>1. Calls = {}
    BY <1>2 DEF Calls, Firing, Fires
  <2> QED BY <2>1, FiredSets
<1> QED BY <1>1, <1>3 DEF JSInv, Cleared, JSFresh, JSApart, JSHeld, JSShut, JSCallbacks

LEMMA JSStep ==
    ASSUME WorkInv, WorkInv', Requeued, JSInv, MaxItems <= MaxTimerID, [Next]_vars
    PROVE  JSInv'
<1>1. /\ CallsInv /\ KindsOK /\ StateOK
      /\ Cleared /\ JSFresh /\ JSApart /\ JSHeld /\ JSShut /\ JSCallbacks
  BY DEF WorkInv, WorkOK, JSInv
<1>2. Effect
  BY <1>1, StepEffect
<1> QED BY <1>1, <1>2, ClearedStep, JSFreshStep, JSApartStep, JSHeldStep, JSShutStep, JSCallbacksStep
        DEF JSInv

\* The three records of a JavaScript timer agree, across the steps of addTimer,
\* clearTimer, fireDueTimer, the callback and disposeGeneration: a callback is kept as
\* long as its timer can be found, and a timer can be found as long as it can fire.
\* It needs that no callback stops a loop that has intervals, and that there are no
\* more timers than the indices callbacks can be deleted for.
THEOREM JSTimersAreBacked ==
    ASSUME "Stop" \notin TaskOps \/ NoIntervals, MaxItems <= MaxTimerID
    PROVE  Spec => []JSTimersBacked
<1>1. Init => JSInv
  BY JSInit
<1>2. WorkInv /\ WorkInv' /\ Requeued /\ JSInv /\ [Next]_vars => JSInv'
  BY JSStep
<1>3. WorkInv /\ JSInv => JSTimersBacked
  <2> SUFFICES ASSUME WorkInv, JSInv, ~Disposes PROVE JSTimersBacked
      BY DEF JSTimersBacked
  <2>1. timerCallbacks = jsTimers
    BY DEF JSInv, JSCallbacks
  <2>2. ASSUME NEW id \in jsTimers PROVE OnStack(id) \/ \E e \in timers : e.id = id
    <3>1. PICK x \in timers \cup Fired(Calls) : x.id = id
      BY DEF JSInv, JSHeld
    <3>2. x \in Fired(Calls) => OnStack(id)
      BY <3>1, FiringAt DEF Fired, Calls, OnStack
    <3> QED BY <3>1, <3>2
  <2>3. \A e \in timers : e.kind \in JSTimers /\ e.id \notin cancelled => e.id \in jsTimers
    BY DEF WorkInv, WorkOK, JSKept, IsJS
  <2> QED BY <2>1, <2>2, <2>3 DEF JSTimersBacked
<1>4. Spec => []Requeued
  BY RequeuedHolds
<1> QED BY <1>1, <1>2, <1>3, <1>4, WorkInvHolds, PTL DEF Spec

-------------------------------------------------------------------------------
\* A timer that a client still has in its hand is nowhere else, and a callback that is
\* about to start is of a timer that is not cancelled.

Private == \A x \in HandItems, y \in Stored : x.id # y.id
NotLate ==
    /\ \A f \in Calls : f.phase = "start" /\ ~IsJS(f.item) => f.item.id \notin cancelled
    /\ CancelPrevents

\* What is stored was stored, is new, or was sent from a client's hand.
LEMMA StoredMoves ==
    ASSUME Inv, Effect
    PROVE  \/ /\ HandItems' \subseteq HandItems
              /\ \A y \in Stored' : \E x \in Stored : Same(x, y)
           \/ \E n : /\ IsNew(n) /\ HandItems' \subseteq HandItems \cup {n} /\ Stored' = Stored
           \/ \E n : /\ IsNew(n) /\ HandItems' \subseteq HandItems /\ Stored' \subseteq Stored \cup {n}
           \/ \E x : HandsOver(x) /\ Stored' = Stored \cup {x}
<1> DEFINE Goal1 == /\ HandItems' \subseteq HandItems
                    /\ \A y \in Stored' : \E x \in Stored : Same(x, y)
           Goal2 == \E n : /\ IsNew(n) /\ HandItems' \subseteq HandItems \cup {n} /\ Stored' = Stored
           Goal3 == \E n : /\ IsNew(n) /\ HandItems' \subseteq HandItems /\ Stored' \subseteq Stored \cup {n}
           Goal4 == \E x : HandsOver(x) /\ Stored' = Stored \cup {x}
<1>1. ASSUME HandItems' \subseteq HandItems, Stored' \subseteq Stored PROVE Goal1
  BY <1>1, SameItself
<1>2. ASSUME Quietly \/ Discards \/ Drops \/ Leaves PROVE Goal1
  <2>1. HandItems' = HandItems /\ SentItems' = SentItems
    BY <1>2 DEF Quietly, Discards, Drops, Leaves
  <2>2. tasks' = <<>> => TaskItems' = {}
    BY DEF TaskItems, ItemsOf
  <2>3. TaskItems' \subseteq TaskItems
    BY <1>2, <2>2 DEF Quietly, Discards, Drops, DropWork, Leaves
  <2>4. timers' \subseteq timers
    BY <1>2, KeptType DEF Quietly, Discards, Drops, DropWork, Leaves
  <2>5. Fired(Calls') \subseteq Fired(Calls)
    BY <1>2, FiredSets DEF Quietly, Discards, Drops, Leaves
  <2> QED BY <1>1, <2>1, <2>3, <2>4, <2>5 DEF Stored
<1>3. ASSUME NEW x \in Item, Begins(x) PROVE Goal2
  BY <1>3 DEF Begins, Stored
<1>4. ASSUME NEW x \in Item, Sends(x) PROVE Goal4
  BY <1>4 DEF Sends, Stored
<1>5. ASSUME NEW x \in Item, Refused(x) \/ Cancels(x) PROVE Goal1
  BY <1>1, <1>5 DEF Refused, HandsOver, Cancels, Stored
<1>6. ASSUME NEW x \in Item, Queues(x) \/ Arms(x) PROVE Goal1
  BY <1>1, <1>6 DEF Queues, Arms, Takes, Stored
<1>7. ASSUME NEW x \in Item, Registers(x) PROVE Goal1
  BY <1>1, <1>7 DEF Registers, Takes, Stored
<1>8. ASSUME NEW x \in Item, Posts(x) \/ AddsJS(x) PROVE Goal3
  BY <1>8 DEF Posts, AddsJS, Stored
<1>9. ASSUME NEW x \in Item, RunsTask(x) PROVE Goal1
  BY <1>1, <1>9 DEF RunsTask, Stored
<1>10. ASSUME NEW x \in Item, Pops(x) PROVE Goal1
  <2>1. x \in timers /\ timers' \subseteq timers
    BY <1>10, KeptType DEF Pops, Due, Peek
  <2>2. Fired(Calls') \subseteq Fired(Calls) \cup {x}
    BY <1>10, FiredSets DEF Pops
  <2> QED BY <1>1, <1>10, <2>1, <2>2 DEF Pops, Stored
<1>11. ASSUME NEW id \in Nat, ClearsJS(id) PROVE Goal1
  BY <1>1, <1>11 DEF ClearsJS, Stored
<1>12. ASSUME NEW f \in Calls, Starts(f) PROVE Goal1
  <2>1. PICK g : g.item = f.item /\ Calls' = (Calls \ {f}) \cup {g}
    BY <1>12 DEF Starts, Begun
  <2>2. Fired(Calls') = Fired(Calls \ {f}) \cup {f.item} /\ f.item \in Fired(Calls)
    BY <2>1, FiredSets
  <2> QED BY <1>1, <1>12, <2>2, FiredSets DEF Starts, Stored
<1>13. ASSUME NEW f \in Calls, Returns(f) PROVE Goal1
  <2>1. f.item \in Stored /\ Fired(Calls') \subseteq Fired(Calls)
    BY <1>13, FiredSets DEF Returns, Stored
  <2>2. \A e \in timers' : e \in timers \/ Same(f.item, e)
    BY <1>13 DEF Returns, Same
  <2>3. UNCHANGED <<HandItems, SentItems, TaskItems>>
    BY <1>13 DEF Returns
  <2> QED BY <2>1, <2>2, <2>3, SameItself DEF Stored
<1> HIDE DEF Goal1, Goal2, Goal3, Goal4
<1>14. Goal1 \/ Goal2 \/ Goal3 \/ Goal4
  BY <1>2, <1>3, <1>4, <1>5, <1>6, <1>7, <1>8, <1>9, <1>10, <1>11, <1>12, <1>13 DEF Effect
<1> QED BY <1>14 DEF Goal1, Goal2, Goal3, Goal4

LEMMA PrivateStep ==
    ASSUME Inv, IdsOK, Private, Effect
    PROVE  Private'
<1>1. \A x \in HandItems \cup Stored : x.id \in Nat /\ x.id <= nextID /\ x \in Known
  BY IdTypes DEF IdsOK, IdOK, Known
<1>2. \A n : IsNew(n) => \A x \in HandItems \cup Stored : x.id # n.id
  BY <1>1, IdTypes DEF IsNew
<1>3. CASE HandItems' \subseteq HandItems /\ \A y \in Stored' : \E x \in Stored : Same(x, y)
  BY <1>3 DEF Private, Same
<1>4. ASSUME NEW n, IsNew(n), \/ HandItems' \subseteq HandItems \cup {n} /\ Stored' = Stored
                              \/ HandItems' \subseteq HandItems /\ Stored' \subseteq Stored \cup {n}
      PROVE  Private'
  BY <1>2, <1>4 DEF Private
<1>5. ASSUME NEW x, HandsOver(x), Stored' = Stored \cup {x} PROVE Private'
  <2>1. x \in HandItems /\ HandItems' \subseteq HandItems /\ \A y \in HandItems' : y.by # x.by
    BY <1>5 DEF HandsOver
  <2>2. \A y \in HandItems' : y.id # x.id
    BY <1>1, <2>1 DEF IdsOK, Same
  <2> QED BY <1>5, <2>1, <2>2 DEF Private
<1> QED BY <1>3, <1>4, <1>5, StoredMoves

\* A callback that is about to start is the innermost call: nothing else happens on the
\* owner before it has started.
LEMMA StartsFirst ==
    ASSUME Inv, NEW f \in Calls, f.phase = "start"
    PROVE  At({"timer"}, "start")
<1>1. f.at \in DOMAIN stack /\ stack[f.at].fn = "timer" /\ f.phase = Phase(stack[f.at])
  BY FiringAt DEF Calls
<1>2. stack[f.at].pc = "start"
  BY <1>1 DEF Phase
<1>3. f.at = Len(stack)
  BY <1>1, <1>2 DEF Inv, StackOK, FrameOK, Busy
<1>4. stack # <<>>
  <2>1. DOMAIN <<>> = {}
    OBVIOUS
  <2> QED BY <1>1, <2>1
<1> QED BY <1>1, <1>2, <1>3, <1>4 DEF At, Running, Top

LEMMA StartIsNext ==
    ASSUME Owner, At({"timer"}, "start")
    PROVE  StartTimer
<1>1. ~Pumping
  BY DEF At, Running, Pumping, OwnerReceives, OwnerReturns, RunReturns, PumpOnce, DrainCommands,
     Drained, NotRunning, RunTask, FireDueTimer, RunJobs, JobsReturn, RunIsIdle, RunHasWork, WaitForWork,
     CanWork, Loops
<1>2. ~UserActs
  BY DEF At, Running, UserActs, UserStartStop, UserDo, UserRun, UserCallsItself, UserEnqueue,
     JSAddTimer, ClearJSTimer, UserCancel, UserRegisterResource, UserReload, UserClose, MayAct
<1>3. ~Disposing
  BY DEF At, Running, Disposing, CloseResource, DisposeContext, InitializeGeneration,
     ReloadReturns, CloseFinishes, Disposals
<1>4. UserReturns => StartTimer
  BY DEF At, Running, UserReturns, UserCloseOnce, TimerReturns, BodyReturns, RunTaskReturns,
     InstallerReturns, Bodies
<1> QED BY <1>1, <1>2, <1>3, <1>4 DEF Owner

LEMMA StartingStep ==
    ASSUME WorkInv, WorkInv', Private, NotLate, "Cancel" \notin ClientOps, [Next]_vars,
           NEW f \in Calls', f.phase = "start", ~IsJS(f.item)
    PROVE  f.item.id \notin cancelled'
<1>1. Inv /\ Inv' /\ KindsOK /\ StateOK /\ CallsInv
  BY DEF WorkInv, CallsInv, WorkOK
<1>2. Top'.pc = "start"
  <2>1. f.at \in DOMAIN stack' /\ f.phase = Phase(stack'[f.at])
    BY FiringAt DEF Calls
  <2>2. stack'[f.at].pc = "start"
    BY <2>1 DEF Phase
  <2>3. f.at = Len(stack')
    BY <1>1, <2>1, <2>2 DEF Inv, StackOK, FrameOK, Busy
  <2> QED BY <2>2, <2>3 DEF Top
<1>3. CASE f \in Calls /\ Owner
  <2>1. StartTimer
    BY <1>1, <1>3, StartsFirst, StartIsNext
  <2>2. PICK pc \in {"body", "finish"} : stack' = GoTo(pc)
    BY <2>1 DEF StartTimer, MoveOn
  <2>3. stack # <<>>
    BY <2>1 DEF StartTimer, At, Running
  <2>4. Top'.pc = pc
    BY <1>1, <2>2, <2>3, SeqFacts DEF GoTo, Top
  <2> QED BY <1>2, <2>4
<1>4. CASE f \notin Calls
  <2>1. Effect
    BY <1>1, StepEffect
  <2>2. \E x \in Item : Pops(x)
    BY <1>4, <2>1 DEF Effect, Quietly, Discards, Drops, Leaves, Begins, Sends, Refused, Cancels,
       Queues, Arms, Registers, Posts, AddsJS, RunsTask, ClearsJS, Starts, Begun, Returns
  <2>3. PICK x \in Item : Pops(x)
    BY <2>2
  <2>4. f.item = x /\ x \in Due /\ cancelled' = cancelled
    BY <1>4, <2>3 DEF Pops
  <2> QED BY <1>1, <2>4, DueIsLive
<1>5. CASE f \in Calls /\ ~Owner
  <2>1. f.item.id \notin cancelled /\ f.item \in Stored
    BY <1>5, FiredSets DEF NotLate, Stored
  <2>2. CASE \E c \in Clients : Caller(c) \/ Client(c)
    <3>1. PICK c \in Clients : Caller(c) \/ Client(c)
      BY <2>2
    <3>2. ~CancelTimer(c)
      BY DEF CancelTimer, MayCall
    <3>3. CASE Enqueue(c)
      <4>1. Holds(c) /\ cancelled' \subseteq cancelled \cup {cl[c].item.id}
        BY <3>3 DEF Enqueue, Holds, Carries
      <4>2. cl[c].item \in HandItems
        BY <4>1 DEF HandItems
      <4> QED BY <2>1, <4>1, <4>2 DEF Private
    <3>4. CASE ~Enqueue(c)
      <4>1. cancelled' = cancelled
        BY <3>1, <3>2, <3>4 DEF Caller, Client, BeginCall, BeginEnqueue, BeginClose, Send, Await,
           CloseOnce, CloseReturns
      <4> QED BY <2>1, <4>1
    <3> QED BY <3>3, <3>4
  <2>3. CASE Tick \/ Quiet \/ UNCHANGED vars
    BY <2>1, <2>3 DEF Tick, Quiet, vars
  <2> QED BY <1>5, <2>2, <2>3 DEF Next
<1> QED BY <1>3, <1>4, <1>5

\* What starts is not cancelled.
LEMMA StartsLive ==
    ASSUME WorkInv, NotLate, Effect
    PROVE  ran' = ran \/ \E x : x.id \notin cancelled /\ ran' = Append(ran, Start(x))
<1>1. ASSUME NEW x \in Item, RunsTask(x) PROVE x.id \notin cancelled /\ ran' = Append(ran, Start(x))
  <2>1. x.kind = "Schedule" /\ x \in Known
    BY <1>1 DEF RunsTask, WorkInv, WorkOK, KindsOK, Known, Stored
  <2> QED BY <1>1, <2>1 DEF RunsTask, WorkInv, WorkOK, IdsOK, IdOK
<1>2. ASSUME NEW f \in Calls, Starts(f)
      PROVE  ran' = ran \/ (f.item.id \notin cancelled /\ ran' = Append(ran, Start(f.item)))
  BY <1>2 DEF Starts, NotLate
<1>3. CASE Quietly \/ Discards \/ Drops \/ Leaves
  BY <1>3 DEF Quietly, Discards, Drops, Leaves
<1>4. ASSUME NEW x \in Item, \/ Begins(x) \/ Sends(x) \/ Refused(x) \/ Cancels(x) \/ Queues(x)
                             \/ Arms(x) \/ Registers(x) \/ Posts(x) \/ AddsJS(x) \/ Pops(x)
      PROVE  ran' = ran
  BY <1>4 DEF Begins, Sends, Refused, Cancels, Queues, Arms, Registers, Posts, AddsJS, Pops
<1>5. ASSUME NEW id \in Nat, ClearsJS(id) PROVE ran' = ran
  BY <1>5 DEF ClearsJS
<1>6. ASSUME NEW f \in Calls, Returns(f) PROVE ran' = ran
  BY <1>6 DEF Returns
<1> QED BY <1>1, <1>2, <1>3, <1>4, <1>5, <1>6 DEF Effect

LEMMA NotLateStep ==
    ASSUME WorkInv, WorkInv', Private, NotLate, "Cancel" \notin ClientOps, [Next]_vars
    PROVE  NotLate'
<1>1. CallsInv /\ Inv /\ KindsOK /\ StateOK
  BY DEF WorkInv, WorkOK, CallsInv
<1>2. \A f \in Calls' : f.phase = "start" /\ ~IsJS(f.item) => f.item.id \notin cancelled'
  BY StartingStep
<1>3. Effect
  BY <1>1, StepEffect
<1>4. ASSUME ran' = ran PROVE CancelPrevents'
  BY <1>4 DEF NotLate, CancelPrevents
<1>5. ASSUME NEW x, x.id \notin cancelled, ran' = Append(ran, Start(x)) PROVE CancelPrevents'
  <2>1. ~Start(x).late
    <3>1. Start(x).late = (x.id \in cancelled)
      BY DEF Start
    <3> QED BY <1>5, <3>1
  <2>2. PICK r : r = Start(x)
    OBVIOUS
  <2>3. ran \in Seq([id : Nat, kind : Ops, gen : Nat, at : Nat, late : BOOLEAN])
    BY <1>1 DEF Inv, TypeOK, HistoryTypes
  <2>4. \A i \in DOMAIN ran' : ran'[i] = r \/ (i \in DOMAIN ran /\ ran'[i] = ran[i])
    BY <1>5, <2>2, <2>3
  <2> QED BY <2>1, <2>2, <2>4 DEF NotLate, CancelPrevents
<1>6. CancelPrevents'
  BY <1>3, <1>4, <1>5, StartsLive DEF NotLate, CancelPrevents
<1> QED BY <1>2, <1>6 DEF NotLate, IsJS

\* "Cancel prevents a timer callback from running" (timer.go), across fireDueTimer,
\* which looks at the handle once, and the callback that begins after it: no callback
\* starts once its timer is cancelled, provided that it is cancelled on the owner, by
\* a refused enqueue or by a disposal - another goroutine's Cancel may come in between.
THEOREM CancelledNeverStarts ==
    ASSUME "Cancel" \notin ClientOps
    PROVE  Spec => []CancelPrevents
<1>1. Init => Private /\ NotLate
  <2> SUFFICES ASSUME Init PROVE Private /\ NotLate
      OBVIOUS
  <2>1. stack = <<NewFrame("owner", "top", None)>> /\ ran = <<>> /\ \A c \in Clients : cl[c].pc = "idle"
    BY DEF Init
  <2>2. \A i \in DOMAIN stack : stack[i].fn = "owner"
    BY <2>1 DEF NewFrame
  <2>3. Calls = {}
    BY <2>2 DEF Calls, Firing, Fires
  <2>4. HandItems = {}
    BY <2>1 DEF HandItems, Holds
  <2>5. CancelPrevents
    BY <2>1 DEF CancelPrevents
  <2> QED BY <2>3, <2>4, <2>5 DEF Private, NotLate
<1>2. WorkInv /\ WorkInv' /\ Private /\ NotLate /\ [Next]_vars => (Private /\ NotLate)'
  <2> SUFFICES ASSUME WorkInv, WorkInv', Private, NotLate, [Next]_vars PROVE Private' /\ NotLate'
      OBVIOUS
  <2>1. CallsInv /\ Inv /\ KindsOK /\ StateOK /\ IdsOK
    BY DEF WorkInv, WorkOK, CallsInv
  <2> QED BY <2>1, StepEffect, PrivateStep, NotLateStep
<1>3. NotLate => CancelPrevents
  BY DEF NotLate
<1> QED BY <1>1, <1>2, <1>3, WorkInvHolds, PTL DEF Spec

-------------------------------------------------------------------------------
\* What is left of a loop that is closed or has no context.

Emptied == ctx = 0 /\ tasks = <<>> /\ timers = {} /\ jsTimers = {}
ShutOK ==
    /\ ctx = 0 => resources = <<>> /\ (closed \/ ~Whole(stack))
    /\ closed => state # "Running"
    /\ state = "Closed" => Emptied \/ Disposes
    /\ done => state = "Closed"
    /\ \A c \in Clients : cl[c].pc = "idle" /\ cl[c].op = "Close" => done

\* Without a context the loop is closed, or a Reload is about to make one.
LEMMA NoContextStep ==
    ASSUME ClosedInv, ctx = 0 => closed \/ ~Whole(stack), [Next]_vars, ctx' = 0
    PROVE  closed' \/ ~Whole(stack')
<1>1. Inv
  BY DEF ClosedInv
<1>2. CASE closed
  BY <1>2, ClosedStep
<1>3. CASE InitializeGeneration
  <2>1. generation \in Nat
    BY <1>1 DEF Inv, TypeOK, StateTypes
  <2> QED BY <1>3, <2>1 DEF InitializeGeneration, FailReload
<1>4. CASE ~closed /\ DisposeContext
  <2>1. stack # <<>> /\ Top.fn \in Disposals /\ Len(stack) \in DOMAIN stack
    BY <1>1, <1>4, SeqFacts DEF DisposeContext, At, Running
  <2>2. Top.fn = "reload"
    BY <1>4, <2>1 DEF ClosedInv, DisposalsOK, DisposalOK, Top
  <2>3. stack' = GoTo("init")
    BY <1>4, <2>2 DEF DisposeContext, MoveOn
  <2>4. PICK f : f = [Top EXCEPT !.pc = "init"]
    OBVIOUS
  <2>5. f \in Frame /\ f.pc = "init" /\ Below \in Seq(Frame)
    BY <1>1, <2>1, <2>4, SeqFacts DEF Frame, Points
  <2>6. Len(Below) + 1 \in DOMAIN stack' /\ stack'[Len(Below) + 1] = f
    BY <2>3, <2>4, <2>5 DEF GoTo
  <2> QED BY <2>5, <2>6 DEF Whole, Shut
<1>5. CASE ~closed /\ ~DisposeContext /\ ~InitializeGeneration
  <2>1. ~Whole(stack)
    BY <1>5, ContextStep
  <2>2. PICK i \in DOMAIN stack : stack[i].pc \in Shut
    BY <1>1, <2>1, SeqFacts DEF Whole
  <2>3. CASE stack[i].pc = "resources"
    <3>1. Disposes'
      BY <1>1, <1>5, <2>3, DisposesStep DEF Disposes
    <3> QED BY <3>1 DEF Disposes, Whole, Shut
  <2>4. CASE stack[i].pc = "init"
    <3>1. i = Len(stack) /\ stack # <<>>
      <4>1. DOMAIN <<>> = {}
        OBVIOUS
      <4> QED BY <1>1, <2>4, <4>1 DEF Inv, StackOK, FrameOK, Busy
    <3>2. Top.pc = "init"
      BY <2>4, <3>1 DEF Top
    <3>3. ~Pumping
      BY <3>2 DEF Pumping, OwnerReceives, OwnerReturns, RunReturns, PumpOnce, DrainCommands, Drained,
         NotRunning, RunTask, FireDueTimer, RunJobs, JobsReturn, RunIsIdle, RunHasWork, WaitForWork, CanWork, At
    <3>4. ~UserActs
      BY <3>2 DEF UserActs, UserStartStop, UserDo, UserRun, UserCallsItself, UserEnqueue, JSAddTimer,
         ClearJSTimer, UserCancel, UserRegisterResource, UserReload, UserClose, MayAct, At
    <3>5. ~UserReturns /\ ~Disposing
      BY <1>5, <3>2 DEF UserReturns, UserCloseOnce, StartTimer, TimerReturns, BodyReturns,
         RunTaskReturns, InstallerReturns, Disposing, CloseResource, ReloadReturns, CloseFinishes, At
    <3>6. stack' = stack
      BY <3>3, <3>4, <3>5, ClientsApart DEF Next, Owner
    <3> QED BY <2>1, <3>6
  <2> QED BY <2>2, <2>3, <2>4 DEF Shut
<1> QED BY <1>2, <1>3, <1>4, <1>5

\* A closed loop does not run.
LEMMA PausedStep ==
    ASSUME closed => state # "Running", [Next]_vars
    PROVE  closed' => state' # "Running"
<1>1. ASSUME NEW s, Receive(s) PROVE closed' => state' # "Running"
  <2>1. HandleCommand(Head(commands), s)
    BY <1>1 DEF Receive
  <2> QED BY <2>1 DEF HandleCommand, HandleSchedule, HandleAddTimer, HandleStartStop,
             HandleDo, HandleRun, EnterRun, HandleRegisterResource, HandleReload, HandleClose,
             BeginDisposal, IsClosed
<1>2. CASE Pumping
  BY <1>1, <1>2 DEF Pumping, OwnerReceives, OwnerReturns, RunReturns, PumpOnce,
     DrainCommands, Drained, NotRunning, RunTask, FireDueTimer, RunJobs, JobsReturn, RunIsIdle, RunHasWork,
     WaitForWork, OnlyStack
<1>3. CASE UserActs
  <2>1. ASSUME NEW op, UserStartStop(op) \/ UserDo(op) \/ UserCallsItself(op) \/ UserRun(op)
        PROVE  closed' => state' # "Running"
    BY <2>1 DEF UserStartStop, UserDo, UserCallsItself, UserRun, EnterRun, IsClosed
  <2>2. ASSUME NEW op, NEW delay \in 0..1, UserEnqueue(op, delay) \/ JSAddTimer(op, delay)
        PROVE  closed' => state' # "Running"
    BY <2>2 DEF UserEnqueue, JSAddTimer, IsClosed
  <2>3. ASSUME ClearJSTimer \/ UserCancel \/ UserRegisterResource \/ UserReload \/ UserClose
        PROVE  closed' => state' # "Running"
    BY <2>3 DEF ClearJSTimer, UserCancel, UserRegisterResource, UserReload, UserClose, IsClosed
  <2> QED BY <1>3, <2>1, <2>2, <2>3 DEF UserActs
<1>4. CASE UserReturns
  BY <1>4 DEF UserReturns, UserCloseOnce, StartTimer, TimerReturns, BodyReturns,
     RunTaskReturns, InstallerReturns, FailReload
<1>5. CASE Disposing
  BY <1>5 DEF Disposing, CloseResource, DisposeContext, InitializeGeneration, FailReload,
     ReloadReturns, CloseFinishes
<1> QED BY <1>2, <1>3, <1>4, <1>5, ClientsApart DEF Next, Owner

\* Who changes the list of resources.
LEMMA ResourcesStep ==
    ASSUME [Next]_vars
    PROVE  \/ resources' = resources \/ DisposeContext \/ UserRegisterResource
           \/ ~IsClosed /\ \E s \in {stack, Append(Below, [Top EXCEPT !.progressed = TRUE]), GoTo("top")} :
                Receive(s) /\ HandleRegisterResource(Head(commands), s) /\ Pumping
<1>1. ASSUME NEW s, Receive(s)
      PROVE  resources' = resources \/ (~IsClosed /\ HandleRegisterResource(Head(commands), s))
  <2>1. HandleCommand(Head(commands), s)
    BY <1>1 DEF Receive
  <2> QED BY <2>1 DEF HandleCommand, HandleSchedule, HandleAddTimer, HandleStartStop,
             HandleDo, HandleRun, HandleRegisterResource, HandleReload, HandleClose, BeginDisposal
<1>2. CASE Pumping
  BY <1>1, <1>2 DEF Pumping, OwnerReceives, OwnerReturns, RunReturns, PumpOnce,
     DrainCommands, Drained, NotRunning, RunTask, FireDueTimer, RunJobs, JobsReturn, RunIsIdle, RunHasWork,
     WaitForWork, OnlyStack
<1>3. CASE UserActs
  <2>1. ASSUME NEW op, UserStartStop(op) \/ UserDo(op) \/ UserCallsItself(op) \/ UserRun(op)
        PROVE  resources' = resources
    BY <2>1 DEF UserStartStop, UserDo, UserCallsItself, UserRun, EnterRun
  <2>2. ASSUME NEW op, NEW delay \in 0..1, UserEnqueue(op, delay) \/ JSAddTimer(op, delay)
        PROVE  resources' = resources
    BY <2>2 DEF UserEnqueue, JSAddTimer
  <2>3. ASSUME ClearJSTimer \/ UserCancel \/ UserReload \/ UserClose
        PROVE  resources' = resources
    BY <2>3 DEF ClearJSTimer, UserCancel, UserReload, UserClose, BeginDisposal
  <2> QED BY <1>3, <2>1, <2>2, <2>3 DEF UserActs
<1>4. CASE UserReturns
  BY <1>4 DEF UserReturns, UserCloseOnce, StartTimer, TimerReturns, BodyReturns,
     RunTaskReturns, InstallerReturns, BeginDisposal
<1>5. CASE Disposing
  BY <1>5 DEF Disposing, CloseResource, InitializeGeneration, ReloadReturns, CloseFinishes
<1> QED BY <1>2, <1>3, <1>4, <1>5, ClientsApart DEF Next, Owner

\* The pump runs on a stack without disposals.
LEMMA PumpsWhole == ASSUME Inv, Pumping PROVE Whole(stack) /\ ~Disposes
<1>1. stack # <<>> /\ Running(Loops) /\ Top.fn # "resource" /\ Top.pc \notin Shut
  BY DEF Pumping, OwnerReceives, OwnerReturns, RunReturns, PumpOnce, DrainCommands, Drained,
         NotRunning, RunTask, FireDueTimer, RunJobs, JobsReturn, RunIsIdle, RunHasWork, WaitForWork,
         CanWork, At, Running, Loops, Shut
<1>2. Whole(stack)
  BY <1>1, WholeTop
<1> QED BY <1>2, TornStack

LEMMA NoResourcesStep ==
    ASSUME ClosedInv, ShutOK, [Next]_vars, ctx' = 0
    PROVE  resources' = <<>>
<1>1. Inv
  BY DEF ClosedInv
<1>2. CASE DisposeContext
  BY <1>2 DEF DisposeContext
<1>3. CASE InitializeGeneration
  <2>1. generation \in Nat
    BY <1>1 DEF Inv, TypeOK, StateTypes
  <2>2. Top.pc = "init" /\ stack # <<>> /\ Len(stack) \in DOMAIN stack
    BY <1>1, <1>3, SeqFacts DEF InitializeGeneration, At, Running
  <2> QED BY <1>3, <2>1 DEF InitializeGeneration, FailReload, ShutOK
<1>4. CASE ctx' = ctx /\ ~DisposeContext
  <2>1. ctx = 0 /\ resources = <<>> /\ (closed \/ ~Whole(stack))
    BY <1>4 DEF ShutOK
  <2>2. ~UserRegisterResource
    BY <2>1 DEF UserRegisterResource, IsOwner
  <2>3. ~(~IsClosed /\ Pumping)
    BY <1>1, <2>1, PumpsWhole DEF IsClosed
  <2> QED BY <1>4, <2>1, <2>2, <2>3, ResourcesStep
<1> QED BY <1>2, <1>3, <1>4, ContextStep

\* A loop becomes closed by a disposal.
LEMMA CloseDisposes ==
    ASSUME ClosedInv, StateOK, [Next]_vars, state' = "Closed"
    PROVE  state = "Closed" \/ Disposes'
<1>1. Inv
  BY DEF ClosedInv
<1>2. ASSUME NEW s \in Seq(Frame), Receive(s) PROVE state' = state \/ state' # "Closed" \/ Disposes'
  <2>1. HandleCommand(Head(commands), s)
    BY <1>2 DEF Receive
  <2>2. Head(commands).client \in Owners
    <3>1. Head(commands) \in Command
      BY <1>1, <1>2, StatePlaces DEF Receive
    <3> QED BY <3>1 DEF Command
  <2>3. CASE HandleClose(Head(commands), s)
    <3>1. state' = state \/ BeginDisposal("close", Head(commands).client, s)
      BY <2>3 DEF HandleClose
    <3> QED BY <1>1, <2>2, <3>1, DisposalShuts DEF Disposals
  <2>4. CASE ~HandleClose(Head(commands), s)
    BY <2>1, <2>4 DEF HandleCommand, HandleSchedule, HandleAddTimer, HandleStartStop,
             HandleDo, HandleRun, EnterRun, HandleRegisterResource, HandleReload
  <2> QED BY <2>3, <2>4
<1>3. CASE Pumping
  <2>1. Running(Loops)
    BY <1>3 DEF Pumping, OwnerReceives, OwnerReturns, RunReturns, PumpOnce, DrainCommands, Drained,
         NotRunning, RunTask, FireDueTimer, RunJobs, JobsReturn, RunIsIdle, RunHasWork, WaitForWork,
         CanWork, At, Running, Loops
  <2>2. stack # <<>> /\ Top \in Frame /\ Below \in Seq(Frame) /\ stack \in Seq(Frame)
        /\ GoTo("top") \in Seq(Frame)
    BY <2>1, LoopTop DEF Points
  <2>3. PICK f : f = [Top EXCEPT !.progressed = TRUE]
    OBVIOUS
  <2>4. f \in Frame
    BY <2>2, <2>3 DEF Frame
  <2>5. Append(Below, f) \in Seq(Frame)
    BY <2>2, <2>4
  <2> QED BY <1>2, <1>3, <2>2, <2>3, <2>5 DEF Pumping, OwnerReceives, OwnerReturns, RunReturns,
     PumpOnce, DrainCommands, Drained, NotRunning, RunTask, FireDueTimer, RunJobs, JobsReturn, RunIsIdle,
     RunHasWork, WaitForWork, OnlyStack
<1>4. CASE UserActs
  BY <1>4 DEF UserActs, UserStartStop, UserDo, UserRun, EnterRun, UserCallsItself,
     UserEnqueue, JSAddTimer, ClearJSTimer, UserCancel, UserRegisterResource, UserReload, UserClose
<1>5. CASE UserCloseOnce
  <2>1. stack # <<>>
    BY <1>5 DEF UserCloseOnce, At, Running
  <2>2. GoTo("body") \in Seq(Frame)
    <3>1. PICK f : f = [Top EXCEPT !.pc = "body"]
      OBVIOUS
    <3>2. f \in Frame /\ Below \in Seq(Frame)
      BY <1>1, <2>1, <3>1, SeqFacts DEF Frame, Points
    <3>3. Append(Below, f) \in Seq(Frame)
      BY <3>2
    <3> QED BY <3>1, <3>3 DEF GoTo
  <2>3. state' = state \/ BeginDisposal("close", None, GoTo("body"))
    BY <1>5 DEF UserCloseOnce
  <2> QED BY <1>1, <2>2, <2>3, DisposalShuts DEF Disposals, Owners
<1>6. CASE UserReturns /\ ~UserCloseOnce
  <2>1. CASE \E err \in BOOLEAN : InstallerReturns(err)
    <3>1. state' = state \/ FailReload(Below)
      BY <2>1 DEF InstallerReturns
    <3>2. stack # <<>> /\ Top.fn = "installer"
      BY <2>1 DEF InstallerReturns, At, Running
    <3>3. Below \in Seq(Frame) /\ Below # <<>>
      BY <1>1, <3>2, SeqFacts, SettledUnderCalled
    <3> QED BY <1>1, <3>1, <3>3, FailureShuts
  <2> QED BY <1>6, <2>1 DEF UserReturns, StartTimer, TimerReturns, BodyReturns, RunTaskReturns
<1>7. CASE Disposing
  <2>1. CASE InitializeGeneration
    <3>1. stack # <<>> /\ (state' = state \/ FailReload(stack))
      BY <2>1 DEF InitializeGeneration, At, Running
    <3> QED BY <1>1, <3>1, SeqFacts, FailureShuts
  <2>2. CASE ReloadReturns
    <3>1. stack # <<>> /\ (Top.fn = "reload" => Top.prev # "Closed")
      BY <1>1, <2>2, ReopensTop DEF ReloadReturns, At, Running
    <3> QED BY <2>2, <3>1 DEF ReloadReturns
  <2> QED BY <1>7, <2>1, <2>2 DEF Disposing, CloseResource, DisposeContext, CloseFinishes
<1> QED BY <1>3, <1>4, <1>5, <1>6, <1>7, ClientsApart DEF Next, Owner

\* What is empty stays so.
LEMMA EmptyStays ==
    ASSUME state = "Closed", Emptied, [Next]_vars
    PROVE  tasks' = <<>> /\ timers' = {} /\ jsTimers' = {}
<1>1. ctx = 0 /\ tasks = <<>> /\ timers = {} /\ jsTimers = {} /\ Kept = {}
  BY KeptType DEF Emptied
<1>2. ASSUME NEW s, Receive(s) PROVE tasks' = <<>> /\ timers' = {} /\ jsTimers' = {}
  <2>1. HandleCommand(Head(commands), s)
    BY <1>2 DEF Receive
  <2> QED BY <1>1, <2>1 DEF HandleCommand, HandleSchedule, TasksWith, HandleAddTimer,
             HandleStartStop, HandleDo, HandleRun, HandleRegisterResource, HandleReload,
             HandleClose, BeginDisposal, DropWork
<1>3. CASE Pumping
  BY <1>1, <1>2, <1>3 DEF Pumping, OwnerReceives, OwnerReturns, RunReturns, PumpOnce,
     DrainCommands, Drained, NotRunning, RunTask, FireDueTimer, CanWork, RunJobs, JobsReturn, RunIsIdle,
     RunHasWork, WaitForWork, OnlyStack
<1>4. CASE UserActs
  BY <1>1, <1>4 DEF UserActs, UserStartStop, UserDo, UserRun, UserCallsItself,
     UserEnqueue, JSAddTimer, ClearJSTimer, UserCancel, UserRegisterResource, UserReload, UserClose,
     BeginDisposal, DropWork
<1>5. CASE UserReturns
  BY <1>1, <1>5 DEF UserReturns, UserCloseOnce, BeginDisposal, StartTimer, TimerReturns,
     ForgetJSTimer, BodyReturns, RunTaskReturns, InstallerReturns, FailReload, DropWork
<1>6. CASE Disposing
  BY <1>1, <1>6 DEF Disposing, CloseResource, DisposeContext, InitializeGeneration, FailReload,
     DropWork, ReloadReturns, CloseFinishes
<1> QED BY <1>1, <1>3, <1>4, <1>5, <1>6, ClientsApart DEF Next, Owner

LEMMA EmptiedStep ==
    ASSUME ClosedInv, StateOK, Cleared, ShutOK, [Next]_vars, state' = "Closed"
    PROVE  Emptied' \/ Disposes'
<1>1. Inv
  BY DEF ClosedInv
<1>2. CASE state # "Closed"
  BY <1>2, CloseDisposes
<1>3. CASE state = "Closed" /\ Emptied
  <2>1. closed
    BY <1>3 DEF StateOK
  <2> QED BY <1>3, <2>1, EmptyStays, ClosedStep DEF Emptied
<1>4. CASE state = "Closed" /\ Disposes /\ ~DisposeContext
  BY <1>1, <1>4, DisposesStep
<1>5. CASE DisposeContext
  <2>1. stack # <<>> /\ Top.pc = "resources" /\ Len(stack) \in DOMAIN stack
    BY <1>1, <1>5, SeqFacts DEF DisposeContext, At, Running
  <2>2. timers = {} /\ jsTimers = {}
    BY <1>1, <2>1, TornStack DEF Cleared, Top, Shut
  <2>3. tasks = <<>>
    BY <1>1, <2>1 DEF Inv, StackOK, FrameOK, Top
  <2> QED BY <1>5, <2>2, <2>3 DEF DisposeContext, Emptied
<1> QED BY <1>2, <1>3, <1>4, <1>5 DEF ShutOK

\* The owner returns once, when the loop is closed, and does nothing after that.
LEMMA NoOwner == ASSUME stack = <<>> PROVE ~Owner
<1>1. ~Pumping
  BY DEF Pumping, OwnerReceives, OwnerReturns, RunReturns, PumpOnce, DrainCommands, Drained,
     NotRunning, RunTask, FireDueTimer, RunJobs, JobsReturn, RunIsIdle, RunHasWork, WaitForWork, CanWork, At,
     Running
<1>2. ~UserReturns /\ ~Disposing
  BY DEF UserReturns, UserCloseOnce, StartTimer, TimerReturns, BodyReturns, RunTaskReturns,
     InstallerReturns, Disposing, CloseResource, DisposeContext, InitializeGeneration,
     ReloadReturns, CloseFinishes, At, Running
<1> QED BY <1>1, <1>2, ActingStack DEF Owner

LEMMA OwnerDone ==
    ASSUME Owner
    PROVE  done' = done \/ (OwnerReturns /\ done' /\ state = "Closed" /\ state' = state)
<1>1. ASSUME NEW s, Receive(s) PROVE done' = done
  BY <1>1 DEF Receive, HandleCommand
<1>2. CASE Pumping
  BY <1>1, <1>2 DEF Pumping, OwnerReceives, OwnerReturns, RunReturns, PumpOnce, DrainCommands,
     Drained, NotRunning, RunTask, FireDueTimer, RunJobs, JobsReturn, RunIsIdle, RunHasWork, WaitForWork,
     OnlyStack
<1>3. CASE UserActs
  BY <1>3 DEF UserActs, UserStartStop, UserDo, UserRun, UserCallsItself, UserEnqueue, JSAddTimer,
     ClearJSTimer, UserCancel, UserRegisterResource, UserReload, UserClose
<1>4. CASE UserReturns
  BY <1>4 DEF UserReturns, UserCloseOnce, StartTimer, TimerReturns, BodyReturns,
     RunTaskReturns, InstallerReturns
<1>5. CASE Disposing
  BY <1>5 DEF Disposing, CloseResource, DisposeContext, InitializeGeneration, ReloadReturns,
     CloseFinishes
<1> QED BY <1>2, <1>3, <1>4, <1>5 DEF Owner

LEMMA DoneStep ==
    ASSUME CallsInv, done => state = "Closed", [Next]_vars
    PROVE  (done' => state' = "Closed") /\ (done => done')
<1>1. CASE Owner
  <2>1. ~done
    BY <1>1, NoOwner DEF CallsInv, CallsOK
  <2> QED BY <1>1, <2>1, OwnerDone
<1>2. CASE ~Owner
  BY <1>2, ClientsApart DEF Next
<1> QED BY <1>1, <1>2

\* The owner replies; it does not move its callers on.
LEMMA OwnerCalls == ASSUME Owner PROVE cl' = cl
<1>1. ASSUME NEW s, Receive(s) PROVE cl' = cl
  BY <1>1 DEF Receive, HandleCommand
<1>2. ASSUME Pumping PROVE cl' = cl
  BY <1>1, <1>2 DEF Pumping, OwnerReceives, OwnerReturns, RunReturns, PumpOnce, DrainCommands,
     Drained, NotRunning, RunTask, FireDueTimer, RunJobs, JobsReturn, RunIsIdle, RunHasWork, WaitForWork,
     OnlyStack
<1>3. ASSUME UserActs PROVE cl' = cl
  BY <1>3 DEF UserActs, UserStartStop, UserDo, UserRun, UserCallsItself, UserEnqueue,
     JSAddTimer, ClearJSTimer, UserCancel, UserRegisterResource, UserReload, UserClose
<1>4. ASSUME UserReturns \/ Disposing PROVE cl' = cl
  BY <1>4 DEF UserReturns, UserCloseOnce, StartTimer, TimerReturns, BodyReturns, RunTaskReturns,
     InstallerReturns, Disposing, CloseResource, DisposeContext, InitializeGeneration,
     ReloadReturns, CloseFinishes
<1> QED BY <1>2, <1>3, <1>4 DEF Owner

LEMMA CloseReturnsDone ==
    ASSUME CallsInv, done => state = "Closed", [Next]_vars,
           \A c \in Clients : cl[c].pc = "idle" /\ cl[c].op = "Close" => done
    PROVE  \A c \in Clients : cl'[c].pc = "idle" /\ cl'[c].op = "Close" => done'
<1>1. cl \in [Clients -> CallState] /\ (done => done')
  BY SeqFacts, DoneStep DEF CallsInv
<1>2. CASE cl' = cl
  BY <1>1, <1>2
<1>3. ASSUME NEW c \in Clients, NEW v, cl' = [cl EXCEPT ![c] = v],
             v.pc = "idle" /\ v.op = "Close" => done
      PROVE  \A d \in Clients : cl'[d].pc = "idle" /\ cl'[d].op = "Close" => done'
  <2>1. cl'[c] = v /\ \A d \in Clients : d # c => cl'[d] = cl[d]
    BY <1>1, <1>3
  <2> QED BY <1>1, <1>3, <2>1
<1>4. ASSUME NEW c \in Clients, NEW op \in Ops,
             BeginCall(c, op) \/ \E delay \in 0..1 : BeginEnqueue(c, op, delay)
      PROVE  \A d \in Clients : cl'[d].pc = "idle" /\ cl'[d].op = "Close" => done'
  <2>1. op # "Close"
    BY <1>4 DEF BeginCall, BeginEnqueue, GuardedCalls, ContextCalls, Enqueues
  <2>2. \E v : cl' = [cl EXCEPT ![c] = v] /\ v.op = op
    <3>1. PICK pc, m, r : cl' = [cl EXCEPT ![c] = Call(pc, op, m, r)]
      BY <1>4 DEF BeginCall, BeginEnqueue
    <3>2. Call(pc, op, m, r).op = op
      BY DEF Call
    <3> QED BY <3>1, <3>2
  <2> QED BY <1>3, <2>1, <2>2
<1>5. ASSUME NEW c \in Clients, BeginClose(c)
      PROVE  \A d \in Clients : cl'[d].pc = "idle" /\ cl'[d].op = "Close" => done'
  <2>1. PICK v : cl' = [cl EXCEPT ![c] = v] /\ v = Call("once", "Close", NoItem, "none")
    BY <1>5 DEF BeginClose
  <2>2. v.pc = "once"
    BY <2>1 DEF Call
  <2> QED BY <1>3, <2>1, <2>2
<1>6. ASSUME NEW c \in Clients, Client(c)
      PROVE  \A d \in Clients : cl'[d].pc = "idle" /\ cl'[d].op = "Close" => done'
  <2>1. \/ \E r : cl' = Return(c, r) /\ (cl[c].op # "Close" \/ done)
        \/ \E pc \in {"await", "waitdone", "send"} : cl' = Goto(c, pc)
    BY <1>6 DEF Client, Send, Await, Enqueue, CloseOnce, CloseReturns, Done, Enqueues
  <2>2. ASSUME NEW r, cl' = Return(c, r), cl[c].op # "Close" \/ done
        PROVE  \E v : cl' = [cl EXCEPT ![c] = v] /\ (v.pc = "idle" /\ v.op = "Close" => done)
    <3>1. PICK v : v = Call("idle", cl[c].op, NoItem, r)
      OBVIOUS
    <3>2. cl' = [cl EXCEPT ![c] = v] /\ v.op = cl[c].op
      BY <2>2, <3>1 DEF Return, Call
    <3> QED BY <2>2, <3>2
  <2>3. ASSUME NEW pc \in {"await", "waitdone", "send"}, cl' = Goto(c, pc)
        PROVE  \E v : cl' = [cl EXCEPT ![c] = v] /\ (v.pc = "idle" /\ v.op = "Close" => done)
    <3>1. PICK v : cl' = [cl EXCEPT ![c] = v] /\ v.pc = pc
      BY <2>3, CallGoesOn
    <3> QED BY <3>1
  <2> QED BY <1>3, <2>1, <2>2, <2>3
<1>7. CASE \E c \in Clients : Caller(c) \/ Client(c)
  BY <1>2, <1>4, <1>5, <1>6, <1>7 DEF Caller, CancelTimer
<1>8. CASE Owner
  BY <1>2, <1>8, OwnerCalls
<1>9. CASE Tick \/ Quiet \/ UNCHANGED vars
  BY <1>2, <1>9 DEF Tick, Quiet, vars
<1> QED BY <1>7, <1>8, <1>9 DEF Next

LEMMA ShutStep ==
    ASSUME WorkInv, Cleared, ShutOK, [Next]_vars
    PROVE  ShutOK'
<1>1. CallsInv /\ ClosedInv /\ StateOK
  BY DEF WorkInv, WorkOK
<1>2. /\ ctx = 0 => closed \/ ~Whole(stack)
      /\ closed => state # "Running"
      /\ done => state = "Closed"
      /\ \A c \in Clients : cl[c].pc = "idle" /\ cl[c].op = "Close" => done
  BY DEF ShutOK
<1>3. ctx' = 0 => closed' \/ ~Whole(stack')
  BY <1>1, <1>2, NoContextStep
<1>4. ctx' = 0 => resources' = <<>>
  BY <1>1, NoResourcesStep
<1>5. closed' => state' # "Running"
  BY <1>2, PausedStep
<1>6. state' = "Closed" => Emptied' \/ Disposes'
  BY <1>1, EmptiedStep
<1>7. done' => state' = "Closed"
  BY <1>1, <1>2, DoneStep
<1>8. \A c \in Clients : cl'[c].pc = "idle" /\ cl'[c].op = "Close" => done'
  BY <1>1, <1>2, CloseReturnsDone
<1> QED BY <1>3, <1>4, <1>5, <1>6, <1>7, <1>8 DEF ShutOK

-------------------------------------------------------------------------------
\* A resource is accepted once.

IsRes(x) == x.kind = "RegisterResource"
AcceptedOnce == \A i, j \in DOMAIN accepted :
                  IsRes(accepted[i]) /\ accepted[i].id = accepted[j].id => i = j
Unaccepted(x) == \A a \in AcceptedItems : a.id # x.id
RegisterOnce ==
    /\ AcceptedOnce
    /\ \A x \in HandItems : IsRes(x) => Unaccepted(x)
    /\ \A k \in DOMAIN commands : commands[k].op = "RegisterResource" =>
         /\ Unaccepted(commands[k].item)
         /\ \A l \in DOMAIN commands :
              commands[l].op \in Carries /\ commands[l].item.id = commands[k].item.id => k = l

\* What becomes of the channel, of the accepted items and of the items in the clients'
\* hands: a command is taken or one without an item is sent; an item is made; a client's
\* item is sent; or a resource is registered.
Sent1(v) == commands' = Append(commands, v) /\ v \in Command
Taken1   == commands # <<>> /\ commands' = Tail(commands)
Moves0 ==
    /\ accepted' = accepted /\ HandItems' \subseteq HandItems
    /\ commands' = commands \/ Taken1 \/ \E v : Sent1(v) /\ v.op \notin Carries
MovesNew(n) ==
    /\ IsNew(n) /\ n \in Item
    /\ \/ UNCHANGED <<commands, accepted>> /\ HandItems' \subseteq HandItems \cup {n}
       \/ /\ HandItems' \subseteq HandItems /\ accepted' = Append(accepted, n)
          /\ commands' = commands \/ \E v : Sent1(v) /\ v.item = n /\ v.op # "RegisterResource"
MovesHand(x) ==
    /\ HandsOver(x) /\ x \in Item
    /\ \E v : Sent1(v) /\ v.item = x /\ v.op = x.kind
    /\ accepted' = accepted \/ (accepted' = Append(accepted, x) /\ ~IsRes(x))
MovesCommand ==
    /\ Taken1 /\ Head(commands).op = "RegisterResource" /\ HandItems' = HandItems
    /\ accepted' = Append(accepted, Head(commands).item)
Moves == \/ Moves0 \/ MovesCommand
         \/ \E x : MovesNew(x) \/ MovesHand(x)

LEMMA HandsMove ==
    ASSUME Inv, Effect
    PROVE  HandItems' \subseteq HandItems
           \/ \E n \in Item : IsNew(n) /\ HandItems' \subseteq HandItems \cup {n}
<1>1. CASE \E x \in Item : Begins(x)
  BY <1>1 DEF Begins
<1>2. CASE ~\E x \in Item : Begins(x)
  BY <1>2 DEF Effect, Quietly, Discards, Drops, Leaves, Sends, Refused, HandsOver, Cancels, Queues,
     Arms, Registers, Posts, AddsJS, RunsTask, Pops, ClearsJS, Starts, Returns
<1> QED BY <1>1, <1>2

LEMMA ClientMoves ==
    ASSUME Inv, KindsOK, NEW c \in Clients, Caller(c) \/ Client(c)
    PROVE  Moves
<1>1. CASE Send(c) \/ Enqueue(c)
  <2> DEFINE m == cl[c].item
             cmd == [op |-> cl[c].op, client |-> c, item |-> m]
  <2>1. cl \in [Clients -> CallState] /\ m \in Item /\ cmd \in Command
        /\ cmd.op = cl[c].op /\ cmd.item = m
    BY SeqFacts DEF CallState, Command, Owners
  <2>2. PICK v : cl' = [cl EXCEPT ![c] = v] /\ v.pc # "send"
    <3>1. cl' = Goto(c, "await") \/ \E r : cl' = Return(c, r)
      BY <1>1 DEF Send, Enqueue
    <3> QED BY <3>1, CallGoesOn, CallReturns
  <2>3. \/ UNCHANGED <<commands, accepted>>
        \/ commands' = Append(commands, cmd) /\ UNCHANGED accepted /\ cl[c].op \notin Enqueues
        \/ commands' = Append(commands, cmd) /\ accepted' = Append(accepted, m) /\ cl[c].op \in Enqueues
    BY <1>1 DEF Send, Enqueue
  <2>4. cl[c].op \in Carries => Holds(c) /\ m.kind = cl[c].op
    BY <1>1 DEF Send, Enqueue, Holds, KindsOK
  <2>5. HandItems' \subseteq HandItems /\ (Holds(c) => HandsOver(m))
    <3>1. NowHolds(c, v)
      BY <2>2, HandsExcept
    <3> QED BY <2>2, <3>1 DEF NowHolds, HandsOver
  <2> HIDE DEF m, cmd
  <2>6. CASE UNCHANGED <<commands, accepted>>
    BY <2>5, <2>6 DEF Moves, Moves0
  <2>7. CASE commands' = Append(commands, cmd) /\ cl[c].op \notin Carries
    <3>1. accepted' = accepted
      BY <2>3, <2>7 DEF Carries
    <3> QED BY <2>1, <2>5, <2>7, <3>1 DEF Moves, Moves0, Sent1
  <2>8. CASE commands' = Append(commands, cmd) /\ cl[c].op \in Carries
    <3>1. accepted' = accepted \/ (accepted' = Append(accepted, m) /\ ~IsRes(m))
      BY <2>3, <2>4, <2>8 DEF IsRes, Enqueues
    <3>2. MovesHand(m)
      BY <2>1, <2>4, <2>5, <2>8, <3>1 DEF MovesHand, Sent1
    <3> QED BY <3>2 DEF Moves
  <2> QED BY <2>3, <2>6, <2>7, <2>8
<1>2. CASE ~(Send(c) \/ Enqueue(c))
  <2>1. UNCHANGED <<commands, accepted>>
    BY <1>2 DEF Caller, Client, BeginCall, BeginEnqueue, CancelTimer, BeginClose, Await, CloseOnce,
       CloseReturns
  <2>2. Effect
    BY ClientEffect
  <2> QED BY <2>1, <2>2, HandsMove DEF Moves, Moves0, MovesNew
<1> QED BY <1>1, <1>2

LEMMA OwnerMoves ==
    ASSUME Inv, Owner
    PROVE  Moves
<1>1. HandItems' = HandItems
  BY OwnerCalls DEF HandItems, Holds
<1>2. ASSUME accepted' = accepted, commands' = commands PROVE Moves
  BY <1>1, <1>2 DEF Moves, Moves0
<1>3. ASSUME NEW s, Receive(s) PROVE Moves
  <2>1. Taken1 /\ HandleCommand(Head(commands), s)
    BY <1>3 DEF Receive, Taken1
  <2>2. CASE accepted' = accepted
    BY <1>1, <2>1, <2>2 DEF Moves, Moves0
  <2>3. CASE accepted' # accepted
    <3>1. Head(commands).op = "RegisterResource" /\ accepted' = Append(accepted, Head(commands).item)
      BY <2>1, <2>3 DEF HandleCommand, HandleSchedule, HandleAddTimer, HandleStartStop,
             HandleDo, HandleRun, HandleRegisterResource, HandleReload, HandleClose
    <3> QED BY <1>1, <2>1, <3>1 DEF Moves, MovesCommand
  <2> QED BY <2>2, <2>3
<1>4. CASE Pumping
  BY <1>2, <1>3, <1>4 DEF Pumping, OwnerReceives, OwnerReturns, RunReturns, PumpOnce,
     DrainCommands, Drained, NotRunning, RunTask, FireDueTimer, RunJobs, JobsReturn, RunIsIdle, RunHasWork,
     WaitForWork, OnlyStack
<1>5. ASSUME NEW op \in Ops, NEW delay \in 0..1, UserEnqueue(op, delay) PROVE Moves
  <2>1. PICK n : n = NewItem(op, delay, Maker)
    OBVIOUS
  <2>2. PICK v : v = [op |-> op, client |-> None, item |-> n]
    OBVIOUS
  <2>3. n \in Item /\ v \in Command /\ v.item = n /\ v.op = op
    BY <2>1, <2>2, NewItemType, MakerFacts DEF Inv, Owners, Command
  <2>4. op \in Enqueues /\ op \in UsedOps /\ nextID < MaxItems /\ nextID' = nextID + 1
        /\ n.id = nextID + 1 /\ n.gen = generation /\ n.kind = op
    BY <1>5, <2>1, ActingTop DEF UserEnqueue, MayCreate, NewItem
  <2>5. IsNew(n)
    BY <2>4 DEF IsNew
  <2>6. \/ commands' = Append(commands, v) /\ accepted' = Append(accepted, n)
        \/ UNCHANGED <<commands, accepted>>
    BY <1>5, <2>1, <2>2 DEF UserEnqueue
  <2>7. op # "RegisterResource"
    BY <2>4 DEF Enqueues
  <2>8. MovesNew(n) \/ Moves0
    BY <1>1, <2>3, <2>5, <2>6, <2>7 DEF MovesNew, Moves0, Sent1
  <2> QED BY <2>8 DEF Moves
<1>6. ASSUME NEW op \in Ops, NEW delay \in 0..1, JSAddTimer(op, delay) PROVE Moves
  <2>1. PICK n : n = NewItem(op, delay, Maker)
    OBVIOUS
  <2>2. n \in Item
    BY <2>1, NewItemType, MakerFacts DEF Inv, Owners
  <2>3. op \in UsedOps /\ nextID < MaxItems /\ nextID' = nextID + 1
        /\ n.id = nextID + 1 /\ n.gen = generation /\ n.kind = op
    BY <1>6, <2>1, ActingTop DEF JSAddTimer, MayCreate, NewItem
  <2>4. accepted' = Append(accepted, n) /\ commands' = commands
    BY <1>6, <2>1 DEF JSAddTimer
  <2> QED BY <1>1, <2>2, <2>3, <2>4 DEF Moves, MovesNew, IsNew
<1>7. ASSUME UserRegisterResource PROVE Moves
  <2>1. PICK n : n = NewItem("RegisterResource", 0, None)
    OBVIOUS
  <2>2. n \in Item
    BY <2>1, NewItemType, MakerFacts, OpsAreOps DEF Inv, Owners, Ops, GuardedCalls
  <2>3. "RegisterResource" \in UsedOps /\ nextID < MaxItems /\ nextID' = nextID + 1
        /\ n.id = nextID + 1 /\ n.gen = generation /\ n.kind = "RegisterResource"
    <3>1. "RegisterResource" \in Ops
      BY DEF Ops, GuardedCalls
    <3> QED BY <1>7, <2>1, <3>1, ActingTop DEF UserRegisterResource, NewItem
  <2>4. accepted' = Append(accepted, n) /\ commands' = commands
    BY <1>7, <2>1 DEF UserRegisterResource
  <2> QED BY <1>1, <2>2, <2>3, <2>4 DEF Moves, MovesNew, IsNew
<1>8. ASSUME NEW op \in Ops, UserCallsItself(op) PROVE Moves
  <2>1. PICK v : v = [op |-> op, client |-> None, item |-> NoItem]
    OBVIOUS
  <2>2. v \in Command /\ v.op = op /\ op \notin Carries
    BY <1>8, <2>1, NoItemType DEF UserCallsItself, ContextCalls, Carries, Enqueues, Command, Owners
  <2>3. accepted' = accepted /\ (commands' = commands \/ commands' = Append(commands, v))
    BY <1>8, <2>1 DEF UserCallsItself
  <2> QED BY <1>1, <2>2, <2>3 DEF Moves, Moves0, Sent1
<1>9. CASE UserActs
  BY <1>2, <1>5, <1>6, <1>7, <1>8, <1>9 DEF UserActs, UserStartStop, UserDo, UserRun, ClearJSTimer,
     UserCancel, UserReload, UserClose
<1>10. CASE UserReturns \/ Disposing
  BY <1>2, <1>10 DEF UserReturns, UserCloseOnce, StartTimer, TimerReturns, BodyReturns,
     RunTaskReturns, InstallerReturns, Disposing, CloseResource, DisposeContext,
     InitializeGeneration, ReloadReturns, CloseFinishes
<1> QED BY <1>4, <1>9, <1>10 DEF Owner

\* What the channel becomes.
LEMMA SentCommands ==
    ASSUME Inv
    PROVE  /\ commands' = commands => \A k \in DOMAIN commands' : k \in DOMAIN commands /\ commands'[k] = commands[k]
           /\ Taken1 => /\ \A k \in DOMAIN commands' : /\ k + 1 \in DOMAIN commands /\ k + 1 # 1
                                                       /\ commands'[k] = commands[k + 1]
                        /\ 1 \in DOMAIN commands /\ Head(commands) = commands[1]
                        /\ \A k, l \in DOMAIN commands' : k + 1 = l + 1 => k = l
           /\ \A v : Sent1(v) => \A k \in DOMAIN commands' :
                         \/ k \in DOMAIN commands /\ commands'[k] = commands[k]
                         \/ k = Len(commands) + 1 /\ commands'[k] = v
           /\ \A k \in DOMAIN commands : commands[k].op \in Carries => commands[k].item \in SentItems
<1>1. commands \in Seq(Command)
  BY SeqFacts
<1>2. ASSUME Taken1
      PROVE  /\ \A k \in DOMAIN commands' : /\ k + 1 \in DOMAIN commands /\ k + 1 # 1
                                            /\ commands'[k] = commands[k + 1]
             /\ 1 \in DOMAIN commands /\ Head(commands) = commands[1]
             /\ \A k, l \in DOMAIN commands' : k + 1 = l + 1 => k = l
  BY <1>1, <1>2 DEF Taken1
<1>3. ASSUME NEW v, Sent1(v), NEW k \in DOMAIN commands'
      PROVE  \/ k \in DOMAIN commands /\ commands'[k] = commands[k]
             \/ k = Len(commands) + 1 /\ commands'[k] = v
  BY <1>1, <1>3 DEF Sent1
<1> QED BY <1>2, <1>3 DEF SentItems

LEMMA AcceptsOnce ==
    ASSUME Inv, AcceptedOnce, NEW x \in Item, accepted' = Append(accepted, x),
           \A a \in AcceptedItems : a.id = x.id => ~IsRes(a) /\ ~IsRes(x)
    PROVE  AcceptedOnce' /\ AcceptedItems' = AcceptedItems \cup {x}
<1>1. accepted \in Seq(Item)
  BY DEF Inv, TypeOK, HistoryTypes
<1>2. AcceptedItems' = AcceptedItems \cup {x}
  <2>1. ItemsOf(Append(accepted, x)) = ItemsOf(accepted) \cup {x}
    BY <1>1, AppendItems
  <2> QED BY <2>1 DEF AcceptedItems, ItemsOf
<1>3. \A i \in DOMAIN accepted' : \/ i \in DOMAIN accepted /\ accepted'[i] = accepted[i]
                                  \/ i = Len(accepted) + 1 /\ accepted'[i] = x
  BY <1>1
<1>4. \A i \in DOMAIN accepted : accepted[i] \in AcceptedItems
  BY DEF AcceptedItems
<1>5. AcceptedOnce'
  BY <1>3, <1>4 DEF AcceptedOnce
<1> QED BY <1>2, <1>5

LEMMA RegisterOnceStep ==
    ASSUME WorkInv, Private, RegisterOnce, [Next]_vars
    PROVE  RegisterOnce'
<1> DEFINE Commands == \A k \in DOMAIN commands : commands[k].op = "RegisterResource" =>
                         /\ Unaccepted(commands[k].item)
                         /\ \A l \in DOMAIN commands :
                              commands[l].op \in Carries /\ commands[l].item.id = commands[k].item.id => k = l
           Hands == \A x \in HandItems : IsRes(x) => Unaccepted(x)
<1>1. Inv /\ KindsOK /\ IdsOK /\ "RegisterResource" \in Carries
  BY DEF WorkInv, WorkOK, CallsInv, Carries
<1>2. AcceptedOnce /\ Commands /\ Hands
  BY DEF RegisterOnce
<1>3. \A y \in AcceptedItems \cup HandItems \cup SentItems : y.id \in Nat /\ y.id <= nextID /\ y \in Known
  BY <1>1, IdTypes DEF IdsOK, IdOK, Known, Stored
<1>4. \A n, y : IsNew(n) /\ y \in AcceptedItems \cup HandItems \cup SentItems => y.id # n.id
  BY <1>1, <1>3, IdTypes DEF IsNew
<1>5. \A x \in HandItems, y \in SentItems : x.id # y.id
  BY DEF Private, Stored
<1>6. accepted' = accepted => AcceptedItems' = AcceptedItems /\ AcceptedOnce'
  BY <1>2 DEF AcceptedItems, AcceptedOnce
<1>7. Moves
  <2>1. ASSUME Tick \/ Quiet \/ UNCHANGED vars PROVE Moves
    <3>1. cl' = cl /\ commands' = commands /\ accepted' = accepted
      BY <2>1 DEF Tick, Quiet, vars
    <3> QED BY <3>1 DEF Moves, Moves0, HandItems, Holds
  <2> QED BY <1>1, <2>1, ClientMoves, OwnerMoves DEF Next
<1>8. CASE Moves0
  <2>1. AcceptedOnce' /\ AcceptedItems' = AcceptedItems /\ HandItems' \subseteq HandItems
    BY <1>6, <1>8 DEF Moves0
  <2>2. Hands'
    BY <1>2, <2>1 DEF Unaccepted
  <2>3. Commands'
    <3>1. ASSUME commands' = commands PROVE Commands'
      BY <1>2, <2>1, <3>1 DEF Unaccepted
    <3>2. ASSUME Taken1 PROVE Commands'
      BY <1>1, <1>2, <2>1, <3>2, SentCommands DEF Unaccepted
    <3>3. ASSUME NEW v, Sent1(v), v.op \notin Carries PROVE Commands'
      BY <1>1, <1>2, <2>1, <3>3, SentCommands DEF Unaccepted
    <3> HIDE DEF Commands
    <3> QED BY <1>8, <3>1, <3>2, <3>3 DEF Moves0
  <2> QED BY <2>1, <2>2, <2>3 DEF RegisterOnce
<1>9. ASSUME NEW n, MovesNew(n) PROVE RegisterOnce'
  <2>1. IsNew(n) /\ n \in Item
    BY <1>9 DEF MovesNew
  <2>2. CASE UNCHANGED <<commands, accepted>> /\ HandItems' \subseteq HandItems \cup {n}
    <3>1. AcceptedOnce' /\ AcceptedItems' = AcceptedItems
      BY <1>6, <2>2
    <3>2. Hands' /\ Commands'
      BY <1>2, <1>4, <2>1, <2>2, <3>1 DEF Unaccepted
    <3> QED BY <3>1, <3>2 DEF RegisterOnce
  <2>3. CASE HandItems' \subseteq HandItems /\ accepted' = Append(accepted, n)
    <3>1. AcceptedOnce' /\ AcceptedItems' = AcceptedItems \cup {n}
      <4>1. \A a \in AcceptedItems : a.id # n.id
        BY <1>4, <2>1
      <4> QED BY <1>1, <1>2, <2>1, <2>3, <4>1, AcceptsOnce
    <3>2. Hands'
      BY <1>2, <1>4, <2>1, <2>3, <3>1 DEF Unaccepted
    <3>3. ASSUME commands' = commands PROVE Commands'
      BY <1>1, <1>2, <1>4, <2>1, <3>1, <3>3, SentCommands DEF Unaccepted
    <3>4. ASSUME NEW v, Sent1(v), v.item = n, v.op # "RegisterResource" PROVE Commands'
      BY <1>1, <1>2, <1>4, <2>1, <3>1, <3>4, SentCommands DEF Unaccepted
    <3>5. Commands'
      <4>1. commands' = commands \/ \E v : Sent1(v) /\ v.item = n /\ v.op # "RegisterResource"
        <5>1. Len(accepted') # Len(accepted)
          <6>1. accepted \in Seq(Item)
            BY <1>1 DEF Inv, TypeOK, HistoryTypes
          <6> QED BY <2>1, <2>3, <6>1
        <5> QED BY <1>9, <5>1 DEF MovesNew
      <4> HIDE DEF Commands
      <4> QED BY <3>3, <3>4, <4>1
    <3> QED BY <3>1, <3>2, <3>5 DEF RegisterOnce
  <2> QED BY <1>9, <2>2, <2>3 DEF MovesNew
<1>10. ASSUME NEW x, MovesHand(x) PROVE RegisterOnce'
  <2>1. PICK v : Sent1(v) /\ v.item = x /\ v.op = x.kind
    BY <1>10 DEF MovesHand
  <2>2. x \in HandItems /\ HandItems' \subseteq HandItems /\ x \in Item
        /\ \A y \in HandItems' : y.id # x.id
    BY <1>1, <1>3, <1>10 DEF MovesHand, HandsOver, IdsOK, Same
  <2>3. AcceptedOnce' /\ (AcceptedItems' = AcceptedItems \/ (AcceptedItems' = AcceptedItems \cup {x} /\ ~IsRes(x)))
    <3>1. CASE accepted' = accepted
      BY <1>6, <3>1
    <3>2. CASE accepted' = Append(accepted, x) /\ ~IsRes(x)
      <4>1. \A a \in AcceptedItems : a.id = x.id => ~IsRes(a) /\ ~IsRes(x)
        BY <1>1, <1>3, <2>2, <3>2 DEF IdsOK, Same, IsRes
      <4> QED BY <1>1, <1>2, <2>2, <3>2, <4>1, AcceptsOnce
    <3> QED BY <1>10, <3>1, <3>2 DEF MovesHand
  <2>4. Hands'
    BY <1>2, <2>2, <2>3 DEF Unaccepted
  <2>5. IsRes(x) => Unaccepted(x)'
    BY <1>2, <2>2, <2>3 DEF Unaccepted
  <2>6. ASSUME NEW k \in DOMAIN commands', commands'[k].op = "RegisterResource"
        PROVE  /\ \A a \in AcceptedItems' : a.id # commands'[k].item.id
               /\ \A l \in DOMAIN commands' :
                    commands'[l].op \in Carries /\ commands'[l].item.id = commands'[k].item.id => k = l
    <3>1. \A l \in DOMAIN commands' : \/ l \in DOMAIN commands /\ commands'[l] = commands[l]
                                      \/ l = Len(commands) + 1 /\ commands'[l] = v
      BY <1>1, <2>1, SentCommands
    <3>2. \A l \in DOMAIN commands : commands[l].op \in Carries => commands[l].item.id # x.id
      BY <1>1, <1>5, <2>2, SentCommands
    <3>3. CASE k \in DOMAIN commands /\ commands'[k] = commands[k]
      BY <1>1, <1>2, <2>1, <2>3, <2>6, <3>1, <3>2, <3>3 DEF Unaccepted
    <3>4. CASE k = Len(commands) + 1 /\ commands'[k] = v
      <4>1. Unaccepted(x)'
        BY <2>1, <2>5, <2>6, <3>4 DEF IsRes
      <4> QED BY <1>1, <2>1, <3>1, <3>2, <3>4, <4>1 DEF Unaccepted
    <3> QED BY <3>1, <3>3, <3>4
  <2>7. Commands'
    BY <2>6 DEF Unaccepted
  <2> QED BY <2>3, <2>4, <2>7 DEF RegisterOnce
<1>11. CASE MovesCommand
  <2>1. PICK x : x = commands[1].item
    OBVIOUS
  <2>2. /\ 1 \in DOMAIN commands /\ commands[1].op = "RegisterResource" /\ x \in SentItems
        /\ accepted' = Append(accepted, x) /\ HandItems' = HandItems /\ Taken1
    BY <1>1, <1>11, <2>1, SentCommands DEF MovesCommand
  <2>3. Unaccepted(x) /\ x \in Item
    BY <1>1, <1>2, <2>1, <2>2, KnownTypes
  <2>4. AcceptedOnce' /\ AcceptedItems' = AcceptedItems \cup {x}
    BY <1>1, <1>2, <2>2, <2>3, AcceptsOnce DEF Unaccepted
  <2>5. Hands'
    BY <1>2, <1>5, <2>2, <2>4 DEF Unaccepted
  <2>6. Commands'
    <3>1. \A k \in DOMAIN commands : commands[k].op = "RegisterResource" /\ k # 1 => commands[k].item.id # x.id
      BY <1>1, <1>2, <2>1, <2>2
    <3> QED BY <1>1, <1>2, <2>2, <2>4, <3>1, SentCommands DEF Unaccepted
  <2> QED BY <2>4, <2>5, <2>6 DEF RegisterOnce
<1> QED BY <1>7, <1>8, <1>9, <1>10, <1>11 DEF Moves

-------------------------------------------------------------------------------
\* How far a disposal is with the resources: those up to Left are still to be closed.

Shuts(f) == IF f.pc = "resources" THEN {f.idx} ELSE {}
Closing(s) == UNION {Shuts(s[i]) : i \in DOMAIN s}
Left == Closing(stack)

LEMMA ClosingAppend ==
    ASSUME NEW s \in Seq(Frame), NEW f \in Frame
    PROVE  Closing(Append(s, f)) = Closing(s) \cup Shuts(f)
<1> DEFINE t == Append(s, f)
<1>1. /\ DOMAIN t = DOMAIN s \cup {Len(s) + 1} /\ t[Len(s) + 1] = f
      /\ \A i \in DOMAIN s : t[i] = s[i]
  BY AppendSeq
<1> HIDE DEF t
<1>2. Closing(t) \subseteq Closing(s) \cup Shuts(f)
  BY <1>1 DEF Closing
<1>3. Shuts(f) \subseteq Closing(t) /\ Closing(s) \subseteq Closing(t)
  BY <1>1 DEF Closing
<1> QED BY <1>2, <1>3 DEF t

LEMMA ClosingWhole == ASSUME NEW s, Whole(s) PROVE Closing(s) = {} /\ s \in Seq(Frame)
  BY DEF Whole, Closing, Shuts, Shut

LEMMA ClosingTop ==
    ASSUME Inv, stack # <<>>
    PROVE  /\ Left = Closing(Below) \cup Shuts(Top)
           /\ Top.fn # "resource" => Left = Shuts(Top) /\ Closing(Below) = {}
<1>1. /\ stack = Append(Below, Top) /\ Below \in Seq(Frame) /\ Top \in Frame
  BY TopFiring, SeqFacts
<1>2. Closing(Append(Below, Top)) = Closing(Below) \cup Shuts(Top)
  BY <1>1, ClosingAppend
<1>3. Left = Closing(Below) \cup Shuts(Top)
  BY <1>1, <1>2 DEF Left
<1>4. Top.fn # "resource" => Closing(Below) = {}
  BY WholeTop, ClosingWhole
<1> QED BY <1>3, <1>4

LEMMA FallsLeft == ASSUME Falls PROVE Left' = {Len(resources)}
<1>1. PICK s, f : /\ Whole(s) /\ f \in Frame /\ stack' = Append(s, f)
                  /\ f.pc = "resources" /\ f.idx = Len(resources)
  BY DEF Falls
<1>2. Closing(stack') = Closing(s) \cup Shuts(f)
  BY <1>1, ClosingWhole, ClosingAppend
<1> QED BY <1>1, <1>2, ClosingWhole DEF Left, Shuts

\* What a step does to the resources and to the record of those that were closed.
Plainly == \/ accepted' = accepted
           \/ \E x \in Item : accepted' = Append(accepted, x) /\ ~IsRes(x)
Rests == /\ Left' = Left /\ Plainly
         /\ UNCHANGED <<resources, closedLog, ctx, generation>>
Falling == /\ Left = {} /\ Left' = {Len(resources)}
           /\ UNCHANGED <<resources, closedLog, ctx, generation, accepted>>
ClosesOne == \E n \in Nat \ {0} :
    /\ Left = {n} /\ Left' = {n - 1}
    /\ closedLog' = Append(closedLog, [id |-> resources[n].id, at |-> ctx])
    /\ UNCHANGED <<resources, ctx, generation, accepted>>
ClosesAll == /\ Left = {0} /\ Left' = {} /\ resources' = <<>> /\ ctx' = 0
             /\ UNCHANGED <<closedLog, generation, accepted>>
RegistersOne == \E x \in Item :
    /\ Left = {} /\ Left' = {} /\ IsRes(x) /\ Unaccepted(x)
    /\ accepted' = Append(accepted, x) /\ resources' = Append(resources, x)
    /\ UNCHANGED <<closedLog, ctx, generation>>
Renews == /\ Left = {} /\ Left' = {} /\ generation' = generation + 1 /\ ctx' = generation'
          /\ UNCHANGED <<resources, closedLog, accepted>>
Resourcely == Rests \/ Falling \/ ClosesOne \/ ClosesAll \/ RegistersOne \/ Renews

LEMMA DisposalMoves ==
    ASSUME Inv, CloseResource \/ DisposeContext \/ InitializeGeneration
    PROVE  Resourcely
<1>1. stack # <<>> /\ Top.fn \in Disposals /\ Top.fn # "resource"
  BY DEF CloseResource, DisposeContext, InitializeGeneration, At, Running, Disposals
<1>2. /\ Top \in Frame /\ Below \in Seq(Frame) /\ Left = Shuts(Top) /\ Closing(Below) = {}
      /\ Top.idx \in Nat
  BY <1>1, SeqFacts, ClosingTop DEF Frame
<1>3. CASE CloseResource
  <2>1. PICK t : t = Top
    OBVIOUS
  <2>2. PICK n : n = t.idx
    OBVIOUS
  <2>3. PICK f : f = [t EXCEPT !.idx = n - 1]
    OBVIOUS
  <2>4. n \in Nat \ {0} /\ n - 1 \in Nat /\ t.pc = "resources" /\ t \in Frame /\ Left = {n}
    BY <1>2, <1>3, <2>1, <2>2 DEF CloseResource, At, Shuts
  <2>5. f \in Frame /\ f.pc = "resources" /\ f.idx = n - 1
    BY <2>3, <2>4 DEF Frame
  <2>6. PICK g \in Frame : g = NewFrame("resource", "body", None)
    BY NewFrameType DEF Bodies, Points, Owners
  <2>7. PICK s : s = Append(Below, f)
    OBVIOUS
  <2>8. s \in Seq(Frame) /\ Closing(s) = {n - 1}
    BY <1>2, <2>5, <2>7, ClosingAppend DEF Shuts
  <2>9. stack' = Append(s, g) /\ g.pc = "body"
    BY <1>3, <2>1, <2>2, <2>3, <2>6, <2>7 DEF CloseResource, NewFrame
  <2>10. Left' = {n - 1}
    BY <2>8, <2>9, ClosingAppend DEF Left, Shuts
  <2>11. /\ closedLog' = Append(closedLog, [id |-> resources[n].id, at |-> ctx])
         /\ UNCHANGED <<resources, ctx, generation, accepted>>
    BY <1>3, <2>1, <2>2 DEF CloseResource
  <2>12. ClosesOne
    BY <2>4, <2>10, <2>11 DEF ClosesOne
  <2> QED BY <2>12 DEF Resourcely
<1>4. CASE DisposeContext
  <2>1. Top.pc = "resources" /\ Top.idx = 0
    BY <1>4 DEF DisposeContext, At
  <2>2. PICK pc \in {"init", "finish"} : stack' = GoTo(pc)
    BY <1>4 DEF DisposeContext, MoveOn
  <2>3. Whole(Below) /\ Below \in Seq(Frame)
    BY <1>1, WholeTop, SeqFacts
  <2>4. PICK f : f = [Top EXCEPT !.pc = pc]
    OBVIOUS
  <2>5. f \in Frame /\ f.pc # "resources"
    BY <1>2, <2>4 DEF Frame, Points
  <2>6. Left' = {}
    BY <1>2, <2>2, <2>4, <2>5, ClosingAppend DEF Left, GoTo, Shuts
  <2>7. ClosesAll
    BY <1>2, <1>4, <2>1, <2>6 DEF DisposeContext, ClosesAll, Shuts
  <2> QED BY <2>7 DEF Resourcely
<1>5. CASE InitializeGeneration
  <2>1. Top.pc = "init" /\ Left = {}
    BY <1>2, <1>5 DEF InitializeGeneration, At, Shuts
  <2>2. CASE FailReload(stack) /\ UNCHANGED <<generation, ctx>>
    <3>1. Whole(SubSeq(stack, 1, Len(stack) - 1)) /\ stack \in Seq(Frame)
      BY <1>1, WholeTop, SeqFacts DEF Below
    <3>2. Falls
      BY <1>1, <2>2, <3>1, FailureFalls
    <3>3. Falling
      BY <1>5, <2>1, <2>2, <3>2, FallsLeft DEF Falling, InitializeGeneration
    <3> QED BY <3>3 DEF Resourcely
  <2>3. CASE /\ generation' = generation + 1 /\ ctx' = generation + 1
             /\ stack' = Append(GoTo("finish"), NewFrame("installer", "body", None))
    <3>1. Whole(GoTo("finish"))
      BY <1>1, WholeTop DEF Points, Shut
    <3>2. Whole(stack')
      BY <2>3, <3>1, WholeNew DEF Bodies, Points, Shut, Owners
    <3>3. Renews
      BY <1>5, <2>1, <2>3, <3>2, ClosingWhole DEF Renews, InitializeGeneration, Left
    <3> QED BY <3>3 DEF Resourcely
  <2> QED BY <1>5, <2>2, <2>3 DEF InitializeGeneration
<1> QED BY <1>3, <1>4, <1>5

\* Whoever accepts an item other than a resource leaves the resources alone.
Quietest == Plainly /\ UNCHANGED <<resources, closedLog, ctx, generation>>

LEMMA ClientPlain ==
    ASSUME Inv, KindsOK, (\E c \in Clients : Caller(c) \/ Client(c)) \/ Tick \/ Quiet \/ UNCHANGED vars
    PROVE  Quietest /\ stack' = stack
<1>1. stack' = stack /\ UNCHANGED <<resources, ctx, generation>>
  BY ClientsApart
<1>2. ASSUME NEW c \in Clients, Enqueue(c) PROVE Quietest
  <2>1. cl[c].item \in Item /\ cl[c].item.kind = cl[c].op /\ cl[c].op \in Enqueues
    BY <1>2, SeqFacts DEF Enqueue, CallState, KindsOK, Holds, Carries
  <2>2. ~IsRes(cl[c].item)
    BY <2>1 DEF IsRes, Enqueues
  <2> QED BY <1>1, <1>2, <2>1, <2>2 DEF Enqueue, Quietest, Plainly
<1>3. ASSUME NEW c \in Clients, Caller(c) \/ Client(c), ~Enqueue(c) PROVE Quietest
  BY <1>1, <1>3 DEF Caller, Client, BeginCall, BeginEnqueue, CancelTimer, BeginClose, Send, Await,
     CloseOnce, CloseReturns, Quietest, Plainly
<1>4. CASE Tick \/ Quiet \/ UNCHANGED vars
  BY <1>1, <1>4 DEF Tick, Quiet, vars, Quietest, Plainly
<1> QED BY <1>1, <1>2, <1>3, <1>4

LEMMA ReceivePlain ==
    ASSUME WorkInv, RegisterOnce, NEW s \in Seq(Frame), Receive(s)
    PROVE  \/ Quietest /\ accepted' = accepted
           \/ /\ HandleRegisterResource(Head(commands), s) /\ IsRes(Head(commands).item)
              /\ Unaccepted(Head(commands).item) /\ Head(commands).item \in Item
              /\ accepted' = Append(accepted, Head(commands).item)
              /\ resources' = Append(resources, Head(commands).item)
              /\ stack' = s /\ UNCHANGED <<closedLog, ctx, generation>>
<1>1. Inv /\ KindsOK /\ Taken1 /\ HandleCommand(Head(commands), s)
  BY DEF WorkInv, WorkOK, CallsInv, Receive, Taken1
<1>2. PICK cmd : cmd = Head(commands)
  OBVIOUS
<1>3. cmd \in Command /\ 1 \in DOMAIN commands /\ cmd = commands[1]
  <2>1. 1 \in DOMAIN commands /\ cmd = commands[1]
    BY <1>1, <1>2, SentCommands
  <2>2. cmd \in Command
    BY <1>1, <1>2, StatePlaces DEF Taken1
  <2> QED BY <2>1, <2>2
<1>4. CASE HandleRegisterResource(cmd, s) /\ ~IsClosed
  <2>1. IsRes(cmd.item) /\ Unaccepted(cmd.item)
    BY <1>1, <1>3, <1>4 DEF HandleRegisterResource, RegisterOnce, KindsOK, IsRes, Carries
  <2>2. cmd.item \in Item
    BY <1>3 DEF Command
  <2> QED BY <1>1, <1>2, <1>4, <2>1, <2>2 DEF HandleRegisterResource, HandleCommand
<1>5. CASE ~(HandleRegisterResource(cmd, s) /\ ~IsClosed)
  <2>1. UNCHANGED <<accepted, resources, closedLog, ctx, generation>>
    BY <1>1, <1>2, <1>5 DEF HandleCommand, HandleSchedule, HandleAddTimer, HandleStartStop, HandleDo,
             HandleRun, EnterRun, HandleRegisterResource, HandleReload, HandleClose, BeginDisposal
  <2> QED BY <2>1 DEF Quietest, Plainly
<1> QED BY <1>4, <1>5

LEMMA PumpingMoves ==
    ASSUME WorkInv, RegisterOnce, Pumping
    PROVE  Resourcely
<1>1. Inv
  BY DEF WorkInv, CallsInv
<1>2. Whole(stack) /\ (Whole(stack') \/ Falls) /\ Left = {}
  BY <1>1, WholePumping, ClosingWhole DEF Left
<1>3. ASSUME Quietest, accepted' = accepted PROVE Resourcely
  <2>1. CASE Whole(stack')
    <3>1. Rests
      BY <1>2, <1>3, <2>1, ClosingWhole DEF Rests, Quietest, Left
    <3> QED BY <3>1 DEF Resourcely
  <2>2. CASE Falls
    <3>1. Falling
      BY <1>2, <1>3, <2>2, FallsLeft DEF Falling, Quietest
    <3> QED BY <3>1 DEF Resourcely
  <2> QED BY <1>2, <2>1, <2>2
<1>4. ASSUME NEW s \in Seq(Frame), Whole(s), Receive(s) PROVE Resourcely
  <2>1. CASE Quietest /\ accepted' = accepted
    BY <1>3, <2>1
  <2>2. CASE ~(Quietest /\ accepted' = accepted)
    <3>1. PICK x : x = Head(commands).item
      OBVIOUS
    <3>2. /\ IsRes(x) /\ Unaccepted(x) /\ x \in Item /\ stack' = s
          /\ accepted' = Append(accepted, x) /\ resources' = Append(resources, x)
          /\ UNCHANGED <<closedLog, ctx, generation>>
      BY <1>4, <2>2, <3>1, ReceivePlain
    <3>3. Left' = {}
      BY <1>4, <3>2, ClosingWhole DEF Left
    <3>4. RegistersOne
      BY <1>2, <3>2, <3>3 DEF RegistersOne
    <3> QED BY <3>4 DEF Resourcely
  <2> QED BY <2>1, <2>2
<1>5. CASE \E s : Receive(s) /\ Pumping
  <2>1. Running(Loops)
    BY <1>5 DEF Pumping, OwnerReceives, OwnerReturns, RunReturns, PumpOnce, DrainCommands, Drained,
         NotRunning, RunTask, FireDueTimer, RunJobs, JobsReturn, RunIsIdle, RunHasWork, WaitForWork,
         CanWork, At, Running, Loops
  <2>2. stack # <<>> /\ Top.fn # "resource"
    BY <2>1 DEF Running, Loops
  <2>3. /\ Whole(GoTo("top")) /\ stack \in Seq(Frame) /\ Top \in Frame
        /\ \A f \in Frame : f.pc \notin Shut => Whole(Append(Below, f))
    BY <1>1, <2>2, WholeTop, SeqFacts DEF Points, Shut
  <2>4. PICK f : f = [Top EXCEPT !.progressed = TRUE]
    OBVIOUS
  <2>5. At(Loops, "drain") => Whole(Append(Below, f))
    <3>1. f \in Frame /\ f.pc = Top.pc
      BY <2>3, <2>4 DEF Frame
    <3> QED BY <2>3, <3>1 DEF At, Shut
  <2>6. ASSUME OwnerReceives PROVE Resourcely
    BY <1>2, <1>4, <2>3, <2>6 DEF OwnerReceives
  <2>7. ASSUME DrainCommands PROVE Resourcely
    <3>1. Receive(Append(Below, f)) /\ Whole(Append(Below, f))
      BY <2>4, <2>5, <2>7 DEF DrainCommands
    <3> QED BY <1>4, <3>1, ClosingWhole
  <2>8. ASSUME Receive(GoTo("top")) PROVE Resourcely
    BY <1>4, <2>3, <2>8, ClosingWhole
  <2>9. ASSUME ~OwnerReceives, ~DrainCommands, ~Receive(GoTo("top")) PROVE Resourcely
    <3>1. Quietest /\ accepted' = accepted
      BY <1>5, <2>9 DEF Pumping, OwnerReturns, RunReturns, PumpOnce, Drained,
         NotRunning, RunTask, FireDueTimer, RunJobs, JobsReturn, RunIsIdle, RunHasWork, WaitForWork, OnlyStack,
         Quietest, Plainly
    <3> QED BY <1>3, <3>1
  <2> QED BY <2>6, <2>7, <2>8, <2>9
<1>6. CASE ~\E s : Receive(s)
  <2>1. Quietest /\ accepted' = accepted
    BY <1>6 DEF Pumping, OwnerReceives, DrainCommands, OwnerReturns, RunReturns, PumpOnce, Drained,
         NotRunning, RunTask, FireDueTimer, RunJobs, JobsReturn, RunIsIdle, RunHasWork, WaitForWork, OnlyStack,
         Quietest, Plainly
  <2> QED BY <1>3, <2>1
<1> QED BY <1>5, <1>6

\* A Close method registers nothing.
LEMMA UserActsMoves ==
    ASSUME WorkInv, Cleared, RegisterOnce, "RegisterResource" \notin ResourceOps, UserActs
    PROVE  Resourcely
<1>1. Inv /\ IdsOK /\ stack # <<>>
  BY ActingStack DEF WorkInv, WorkOK, CallsInv
<1>2. CASE UserRegisterResource
  <2>1. Top.fn # "resource" /\ Top.pc \in {"body", "jobs"}
    BY <1>2 DEF UserRegisterResource, MayAct, UserOps, At, Loops
  <2>2. Whole(stack)
    BY <1>1, <2>1, WholeTop DEF Shut
  <2>3. PICK n : n = NewItem("RegisterResource", 0, None)
    OBVIOUS
  <2>4. n \in Item /\ IsRes(n) /\ n.id = nextID + 1
    <3>1. "RegisterResource" \in Ops
      BY DEF Ops, GuardedCalls
    <3>2. n \in Item
      BY <1>1, <2>3, <3>1, NewItemType, MakerFacts DEF Inv, Owners
    <3> QED BY <2>3, <3>2 DEF IsRes, NewItem
  <2>5. Unaccepted(n)
    <3>1. \A a \in AcceptedItems : a.id \in Nat /\ a.id <= nextID /\ nextID \in Nat
      BY <1>1, IdTypes DEF IdsOK, IdOK, Known
    <3> QED BY <2>4, <3>1 DEF Unaccepted
  <2>6. /\ accepted' = Append(accepted, n) /\ resources' = Append(resources, n) /\ stack' = stack
        /\ UNCHANGED <<closedLog, ctx, generation>>
    BY <1>2, <2>3 DEF UserRegisterResource
  <2>7. Left = {} /\ Left' = {}
    BY <2>2, <2>6, ClosingWhole DEF Left
  <2>8. RegistersOne
    BY <2>4, <2>5, <2>6, <2>7 DEF RegistersOne
  <2> QED BY <2>8 DEF Resourcely
<1>3. CASE ~UserRegisterResource
  <2>1. ASSUME NEW op \in Ops, NEW delay \in 0..1, UserEnqueue(op, delay) \/ JSAddTimer(op, delay)
        PROVE  Quietest /\ stack' = stack
    <3>1. PICK n : n = NewItem(op, delay, Maker)
      OBVIOUS
    <3>2. n \in Item /\ n.kind = op
      <4>1. n \in Item
        BY <1>1, <3>1, NewItemType, MakerFacts DEF Inv, Owners
      <4> QED BY <3>1, <4>1 DEF NewItem
    <3>3. op # "RegisterResource"
      BY <2>1 DEF UserEnqueue, JSAddTimer, Enqueues, JSTimers
    <3>4. accepted' = accepted \/ accepted' = Append(accepted, n)
      BY <2>1, <3>1 DEF UserEnqueue, JSAddTimer
    <3> QED BY <2>1, <3>2, <3>3, <3>4 DEF UserEnqueue, JSAddTimer, Quietest, Plainly, IsRes
  <2>2. ASSUME ~\E op \in Ops, delay \in 0..1 : UserEnqueue(op, delay) \/ JSAddTimer(op, delay)
        PROVE  Quietest /\ accepted' = accepted
    BY <1>3, <2>2 DEF UserActs, UserStartStop, UserDo, UserRun, EnterRun, UserCallsItself, ClearJSTimer,
       UserCancel, UserReload, UserClose, BeginDisposal, Quietest, Plainly
  <2>3. CASE stack' = stack
    <3>1. Rests
      BY <2>1, <2>2, <2>3 DEF Rests, Quietest, Left
    <3> QED BY <3>1 DEF Resourcely
  <2>4. CASE stack' # stack /\ Whole(stack)
    <3>1. Quietest /\ accepted' = accepted /\ Left = {}
      BY <2>1, <2>2, <2>4, ClosingWhole DEF Left
    <3>2. CASE Whole(stack')
      <4>1. Rests
        BY <3>1, <3>2, ClosingWhole DEF Rests, Quietest, Left
      <4> QED BY <4>1 DEF Resourcely
    <3>3. CASE Falls
      <4>1. Falling
        BY <3>1, <3>3, FallsLeft DEF Falling, Quietest
      <4> QED BY <4>1 DEF Resourcely
    <3> QED BY <1>1, <2>4, <3>2, <3>3, WholeUserActs
  <2> QED BY <1>1, <2>3, <2>4, WholeUserActs
<1> QED BY <1>2, <1>3

LEMMA UserReturnsMoves ==
    ASSUME WorkInv, UserReturns
    PROVE  Resourcely
<1>1. CallsInv /\ Inv /\ stack # <<>>
  BY DEF UserReturns, UserCloseOnce, StartTimer, TimerReturns, BodyReturns, RunTaskReturns,
         InstallerReturns, At, Running, WorkInv, CallsInv
<1>2. Quietest /\ accepted' = accepted
  BY DEF UserReturns, UserCloseOnce, BeginDisposal, StartTimer, TimerReturns, BodyReturns,
     RunTaskReturns, InstallerReturns, Quietest, Plainly
<1>3. CASE Whole(stack) /\ Whole(stack')
  <2>1. Rests
    BY <1>2, <1>3, ClosingWhole DEF Rests, Quietest, Left
  <2> QED BY <2>1 DEF Resourcely
<1>4. CASE Whole(stack) /\ Falls
  <2>1. Falling
    BY <1>2, <1>4, FallsLeft, ClosingWhole DEF Falling, Quietest, Left
  <2> QED BY <2>1 DEF Resourcely
<1>5. CASE Top.fn = "resource" /\ Top.pc = "body" /\ stack' = Below
  <2>1. Left' = Left
    BY <1>1, <1>5, ClosingTop DEF Left, Shuts
  <2>2. Rests
    BY <1>2, <2>1 DEF Rests, Quietest
  <2> QED BY <2>2 DEF Resourcely
<1> QED BY <1>1, <1>3, <1>4, <1>5, WholeUserReturns

LEMMA ResourceStep ==
    ASSUME WorkInv, Cleared, RegisterOnce, "RegisterResource" \notin ResourceOps, [Next]_vars
    PROVE  Resourcely
<1>1. Inv /\ KindsOK
  BY DEF WorkInv, WorkOK, CallsInv
<1>2. CASE Owner
  <2>1. CASE ReloadReturns \/ CloseFinishes
    <3>1. Left = {} /\ Left' = {}
      BY <1>1, <2>1, WholeDisposing, ClosingWhole DEF Left
    <3>2. Rests
      BY <2>1, <3>1 DEF Rests, Plainly, ReloadReturns, CloseFinishes
    <3> QED BY <3>2 DEF Resourcely
  <2> QED BY <1>1, <1>2, <2>1, PumpingMoves, UserActsMoves, UserReturnsMoves, DisposalMoves
          DEF Owner, Disposing
<1>3. CASE ~Owner
  <2>1. Quietest /\ stack' = stack
    BY <1>1, <1>3, ClientPlain DEF Next
  <2>2. Rests
    BY <2>1 DEF Quietest, Rests, Left
  <2> QED BY <2>2 DEF Resourcely
<1> QED BY <1>2, <1>3

-------------------------------------------------------------------------------
\* What is registered and what was closed.

\* The resource id is in a log of closed ones; it is the i-th accepted item.
IsIn(log, id) == \E i \in DOMAIN log : log[i].id = id
Placed(as, i, id) == i \in DOMAIN as /\ IsRes(as[i]) /\ as[i].id = id

\* The list of resources is in the order in which they were accepted, and those still
\* to be closed are the first ones of it.
Listed ==
    \A k \in DOMAIN resources :
      /\ \E i : Placed(accepted, i, resources[k].id)
      /\ IsIn(closedLog, resources[k].id) <=> \E n \in Left : k > n
InOrder ==
    \A k, l \in DOMAIN resources : k < l =>
      \A i, j : Placed(accepted, i, resources[k].id) /\ Placed(accepted, j, resources[l].id) => i < j
\* What was closed under the live context is still in the list.
Logged ==
    \A i \in DOMAIN closedLog :
      /\ closedLog[i].at \in 1..generation /\ \E p : Placed(accepted, p, closedLog[i].id)
      /\ closedLog[i].at = generation /\ ctx # 0 =>
           \E k \in DOMAIN resources : resources[k].id = closedLog[i].id
LogOrder ==
    \A i, j \in DOMAIN closedLog : i < j =>
      /\ closedLog[i].id # closedLog[j].id /\ closedLog[i].at <= closedLog[j].at
      /\ closedLog[i].at = closedLog[j].at =>
           \A p, q : Placed(accepted, p, closedLog[i].id) /\ Placed(accepted, q, closedLog[j].id) => q < p
Reached ==
    \A i \in DOMAIN accepted : IsRes(accepted[i]) =>
      IsIn(closedLog, accepted[i].id) \/ \E k \in DOMAIN resources : resources[k].id = accepted[i].id
ResourcesOK == Listed /\ InOrder /\ Logged /\ LogOrder /\ Reached

\* The places of the resources stay when more is accepted.
LEMMA PlacesStay ==
    ASSUME Inv
    PROVE  /\ Plainly => \A i, id : Placed(accepted', i, id) <=> Placed(accepted, i, id)
           /\ \A x \in Item : accepted' = Append(accepted, x) /\ IsRes(x) =>
                \A i, id : Placed(accepted', i, id) <=> Placed(accepted, i, id) \/ (i = Len(accepted) + 1 /\ id = x.id)
           /\ Len(accepted) \in Nat /\ DOMAIN accepted = 1..Len(accepted)
<1>1. accepted \in Seq(Item)
  BY DEF Inv, TypeOK, HistoryTypes
<1>2. ASSUME NEW x \in Item, accepted' = Append(accepted, x)
      PROVE  /\ DOMAIN accepted' = DOMAIN accepted \cup {Len(accepted) + 1}
             /\ Len(accepted) + 1 \notin DOMAIN accepted
             /\ accepted'[Len(accepted) + 1] = x
             /\ \A i \in DOMAIN accepted : accepted'[i] = accepted[i]
  BY <1>1, <1>2
<1>3. ASSUME Plainly, NEW i, NEW id PROVE Placed(accepted', i, id) <=> Placed(accepted, i, id)
  BY <1>2, <1>3 DEF Plainly, Placed
<1>4. ASSUME NEW x \in Item, accepted' = Append(accepted, x), IsRes(x), NEW i, NEW id
      PROVE  Placed(accepted', i, id) <=> Placed(accepted, i, id) \/ (i = Len(accepted) + 1 /\ id = x.id)
  BY <1>2, <1>4 DEF Placed
<1> QED BY <1>1, <1>3, <1>4

\* Left points into the list.
LEMMA LeftIsListed ==
    ASSUME Inv
    PROVE  \A n \in Left : n \in Nat /\ n <= Len(resources)
<1>1. ASSUME NEW n \in Left PROVE n \in Nat /\ n <= Len(resources)
  <2>1. PICK i \in DOMAIN stack : n \in Shuts(stack[i])
    BY DEF Left, Closing
  <2>2. stack[i].pc = "resources" /\ n = stack[i].idx
    <3>1. PICK f : f = stack[i]
      OBVIOUS
    <3>2. n \in IF f.pc = "resources" THEN {f.idx} ELSE {}
      BY <2>1, <3>1 DEF Shuts
    <3>3. f.pc = "resources" /\ n = f.idx
      BY <3>2
    <3> QED BY <3>1, <3>3
  <2>3. stack[i] \in Frame
    <3>1. stack \in Seq(Frame)
      BY SeqFacts
    <3> QED BY <2>1, <3>1
  <2> QED BY <2>1, <2>2, <2>3, SeqFacts DEF Inv, StackOK, FrameOK, Frame
<1> QED BY <1>1

LEMMA RestsOK == ASSUME Inv, ResourcesOK, Rests PROVE ResourcesOK'
<1>1. \A i, id : Placed(accepted', i, id) <=> Placed(accepted, i, id)
  BY PlacesStay DEF Rests
<1>2. \A id : IsIn(closedLog', id) <=> IsIn(closedLog, id)
  BY DEF Rests, IsIn
<1>3. UNCHANGED <<Left, resources, closedLog, ctx, generation>>
  BY DEF Rests
<1>4. Listed' /\ InOrder' /\ Logged' /\ LogOrder'
  BY <1>1, <1>2, <1>3 DEF ResourcesOK, Listed, InOrder, Logged, LogOrder
<1>5. Reached'
  <2>1. \A i \in DOMAIN accepted' : IsRes(accepted'[i]) => Placed(accepted', i, accepted'[i].id)
    BY DEF Placed
  <2>2. \A i \in DOMAIN accepted' : IsRes(accepted'[i]) =>
          i \in DOMAIN accepted /\ IsRes(accepted[i]) /\ accepted[i].id = accepted'[i].id
    BY <1>1, <2>1 DEF Placed
  <2> QED BY <1>2, <1>3, <2>2 DEF ResourcesOK, Reached
<1> QED BY <1>4, <1>5 DEF ResourcesOK

LEMMA FallingOK == ASSUME Inv, ResourcesOK, Falling PROVE ResourcesOK'
<1>1. UNCHANGED <<resources, closedLog, ctx, generation, accepted>> /\ Left = {} /\ Left' = {Len(resources)}
  BY DEF Falling
<1>2. resources \in Seq(Item)
  BY DEF Inv, TypeOK, StackTypes
<1>3. \A k \in DOMAIN resources : ~(k > Len(resources))
  BY <1>2
<1>4. Listed'
  BY <1>1, <1>3 DEF ResourcesOK, Listed, IsIn, Placed
<1>5. InOrder' /\ Logged' /\ LogOrder' /\ Reached'
  BY <1>1 DEF ResourcesOK, InOrder, Logged, LogOrder, Reached, IsIn, Placed
<1> QED BY <1>4, <1>5 DEF ResourcesOK

LEMMA RenewsOK == ASSUME Inv, ResourcesOK, Renews PROVE ResourcesOK'
<1>1. /\ UNCHANGED <<resources, closedLog, accepted>> /\ Left' = Left
      /\ generation' = generation + 1 /\ generation \in Nat
  BY DEF Renews, Inv, TypeOK, StateTypes
<1>2. \A i, id : Placed(accepted', i, id) <=> Placed(accepted, i, id)
  BY <1>1 DEF Placed
<1>3. Logged'
  BY <1>1, <1>2 DEF ResourcesOK, Logged
<1>4. Listed' /\ InOrder' /\ LogOrder' /\ Reached'
  BY <1>1, <1>2 DEF ResourcesOK, Listed, InOrder, LogOrder, Reached, IsIn
<1> QED BY <1>3, <1>4 DEF ResourcesOK

LEMMA ClosesAllOK == ASSUME Inv, ResourcesOK, ClosesAll PROVE ResourcesOK'
<1>1. /\ UNCHANGED <<closedLog, generation, accepted>> /\ Left = {0}
      /\ resources' = <<>> /\ ctx' = 0
  BY DEF ClosesAll
<1>2. DOMAIN resources' = {}
  BY <1>1
<1>3. (\A i, id : Placed(accepted', i, id) <=> Placed(accepted, i, id)) /\ \A id : IsIn(closedLog', id) <=> IsIn(closedLog, id)
  BY <1>1 DEF Placed, IsIn
<1>4. Listed' /\ InOrder' /\ Logged' /\ LogOrder'
  BY <1>1, <1>2, <1>3 DEF ResourcesOK, Listed, InOrder, Logged, LogOrder
<1>5. Reached'
  <2>1. resources \in Seq(Item)
    BY DEF Inv, TypeOK, StackTypes
  <2>2. \A k \in DOMAIN resources : IsIn(closedLog, resources[k].id)
    BY <1>1, <2>1 DEF ResourcesOK, Listed
  <2> QED BY <1>1, <1>3, <2>2 DEF ResourcesOK, Reached
<1> QED BY <1>4, <1>5 DEF ResourcesOK

LEMMA RegistersOneOK == ASSUME Inv, ResourcesOK, RegistersOne PROVE ResourcesOK'
<1>1. PICK x \in Item :
        /\ Left = {} /\ Left' = {} /\ IsRes(x) /\ Unaccepted(x)
        /\ accepted' = Append(accepted, x) /\ resources' = Append(resources, x)
        /\ UNCHANGED <<closedLog, ctx, generation>>
  BY DEF RegistersOne
<1>2. PICK a : a = Len(accepted) + 1
  OBVIOUS
<1>3. (\A i, id : Placed(accepted', i, id) <=> Placed(accepted, i, id) \/ (i = a /\ id = x.id))
      /\ \A i, id : Placed(accepted, i, id) => i \in Nat /\ i < a /\ id # x.id
  <2>1. \A i, id : Placed(accepted', i, id) <=> Placed(accepted, i, id) \/ (i = a /\ id = x.id)
    BY <1>1, <1>2, PlacesStay
  <2>2. \A i \in DOMAIN accepted : i \in Nat /\ i < a
    BY <1>2, PlacesStay
  <2>3. \A i \in DOMAIN accepted : accepted[i].id # x.id
    BY <1>1 DEF Unaccepted, AcceptedItems
  <2> QED BY <2>1, <2>2, <2>3 DEF Placed
<1>4. /\ \A k \in DOMAIN resources : k \in DOMAIN resources' /\ resources'[k] = resources[k]
      /\ \A k \in DOMAIN resources' : \/ k \in DOMAIN resources /\ resources'[k] = resources[k]
                                      \/ k = Len(resources) + 1 /\ resources'[k] = x
      /\ Len(resources) + 1 \in DOMAIN resources' /\ resources'[Len(resources) + 1] = x
      /\ \A k \in DOMAIN resources : k < Len(resources) + 1 /\ k \in Nat
      /\ Len(resources) \in Nat
  <2>1. resources \in Seq(Item)
    BY DEF Inv, TypeOK, StackTypes
  <2> QED BY <1>1, <2>1
<1>5. \A id : IsIn(closedLog', id) <=> IsIn(closedLog, id)
  BY <1>1 DEF IsIn
<1>6. ~IsIn(closedLog, x.id)
  BY <1>3 DEF IsIn, ResourcesOK, Logged
<1>7. Listed'
  BY <1>1, <1>3, <1>4, <1>5, <1>6 DEF ResourcesOK, Listed
<1>8. InOrder'
  <2>1. ASSUME NEW k \in DOMAIN resources', NEW l \in DOMAIN resources', k < l, NEW i, NEW j,
               Placed(accepted', i, resources'[k].id), Placed(accepted', j, resources'[l].id)
        PROVE  i < j
    <3>1. k \in DOMAIN resources /\ resources'[k] = resources[k]
      BY <1>4, <2>1
    <3>2. Placed(accepted, i, resources[k].id) /\ i < a
      BY <1>3, <2>1, <3>1 DEF ResourcesOK, Listed
    <3>3. CASE l \in DOMAIN resources /\ resources'[l] = resources[l]
      <4>1. Placed(accepted, j, resources[l].id)
        BY <1>3, <2>1, <3>3 DEF ResourcesOK, Listed
      <4> QED BY <2>1, <3>1, <3>2, <3>3, <4>1 DEF ResourcesOK, InOrder
    <3>4. CASE resources'[l] = x
      BY <1>3, <2>1, <3>2, <3>4
    <3> QED BY <1>4, <3>3, <3>4
  <2> QED BY <2>1 DEF InOrder, Placed
<1>9. Logged'
  BY <1>1, <1>3, <1>4 DEF ResourcesOK, Logged
<1>10. LogOrder'
  BY <1>1, <1>3 DEF ResourcesOK, Logged, LogOrder
<1>11. Reached'
  <2>1. ASSUME NEW i \in DOMAIN accepted', IsRes(accepted'[i])
        PROVE  IsIn(closedLog', accepted'[i].id) \/ \E k \in DOMAIN resources' : resources'[k].id = accepted'[i].id
    <3>1. Placed(accepted', i, accepted'[i].id)
      BY <2>1 DEF Placed
    <3>2. CASE Placed(accepted, i, accepted'[i].id)
      BY <1>4, <1>5, <3>2 DEF Placed, ResourcesOK, Reached
    <3>3. CASE accepted'[i].id = x.id
      BY <1>4, <3>3
    <3> QED BY <1>3, <3>1, <3>2, <3>3
  <2> QED BY <2>1 DEF Reached
<1> QED BY <1>7, <1>8, <1>9, <1>10, <1>11 DEF ResourcesOK

LEMMA ClosesOneOK ==
    ASSUME WorkInv, ShutOK, ResourcesOK, ClosesOne
    PROVE  ResourcesOK'
<1>1. PICK n \in Nat \ {0} :
        /\ Left = {n} /\ Left' = {n - 1}
        /\ closedLog' = Append(closedLog, [id |-> resources[n].id, at |-> ctx])
        /\ UNCHANGED <<resources, ctx, generation, accepted>>
  BY DEF ClosesOne
<1>2. Inv /\ resources \in Seq(Item) /\ n \in DOMAIN resources
      /\ \A k \in DOMAIN resources : k \in Nat
  <2>1. Inv /\ resources \in Seq(Item)
    BY DEF WorkInv, CallsInv, Inv, TypeOK, StackTypes
  <2>2. n <= Len(resources)
    BY <1>1, <2>1, LeftIsListed
  <2> QED BY <1>1, <2>1, <2>2
<1>3. ctx = generation /\ ctx # 0 /\ generation \in Nat
  <2>1. resources # <<>>
    BY <1>2
  <2> QED BY <1>2, <2>1 DEF ShutOK, Inv, FreshOK, TypeOK, StateTypes
<1>4. PICK r : r = [id |-> resources[n].id, at |-> ctx]
  OBVIOUS
<1>5. PICK m : m = Len(closedLog) + 1
  OBVIOUS
<1>6. /\ DOMAIN closedLog' = DOMAIN closedLog \cup {m} /\ closedLog'[m] = r
      /\ \A i \in DOMAIN closedLog : closedLog'[i] = closedLog[i] /\ i \in Nat /\ i < m
      /\ m \in Nat
  <2>1. closedLog \in Seq([id : Nat, at : Nat]) /\ r \in [id : Nat, at : Nat]
    <3>1. resources[n] \in Item
      BY <1>2
    <3>2. resources[n].id \in Nat
      BY <3>1 DEF Item
    <3> QED BY <1>2, <1>3, <1>4, <3>2 DEF Inv, TypeOK, HistoryTypes
  <2>2. closedLog' = Append(closedLog, r)
    BY <1>1, <1>4
  <2> QED BY <1>5, <2>1, <2>2
<1>7. \A i, id : Placed(accepted', i, id) <=> Placed(accepted, i, id)
  BY <1>1 DEF Placed
<1>8. r.id = resources[n].id /\ r.at = generation
  BY <1>3, <1>4
<1>9. \A id : IsIn(closedLog', id) <=> IsIn(closedLog, id) \/ id = r.id
  BY <1>6 DEF IsIn
<1>10. \A k \in DOMAIN resources : resources[k].id = r.id => k = n
  <2>1. ASSUME NEW k \in DOMAIN resources, resources[k].id = r.id, k # n PROVE FALSE
    <3>1. PICK i : Placed(accepted, i, resources[n].id)
      BY <1>2 DEF ResourcesOK, Listed
    <3>2. i < i
      BY <1>2, <1>8, <2>1, <3>1 DEF ResourcesOK, InOrder
    <3>3. i \in Nat
      BY <1>2, <3>1, PlacesStay DEF Placed
    <3> QED BY <3>2, <3>3
  <2> QED BY <2>1
<1>11. ~IsIn(closedLog, r.id)
  BY <1>1, <1>2, <1>8 DEF ResourcesOK, Listed
<1>12. Listed'
  <2>1. ASSUME NEW k \in DOMAIN resources
        PROVE  IsIn(closedLog', resources[k].id) <=> k > n - 1
    <3>1. IsIn(closedLog, resources[k].id) <=> k > n
      BY <1>1 DEF ResourcesOK, Listed
    <3> QED BY <1>2, <1>8, <1>9, <1>10, <3>1
  <2> QED BY <1>1, <1>7, <2>1 DEF ResourcesOK, Listed
<1>13. InOrder'
  BY <1>1, <1>7 DEF ResourcesOK, InOrder
<1>14. Logged'
  <2>1. generation \in 1..generation /\ \E p : Placed(accepted, p, r.id)
    BY <1>2, <1>3, <1>8 DEF ResourcesOK, Listed
  <2>2. ASSUME NEW i \in DOMAIN closedLog'
        PROVE  /\ closedLog'[i].at \in 1..generation /\ \E p : Placed(accepted, p, closedLog'[i].id)
               /\ closedLog'[i].at = generation /\ ctx # 0 =>
                    \E k \in DOMAIN resources : resources[k].id = closedLog'[i].id
    <3>1. CASE i = m
      BY <1>2, <1>6, <1>8, <2>1, <3>1
    <3>2. CASE i \in DOMAIN closedLog
      <4>1. closedLog'[i] = closedLog[i]
        BY <1>6, <3>2
      <4> QED BY <3>2, <4>1 DEF ResourcesOK, Logged
    <3> QED BY <1>6, <3>1, <3>2
  <2>3. \A p, id : Placed(accepted', p, id) <=> Placed(accepted, p, id)
    BY <1>7
  <2> QED BY <1>1, <2>2, <2>3 DEF Logged
<1>15. LogOrder'
  <2>1. ASSUME NEW i \in DOMAIN closedLog, closedLog[i].at = r.at, NEW p, NEW q,
               Placed(accepted, p, closedLog[i].id), Placed(accepted, q, r.id)
        PROVE  q < p
    <3>1. PICK k \in DOMAIN resources : resources[k].id = closedLog[i].id
      BY <1>3, <1>8, <2>1 DEF ResourcesOK, Logged
    <3>2. n < k
      <4>1. IsIn(closedLog, resources[k].id)
        BY <3>1 DEF IsIn
      <4>2. k > n
        BY <1>1, <4>1 DEF ResourcesOK, Listed
      <4> QED BY <1>2, <4>2
    <3> QED BY <1>2, <1>8, <2>1, <3>1, <3>2 DEF ResourcesOK, InOrder
  <2>2. \A i \in DOMAIN closedLog : closedLog[i].id # r.id /\ closedLog[i].at <= r.at
    BY <1>3, <1>8, <1>11 DEF IsIn, ResourcesOK, Logged
  <2>3. ASSUME NEW i \in DOMAIN closedLog', NEW j \in DOMAIN closedLog', i < j
        PROVE  /\ closedLog'[i].id # closedLog'[j].id /\ closedLog'[i].at <= closedLog'[j].at
               /\ closedLog'[i].at = closedLog'[j].at =>
                    \A p, q : Placed(accepted, p, closedLog'[i].id) /\ Placed(accepted, q, closedLog'[j].id) => q < p
    <3>1. i \in DOMAIN closedLog /\ closedLog'[i] = closedLog[i]
      BY <1>6, <2>3
    <3>2. CASE j \in DOMAIN closedLog
      BY <1>6, <2>3, <3>1, <3>2 DEF ResourcesOK, LogOrder
    <3>3. CASE j = m
      BY <1>6, <2>1, <2>2, <3>1, <3>3
    <3> QED BY <1>6, <3>2, <3>3
  <2> QED BY <1>7, <2>3 DEF LogOrder
<1>16. Reached'
  BY <1>1, <1>9 DEF ResourcesOK, Reached
<1> QED BY <1>12, <1>13, <1>14, <1>15, <1>16 DEF ResourcesOK

-------------------------------------------------------------------------------
\* The invariant behind the two theorems about resources.

ResourceInv == Cleared /\ Private /\ RegisterOnce /\ ShutOK /\ ResourcesOK

LEMMA ResourceInit == Init => ResourceInv
<1> SUFFICES ASSUME Init PROVE ResourceInv
    OBVIOUS
<1>1. /\ stack = <<NewFrame("owner", "top", None)>> /\ \A c \in Clients : cl[c].pc = "idle" /\ cl[c].op = "Start"
      /\ ctx = 1 /\ generation = 1 /\ state = "New" /\ closed = FALSE /\ done = FALSE
      /\ timers = {} /\ jsTimers = {} /\ resources = <<>> /\ closedLog = <<>>
      /\ accepted = <<>> /\ commands = <<>>
  BY DEF Init
<1>2. Cleared
  BY <1>1 DEF Cleared
<1>3. Calls = {} /\ HandItems = {}
  <2>1. \A i \in DOMAIN stack : stack[i].fn = "owner"
    BY <1>1 DEF NewFrame
  <2> QED BY <1>1, <2>1 DEF Calls, Firing, Fires, HandItems, Holds
<1>4. Private
  BY <1>3 DEF Private
<1>5. RegisterOnce
  BY <1>1, <1>3 DEF RegisterOnce, AcceptedOnce, Unaccepted
<1>6. ShutOK
  BY <1>1 DEF ShutOK
<1>7. ResourcesOK
  BY <1>1 DEF ResourcesOK, Listed, InOrder, Logged, LogOrder, Reached
<1> QED BY <1>2, <1>4, <1>5, <1>6, <1>7 DEF ResourceInv

LEMMA ResourceInvStep ==
    ASSUME WorkInv, ResourceInv, "RegisterResource" \notin ResourceOps, [Next]_vars
    PROVE  ResourceInv'
<1>1. /\ CallsInv /\ Inv /\ KindsOK /\ StateOK /\ IdsOK
      /\ Cleared /\ Private /\ RegisterOnce /\ ShutOK /\ ResourcesOK
  BY DEF WorkInv, WorkOK, CallsInv, ResourceInv
<1>2. Cleared' /\ RegisterOnce' /\ ShutOK'
  BY <1>1, ClearedStep, RegisterOnceStep, ShutStep
<1>3. Private'
  BY <1>1, StepEffect, PrivateStep
<1>4. Resourcely
  BY <1>1, ResourceStep
<1>5. ResourcesOK'
  BY <1>1, <1>4, RestsOK, FallingOK, ClosesOneOK, ClosesAllOK, RegistersOneOK, RenewsOK DEF Resourcely
<1> QED BY <1>2, <1>3, <1>5 DEF ResourceInv

\* Where Position finds a resource.
LEMMA Positions ==
    ASSUME AcceptedOnce, NEW i, NEW id, Placed(accepted, i, id)
    PROVE  Position(id) = i
<1>1. \A j \in DOMAIN accepted : accepted[j].id = id <=> j = i
  BY DEF AcceptedOnce, Placed
<1>2. i \in DOMAIN accepted
  BY DEF Placed
<1> QED BY <1>1, <1>2 DEF Position

\* closeResources (resource.go) closes what was registered in reverse order, each
\* resource once and while its context still lives; until then the resource is in the
\* list. Close methods that Reload, Close or Run the loop are not modelled (EventLoop's
\* assumptions); one that registers a further resource is left out by the hypothesis:
\* the run resource_late shows that such a resource is dropped unclosed.
THEOREM ResourcesCloseInOrder ==
    ASSUME "RegisterResource" \notin ResourceOps
    PROVE  Spec => []ResourcesClosed
<1>1. WorkInv /\ ResourceInv /\ [Next]_vars => ResourceInv'
  BY ResourceInvStep
<1>2. WorkInv /\ ResourceInv => ResourcesClosed
  <2> SUFFICES ASSUME WorkInv, ResourceInv PROVE ResourcesClosed
      OBVIOUS
  <2>1. Logged /\ LogOrder /\ Reached /\ AcceptedOnce
    BY DEF ResourceInv, ResourcesOK, RegisterOnce
  <2>2. ASSUME NEW i \in DOMAIN closedLog, NEW j \in DOMAIN closedLog, i < j
        PROVE  /\ closedLog[i].id # closedLog[j].id
               /\ closedLog[i].at <= closedLog[j].at
               /\ closedLog[i].at = closedLog[j].at =>
                    Position(closedLog[j].id) < Position(closedLog[i].id)
    <3>1. PICK p : Placed(accepted, p, closedLog[i].id)
      BY <2>1 DEF Logged
    <3>2. PICK q : Placed(accepted, q, closedLog[j].id)
      BY <2>1 DEF Logged
    <3>3. Position(closedLog[i].id) = p /\ Position(closedLog[j].id) = q
      BY <2>1, <3>1, <3>2, Positions
    <3> QED BY <2>1, <2>2, <3>1, <3>2, <3>3 DEF LogOrder
  <2>3. \A i \in DOMAIN closedLog : closedLog[i].at # 0
    <3>1. generation \in Nat
      BY DEF WorkInv, CallsInv, Inv, TypeOK, StateTypes
    <3> QED BY <2>1, <3>1 DEF Logged
  <2>4. ASSUME NEW a \in AcceptedItems, a.kind = "RegisterResource"
        PROVE  Closings(a.id) # {} \/ \E i \in DOMAIN resources : resources[i].id = a.id
    <3>1. PICK i \in DOMAIN accepted : a = accepted[i]
      BY DEF AcceptedItems
    <3> QED BY <2>1, <2>4, <3>1 DEF Reached, IsRes, IsIn, Closings
  <2> QED BY <2>2, <2>3, <2>4 DEF ResourcesClosed
<1> QED BY <1>1, <1>2, ResourceInit, WorkInvHolds, PTL DEF Spec

\* When Close has returned to a goroutine, with whatever result, the owner has left:
\* no context and no work remain, and every resource was closed (Close, owner,
\* disposeGeneration), under the same hypothesis as above.
THEOREM CloseLeavesNothing ==
    ASSUME "RegisterResource" \notin ResourceOps
    PROVE  Spec => []CloseIsComplete
<1>1. WorkInv /\ ResourceInv /\ [Next]_vars => ResourceInv'
  BY ResourceInvStep
<1>2. WorkInv /\ ResourceInv => CloseIsComplete
  <2> SUFFICES ASSUME WorkInv, ResourceInv, NEW c \in Clients, cl[c].pc = "idle", cl[c].op = "Close"
               PROVE  /\ ctx = 0 /\ stack = <<>> /\ tasks = <<>> /\ timers = {} /\ jsTimers = {}
                      /\ \A a \in AcceptedItems : a.kind = "RegisterResource" =>
                           \E i \in DOMAIN closedLog : closedLog[i].id = a.id
      BY DEF CloseIsComplete
  <2>1. done /\ state = "Closed" /\ (Emptied \/ Disposes) /\ (ctx = 0 => resources = <<>>) /\ Reached
    BY DEF ResourceInv, ShutOK, ResourcesOK
  <2>2. stack = <<>>
    BY <2>1 DEF WorkInv, CallsInv, CallsOK
  <2>3. Emptied /\ resources = <<>>
    <3>1. DOMAIN stack = {}
      BY <2>2
    <3> QED BY <2>1, <3>1 DEF Disposes, Emptied
  <2>4. \A a \in AcceptedItems : a.kind = "RegisterResource" =>
          \E i \in DOMAIN closedLog : closedLog[i].id = a.id
    <3>1. DOMAIN resources = {}
      BY <2>3
    <3> QED BY <2>1, <3>1 DEF Reached, AcceptedItems, IsRes, IsIn
  <2> QED BY <2>2, <2>3, <2>4 DEF Emptied
<1> QED BY <1>1, <1>2, ResourceInit, WorkInvHolds, PTL DEF Spec
-------------------------------------------------------------------------------
\* A Run ends for lack of work only after a pump that found none: while the pump makes
\* no progress the loop stays open and running, the channel was seen empty, and what came
\* into it since is not the owner's but for what its jobs sent.  A loop that waits for what
\* it called is at its top or has progressed.

Rested(f) == f.fn \in Loops => f.pc = "top" \/ (f.pc \in {"drain", "ran"} /\ f.progressed)
Patient(s) == s \in Seq(Frame) /\ \A i \in DOMAIN s : Rested(s[i])
OthersSent == \A x \in SentItems : x.by # None
Workless == Open /\ OthersSent /\ tasks = <<>>
PumpOK ==
    /\ Top.pc \in {"drain", "work"} /\ ~Top.progressed => Open /\ state = "Running"
    /\ Top.pc = "work" /\ ~Top.progressed => OthersSent
    /\ Top.pc = "ran" => Top.progressed
    /\ Top.pc = "jobs" /\ ~Top.progressed => Workless
    /\ Top.pc = "check" => Workless
DrainOK == stack # <<>> => Patient(Below) /\ (Top.fn \in Loops => PumpOK)
IdleOK ==
    /\ ctx = 0 => closed \/ ~Whole(stack)
    /\ closed => state # "Running"

LEMMA PatientAppend ==
    ASSUME NEW s, Patient(s), NEW f \in Frame, Rested(f)
    PROVE  Patient(Append(s, f))
<1>1. s \in Seq(Frame) /\ \A i \in DOMAIN s : Rested(s[i])
  BY DEF Patient
<1>2. Append(s, f) \in Seq(Frame)
  BY <1>1
<1>3. \A i \in DOMAIN Append(s, f) :
        Append(s, f)[i] = f \/ (i \in DOMAIN s /\ Append(s, f)[i] = s[i])
  BY <1>1
<1>4. \A i \in DOMAIN Append(s, f) : Rested(Append(s, f)[i])
  BY <1>1, <1>3
<1> QED BY <1>2, <1>4 DEF Patient

LEMMA PatientPrefix ==
    ASSUME NEW s, Patient(s), NEW n \in Int, n <= Len(s)
    PROVE  Patient(SubSeq(s, 1, n))
<1>1. s \in Seq(Frame) /\ \A i \in DOMAIN s : Rested(s[i])
  BY DEF Patient
<1>2. SubSeq(s, 1, n) \in Seq(Frame)
  BY <1>1
<1>3. \A i \in DOMAIN SubSeq(s, 1, n) : i \in DOMAIN s /\ SubSeq(s, 1, n)[i] = s[i]
  BY <1>1
<1>4. \A i \in DOMAIN SubSeq(s, 1, n) : Rested(SubSeq(s, 1, n)[i])
  BY <1>1, <1>3
<1> QED BY <1>2, <1>4 DEF Patient

LEMMA PatientTop ==
    ASSUME Inv, DrainOK, stack # <<>>
    PROVE  /\ Patient(Below) /\ Patient(SubSeq(stack, 1, Len(stack) - 2))
           /\ Top.fn \notin Loops => Patient(stack)
           /\ \A f \in Frame : Rested(f) => Patient(Append(Below, f))
           /\ \A pc \in Points : Top.fn \notin Loops \/ pc = "top" => Patient(GoTo(pc))
<1>1. /\ stack \in Seq(Frame) /\ Len(stack) \in Nat /\ Len(stack) > 0
      /\ DOMAIN stack = 1..Len(stack) /\ Top \in Frame /\ stack = Append(Below, Top)
      /\ Below \in Seq(Frame) /\ Len(Below) = Len(stack) - 1
  BY SeqFacts, TopFiring
<1>2. Patient(Below)
  BY DEF DrainOK
<1>3. \A f \in Frame : Rested(f) => Patient(Append(Below, f))
  BY <1>2, PatientAppend
<1>4. Top.fn \notin Loops => Patient(stack)
  BY <1>1, <1>3 DEF Rested
<1>5. Patient(SubSeq(stack, 1, Len(stack) - 2))
  <2>1. SubSeq(stack, 1, Len(stack) - 2) = SubSeq(Below, 1, Len(Below) - 1)
    BY <1>1 DEF Below
  <2>2. Patient(SubSeq(Below, 1, Len(Below) - 1))
    BY <1>1, <1>2, PatientPrefix
  <2> QED BY <2>1, <2>2
<1>6. ASSUME NEW pc \in Points, Top.fn \notin Loops \/ pc = "top" PROVE Patient(GoTo(pc))
  <2>1. PICK f : f = [Top EXCEPT !.pc = pc]
    OBVIOUS
  <2>2. f \in Frame /\ f.fn = Top.fn /\ f.pc = pc
    BY <1>1, <2>1 DEF Frame
  <2>3. Rested(f)
    BY <1>6, <2>2 DEF Rested
  <2> QED BY <1>3, <2>1, <2>2, <2>3 DEF GoTo
<1> QED BY <1>2, <1>3, <1>4, <1>5, <1>6

LEMMA PatientNew ==
    ASSUME NEW s, Patient(s), NEW fn \in Loops \cup Bodies, NEW pc \in Points, NEW c \in Owners,
           fn \in Loops => pc = "top"
    PROVE  Patient(Append(s, NewFrame(fn, pc, c)))
<1>1. NewFrame(fn, pc, c) \in Frame
  BY NewFrameType
<1>2. NewFrame(fn, pc, c).fn = fn /\ NewFrame(fn, pc, c).pc = pc
  BY DEF NewFrame
<1>3. Rested(NewFrame(fn, pc, c))
  BY <1>2 DEF Rested
<1> QED BY <1>1, <1>3, PatientAppend

LEMMA PatientRun ==
    ASSUME NEW s, Patient(s), NEW c \in Owners, EnterRun(c, s)
    PROVE  Patient(stack')
<1> DEFINE f == NewFrame("run", "top", c)
           g == NewFrame("runTask", "body", c)
<1>1. {"top", "body"} \subseteq Points /\ "run" \in Loops /\ "runTask" \in Bodies \ Loops
  BY DEF Points, Loops, Bodies
<1>2. Patient(Append(s, f)) /\ f \in Frame
  BY <1>1, PatientNew, NewFrameType
<1>3. Patient(Append(Append(s, f), g)) /\ g \in Frame
  <2> HIDE DEF f
  <2> QED BY <1>1, <1>2, PatientNew, NewFrameType
<1>4. stack' = s \o <<f, g>> /\ s \in Seq(Frame)
  BY DEF EnterRun, Patient
<1> HIDE DEF f, g
<1>5. stack' = Append(Append(s, f), g)
  BY <1>2, <1>3, <1>4
<1> QED BY <1>3, <1>5

LEMMA PatientDisposal ==
    ASSUME Inv, NEW s, Patient(s), NEW fn \in Disposals, NEW c \in Owners,
           BeginDisposal(fn, c, s)
    PROVE  Patient(stack')
<1> DEFINE f == Disposal(fn, c)
<1>1. f \in Frame /\ f.fn = fn
  <2>1. NewFrame(fn, "resources", c) \in Frame
    BY NewFrameType DEF Points
  <2>2. Len(resources) \in Nat /\ state \in States
    BY DEF Inv, TypeOK, StackTypes, StateTypes
  <2> QED BY <2>1, <2>2 DEF Disposal, NewFrame, Frame
<1>2. stack' = Append(s, f)
  BY DEF BeginDisposal
<1>3. fn \notin Loops
  BY DEF Loops, Disposals
<1>4. Rested(f)
  BY <1>1, <1>3 DEF Rested
<1> HIDE DEF f
<1> QED BY <1>1, <1>2, <1>4, PatientAppend

LEMMA PatientFailure ==
    ASSUME Inv, NEW s, Patient(s), s # <<>>, FailReload(s)
    PROVE  Patient(stack')
<1>1. Len(s) \in Nat /\ Len(s) > 0 /\ s[Len(s)] \in Frame /\ Len(resources) \in Nat
  <2>1. s \in Seq(Frame)
    BY DEF Patient
  <2> QED BY <2>1 DEF Inv, TypeOK, StackTypes
<1>2. PICK u : u = SubSeq(s, 1, Len(s) - 1)
  OBVIOUS
<1>3. Patient(u)
  BY <1>1, <1>2, PatientPrefix
<1>4. PICK f : f = s[Len(s)]
  OBVIOUS
<1>5. PICK g : g = [f EXCEPT !.fn = "failedReload"]
  OBVIOUS
<1>6. PICK h : h = [g EXCEPT !.pc = "resources"]
  OBVIOUS
<1>7. PICK k : k = [h EXCEPT !.idx = Len(resources)]
  OBVIOUS
<1>8. stack' = Append(u, k)
  BY <1>2, <1>4, <1>5, <1>6, <1>7 DEF FailReload
<1>9. k \in Frame /\ k.fn = "failedReload"
  <2>1. g \in Frame /\ g.fn = "failedReload"
    BY <1>1, <1>4, <1>5 DEF Frame, Disposals
  <2>2. h \in Frame /\ h.fn = "failedReload"
    BY <2>1, <1>6 DEF Frame, Points
  <2> QED BY <2>2, <1>1, <1>7 DEF Frame
<1>10. Rested(k)
  BY <1>9 DEF Rested, Loops
<1> QED BY <1>3, <1>8, <1>9, <1>10, PatientAppend

LEMMA PatientReceive ==
    ASSUME Inv, NEW s, Patient(s), Receive(s)
    PROVE  Patient(stack')
<1> DEFINE cmd == Head(commands)
<1>1. cmd.client \in Owners
  <2>1. cmd \in Command
    BY StatePlaces DEF Receive
  <2> QED BY <2>1 DEF Command
<1>2. HandleCommand(cmd, s)
  BY DEF Receive
<1> HIDE DEF cmd
<1>3. CASE stack' = s
  BY <1>3
<1>4. CASE stack' = Append(s, NewFrame("do", "body", cmd.client))
  BY <1>1, <1>4, PatientNew DEF Bodies, Points, Loops
<1>5. CASE EnterRun(cmd.client, s)
  BY <1>1, <1>5, PatientRun
<1>6. CASE \E fn \in Disposals : BeginDisposal(fn, cmd.client, s)
  BY <1>1, <1>6, PatientDisposal
<1>7. "reload" \in Disposals /\ "close" \in Disposals
  BY DEF Disposals
<1> QED BY <1>2, <1>3, <1>4, <1>5, <1>6, <1>7
        DEF HandleCommand, HandleSchedule, HandleAddTimer, HandleStartStop, HandleDo,
            HandleRun, HandleRegisterResource, HandleReload, HandleClose

\* A stack on which every loop rests.
LEMMA PatientIsOK ==
    ASSUME Inv', Patient(stack')
    PROVE  DrainOK'
<1> SUFFICES ASSUME stack' # <<>> PROVE Patient(Below') /\ (Top.fn \in Loops => PumpOK)'
    BY DEF DrainOK
<1>1. stack' \in Seq(Frame) /\ Len(stack') \in Nat \ {0} /\ Top' = stack'[Len(stack')]
  BY DEF Patient, Top
<1>2. Patient(Below')
  <2>1. Below' = SubSeq(stack', 1, Len(stack') - 1)
    BY DEF Below
  <2> QED BY <1>1, <2>1, PatientPrefix
<1>3. Rested(Top')
  BY <1>1 DEF Patient
<1>4. (Top.fn \in Loops => PumpOK)'
  BY <1>3 DEF Rested, PumpOK
<1> QED BY <1>2, <1>4

LEMMA PatientUserActs == ASSUME Inv, DrainOK, UserActs, Top.fn \notin Loops PROVE Patient(stack')
<1>1. stack # <<>>
  BY DEF UserActs, UserStartStop, UserDo, UserRun, UserCallsItself, UserEnqueue, JSAddTimer,
     ClearJSTimer, UserCancel, UserRegisterResource, UserReload, UserClose, MayAct, At, Running
<1>2. Patient(stack) /\ \A pc \in Points : Patient(GoTo(pc))
  BY <1>1, PatientTop
<1>3. {"body", "once", "stuck"} \subseteq Points /\ None \in Owners
  BY DEF Points, Owners
<1>4. CASE stack' = stack \/ stack' = GoTo("once") \/ stack' = GoTo("stuck")
  BY <1>2, <1>3, <1>4
<1>5. CASE \E fn \in {"nestedDo", "nestedContext"} : stack' = Append(stack, NewFrame(fn, "body", None))
  BY <1>2, <1>3, <1>5, PatientNew DEF Bodies, Loops
<1>6. CASE EnterRun(None, stack)
  BY <1>2, <1>3, <1>6, PatientRun
<1>7. CASE BeginDisposal("reload", None, stack)
  BY <1>2, <1>3, <1>7, PatientDisposal DEF Disposals
<1>8. ASSUME NEW op \in Ops, UserStartStop(op) \/ UserDo(op) \/ UserRun(op) \/ UserCallsItself(op)
      PROVE  Patient(stack')
  BY <1>4, <1>5, <1>6, <1>8 DEF UserStartStop, UserDo, UserRun, UserCallsItself, MoveOn
<1>9. CASE \E op \in Ops, delay \in 0..1 : UserEnqueue(op, delay) \/ JSAddTimer(op, delay)
  BY <1>4, <1>9 DEF UserEnqueue, JSAddTimer
<1>10. CASE ClearJSTimer \/ UserCancel \/ UserRegisterResource \/ UserReload \/ UserClose
  BY <1>4, <1>7, <1>10 DEF ClearJSTimer, UserCancel, UserRegisterResource, UserReload, UserClose,
                           MoveOn
<1> QED BY <1>8, <1>9, <1>10 DEF UserActs

\* What a job may call: nothing that pushes a frame, and what it sends is marked.
LEMMA JobActs ==
    ASSUME Inv, UserActs, Top.fn \in Loops
    PROVE  /\ stack # <<>> /\ Top.pc = "jobs"
           /\ UNCHANGED <<stack, tasks, closed, generation, ctx>>
           /\ OthersSent => OthersSent'
<1>1. stack # <<>> /\ Top.pc = "jobs"
  BY DEF UserActs, UserStartStop, UserDo, UserRun, UserCallsItself, UserEnqueue, JSAddTimer,
     ClearJSTimer, UserCancel, UserRegisterResource, UserReload, UserClose, MayAct, At, Running,
     Loops, Bodies
<1>2. \A op \in ReentrantOps : ~MayAct(op)
  BY NotReentrant, <1>1
<1>3. ASSUME NEW op \in Ops PROVE ~UserDo(op) /\ ~UserRun(op) /\ ~UserCallsItself(op)
  BY <1>2 DEF UserDo, UserRun, UserCallsItself, ReentrantOps, ContextCalls
<1>4. ~UserReload /\ ~UserClose
  BY <1>2 DEF UserReload, UserClose, ReentrantOps
<1>5. UNCHANGED <<stack, tasks, closed, generation, ctx>>
  BY <1>3, <1>4 DEF UserActs, UserStartStop, UserEnqueue, JSAddTimer, ClearJSTimer, UserCancel,
     UserRegisterResource
<1>6. CASE commands' = commands
  <2>1. SentItems' = SentItems
    BY <1>6, SamePlaces
  <2> QED BY <1>1, <1>5, <2>1 DEF OthersSent
<1>7. ASSUME NEW op \in Ops, NEW delay \in 0..1, UserEnqueue(op, delay) PROVE OthersSent => OthersSent'
  <2>1. PICK n \in Item : n = NewItem(op, delay, Maker)
    BY NewItemType, MakerFacts DEF Inv
  <2>2. n.by = "job" /\ n.by # None
    BY <2>1, MakerFacts DEF NewItem, Maker
  <2>3. PICK x : x = [op |-> op, client |-> None, item |-> n]
    OBVIOUS
  <2>4. x \in Command /\ x.item = n /\ x.op = op /\ op \in Carries
    BY <1>7, <2>3 DEF Command, Owners, UserEnqueue, Carries
  <2>5. commands' = commands \/ commands' = Append(commands, x)
    BY <1>7, <2>1, <2>3 DEF UserEnqueue
  <2> QED BY <1>6, <2>2, <2>4, <2>5, AppendSent DEF OthersSent
<1>8. (\E op \in Ops, delay \in 0..1 : UserEnqueue(op, delay)) \/ commands' = commands
  BY <1>3, <1>4 DEF UserActs, UserStartStop, JSAddTimer, ClearJSTimer, UserCancel,
     UserRegisterResource
<1> QED BY <1>1, <1>5, <1>6, <1>7, <1>8

LEMMA PatientUserReturns == ASSUME CallsInv, DrainOK, UserReturns PROVE Patient(stack')
<1>1. stack # <<>> /\ Inv /\ Top.fn \in Bodies
  BY DEF UserReturns, UserCloseOnce, StartTimer, TimerReturns, BodyReturns, RunTaskReturns,
         InstallerReturns, At, Running, CallsInv, Bodies
<1>2. /\ Patient(Below) /\ Patient(SubSeq(stack, 1, Len(stack) - 2))
      /\ \A pc \in Points : Patient(GoTo(pc))
  BY <1>1, PatientTop DEF Bodies, Loops
<1>3. {"body", "stuck", "finish"} \subseteq Points /\ None \in Owners
  BY DEF Points, Owners
<1>4. CASE UserCloseOnce
  <2>1. BeginDisposal("close", None, GoTo("body")) \/ \E pc \in {"body", "stuck"} : stack' = GoTo(pc)
    <3>1. CASE closeOnce = "free" /\ IsOwner
      BY <1>4, <3>1 DEF UserCloseOnce
    <3>2. CASE ~(closeOnce = "free" /\ IsOwner)
      BY <1>4, <3>2 DEF UserCloseOnce, MoveOn
    <3> QED BY <3>1, <3>2
  <2>2. CASE BeginDisposal("close", None, GoTo("body"))
    BY <1>1, <1>2, <1>3, <2>2, PatientDisposal DEF Disposals
  <2> QED BY <1>2, <1>3, <2>1, <2>2
<1>5. CASE StartTimer
  BY <1>2, <1>3, <1>5 DEF StartTimer, MoveOn
<1>6. CASE TimerReturns \/ BodyReturns
  BY <1>2, <1>6 DEF TimerReturns, BodyReturns
<1>7. CASE \E err \in TaskErrors : RunTaskReturns(err)
  BY <1>2, <1>7 DEF RunTaskReturns
<1>8. ASSUME NEW err \in BOOLEAN, InstallerReturns(err) PROVE Patient(stack')
  <2>1. CASE err
    <3>1. FailReload(Below) /\ Top.fn = "installer"
      BY <1>8, <2>1 DEF InstallerReturns, At, Running
    <3> QED BY <1>1, <1>2, <3>1, CallerFrame, PatientFailure
  <2>2. CASE ~err
    BY <1>2, <1>8, <2>2 DEF InstallerReturns
  <2> QED BY <2>1, <2>2
<1> QED BY <1>4, <1>5, <1>6, <1>7, <1>8 DEF UserReturns

LEMMA PatientDisposing == ASSUME Inv, DrainOK, Disposing PROVE Patient(stack')
<1>1. stack # <<>> /\ Top.fn \in Disposals
  BY DEF Disposing, CloseResource, DisposeContext, InitializeGeneration, ReloadReturns,
         CloseFinishes, At, Running, Disposals
<1>2. /\ Patient(stack) /\ Patient(Below) /\ Top \in Frame
      /\ \A pc \in Points : Patient(GoTo(pc))
  BY <1>1, PatientTop, SeqFacts DEF Disposals, Loops
<1>3. {"body", "init", "finish"} \subseteq Points /\ None \in Owners
      /\ {"installer", "resource"} \subseteq Bodies \ Loops
  BY DEF Points, Owners, Bodies, Loops
<1>4. CASE CloseResource
  <2>1. PICK t : t = Top
    OBVIOUS
  <2>2. PICK k : k = t.idx - 1
    OBVIOUS
  <2>3. PICK f : f = [t EXCEPT !.idx = k]
    OBVIOUS
  <2>4. f \in Frame /\ f.fn = Top.fn
    <3>1. t \in Frame /\ k \in Nat
      BY <1>2, <1>4, <2>1, <2>2 DEF CloseResource, Frame
    <3> QED BY <2>1, <2>3, <3>1 DEF Frame
  <2>5. Rested(f)
    BY <1>1, <2>4 DEF Rested, Disposals, Loops
  <2>6. Patient(Append(Below, f))
    BY <1>2, <2>4, <2>5, PatientAppend
  <2>7. stack' = Append(Append(Below, f), NewFrame("resource", "body", None))
    BY <1>4, <2>1, <2>2, <2>3 DEF CloseResource
  <2> QED BY <1>3, <2>6, <2>7, PatientNew
<1>5. CASE DisposeContext
  BY <1>2, <1>3, <1>5 DEF DisposeContext, MoveOn
<1>6. CASE InitializeGeneration
  <2>1. CASE FailReload(stack)
    BY <1>1, <1>2, <2>1, PatientFailure DEF CallsInv
  <2>2. CASE stack' = Append(GoTo("finish"), NewFrame("installer", "body", None))
    BY <1>2, <1>3, <2>2, PatientNew
  <2> QED BY <1>6, <2>1, <2>2 DEF InitializeGeneration
<1>7. CASE ReloadReturns \/ CloseFinishes
  BY <1>2, <1>7 DEF ReloadReturns, CloseFinishes
<1> QED BY <1>4, <1>5, <1>6, <1>7 DEF Disposing

\* The innermost loop goes on at another point of its pump.
LEMMA PumpGoesOn ==
    ASSUME Inv, Inv', stack # <<>>, DrainOK, NEW f \in Frame, stack' = Append(Below, f),
           f.fn \in Loops => PumpOK'
    PROVE  DrainOK'
<1>1. Below \in Seq(Frame) /\ Patient(Below)
  BY SeqFacts DEF DrainOK
<1>2. Below' = Below
  BY <1>1 DEF Below
<1>3. Top' = f
  BY <1>1 DEF Top
<1> QED BY <1>1, <1>2, <1>3 DEF DrainOK

LEMMA PumpAt ==
    ASSUME Inv, stack # <<>>, NEW pc \in Points, stack' = GoTo(pc)
    PROVE  \E f \in Frame : /\ stack' = Append(Below, f) /\ Top' = f
                            /\ f.fn = Top.fn /\ f.pc = pc /\ (f.progressed <=> Top.progressed)
<1>1. Top \in Frame /\ Below \in Seq(Frame)
  BY SeqFacts
<1>2. PICK f : f = [Top EXCEPT !.pc = pc]
  OBVIOUS
<1>3. f \in Frame /\ f.fn = Top.fn /\ f.pc = pc /\ (f.progressed <=> Top.progressed)
  BY <1>1, <1>2 DEF Frame
<1>4. stack' = Append(Below, f)
  BY <1>2 DEF GoTo
<1>5. Top' = f
  BY <1>1, <1>3, <1>4 DEF Top
<1> QED BY <1>3, <1>4, <1>5

Idling == \/ PumpOnce \/ Drained \/ NotRunning \/ RunJobs
          \/ (\E more \in BOOLEAN : JobsReturn(more)) \/ RunHasWork

LEMMA PatientPumping == ASSUME Inv, DrainOK, Pumping, ~Idling PROVE Patient(stack')
<1>1. stack # <<>> /\ Top.fn \in Loops /\ (Top.pc = "top" => Rested(Top))
  BY DEF Pumping, OwnerReceives, OwnerReturns, RunReturns, PumpOnce, DrainCommands, Drained,
         NotRunning, RunTask, FireDueTimer, RunJobs, JobsReturn, RunIsIdle, RunHasWork, WaitForWork, CanWork,
         At, Running, Loops, Rested
<1>2. /\ Patient(Below) /\ Patient(GoTo("top")) /\ Top \in Frame /\ stack = Append(Below, Top)
      /\ \A f \in Frame : Rested(f) => Patient(Append(Below, f))
  BY <1>1, PatientTop, SeqFacts, TopFiring DEF Points
<1>3. {"body", "start"} \subseteq Points /\ None \in Owners /\ {"task", "timer"} \subseteq Bodies \ Loops
  BY DEF Points, Owners, Bodies, Loops
<1>12. Patient(Progress)
  <2>1. PICK f \in Frame : Progress = Append(Below, f) /\ f.pc = "ran" /\ f.progressed
    BY <1>2, ProgressFrame
  <2> QED BY <1>2, <2>1 DEF Rested
<1>4. CASE OwnerReceives
  <2>1. Patient(stack) /\ Receive(stack)
    BY <1>1, <1>2, <1>4 DEF OwnerReceives, At
  <2> QED BY <2>1, PatientReceive
<1>5. CASE OwnerReturns
  <2>1. <<>> \in Seq(Frame) /\ DOMAIN <<>> = {}
    OBVIOUS
  <2> QED BY <1>5, <2>1 DEF OwnerReturns, Patient
<1>6. CASE RunReturns \/ RunIsIdle
  BY <1>2, <1>6 DEF RunReturns, RunIsIdle
<1>7. CASE DrainCommands
  <2>1. PICK f : f = [Top EXCEPT !.progressed = TRUE]
    OBVIOUS
  <2>2. f \in Frame /\ f.pc = "drain" /\ f.progressed
    BY <1>2, <1>7, <2>1 DEF Frame, DrainCommands, At
  <2>3. Patient(Append(Below, f))
    BY <1>2, <2>2 DEF Rested
  <2>4. Receive(Append(Below, f))
    BY <1>7, <2>1 DEF DrainCommands
  <2> QED BY <2>3, <2>4, PatientReceive
<1>8. CASE WaitForWork
  <2>1. CASE Receive(GoTo("top"))
    BY <1>2, <2>1, PatientReceive
  <2>2. CASE stack' = GoTo("top")
    BY <1>2, <2>2
  <2> QED BY <1>8, <2>1, <2>2 DEF WaitForWork, MoveOn
<1>9. CASE RunTask
  <2>1. stack' = Append(Progress, NewFrame("task", "body", None))
    BY <1>9 DEF RunTask
  <2> QED BY <1>3, <1>12, <2>1, PatientNew
<1>10. CASE FireDueTimer
  <2>1. ASSUME NEW e \in timers,
               stack' = Append(Progress, [NewFrame("timer", "start", None) EXCEPT !.item = e])
        PROVE  Patient(stack')
    <3>1. PICK n : n = NewFrame("timer", "start", None)
      OBVIOUS
    <3>2. n \in Frame /\ n.fn = "timer"
      BY <1>3, <3>1, NewFrameType DEF NewFrame
    <3>3. PICK f : f = [n EXCEPT !.item = e]
      OBVIOUS
    <3>4. e \in Item
      BY DEF Inv, TypeOK, WorkTypes
    <3>5. f \in Frame /\ f.fn = "timer"
      BY <3>2, <3>3, <3>4 DEF Frame
    <3>6. Rested(f)
      BY <3>5 DEF Rested, Loops
    <3>7. stack' = Append(Progress, f)
      BY <2>1, <3>1, <3>3
    <3> QED BY <1>12, <3>5, <3>6, <3>7, PatientAppend
  <2>2. PICK e \in Due : \/ stack' = Progress
                         \/ stack' = Append(Progress,
                                       [NewFrame("timer", "start", None) EXCEPT !.item = e])
    BY <1>10 DEF FireDueTimer
  <2>3. e \in timers
    BY DEF Due, Peek, Kept, DiscardCancelled
  <2> QED BY <1>12, <2>1, <2>2, <2>3
<1> QED BY <1>4, <1>5, <1>6, <1>7, <1>8, <1>9, <1>10 DEF Pumping, Idling

\* While the pump finds nothing the loop stays open and running.
LEMMA IdlingStep ==
    ASSUME Inv, Inv', StateOK, IdleOK, DrainOK, Idling
    PROVE  DrainOK'
<1>1. /\ stack # <<>> /\ Top.fn \in Loops /\ Pumping
      /\ UNCHANGED <<commands, state, ctx, generation, closed, tasks>>
  <2>1. Pumping
    BY DEF Idling, Pumping
  <2>2. stack # <<>> /\ Top.fn \in Loops
    BY DEF Idling, PumpOnce, Drained, NotRunning, RunHasWork, RunJobs, JobsReturn, CanWork, At, Running, Loops
  <2>3. UNCHANGED <<commands, state, ctx, generation, closed, tasks>>
    BY DEF Idling, PumpOnce, Drained, NotRunning, RunHasWork, RunJobs, JobsReturn, OnlyStack
  <2> QED BY <2>1, <2>2, <2>3
<1>2. /\ Whole(stack) /\ ~Disposes /\ Top \in Frame /\ PumpOK
      /\ \A f \in Frame : f.pc \notin Shut => Whole(Append(Below, f))
  <2>1. Top.fn # "resource"
    BY <1>1 DEF Loops
  <2> QED BY <1>1, <2>1, PumpsWhole, WholeTop DEF DrainOK
<1>3. OthersSent' <=> OthersSent
  <2>1. SentItems' = SentItems
    BY <1>1, SamePlaces
  <2> QED BY <2>1 DEF OthersSent
<1>4. ASSUME NEW f \in Frame, f.pc \notin Shut, stack' = Append(Below, f)
      PROVE  Open' <=> Open
  <2>1. Whole(stack')
    BY <1>2, <1>4
  <2>2. ~Disposes'
    BY <2>1 DEF Whole, Shut, Disposes
  <2> QED BY <1>1, <1>2, <2>2 DEF Open
<1>5. state = "Running" => Open /\ ctx # 0
  <2>1. ctx \in {0, generation}
    BY DEF Inv, FreshOK
  <2> QED BY <1>2, <2>1 DEF IdleOK, Open
<1>6. ASSUME PumpOnce PROVE DrainOK'
  <2>1. PICK g : g = [Top EXCEPT !.pc = "drain"]
    OBVIOUS
  <2>2. g \in Frame /\ g.fn = Top.fn /\ g.pc = "drain"
    BY <1>2, <2>1 DEF Frame, Points
  <2>3. PICK f : f = [g EXCEPT !.progressed = FALSE]
    OBVIOUS
  <2>4. f \in Frame /\ f.fn = Top.fn /\ f.pc = "drain"
    BY <2>2, <2>3 DEF Frame
  <2>5. stack' = Append(Below, f)
    BY <1>6, <2>1, <2>3 DEF PumpOnce
  <2>6. Open' /\ state' = "Running"
    BY <1>1, <1>4, <1>5, <1>6, <2>4, <2>5 DEF PumpOnce, Shut
  <2>7. Top' = f
    <3>1. Below \in Seq(Frame)
      BY <1>1, SeqFacts
    <3> QED BY <2>5, <3>1 DEF Top
  <2>8. PumpOK'
    BY <2>4, <2>6, <2>7 DEF PumpOK
  <2> QED BY <1>1, <2>4, <2>5, <2>8, PumpGoesOn
<1>7. ASSUME NEW pc \in Points \ Shut, stack' = GoTo(pc),
             NEW f \in Frame, stack' = Append(Below, f), Top' = f, f.fn = Top.fn, f.pc = pc,
             f.progressed <=> Top.progressed,
             pc \in {"top", "wait"} \/ PumpOK'
      PROVE  DrainOK'
  <2>1. PumpOK'
    BY <1>7 DEF PumpOK
  <2> QED BY <1>1, <1>7, <2>1, PumpGoesOn
<1>8. {"work", "jobs", "top", "check", "wait"} \subseteq Points \ Shut
  BY DEF Points, Shut
<1>9. ASSUME Drained PROVE DrainOK'
  <2>1. stack' = GoTo("work") /\ Top.pc = "drain" /\ commands = <<>>
    BY <1>9 DEF Drained, MoveOn, At
  <2>2. PICK f \in Frame : /\ stack' = Append(Below, f) /\ Top' = f /\ f.fn = Top.fn
                           /\ f.pc = "work" /\ (f.progressed <=> Top.progressed)
    BY <1>1, <1>8, <2>1, PumpAt
  <2>3. Open' <=> Open
    BY <1>4, <1>8, <2>2
  <2>4. OthersSent'
    <3>1. DOMAIN commands = {}
      BY <2>1
    <3> QED BY <1>3, <3>1 DEF OthersSent, SentItems
  <2>5. PumpOK'
    BY <1>1, <1>2, <2>1, <2>2, <2>3, <2>4 DEF PumpOK
  <2> QED BY <1>7, <1>8, <2>1, <2>2, <2>5
<1>10. ASSUME RunHasWork PROVE DrainOK'
  <2>1. stack' = GoTo("wait")
    BY <1>10 DEF RunHasWork, MoveOn
  <2>2. PICK f \in Frame : /\ stack' = Append(Below, f) /\ Top' = f /\ f.fn = Top.fn
                           /\ f.pc = "wait" /\ (f.progressed <=> Top.progressed)
    BY <1>1, <1>8, <2>1, PumpAt
  <2> QED BY <1>7, <1>8, <2>1, <2>2
<1>11. ASSUME NEW more \in BOOLEAN, PumpReturns(more),
              ~Top.progressed /\ ~more => Workless
       PROVE  DrainOK'
  <2>1. PICK pc : pc = IF Top.progressed \/ more THEN "top"
                       ELSE IF Top.fn = "run" THEN "check" ELSE "wait"
    OBVIOUS
  <2>2. stack' = GoTo(pc) /\ pc \in Points \ Shut
    BY <1>8, <1>11, <2>1 DEF PumpReturns
  <2>3. PICK f \in Frame : /\ stack' = Append(Below, f) /\ Top' = f /\ f.fn = Top.fn
                           /\ f.pc = pc /\ (f.progressed <=> Top.progressed)
    BY <1>1, <2>2, PumpAt
  <2>4. Open' <=> Open
    BY <1>4, <2>2, <2>3
  <2>5. ASSUME pc = "check" PROVE PumpOK'
    <3>1. ~Top.progressed /\ ~more
      BY <2>1, <2>5
    <3>2. Workless
      BY <1>11, <3>1
    <3> QED BY <1>1, <1>3, <2>3, <2>4, <2>5, <3>2 DEF PumpOK, Workless
  <2>6. pc \in {"top", "wait", "check"}
    BY <2>1
  <2> QED BY <1>7, <2>2, <2>3, <2>5, <2>6
<1>12. ASSUME NotRunning PROVE DrainOK'
  <2>1. PumpReturns(FALSE) /\ (Top.pc = "ran" \/ (Top.pc = "work" /\ (state # "Running" \/ ctx = 0)))
    BY <1>12 DEF NotRunning, At
  <2>2. Top.progressed
    BY <1>2, <1>5, <2>1 DEF PumpOK
  <2> QED BY <1>11, <2>1, <2>2
<1>13. ASSUME NEW more \in BOOLEAN, JobsReturn(more) PROVE DrainOK'
  <2>1. PumpReturns(more) /\ Top.pc = "jobs"
    BY <1>13 DEF JobsReturn, At
  <2> QED BY <1>2, <1>11, <2>1 DEF PumpOK
<1>14. ASSUME RunJobs PROVE DrainOK'
  <2>1. stack' = GoTo("jobs") /\ (Top.pc = "ran" \/ (Top.pc = "work" /\ tasks = <<>>))
    BY <1>14 DEF RunJobs, MoveOn, CanWork, At
  <2>2. PICK f \in Frame : /\ stack' = Append(Below, f) /\ Top' = f /\ f.fn = Top.fn
                           /\ f.pc = "jobs" /\ (f.progressed <=> Top.progressed)
    BY <1>1, <1>8, <2>1, PumpAt
  <2>3. Open' <=> Open
    BY <1>4, <1>8, <2>2
  <2>4. ~Top.progressed => Workless
    BY <1>2, <2>1 DEF PumpOK, Workless
  <2>5. PumpOK'
    BY <1>1, <1>3, <2>2, <2>3, <2>4 DEF PumpOK, Workless
  <2> QED BY <1>7, <1>8, <2>1, <2>2, <2>5
<1> QED BY <1>6, <1>9, <1>10, <1>12, <1>13, <1>14 DEF Idling

\* What a client sends is its own.
LEMMA OthersSentStep ==
    ASSUME Inv, KindsOK, OthersSent, NEW c \in Clients, Caller(c) \/ Client(c)
    PROVE  OthersSent'
<1>1. CASE commands' = commands
  <2>1. SentItems' = SentItems
    BY <1>1, SamePlaces
  <2> QED BY <2>1 DEF OthersSent
<1>2. CASE \E x \in Command : /\ commands' = Append(commands, x)
                              /\ x.op = cl[c].op /\ x.item = cl[c].item /\ cl[c].pc = "send"
  <2>1. PICK x \in Command : /\ commands' = Append(commands, x)
                              /\ x.op = cl[c].op /\ x.item = cl[c].item /\ cl[c].pc = "send"
    BY <1>2
  <2>2. x.op \in Carries => x.item.by = c
    BY <2>1 DEF KindsOK, Holds
  <2>3. c # None
    BY ConstantsAssumption
  <2> QED BY <2>1, <2>2, <2>3, AppendSent DEF OthersSent
<1>3. ASSUME Send(c) \/ Enqueue(c)
      PROVE  commands' = commands \/
             \E x \in Command : /\ commands' = Append(commands, x)
                                /\ x.op = cl[c].op /\ x.item = cl[c].item /\ cl[c].pc = "send"
  <2>1. PICK x : x = [op |-> cl[c].op, client |-> c, item |-> cl[c].item]
    OBVIOUS
  <2>2. x \in Command
    BY <2>1 DEF Command, Owners, Inv, TypeOK, ClientTypes, CallState
  <2>3. x.op = cl[c].op /\ x.item = cl[c].item
    BY <2>1
  <2>4. commands' = commands \/ (commands' = Append(commands, x) /\ cl[c].pc = "send")
    BY <1>3, <2>1 DEF Send, Enqueue
  <2> QED BY <2>2, <2>3, <2>4
<1>4. ASSUME Caller(c) \/ Await(c) \/ CloseOnce(c) \/ CloseReturns(c) PROVE commands' = commands
  BY <1>4 DEF Caller, BeginCall, BeginEnqueue, CancelTimer, BeginClose, Await, CloseOnce, CloseReturns
<1> QED BY <1>1, <1>2, <1>3, <1>4 DEF Client

LEMMA IdleOKStep ==
    ASSUME ClosedInv, IdleOK, [Next]_vars
    PROVE  IdleOK'
<1>1. (ctx = 0 => closed \/ ~Whole(stack)) /\ (closed => state # "Running")
  BY DEF IdleOK
<1>2. ctx' = 0 => closed' \/ ~Whole(stack')
  BY <1>1, NoContextStep
<1>3. closed' => state' # "Running"
  BY <1>1, PausedStep
<1> QED BY <1>2, <1>3 DEF IdleOK

LEMMA DrainStep ==
    ASSUME WorkInv, WorkInv', IdleOK, DrainOK, [Next]_vars
    PROVE  DrainOK'
<1>1. /\ CallsInv /\ Inv /\ ClosedInv /\ KindsOK /\ StateOK
      /\ Inv'
  BY DEF WorkInv, WorkOK, CallsInv
<1>2. CASE Pumping
  <2>1. CASE Idling
    BY <1>1, <2>1, IdlingStep
  <2>2. CASE ~Idling
    BY <1>1, <1>2, <2>2, PatientPumping, PatientIsOK
  <2> QED BY <2>1, <2>2
<1>3. CASE UserActs
  <2>1. CASE Top.fn \notin Loops
    BY <1>1, <1>3, <2>1, PatientUserActs, PatientIsOK
  <2>2. CASE Top.fn \in Loops
    <3>1. /\ stack # <<>> /\ Top.pc = "jobs"
          /\ UNCHANGED <<stack, tasks, closed, generation, ctx>> /\ (OthersSent => OthersSent')
      BY <1>1, <1>3, <2>2, JobActs
    <3>2. Top' = Top /\ Below' = Below /\ (Open' <=> Open)
      BY <3>1 DEF Top, Below, Open, Disposes
    <3>3. PumpOK'
      BY <2>2, <3>1, <3>2 DEF DrainOK, PumpOK, Workless
    <3> QED BY <3>1, <3>2, <3>3 DEF DrainOK
  <2> QED BY <2>1, <2>2
<1>4. CASE UserReturns
  BY <1>1, <1>4, PatientUserReturns, PatientIsOK
<1>5. CASE Disposing
  BY <1>1, <1>5, PatientDisposing, PatientIsOK
<1>6. CASE (\E c \in Clients : Caller(c) \/ Client(c)) \/ Tick \/ Quiet \/ UNCHANGED vars
  <2>1. UNCHANGED <<stack, state, closed, generation, ctx, tasks>>
    BY <1>6, ClientsApart
  <2>2. OthersSent => OthersSent'
    <3>1. CASE Tick \/ Quiet \/ UNCHANGED vars
      <4>1. commands' = commands
        BY <3>1 DEF Tick, Quiet, vars
      <4>2. SentItems' = SentItems
        BY <4>1, SamePlaces
      <4> QED BY <4>2 DEF OthersSent
    <3> QED BY <1>1, <1>6, <3>1, OthersSentStep
  <2>3. Top' = Top /\ Below' = Below /\ (Open' <=> Open)
    BY <2>1 DEF Top, Below, Open, Disposes
  <2>4. PumpOK => PumpOK'
    BY <2>1, <2>2, <2>3 DEF PumpOK, Workless
  <2> QED BY <2>1, <2>3, <2>4 DEF DrainOK
<1> QED BY <1>2, <1>3, <1>4, <1>5, <1>6 DEF Next, Owner

LEMMA DrainInit == Init => DrainOK /\ IdleOK
<1> SUFFICES ASSUME Init PROVE DrainOK /\ IdleOK
    OBVIOUS
<1>1. stack = <<NewFrame("owner", "top", None)>> /\ ctx = 1 /\ closed = FALSE
  BY DEF Init
<1>2. PICK f : f = NewFrame("owner", "top", None)
  OBVIOUS
<1>3. f \in Frame /\ f.pc = "top"
  <2>1. "owner" \in Loops /\ "top" \in Points /\ None \in Owners
    BY DEF Loops, Points, Owners
  <2> QED BY <1>2, <2>1, NewFrameType DEF NewFrame
<1>4. stack = <<f>>
  BY <1>1, <1>2
<1>5. Top = f /\ Below = <<>>
  BY <1>3, <1>4 DEF Top, Below
<1>6. Patient(<<>>)
  <2>1. <<>> \in Seq(Frame) /\ DOMAIN <<>> = {}
    OBVIOUS
  <2> QED BY <2>1 DEF Patient
<1>7. PumpOK
  BY <1>3, <1>5 DEF PumpOK
<1> QED BY <1>1, <1>5, <1>6, <1>7 DEF DrainOK, IdleOK

\* When a Run ends for lack of work.
LEMMA IdleIsDrained ==
    ASSUME WorkInv, Requeued, NotLost, DrainOK, RunIsIdle,
           NEW a \in AcceptedItems, a.by \in {None, "job"}, Wanted(a)
    PROVE  \/ HasRun(a.id) /\ a.kind \notin Intervals
           \/ a.by = "job" /\ InChannel(a)
<1>1. /\ Inv /\ KindsOK /\ IdsOK /\ PhasesOK
  BY DEF WorkInv, WorkOK, CallsInv
<1>2. /\ stack # <<>> /\ Top.fn = "run" /\ Top.pc = "check" /\ Kept = {}
  BY DEF RunIsIdle, At, Running, HasPendingWork
<1>3. Open /\ OthersSent /\ tasks = <<>>
  BY <1>2 DEF DrainOK, PumpOK, Workless, Loops
<1>4. Found(a)
  BY <1>3 DEF NotLost
<1>5. ASSUME NEW x \in SentItems, Same(a, x) PROVE a.by = "job" /\ InChannel(a)
  BY <1>3, <1>5 DEF OthersSent, Same, SentItems, InChannel
<1>6. ASSUME NEW x \in Stored, Same(a, x), ~(a.by = "job" /\ InChannel(a))
      PROVE  a.kind \notin Intervals /\ a.id \in RanIds
  <2>1. x \notin SentItems
    BY <1>6, <1>5
  <2>2. x \notin TaskItems
    <3>1. DOMAIN tasks = {}
      BY <1>3
    <3> QED BY <3>1 DEF TaskItems, ItemsOf
  <2>3. x \notin timers
    BY <1>2, <1>6, KeptItems DEF Wanted, Same
  <2>4. PICK f \in Calls : f.item = x
    BY <2>1, <2>2, <2>3 DEF Stored, Fired
  <2>5. f.at \in DOMAIN stack /\ stack[f.at].fn = "timer" /\ stack[f.at].item = x
        /\ f.phase = Phase(stack[f.at])
    BY <2>4, FiringAt DEF Calls
  <2>6. Live(f.at)
    BY <1>6, <2>5 DEF Live, Wanted, Same
  <2>7. a.kind \notin Intervals
    <3>1. CASE NoIntervals
      <4>1. a.kind \in UsedOps
        BY <1>1 DEF IdsOK, IdOK, Known
      <4> QED BY <3>1, <4>1 DEF NoIntervals
    <3>2. CASE Steadies
      <4>1. Top.fn \in Nested \cup {"timer"}
        BY <1>1, <1>3, <2>5, <2>6, <3>2, SteadyTop
      <4> QED BY <1>2, <4>1 DEF Nested
    <3> QED BY <3>1, <3>2 DEF Requeued
  <2>8. f.phase # "start"
    <3>1. f.at # Len(stack)
      BY <1>2, <2>5 DEF Top
    <3>2. FrameOK(f.at)
      BY <1>1, <2>5 DEF Inv, StackOK
    <3>3. stack[f.at].pc # "start"
      BY <3>1, <3>2 DEF FrameOK, Busy
    <3> QED BY <2>5, <3>3 DEF Phase
  <2>9. f.phase # "finish"
    BY <1>1, <1>6, <2>4 DEF PhasesOK, Wanted, Same
  <2>10. f.item.id \in RanIds
    BY <1>1, <2>4, <2>8, <2>9, CallPhase DEF PhasesOK
  <2> QED BY <1>6, <2>4, <2>7, <2>10 DEF Same
<1>7. CASE a.by = "job" /\ InChannel(a)
  BY <1>7
<1>8. CASE ~(a.by = "job" /\ InChannel(a))
  <2>1. a.kind \notin Intervals /\ a.id \in RanIds
    BY <1>4, <1>6, <1>8 DEF Found
  <2> QED BY <2>1 DEF RanIds, HasRun
<1> QED BY <1>7, <1>8

\* "Run ... drains until quiescent": when a Run ends for lack of work (runUntilIdle,
\* pumpOnce, hasPendingWork), nothing the owner queued in this generation is left in the
\* channel, the slice or the heap, or still calls back below it, except what a job sent
\* through the channel and no pump has seen.  It is false of a loop whose callbacks stop
\* it and that has intervals.
THEOREM RunDrainsAll ==
    ASSUME "Stop" \notin TaskOps \/ NoIntervals
    PROVE  Spec => RunDrains
<1>1. Init => NotLost
  BY DEF Init, NotLost, AcceptedItems
<1>2. WorkInv /\ WorkInv' /\ Requeued /\ NotLost /\ [Next]_vars => NotLost'
  BY NotLostStep
<1>3. WorkInv /\ WorkInv' /\ IdleOK /\ DrainOK /\ [Next]_vars => IdleOK' /\ DrainOK'
  BY IdleOKStep, DrainStep DEF WorkInv
<1>4. WorkInv /\ Requeued /\ NotLost /\ DrainOK =>
        [RunIsIdle =>
           \A a \in AcceptedItems :
             /\ a.by \in {None, "job"} /\ a.gen = generation /\ a.id \notin cancelled
             /\ a.kind # "RegisterResource"
             => \/ HasRun(a.id) /\ a.kind \notin Intervals
                \/ a.by = "job" /\ InChannel(a)]_vars
  BY IdleIsDrained DEF Wanted
<1>5. Spec => []Requeued
  BY RequeuedHolds
<1> QED BY <1>1, <1>2, <1>3, <1>4, <1>5, DrainInit, WorkInvHolds, PTL DEF Spec, RunDrains

-------------------------------------------------------------------------------
\* The ids of a sequence that are in a set, in order.

\* The induction that first-order provers can use: a set of numbers has a least one.
LEMMA Least ==
    ASSUME NEW T, T \subseteq Nat, T # {}
    PROVE  \E n \in T : \A m \in T : n <= m
<1>1. IsWellFoundedOn(OpToRel(<, Nat), Nat)
  BY NatLessThanWellFounded, Zenon
<1>2. \A x, y \in Nat : <<y, x>> \in OpToRel(<, Nat) <=> y < x
  BY DEF OpToRel
<1>3. \E x \in T : \A y \in T : ~(<<y, x>> \in OpToRel(<, Nat))
  BY <1>1, WFMin, Zenon
<1>4. \E x \in T : \A y \in T : ~(y < x)
  BY <1>2, <1>3, Zenon
<1> QED BY <1>4

Picks(f, S, s, n) ==
    f = [i \in 0..n |-> IF i = 0 THEN <<>> ELSE AddId(f[i - 1], S, s[i])]

\* The function that IdsIn defines by recursion exists ...
LEMMA PicksExists ==
    ASSUME NEW S, NEW s
    PROVE  \A n \in Nat : \E f : Picks(f, S, s, n)
<1> DEFINE T == {n \in Nat : ~\E f : Picks(f, S, s, n)}
<1>1. SUFFICES ASSUME T # {} PROVE FALSE
  OBVIOUS
<1>2. PICK n \in T : \A m \in T : n <= m
  BY <1>1, Least
<1>3. n # 0
  <2>1. Picks([i \in 0..0 |-> <<>>], S, s, 0)
    BY DEF Picks
  <2> QED BY <2>1
<1>4. n \in Nat /\ n - 1 \in Nat /\ n - 1 \notin T
  BY <1>2, <1>3
<1>5. PICK f : Picks(f, S, s, n - 1)
  BY <1>4
<1>6. PICK g : g = [i \in 0..n |-> IF i = 0 THEN <<>> ELSE AddId(f[i - 1], S, s[i])]
  OBVIOUS
<1>7. Picks(g, S, s, n)
  <2>1. \A i \in 0..n : i # 0 => i - 1 \in 0..(n - 1) /\ i - 1 \in 0..n
    BY <1>4
  <2>2. \A i \in 0..(n - 1) : g[i] = f[i]
    BY <1>4, <1>5, <1>6 DEF Picks
  <2>3. \A i \in 0..n : g[i] = IF i = 0 THEN <<>> ELSE AddId(g[i - 1], S, s[i])
    BY <1>6, <2>1, <2>2
  <2>4. g = [i \in 0..n |-> g[i]]
    BY <1>6
  <2> QED BY <2>3, <2>4 DEF Picks
<1>8. n \notin T
  BY <1>7
<1> QED BY <1>2, <1>8

\* ... and is what it says.
Chooses(f, S, s, n) ==
    /\ f[0] = <<>>
    /\ \A i \in 1..n : f[i] = AddId(f[i - 1], S, s[i])
    /\ \A i \in 0..n : f[i] \in Seq(Nat)

Numbered(T) == \A x \in T : x.id \in Nat

LEMMA IdsInUnfolds ==
    ASSUME NEW S, NEW T, Numbered(T), NEW s \in Seq(T)
    PROVE  \E f : Chooses(f, S, s, Len(s)) /\ IdsIn(S, s) = f[Len(s)]
<1> DEFINE n == Len(s)
<1>1. n \in Nat /\ DOMAIN s = 1..n /\ \A i \in 1..n : s[i] \in T
  OBVIOUS
<1>2. PICK f : f = CHOOSE g : Picks(g, S, s, n)
  OBVIOUS
<1>3. Picks(f, S, s, n)
  BY <1>1, <1>2, PicksExists
<1>4. IdsIn(S, s) = f[n]
  BY <1>2 DEF IdsIn, Picks
<1> HIDE DEF n
<1>5. /\ f[0] = <<>>
      /\ \A i \in 1..n : f[i] = AddId(f[i - 1], S, s[i])
  BY <1>1, <1>3 DEF Picks
<1>6. \A i \in 0..n : f[i] \in Seq(Nat)
  <2> DEFINE U == {i \in 0..n : f[i] \notin Seq(Nat)}
  <2>1. SUFFICES ASSUME U # {} PROVE FALSE
    OBVIOUS
  <2>2. PICK i \in U : \A m \in U : i <= m
    <3>1. U \subseteq Nat
      OBVIOUS
    <3> QED BY <2>1, <3>1, Least
  <2>3. <<>> \in Seq(Nat)
    OBVIOUS
  <2>4. i # 0
    BY <1>5, <2>2, <2>3
  <2>5. i \in 1..n /\ i - 1 \in 0..n /\ i - 1 \notin U
    BY <1>1, <2>2, <2>4
  <2>6. f[i - 1] \in Seq(Nat) /\ s[i].id \in Nat
    BY <1>1, <2>5 DEF Numbered
  <2>7. f[i] \in Seq(Nat)
    <3>1. PICK u \in Seq(Nat) : u = f[i - 1]
      BY <2>6
    <3>2. f[i] = u \/ f[i] = Append(u, s[i].id)
      BY <1>5, <2>5, <3>1 DEF AddId
    <3>3. PICK k \in Nat : k = s[i].id
      BY <2>6
    <3>4. Append(u, k) \in Seq(Nat)
      OBVIOUS
    <3> QED BY <3>2, <3>3, <3>4
  <2> QED BY <2>2, <2>7
<1> QED BY <1>4, <1>5, <1>6 DEF Chooses, n

LEMMA IdsInType ==
    ASSUME NEW S, NEW T, Numbered(T), NEW s \in Seq(T)
    PROVE  IdsIn(S, s) \in Seq(Nat)
<1>1. PICK f : Chooses(f, S, s, Len(s)) /\ IdsIn(S, s) = f[Len(s)]
  BY IdsInUnfolds
<1>2. Len(s) \in Nat
  OBVIOUS
<1> QED BY <1>1, <1>2 DEF Chooses

LEMMA IdsInEmpty ==
    ASSUME NEW S, NEW T, Numbered(T), NEW s \in Seq(T), \A i \in DOMAIN s : s[i] \notin S
    PROVE  IdsIn(S, s) = <<>>
<1>1. PICK f : Chooses(f, S, s, Len(s)) /\ IdsIn(S, s) = f[Len(s)]
  BY IdsInUnfolds
<1>2. PICK n : n = Len(s)
  OBVIOUS
<1>3. n \in Nat /\ DOMAIN s = 1..n
  BY <1>2
<1>4. /\ f[0] = <<>> /\ \A i \in 1..n : f[i] = f[i - 1]
  BY <1>1, <1>2, <1>3 DEF Chooses, AddId
<1> DEFINE U == {i \in 0..n : f[i] # <<>>}
<1>5. SUFFICES ASSUME U # {} PROVE FALSE
  BY <1>1, <1>2, <1>3
<1>6. PICK i \in U : \A m \in U : i <= m
  <2>1. U \subseteq Nat
    BY <1>3
  <2> QED BY <1>5, <2>1, Least
<1>7. i \in 1..n /\ i - 1 \in 0..n /\ i - 1 \notin U
  BY <1>3, <1>4, <1>6
<1> QED BY <1>4, <1>6, <1>7

LEMMA IdsInAppend ==
    ASSUME NEW S, NEW T, Numbered(T), NEW s \in Seq(T), NEW x \in T
    PROVE  IdsIn(S, Append(s, x)) = AddId(IdsIn(S, s), S, x)
<1>1. PICK t : t = Append(s, x)
  OBVIOUS
<1>2. PICK n : n = Len(s)
  OBVIOUS
<1>3. /\ t \in Seq(T) /\ n \in Nat /\ Len(t) = n + 1
      /\ t[n + 1] = x /\ \A i \in 1..n : t[i] = s[i]
  BY <1>1, <1>2
<1>4. PICK f : Chooses(f, S, s, n) /\ IdsIn(S, s) = f[n]
  BY <1>2, IdsInUnfolds
<1>5. PICK g : Chooses(g, S, t, n + 1) /\ IdsIn(S, t) = g[n + 1]
  BY <1>3, IdsInUnfolds
<1>6. /\ f[0] = <<>> /\ g[0] = <<>>
      /\ \A i \in 1..n : f[i] = AddId(f[i - 1], S, s[i])
      /\ \A i \in 1..n + 1 : g[i] = AddId(g[i - 1], S, t[i])
  BY <1>4, <1>5 DEF Chooses
<1> DEFINE U == {i \in 0..n : g[i] # f[i]}
<1>7. ASSUME U # {} PROVE FALSE
  <2>1. PICK i \in U : \A m \in U : i <= m
    <3>1. U \subseteq Nat
      BY <1>3
    <3> QED BY <1>7, <3>1, Least
  <2>2. i \in 1..n /\ i \in 1..n + 1 /\ i - 1 \in 0..n /\ i - 1 \notin U
    BY <1>3, <1>6, <2>1
  <2>3. g[i - 1] = f[i - 1] /\ t[i] = s[i]
    BY <1>3, <2>2
  <2> QED BY <1>6, <2>1, <2>2, <2>3
<1>8. g[n] = f[n] /\ n + 1 \in 1..n + 1 /\ (n + 1) - 1 = n
  BY <1>3, <1>7
<1>9. g[n + 1] = AddId(f[n], S, x)
  BY <1>3, <1>6, <1>8
<1> QED BY <1>1, <1>4, <1>5, <1>9

LEMMA ConcatAppend ==
    ASSUME NEW s \in Seq(Nat), NEW t \in Seq(Nat), NEW x \in Nat
    PROVE  s \o Append(t, x) = Append(s \o t, x)
<1>1. <<x>> \in Seq(Nat) /\ s \o t \in Seq(Nat)
  OBVIOUS
<1>2. Append(t, x) = t \o <<x>> /\ Append(s \o t, x) = (s \o t) \o <<x>>
  BY <1>1, AppendIsConcat
<1> QED BY <1>1, <1>2, ConcatAssociative

LEMMA IdsInTail ==
    ASSUME NEW S, NEW T, Numbered(T), NEW s \in Seq(T), s # <<>>
    PROVE  IdsIn(S, s) = IF Head(s) \in S THEN <<Head(s).id>> \o IdsIn(S, Tail(s))
                                          ELSE IdsIn(S, Tail(s))
<1>1. PICK t : t = Tail(s)
  OBVIOUS
<1>2. PICK n : n = Len(t)
  OBVIOUS
<1>3. /\ t \in Seq(T) /\ n \in Nat /\ Len(s) = n + 1
      /\ s[1] = Head(s) /\ Head(s) \in T /\ \A i \in 1..n : t[i] = s[i + 1]
  BY <1>1, <1>2
<1>4. PICK f : Chooses(f, S, s, n + 1) /\ IdsIn(S, s) = f[n + 1]
  BY <1>3, IdsInUnfolds
<1>5. PICK g : Chooses(g, S, t, n) /\ IdsIn(S, t) = g[n]
  BY <1>2, <1>3, IdsInUnfolds
<1>6. PICK h : h = IF Head(s) \in S THEN <<Head(s).id>> ELSE <<>>
  OBVIOUS
<1>7. h \in Seq(Nat)
  <2>1. Head(s).id \in Nat
    BY <1>3 DEF Numbered
  <2> QED BY <1>6, <2>1
<1>8. /\ f[0] = <<>> /\ g[0] = <<>>
      /\ \A i \in 1..n + 1 : f[i] = AddId(f[i - 1], S, s[i])
      /\ \A i \in 1..n : g[i] = AddId(g[i - 1], S, t[i])
      /\ \A i \in 0..n : g[i] \in Seq(Nat)
  BY <1>4, <1>5 DEF Chooses
<1>9. f[1] = h
  <2>1. 1 \in 1..n + 1 /\ 1 - 1 = 0
    BY <1>3
  <2>2. f[1] = IF Head(s) \in S THEN Append(<<>>, Head(s).id) ELSE <<>>
    BY <1>3, <1>8, <2>1 DEF AddId
  <2>3. Append(<<>>, Head(s).id) = <<Head(s).id>>
    OBVIOUS
  <2> QED BY <1>6, <2>2, <2>3
<1> DEFINE U == {i \in 0..n : f[i + 1] # h \o g[i]}
<1>10. ASSUME U # {} PROVE FALSE
  <2>1. PICK i \in U : \A m \in U : i <= m
    <3>1. U \subseteq Nat
      BY <1>3
    <3> QED BY <1>10, <3>1, Least
  <2>2. i # 0
    <3>1. h \o <<>> = h
      BY <1>7
    <3>2. f[0 + 1] = h \o g[0]
      BY <1>8, <1>9, <3>1
    <3> QED BY <2>1, <3>2
  <2>3. i \in 1..n /\ i + 1 \in 1..n + 1 /\ i - 1 \in 0..n /\ i - 1 \notin U
        /\ (i + 1) - 1 = i /\ (i - 1) + 1 = i
    <3>1. i \in 0..n /\ i # 0
      BY <2>1, <2>2
    <3>2. /\ i \in 1..n /\ i + 1 \in 1..n + 1 /\ i - 1 \in 0..n
          /\ (i + 1) - 1 = i /\ (i - 1) + 1 = i /\ ~(i <= i - 1)
      BY <1>3, <3>1
    <3> QED BY <2>1, <3>2
  <2>4. f[i] = h \o g[i - 1]
    BY <2>3
  <2>5. t[i] = s[i + 1] /\ t[i] \in T
    BY <1>3, <2>3
  <2>6. f[i + 1] = AddId(h \o g[i - 1], S, t[i])
    BY <1>8, <2>3, <2>4, <2>5
  <2>7. g[i] = AddId(g[i - 1], S, t[i])
    BY <1>8, <2>3
  <2>8. Append(h \o g[i - 1], t[i].id) = h \o Append(g[i - 1], t[i].id)
    <3>1. PICK u \in Seq(Nat) : u = g[i - 1]
      BY <1>8, <2>3
    <3>2. PICK k \in Nat : k = t[i].id
      BY <2>5 DEF Numbered
    <3>3. Append(h \o u, k) = h \o Append(u, k)
      BY <1>7, ConcatAppend
    <3> QED BY <3>1, <3>2, <3>3
  <2> QED BY <2>1, <2>6, <2>7, <2>8 DEF AddId
<1>11. f[n + 1] = h \o g[n]
  <2>1. n \in 0..n
    BY <1>3
  <2> QED BY <1>10, <2>1
<1>12. <<>> \o g[n] = g[n]
  <2>1. g[n] \in Seq(Nat)
    BY <1>3, <1>8
  <2> QED BY <2>1
<1> QED BY <1>1, <1>4, <1>5, <1>6, <1>11, <1>12

\* Slices.

LEMMA IdsAppend ==
    ASSUME NEW s \in Seq(Item), NEW x \in Item
    PROVE  Ids(Append(s, x)) = Append(Ids(s), x.id)
<1>1. PICK t : t = Append(s, x)
  OBVIOUS
<1>2. PICK n : n = Len(s)
  OBVIOUS
<1>3. /\ n \in Nat /\ DOMAIN s = 1..n /\ DOMAIN t = 1..n + 1 /\ t[n + 1] = x
      /\ \A i \in 1..n : t[i] = s[i]
  BY <1>1, <1>2
<1>4. PICK k \in Nat : k = x.id
  BY DEF Item
<1>5. Ids(s) \in Seq(Nat) /\ Len(Ids(s)) = n /\ \A i \in 1..n : Ids(s)[i] = s[i].id
  <2>1. \A i \in 1..n : s[i].id \in Nat
    <3>1. \A i \in 1..n : s[i] \in Item
      BY <1>3
    <3> QED BY <3>1 DEF Item
  <2>2. Ids(s) = [i \in 1..n |-> s[i].id]
    BY <1>3 DEF Ids
  <2> QED BY <1>3, <2>1, <2>2, IsASeq
<1>6. PICK u : u = Append(Ids(s), k)
  OBVIOUS
<1>7. /\ u \in Seq(Nat) /\ Len(u) = n + 1 /\ u[n + 1] = k
      /\ \A i \in 1..n : u[i] = Ids(s)[i]
  BY <1>5, <1>6
<1>8. \A i \in 1..n + 1 : u[i] = t[i].id
  <2>1. \A i \in 1..n + 1 : i = n + 1 \/ i \in 1..n
    BY <1>3
  <2> QED BY <1>3, <1>4, <1>5, <1>7, <2>1
<1>9. u = [i \in 1..n + 1 |-> u[i]]
  BY <1>3, <1>7
<1> QED BY <1>1, <1>3, <1>4, <1>6, <1>8, <1>9 DEF Ids

LEMMA IdsTail ==
    ASSUME NEW s \in Seq(Item), s # <<>>
    PROVE  Ids(s) # <<>> /\ Head(Ids(s)) = Head(s).id /\ Ids(Tail(s)) = Tail(Ids(s))
<1>1. PICK t : t = Tail(s)
  OBVIOUS
<1>2. PICK n : n = Len(s) - 1
  OBVIOUS
<1>3. /\ n \in Nat /\ DOMAIN s = 1..n + 1 /\ DOMAIN t = 1..n /\ Head(s) = s[1]
      /\ \A i \in 1..n : t[i] = s[i + 1]
  BY <1>1, <1>2
<1>4. PICK u : u = Ids(s)
  OBVIOUS
<1>5. u \in Seq(Nat) /\ Len(u) = n + 1 /\ \A i \in 1..n + 1 : u[i] = s[i].id
  <2>1. \A i \in 1..n + 1 : s[i].id \in Nat
    <3>1. \A i \in 1..n + 1 : s[i] \in Item
      BY <1>3
    <3> QED BY <3>1 DEF Item
  <2>2. u = [i \in 1..n + 1 |-> s[i].id]
    BY <1>3, <1>4 DEF Ids
  <2>3. n + 1 \in Nat
    BY <1>3
  <2>4. u \in Seq(Nat)
    BY <2>1, <2>2, <2>3, IsASeq
  <2> QED BY <2>2, <2>3, <2>4
<1>6. PICK w : w = Tail(u)
  OBVIOUS
<1>7. /\ w \in Seq(Nat) /\ Len(w) = n /\ \A i \in 1..n : w[i] = u[i + 1]
      /\ u # <<>> /\ Head(u) = u[1]
  BY <1>3, <1>5, <1>6
<1>8. \A i \in 1..n : w[i] = t[i].id
  <2>1. \A i \in 1..n : i + 1 \in 1..n + 1
    BY <1>3
  <2> QED BY <1>3, <1>5, <1>7, <2>1
<1>9. w = [i \in 1..n |-> w[i]]
  BY <1>3, <1>7
<1>10. 1 \in 1..n + 1
  BY <1>3
<1> QED BY <1>1, <1>3, <1>4, <1>5, <1>6, <1>7, <1>8, <1>9, <1>10 DEF Ids

LEMMA HeadOfConcat ==
    ASSUME NEW s \in Seq(Nat), NEW u \in Seq(Nat), s # <<>>
    PROVE  s \o u # <<>> /\ Head(s \o u) = Head(s) /\ Tail(s \o u) = Tail(s) \o u
<1>1. PICK h : h = Head(s)
  OBVIOUS
<1>2. PICK t : t = Tail(s)
  OBVIOUS
<1>3. h \in Nat /\ t \in Seq(Nat) /\ s = <<h>> \o t /\ <<h>> \in Seq(Nat)
  <2>1. h \in Nat /\ t \in Seq(Nat)
    BY <1>1, <1>2
  <2>2. s = <<h>> \o t
    BY <1>1, <1>2, HeadTailProperties
  <2> QED BY <2>1, <2>2
<1>4. s \o u = <<h>> \o (t \o u)
  BY <1>3, ConcatAssociative
<1>5. PICK b : b = t \o u
  OBVIOUS
<1>6. b \in Seq(Nat)
  BY <1>3, <1>5, ConcatProperties
<1>7. <<h>> \o b # <<>> /\ Head(<<h>> \o b) = h /\ Tail(<<h>> \o b) = b
  <2>1. PICK a : a = <<h>> \o b
    OBVIOUS
  <2>2. /\ a \in Seq(Nat) /\ Len(a) = 1 + Len(b) /\ Len(b) \in Nat /\ a[1] = h
        /\ \A i \in 1..Len(b) : a[i + 1] = b[i]
    BY <1>3, <1>6, <2>1
  <2>3. a # <<>> /\ Head(a) = h
    BY <2>2
  <2>4. PICK c : c = Tail(a)
    OBVIOUS
  <2>5. c \in Seq(Nat) /\ Len(c) = Len(b) /\ \A i \in 1..Len(b) : c[i] = a[i + 1]
    BY <2>2, <2>3, <2>4
  <2>6. c = b
    BY <1>6, <2>2, <2>5, SeqEqual
  <2> QED BY <2>1, <2>3, <2>4, <2>6
<1> QED BY <1>1, <1>2, <1>4, <1>5, <1>7

-------------------------------------------------------------------------------
\* The queue of SerialQueue: the tasks of the slice and the ones in the channel.

Ran == IdsIn(TaskRuns, ran)
Stays    == Queued' = Queued /\ Ran' = Ran
Accepts  == Ran' = Ran /\ \E id \in 1..MaxItems : Queued' = Append(Queued, id)
Executes == /\ Queued # <<>> /\ Queued' = Tail(Queued)
            /\ Ran' = Append(Ran, Head(Queued))

Started == [id : Nat, kind : Ops, gen : Nat, at : Nat, late : BOOLEAN]

LEMMA ItemsNumbered == Numbered(Item) /\ Numbered(Started)
  BY DEF Numbered, Item, Started

LEMMA SliceTypes == ASSUME NEW s \in Seq(Item) PROVE Ids(s) \in Seq(Nat)
<1>1. \A i \in DOMAIN s : s[i].id \in Nat
  <2>1. \A i \in DOMAIN s : s[i] \in Item
    OBVIOUS
  <2> QED BY <2>1 DEF Item
<1>2. Len(s) \in Nat /\ DOMAIN s = 1..Len(s)
  OBVIOUS
<1> QED BY <1>1, <1>2, IsASeq DEF Ids

LEMMA ChannelTypeOK == ASSUME Inv PROVE ChannelItems \in Seq(Item) /\ Len(ChannelItems) = Len(commands)
<1>1. commands \in Seq(Command) /\ Len(commands) \in Nat /\ DOMAIN commands = 1..Len(commands)
  <2>1. commands \in Seq(Command)
    BY StatePlaces
  <2> QED BY <2>1
<1>2. \A i \in DOMAIN commands : commands[i].item \in Item
  <2>1. \A i \in DOMAIN commands : commands[i] \in Command
    BY <1>1
  <2> QED BY <2>1 DEF Command
<1>3. ChannelItems \in Seq(Item)
  BY <1>1, <1>2, IsASeq DEF ChannelItems
<1>4. DOMAIN ChannelItems = 1..Len(commands)
  BY <1>1 DEF ChannelItems
<1> QED BY <1>1, <1>3, <1>4

LEMMA QueueTypes ==
    ASSUME Inv
    PROVE  /\ Ids(tasks) \in Seq(Nat) /\ IdsIn(LiveTasks, ChannelItems) \in Seq(Nat)
           /\ Queued \in Seq(Nat)
<1>1. Ids(tasks) \in Seq(Nat)
  BY StatePlaces, SliceTypes
<1>2. IdsIn(LiveTasks, ChannelItems) \in Seq(Nat)
  BY ChannelTypeOK, ItemsNumbered, IdsInType
<1> QED BY <1>1, <1>2 DEF Queued

LEMMA ChannelAppends ==
    ASSUME Inv, NEW v \in Command, commands' = Append(commands, v)
    PROVE  ChannelItems' = Append(ChannelItems, v.item)
<1>1. commands \in Seq(Command) /\ ChannelItems \in Seq(Item) /\ Len(ChannelItems) = Len(commands)
  BY StatePlaces, ChannelTypeOK
<1>2. PICK n : n = Len(commands)
  OBVIOUS
<1>3. PICK x : x = v.item
  OBVIOUS
<1>4. /\ n \in Nat /\ DOMAIN commands' = 1..n + 1 /\ commands'[n + 1] = v
      /\ \A i \in 1..n : commands'[i] = commands[i]
      /\ DOMAIN commands = 1..n
  BY <1>1, <1>2
<1>5. PICK t : t = Append(ChannelItems, x)
  OBVIOUS
<1>6. x \in Item
  BY <1>3 DEF Command
<1>7. /\ t \in Seq(Item) /\ Len(t) = n + 1 /\ t[n + 1] = x
      /\ \A i \in 1..n : t[i] = ChannelItems[i]
  BY <1>1, <1>2, <1>5, <1>6
<1>8. \A i \in 1..n : ChannelItems[i] = commands[i].item
  BY <1>4 DEF ChannelItems
<1>9. \A i \in 1..n + 1 : t[i] = commands'[i].item
  <2>1. \A i \in 1..n + 1 : i = n + 1 \/ i \in 1..n
    BY <1>4
  <2> QED BY <1>3, <1>4, <1>7, <1>8, <2>1
<1>10. t = [i \in 1..n + 1 |-> t[i]]
  BY <1>4, <1>7
<1> QED BY <1>3, <1>4, <1>5, <1>9, <1>10 DEF ChannelItems

LEMMA ChannelTails ==
    ASSUME Inv, commands # <<>>, commands' = Tail(commands)
    PROVE  /\ ChannelItems # <<>> /\ ChannelItems' = Tail(ChannelItems)
           /\ Head(ChannelItems) = Head(commands).item
<1>1. commands \in Seq(Command) /\ ChannelItems \in Seq(Item) /\ Len(ChannelItems) = Len(commands)
  BY StatePlaces, ChannelTypeOK
<1>2. PICK n : n = Len(commands) - 1
  OBVIOUS
<1>3. /\ n \in Nat /\ DOMAIN commands' = 1..n /\ Len(commands) = n + 1
      /\ \A i \in 1..n : commands'[i] = commands[i + 1]
      /\ DOMAIN commands = 1..n + 1 /\ Head(commands) = commands[1]
  BY <1>1, <1>2
<1>4. ChannelItems # <<>>
  BY <1>1, <1>3
<1>5. PICK t : t = Tail(ChannelItems)
  OBVIOUS
<1>6. /\ t \in Seq(Item) /\ Len(t) = n /\ Head(ChannelItems) = ChannelItems[1]
      /\ \A i \in 1..n : t[i] = ChannelItems[i + 1]
  BY <1>1, <1>3, <1>4, <1>5
<1>7. \A i \in 1..n + 1 : ChannelItems[i] = commands[i].item
  BY <1>3 DEF ChannelItems
<1>8. \A i \in 1..n : t[i] = commands'[i].item
  <2>1. \A i \in 1..n : i + 1 \in 1..n + 1
    BY <1>3
  <2> QED BY <1>3, <1>6, <1>7, <2>1
<1>9. t = [i \in 1..n |-> t[i]]
  BY <1>3, <1>6
<1>10. Head(ChannelItems) = Head(commands).item
  <2>1. 1 \in 1..n + 1
    BY <1>3
  <2> QED BY <1>3, <1>6, <1>7, <2>1
<1> QED BY <1>3, <1>4, <1>5, <1>8, <1>9, <1>10 DEF ChannelItems

LEMMA SamePlace ==
    ASSUME generation' = generation
    PROVE  /\ LiveTasks' = LiveTasks
           /\ commands' = commands => ChannelItems' = ChannelItems
           /\ tasks' = tasks => Ids(tasks)' = Ids(tasks)
           /\ ran' = ran => Ran' = Ran
<1>1. LiveTasks' = LiveTasks
  BY DEF LiveTasks
<1>2. commands' = commands => ChannelItems' = ChannelItems
  BY DEF ChannelItems
<1> QED BY <1>1, <1>2 DEF Ran

\* A task that is sent comes last; other commands do not count.
LEMMA SendsQueue ==
    ASSUME Inv, generation' = generation, tasks' = tasks, ran' = ran,
           NEW v \in Command, commands' = Append(commands, v),
           v.item \in LiveTasks => v.item.id \in 1..MaxItems
    PROVE  Stays \/ Accepts
<1>1. v.item \in Item
  BY DEF Command
<1>2. /\ ChannelItems \in Seq(Item) /\ ChannelItems' = Append(ChannelItems, v.item)
      /\ LiveTasks' = LiveTasks /\ Ids(tasks)' = Ids(tasks) /\ Ran' = Ran
      /\ Numbered(Item)
  BY ChannelTypeOK, ChannelAppends, SamePlace, ItemsNumbered
<1>3. IdsIn(LiveTasks, ChannelItems)' = AddId(IdsIn(LiveTasks, ChannelItems), LiveTasks, v.item)
  <2>1. IdsIn(LiveTasks, Append(ChannelItems, v.item))
          = AddId(IdsIn(LiveTasks, ChannelItems), LiveTasks, v.item)
    BY <1>1, <1>2, IdsInAppend
  <2> QED BY <1>2, <2>1
<1>4. Queued' = Ids(tasks) \o AddId(IdsIn(LiveTasks, ChannelItems), LiveTasks, v.item)
  BY <1>2, <1>3 DEF Queued
<1>5. CASE v.item \notin LiveTasks
  BY <1>2, <1>4, <1>5 DEF AddId, Queued, Stays
<1>6. CASE v.item \in LiveTasks
  <2>1. PICK k \in Nat : k = v.item.id
    BY <1>1 DEF Item
  <2>2. Queued' = Ids(tasks) \o Append(IdsIn(LiveTasks, ChannelItems), k)
    BY <1>4, <1>6, <2>1 DEF AddId
  <2>3. Queued' = Append(Queued, k)
    BY <2>2, QueueTypes, ConcatAppend DEF Queued
  <2> QED BY <1>2, <1>6, <2>1, <2>3 DEF Accepts
<1> QED BY <1>5, <1>6

\* A task that is received moves from the head of the channel to the end of the slice.
LEMMA TakesQueue ==
    ASSUME Inv, generation' = generation, ran' = ran,
           commands # <<>>, commands' = Tail(commands), NEW m, m = Head(commands).item,
           IF m \in LiveTasks THEN tasks' = Append(tasks, m) ELSE tasks' = tasks
    PROVE  Stays
<1>1. m \in Item
  <2>1. Head(commands) \in Command
    BY StatePlaces
  <2> QED BY <2>1 DEF Command
<1>2. /\ ChannelItems \in Seq(Item) /\ ChannelItems # <<>> /\ ChannelItems' = Tail(ChannelItems)
      /\ Head(ChannelItems) = m /\ LiveTasks' = LiveTasks /\ Ran' = Ran /\ Numbered(Item)
  BY ChannelTypeOK, ChannelTails, SamePlace, ItemsNumbered
<1>3. PICK u : u = IdsIn(LiveTasks, Tail(ChannelItems))
  OBVIOUS
<1>4. u \in Seq(Nat) /\ u = IdsIn(LiveTasks, ChannelItems)'
  <2>1. Tail(ChannelItems) \in Seq(Item)
    BY <1>2
  <2> QED BY <1>2, <1>3, <2>1, IdsInType
<1>5. IdsIn(LiveTasks, ChannelItems) = IF m \in LiveTasks THEN <<m.id>> \o u ELSE u
  BY <1>2, <1>3, IdsInTail
<1>6. CASE m \notin LiveTasks
  BY <1>2, <1>4, <1>5, <1>6, SamePlace DEF Queued, Stays
<1>7. CASE m \in LiveTasks
  <2>1. PICK k \in Nat : k = m.id
    BY <1>1 DEF Item
  <2>2. tasks \in Seq(Item) /\ Ids(tasks) \in Seq(Nat)
    BY StatePlaces, QueueTypes
  <2>3. Ids(Append(tasks, m)) = Append(Ids(tasks), k)
    BY <1>1, <2>1, <2>2, IdsAppend
  <2>4. Queued' = Append(Ids(tasks), k) \o u
    BY <1>4, <1>7, <2>3 DEF Queued
  <2>5. Queued = Ids(tasks) \o (<<k>> \o u)
    BY <1>5, <1>7, <2>1 DEF Queued
  <2>6. Append(Ids(tasks), k) = Ids(tasks) \o <<k>> /\ <<k>> \in Seq(Nat)
    BY <2>2, AppendIsConcat
  <2>7. (Ids(tasks) \o <<k>>) \o u = Ids(tasks) \o (<<k>> \o u)
    BY <1>4, <2>2, <2>6, ConcatAssociative
  <2> QED BY <1>2, <2>4, <2>5, <2>6, <2>7 DEF Stays
<1> QED BY <1>6, <1>7

\* The pump executes the first.
LEMMA RunsQueue ==
    ASSUME Inv, KindsOK, RunTask
    PROVE  Executes
<1>1. /\ tasks # <<>> /\ tasks' = Tail(tasks) /\ ran' = Append(ran, Start(Head(tasks)))
      /\ generation' = generation /\ commands' = commands
  BY DEF RunTask
<1>2. PICK h : h = Head(tasks)
  OBVIOUS
<1>3. tasks \in Seq(Item) /\ h \in Item /\ h.kind = "Schedule"
  <2>1. tasks \in Seq(Item) /\ Head(tasks) \in TaskItems
    BY <1>1, StatePlaces, TailItems
  <2> QED BY <1>1, <1>2, <2>1 DEF KindsOK
<1>4. PICK r : r = Start(h)
  OBVIOUS
<1>5. r \in Started /\ r \in TaskRuns /\ r.id = h.id
  <2>1. ctx \in Nat
    BY DEF Inv, TypeOK, StateTypes
  <2> QED BY <1>3, <1>4, <2>1 DEF Start, Started, TaskRuns, Item
<1>6. ran \in Seq(Started)
  BY DEF Inv, TypeOK, HistoryTypes, Started
<1>7. Ran' = Append(Ran, h.id)
  <2>1. IdsIn(TaskRuns, Append(ran, r)) = AddId(IdsIn(TaskRuns, ran), TaskRuns, r)
    BY <1>5, <1>6, ItemsNumbered, IdsInAppend
  <2>2. TaskRuns' = TaskRuns
    BY DEF TaskRuns
  <2> QED BY <1>1, <1>2, <1>4, <1>5, <2>1, <2>2 DEF Ran, AddId
<1>8. PICK s : s = Ids(tasks)
  OBVIOUS
<1>9. s \in Seq(Nat) /\ s # <<>> /\ Head(s) = h.id /\ Ids(Tail(tasks)) = Tail(s)
  BY <1>1, <1>2, <1>3, <1>8, IdsTail, QueueTypes
<1>10. PICK u : u = IdsIn(LiveTasks, ChannelItems)
  OBVIOUS
<1>11. u \in Seq(Nat) /\ Queued = s \o u
  BY <1>8, <1>10, QueueTypes DEF Queued
<1>12. Queued' = Tail(s) \o u
  BY <1>1, <1>9, <1>10, SamePlace DEF Queued
<1>13. s \o u # <<>> /\ Head(s \o u) = Head(s) /\ Tail(s \o u) = Tail(s) \o u
  BY <1>9, <1>11, HeadOfConcat
<1> QED BY <1>7, <1>9, <1>11, <1>12, <1>13 DEF Executes

\* A timer's callback is not a task.
LEMMA TimerStarts ==
    ASSUME Inv, KindsOK, StartTimer
    PROVE  Ran' = Ran
<1>1. stack # <<>> /\ Top.fn = "timer"
  BY DEF StartTimer, At, Running
<1>2. PICK e : e = Top.item
  OBVIOUS
<1>3. e \in Item /\ e.kind \in AllTimers
  <2>1. e \in Fired(Calls)
    BY <1>1, <1>2, TopCall DEF Fired
  <2>2. Top \in Frame
    BY <1>1, SeqFacts
  <2> QED BY <1>2, <2>1, <2>2 DEF KindsOK, Frame
<1>4. PICK r : r = Start(e)
  OBVIOUS
<1>5. r \in Started /\ r \notin TaskRuns
  <2>1. ctx \in Nat
    BY DEF Inv, TypeOK, StateTypes
  <2>2. r.kind = e.kind /\ "Schedule" \notin AllTimers
    BY <1>4 DEF Start, AllTimers, Timeouts, Intervals
  <2>3. r \in Started
    BY <1>3, <1>4, <2>1 DEF Start, Started, Item
  <2>4. \A x \in TaskRuns : x.kind = "Schedule"
    BY DEF TaskRuns
  <2> QED BY <1>3, <2>2, <2>3, <2>4
<1>6. ran \in Seq(Started)
  BY DEF Inv, TypeOK, HistoryTypes, Started
<1>7. ran' = ran \/ ran' = Append(ran, r)
  BY <1>2, <1>4 DEF StartTimer
<1>8. IdsIn(TaskRuns, Append(ran, r)) = IdsIn(TaskRuns, ran)
  <2>1. IdsIn(TaskRuns, Append(ran, r)) = AddId(IdsIn(TaskRuns, ran), TaskRuns, r)
    BY <1>5, <1>6, ItemsNumbered, IdsInAppend
  <2> QED BY <1>5, <2>1 DEF AddId
<1>9. TaskRuns' = TaskRuns
  BY DEF TaskRuns
<1> QED BY <1>7, <1>8, <1>9 DEF Ran

-------------------------------------------------------------------------------
\* What is sent and carries no item: it carries NoItem, whose generation is none.

PlainHand(k) == k.pc \in {"once", "send"} => IF k.op \in Carries THEN k.item.id > 0
                                                                 ELSE k.item.gen = 0
HandsPlain == \A c \in Clients : PlainHand(cl[c])
SentPlain == \A i \in DOMAIN commands : commands[i].op \notin Carries => commands[i].item.gen = 0
PlainOK == HandsPlain /\ SentPlain

LEMMA HandsPlainStep ==
    ASSUME Inv, KindsOK, HandsPlain, [Next]_vars
    PROVE  HandsPlain'
<1>1. cl \in [Clients -> CallState] /\ nextID \in Nat
  BY SeqFacts DEF Inv, TypeOK, CountTypes
<1>2. CASE cl' = cl
  BY <1>2 DEF HandsPlain
<1>3. ASSUME NEW c \in Clients, NEW v, cl' = [cl EXCEPT ![c] = v], PlainHand(v)
      PROVE  HandsPlain'
  <2>1. cl'[c] = v /\ \A d \in Clients : d # c => cl'[d] = cl[d]
    BY <1>1, <1>3
  <2> QED BY <1>3, <2>1 DEF HandsPlain
<1>4. NoItem.gen = 0
  BY DEF NoItem
<1>5. ASSUME NEW op, NEW delay, NEW c PROVE NewItem(op, delay, c).id > 0
  BY <1>1 DEF NewItem
<1>6. ASSUME NEW c \in Clients, NEW op \in Ops, BeginCall(c, op) PROVE HandsPlain'
  <2>1. PICK n : n = NewItem(op, 0, c)
    OBVIOUS
  <2>2. PICK z : z = NoItem
    OBVIOUS
  <2>3. op \in Carries => op = "RegisterResource"
    BY <1>6 DEF BeginCall, Carries, Enqueues, GuardedCalls, ContextCalls
  <2>4. "RegisterResource" \in Carries
    BY DEF Carries
  <2>5. PICK v : /\ cl' = [cl EXCEPT ![c] = v]
                 /\ v = IF op \in GuardedCalls /\ closed
                        THEN Call("idle", op, z, "ErrClosed")
                        ELSE Call("send", op, IF op = "RegisterResource" THEN n ELSE z, "none")
    BY <1>6, <2>1, <2>2 DEF BeginCall
  <2>6. n.id > 0 /\ z.gen = 0
    BY <1>4, <1>5, <2>1, <2>2
  <2>7. PlainHand(v)
    BY <2>3, <2>4, <2>5, <2>6 DEF Call, PlainHand
  <2> QED BY <1>3, <2>5, <2>7
<1>7. ASSUME NEW c \in Clients, NEW op \in Ops, NEW delay \in 0..1, BeginEnqueue(c, op, delay)
      PROVE  HandsPlain'
  <2>1. PICK n : n = NewItem(op, delay, c)
    OBVIOUS
  <2>2. PICK v : /\ cl' = [cl EXCEPT ![c] = v]
                 /\ v = IF closed THEN Call("idle", op, NoItem, "false") ELSE Call("send", op, n, "none")
    BY <1>7, <2>1 DEF BeginEnqueue
  <2>3. n.id > 0 /\ op \in Carries
    BY <1>5, <1>7, <2>1 DEF BeginEnqueue, Carries
  <2>4. PlainHand(v)
    BY <2>2, <2>3 DEF Call, PlainHand
  <2> QED BY <1>3, <2>2, <2>4
<1>8. ASSUME NEW c \in Clients, BeginClose(c) PROVE HandsPlain'
  <2>1. PICK z : z = NoItem
    OBVIOUS
  <2>2. PICK v : cl' = [cl EXCEPT ![c] = v] /\ v = Call("once", "Close", z, "none")
    BY <1>8, <2>1 DEF BeginClose
  <2>3. z.gen = 0 /\ "Close" \notin Carries
    BY <1>4, <2>1 DEF Carries, Enqueues
  <2>4. PlainHand(v)
    BY <2>2, <2>3 DEF Call, PlainHand
  <2> QED BY <1>3, <2>2, <2>4
<1>9. ASSUME NEW c \in Clients, NEW v, cl' = [cl EXCEPT ![c] = v], v.pc \notin {"once", "send"}
      PROVE  HandsPlain'
  BY <1>3, <1>9 DEF PlainHand
<1>10. ASSUME NEW c \in Clients, Send(c) \/ Await(c) \/ Enqueue(c) \/ CloseOnce(c) \/ CloseReturns(c)
      PROVE  HandsPlain'
  <2>1. \/ \E r : cl' = Return(c, r)
        \/ cl' = Goto(c, "await") \/ cl' = Goto(c, "waitdone")
        \/ cl[c].pc = "once" /\ cl' = Goto(c, "send")
    BY <1>10 DEF Send, Await, Enqueue, CloseOnce, CloseReturns
  <2>2. CASE \E r : cl' = Return(c, r)
    <3>1. \E v : cl' = [cl EXCEPT ![c] = v] /\ v.pc = "idle"
      BY <2>2, CallReturns
    <3> QED BY <1>9, <3>1
  <2>3. CASE cl' = Goto(c, "await") \/ cl' = Goto(c, "waitdone")
    <3>1. \E v : cl' = [cl EXCEPT ![c] = v] /\ v.pc \in {"await", "waitdone"}
      BY <2>3, CallGoesOn
    <3> QED BY <1>9, <3>1
  <2>4. CASE cl[c].pc = "once" /\ cl' = Goto(c, "send")
    <3>1. PICK k : k = cl[c]
      OBVIOUS
    <3>2. PICK v : v = Call("send", k.op, k.item, k.res)
      OBVIOUS
    <3>3. cl' = [cl EXCEPT ![c] = v]
      BY <2>4, <3>1, <3>2 DEF Goto
    <3>4. PlainHand(k) /\ k.pc = "once"
      BY <2>4, <3>1 DEF HandsPlain
    <3>5. PlainHand(v)
      BY <3>2, <3>4 DEF Call, PlainHand
    <3> QED BY <1>3, <3>3, <3>5
  <2> QED BY <2>1, <2>2, <2>3, <2>4
<1>11. CASE \E c \in Clients : CancelTimer(c)
  BY <1>2, <1>11 DEF CancelTimer
<1>12. CASE Owner
  BY <1>2, <1>12, OwnerCalls
<1>13. CASE Tick \/ Quiet \/ UNCHANGED vars
  BY <1>2, <1>13 DEF Tick, Quiet, vars
<1> QED BY <1>6, <1>7, <1>8, <1>10, <1>11, <1>12, <1>13 DEF Next, Caller, Client

LEMMA SentPlainStep ==
    ASSUME Inv, HandsPlain, SentPlain, [Next]_vars
    PROVE  SentPlain'
<1>1. commands \in Seq(Command)
  BY SeqFacts
<1>2. CASE commands' = commands
  BY <1>2 DEF SentPlain
<1>3. ASSUME commands # <<>>, commands' = Tail(commands) PROVE SentPlain'
  <2>1. \A i \in DOMAIN commands' : i + 1 \in DOMAIN commands /\ commands'[i] = commands[i + 1]
    BY <1>1, <1>3
  <2> QED BY <2>1 DEF SentPlain
<1>4. ASSUME NEW op, NEW c, NEW m, op \notin Carries => m.gen = 0,
             commands' = Append(commands, [op |-> op, client |-> c, item |-> m])
      PROVE  SentPlain'
  <2>1. PICK v : v = [op |-> op, client |-> c, item |-> m]
    OBVIOUS
  <2>2. commands' = Append(commands, v) /\ (v.op \notin Carries => v.item.gen = 0)
    BY <1>4, <2>1
  <2>3. \A i \in DOMAIN commands' :
          commands'[i] = v \/ (i \in DOMAIN commands /\ commands'[i] = commands[i])
    BY <1>1, <2>2
  <2> QED BY <2>2, <2>3 DEF SentPlain
<1>5. ASSUME NEW c \in Clients, Send(c) \/ Enqueue(c) PROVE SentPlain'
  <2>1. /\ cl[c].pc = "send"
        /\ \/ commands' = commands
           \/ commands' = Append(commands, [op |-> cl[c].op, client |-> c, item |-> cl[c].item])
    BY <1>5 DEF Send, Enqueue
  <2>2. cl[c].op \notin Carries => cl[c].item.gen = 0
    BY <2>1 DEF HandsPlain, PlainHand
  <2> QED BY <1>2, <1>4, <2>1, <2>2
<1>6. ASSUME NEW op \in Ops, NEW delay \in 0..1, UserEnqueue(op, delay) PROVE SentPlain'
  <2>1. PICK n : n = NewItem(op, delay, Maker)
    OBVIOUS
  <2>2. \/ commands' = commands
        \/ commands' = Append(commands, [op |-> op, client |-> None, item |-> n])
    BY <1>6, <2>1 DEF UserEnqueue
  <2>3. op \in Carries
    BY <1>6 DEF UserEnqueue, Carries
  <2> QED BY <1>2, <1>4, <2>2, <2>3
<1>7. ASSUME NEW op \in Ops, UserCallsItself(op) PROVE SentPlain'
  <2>1. PICK z : z = NoItem
    OBVIOUS
  <2>2. \/ commands' = commands
        \/ commands' = Append(commands, [op |-> op, client |-> None, item |-> z])
    BY <1>7, <2>1 DEF UserCallsItself
  <2>3. z.gen = 0
    BY <2>1 DEF NoItem
  <2> QED BY <1>2, <1>4, <2>2, <2>3
<1>8. CASE \E s : Receive(s)
  BY <1>3, <1>8 DEF Receive
<1>9. CASE Pumping
  BY <1>2, <1>8, <1>9 DEF Pumping, OwnerReceives, OwnerReturns, RunReturns, PumpOnce,
     DrainCommands, Drained, NotRunning, RunTask, FireDueTimer, RunJobs, JobsReturn, RunIsIdle, RunHasWork,
     WaitForWork, OnlyStack
<1>10. CASE UserActs
  BY <1>2, <1>6, <1>7, <1>10 DEF UserActs, UserStartStop, UserDo, UserRun, JSAddTimer, ClearJSTimer,
     UserCancel, UserRegisterResource, UserReload, UserClose
<1>11. CASE UserReturns \/ Disposing
  BY <1>2, <1>11 DEF UserReturns, UserCloseOnce, StartTimer, TimerReturns, BodyReturns,
     RunTaskReturns, InstallerReturns, Disposing, CloseResource, DisposeContext,
     InitializeGeneration, ReloadReturns, CloseFinishes
<1>12. CASE \E c \in Clients : Caller(c) \/ Client(c)
  BY <1>2, <1>5, <1>12 DEF Caller, Client, BeginCall, BeginEnqueue, CancelTimer, BeginClose,
     Await, CloseOnce, CloseReturns
<1>13. CASE Tick \/ Quiet \/ UNCHANGED vars
  BY <1>2, <1>13 DEF Tick, Quiet, vars
<1> QED BY <1>9, <1>10, <1>11, <1>12, <1>13 DEF Next, Owner

-------------------------------------------------------------------------------
\* A generation that was disposed of has a successor or the loop is closed.

LEMMA TornIsInReload == ASSUME Inv PROVE InReload <=> ~Whole(stack)
  BY SeqFacts DEF InReload, Whole, Shut

LEMMA TornStep ==
    ASSUME ClosedInv, [Next]_vars, ~Whole(stack), Whole(stack'), ~closed'
    PROVE  /\ stack # <<>> /\ Top.pc = "init" /\ tasks' = tasks /\ tasks = <<>>
           /\ UNCHANGED <<commands, ran, closed>> /\ generation' = generation + 1
<1>1. Inv /\ ~closed
  BY ClosedStep DEF ClosedInv
<1>2. PICK i \in DOMAIN stack : stack[i].pc \in Shut
  BY <1>1, SeqFacts DEF Whole
<1>3. stack # <<>> /\ stack' # stack
  <2>1. DOMAIN <<>> = {}
    OBVIOUS
  <2> QED BY <1>2, <2>1
<1>4. ~DisposeContext
  <2> SUFFICES ASSUME DisposeContext PROVE FALSE
    OBVIOUS
  <2>1. Top.fn \in Disposals /\ Len(stack) \in DOMAIN stack
    BY <1>1, <1>3, SeqFacts DEF DisposeContext, At, Running
  <2>2. Top.fn = "reload"
    BY <1>1, <2>1 DEF ClosedInv, DisposalsOK, DisposalOK, Top
  <2>3. stack' = GoTo("init")
    BY <2>2 DEF DisposeContext, MoveOn
  <2>4. PICK f : f = [Top EXCEPT !.pc = "init"]
    OBVIOUS
  <2>5. f \in Frame /\ f.pc = "init" /\ Below \in Seq(Frame)
    BY <1>1, <1>3, <2>4, SeqFacts DEF Frame, Points
  <2>6. Len(Below) + 1 \in DOMAIN stack' /\ stack'[Len(Below) + 1] = f
    BY <2>3, <2>4, <2>5 DEF GoTo
  <2> QED BY <2>5, <2>6 DEF Whole, Shut
<1>5. stack[i].pc = "init"
  <2>1. ASSUME stack[i].pc = "resources" PROVE FALSE
    <3>1. Disposes'
      BY <1>1, <1>4, <2>1, DisposesStep DEF Disposes
    <3> QED BY <3>1 DEF Disposes, Whole, Shut
  <2> QED BY <1>2, <2>1 DEF Shut
<1>6. i = Len(stack) /\ tasks = <<>>
  BY <1>1, <1>5 DEF Inv, StackOK, FrameOK, Busy
<1>7. Top.pc = "init"
  BY <1>5, <1>6 DEF Top
<1>8. ~Pumping
  BY <1>7 DEF Pumping, OwnerReceives, OwnerReturns, RunReturns, PumpOnce, DrainCommands, Drained,
     NotRunning, RunTask, FireDueTimer, RunJobs, JobsReturn, RunIsIdle, RunHasWork, WaitForWork, CanWork, At
<1>9. ~UserActs
  BY <1>7 DEF UserActs, UserStartStop, UserDo, UserRun, UserCallsItself, UserEnqueue, JSAddTimer,
     ClearJSTimer, UserCancel, UserRegisterResource, UserReload, UserClose, MayAct, At
<1>10. ~UserReturns /\ (Disposing => InitializeGeneration)
  BY <1>4, <1>7 DEF UserReturns, UserCloseOnce, StartTimer, TimerReturns, BodyReturns,
     RunTaskReturns, InstallerReturns, Disposing, CloseResource, ReloadReturns, CloseFinishes, At
<1>11. InitializeGeneration
  BY <1>3, <1>8, <1>9, <1>10, ClientsApart DEF Next, Owner
<1>12. /\ UNCHANGED <<commands, ran>>
       /\ generation' = generation + 1 /\ UNCHANGED <<closed, tasks>>
  BY <1>11 DEF InitializeGeneration, FailReload
<1> QED BY <1>3, <1>6, <1>7, <1>12

LEMMA WholeIsOpen ==
    ASSUME Inv, IdleOK, ~closed, Whole(stack)
    PROVE  Open
<1>1. ctx = generation
  BY DEF IdleOK, Inv, FreshOK
<1> QED BY <1>1 DEF Open, Disposes, Whole, Shut

-------------------------------------------------------------------------------
\* Each step of the loop is a step of the queue, or none.

QueueInv == WorkInv /\ IdleOK /\ PlainOK

LEMMA RanStep == ASSUME Inv, KindsOK, [Next]_vars PROVE Ran' = Ran \/ RunTask
<1>1. ASSUME ran' = ran PROVE Ran' = Ran
  BY <1>1 DEF Ran, TaskRuns
<1>2. ASSUME NEW s, Receive(s) PROVE ran' = ran
  BY <1>2 DEF Receive, HandleCommand
<1>3. CASE Pumping
  BY <1>1, <1>2, <1>3 DEF Pumping, OwnerReceives, OwnerReturns, RunReturns, PumpOnce,
     DrainCommands, Drained, NotRunning, FireDueTimer, RunJobs, JobsReturn, RunIsIdle, RunHasWork,
     WaitForWork, OnlyStack
<1>4. CASE UserActs
  BY <1>1, <1>4 DEF UserActs, UserStartStop, UserDo, UserRun, UserCallsItself, UserEnqueue, JSAddTimer,
     ClearJSTimer, UserCancel, UserRegisterResource, UserReload, UserClose
<1>5. CASE UserReturns
  BY <1>1, <1>5, TimerStarts DEF UserReturns, UserCloseOnce, TimerReturns, BodyReturns, RunTaskReturns,
     InstallerReturns
<1>6. CASE Disposing
  BY <1>1, <1>6 DEF Disposing, CloseResource, DisposeContext, InitializeGeneration, ReloadReturns,
     CloseFinishes
<1> QED BY <1>1, <1>3, <1>4, <1>5, <1>6, ClientsApart DEF Next, Owner

LEMMA RestsQueue ==
    ASSUME UNCHANGED <<tasks, commands, generation>>, Ran' = Ran
    PROVE  Stays
  BY SamePlace DEF Queued, Stays

LEMMA ReceiveQueue ==
    ASSUME QueueInv, ~closed, ~closed', NEW s \in Seq(Frame), Receive(s), Whole(stack')
    PROVE  Stays
<1>1. /\ Inv /\ KindsOK /\ SentPlain /\ state # "Closed" /\ generation \in Nat /\ generation > 0
  BY DEF QueueInv, WorkInv, WorkOK, CallsInv, StateOK, PlainOK, Inv, TypeOK, StateTypes
<1>2. PICK cmd : cmd = Head(commands)
  OBVIOUS
<1>3. PICK m : m = cmd.item
  OBVIOUS
<1>4. /\ commands # <<>> /\ commands' = Tail(commands) /\ ran' = ran /\ generation' = generation
      /\ HandleCommand(cmd, s)
  BY <1>2, ReceiveGeneration DEF Receive, HandleCommand
<1>5. cmd \in Command /\ m \in Item /\ cmd.client \in Owners /\ 1 \in DOMAIN commands /\ commands[1] = cmd
  <2>1. cmd \in Command /\ 1 \in DOMAIN commands /\ commands[1] = cmd
    BY <1>1, <1>2, <1>4, StatePlaces
  <2> QED BY <1>3, <2>1 DEF Command
<1>6. IF cmd.op \in Carries THEN m.kind = cmd.op ELSE m.gen = 0
  BY <1>1, <1>3, <1>5 DEF KindsOK, SentPlain
<1>7. m \in LiveTasks <=> cmd.op = "Schedule" /\ m.gen = generation
  BY <1>1, <1>5, <1>6 DEF LiveTasks, Carries, Enqueues
<1>8. IF m \in LiveTasks THEN tasks' = Append(tasks, m) ELSE tasks' = tasks
  <2>1. CASE HandleSchedule(cmd, s)
    BY <1>1, <1>3, <1>7, <2>1 DEF HandleSchedule, TasksWith
  <2>2. CASE HandleReload(cmd, s) \/ HandleClose(cmd, s)
    <3>1. ~Disposes'
      BY DEF Disposes, Whole, Shut
    <3>2. ~BeginDisposal("reload", cmd.client, s)
      BY <1>1, <1>5, <3>1, DisposalShuts DEF Disposals
    <3> QED BY <1>7, <2>2, <3>2 DEF HandleReload, HandleClose
  <2>3. CASE HandleAddTimer(cmd, s) \/ HandleStartStop(cmd, s) \/ HandleDo(cmd, s)
             \/ HandleRun(cmd, s) \/ HandleRegisterResource(cmd, s)
    BY <1>7, <2>3 DEF HandleAddTimer, HandleStartStop, HandleDo, HandleRun, HandleRegisterResource
  <2> QED BY <1>4, <2>1, <2>2, <2>3 DEF HandleCommand
<1> QED BY <1>1, <1>2, <1>3, <1>4, <1>8, TakesQueue

LEMMA PumpingQueue ==
    ASSUME QueueInv, ~closed, ~closed', Pumping, ~RunTask, Ran' = Ran, generation' = generation,
           Whole(stack')
    PROVE  Stays
<1>1. Inv
  BY DEF QueueInv, WorkInv, CallsInv
<1>2. stack # <<>> /\ Top.fn \in Loops
  BY DEF Pumping, OwnerReceives, OwnerReturns, RunReturns, PumpOnce, DrainCommands, Drained,
         NotRunning, RunTask, FireDueTimer, RunJobs, JobsReturn, RunIsIdle, RunHasWork, WaitForWork,
         CanWork, At, Running, Loops
<1>3. stack \in Seq(Frame) /\ Below \in Seq(Frame) /\ Top \in Frame
  BY <1>1, <1>2, SeqFacts
<1>4. GoTo("top") \in Seq(Frame)
  <2>1. PICK f : f = [Top EXCEPT !.pc = "top"]
    OBVIOUS
  <2>2. f \in Frame
    BY <1>3, <2>1 DEF Frame, Points
  <2> QED BY <1>3, <2>1, <2>2 DEF GoTo
<1>5. Append(Below, [Top EXCEPT !.progressed = TRUE]) \in Seq(Frame)
  <2>1. PICK f : f = [Top EXCEPT !.progressed = TRUE]
    OBVIOUS
  <2>2. f \in Frame
    BY <1>3, <2>1 DEF Frame
  <2> QED BY <1>3, <2>1, <2>2
<1>6. CASE UNCHANGED <<tasks, commands>>
  BY <1>6, RestsQueue
<1>7. ASSUME NEW s \in Seq(Frame), Receive(s) PROVE Stays
  BY <1>7, ReceiveQueue
<1>8. CASE OwnerReceives \/ DrainCommands
  BY <1>3, <1>5, <1>7, <1>8 DEF OwnerReceives, DrainCommands
<1>9. CASE WaitForWork
  BY <1>4, <1>6, <1>7, <1>9 DEF WaitForWork
<1>10. CASE ~OwnerReceives /\ ~DrainCommands /\ ~WaitForWork
  BY <1>6, <1>10 DEF Pumping, OwnerReturns, RunReturns, PumpOnce, Drained, NotRunning,
     FireDueTimer, RunJobs, JobsReturn, RunIsIdle, RunHasWork, OnlyStack
<1> QED BY <1>8, <1>9, <1>10

LEMMA ClientQueue ==
    ASSUME QueueInv, NEW c \in Clients, Send(c) \/ Enqueue(c)
    PROVE  Stays \/ Accepts
<1>1. /\ Inv /\ KindsOK /\ IdsOK /\ HandsPlain /\ generation \in Nat /\ generation > 0
      /\ cl \in [Clients -> CallState]
  BY SeqFacts DEF QueueInv, WorkInv, WorkOK, CallsInv, StateOK, PlainOK, Inv, TypeOK, StateTypes
<1>2. UNCHANGED <<tasks, ran, generation>> /\ cl[c].pc = "send"
  BY DEF Send, Enqueue
<1>3. Ran' = Ran
  BY <1>2, SamePlace
<1>4. PICK v : v = [op |-> cl[c].op, client |-> c, item |-> cl[c].item]
  OBVIOUS
<1>5. v \in Command /\ v.item = cl[c].item /\ v.op = cl[c].op /\ v.item \in Item
  <2>1. cl[c] \in CallState
    BY <1>1
  <2> QED BY <1>4, <2>1 DEF CallState, Command, Owners
<1>6. v.item \in LiveTasks => v.item.id \in 1..MaxItems
  <2> SUFFICES ASSUME v.item \in LiveTasks PROVE v.item.id \in 1..MaxItems
    OBVIOUS
  <2>1. v.item.kind = "Schedule" /\ v.item.gen > 0
    BY <1>1 DEF LiveTasks
  <2>2. PlainHand(cl[c])
    BY <1>1 DEF HandsPlain
  <2>3. cl[c].op \in Carries /\ v.item.id > 0
    BY <1>2, <1>5, <2>1, <2>2 DEF PlainHand
  <2>4. v.item \in Known
    BY <1>2, <1>5, <2>3 DEF Known, HandItems, Holds
  <2>5. v.item.id <= MaxItems /\ v.item.id \in Nat
    BY <1>1, <1>5, <2>4 DEF IdsOK, IdOK, Item
  <2> QED BY <2>3, <2>5, ConstantsAssumption
<1>7. CASE commands' = commands
  BY <1>2, <1>3, <1>7, RestsQueue
<1>8. CASE commands' = Append(commands, v)
  BY <1>1, <1>2, <1>5, <1>6, <1>8, SendsQueue
<1> QED BY <1>4, <1>7, <1>8 DEF Send, Enqueue

LEMMA UserQueue ==
    ASSUME QueueInv, NEW op \in Ops, NEW delay \in 0..1, UserEnqueue(op, delay)
    PROVE  Stays \/ Accepts
<1>1. Inv /\ generation \in Nat /\ now \in Nat /\ nextID \in Nat
  BY DEF QueueInv, WorkInv, CallsInv, Inv, TypeOK, StateTypes, CountTypes
<1>2. UNCHANGED <<tasks, ran, generation>> /\ nextID < MaxItems
  BY DEF UserEnqueue, MayCreate
<1>3. Ran' = Ran
  BY <1>2, SamePlace
<1>4. PICK n : n = NewItem(op, delay, Maker)
  OBVIOUS
<1>5. n \in Item /\ n.id = nextID + 1
  <2>1. Maker \in Makers /\ delay \in Nat
    BY MakerFacts
  <2> QED BY <1>1, <1>4, <2>1 DEF NewItem, Item
<1>6. PICK v : v = [op |-> op, client |-> None, item |-> n]
  OBVIOUS
<1>7. v \in Command /\ v.item.id \in 1..MaxItems
  BY <1>1, <1>2, <1>5, <1>6, ConstantsAssumption DEF Command, Owners
<1>8. CASE commands' = commands
  BY <1>2, <1>3, <1>8, RestsQueue
<1>9. CASE commands' = Append(commands, v)
  BY <1>1, <1>2, <1>7, <1>9, SendsQueue
<1> QED BY <1>4, <1>6, <1>8, <1>9 DEF UserEnqueue

LEMMA QueueStep ==
    ASSUME QueueInv, [Next]_vars, ~closed, ~closed', Whole(stack), Whole(stack')
    PROVE  Stays \/ Accepts \/ Executes
<1>1. Inv /\ KindsOK /\ Open /\ ctx # 0
  BY WholeIsOpen DEF QueueInv, WorkInv, WorkOK, CallsInv, StateOK, Open
<1>2. ~InitializeGeneration
  <2> SUFFICES ASSUME InitializeGeneration PROVE FALSE
    OBVIOUS
  <2>1. Top.pc = "init" /\ stack # <<>>
    BY DEF InitializeGeneration, At, Running
  <2>2. Len(stack) \in DOMAIN stack
    BY <1>1, <2>1, SeqFacts
  <2> QED BY <2>1, <2>2 DEF Whole, Shut, Top
<1>3. generation' = generation
  BY <1>2, GenerationStep
<1>4. CASE RunTask
  BY <1>1, <1>4, RunsQueue
<1>5. CASE ~RunTask
  <2>1. Ran' = Ran
    BY <1>1, <1>5, RanStep
  <2>2. CASE UNCHANGED <<tasks, commands>>
    BY <1>3, <2>1, <2>2, RestsQueue
  <2>3. CASE Pumping
    BY <1>3, <1>5, <2>1, <2>3, PumpingQueue
  <2>4. CASE UserActs
    <3>1. ~BeginDisposal("reload", None, stack)
      <4>1. ~Disposes' /\ stack \in Seq(Frame) /\ None \in Owners
        BY <1>1, SeqFacts DEF Disposes, Whole, Shut, Owners
      <4> QED BY <1>1, <4>1, DisposalShuts DEF Disposals
    <3>2. \A op \in Ops : ~UserCallsItself(op)
      BY <1>1 DEF UserCallsItself, IsOwner
    <3> QED BY <2>2, <2>4, <3>1, <3>2, UserQueue DEF UserActs, UserStartStop, UserDo, UserRun, EnterRun,
           JSAddTimer, ClearJSTimer, UserCancel, UserRegisterResource, UserReload, UserClose
  <2>5. CASE UserReturns
    BY <2>2, <2>5 DEF UserReturns, UserCloseOnce, StartTimer, TimerReturns, BodyReturns,
       RunTaskReturns, InstallerReturns, FailReload
  <2>6. CASE Disposing
    BY <1>2, <2>2, <2>6 DEF Disposing, CloseResource, DisposeContext, ReloadReturns, CloseFinishes
  <2>7. CASE \E c \in Clients : Caller(c) \/ Client(c)
    BY <2>2, <2>7, ClientQueue DEF Caller, Client, BeginCall, BeginEnqueue, CancelTimer, BeginClose,
       Await, CloseOnce, CloseReturns
  <2>8. CASE Tick \/ Quiet \/ UNCHANGED vars
    BY <2>2, <2>8 DEF Tick, Quiet, vars
  <2> QED BY <2>3, <2>4, <2>5, <2>6, <2>7, <2>8 DEF Next, Owner
<1> QED BY <1>4, <1>5

LEMMA RunsWhole == ASSUME Inv, RunTask PROVE Whole(stack')
<1>1. stack # <<>> /\ Top.fn # "resource"
  BY DEF RunTask, CanWork, At, Running, Loops
<1>2. Whole(Progress)
  <2>1. Top \in Frame /\ \A f \in Frame : f.pc \notin Shut => Whole(Append(Below, f))
    BY <1>1, WholeTop, SeqFacts
  <2>2. PICK f \in Frame : Progress = Append(Below, f) /\ f.pc = "ran"
    BY <2>1, ProgressFrame
  <2> QED BY <2>1, <2>2 DEF Shut
<1>3. "task" \in Bodies /\ "body" \in Points \ Shut /\ None \in Owners
  BY DEF Points, Bodies, Owners, Shut
<1>4. Whole(Append(Progress, NewFrame("task", "body", None)))
  BY <1>2, <1>3, WholeNew
<1> QED BY <1>4 DEF RunTask

\* What a new generation finds in the channel is not its own.
LEMMA NewGenerationQueue ==
    ASSUME QueueInv, Inv', tasks' = <<>>, commands' = commands, generation' = generation + 1
    PROVE  Queued' = <<>>
<1>1. /\ Inv /\ IdsOK /\ SentPlain /\ generation \in Nat /\ generation > 0
  BY DEF QueueInv, WorkInv, WorkOK, CallsInv, StateOK, PlainOK, Inv, TypeOK, StateTypes
<1>2. \A i \in DOMAIN commands : commands[i].item \in Item /\ commands[i].item.gen <= generation
  <2> SUFFICES ASSUME NEW i \in DOMAIN commands
               PROVE  commands[i].item \in Item /\ commands[i].item.gen <= generation
    OBVIOUS
  <2>1. commands[i] \in Command
    BY <1>1, StatePlaces
  <2>2. CASE commands[i].op \in Carries
    <3>1. commands[i].item \in Known
      BY <2>2 DEF Known, Stored, SentItems
    <3> QED BY <1>1, <2>1, <3>1 DEF IdsOK, IdOK, Command
  <2>3. CASE commands[i].op \notin Carries
    BY <1>1, <2>1, <2>3 DEF SentPlain, Command
  <2> QED BY <2>2, <2>3
<1>3. ChannelItems' = ChannelItems /\ ChannelItems \in Seq(Item)
  BY <1>1, ChannelTypeOK DEF ChannelItems
<1>4. \A i \in DOMAIN ChannelItems : ChannelItems[i].gen # generation + 1
  BY <1>1, <1>2 DEF ChannelItems, Item
<1>5. PICK S : S = LiveTasks'
  OBVIOUS
<1>6. \A x \in S : x.gen = generation + 1
  BY <1>5 DEF LiveTasks
<1>7. IdsIn(S, ChannelItems) = <<>>
  BY <1>3, <1>4, <1>6, IdsInEmpty, ItemsNumbered
<1>8. Ids(<<>>) = <<>>
  <2>1. DOMAIN <<>> = {}
    OBVIOUS
  <2> QED BY <2>1 DEF Ids
<1>9. Queued' = Ids(tasks') \o IdsIn(S, ChannelItems')
  BY <1>5 DEF Queued
<1> QED BY <1>3, <1>7, <1>8, <1>9

PendingNow == IF closed \/ InReload THEN <<>> ELSE Queued

\* The step that a step of the loop maps to.
Mapped ==
    \/ UNCHANGED <<closed, PendingNow, Ran>>
    \/ ~closed /\ ~closed' /\ Ran' = Ran /\ \E id \in 1..MaxItems : PendingNow' = Append(PendingNow, id)
    \/ /\ ~closed /\ ~closed' /\ PendingNow # <<>> /\ PendingNow' = Tail(PendingNow)
       /\ Ran' = Append(Ran, Head(PendingNow))
    \/ ~closed /\ Ran' = Ran /\ PendingNow' = <<>>

LEMMA MappedStep ==
    ASSUME QueueInv, Inv', [Next]_vars
    PROVE  Mapped
<1>1. Inv /\ KindsOK /\ ClosedInv /\ IdleOK /\ closed \in BOOLEAN /\ closed' \in BOOLEAN
  BY DEF QueueInv, WorkInv, WorkOK, CallsInv, Inv, TypeOK, StateTypes
<1>2. (InReload <=> ~Whole(stack)) /\ (InReload' <=> ~Whole(stack'))
  <2>1. stack' \in Seq(Frame)
    BY DEF Inv, TypeOK, StackTypes
  <2>2. InReload' <=> ~Whole(stack')
    BY <2>1 DEF InReload, Whole, Shut
  <2> QED BY <1>1, <2>2, TornIsInReload
<1>3. RunTask => ~closed /\ closed' = closed /\ Whole(stack) /\ Whole(stack')
  BY <1>1, RunsWhole, PumpsWhole DEF RunTask, CanWork, IdleOK, Pumping
<1>4. RunTask \/ Ran' = Ran
  BY <1>1, RanStep
<1>5. CASE closed
  <2>1. closed' /\ Ran' = Ran
    BY <1>1, <1>3, <1>4, <1>5, ClosedStep
  <2>2. PendingNow = <<>> /\ PendingNow' = <<>>
    BY <1>5, <2>1 DEF PendingNow
  <2> QED BY <1>1, <1>5, <2>1, <2>2 DEF Mapped
<1>6. CASE ~closed /\ (closed' \/ ~Whole(stack'))
  <2>1. Ran' = Ran
    BY <1>3, <1>4, <1>6
  <2>2. PendingNow' = <<>>
    BY <1>2, <1>6 DEF PendingNow
  <2> QED BY <1>6, <2>1, <2>2 DEF Mapped
<1>7. CASE ~closed /\ ~closed' /\ ~Whole(stack) /\ Whole(stack')
  <2>1. tasks' = <<>> /\ commands' = commands /\ generation' = generation + 1
    BY <1>1, <1>7, TornStep
  <2>2. Queued' = <<>>
    BY <2>1, NewGenerationQueue
  <2>3. Ran' = Ran
    BY <1>3, <1>4, <1>7
  <2>4. PendingNow' = <<>>
    BY <2>2 DEF PendingNow
  <2> QED BY <1>7, <2>3, <2>4 DEF Mapped
<1>8. CASE ~closed /\ ~closed' /\ Whole(stack) /\ Whole(stack')
  <2>1. Stays \/ Accepts \/ Executes
    BY <1>8, QueueStep
  <2>2. PendingNow = Queued /\ PendingNow' = Queued'
    BY <1>2, <1>8 DEF PendingNow
  <2>3. closed' = closed
    BY <1>1, <1>8
  <2> QED BY <1>8, <2>1, <2>2, <2>3 DEF Stays, Accepts, Executes, Mapped
<1> QED BY <1>1, <1>5, <1>6, <1>7, <1>8

LEMMA QueueInit == Init => Queue!Init
<1> SUFFICES ASSUME Init PROVE Queue!Init
  OBVIOUS
<1>1. Inv /\ commands = <<>> /\ tasks = <<>> /\ ran = <<>> /\ closed = FALSE
  BY InitInv DEF Init
<1>2. IdsIn(LiveTasks, ChannelItems) = <<>>
  <2>1. ChannelItems \in Seq(Item) /\ Len(ChannelItems) = 0
    BY <1>1, ChannelTypeOK
  <2>2. \A i \in DOMAIN ChannelItems : ChannelItems[i] \notin LiveTasks
    BY <2>1
  <2> QED BY <2>1, <2>2, IdsInEmpty, ItemsNumbered
<1>3. Ids(tasks) = <<>>
  <2>1. DOMAIN <<>> = {}
    OBVIOUS
  <2> QED BY <1>1, <2>1 DEF Ids
<1>4. Queued = <<>>
  BY <1>2, <1>3 DEF Queued
<1>5. IdsIn(TaskRuns, ran) = <<>>
  <2>1. ran \in Seq(Started) /\ \A i \in DOMAIN ran : ran[i] \notin TaskRuns
    BY <1>1
  <2> QED BY <2>1, IdsInEmpty, ItemsNumbered
<1> QED BY <1>1, <1>4, <1>5 DEF Queue!Init

LEMMA PlainInit == Init => PlainOK
<1> SUFFICES ASSUME Init PROVE PlainOK
  OBVIOUS
<1>1. HandsPlain
  <2>1. \A c \in Clients : cl[c].pc = "idle"
    BY DEF Init
  <2> QED BY <2>1 DEF HandsPlain, PlainHand
<1>2. SentPlain
  <2>1. DOMAIN commands = {}
    BY DEF Init
  <2> QED BY <2>1 DEF SentPlain
<1> QED BY <1>1, <1>2 DEF PlainOK

\* Schedule, its channel, the slice and the generation check are one queue (Schedule,
\* handleCommand, pumpOnce, disposeGeneration): accepted tasks run one at a time, once and
\* in the order of acceptance, until a Reload or Close drops those that wait.
THEOREM ImplementsSerialQueue == Spec => IsSerialQueue
<1>1. QueueInv /\ Inv' /\ [Next]_vars => [Queue!Next]_(Queue!queueVars)
  <2> SUFFICES ASSUME QueueInv, Inv', [Next]_vars
               PROVE  [Queue!Next]_(Queue!queueVars)
    OBVIOUS
  <2>1. Mapped
    BY MappedStep
  <2>2. CASE UNCHANGED <<closed, PendingNow, Ran>>
    BY <2>2 DEF PendingNow, Ran, Queue!queueVars
  <2>3. ASSUME ~closed, ~closed', Ran' = Ran, NEW id \in 1..MaxItems,
               PendingNow' = Append(PendingNow, id)
        PROVE  Queue!Next
    <3>1. Queue!Accept(id)
      BY <2>3 DEF PendingNow, Ran, Queue!Accept
    <3> QED BY <3>1 DEF Queue!Next
  <2>4. ASSUME ~closed, ~closed', PendingNow # <<>>, PendingNow' = Tail(PendingNow),
               Ran' = Append(Ran, Head(PendingNow))
        PROVE  Queue!Next
    <3>1. Queue!Execute
      BY <2>4 DEF PendingNow, Ran, Queue!Execute
    <3> QED BY <3>1 DEF Queue!Next
  <2>5. ASSUME ~closed, Ran' = Ran, PendingNow' = <<>>
        PROVE  Queue!Next
    <3>1. CASE closed'
      <4>1. Queue!Close
        BY <2>5, <3>1 DEF PendingNow, Ran, Queue!Close
      <4> QED BY <4>1 DEF Queue!Next
    <3>2. CASE ~closed'
      <4>1. Queue!Reload
        BY <2>5, <3>2 DEF PendingNow, Ran, Queue!Reload
      <4> QED BY <4>1 DEF Queue!Next
    <3> QED BY <3>1, <3>2
  <2> QED BY <2>1, <2>2, <2>3, <2>4, <2>5 DEF Mapped
<1>2. WorkInv /\ WorkInv' /\ IdleOK /\ PlainOK /\ [Next]_vars => IdleOK' /\ PlainOK'
  BY IdleOKStep, HandsPlainStep, SentPlainStep DEF WorkInv, WorkOK, CallsInv, PlainOK
<1>3. WorkInv => Inv
  BY DEF WorkInv, CallsInv
<1>4. WorkInv /\ IdleOK /\ PlainOK => QueueInv
  BY DEF QueueInv
<1>5. Init => IdleOK
  BY DrainInit
<1> QED BY <1>1, <1>2, <1>3, <1>4, <1>5, QueueInit, PlainInit, WorkInvHolds, PTL
        DEF Spec, IsSerialQueue, Queue!Spec
================================================================================
