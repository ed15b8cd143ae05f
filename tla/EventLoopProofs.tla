--------------------------- MODULE EventLoopProofs ---------------------------
(***************************************************************************)
(* Theorems about EventLoop for every set of clients, every capacity of the *)
(* command channel and every bound: types, the shape of the owner's stack,  *)
(* no work in another generation than its own, and that closing is final.   *)
(* Only the end of a Reload opens the loop, and only in the middle of one a *)
(* context is made: so no Reload may be in progress when the loop closes,   *)
(* but the one that fails.                                                  *)
(* And a call does not return before the owner is through with it: each     *)
(* call is one command or serves one client, and the client waits without a *)
(* reply as long as that is so.  Last, what each step does to tasks, timers *)
(* and resources, wherever they are: EventLoopWorkProofs rests on it.       *)
(***************************************************************************)
EXTENDS EventLoop, Integers, TLAPS

USE DEF channelVars, onceVars, stateVars, timerVars, ownerVars, clientVars,
        countVars, historyVars

-------------------------------------------------------------------------------
\* The values the program is built from.

LEMMA OpsAreOps ==
    /\ GuardedCalls \subseteq Ops /\ ContextCalls \subseteq Ops /\ Enqueues \subseteq Ops
    /\ JSTimers \subseteq Ops /\ Intervals \subseteq Ops
    /\ ClientOps \subseteq Ops
  BY ConstantsAssumption DEF Ops, GuardedCalls, ContextCalls, Enqueues, JSTimers, Intervals

LEMMA NoItemType == NoItem \in Item
  BY DEF NoItem, Item, Ops, Enqueues, Owners, Makers

LEMMA NewItemType ==
    ASSUME TypeOK, NEW kind \in Ops, NEW delay \in Nat, NEW by \in Makers
    PROVE  NewItem(kind, delay, by) \in Item
  BY DEF NewItem, Item, TypeOK, StateTypes, CountTypes

\* The owner makes items of its own, in a job or not.
LEMMA MakerFacts ==
    /\ Maker \in {None, "job"} /\ Maker \in Makers /\ Owners \subseteq Makers
    /\ None \in Owners /\ None \notin Clients /\ "job" \notin Owners
  BY ConstantsAssumption DEF Maker, Makers, Owners

LEMMA NewFrameType ==
    ASSUME NEW fn \in Loops \cup Bodies \cup Disposals, NEW pc \in Points,
           NEW client \in Owners
    PROVE  NewFrame(fn, pc, client) \in Frame
  BY NoItemType DEF NewFrame, Frame, States

LEMMA FrameAtType ==
    ASSUME NEW f \in Frame, NEW pc \in Points
    PROVE  [f EXCEPT !.pc = pc] \in Frame
  BY DEF Frame

LEMMA TopType ==
    ASSUME stack \in Seq(Frame), stack # <<>>
    PROVE  /\ Top \in Frame /\ Below \in Seq(Frame)
           /\ \A pc \in Points : GoTo(pc) \in Seq(Frame)
<1>1. Top \in Frame /\ Below \in Seq(Frame)
  BY DEF Top, Below
<1>2. ASSUME NEW pc \in Points PROVE GoTo(pc) \in Seq(Frame)
  BY <1>1, FrameAtType DEF GoTo
<1> QED BY <1>1, <1>2

LEMMA CommandsType ==
    ASSUME TypeOK, HasRoom, NEW x \in Command
    PROVE  Append(commands, x) \in Seq(Command) /\ Len(Append(commands, x)) <= QueueCap
<1>1. QueueCap \in Nat /\ commands \in Seq(Command) /\ Len(commands) < QueueCap
  BY ConstantsAssumption DEF TypeOK, ChannelTypes, HasRoom
<1> QED BY <1>1

LEMMA AnswerType ==
    ASSUME reply \in [Clients -> Results], NEW c, NEW r \in Results
    PROVE  Answer(c, r) \in [Clients -> Results]
  BY DEF Answer

LEMMA AcceptedType == ASSUME HistoryTypes, NEW a \in AcceptedItems PROVE a \in Item
<1>1. PICK i \in DOMAIN accepted : a = accepted[i]
  BY DEF AcceptedItems
<1> QED BY <1>1 DEF HistoryTypes

LEMMA GotoType ==
    ASSUME cl \in [Clients -> CallState], NEW c \in Clients, NEW pc \in Waits
    PROVE  Goto(c, pc) \in [Clients -> CallState]
  BY DEF Goto, Call, CallState

LEMMA ReturnType ==
    ASSUME cl \in [Clients -> CallState], NEW c \in Clients, NEW r \in Results
    PROVE  Return(c, r) \in [Clients -> CallState]
  BY NoItemType DEF Return, Call, CallState, Waits

-------------------------------------------------------------------------------
\* Types, initially and across the clients' steps.

LEMMA InitTypes == Init => TypeOK
<1> SUFFICES ASSUME Init PROVE TypeOK
    OBVIOUS
<1>1. ChannelTypes
  <2>1. QueueCap \in Nat
    BY ConstantsAssumption
  <2>2. commands = <<>> /\ done = FALSE /\ closeOnce = "free" /\ closeErr = "nil"
    BY DEF Init
  <2>3. Len(commands) <= QueueCap /\ commands \in Seq(Command)
    BY <2>1, <2>2
  <2> QED BY <2>2, <2>3 DEF ChannelTypes, Results
<1>2. StateTypes
  BY DEF Init, StateTypes, States
<1>3. WorkTypes
  BY DEF Init, WorkTypes
<1>4. StackTypes
  <2>1. NewFrame("owner", "top", None) \in Frame
    BY NewFrameType DEF Loops, Points, Owners
  <2> QED BY <2>1 DEF Init, StackTypes
<1>5. ClientTypes
  BY NoItemType DEF Init, ClientTypes, CallState, Waits, Results, Ops, GuardedCalls
<1>6. CountTypes
  BY DEF Init, CountTypes
<1>7. HistoryTypes
  BY DEF Init, HistoryTypes
<1> QED BY <1>1, <1>2, <1>3, <1>4, <1>5, <1>6, <1>7 DEF TypeOK

LEMMA BeginCallTypes ==
    ASSUME TypeOK, NEW c \in Clients, NEW op \in Ops, BeginCall(c, op)
    PROVE  TypeOK'
<1>1. ClientTypes' /\ CountTypes'
  BY NoItemType, NewItemType, OpsAreOps
     DEF BeginCall, MayCall, Call, CallState, Waits, Owners, Makers, Results, TypeOK, ClientTypes, CountTypes
<1>2. ChannelTypes' /\ StateTypes' /\ WorkTypes'
  BY DEF BeginCall, TypeOK, ChannelTypes, StateTypes, WorkTypes
<1>3. StackTypes' /\ HistoryTypes'
  BY DEF BeginCall, TypeOK, StackTypes, HistoryTypes
<1> QED BY <1>1, <1>2, <1>3 DEF TypeOK

LEMMA BeginEnqueueTypes ==
    ASSUME TypeOK, NEW c \in Clients, NEW op \in Ops, NEW delay \in 0..1,
           BeginEnqueue(c, op, delay)
    PROVE  TypeOK'
<1>1. ClientTypes' /\ CountTypes'
  BY NoItemType, NewItemType, OpsAreOps
     DEF BeginEnqueue, MayCall, Call, CallState, Waits, Owners, Makers, Results, TypeOK, ClientTypes, CountTypes
<1>2. ChannelTypes' /\ StateTypes' /\ WorkTypes'
  BY DEF BeginEnqueue, TypeOK, ChannelTypes, StateTypes, WorkTypes
<1>3. StackTypes' /\ HistoryTypes'
  BY DEF BeginEnqueue, TypeOK, StackTypes, HistoryTypes
<1> QED BY <1>1, <1>2, <1>3 DEF TypeOK

LEMMA SendTypes == ASSUME TypeOK, NEW c \in Clients, Send(c) PROVE TypeOK'
<1>1. [op |-> cl[c].op, client |-> c, item |-> cl[c].item] \in Command
  BY DEF TypeOK, ClientTypes, CallState, Command, Owners
<1>2. commands' \in Seq(Command) /\ Len(commands') <= QueueCap
  BY <1>1, CommandsType DEF Send, TypeOK, ChannelTypes
<1>3. ClientTypes'
  BY GotoType, ReturnType DEF Send, TypeOK, ClientTypes, Results, Waits
<1> QED BY <1>2, <1>3
     DEF Send, TypeOK, ChannelTypes, StateTypes, WorkTypes, StackTypes, CountTypes,
         HistoryTypes

LEMMA AwaitTypes == ASSUME TypeOK, NEW c \in Clients, Await(c) PROVE TypeOK'
<1>1. Outcomes(c) \subseteq Results
  BY DEF Outcomes, Results, TypeOK, ClientTypes
<1>2. PICK r \in Results :
        \/ closeErr' = r /\ closeOnce' = "done" /\ cl' = Goto(c, "waitdone")
        \/ cl' = Return(c, r) /\ UNCHANGED onceVars
  BY <1>1 DEF Await
<1>3. ClientTypes'
  BY <1>2, GotoType, ReturnType DEF Await, TypeOK, ClientTypes, Waits
<1> QED BY <1>2, <1>3
     DEF Await, TypeOK, ChannelTypes, StateTypes, WorkTypes, StackTypes, CountTypes,
         HistoryTypes

LEMMA EnqueueTypes == ASSUME TypeOK, NEW c \in Clients, Enqueue(c) PROVE TypeOK'
<1>1. /\ cl[c].item \in Item /\ cl[c].item.id \in Nat
      /\ [op |-> cl[c].op, client |-> c, item |-> cl[c].item] \in Command
  BY DEF TypeOK, ClientTypes, CallState, Command, Owners, Item
<1>2. commands' \in Seq(Command) /\ Len(commands') <= QueueCap
  BY <1>1, CommandsType DEF Enqueue, TypeOK, ChannelTypes
<1>3. ClientTypes'
  BY ReturnType DEF Enqueue, TypeOK, ClientTypes, Results
<1>4. cancelled' \subseteq Nat
  BY <1>1 DEF Enqueue, TypeOK, WorkTypes
<1>5. accepted' \in Seq(Item)
  <2>1. accepted \in Seq(Item)
    BY DEF TypeOK, HistoryTypes
  <2> QED BY <1>1, <2>1 DEF Enqueue
<1> QED BY <1>2, <1>3, <1>4, <1>5
     DEF Enqueue, TypeOK, ChannelTypes, StateTypes, WorkTypes, StackTypes, CountTypes,
         HistoryTypes

LEMMA CancelTypes == ASSUME TypeOK, NEW c \in Clients, CancelTimer(c) PROVE TypeOK'
<1>1. PICK a \in AcceptedItems : cancelled' = cancelled \cup {a.id}
  BY DEF CancelTimer, Cancellable
<1>2. a.id \in Nat
  <2>1. a \in Item
    BY <1>1, AcceptedType DEF TypeOK
  <2> QED BY <2>1 DEF Item
<1>3. WorkTypes'
  BY <1>1, <1>2 DEF CancelTimer, TypeOK, WorkTypes
<1> QED BY <1>3
     DEF CancelTimer, MayCall, TypeOK, ChannelTypes, StateTypes, StackTypes, ClientTypes,
         CountTypes, HistoryTypes

LEMMA CloseCallTypes ==
    ASSUME TypeOK, NEW c \in Clients, BeginClose(c) \/ CloseOnce(c) \/ CloseReturns(c)
    PROVE  TypeOK'
<1> USE DEF TypeOK, ChannelTypes, StateTypes, WorkTypes, StackTypes, CountTypes,
            HistoryTypes
<1>1. CASE BeginClose(c)
  BY <1>1, NoItemType DEF BeginClose, MayCall, Ops, Call, CallState, Waits, ClientTypes, Results
<1>2. CASE CloseOnce(c)
  <2>1. ClientTypes'
    BY <1>2, GotoType DEF CloseOnce, ClientTypes, Waits
  <2>2. ChannelTypes'
    BY <1>2 DEF CloseOnce, Owners, Results
  <2> QED BY <1>2, <2>1, <2>2 DEF CloseOnce
<1>3. CASE CloseReturns(c)
  <2>1. ClientTypes'
    BY <1>3, ReturnType DEF CloseReturns, ClientTypes
  <2> QED BY <1>3, <2>1 DEF CloseReturns
<1> QED BY <1>1, <1>2, <1>3

-------------------------------------------------------------------------------
\* The shape of the owner's stack.

\* A frame at one of these points says something about the rest of the state.
Busy == {"resources", "init", "start"}

\* What a frame says: only the innermost call is busy, but for a disposal under
\* the Close method of a resource; the resources still to be closed are
\* registered; a disposed generation has no tasks; a timer that is about to
\* start belongs to the live generation.
FrameOK(i) ==
    LET f == stack[i] IN
      /\ f.fn = "installer" => i > 1
      /\ f.fn = "resource" => f.pc = "body" /\ i = Len(stack)
      /\ f.pc = "resources" => f.fn \in Disposals /\ f.idx <= Len(resources)
      /\ f.pc \in {"resources", "init"} => tasks = <<>>
      /\ f.pc = "start" => f.item.gen = generation /\ ctx = generation
      /\ f.pc \in Busy => \/ i = Len(stack)
                          \/ /\ i = Len(stack) - 1 /\ f.pc = "resources"
                             /\ stack[i + 1].fn = "resource"
StackOK == \A i \in DOMAIN stack : FrameOK(i)

\* The tasks and the context are those of the generation.
FreshOK ==
    /\ ctx \in {0, generation}
    /\ \A i \in DOMAIN tasks : tasks[i].gen = generation
    /\ NoStaleWork

\* The inductive invariant.
Inv == TypeOK /\ StackOK /\ FreshOK

\* A stack no frame of which is busy or closes a resource: it is a stack of
\* this shape whatever the rest of the state.
Calm(s) ==
    \A i \in 1..Len(s) :
      /\ s[i].pc \notin Busy /\ s[i].fn # "resource"
      /\ s[i].fn = "installer" => i > 1

LEMMA CalmIsOK ==
    ASSUME Calm(stack'), stack' \in Seq(Frame)
    PROVE  StackOK'
  BY DEF Calm, StackOK, FrameOK, Busy

LEMMA CalmBelow ==
    ASSUME StackTypes, StackOK, stack # <<>>, Top.fn # "resource"
    PROVE  /\ Calm(Below) /\ Top \in Frame /\ Below \in Seq(Frame)
           /\ Len(Below) = Len(stack) - 1
<1>1. stack \in Seq(Frame) /\ Len(stack) \in Nat /\ Len(stack) > 0
      /\ DOMAIN stack = 1..Len(stack)
  BY DEF StackTypes
<1>3. Len(Below) = Len(stack) - 1 /\ Top \in Frame /\ Below \in Seq(Frame)
  BY <1>1 DEF Top, Below
<1>2. ASSUME NEW i \in 1..Len(Below)
      PROVE  /\ Below[i].pc \notin Busy /\ Below[i].fn # "resource"
             /\ Below[i].fn = "installer" => i > 1
  <2>1. i \in DOMAIN stack /\ i < Len(stack) /\ Below[i] = stack[i]
    BY <1>1, <1>3 DEF Below
  <2>2. FrameOK(i)
    BY <2>1 DEF StackOK
  <2> QED BY <2>1, <2>2, <1>1 DEF FrameOK, Top
<1> QED BY <1>2, <1>3 DEF Calm

LEMMA CalmStack ==
    ASSUME StackTypes, StackOK, stack # <<>>, Top.fn # "resource", Top.pc \notin Busy
    PROVE  Calm(stack)
<1>1. Len(stack) \in Nat /\ Len(stack) > 0 /\ DOMAIN stack = 1..Len(stack)
  BY DEF StackTypes
<1>2. ASSUME NEW i \in 1..Len(stack)
      PROVE  /\ stack[i].pc \notin Busy /\ stack[i].fn # "resource"
             /\ stack[i].fn = "installer" => i > 1
  <2>1. FrameOK(i)
    BY <1>1 DEF StackOK
  <2>2. CASE i = Len(stack)
    BY <2>1, <2>2 DEF FrameOK, Top
  <2>3. CASE i # Len(stack)
    <3>1. i = Len(stack) - 1 => stack[i + 1] = Top
      BY <1>1 DEF Top
    <3> QED BY <2>1, <2>3, <3>1 DEF FrameOK
  <2> QED BY <2>2, <2>3
<1> QED BY <1>2 DEF Calm

LEMMA CalmAppend ==
    ASSUME NEW s \in Seq(Frame), Calm(s), NEW f \in Frame, f.pc \notin Busy,
           f.fn # "resource", f.fn = "installer" => s # <<>>
    PROVE  Calm(Append(s, f)) /\ Append(s, f) \in Seq(Frame)
<1>1. Append(s, f) \in Seq(Frame) /\ Len(Append(s, f)) = Len(s) + 1
  OBVIOUS
<1>2. ASSUME NEW i \in 1..Len(s) + 1
      PROVE  Append(s, f)[i] = IF i <= Len(s) THEN s[i] ELSE f
  OBVIOUS
<1>3. s # <<>> => Len(s) > 0
  OBVIOUS
<1> QED BY <1>1, <1>2, <1>3 DEF Calm

LEMMA CalmPrefix ==
    ASSUME NEW s \in Seq(Frame), Calm(s), NEW k \in Int, k <= Len(s)
    PROVE  Calm(SubSeq(s, 1, k)) /\ SubSeq(s, 1, k) \in Seq(Frame)
<1>1. /\ SubSeq(s, 1, k) \in Seq(Frame)
      /\ Len(SubSeq(s, 1, k)) = IF k >= 1 THEN k ELSE 0
  OBVIOUS
<1>2. ASSUME NEW i \in 1..k PROVE SubSeq(s, 1, k)[i] = s[i]
  OBVIOUS
<1> QED BY <1>1, <1>2 DEF Calm

\* Steps that touch none of this.
LEMMA Untouched ==
    ASSUME StackOK, FreshOK,
           UNCHANGED <<stack, tasks, generation, ctx, ran>>,
           stack \in Seq(Frame), resources \in Seq(Item),
           Len(resources) <= Len(resources'), resources' \in Seq(Item)
    PROVE  StackOK' /\ FreshOK'
<1>1. ASSUME NEW i \in DOMAIN stack PROVE FrameOK(i)'
  <2>1. stack[i] \in Frame /\ FrameOK(i)
    BY DEF StackOK
  <2>2. /\ stack[i].idx \in Nat /\ Len(resources) \in Nat /\ Len(resources') \in Nat
    BY <2>1 DEF Frame
  <2>3. stack[i].pc = "resources" => stack[i].idx <= Len(resources')
    BY <2>1, <2>2 DEF FrameOK
  <2> QED BY <2>1, <2>3 DEF FrameOK
<1>2. StackOK'
  BY <1>1 DEF StackOK
<1> QED BY <1>2 DEF FreshOK, NoStaleWork

LEMMA InitInv == Init => Inv
<1> SUFFICES ASSUME Init PROVE StackOK /\ FreshOK
    BY InitTypes DEF Inv
<1> QED BY DEF Init, StackOK, FrameOK, FreshOK, NoStaleWork, NewFrame, Busy

LEMMA DisposalIsOK ==
    ASSUME NEW s \in Seq(Frame), Calm(s), NEW f \in Frame, f.fn \in Disposals,
           f.pc = "resources", f.idx <= Len(resources'), tasks' = <<>>,
           stack' = Append(s, f)
    PROVE  StackOK' /\ stack' \in Seq(Frame)
<1>1. /\ stack' \in Seq(Frame) /\ Len(stack') = Len(s) + 1 /\ Len(s) \in Nat
      /\ DOMAIN stack' = 1..Len(s) + 1
  OBVIOUS
<1>2. ASSUME NEW i \in 1..Len(s) + 1
      PROVE  stack'[i] = IF i <= Len(s) THEN s[i] ELSE f
  OBVIOUS
<1>3. ASSUME NEW i \in 1..Len(s) PROVE FrameOK(i)'
  BY <1>1, <1>2, <1>3 DEF FrameOK, Calm, Busy
<1>4. FrameOK(Len(s) + 1)'
  BY <1>1, <1>2 DEF FrameOK, Busy, Disposals
<1> QED BY <1>1, <1>3, <1>4 DEF StackOK

-------------------------------------------------------------------------------
\* handleCommand.  The owner goes on at a calm stack s: the frames the handlers
\* push are the only ones that are new.

\* What a handler must establish.
Handled ==
    /\ StateTypes' /\ WorkTypes' /\ StackTypes'
    /\ reply' \in [Clients -> Results] /\ accepted' \in Seq(Item)
    /\ StackOK' /\ FreshOK'

LEMMA HandleScheduleInv ==
    ASSUME Inv, ran' = ran, NEW cmd \in Command, NEW s \in Seq(Frame), Calm(s),
           HandleSchedule(cmd, s)
    PROVE  Handled
<1>1. tasks' \in Seq(Item) /\ \A i \in DOMAIN tasks' : tasks'[i].gen = generation
  BY DEF HandleSchedule, TasksWith, Command, Inv, TypeOK, WorkTypes, FreshOK
<1>2. StackOK'
  BY CalmIsOK DEF HandleSchedule
<1>3. FreshOK'
  BY <1>1 DEF HandleSchedule, Inv, FreshOK, NoStaleWork
<1> QED BY <1>1, <1>2, <1>3
     DEF HandleSchedule, Handled, Inv, TypeOK, StateTypes, WorkTypes, StackTypes,
         ClientTypes, HistoryTypes

LEMMA HandleAddTimerInv ==
    ASSUME Inv, ran' = ran, NEW cmd \in Command, NEW s \in Seq(Frame), Calm(s),
           HandleAddTimer(cmd, s)
    PROVE  Handled
<1>1. cmd.item \in Item /\ cmd.item.id \in Nat
  BY DEF Command, Item
<1>2. WorkTypes'
  BY <1>1 DEF HandleAddTimer, Inv, TypeOK, WorkTypes
<1>3. StackOK'
  BY CalmIsOK DEF HandleAddTimer
<1>4. FreshOK'
  BY DEF HandleAddTimer, Inv, FreshOK, NoStaleWork
<1> QED BY <1>2, <1>3, <1>4
     DEF HandleAddTimer, Handled, Inv, TypeOK, StateTypes, StackTypes, ClientTypes,
         HistoryTypes

LEMMA HandleStartStopInv ==
    ASSUME Inv, ran' = ran, NEW cmd \in Command, NEW s \in Seq(Frame), Calm(s),
           HandleStartStop(cmd, s)
    PROVE  Handled
<1>1. reply' \in [Clients -> Results]
  BY AnswerType DEF HandleStartStop, Results, Inv, TypeOK, ClientTypes
<1>2. StackOK'
  BY CalmIsOK DEF HandleStartStop
<1>3. FreshOK'
  BY DEF HandleStartStop, Inv, FreshOK, NoStaleWork
<1> QED BY <1>1, <1>2, <1>3
     DEF HandleStartStop, Handled, Inv, TypeOK, StateTypes, States, WorkTypes, StackTypes,
         HistoryTypes

\* A frame of user code, and a loop's, is calm when it is pushed.
LEMMA PushBody ==
    ASSUME NEW s \in Seq(Frame), Calm(s), NEW fn \in (Bodies \cup Loops) \ {"resource"},
           NEW pc \in {"body", "top"}, NEW c \in Owners, fn = "installer" => s # <<>>
    PROVE  /\ Calm(Append(s, NewFrame(fn, pc, c)))
           /\ Append(s, NewFrame(fn, pc, c)) \in Seq(Frame)
<1>1. pc \in Points \ Busy
  BY DEF Points, Busy
<1>2. NewFrame(fn, pc, c) \in Frame
  BY <1>1, NewFrameType
<1>3. NewFrame(fn, pc, c).pc = pc /\ NewFrame(fn, pc, c).fn = fn
  BY DEF NewFrame
<1> QED BY <1>1, <1>2, <1>3, CalmAppend

LEMMA HandleDoInv ==
    ASSUME Inv, ran' = ran, NEW cmd \in Command, NEW s \in Seq(Frame), Calm(s),
           HandleDo(cmd, s)
    PROVE  Handled
<1>1. reply' \in [Clients -> Results]
  BY AnswerType DEF HandleDo, Results, Inv, TypeOK, ClientTypes
<1>2. cmd.client \in Owners
  BY DEF Command
<1>3. Calm(stack') /\ stack' \in Seq(Frame)
  BY <1>2, PushBody DEF HandleDo, Bodies
<1>4. StackOK'
  BY <1>3, CalmIsOK
<1>5. FreshOK'
  BY DEF HandleDo, Inv, FreshOK, NoStaleWork
<1>6. armed' \in BOOLEAN
  BY DEF HandleDo, Inv, TypeOK, StateTypes
<1> QED BY <1>1, <1>3, <1>4, <1>5, <1>6
     DEF HandleDo, Handled, Inv, TypeOK, StateTypes, WorkTypes, StackTypes, HistoryTypes

LEMMA EnterRunCalm ==
    ASSUME NEW c \in Owners, NEW s \in Seq(Frame), Calm(s), EnterRun(c, s)
    PROVE  Calm(stack') /\ stack' \in Seq(Frame)
<1> DEFINE t == Append(s, NewFrame("run", "top", c))
<1>1. Calm(t) /\ t \in Seq(Frame)
  BY PushBody DEF Loops
<1>2. /\ Calm(Append(t, NewFrame("runTask", "body", c)))
      /\ Append(t, NewFrame("runTask", "body", c)) \in Seq(Frame)
  BY <1>1, PushBody DEF Bodies
<1>3. /\ NewFrame("run", "top", c) \in Frame
      /\ NewFrame("runTask", "body", c) \in Frame
  BY NewFrameType DEF Loops, Bodies, Points
<1>4. stack' = Append(t, NewFrame("runTask", "body", c))
  BY <1>3 DEF EnterRun
<1> QED BY <1>2, <1>4

LEMMA HandleRunInv ==
    ASSUME Inv, ran' = ran, NEW cmd \in Command, NEW s \in Seq(Frame), Calm(s),
           HandleRun(cmd, s)
    PROVE  Handled
<1>1. reply' \in [Clients -> Results]
  BY AnswerType DEF HandleRun, Results, Inv, TypeOK, ClientTypes
<1>2. cmd.client \in Owners
  BY DEF Command
<1>3. Calm(stack') /\ stack' \in Seq(Frame)
  BY <1>2, EnterRunCalm DEF HandleRun
<1>4. StackOK'
  BY <1>3, CalmIsOK
<1>5. FreshOK'
  BY DEF HandleRun, Inv, FreshOK, NoStaleWork
<1>6. StateTypes'
  BY DEF HandleRun, EnterRun, Inv, TypeOK, StateTypes, States
<1> QED BY <1>1, <1>3, <1>4, <1>5, <1>6
     DEF HandleRun, Handled, Inv, TypeOK, WorkTypes, StackTypes, HistoryTypes

LEMMA HandleRegisterResourceInv ==
    ASSUME Inv, ran' = ran, NEW cmd \in Command, NEW s \in Seq(Frame), Calm(s),
           HandleRegisterResource(cmd, s)
    PROVE  Handled
<1>1. reply' \in [Clients -> Results]
  BY AnswerType DEF HandleRegisterResource, Results, Inv, TypeOK, ClientTypes
<1>2. cmd.item \in Item
  BY DEF Command
<1>3. resources' \in Seq(Item) /\ accepted' \in Seq(Item)
  <2>1. resources \in Seq(Item) /\ accepted \in Seq(Item)
    BY DEF Inv, TypeOK, StackTypes, HistoryTypes
  <2>2. /\ Append(resources, cmd.item) \in Seq(Item)
        /\ Append(accepted, cmd.item) \in Seq(Item)
    BY <1>2, <2>1
  <2> QED BY <2>1, <2>2 DEF HandleRegisterResource
<1>4. StackOK'
  BY CalmIsOK DEF HandleRegisterResource
<1>5. FreshOK'
  BY DEF HandleRegisterResource, Inv, FreshOK, NoStaleWork
<1> QED BY <1>1, <1>3, <1>4, <1>5
     DEF HandleRegisterResource, Handled, Inv, TypeOK, StateTypes, WorkTypes, StackTypes

LEMMA DropWorkTypes == ASSUME TypeOK, DropWork, UNCHANGED timerCallbacks PROVE WorkTypes'
<1>1. {e.id : e \in timers} \subseteq Nat
  BY DEF TypeOK, WorkTypes, Item
<1>2. cancelled' \subseteq Nat
  BY <1>1 DEF DropWork, TypeOK, WorkTypes
<1>3. tasks' = <<>> /\ timers' = {} /\ jsTimers' = {} /\ timerCallbacks' = timerCallbacks
  BY DEF DropWork
<1> QED BY <1>2, <1>3 DEF TypeOK, WorkTypes

LEMMA BeginDisposalInv ==
    ASSUME Inv, NEW s \in Seq(Frame), Calm(s), NEW fn \in Disposals, NEW c \in Owners,
           BeginDisposal(fn, c, s)
    PROVE  /\ WorkTypes' /\ StackTypes' /\ StackOK' /\ tasks' = <<>>
           /\ UNCHANGED <<generation, ctx, armed>>
<1> DEFINE f == Disposal(fn, c)
<1>1. resources \in Seq(Item) /\ state \in States /\ Len(resources) \in Nat
  BY DEF Inv, TypeOK, StackTypes, StateTypes
<1>2. /\ f.fn = fn /\ f.pc = "resources" /\ f.idx = Len(resources)
      /\ f \in Frame
  <2>1. NewFrame(fn, "resources", c) \in Frame
    BY NewFrameType DEF Points
  <2> QED BY <1>1, <2>1 DEF Disposal, NewFrame, Frame
<1>3. /\ stack' = Append(s, f) /\ resources' = resources /\ DropWork
      /\ UNCHANGED <<timerCallbacks, generation, ctx, armed>>
  BY DEF BeginDisposal
<1>4. tasks' = <<>> /\ WorkTypes'
  BY <1>3, DropWorkTypes DEF Inv, DropWork
<1>5. StackOK' /\ stack' \in Seq(Frame)
  <2> HIDE DEF f
  <2>1. f.idx <= Len(resources')
    BY <1>1, <1>2, <1>3
  <2> QED BY <1>2, <1>3, <1>4, <2>1, DisposalIsOK
<1> QED BY <1>1, <1>3, <1>4, <1>5 DEF StackTypes

LEMMA HandleReloadInv ==
    ASSUME Inv, ran' = ran, NEW cmd \in Command, NEW s \in Seq(Frame), Calm(s),
           HandleReload(cmd, s)
    PROVE  Handled
<1>1. reply' \in [Clients -> Results]
  BY AnswerType DEF HandleReload, Results, Inv, TypeOK, ClientTypes
<1>2. accepted' \in Seq(Item)
  BY DEF HandleReload, Inv, TypeOK, HistoryTypes
<1>3. cmd.client \in Owners
  BY DEF Command
<1>4. CASE IsClosed
  <2>1. StackOK'
    BY <1>4, CalmIsOK DEF HandleReload
  <2>2. FreshOK'
    BY <1>4 DEF HandleReload, Inv, FreshOK, NoStaleWork
  <2> QED BY <1>1, <1>2, <1>4, <2>1, <2>2
          DEF HandleReload, Handled, Inv, TypeOK, StateTypes, WorkTypes, StackTypes
<1>5. CASE ~IsClosed
  <2>1. BeginDisposal("reload", cmd.client, s) /\ state' = "Stopped" /\ closed' = closed
    BY <1>5 DEF HandleReload
  <2>2. /\ WorkTypes' /\ StackTypes' /\ StackOK' /\ tasks' = <<>>
        /\ UNCHANGED <<generation, ctx, armed>>
    BY <1>3, <2>1, BeginDisposalInv DEF Disposals
  <2>3. FreshOK'
    BY <2>2 DEF Inv, FreshOK, NoStaleWork
  <2>4. StateTypes'
    BY <2>1, <2>2 DEF Inv, TypeOK, StateTypes, States
  <2> QED BY <1>1, <1>2, <2>2, <2>3, <2>4 DEF Handled
<1> QED BY <1>4, <1>5

LEMMA HandleCloseInv ==
    ASSUME Inv, ran' = ran, NEW cmd \in Command, NEW s \in Seq(Frame), Calm(s),
           HandleClose(cmd, s)
    PROVE  Handled
<1>1. reply' \in [Clients -> Results]
  BY AnswerType DEF HandleClose, Results, Inv, TypeOK, ClientTypes
<1>2. accepted' \in Seq(Item)
  BY DEF HandleClose, Inv, TypeOK, HistoryTypes
<1>3. cmd.client \in Owners
  BY DEF Command
<1>4. CASE state = "Closed"
  <2>1. StackOK'
    BY <1>4, CalmIsOK DEF HandleClose
  <2>2. FreshOK'
    BY <1>4 DEF HandleClose, Inv, FreshOK, NoStaleWork
  <2> QED BY <1>1, <1>2, <1>4, <2>1, <2>2
          DEF HandleClose, Handled, Inv, TypeOK, StateTypes, WorkTypes, StackTypes
<1>5. CASE state # "Closed"
  <2>1. BeginDisposal("close", cmd.client, s) /\ state' = "Closed" /\ closed' = TRUE
    BY <1>5 DEF HandleClose
  <2>2. /\ WorkTypes' /\ StackTypes' /\ StackOK' /\ tasks' = <<>>
        /\ UNCHANGED <<generation, ctx, armed>>
    BY <1>3, <2>1, BeginDisposalInv DEF Disposals
  <2>3. FreshOK'
    BY <2>2 DEF Inv, FreshOK, NoStaleWork
  <2>4. StateTypes'
    BY <2>1, <2>2 DEF Inv, TypeOK, StateTypes, States
  <2> QED BY <1>1, <1>2, <2>2, <2>3, <2>4 DEF Handled
<1> QED BY <1>4, <1>5

LEMMA ReceiveInv ==
    ASSUME Inv, NEW s \in Seq(Frame), Calm(s), Receive(s)
    PROVE  Inv'
<1> DEFINE cmd == Head(commands)
<1>1. /\ commands \in Seq(Command) /\ commands # <<>> /\ QueueCap \in Nat
      /\ Len(commands) <= QueueCap
  BY ConstantsAssumption DEF Receive, Inv, TypeOK, ChannelTypes
<1>2. cmd \in Command /\ Tail(commands) \in Seq(Command) /\ Len(Tail(commands)) <= QueueCap
  BY <1>1
<1>3. /\ commands' = Tail(commands) /\ HandleCommand(cmd, s) /\ ran' = ran
      /\ UNCHANGED <<done, onceVars, cl, now, countVars, ran, closedLog>>
  BY DEF Receive, HandleCommand
<1> HIDE DEF cmd
<1>4. Handled
  BY <1>2, <1>3, HandleScheduleInv, HandleAddTimerInv, HandleStartStopInv, HandleDoInv,
     HandleRunInv, HandleRegisterResourceInv, HandleReloadInv, HandleCloseInv
     DEF HandleCommand
<1>5. ChannelTypes'
  BY <1>2, <1>3 DEF Inv, TypeOK, ChannelTypes
<1>6. ClientTypes' /\ CountTypes' /\ HistoryTypes'
  BY <1>3, <1>4 DEF Handled, Inv, TypeOK, ClientTypes, CountTypes, HistoryTypes
<1> QED BY <1>4, <1>5, <1>6 DEF Handled, Inv, TypeOK

-------------------------------------------------------------------------------
\* The loops.

LEMMA CalmTop ==
    ASSUME Inv, stack # <<>>, Top.fn # "resource"
    PROVE  /\ stack \in Seq(Frame) /\ Top \in Frame
           /\ Below \in Seq(Frame) /\ Calm(Below)
           /\ \A pc \in Points \ Busy : Calm(GoTo(pc)) /\ GoTo(pc) \in Seq(Frame)
<1>1. stack \in Seq(Frame) /\ StackTypes /\ StackOK
  BY DEF Inv, TypeOK, StackTypes
<1>2. Calm(Below) /\ Top \in Frame /\ Below \in Seq(Frame)
  BY <1>1, CalmBelow
<1>4. Top.fn = "installer" => Below # <<>>
  <2>1. Len(stack) \in DOMAIN stack /\ Len(stack) \in Nat
    BY <1>1
  <2>2. FrameOK(Len(stack))
    BY <1>1, <2>1 DEF StackOK
  <2>3. Top.fn = "installer" => Len(stack) > 1
    BY <2>2 DEF FrameOK, Top
  <2>4. Len(Below) = Len(stack) - 1
    BY <1>1, CalmBelow
  <2> QED BY <2>1, <2>3, <2>4
<1>3. ASSUME NEW pc \in Points \ Busy
      PROVE  Calm(GoTo(pc)) /\ GoTo(pc) \in Seq(Frame)
  <2> DEFINE f == [Top EXCEPT !.pc = pc]
  <2>1. f \in Frame /\ f.pc = pc /\ f.fn = Top.fn
    BY <1>2 DEF Frame
  <2> HIDE DEF f
  <2>2. Calm(Append(Below, f)) /\ Append(Below, f) \in Seq(Frame)
    BY <1>2, <1>4, <2>1, CalmAppend
  <2> QED BY <2>2 DEF GoTo, f
<1> QED BY <1>1, <1>2, <1>3

\* Steps that leave everything but the stack, which they leave calm.
LEMMA OnlyStackInv ==
    ASSUME Inv, OnlyStack, Calm(stack'), stack' \in Seq(Frame)
    PROVE  Inv'
<1>1. StackOK'
  BY CalmIsOK
<1>2. FreshOK'
  BY DEF OnlyStack, Inv, FreshOK, NoStaleWork
<1> QED BY <1>1, <1>2
     DEF OnlyStack, Inv, TypeOK, ChannelTypes, StateTypes, WorkTypes, StackTypes,
         ClientTypes, CountTypes, HistoryTypes

LEMMA ReceivingInv ==
    ASSUME Inv, OwnerReceives \/ DrainCommands
    PROVE  Inv'
<1>1. CASE OwnerReceives
  <2>1. Calm(stack) /\ stack \in Seq(Frame)
    BY <1>1, CalmStack DEF OwnerReceives, At, Running, Busy, Inv, TypeOK, StackTypes
  <2> QED BY <1>1, <2>1, ReceiveInv DEF OwnerReceives
<1>2. CASE DrainCommands
  <2> DEFINE f == [Top EXCEPT !.progressed = TRUE]
  <2>1. Calm(Below) /\ Below \in Seq(Frame) /\ Top \in Frame /\ Top.pc = "drain" /\ Top.fn \in Loops
    BY <1>2, CalmTop DEF DrainCommands, At, Running, Loops
  <2>2. f \in Frame /\ f.pc = "drain" /\ f.fn = Top.fn
    BY <2>1 DEF Frame
  <2> HIDE DEF f
  <2>3. Calm(Append(Below, f)) /\ Append(Below, f) \in Seq(Frame)
    BY <2>1, <2>2, CalmAppend DEF Loops, Busy
  <2> QED BY <1>2, <2>3, ReceiveInv DEF DrainCommands, f
<1> QED BY <1>1, <1>2

LEMMA OwnerReturnsInv == ASSUME Inv, OwnerReturns PROVE Inv'
<1>1. StackOK' /\ stack' \in Seq(Frame)
  BY DEF OwnerReturns, StackOK
<1>2. FreshOK'
  BY DEF OwnerReturns, Inv, FreshOK, NoStaleWork
<1> QED BY <1>1, <1>2
     DEF OwnerReturns, Inv, TypeOK, ChannelTypes, StateTypes, WorkTypes, StackTypes,
         ClientTypes, CountTypes, HistoryTypes

LEMMA RunReturnsInv == ASSUME Inv, RunReturns PROVE Inv'
<1>1. Calm(stack') /\ stack' \in Seq(Frame)
  BY CalmTop DEF RunReturns, At, Running
<1>2. StackOK'
  BY <1>1, CalmIsOK
<1>3. FreshOK'
  BY DEF RunReturns, Inv, FreshOK, NoStaleWork
<1>4. reply' \in [Clients -> Results]
  BY AnswerType DEF RunReturns, Results, Inv, TypeOK, ClientTypes
<1> QED BY <1>1, <1>2, <1>3, <1>4
     DEF RunReturns, Inv, TypeOK, ChannelTypes, StateTypes, WorkTypes, StackTypes,
         ClientTypes, CountTypes, HistoryTypes

LEMMA PumpOnceInv == ASSUME Inv, PumpOnce PROVE Inv'
<1> DEFINE f == [Top EXCEPT !.pc = "drain", !.progressed = FALSE]
<1>1. Calm(Below) /\ Below \in Seq(Frame) /\ Top \in Frame /\ Top.fn \in Loops
  BY CalmTop DEF PumpOnce, At, Running, Loops
<1>2. f \in Frame /\ f.pc = "drain" /\ f.fn = Top.fn
  BY <1>1 DEF Frame, Points
<1> HIDE DEF f
<1>3. Calm(Append(Below, f)) /\ Append(Below, f) \in Seq(Frame)
  BY <1>1, <1>2, CalmAppend DEF Loops, Busy
<1> QED BY <1>3, OnlyStackInv DEF PumpOnce, f

\* Where pumpOnce returns to.
LEMMA LoopPoints ==
    /\ {"top", "drain", "work", "jobs", "check", "wait", "body", "once", "stuck", "finish"}
         \subseteq Points \ Busy
    /\ Loops \cap {"resource", "installer"} = {}
  BY DEF Points, Busy, Loops

LEMMA PumpReturnsCalm ==
    ASSUME Inv, Running(Loops), NEW more \in BOOLEAN, PumpReturns(more)
    PROVE  Calm(stack') /\ stack' \in Seq(Frame)
<1>1. \E pc \in {"top", "check", "wait"} : stack' = GoTo(pc)
  BY DEF PumpReturns
<1>2. stack # <<>> /\ Top.fn \notin {"resource", "installer"}
  BY LoopPoints DEF Running
<1> QED BY <1>1, <1>2, CalmTop, LoopPoints

LEMMA PumpingInv == ASSUME Inv, Drained \/ NotRunning PROVE Inv'
<1>1. Calm(stack') /\ stack' \in Seq(Frame)
  <2>1. CASE Drained
    <3>1. stack # <<>> /\ Top.fn \notin {"resource", "installer"} /\ stack' = GoTo("work")
      BY <2>1, LoopPoints DEF Drained, At, Running, MoveOn
    <3> QED BY <3>1, CalmTop, LoopPoints
  <2>2. CASE NotRunning
    BY <2>2, PumpReturnsCalm DEF NotRunning, At
  <2> QED BY <2>1, <2>2
<1> QED BY <1>1, OnlyStackInv DEF Drained, NotRunning

\* The loop's frame below the task or timer it runs.
LEMMA ProgressFrame ==
    ASSUME Top \in Frame
    PROVE  \E f \in Frame : /\ Progress = Append(Below, f) /\ f.fn = Top.fn /\ f.pc = "ran"
                            /\ f.progressed /\ f.client = Top.client /\ f.item = Top.item
                            /\ f.idx = Top.idx /\ f.prev = Top.prev
<1>1. PICK g : g = [Top EXCEPT !.pc = "ran"]
  OBVIOUS
<1>2. /\ g \in Frame /\ g.fn = Top.fn /\ g.pc = "ran" /\ g.client = Top.client
      /\ g.item = Top.item /\ g.idx = Top.idx /\ g.prev = Top.prev
  BY <1>1 DEF Frame, Points
<1>3. PICK f : f = [g EXCEPT !.progressed = TRUE]
  OBVIOUS
<1>4. /\ f \in Frame /\ f.fn = Top.fn /\ f.pc = "ran" /\ f.client = Top.client
      /\ f.item = Top.item /\ f.idx = Top.idx /\ f.prev = Top.prev /\ f.progressed
  BY <1>2, <1>3 DEF Frame
<1>5. Progress = Append(Below, f)
  BY <1>1, <1>3 DEF Progress
<1> QED BY <1>4, <1>5

LEMMA KeptType == Kept \subseteq timers
  BY DEF Kept, DiscardCancelled

LEMMA WorkingTop ==
    ASSUME Inv, CanWork
    PROVE  /\ stack # <<>> /\ Top.fn \in Loops /\ ctx = generation
           /\ Calm(Progress) /\ Progress \in Seq(Frame)
<1>1. stack # <<>> /\ Top.fn \in Loops /\ Top.fn \notin {"resource", "installer"}
  BY LoopPoints DEF CanWork, At, Running
<1>2. ctx = generation
  BY DEF CanWork, Inv, FreshOK
<1>3. Calm(Below) /\ Below \in Seq(Frame) /\ Top \in Frame
  BY <1>1, CalmTop
<1>4. PICK f \in Frame : Progress = Append(Below, f) /\ f.fn = Top.fn /\ f.pc = "ran"
  BY <1>3, ProgressFrame
<1>5. Calm(Progress) /\ Progress \in Seq(Frame)
  BY <1>1, <1>3, <1>4, CalmAppend DEF Busy
<1> QED BY <1>1, <1>2, <1>5

LEMMA StartType ==
    ASSUME TypeOK, NEW item \in Item
    PROVE  /\ Start(item) \in [id : Nat, kind : Ops, gen : Nat, at : Nat, late : BOOLEAN]
           /\ Start(item).gen = item.gen /\ Start(item).at = ctx
  BY DEF Start, Item, TypeOK, StateTypes

\* A callback that starts in the live context of its generation.
LEMMA FreshStart ==
    ASSUME Inv, NEW item \in Item, item.gen = generation, ctx = generation,
           ran' = Append(ran, Start(item))
    PROVE  /\ NoStaleWork'
           /\ ran' \in Seq([id : Nat, kind : Ops, gen : Nat, at : Nat, late : BOOLEAN])
<1> DEFINE Starts == [id : Nat, kind : Ops, gen : Nat, at : Nat, late : BOOLEAN]
           f == Start(item)
<1>1. ran \in Seq(Starts) /\ \A i \in DOMAIN ran : ran[i].gen = ran[i].at
  BY DEF Inv, TypeOK, HistoryTypes, FreshOK, NoStaleWork
<1>2. f \in Starts /\ f.gen = f.at
  BY StartType DEF Inv
<1>3. ran' = Append(ran, f)
  OBVIOUS
<1> HIDE DEF Starts, f
<1>4. ran' \in Seq(Starts) /\ \A i \in DOMAIN ran' : ran'[i].gen = ran'[i].at
  BY <1>1, <1>2, <1>3
<1> QED BY <1>4 DEF NoStaleWork, Starts

LEMMA RunTaskInv == ASSUME Inv, RunTask PROVE Inv'
<1>1. tasks \in Seq(Item) /\ tasks # <<>>
  BY DEF RunTask, Inv, TypeOK, WorkTypes
<1>2. /\ Head(tasks) \in Item /\ Head(tasks).gen = generation
      /\ Tail(tasks) \in Seq(Item)
      /\ \A i \in DOMAIN Tail(tasks) : Tail(tasks)[i].gen = generation
  BY <1>1 DEF Inv, FreshOK
<1>3. Calm(Progress) /\ Progress \in Seq(Frame) /\ ctx = generation
  BY WorkingTop DEF RunTask
<1>4. Calm(stack') /\ stack' \in Seq(Frame)
  BY <1>3, PushBody DEF RunTask, Bodies, Owners
<1>5. /\ NoStaleWork'
      /\ ran' \in Seq([id : Nat, kind : Ops, gen : Nat, at : Nat, late : BOOLEAN])
  BY <1>2, <1>3, FreshStart DEF RunTask
<1>6. FreshOK'
  BY <1>2, <1>5 DEF RunTask, Inv, FreshOK
<1>7. StackOK'
  BY <1>4, CalmIsOK
<1> QED BY <1>2, <1>4, <1>5, <1>6, <1>7
     DEF RunTask, Inv, TypeOK, ChannelTypes, StateTypes, WorkTypes, StackTypes,
         ClientTypes, CountTypes, HistoryTypes

LEMMA StartIsOK ==
    ASSUME NEW s \in Seq(Frame), Calm(s), NEW f \in Frame, f.fn = "timer",
           f.pc = "start", f.item.gen = generation', ctx' = generation',
           stack' = Append(s, f)
    PROVE  StackOK' /\ stack' \in Seq(Frame)
<1>1. /\ stack' \in Seq(Frame) /\ Len(stack') = Len(s) + 1 /\ Len(s) \in Nat
      /\ DOMAIN stack' = 1..Len(s) + 1
  OBVIOUS
<1>2. ASSUME NEW i \in 1..Len(s) + 1
      PROVE  stack'[i] = IF i <= Len(s) THEN s[i] ELSE f
  OBVIOUS
<1>3. ASSUME NEW i \in 1..Len(s) PROVE FrameOK(i)'
  BY <1>1, <1>2, <1>3 DEF FrameOK, Calm, Busy
<1>4. FrameOK(Len(s) + 1)'
  BY <1>1, <1>2 DEF FrameOK, Busy
<1> QED BY <1>1, <1>3, <1>4 DEF StackOK

LEMMA FireDueTimerInv == ASSUME Inv, FireDueTimer PROVE Inv'
<1>1. PICK e \in Due :
        /\ timers' = Kept \ {e}
        /\ IF e.gen # generation
           THEN /\ cancelled' = cancelled \cup {e.id} /\ stack' = Progress
                /\ UNCHANGED armed
           ELSE /\ stack' = Append(Progress,
                              [NewFrame("timer", "start", None) EXCEPT !.item = e])
                /\ armed' = TRUE /\ UNCHANGED cancelled
  BY DEF FireDueTimer
<1>2. timers \subseteq Item /\ Kept \subseteq timers
  BY KeptType DEF Inv, TypeOK, WorkTypes
<1>3. e \in Item /\ e.id \in Nat
  BY <1>2 DEF Due, Peek, Item
<1>4. Calm(Progress) /\ Progress \in Seq(Frame) /\ ctx = generation
  BY WorkingTop DEF FireDueTimer
<1>5. StackOK' /\ stack' \in Seq(Frame) /\ armed' \in BOOLEAN
  <2>1. CASE e.gen # generation
    BY <1>1, <1>4, <2>1, CalmIsOK DEF Inv, TypeOK, StateTypes
  <2>2. CASE e.gen = generation
    <3> DEFINE f == [NewFrame("timer", "start", None) EXCEPT !.item = e]
    <3>1. NewFrame("timer", "start", None) \in Frame
      BY NewFrameType DEF Bodies, Points, Owners
    <3>2. f \in Frame /\ f.fn = "timer" /\ f.pc = "start" /\ f.item = e
      BY <1>3, <3>1 DEF Frame, NewFrame
    <3>3. stack' = Append(Progress, f) /\ armed' = TRUE
      BY <1>1, <2>2
    <3>4. generation' = generation /\ ctx' = ctx
      BY DEF FireDueTimer
    <3> HIDE DEF f
    <3> QED BY <1>4, <2>2, <3>2, <3>3, <3>4, StartIsOK
  <2> QED BY <2>1, <2>2
<1>6. cancelled' \subseteq Nat
  BY <1>1, <1>3 DEF Inv, TypeOK, WorkTypes
<1>7. timers' \subseteq Item
  BY <1>1, <1>2
<1>8. WorkTypes'
  BY <1>6, <1>7 DEF FireDueTimer, Inv, TypeOK, WorkTypes
<1>9. FreshOK'
  BY DEF FireDueTimer, Inv, FreshOK, NoStaleWork
<1> QED BY <1>5, <1>8, <1>9
     DEF FireDueTimer, Inv, TypeOK, ChannelTypes, StateTypes, StackTypes,
         ClientTypes, CountTypes, HistoryTypes

\* Steps that discard cancelled timers and leave the stack calm.
LEMMA DiscardInv ==
    ASSUME Inv, timers' \in {timers, Kept}, Calm(stack'), stack' \in Seq(Frame),
           armed' \in BOOLEAN, acts' \in Nat,
           UNCHANGED <<channelVars, onceVars, stateVars, cancelled, jsTimers,
                       timerCallbacks, tasks, resources, clientVars, now, nextID, calls,
                       historyVars>>
    PROVE  Inv'
<1>1. StackOK'
  BY CalmIsOK
<1>2. FreshOK'
  BY DEF Inv, FreshOK, NoStaleWork
<1>3. WorkTypes'
  BY KeptType DEF Inv, TypeOK, WorkTypes
<1> QED BY <1>1, <1>2, <1>3
     DEF Inv, TypeOK, ChannelTypes, StateTypes, StackTypes, ClientTypes, CountTypes,
         HistoryTypes

LEMMA LoopCalm ==
    ASSUME Inv, Running(Loops), NEW pc \in {"top", "drain", "work", "jobs", "check", "wait"}
    PROVE  Calm(GoTo(pc)) /\ GoTo(pc) \in Seq(Frame) /\ Calm(Below) /\ Below \in Seq(Frame)
<1>1. stack # <<>> /\ Top.fn \notin {"resource", "installer"}
  BY LoopPoints DEF Running
<1> QED BY <1>1, CalmTop, LoopPoints

LEMMA CountsType == Inv => armed \in BOOLEAN /\ acts \in Nat /\ acts + 1 \in Nat
  BY DEF Inv, TypeOK, StateTypes, CountTypes

LEMMA RunJobsInv == ASSUME Inv, RunJobs PROVE Inv'
<1>1. Running(Loops)
  BY DEF RunJobs, CanWork, At
<1>2. Calm(stack') /\ stack' \in Seq(Frame)
  BY <1>1, LoopCalm DEF RunJobs, MoveOn
<1>3. armed' \in BOOLEAN /\ acts' \in Nat
  BY CountsType DEF RunJobs
<1> QED BY <1>2, <1>3, DiscardInv DEF RunJobs

LEMMA JobsReturnInv == ASSUME Inv, NEW more \in BOOLEAN, JobsReturn(more) PROVE Inv'
<1>1. Calm(stack') /\ stack' \in Seq(Frame)
  BY PumpReturnsCalm DEF JobsReturn, At
<1>2. armed' \in BOOLEAN /\ acts' \in Nat
  BY CountsType DEF JobsReturn
<1> QED BY <1>1, <1>2, DiscardInv DEF JobsReturn

LEMMA RunHasWorkInv == ASSUME Inv, RunHasWork PROVE Inv'
<1>1. Running(Loops)
  BY DEF RunHasWork, At, Running, Loops
<1>2. Calm(stack') /\ stack' \in Seq(Frame)
  BY <1>1, LoopCalm DEF RunHasWork, MoveOn
<1> QED BY <1>2, CountsType, DiscardInv DEF RunHasWork

LEMMA WaitForWorkInv == ASSUME Inv, WaitForWork PROVE Inv'
<1>1. Calm(GoTo("top")) /\ GoTo("top") \in Seq(Frame)
  BY LoopCalm DEF WaitForWork, At
<1>2. CASE Receive(GoTo("top"))
  BY <1>1, <1>2, ReceiveInv
<1>3. CASE ~Receive(GoTo("top"))
  BY <1>1, <1>3, CountsType, DiscardInv DEF WaitForWork, MoveOn
<1> QED BY <1>2, <1>3

LEMMA RunIsIdleInv == ASSUME Inv, RunIsIdle PROVE Inv'
<1>1. Running(Loops)
  BY DEF RunIsIdle, At, Running, Loops
<1>2. Calm(stack') /\ stack' \in Seq(Frame)
  BY <1>1, LoopCalm DEF RunIsIdle
<1>3. StackOK'
  BY <1>2, CalmIsOK
<1>4. FreshOK'
  BY DEF RunIsIdle, Inv, FreshOK, NoStaleWork
<1>5. WorkTypes'
  BY KeptType DEF RunIsIdle, Inv, TypeOK, WorkTypes
<1>6. reply' \in [Clients -> Results]
  BY AnswerType DEF RunIsIdle, Results, Inv, TypeOK, ClientTypes
<1>7. StateTypes'
  BY DEF RunIsIdle, Inv, TypeOK, StateTypes, States
<1> QED BY <1>2, <1>3, <1>4, <1>5, <1>6, <1>7
     DEF RunIsIdle, Inv, TypeOK, ChannelTypes, StackTypes, ClientTypes, CountTypes,
         HistoryTypes

LEMMA PumpingStep == ASSUME Inv, Pumping PROVE Inv'
  BY ReceivingInv, OwnerReturnsInv, RunReturnsInv, PumpOnceInv, PumpingInv, RunTaskInv,
     FireDueTimerInv, RunJobsInv, JobsReturnInv, RunIsIdleInv, RunHasWorkInv, WaitForWorkInv
     DEF Pumping

-------------------------------------------------------------------------------
\* User code.

\* Calls that push a frame are not made where they would re-enter a disposal.
LEMMA NotReentrant ==
    ASSUME Inv, NEW op \in ReentrantOps, MayAct(op)
    PROVE  /\ stack \in Seq(Frame) /\ stack # <<>> /\ Top.pc = "body"
           /\ Top.fn \notin {"resource", "installer"} /\ Calm(stack)
<1>1. /\ stack # <<>> /\ op \in UserOps(Top.fn)
      /\ Top.pc = "body" \/ Top.fn \in Loops
  BY DEF MayAct, At, Running
<1>2. Top.fn \notin {"resource", "installer"} /\ Top.pc = "body"
  <2>1. CASE Top.fn \in Loops
    <3>1. Top.fn # "resource" /\ Top.fn # "installer"
      BY <2>1 DEF Loops
    <3>2. op \in TaskOps \ ReentrantOps
      BY <1>1, <2>1, <3>1 DEF UserOps
    <3> QED BY <3>2
  <2>2. CASE Top.fn \notin Loops
    <3>1. Top.fn = "resource" => op \in ResourceOps
      BY <1>1 DEF UserOps, Loops
    <3>2. Top.fn = "installer" => op \in InstallerOps
      BY <1>1 DEF UserOps, Loops
    <3> QED BY <1>1, <2>2, <3>1, <3>2, ConstantsAssumption
  <2> QED BY <2>1, <2>2
<1>3. StackTypes /\ StackOK /\ Top.pc \notin Busy
  BY <1>2 DEF Inv, TypeOK, Busy
<1> QED BY <1>1, <1>2, <1>3, CalmStack DEF StackTypes

LEMMA UserStartStopInv ==
    ASSUME Inv, NEW op \in Ops, UserStartStop(op) PROVE Inv'
<1>1. StackOK' /\ FreshOK'
  BY Untouched DEF TypeOK, StackTypes, UserStartStop, Inv
<1> QED BY <1>1
     DEF UserStartStop, MayAct, Inv, TypeOK, ChannelTypes, StateTypes, States, WorkTypes,
         StackTypes, ClientTypes, CountTypes, HistoryTypes

LEMMA UserEnqueueInv ==
    ASSUME Inv, NEW op \in Ops, NEW delay \in 0..1, UserEnqueue(op, delay) PROVE Inv'
<1> DEFINE item == NewItem(op, delay, Maker)
           cmd == [op |-> op, client |-> None, item |-> item]
<1>1. StackOK' /\ FreshOK'
  BY Untouched DEF TypeOK, StackTypes, UserEnqueue, Inv
<1>2. item \in Item /\ item.id \in Nat
  <2>1. item \in Item
    BY NewItemType, MakerFacts DEF Inv
  <2> QED BY <2>1 DEF Item
<1>3. cmd \in Command
  BY <1>2 DEF Command, Owners
<1>4. /\ IF HasRoom
         THEN /\ commands' = Append(commands, cmd) /\ accepted' = Append(accepted, item)
              /\ UNCHANGED cancelled
         ELSE /\ cancelled' = IF op = "Schedule" THEN cancelled
                              ELSE cancelled \cup {item.id}
              /\ UNCHANGED <<commands, accepted>>
      /\ nextID' = nextID + 1 /\ acts' = acts + 1
  BY DEF UserEnqueue, MayAct
<1> HIDE DEF item, cmd
<1>5. commands' \in Seq(Command) /\ Len(commands') <= QueueCap
  BY <1>3, <1>4, CommandsType DEF Inv, TypeOK, ChannelTypes
<1>6. accepted' \in Seq(Item)
  <2>1. accepted \in Seq(Item) /\ Append(accepted, item) \in Seq(Item)
    BY <1>2 DEF Inv, TypeOK, HistoryTypes
  <2> QED BY <1>4, <2>1
<1>7. cancelled' \subseteq Nat
  BY <1>2, <1>4 DEF Inv, TypeOK, WorkTypes
<1> QED BY <1>1, <1>4, <1>5, <1>6, <1>7
     DEF UserEnqueue, Inv, TypeOK, ChannelTypes, StateTypes, WorkTypes, StackTypes,
         ClientTypes, CountTypes, HistoryTypes

LEMMA JSAddTimerInv ==
    ASSUME Inv, NEW op \in Ops, NEW delay \in 0..1, JSAddTimer(op, delay) PROVE Inv'
<1> DEFINE item == NewItem(op, delay, Maker)
<1>1. StackOK' /\ FreshOK'
  BY Untouched DEF TypeOK, StackTypes, JSAddTimer, Inv
<1>2. item \in Item /\ item.id \in Nat
  <2>1. item \in Item
    BY NewItemType, MakerFacts DEF Inv
  <2> QED BY <2>1 DEF Item
<1>3. /\ timers' = timers \cup {item} /\ jsTimers' = jsTimers \cup {item.id}
      /\ timerCallbacks' = timerCallbacks \cup {item.id}
      /\ accepted' = Append(accepted, item)
      /\ nextID' = nextID + 1 /\ acts' = acts + 1
  BY DEF JSAddTimer, MayAct
<1> HIDE DEF item
<1>4. accepted' \in Seq(Item)
  <2>1. accepted \in Seq(Item)
    BY DEF Inv, TypeOK, HistoryTypes
  <2> QED BY <1>2, <1>3, <2>1
<1>5. timers' \subseteq Item /\ jsTimers' \subseteq Nat /\ timerCallbacks' \subseteq Nat
  BY <1>2, <1>3 DEF Inv, TypeOK, WorkTypes
<1> QED BY <1>1, <1>3, <1>4, <1>5
     DEF JSAddTimer, Inv, TypeOK, ChannelTypes, StateTypes, WorkTypes, StackTypes,
         ClientTypes, CountTypes, HistoryTypes

LEMMA ClearJSTimerInv == ASSUME Inv, ClearJSTimer PROVE Inv'
<1>1. StackOK' /\ FreshOK'
  BY Untouched DEF TypeOK, StackTypes, ClearJSTimer, Inv
<1>2. PICK id \in jsTimers : cancelled' = cancelled \cup {id} /\ ForgetJSTimer(id)
  BY DEF ClearJSTimer
<1>3. WorkTypes'
  BY <1>2 DEF ClearJSTimer, ForgetJSTimer, Inv, TypeOK, WorkTypes
<1> QED BY <1>1, <1>3
     DEF ClearJSTimer, MayAct, Inv, TypeOK, ChannelTypes, StateTypes, StackTypes,
         ClientTypes, CountTypes, HistoryTypes

LEMMA UserCancelInv == ASSUME Inv, UserCancel PROVE Inv'
<1>1. StackOK' /\ FreshOK'
  BY Untouched DEF TypeOK, StackTypes, UserCancel, Inv
<1>2. PICK a \in AcceptedItems : cancelled' = cancelled \cup {a.id}
  BY DEF UserCancel, Cancellable
<1>3. a.id \in Nat
  <2>1. a \in Item
    BY <1>2, AcceptedType DEF Inv, TypeOK
  <2> QED BY <2>1 DEF Item
<1>4. WorkTypes'
  BY <1>2, <1>3 DEF UserCancel, Inv, TypeOK, WorkTypes
<1> QED BY <1>1, <1>4
     DEF UserCancel, MayAct, Inv, TypeOK, ChannelTypes, StateTypes, StackTypes,
         ClientTypes, CountTypes, HistoryTypes

LEMMA UserRegisterResourceInv == ASSUME Inv, UserRegisterResource PROVE Inv'
<1> DEFINE item == NewItem("RegisterResource", 0, None)
<1>1. item \in Item
  BY NewItemType, MakerFacts DEF Inv, Ops, GuardedCalls
<1>2. /\ resources' = Append(resources, item) /\ accepted' = Append(accepted, item)
      /\ nextID' = nextID + 1 /\ acts' = acts + 1
  BY DEF UserRegisterResource, MayAct
<1>3. resources \in Seq(Item) /\ accepted \in Seq(Item)
  BY DEF Inv, TypeOK, StackTypes, HistoryTypes
<1> HIDE DEF item
<1>4. /\ resources' \in Seq(Item) /\ accepted' \in Seq(Item)
      /\ Len(resources) <= Len(resources')
  BY <1>1, <1>2, <1>3
<1>5. StackOK' /\ FreshOK'
  BY <1>3, <1>4, Untouched DEF UserRegisterResource, Inv, TypeOK, StackTypes
<1> QED BY <1>2, <1>4, <1>5
     DEF UserRegisterResource, Inv, TypeOK, ChannelTypes, StateTypes, WorkTypes,
         StackTypes, ClientTypes, CountTypes, HistoryTypes

LEMMA UserDoInv == ASSUME Inv, NEW op \in Ops, UserDo(op) PROVE Inv'
<1>1. Calm(stack) /\ stack \in Seq(Frame)
  BY NotReentrant DEF UserDo, ReentrantOps, ContextCalls
<1>2. Calm(stack') /\ stack' \in Seq(Frame)
  BY <1>1, PushBody DEF UserDo, Bodies, Owners
<1>3. StackOK'
  BY <1>2, CalmIsOK
<1>4. FreshOK'
  BY DEF UserDo, Inv, FreshOK, NoStaleWork
<1>5. armed' \in BOOLEAN
  BY DEF UserDo
<1> QED BY <1>2, <1>3, <1>4, <1>5
     DEF UserDo, MayAct, Inv, TypeOK, ChannelTypes, StateTypes, WorkTypes, StackTypes,
         ClientTypes, CountTypes, HistoryTypes

LEMMA UserRunInv == ASSUME Inv, NEW op \in Ops, UserRun(op) PROVE Inv'
<1>1. Calm(stack) /\ stack \in Seq(Frame)
  BY NotReentrant DEF UserRun, ReentrantOps, ContextCalls
<1>2. Calm(stack') /\ stack' \in Seq(Frame)
  BY <1>1, EnterRunCalm DEF UserRun, Owners
<1>3. StackOK'
  BY <1>2, CalmIsOK
<1>4. FreshOK'
  BY DEF UserRun, Inv, FreshOK, NoStaleWork
<1>5. StateTypes'
  BY DEF UserRun, EnterRun, Inv, TypeOK, StateTypes, States
<1> QED BY <1>2, <1>3, <1>4, <1>5
     DEF UserRun, MayAct, Inv, TypeOK, ChannelTypes, WorkTypes, StackTypes,
         ClientTypes, CountTypes, HistoryTypes

LEMMA UserReloadInv == ASSUME Inv, UserReload PROVE Inv'
<1>1. Calm(stack) /\ stack \in Seq(Frame)
  BY NotReentrant DEF UserReload, ReentrantOps
<1>2. BeginDisposal("reload", None, stack)
  BY DEF UserReload
<1>3. /\ WorkTypes' /\ StackTypes' /\ StackOK' /\ tasks' = <<>>
      /\ UNCHANGED <<generation, ctx, armed>>
  BY <1>1, <1>2, BeginDisposalInv DEF Disposals, Owners
<1>4. FreshOK'
  BY <1>3 DEF UserReload, Inv, FreshOK, NoStaleWork
<1>5. StateTypes'
  BY <1>3 DEF UserReload, Inv, TypeOK, StateTypes, States
<1> QED BY <1>3, <1>4, <1>5
     DEF UserReload, MayAct, Inv, TypeOK, ChannelTypes, ClientTypes, CountTypes,
         HistoryTypes

LEMMA UserCloseInv == ASSUME Inv, UserClose PROVE Inv'
<1>1. stack # <<>> /\ Top.fn \notin {"resource", "installer"}
  BY NotReentrant DEF UserClose, ReentrantOps
<1>2. Calm(stack') /\ stack' \in Seq(Frame)
  BY <1>1, CalmTop, LoopPoints DEF UserClose, MoveOn
<1>3. StackOK'
  BY <1>2, CalmIsOK
<1>4. FreshOK'
  BY DEF UserClose, Inv, FreshOK, NoStaleWork
<1> QED BY <1>2, <1>3, <1>4
     DEF UserClose, MayAct, Inv, TypeOK, ChannelTypes, StateTypes, WorkTypes, StackTypes,
         ClientTypes, CountTypes, HistoryTypes

LEMMA UserCallsItselfInv == ASSUME Inv, NEW op \in Ops, UserCallsItself(op) PROVE Inv'
<1>1. stack # <<>> /\ Top.fn \notin {"resource", "installer"}
  BY NotReentrant DEF UserCallsItself, ReentrantOps
<1>2. Calm(stack') /\ stack' \in Seq(Frame)
  BY <1>1, CalmTop, LoopPoints DEF UserCallsItself, MoveOn
<1>3. StackOK'
  BY <1>2, CalmIsOK
<1>4. FreshOK'
  BY DEF UserCallsItself, Inv, FreshOK, NoStaleWork
<1>5. [op |-> op, client |-> None, item |-> NoItem] \in Command
  BY NoItemType DEF Command, Owners
<1>6. commands' \in Seq(Command) /\ Len(commands') <= QueueCap
  BY <1>5, CommandsType DEF UserCallsItself, Inv, TypeOK, ChannelTypes
<1> QED BY <1>2, <1>3, <1>4, <1>6
     DEF UserCallsItself, MayAct, Inv, TypeOK, ChannelTypes, StateTypes, WorkTypes,
         StackTypes, ClientTypes, CountTypes, HistoryTypes

LEMMA UserActsStep == ASSUME Inv, UserActs PROVE Inv'
  BY UserStartStopInv, UserEnqueueInv, JSAddTimerInv, ClearJSTimerInv, UserCancelInv,
     UserRegisterResourceInv, UserDoInv, UserRunInv, UserReloadInv, UserCloseInv,
     UserCallsItselfInv
     DEF UserActs

-------------------------------------------------------------------------------
\* User code returns.

LEMMA PopFrame ==
    ASSUME StackTypes, StackOK, stack # <<>>, stack' = Below,
           UNCHANGED <<tasks, generation, ctx, resources>>
    PROVE  StackOK' /\ stack' \in Seq(Frame)
<1>1. stack \in Seq(Frame) /\ Len(stack) \in Nat /\ Len(stack) > 0
      /\ DOMAIN stack = 1..Len(stack)
  BY DEF StackTypes
<1>2. /\ stack' \in Seq(Frame) /\ Len(stack') = Len(stack) - 1
      /\ DOMAIN stack' = 1..Len(stack) - 1
  BY <1>1 DEF Below
<1>3. ASSUME NEW i \in 1..Len(stack) - 1 PROVE FrameOK(i)'
  <2>1. i \in DOMAIN stack /\ i < Len(stack) /\ stack'[i] = stack[i]
    BY <1>1 DEF Below
  <2>2. FrameOK(i)
    BY <2>1 DEF StackOK
  <2>3. stack[i].pc \in Busy => i = Len(stack) - 1
    BY <2>1, <2>2 DEF FrameOK
  <2>4. stack[i].fn # "resource"
    BY <2>1, <2>2 DEF FrameOK
  <2> QED BY <1>2, <2>1, <2>2, <2>3, <2>4 DEF FrameOK
<1> QED BY <1>2, <1>3 DEF StackOK

LEMMA TopOK ==
    ASSUME Inv, stack # <<>>
    PROVE  /\ StackTypes /\ StackOK /\ stack \in Seq(Frame) /\ Top \in Frame
           /\ Len(stack) \in Nat \ {0} /\ Top = stack[Len(stack)] /\ FrameOK(Len(stack))
<1>1. stack \in Seq(Frame) /\ StackTypes /\ StackOK
  BY DEF Inv, TypeOK, StackTypes
<1>2. Len(stack) \in Nat \ {0} /\ Len(stack) \in DOMAIN stack /\ Top \in Frame
  BY <1>1 DEF Top
<1> QED BY <1>1, <1>2 DEF StackOK, Top

LEMMA BodyReturnsInv == ASSUME Inv, BodyReturns PROVE Inv'
<1>1. stack # <<>> /\ stack' = Below
  BY DEF BodyReturns, At, Running
<1>2. StackOK' /\ stack' \in Seq(Frame)
  BY <1>1, TopOK, PopFrame DEF BodyReturns
<1>3. FreshOK'
  BY DEF BodyReturns, Inv, FreshOK, NoStaleWork
<1>4. reply' \in [Clients -> Results]
  BY AnswerType DEF BodyReturns, Results, Inv, TypeOK, ClientTypes
<1>5. armed' \in BOOLEAN
  BY DEF BodyReturns
<1> QED BY <1>2, <1>3, <1>4, <1>5
     DEF BodyReturns, Inv, TypeOK, ChannelTypes, StateTypes, WorkTypes, StackTypes,
         ClientTypes, CountTypes, HistoryTypes

LEMMA TimerReturnsInv == ASSUME Inv, TimerReturns PROVE Inv'
<1> DEFINE e == Top.item
           again == [e EXCEPT !.deadline = @ + 1, !.seq = nextID + 1]
<1>1. stack # <<>> /\ stack' = Below
  BY DEF TimerReturns, At, Running
<1>2. StackOK' /\ stack' \in Seq(Frame)
  BY <1>1, TopOK, PopFrame DEF TimerReturns
<1>3. FreshOK'
  BY DEF TimerReturns, Inv, FreshOK, NoStaleWork
<1>4. e \in Item /\ nextID \in Nat
  BY <1>1, TopOK DEF Frame, Inv, TypeOK, CountTypes
<1>5. again \in Item
  <2> HIDE DEF e
  <2>1. e.deadline + 1 \in Nat /\ nextID + 1 \in Nat
    BY <1>4 DEF Item
  <2> QED BY <1>4, <2>1 DEF Item
<1>6. /\ \/ ForgetJSTimer(e.id)
         \/ UNCHANGED <<jsTimers, timerCallbacks>>
      /\ \/ timers' = timers \cup {again} /\ nextID' = nextID + 1
         \/ UNCHANGED <<timers, nextID>>
      /\ armed' = FALSE
  BY DEF TimerReturns
<1> HIDE DEF e, again
<1>7. timers' \subseteq Item
  BY <1>5, <1>6 DEF Inv, TypeOK, WorkTypes
<1>8. jsTimers' \subseteq Nat /\ timerCallbacks' \subseteq Nat
  BY <1>6 DEF ForgetJSTimer, Inv, TypeOK, WorkTypes
<1>9. nextID' \in Nat
  BY <1>4, <1>6
<1> QED BY <1>2, <1>3, <1>6, <1>7, <1>8, <1>9
     DEF TimerReturns, Inv, TypeOK, ChannelTypes, StateTypes, WorkTypes, StackTypes,
         ClientTypes, CountTypes, HistoryTypes

LEMMA StartTimerInv == ASSUME Inv, StartTimer PROVE Inv'
<1> DEFINE e == Top.item
<1>1. stack # <<>> /\ Top.fn = "timer" /\ Top.pc = "start"
  BY DEF StartTimer, At, Running
<1>2. e \in Item /\ e.gen = generation /\ ctx = generation
  BY <1>1, TopOK DEF Frame, FrameOK
<1>3. Calm(stack') /\ stack' \in Seq(Frame)
  BY <1>1, CalmTop, LoopPoints DEF StartTimer, MoveOn
<1>4. StackOK'
  BY <1>3, CalmIsOK
<1>5. \/ ran' = ran
      \/ ran' = Append(ran, Start(e))
  BY DEF StartTimer
<1>6. \/ ForgetJSTimer(e.id)
      \/ UNCHANGED <<jsTimers, timerCallbacks>>
  BY DEF StartTimer
<1> HIDE DEF e
<1>7. /\ NoStaleWork'
      /\ ran' \in Seq([id : Nat, kind : Ops, gen : Nat, at : Nat, late : BOOLEAN])
  <2>1. CASE ran' = ran
    BY <2>1 DEF Inv, FreshOK, NoStaleWork, TypeOK, HistoryTypes
  <2>2. CASE ran' = Append(ran, Start(e))
    BY <1>2, <2>2, FreshStart
  <2> QED BY <1>5, <2>1, <2>2
<1>8. FreshOK'
  BY <1>7 DEF StartTimer, Inv, FreshOK
<1>9. jsTimers' \subseteq Nat /\ timerCallbacks' \subseteq Nat
  BY <1>6 DEF ForgetJSTimer, Inv, TypeOK, WorkTypes
<1> QED BY <1>3, <1>4, <1>7, <1>8, <1>9
     DEF StartTimer, Inv, TypeOK, ChannelTypes, StateTypes, WorkTypes, StackTypes,
         ClientTypes, CountTypes, HistoryTypes

LEMMA UserCloseOnceInv == ASSUME Inv, UserCloseOnce PROVE Inv'
<1>1. stack # <<>> /\ Top.fn \in Bodies /\ Top.pc = "once"
  BY DEF UserCloseOnce, At, Running
<1>2. Top.fn # "resource"
  BY <1>1, TopOK DEF FrameOK
<1>3. \A pc \in Points \ Busy : Calm(GoTo(pc)) /\ GoTo(pc) \in Seq(Frame)
  BY <1>1, <1>2, CalmTop
<1>4. CASE closeOnce = "free" /\ IsOwner
  <2>1. BeginDisposal("close", None, GoTo("body"))
    BY <1>4 DEF UserCloseOnce
  <2>2. Calm(GoTo("body")) /\ GoTo("body") \in Seq(Frame)
    BY <1>3, LoopPoints
  <2>3. /\ WorkTypes' /\ StackTypes' /\ StackOK' /\ tasks' = <<>>
        /\ UNCHANGED <<generation, ctx, armed>>
    BY <2>1, <2>2, BeginDisposalInv DEF Disposals, Owners
  <2>4. FreshOK'
    BY <2>3 DEF UserCloseOnce, Inv, FreshOK, NoStaleWork
  <2>5. StateTypes' /\ ChannelTypes'
    BY <1>4, <2>3
       DEF UserCloseOnce, Inv, TypeOK, StateTypes, States, ChannelTypes, Owners
  <2> QED BY <2>3, <2>4, <2>5
          DEF UserCloseOnce, Inv, TypeOK, ClientTypes, CountTypes, HistoryTypes
<1>5. CASE ~(closeOnce = "free" /\ IsOwner)
  <2>1. /\ stack' = GoTo(IF IsOwner THEN "body" ELSE "stuck")
        /\ UNCHANGED <<stateVars, timerVars, armed, tasks, resources>>
        /\ closeOnce' = "done"
        /\ closeErr' = IF closeOnce = "free" THEN "ErrClosed" ELSE closeErr
    BY <1>5 DEF UserCloseOnce, MoveOn
  <2>2. Calm(stack') /\ stack' \in Seq(Frame)
    BY <1>3, <2>1, LoopPoints
  <2>3. StackOK'
    BY <2>2, CalmIsOK
  <2>4. FreshOK'
    BY <2>1 DEF UserCloseOnce, Inv, FreshOK, NoStaleWork
  <2>5. ChannelTypes'
    BY <2>1 DEF UserCloseOnce, Inv, TypeOK, ChannelTypes, Results
  <2> QED BY <2>1, <2>2, <2>3, <2>4, <2>5
          DEF UserCloseOnce, Inv, TypeOK, StateTypes, WorkTypes, StackTypes, ClientTypes,
              CountTypes, HistoryTypes
<1> QED BY <1>4, <1>5

LEMMA RunTaskReturnsInv ==
    ASSUME Inv, NEW err \in BOOLEAN, RunTaskReturns(err) PROVE Inv'
<1>1. stack # <<>> /\ Top.fn = "runTask" /\ Top.pc = "body"
  BY DEF RunTaskReturns, At, Running
<1>2. Calm(stack) /\ stack \in Seq(Frame) /\ Calm(Below) /\ Below \in Seq(Frame)
  BY <1>1, TopOK, CalmStack, CalmBelow DEF Busy
<1>3. Calm(stack') /\ stack' \in Seq(Frame)
  <2>1. Len(stack) - 2 \in Int /\ Len(stack) - 2 <= Len(stack)
    BY <1>2
  <2>2. stack' = SubSeq(stack, 1, Len(stack) - 2) \/ stack' = Below
    BY DEF RunTaskReturns
  <2> QED BY <1>2, <2>1, <2>2, CalmPrefix
<1>4. StackOK'
  BY <1>3, CalmIsOK
<1>5. FreshOK'
  BY DEF RunTaskReturns, Inv, FreshOK, NoStaleWork
<1>6. reply' \in [Clients -> Results]
  BY AnswerType DEF RunTaskReturns, Results, Inv, TypeOK, ClientTypes
<1>7. StateTypes'
  BY DEF RunTaskReturns, Inv, TypeOK, StateTypes, States
<1> QED BY <1>3, <1>4, <1>5, <1>6, <1>7
     DEF RunTaskReturns, Inv, TypeOK, ChannelTypes, WorkTypes, StackTypes, ClientTypes,
         CountTypes, HistoryTypes

-------------------------------------------------------------------------------
\* Disposals.

LEMMA FailReloadInv ==
    ASSUME Inv, NEW s \in Seq(Frame), s # <<>>, Calm(SubSeq(s, 1, Len(s) - 1)),
           FailReload(s), UNCHANGED <<resources, timerCallbacks>>
    PROVE  /\ StackOK' /\ stack' \in Seq(Frame) /\ WorkTypes'
           /\ closed' = TRUE /\ state' = "Closed" /\ tasks' = <<>>
<1> DEFINE f == [s[Len(s)] EXCEPT !.fn = "failedReload", !.pc = "resources",
                                  !.idx = Len(resources)]
           t == SubSeq(s, 1, Len(s) - 1)
<1>1. s[Len(s)] \in Frame /\ t \in Seq(Frame)
  OBVIOUS
<1>2. resources \in Seq(Item) /\ Len(resources) \in Nat
  BY DEF Inv, TypeOK, StackTypes
<1>3. /\ f \in Frame /\ f.fn = "failedReload" /\ f.pc = "resources"
      /\ f.idx = Len(resources)
  BY <1>1, <1>2 DEF Frame, Disposals, Points
<1>4. stack' = Append(t, f) /\ DropWork /\ closed' = TRUE /\ state' = "Closed"
  BY DEF FailReload
<1>5. tasks' = <<>> /\ WorkTypes'
  BY <1>4, DropWorkTypes DEF Inv, DropWork
<1> HIDE DEF f
<1>6. f.fn \in Disposals /\ f.idx <= Len(resources')
  BY <1>2, <1>3 DEF Disposals
<1> HIDE DEF t
<1>7. Calm(t)
  BY DEF t
<1>8. StackOK' /\ stack' \in Seq(Frame)
  BY <1>1, <1>3, <1>4, <1>5, <1>6, <1>7, DisposalIsOK
<1> QED BY <1>4, <1>5, <1>8

LEMMA InstallerReturnsInv ==
    ASSUME Inv, NEW err \in BOOLEAN, InstallerReturns(err) PROVE Inv'
<1>1. stack # <<>> /\ Top.fn = "installer" /\ Top.pc = "body"
  BY DEF InstallerReturns, At, Running
<1>2. Len(stack) > 1 /\ Calm(Below) /\ Below \in Seq(Frame)
  BY <1>1, TopOK, CalmBelow DEF FrameOK
<1>3. CASE ~err
  <2>1. /\ stack' = Below
        /\ UNCHANGED <<closed, state, timers, cancelled, jsTimers, tasks>>
    BY <1>3 DEF InstallerReturns
  <2>2. StackOK'
    BY <1>2, <2>1, CalmIsOK
  <2>3. FreshOK'
    BY <2>1 DEF InstallerReturns, Inv, FreshOK, NoStaleWork
  <2> QED BY <1>2, <2>1, <2>2, <2>3
          DEF InstallerReturns, Inv, TypeOK, ChannelTypes, StateTypes, WorkTypes,
              StackTypes, ClientTypes, CountTypes, HistoryTypes
<1>4. CASE err
  <2>1. Below # <<>> /\ Len(Below) \in Nat
    <3>1. Len(stack) \in Nat
      BY <1>1, TopOK
    <3>2. Len(Below) = Len(stack) - 1
      BY <1>1, TopOK, CalmBelow
    <3> QED BY <1>2, <3>1, <3>2
  <2>2. Calm(SubSeq(Below, 1, Len(Below) - 1))
    BY <1>2, <2>1, CalmPrefix
  <2>3. FailReload(Below) /\ UNCHANGED <<resources, timerCallbacks>>
    BY <1>4 DEF InstallerReturns
  <2>4. /\ StackOK' /\ stack' \in Seq(Frame) /\ WorkTypes'
        /\ closed' = TRUE /\ state' = "Closed" /\ tasks' = <<>>
    BY <1>2, <2>1, <2>2, <2>3, FailReloadInv
  <2>5. FreshOK'
    BY <2>4 DEF InstallerReturns, Inv, FreshOK, NoStaleWork
  <2> QED BY <2>4, <2>5
          DEF InstallerReturns, Inv, TypeOK, ChannelTypes, StateTypes, States, StackTypes,
              ClientTypes, CountTypes, HistoryTypes
<1> QED BY <1>3, <1>4

LEMMA InitializeGenerationInv == ASSUME Inv, InitializeGeneration PROVE Inv'
<1>1. stack # <<>> /\ Top.fn = "reload" /\ Top.pc = "init"
  BY DEF InitializeGeneration, At, Running
<1>2. tasks = <<>>
  BY <1>1, TopOK DEF FrameOK
<1>3. /\ Calm(Below) /\ Below \in Seq(Frame) /\ stack \in Seq(Frame)
      /\ Calm(GoTo("finish")) /\ GoTo("finish") \in Seq(Frame)
  BY <1>1, CalmTop, LoopPoints
<1>4. CASE /\ generation' = generation + 1 /\ ctx' = generation + 1
           /\ stack' = Append(GoTo("finish"), NewFrame("installer", "body", None))
           /\ UNCHANGED <<closed, state, timers, cancelled, jsTimers, tasks>>
  <2>1. GoTo("finish") # <<>>
    <3>1. \A f \in Frame : Append(Below, f) # <<>>
      BY <1>3
    <3>2. [Top EXCEPT !.pc = "finish"] \in Frame
      BY <1>1, TopOK, FrameAtType, LoopPoints
    <3> QED BY <3>1, <3>2 DEF GoTo
  <2>2. Calm(stack') /\ stack' \in Seq(Frame)
    BY <1>3, <1>4, <2>1, PushBody DEF Bodies, Owners
  <2>3. StackOK'
    BY <2>2, CalmIsOK
  <2>4. FreshOK'
    BY <1>2, <1>4 DEF InitializeGeneration, Inv, FreshOK, NoStaleWork
  <2>5. StateTypes'
    BY <1>4 DEF InitializeGeneration, Inv, TypeOK, StateTypes
  <2> QED BY <1>4, <2>2, <2>3, <2>4, <2>5
          DEF InitializeGeneration, Inv, TypeOK, ChannelTypes, WorkTypes, StackTypes,
              ClientTypes, CountTypes, HistoryTypes
<1>5. CASE FailReload(stack) /\ UNCHANGED <<generation, ctx>>
  <2>1. Calm(SubSeq(stack, 1, Len(stack) - 1))
    BY <1>3 DEF Below
  <2>2. UNCHANGED <<resources, timerCallbacks>>
    BY DEF InitializeGeneration
  <2>3. /\ StackOK' /\ stack' \in Seq(Frame) /\ WorkTypes'
        /\ closed' = TRUE /\ state' = "Closed" /\ tasks' = <<>>
    BY <1>1, <1>3, <1>5, <2>1, <2>2, FailReloadInv
  <2>4. FreshOK'
    BY <1>5, <2>3 DEF InitializeGeneration, Inv, FreshOK, NoStaleWork
  <2> QED BY <1>5, <2>3, <2>4
          DEF InitializeGeneration, Inv, TypeOK, ChannelTypes, StateTypes, States,
              StackTypes, ClientTypes, CountTypes, HistoryTypes
<1> QED BY <1>4, <1>5 DEF InitializeGeneration

LEMMA ReloadReturnsInv == ASSUME Inv, ReloadReturns PROVE Inv'
<1>1. stack # <<>> /\ stack' = Below
  BY DEF ReloadReturns, At, Running
<1>2. StackOK' /\ stack' \in Seq(Frame)
  BY <1>1, TopOK, PopFrame DEF ReloadReturns
<1>3. FreshOK'
  BY DEF ReloadReturns, Inv, FreshOK, NoStaleWork
<1>4. reply' \in [Clients -> Results]
  BY AnswerType DEF ReloadReturns, Results, Inv, TypeOK, ClientTypes
<1>5. Top.prev \in States
  BY <1>1, TopOK DEF Frame
<1>6. StateTypes'
  BY <1>5 DEF ReloadReturns, Inv, TypeOK, StateTypes
<1> QED BY <1>2, <1>3, <1>4, <1>6
     DEF ReloadReturns, Inv, TypeOK, ChannelTypes, WorkTypes, StackTypes, ClientTypes,
         CountTypes, HistoryTypes

LEMMA CloseFinishesInv == ASSUME Inv, CloseFinishes PROVE Inv'
<1>1. stack # <<>> /\ stack' = Below
  BY DEF CloseFinishes, At, Running
<1>2. StackOK' /\ stack' \in Seq(Frame)
  BY <1>1, TopOK, PopFrame DEF CloseFinishes
<1>3. FreshOK'
  BY DEF CloseFinishes, Inv, FreshOK, NoStaleWork
<1>4. reply' \in [Clients -> Results]
  BY AnswerType DEF CloseFinishes, Results, Inv, TypeOK, ClientTypes
<1>5. ChannelTypes'
  BY DEF CloseFinishes, Inv, TypeOK, ChannelTypes
<1> QED BY <1>2, <1>3, <1>4, <1>5
     DEF CloseFinishes, Inv, TypeOK, StateTypes, WorkTypes, StackTypes, ClientTypes,
         CountTypes, HistoryTypes

\* A disposal's frame stays below the Close method it calls.
LEMMA CallClose ==
    ASSUME NEW s \in Seq(Frame), Calm(s), NEW f \in Frame, f.fn \in Disposals,
           f.pc = "resources", f.idx <= Len(resources'), tasks' = <<>>,
           NEW g \in Frame, g.fn = "resource", g.pc = "body",
           stack' = Append(Append(s, f), g)
    PROVE  StackOK' /\ stack' \in Seq(Frame)
<1>1. /\ stack' \in Seq(Frame) /\ Len(stack') = Len(s) + 2 /\ Len(s) \in Nat
      /\ DOMAIN stack' = 1..Len(s) + 2
  OBVIOUS
<1>2. /\ stack'[Len(s) + 1] = f /\ stack'[Len(s) + 2] = g
      /\ \A i \in 1..Len(s) : stack'[i] = s[i]
  OBVIOUS
<1>3. ASSUME NEW i \in 1..Len(s) PROVE FrameOK(i)'
  BY <1>1, <1>2, <1>3 DEF FrameOK, Calm, Busy
<1>4. FrameOK(Len(s) + 1)'
  <2>1. Len(s) + 1 = Len(stack') - 1 /\ (Len(s) + 1) + 1 = Len(s) + 2
    BY <1>1
  <2> QED BY <1>2, <2>1 DEF FrameOK, Busy, Disposals
<1>5. FrameOK(Len(s) + 2)'
  BY <1>1, <1>2 DEF FrameOK, Busy
<1>6. \A i \in 1..Len(s) + 2 : i \in 1..Len(s) \/ i = Len(s) + 1 \/ i = Len(s) + 2
  BY <1>1
<1> QED BY <1>1, <1>3, <1>4, <1>5, <1>6 DEF StackOK

LEMMA DisposingTop ==
    ASSUME Inv, At(Disposals, "resources")
    PROVE  /\ Top \in Frame /\ Top.fn \in Disposals /\ Top.pc = "resources"
           /\ Calm(Below) /\ Below \in Seq(Frame)
           /\ tasks = <<>> /\ Top.idx <= Len(resources)
<1>1. stack # <<>> /\ Top.fn \in Disposals /\ Top.pc = "resources"
  BY DEF At, Running
<1>2. Top.fn # "resource"
  BY <1>1 DEF Disposals
<1> QED BY <1>1, <1>2, TopOK, CalmTop DEF FrameOK

LEMMA CloseResourceInv == ASSUME Inv, CloseResource PROVE Inv'
<1> DEFINE f == [Top EXCEPT !.idx = @ - 1]
           g == NewFrame("resource", "body", None)
           entry == [id |-> resources[Top.idx].id, at |-> ctx]
<1>1. /\ Top \in Frame /\ Top.fn \in Disposals /\ Top.pc = "resources"
      /\ Calm(Below) /\ Below \in Seq(Frame)
      /\ tasks = <<>> /\ Top.idx <= Len(resources)
  BY DisposingTop DEF CloseResource
<1>2. resources \in Seq(Item) /\ Len(resources) \in Nat /\ Top.idx \in Nat /\ Top.idx > 0
  BY <1>1 DEF CloseResource, Frame, Inv, TypeOK, StackTypes
<1>3. /\ f \in Frame /\ f.fn = Top.fn /\ f.pc = "resources" /\ f.idx = Top.idx - 1
      /\ f.idx <= Len(resources)
  BY <1>1, <1>2 DEF Frame
<1>4. g \in Frame /\ g.fn = "resource" /\ g.pc = "body"
  <2>1. g \in Frame
    BY NewFrameType DEF Bodies, Points, Owners
  <2> QED BY <2>1 DEF NewFrame
<1>5. entry \in [id : Nat, at : Nat]
  <2>1. resources[Top.idx] \in Item
    BY <1>1, <1>2
  <2> QED BY <2>1 DEF Item, Inv, TypeOK, StateTypes
<1>6. /\ stack' = Append(Append(Below, f), g) /\ closedLog' = Append(closedLog, entry)
      /\ tasks' = tasks /\ resources' = resources
  BY DEF CloseResource
<1> HIDE DEF f, g, entry
<1>7. StackOK' /\ stack' \in Seq(Frame)
  BY <1>1, <1>3, <1>4, <1>6, CallClose
<1>8. FreshOK'
  BY DEF CloseResource, Inv, FreshOK, NoStaleWork
<1>9. closedLog' \in Seq([id : Nat, at : Nat])
  <2> DEFINE Entries == [id : Nat, at : Nat]
  <2>1. closedLog \in Seq(Entries) /\ entry \in Entries
    BY <1>5 DEF Inv, TypeOK, HistoryTypes
  <2> HIDE DEF Entries
  <2>2. Append(closedLog, entry) \in Seq(Entries)
    BY <2>1
  <2> QED BY <1>6, <2>2 DEF Entries
<1> QED BY <1>7, <1>8, <1>9
     DEF CloseResource, Inv, TypeOK, ChannelTypes, StateTypes, WorkTypes, StackTypes,
         ClientTypes, CountTypes, HistoryTypes

\* A frame on top that initializes the next generation.
LEMMA InitIsOK ==
    ASSUME NEW s \in Seq(Frame), Calm(s), NEW f \in Frame, f.fn = "reload",
           f.pc = "init", tasks' = <<>>, stack' = Append(s, f)
    PROVE  StackOK' /\ stack' \in Seq(Frame)
<1>1. /\ stack' \in Seq(Frame) /\ Len(stack') = Len(s) + 1 /\ Len(s) \in Nat
      /\ DOMAIN stack' = 1..Len(s) + 1
  OBVIOUS
<1>2. ASSUME NEW i \in 1..Len(s) + 1
      PROVE  stack'[i] = IF i <= Len(s) THEN s[i] ELSE f
  OBVIOUS
<1>3. ASSUME NEW i \in 1..Len(s) PROVE FrameOK(i)'
  BY <1>1, <1>2, <1>3 DEF FrameOK, Calm, Busy
<1>4. FrameOK(Len(s) + 1)'
  BY <1>1, <1>2 DEF FrameOK, Busy
<1> QED BY <1>1, <1>3, <1>4 DEF StackOK

LEMMA DisposeContextInv == ASSUME Inv, DisposeContext PROVE Inv'
<1>1. /\ Top \in Frame /\ Top.fn \in Disposals /\ Top.pc = "resources"
      /\ Calm(Below) /\ Below \in Seq(Frame) /\ tasks = <<>>
  BY DisposingTop DEF DisposeContext
<1>2. tasks' = <<>> /\ stack # <<>> /\ Top.fn # "resource"
  BY <1>1 DEF DisposeContext, At, Running, Disposals
<1>3. StackOK' /\ stack' \in Seq(Frame)
  <2>1. CASE Top.fn = "reload"
    <3> DEFINE f == [Top EXCEPT !.pc = "init"]
    <3>1. f \in Frame /\ f.fn = "reload" /\ f.pc = "init"
      BY <1>1, <2>1 DEF Frame, Points
    <3>2. stack' = Append(Below, f)
      BY <2>1 DEF DisposeContext, MoveOn, GoTo
    <3> HIDE DEF f
    <3> QED BY <1>1, <1>2, <3>1, <3>2, InitIsOK
  <2>2. CASE Top.fn # "reload"
    <3>1. stack' = GoTo("finish")
      BY <2>2 DEF DisposeContext, MoveOn
    <3> QED BY <1>2, <3>1, CalmTop, CalmIsOK, LoopPoints
  <2> QED BY <2>1, <2>2
<1>4. FreshOK'
  BY DEF DisposeContext, Inv, FreshOK, NoStaleWork
<1>5. StackTypes' /\ StateTypes' /\ WorkTypes'
  <2>1. /\ resources' = <<>> /\ timerCallbacks' = {} /\ ctx' = 0 /\ armed' = FALSE
        /\ UNCHANGED <<closed, state, generation, timers, cancelled, jsTimers, tasks>>
    BY DEF DisposeContext
  <2>2. StateTypes'
    BY <2>1 DEF Inv, TypeOK, StateTypes
  <2>3. WorkTypes'
    BY <2>1 DEF Inv, TypeOK, WorkTypes
  <2> QED BY <1>3, <2>1, <2>2, <2>3 DEF StackTypes
<1> QED BY <1>3, <1>4, <1>5
     DEF DisposeContext, Inv, TypeOK, ChannelTypes, ClientTypes, CountTypes, HistoryTypes

-------------------------------------------------------------------------------
\* Every step.

LEMMA OwnerStep == ASSUME Inv, Owner PROVE Inv'
<1>1. CASE Pumping
  BY <1>1, PumpingStep
<1>2. CASE UserActs
  BY <1>2, UserActsStep
<1>3. CASE UserReturns
  <2>1. TaskErrors \subseteq BOOLEAN
    BY ConstantsAssumption
  <2> QED BY <1>3, <2>1, UserCloseOnceInv, StartTimerInv, TimerReturnsInv, BodyReturnsInv,
             RunTaskReturnsInv, InstallerReturnsInv
          DEF UserReturns
<1>4. CASE Disposing
  BY <1>4, CloseResourceInv, DisposeContextInv, InitializeGenerationInv, ReloadReturnsInv,
     CloseFinishesInv
     DEF Disposing
<1> QED BY <1>1, <1>2, <1>3, <1>4 DEF Owner

LEMMA ClientStep == ASSUME Inv, NEW c \in Clients, Caller(c) \/ Client(c) PROVE Inv'
<1>1. TypeOK'
  BY BeginCallTypes, BeginEnqueueTypes, SendTypes, AwaitTypes, EnqueueTypes, CancelTypes,
     CloseCallTypes
     DEF Inv, Caller, Client
<1>2. UNCHANGED <<stack, tasks, generation, ctx, ran, resources>>
  BY DEF Caller, Client, BeginCall, BeginEnqueue, CancelTimer, BeginClose, Send, Await,
         Enqueue, CloseOnce, CloseReturns
<1>3. StackOK' /\ FreshOK'
  <2>1. stack \in Seq(Frame) /\ resources \in Seq(Item) /\ Len(resources) \in Nat
    BY DEF Inv, TypeOK, StackTypes
  <2> QED BY <1>2, <2>1, Untouched DEF Inv
<1> QED BY <1>1, <1>3 DEF Inv

LEMMA IdleStep == ASSUME Inv, Tick \/ Quiet \/ UNCHANGED vars PROVE Inv'
<1>1. TypeOK'
  <2>1. CASE Tick
    BY <2>1 DEF Tick, Inv, TypeOK, ChannelTypes, StateTypes, WorkTypes, StackTypes,
                ClientTypes, CountTypes, HistoryTypes
  <2>2. CASE Quiet \/ UNCHANGED vars
    BY <2>2 DEF Quiet, vars, Inv, TypeOK, ChannelTypes, StateTypes, WorkTypes, StackTypes,
                ClientTypes, CountTypes, HistoryTypes
  <2> QED BY <2>1, <2>2
<1>2. UNCHANGED <<stack, tasks, generation, ctx, ran, resources>>
  BY DEF Tick, Quiet, vars
<1>3. StackOK' /\ FreshOK'
  <2>1. stack \in Seq(Frame) /\ resources \in Seq(Item) /\ Len(resources) \in Nat
    BY DEF Inv, TypeOK, StackTypes
  <2> QED BY <1>2, <2>1, Untouched DEF Inv
<1> QED BY <1>1, <1>3 DEF Inv

\* The invariant is inductive: it holds whatever the clients and user code do.
THEOREM InvariantHolds == Spec => []Inv
<1>1. Init => Inv
  BY InitInv
<1>2. Inv /\ [Next]_vars => Inv'
  <2> SUFFICES ASSUME Inv, [Next]_vars PROVE Inv'
    OBVIOUS
  <2>1. CASE Owner
    BY <2>1, OwnerStep
  <2>2. CASE \E c \in Clients : Caller(c) \/ Client(c)
    BY <2>2, ClientStep
  <2>3. CASE Tick \/ Quiet \/ UNCHANGED vars
    BY <2>3, IdleStep
  <2> QED BY <2>1, <2>2, <2>3 DEF Next
<1> QED BY <1>1, <1>2, PTL DEF Spec

\* Types are kept, and the command channel never exceeds its capacity.
THEOREM TypeCorrect == Spec => []TypeOK
<1>1. Inv => TypeOK
  BY DEF Inv
<1> QED BY <1>1, InvariantHolds, PTL

\* Work does not cross the generation boundary and nothing runs without a live
\* context, for every number of clients and every length of the queue.
THEOREM NoStaleWorkAlways == Spec => []NoStaleWork
<1>1. Inv => NoStaleWork
  BY DEF Inv, FreshOK
<1> QED BY <1>1, InvariantHolds, PTL

-------------------------------------------------------------------------------
\* What Close and Reload call: Close methods and installers.
Called == {"resource", "installer"}

\* A stack without a Close or Reload, and without what they call.
Settled(s) == \A i \in DOMAIN s : s[i].fn \notin Called \cup Disposals

\* A Close or Reload is the innermost call but for the user code it has called, which
\* does not call back; and the loop is open as long as a Reload may succeed.
DisposalOK(i) ==
    /\ stack[i].fn \in Disposals =>
         /\ closed <=> stack[i].fn # "reload"
         /\ i = Len(stack) \/ (i = Len(stack) - 1 /\ stack[i + 1].fn \in Called)
    /\ stack[i].fn \in Called => i = Len(stack) /\ stack[i].pc = "body"
DisposalsOK == \A i \in DOMAIN stack : DisposalOK(i)

\* The inductive invariant.
ClosedInv == Inv /\ DisposalsOK

LEMMA StackIsSeq ==
    ASSUME Inv
    PROVE  /\ stack \in Seq(Frame) /\ Len(stack) \in Nat /\ DOMAIN stack = 1..Len(stack)
           /\ stack # <<>> => /\ Len(stack) > 0 /\ Top \in Frame /\ Below \in Seq(Frame)
                              /\ Len(Below) = Len(stack) - 1
                              /\ DOMAIN Below = 1..Len(stack) - 1
                              /\ \A i \in 1..Len(stack) - 1 : Below[i] = stack[i]
<1>1. stack \in Seq(Frame) /\ Len(stack) \in Nat /\ DOMAIN stack = 1..Len(stack)
  BY DEF Inv, TypeOK, StackTypes
<1>2. ASSUME stack # <<>>
      PROVE  /\ Len(stack) > 0 /\ Top \in Frame /\ Below \in Seq(Frame)
             /\ Len(Below) = Len(stack) - 1 /\ DOMAIN Below = 1..Len(stack) - 1
  BY <1>1, <1>2 DEF Top, Below
<1>3. ASSUME stack # <<>>, NEW i \in 1..Len(stack) - 1 PROVE Below[i] = stack[i]
  BY <1>1, <1>3 DEF Below
<1> QED BY <1>1, <1>2, <1>3

-------------------------------------------------------------------------------
\* Stacks that are settled, and what may be pushed on them.

LEMMA SettledStack ==
    ASSUME ClosedInv, stack # <<>>, Top.fn \notin Called \cup Disposals
    PROVE  Settled(stack) /\ Settled(Below)
<1>1. /\ stack \in Seq(Frame) /\ Len(stack) \in Nat /\ DOMAIN stack = 1..Len(stack)
      /\ Len(Below) = Len(stack) - 1 /\ DOMAIN Below = 1..Len(stack) - 1
      /\ \A i \in 1..Len(stack) - 1 : Below[i] = stack[i]
  BY StackIsSeq DEF ClosedInv
<1>2. ASSUME NEW i \in DOMAIN stack PROVE stack[i].fn \notin Called \cup Disposals
  <2>1. DisposalOK(i)
    BY DEF ClosedInv, DisposalsOK
  <2>2. i = Len(stack) - 1 => stack[i + 1] = Top
    BY <1>1 DEF Top
  <2> QED BY <1>1, <2>1, <2>2 DEF DisposalOK, Top
<1> QED BY <1>1, <1>2 DEF Settled

\* Under a Reload or the user code it calls, all but these is settled.
LEMMA SettledBelow ==
    ASSUME ClosedInv, stack # <<>>, Top.fn \in Disposals
    PROVE  Settled(Below)
<1>1. /\ stack \in Seq(Frame) /\ Len(stack) \in Nat /\ DOMAIN stack = 1..Len(stack)
      /\ Len(Below) = Len(stack) - 1 /\ DOMAIN Below = 1..Len(stack) - 1
      /\ \A i \in 1..Len(stack) - 1 : Below[i] = stack[i]
  BY StackIsSeq DEF ClosedInv
<1>2. ASSUME NEW i \in 1..Len(stack) - 1 PROVE stack[i].fn \notin Called \cup Disposals
  <2>1. DisposalOK(i)
    BY <1>1 DEF ClosedInv, DisposalsOK
  <2>2. i = Len(stack) - 1 => stack[i + 1] = Top
    BY <1>1 DEF Top
  <2>3. i # Len(stack)
    <3>1. Len(stack) \in Nat
      BY <1>1
    <3> QED BY <3>1
  <2>4. stack[i].fn \notin Called
    BY <2>1, <2>3 DEF DisposalOK
  <2>5. stack[i].fn \notin Disposals
    BY <2>1, <2>2, <2>3 DEF DisposalOK, Called, Disposals
  <2> QED BY <2>4, <2>5
<1> QED BY <1>1, <1>2 DEF Settled

LEMMA SettledIsOK ==
    ASSUME stack' \in Seq(Frame), Settled(stack')
    PROVE  DisposalsOK'
  BY DEF Settled, DisposalsOK, DisposalOK

LEMMA SettledAppend ==
    ASSUME NEW s \in Seq(Frame), Settled(s), NEW f \in Frame, f.fn \notin Called \cup Disposals
    PROVE  Append(s, f) \in Seq(Frame) /\ Settled(Append(s, f))
  BY DEF Settled

LEMMA PushIsOK ==
    ASSUME NEW s \in Seq(Frame), Settled(s), NEW f \in Frame, stack' = Append(s, f),
           f.fn \in Disposals => (closed' <=> f.fn # "reload"), f.fn \in Called => f.pc = "body"
    PROVE  DisposalsOK'
<1>1. /\ Len(s) \in Nat /\ Len(stack') = Len(s) + 1 /\ DOMAIN stack' = 1..Len(s) + 1
      /\ DOMAIN s = 1..Len(s) /\ stack'[Len(s) + 1] = f
      /\ \A i \in 1..Len(s) : stack'[i] = s[i]
  OBVIOUS
<1>2. \A i \in 1..Len(s) : s[i].fn \notin Called \cup Disposals
  BY <1>1 DEF Settled
<1> QED BY <1>1, <1>2 DEF DisposalsOK, DisposalOK

\* A Reload calls a Close method or an installer.
LEMMA CallIsOK ==
    ASSUME NEW s \in Seq(Frame), Settled(s), NEW f \in Frame, NEW g \in Frame,
           f.fn \in Disposals => (closed' <=> f.fn # "reload"),
           stack' = Append(Append(s, f), g), g.fn \in Called, g.pc = "body", f.fn \notin Called
    PROVE  DisposalsOK'
<1>1. /\ Len(s) \in Nat /\ Len(stack') = Len(s) + 2 /\ DOMAIN stack' = 1..Len(s) + 2
      /\ DOMAIN s = 1..Len(s) /\ stack'[Len(s) + 1] = f /\ stack'[Len(s) + 2] = g
      /\ \A i \in 1..Len(s) : stack'[i] = s[i]
  OBVIOUS
<1>2. \A i \in 1..Len(s) : s[i].fn \notin Called \cup Disposals
  BY <1>1 DEF Settled
<1>3. ASSUME NEW i \in 1..Len(s) + 2 PROVE DisposalOK(i)'
  <2>1. i \in 1..Len(s) \/ i = Len(s) + 1 \/ i = Len(s) + 2
    BY <1>1
  <2> QED BY <1>1, <1>2, <2>1 DEF DisposalOK, Called, Disposals
<1> QED BY <1>1, <1>3 DEF DisposalsOK

\* The innermost call returns.
LEMMA ReturnIsOK ==
    ASSUME ClosedInv, stack # <<>>, stack' = Below, closed' = closed
    PROVE  DisposalsOK'
<1>1. /\ Len(stack) \in Nat /\ DOMAIN stack = 1..Len(stack)
      /\ Len(Below) = Len(stack) - 1 /\ DOMAIN Below = 1..Len(stack) - 1
      /\ \A i \in 1..Len(stack) - 1 : Below[i] = stack[i]
  BY StackIsSeq DEF ClosedInv
<1>2. ASSUME NEW i \in 1..Len(stack) - 1 PROVE DisposalOK(i)'
  <2>1. DisposalOK(i)
    BY <1>1 DEF ClosedInv, DisposalsOK
  <2>2. stack'[i] = stack[i] /\ Len(stack') = Len(stack) - 1 /\ i # Len(stack)
    <3>1. stack'[i] = Below[i] /\ Len(stack') = Len(Below)
      OBVIOUS
    <3>2. \A n \in Nat : i \in 1..n - 1 => i # n
      OBVIOUS
    <3> QED BY <1>1, <3>1, <3>2
  <2>3. i = Len(stack) - 1 => i = Len(stack')
    BY <2>2
  <2>4. stack[i].fn \notin Called
    BY <2>1, <2>2 DEF DisposalOK
  <2> QED BY <2>1, <2>2, <2>3, <2>4 DEF DisposalOK
<1> QED BY <1>1, <1>2 DEF DisposalsOK

\* The innermost call goes on elsewhere.
LEMMA GoToIsOK ==
    ASSUME ClosedInv, stack # <<>>, NEW pc \in Points, stack' = GoTo(pc), closed' = closed,
           Top.fn \notin Called
    PROVE  DisposalsOK'
<1> DEFINE f == [Top EXCEPT !.pc = pc]
<1>1. Top \in Frame /\ Below \in Seq(Frame) /\ Settled(Below) /\ Len(stack) \in DOMAIN stack
  BY StackIsSeq, SettledStack, SettledBelow DEF ClosedInv
<1>2. f \in Frame /\ f.fn = Top.fn
  BY <1>1 DEF Frame
<1>3. stack' = Append(Below, f)
  BY DEF GoTo
<1>4. Top.fn \in Disposals => (closed <=> Top.fn # "reload")
  BY <1>1 DEF ClosedInv, DisposalsOK, DisposalOK, Top
<1> HIDE DEF f
<1> QED BY <1>1, <1>2, <1>3, <1>4, PushIsOK

LEMMA SameIsOK ==
    ASSUME ClosedInv, UNCHANGED <<stack, closed>>
    PROVE  DisposalsOK'
  BY DEF ClosedInv, DisposalsOK, DisposalOK

\* A stack that ends in a frame the owner makes, on a settled one.
LEMMA NewFrameIsOK ==
    ASSUME NEW s \in Seq(Frame), Settled(s), NEW fn \in (Loops \cup Bodies) \ Called,
           NEW pc \in Points, NEW c \in Owners
    PROVE  /\ NewFrame(fn, pc, c) \in Frame
           /\ Append(s, NewFrame(fn, pc, c)) \in Seq(Frame)
           /\ Settled(Append(s, NewFrame(fn, pc, c)))
<1>1. NewFrame(fn, pc, c) \in Frame
  BY NewFrameType
<1>2. NewFrame(fn, pc, c).fn = fn /\ fn \notin Disposals
  BY DEF NewFrame, Loops, Bodies, Disposals
<1> QED BY <1>1, <1>2, SettledAppend

LEMMA SettledGoTo ==
    ASSUME ClosedInv, stack # <<>>, Top.fn \notin Called \cup Disposals, NEW pc \in Points
    PROVE  GoTo(pc) \in Seq(Frame) /\ Settled(GoTo(pc))
<1> DEFINE f == [Top EXCEPT !.pc = pc]
<1>1. Top \in Frame /\ Below \in Seq(Frame) /\ Settled(Below)
  BY StackIsSeq, SettledStack DEF ClosedInv
<1>2. f \in Frame /\ f.fn = Top.fn
  BY <1>1 DEF Frame
<1> HIDE DEF f
<1>3. Append(Below, f) \in Seq(Frame) /\ Settled(Append(Below, f))
  BY <1>1, <1>2, SettledAppend
<1> QED BY <1>3 DEF GoTo, f

-------------------------------------------------------------------------------
\* handleCommand, at a settled stack.

LEMMA BeginDisposalIsOK ==
    ASSUME Inv, NEW s \in Seq(Frame), Settled(s), NEW fn \in Disposals, NEW c \in Owners,
           BeginDisposal(fn, c, s), closed' <=> fn # "reload"
    PROVE  DisposalsOK'
<1> DEFINE f == Disposal(fn, c)
<1>1. f \in Frame /\ f.fn = fn
  <2>1. NewFrame(fn, "resources", c) \in Frame
    BY NewFrameType DEF Points
  <2>2. Len(resources) \in Nat /\ state \in States
    BY DEF Inv, TypeOK, StackTypes, StateTypes
  <2> QED BY <2>1, <2>2 DEF Disposal, NewFrame, Frame
<1>2. stack' = Append(s, f)
  BY DEF BeginDisposal
<1>3. fn \notin Called
  BY DEF Disposals, Called
<1> HIDE DEF f
<1> QED BY <1>1, <1>2, <1>3, PushIsOK

LEMMA EnterRunIsOK ==
    ASSUME NEW s \in Seq(Frame), Settled(s), NEW c \in Owners, EnterRun(c, s)
    PROVE  DisposalsOK'
<1> DEFINE t == Append(s, NewFrame("run", "top", c))
<1>1. t \in Seq(Frame) /\ Settled(t) /\ NewFrame("run", "top", c) \in Frame
  BY NewFrameIsOK DEF Loops, Points, Called
<1>2. /\ Append(t, NewFrame("runTask", "body", c)) \in Seq(Frame)
      /\ Settled(Append(t, NewFrame("runTask", "body", c)))
      /\ NewFrame("runTask", "body", c) \in Frame
  <2> HIDE DEF t
  <2> QED BY <1>1, NewFrameIsOK DEF Bodies, Points, Called
<1>3. stack' = Append(t, NewFrame("runTask", "body", c))
  BY <1>1, <1>2 DEF EnterRun
<1> QED BY <1>2, <1>3, SettledIsOK

LEMMA ReceiveIsOK ==
    ASSUME ClosedInv, NEW s \in Seq(Frame), Settled(s), Receive(s)
    PROVE  DisposalsOK'
<1> DEFINE cmd == Head(commands)
<1>1. cmd \in Command /\ cmd.client \in Owners
  <2>1. commands \in Seq(Command) /\ commands # <<>>
    BY DEF Receive, ClosedInv, Inv, TypeOK, ChannelTypes
  <2>2. cmd \in Command
    BY <2>1
  <2> QED BY <2>2 DEF Command
<1>2. HandleCommand(cmd, s) /\ Inv
  BY DEF Receive, ClosedInv
<1> HIDE DEF cmd
<1>3. CASE stack' = s
  BY <1>3, SettledIsOK
<1>4. CASE stack' = Append(s, NewFrame("do", "body", cmd.client))
  <2>1. Append(s, NewFrame("do", "body", cmd.client)) \in Seq(Frame)
        /\ Settled(Append(s, NewFrame("do", "body", cmd.client)))
    BY <1>1, NewFrameIsOK DEF Bodies, Points, Called
  <2> QED BY <1>4, <2>1, SettledIsOK
<1>5. CASE EnterRun(cmd.client, s)
  BY <1>1, <1>5, EnterRunIsOK
<1>6. CASE HandleReload(cmd, s) /\ ~IsClosed
  BY <1>1, <1>2, <1>6, BeginDisposalIsOK DEF HandleReload, IsClosed, Disposals
<1>7. CASE HandleClose(cmd, s) /\ state # "Closed"
  BY <1>1, <1>2, <1>7, BeginDisposalIsOK DEF HandleClose, Disposals
<1> QED BY <1>2, <1>3, <1>4, <1>5, <1>6, <1>7
        DEF HandleCommand, HandleSchedule, HandleAddTimer, HandleStartStop, HandleDo,
            HandleRun, HandleRegisterResource, HandleReload, HandleClose

-------------------------------------------------------------------------------
\* The loops.

LEMMA LoopTop ==
    ASSUME ClosedInv, Running(Loops)
    PROVE  /\ Top.fn \notin Called \cup Disposals /\ stack # <<>>
           /\ Top \in Frame /\ Below \in Seq(Frame) /\ stack \in Seq(Frame)
           /\ Settled(stack) /\ Settled(Below)
           /\ \A pc \in Points : GoTo(pc) \in Seq(Frame) /\ Settled(GoTo(pc))
<1>1. Top.fn \notin Called \cup Disposals /\ stack # <<>>
  BY DEF Running, Loops, Called, Disposals
<1> QED BY <1>1, StackIsSeq, SettledStack, SettledGoTo DEF ClosedInv

\* The frame of the loop with another mark of progress.
LEMMA MarkedIsSettled ==
    ASSUME ClosedInv, Running(Loops), NEW f \in Frame, f.fn = Top.fn
    PROVE  Append(Below, f) \in Seq(Frame) /\ Settled(Append(Below, f))
  BY LoopTop, SettledAppend

LEMMA PumpingIsOK == ASSUME ClosedInv, Pumping PROVE DisposalsOK'
<1>1. Running(Loops)
  BY DEF Pumping, OwnerReceives, OwnerReturns, RunReturns, PumpOnce, DrainCommands, Drained,
         NotRunning, RunTask, FireDueTimer, RunJobs, JobsReturn, RunIsIdle, RunHasWork, WaitForWork,
         CanWork, At, Running, Loops
<1>2. /\ Top.fn \notin Called \cup Disposals /\ stack # <<>>
      /\ Top \in Frame /\ Below \in Seq(Frame) /\ stack \in Seq(Frame)
      /\ Settled(stack) /\ Settled(Below)
      /\ \A pc \in Points : GoTo(pc) \in Seq(Frame) /\ Settled(GoTo(pc))
  BY <1>1, LoopTop
<1>12. Progress \in Seq(Frame) /\ Settled(Progress)
  <2>1. PICK f \in Frame : Progress = Append(Below, f) /\ f.fn = Top.fn
    BY <1>2, ProgressFrame
  <2> QED BY <1>1, <2>1, MarkedIsSettled
<1>3. CASE OwnerReceives
  BY <1>2, <1>3, ReceiveIsOK DEF OwnerReceives
<1>4. CASE OwnerReturns
  BY <1>4 DEF OwnerReturns, DisposalsOK
<1>5. CASE RunReturns \/ RunIsIdle
  BY <1>2, <1>5, SettledIsOK DEF RunReturns, RunIsIdle
<1>6. CASE PumpOnce
  <2> DEFINE f == [Top EXCEPT !.pc = "drain", !.progressed = FALSE]
  <2>1. f \in Frame /\ f.fn = Top.fn
    BY <1>2 DEF Frame, Points
  <2>2. stack' = Append(Below, f)
    BY <1>6 DEF PumpOnce
  <2> HIDE DEF f
  <2> QED BY <1>1, <2>1, <2>2, MarkedIsSettled, SettledIsOK
<1>7. CASE DrainCommands
  <2> DEFINE f == [Top EXCEPT !.progressed = TRUE]
  <2>1. f \in Frame /\ f.fn = Top.fn
    BY <1>2 DEF Frame
  <2>2. Receive(Append(Below, f))
    BY <1>7 DEF DrainCommands
  <2> HIDE DEF f
  <2> QED BY <1>1, <2>1, <2>2, MarkedIsSettled, ReceiveIsOK
<1>8. CASE Drained \/ NotRunning \/ RunJobs \/ (\E more \in BOOLEAN : JobsReturn(more)) \/ RunHasWork
  <2>1. \E pc \in {"work", "jobs", "top", "check", "wait"} : stack' = GoTo(pc)
    BY <1>8 DEF Drained, NotRunning, RunJobs, JobsReturn, RunHasWork, MoveOn, PumpReturns
  <2>2. {"work", "jobs", "top", "check", "wait"} \subseteq Points
    BY DEF Points
  <2> QED BY <1>2, <2>1, <2>2, SettledIsOK
<1>9. CASE RunTask
  <2>1. "body" \in Points /\ "task" \in Bodies \ Called /\ None \in Owners
    BY DEF Points, Bodies, Called, Owners
  <2>2. /\ Append(Progress, NewFrame("task", "body", None)) \in Seq(Frame)
        /\ Settled(Append(Progress, NewFrame("task", "body", None)))
    BY <1>12, <2>1, NewFrameIsOK
  <2> QED BY <1>9, <2>2, SettledIsOK DEF RunTask
<1>10. CASE FireDueTimer
  <2>1. PICK e \in Due :
          \/ stack' = Progress
          \/ stack' = Append(Progress, [NewFrame("timer", "start", None) EXCEPT !.item = e])
    BY <1>10 DEF FireDueTimer
  <2>2. e \in Item
    BY KeptType DEF Due, Peek, ClosedInv, Inv, TypeOK, WorkTypes
  <2> DEFINE f == [NewFrame("timer", "start", None) EXCEPT !.item = e]
  <2>3. f \in Frame /\ f.fn = "timer"
    <3>1. NewFrame("timer", "start", None) \in Frame
      BY NewFrameType DEF Bodies, Points, Owners
    <3> QED BY <2>2, <3>1 DEF Frame, NewFrame
  <2> HIDE DEF f
  <2>4. Progress \in Seq(Frame) /\ Settled(Progress)
    BY <1>12
  <2>5. Append(Progress, f) \in Seq(Frame) /\ Settled(Append(Progress, f))
    BY <2>3, <2>4, SettledAppend DEF Called, Disposals
  <2> QED BY <2>1, <2>4, <2>5, SettledIsOK DEF f
<1>11. CASE WaitForWork
  <2>1. GoTo("top") \in Seq(Frame) /\ Settled(GoTo("top"))
    BY <1>2 DEF Points
  <2>2. CASE Receive(GoTo("top"))
    BY <2>1, <2>2, ReceiveIsOK
  <2>3. CASE stack' = GoTo("top")
    BY <2>1, <2>3, SettledIsOK
  <2> QED BY <1>11, <2>2, <2>3 DEF WaitForWork, MoveOn
<1> QED BY <1>3, <1>4, <1>5, <1>6, <1>7, <1>8, <1>9, <1>10, <1>11 DEF Pumping

-------------------------------------------------------------------------------
\* User code.

\* What a Reload calls makes no call that would reach this stack.
LEMMA CallerTop ==
    ASSUME ClosedInv, NEW op \in ReentrantOps, MayAct(op)
    PROVE  /\ Top.fn \notin Called \cup Disposals /\ stack # <<>>
           /\ stack \in Seq(Frame) /\ Settled(stack)
<1>1. stack # <<>> /\ Top.fn \in Bodies /\ Top.fn \notin Called
  BY NotReentrant DEF ClosedInv, MayAct, At, Running, Called
<1>2. Top.fn \notin Disposals
  BY <1>1 DEF Bodies, Disposals
<1> QED BY <1>1, <1>2, StackIsSeq, SettledStack DEF ClosedInv

LEMMA UserActsIsOK == ASSUME ClosedInv, UserActs PROVE DisposalsOK'
<1>1. ASSUME NEW op \in Ops, UserStartStop(op) PROVE DisposalsOK'
  BY <1>1, SameIsOK DEF UserStartStop
<1>2. ASSUME NEW op \in Ops, UserDo(op) PROVE DisposalsOK'
  <2>1. stack \in Seq(Frame) /\ Settled(stack)
    BY <1>2, CallerTop DEF UserDo, ReentrantOps, ContextCalls
  <2>2. PICK fn \in {"nestedDo", "nestedContext"} :
          stack' = Append(stack, NewFrame(fn, "body", None))
    BY <1>2 DEF UserDo
  <2>3. fn \in (Loops \cup Bodies) \ Called /\ "body" \in Points /\ None \in Owners
    BY DEF Bodies, Called, Points, Owners
  <2> QED BY <2>1, <2>2, <2>3, NewFrameIsOK, SettledIsOK
<1>3. ASSUME NEW op \in Ops, UserRun(op) PROVE DisposalsOK'
  <2>1. stack \in Seq(Frame) /\ Settled(stack)
    BY <1>3, CallerTop DEF UserRun, ReentrantOps, ContextCalls
  <2> QED BY <1>3, <2>1, EnterRunIsOK DEF UserRun, Owners
<1>4. ASSUME NEW op \in Ops, UserCallsItself(op) PROVE DisposalsOK'
  <2>1. Top.fn \notin Called /\ stack # <<>> /\ "stuck" \in Points
    BY <1>4, CallerTop DEF UserCallsItself, ReentrantOps, Points
  <2>2. stack' = GoTo("stuck") /\ closed' = closed
    BY <1>4 DEF UserCallsItself, MoveOn
  <2> QED BY <2>1, <2>2, GoToIsOK
<1>5. ASSUME NEW op \in Ops, NEW delay \in 0..1, UserEnqueue(op, delay) \/ JSAddTimer(op, delay)
      PROVE  DisposalsOK'
  BY <1>5, SameIsOK DEF UserEnqueue, JSAddTimer
<1>6. CASE ClearJSTimer \/ UserCancel \/ UserRegisterResource
  BY <1>6, SameIsOK DEF ClearJSTimer, UserCancel, UserRegisterResource
<1>7. CASE UserReload
  <2>1. stack \in Seq(Frame) /\ Settled(stack)
    BY <1>7, CallerTop DEF UserReload, ReentrantOps
  <2>2. BeginDisposal("reload", None, stack) /\ ~closed'
    BY <1>7 DEF UserReload, IsClosed
  <2> QED BY <2>1, <2>2, BeginDisposalIsOK DEF ClosedInv, Disposals, Owners
<1>8. CASE UserClose
  <2>1. Top.fn \notin Called /\ stack # <<>> /\ "once" \in Points
    BY <1>8, CallerTop DEF UserClose, ReentrantOps, Points
  <2>2. stack' = GoTo("once") /\ closed' = closed
    BY <1>8 DEF UserClose, MoveOn
  <2> QED BY <2>1, <2>2, GoToIsOK
<1> QED BY <1>1, <1>2, <1>3, <1>4, <1>5, <1>6, <1>7, <1>8 DEF UserActs

\* Nothing but its caller is below what a Reload calls.
LEMMA SettledUnderCalled ==
    ASSUME ClosedInv, stack # <<>>, Top.fn = "installer"
    PROVE  Settled(SubSeq(Below, 1, Len(Below) - 1)) /\ Below # <<>>
<1> DEFINE n == Len(stack)
           t == SubSeq(Below, 1, n - 2)
<1>1. n \in Nat /\ n > 1
  <2>1. Len(stack) \in Nat /\ Len(stack) \in DOMAIN stack
    BY StackIsSeq DEF ClosedInv
  <2>2. FrameOK(Len(stack))
    BY <2>1 DEF ClosedInv, Inv, StackOK
  <2> QED BY <2>1, <2>2 DEF FrameOK, Top
<1>2. /\ Below \in Seq(Frame) /\ Len(Below) = n - 1 /\ DOMAIN stack = 1..n
      /\ \A i \in 1..n - 1 : Below[i] = stack[i]
  BY StackIsSeq DEF ClosedInv
<1> HIDE DEF n
<1>3. DOMAIN t = 1..n - 2 /\ \A i \in 1..n - 2 : t[i] = stack[i]
  BY <1>1, <1>2
<1>4. ASSUME NEW i \in 1..n - 2 PROVE stack[i].fn \notin Called \cup Disposals
  <2>1. i \in DOMAIN stack /\ i # n /\ i # n - 1
    BY <1>1, <1>2
  <2>2. DisposalOK(i)
    BY <2>1 DEF ClosedInv, DisposalsOK
  <2> QED BY <2>1, <2>2 DEF DisposalOK, n
<1>5. Settled(t)
  BY <1>3, <1>4 DEF Settled
<1>6. t = SubSeq(Below, 1, Len(Below) - 1) /\ Below # <<>>
  <2>1. Len(Below) - 1 = n - 2
    BY <1>1, <1>2
  <2> QED BY <1>1, <1>2, <2>1
<1> QED BY <1>5, <1>6

LEMMA FailReloadIsOK ==
    ASSUME Inv, NEW s \in Seq(Frame), s # <<>>, Settled(SubSeq(s, 1, Len(s) - 1)), FailReload(s)
    PROVE  DisposalsOK'
<1> DEFINE f == [s[Len(s)] EXCEPT !.fn = "failedReload", !.pc = "resources",
                                  !.idx = Len(resources)]
           t == SubSeq(s, 1, Len(s) - 1)
<1>1. s[Len(s)] \in Frame /\ t \in Seq(Frame)
  OBVIOUS
<1>2. f \in Frame /\ f.fn = "failedReload"
  <2>1. Len(resources) \in Nat
    BY DEF Inv, TypeOK, StackTypes
  <2> QED BY <1>1, <2>1 DEF Frame, Disposals, Points
<1>3. stack' = Append(t, f)
  BY DEF FailReload
<1> HIDE DEF f, t
<1>4. Settled(t)
  BY DEF t
<1>5. closed' = TRUE /\ "failedReload" \notin Called
  BY DEF FailReload, Called
<1> QED BY <1>1, <1>2, <1>3, <1>4, <1>5, PushIsOK

LEMMA UserReturnsIsOK == ASSUME ClosedInv, UserReturns PROVE DisposalsOK'
<1>1. CASE UserCloseOnce
  <2>1. stack # <<>> /\ Top.fn \in Bodies /\ Top.pc = "once"
    BY <1>1 DEF UserCloseOnce, At, Running
  <2>2. Top.fn \notin Called \cup Disposals
    <3>1. Len(stack) \in DOMAIN stack
      BY <2>1, StackIsSeq DEF ClosedInv
    <3>2. DisposalOK(Len(stack))
      BY <3>1 DEF ClosedInv, DisposalsOK
    <3> QED BY <2>1, <3>2 DEF DisposalOK, Top, Bodies, Disposals
  <2>3. "body" \in Points /\ "stuck" \in Points
    BY DEF Points
  <2>4. CASE closeOnce = "free" /\ IsOwner
    <3>1. BeginDisposal("close", None, GoTo("body"))
      BY <1>1, <2>4 DEF UserCloseOnce
    <3>2. GoTo("body") \in Seq(Frame) /\ Settled(GoTo("body"))
      BY <2>1, <2>2, <2>3, SettledGoTo
    <3>3. closed' = TRUE
      BY <1>1, <2>4 DEF UserCloseOnce
    <3> QED BY <3>1, <3>2, <3>3, BeginDisposalIsOK DEF ClosedInv, Disposals, Owners
  <2>5. CASE ~(closeOnce = "free" /\ IsOwner)
    <3>1. (\E pc \in {"body", "stuck"} : stack' = GoTo(pc)) /\ closed' = closed
      BY <1>1, <2>5 DEF UserCloseOnce, MoveOn
    <3> QED BY <2>1, <2>2, <2>3, <3>1, GoToIsOK
  <2> QED BY <2>4, <2>5
<1>2. CASE StartTimer
  <2>1. stack # <<>> /\ Top.fn \notin Called
    BY <1>2 DEF StartTimer, At, Running, Called
  <2>2. (\E pc \in {"finish", "body"} : stack' = GoTo(pc)) /\ closed' = closed
    BY <1>2 DEF StartTimer, MoveOn
  <2>3. {"finish", "body"} \subseteq Points
    BY DEF Points
  <2> QED BY <2>1, <2>2, <2>3, GoToIsOK
<1>3. CASE TimerReturns \/ BodyReturns
  <2>1. stack # <<>> /\ stack' = Below /\ closed' = closed
    BY <1>3 DEF TimerReturns, BodyReturns, At, Running
  <2> QED BY <2>1, ReturnIsOK
<1>4. ASSUME NEW err \in TaskErrors, RunTaskReturns(err) PROVE DisposalsOK'
  <2>1. stack # <<>> /\ Top.fn \notin Called \cup Disposals /\ closed' = closed
    BY <1>4 DEF RunTaskReturns, At, Running, Called, Disposals
  <2>2. CASE stack' = Below
    BY <2>1, <2>2, ReturnIsOK
  <2>3. CASE stack' = SubSeq(stack, 1, Len(stack) - 2)
    <3>1. stack \in Seq(Frame) /\ Settled(stack) /\ Len(stack) \in Nat /\ Len(stack) > 0
          /\ DOMAIN stack = 1..Len(stack)
      BY <2>1, StackIsSeq, SettledStack DEF ClosedInv
    <3>2. /\ stack' \in Seq(Frame) /\ DOMAIN stack' = 1..Len(stack) - 2
          /\ \A i \in 1..Len(stack) - 2 : stack'[i] = stack[i] /\ i \in DOMAIN stack
      BY <2>3, <3>1
    <3>3. Settled(stack')
      BY <3>1, <3>2 DEF Settled
    <3> QED BY <3>2, <3>3, SettledIsOK
  <2> QED BY <1>4, <2>2, <2>3 DEF RunTaskReturns
<1>5. ASSUME NEW err \in BOOLEAN, InstallerReturns(err) PROVE DisposalsOK'
  <2>1. stack # <<>> /\ Top.fn = "installer"
    BY <1>5 DEF InstallerReturns, At, Running
  <2>2. CASE err
    <3>1. FailReload(Below)
      BY <1>5, <2>2 DEF InstallerReturns
    <3>2. Below \in Seq(Frame)
      BY <2>1, StackIsSeq DEF ClosedInv
    <3> QED BY <2>1, <3>1, <3>2, SettledUnderCalled, FailReloadIsOK DEF ClosedInv
  <2>3. CASE ~err
    <3>1. stack' = Below /\ closed' = closed
      BY <1>5, <2>3 DEF InstallerReturns
    <3> QED BY <2>1, <3>1, ReturnIsOK
  <2> QED BY <2>2, <2>3
<1> QED BY <1>1, <1>2, <1>3, <1>4, <1>5 DEF UserReturns

-------------------------------------------------------------------------------
\* Disposals.

LEMMA DisposingIsOK == ASSUME ClosedInv, Disposing PROVE DisposalsOK'
<1>1. /\ stack # <<>> /\ Top.fn \in Disposals /\ Top.fn \notin Called
  BY DEF Disposing, CloseResource, DisposeContext, InitializeGeneration, ReloadReturns,
         CloseFinishes, At, Running, Disposals, Called
<1>2. Top \in Frame /\ Below \in Seq(Frame) /\ stack \in Seq(Frame) /\ Settled(Below)
  BY <1>1, StackIsSeq, SettledStack, SettledBelow DEF ClosedInv
<1>3. closed <=> Top.fn # "reload"
  <2>1. Len(stack) \in DOMAIN stack
    BY <1>1, StackIsSeq DEF ClosedInv
  <2> QED BY <1>1, <2>1 DEF ClosedInv, DisposalsOK, DisposalOK, Top
<1>4. CASE CloseResource
  <2> DEFINE f == [Top EXCEPT !.idx = @ - 1]
             g == NewFrame("resource", "body", None)
  <2>1. f \in Frame /\ f.fn = Top.fn
    <3>1. Top.idx \in Nat /\ Top.idx > 0
      BY <1>2, <1>4 DEF CloseResource, Frame
    <3>2. Top \in Frame /\ Top.idx - 1 \in Nat
      BY <1>2, <3>1
    <3> QED BY <3>2 DEF Frame
  <2>2. g \in Frame /\ g.fn = "resource" /\ g.pc = "body"
    <3>1. g \in Frame
      BY NewFrameType DEF Bodies, Points, Owners
    <3> QED BY <3>1 DEF NewFrame
  <2>3. stack' = Append(Append(Below, f), g) /\ closed' = closed
    BY <1>4 DEF CloseResource
  <2> HIDE DEF f, g
  <2> QED BY <1>1, <1>2, <1>3, <2>1, <2>2, <2>3, CallIsOK DEF Called
<1>5. CASE DisposeContext
  <2>1. (\E pc \in {"init", "finish"} : stack' = GoTo(pc)) /\ closed' = closed
    BY <1>5 DEF DisposeContext, MoveOn
  <2>2. {"init", "finish"} \subseteq Points
    BY DEF Points
  <2> QED BY <1>1, <2>1, <2>2, GoToIsOK
<1>6. CASE InitializeGeneration
  <2>1. Top.fn = "reload"
    BY <1>6 DEF InitializeGeneration, At, Running
  <2>2. CASE FailReload(stack)
    BY <1>1, <1>2, <2>2, FailReloadIsOK DEF ClosedInv, Below
  <2>3. CASE /\ stack' = Append(GoTo("finish"), NewFrame("installer", "body", None))
             /\ closed' = closed
    <3> DEFINE f == [Top EXCEPT !.pc = "finish"]
               g == NewFrame("installer", "body", None)
    <3>1. f \in Frame /\ f.fn = "reload"
      BY <1>2, <2>1 DEF Frame, Points
    <3>2. g \in Frame /\ g.fn = "installer" /\ g.pc = "body"
      <4>1. g \in Frame
        BY NewFrameType DEF Bodies, Points, Owners
      <4> QED BY <4>1 DEF NewFrame
    <3>3. stack' = Append(Append(Below, f), g)
      BY <2>3 DEF GoTo
    <3> HIDE DEF f, g
    <3> QED BY <1>2, <1>3, <2>1, <2>3, <3>1, <3>2, <3>3, CallIsOK DEF Called
  <2> QED BY <1>6, <2>2, <2>3 DEF InitializeGeneration
<1>7. CASE ReloadReturns
  <2>1. stack' = Below
    BY <1>7 DEF ReloadReturns
  <2> QED BY <1>2, <2>1, SettledIsOK
<1>8. CASE CloseFinishes
  <2>1. stack' = Below
    BY <1>8 DEF CloseFinishes
  <2> QED BY <1>2, <2>1, SettledIsOK
<1> QED BY <1>4, <1>5, <1>6, <1>7, <1>8 DEF Disposing

-------------------------------------------------------------------------------
\* Every step.

LEMMA ClosedInvHolds == Spec => []ClosedInv
<1>1. Init => DisposalsOK
  BY DEF Init, DisposalsOK, DisposalOK, NewFrame, Called, Disposals
<1>2. ClosedInv /\ [Next]_vars => DisposalsOK'
  <2> SUFFICES ASSUME ClosedInv, [Next]_vars PROVE DisposalsOK'
    OBVIOUS
  <2>1. CASE Owner
    BY <2>1, PumpingIsOK, UserActsIsOK, UserReturnsIsOK, DisposingIsOK DEF Owner
  <2>2. CASE Tick \/ Quiet \/ UNCHANGED vars
    BY <2>2, SameIsOK DEF Tick, Quiet, vars
  <2>3. CASE \E c \in Clients : Caller(c) \/ Client(c)
    <3>1. UNCHANGED <<stack, closed>>
      BY <2>3 DEF Caller, Client, BeginCall, BeginEnqueue, CancelTimer, BeginClose, Send, Await,
                  Enqueue, CloseOnce, CloseReturns
    <3> QED BY <3>1, SameIsOK
  <2> QED BY <2>1, <2>2, <2>3 DEF Next
<1>3. Inv /\ DisposalsOK <=> ClosedInv
  BY DEF ClosedInv
<1> QED BY <1>1, <1>2, <1>3, InvariantHolds, PTL DEF Spec

\* A step of a closed loop.
LEMMA ClosedStep ==
    ASSUME ClosedInv, closed, [Next]_vars
    PROVE  closed' /\ (ctx = 0 => ctx' = 0)
<1>1. ~At({"reload"}, "init") /\ ~At({"reload"}, "finish")
  <2>1. ASSUME stack # <<>> PROVE Top.fn # "reload"
    <3>1. Len(stack) \in DOMAIN stack
      BY <2>1, StackIsSeq DEF ClosedInv
    <3> QED BY <3>1 DEF ClosedInv, DisposalsOK, DisposalOK, Top, Disposals
  <2> QED BY <2>1 DEF At, Running
<1>2. CASE Owner
  <2>1. CASE Pumping
    <3>1. ASSUME NEW s, Receive(s) PROVE closed' /\ ctx' = ctx
      BY <3>1 DEF Receive, HandleCommand, HandleSchedule, HandleAddTimer, HandleStartStop,
             HandleDo, HandleRun, EnterRun, HandleRegisterResource, HandleReload, HandleClose,
             BeginDisposal
    <3> QED BY <2>1, <3>1
            DEF Pumping, OwnerReceives, OwnerReturns, RunReturns, PumpOnce, DrainCommands,
                Drained, NotRunning, RunTask, FireDueTimer, RunJobs, JobsReturn, RunIsIdle, RunHasWork,
                WaitForWork, OnlyStack
  <2>2. CASE UserActs
    BY <2>2 DEF UserActs, UserStartStop, UserDo, UserRun, UserCallsItself, UserEnqueue, JSAddTimer,
                ClearJSTimer, UserCancel, UserRegisterResource, UserReload, UserClose,
                BeginDisposal
  <2>3. CASE UserReturns
    BY <2>3 DEF UserReturns, UserCloseOnce, StartTimer, TimerReturns, BodyReturns,
                RunTaskReturns, InstallerReturns, FailReload, BeginDisposal
  <2>4. CASE Disposing
    BY <1>1, <2>4 DEF Disposing, CloseResource, DisposeContext, InitializeGeneration,
                      ReloadReturns, CloseFinishes, At, Running
  <2> QED BY <1>2, <2>1, <2>2, <2>3, <2>4 DEF Owner
<1>3. CASE ~Owner
  <2>1. ASSUME NEW c \in Clients, Caller(c) PROVE UNCHANGED <<closed, ctx>>
    BY <2>1 DEF Caller, BeginCall, BeginEnqueue, CancelTimer, BeginClose
  <2>2. ASSUME NEW c \in Clients, Client(c) PROVE UNCHANGED <<closed, ctx>>
    BY <2>2 DEF Client, Send, Await, Enqueue, CloseOnce, CloseReturns
  <2>3. ASSUME Tick \/ Quiet \/ UNCHANGED vars PROVE UNCHANGED <<closed, ctx>>
    BY <2>3 DEF Tick, Quiet, vars
  <2> QED BY <1>3, <2>1, <2>2, <2>3 DEF Next
<1> QED BY <1>2, <1>3

\* Closing is final (closeOnOwner, reloadOnOwner): whatever Reload, Run or Close was
\* under way or waits in the channel, a closed loop is never opened again and
\* makes no new context.
THEOREM ClosedIsForever == Spec => ClosedForever
<1>1. ClosedInv /\ [Next]_vars => [closed => closed' /\ (ctx = 0 => ctx' = 0)]_vars
  BY ClosedStep
<1> QED BY <1>1, ClosedInvHolds, PTL DEF Spec, ClosedForever

-------------------------------------------------------------------------------
\* A stack serves a client when a frame of it is to reply to that client.
Serves(s, c) == \E k \in DOMAIN s : s[k].client = c

\* Two frames serve the same client only if they are a Run and its task; and only
\* a Reload calls an installer.
RunsOK(s) ==
    /\ \A k, m \in DOMAIN s :
         k < m /\ s[k].client = s[m].client /\ s[k].client # None =>
           m = k + 1 /\ s[k].fn = "run" /\ s[m].fn = "runTask"
    /\ \A m \in DOMAIN s : s[m].fn = "runTask" =>
         m - 1 \in DOMAIN s /\ s[m - 1].fn = "run" /\ s[m - 1].client = s[m].client
    /\ \A m \in DOMAIN s : s[m].fn = "installer" =>
         m - 1 \in DOMAIN s /\ s[m - 1].fn \in Disposals

\* A command that wants a reply is in the channel once at most.
Sent(q, c) == \E i \in DOMAIN q : q[i].client = c /\ q[i].op \notin Enqueues
SentOnce(q) ==
    \A i, j \in DOMAIN q :
      q[i].client = q[j].client /\ q[i].client # None
        /\ q[i].op \notin Enqueues /\ q[j].op \notin Enqueues => i = j

Waits4Reply(c) == cl[c].pc = "await" /\ reply[c] = "none"
ToSend(c) == cl[c].pc = "once" \/ (cl[c].pc = "send" /\ cl[c].op \notin Enqueues)

CallOK(c) ==
    /\ Serves(stack, c) \/ Sent(commands, c) => Waits4Reply(c)
    /\ ~(Serves(stack, c) /\ Sent(commands, c))
    /\ ToSend(c) => reply[c] = "none"

CallsOK ==
    IF done THEN stack = <<>>
    ELSE RunsOK(stack) /\ SentOnce(commands) /\ \A c \in Clients : CallOK(c)

\* The inductive invariant.
CallsInv == Inv /\ CallsOK

-------------------------------------------------------------------------------
\* Stacks and channels.

LEMMA SeqFacts ==
    ASSUME Inv
    PROVE  /\ stack \in Seq(Frame) /\ Len(stack) \in Nat /\ DOMAIN stack = 1..Len(stack)
           /\ commands \in Seq(Command)
           /\ cl \in [Clients -> CallState] /\ reply \in [Clients -> Results]
           /\ stack # <<>> => /\ Len(stack) > 0 /\ Top \in Frame /\ Below \in Seq(Frame)
                              /\ Len(Below) = Len(stack) - 1
                              /\ DOMAIN Below = 1..Len(stack) - 1
                              /\ \A i \in 1..Len(stack) - 1 : Below[i] = stack[i]
<1>1. /\ stack \in Seq(Frame) /\ Len(stack) \in Nat /\ DOMAIN stack = 1..Len(stack)
      /\ commands \in Seq(Command)
      /\ cl \in [Clients -> CallState] /\ reply \in [Clients -> Results]
  BY DEF Inv, TypeOK, StackTypes, ChannelTypes, ClientTypes
<1>2. ASSUME stack # <<>>
      PROVE  /\ Len(stack) > 0 /\ Top \in Frame /\ Below \in Seq(Frame)
             /\ Len(Below) = Len(stack) - 1 /\ DOMAIN Below = 1..Len(stack) - 1
  BY <1>1, <1>2 DEF Top, Below
<1>3. ASSUME stack # <<>>, NEW i \in 1..Len(stack) - 1 PROVE Below[i] = stack[i]
  BY <1>1, <1>3 DEF Below
<1> QED BY <1>1, <1>2, <1>3

\* Another point, or other locals, in the frames of a stack.
Like(s, t) ==
    /\ DOMAIN s = DOMAIN t
    /\ \A k \in DOMAIN t : /\ s[k].client = t[k].client
                           /\ s[k].fn = t[k].fn \/ {s[k].fn, t[k].fn} \subseteq Disposals

LEMMA LikeServes ==
    ASSUME NEW s, NEW t, Like(s, t), RunsOK(t)
    PROVE  RunsOK(s) /\ \A c : Serves(s, c) <=> Serves(t, c)
<1>1. \A c : Serves(s, c) <=> Serves(t, c)
  BY DEF Like, Serves
<1>2. \A k \in DOMAIN t : /\ t[k].fn = "run" => s[k].fn = "run"
                          /\ s[k].fn = "runTask" <=> t[k].fn = "runTask"
                          /\ s[k].fn = "installer" <=> t[k].fn = "installer"
                          /\ t[k].fn \in Disposals => s[k].fn \in Disposals
  BY DEF Like, Disposals
<1> QED BY <1>1, <1>2 DEF Like, RunsOK

LEMMA PushServes ==
    ASSUME NEW s \in Seq(Frame), RunsOK(s), NEW f \in Frame, f.fn # "runTask",
           f.client # None => ~Serves(s, f.client),
           f.fn = "installer" => s # <<>> /\ s[Len(s)].fn \in Disposals
    PROVE  /\ Append(s, f) \in Seq(Frame) /\ RunsOK(Append(s, f))
           /\ \A c : Serves(Append(s, f), c) <=> Serves(s, c) \/ c = f.client
<1> DEFINE t == Append(s, f)
           n == Len(s)
<1>1. /\ n \in Nat /\ DOMAIN s = 1..n /\ t \in Seq(Frame) /\ DOMAIN t = 1..n + 1
      /\ t[n + 1] = f /\ \A i \in 1..n : t[i] = s[i]
  OBVIOUS
<1> HIDE DEF t, n
<1>2. \A c : Serves(t, c) <=> Serves(s, c) \/ c = f.client
  BY <1>1 DEF Serves
<1>3. ASSUME NEW k \in DOMAIN t, NEW m \in DOMAIN t, k < m, t[k].client = t[m].client,
             t[k].client # None
      PROVE  m = k + 1 /\ t[k].fn = "run" /\ t[m].fn = "runTask"
  <2>1. k \in 1..n
    BY <1>1, <1>3
  <2>2. m \in 1..n
    BY <1>1, <1>3, <2>1 DEF Serves
  <2> QED BY <1>1, <1>3, <2>1, <2>2 DEF RunsOK
<1>4. ASSUME NEW m \in DOMAIN t, t[m].fn = "runTask"
      PROVE  m - 1 \in DOMAIN t /\ t[m - 1].fn = "run" /\ t[m - 1].client = t[m].client
  <2>1. m \in 1..n
    BY <1>1, <1>4
  <2>2. m - 1 \in 1..n /\ s[m - 1].fn = "run" /\ s[m - 1].client = s[m].client
    BY <1>1, <1>4, <2>1 DEF RunsOK
  <2> QED BY <1>1, <2>1, <2>2
<1>5. ASSUME NEW m \in DOMAIN t, t[m].fn = "installer"
      PROVE  m - 1 \in DOMAIN t /\ t[m - 1].fn \in Disposals
  <2>1. CASE m \in 1..n
    <3>1. m - 1 \in 1..n /\ s[m - 1].fn \in Disposals
      BY <1>1, <1>5, <2>1 DEF RunsOK
    <3> QED BY <1>1, <3>1
  <2>2. CASE m \notin 1..n
    <3>1. m = n + 1 /\ s # <<>> /\ s[n].fn \in Disposals
      BY <1>1, <1>5, <2>2 DEF n
    <3>2. n \in 1..n
      BY <1>1, <3>1 DEF n
    <3> QED BY <1>1, <3>1, <3>2
  <2> QED BY <2>1, <2>2
<1>6. RunsOK(t)
  BY <1>3, <1>4, <1>5 DEF RunsOK
<1> QED BY <1>1, <1>2, <1>6 DEF t

\* A Run and its task.
LEMMA PushRunServes ==
    ASSUME NEW s \in Seq(Frame), RunsOK(s), NEW f \in Frame, NEW g \in Frame,
           f.fn = "run", g.fn = "runTask", f.client = g.client,
           f.client # None => ~Serves(s, f.client)
    PROVE  /\ RunsOK(Append(Append(s, f), g))
           /\ \A c : Serves(Append(Append(s, f), g), c) <=> Serves(s, c) \/ c = f.client
<1> DEFINE t == Append(Append(s, f), g)
           n == Len(s)
<1>1. /\ n \in Nat /\ DOMAIN s = 1..n /\ t \in Seq(Frame) /\ DOMAIN t = 1..n + 2
      /\ t[n + 1] = f /\ t[n + 2] = g /\ \A i \in 1..n : t[i] = s[i]
  OBVIOUS
<1> HIDE DEF t, n
<1>2. \A c : Serves(t, c) <=> Serves(s, c) \/ c = f.client
  BY <1>1 DEF Serves
<1>3. ASSUME NEW k \in DOMAIN t, NEW m \in DOMAIN t, k < m, t[k].client = t[m].client,
             t[k].client # None
      PROVE  m = k + 1 /\ t[k].fn = "run" /\ t[m].fn = "runTask"
  <2>1. CASE m \in 1..n
    <3>1. k \in 1..n
      BY <1>1, <1>3, <2>1
    <3> QED BY <1>1, <1>3, <2>1, <3>1 DEF RunsOK
  <2>2. CASE m \notin 1..n
    <3>1. t[m].client = f.client /\ (m = n + 1 \/ m = n + 2)
      BY <1>1, <2>2
    <3>2. k \notin 1..n
      BY <1>1, <1>3, <3>1 DEF Serves
    <3>3. k = n + 1 /\ m = n + 2
      BY <1>1, <1>3, <3>1, <3>2
    <3> QED BY <1>1, <3>3
  <2> QED BY <2>1, <2>2
<1>4. ASSUME NEW m \in DOMAIN t, t[m].fn = "runTask"
      PROVE  m - 1 \in DOMAIN t /\ t[m - 1].fn = "run" /\ t[m - 1].client = t[m].client
  <2>1. CASE m \in 1..n
    <3>1. m - 1 \in 1..n /\ s[m - 1].fn = "run" /\ s[m - 1].client = s[m].client
      BY <1>1, <1>4, <2>1 DEF RunsOK
    <3> QED BY <1>1, <2>1, <3>1
  <2>2. CASE m \notin 1..n
    <3>1. m = n + 2
      BY <1>1, <1>4, <2>2
    <3> QED BY <1>1, <3>1
  <2> QED BY <2>1, <2>2
<1>5. ASSUME NEW m \in DOMAIN t, t[m].fn = "installer"
      PROVE  m - 1 \in DOMAIN t /\ t[m - 1].fn \in Disposals
  <2>1. m \in 1..n
    BY <1>1, <1>5
  <2>2. m - 1 \in 1..n /\ s[m - 1].fn \in Disposals
    BY <1>1, <1>5, <2>1 DEF RunsOK
  <2> QED BY <1>1, <2>2
<1>6. RunsOK(t)
  BY <1>3, <1>4, <1>5 DEF RunsOK
<1> QED BY <1>2, <1>6 DEF t

\* The innermost call, or the two of a Run, return.
LEMMA PrefixServes ==
    ASSUME NEW s \in Seq(Frame), RunsOK(s), NEW n \in Nat, n <= Len(s)
    PROVE  /\ RunsOK(SubSeq(s, 1, n))
           /\ \A c : Serves(SubSeq(s, 1, n), c) => Serves(s, c)
<1> DEFINE t == SubSeq(s, 1, n)
<1>1. Len(s) \in Nat /\ DOMAIN s = 1..Len(s) /\ DOMAIN t = 1..n /\ \A i \in 1..n : t[i] = s[i]
  OBVIOUS
<1> HIDE DEF t
<1>2. \A c : Serves(t, c) => Serves(s, c)
  BY <1>1 DEF Serves
<1>3. ASSUME NEW m \in 1..n, t[m].fn = "runTask"
      PROVE  m - 1 \in 1..n /\ t[m - 1].fn = "run" /\ t[m - 1].client = t[m].client
  <2>1. m - 1 \in DOMAIN s /\ s[m - 1].fn = "run" /\ s[m - 1].client = s[m].client
    BY <1>1, <1>3 DEF RunsOK
  <2> QED BY <1>1, <1>3, <2>1
<1>4. ASSUME NEW m \in 1..n, t[m].fn = "installer"
      PROVE  m - 1 \in 1..n /\ t[m - 1].fn \in Disposals
  <2>1. m \in DOMAIN s /\ s[m].fn = "installer"
    BY <1>1, <1>4
  <2>2. m - 1 \in DOMAIN s /\ s[m - 1].fn \in Disposals
    BY <2>1 DEF RunsOK
  <2> QED BY <1>1, <1>4, <2>2
<1>5. RunsOK(t)
  BY <1>1, <1>3, <1>4 DEF RunsOK
<1> QED BY <1>1, <1>2, <1>5 DEF t

\* Another innermost frame, that serves the same client.
LEMMA LikeTop ==
    ASSUME NEW s \in Seq(Frame), s # <<>>, NEW f \in Frame, f.client = s[Len(s)].client,
           f.fn = s[Len(s)].fn \/ {f.fn, s[Len(s)].fn} \subseteq Disposals
    PROVE  Like(Append(SubSeq(s, 1, Len(s) - 1), f), s)
           /\ Append(SubSeq(s, 1, Len(s) - 1), f) \in Seq(Frame)
<1> DEFINE t == Append(SubSeq(s, 1, Len(s) - 1), f)
           n == Len(s)
           u == SubSeq(s, 1, n - 1)
<1>1. /\ n \in Nat /\ n > 0 /\ DOMAIN s = 1..n /\ u \in Seq(Frame) /\ Len(u) = n - 1
      /\ \A i \in 1..n - 1 : u[i] = s[i]
  <2>1. n \in Nat /\ n > 0 /\ DOMAIN s = 1..n
    OBVIOUS
  <2>2. u \in Seq(Frame) /\ Len(u) = n - 1
    BY <2>1
  <2>3. \A i \in 1..n - 1 : u[i] = s[i]
    BY <2>1
  <2> QED BY <2>1, <2>2, <2>3
<1>2. t = Append(u, f)
  OBVIOUS
<1> HIDE DEF t, n, u
<1>3. /\ n \in Nat /\ n > 0 /\ DOMAIN s = 1..n /\ t \in Seq(Frame) /\ DOMAIN t = 1..n
      /\ t[n] = f /\ \A i \in 1..n - 1 : t[i] = s[i]
  BY <1>1, <1>2
<1>4. ASSUME NEW k \in 1..n
      PROVE  /\ s[k].client = t[k].client
             /\ t[k].fn = s[k].fn \/ {t[k].fn, s[k].fn} \subseteq Disposals
  <2>1. k = n \/ k \in 1..n - 1
    BY <1>3
  <2> QED BY <1>3, <2>1 DEF n
<1>5. Like(t, s)
  BY <1>3, <1>4 DEF Like
<1> QED BY <1>3, <1>5 DEF t, n

LEMMA LikeItself == ASSUME NEW s PROVE Like(s, s)
  BY DEF Like

\* Once the innermost call has returned, nothing serves its client any more.
LEMMA PopServes ==
    ASSUME CallsInv, ~done, stack # <<>>, Top.client # None
    PROVE  /\ Top.fn # "runTask" => ~Serves(Below, Top.client)
           /\ Top.fn = "runTask" => ~Serves(SubSeq(stack, 1, Len(stack) - 2), Top.client)
<1> DEFINE n == Len(stack)
<1>1. /\ stack \in Seq(Frame) /\ n \in Nat /\ n > 0 /\ DOMAIN stack = 1..n
      /\ DOMAIN Below = 1..n - 1 /\ (\A i \in 1..n - 1 : Below[i] = stack[i])
      /\ RunsOK(stack)
  BY SeqFacts DEF CallsInv, CallsOK
<1>2. ASSUME NEW k \in 1..n - 1, stack[k].client = Top.client
      PROVE  k = n - 1 /\ Top.fn = "runTask"
  <2>1. k \in DOMAIN stack /\ n \in DOMAIN stack /\ k < n
    BY <1>1
  <2>2. n = k + 1 /\ stack[n].fn = "runTask"
    BY <1>1, <1>2, <2>1 DEF RunsOK, Top
  <2> QED BY <1>1, <2>2 DEF Top
<1>3. ASSUME Top.fn # "runTask" PROVE ~Serves(Below, Top.client)
  BY <1>1, <1>2, <1>3 DEF Serves
<1>4. ~Serves(SubSeq(stack, 1, n - 2), Top.client)
  <2>1. n = 1 \/ n - 2 \in Nat
    BY <1>1
  <2>2. DOMAIN SubSeq(stack, 1, n - 2) = 1..n - 2
        /\ \A i \in 1..n - 2 : SubSeq(stack, 1, n - 2)[i] = stack[i]
    BY <1>1
  <2>3. ASSUME NEW i \in 1..n - 2 PROVE stack[i].client # Top.client
    <3> HIDE DEF n
    <3>1. i \in 1..n - 1 /\ i # n - 1
      BY <1>1
    <3> QED BY <1>2, <3>1
  <2> QED BY <2>2, <2>3 DEF Serves
<1> QED BY <1>3, <1>4

-------------------------------------------------------------------------------
\* The owner's steps: nothing new is asked of it, and it replies to a client when
\* it is through with its call.
Pending(c) == Serves(stack, c) \/ Sent(commands, c)

LEMMA OwnerCallsOK ==
    ASSUME CallsInv, ~done, ~done', cl' = cl, RunsOK(stack'), SentOnce(commands'),
           \A c \in Clients :
             /\ Serves(stack', c) \/ Sent(commands', c) => Pending(c)
             /\ ~(Serves(stack', c) /\ Sent(commands', c))
             /\ reply'[c] # reply[c] =>
                  Pending(c) /\ ~(Serves(stack', c) \/ Sent(commands', c))
    PROVE  CallsOK'
<1>1. ASSUME NEW c \in Clients PROVE CallOK(c)'
  <2>1. CallOK(c)
    BY DEF CallsInv, CallsOK
  <2>2. ASSUME Serves(stack', c) \/ Sent(commands', c) PROVE Waits4Reply(c)'
    BY <2>1, <2>2 DEF CallOK, Pending, Waits4Reply
  <2>3. ASSUME ToSend(c)' PROVE reply'[c] = "none"
    <3>1. ToSend(c) /\ ~Waits4Reply(c)
      BY <2>3 DEF ToSend, Waits4Reply
    <3> QED BY <2>1, <3>1 DEF CallOK, Pending
  <2> QED BY <2>2, <2>3 DEF CallOK
<1> QED BY <1>1 DEF CallsOK

\* No call ends and none begins.
LEMMA StackCallsOK ==
    ASSUME CallsInv, ~done, ~done', UNCHANGED <<commands, cl, reply>>, RunsOK(stack'),
           \A c \in Clients : Serves(stack', c) => Serves(stack, c)
    PROVE  CallsOK'
<1>1. \A c \in Clients : ~(Serves(stack, c) /\ Sent(commands, c))
  BY DEF CallsInv, CallsOK, CallOK
<1>2. SentOnce(commands)
  BY DEF CallsInv, CallsOK
<1> QED BY <1>1, <1>2, OwnerCallsOK DEF Pending

LEMMA LikeCallsOK ==
    ASSUME CallsInv, ~done, ~done', UNCHANGED <<commands, cl, reply>>, Like(stack', stack)
    PROVE  CallsOK'
<1>1. RunsOK(stack)
  BY DEF CallsInv, CallsOK
<1>2. RunsOK(stack') /\ \A c : Serves(stack', c) <=> Serves(stack, c)
  BY <1>1, LikeServes
<1> QED BY <1>2, StackCallsOK

\* A call returns to its caller and replies to its client.
LEMMA ReplyCallsOK ==
    ASSUME CallsInv, ~done, ~done', UNCHANGED <<commands, cl>>, stack # <<>>,
           NEW n \in Nat, n <= Len(stack), stack' = SubSeq(stack, 1, n), NEW r,
           reply' = Answer(Top.client, r),
           Top.client # None => ~Serves(SubSeq(stack, 1, n), Top.client)
    PROVE  CallsOK'
<1>1. /\ stack \in Seq(Frame) /\ Len(stack) \in Nat /\ Len(stack) > 0
      /\ DOMAIN stack = 1..Len(stack) /\ reply \in [Clients -> Results]
      /\ RunsOK(stack) /\ SentOnce(commands)
  BY SeqFacts DEF CallsInv, CallsOK
<1>2. RunsOK(stack') /\ \A c : Serves(stack', c) => Serves(stack, c)
  BY <1>1, PrefixServes
<1>3. Serves(stack, Top.client)
  BY <1>1 DEF Serves, Top
<1>4. ASSUME NEW c \in Clients
      PROVE  /\ ~(Serves(stack, c) /\ Sent(commands, c))
             /\ reply'[c] # reply[c] => c = Top.client /\ c # None
  BY <1>1, ConstantsAssumption DEF CallsInv, CallsOK, CallOK, Answer
<1> QED BY <1>1, <1>2, <1>3, <1>4, OwnerCallsOK DEF Pending

-------------------------------------------------------------------------------
\* handleCommand.

\* The command the owner takes off the channel.
LEMMA TakenOff ==
    ASSUME CallsInv, ~done, commands # <<>>, commands' = Tail(commands)
    PROVE  /\ Head(commands) \in Command /\ SentOnce(commands')
           /\ \A c : Sent(commands', c) => Sent(commands, c)
           /\ LET x == Head(commands) IN
                x.op \notin Enqueues =>
                  /\ Sent(commands, x.client)
                  /\ x.client # None => ~Sent(commands', x.client)
<1> DEFINE n == Len(commands)
           x == Head(commands)
<1>1. /\ n \in Nat /\ n > 0 /\ DOMAIN commands = 1..n /\ x = commands[1] /\ x \in Command
      /\ DOMAIN commands' = 1..n - 1 /\ (\A i \in 1..n - 1 : commands'[i] = commands[i + 1])
      /\ SentOnce(commands)
  <2>1. commands \in Seq(Command) /\ SentOnce(commands)
    BY SeqFacts DEF CallsInv, CallsOK
  <2> QED BY <2>1
<1> HIDE DEF n, x
<1>2. \A i \in 1..n - 1 : i + 1 \in 1..n /\ i + 1 # 1
  BY <1>1
<1>3. \A c : Sent(commands', c) => Sent(commands, c)
  BY <1>1, <1>2 DEF Sent
<1>4. SentOnce(commands')
  <2>1. \A i, j \in 1..n - 1 : i + 1 = j + 1 => i = j
    BY <1>1
  <2> QED BY <1>1, <1>2, <2>1 DEF SentOnce
<1>5. ASSUME x.op \notin Enqueues
      PROVE  Sent(commands, x.client) /\ (x.client # None => ~Sent(commands', x.client))
  <2>1. 1 \in 1..n
    BY <1>1
  <2>2. Sent(commands, x.client)
    BY <1>1, <1>5, <2>1 DEF Sent
  <2>3. ASSUME x.client # None, NEW i \in 1..n - 1, commands'[i].client = x.client,
               commands'[i].op \notin Enqueues
        PROVE  FALSE
    <3>1. i + 1 \in 1..n /\ i + 1 # 1 /\ commands[i + 1] = commands'[i]
      BY <1>1, <1>2
    <3> QED BY <1>1, <1>5, <2>1, <2>3, <3>1 DEF SentOnce
  <2> QED BY <1>1, <2>2, <2>3 DEF Sent
<1> QED BY <1>1, <1>3, <1>4, <1>5 DEF x

LEMMA DisposalType ==
    ASSUME CallsInv, NEW fn \in Disposals, NEW c \in Owners
    PROVE  /\ Disposal(fn, c) \in Frame /\ Disposal(fn, c).fn = fn
           /\ Disposal(fn, c).client = c
<1>1. NewFrame(fn, "resources", c) \in Frame
  BY NewFrameType DEF Points
<1>2. Len(resources) \in Nat /\ state \in States
  BY DEF CallsInv, Inv, TypeOK, StackTypes, StateTypes
<1> QED BY <1>1, <1>2 DEF Disposal, NewFrame, Frame

LEMMA ReceiveCallsOK ==
    ASSUME CallsInv, ~done, NEW s \in Seq(Frame), Like(s, stack), Receive(s)
    PROVE  CallsOK'
<1> DEFINE x == Head(commands)
           st == stack'
<1>1. /\ x \in Command /\ SentOnce(commands')
      /\ \A c : Sent(commands', c) => Sent(commands, c)
      /\ x.op \notin Enqueues =>
           /\ Sent(commands, x.client)
           /\ x.client # None => ~Sent(commands', x.client)
  BY TakenOff DEF Receive
<1>2. HandleCommand(x, s) /\ cl' = cl /\ ~done'
  BY DEF Receive, HandleCommand
<1>3. /\ RunsOK(s) /\ (\A c : Serves(s, c) <=> Serves(stack, c))
      /\ reply \in [Clients -> Results]
  BY LikeServes, SeqFacts DEF CallsInv, CallsOK
<1>4. x.client \in Owners /\ (x.client # None => x.client \in Clients)
  BY <1>1 DEF Command, Owners
<1> HIDE DEF x
<1>5. ASSUME NEW c \in Clients PROVE ~(Serves(stack, c) /\ Sent(commands, c))
  BY DEF CallsInv, CallsOK, CallOK
<1>6. CASE stack' = s /\ reply' = reply
  BY <1>1, <1>2, <1>3, <1>5, <1>6, OwnerCallsOK DEF Pending
<1>7. CASE stack' = s /\ x.op \notin Enqueues /\ \E r : reply' = Answer(x.client, r)
  <2>1. ASSUME NEW c \in Clients, reply'[c] # reply[c] PROVE c = x.client /\ c # None
    BY <1>3, <1>7, <2>1, ConstantsAssumption DEF Answer
  <2>2. x.client # None => ~Serves(stack, x.client) /\ ~Sent(commands', x.client)
    BY <1>1, <1>4, <1>5, <1>7
  <2> QED BY <1>1, <1>2, <1>3, <1>5, <1>7, <2>1, <2>2, OwnerCallsOK DEF Pending
<1>8. CASE /\ x.op \notin Enqueues /\ reply' = reply /\ RunsOK(stack')
           /\ \A c : Serves(stack', c) <=> Serves(s, c) \/ c = x.client
  <2>1. ASSUME NEW c \in Clients
        PROVE  /\ Serves(stack', c) \/ Sent(commands', c) => Pending(c)
               /\ ~(Serves(stack', c) /\ Sent(commands', c))
    BY <1>1, <1>3, <1>5, <1>8, ConstantsAssumption DEF Pending
  <2> QED BY <1>1, <1>2, <1>8, <2>1, OwnerCallsOK
<1>9. x.op \notin Enqueues /\ x.client # None => ~Serves(s, x.client)
  BY <1>1, <1>3, <1>4, <1>5
<1>10. ASSUME x.op \notin Enqueues, reply' = reply,
              NEW f \in Frame, f.client = x.client, f.fn \notin {"runTask", "installer"},
              stack' = Append(s, f)
       PROVE  CallsOK'
  <2>1. RunsOK(stack') /\ \A c : Serves(stack', c) <=> Serves(s, c) \/ c = x.client
    BY <1>3, <1>9, <1>10, PushServes
  <2> QED BY <1>8, <1>10, <2>1
<1>11. ASSUME NEW fn \in Disposals
       PROVE  /\ Disposal(fn, x.client) \in Frame /\ Disposal(fn, x.client).fn = fn
              /\ Disposal(fn, x.client).client = x.client
  BY <1>4, DisposalType
<1>12. CASE HandleSchedule(x, s) \/ HandleAddTimer(x, s)
  BY <1>6, <1>12 DEF HandleSchedule, HandleAddTimer
<1>13. CASE HandleStartStop(x, s) \/ HandleRegisterResource(x, s)
  BY <1>7, <1>13 DEF HandleStartStop, HandleRegisterResource, Enqueues
<1>14. CASE HandleDo(x, s)
  <2>1. x.op \notin Enqueues
    BY <1>14 DEF HandleDo, Enqueues
  <2>2. CASE stack' = s /\ \E r : reply' = Answer(x.client, r)
    BY <1>7, <2>1, <2>2
  <2>3. CASE stack' = Append(s, NewFrame("do", "body", x.client)) /\ reply' = reply
    <3>1. NewFrame("do", "body", x.client) \in Frame
      BY <1>4, NewFrameType DEF Bodies, Points
    <3>2. /\ NewFrame("do", "body", x.client).fn = "do"
          /\ NewFrame("do", "body", x.client).client = x.client
      BY DEF NewFrame
    <3> QED BY <1>10, <2>1, <2>3, <3>1, <3>2
  <2> QED BY <1>14, <2>2, <2>3 DEF HandleDo
<1>15. CASE HandleRun(x, s)
  <2>1. x.op \notin Enqueues
    BY <1>15 DEF HandleRun, Enqueues
  <2>2. CASE stack' = s /\ \E r : reply' = Answer(x.client, r)
    BY <1>7, <2>1, <2>2
  <2>3. CASE EnterRun(x.client, s) /\ reply' = reply
    <3> DEFINE f == NewFrame("run", "top", x.client)
               g == NewFrame("runTask", "body", x.client)
    <3>1. f \in Frame /\ g \in Frame
      BY <1>4, NewFrameType DEF Bodies, Loops, Points
    <3>2. /\ f.fn = "run" /\ g.fn = "runTask" /\ f.client = x.client /\ g.client = x.client
      BY DEF NewFrame
    <3>3. stack' = s \o <<f, g>>
      BY <2>3 DEF EnterRun
    <3> HIDE DEF f, g
    <3>4. stack' = Append(Append(s, f), g)
      BY <3>1, <3>3
    <3>5. RunsOK(stack') /\ \A c : Serves(stack', c) <=> Serves(s, c) \/ c = x.client
      BY <1>3, <1>9, <2>1, <3>1, <3>2, <3>4, PushRunServes
    <3> QED BY <1>8, <2>1, <2>3, <3>5
  <2> QED BY <1>15, <2>2, <2>3 DEF HandleRun
<1>16. ASSUME NEW fn \in Disposals, BeginDisposal(fn, x.client, s), x.op \notin Enqueues,
              reply' = reply
       PROVE  CallsOK'
  <2>1. stack' = Append(s, Disposal(fn, x.client)) /\ fn \notin {"runTask", "installer"}
    BY <1>16 DEF BeginDisposal, Disposals
  <2> QED BY <1>10, <1>11, <1>16, <2>1
<1>17. CASE HandleReload(x, s)
  BY <1>7, <1>16, <1>17 DEF HandleReload, Disposals, Enqueues
<1>18. CASE HandleClose(x, s)
  BY <1>7, <1>16, <1>18 DEF HandleClose, Disposals, Enqueues
<1> QED BY <1>2, <1>12, <1>13, <1>14, <1>15, <1>17, <1>18 DEF HandleCommand

-------------------------------------------------------------------------------
\* The owner's steps.

LEMMA AtTop ==
    ASSUME CallsInv, stack # <<>>
    PROVE  /\ ~done /\ Top \in Frame /\ stack \in Seq(Frame) /\ RunsOK(stack)
           /\ Len(stack) \in Nat /\ Len(stack) > 0
           /\ \A f \in Frame : f.client = Top.client
                /\ (f.fn = Top.fn \/ {f.fn, Top.fn} \subseteq Disposals) =>
                     Like(Append(Below, f), stack) /\ Append(Below, f) \in Seq(Frame)
           /\ \A pc \in Points : Like(GoTo(pc), stack) /\ GoTo(pc) \in Seq(Frame)
<1>1. ~done /\ RunsOK(stack)
  BY DEF CallsInv, CallsOK
<1>2. stack \in Seq(Frame) /\ Top \in Frame /\ Len(stack) \in Nat /\ Len(stack) > 0
  BY SeqFacts DEF CallsInv
<1>3. ASSUME NEW f \in Frame, f.client = Top.client,
             f.fn = Top.fn \/ {f.fn, Top.fn} \subseteq Disposals
      PROVE  Like(Append(Below, f), stack) /\ Append(Below, f) \in Seq(Frame)
  BY <1>2, <1>3, LikeTop DEF Top, Below
<1>4. ASSUME NEW pc \in Points
      PROVE  Like(GoTo(pc), stack) /\ GoTo(pc) \in Seq(Frame)
  <2> DEFINE f == [Top EXCEPT !.pc = pc]
  <2>1. f \in Frame /\ f.client = Top.client /\ f.fn = Top.fn
    BY <1>2 DEF Frame
  <2> HIDE DEF f
  <2>2. Like(Append(Below, f), stack) /\ Append(Below, f) \in Seq(Frame)
    BY <1>3, <2>1
  <2> QED BY <2>2 DEF GoTo, f
<1> QED BY <1>1, <1>2, <1>3, <1>4

\* The owner calls user code of its own.
LEMMA PushCallsOK ==
    ASSUME CallsInv, ~done, ~done', UNCHANGED <<commands, cl, reply>>,
           NEW s \in Seq(Frame), Like(s, stack), NEW f \in Frame, f.client = None,
           f.fn # "runTask", f.fn = "installer" => s # <<>> /\ s[Len(s)].fn \in Disposals,
           stack' = Append(s, f)
    PROVE  CallsOK'
<1>1. RunsOK(s) /\ \A c : Serves(s, c) <=> Serves(stack, c)
  BY LikeServes DEF CallsInv, CallsOK
<1>2. RunsOK(stack') /\ \A c : Serves(stack', c) <=> Serves(s, c) \/ c = None
  BY <1>1, PushServes
<1> QED BY <1>1, <1>2, StackCallsOK, ConstantsAssumption

\* A call of the owner itself returns, or one that has told its client already.
LEMMA PopCallsOK ==
    ASSUME CallsInv, stack # <<>>, ~done', UNCHANGED <<commands, cl, reply>>, stack' = Below
    PROVE  CallsOK'
<1>1. Len(stack) - 1 \in Nat /\ Len(stack) - 1 <= Len(stack)
  BY AtTop
<1>2. RunsOK(stack') /\ \A c : Serves(stack', c) => Serves(stack, c)
  BY <1>1, AtTop, PrefixServes DEF Below
<1> QED BY <1>2, AtTop, StackCallsOK

\* A call returns and its client is told.
LEMMA AnswerCallsOK ==
    ASSUME CallsInv, stack # <<>>, ~done', UNCHANGED <<commands, cl>>, stack' = Below,
           NEW r, reply' = Answer(Top.client, r), Top.fn # "runTask"
    PROVE  CallsOK'
<1>1. Len(stack) - 1 \in Nat /\ Len(stack) - 1 <= Len(stack) /\ ~done
  BY AtTop
<1>2. Top.client # None => ~Serves(Below, Top.client)
  BY <1>1, PopServes
<1> QED BY <1>1, <1>2, ReplyCallsOK DEF Below

LEMMA PumpingCallsOK == ASSUME CallsInv, Pumping PROVE CallsOK'
<1>1. Running(Loops) /\ stack # <<>>
  BY DEF Pumping, OwnerReceives, OwnerReturns, RunReturns, PumpOnce, DrainCommands, Drained,
         NotRunning, RunTask, FireDueTimer, RunJobs, JobsReturn, RunIsIdle, RunHasWork, WaitForWork,
         CanWork, At, Running, Loops
<1>2. /\ ~done /\ Top \in Frame /\ stack \in Seq(Frame) /\ Top.fn \in Loops
      /\ \A pc \in Points : Like(GoTo(pc), stack) /\ GoTo(pc) \in Seq(Frame)
  BY <1>1, AtTop DEF Running
<1>12. Like(Progress, stack) /\ Progress \in Seq(Frame)
  <2>1. PICK f \in Frame : Progress = Append(Below, f) /\ f.fn = Top.fn /\ f.client = Top.client
    BY <1>2, ProgressFrame
  <2> QED BY <1>1, <2>1, AtTop
<1>3. CASE OwnerReceives
  BY <1>2, <1>3, LikeItself, ReceiveCallsOK DEF OwnerReceives
<1>4. CASE OwnerReturns
  BY <1>4 DEF OwnerReturns, CallsOK
<1>5. CASE RunReturns \/ RunIsIdle
  <2>1. /\ stack' = Below /\ reply' = Answer(Top.client, "nil")
        /\ UNCHANGED <<commands, done, cl>>
    BY <1>5 DEF RunReturns, RunIsIdle
  <2>2. Top.fn # "runTask"
    BY <1>2 DEF Loops
  <2> QED BY <1>1, <1>2, <2>1, <2>2, AnswerCallsOK
<1>6. CASE PumpOnce
  <2> DEFINE f == [Top EXCEPT !.pc = "drain", !.progressed = FALSE]
  <2>1. f \in Frame /\ f.client = Top.client /\ f.fn = Top.fn
    BY <1>2 DEF Frame, Points
  <2>2. stack' = Append(Below, f) /\ UNCHANGED <<commands, done, cl, reply>>
    BY <1>6 DEF PumpOnce, OnlyStack
  <2> HIDE DEF f
  <2>3. Like(stack', stack)
    BY <1>1, <2>1, <2>2, AtTop
  <2> QED BY <1>2, <2>2, <2>3, LikeCallsOK
<1>7. CASE DrainCommands
  <2> DEFINE f == [Top EXCEPT !.progressed = TRUE]
  <2>1. f \in Frame /\ f.client = Top.client /\ f.fn = Top.fn
    BY <1>2 DEF Frame
  <2>2. Receive(Append(Below, f))
    BY <1>7 DEF DrainCommands
  <2> HIDE DEF f
  <2>3. Like(Append(Below, f), stack) /\ Append(Below, f) \in Seq(Frame)
    BY <1>1, <2>1, AtTop
  <2> QED BY <1>2, <2>2, <2>3, ReceiveCallsOK
<1>8. CASE Drained \/ NotRunning \/ RunJobs \/ (\E more \in BOOLEAN : JobsReturn(more)) \/ RunHasWork
  <2>1. (\E pc \in {"work", "jobs", "top", "check", "wait"} : stack' = GoTo(pc))
        /\ UNCHANGED <<commands, done, cl, reply>>
    BY <1>8 DEF Drained, NotRunning, RunJobs, JobsReturn, RunHasWork, MoveOn, PumpReturns, OnlyStack
  <2>2. {"work", "jobs", "top", "check", "wait"} \subseteq Points
    BY DEF Points
  <2> QED BY <1>2, <2>1, <2>2, LikeCallsOK
<1>9. CASE RunTask
  <2>1. /\ stack' = Append(Progress, NewFrame("task", "body", None))
        /\ UNCHANGED <<commands, done, cl, reply>>
    BY <1>9 DEF RunTask
  <2>2. Like(Progress, stack) /\ Progress \in Seq(Frame)
    BY <1>12
  <2>3. NewFrame("task", "body", None) \in Frame
    BY NewFrameType DEF Bodies, Points, Owners
  <2>4. /\ NewFrame("task", "body", None).fn = "task"
        /\ NewFrame("task", "body", None).client = None
    BY DEF NewFrame
  <2> QED BY <1>2, <2>1, <2>2, <2>3, <2>4, PushCallsOK
<1>10. CASE FireDueTimer
  <2>1. UNCHANGED <<commands, done, cl, reply>>
    BY <1>10 DEF FireDueTimer
  <2>2. PICK e \in Due :
          \/ stack' = Progress
          \/ stack' = Append(Progress, [NewFrame("timer", "start", None) EXCEPT !.item = e])
    BY <1>10 DEF FireDueTimer
  <2>3. e \in Item
    BY KeptType DEF Due, Peek, CallsInv, Inv, TypeOK, WorkTypes
  <2> DEFINE f == [NewFrame("timer", "start", None) EXCEPT !.item = e]
  <2>4. f \in Frame /\ f.fn = "timer" /\ f.client = None
    <3>1. NewFrame("timer", "start", None) \in Frame
      BY NewFrameType DEF Bodies, Points, Owners
    <3> QED BY <2>3, <3>1 DEF Frame, NewFrame
  <2>5. Like(Progress, stack) /\ Progress \in Seq(Frame)
    BY <1>12
  <2>6. CASE stack' = Progress
    BY <1>2, <2>1, <2>5, <2>6, LikeCallsOK
  <2>7. CASE stack' = Append(Progress, f)
    <3> HIDE DEF f
    <3> QED BY <1>2, <2>1, <2>4, <2>5, <2>7, PushCallsOK
  <2> QED BY <2>2, <2>6, <2>7
<1>11. CASE WaitForWork
  <2>1. Like(GoTo("top"), stack) /\ GoTo("top") \in Seq(Frame)
    BY <1>2 DEF Points
  <2>2. CASE Receive(GoTo("top"))
    BY <1>2, <2>1, <2>2, ReceiveCallsOK
  <2>3. CASE stack' = GoTo("top") /\ UNCHANGED <<commands, done, cl, reply>>
    BY <1>2, <2>1, <2>3, LikeCallsOK
  <2> QED BY <1>11, <2>2, <2>3 DEF WaitForWork, MoveOn
<1> QED BY <1>3, <1>4, <1>5, <1>6, <1>7, <1>8, <1>9, <1>10, <1>11 DEF Pumping

\* What the owner puts in the channel itself serves no client.
LEMMA OwnSendCallsOK ==
    ASSUME CallsInv, stack # <<>>, ~done', UNCHANGED <<cl, reply>>, Like(stack', stack),
           NEW x, x.client = None, commands' \in {commands, Append(commands, x)}
    PROVE  CallsOK'
<1>1. /\ ~done /\ RunsOK(stack') /\ \A c : Serves(stack', c) <=> Serves(stack, c)
  BY AtTop, LikeServes
<1>2. commands \in Seq(Command) /\ SentOnce(commands)
      /\ \A c \in Clients : ~(Serves(stack, c) /\ Sent(commands, c))
  BY <1>1, SeqFacts DEF CallsInv, CallsOK, CallOK
<1>3. SentOnce(commands') /\ \A c \in Clients : Sent(commands', c) => Sent(commands, c)
  <2>1. CASE commands' = commands
    BY <1>2, <2>1
  <2>2. CASE commands' = Append(commands, x)
    <3> DEFINE n == Len(commands)
               q == Append(commands, x)
    <3>1. /\ n \in Nat /\ DOMAIN commands = 1..n /\ DOMAIN q = 1..n + 1 /\ q[n + 1] = x
          /\ \A i \in 1..n : q[i] = commands[i]
      BY <1>2
    <3> HIDE DEF n, q
    <3>2. \A i \in 1..n + 1 : i \in 1..n \/ i = n + 1
      BY <3>1
    <3>3. \A c \in Clients : Sent(q, c) => Sent(commands, c)
      BY <3>1, <3>2, ConstantsAssumption DEF Sent
    <3>4. SentOnce(q)
      BY <1>2, <3>1, <3>2 DEF SentOnce
    <3> QED BY <2>2, <3>3, <3>4 DEF q
  <2> QED BY <2>1, <2>2
<1> QED BY <1>1, <1>2, <1>3, OwnerCallsOK DEF Pending

LEMMA UserActsCallsOK == ASSUME CallsInv, UserActs PROVE CallsOK'
<1>1. stack # <<>>
  BY DEF UserActs, UserStartStop, UserDo, UserRun, UserCallsItself, UserEnqueue, JSAddTimer,
         ClearJSTimer, UserCancel, UserRegisterResource, UserReload, UserClose, MayAct, At,
         Running
<1>2. /\ ~done /\ stack \in Seq(Frame) /\ RunsOK(stack) /\ Like(stack, stack)
      /\ \A pc \in Points : Like(GoTo(pc), stack) /\ GoTo(pc) \in Seq(Frame)
  BY <1>1, AtTop, LikeItself
<1>3. ASSUME NEW op \in Ops, UserStartStop(op) PROVE CallsOK'
  BY <1>2, <1>3, LikeCallsOK DEF UserStartStop
<1>4. ASSUME NEW op \in Ops, UserDo(op) PROVE CallsOK'
  <2>1. PICK fn \in {"nestedDo", "nestedContext"} :
          stack' = Append(stack, NewFrame(fn, "body", None))
    BY <1>4 DEF UserDo
  <2>2. NewFrame(fn, "body", None) \in Frame
    BY NewFrameType DEF Bodies, Points, Owners
  <2>3. NewFrame(fn, "body", None).fn = fn /\ NewFrame(fn, "body", None).client = None
    BY DEF NewFrame
  <2>4. UNCHANGED <<commands, done, cl, reply>>
    BY <1>4 DEF UserDo
  <2> QED BY <1>2, <2>1, <2>2, <2>3, <2>4, PushCallsOK
<1>5. ASSUME NEW op \in Ops, UserRun(op) PROVE CallsOK'
  <2> DEFINE f == NewFrame("run", "top", None)
             g == NewFrame("runTask", "body", None)
  <2>1. f \in Frame /\ g \in Frame
    BY NewFrameType DEF Bodies, Loops, Points, Owners
  <2>2. f.fn = "run" /\ g.fn = "runTask" /\ f.client = None /\ g.client = None
    BY DEF NewFrame
  <2>3. stack' = stack \o <<f, g>> /\ UNCHANGED <<commands, done, cl, reply>>
    BY <1>5 DEF UserRun, EnterRun
  <2> HIDE DEF f, g
  <2>4. stack' = Append(Append(stack, f), g)
    BY <1>2, <2>1, <2>3
  <2>5. RunsOK(stack') /\ \A c : Serves(stack', c) <=> Serves(stack, c) \/ c = None
    BY <1>2, <2>1, <2>2, <2>4, PushRunServes
  <2> QED BY <1>2, <2>3, <2>5, StackCallsOK, ConstantsAssumption
<1>6. ASSUME NEW op \in Ops, UserCallsItself(op) PROVE CallsOK'
  <2> DEFINE x == [op |-> op, client |-> None, item |-> NoItem]
  <2>1. commands' \in {commands, Append(commands, x)} /\ stack' = GoTo("stuck")
        /\ UNCHANGED <<done, cl, reply>>
    BY <1>6 DEF UserCallsItself, MoveOn
  <2>2. x.client = None /\ "stuck" \in Points
    BY DEF Points
  <2> HIDE DEF x
  <2> QED BY <1>1, <1>2, <2>1, <2>2, OwnSendCallsOK
<1>7. ASSUME NEW op \in Ops, NEW delay \in 0..1, UserEnqueue(op, delay) PROVE CallsOK'
  <2> DEFINE x == [op |-> op, client |-> None, item |-> NewItem(op, delay, Maker)]
  <2>1. commands' \in {commands, Append(commands, x)}
        /\ UNCHANGED <<stack, done, cl, reply>>
    BY <1>7 DEF UserEnqueue
  <2>2. x.client = None
    OBVIOUS
  <2> HIDE DEF x
  <2> QED BY <1>1, <1>2, <2>1, <2>2, OwnSendCallsOK
<1>8. ASSUME NEW op \in Ops, NEW delay \in 0..1, JSAddTimer(op, delay) PROVE CallsOK'
  BY <1>2, <1>8, LikeCallsOK DEF JSAddTimer
<1>9. CASE ClearJSTimer \/ UserCancel \/ UserRegisterResource
  BY <1>2, <1>9, LikeCallsOK DEF ClearJSTimer, UserCancel, UserRegisterResource
<1>10. CASE UserReload
  <2>1. stack' = Append(stack, Disposal("reload", None)) /\ UNCHANGED <<commands, done, cl, reply>>
    BY <1>10 DEF UserReload, BeginDisposal
  <2>2. /\ Disposal("reload", None) \in Frame /\ Disposal("reload", None).fn = "reload"
        /\ Disposal("reload", None).client = None
    BY DisposalType DEF Disposals, Owners
  <2> QED BY <1>2, <2>1, <2>2, PushCallsOK
<1>11. CASE UserClose
  BY <1>2, <1>11, LikeCallsOK DEF UserClose, MoveOn, Points
<1> QED BY <1>3, <1>4, <1>5, <1>6, <1>7, <1>8, <1>9, <1>10, <1>11 DEF UserActs

\* An installer fails: the Reload under it fails.
LEMMA FailReloadCallsOK ==
    ASSUME CallsInv, stack # <<>>, Top.fn = "installer", FailReload(Below),
           UNCHANGED <<commands, done, cl, reply>>
    PROVE  CallsOK'
<1> DEFINE n == Len(stack)
           f == [Below[Len(Below)] EXCEPT !.fn = "failedReload", !.pc = "resources",
                                          !.idx = Len(resources)]
<1>1. /\ stack \in Seq(Frame) /\ n \in Nat /\ n > 0 /\ DOMAIN stack = 1..n
      /\ Below \in Seq(Frame) /\ Len(Below) = n - 1
      /\ (\A i \in 1..n - 1 : Below[i] = stack[i])
      /\ RunsOK(stack) /\ ~done
  BY SeqFacts DEF CallsInv, CallsOK
<1>2. n - 1 \in 1..n /\ stack[n - 1].fn \in Disposals
  <2>1. n \in DOMAIN stack /\ stack[n].fn = "installer"
    BY <1>1 DEF Top
  <2>2. n - 1 \in DOMAIN stack /\ stack[n - 1].fn \in Disposals
    BY <1>1, <2>1 DEF RunsOK
  <2> QED BY <1>1, <2>2
<1>3. Below # <<>> /\ Below[Len(Below)] \in Frame /\ Below[Len(Below)].fn \in Disposals
  <2>1. Below[n - 1] = stack[n - 1] /\ n - 1 > 0
    BY <1>1, <1>2
  <2> QED BY <1>1, <1>2, <2>1
<1>4. f \in Frame /\ f.fn = "failedReload" /\ f.client = Below[Len(Below)].client
  <2>1. Len(resources) \in Nat
    BY DEF CallsInv, Inv, TypeOK, StackTypes
  <2> QED BY <1>3, <2>1 DEF Frame, Disposals, Points
<1>5. stack' = Append(SubSeq(Below, 1, Len(Below) - 1), f)
  BY DEF FailReload
<1>6. {f.fn, Below[Len(Below)].fn} \subseteq Disposals
  BY <1>3, <1>4 DEF Disposals
<1> HIDE DEF f
<1>7. Like(stack', Below)
  BY <1>1, <1>3, <1>4, <1>5, <1>6, LikeTop
<1>8. RunsOK(Below) /\ \A c : Serves(Below, c) => Serves(stack, c)
  <2>1. n - 1 \in Nat /\ n - 1 <= n
    BY <1>1
  <2> QED BY <1>1, <2>1, PrefixServes DEF Below
<1>9. RunsOK(stack') /\ \A c : Serves(stack', c) <=> Serves(Below, c)
  BY <1>7, <1>8, LikeServes
<1> QED BY <1>1, <1>8, <1>9, StackCallsOK

LEMMA UserReturnsCallsOK == ASSUME CallsInv, UserReturns PROVE CallsOK'
<1>1. stack # <<>>
  BY DEF UserReturns, UserCloseOnce, StartTimer, TimerReturns, BodyReturns, RunTaskReturns,
         InstallerReturns, At, Running
<1>2. /\ ~done /\ Top \in Frame /\ stack \in Seq(Frame) /\ RunsOK(stack)
      /\ Len(stack) \in Nat /\ Len(stack) > 0 /\ DOMAIN stack = 1..Len(stack)
      /\ \A pc \in Points : Like(GoTo(pc), stack) /\ GoTo(pc) \in Seq(Frame)
  BY <1>1, AtTop
<1>3. CASE UserCloseOnce
  <2>1. {"body", "stuck"} \subseteq Points /\ UNCHANGED <<commands, done, cl, reply>>
    BY <1>3 DEF UserCloseOnce, Points
  <2>2. CASE \E pc \in {"body", "stuck"} : stack' = GoTo(pc)
    BY <1>2, <2>1, <2>2, LikeCallsOK
  <2>3. CASE stack' = Append(GoTo("body"), Disposal("close", None))
    <3>1. /\ Disposal("close", None) \in Frame /\ Disposal("close", None).fn = "close"
          /\ Disposal("close", None).client = None
      BY DisposalType DEF Disposals, Owners
    <3> QED BY <1>2, <2>1, <2>3, <3>1, PushCallsOK
  <2> QED BY <1>3, <2>2, <2>3 DEF UserCloseOnce, BeginDisposal, MoveOn
<1>4. CASE StartTimer
  <2>1. (\E pc \in {"finish", "body"} : stack' = GoTo(pc))
        /\ UNCHANGED <<commands, done, cl, reply>>
    BY <1>4 DEF StartTimer, MoveOn
  <2>2. {"finish", "body"} \subseteq Points
    BY DEF Points
  <2> QED BY <1>2, <2>1, <2>2, LikeCallsOK
<1>5. CASE TimerReturns
  BY <1>1, <1>2, <1>5, PopCallsOK DEF TimerReturns
<1>6. CASE BodyReturns
  <2>1. Top.fn # "runTask" /\ stack' = Below /\ UNCHANGED <<commands, done, cl>>
    BY <1>6 DEF BodyReturns, At, Running
  <2>2. CASE reply' = reply
    BY <1>1, <1>2, <2>1, <2>2, PopCallsOK
  <2>3. CASE reply' = Answer(Top.client, "nil")
    BY <1>1, <1>2, <2>1, <2>3, AnswerCallsOK
  <2> QED BY <1>6, <2>2, <2>3 DEF BodyReturns
<1>7. ASSUME NEW err \in TaskErrors, RunTaskReturns(err) PROVE CallsOK'
  <2>1. Top.fn = "runTask" /\ UNCHANGED <<commands, done, cl>>
    BY <1>7 DEF RunTaskReturns, At, Running
  <2>2. CASE stack' = Below /\ reply' = reply
    BY <1>1, <1>2, <2>1, <2>2, PopCallsOK
  <2>3. CASE stack' = SubSeq(stack, 1, Len(stack) - 2) /\ reply' = Answer(Top.client, "taskErr")
    <3>1. Len(stack) - 2 \in Nat /\ Len(stack) - 2 <= Len(stack)
      <4>1. Len(stack) \in DOMAIN stack
        BY <1>2
      <4>2. Len(stack) - 1 \in DOMAIN stack
        BY <2>1, <1>2, <4>1 DEF RunsOK, Top
      <4> QED BY <1>2, <4>2
    <3>2. Top.client # None => ~Serves(SubSeq(stack, 1, Len(stack) - 2), Top.client)
      BY <1>1, <1>2, <2>1, PopServes
    <3> QED BY <1>1, <1>2, <2>1, <2>3, <3>1, <3>2, ReplyCallsOK
  <2> QED BY <1>7, <2>2, <2>3 DEF RunTaskReturns
<1>8. ASSUME NEW err \in BOOLEAN, InstallerReturns(err) PROVE CallsOK'
  <2>1. Top.fn = "installer" /\ UNCHANGED <<commands, done, cl, reply>>
    BY <1>8 DEF InstallerReturns, At, Running
  <2>2. CASE stack' = Below
    BY <1>1, <1>2, <2>1, <2>2, PopCallsOK
  <2>3. CASE FailReload(Below)
    BY <1>1, <1>2, <2>1, <2>3, FailReloadCallsOK
  <2> QED BY <1>8, <2>2, <2>3 DEF InstallerReturns
<1> QED BY <1>3, <1>4, <1>5, <1>6, <1>7, <1>8 DEF UserReturns

LEMMA DisposingCallsOK == ASSUME CallsInv, Disposing PROVE CallsOK'
<1>1. stack # <<>> /\ Top.fn \in Disposals
  BY DEF Disposing, CloseResource, DisposeContext, InitializeGeneration, ReloadReturns,
         CloseFinishes, At, Running, Disposals
<1>2. /\ ~done /\ Top \in Frame /\ stack \in Seq(Frame)
      /\ \A pc \in Points : Like(GoTo(pc), stack) /\ GoTo(pc) \in Seq(Frame)
  BY <1>1, AtTop
<1>3. CASE CloseResource
  <2> DEFINE f == [Top EXCEPT !.idx = @ - 1]
             g == NewFrame("resource", "body", None)
  <2>1. f \in Frame /\ f.fn = Top.fn /\ f.client = Top.client
    <3>1. Top.idx \in Nat /\ Top.idx > 0
      BY <1>2, <1>3 DEF CloseResource, Frame
    <3>2. Top \in Frame /\ Top.idx - 1 \in Nat
      BY <1>2, <3>1
    <3> QED BY <3>2 DEF Frame
  <2>2. g \in Frame /\ g.fn = "resource" /\ g.client = None
    <3>1. g \in Frame
      BY NewFrameType DEF Bodies, Points, Owners
    <3> QED BY <3>1 DEF NewFrame
  <2>3. stack' = Append(Append(Below, f), g) /\ UNCHANGED <<commands, done, cl, reply>>
    BY <1>3 DEF CloseResource
  <2> HIDE DEF f, g
  <2>4. Like(Append(Below, f), stack) /\ Append(Below, f) \in Seq(Frame)
    BY <1>1, <2>1, AtTop
  <2> QED BY <1>2, <2>2, <2>3, <2>4, PushCallsOK
<1>4. CASE DisposeContext
  <2>1. (\E pc \in {"init", "finish"} : stack' = GoTo(pc))
        /\ UNCHANGED <<commands, done, cl, reply>>
    BY <1>4 DEF DisposeContext, MoveOn
  <2>2. {"init", "finish"} \subseteq Points
    BY DEF Points
  <2> QED BY <1>2, <2>1, <2>2, LikeCallsOK
<1>5. CASE InitializeGeneration
  <2>1. UNCHANGED <<commands, done, cl, reply>>
    BY <1>5 DEF InitializeGeneration
  <2>2. CASE FailReload(stack)
    <3>1. stack' = Append(Below, [Top EXCEPT !.fn = "failedReload", !.pc = "resources",
                                             !.idx = Len(resources)])
      BY <2>2 DEF FailReload, Below, Top
    <3> DEFINE f == [Top EXCEPT !.fn = "failedReload", !.pc = "resources",
                                !.idx = Len(resources)]
    <3>2. f \in Frame /\ f.fn = "failedReload" /\ f.client = Top.client
      <4>1. Len(resources) \in Nat
        BY DEF CallsInv, Inv, TypeOK, StackTypes
      <4> QED BY <1>2, <4>1 DEF Frame, Disposals, Points
    <3>3. stack' = Append(Below, f)
      BY <3>1
    <3> HIDE DEF f
    <3>4. {f.fn, Top.fn} \subseteq Disposals
      BY <1>1, <3>2 DEF Disposals
    <3>5. Like(stack', stack)
      BY <1>1, <3>2, <3>3, <3>4, AtTop
    <3> QED BY <1>2, <2>1, <3>5, LikeCallsOK
  <2>3. CASE stack' = Append(GoTo("finish"), NewFrame("installer", "body", None))
    <3> DEFINE f == [Top EXCEPT !.pc = "finish"]
               g == NewFrame("installer", "body", None)
    <3>1. f \in Frame /\ f.fn \in Disposals
      BY <1>1, <1>2 DEF Frame, Points
    <3>2. g \in Frame /\ g.fn = "installer" /\ g.client = None
      <4>1. g \in Frame
        BY NewFrameType DEF Bodies, Points, Owners
      <4> QED BY <4>1 DEF NewFrame
    <3>3. Like(GoTo("finish"), stack) /\ GoTo("finish") \in Seq(Frame)
      BY <1>2 DEF Points
    <3>4. GoTo("finish") = Append(Below, f) /\ Below \in Seq(Frame)
      BY <1>1, SeqFacts DEF GoTo, CallsInv
    <3> HIDE DEF f, g
    <3>5. /\ GoTo("finish") # <<>>
          /\ GoTo("finish")[Len(GoTo("finish"))] = f
      BY <3>1, <3>4
    <3>6. stack' = Append(GoTo("finish"), g)
      BY <2>3 DEF g
    <3> QED BY <1>2, <2>1, <3>1, <3>2, <3>3, <3>5, <3>6, PushCallsOK
  <2> QED BY <1>5, <2>2, <2>3 DEF InitializeGeneration
<1>6. CASE ReloadReturns \/ CloseFinishes
  <2>1. /\ stack' = Below /\ (\E r : reply' = Answer(Top.client, r))
        /\ UNCHANGED <<commands, done, cl>>
    BY <1>6 DEF ReloadReturns, CloseFinishes
  <2>2. Top.fn # "runTask"
    BY <1>1 DEF Disposals
  <2> QED BY <1>1, <1>2, <2>1, <2>2, AnswerCallsOK
<1> QED BY <1>3, <1>4, <1>5, <1>6 DEF Disposing

-------------------------------------------------------------------------------
\* The clients' steps.

\* Once the owner has returned there is no call it could be busy with.
LEMMA DoneCallsOK == ASSUME CallsInv, done, UNCHANGED <<stack, done>> PROVE CallsOK'
  BY DEF CallsInv, CallsOK

\* A client the owner is not busy with takes a step that concerns it alone.
LEMMA ClientCallsOK ==
    ASSUME CallsInv, ~done, UNCHANGED <<stack, done, commands>>, NEW c \in Clients,
           ~Pending(c), \A d \in Clients \ {c} : cl'[d] = cl[d] /\ reply'[d] = reply[d],
           ToSend(c)' => reply'[c] = "none"
    PROVE  CallsOK'
<1>1. ASSUME NEW d \in Clients PROVE CallOK(d)'
  <2>1. CallOK(d)
    BY DEF CallsInv, CallsOK
  <2>2. CASE d = c
    BY <2>2 DEF CallOK, Pending, Serves, Sent
  <2>3. CASE d # c
    BY <2>1, <2>3 DEF CallOK, ToSend, Waits4Reply, Serves, Sent
  <2> QED BY <2>2, <2>3
<1> QED BY <1>1 DEF CallsInv, CallsOK

\* Who does not wait for a reply is none of the owner's business.
LEMMA NotPending == ASSUME CallsInv, ~done, NEW c \in Clients, ~Waits4Reply(c) PROVE ~Pending(c)
  BY DEF CallsInv, CallsOK, CallOK, Pending

LEMMA SendCallsOK == ASSUME CallsInv, ~done, NEW c \in Clients, Send(c) PROVE CallsOK'
<1> DEFINE x == [op |-> cl[c].op, client |-> c, item |-> cl[c].item]
           n == Len(commands)
<1>1. /\ cl[c].pc = "send" /\ cl[c].op \notin Enqueues /\ commands' = Append(commands, x)
      /\ cl' = Goto(c, "await") /\ UNCHANGED <<stack, done, reply>>
  BY DEF Send
<1>2. x.op \notin Enqueues /\ x.client = c
  BY <1>1
<1> HIDE DEF x
<1>3. /\ commands \in Seq(Command) /\ cl \in [Clients -> CallState]
      /\ RunsOK(stack) /\ SentOnce(commands) /\ \A d \in Clients : CallOK(d)
  BY SeqFacts DEF CallsInv, CallsOK
<1>4. /\ n \in Nat /\ DOMAIN commands = 1..n /\ DOMAIN commands' = 1..n + 1
      /\ commands'[n + 1] = x /\ \A i \in 1..n : commands'[i] = commands[i]
  BY <1>1, <1>3
<1> HIDE DEF n
<1>5. \A i \in 1..n + 1 : i \in 1..n \/ i = n + 1
  BY <1>4
<1>6. ~Serves(stack, c) /\ ~Sent(commands, c) /\ reply[c] = "none"
  BY <1>1, <1>3 DEF CallOK, ToSend, Waits4Reply
<1>7. SentOnce(commands')
  <2>1. ASSUME NEW i \in 1..n, commands[i].client = c, commands[i].op \notin Enqueues PROVE FALSE
    BY <1>4, <1>6, <2>1 DEF Sent
  <2> QED BY <1>2, <1>3, <1>4, <1>5, <2>1 DEF SentOnce
<1>8. cl'[c].pc = "await" /\ \A d \in Clients \ {c} : cl'[d] = cl[d]
  BY <1>1, <1>3 DEF Goto, Call
<1>9. ASSUME NEW d \in Clients PROVE CallOK(d)'
  <2>1. CASE d = c
    BY <1>1, <1>6, <1>8, <2>1 DEF CallOK, Serves, Waits4Reply, ToSend
  <2>2. CASE d # c
    <3>1. Sent(commands', d) <=> Sent(commands, d)
      BY <1>2, <1>4, <1>5, <2>2 DEF Sent
    <3>2. CallOK(d) /\ cl'[d] = cl[d]
      BY <1>3, <1>8, <2>2
    <3> QED BY <1>1, <3>1, <3>2 DEF CallOK, Serves, Waits4Reply, ToSend
  <2> QED BY <2>1, <2>2
<1> QED BY <1>1, <1>3, <1>7, <1>9 DEF CallsOK

\* enqueue() is answered by the client itself.
LEMMA EnqueueCallsOK == ASSUME CallsInv, ~done, NEW c \in Clients, Enqueue(c) PROVE CallsOK'
<1> DEFINE x == [op |-> cl[c].op, client |-> c, item |-> cl[c].item]
           n == Len(commands)
<1>1. /\ cl[c].pc = "send" /\ x.op \in Enqueues /\ UNCHANGED <<stack, done, reply>>
      /\ commands' \in {commands, Append(commands, x)}
      /\ \E r : cl' = Return(c, r)
  BY DEF Enqueue
<1> HIDE DEF x
<1>2. /\ commands \in Seq(Command) /\ cl \in [Clients -> CallState]
      /\ RunsOK(stack) /\ SentOnce(commands) /\ \A d \in Clients : CallOK(d)
  BY SeqFacts DEF CallsInv, CallsOK
<1>3. cl'[c].pc = "idle" /\ \A d \in Clients \ {c} : cl'[d] = cl[d]
  BY <1>1, <1>2 DEF Return, Call
<1>4. SentOnce(commands') /\ \A d : Sent(commands', d) => Sent(commands, d)
  <2>1. CASE commands' = commands
    BY <1>2, <2>1
  <2>2. CASE commands' = Append(commands, x)
    <3>1. /\ n \in Nat /\ DOMAIN commands = 1..n /\ DOMAIN commands' = 1..n + 1
          /\ commands'[n + 1] = x /\ \A i \in 1..n : commands'[i] = commands[i]
      BY <1>2, <2>2
    <3> HIDE DEF n
    <3>2. \A i \in 1..n + 1 : i \in 1..n \/ i = n + 1
      BY <3>1
    <3> QED BY <1>1, <1>2, <3>1, <3>2 DEF Sent, SentOnce
  <2> QED BY <1>1, <2>1, <2>2
<1>5. ~Serves(stack, c) /\ ~Sent(commands, c)
  BY <1>1, <1>2 DEF CallOK, Waits4Reply
<1>6. ASSUME NEW d \in Clients PROVE CallOK(d)'
  <2>1. CallOK(d) /\ (d = c \/ cl'[d] = cl[d])
    BY <1>2, <1>3
  <2> QED BY <1>1, <1>3, <1>4, <1>5, <2>1 DEF CallOK, Serves, Waits4Reply, ToSend
<1> QED BY <1>1, <1>2, <1>4, <1>6 DEF CallsOK

LEMMA ClientsCallsOK ==
    ASSUME CallsInv, NEW c \in Clients, Caller(c) \/ Client(c) PROVE CallsOK'
<1>1. cl \in [Clients -> CallState] /\ reply \in [Clients -> Results]
  BY SeqFacts DEF CallsInv
<1>2. UNCHANGED <<stack, done>>
  BY DEF Caller, Client, BeginCall, BeginEnqueue, CancelTimer, BeginClose, Send, Await,
         Enqueue, CloseOnce, CloseReturns
<1>3. CASE done
  BY <1>2, <1>3, DoneCallsOK
<1>4. CASE ~done
  <2>1. ASSUME NEW op \in Ops, BeginCall(c, op) PROVE CallsOK'
    <3>1. ~Pending(c)
      BY <1>4, <2>1, NotPending DEF BeginCall, MayCall, Waits4Reply
    <3>2. /\ \A d \in Clients \ {c} : cl'[d] = cl[d] /\ reply'[d] = reply[d]
          /\ reply'[c] = "none" /\ commands' = commands
      BY <1>1, <2>1 DEF BeginCall
    <3> QED BY <1>2, <1>4, <3>1, <3>2, ClientCallsOK
  <2>2. ASSUME NEW op \in Ops, NEW delay \in 0..1, BeginEnqueue(c, op, delay) PROVE CallsOK'
    <3>1. ~Pending(c)
      BY <1>4, <2>2, NotPending DEF BeginEnqueue, MayCall, Waits4Reply
    <3>2. /\ \A d \in Clients \ {c} : cl'[d] = cl[d] /\ reply'[d] = reply[d]
          /\ commands' = commands /\ cl'[c].pc \in {"idle", "send"} /\ cl'[c].op \in Enqueues
      BY <1>1, <2>2 DEF BeginEnqueue, Call
    <3>3. ~ToSend(c)'
      BY <3>2 DEF ToSend
    <3> QED BY <1>2, <1>4, <3>1, <3>2, <3>3, ClientCallsOK
  <2>3. CASE CancelTimer(c)
    BY <1>4, <2>3, LikeItself, LikeCallsOK DEF CancelTimer
  <2>4. CASE BeginClose(c)
    <3>1. ~Pending(c)
      BY <1>4, <2>4, NotPending DEF BeginClose, MayCall, Waits4Reply
    <3>2. /\ \A d \in Clients \ {c} : cl'[d] = cl[d] /\ reply'[d] = reply[d]
          /\ reply'[c] = "none" /\ commands' = commands
      BY <1>1, <2>4 DEF BeginClose
    <3> QED BY <1>2, <1>4, <3>1, <3>2, ClientCallsOK
  <2>5. CASE Send(c)
    BY <1>4, <2>5, SendCallsOK
  <2>6. CASE Await(c)
    <3>1. reply[c] # "none" /\ cl[c].pc = "await"
      BY <1>4, <2>6 DEF Await, Outcomes
    <3>2. ~Pending(c)
      BY <1>4, <3>1, NotPending DEF Waits4Reply
    <3>3. /\ \A d \in Clients \ {c} : cl'[d] = cl[d] /\ reply'[d] = reply[d]
          /\ cl'[c].pc \in {"idle", "waitdone"} /\ commands' = commands
      BY <1>1, <2>6 DEF Await, Goto, Return, Call
    <3>4. ~ToSend(c)'
      BY <3>3 DEF ToSend
    <3> QED BY <1>2, <1>4, <3>2, <3>3, <3>4, ClientCallsOK
  <2>7. CASE Enqueue(c)
    BY <1>4, <2>7, EnqueueCallsOK
  <2>8. CASE CloseOnce(c)
    <3>1. cl[c].pc = "once"
      BY <2>8 DEF CloseOnce
    <3>2. ~Pending(c)
      BY <1>4, <3>1, NotPending DEF Waits4Reply
    <3>3. reply[c] = "none"
      BY <1>4, <3>1 DEF CallsInv, CallsOK, CallOK, ToSend
    <3>4. /\ \A d \in Clients \ {c} : cl'[d] = cl[d] /\ reply'[d] = reply[d]
          /\ reply'[c] = reply[c] /\ commands' = commands
      BY <1>1, <2>8 DEF CloseOnce, Goto
    <3> QED BY <1>2, <1>4, <3>2, <3>3, <3>4, ClientCallsOK
  <2>9. CASE CloseReturns(c)
    BY <1>4, <2>9 DEF CloseReturns, Done
  <2> QED BY <2>1, <2>2, <2>3, <2>4, <2>5, <2>6, <2>7, <2>8, <2>9 DEF Caller, Client
<1> QED BY <1>3, <1>4

-------------------------------------------------------------------------------
\* Every step.

LEMMA InitCalls == Init => CallsOK
<1> SUFFICES ASSUME Init PROVE CallsOK
  OBVIOUS
<1> DEFINE f == NewFrame("owner", "top", None)
<1>1. /\ ~done /\ commands = <<>> /\ stack = <<f>> /\ DOMAIN stack = {1} /\ stack[1] = f
      /\ DOMAIN commands = {} /\ \A c \in Clients : cl[c].pc = "idle"
  BY DEF Init
<1>2. f.fn = "owner" /\ f.client = None
  BY DEF NewFrame
<1> HIDE DEF f
<1>3. RunsOK(stack) /\ SentOnce(commands)
  BY <1>1, <1>2 DEF RunsOK, SentOnce
<1>4. ASSUME NEW c \in Clients PROVE CallOK(c)
  <2>1. ~Serves(stack, c) /\ ~Sent(commands, c)
    BY <1>1, <1>2, ConstantsAssumption DEF Serves, Sent
  <2> QED BY <1>1, <2>1 DEF CallOK, ToSend
<1> QED BY <1>1, <1>3, <1>4 DEF CallsOK

\* The invariant is inductive: a call is in one place at a time, in the channel or on
\* the owner's stack, and its client waits for the reply it has not had yet.
THEOREM CallsInvHolds == Spec => []CallsInv
<1>1. Init => CallsOK
  BY InitCalls
<1>2. CallsInv /\ [Next]_vars => CallsOK'
  <2> SUFFICES ASSUME CallsInv, [Next]_vars PROVE CallsOK'
    OBVIOUS
  <2>1. CASE Owner
    BY <2>1, PumpingCallsOK, UserActsCallsOK, UserReturnsCallsOK, DisposingCallsOK DEF Owner
  <2>2. CASE \E c \in Clients : Caller(c) \/ Client(c)
    BY <2>2, ClientsCallsOK
  <2>3. CASE Tick \/ Quiet \/ UNCHANGED vars
    <3>1. UNCHANGED <<stack, done, commands, cl, reply>>
      BY <2>3 DEF Tick, Quiet, vars
    <3> QED BY <3>1, DoneCallsOK, LikeItself, LikeCallsOK
  <2> QED BY <2>1, <2>2, <2>3 DEF Next
<1>3. Inv /\ CallsOK <=> CallsInv
  BY DEF CallsInv
<1> QED BY <1>1, <1>2, <1>3, InvariantHolds, PTL DEF Spec

\* A synchronous call does not return while its task is on the owner's stack,
\* whoever closes or reloads the loop under it (call, handleCommand).
THEOREM CallsAreNotOrphaned == Spec => []NoOrphanCall
<1>1. CallsInv => NoOrphanCall
  <2> SUFFICES ASSUME CallsInv, NEW c \in Clients, cl[c].pc = "idle",
                      NEW i \in DOMAIN stack, stack[i].client = c
               PROVE  FALSE
    BY DEF NoOrphanCall
  <2>1. ~done
    BY DEF CallsInv, CallsOK
  <2>2. Serves(stack, c) /\ CallOK(c)
    BY <2>1 DEF Serves, CallsInv, CallsOK
  <2> QED BY <2>2 DEF CallOK, Waits4Reply
<1> QED BY <1>1, CallsInvHolds, PTL

-------------------------------------------------------------------------------
\* Where work is.

AllTimers == Timeouts \cup Intervals
Carries == Enqueues \cup {"RegisterResource"}
UsedOps == ClientOps \cup TaskOps \cup ResourceOps \cup InstallerOps
NoIntervals == Intervals \cap UsedOps = {}

\* The timers' frames of a stack, and how far each is.
Phase(f) == IF f.pc \in {"start", "finish"} THEN f.pc ELSE "body"
Fires(f, n) == IF f.fn = "timer" THEN {[at |-> n, item |-> f.item, phase |-> Phase(f)]} ELSE {}
Firing(s) == UNION {Fires(s[i], i) : i \in DOMAIN s}
Fired(S) == {f.item : f \in S}
Calls == Firing(stack)

Holds(c) == cl[c].pc = "send" /\ cl[c].op \in Carries
HandItems == {cl[c].item : c \in {d \in Clients : Holds(d)}}
SentItems == {commands[i].item : i \in {k \in DOMAIN commands : commands[k].op \in Carries}}
ItemsOf(s) == {s[i] : i \in DOMAIN s}
TaskItems == ItemsOf(tasks)
RanIds == {ran[i].id : i \in DOMAIN ran}

Stored == SentItems \cup TaskItems \cup timers \cup Fired(Calls)
Known  == HandItems \cup AcceptedItems \cup Stored

\* The same task, timer or resource: an interval that is queued again has another
\* deadline and place in the heap.
Same(x, y) == x.id = y.id /\ x.kind = y.kind /\ x.gen = y.gen /\ x.by = y.by

\* A command and a call carry an item of their own kind, and each place of work holds
\* the kinds that belong there.
KindsOK ==
    /\ \A c \in Clients : /\ cl[c].pc = "once" => cl[c].op = "Close"
                          /\ Holds(c) => cl[c].item.kind = cl[c].op /\ cl[c].item.by = c
    /\ \A i \in DOMAIN commands :
         commands[i].op \in Carries => commands[i].item.kind = commands[i].op
    /\ \A x \in TaskItems : x.kind = "Schedule"
    /\ \A x \in timers \cup Fired(Calls) : x.kind \in AllTimers

\* An id is given once.
IdOK(x) ==
    /\ x.id <= nextID /\ x.id <= MaxItems /\ x.gen <= generation /\ x.kind \in UsedOps
    /\ x.id \in jsTimers => x.kind \in JSTimers
    /\ x.id \in cancelled => x.kind # "Schedule"
IdsOK ==
    /\ \A x \in Known : IdOK(x)
    /\ \A x, y \in Known : x.id = y.id => Same(x, y)
    /\ \A id \in RanIds \cup cancelled \cup jsTimers : id <= nextID

\* A JavaScript timer is in the heap once, or its callback is on the stack once.
IsJS(x) == x.kind \in JSTimers
JSOnce ==
    /\ \A d, e \in timers : IsJS(e) /\ d.id = e.id => d = e
    /\ \A f \in Calls, e \in timers : IsJS(f.item) => f.item.id # e.id
    /\ \A f, g \in Calls : IsJS(f.item) /\ f.item.id = g.item.id => f = g

PhasesOK ==
    \A f \in Calls :
      /\ f.phase = "body" => f.item.id \in RanIds
      /\ f.phase = "finish" => IsJS(f.item) /\ f.item.id \in cancelled

\* A JavaScript timer that is not cancelled is one that clearTimeout can find.
JSKept ==
    \A x \in timers \cup Fired(Calls) : IsJS(x) /\ x.id \notin cancelled => x.id \in jsTimers

\* What is closed stays so until a Reload that found the loop open returns.
StateOK ==
    /\ state = "Closed" => closed
    /\ \A i \in DOMAIN stack : stack[i].fn = "reload" => stack[i].prev # "Closed"
    /\ generation > 0

WorkOK == KindsOK /\ IdsOK /\ JSOnce /\ PhasesOK /\ JSKept /\ StateOK

-------------------------------------------------------------------------------
\* The timers' frames of a stack that is pushed on, popped or goes on.

LEMMA AppendSeq ==
    ASSUME NEW s \in Seq(Frame), NEW f \in Frame
    PROVE  /\ Append(s, f) \in Seq(Frame) /\ Len(s) \in Nat /\ DOMAIN s = 1..Len(s)
           /\ Len(Append(s, f)) = Len(s) + 1 /\ DOMAIN Append(s, f) = 1..Len(s) + 1
           /\ Append(s, f)[Len(s) + 1] = f /\ \A i \in 1..Len(s) : Append(s, f)[i] = s[i]
  OBVIOUS

LEMMA AppendFiring ==
    ASSUME NEW s \in Seq(Frame), NEW f \in Frame
    PROVE  Firing(Append(s, f)) = Firing(s) \cup Fires(f, Len(s) + 1)
<1> DEFINE t == Append(s, f)
           n == Len(s)
<1>1. /\ n \in Nat /\ DOMAIN s = 1..n /\ DOMAIN t = 1..n + 1
      /\ t[n + 1] = f /\ \A i \in 1..n : t[i] = s[i]
  BY AppendSeq
<1> HIDE DEF t, n
<1>2. 1..n + 1 = 1..n \cup {n + 1}
  BY <1>1
<1>3. ASSUME NEW x \in Firing(t) PROVE x \in Firing(s) \cup Fires(f, n + 1)
  <2>1. PICK i \in DOMAIN t : x \in Fires(t[i], i)
    BY Zenon DEF Firing
  <2>2. CASE i = n + 1
    BY <1>1, <2>1, <2>2
  <2>3. CASE i # n + 1
    <3>1. i \in DOMAIN s /\ t[i] = s[i]
      BY <1>1, <1>2, <2>3
    <3>2. x \in Fires(s[i], i)
      BY <2>1, <3>1
    <3> QED BY <3>1, <3>2, Zenon DEF Firing
  <2> QED BY <2>2, <2>3
<1>4. ASSUME NEW x \in Firing(s) PROVE x \in Firing(t)
  <2>1. PICK i \in DOMAIN s : x \in Fires(s[i], i)
    BY Zenon DEF Firing
  <2>2. i \in DOMAIN t /\ x \in Fires(t[i], i)
    BY <1>1, <1>2, <2>1
  <2> QED BY <2>2, Zenon DEF Firing
<1>5. ASSUME NEW x \in Fires(f, n + 1) PROVE x \in Firing(t)
  <2>1. n + 1 \in DOMAIN t /\ x \in Fires(t[n + 1], n + 1)
    BY <1>1, <1>2, <1>5
  <2> QED BY <2>1, Zenon DEF Firing
<1> QED BY <1>3, <1>4, <1>5 DEF t, n

LEMMA FiringAt ==
    ASSUME NEW s, NEW f \in Firing(s)
    PROVE  /\ f.at \in DOMAIN s /\ s[f.at].fn = "timer" /\ s[f.at].item = f.item
           /\ f = [at |-> f.at, item |-> s[f.at].item, phase |-> Phase(s[f.at])]
           /\ f.phase = Phase(s[f.at])
  BY DEF Firing, Fires

LEMMA FiringHas ==
    ASSUME NEW s, NEW i \in DOMAIN s, s[i].fn = "timer"
    PROVE  [at |-> i, item |-> s[i].item, phase |-> Phase(s[i])] \in Firing(s)
  BY DEF Firing, Fires

\* The stack is its innermost frame on the rest.
LEMMA TopFiring ==
    ASSUME Inv, stack # <<>>
    PROVE  /\ stack = Append(Below, Top) /\ Len(stack) = Len(Below) + 1
           /\ Firing(stack) = Firing(Below) \cup Fires(Top, Len(stack))
           /\ \A f \in Firing(Below) : f.at # Len(stack)
<1>1. /\ stack \in Seq(Frame) /\ Len(stack) \in Nat /\ Len(stack) > 0
      /\ Top \in Frame /\ Below \in Seq(Frame) /\ Len(Below) = Len(stack) - 1
      /\ DOMAIN Below = 1..Len(stack) - 1 /\ \A i \in 1..Len(stack) - 1 : Below[i] = stack[i]
  BY SeqFacts
<1>2. stack = Append(Below, Top)
  BY <1>1 DEF Top, Below
<1>3. \A f \in Firing(Below) : f.at # Len(stack)
  BY <1>1, FiringAt
<1> QED BY <1>1, <1>2, <1>3, AppendFiring

\* The innermost frame goes on as f.
LEMMA GoOnFiring ==
    ASSUME Inv, stack # <<>>, NEW f \in Frame,
           Fires(f, Len(stack)) = Fires(Top, Len(stack))
    PROVE  /\ Append(Below, f) \in Seq(Frame) /\ Firing(Append(Below, f)) = Firing(stack)
           /\ Len(Append(Below, f)) = Len(stack)
<1>1. Below \in Seq(Frame) /\ Len(stack) = Len(Below) + 1
  BY SeqFacts, TopFiring
<1>2. Append(Below, f) \in Seq(Frame) /\ Len(Append(Below, f)) = Len(Below) + 1
  BY <1>1, AppendSeq
<1>3. Firing(Append(Below, f)) = Firing(Below) \cup Fires(f, Len(Below) + 1)
  BY <1>1, AppendFiring
<1>4. Firing(stack) = Firing(Below) \cup Fires(Top, Len(stack))
  BY TopFiring
<1> QED BY <1>1, <1>2, <1>3, <1>4

LEMMA NoFires == ASSUME NEW f, NEW n, f.fn # "timer" PROVE Fires(f, n) = {}
  BY DEF Fires

\* The innermost frame goes on at another point, or with another count.
LEMMA PlainGoOn ==
    ASSUME Inv, stack # <<>>, NEW f \in Frame, f.fn = Top.fn, f.item = Top.item,
           Top.fn # "timer" \/ {f.pc, Top.pc} \cap {"start", "finish"} = {}
    PROVE  Append(Below, f) \in Seq(Frame) /\ Firing(Append(Below, f)) = Calls
<1>1. Fires(f, Len(stack)) = Fires(Top, Len(stack))
  BY DEF Fires, Phase
<1> QED BY <1>1, GoOnFiring DEF Calls

LEMMA PlainGoTo ==
    ASSUME Inv, stack # <<>>, NEW pc \in Points,
           Top.fn # "timer" \/ {pc, Top.pc} \cap {"start", "finish"} = {}
    PROVE  GoTo(pc) \in Seq(Frame) /\ Firing(GoTo(pc)) = Calls
<1>1. Top \in Frame
  BY SeqFacts
<1>2. PICK f : f = [Top EXCEPT !.pc = pc]
  OBVIOUS
<1>3. f \in Frame /\ f.fn = Top.fn /\ f.item = Top.item /\ f.pc = pc
  BY <1>1, <1>2 DEF Frame
<1>4. GoTo(pc) = Append(Below, f)
  BY <1>2 DEF GoTo
<1> QED BY <1>3, <1>4, PlainGoOn

\* Another function is called, or one returns, that is not a timer's callback.
LEMMA PlainPush ==
    ASSUME NEW s \in Seq(Frame), NEW f \in Frame, f.fn # "timer"
    PROVE  Append(s, f) \in Seq(Frame) /\ Firing(Append(s, f)) = Firing(s)
<1>1. Append(s, f) \in Seq(Frame)
  OBVIOUS
<1>2. Firing(Append(s, f)) = Firing(s) \cup Fires(f, Len(s) + 1)
  BY AppendFiring
<1> QED BY <1>1, <1>2, NoFires

LEMMA PlainNew ==
    ASSUME NEW s \in Seq(Frame), NEW fn \in (Loops \cup Bodies \cup Disposals) \ {"timer"},
           NEW pc \in Points, NEW c \in Owners
    PROVE  /\ NewFrame(fn, pc, c) \in Frame
           /\ Append(s, NewFrame(fn, pc, c)) \in Seq(Frame)
           /\ Firing(Append(s, NewFrame(fn, pc, c))) = Firing(s)
<1>1. NewFrame(fn, pc, c) \in Frame /\ NewFrame(fn, pc, c).fn = fn
  BY NewFrameType DEF NewFrame
<1> QED BY <1>1, PlainPush

LEMMA PlainPop ==
    ASSUME Inv, stack # <<>>, Top.fn # "timer"
    PROVE  Firing(Below) = Calls
  BY TopFiring, NoFires DEF Calls

LEMMA FnsApart ==
    /\ Loops \subseteq (Loops \cup Bodies \cup Disposals) \ {"timer"}
    /\ Disposals \subseteq (Loops \cup Bodies \cup Disposals) \ {"timer"}
    /\ {"task", "do", "runTask", "nestedDo", "nestedContext", "resource", "installer"}
         \subseteq Bodies \ {"timer"}
    /\ None \in Owners /\ Clients \subseteq Owners
  BY DEF Loops, Bodies, Disposals, Owners

\* The frames a Run and a disposal push.
LEMMA PlainRun ==
    ASSUME NEW s \in Seq(Frame), NEW c \in Owners, EnterRun(c, s)
    PROVE  Calls' = Firing(s)
<1> DEFINE f == NewFrame("run", "top", c)
           g == NewFrame("runTask", "body", c)
<1>1. {"top", "body"} \subseteq Points /\ "run" \in Loops
  BY DEF Points, Loops
<1>2. f \in Frame /\ Append(s, f) \in Seq(Frame) /\ Firing(Append(s, f)) = Firing(s)
  BY <1>1, FnsApart, PlainNew
<1>3. g \in Frame /\ Firing(Append(Append(s, f), g)) = Firing(Append(s, f))
  <2>1. "runTask" \in (Loops \cup Bodies \cup Disposals) \ {"timer"} /\ Append(s, f) \in Seq(Frame)
    BY <1>2 DEF Bodies
  <2> HIDE DEF f
  <2> QED BY <1>1, <2>1, PlainNew
<1>4. stack' = Append(Append(s, f), g)
  <2>1. stack' = s \o <<f, g>>
    BY DEF EnterRun
  <2> HIDE DEF f, g
  <2> QED BY <1>2, <1>3, <2>1
<1> QED BY <1>2, <1>3, <1>4 DEF Calls

LEMMA PlainDisposal ==
    ASSUME Inv, NEW s \in Seq(Frame), NEW fn \in Disposals, NEW c \in Owners,
           BeginDisposal(fn, c, s)
    PROVE  Calls' = Firing(s)
<1> DEFINE f == Disposal(fn, c)
<1>1. f \in Frame /\ f.fn = fn
  <2>1. NewFrame(fn, "resources", c) \in Frame
    BY NewFrameType DEF Points
  <2>2. Len(resources) \in Nat /\ state \in States
    BY DEF Inv, TypeOK, StackTypes, StateTypes
  <2> QED BY <2>1, <2>2 DEF Disposal, NewFrame, Frame
<1>2. stack' = Append(s, f)
  BY DEF BeginDisposal
<1>3. fn # "timer"
  BY DEF Disposals
<1> HIDE DEF f
<1> QED BY <1>1, <1>2, <1>3, PlainPush DEF Calls

LEMMA PlainFailure ==
    ASSUME Inv, NEW s \in Seq(Frame), s # <<>>, s[Len(s)].fn # "timer", FailReload(s)
    PROVE  Calls' = Firing(s)
<1>1. Len(s) \in Nat /\ Len(s) > 0 /\ s[Len(s)] \in Frame /\ Len(resources) \in Nat
  BY DEF Inv, TypeOK, StackTypes
<1>2. PICK u : u = SubSeq(s, 1, Len(s) - 1)
  OBVIOUS
<1>3. u \in Seq(Frame) /\ s = Append(u, s[Len(s)])
  BY <1>1, <1>2
<1>4. PICK f : f = s[Len(s)]
  OBVIOUS
<1>5. PICK g : g = [f EXCEPT !.fn = "failedReload"]
  OBVIOUS
<1>6. PICK h : h = [g EXCEPT !.pc = "resources"]
  OBVIOUS
<1>7. PICK k : k = [h EXCEPT !.idx = Len(resources)]
  OBVIOUS
<1>8. stack' = Append(u, k)
  BY <1>2, <1>4, <1>5, <1>6, <1>7 DEF FailReload
<1>9. k \in Frame /\ k.fn = "failedReload"
  <2>1. f \in Frame
    BY <1>1, <1>4
  <2>2. g \in Frame /\ g.fn = "failedReload"
    BY <2>1, <1>5 DEF Frame, Disposals
  <2>3. h \in Frame /\ h.fn = "failedReload"
    BY <2>2, <1>6 DEF Frame, Points
  <2> QED BY <2>3, <1>1, <1>7 DEF Frame
<1>10. Firing(stack') = Firing(u)
  BY <1>3, <1>8, <1>9, PlainPush
<1>11. Firing(s) = Firing(u)
  <2>1. PICK w : w = s[Len(s)]
    OBVIOUS
  <2>2. s = Append(u, w) /\ w \in Frame /\ w.fn # "timer"
    BY <1>1, <1>3, <2>1
  <2> QED BY <1>3, <2>2, PlainPush
<1> QED BY <1>10, <1>11 DEF Calls

-------------------------------------------------------------------------------
\* The items of the channel and of the slices.

LEMMA AppendItems ==
    ASSUME NEW T, NEW s \in Seq(T), NEW x \in T
    PROVE  ItemsOf(Append(s, x)) = ItemsOf(s) \cup {x}
<1> DEFINE t == Append(s, x)
           n == Len(s)
<1>1. /\ n \in Nat /\ DOMAIN s = 1..n /\ DOMAIN t = 1..n + 1
      /\ t[n + 1] = x /\ \A i \in 1..n : t[i] = s[i]
  OBVIOUS
<1> HIDE DEF t, n
<1>2. ItemsOf(t) = ItemsOf(s) \cup {x}
  BY <1>1 DEF ItemsOf
<1> QED BY <1>2 DEF t

LEMMA TailItems ==
    ASSUME NEW T, NEW s \in Seq(T), s # <<>>
    PROVE  /\ Head(s) \in ItemsOf(s) /\ ItemsOf(Tail(s)) \subseteq ItemsOf(s)
           /\ ItemsOf(s) \subseteq ItemsOf(Tail(s)) \cup {Head(s)}
<1> DEFINE t == Tail(s)
           h == Head(s)
           n == Len(s)
<1>1. /\ n \in Nat /\ n > 0 /\ DOMAIN s = 1..n /\ DOMAIN t = 1..n - 1
      /\ h = s[1] /\ \A i \in 1..n - 1 : t[i] = s[i + 1]
  OBVIOUS
<1> HIDE DEF t, n, h
<1>2. h \in ItemsOf(s)
  BY <1>1 DEF ItemsOf
<1>3. ItemsOf(t) \subseteq ItemsOf(s)
  BY <1>1 DEF ItemsOf
<1>4. ASSUME NEW i \in 1..n PROVE s[i] \in ItemsOf(t) \cup {h}
  <2>1. CASE i = 1
    BY <1>1, <2>1
  <2>2. CASE i # 1
    <3>1. i - 1 \in 1..n - 1 /\ s[(i - 1) + 1] = s[i]
      BY <1>1, <2>2
    <3> QED BY <1>1, <3>1 DEF ItemsOf
  <2> QED BY <2>1, <2>2
<1>5. ItemsOf(s) \subseteq ItemsOf(t) \cup {h}
  BY <1>1, <1>4 DEF ItemsOf
<1> QED BY <1>2, <1>3, <1>5 DEF t, h

LEMMA AppendSent ==
    ASSUME Inv, NEW x \in Command, commands' = Append(commands, x)
    PROVE  /\ x.op \in Carries => SentItems' = SentItems \cup {x.item}
           /\ x.op \notin Carries => SentItems' = SentItems
<1> DEFINE n == Len(commands)
<1>1. commands \in Seq(Command)
  BY DEF Inv, TypeOK, ChannelTypes
<1>2. /\ n \in Nat /\ DOMAIN commands = 1..n /\ DOMAIN commands' = 1..n + 1
      /\ commands'[n + 1] = x /\ \A i \in 1..n : commands'[i] = commands[i]
  BY <1>1
<1> HIDE DEF n
<1>3. \A i \in DOMAIN commands' : i = n + 1 \/ (i \in DOMAIN commands /\ commands'[i] = commands[i])
  BY <1>2
<1>4. \A i \in DOMAIN commands : i \in DOMAIN commands' /\ commands'[i] = commands[i]
  BY <1>2
<1>5. n + 1 \in DOMAIN commands' /\ commands'[n + 1] = x
  BY <1>2
<1> QED BY <1>3, <1>4, <1>5 DEF SentItems

LEMMA TailSent ==
    ASSUME Inv, commands # <<>>, commands' = Tail(commands)
    PROVE  /\ SentItems' \subseteq SentItems
           /\ Head(commands).op \in Carries =>
                /\ Head(commands).item \in SentItems
                /\ SentItems \subseteq SentItems' \cup {Head(commands).item}
           /\ Head(commands).op \notin Carries => SentItems' = SentItems
<1> DEFINE n == Len(commands)
           h == Head(commands)
<1>1. commands \in Seq(Command)
  BY DEF Inv, TypeOK, ChannelTypes
<1>2. /\ n \in Nat /\ n > 0 /\ DOMAIN commands = 1..n /\ DOMAIN commands' = 1..n - 1
      /\ commands[1] = h /\ \A i \in 1..n - 1 : commands'[i] = commands[i + 1]
  BY <1>1
<1> HIDE DEF n, h
<1>3. ASSUME NEW i \in DOMAIN commands PROVE i = 1 \/ \E j \in DOMAIN commands' : commands'[j] = commands[i]
  <2>1. i = 1 \/ (i - 1 \in 1..n - 1 /\ (i - 1) + 1 = i)
    BY <1>2
  <2> QED BY <1>2, <2>1
<1>4. \A i \in DOMAIN commands' : i + 1 \in DOMAIN commands /\ commands'[i] = commands[i + 1]
  BY <1>2
<1>5. 1 \in DOMAIN commands
  BY <1>2
<1>6. SentItems' \subseteq SentItems
  BY <1>4 DEF SentItems
<1>7. ASSUME h.op \in Carries
      PROVE  h.item \in SentItems /\ SentItems \subseteq SentItems' \cup {h.item}
  BY <1>2, <1>3, <1>5, <1>7 DEF SentItems
<1>8. ASSUME h.op \notin Carries PROVE SentItems \subseteq SentItems'
  BY <1>2, <1>3, <1>5, <1>8 DEF SentItems
<1> QED BY <1>6, <1>7, <1>8 DEF h

\* Whatever is known is an item.
LEMMA KnownTypes == ASSUME Inv PROVE Known \subseteq Item /\ SentItems \subseteq Item
<1>1. HandItems \subseteq Item
  BY DEF HandItems, Inv, TypeOK, ClientTypes, CallState
<1>2. SentItems \subseteq Item
  <2>1. commands \in Seq(Command)
    BY DEF Inv, TypeOK, ChannelTypes
  <2>2. ASSUME NEW i \in DOMAIN commands PROVE commands[i].item \in Item
    <3>1. commands[i] \in Command
      BY <2>1
    <3> QED BY <3>1 DEF Command
  <2> QED BY <2>2 DEF SentItems
<1>3. TaskItems \subseteq Item /\ timers \subseteq Item
  BY DEF TaskItems, ItemsOf, Inv, TypeOK, WorkTypes
<1>4. AcceptedItems \subseteq Item
  BY DEF AcceptedItems, Inv, TypeOK, HistoryTypes
<1>5. Fired(Calls) \subseteq Item
  <2>1. ASSUME NEW f \in Calls PROVE f.item \in Item
    <3>1. f.at \in DOMAIN stack /\ f.item = stack[f.at].item
      BY FiringAt DEF Calls
    <3>2. stack \in Seq(Frame)
      BY SeqFacts
    <3>3. \A i \in DOMAIN stack : stack[i] \in Frame
      BY <3>2
    <3>4. PICK g \in Frame : f.item = g.item
      BY <3>1, <3>3
    <3> QED BY <3>4 DEF Frame
  <2> QED BY <2>1 DEF Fired
<1> QED BY <1>1, <1>2, <1>3, <1>4, <1>5 DEF Known, Stored

\* What a variable alone decides.
LEMMA SamePlaces ==
    /\ cl' = cl => HandItems' = HandItems
    /\ commands' = commands => SentItems' = SentItems
    /\ tasks' = tasks => TaskItems' = TaskItems
    /\ stack' = stack => Calls' = Calls
    /\ accepted' = accepted => AcceptedItems' = AcceptedItems
<1>1. cl' = cl => HandItems' = HandItems
  BY DEF HandItems, Holds
<1>2. commands' = commands => SentItems' = SentItems
  BY DEF SentItems
<1>3. tasks' = tasks => TaskItems' = TaskItems
  BY DEF TaskItems
<1>4. stack' = stack => Calls' = Calls
  BY DEF Calls
<1>5. accepted' = accepted => AcceptedItems' = AcceptedItems
  BY DEF AcceptedItems
<1> QED BY <1>1, <1>2, <1>3, <1>4, <1>5

-------------------------------------------------------------------------------
\* What a step does to the work and to its marks.

Open == ctx = generation /\ ~closed /\ ~Disposes

IsNew(x) ==
    /\ x.id = nextID + 1 /\ nextID' = nextID + 1 /\ nextID < MaxItems
    /\ x.gen = generation /\ x.kind \in UsedOps

Quietly ==
    UNCHANGED <<HandItems, SentItems, TaskItems, timers, Calls, AcceptedItems,
                ran, cancelled, jsTimers, nextID>>

\* The heap loses cancelled timers, or everything; or the owner returns.
Discards ==
    /\ timers' = Kept
    /\ UNCHANGED <<HandItems, SentItems, TaskItems, Calls, AcceptedItems,
                   ran, cancelled, jsTimers, nextID>>
Drops ==
    /\ DropWork /\ ~Open'
    /\ UNCHANGED <<HandItems, SentItems, Calls, AcceptedItems, ran, nextID>>
Leaves ==
    /\ Calls' = {} /\ closed /\ ~Open'
    /\ UNCHANGED <<HandItems, SentItems, TaskItems, timers, AcceptedItems,
                   ran, cancelled, jsTimers, nextID>>

\* A client makes an item, sends it, or is refused; and someone cancels a timer.
Begins(x) ==
    /\ IsNew(x) /\ x.by \in Clients /\ HandItems' \subseteq HandItems \cup {x}
    /\ UNCHANGED <<SentItems, TaskItems, timers, Calls, AcceptedItems,
                   ran, cancelled, jsTimers>>
HandsOver(x) ==
    x \in HandItems /\ HandItems' \subseteq HandItems /\ \A y \in HandItems' : y.by # x.by
Sends(x) ==
    /\ HandsOver(x) /\ SentItems' = SentItems \cup {x}
    /\ AcceptedItems' = AcceptedItems \/ AcceptedItems' = AcceptedItems \cup {x}
    /\ UNCHANGED <<TaskItems, timers, Calls, ran, cancelled, jsTimers, nextID>>
Refused(x) ==
    /\ HandsOver(x)
    /\ cancelled' = cancelled \/ (x.kind # "Schedule" /\ ~IsJS(x) /\ cancelled' = cancelled \cup {x.id})
    /\ UNCHANGED <<SentItems, TaskItems, timers, Calls, AcceptedItems,
                   ran, jsTimers, nextID>>
Cancels(x) ==
    /\ x \in AcceptedItems /\ x.kind # "Schedule" /\ ~IsJS(x)
    /\ cancelled' = cancelled \cup {x.id}
    /\ UNCHANGED <<HandItems, SentItems, TaskItems, timers, Calls, AcceptedItems,
                   ran, jsTimers, nextID>>

\* The owner takes a command that carries an item.
Takes(x) ==
    /\ x \in SentItems /\ SentItems' \subseteq SentItems
    /\ SentItems \subseteq SentItems' \cup {x}
Queues(x) ==
    /\ Takes(x) /\ x.kind = "Schedule"
    /\ \/ TaskItems' = TaskItems \cup {x}
       \/ TaskItems' = TaskItems /\ (state = "Closed" \/ x.gen # generation)
    /\ UNCHANGED <<HandItems, timers, Calls, AcceptedItems, ran, cancelled, jsTimers, nextID>>
Arms(x) ==
    /\ Takes(x) /\ x.kind \in AllTimers \ JSTimers
    /\ \/ timers' = timers \cup {x} /\ UNCHANGED cancelled
       \/ cancelled' = cancelled \cup {x.id} /\ UNCHANGED timers
    /\ UNCHANGED <<HandItems, TaskItems, Calls, AcceptedItems, ran, jsTimers, nextID>>
Registers(x) ==
    /\ \/ Takes(x) /\ UNCHANGED nextID
       \/ IsNew(x) /\ x.by = None /\ UNCHANGED SentItems
    /\ x.kind = "RegisterResource"
    /\ AcceptedItems' = AcceptedItems \/ AcceptedItems' = AcceptedItems \cup {x}
    /\ UNCHANGED <<HandItems, TaskItems, timers, Calls, ran, cancelled, jsTimers>>

\* User code queues an item, adds a JavaScript timer, or clears one.
Posts(x) ==
    /\ IsNew(x) /\ x.by \in {None, "job"} /\ ~IsJS(x)
    /\ \/ SentItems' = SentItems \cup {x} /\ AcceptedItems' = AcceptedItems \cup {x}
          /\ UNCHANGED cancelled
       \/ /\ cancelled' = cancelled \/ (x.kind # "Schedule" /\ cancelled' = cancelled \cup {x.id})
          /\ UNCHANGED <<SentItems, AcceptedItems>>
    /\ UNCHANGED <<HandItems, TaskItems, timers, Calls, ran, jsTimers>>
AddsJS(x) ==
    /\ IsNew(x) /\ x.by \in {None, "job"} /\ IsJS(x) /\ ctx # 0
    /\ timers' = timers \cup {x} /\ jsTimers' = jsTimers \cup {x.id}
    /\ AcceptedItems' = AcceptedItems \cup {x}
    /\ UNCHANGED <<HandItems, SentItems, TaskItems, Calls, ran, cancelled>>
ClearsJS(id) ==
    /\ id \in jsTimers /\ jsTimers' = jsTimers \ {id} /\ cancelled' = cancelled \cup {id}
    /\ UNCHANGED <<HandItems, SentItems, TaskItems, timers, Calls, AcceptedItems, ran, nextID>>

\* A task starts; a timer leaves the heap, its callback starts, or returns.
RunsTask(x) ==
    /\ x \in TaskItems /\ TaskItems' \subseteq TaskItems
    /\ TaskItems \subseteq TaskItems' \cup {x} /\ ran' = Append(ran, Start(x))
    /\ UNCHANGED <<HandItems, SentItems, timers, Calls, AcceptedItems, cancelled, jsTimers, nextID>>
Pops(x) ==
    /\ x \in Due /\ timers' = Kept \ {x}
    /\ \/ /\ x.gen # generation /\ cancelled' = cancelled \cup {x.id}
          /\ UNCHANGED Calls
       \/ /\ x.gen = generation /\ UNCHANGED cancelled
          /\ state' = "Running"
          /\ \E g : /\ g.item = x /\ g.phase = "start" /\ g.at = Len(stack')
                    /\ Calls' = Calls \cup {g}
    /\ UNCHANGED <<HandItems, SentItems, TaskItems, AcceptedItems, ran, jsTimers, nextID>>
Begun(f, phase) ==
    \E g : g.item = f.item /\ g.phase = phase /\ Calls' = (Calls \ {f}) \cup {g}
Starts(f) ==
    /\ f \in Calls /\ f.phase = "start"
    /\ \/ /\ IsJS(f.item) /\ (f.item.id \notin jsTimers \/ f.item.id \in cancelled)
          /\ Begun(f, "finish") /\ jsTimers' = jsTimers \ {f.item.id} /\ UNCHANGED ran
       \/ /\ ~(IsJS(f.item) /\ (f.item.id \notin jsTimers \/ f.item.id \in cancelled))
          /\ Begun(f, "body") /\ ran' = Append(ran, Start(f.item)) /\ UNCHANGED jsTimers
    /\ UNCHANGED <<HandItems, SentItems, TaskItems, timers, AcceptedItems, cancelled, nextID>>
Returns(f) ==
    /\ f \in Calls /\ f.phase # "start" /\ Calls' = Calls \ {f}
    /\ jsTimers' = IF f.item.kind = "jsTimeout" THEN jsTimers \ {f.item.id} ELSE jsTimers
    /\ IF f.item.kind \in Intervals /\ f.item.id \notin cancelled /\ state = "Running"
       THEN nextID' = nextID + 1 /\ \E e \in Item : Same(e, f.item) /\ timers' = timers \cup {e}
       ELSE UNCHANGED <<timers, nextID>>
    /\ UNCHANGED <<HandItems, SentItems, TaskItems, AcceptedItems, ran, cancelled>>

Effect ==
    \/ Quietly \/ Discards \/ Drops \/ Leaves
    \/ \E x \in Item : \/ Begins(x) \/ Sends(x) \/ Refused(x) \/ Cancels(x)
                       \/ Queues(x) \/ Arms(x) \/ Registers(x)
                       \/ Posts(x) \/ AddsJS(x) \/ RunsTask(x) \/ Pops(x)
    \/ \E id \in Nat : ClearsJS(id)
    \/ \E f \in Calls : Starts(f) \/ Returns(f)

-------------------------------------------------------------------------------
\* What the clients' steps do.

Others(c) == {cl[d].item : d \in {k \in Clients : k # c /\ Holds(k)}}

NowHolds(c, v) ==
    /\ v.pc = "send" /\ v.op \in Carries => HandItems' = Others(c) \cup {v.item}
    /\ ~(v.pc = "send" /\ v.op \in Carries) => HandItems' = Others(c)
    /\ Others(c) \subseteq HandItems /\ \A x \in Others(c) : x.by # c
    /\ Holds(c) => cl[c].item \in HandItems /\ cl[c].item.by = c
    /\ ~Holds(c) => HandItems = Others(c)

LEMMA HandsExcept ==
    ASSUME Inv, KindsOK, NEW c \in Clients, NEW v, cl' = [cl EXCEPT ![c] = v]
    PROVE  NowHolds(c, v)
<1>1. /\ cl \in [Clients -> CallState] /\ cl'[c] = v
      /\ \A d \in Clients : d # c => cl'[d] = cl[d]
  BY SeqFacts
<1>2. \A x \in Others(c) : x.by # c
  BY DEF Others, KindsOK
<1>3. Others(c) \subseteq HandItems /\ (~Holds(c) => HandItems = Others(c))
  BY DEF Others, HandItems
<1>4. Holds(c) => cl[c].item \in HandItems /\ cl[c].item.by = c
  BY DEF KindsOK, HandItems
<1>5. (v.pc = "send" /\ v.op \in Carries) <=> Holds(c)'
  BY <1>1 DEF Holds
<1>6. \A d \in Clients : d # c => (Holds(d)' <=> Holds(d)) /\ cl'[d] = cl[d]
  BY <1>1 DEF Holds
<1>7. Holds(c)' => HandItems' = Others(c) \cup {v.item}
  BY <1>1, <1>6 DEF HandItems, Others
<1>8. ~Holds(c)' => HandItems' = Others(c)
  BY <1>1, <1>6 DEF HandItems, Others
<1> QED BY <1>2, <1>3, <1>4, <1>5, <1>7, <1>8 DEF NowHolds

LEMMA BeginCallEffect ==
    ASSUME Inv, KindsOK, NEW c \in Clients, NEW op \in Ops, BeginCall(c, op)
    PROVE  Effect
<1>1. /\ cl[c].pc = "idle" /\ op \in ClientOps /\ op \in GuardedCalls \cup ContextCalls
      /\ UNCHANGED <<commands, tasks, timers, stack, accepted, ran, cancelled, jsTimers>>
  BY DEF BeginCall, MayCall
<1>2. ~Holds(c)
  BY <1>1 DEF Holds
<1>3. PICK v : /\ cl' = [cl EXCEPT ![c] = v]
               /\ v = IF op \in GuardedCalls /\ closed
                      THEN Call("idle", op, NoItem, "ErrClosed")
                      ELSE Call("send", op, IF op = "RegisterResource"
                                            THEN NewItem(op, 0, c) ELSE NoItem, "none")
  BY DEF BeginCall
<1>4. CASE op = "RegisterResource"
  <2>1. PICK n \in Item : n = NewItem(op, 0, c)
    BY NewItemType, MakerFacts DEF Inv, Owners
  <2>2. n.id = nextID + 1 /\ n.gen = generation /\ n.kind = op /\ n.by = c
    BY <2>1 DEF NewItem
  <2>3. nextID' = nextID + 1 /\ nextID < MaxItems
    BY <1>4 DEF BeginCall
  <2>4. v.pc = "send" => v.item = n
    BY <1>3, <1>4, <2>1 DEF Call
  <2>5. HandItems' \subseteq HandItems \cup {n}
    <3>1. NowHolds(c, v)
      BY <1>3, HandsExcept
    <3> QED BY <1>2, <2>4, <3>1 DEF NowHolds
  <2>6. IsNew(n)
    BY <1>1, <2>2, <2>3 DEF IsNew, UsedOps
  <2>7. Begins(n)
    BY <1>1, <2>2, <2>5, <2>6, SamePlaces DEF Begins
  <2> QED BY <2>1, <2>7 DEF Effect
<1>5. CASE op # "RegisterResource"
  <2>1. op \notin Carries
    BY <1>1, <1>5 DEF Carries, Enqueues, GuardedCalls, ContextCalls
  <2>2. v.op = op
    BY <1>3 DEF Call
  <2>3. HandItems' = HandItems
    <3>1. NowHolds(c, v)
      BY <1>3, HandsExcept
    <3> QED BY <1>2, <2>1, <2>2, <3>1 DEF NowHolds
  <2>4. nextID' = nextID
    BY <1>5 DEF BeginCall
  <2>5. Quietly
    BY <1>1, <2>3, <2>4, SamePlaces DEF Quietly
  <2> QED BY <2>5 DEF Effect
<1> QED BY <1>4, <1>5

LEMMA BeginEnqueueEffect ==
    ASSUME Inv, KindsOK, NEW c \in Clients, NEW op \in Ops, NEW delay \in 0..1,
           BeginEnqueue(c, op, delay)
    PROVE  Effect
<1>1. /\ cl[c].pc = "idle" /\ op \in ClientOps /\ op \in Enqueues
      /\ nextID' = nextID + 1 /\ nextID < MaxItems
      /\ UNCHANGED <<commands, tasks, timers, stack, accepted, ran, cancelled, jsTimers>>
  BY DEF BeginEnqueue, MayCall, MayCreate
<1>2. ~Holds(c)
  BY <1>1 DEF Holds
<1>3. PICK n \in Item : n = NewItem(op, delay, c)
  BY NewItemType, MakerFacts DEF Inv, Owners
<1>4. PICK v : /\ cl' = [cl EXCEPT ![c] = v]
               /\ v = IF closed THEN Call("idle", op, NoItem, "false")
                                ELSE Call("send", op, n, "none")
  BY <1>3 DEF BeginEnqueue
<1>5. v.pc = "send" => v.item = n
  BY <1>4 DEF Call
<1>6. HandItems' \subseteq HandItems \cup {n}
  <2>1. NowHolds(c, v)
    BY <1>4, HandsExcept
  <2> QED BY <1>2, <1>5, <2>1 DEF NowHolds
<1>7. n.id = nextID + 1 /\ n.gen = generation /\ n.kind = op /\ n.by = c
  BY <1>3 DEF NewItem
<1>8. IsNew(n)
  BY <1>1, <1>7 DEF IsNew, UsedOps
<1>9. Begins(n)
  BY <1>1, <1>6, <1>7, <1>8, SamePlaces DEF Begins
<1> QED BY <1>9 DEF Effect

\* A call that carries no item.
LEMMA EmptyHand ==
    ASSUME Inv, KindsOK, NEW c \in Clients, NEW v, cl' = [cl EXCEPT ![c] = v],
           ~Holds(c), ~(v.pc = "send" /\ v.op \in Carries)
    PROVE  HandItems' = HandItems
<1>1. NowHolds(c, v)
  BY HandsExcept
<1> QED BY <1>1 DEF NowHolds

\* A call that goes on, or returns, is the same operation.
LEMMA CallGoesOn ==
    ASSUME NEW c \in Clients, NEW pc, cl' = Goto(c, pc)
    PROVE  \E v : cl' = [cl EXCEPT ![c] = v] /\ v.pc = pc /\ v.op = cl[c].op
<1>1. PICK v : v = Call(pc, cl[c].op, cl[c].item, cl[c].res)
  OBVIOUS
<1>2. cl' = [cl EXCEPT ![c] = v]
  BY <1>1 DEF Goto
<1>3. v.pc = pc /\ v.op = cl[c].op
  BY <1>1 DEF Call
<1> QED BY <1>2, <1>3

LEMMA CallReturns ==
    ASSUME NEW c \in Clients, NEW r, cl' = Return(c, r)
    PROVE  \E v : cl' = [cl EXCEPT ![c] = v] /\ v.pc = "idle"
<1>1. PICK v : v = Call("idle", cl[c].op, NoItem, r)
  OBVIOUS
<1>2. cl' = [cl EXCEPT ![c] = v]
  BY <1>1 DEF Return
<1>3. v.pc = "idle"
  BY <1>1 DEF Call
<1> QED BY <1>2, <1>3

LEMMA SendEffect ==
    ASSUME Inv, KindsOK, NEW c \in Clients, Send(c)
    PROVE  Effect
<1> DEFINE m == cl[c].item
           cmd == [op |-> cl[c].op, client |-> c, item |-> m]
<1>1. /\ cl[c].pc = "send" /\ cl[c].op \notin Enqueues
      /\ UNCHANGED <<tasks, timers, stack, accepted, ran, cancelled, jsTimers, nextID>>
  BY DEF Send
<1>2. cl \in [Clients -> CallState] /\ m \in Item /\ cmd \in Command
      /\ cmd.op = cl[c].op /\ cmd.item = m
  BY SeqFacts DEF CallState, Command, Owners
<1>3. PICK v : cl' = [cl EXCEPT ![c] = v] /\ v.pc # "send"
               /\ (commands' = commands \/ commands' = Append(commands, cmd))
  <2>1. commands' = commands \/ commands' = Append(commands, cmd)
    BY DEF Send
  <2>2. cl' = Goto(c, "await") \/ cl' = Return(c, "ErrClosed")
    BY DEF Send
  <2> QED BY <2>1, <2>2, CallGoesOn, CallReturns
<1> HIDE DEF m, cmd
<1>4. SentItems' = SentItems \/ (cl[c].op \in Carries /\ SentItems' = SentItems \cup {m})
  BY <1>2, <1>3, AppendSent, SamePlaces
<1>5. CASE cl[c].op \notin Carries
  <2>1. HandItems' = HandItems
    BY <1>3, <1>5, EmptyHand DEF Holds
  <2>2. Quietly
    BY <1>1, <1>4, <1>5, <2>1, SamePlaces DEF Quietly
  <2> QED BY <2>2 DEF Effect
<1>6. CASE cl[c].op \in Carries
  <2>1. Holds(c)
    BY <1>1, <1>6 DEF Holds
  <2>2. HandsOver(m)
    <3>1. NowHolds(c, v)
      BY <1>3, HandsExcept
    <3> QED BY <1>3, <2>1, <3>1 DEF NowHolds, HandsOver, m
  <2>3. CASE SentItems' = SentItems
    <3>1. Refused(m)
      BY <1>1, <2>2, <2>3, SamePlaces DEF Refused
    <3> QED BY <1>2, <3>1 DEF Effect
  <2>4. CASE SentItems' = SentItems \cup {m}
    <3>1. Sends(m)
      BY <1>1, <2>2, <2>4, SamePlaces DEF Sends
    <3> QED BY <1>2, <3>1 DEF Effect
  <2> QED BY <1>4, <2>3, <2>4
<1> QED BY <1>5, <1>6

LEMMA EnqueueEffect ==
    ASSUME Inv, KindsOK, NEW c \in Clients, Enqueue(c)
    PROVE  Effect
<1> DEFINE m == cl[c].item
           cmd == [op |-> cl[c].op, client |-> c, item |-> m]
<1>1. /\ cl[c].pc = "send" /\ cl[c].op \in Enqueues
      /\ UNCHANGED <<tasks, timers, stack, ran, jsTimers, nextID>>
  BY DEF Enqueue
<1>2. cl \in [Clients -> CallState] /\ m \in Item /\ cmd \in Command
      /\ cmd.op = cl[c].op /\ cmd.item = m
  BY SeqFacts DEF CallState, Command, Owners
<1>3. Holds(c) /\ m.kind = cl[c].op /\ cl[c].op \in Carries
  BY <1>1 DEF Holds, Carries, KindsOK
<1>4. PICK v : cl' = [cl EXCEPT ![c] = v] /\ v.pc # "send"
  <2>1. cl' = Return(c, "true") \/ cl' = Return(c, "false")
    BY DEF Enqueue
  <2> QED BY <2>1, CallReturns
<1>5. HandsOver(m)
  <2>1. NowHolds(c, v)
    BY <1>4, HandsExcept
  <2> QED BY <1>3, <1>4, <2>1 DEF NowHolds, HandsOver
<1>6. ~IsJS(m)
  BY <1>1, <1>3 DEF IsJS, Enqueues, JSTimers
<1>7. \/ /\ commands' = Append(commands, cmd) /\ accepted' = Append(accepted, m)
         /\ cancelled' = cancelled
      \/ /\ UNCHANGED <<commands, accepted>>
         /\ cancelled' = IF cl[c].op = "Schedule" THEN cancelled ELSE cancelled \cup {m.id}
  BY DEF Enqueue
<1> HIDE DEF m, cmd
<1>8. CASE /\ commands' = Append(commands, cmd) /\ accepted' = Append(accepted, m)
           /\ cancelled' = cancelled
  <2>1. SentItems' = SentItems \cup {m}
    BY <1>2, <1>3, <1>8, AppendSent
  <2>2. AcceptedItems' = AcceptedItems \cup {m}
    <3>1. accepted \in Seq(Item)
      BY DEF Inv, TypeOK, HistoryTypes
    <3>2. ItemsOf(Append(accepted, m)) = ItemsOf(accepted) \cup {m}
      BY <1>2, <3>1, AppendItems
    <3> QED BY <1>8, <3>2 DEF AcceptedItems, ItemsOf
  <2>3. Sends(m)
    BY <1>1, <1>5, <1>8, <2>1, <2>2, SamePlaces DEF Sends
  <2> QED BY <1>2, <2>3 DEF Effect
<1>9. CASE /\ UNCHANGED <<commands, accepted>>
           /\ cancelled' = IF cl[c].op = "Schedule" THEN cancelled ELSE cancelled \cup {m.id}
  <2>1. Refused(m)
    BY <1>1, <1>3, <1>5, <1>6, <1>9, SamePlaces DEF Refused
  <2> QED BY <1>2, <2>1 DEF Effect
<1> QED BY <1>7, <1>8, <1>9

LEMMA OtherCallsEffect ==
    ASSUME Inv, KindsOK, NEW c \in Clients,
           Await(c) \/ BeginClose(c) \/ CloseOnce(c) \/ CloseReturns(c)
    PROVE  Effect
<1>1. UNCHANGED <<commands, tasks, timers, stack, accepted, ran, cancelled, jsTimers, nextID>>
  BY DEF Await, BeginClose, CloseOnce, CloseReturns, MayCall
<1>2. \E v : cl' = [cl EXCEPT ![c] = v] /\ ~(v.pc = "send" /\ v.op \in Carries)
  <2>1. CASE Await(c)
    <3>1. (\E r : cl' = Return(c, r)) \/ cl' = Goto(c, "waitdone")
      BY <2>1 DEF Await
    <3>2. PICK v : cl' = [cl EXCEPT ![c] = v] /\ v.pc \in {"idle", "waitdone"}
      BY <3>1, CallGoesOn, CallReturns
    <3> QED BY <3>2
  <2>2. CASE BeginClose(c)
    <3>1. PICK v : v = Call("once", "Close", NoItem, "none")
      OBVIOUS
    <3>2. cl' = [cl EXCEPT ![c] = v] /\ v.pc = "once"
      BY <2>2, <3>1 DEF BeginClose, Call
    <3> QED BY <3>2
  <2>3. CASE CloseOnce(c)
    <3>1. cl[c].op = "Close"
      BY <2>3 DEF CloseOnce, KindsOK
    <3>2. \E pc : cl' = Goto(c, pc)
      BY <2>3 DEF CloseOnce
    <3>3. PICK v : cl' = [cl EXCEPT ![c] = v] /\ v.op = "Close"
      BY <3>1, <3>2, CallGoesOn
    <3> QED BY <3>3 DEF Carries, Enqueues
  <2>4. CASE CloseReturns(c)
    <3>1. PICK v : cl' = [cl EXCEPT ![c] = v] /\ v.pc = "idle"
      BY <2>4, CallReturns DEF CloseReturns
    <3> QED BY <3>1
  <2> QED BY <2>1, <2>2, <2>3, <2>4
<1>3. ~Holds(c)
  <2>1. cl[c].pc # "send"
    BY DEF Await, BeginClose, CloseOnce, CloseReturns, MayCall, Done
  <2> QED BY <2>1 DEF Holds
<1>4. HandItems' = HandItems
  BY <1>2, <1>3, EmptyHand
<1>5. Quietly
  BY <1>1, <1>4, SamePlaces DEF Quietly
<1> QED BY <1>5 DEF Effect

LEMMA CancelEffect ==
    ASSUME Inv, UserCancel \/ \E c \in Clients : CancelTimer(c)
    PROVE  Effect
<1>1. /\ UNCHANGED <<cl, commands, tasks, timers, stack, accepted, ran, jsTimers, nextID>>
      /\ \E a \in Cancellable : cancelled' = cancelled \cup {a.id}
  BY DEF UserCancel, CancelTimer
<1>2. PICK a \in Cancellable : cancelled' = cancelled \cup {a.id}
  BY <1>1
<1>3. a \in AcceptedItems /\ a.kind # "Schedule" /\ ~IsJS(a)
  BY DEF Cancellable, IsJS, JSTimers
<1>4. a \in Item
  BY <1>3, AcceptedType DEF Inv, TypeOK
<1>5. Cancels(a)
  BY <1>1, <1>2, <1>3, SamePlaces DEF Cancels
<1> QED BY <1>4, <1>5 DEF Effect

LEMMA ClientEffect ==
    ASSUME Inv, KindsOK, NEW c \in Clients, Caller(c) \/ Client(c)
    PROVE  Effect
<1>1. CASE Caller(c)
  <2>1. CASE \E op \in Ops : BeginCall(c, op)
    BY <2>1, BeginCallEffect
  <2>2. CASE \E op \in Ops : \E delay \in 0..1 : BeginEnqueue(c, op, delay)
    BY <2>2, BeginEnqueueEffect
  <2>3. CASE CancelTimer(c)
    BY <2>3, CancelEffect
  <2>4. CASE BeginClose(c)
    BY <2>4, OtherCallsEffect
  <2> QED BY <1>1, <2>1, <2>2, <2>3, <2>4 DEF Caller
<1>2. CASE Client(c)
  <2>1. CASE Send(c)
    BY <2>1, SendEffect
  <2>2. CASE Enqueue(c)
    BY <2>2, EnqueueEffect
  <2> QED BY <1>2, <2>1, <2>2, OtherCallsEffect DEF Client
<1> QED BY <1>1, <1>2

-------------------------------------------------------------------------------
\* What the owner's steps do: the commands it receives.

\* The owner goes on at a stack with the same timers' frames.
GoesOn(s) == s \in Seq(Frame) /\ Firing(s) = Calls

LEMMA StatePlaces ==
    ASSUME Inv
    PROVE  tasks \in Seq(Item) /\ accepted \in Seq(Item) /\ commands \in Seq(Command)
           /\ AcceptedItems = ItemsOf(accepted) /\ TaskItems = ItemsOf(tasks)
           /\ AcceptedItems' = ItemsOf(accepted') /\ TaskItems' = ItemsOf(tasks')
  BY DEF Inv, TypeOK, WorkTypes, HistoryTypes, ChannelTypes, AcceptedItems, ItemsOf, TaskItems

LEMMA DisposalShuts ==
    ASSUME Inv, NEW s \in Seq(Frame), NEW fn \in Disposals, NEW c \in Owners,
           BeginDisposal(fn, c, s)
    PROVE  Disposes'
<1> DEFINE f == Disposal(fn, c)
<1>1. f.pc = "resources" /\ f \in Frame
  <2>1. NewFrame(fn, "resources", c) \in Frame
    BY NewFrameType DEF Points
  <2>2. Len(resources) \in Nat /\ state \in States
    BY DEF Inv, TypeOK, StackTypes, StateTypes
  <2> QED BY <2>1, <2>2 DEF Disposal, NewFrame, Frame
<1>2. stack' = Append(s, f)
  BY DEF BeginDisposal
<1> HIDE DEF f
<1>3. Len(s) + 1 \in DOMAIN stack' /\ stack'[Len(s) + 1] = f
  BY <1>1, <1>2
<1> QED BY <1>1, <1>3 DEF Disposes

LEMMA ReceiveEffect ==
    ASSUME Inv, KindsOK, NEW s, GoesOn(s), Receive(s)
    PROVE  Effect
<1> DEFINE cmd == Head(commands)
           m == cmd.item
<1>1. /\ commands # <<>> /\ commands' = Tail(commands) /\ HandleCommand(cmd, s)
      /\ UNCHANGED <<cl, nextID, ran>>
  BY DEF Receive, HandleCommand
<1>2. cmd \in Command /\ m \in Item /\ cmd.client \in Owners
  <2>1. cmd \in Command
    BY <1>1, StatePlaces
  <2> QED BY <2>1 DEF Command
<1>3. /\ SentItems' \subseteq SentItems
      /\ cmd.op \in Carries => Takes(m)
      /\ cmd.op \notin Carries => SentItems' = SentItems
  BY <1>1, TailSent DEF Takes
<1>4. cmd.op \in Carries => m.kind = cmd.op
  <2>1. 1 \in DOMAIN commands /\ commands[1] = cmd
    BY <1>1, StatePlaces
  <2> QED BY <2>1 DEF KindsOK
<1>5. s \in Seq(Frame) /\ Firing(s) = Calls
  BY DEF GoesOn
<1>6. stack' = s => Calls' = Calls
  BY <1>5 DEF Calls
<1> HIDE DEF cmd, m
<1>7. CASE HandleSchedule(cmd, s)
  <2>1. /\ cmd.op = "Schedule" /\ tasks' = TasksWith(m) /\ stack' = s
        /\ UNCHANGED <<timers, cancelled, jsTimers, accepted>>
    BY <1>7 DEF HandleSchedule, m
  <2>2. TaskItems' = TaskItems \cup {m}
        \/ (TaskItems' = TaskItems /\ (state = "Closed" \/ m.gen # generation))
    <3>1. CASE state # "Closed" /\ m.gen = generation
      <4>1. tasks' = Append(tasks, m)
        BY <2>1, <3>1 DEF TasksWith
      <4> QED BY <1>2, <4>1, StatePlaces, AppendItems
    <3>2. CASE ~(state # "Closed" /\ m.gen = generation)
      <4>1. tasks' = tasks
        BY <2>1, <3>2 DEF TasksWith
      <4> QED BY <3>2, <4>1, SamePlaces
    <3> QED BY <3>1, <3>2
  <2>3. Queues(m)
    BY <1>1, <1>3, <1>4, <1>6, <2>1, <2>2, SamePlaces DEF Queues, Carries, Enqueues
  <2> QED BY <1>2, <2>3 DEF Effect
<1>8. CASE HandleAddTimer(cmd, s)
  <2>1. /\ cmd.op \in {"SetTimeout", "SetInterval"} /\ stack' = s
        /\ UNCHANGED <<tasks, jsTimers, accepted>>
        /\ \/ timers' = timers \cup {m} /\ UNCHANGED cancelled
           \/ cancelled' = cancelled \cup {m.id} /\ UNCHANGED timers
    BY <1>8 DEF HandleAddTimer, m
  <2>2. m.kind \in AllTimers \ JSTimers /\ Takes(m)
    BY <1>3, <1>4, <2>1 DEF AllTimers, Timeouts, Intervals, JSTimers, Carries, Enqueues
  <2>3. Arms(m)
    BY <1>1, <1>6, <2>1, <2>2, SamePlaces DEF Arms
  <2> QED BY <1>2, <2>3 DEF Effect
<1>9. CASE HandleRegisterResource(cmd, s)
  <2>1. /\ cmd.op = "RegisterResource" /\ stack' = s
        /\ UNCHANGED <<tasks, timers, cancelled, jsTimers>>
        /\ accepted' = accepted \/ accepted' = Append(accepted, m)
    BY <1>9 DEF HandleRegisterResource, m
  <2>2. AcceptedItems' = AcceptedItems \/ AcceptedItems' = AcceptedItems \cup {m}
    <3>1. ItemsOf(Append(accepted, m)) = ItemsOf(accepted) \cup {m}
      BY <1>2, StatePlaces, AppendItems
    <3> QED BY <2>1, <3>1, StatePlaces
  <2>3. Registers(m)
    BY <1>1, <1>3, <1>4, <1>6, <2>1, <2>2, SamePlaces DEF Registers, Carries
  <2> QED BY <1>2, <2>3 DEF Effect
<1>10. CASE HandleStartStop(cmd, s) \/ HandleDo(cmd, s) \/ HandleRun(cmd, s)
  <2>1. UNCHANGED <<tasks, timers, cancelled, jsTimers, accepted>> /\ cmd.op \notin Carries
    BY <1>10 DEF HandleStartStop, HandleDo, HandleRun, Carries, Enqueues
  <2>2. Calls' = Calls
    <3>1. CASE stack' = s
      BY <1>6, <3>1
    <3>2. CASE stack' = Append(s, NewFrame("do", "body", cmd.client))
      <4>1. Firing(stack') = Firing(s)
        BY <1>2, <1>5, <3>2, FnsApart, PlainNew DEF Points
      <4> QED BY <1>5, <4>1 DEF Calls
    <3>3. CASE EnterRun(cmd.client, s)
      BY <1>2, <1>5, <3>3, PlainRun
    <3> QED BY <1>10, <3>1, <3>2, <3>3 DEF HandleStartStop, HandleDo, HandleRun
  <2>3. Quietly
    BY <1>1, <1>3, <2>1, <2>2, SamePlaces DEF Quietly
  <2> QED BY <2>3 DEF Effect
<1>11. CASE HandleReload(cmd, s) \/ HandleClose(cmd, s)
  <2>1. accepted' = accepted /\ cmd.op \notin Carries
    BY <1>11 DEF HandleReload, HandleClose, Carries, Enqueues
  <2>2. CASE stack' = s /\ UNCHANGED <<tasks, timers, cancelled, jsTimers>>
    <3>1. Quietly
      BY <1>1, <1>3, <1>6, <2>1, <2>2, SamePlaces DEF Quietly
    <3> QED BY <3>1 DEF Effect
  <2>3. CASE \E fn \in Disposals : BeginDisposal(fn, cmd.client, s)
    <3>1. Calls' = Calls /\ Disposes' /\ DropWork
      BY <1>2, <1>5, <2>3, PlainDisposal, DisposalShuts DEF BeginDisposal
    <3>2. Drops
      BY <1>1, <1>3, <2>1, <3>1, SamePlaces DEF Drops, Open
    <3> QED BY <3>2 DEF Effect
  <2> QED BY <1>11, <2>2, <2>3 DEF HandleReload, HandleClose, Disposals
<1> QED BY <1>1, <1>7, <1>8, <1>9, <1>10, <1>11 DEF HandleCommand

-------------------------------------------------------------------------------
\* What the owner's steps do: the loops.

LEMMA LoopFrame ==
    ASSUME Inv, Running(Loops)
    PROVE  /\ stack # <<>> /\ Top \in Frame /\ Top.fn # "timer" /\ GoesOn(stack)
           /\ \A pc \in Points : GoesOn(GoTo(pc))
           /\ GoesOn(Append(Below, [Top EXCEPT !.progressed = TRUE]))
           /\ GoesOn(Append(Below, [Top EXCEPT !.pc = "drain", !.progressed = FALSE]))
           /\ GoesOn(Progress) /\ Firing(Below) = Calls
<1>1. stack # <<>> /\ Top.fn # "timer"
  BY DEF Running, Loops
<1>2. Top \in Frame /\ stack \in Seq(Frame)
  BY <1>1, SeqFacts
<1>3. \A pc \in Points : GoesOn(GoTo(pc))
  BY <1>1, PlainGoTo DEF GoesOn
<1>4. GoesOn(Append(Below, [Top EXCEPT !.progressed = TRUE]))
  <2>1. PICK f : f = [Top EXCEPT !.progressed = TRUE]
    OBVIOUS
  <2>2. f \in Frame /\ f.fn = Top.fn /\ f.item = Top.item
    BY <1>2, <2>1 DEF Frame
  <2>3. GoesOn(Append(Below, f))
    BY <1>1, <2>2, PlainGoOn DEF GoesOn
  <2> QED BY <2>1, <2>3
<1>5. GoesOn(Append(Below, [Top EXCEPT !.pc = "drain", !.progressed = FALSE]))
  <2>1. PICK g : g = [Top EXCEPT !.pc = "drain"]
    OBVIOUS
  <2>2. g \in Frame /\ g.fn = Top.fn /\ g.item = Top.item
    BY <1>2, <2>1 DEF Frame, Points
  <2>3. PICK f : f = [g EXCEPT !.progressed = FALSE]
    OBVIOUS
  <2>4. f \in Frame /\ f.fn = Top.fn /\ f.item = Top.item
    BY <2>2, <2>3 DEF Frame
  <2>5. GoesOn(Append(Below, f))
    BY <1>1, <2>4, PlainGoOn DEF GoesOn
  <2>6. f = [Top EXCEPT !.pc = "drain", !.progressed = FALSE]
    BY <2>1, <2>3
  <2> QED BY <2>5, <2>6
<1>6. Firing(Below) = Calls
  BY <1>1, PlainPop
<1>7. GoesOn(stack)
  BY <1>2 DEF GoesOn, Calls
<1>8. GoesOn(Progress)
  <2>1. PICK f \in Frame : Progress = Append(Below, f) /\ f.fn = Top.fn /\ f.item = Top.item
    BY <1>2, ProgressFrame
  <2> QED BY <1>1, <2>1, PlainGoOn DEF GoesOn
<1> QED BY <1>1, <1>2, <1>3, <1>4, <1>5, <1>6, <1>7, <1>8

\* Only the stack, and what is not work, changes.
LEMMA QuietEffect ==
    ASSUME UNCHANGED <<cl, commands, tasks, timers, accepted, ran, cancelled, jsTimers, nextID>>,
           Calls' = Calls
    PROVE  Effect
<1>1. Quietly
  BY SamePlaces DEF Quietly
<1> QED BY <1>1 DEF Effect

LEMMA DiscardEffect ==
    ASSUME UNCHANGED <<cl, commands, tasks, accepted, ran, cancelled, jsTimers, nextID>>,
           timers' = Kept, Calls' = Calls
    PROVE  Effect
<1>1. Discards
  BY SamePlaces DEF Discards
<1> QED BY <1>1 DEF Effect

LEMMA LoopEffect ==
    ASSUME Inv, KindsOK,
           \/ RunReturns \/ PumpOnce \/ Drained \/ NotRunning \/ RunJobs \/ (\E more \in BOOLEAN : JobsReturn(more))
           \/ RunIsIdle \/ RunHasWork
    PROVE  Effect
<1>1. Running(Loops)
  BY DEF RunReturns, PumpOnce, Drained, NotRunning, RunJobs, JobsReturn, RunIsIdle, RunHasWork, CanWork,
         At, Running, Loops
<1>2. Calls' = Calls
  <2>1. \/ stack' = Below \/ \E pc \in Points : stack' = GoTo(pc)
        \/ stack' = Append(Below, [Top EXCEPT !.pc = "drain", !.progressed = FALSE])
    BY DEF RunReturns, PumpOnce, Drained, NotRunning, RunJobs, JobsReturn, RunIsIdle, RunHasWork,
           MoveOn, PumpReturns, Points
  <2>2. CASE stack' = Below
    BY <1>1, <2>2, LoopFrame DEF Calls
  <2>3. CASE \E pc \in Points : stack' = GoTo(pc)
    <3>1. GoesOn(stack')
      BY <1>1, <2>3, LoopFrame
    <3> QED BY <3>1 DEF GoesOn, Calls
  <2>4. CASE stack' = Append(Below, [Top EXCEPT !.pc = "drain", !.progressed = FALSE])
    <3>1. GoesOn(stack')
      BY <1>1, <2>4, LoopFrame
    <3> QED BY <3>1 DEF GoesOn, Calls
  <2> QED BY <2>1, <2>2, <2>3, <2>4
<1>3. UNCHANGED <<cl, commands, tasks, accepted, ran, cancelled, jsTimers, nextID>>
      /\ (timers' = timers \/ timers' = Kept)
  BY DEF RunReturns, PumpOnce, Drained, NotRunning, RunJobs, JobsReturn, RunIsIdle, RunHasWork, OnlyStack
<1> QED BY <1>2, <1>3, QuietEffect, DiscardEffect

LEMMA ReceivingEffect ==
    ASSUME Inv, KindsOK, OwnerReceives \/ DrainCommands \/ WaitForWork
    PROVE  Effect
<1>1. Running(Loops)
  BY DEF OwnerReceives, DrainCommands, WaitForWork, At, Running, Loops
<1>2. \/ Receive(stack)
      \/ Receive(GoTo("top"))
      \/ Receive(Append(Below, [Top EXCEPT !.progressed = TRUE]))
      \/ /\ timers' = Kept /\ stack' = GoTo("top")
         /\ UNCHANGED <<cl, commands, tasks, accepted, ran, cancelled, jsTimers, nextID>>
  BY DEF OwnerReceives, DrainCommands, WaitForWork, MoveOn
<1>3. /\ GoesOn(stack) /\ GoesOn(GoTo("top"))
      /\ GoesOn(Append(Below, [Top EXCEPT !.progressed = TRUE]))
  BY <1>1, LoopFrame DEF Points
<1> QED BY <1>2, <1>3, ReceiveEffect, DiscardEffect DEF GoesOn, Calls

LEMMA OwnerReturnsEffect ==
    ASSUME Inv, StateOK, OwnerReturns
    PROVE  Effect
<1>1. stack' = <<>> /\ closed /\ closed' /\ state = "Closed"
      /\ UNCHANGED <<cl, commands, tasks, timers, accepted, ran, cancelled, jsTimers, nextID>>
  BY DEF OwnerReturns, StateOK
<1>2. Calls' = {}
  BY <1>1 DEF Calls, Firing
<1>3. Leaves
  BY <1>1, <1>2, SamePlaces DEF Leaves, Open
<1> QED BY <1>3 DEF Effect

LEMMA RunTaskEffect == ASSUME Inv, RunTask PROVE Effect
<1>1. /\ Running(Loops) /\ tasks # <<>> /\ tasks' = Tail(tasks)
      /\ stack' = Append(Progress, NewFrame("task", "body", None))
      /\ ran' = Append(ran, Start(Head(tasks)))
      /\ UNCHANGED <<cl, commands, timers, accepted, cancelled, jsTimers, nextID>>
  BY DEF RunTask, CanWork, At
<1>2. PICK x \in Item : x = Head(tasks)
  BY <1>1, StatePlaces
<1>3. /\ x \in TaskItems /\ TaskItems' \subseteq TaskItems
      /\ TaskItems \subseteq TaskItems' \cup {x}
  <2>1. /\ Head(tasks) \in ItemsOf(tasks) /\ ItemsOf(Tail(tasks)) \subseteq ItemsOf(tasks)
        /\ ItemsOf(tasks) \subseteq ItemsOf(Tail(tasks)) \cup {Head(tasks)}
    BY <1>1, StatePlaces, TailItems
  <2> QED BY <1>1, <1>2, <2>1, StatePlaces
<1>4. Calls' = Calls
  <2>1. GoesOn(Progress)
    BY <1>1, LoopFrame
  <2>2. Firing(stack') = Firing(Progress)
    BY <1>1, <2>1, FnsApart, PlainNew DEF GoesOn, Points
  <2> QED BY <2>1, <2>2 DEF GoesOn, Calls
<1>5. RunsTask(x)
  BY <1>1, <1>2, <1>3, <1>4, SamePlaces DEF RunsTask
<1> QED BY <1>5 DEF Effect

LEMMA FireDueTimerEffect == ASSUME Inv, FireDueTimer PROVE Effect
<1>1. /\ Running(Loops)
      /\ UNCHANGED <<cl, commands, tasks, accepted, jsTimers, ran, nextID>>
      /\ state' = "Running"
  BY DEF FireDueTimer, CanWork, At
<1>2. GoesOn(Progress)
  BY <1>1, LoopFrame
<1>3. PICK e \in Due :
         /\ timers' = Kept \ {e}
         /\ IF e.gen # generation
            THEN /\ cancelled' = cancelled \cup {e.id} /\ stack' = Progress
            ELSE /\ stack' = Append(Progress,
                               [NewFrame("timer", "start", None) EXCEPT !.item = e])
                 /\ UNCHANGED cancelled
  BY DEF FireDueTimer
<1>4. e \in Item
  BY KeptType DEF Due, Peek, Inv, TypeOK, WorkTypes
<1>5. CASE e.gen # generation
  <2>1. Calls' = Calls
    BY <1>2, <1>3, <1>5 DEF GoesOn, Calls
  <2>2. Pops(e)
    BY <1>1, <1>3, <1>5, <2>1, SamePlaces DEF Pops
  <2> QED BY <1>4, <2>2 DEF Effect
<1>6. CASE e.gen = generation
  <2>1. PICK f : f = [NewFrame("timer", "start", None) EXCEPT !.item = e]
    OBVIOUS
  <2>2. f \in Frame /\ f.fn = "timer" /\ f.item = e /\ f.pc = "start"
    <3>1. NewFrame("timer", "start", None) \in Frame
      BY NewFrameType DEF Bodies, Points, Owners
    <3> QED BY <1>4, <2>1, <3>1 DEF NewFrame, Frame
  <2>3. PICK g : g = [at |-> Len(Progress) + 1, item |-> e, phase |-> "start"]
    OBVIOUS
  <2>4. Fires(f, Len(Progress) + 1) = {g}
    BY <2>2, <2>3 DEF Fires, Phase
  <2>5. Calls' = Calls \cup {g}
    <3>1. Firing(Append(Progress, f)) = Firing(Progress) \cup {g}
      BY <1>2, <2>2, <2>4, AppendFiring DEF GoesOn
    <3> QED BY <1>2, <1>3, <1>6, <2>1, <3>1 DEF GoesOn, Calls
  <2>6. g.item = e /\ g.phase = "start" /\ g.at = Len(stack')
    <3>1. Len(Append(Progress, f)) = Len(Progress) + 1
      BY <1>2, <2>2 DEF GoesOn
    <3> QED BY <1>3, <1>6, <2>1, <2>3, <3>1
  <2>7. Pops(e)
    BY <1>1, <1>3, <1>6, <2>5, <2>6, SamePlaces DEF Pops
  <2> QED BY <1>4, <2>7 DEF Effect
<1> QED BY <1>5, <1>6

LEMMA PumpingEffect == ASSUME Inv, KindsOK, StateOK, Pumping PROVE Effect
  BY LoopEffect, ReceivingEffect, OwnerReturnsEffect, RunTaskEffect, FireDueTimerEffect
  DEF Pumping

-------------------------------------------------------------------------------
\* What the owner's steps do: user code.

LEMMA ActingTop ==
    ASSUME Inv, NEW op \in Ops, MayAct(op)
    PROVE  /\ stack # <<>> /\ stack \in Seq(Frame) /\ Top \in Frame /\ Top.pc \in {"body", "jobs"}
           /\ op \in UsedOps /\ GoesOn(stack)
           /\ \A pc \in {"body", "once", "stuck"} : GoesOn(GoTo(pc))
<1>1. stack # <<>> /\ Top.pc \in {"body", "jobs"} /\ op \in UserOps(Top.fn)
  BY DEF MayAct, At, Running
<1>2. stack \in Seq(Frame) /\ Top \in Frame
  BY <1>1, SeqFacts
<1>3. op \in UsedOps
  BY <1>1 DEF UserOps, UsedOps
<1>4. GoesOn(stack)
  BY <1>2 DEF GoesOn, Calls
<1>5. ASSUME NEW pc \in {"body", "once", "stuck"} PROVE GoesOn(GoTo(pc))
  <2>1. pc \in Points /\ {pc, Top.pc} \cap {"start", "finish"} = {}
    BY <1>1 DEF Points
  <2> QED BY <1>1, <2>1, PlainGoTo DEF GoesOn
<1> QED BY <1>1, <1>2, <1>3, <1>4, <1>5

LEMMA UserEnqueueEffect ==
    ASSUME Inv, NEW op \in Ops, NEW delay \in 0..1, UserEnqueue(op, delay)
    PROVE  Effect
<1>1. /\ MayAct(op) /\ op \in Enqueues /\ nextID < MaxItems /\ nextID' = nextID + 1
      /\ UNCHANGED <<cl, tasks, timers, stack, ran, jsTimers>>
  BY DEF UserEnqueue, MayCreate
<1>2. PICK n \in Item : n = NewItem(op, delay, Maker)
  BY NewItemType, MakerFacts DEF Inv
<1>3. n.id = nextID + 1 /\ n.gen = generation /\ n.kind = op /\ n.by \in {None, "job"}
  BY <1>2, MakerFacts DEF NewItem
<1>4. IsNew(n)
  BY <1>1, <1>3, ActingTop DEF IsNew
<1>5. ~IsJS(n)
  BY <1>1, <1>3 DEF IsJS, JSTimers, Enqueues
<1>6. PICK cmd : cmd = [op |-> op, client |-> None, item |-> n]
  OBVIOUS
<1>7. cmd \in Command /\ cmd.op = op /\ cmd.item = n /\ op \in Carries
  BY <1>1, <1>6 DEF Command, Owners, Carries
<1>8. \/ /\ commands' = Append(commands, cmd) /\ accepted' = Append(accepted, n)
         /\ UNCHANGED cancelled
      \/ /\ cancelled' = IF op = "Schedule" THEN cancelled ELSE cancelled \cup {n.id}
         /\ UNCHANGED <<commands, accepted>>
  BY <1>2, <1>6 DEF UserEnqueue
<1>9. CASE /\ commands' = Append(commands, cmd) /\ accepted' = Append(accepted, n)
           /\ UNCHANGED cancelled
  <2>1. SentItems' = SentItems \cup {n}
    BY <1>7, <1>9, AppendSent
  <2>2. AcceptedItems' = AcceptedItems \cup {n}
    <3>1. ItemsOf(Append(accepted, n)) = ItemsOf(accepted) \cup {n}
      BY StatePlaces, AppendItems
    <3> QED BY <1>9, <3>1, StatePlaces
  <2>3. Posts(n)
    BY <1>1, <1>3, <1>4, <1>5, <1>9, <2>1, <2>2, SamePlaces DEF Posts
  <2> QED BY <2>3 DEF Effect
<1>10. CASE /\ cancelled' = IF op = "Schedule" THEN cancelled ELSE cancelled \cup {n.id}
            /\ UNCHANGED <<commands, accepted>>
  <2>1. Posts(n)
    BY <1>1, <1>3, <1>4, <1>5, <1>10, SamePlaces DEF Posts
  <2> QED BY <2>1 DEF Effect
<1> QED BY <1>8, <1>9, <1>10

LEMMA JSAddTimerEffect ==
    ASSUME Inv, NEW op \in Ops, NEW delay \in 0..1, JSAddTimer(op, delay)
    PROVE  Effect
<1>1. /\ MayAct(op) /\ op \in JSTimers /\ nextID < MaxItems /\ nextID' = nextID + 1 /\ ctx # 0
      /\ UNCHANGED <<cl, commands, tasks, stack, ran, cancelled>>
  BY DEF JSAddTimer, MayCreate
<1>2. PICK n \in Item : n = NewItem(op, delay, Maker)
  BY NewItemType, MakerFacts DEF Inv
<1>3. n.id = nextID + 1 /\ n.gen = generation /\ n.kind = op /\ n.by \in {None, "job"}
  BY <1>2, MakerFacts DEF NewItem
<1>4. IsNew(n)
  BY <1>1, <1>3, ActingTop DEF IsNew
<1>5. /\ timers' = timers \cup {n} /\ jsTimers' = jsTimers \cup {n.id}
      /\ accepted' = Append(accepted, n)
  BY <1>2 DEF JSAddTimer
<1>6. AcceptedItems' = AcceptedItems \cup {n}
  <2>1. ItemsOf(Append(accepted, n)) = ItemsOf(accepted) \cup {n}
    BY StatePlaces, AppendItems
  <2> QED BY <1>5, <2>1, StatePlaces
<1>7. AddsJS(n)
  BY <1>1, <1>3, <1>4, <1>5, <1>6, SamePlaces DEF AddsJS, IsJS
<1> QED BY <1>7 DEF Effect

LEMMA ClearJSTimerEffect == ASSUME Inv, ClearJSTimer PROVE Effect
<1>1. UNCHANGED <<cl, commands, tasks, timers, stack, accepted, ran, nextID>>
  BY DEF ClearJSTimer
<1>2. PICK id \in jsTimers : cancelled' = cancelled \cup {id} /\ jsTimers' = jsTimers \ {id}
  BY DEF ClearJSTimer, ForgetJSTimer
<1>3. id \in Nat
  BY DEF Inv, TypeOK, WorkTypes
<1>4. ClearsJS(id)
  BY <1>1, <1>2, SamePlaces DEF ClearsJS
<1> QED BY <1>3, <1>4 DEF Effect

LEMMA UserRegisterResourceEffect == ASSUME Inv, UserRegisterResource PROVE Effect
<1>1. /\ MayAct("RegisterResource") /\ nextID < MaxItems /\ nextID' = nextID + 1
      /\ UNCHANGED <<cl, commands, tasks, timers, stack, ran, jsTimers, cancelled>>
  BY DEF UserRegisterResource
<1>2. "RegisterResource" \in Ops
  BY DEF Ops, GuardedCalls
<1>3. PICK n \in Item : n = NewItem("RegisterResource", 0, None)
  BY <1>2, NewItemType, MakerFacts DEF Inv
<1>4. n.id = nextID + 1 /\ n.gen = generation /\ n.kind = "RegisterResource" /\ n.by = None
  BY <1>3 DEF NewItem
<1>5. IsNew(n)
  BY <1>1, <1>2, <1>4, ActingTop DEF IsNew
<1>6. AcceptedItems' = AcceptedItems \cup {n}
  <2>1. ItemsOf(Append(accepted, n)) = ItemsOf(accepted) \cup {n}
    BY StatePlaces, AppendItems
  <2>2. accepted' = Append(accepted, n)
    BY <1>3 DEF UserRegisterResource
  <2> QED BY <2>1, <2>2, StatePlaces
<1>7. Registers(n)
  BY <1>1, <1>4, <1>5, <1>6, SamePlaces DEF Registers
<1> QED BY <1>7 DEF Effect

LEMMA UserReloadEffect == ASSUME Inv, UserReload PROVE Effect
<1>1. /\ MayAct("Reload") /\ BeginDisposal("reload", None, stack) /\ "Reload" \in Ops
      /\ UNCHANGED <<cl, commands, accepted, ran, nextID>>
  BY DEF UserReload, Ops, GuardedCalls
<1>2. GoesOn(stack) /\ "reload" \in Disposals /\ None \in Owners
  BY <1>1, ActingTop DEF Disposals, Owners
<1>3. Calls' = Calls /\ Disposes' /\ DropWork
  BY <1>1, <1>2, PlainDisposal, DisposalShuts DEF BeginDisposal, GoesOn
<1>4. Drops
  BY <1>1, <1>3, SamePlaces DEF Drops, Open
<1> QED BY <1>4 DEF Effect

LEMMA UserPlainEffect ==
    ASSUME Inv, NEW op \in Ops,
           UserStartStop(op) \/ UserDo(op) \/ UserRun(op) \/ UserCallsItself(op)
    PROVE  Effect
<1>1. /\ MayAct(op)
      /\ UNCHANGED <<cl, tasks, timers, accepted, ran, cancelled, jsTimers, nextID>>
  BY DEF UserStartStop, UserDo, UserRun, UserCallsItself
<1>2. GoesOn(stack) /\ None \in Owners /\ GoesOn(GoTo("stuck"))
  BY <1>1, ActingTop DEF Owners
<1>3. CASE UserStartStop(op)
  BY <1>1, <1>3, SamePlaces, QuietEffect DEF UserStartStop
<1>4. CASE UserDo(op)
  <2>1. PICK fn \in {"nestedDo", "nestedContext"} : stack' = Append(stack, NewFrame(fn, "body", None))
    BY <1>4 DEF UserDo
  <2>2. Firing(stack') = Firing(stack)
    BY <1>2, <2>1, FnsApart, PlainNew DEF GoesOn, Points
  <2> QED BY <1>1, <1>2, <1>4, <2>2, QuietEffect DEF UserDo, GoesOn, Calls
<1>5. CASE UserRun(op)
  <2>1. Calls' = Calls
    BY <1>2, <1>5, PlainRun DEF UserRun, GoesOn
  <2> QED BY <1>1, <1>5, <2>1, QuietEffect DEF UserRun
<1>6. CASE UserCallsItself(op)
  <2>1. stack' = GoTo("stuck") /\ op \notin Carries
    BY <1>6 DEF UserCallsItself, MoveOn, ContextCalls, Carries, Enqueues
  <2>2. Calls' = Calls
    BY <1>2, <2>1 DEF GoesOn, Calls
  <2>3. PICK cmd : cmd = [op |-> op, client |-> None, item |-> NoItem]
    OBVIOUS
  <2>4. cmd \in Command /\ cmd.op = op
    BY <1>2, <2>3, NoItemType DEF Command
  <2>5. commands' = commands \/ commands' = Append(commands, cmd)
    BY <1>6, <2>3 DEF UserCallsItself
  <2>6. SentItems' = SentItems
    BY <2>1, <2>4, <2>5, AppendSent, SamePlaces
  <2>7. Quietly
    BY <1>1, <2>2, <2>6, SamePlaces DEF Quietly
  <2> QED BY <2>7 DEF Effect
<1> QED BY <1>3, <1>4, <1>5, <1>6

LEMMA UserCloseEffect == ASSUME Inv, UserClose PROVE Effect
<1>1. /\ MayAct("Close") /\ stack' = GoTo("once") /\ "Close" \in Ops
      /\ UNCHANGED <<cl, commands, tasks, timers, accepted, ran, cancelled, jsTimers, nextID>>
  BY DEF UserClose, MoveOn, Ops
<1>2. Calls' = Calls
  BY <1>1, ActingTop DEF GoesOn, Calls
<1> QED BY <1>1, <1>2, QuietEffect

LEMMA UserCloseOnceEffect == ASSUME Inv, UserCloseOnce PROVE Effect
<1>1. /\ stack # <<>> /\ Top.pc = "once"
      /\ UNCHANGED <<cl, commands, accepted, ran, nextID>>
  BY DEF UserCloseOnce, At, Running
<1>2. ASSUME NEW pc \in {"body", "stuck"} PROVE GoesOn(GoTo(pc))
  <2>1. pc \in Points /\ {pc, Top.pc} \cap {"start", "finish"} = {}
    BY <1>1 DEF Points
  <2> QED BY <1>1, <2>1, PlainGoTo DEF GoesOn
<1>3. CASE BeginDisposal("close", None, GoTo("body"))
  <2>1. "close" \in Disposals /\ None \in Owners
    BY DEF Disposals, Owners
  <2>2. GoesOn(GoTo("body"))
    BY <1>2
  <2>3. Calls' = Calls /\ Disposes' /\ DropWork
    BY <1>3, <2>1, <2>2, PlainDisposal, DisposalShuts DEF BeginDisposal, GoesOn
  <2>4. Drops
    BY <1>1, <2>3, SamePlaces DEF Drops, Open
  <2> QED BY <2>4 DEF Effect
<1>4. CASE /\ \E pc \in {"body", "stuck"} : stack' = GoTo(pc)
           /\ UNCHANGED <<tasks, timers, cancelled, jsTimers>>
  <2>1. Calls' = Calls
    BY <1>2, <1>4 DEF GoesOn, Calls
  <2> QED BY <1>1, <1>4, <2>1, QuietEffect
<1>5. \/ BeginDisposal("close", None, GoTo("body"))
      \/ /\ \E pc \in {"body", "stuck"} : stack' = GoTo(pc)
         /\ UNCHANGED <<tasks, timers, cancelled, jsTimers>>
  <2>1. CASE closeOnce = "free" /\ IsOwner
    BY <2>1 DEF UserCloseOnce
  <2>2. CASE ~(closeOnce = "free" /\ IsOwner)
    <3>1. stack' = GoTo(IF IsOwner THEN "body" ELSE "stuck")
          /\ UNCHANGED <<tasks, timers, cancelled, jsTimers>>
      BY <2>2 DEF UserCloseOnce, MoveOn
    <3> QED BY <3>1
  <2> QED BY <2>1, <2>2
<1> QED BY <1>3, <1>4, <1>5

LEMMA UserActsEffect == ASSUME Inv, UserActs PROVE Effect
  BY UserPlainEffect, UserEnqueueEffect, JSAddTimerEffect, ClearJSTimerEffect, CancelEffect,
     UserRegisterResourceEffect, UserReloadEffect, UserCloseEffect
  DEF UserActs

-------------------------------------------------------------------------------
\* What the owner's steps do: returns and disposals.

\* The callback of a timer that is the innermost call.
LEMMA TopCall ==
    ASSUME Inv, stack # <<>>, Top.fn = "timer"
    PROVE  \E f \in Calls : /\ f.item = Top.item /\ f.phase = Phase(Top)
                            /\ Firing(Below) = Calls \ {f}
<1>1. PICK f : f = [at |-> Len(stack), item |-> Top.item, phase |-> Phase(Top)]
  OBVIOUS
<1>2. Fires(Top, Len(stack)) = {f}
  BY <1>1 DEF Fires
<1>3. Calls = Firing(Below) \cup {f} /\ \A g \in Firing(Below) : g.at # Len(stack)
  BY <1>2, TopFiring DEF Calls
<1>4. f.at = Len(stack) /\ f.item = Top.item /\ f.phase = Phase(Top)
  BY <1>1
<1> QED BY <1>3, <1>4

LEMMA StartTimerEffect == ASSUME Inv, StartTimer PROVE Effect
<1>1. /\ stack # <<>> /\ Top.fn = "timer" /\ Top.pc = "start"
      /\ UNCHANGED <<cl, commands, tasks, timers, accepted, cancelled, nextID>>
  BY DEF StartTimer, At, Running
<1>2. PICK f \in Calls : /\ f.item = Top.item /\ f.phase = "start"
                         /\ Firing(Below) = Calls \ {f}
  BY <1>1, TopCall DEF Phase
<1>3. ASSUME NEW pc \in {"finish", "body"}, stack' = GoTo(pc)
      PROVE  Begun(f, pc)
  <2>1. PICK t : t = [Top EXCEPT !.pc = pc]
    OBVIOUS
  <2>2. Top \in Frame /\ pc \in Points /\ Below \in Seq(Frame)
    BY <1>1, SeqFacts DEF Points
  <2>3. t \in Frame /\ t.fn = "timer" /\ t.item = f.item /\ t.pc = pc
    BY <1>1, <1>2, <2>1, <2>2 DEF Frame
  <2>4. PICK g : g = [at |-> Len(Below) + 1, item |-> f.item, phase |-> pc]
    OBVIOUS
  <2>5. Fires(t, Len(Below) + 1) = {g}
    BY <2>3, <2>4 DEF Fires, Phase
  <2>6. Firing(Append(Below, t)) = Firing(Below) \cup {g}
    BY <2>2, <2>3, <2>5, AppendFiring
  <2>7. Calls' = (Calls \ {f}) \cup {g}
    BY <1>2, <1>3, <2>1, <2>6 DEF GoTo, Calls
  <2>8. g.item = f.item /\ g.phase = pc
    BY <2>4
  <2> QED BY <2>7, <2>8 DEF Begun
<1>4. CASE f.item.kind \in JSTimers /\ (f.item.id \notin jsTimers \/ f.item.id \in cancelled)
  <2>1. stack' = GoTo("finish") /\ ran' = ran
    BY <1>2, <1>4 DEF StartTimer, MoveOn
  <2>2. jsTimers' = jsTimers \ {f.item.id}
    BY <1>2, <1>4 DEF StartTimer, ForgetJSTimer
  <2>3. Starts(f)
    BY <1>1, <1>2, <1>3, <1>4, <2>1, <2>2, SamePlaces DEF Starts, IsJS
  <2> QED BY <2>3 DEF Effect
<1>5. CASE ~(f.item.kind \in JSTimers /\ (f.item.id \notin jsTimers \/ f.item.id \in cancelled))
  <2>1. stack' = GoTo("body") /\ ran' = Append(ran, Start(f.item)) /\ jsTimers' = jsTimers
    BY <1>2, <1>5 DEF StartTimer, MoveOn
  <2>2. Starts(f)
    BY <1>1, <1>2, <1>3, <1>5, <2>1, SamePlaces DEF Starts, IsJS
  <2> QED BY <2>2 DEF Effect
<1> QED BY <1>4, <1>5

LEMMA TimerReturnsEffect == ASSUME Inv, TimerReturns PROVE Effect
<1>1. /\ stack # <<>> /\ Top.fn = "timer" /\ Top.pc \in {"body", "finish"} /\ stack' = Below
      /\ UNCHANGED <<cl, commands, tasks, accepted, ran, cancelled>>
  BY DEF TimerReturns, At, Running
<1>2. PICK f \in Calls : /\ f.item = Top.item /\ f.phase # "start"
                         /\ Firing(Below) = Calls \ {f}
  BY <1>1, TopCall DEF Phase
<1>3. Calls' = Calls \ {f}
  BY <1>1, <1>2 DEF Calls
<1>4. jsTimers' = IF f.item.kind = "jsTimeout" THEN jsTimers \ {f.item.id} ELSE jsTimers
  BY <1>2 DEF TimerReturns, ForgetJSTimer
<1>5. f.item \in Item
  <2>1. Top \in Frame
    BY <1>1, SeqFacts
  <2> QED BY <1>2, <2>1 DEF Frame
<1>6. IF f.item.kind \in Intervals /\ f.item.id \notin cancelled /\ state = "Running"
      THEN nextID' = nextID + 1 /\ \E e \in Item : Same(e, f.item) /\ timers' = timers \cup {e}
      ELSE UNCHANGED <<timers, nextID>>
  <2>1. CASE f.item.kind \in Intervals /\ f.item.id \notin cancelled /\ state = "Running"
    <3>1. PICK x : x = f.item
      OBVIOUS
    <3>2. /\ timers' = timers \cup {[x EXCEPT !.deadline = @ + 1, !.seq = nextID + 1]}
          /\ nextID' = nextID + 1
      BY <1>2, <2>1, <3>1 DEF TimerReturns
    <3>3. PICK d : d = [x EXCEPT !.deadline = @ + 1]
      OBVIOUS
    <3>4. PICK e : e = [d EXCEPT !.seq = nextID + 1]
      OBVIOUS
    <3>5. d \in Item /\ Same(d, x)
      BY <1>5, <3>1, <3>3 DEF Item, Same
    <3>6. e \in Item /\ Same(e, x)
      <4>1. nextID \in Nat
        BY DEF Inv, TypeOK, CountTypes
      <4>2. e \in Item /\ Same(e, d)
        BY <3>4, <3>5, <4>1 DEF Item, Same
      <4> QED BY <3>5, <4>2 DEF Same
    <3>7. timers' = timers \cup {e}
      BY <3>2, <3>3, <3>4
    <3> QED BY <2>1, <3>1, <3>2, <3>6, <3>7
  <2>2. CASE ~(f.item.kind \in Intervals /\ f.item.id \notin cancelled /\ state = "Running")
    BY <1>2, <2>2 DEF TimerReturns
  <2> QED BY <2>1, <2>2
<1>7. Returns(f)
  BY <1>1, <1>2, <1>3, <1>4, <1>6, SamePlaces DEF Returns
<1> QED BY <1>7 DEF Effect

\* The frame under the task of a Run, or under an installer, is not a timer's.
LEMMA CallerFrame ==
    ASSUME CallsInv, stack # <<>>, Top.fn \in {"runTask", "installer"}
    PROVE  /\ Below # <<>> /\ Below \in Seq(Frame) /\ Len(Below) \in Nat \ {0}
           /\ Below[Len(Below)] \in Frame /\ Below[Len(Below)].fn # "timer"
           /\ Top.fn = "installer" => Below[Len(Below)].fn \in Disposals
           /\ SubSeq(stack, 1, Len(stack) - 2) = SubSeq(Below, 1, Len(Below) - 1)
<1> DEFINE n == Len(stack)
<1>1. /\ stack \in Seq(Frame) /\ n \in Nat /\ n > 0 /\ DOMAIN stack = 1..n
      /\ Below \in Seq(Frame) /\ Len(Below) = n - 1
      /\ \A i \in 1..n - 1 : Below[i] = stack[i]
  BY SeqFacts DEF CallsInv
<1>2. RunsOK(stack)
  BY DEF CallsInv, CallsOK
<1>3. n \in DOMAIN stack /\ stack[n] = Top
  BY <1>1 DEF Top
<1>4. n - 1 \in DOMAIN stack /\ stack[n - 1].fn # "timer"
      /\ (Top.fn = "installer" => stack[n - 1].fn \in Disposals)
  BY <1>2, <1>3 DEF RunsOK, Disposals
<1>5. n - 1 \in 1..n - 1 /\ n - 1 > 0
  BY <1>1, <1>4
<1>6. Below[n - 1] = stack[n - 1] /\ Below # <<>> /\ stack[n - 1] \in Frame
  BY <1>1, <1>4, <1>5
<1>7. SubSeq(stack, 1, n - 2) = SubSeq(Below, 1, (n - 1) - 1)
  BY <1>1, <1>5 DEF Below
<1> QED BY <1>1, <1>4, <1>5, <1>6, <1>7

LEMMA BodyReturnsEffect == ASSUME Inv, BodyReturns PROVE Effect
<1>1. /\ stack # <<>> /\ Top.fn # "timer" /\ stack' = Below
      /\ UNCHANGED <<cl, commands, tasks, timers, accepted, ran, cancelled, jsTimers, nextID>>
  BY DEF BodyReturns, At, Running
<1> QED BY <1>1, PlainPop, QuietEffect DEF Calls

LEMMA RunTaskReturnsEffect ==
    ASSUME CallsInv, NEW err \in BOOLEAN, RunTaskReturns(err) PROVE Effect
<1>1. /\ stack # <<>> /\ Top.fn = "runTask"
      /\ UNCHANGED <<cl, commands, tasks, timers, accepted, ran, cancelled, jsTimers, nextID>>
      /\ stack' = Below \/ stack' = SubSeq(stack, 1, Len(stack) - 2)
  BY DEF RunTaskReturns, At, Running
<1>2. Firing(Below) = Calls
  BY <1>1, PlainPop DEF CallsInv
<1>3. Firing(SubSeq(stack, 1, Len(stack) - 2)) = Calls
  <2>1. PICK u : u = SubSeq(Below, 1, Len(Below) - 1)
    OBVIOUS
  <2>2. PICK f : f = Below[Len(Below)]
    OBVIOUS
  <2>3. /\ Below # <<>> /\ Below \in Seq(Frame) /\ Len(Below) \in Nat \ {0}
        /\ f \in Frame /\ f.fn # "timer" /\ SubSeq(stack, 1, Len(stack) - 2) = u
    BY <1>1, <2>1, <2>2, CallerFrame
  <2>4. u \in Seq(Frame) /\ Below = Append(u, f)
    BY <2>1, <2>2, <2>3
  <2>5. Firing(Append(u, f)) = Firing(u)
    BY <2>3, <2>4, PlainPush
  <2> QED BY <1>2, <2>3, <2>4, <2>5
<1>4. Calls' = Calls
  BY <1>1, <1>2, <1>3 DEF Calls
<1> QED BY <1>1, <1>4, QuietEffect

LEMMA FailureEffect ==
    ASSUME Inv, NEW s \in Seq(Frame), s # <<>>, s[Len(s)].fn # "timer", FailReload(s),
           Firing(s) = Calls, UNCHANGED <<cl, commands, accepted, ran, nextID>>
    PROVE  Effect
<1>1. Calls' = Calls /\ closed' /\ DropWork
  BY PlainFailure DEF FailReload
<1>2. Drops
  BY <1>1, SamePlaces DEF Drops, Open
<1> QED BY <1>2 DEF Effect

LEMMA InstallerReturnsEffect ==
    ASSUME CallsInv, NEW err \in BOOLEAN, InstallerReturns(err) PROVE Effect
<1>1. /\ stack # <<>> /\ Top.fn = "installer" /\ UNCHANGED <<cl, commands, accepted, ran, nextID>>
  BY DEF InstallerReturns, At, Running
<1>2. Firing(Below) = Calls
  BY <1>1, PlainPop DEF CallsInv
<1>3. CASE err
  <2>1. FailReload(Below)
    BY <1>3 DEF InstallerReturns
  <2> QED BY <1>1, <1>2, <2>1, CallerFrame, FailureEffect DEF CallsInv
<1>4. CASE ~err
  <2>1. stack' = Below /\ UNCHANGED <<timers, cancelled, jsTimers, tasks>>
    BY <1>4 DEF InstallerReturns
  <2> QED BY <1>1, <1>2, <2>1, QuietEffect DEF Calls
<1> QED BY <1>3, <1>4

LEMMA UserReturnsEffect == ASSUME CallsInv, UserReturns PROVE Effect
<1>1. Inv /\ TaskErrors \subseteq BOOLEAN
  BY ConstantsAssumption DEF CallsInv
<1> QED BY <1>1, UserCloseOnceEffect, StartTimerEffect, TimerReturnsEffect, BodyReturnsEffect,
           RunTaskReturnsEffect, InstallerReturnsEffect
        DEF UserReturns

LEMMA DisposalFrame ==
    ASSUME Inv, Running(Disposals)
    PROVE  /\ stack # <<>> /\ Top \in Frame /\ Top.fn # "timer" /\ Firing(Below) = Calls
           /\ stack \in Seq(Frame) /\ Below \in Seq(Frame) /\ Top = stack[Len(stack)]
           /\ \A pc \in Points : GoesOn(GoTo(pc))
<1>1. stack # <<>> /\ Top.fn # "timer"
  BY DEF Running, Disposals
<1> QED BY <1>1, SeqFacts, PlainPop, PlainGoTo DEF GoesOn, Top

LEMMA CloseResourceEffect == ASSUME Inv, CloseResource PROVE Effect
<1>1. /\ Running(Disposals) /\ Top.idx > 0
      /\ stack' = Append(Append(Below, [Top EXCEPT !.idx = @ - 1]),
                         NewFrame("resource", "body", None))
      /\ UNCHANGED <<cl, commands, tasks, timers, accepted, ran, cancelled, jsTimers, nextID>>
  BY DEF CloseResource, At
<1>2. /\ stack # <<>> /\ Top \in Frame /\ Top.fn # "timer" /\ Firing(Below) = Calls
      /\ Below \in Seq(Frame)
  BY <1>1, DisposalFrame
<1>3. PICK f : f = [Top EXCEPT !.idx = @ - 1]
  OBVIOUS
<1>4. f \in Frame /\ f.fn = Top.fn
  <2>1. PICK t : t = Top
    OBVIOUS
  <2>2. PICK k : k = t.idx - 1
    OBVIOUS
  <2>3. t \in Frame /\ k \in Nat /\ f = [t EXCEPT !.idx = k]
    BY <1>1, <1>2, <1>3, <2>1, <2>2 DEF Frame
  <2> QED BY <2>1, <2>3 DEF Frame
<1>5. PICK s : s = Append(Below, f)
  OBVIOUS
<1>6. s \in Seq(Frame) /\ Firing(s) = Calls
  BY <1>2, <1>4, <1>5, PlainPush
<1>7. stack' = Append(s, NewFrame("resource", "body", None))
  BY <1>1, <1>3, <1>5
<1>8. Firing(stack') = Firing(s)
  BY <1>6, <1>7, FnsApart, PlainNew DEF Points
<1> QED BY <1>1, <1>6, <1>8, QuietEffect DEF Calls

LEMMA InitializeGenerationEffect == ASSUME Inv, InitializeGeneration PROVE Effect
<1>1. Running(Disposals) /\ UNCHANGED <<cl, commands, accepted, ran, nextID>>
  BY DEF InitializeGeneration, At, Running, Disposals
<1>2. CASE /\ stack' = Append(GoTo("finish"), NewFrame("installer", "body", None))
           /\ UNCHANGED <<timers, cancelled, jsTimers, tasks>>
  <2>1. GoesOn(GoTo("finish"))
    BY <1>1, DisposalFrame DEF Points
  <2>2. Firing(stack') = Firing(GoTo("finish"))
    BY <1>2, <2>1, FnsApart, PlainNew DEF Points, GoesOn
  <2> QED BY <1>1, <1>2, <2>1, <2>2, QuietEffect DEF GoesOn, Calls
<1>3. CASE FailReload(stack)
  <2>1. /\ stack # <<>> /\ stack \in Seq(Frame) /\ stack[Len(stack)].fn # "timer"
        /\ Firing(stack) = Calls
    BY <1>1, DisposalFrame DEF Calls
  <2> QED BY <1>1, <1>3, <2>1, FailureEffect
<1> QED BY <1>2, <1>3 DEF InitializeGeneration

LEMMA DisposingEffect == ASSUME Inv, Disposing PROVE Effect
<1>1. CASE DisposeContext \/ ReloadReturns \/ CloseFinishes
  <2>1. /\ Running(Disposals)
        /\ UNCHANGED <<cl, commands, tasks, timers, accepted, ran, cancelled, jsTimers, nextID>>
        /\ stack' = Below \/ \E pc \in Points : stack' = GoTo(pc)
    BY <1>1 DEF DisposeContext, ReloadReturns, CloseFinishes, At, Running, Disposals, MoveOn, Points
  <2>2. Calls' = Calls
    <3>1. CASE stack' = Below
      BY <2>1, <3>1, DisposalFrame DEF Calls
    <3>2. CASE \E pc \in Points : stack' = GoTo(pc)
      <4>1. GoesOn(stack')
        BY <2>1, <3>2, DisposalFrame
      <4> QED BY <4>1 DEF GoesOn, Calls
    <3> QED BY <2>1, <3>1, <3>2
  <2> QED BY <2>1, <2>2, QuietEffect
<1> QED BY <1>1, CloseResourceEffect, InitializeGenerationEffect DEF Disposing

\* Each step has one of these effects.
LEMMA StepEffect ==
    ASSUME CallsInv, KindsOK, StateOK, [Next]_vars
    PROVE  Effect
<1>1. Inv
  BY DEF CallsInv
<1>2. CASE Owner
  BY <1>1, <1>2, PumpingEffect, UserActsEffect, UserReturnsEffect, DisposingEffect DEF Owner
<1>3. CASE \E c \in Clients : Caller(c) \/ Client(c)
  BY <1>1, <1>3, ClientEffect
<1>4. CASE Tick \/ Quiet \/ UNCHANGED vars
  BY <1>4, SamePlaces, QuietEffect DEF Tick, Quiet, vars
<1> QED BY <1>2, <1>3, <1>4 DEF Next

-------------------------------------------------------------------------------
\* An id is given once.

\* What is known after a step is known before it, or is the item n it makes; and a
\* mark is an old one, or that of such an item.
Traces(n) ==
    /\ \A y \in Known' : (\E x \in Known : Same(x, y)) \/ (y = n /\ IsNew(n))
    /\ nextID' = nextID \/ nextID' = nextID + 1
    /\ \A i \in jsTimers' : i \in jsTimers \/ (IsNew(n) /\ i = n.id /\ IsJS(n))
    /\ \A i \in cancelled' :
         \/ i \in cancelled \/ i \in jsTimers
         \/ \E x \in Known : x.id = i /\ x.kind # "Schedule"
         \/ IsNew(n) /\ i = n.id /\ n.kind # "Schedule"
    /\ \A i \in RanIds' : i \in RanIds \/ \E x \in Known : x.id = i

LEMMA SameItself == ASSUME NEW x PROVE Same(x, x)
  BY DEF Same

LEMMA IdTypes ==
    ASSUME Inv
    PROVE  /\ nextID \in Nat /\ MaxItems \in Nat /\ generation \in Nat
           /\ cancelled \subseteq Nat /\ jsTimers \subseteq Nat
           /\ \A x \in Known : x.id \in Nat /\ x.gen \in Nat
<1>1. \A x \in Item : x.id \in Nat /\ x.gen \in Nat
  BY DEF Item
<1> QED BY <1>1, KnownTypes, ConstantsAssumption DEF Inv, TypeOK, CountTypes, StateTypes, WorkTypes

LEMMA TracesIds ==
    ASSUME Inv, Inv', IdsOK, NEW n, Traces(n), generation <= generation'
    PROVE  IdsOK'
<1> USE IdTypes
<1>1. nextID' \in Nat /\ generation' \in Nat /\ nextID <= nextID'
  BY DEF Traces, Inv, TypeOK, CountTypes, StateTypes
<1>2. \A x \in Known : IdOK(x)
  BY DEF IdsOK
<1>3. \A x, y \in Known : x.id = y.id => Same(x, y)
  BY DEF IdsOK
<1>4. \A id \in RanIds \cup cancelled \cup jsTimers : id <= nextID
  BY DEF IdsOK
<1>5. ASSUME NEW x \in Known, NEW y \in Known', Same(x, y) PROVE IdOK(y)'
  <2>1. /\ x.id = y.id /\ x.kind = y.kind /\ x.gen = y.gen /\ IdOK(x)
    BY <1>2, <1>5 DEF Same
  <2>2. y.id <= nextID' /\ y.id <= MaxItems /\ y.gen <= generation' /\ y.kind \in UsedOps
    BY <1>1, <2>1 DEF IdOK
  <2>3. ~(IsNew(n) /\ y.id = n.id)
    BY <2>1 DEF IdOK, IsNew
  <2>4. y.id \in jsTimers' => y.kind \in JSTimers
    BY <2>1, <2>3 DEF IdOK, Traces
  <2>5. y.id \in cancelled' => y.kind # "Schedule"
    <3>1. ASSUME y.id \in cancelled' PROVE y.kind # "Schedule"
      <4>1. CASE y.id \in cancelled
        BY <2>1, <4>1 DEF IdOK
      <4>2. CASE y.id \in jsTimers
        BY <2>1, <4>2 DEF IdOK, JSTimers
      <4>3. CASE \E z \in Known : z.id = y.id /\ z.kind # "Schedule"
        BY <1>3, <2>1, <4>3 DEF Same
      <4> QED BY <2>3, <3>1, <4>1, <4>2, <4>3 DEF Traces
    <3> QED BY <3>1
  <2> QED BY <2>2, <2>4, <2>5 DEF IdOK
<1>6. ASSUME IsNew(n) PROVE IdOK(n)'
  <2>1. /\ n.id = nextID + 1 /\ nextID' = nextID + 1 /\ nextID < MaxItems
        /\ n.gen = generation /\ n.kind \in UsedOps
    BY <1>6 DEF IsNew
  <2>2. n.id \notin jsTimers /\ n.id \notin cancelled /\ \A x \in Known : x.id # n.id
    BY <1>2, <1>4, <2>1 DEF IdOK
  <2>3. n.id \in jsTimers' => n.kind \in JSTimers
    BY <2>2 DEF Traces, IsJS
  <2>4. n.id \in cancelled' => n.kind # "Schedule"
    BY <2>2 DEF Traces
  <2>5. n.id <= nextID' /\ n.id <= MaxItems /\ n.gen <= generation'
    BY <2>1
  <2> QED BY <2>1, <2>3, <2>4, <2>5 DEF IdOK
<1>7. \A y \in Known' : IdOK(y)'
  BY <1>5, <1>6 DEF Traces
<1>8. ASSUME NEW x \in Known', NEW y \in Known', x.id = y.id PROVE Same(x, y)
  <2>1. CASE (\E v \in Known : Same(v, x)) /\ (\E w \in Known : Same(w, y))
    <3>1. PICK v \in Known, w \in Known : Same(v, x) /\ Same(w, y)
      BY <2>1
    <3>2. Same(v, w)
      BY <1>3, <1>8, <3>1 DEF Same
    <3> QED BY <3>1, <3>2 DEF Same
  <2>2. CASE x = n /\ IsNew(n) /\ \E w \in Known : Same(w, y)
    BY <1>2, <1>8, <2>2 DEF Same, IsNew, IdOK
  <2>3. CASE y = n /\ IsNew(n) /\ \E w \in Known : Same(w, x)
    BY <1>2, <1>8, <2>3 DEF Same, IsNew, IdOK
  <2>4. CASE x = n /\ y = n
    BY <2>4, SameItself
  <2> QED BY <2>1, <2>2, <2>3, <2>4 DEF Traces
<1>9. ASSUME NEW i \in RanIds' \cup cancelled' \cup jsTimers' PROVE i <= nextID'
  <2>1. i \in RanIds \cup cancelled \cup jsTimers \/ (\E x \in Known : x.id = i)
        \/ (IsNew(n) /\ i = n.id)
    BY <1>9 DEF Traces
  <2>2. CASE IsNew(n) /\ i = n.id
    BY <1>1, <2>2 DEF IsNew
  <2>3. CASE \E x \in Known : x.id = i
    BY <1>1, <1>2, <2>3 DEF IdOK
  <2>4. CASE i \in RanIds \cup cancelled \cup jsTimers
    <3>1. i <= nextID
      BY <1>4, <2>4
    <3>2. i \in Nat
      <4>1. CASE i \in RanIds
        <5>1. PICK k \in DOMAIN ran : i = ran[k].id
          BY <4>1 DEF RanIds
        <5>2. PICK T : T = [id : Nat, kind : Ops, gen : Nat, at : Nat, late : BOOLEAN]
          OBVIOUS
        <5>3. ran \in Seq(T)
          BY <5>2 DEF Inv, TypeOK, HistoryTypes
        <5>4. ran[k] \in T
          BY <5>1, <5>3
        <5> QED BY <5>1, <5>2, <5>4
      <4> QED BY <2>4, <4>1
    <3> QED BY <1>1, <3>1, <3>2
  <2> QED BY <2>1, <2>2, <2>3, <2>4
<1> QED BY <1>7, <1>8, <1>9 DEF IdsOK

\* What the callback starts and returns do to the callbacks.
LEMMA FiredSets ==
    /\ \A S, f : Fired(S \cup {f}) = Fired(S) \cup {f.item}
    /\ \A S, f : Fired(S \ {f}) \subseteq Fired(S)
    /\ \A S, f : f \in S => f.item \in Fired(S)
    /\ Fired({}) = {}
  BY DEF Fired

LEMMA RanAppend ==
    ASSUME Inv, NEW x, ran' = Append(ran, Start(x))
    PROVE  RanIds' = RanIds \cup {x.id}
<1> DEFINE n == Len(ran)
<1>1. ran \in Seq([id : Nat, kind : Ops, gen : Nat, at : Nat, late : BOOLEAN])
  BY DEF Inv, TypeOK, HistoryTypes
<1>2. Start(x).id = x.id
  BY DEF Start
<1>3. PICK r : r = Start(x)
  OBVIOUS
<1>4. /\ n \in Nat /\ DOMAIN ran = 1..n /\ DOMAIN ran' = 1..n + 1
      /\ ran'[n + 1] = r /\ \A i \in 1..n : ran'[i] = ran[i]
  BY <1>1, <1>3
<1> HIDE DEF n
<1>5. \A i \in DOMAIN ran' : i = n + 1 \/ (i \in DOMAIN ran /\ ran'[i] = ran[i])
  BY <1>4
<1>6. n + 1 \in DOMAIN ran' /\ \A i \in DOMAIN ran : i \in DOMAIN ran' /\ ran'[i] = ran[i]
  BY <1>4
<1> QED BY <1>2, <1>3, <1>4, <1>5, <1>6 DEF RanIds

\* A step that makes no item.
LEMMA MakesNone ==
    ASSUME Inv, Known' \subseteq Known, nextID' = nextID \/ nextID' = nextID + 1,
           jsTimers' \subseteq jsTimers,
           \A i \in cancelled' : \/ i \in cancelled \/ i \in jsTimers
                                 \/ \E x \in Known : x.id = i /\ x.kind # "Schedule",
           \A i \in RanIds' : i \in RanIds \/ \E x \in Known : x.id = i
    PROVE  \E n : Traces(n)
<1>1. \A y \in Known' : \E x \in Known : Same(x, y)
  BY SameItself
<1>2. Traces(NoItem)
  BY <1>1 DEF Traces
<1> QED BY <1>2

LEMMA SameRan == ran' = ran => RanIds' = RanIds
  BY DEF RanIds

LEMMA EffectTraces ==
    ASSUME Inv, KindsOK, Effect
    PROVE  \E n : Traces(n)
<1> USE SameRan
<1>1. \A x \in timers \cup Fired(Calls) : x \in Known /\ x.kind # "Schedule"
  BY DEF KindsOK, Known, Stored, AllTimers, Timeouts, Intervals
<1>2. CASE Quietly
  BY <1>2, MakesNone DEF Quietly, Known, Stored
<1>3. CASE Discards
  BY <1>3, KeptType, MakesNone DEF Discards, Known, Stored
<1>4. CASE Drops
  <2>1. /\ UNCHANGED <<HandItems, SentItems, Calls, AcceptedItems, ran, nextID>>
        /\ tasks' = <<>> /\ timers' = {} /\ jsTimers' = {}
        /\ cancelled' = cancelled \cup {e.id : e \in timers} \cup jsTimers
    BY <1>4 DEF Drops, DropWork
  <2>2. TaskItems' = {}
    BY <2>1 DEF TaskItems, ItemsOf
  <2>3. Known' \subseteq Known
    BY <2>1, <2>2 DEF Known, Stored
  <2> QED BY <1>1, <2>1, <2>3, MakesNone
<1>5. CASE Leaves
  BY <1>5, FiredSets, MakesNone DEF Leaves, Known, Stored
<1>6. ASSUME NEW x \in Item, Sends(x) \/ Refused(x) \/ Cancels(x) PROVE \E n : Traces(n)
  <2>1. CASE Sends(x)
    BY <2>1, MakesNone DEF Sends, HandsOver, Known, Stored
  <2>2. CASE Refused(x)
    BY <2>2, MakesNone DEF Refused, HandsOver, Known, Stored
  <2>3. CASE Cancels(x)
    BY <2>3, MakesNone DEF Cancels, Known, Stored
  <2> QED BY <1>6, <2>1, <2>2, <2>3
<1>7. ASSUME NEW x \in Item, Queues(x) \/ Arms(x) \/ RunsTask(x) PROVE \E n : Traces(n)
  <2>1. CASE Queues(x)
    BY <2>1, MakesNone DEF Queues, Takes, Known, Stored
  <2>2. CASE Arms(x)
    BY <2>2, MakesNone DEF Arms, Takes, Known, Stored, AllTimers, Timeouts, Intervals
  <2>3. CASE RunsTask(x)
    BY <2>3, RanAppend, MakesNone DEF RunsTask, Known, Stored
  <2> QED BY <1>7, <2>1, <2>2, <2>3
<1>8. ASSUME NEW x \in Item, Begins(x) \/ Posts(x) \/ AddsJS(x) PROVE Traces(x)
  <2>1. CASE Begins(x)
    BY <2>1, SameItself DEF Begins, IsNew, Known, Stored, Traces
  <2>2. CASE Posts(x)
    BY <2>2, SameItself DEF Posts, IsNew, Known, Stored, Traces
  <2>3. CASE AddsJS(x)
    BY <2>3, SameItself DEF AddsJS, IsNew, Known, Stored, Traces
  <2> QED BY <1>8, <2>1, <2>2, <2>3
<1>9. ASSUME NEW x \in Item, Registers(x) PROVE \E n : Traces(n)
  <2>1. CASE Takes(x) /\ UNCHANGED nextID
    BY <1>9, <2>1, MakesNone DEF Registers, Takes, Known, Stored
  <2>2. CASE IsNew(x) /\ UNCHANGED SentItems
    <3>1. Traces(x)
      BY <1>9, <2>2, SameItself DEF Registers, IsNew, Known, Stored, Traces
    <3> QED BY <3>1
  <2> QED BY <1>9, <2>1, <2>2 DEF Registers
<1>10. ASSUME NEW x \in Item, Pops(x) PROVE \E n : Traces(n)
  <2>1. x \in timers
    BY <1>10, KeptType DEF Pops, Due, Peek
  <2>2. Fired(Calls)' \subseteq Fired(Calls) \cup {x}
    BY <1>10, FiredSets DEF Pops
  <2>3. Known' \subseteq Known
    BY <1>10, <2>1, <2>2, KeptType DEF Pops, Known, Stored
  <2>4. \A i \in cancelled' : i \in cancelled \/ i = x.id
    BY <1>10 DEF Pops
  <2> QED BY <1>1, <1>10, <2>1, <2>3, <2>4, MakesNone DEF Pops
<1>11. ASSUME NEW id \in Nat, ClearsJS(id) PROVE \E n : Traces(n)
  BY <1>11, MakesNone DEF ClearsJS, Known, Stored
<1>12. ASSUME NEW f \in Calls, Starts(f) PROVE \E n : Traces(n)
  <2>1. f.item \in Fired(Calls)
    BY FiredSets
  <2>2. Fired(Calls)' \subseteq Fired(Calls) \cup {f.item}
    <3>1. PICK g : g.item = f.item /\ Calls' = (Calls \ {f}) \cup {g}
      BY <1>12 DEF Starts, Begun
    <3>2. Fired(Calls') = Fired(Calls \ {f}) \cup {f.item}
      BY <3>1, FiredSets
    <3> QED BY <3>2, FiredSets
  <2>3. Known' \subseteq Known /\ jsTimers' \subseteq jsTimers
    BY <1>12, <2>1, <2>2 DEF Starts, Known, Stored
  <2>4. \A i \in RanIds' : i \in RanIds \/ i = f.item.id
    BY <1>12, RanAppend DEF Starts
  <2> QED BY <1>1, <1>12, <2>1, <2>3, <2>4, MakesNone DEF Starts
<1>13. ASSUME NEW f \in Calls, Returns(f) PROVE \E n : Traces(n)
  <2>1. f.item \in Known
    BY <1>1, FiredSets
  <2>2. Fired(Calls)' \subseteq Fired(Calls)
    BY <1>13, FiredSets DEF Returns
  <2>3. jsTimers' \subseteq jsTimers /\ (nextID' = nextID \/ nextID' = nextID + 1)
    BY <1>13 DEF Returns
  <2>4. \A e \in timers' : e \in timers \/ Same(f.item, e)
    BY <1>13 DEF Returns, Same
  <2>5. \A y \in Known' : \E x \in Known : Same(x, y)
    <3>1. \A y \in Known' : y \in Known \/ Same(f.item, y)
      BY <1>13, <2>2, <2>4 DEF Returns, Known, Stored
    <3> QED BY <2>1, <3>1, SameItself
  <2>6. Traces(NoItem)
    BY <1>13, <2>3, <2>5 DEF Returns, Traces
  <2> QED BY <2>6
<1> QED BY <1>2, <1>3, <1>4, <1>5, <1>6, <1>7, <1>8, <1>9, <1>10, <1>11, <1>12, <1>13 DEF Effect

\* Only a Reload makes a generation.
LEMMA ReceiveGeneration == ASSUME NEW st, Receive(st) PROVE generation' = generation
<1>1. HandleCommand(Head(commands), st)
  BY DEF Receive
<1> QED BY <1>1 DEF HandleCommand, HandleSchedule, HandleAddTimer, HandleStartStop, HandleDo,
           HandleRun, EnterRun, HandleRegisterResource, HandleReload, HandleClose, BeginDisposal

LEMMA GenerationStep ==
    ASSUME [Next]_vars
    PROVE  generation' = generation \/ (InitializeGeneration /\ generation' = generation + 1)
<1>1. CASE Pumping
  BY <1>1, ReceiveGeneration DEF Pumping, OwnerReceives, OwnerReturns, RunReturns, PumpOnce,
     DrainCommands, Drained, NotRunning, RunTask, FireDueTimer, RunJobs, JobsReturn, RunIsIdle, RunHasWork,
     WaitForWork, OnlyStack
<1>2. CASE UserActs
  BY <1>2 DEF UserActs, UserStartStop, UserDo, UserRun, UserCallsItself, UserEnqueue, JSAddTimer,
     ClearJSTimer, UserCancel, UserRegisterResource, UserReload, UserClose, BeginDisposal
<1>3. CASE UserReturns
  BY <1>3 DEF UserReturns, UserCloseOnce, StartTimer, TimerReturns, BodyReturns, RunTaskReturns,
     InstallerReturns, BeginDisposal
<1>4. CASE Disposing
  BY <1>4 DEF Disposing, CloseResource, DisposeContext, InitializeGeneration, ReloadReturns,
     CloseFinishes
<1>5. CASE \E c \in Clients : Caller(c) \/ Client(c)
  BY <1>5 DEF Caller, Client, BeginCall, BeginEnqueue, CancelTimer, BeginClose, Send, Await,
     Enqueue, CloseOnce, CloseReturns
<1>6. CASE Tick \/ Quiet \/ UNCHANGED vars
  BY <1>6 DEF Tick, Quiet, vars
<1> QED BY <1>1, <1>2, <1>3, <1>4, <1>5, <1>6 DEF Next, Owner

LEMMA IdsStep ==
    ASSUME Inv, Inv', KindsOK, IdsOK, Effect, [Next]_vars
    PROVE  IdsOK'
<1>1. PICK n : Traces(n)
  BY EffectTraces
<1>2. generation \in Nat /\ generation <= generation'
  BY GenerationStep DEF Inv, TypeOK, StateTypes
<1> QED BY <1>1, <1>2, TracesIds

-------------------------------------------------------------------------------
\* The state a Reload goes back to is not "Closed".

Reopens(s) ==
    s \in Seq(Frame) /\ \A i \in DOMAIN s : s[i].fn = "reload" => s[i].prev # "Closed"

LEMMA ReopensAppend ==
    ASSUME NEW s, Reopens(s), NEW f \in Frame, f.fn = "reload" => f.prev # "Closed"
    PROVE  Reopens(Append(s, f))
<1>1. s \in Seq(Frame) /\ \A i \in DOMAIN s : s[i].fn = "reload" => s[i].prev # "Closed"
  BY DEF Reopens
<1>2. Append(s, f) \in Seq(Frame)
  BY <1>1
<1>3. \A i \in DOMAIN Append(s, f) :
        Append(s, f)[i] = f \/ (i \in DOMAIN s /\ Append(s, f)[i] = s[i])
  BY <1>1
<1> QED BY <1>1, <1>2, <1>3 DEF Reopens

LEMMA ReopensPrefix ==
    ASSUME NEW s, Reopens(s), NEW n \in Int, n <= Len(s)
    PROVE  Reopens(SubSeq(s, 1, n))
<1>1. s \in Seq(Frame) /\ \A i \in DOMAIN s : s[i].fn = "reload" => s[i].prev # "Closed"
  BY DEF Reopens
<1>2. SubSeq(s, 1, n) \in Seq(Frame)
  BY <1>1
<1>3. \A i \in DOMAIN SubSeq(s, 1, n) : i \in DOMAIN s /\ SubSeq(s, 1, n)[i] = s[i]
  BY <1>1
<1> QED BY <1>1, <1>2, <1>3 DEF Reopens

LEMMA ReopensTop ==
    ASSUME Inv, StateOK, stack # <<>>
    PROVE  /\ Reopens(stack) /\ Reopens(Below) /\ Reopens(SubSeq(stack, 1, Len(stack) - 2))
           /\ Top.fn = "reload" => Top.prev # "Closed"
           /\ \A f \in Frame : f.fn = Top.fn /\ f.prev = Top.prev => Reopens(Append(Below, f))
           /\ \A pc \in Points : Reopens(GoTo(pc))
<1>1. /\ stack \in Seq(Frame) /\ Len(stack) \in Nat /\ Len(stack) > 0
      /\ DOMAIN stack = 1..Len(stack) /\ Top \in Frame /\ Top = stack[Len(stack)]
  BY SeqFacts DEF Top
<1>2. Reopens(stack)
  BY <1>1 DEF StateOK, Reopens
<1>3. Reopens(Below) /\ Reopens(SubSeq(stack, 1, Len(stack) - 2))
  BY <1>1, <1>2, ReopensPrefix DEF Below
<1>4. Top.fn = "reload" => Top.prev # "Closed"
  BY <1>1 DEF StateOK
<1>5. \A f \in Frame : f.fn = Top.fn /\ f.prev = Top.prev => Reopens(Append(Below, f))
  BY <1>3, <1>4, ReopensAppend
<1>6. ASSUME NEW pc \in Points PROVE Reopens(GoTo(pc))
  <2>1. PICK f : f = [Top EXCEPT !.pc = pc]
    OBVIOUS
  <2>2. f \in Frame /\ f.fn = Top.fn /\ f.prev = Top.prev
    BY <1>1, <2>1 DEF Frame
  <2> QED BY <1>5, <2>1, <2>2 DEF GoTo
<1> QED BY <1>2, <1>3, <1>4, <1>5, <1>6

LEMMA ReopensNew ==
    ASSUME NEW s, Reopens(s), NEW fn \in Loops \cup Bodies, NEW pc \in Points, NEW c \in Owners
    PROVE  Reopens(Append(s, NewFrame(fn, pc, c)))
<1>1. NewFrame(fn, pc, c) \in Frame
  BY NewFrameType
<1>2. NewFrame(fn, pc, c).fn = fn /\ fn # "reload"
  BY DEF NewFrame, Loops, Bodies
<1> QED BY <1>1, <1>2, ReopensAppend

LEMMA ReopensRun ==
    ASSUME NEW s, Reopens(s), NEW c \in Owners, EnterRun(c, s)
    PROVE  Reopens(stack')
<1> DEFINE f == NewFrame("run", "top", c)
           g == NewFrame("runTask", "body", c)
<1>1. {"top", "body"} \subseteq Points /\ "run" \in Loops /\ "runTask" \in Bodies
  BY DEF Points, Loops, Bodies
<1>2. Reopens(Append(s, f)) /\ f \in Frame
  BY <1>1, ReopensNew, NewFrameType
<1>3. Reopens(Append(Append(s, f), g)) /\ g \in Frame
  <2> HIDE DEF f
  <2> QED BY <1>1, <1>2, ReopensNew, NewFrameType
<1>4. stack' = s \o <<f, g>> /\ s \in Seq(Frame)
  BY DEF EnterRun, Reopens
<1> HIDE DEF f, g
<1>5. stack' = Append(Append(s, f), g)
  BY <1>2, <1>3, <1>4
<1> QED BY <1>3, <1>5

LEMMA ReopensDisposal ==
    ASSUME Inv, NEW s, Reopens(s), NEW fn \in Disposals, NEW c \in Owners,
           BeginDisposal(fn, c, s), fn = "reload" => state # "Closed"
    PROVE  Reopens(stack')
<1> DEFINE f == Disposal(fn, c)
<1>1. f \in Frame /\ f.fn = fn /\ f.prev = state
  <2>1. NewFrame(fn, "resources", c) \in Frame
    BY NewFrameType DEF Points
  <2>2. Len(resources) \in Nat /\ state \in States
    BY DEF Inv, TypeOK, StackTypes, StateTypes
  <2> QED BY <2>1, <2>2 DEF Disposal, NewFrame, Frame
<1>2. stack' = Append(s, f)
  BY DEF BeginDisposal
<1> HIDE DEF f
<1> QED BY <1>1, <1>2, ReopensAppend

LEMMA ReopensFailure ==
    ASSUME Inv, NEW s, Reopens(s), s # <<>>, FailReload(s)
    PROVE  Reopens(stack')
<1>1. Len(s) \in Nat /\ Len(s) > 0 /\ s[Len(s)] \in Frame /\ Len(resources) \in Nat
  <2>1. s \in Seq(Frame)
    BY DEF Reopens
  <2> QED BY <2>1 DEF Inv, TypeOK, StackTypes
<1>2. PICK u : u = SubSeq(s, 1, Len(s) - 1)
  OBVIOUS
<1>3. Reopens(u)
  BY <1>1, <1>2, ReopensPrefix
<1>4. PICK f : f = s[Len(s)]
  OBVIOUS
<1>5. PICK g : g = [f EXCEPT !.fn = "failedReload"]
  OBVIOUS
<1>6. PICK h : h = [g EXCEPT !.pc = "resources"]
  OBVIOUS
<1>7. PICK k : k = [h EXCEPT !.idx = Len(resources)]
  OBVIOUS
<1>8. stack' = Append(u, k)
  BY <1>2, <1>4, <1>5, <1>6, <1>7 DEF FailReload
<1>9. k \in Frame /\ k.fn = "failedReload"
  <2>1. g \in Frame /\ g.fn = "failedReload"
    BY <1>1, <1>4, <1>5 DEF Frame, Disposals
  <2>2. h \in Frame /\ h.fn = "failedReload"
    BY <2>1, <1>6 DEF Frame, Points
  <2> QED BY <2>2, <1>1, <1>7 DEF Frame
<1> QED BY <1>3, <1>8, <1>9, ReopensAppend

LEMMA ReopensReceive ==
    ASSUME Inv, NEW s, Reopens(s), Receive(s)
    PROVE  Reopens(stack')
<1> DEFINE cmd == Head(commands)
<1>1. cmd.client \in Owners
  <2>1. cmd \in Command
    BY StatePlaces DEF Receive
  <2> QED BY <2>1 DEF Command
<1>2. HandleCommand(cmd, s)
  BY DEF Receive
<1> HIDE DEF cmd
<1>3. CASE stack' = s
  BY <1>3
<1>4. CASE stack' = Append(s, NewFrame("do", "body", cmd.client))
  BY <1>1, <1>4, ReopensNew DEF Bodies, Points
<1>5. CASE EnterRun(cmd.client, s)
  BY <1>1, <1>5, ReopensRun
<1>6. CASE \E fn \in Disposals : BeginDisposal(fn, cmd.client, s) /\ (fn = "reload" => ~IsClosed)
  BY <1>1, <1>6, ReopensDisposal DEF IsClosed
<1>7. "reload" \in Disposals /\ "close" \in Disposals
  BY DEF Disposals
<1> QED BY <1>2, <1>3, <1>4, <1>5, <1>6, <1>7
        DEF HandleCommand, HandleSchedule, HandleAddTimer, HandleStartStop, HandleDo,
            HandleRun, HandleRegisterResource, HandleReload, HandleClose

LEMMA ReopensPumping == ASSUME Inv, StateOK, Pumping PROVE Reopens(stack')
<1>1. stack # <<>> /\ Running(Loops)
  BY DEF Pumping, OwnerReceives, OwnerReturns, RunReturns, PumpOnce, DrainCommands, Drained,
         NotRunning, RunTask, FireDueTimer, RunJobs, JobsReturn, RunIsIdle, RunHasWork, WaitForWork,
         CanWork, At, Running, Loops
<1>2. Top \in Frame /\ Reopens(stack) /\ Reopens(Below) /\ \A pc \in Points : Reopens(GoTo(pc))
  BY <1>1, ReopensTop, SeqFacts
<1>12. Reopens(Progress)
  <2>1. PICK f \in Frame : Progress = Append(Below, f) /\ f.fn = Top.fn /\ f.prev = Top.prev
    BY <1>2, ProgressFrame
  <2> QED BY <1>1, <2>1, ReopensTop
<1>3. CASE OwnerReceives
  BY <1>2, <1>3, ReopensReceive DEF OwnerReceives
<1>4. CASE OwnerReturns
  BY <1>4 DEF OwnerReturns, Reopens
<1>5. CASE RunReturns \/ RunIsIdle
  BY <1>2, <1>5 DEF RunReturns, RunIsIdle
<1>6. CASE PumpOnce
  <2>1. PICK g : g = [Top EXCEPT !.pc = "drain"]
    OBVIOUS
  <2>2. PICK f : f = [g EXCEPT !.progressed = FALSE]
    OBVIOUS
  <2>3. g \in Frame /\ g.fn = Top.fn /\ g.prev = Top.prev
    BY <1>2, <2>1 DEF Frame, Points
  <2>4. f \in Frame /\ f.fn = Top.fn /\ f.prev = Top.prev
    BY <2>2, <2>3 DEF Frame
  <2>5. stack' = Append(Below, f)
    BY <1>6, <2>1, <2>2 DEF PumpOnce
  <2> QED BY <1>1, <2>4, <2>5, ReopensTop
<1>7. CASE DrainCommands
  <2>1. PICK f : f = [Top EXCEPT !.progressed = TRUE]
    OBVIOUS
  <2>2. f \in Frame /\ f.fn = Top.fn /\ f.prev = Top.prev
    BY <1>2, <2>1 DEF Frame
  <2>3. Receive(Append(Below, f))
    BY <1>7, <2>1 DEF DrainCommands
  <2> QED BY <1>1, <2>2, <2>3, ReopensTop, ReopensReceive
<1>8. CASE Drained \/ NotRunning \/ RunJobs \/ (\E more \in BOOLEAN : JobsReturn(more)) \/ RunHasWork
  <2>1. \E pc \in {"work", "jobs", "top", "check", "wait"} : stack' = GoTo(pc)
    BY <1>8 DEF Drained, NotRunning, RunJobs, JobsReturn, RunHasWork, MoveOn, PumpReturns
  <2> QED BY <1>2, <2>1 DEF Points
<1>9. CASE RunTask
  <2>1. Reopens(Progress) /\ "task" \in Bodies /\ "body" \in Points /\ None \in Owners
    BY <1>12 DEF Points, Bodies, Owners
  <2>2. Reopens(Append(Progress, NewFrame("task", "body", None)))
    BY <2>1, ReopensNew
  <2> QED BY <1>9, <2>2 DEF RunTask
<1>10. CASE FireDueTimer
  <2>1. PICK e \in Due :
          \/ stack' = Progress
          \/ stack' = Append(Progress, [NewFrame("timer", "start", None) EXCEPT !.item = e])
    BY <1>10 DEF FireDueTimer
  <2>2. e \in Item
    BY KeptType DEF Due, Peek, Inv, TypeOK, WorkTypes
  <2>3. PICK g : g = NewFrame("timer", "start", None)
    OBVIOUS
  <2>4. g \in Frame /\ g.fn = "timer"
    <3>1. g \in Frame
      BY <2>3, NewFrameType DEF Bodies, Points, Owners
    <3> QED BY <2>3, <3>1 DEF NewFrame
  <2>5. PICK f : f = [g EXCEPT !.item = e]
    OBVIOUS
  <2>6. f \in Frame /\ f.fn = "timer"
    BY <2>2, <2>4, <2>5 DEF Frame
  <2>7. Reopens(Progress)
    BY <1>12
  <2>8. Reopens(Append(Progress, f))
    BY <2>6, <2>7, ReopensAppend
  <2> QED BY <2>1, <2>3, <2>5, <2>7, <2>8
<1>11. CASE WaitForWork
  <2>1. Reopens(GoTo("top"))
    BY <1>2 DEF Points
  <2> QED BY <1>11, <2>1, ReopensReceive DEF WaitForWork, MoveOn
<1> QED BY <1>3, <1>4, <1>5, <1>6, <1>7, <1>8, <1>9, <1>10, <1>11 DEF Pumping

LEMMA ReopensUserActs == ASSUME Inv, StateOK, UserActs, stack # <<>> PROVE Reopens(stack')
<1>1. Reopens(stack) /\ \A pc \in Points : Reopens(GoTo(pc))
  BY ReopensTop
<1>2. {"body", "once", "stuck"} \subseteq Points /\ None \in Owners
  BY DEF Points, Owners
<1>3. CASE stack' = stack \/ stack' = GoTo("once") \/ stack' = GoTo("stuck")
  BY <1>1, <1>2, <1>3
<1>4. CASE \E fn \in {"nestedDo", "nestedContext"} : stack' = Append(stack, NewFrame(fn, "body", None))
  BY <1>1, <1>2, <1>4, ReopensNew DEF Bodies
<1>5. CASE EnterRun(None, stack)
  BY <1>1, <1>2, <1>5, ReopensRun
<1>6. CASE BeginDisposal("reload", None, stack) /\ ~IsClosed
  BY <1>1, <1>2, <1>6, ReopensDisposal DEF IsClosed, Disposals
<1>7. ASSUME NEW op \in Ops, UserStartStop(op) \/ UserDo(op) \/ UserRun(op) \/ UserCallsItself(op)
      PROVE  Reopens(stack')
  BY <1>3, <1>4, <1>5, <1>7 DEF UserStartStop, UserDo, UserRun, UserCallsItself, MoveOn
<1>8. CASE \E op \in Ops, delay \in 0..1 : UserEnqueue(op, delay) \/ JSAddTimer(op, delay)
  BY <1>3, <1>8 DEF UserEnqueue, JSAddTimer
<1>9. CASE ClearJSTimer \/ UserCancel \/ UserRegisterResource \/ UserReload \/ UserClose
  BY <1>3, <1>6, <1>9 DEF ClearJSTimer, UserCancel, UserRegisterResource, UserReload, UserClose,
                          MoveOn
<1> QED BY <1>7, <1>8, <1>9 DEF UserActs

LEMMA ReopensUserReturns == ASSUME CallsInv, StateOK, UserReturns PROVE Reopens(stack')
<1>1. stack # <<>> /\ Inv
  BY DEF UserReturns, UserCloseOnce, StartTimer, TimerReturns, BodyReturns, RunTaskReturns,
         InstallerReturns, At, Running, CallsInv
<1>2. /\ Reopens(Below) /\ Reopens(SubSeq(stack, 1, Len(stack) - 2))
      /\ \A pc \in Points : Reopens(GoTo(pc))
  BY <1>1, ReopensTop
<1>3. {"body", "stuck", "finish"} \subseteq Points /\ None \in Owners
  BY DEF Points, Owners
<1>4. CASE UserCloseOnce
  <2>1. BeginDisposal("close", None, GoTo("body")) \/ \E pc \in {"body", "stuck"} : stack' = GoTo(pc)
    <3>1. CASE closeOnce = "free" /\ IsOwner
      BY <1>4, <3>1 DEF UserCloseOnce
    <3>2. CASE ~(closeOnce = "free" /\ IsOwner)
      BY <1>4, <3>2 DEF UserCloseOnce, MoveOn
    <3> QED BY <3>1, <3>2
  <2>2. CASE BeginDisposal("close", None, GoTo("body"))
    BY <1>1, <1>2, <1>3, <2>2, ReopensDisposal DEF Disposals
  <2> QED BY <1>2, <1>3, <2>1, <2>2
<1>5. CASE StartTimer
  BY <1>2, <1>3, <1>5 DEF StartTimer, MoveOn
<1>6. CASE TimerReturns \/ BodyReturns
  BY <1>2, <1>6 DEF TimerReturns, BodyReturns
<1>7. CASE \E err \in TaskErrors : RunTaskReturns(err)
  BY <1>2, <1>7 DEF RunTaskReturns
<1>8. ASSUME NEW err \in BOOLEAN, InstallerReturns(err) PROVE Reopens(stack')
  <2>1. CASE err
    <3>1. FailReload(Below) /\ Top.fn = "installer"
      BY <1>8, <2>1 DEF InstallerReturns, At, Running
    <3> QED BY <1>1, <1>2, <3>1, CallerFrame, ReopensFailure
  <2>2. CASE ~err
    BY <1>2, <1>8, <2>2 DEF InstallerReturns
  <2> QED BY <2>1, <2>2
<1> QED BY <1>4, <1>5, <1>6, <1>7, <1>8 DEF UserReturns

LEMMA ReopensDisposing == ASSUME Inv, StateOK, Disposing PROVE Reopens(stack')
<1>1. stack # <<>>
  BY DEF Disposing, CloseResource, DisposeContext, InitializeGeneration, ReloadReturns,
         CloseFinishes, At, Running
<1>2. /\ Reopens(stack) /\ Reopens(Below) /\ Top \in Frame
      /\ \A pc \in Points : Reopens(GoTo(pc))
  BY <1>1, ReopensTop, SeqFacts
<1>3. {"body", "init", "finish"} \subseteq Points /\ None \in Owners
      /\ {"installer", "resource"} \subseteq Bodies
  BY DEF Points, Owners, Bodies
<1>4. CASE CloseResource
  <2>1. PICK t : t = Top
    OBVIOUS
  <2>2. PICK k : k = t.idx - 1
    OBVIOUS
  <2>3. PICK f : f = [t EXCEPT !.idx = k]
    OBVIOUS
  <2>4. f \in Frame /\ f.fn = Top.fn /\ f.prev = Top.prev
    <3>1. t \in Frame /\ k \in Nat
      BY <1>2, <1>4, <2>1, <2>2 DEF CloseResource, Frame
    <3> QED BY <2>1, <2>3, <3>1 DEF Frame
  <2>5. Reopens(Append(Below, f))
    BY <1>1, <2>4, ReopensTop
  <2>6. stack' = Append(Append(Below, f), NewFrame("resource", "body", None))
    BY <1>4, <2>1, <2>2, <2>3 DEF CloseResource
  <2> QED BY <1>3, <2>5, <2>6, ReopensNew
<1>5. CASE DisposeContext
  BY <1>2, <1>3, <1>5 DEF DisposeContext, MoveOn
<1>6. CASE InitializeGeneration
  <2>1. CASE FailReload(stack)
    BY <1>1, <1>2, <2>1, ReopensFailure
  <2>2. CASE stack' = Append(GoTo("finish"), NewFrame("installer", "body", None))
    BY <1>2, <1>3, <2>2, ReopensNew
  <2> QED BY <1>6, <2>1, <2>2 DEF InitializeGeneration
<1>7. CASE ReloadReturns \/ CloseFinishes
  BY <1>2, <1>7 DEF ReloadReturns, CloseFinishes
<1> QED BY <1>4, <1>5, <1>6, <1>7 DEF Disposing

\* What is closed is closed.
LEMMA ClosedStates ==
    ASSUME Inv, StateOK, [Next]_vars
    PROVE  state' = "Closed" => closed'
<1>1. state = "Closed" => closed
  BY DEF StateOK
<1>2. ASSUME NEW s, Receive(s) PROVE state' = "Closed" => closed'
  <2>1. HandleCommand(Head(commands), s)
    BY <1>2 DEF Receive
  <2> QED BY <1>1, <2>1 DEF HandleCommand, HandleSchedule, HandleAddTimer, HandleStartStop,
             HandleDo, HandleRun, EnterRun, HandleRegisterResource, HandleReload, HandleClose
<1>3. CASE Pumping
  BY <1>1, <1>2, <1>3 DEF Pumping, OwnerReceives, OwnerReturns, RunReturns, PumpOnce,
     DrainCommands, Drained, NotRunning, RunTask, FireDueTimer, RunJobs, JobsReturn, RunIsIdle, RunHasWork,
     WaitForWork, OnlyStack
<1>4. CASE UserActs
  <2>1. ASSUME NEW op, UserStartStop(op) \/ UserDo(op) \/ UserCallsItself(op) \/ UserRun(op)
        PROVE  state' = "Closed" => closed'
    BY <1>1, <2>1 DEF UserStartStop, UserDo, UserCallsItself, UserRun, EnterRun
  <2>2. ASSUME NEW op, NEW delay \in 0..1, UserEnqueue(op, delay) \/ JSAddTimer(op, delay)
        PROVE  state' = "Closed" => closed'
    BY <1>1, <2>2 DEF UserEnqueue, JSAddTimer
  <2>3. ASSUME ClearJSTimer \/ UserCancel \/ UserRegisterResource \/ UserReload \/ UserClose
        PROVE  state' = "Closed" => closed'
    BY <1>1, <2>3 DEF ClearJSTimer, UserCancel, UserRegisterResource, UserReload, UserClose
  <2> QED BY <1>4, <2>1, <2>2, <2>3 DEF UserActs
<1>5. CASE UserReturns
  BY <1>1, <1>5 DEF UserReturns, UserCloseOnce, StartTimer, TimerReturns, BodyReturns,
     RunTaskReturns, InstallerReturns, FailReload
<1>6. CASE Disposing
  <2>1. CASE ReloadReturns
    <3>1. stack # <<>> /\ (Top.fn = "reload" => Top.prev # "Closed")
      BY <2>1, ReopensTop DEF ReloadReturns, At, Running
    <3> QED BY <1>1, <2>1, <3>1 DEF ReloadReturns
  <2> QED BY <1>1, <1>6, <2>1 DEF Disposing, CloseResource, DisposeContext, InitializeGeneration,
             FailReload, CloseFinishes
<1>7. CASE \E c \in Clients : Caller(c) \/ Client(c)
  BY <1>1, <1>7 DEF Caller, Client, BeginCall, BeginEnqueue, CancelTimer, BeginClose, Send,
     Await, Enqueue, CloseOnce, CloseReturns
<1>8. CASE Tick \/ Quiet \/ UNCHANGED vars
  BY <1>1, <1>8 DEF Tick, Quiet, vars
<1> QED BY <1>3, <1>4, <1>5, <1>6, <1>7, <1>8 DEF Next, Owner

LEMMA ActingStack == ASSUME UserActs PROVE stack # <<>>
  BY DEF UserActs, UserStartStop, UserDo, UserRun, UserCallsItself, UserEnqueue, JSAddTimer,
     ClearJSTimer, UserCancel, UserRegisterResource, UserReload, UserClose, MayAct, At, Running

\* Only the owner touches its stack.
LEMMA ClientsApart ==
    ASSUME (\E c \in Clients : Caller(c) \/ Client(c)) \/ Tick \/ Quiet \/ UNCHANGED vars
    PROVE  UNCHANGED <<stack, state, closed, generation, ctx, tasks, timers, jsTimers,
                       timerCallbacks, resources, ran, done>>
<1>1. CASE \E c \in Clients : Caller(c) \/ Client(c)
  BY <1>1 DEF Caller, Client, BeginCall, BeginEnqueue, CancelTimer, BeginClose, Send,
     Await, Enqueue, CloseOnce, CloseReturns
<1>2. CASE Tick \/ Quiet \/ UNCHANGED vars
  BY <1>2 DEF Tick, Quiet, vars
<1> QED BY <1>1, <1>2

LEMMA StateStep ==
    ASSUME CallsInv, StateOK, [Next]_vars
    PROVE  StateOK'
<1>1. Inv /\ generation \in Nat
  BY DEF CallsInv, Inv, TypeOK, StateTypes
<1>2. Reopens(stack')
  <2>1. Reopens(stack)
    BY <1>1, SeqFacts DEF StateOK, Reopens
  <2> QED BY <1>1, <2>1, ReopensPumping, ActingStack, ReopensUserActs, ReopensUserReturns,
             ReopensDisposing, ClientsApart DEF Next, Owner
<1>3. generation' > 0
  BY <1>1, GenerationStep DEF StateOK
<1>4. state' = "Closed" => closed'
  BY <1>1, ClosedStates
<1> QED BY <1>2, <1>3, <1>4 DEF StateOK, Reopens

-------------------------------------------------------------------------------
\* The kinds of the items.

HandsOK == \A c \in Clients : /\ cl[c].pc = "once" => cl[c].op = "Close"
                              /\ Holds(c) => cl[c].item.kind = cl[c].op /\ cl[c].item.by = c
SentOK == \A i \in DOMAIN commands :
            commands[i].op \in Carries => commands[i].item.kind = commands[i].op

LEMMA HandsStep ==
    ASSUME Inv, KindsOK, [Next]_vars
    PROVE  HandsOK'
<1>1. cl \in [Clients -> CallState] /\ HandsOK
  BY SeqFacts DEF KindsOK, HandsOK
<1>2. CASE cl' = cl
  BY <1>1, <1>2 DEF HandsOK, Holds
<1>3. ASSUME NEW c \in Clients, NEW v, cl' = [cl EXCEPT ![c] = v],
             v.pc = "once" => v.op = "Close",
             v.pc = "send" /\ v.op \in Carries => v.item.kind = v.op /\ v.item.by = c
      PROVE  HandsOK'
  <2>1. cl'[c] = v /\ \A d \in Clients : d # c => cl'[d] = cl[d]
    BY <1>1, <1>3
  <2> QED BY <1>1, <1>3, <2>1 DEF HandsOK, Holds
<1>4. ASSUME NEW c \in Clients, NEW op \in Ops, BeginCall(c, op) PROVE HandsOK'
  <2>1. PICK n : n = NewItem(op, 0, c)
    OBVIOUS
  <2>2. n.kind = op /\ n.by = c
    BY <2>1 DEF NewItem
  <2>3. op \in Carries => op = "RegisterResource"
    BY <1>4 DEF BeginCall, Carries, Enqueues, GuardedCalls, ContextCalls
  <2>4. PICK v : /\ cl' = [cl EXCEPT ![c] = v]
                 /\ v = IF op \in GuardedCalls /\ closed
                        THEN Call("idle", op, NoItem, "ErrClosed")
                        ELSE Call("send", op, IF op = "RegisterResource" THEN n ELSE NoItem, "none")
    BY <1>4, <2>1 DEF BeginCall
  <2>5. v.pc # "once" /\ (v.pc = "send" /\ v.op \in Carries => v.item.kind = v.op /\ v.item.by = c)
    BY <2>2, <2>3, <2>4 DEF Call
  <2> QED BY <1>3, <2>4, <2>5
<1>5. ASSUME NEW c \in Clients, NEW op \in Ops, NEW delay \in 0..1, BeginEnqueue(c, op, delay)
      PROVE  HandsOK'
  <2>1. PICK n : n = NewItem(op, delay, c)
    OBVIOUS
  <2>2. n.kind = op /\ n.by = c
    BY <2>1 DEF NewItem
  <2>3. PICK v : /\ cl' = [cl EXCEPT ![c] = v]
                 /\ v = IF closed THEN Call("idle", op, NoItem, "false") ELSE Call("send", op, n, "none")
    BY <1>5, <2>1 DEF BeginEnqueue
  <2>4. v.pc # "once" /\ (v.pc = "send" /\ v.op \in Carries => v.item.kind = v.op /\ v.item.by = c)
    BY <2>2, <2>3 DEF Call
  <2> QED BY <1>3, <2>3, <2>4
<1>6. ASSUME NEW c \in Clients, BeginClose(c) PROVE HandsOK'
  <2>1. PICK v : cl' = [cl EXCEPT ![c] = v] /\ v = Call("once", "Close", NoItem, "none")
    BY <1>6 DEF BeginClose
  <2>2. v.pc = "once" /\ v.op = "Close"
    BY <2>1 DEF Call
  <2> QED BY <1>3, <2>1, <2>2
<1>7. ASSUME NEW c \in Clients, Send(c) \/ Await(c) \/ Enqueue(c) \/ CloseOnce(c) \/ CloseReturns(c)
      PROVE  HandsOK'
  <2>1. \/ \E r : cl' = Return(c, r)
        \/ cl' = Goto(c, "await") \/ cl' = Goto(c, "waitdone")
        \/ cl[c].pc = "once" /\ cl' = Goto(c, "send")
    BY <1>7 DEF Send, Await, Enqueue, CloseOnce, CloseReturns
  <2>2. \E v : cl' = [cl EXCEPT ![c] = v] /\ v.pc # "once" /\ (v.pc = "send" => v.op = "Close")
    <3>1. CASE \E r : cl' = Return(c, r)
      BY <3>1, CallReturns
    <3>2. CASE cl' = Goto(c, "await") \/ cl' = Goto(c, "waitdone")
      BY <3>2, CallGoesOn
    <3>3. CASE cl[c].pc = "once" /\ cl' = Goto(c, "send")
      BY <1>1, <3>3, CallGoesOn DEF HandsOK
    <3> QED BY <2>1, <3>1, <3>2, <3>3
  <2> QED BY <1>3, <2>2 DEF Carries, Enqueues
<1>8. CASE \E c \in Clients : CancelTimer(c)
  BY <1>2, <1>8 DEF CancelTimer
<1>9. CASE Owner
  <2>1. ASSUME NEW s, Receive(s) PROVE cl' = cl
    BY <2>1 DEF Receive, HandleCommand
  <2>2. ASSUME Pumping PROVE cl' = cl
    BY <2>1, <2>2 DEF Pumping, OwnerReceives, OwnerReturns, RunReturns, PumpOnce, DrainCommands,
       Drained, NotRunning, RunTask, FireDueTimer, RunJobs, JobsReturn, RunIsIdle, RunHasWork, WaitForWork,
       OnlyStack
  <2>3. ASSUME UserActs PROVE cl' = cl
    BY <2>3 DEF UserActs, UserStartStop, UserDo, UserRun, UserCallsItself, UserEnqueue,
       JSAddTimer, ClearJSTimer, UserCancel, UserRegisterResource, UserReload, UserClose
  <2>4. ASSUME UserReturns \/ Disposing PROVE cl' = cl
    BY <2>4 DEF UserReturns, UserCloseOnce, StartTimer, TimerReturns, BodyReturns, RunTaskReturns,
       InstallerReturns, Disposing, CloseResource, DisposeContext, InitializeGeneration,
       ReloadReturns, CloseFinishes
  <2> QED BY <1>2, <1>9, <2>2, <2>3, <2>4 DEF Owner
<1>10. CASE Tick \/ Quiet \/ UNCHANGED vars
  BY <1>2, <1>10 DEF Tick, Quiet, vars
<1> QED BY <1>4, <1>5, <1>6, <1>7, <1>8, <1>9, <1>10 DEF Next, Caller, Client

LEMMA SentStep ==
    ASSUME Inv, KindsOK, [Next]_vars
    PROVE  SentOK'
<1>1. commands \in Seq(Command) /\ SentOK /\ HandsOK
  BY SeqFacts DEF KindsOK, SentOK, HandsOK
<1>2. CASE commands' = commands
  BY <1>1, <1>2 DEF SentOK
<1>3. ASSUME commands # <<>>, commands' = Tail(commands) PROVE SentOK'
  <2>1. \A i \in DOMAIN commands' : i + 1 \in DOMAIN commands /\ commands'[i] = commands[i + 1]
    BY <1>1, <1>3
  <2> QED BY <1>1, <2>1 DEF SentOK
<1>4. ASSUME NEW v, commands' = Append(commands, v), v.op \in Carries => v.item.kind = v.op
      PROVE  SentOK'
  <2>1. \A i \in DOMAIN commands' :
          commands'[i] = v \/ (i \in DOMAIN commands /\ commands'[i] = commands[i])
    BY <1>1, <1>4
  <2> QED BY <1>1, <1>4, <2>1 DEF SentOK
<1>5. ASSUME NEW op, NEW c, NEW m, op \in Carries => m.kind = op,
             commands' = Append(commands, [op |-> op, client |-> c, item |-> m])
      PROVE  SentOK'
  <2>1. PICK v : v = [op |-> op, client |-> c, item |-> m]
    OBVIOUS
  <2> QED BY <1>4, <1>5, <2>1
<1>6. ASSUME NEW c \in Clients, Send(c) \/ Enqueue(c) PROVE SentOK'
  <2>1. /\ cl[c].pc = "send"
        /\ \/ commands' = commands
           \/ commands' = Append(commands, [op |-> cl[c].op, client |-> c, item |-> cl[c].item])
    BY <1>6 DEF Send, Enqueue
  <2>2. cl[c].op \in Carries => cl[c].item.kind = cl[c].op
    BY <1>1, <2>1 DEF HandsOK, Holds
  <2> QED BY <1>2, <1>5, <2>1, <2>2
<1>7. ASSUME NEW op \in Ops, NEW delay \in 0..1, UserEnqueue(op, delay) PROVE SentOK'
  <2>1. PICK n : n = NewItem(op, delay, Maker)
    OBVIOUS
  <2>2. \/ commands' = commands
        \/ commands' = Append(commands, [op |-> op, client |-> None, item |-> n])
    BY <1>7, <2>1 DEF UserEnqueue
  <2>3. n.kind = op
    BY <2>1 DEF NewItem
  <2> QED BY <1>2, <1>5, <2>2, <2>3
<1>8. ASSUME NEW op \in Ops, UserCallsItself(op) PROVE SentOK'
  <2>1. op \notin Carries
    BY <1>8 DEF UserCallsItself, ContextCalls, Carries, Enqueues
  <2>2. \/ commands' = commands
        \/ commands' = Append(commands, [op |-> op, client |-> None, item |-> NoItem])
    BY <1>8 DEF UserCallsItself
  <2> QED BY <1>2, <1>5, <2>1, <2>2
<1>9. CASE \E s : Receive(s)
  BY <1>3, <1>9 DEF Receive
<1>10. CASE Pumping
  BY <1>2, <1>9, <1>10 DEF Pumping, OwnerReceives, OwnerReturns, RunReturns, PumpOnce,
     DrainCommands, Drained, NotRunning, RunTask, FireDueTimer, RunJobs, JobsReturn, RunIsIdle, RunHasWork,
     WaitForWork, OnlyStack
<1>11. CASE UserActs
  BY <1>2, <1>7, <1>8, <1>11 DEF UserActs, UserStartStop, UserDo, UserRun, JSAddTimer, ClearJSTimer,
     UserCancel, UserRegisterResource, UserReload, UserClose
<1>12. CASE UserReturns \/ Disposing
  BY <1>2, <1>12 DEF UserReturns, UserCloseOnce, StartTimer, TimerReturns, BodyReturns,
     RunTaskReturns, InstallerReturns, Disposing, CloseResource, DisposeContext,
     InitializeGeneration, ReloadReturns, CloseFinishes
<1>13. CASE \E c \in Clients : Caller(c) \/ Client(c)
  BY <1>2, <1>6, <1>13 DEF Caller, Client, BeginCall, BeginEnqueue, CancelTimer, BeginClose,
     Await, CloseOnce, CloseReturns
<1>14. CASE Tick \/ Quiet \/ UNCHANGED vars
  BY <1>2, <1>14 DEF Tick, Quiet, vars
<1> QED BY <1>10, <1>11, <1>12, <1>13, <1>14 DEF Next, Owner

LEMMA KindsStep ==
    ASSUME Inv, KindsOK, Effect, [Next]_vars
    PROVE  KindsOK'
<1> DEFINE Tasks == \A x \in TaskItems : x.kind = "Schedule"
           Timers == \A x \in timers \cup Fired(Calls) : x.kind \in AllTimers
<1>1. Tasks /\ Timers
  BY DEF KindsOK
<1>2. TaskItems' \subseteq TaskItems /\ timers' \subseteq timers /\ Fired(Calls') \subseteq Fired(Calls)
      => Tasks' /\ Timers'
  BY <1>1
<1>3. ASSUME Quietly \/ Discards PROVE Tasks' /\ Timers'
  BY <1>2, <1>3, KeptType DEF Quietly, Discards
<1>4. ASSUME Drops PROVE Tasks' /\ Timers'
  <2>1. tasks' = <<>> /\ timers' = {} /\ Calls' = Calls
    BY <1>4 DEF Drops, DropWork
  <2>2. TaskItems' = {}
    BY <2>1 DEF TaskItems, ItemsOf
  <2> QED BY <1>2, <2>1, <2>2
<1>5. ASSUME Leaves PROVE Tasks' /\ Timers'
  BY <1>2, <1>5, FiredSets DEF Leaves
<1>6. ASSUME NEW x \in Item,
             Begins(x) \/ Sends(x) \/ Refused(x) \/ Cancels(x) \/ Registers(x) \/ Posts(x) \/ RunsTask(x)
      PROVE  Tasks' /\ Timers'
  BY <1>2, <1>6 DEF Begins, Sends, Refused, Cancels, Registers, Posts, RunsTask
<1>7. ASSUME NEW x \in Item, Queues(x) PROVE Tasks' /\ Timers'
  BY <1>1, <1>7 DEF Queues
<1>8. ASSUME NEW x \in Item, Arms(x) \/ AddsJS(x) PROVE Tasks' /\ Timers'
  <2>1. x.kind \in AllTimers
    BY <1>8 DEF Arms, AddsJS, IsJS, AllTimers, JSTimers, Timeouts, Intervals
  <2>2. TaskItems' = TaskItems /\ timers' \subseteq timers \cup {x} /\ Calls' = Calls
    BY <1>8 DEF Arms, AddsJS
  <2> QED BY <1>1, <2>1, <2>2
<1>9. ASSUME NEW x \in Item, Pops(x) PROVE Tasks' /\ Timers'
  <2>1. x \in timers /\ timers' \subseteq timers /\ TaskItems' = TaskItems
    BY <1>9, KeptType DEF Pops, Due, Peek
  <2>2. Fired(Calls') \subseteq Fired(Calls) \cup {x}
    BY <1>9, FiredSets DEF Pops
  <2> QED BY <1>1, <2>1, <2>2
<1>10. ASSUME NEW id \in Nat, ClearsJS(id) PROVE Tasks' /\ Timers'
  BY <1>2, <1>10 DEF ClearsJS
<1>11. ASSUME NEW f \in Calls, Starts(f) PROVE Tasks' /\ Timers'
  <2>1. PICK g : g.item = f.item /\ Calls' = (Calls \ {f}) \cup {g}
    BY <1>11 DEF Starts, Begun
  <2>2. Fired(Calls') = Fired(Calls \ {f}) \cup {f.item} /\ f.item \in Fired(Calls)
    BY <2>1, FiredSets
  <2>3. Fired(Calls') \subseteq Fired(Calls)
    BY <2>2, FiredSets
  <2> QED BY <1>2, <1>11, <2>3 DEF Starts
<1>12. ASSUME NEW f \in Calls, Returns(f) PROVE Tasks' /\ Timers'
  <2>1. f.item \in Fired(Calls) /\ Fired(Calls') \subseteq Fired(Calls) /\ TaskItems' = TaskItems
    BY <1>12, FiredSets DEF Returns
  <2>2. \A e \in timers' : e \in timers \/ Same(e, f.item)
    BY <1>12 DEF Returns
  <2>3. \A e \in timers' : e.kind \in AllTimers
    BY <1>1, <2>1, <2>2 DEF Same
  <2> QED BY <1>1, <2>1, <2>3
<1>13. Tasks' /\ Timers'
  <2> HIDE DEF Tasks, Timers
  <2> QED BY <1>3, <1>4, <1>5, <1>6, <1>7, <1>8, <1>9, <1>10, <1>11, <1>12 DEF Effect
<1>14. HandsOK' /\ SentOK'
  BY HandsStep, SentStep
<1> QED BY <1>13, <1>14 DEF KindsOK, HandsOK, SentOK

-------------------------------------------------------------------------------
\* JavaScript timers, in the heap and on the stack.

LEMMA IdsApart ==
    ASSUME Inv, IdsOK
    PROVE  /\ \A x, y \in timers \cup Fired(Calls) : x.id = y.id => x.kind = y.kind
           /\ \A x, n : x \in timers \cup Fired(Calls) /\ IsNew(n) => x.id # n.id
           /\ \A f \in Calls : f.item \in Fired(Calls)
<1>1. timers \cup Fired(Calls) \subseteq Known
  BY DEF Known, Stored
<1>2. \A x, y \in timers \cup Fired(Calls) : x.id = y.id => x.kind = y.kind
  BY <1>1 DEF IdsOK, Same
<1>3. \A f \in Calls : f.item \in Fired(Calls)
  BY FiredSets
<1>4. ASSUME NEW x \in timers \cup Fired(Calls), NEW n, IsNew(n) PROVE x.id # n.id
  <2>1. x.id \in Nat /\ nextID \in Nat /\ x.id <= nextID
    BY <1>1, IdTypes DEF IdsOK, IdOK
  <2> QED BY <1>4, <2>1 DEF IsNew
<1> QED BY <1>2, <1>3, <1>4

LEMMA JSOnceStep ==
    ASSUME Inv, KindsOK, IdsOK, JSOnce, Effect
    PROVE  JSOnce'
<1>1. CASE timers' \subseteq timers /\ Calls' \subseteq Calls
  BY <1>1 DEF JSOnce
<1>2. CASE Quietly \/ Discards \/ Drops \/ Leaves
  BY <1>1, <1>2, KeptType DEF Quietly, Discards, Drops, DropWork, Leaves
<1>3. ASSUME NEW x \in Item, \/ Begins(x) \/ Sends(x) \/ Refused(x) \/ Cancels(x) \/ Queues(x)
                             \/ Registers(x) \/ Posts(x) \/ RunsTask(x)
      PROVE  JSOnce'
  BY <1>1, <1>3 DEF Begins, Sends, Refused, Cancels, Queues, Registers, Posts, RunsTask
<1>4. ASSUME NEW x \in Item, timers' = timers \cup {x}, Calls' = Calls,
             \A e \in timers : IsJS(e) \/ IsJS(x) => e.id # x.id,
             \A f \in Calls : IsJS(f.item) => f.item.id # x.id
      PROVE  JSOnce'
  BY <1>4 DEF JSOnce
<1>5. ASSUME NEW x \in Item, Arms(x) PROVE JSOnce'
  <2>1. CASE timers' = timers
    BY <1>1, <1>5, <2>1 DEF Arms
  <2>2. CASE timers' = timers \cup {x}
    <3>1. ~IsJS(x) /\ x \in Known /\ Calls' = Calls
      BY <1>5 DEF Arms, Takes, IsJS, Known, Stored
    <3>2. \A y \in timers \cup Fired(Calls) : y \in Known
      BY DEF Known, Stored
    <3>3. \A y \in timers \cup Fired(Calls) : IsJS(y) => y.id # x.id
      BY <3>1, <3>2 DEF IdsOK, Same, IsJS
    <3> QED BY <1>4, <2>2, <3>1, <3>3, IdsApart
  <2> QED BY <1>5, <2>1, <2>2 DEF Arms
<1>6. ASSUME NEW x \in Item, AddsJS(x) PROVE JSOnce'
  BY <1>4, <1>6, IdsApart DEF AddsJS
<1>7. ASSUME NEW x \in Item, Pops(x) PROVE JSOnce'
  <2>1. x \in timers /\ timers' \subseteq timers \ {x}
    BY <1>7, KeptType DEF Pops, Due, Peek
  <2>2. CASE Calls' = Calls
    BY <1>1, <2>1, <2>2
  <2>3. ASSUME NEW g, g.item = x, Calls' = Calls \cup {g} PROVE JSOnce'
    <3>1. \A e \in timers' : IsJS(x) => e.id # x.id
      BY <2>1 DEF JSOnce
    <3>2. \A f \in Calls : IsJS(x) \/ IsJS(f.item) => f.item.id # x.id
      BY <2>1, IdsApart DEF JSOnce, IsJS
    <3> QED BY <2>1, <2>3, <3>1, <3>2 DEF JSOnce
  <2> QED BY <1>7, <2>2, <2>3 DEF Pops
<1>8. ASSUME NEW id \in Nat, ClearsJS(id) PROVE JSOnce'
  BY <1>1, <1>8 DEF ClearsJS
<1>9. ASSUME NEW f \in Calls, Starts(f) PROVE JSOnce'
  <2>1. PICK g : g.item = f.item /\ Calls' = (Calls \ {f}) \cup {g}
    BY <1>9 DEF Starts, Begun
  <2>2. timers' = timers
    BY <1>9 DEF Starts
  <2>3. \A h \in Calls \ {f} : IsJS(f.item) \/ IsJS(h.item) => h.item.id # f.item.id
    BY IdsApart DEF JSOnce, IsJS
  <2> QED BY <2>1, <2>2, <2>3 DEF JSOnce
<1>10. ASSUME NEW f \in Calls, Returns(f) PROVE JSOnce'
  <2>1. Calls' = Calls \ {f}
    BY <1>10 DEF Returns
  <2>2. CASE timers' = timers
    BY <1>1, <2>1, <2>2
  <2>3. ASSUME NEW e, Same(e, f.item), timers' = timers \cup {e} PROVE JSOnce'
    <3>1. e.id = f.item.id /\ e.kind = f.item.kind /\ f.item \in Fired(Calls)
      BY <2>3, FiredSets DEF Same
    <3>2. \A d \in timers : IsJS(e) \/ IsJS(d) => d.id # e.id
      BY <3>1, IdsApart DEF JSOnce, IsJS
    <3>3. \A h \in Calls \ {f} : IsJS(h.item) => h.item.id # e.id
      BY <3>1 DEF JSOnce
    <3> QED BY <2>1, <2>3, <3>2, <3>3 DEF JSOnce
  <2> QED BY <1>10, <2>2, <2>3 DEF Returns
<1> QED BY <1>2, <1>3, <1>5, <1>6, <1>7, <1>8, <1>9, <1>10 DEF Effect

\* No mark and no start is forgotten.
LEMMA MarksStay ==
    ASSUME Inv, Effect
    PROVE  cancelled \subseteq cancelled' /\ RanIds \subseteq RanIds'
<1>1. ran' = ran => RanIds' = RanIds
  BY SameRan
<1>2. CASE Quietly \/ Discards \/ Drops \/ Leaves
  BY <1>1, <1>2 DEF Quietly, Discards, Drops, DropWork, Leaves
<1>3. ASSUME NEW x \in Item, \/ Begins(x) \/ Sends(x) \/ Refused(x) \/ Cancels(x) \/ Queues(x)
                             \/ Arms(x) \/ Registers(x) \/ Posts(x) \/ AddsJS(x) \/ Pops(x)
      PROVE  cancelled \subseteq cancelled' /\ RanIds \subseteq RanIds'
  BY <1>1, <1>3 DEF Begins, Sends, Refused, Cancels, Queues, Arms, Registers, Posts, AddsJS, Pops
<1>4. ASSUME NEW x \in Item, RunsTask(x) PROVE cancelled \subseteq cancelled' /\ RanIds \subseteq RanIds'
  BY <1>4, RanAppend DEF RunsTask
<1>5. ASSUME NEW id \in Nat, ClearsJS(id) PROVE cancelled \subseteq cancelled' /\ RanIds \subseteq RanIds'
  BY <1>1, <1>5 DEF ClearsJS
<1>6. ASSUME NEW f \in Calls, Starts(f) \/ Returns(f)
      PROVE  cancelled \subseteq cancelled' /\ RanIds \subseteq RanIds'
  BY <1>1, <1>6, RanAppend DEF Starts, Returns
<1> QED BY <1>2, <1>3, <1>4, <1>5, <1>6 DEF Effect

LEMMA PhasesStep ==
    ASSUME Inv, PhasesOK, JSKept, Effect
    PROVE  PhasesOK'
<1>1. cancelled \subseteq cancelled' /\ RanIds \subseteq RanIds'
  BY MarksStay
<1>2. CASE Calls' \subseteq Calls
  BY <1>1, <1>2 DEF PhasesOK
<1>3. CASE Quietly \/ Discards \/ Drops \/ Leaves
  BY <1>2, <1>3 DEF Quietly, Discards, Drops, Leaves
<1>4. ASSUME NEW x \in Item, \/ Begins(x) \/ Sends(x) \/ Refused(x) \/ Cancels(x) \/ Queues(x) \/ Arms(x)
                             \/ Registers(x) \/ Posts(x) \/ AddsJS(x) \/ RunsTask(x)
      PROVE  PhasesOK'
  BY <1>2, <1>4 DEF Begins, Sends, Refused, Cancels, Queues, Arms, Registers, Posts, AddsJS, RunsTask
<1>5. ASSUME NEW x \in Item, Pops(x) PROVE PhasesOK'
  <2>1. CASE Calls' = Calls
    BY <1>2, <2>1
  <2>2. ASSUME NEW g, g.phase = "start", Calls' = Calls \cup {g} PROVE PhasesOK'
    BY <1>1, <2>2 DEF PhasesOK
  <2> QED BY <1>5, <2>1, <2>2 DEF Pops
<1>6. ASSUME NEW id \in Nat, ClearsJS(id) PROVE PhasesOK'
  BY <1>2, <1>6 DEF ClearsJS
<1>7. ASSUME NEW f \in Calls, Starts(f) PROVE PhasesOK'
  <2>1. ASSUME NEW g, g.item = f.item, Calls' = (Calls \ {f}) \cup {g},
               g.phase = "body" => g.item.id \in RanIds',
               g.phase = "finish" => IsJS(g.item) /\ g.item.id \in cancelled'
        PROVE  PhasesOK'
    BY <1>1, <2>1 DEF PhasesOK
  <2>2. CASE Begun(f, "finish") /\ IsJS(f.item) /\ (f.item.id \notin jsTimers \/ f.item.id \in cancelled)
    <3>1. f.item.id \in cancelled
      BY <2>2, FiredSets DEF JSKept
    <3> QED BY <1>1, <2>1, <2>2, <3>1 DEF Begun
  <2>3. CASE Begun(f, "body") /\ ran' = Append(ran, Start(f.item))
    BY <2>1, <2>3, RanAppend DEF Begun
  <2> QED BY <1>7, <2>2, <2>3 DEF Starts
<1>8. ASSUME NEW f \in Calls, Returns(f) PROVE PhasesOK'
  BY <1>2, <1>8 DEF Returns
<1> QED BY <1>3, <1>4, <1>5, <1>6, <1>7, <1>8 DEF Effect

LEMMA JSKeptStep ==
    ASSUME Inv, KindsOK, IdsOK, JSOnce, JSKept, Effect
    PROVE  JSKept'
<1>1. cancelled \subseteq cancelled'
  BY MarksStay
<1>2. CASE timers' \subseteq timers /\ Fired(Calls') \subseteq Fired(Calls) /\ jsTimers' = jsTimers
  BY <1>1, <1>2 DEF JSKept
<1>3. CASE Quietly \/ Discards
  BY <1>2, <1>3, KeptType DEF Quietly, Discards
<1>4. CASE Drops
  BY <1>1, <1>4 DEF Drops, DropWork, JSKept
<1>5. CASE Leaves
  BY <1>2, <1>5, FiredSets DEF Leaves
<1>6. ASSUME NEW x \in Item, \/ Begins(x) \/ Sends(x) \/ Refused(x) \/ Cancels(x) \/ Queues(x)
                             \/ Registers(x) \/ Posts(x) \/ RunsTask(x)
      PROVE  JSKept'
  BY <1>2, <1>6 DEF Begins, Sends, Refused, Cancels, Queues, Registers, Posts, RunsTask
<1>7. ASSUME NEW x \in Item, Arms(x) PROVE JSKept'
  <2>1. ~IsJS(x) /\ timers' \subseteq timers \cup {x} /\ Calls' = Calls /\ jsTimers' = jsTimers
    BY <1>7 DEF Arms, IsJS
  <2> QED BY <1>1, <2>1 DEF JSKept
<1>8. ASSUME NEW x \in Item, AddsJS(x) PROVE JSKept'
  BY <1>1, <1>8 DEF AddsJS, JSKept
<1>9. ASSUME NEW x \in Item, Pops(x) PROVE JSKept'
  <2>1. x \in timers /\ timers' \subseteq timers /\ jsTimers' = jsTimers
    BY <1>9, KeptType DEF Pops, Due, Peek
  <2>2. Fired(Calls') \subseteq Fired(Calls) \cup {x}
    BY <1>9, FiredSets DEF Pops
  <2> QED BY <1>1, <2>1, <2>2 DEF JSKept
<1>10. ASSUME NEW id \in Nat, ClearsJS(id) PROVE JSKept'
  BY <1>1, <1>10 DEF ClearsJS, JSKept
<1>11. ASSUME NEW f \in Calls, Starts(f) PROVE JSKept'
  <2>1. PICK g : g.item = f.item /\ Calls' = (Calls \ {f}) \cup {g}
    BY <1>11 DEF Starts, Begun
  <2>2. Fired(Calls') = Fired(Calls \ {f}) \cup {f.item} /\ f.item \in Fired(Calls)
    BY <2>1, FiredSets
  <2>3. Fired(Calls') \subseteq Fired(Calls) /\ timers' = timers
    BY <1>11, <2>2, FiredSets DEF Starts
  <2>4. CASE jsTimers' = jsTimers
    BY <1>2, <2>3, <2>4
  <2>5. CASE /\ IsJS(f.item) /\ (f.item.id \notin jsTimers \/ f.item.id \in cancelled)
             /\ jsTimers' = jsTimers \ {f.item.id}
    <3>1. f.item.id \in cancelled
      BY <2>2, <2>5 DEF JSKept
    <3> QED BY <1>1, <2>3, <2>5, <3>1 DEF JSKept
  <2> QED BY <1>11, <2>4, <2>5 DEF Starts
<1>12. ASSUME NEW f \in Calls, Returns(f) PROVE JSKept'
  <2>1. Calls' = Calls \ {f} /\ f.item \in Fired(Calls) /\ Fired(Calls') \subseteq Fired(Calls)
    BY <1>12, FiredSets DEF Returns
  <2>2. CASE f.item.kind = "jsTimeout"
    <3>1. timers' = timers /\ jsTimers' = jsTimers \ {f.item.id} /\ IsJS(f.item)
      BY <1>12, <2>2 DEF Returns, Intervals, IsJS, JSTimers
    <3>2. \A e \in timers : e.id # f.item.id
      BY <3>1 DEF JSOnce
    <3>3. \A x \in Fired(Calls') : x.id # f.item.id
      BY <2>1, <3>1 DEF JSOnce, Fired
    <3> QED BY <1>1, <2>1, <3>1, <3>2, <3>3 DEF JSKept
  <2>3. CASE f.item.kind # "jsTimeout"
    <3>1. jsTimers' = jsTimers /\ \A e \in timers' : e \in timers \/ Same(e, f.item)
      BY <1>12, <2>3 DEF Returns
    <3> QED BY <1>1, <2>1, <3>1 DEF JSKept, Same, IsJS
  <2> QED BY <2>2, <2>3
<1> QED BY <1>3, <1>4, <1>5, <1>6, <1>7, <1>8, <1>9, <1>10, <1>11, <1>12 DEF Effect

\* The inductive invariant: WorkInv.
WorkInv == CallsInv /\ ClosedInv /\ WorkOK

LEMMA InitWork == Init => WorkOK
<1> SUFFICES ASSUME Init PROVE WorkOK
    OBVIOUS
<1>1. /\ commands = <<>> /\ tasks = <<>> /\ accepted = <<>> /\ ran = <<>>
      /\ timers = {} /\ cancelled = {} /\ jsTimers = {}
      /\ state = "New" /\ generation = 1 /\ stack = <<NewFrame("owner", "top", None)>>
  BY DEF Init
<1>2. \A c \in Clients : cl[c].pc = "idle"
  BY DEF Init
<1>3. SentItems = {} /\ TaskItems = {} /\ RanIds = {} /\ AcceptedItems = {}
  BY <1>1 DEF SentItems, TaskItems, ItemsOf, RanIds, AcceptedItems
<1>4. HandItems = {} /\ \A c \in Clients : ~Holds(c)
  BY <1>2 DEF HandItems, Holds
<1>5. \A i \in DOMAIN stack : stack[i].fn = "owner"
  BY <1>1 DEF NewFrame
<1>6. Calls = {} /\ Fired(Calls) = {}
  <2>1. Calls = {}
    BY <1>5 DEF Calls, Firing, Fires
  <2> QED BY <2>1, FiredSets
<1>7. Known = {}
  BY <1>1, <1>3, <1>4, <1>6 DEF Known, Stored
<1>8. KindsOK
  BY <1>1, <1>2, <1>3, <1>4, <1>6 DEF KindsOK
<1>9. IdsOK
  BY <1>1, <1>3, <1>7 DEF IdsOK
<1>10. JSOnce /\ PhasesOK /\ JSKept
  BY <1>1, <1>6 DEF JSOnce, PhasesOK, JSKept
<1>11. StateOK
  BY <1>1, <1>5 DEF StateOK
<1> QED BY <1>8, <1>9, <1>10, <1>11 DEF WorkOK

LEMMA WorkStep ==
    ASSUME CallsInv, CallsInv', WorkOK, [Next]_vars
    PROVE  WorkOK'
<1>1. Inv /\ Inv' /\ KindsOK /\ IdsOK /\ JSOnce /\ PhasesOK /\ JSKept /\ StateOK
  BY DEF CallsInv, WorkOK
<1>2. Effect
  BY <1>1, StepEffect
<1> QED BY <1>1, <1>2, KindsStep, IdsStep, JSOnceStep, PhasesStep, JSKeptStep, StateStep DEF WorkOK

\* Items, ids, phases and the loop's states fit together in every state: each accepted
\* task or timer is one item with one id, a firing timer is where its frame says
\* (fireDueTimer), and a JavaScript timer is registered once (setTimer).
THEOREM WorkInvHolds == Spec => []WorkInv
<1>1. Init => WorkOK
  BY InitWork
<1>2. CallsInv /\ CallsInv' /\ WorkOK /\ [Next]_vars => WorkOK'
  BY WorkStep
<1>3. Spec => []CallsInv
  BY CallsInvHolds
<1>4. Spec => []ClosedInv
  BY ClosedInvHolds
<1> QED BY <1>1, <1>2, <1>3, <1>4, PTL DEF Spec, WorkInv
================================================================================
