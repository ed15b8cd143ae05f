---------------------------- MODULE WebSocketRuntime ----------------------------
(***************************************************************************)
(* The connections of the websocket package.  The owner goroutine runs the  *)
(* JavaScript class and the events the context has queued; each connection  *)
(* has a goroutine that dials and reads, and each send a goroutine that     *)
(* writes.  All of them end a connection through finish, whose body only    *)
(* the first one runs while the others wait.                                *)
(* External: the dialer and its connections, and the context's job queue.   *)
(***************************************************************************)
EXTENDS Naturals, Sequences, FiniteSets

CONSTANTS
    Sockets,
    MaxWebSocketConcurrent,
    MayRefuse,                 \* whether Schedule may refuse an event
    MaxSends,                  \* bound: calls of send for each socket
    MaxMessages                \* bound: messages a connection receives

ASSUME WebSocketAssumption ==
    /\ IsFiniteSet(Sockets) /\ MaxWebSocketConcurrent \in Nat \ {0}
    /\ MayRefuse \in BOOLEAN /\ MaxSends \in Nat /\ MaxMessages \in Nat

VARIABLES
    slots,        \* values in the channel webSocketSlots
    connections,  \* the runtime's map
    state, code,  \* of each connection, under its mutex
    link,         \* what became of the Conn of each connection
    fin,          \* how far the body of finish is, for each connection
    thread,       \* the goroutines of connections and of sends
    phase,        \* the owner: JavaScript, or the steps of closeAll
    closer,       \* the owner's progress in close, for each connection
    readyState,   \* of each JavaScript object
    jobs,         \* events in the context's queue
    seen,         \* history: the events each object was told of
    lost,         \* history: the open and close events the context refused
    broken,       \* history: connections that failed or that the peer ended
    received      \* how many messages each connection received
goVars == <<slots, connections, state, code, link, fin>>
owner  == <<phase, closer>>
queue  == <<jobs, lost>>
peer   == <<broken, received>>
vars == <<goVars, thread, owner, queue, readyState, seen, peer>>

-------------------------------------------------------------------------------
Normal == 1000    GoingAway == 1001    Abnormal == 1006    FromPeer == 4000
Codes    == {0, Normal, GoingAway, Abnormal, FromPeer}
States   == {"none", "connecting", "open", "closing", "closed"}
Links    == {"none", "dialed", "up", "down"}
Body     == {"none", "hangup", "remove", "release", "report", "done"}
Points   == {"idle", "start", "dial", "attach", "opened", "read", "write",
             "fail", "error", "finish", "ended"}
Closer   == {"none", "lookup", "mark", "hangup", "finish"}
Types    == {"open", "message", "error", "close"}
NoObject == 4

\* <<c, 0>> is the goroutine of connect, the others are those of send.
Threads   == Sockets \X (0..MaxSends)
Connect(c) == <<c, 0>>

closed == phase # "js"
InClose == {c \in Sockets : closer[c] # "none"}
JavaScript == phase = "js" /\ InClose = {}

IsClosing(c) == state[c] \in {"closing", "closed"}
CloseDetails(c) == IF code[c] = 0 THEN Abnormal ELSE code[c]

Goto(t, pc) == thread' = [thread EXCEPT ![t].pc = pc]
GoFinish(t, k) == thread' = [thread EXCEPT ![t] = [pc |-> "finish", code |-> k]]

Noted == Sockets \X {"open", "close"}

\* scheduleEvent: nothing once the runtime is closed; the context may refuse.
ScheduleEvent(c, type) ==
    \/ closed /\ UNCHANGED queue
    \/ ~closed /\ jobs' = Append(jobs, <<c, type>>) /\ UNCHANGED lost
    \/ ~closed /\ MayRefuse /\ lost' = lost \cup ({<<c, type>>} \cap Noted) /\ UNCHANGED jobs

Init ==
    /\ slots = 0 /\ connections = {} /\ phase = "js"
    /\ state = [c \in Sockets |-> "none"] /\ code = [c \in Sockets |-> 0]
    /\ link = [c \in Sockets |-> "none"] /\ fin = [c \in Sockets |-> "none"]
    /\ thread = [t \in Threads |-> [pc |-> "idle", code |-> 0]]
    /\ closer = [c \in Sockets |-> "none"]
    /\ readyState = [c \in Sockets |-> NoObject]
    /\ jobs = <<>> /\ seen = [c \in Sockets |-> <<>>] /\ lost = {}
    /\ broken = {} /\ received = [c \in Sockets |-> 0]

-------------------------------------------------------------------------------
\* The owner: the JavaScript class.

HasSlot == slots < MaxWebSocketConcurrent

\* The constructor: open takes a slot, registers the connection and starts its
\* goroutine; without a slot it throws and there is no object.
Open(c) ==
    /\ JavaScript /\ readyState[c] = NoObject
    /\ HasSlot /\ slots' = slots + 1
    /\ connections' = connections \cup {c}
    /\ state' = [state EXCEPT ![c] = "connecting"]
    /\ Goto(Connect(c), "start")
    /\ readyState' = [readyState EXCEPT ![c] = 0]
    /\ UNCHANGED <<code, link, fin, owner, queue, seen, peer>>

\* send: only an open connection that is registered gets a writer.
Send(t) ==
    LET c == t[1] IN
    /\ JavaScript /\ t # Connect(c) /\ thread[t].pc = "idle"
    /\ readyState[c] = 1 /\ c \in connections /\ state[c] = "open"
    /\ Goto(t, "write")
    /\ UNCHANGED <<goVars, owner, queue, readyState, seen, peer>>

CanClose(c) == JavaScript /\ readyState[c] < 2

CallClose(c) ==
    /\ CanClose(c)
    /\ readyState' = [readyState EXCEPT ![c] = 2]
    /\ closer' = [closer EXCEPT ![c] = "lookup"]
    /\ UNCHANGED <<goVars, thread, phase, queue, seen, peer>>

\* A code out of range throws after readyState is set: nothing is closed.
CallCloseBadCode(c) ==
    /\ CanClose(c)
    /\ readyState' = [readyState EXCEPT ![c] = 2]
    /\ UNCHANGED <<goVars, thread, owner, queue, seen, peer>>

\* __dispatch: an event of a socket that is no longer in the map is ignored.
Told(c, type) == seen' = [seen EXCEPT ![c] = Append(@, type)]
SetReady(c, n) == readyState' = [readyState EXCEPT ![c] = n]

DispatchAny(c) == TRUE    \* mutant
DispatchKnown(c) == readyState[c] # 3

Dispatch ==
    /\ JavaScript /\ jobs # <<>>
    /\ jobs' = Tail(jobs)
    /\ LET c == Head(jobs)[1]
           type == Head(jobs)[2]
       IN IF DispatchKnown(c)
          THEN /\ Told(c, type)
               /\ CASE type = "open"  -> SetReady(c, 1)
                    [] type = "close" -> SetReady(c, 3)
                    [] OTHER          -> UNCHANGED readyState
          ELSE UNCHANGED <<readyState, seen>>
    /\ UNCHANGED <<goVars, thread, owner, lost, peer>>

-------------------------------------------------------------------------------
\* The owner: close, for JavaScript or for closeAll, one connection at a time.
Step(c, from, to) == closer[c] = from /\ closer' = [closer EXCEPT ![c] = to]
Alone(c) == \A d \in Sockets \ {c} : closer[d] \in {"none", "lookup"}
ClosersCode == IF closed THEN GoingAway ELSE Normal

Lookup(c) ==
    /\ Alone(c)
    /\ Step(c, "lookup", IF c \in connections THEN "mark" ELSE "none")
    /\ UNCHANGED <<goVars, thread, phase, queue, readyState, seen, peer>>

\* Unless it is closed: the state first, then the hangup.
Mark(c) ==
    /\ IF state[c] = "closed"
       THEN Step(c, "mark", "none") /\ UNCHANGED <<state, code>>
       ELSE /\ Step(c, "mark", "hangup")
            /\ state' = [state EXCEPT ![c] = "closing"]
            /\ code' = [code EXCEPT ![c] = ClosersCode]
    /\ UNCHANGED <<slots, connections, link, fin, thread, phase, queue, readyState,
                   seen, peer>>

Down(c) == link' = [link EXCEPT ![c] = IF @ = "up" THEN "down" ELSE @]

HangupOnly(c) ==    \* mutant
    /\ Step(c, "hangup", "none") /\ Down(c)
    /\ UNCHANGED <<slots, connections, state, code, fin, thread, phase, queue,
                   readyState, seen, peer>>
Hangup(c) ==
    /\ Step(c, "hangup", "finish") /\ Down(c)
    /\ UNCHANGED <<slots, connections, state, code, fin, thread, phase, queue,
                   readyState, seen, peer>>

\* closeAll: the flag, then what is registered, which is closed in any order.
CloseAll ==
    /\ JavaScript /\ phase' = "flagged"
    /\ UNCHANGED <<goVars, thread, closer, queue, readyState, seen, peer>>

Snapshot ==
    /\ phase = "flagged" /\ phase' = "closing"
    /\ closer' = [c \in Sockets |-> IF c \in connections THEN "lookup" ELSE "none"]
    /\ UNCHANGED <<goVars, thread, queue, readyState, seen, peer>>

-------------------------------------------------------------------------------
\* finish: the first caller runs the body, the others wait until it is done.
FinBody(c, from, to) == fin[c] = from /\ fin' = [fin EXCEPT ![c] = to]

BeginAgain(c, k) ==    \* mutant
    /\ fin[c] \in {"none", "done"} /\ fin' = [fin EXCEPT ![c] = "hangup"]
    /\ state' = [state EXCEPT ![c] = "closed"]
    /\ code' = [code EXCEPT ![c] = k]
BeginBody(c, k) ==
    /\ FinBody(c, "none", "hangup")
    /\ state' = [state EXCEPT ![c] = "closed"]
    /\ code' = [code EXCEPT ![c] = k]

BeginFinish(t) ==
    /\ thread[t].pc = "finish" /\ BeginBody(t[1], thread[t].code)
    /\ UNCHANGED <<slots, connections, link, thread, owner, queue, readyState, seen, peer>>
BeginOwnersFinish(c) ==
    /\ closer[c] = "finish" /\ BeginBody(c, ClosersCode)
    /\ UNCHANGED <<slots, connections, link, thread, owner, queue, readyState, seen, peer>>

FinHangup(c) ==
    /\ FinBody(c, "hangup", "remove") /\ Down(c)
    /\ UNCHANGED <<slots, connections, state, code, thread, owner, queue, readyState,
                   seen, peer>>
FinRemove(c) ==
    /\ FinBody(c, "remove", "release") /\ connections' = connections \ {c}
    /\ UNCHANGED <<slots, state, code, link, thread, owner, queue, readyState, seen, peer>>
FinReleaseLate(c) ==    \* mutant
    /\ FinBody(c, "release", "report")
    /\ UNCHANGED <<slots, connections, state, code, link, thread, owner, queue, readyState,
                   seen, peer>>
FinRelease(c) ==
    /\ FinBody(c, "release", "report") /\ slots' = slots - 1
    /\ UNCHANGED <<connections, state, code, link, thread, owner, queue, readyState,
                   seen, peer>>
FinSilent(c) ==    \* mutant
    /\ FinBody(c, "report", "done")
    /\ UNCHANGED <<slots, connections, state, code, link, thread, owner, queue,
                   readyState, seen, peer>>
FinReport(c) ==
    /\ FinBody(c, "report", "done") /\ ScheduleEvent(c, "close")
    /\ UNCHANGED <<slots, connections, state, code, link, thread, owner, readyState,
                   seen, peer>>

Finished(t) ==
    /\ thread[t].pc = "finish" /\ fin[t[1]] = "done" /\ Goto(t, "ended")
    /\ UNCHANGED <<goVars, owner, queue, readyState, seen, peer>>
OwnerFinished(c) ==
    /\ fin[c] = "done" /\ Step(c, "finish", "none")
    /\ UNCHANGED <<goVars, thread, phase, queue, readyState, seen, peer>>

-------------------------------------------------------------------------------
\* The goroutine of a connection, and those of its sends.
At(t, pc) == thread[t].pc = pc
Breaks(c) == broken' = broken \cup {c}

Start(c) ==
    /\ At(Connect(c), "start")
    /\ IF closed THEN GoFinish(Connect(c), Abnormal) /\ UNCHANGED broken
       ELSE \/ Goto(Connect(c), "dial") /\ UNCHANGED broken
            \/ Goto(Connect(c), "fail") /\ Breaks(c)  \* the URL, the policy, no dialer
    /\ UNCHANGED <<goVars, owner, queue, readyState, seen, received>>

\* The dialer gives a connection, or an error, of its own or because close has
\* cancelled its context.
Dial(c) ==
    /\ At(Connect(c), "dial")
    /\ \/ /\ link' = [link EXCEPT ![c] = "dialed"] /\ Goto(Connect(c), "attach")
          /\ UNCHANGED broken
       \/ Goto(Connect(c), "fail") /\ Breaks(c) /\ UNCHANGED link
       \/ /\ closer[c] = "finish" \/ fin[c] # "none"
          /\ Goto(Connect(c), "fail") /\ UNCHANGED <<link, broken>>
    /\ UNCHANGED <<slots, connections, state, code, fin, owner, queue, readyState, seen, received>>

AttachesAlways(c) == TRUE    \* mutant
Attaches(c) == ~IsClosing(c)

Attach(c) ==
    /\ At(Connect(c), "attach")
    /\ IF Attaches(c)
       THEN /\ link' = [link EXCEPT ![c] = "up"]
            /\ state' = [state EXCEPT ![c] = "open"] /\ Goto(Connect(c), "opened")
       ELSE /\ link' = [link EXCEPT ![c] = "down"]
            /\ Goto(Connect(c), "ended") /\ UNCHANGED state
    /\ UNCHANGED <<slots, connections, code, fin, owner, queue, readyState, seen, peer>>

Opened(c) ==
    /\ At(Connect(c), "opened") /\ ScheduleEvent(c, "open") /\ Goto(Connect(c), "read")
    /\ UNCHANGED <<goVars, owner, readyState, seen, peer>>

Receive(c) ==
    /\ At(Connect(c), "read") /\ received[c] < MaxMessages
    /\ received' = [received EXCEPT ![c] = @ + 1] /\ ScheduleEvent(c, "message")
    /\ UNCHANGED <<goVars, thread, owner, readyState, seen, broken>>

\* ReadMessage fails: the peer has closed, the network fails, or this side hung up.
PeerCloses(c) ==
    /\ At(Connect(c), "read") /\ Breaks(c) /\ GoFinish(Connect(c), FromPeer)
    /\ UNCHANGED <<goVars, owner, queue, readyState, seen, received>>
NetworkFails(c) ==
    /\ At(Connect(c), "read") /\ link[c] = "up" /\ Breaks(c)
    /\ GoFinish(Connect(c), CloseDetails(c))
    /\ UNCHANGED <<goVars, owner, queue, readyState, seen, received>>
HungUp(c) ==
    /\ At(Connect(c), "read") /\ link[c] = "down"
    /\ GoFinish(Connect(c), CloseDetails(c))
    /\ UNCHANGED <<goVars, owner, queue, readyState, seen, peer>>

Write(t) ==
    /\ At(t, "write")
    /\ \/ link[t[1]] = "up" /\ Goto(t, "ended") /\ UNCHANGED broken
       \/ link[t[1]] = "up" /\ Goto(t, "fail") /\ Breaks(t[1])
       \/ link[t[1]] = "down" /\ Goto(t, "fail") /\ UNCHANGED broken
    /\ UNCHANGED <<goVars, owner, queue, readyState, seen, received>>

\* fail: a connection that is being closed is finished without an error event.
FailBlindly(t) ==    \* mutant
    /\ At(t, "fail") /\ Goto(t, "error")
    /\ UNCHANGED <<goVars, owner, queue, readyState, seen, peer>>
CheckFail(t) ==
    /\ At(t, "fail")
    /\ IF IsClosing(t[1]) THEN GoFinish(t, CloseDetails(t[1])) ELSE Goto(t, "error")
    /\ UNCHANGED <<goVars, owner, queue, readyState, seen, peer>>
ReportError(t) ==
    /\ At(t, "error") /\ ScheduleEvent(t[1], "error") /\ GoFinish(t, Abnormal)
    /\ UNCHANGED <<goVars, owner, readyState, seen, peer>>

-------------------------------------------------------------------------------
Class(c) == Open(c) \/ CallClose(c) \/ CallCloseBadCode(c)
OwnerStep(c) == Lookup(c) \/ Mark(c) \/ Hangup(c) \/ BeginOwnersFinish(c) \/ OwnerFinished(c)
FinishStep(c) == FinHangup(c) \/ FinRemove(c) \/ FinRelease(c) \/ FinReport(c)
ConnectStep(c) == Start(c) \/ Dial(c) \/ Attach(c) \/ Opened(c) \/ HungUp(c)
Arrives(c) == Receive(c) \/ PeerCloses(c) \/ NetworkFails(c)
ThreadStep(t) == Write(t) \/ CheckFail(t) \/ ReportError(t) \/ BeginFinish(t) \/ Finished(t)

Next ==
    \/ \E c \in Sockets : Class(c) \/ OwnerStep(c) \/ FinishStep(c) \/ ConnectStep(c) \/ Arrives(c)
    \/ \E t \in Threads : Send(t) \/ ThreadStep(t)
    \/ Dispatch \/ CloseAll \/ Snapshot

Spec == Init /\ [][Next]_vars

\* The owner and every goroutine are scheduled, the dialer and writes return, and
\* so does a read whose connection was hung up.  Nothing makes the peer send.
Fairness ==
    /\ WF_vars(Dispatch) /\ WF_vars(Snapshot)
    /\ \A c \in Sockets : /\ WF_vars(OwnerStep(c)) /\ WF_vars(FinishStep(c))
                          /\ WF_vars(ConnectStep(c))
    /\ \A t \in Threads : WF_vars(ThreadStep(t))
FairSpec == Spec /\ Fairness

-------------------------------------------------------------------------------
\* Properties

TypeOK ==
    /\ slots \in 0..MaxWebSocketConcurrent /\ connections \subseteq Sockets
    /\ state \in [Sockets -> States] /\ code \in [Sockets -> Codes]
    /\ link \in [Sockets -> Links] /\ fin \in [Sockets -> Body]
    /\ thread \in [Threads -> [pc : Points, code : Codes]]
    /\ phase \in {"js", "flagged", "closing"} /\ closer \in [Sockets -> Closer]
    /\ readyState \in [Sockets -> 0..NoObject]
    /\ jobs \in Seq(Sockets \X Types) /\ lost \subseteq Noted
    /\ seen \in [Sockets -> Seq(Types)]
    /\ broken \subseteq Sockets /\ received \in [Sockets -> 0..MaxMessages]

Opening == {c \in Sockets : state[c] # "none"}
Released == {c \in Sockets : fin[c] \in {"report", "done"}}
Holding == Opening \ Released

\* Each connection that was opened and not finished has exactly one slot, however
\* many goroutines end it at once; and when its object is told of the close its
\* slot is free: a WebSocket opened in answer is not refused because of it.
SlotsAccounted ==
    /\ slots = Cardinality(Holding)
    /\ \A c \in Sockets : readyState[c] = 3 => c \notin Holding

Pool == INSTANCE SlotPool WITH
          Holders <- Sockets, Max <- MaxWebSocketConcurrent, held <- Holding,
          past <- Released

Ended(c) == At(Connect(c), "ended")

\* A Conn the dialer gave is closed by somebody, also when close came while it was
\* being dialed or while it was attached.  When closeAll returns, what is still
\* registered or up is what another goroutine is finishing at that moment.
NoConnLeft ==
    /\ \A c \in Sockets : Ended(c) => link[c] \in {"none", "down"}
    /\ (phase = "closing" /\ InClose = {}) =>
         \A c \in Sockets :
           /\ c \in connections => fin[c] \in {"hangup", "remove"}
           /\ link[c] = "up" => fin[c] = "hangup"

\* The object hears of nothing after its close event, and of that only once; and
\* of no message before open, unless the context refused open.
EventOrder ==
    \A c \in Sockets : \A i \in 1..Len(seen[c]) :
      /\ seen[c][i] = "close" => i = Len(seen[c])
      /\ (seen[c][i] = "message" /\ <<c, "open">> \notin lost) =>
           \E j \in 1..(i - 1) : seen[c][j] = "open"

\* A connection that nobody but this side ended is not reported as failed: no
\* error event, and the code that close was given.
NoSpuriousFailure ==
    \A c \in Sockets \ broken :
      /\ (fin[c] # "none" /\ ~closed) => code[c] = Normal
      /\ \A i \in 1..Len(jobs) : jobs[i] # <<c, "error">>
      /\ \A i \in 1..Len(seen[c]) : seen[c][i] # "error"

\* An object whose connection has ended learns of it.
ClosedIsTold ==
    \A c \in Sockets :
      fin[c] # "none" ~> readyState[c] = 3 \/ closed \/ <<c, "close">> \in lost

\* close, with a code that is in range, gets rid of the connection and its slot.
CloseEnds == \A c \in Sockets : closer[c] # "none" ~> fin[c] = "done" /\ link[c] # "up"
================================================================================
