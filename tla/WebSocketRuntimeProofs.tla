------------------------- MODULE WebSocketRuntimeProofs -------------------------
(***************************************************************************)
(* Theorems about WebSocketRuntime for every finite set of connections,      *)
(* every limit and any number of sends and messages.                         *)
(***************************************************************************)
EXTENDS WebSocketRuntime, FiniteSetTheorems, TLAPS

\* The life of a connection: its object, the map, finish, its Conn, and what close
\* has done to it.
Life(c) ==
    /\ state[c] = "none" <=> readyState[c] = NoObject
    /\ state[c] = "closed" <=> fin[c] # "none"
    /\ c \in connections <=> state[c] # "none" /\ fin[c] \in {"none", "hangup", "remove"}
    /\ readyState[c] = 3 => fin[c] = "done"
    /\ closer[c] # "none" => state[c] # "none"
    /\ closer[c] \in {"hangup", "finish"} => IsClosing(c)
    /\ link[c] = "down" => IsClosing(c)
    /\ link[c] = "up" => state[c] # "none" /\ fin[c] \in {"none", "hangup"}
    /\ link[c] = "dialed" => thread[Connect(c)].pc = "attach"
    /\ Ended(c) => link[c] \in {"none", "down"}
    /\ phase = "closing" /\ closer[c] = "none" /\ state[c] # "none" => fin[c] # "none"
    /\ c \notin broken /\ ~closed /\ IsClosing(c) => code[c] = Normal

\* A goroutine at work has a connection that was opened, and fails one that nobody
\* broke only when it is being closed.
AtWork(t) ==
    /\ thread[t].pc # "idle" => state[t[1]] # "none"
    /\ thread[t].pc = "write" => t # Connect(t[1])
    /\ thread[t].pc = "fail" => t[1] \in broken \/ IsClosing(t[1])
    /\ thread[t].pc = "error" => t[1] \in broken
    /\ thread[t].pc = "finish" => t[1] \in broken \/ closed \/ thread[t].code = Normal

\* What an event that is queued, or was dispatched, says of its connection.
Means(c, type) ==
    /\ state[c] # "none"
    /\ type = "close" => fin[c] = "done"
    /\ type = "error" => c \in broken
Events ==
    /\ \A i \in DOMAIN jobs : Means(jobs[i][1], jobs[i][2])
    /\ \A c \in Sockets : \A i \in DOMAIN seen[c] : Means(c, seen[c][i])

Shape == /\ \A c \in Sockets : Life(c)
         /\ \A t \in Threads : AtWork(t)

\* The inductive invariant.
WebSocketInv == TypeOK /\ Shape /\ Events /\ slots = Cardinality(Holding)

Values ==
    /\ connections \subseteq Sockets
    /\ state \in [Sockets -> States] /\ code \in [Sockets -> Codes]
    /\ link \in [Sockets -> Links] /\ fin \in [Sockets -> Body]
    /\ thread \in [Threads -> [pc : Points, code : Codes]]
    /\ phase \in {"js", "flagged", "closing"} /\ closer \in [Sockets -> Closer]
    /\ readyState \in [Sockets -> 0..NoObject]
    /\ jobs \in Seq(Sockets \X Types) /\ lost \subseteq Noted
    /\ seen \in [Sockets -> Seq(Types)]
    /\ broken \subseteq Sockets /\ received \in [Sockets -> 0..MaxMessages]

-------------------------------------------------------------------------------
\* What a step does to the slots: nothing, one is taken, or one given back.
Keeps    == Holding' = Holding /\ Released' = Released /\ slots' = slots
Takes(c) == /\ c \in Sockets \ (Holding \cup Released) /\ HasSlot /\ slots' = slots + 1
            /\ Holding' = Holding \cup {c} /\ Released' = Released
Gives(c) == /\ c \in Holding /\ slots' = slots - 1
            /\ Holding' = Holding \ {c} /\ Released' = Released \cup {c}
SlotStep == Keeps \/ \E c \in Sockets : Takes(c) \/ Gives(c)

LEMMA HoldingFinite == IsFiniteSet(Holding) /\ Cardinality(Holding) \in Nat
<1>1. Holding \subseteq Sockets
  BY DEF Holding, Opening
<1> QED BY <1>1, FS_Subset, FS_CardinalityType, WebSocketAssumption

\* The counter follows the set, so it stays within the channel's capacity.
LEMMA SlotsFollow ==
    ASSUME WebSocketInv, SlotStep
    PROVE  slots' = Cardinality(Holding') /\ slots' \in 0..MaxWebSocketConcurrent
<1>1. /\ IsFiniteSet(Holding) /\ Cardinality(Holding) \in Nat
      /\ MaxWebSocketConcurrent \in Nat /\ slots \in 0..MaxWebSocketConcurrent
      /\ slots = Cardinality(Holding)
  BY HoldingFinite, WebSocketAssumption DEF WebSocketInv, TypeOK
<1>2. CASE Keeps
  BY <1>1, <1>2 DEF Keeps
<1>3. ASSUME NEW c \in Sockets, Takes(c)
      PROVE  slots' = Cardinality(Holding') /\ slots' \in 0..MaxWebSocketConcurrent
  <2>1. Cardinality(Holding') = Cardinality(Holding) + 1
    BY <1>1, <1>3, FS_AddElement DEF Takes
  <2> QED BY <1>1, <1>3, <2>1 DEF Takes, HasSlot
<1>4. ASSUME NEW c \in Sockets, Gives(c)
      PROVE  slots' = Cardinality(Holding') /\ slots' \in 0..MaxWebSocketConcurrent
  <2>1. Cardinality(Holding') = Cardinality(Holding) - 1 /\ Cardinality(Holding') \in Nat
    BY <1>1, <1>4, FS_RemoveElement, FS_CardinalityType DEF Gives
  <2> QED BY <1>1, <1>4, <2>1 DEF Gives
<1> QED BY <1>2, <1>3, <1>4 DEF SlotStep

\* A step that neither opens a connection nor releases one keeps the slots.
LEMMA SlotsKept ==
    ASSUME slots' = slots,
           \A c \in Sockets : /\ state'[c] = "none" <=> state[c] = "none"
                              /\ fin'[c] \in {"report", "done"} <=> fin[c] \in {"report", "done"}
    PROVE  SlotStep
BY DEF SlotStep, Keeps, Holding, Opening, Released

LEMMA ThreadFacts ==
    /\ \A t \in Threads : t[1] \in Sockets
    /\ \A c \in Sockets : Connect(c) \in Threads /\ Connect(c)[1] = c
    /\ \A c, d \in Sockets : Connect(c) = Connect(d) => c = d
BY WebSocketAssumption DEF Threads, Connect

\* An event that the step schedules, if the context takes it.
LEMMA Scheduled ==
    ASSUME Values, NEW c \in Sockets, NEW type \in Types, ScheduleEvent(c, type)
    PROVE  /\ jobs' \in Seq(Sockets \X Types) /\ lost' \subseteq Noted
           /\ \A i \in DOMAIN jobs' : \/ i \in DOMAIN jobs /\ jobs'[i] = jobs[i]
                                      \/ jobs'[i] = <<c, type>>
<1>1. jobs \in Seq(Sockets \X Types) /\ <<c, type>> \in Sockets \X Types
  BY DEF Values
<1>2. jobs' = jobs \/ jobs' = Append(jobs, <<c, type>>)
  BY DEF ScheduleEvent, queue
<1>3. lost' \subseteq Noted
  BY DEF ScheduleEvent, queue, Values
<1>4. CASE jobs' = Append(jobs, <<c, type>>)
  <2> DEFINE event == <<c, type>>
  <2>1. event \in Sockets \X Types /\ event = <<c, type>> /\ jobs' = Append(jobs, event)
    BY <1>1, <1>4
  <2> HIDE DEF event
  <2>2. jobs' \in Seq(Sockets \X Types)
    BY <1>1, <2>1
  <2>3. \A i \in DOMAIN jobs' : \/ i \in DOMAIN jobs /\ jobs'[i] = jobs[i]
                                \/ jobs'[i] = event
    BY <1>1, <2>1
  <2> QED BY <1>3, <2>1, <2>2, <2>3
<1> QED BY <1>1, <1>2, <1>3, <1>4

\* What is said of events stays true while connections only go forward.
Forward ==
    /\ \A c \in Sockets : /\ state[c] # "none" => state'[c] # "none"
                          /\ fin[c] = "done" => fin'[c] = "done"
    /\ broken \subseteq broken'

LEMMA EventsKept ==
    ASSUME WebSocketInv, Forward, seen' = seen,
           \A i \in DOMAIN jobs' :
             \/ i \in DOMAIN jobs /\ jobs'[i] = jobs[i]
             \/ \E c \in Sockets, type \in Types :
                  /\ jobs'[i] = <<c, type>> /\ state'[c] # "none"
                  /\ type = "close" => fin'[c] = "done"
                  /\ type = "error" => c \in broken'
    PROVE  Events'
<1>1. \A i \in DOMAIN jobs : jobs[i][1] \in Sockets
  BY DEF WebSocketInv, TypeOK
<1>2. ASSUME NEW i \in DOMAIN jobs'
      PROVE  /\ state'[jobs'[i][1]] # "none"
             /\ jobs'[i][2] = "close" => fin'[jobs'[i][1]] = "done"
             /\ jobs'[i][2] = "error" => jobs'[i][1] \in broken'
  <2>1. CASE i \in DOMAIN jobs /\ jobs'[i] = jobs[i]
    BY <1>1, <2>1 DEF WebSocketInv, Events, Means, Forward
  <2>2. CASE ~(i \in DOMAIN jobs /\ jobs'[i] = jobs[i])
    BY <2>2
  <2> QED BY <2>1, <2>2
<1>3. ASSUME NEW c \in Sockets, NEW i \in DOMAIN seen[c]
      PROVE  /\ state'[c] # "none"
             /\ seen[c][i] = "close" => fin'[c] = "done"
             /\ seen[c][i] = "error" => c \in broken'
  BY DEF WebSocketInv, Events, Means, Forward
<1> QED BY <1>2, <1>3 DEF Events, Means

LEMMA GotoFacts ==
    ASSUME Values, NEW t \in Threads, NEW pc \in Points, Goto(t, pc)
    PROVE  /\ thread' \in [Threads -> [pc : Points, code : Codes]]
           /\ thread'[t].pc = pc /\ thread'[t].code = thread[t].code
           /\ \A u \in Threads \ {t} : thread'[u] = thread[u]
BY DEF Values, Goto

LEMMA GoFinishFacts ==
    ASSUME Values, NEW t \in Threads, NEW k \in Codes, GoFinish(t, k)
    PROVE  /\ thread' \in [Threads -> [pc : Points, code : Codes]]
           /\ thread'[t].pc = "finish" /\ thread'[t].code = k
           /\ \A u \in Threads \ {t} : thread'[u] = thread[u]
BY DEF Values, GoFinish, Points

-------------------------------------------------------------------------------
\* Each action keeps the values, the shape and what events say, and is a step of
\* the slots.
Kept == Values' /\ Shape' /\ Events' /\ SlotStep

LEMMA InvFacts ==
    ASSUME WebSocketInv
    PROVE  /\ Values /\ Shape /\ Events
           /\ \A c \in Sockets : Life(c)
           /\ \A t \in Threads : AtWork(t)
BY DEF WebSocketInv, TypeOK, Values, Shape

LEMMA OpenStep ==
    ASSUME WebSocketInv, NEW c \in Sockets, Open(c)
    PROVE  Kept
<1>1. /\ Values /\ Life(c) /\ state[c] = "none" /\ fin[c] = "none"
      /\ \A d \in Sockets : Life(d)
      /\ \A t \in Threads : AtWork(t)
  BY InvFacts DEF Open, Life
<1>2. /\ thread' \in [Threads -> [pc : Points, code : Codes]]
      /\ thread'[Connect(c)].pc = "start"
      /\ \A t \in Threads \ {Connect(c)} : thread'[t] = thread[t]
  BY <1>1, ThreadFacts, GotoFacts DEF Open, Points
<1>3. /\ state' \in [Sockets -> States] /\ state'[c] = "connecting"
      /\ \A d \in Sockets \ {c} : state'[d] = state[d]
      /\ readyState' \in [Sockets -> 0..NoObject] /\ readyState'[c] = 0
      /\ \A d \in Sockets \ {c} : readyState'[d] = readyState[d]
      /\ connections' = connections \cup {c} /\ phase = "js" /\ slots' = slots + 1
      /\ UNCHANGED <<code, link, fin, phase, closer, jobs, lost, seen, broken, received>>
  BY <1>1 DEF Open, JavaScript, Values, States, NoObject, owner, queue, peer
<1>4. Values'
  BY <1>1, <1>2, <1>3 DEF Values
<1>5. Shape'
  <2>1. ASSUME NEW d \in Sockets PROVE Life(d)'
    <3>1. CASE d = c
      <4>1. Connect(c) \in Threads /\ thread[Connect(c)].pc = "idle"
        BY <1>1, ThreadFacts DEF AtWork
      <4> QED BY <1>1, <1>2, <1>3, <3>1, <4>1 DEF Life, IsClosing, Ended, At, closed, NoObject
    <3>2. CASE d # c
      <4>1. Life(d) /\ thread'[Connect(d)] = thread[Connect(d)]
        BY <1>1, <1>2, <3>2, ThreadFacts
      <4> QED BY <1>3, <3>2, <4>1 DEF Life, IsClosing, Ended, At, closed
    <3> QED BY <3>1, <3>2
  <2>2. ASSUME NEW t \in Threads PROVE AtWork(t)'
    BY <1>1, <1>2, <1>3, ThreadFacts DEF AtWork, IsClosing, closed
  <2> QED BY <2>1, <2>2 DEF Shape
<1>6. Events'
  BY <1>1, <1>3, EventsKept DEF Forward, Values
<1>7. Takes(c)
  BY <1>1, <1>3 DEF Takes, Open, Holding, Opening, Released, Values
<1> QED BY <1>4, <1>5, <1>6, <1>7 DEF Kept, SlotStep

\* A step that concerns one connection leaves the shape of the others.
OnlyAt(c) ==
    /\ phase' = phase
    /\ \A d \in Sockets \ {c} :
         /\ state'[d] = state[d] /\ fin'[d] = fin[d] /\ link'[d] = link[d]
         /\ code'[d] = code[d] /\ closer'[d] = closer[d] /\ readyState'[d] = readyState[d]
         /\ (d \in connections' <=> d \in connections) /\ (d \in broken' <=> d \in broken)
    /\ \A t \in Threads : t[1] # c => thread'[t] = thread[t]

LEMMA ShapeOfOthers ==
    ASSUME WebSocketInv, NEW c \in Sockets, OnlyAt(c), Life(c)',
           \A t \in Threads : t[1] = c => AtWork(t)'
    PROVE  Shape'
<1>1. ASSUME NEW d \in Sockets, d # c PROVE Life(d)'
  <2>1. Life(d) /\ thread'[Connect(d)] = thread[Connect(d)]
    BY <1>1, InvFacts, ThreadFacts DEF OnlyAt
  <2> QED BY <1>1, <2>1 DEF OnlyAt, Life, IsClosing, Ended, At, closed
<1>2. ASSUME NEW t \in Threads, t[1] # c PROVE AtWork(t)'
  <2>1. AtWork(t) /\ thread'[t] = thread[t] /\ t[1] \in Sockets
    BY <1>2, InvFacts, ThreadFacts DEF OnlyAt
  <2> QED BY <1>2, <2>1 DEF OnlyAt, AtWork, IsClosing, closed
<1> QED BY <1>1, <1>2 DEF Shape

-------------------------------------------------------------------------------
\* The steps of a goroutine that change nothing of its connection.
Tells(c) == \/ UNCHANGED queue
            \/ ScheduleEvent(c, "open") \/ ScheduleEvent(c, "message")
            \/ c \in broken' /\ ScheduleEvent(c, "error")

LEMMA TellsFacts ==
    ASSUME WebSocketInv, NEW c \in Sockets, Tells(c), state'[c] # "none", Forward, seen' = seen
    PROVE  /\ jobs' \in Seq(Sockets \X Types) /\ lost' \subseteq Noted /\ Events'
<1>1. CASE UNCHANGED queue
  BY <1>1, InvFacts, EventsKept DEF queue, Values
<1>2. ASSUME NEW type \in Types, ScheduleEvent(c, type), type # "close",
             type = "error" => c \in broken'
      PROVE  jobs' \in Seq(Sockets \X Types) /\ lost' \subseteq Noted /\ Events'
  BY <1>2, InvFacts, Scheduled, EventsKept
<1> QED BY <1>1, <1>2 DEF Tells, Types

LEMMA ThreadOnly ==
    ASSUME WebSocketInv, NEW t \in Threads, NEW pc \in Points, NEW k \in Codes,
           UNCHANGED <<goVars, owner, readyState, seen>>,
           thread' = [thread EXCEPT ![t] = [pc |-> pc, code |-> k]],
           broken' = broken \/ broken' = broken \cup {t[1]},
           received' \in [Sockets -> 0..MaxMessages], Tells(t[1]),
           state[t[1]] # "none", thread[t].pc # "attach", AtWork(t)',
           (pc = "ended" /\ t = Connect(t[1])) => link[t[1]] \in {"none", "down"}
    PROVE  Kept
<1> DEFINE c == t[1]
<1>1. /\ Values /\ Life(c) /\ c \in Sockets /\ Connect(c) \in Threads
      /\ \A u \in Threads : AtWork(u)
  BY InvFacts, ThreadFacts
<1>2. /\ UNCHANGED <<slots, connections, state, code, link, fin, phase, closer, readyState, seen>>
      /\ thread' \in [Threads -> [pc : Points, code : Codes]]
      /\ thread'[t] = [pc |-> pc, code |-> k]
      /\ \A u \in Threads \ {t} : thread'[u] = thread[u]
      /\ broken \subseteq broken' /\ broken' \subseteq Sockets
  BY <1>1 DEF goVars, owner, Values
<1>3. /\ jobs' \in Seq(Sockets \X Types) /\ lost' \subseteq Noted /\ Events'
  BY <1>1, <1>2, TellsFacts DEF Forward
<1>4. Values'
  BY <1>1, <1>2, <1>3 DEF Values
<1>5. OnlyAt(c)
  BY <1>2 DEF OnlyAt
<1>6. Life(c)'
  <2>1. CASE t = Connect(c)
    BY <1>1, <1>2, <2>1 DEF Life, IsClosing, Ended, At, closed
  <2>2. CASE t # Connect(c)
    BY <1>1, <1>2, <2>2 DEF Life, IsClosing, Ended, At, closed
  <2> QED BY <2>1, <2>2
<1>7. ASSUME NEW u \in Threads, u[1] = c PROVE AtWork(u)'
  BY <1>1, <1>2, <1>7 DEF AtWork, IsClosing, closed
<1>8. SlotStep
  BY <1>2, SlotsKept
<1> QED BY <1>1, <1>3, <1>4, <1>5, <1>6, <1>7, <1>8, ShapeOfOthers DEF Kept

LEMMA GotoIs ==
    ASSUME Values, NEW t \in Threads, NEW pc \in Points
    PROVE  /\ thread[t].code \in Codes
           /\ Goto(t, pc) => thread' = [thread EXCEPT ![t] = [pc |-> pc, code |-> thread[t].code]]
BY DEF Values, Goto

\* Where a goroutine goes on: an error that it may report, or the end.
LEMMA ThreadStepKeeps ==
    ASSUME WebSocketInv, NEW t \in Threads,
           Send(t) \/ Write(t) \/ CheckFail(t) \/ ReportError(t) \/ Finished(t)
    PROVE  Kept
<1> DEFINE c == t[1]
           k == thread[t].code
<1>0. ASSUME NEW pc \in Points, Goto(t, pc)
      PROVE  thread' = [thread EXCEPT ![t] = [pc |-> pc, code |-> k]]
  BY <1>0, InvFacts, GotoIs
<1>1. /\ Values /\ Life(c) /\ c \in Sockets /\ AtWork(t) /\ k \in Codes
      /\ \A pc \in Points : Goto(t, pc) => thread' = [thread EXCEPT ![t] = [pc |-> pc, code |-> k]]
  BY <1>0, InvFacts, ThreadFacts DEF Values
<1>2. received \in [Sockets -> 0..MaxMessages] /\ code[c] \in Codes
  BY <1>1 DEF Values
<1>3. CASE Send(t)
  <2>1. thread' = [thread EXCEPT ![t] = [pc |-> "write", code |-> k]]
    BY <1>1, <1>3 DEF Send, Points
  <2>2. AtWork(t)' /\ state[c] # "none"
    BY <1>1, <1>3, <2>1 DEF Send, AtWork, Values, States, goVars
  <2> QED BY <1>1, <1>2, <1>3, <2>1, <2>2, ThreadOnly DEF Send, Points, peer, Tells
<1>4. CASE Write(t)
  <2>1. PICK pc \in {"ended", "fail"} :
          /\ thread' = [thread EXCEPT ![t] = [pc |-> pc, code |-> k]]
          /\ \/ pc = "ended" /\ broken' = broken /\ link[c] = "up"
             \/ pc = "fail" /\ broken' = broken \cup {c}
             \/ pc = "fail" /\ broken' = broken /\ link[c] = "down"
    BY <1>1, <1>4 DEF Write, Points, Breaks
  <2>2. AtWork(t)' /\ state[c] # "none" /\ thread[t].pc = "write"
    BY <1>1, <1>4, <2>1 DEF Write, AtWork, At, Values, goVars, Life, IsClosing
  <2>3. t # Connect(c)
    BY <1>1, <2>2 DEF AtWork
  <2> QED BY <1>1, <1>2, <1>4, <2>1, <2>2, <2>3, ThreadOnly DEF Write, Points, Tells
<1>5. CASE CheckFail(t)
  <2>1. PICK pc \in {"finish", "error"}, m \in Codes :
          /\ thread' = [thread EXCEPT ![t] = [pc |-> pc, code |-> m]]
          /\ \/ pc = "finish" /\ IsClosing(c) /\ m = CloseDetails(c)
             \/ pc = "error" /\ ~IsClosing(c)
    BY <1>1, <1>2, <1>5 DEF CheckFail, Points, GoFinish, CloseDetails, Codes
  <2>2. AtWork(t)' /\ state[c] # "none" /\ thread[t].pc = "fail"
    BY <1>1, <1>5, <2>1 DEF CheckFail, AtWork, At, Values, goVars, owner, peer, Life, IsClosing,
                            CloseDetails, closed, Normal
  <2> QED BY <1>1, <1>2, <1>5, <2>1, <2>2, ThreadOnly DEF CheckFail, Points, peer, Tells
<1>6. CASE ReportError(t)
  <2>1. thread' = [thread EXCEPT ![t] = [pc |-> "finish", code |-> Abnormal]]
    BY <1>6 DEF ReportError, GoFinish
  <2>2. AtWork(t)' /\ state[c] # "none" /\ thread[t].pc = "error" /\ c \in broken'
    BY <1>1, <1>6, <2>1 DEF ReportError, AtWork, At, Values, goVars, peer
  <2> QED BY <1>1, <1>2, <1>6, <2>1, <2>2, ThreadOnly
          DEF ReportError, Points, Codes, peer, Tells
<1>7. CASE Finished(t)
  <2>1. thread' = [thread EXCEPT ![t] = [pc |-> "ended", code |-> k]]
    BY <1>1, <1>7 DEF Finished, Points
  <2>2. AtWork(t)' /\ state[c] # "none" /\ thread[t].pc = "finish" /\ fin[c] = "done"
    BY <1>1, <1>7, <2>1 DEF Finished, AtWork, Values, goVars
  <2>3. t = Connect(c) => link[c] \in {"none", "down"}
    BY <1>1, <2>2 DEF Life, Values, Links
  <2> QED BY <1>1, <1>2, <1>7, <2>1, <2>2, <2>3, ThreadOnly DEF Finished, Points, peer, Tells
<1> QED BY <1>3, <1>4, <1>5, <1>6, <1>7

LEMMA ConnectFacts ==
    ASSUME WebSocketInv, NEW c \in Sockets
    PROVE  /\ Values /\ Life(c) /\ Connect(c) \in Threads /\ Connect(c)[1] = c
           /\ AtWork(Connect(c)) /\ thread[Connect(c)].code \in Codes
           /\ received \in [Sockets -> 0..MaxMessages] /\ code[c] \in Codes
           /\ CloseDetails(c) \in Codes
<1>1. /\ Values /\ Life(c) /\ Connect(c) \in Threads /\ Connect(c)[1] = c /\ AtWork(Connect(c))
  BY InvFacts, ThreadFacts
<1> QED BY <1>1 DEF Values, CloseDetails, Codes

LEMMA ReadingSteps ==
    ASSUME WebSocketInv, NEW c \in Sockets,
           Start(c) \/ Opened(c) \/ HungUp(c) \/ Arrives(c)
    PROVE  Kept
<1> DEFINE t == Connect(c)
           k == thread[t].code
<1>1. /\ Values /\ Life(c) /\ t \in Threads /\ t[1] = c /\ AtWork(t) /\ k \in Codes
      /\ received \in [Sockets -> 0..MaxMessages] /\ CloseDetails(c) \in Codes
  BY ConnectFacts
<1>2. ASSUME NEW pc \in Points, Goto(t, pc)
      PROVE  thread' = [thread EXCEPT ![t] = [pc |-> pc, code |-> k]]
  BY <1>1, <1>2, GotoIs
<1>3. CASE Start(c)
  <2>1. PICK pc \in {"finish", "dial", "fail"}, m \in Codes :
          /\ thread' = [thread EXCEPT ![t] = [pc |-> pc, code |-> m]]
          /\ \/ pc = "finish" /\ closed /\ broken' = broken
             \/ pc = "dial" /\ broken' = broken
             \/ pc = "fail" /\ broken' = broken \cup {c}
    <3>1. Abnormal \in Codes
      BY DEF Codes
    <3> QED BY <1>1, <1>2, <1>3, <3>1 DEF Start, GoFinish, Breaks, Points
  <2>2. AtWork(t)' /\ state[c] # "none" /\ thread[t].pc = "start"
    BY <1>1, <1>3, <2>1 DEF Start, AtWork, At, Values, goVars, owner, closed
  <2> HIDE DEF t, k
  <2> QED BY <1>1, <1>3, <2>1, <2>2, ThreadOnly DEF Start, Points, Tells
<1>4. CASE Opened(c)
  <2>1. thread' = [thread EXCEPT ![t] = [pc |-> "read", code |-> k]]
    BY <1>1, <1>2, <1>4 DEF Opened, Points
  <2>2. AtWork(t)' /\ state[c] # "none" /\ thread[t].pc = "opened"
    BY <1>1, <1>4, <2>1 DEF Opened, AtWork, At, Values, goVars
  <2> HIDE DEF t, k
  <2> QED BY <1>1, <1>4, <2>1, <2>2, ThreadOnly DEF Opened, Points, peer, Tells
<1>5. CASE Receive(c)
  <2>1. /\ thread[t].pc = "read" /\ thread' = thread
        /\ received' \in [Sockets -> 0..MaxMessages]
    BY <1>1, <1>5, WebSocketAssumption DEF Receive, At, Values
  <2>2. thread' = [thread EXCEPT ![t] = [pc |-> "read", code |-> k]]
    BY <1>1, <2>1 DEF Values
  <2>3. AtWork(t)' /\ state[c] # "none"
    BY <1>1, <1>5, <2>1, <2>2 DEF Receive, AtWork, Values, goVars
  <2> HIDE DEF t, k
  <2> QED BY <1>1, <1>5, <2>1, <2>2, <2>3, ThreadOnly DEF Receive, Points, Tells
<1>6. CASE HungUp(c) \/ PeerCloses(c) \/ NetworkFails(c)
  <2>1. PICK m \in Codes :
          /\ thread' = [thread EXCEPT ![t] = [pc |-> "finish", code |-> m]]
          /\ \/ broken' = broken \cup {c}
             \/ broken' = broken /\ link[c] = "down" /\ m = CloseDetails(c)
    <3>1. FromPeer \in Codes
      BY DEF Codes
    <3> QED BY <1>1, <1>6, <3>1
            DEF HungUp, PeerCloses, NetworkFails, GoFinish, Breaks, peer
  <2>2. /\ thread[t].pc = "read" /\ state[c] # "none"
        /\ UNCHANGED <<goVars, owner, queue, readyState, seen, received>>
    BY <1>1, <1>6 DEF HungUp, PeerCloses, NetworkFails, At, AtWork, peer
  <2>3. AtWork(t)'
    BY <1>1, <2>1, <2>2 DEF AtWork, Values, goVars, owner, Life, IsClosing, CloseDetails, closed,
                            Normal
  <2> HIDE DEF t, k
  <2> QED BY <1>1, <2>1, <2>2, <2>3, ThreadOnly DEF Points, Tells
<1> QED BY <1>3, <1>4, <1>5, <1>6 DEF Arrives

LEMMA DialStep ==
    ASSUME WebSocketInv, NEW c \in Sockets, Dial(c)
    PROVE  Kept
<1> DEFINE t == Connect(c)
<1>1. /\ Values /\ Life(c) /\ t \in Threads /\ t[1] = c /\ AtWork(t)
      /\ thread[t].pc = "dial" /\ state[c] # "none"
      /\ \A u \in Threads : AtWork(u)
  BY ConnectFacts, InvFacts DEF Dial, At, AtWork
<1>2. PICK pc \in {"attach", "fail"} :
        /\ Goto(t, pc)
        /\ \/ pc = "attach" /\ link' = [link EXCEPT ![c] = "dialed"] /\ broken' = broken
           \/ pc = "fail" /\ link' = link /\ broken' = broken \cup {c}
           \/ /\ pc = "fail" /\ link' = link /\ broken' = broken
              /\ closer[c] = "finish" \/ fin[c] # "none"
  BY DEF Dial, Breaks
<1>3. /\ thread' \in [Threads -> [pc : Points, code : Codes]]
      /\ thread'[t].pc = pc /\ \A u \in Threads \ {t} : thread'[u] = thread[u]
  BY <1>1, <1>2, GotoFacts DEF Points
<1>4. /\ UNCHANGED <<slots, connections, state, code, fin, phase, closer, readyState, seen,
                      jobs, lost, received>>
      /\ link' \in [Sockets -> Links] /\ broken \subseteq broken' /\ broken' \subseteq Sockets
      /\ \A d \in Sockets \ {c} : link'[d] = link[d] /\ (d \in broken' <=> d \in broken)
  BY <1>1, <1>2 DEF Dial, Values, Links, owner, queue
<1>5. Values'
  BY <1>1, <1>3, <1>4 DEF Values
<1>6. OnlyAt(c)
  BY <1>1, <1>3, <1>4 DEF OnlyAt
<1>7. Life(c)'
  BY <1>1, <1>2, <1>3, <1>4 DEF Life, Values, IsClosing, Ended, At, closed
<1>8. ASSUME NEW u \in Threads, u[1] = c PROVE AtWork(u)'
  BY <1>1, <1>2, <1>3, <1>4, <1>8 DEF AtWork, Life, IsClosing, closed
<1>9. Events' /\ SlotStep
  BY <1>1, <1>4, EventsKept, SlotsKept DEF Forward
<1> HIDE DEF t
<1> QED BY <1>5, <1>6, <1>7, <1>8, <1>9, ShapeOfOthers DEF Kept

LEMMA AttachStep ==
    ASSUME WebSocketInv, NEW c \in Sockets, Attach(c)
    PROVE  Kept
<1> DEFINE t == Connect(c)
<1>1. /\ Values /\ Life(c) /\ t \in Threads /\ t[1] = c /\ AtWork(t)
      /\ thread[t].pc = "attach" /\ state[c] # "none"
      /\ \A u \in Threads : AtWork(u)
  BY ConnectFacts, InvFacts DEF Attach, At, AtWork
<1>2. PICK pc \in {"opened", "ended"} :
        /\ Goto(t, pc)
        /\ \/ /\ pc = "opened" /\ ~IsClosing(c) /\ link' = [link EXCEPT ![c] = "up"]
              /\ state' = [state EXCEPT ![c] = "open"]
           \/ /\ pc = "ended" /\ IsClosing(c) /\ link' = [link EXCEPT ![c] = "down"]
              /\ state' = state
  BY DEF Attach, Attaches
<1>3. /\ thread' \in [Threads -> [pc : Points, code : Codes]]
      /\ thread'[t].pc = pc /\ \A u \in Threads \ {t} : thread'[u] = thread[u]
  BY <1>1, <1>2, GotoFacts DEF Points
<1>4. /\ UNCHANGED <<slots, connections, code, fin, phase, closer, readyState, seen, jobs, lost,
                      received, broken>>
      /\ link' \in [Sockets -> Links] /\ state' \in [Sockets -> States]
      /\ \A d \in Sockets \ {c} : link'[d] = link[d] /\ state'[d] = state[d]
      /\ state'[c] # "none" /\ (IsClosing(c) => state'[c] = state[c])
  BY <1>1, <1>2 DEF Attach, Values, Links, States, owner, queue, peer
<1>5. Values'
  BY <1>1, <1>3, <1>4 DEF Values
<1>6. OnlyAt(c)
  BY <1>1, <1>3, <1>4 DEF OnlyAt
<1>7. Life(c)'
  BY <1>1, <1>2, <1>3, <1>4 DEF Life, Values, IsClosing, Ended, At, closed
<1>8. ASSUME NEW u \in Threads, u[1] = c PROVE AtWork(u)'
  BY <1>1, <1>2, <1>3, <1>4, <1>8 DEF AtWork, IsClosing, closed
<1>9. Events' /\ SlotStep
  BY <1>1, <1>4, EventsKept, SlotsKept DEF Forward
<1> HIDE DEF t
<1> QED BY <1>5, <1>6, <1>7, <1>8, <1>9, ShapeOfOthers DEF Kept

-------------------------------------------------------------------------------
\* The class and the owner's part of close.  A step of these changes no goroutine.
LEMMA OwnersStep ==
    ASSUME WebSocketInv, NEW c \in Sockets,
           UNCHANGED <<slots, connections, fin, thread, phase, queue, seen, peer>>,
           \A d \in Sockets \ {c} :
             /\ state'[d] = state[d] /\ link'[d] = link[d] /\ code'[d] = code[d]
             /\ closer'[d] = closer[d] /\ readyState'[d] = readyState[d],
           state' \in [Sockets -> States], link' \in [Sockets -> Links],
           code' \in [Sockets -> Codes], closer' \in [Sockets -> Closer],
           readyState' \in [Sockets -> 0..NoObject],
           state'[c] = "none" <=> state[c] = "none",
           IsClosing(c) => IsClosing(c)', Life(c)'
    PROVE  Kept
<1>1. Values /\ (\A u \in Threads : AtWork(u))
  BY InvFacts
<1>2. UNCHANGED <<jobs, lost, broken, received>>
  BY DEF queue, peer
<1>3. Values'
  BY <1>1, <1>2 DEF Values
<1>4. OnlyAt(c)
  BY <1>2 DEF OnlyAt
<1>5. ASSUME NEW u \in Threads, u[1] = c PROVE AtWork(u)'
  BY <1>1, <1>2, <1>5 DEF AtWork, IsClosing, closed
<1>6. Events' /\ SlotStep
  BY <1>1, <1>2, EventsKept, SlotsKept DEF Forward, Values
<1> QED BY <1>3, <1>4, <1>5, <1>6, ShapeOfOthers DEF Kept

LEMMA CloseStep ==
    ASSUME WebSocketInv, NEW c \in Sockets,
           \/ CallClose(c) \/ CallCloseBadCode(c) \/ Lookup(c) \/ Mark(c) \/ Hangup(c)
           \/ OwnerFinished(c)
    PROVE  Kept
<1>1. Values /\ Life(c)
  BY InvFacts
<1>2. /\ UNCHANGED <<slots, connections, fin, thread, phase, queue, seen, peer, broken>>
      /\ \A d \in Sockets \ {c} :
           /\ state'[d] = state[d] /\ link'[d] = link[d] /\ code'[d] = code[d]
           /\ closer'[d] = closer[d] /\ readyState'[d] = readyState[d]
      /\ state' \in [Sockets -> States] /\ link' \in [Sockets -> Links]
      /\ code' \in [Sockets -> Codes] /\ closer' \in [Sockets -> Closer]
      /\ readyState' \in [Sockets -> 0..NoObject]
  <2>1. CASE CallClose(c) \/ CallCloseBadCode(c)
    <3>1. /\ readyState' = [readyState EXCEPT ![c] = 2]
          /\ closer' = closer \/ closer' = [closer EXCEPT ![c] = "lookup"]
          /\ UNCHANGED <<slots, connections, state, code, link, fin, thread, phase, queue, seen,
                         peer, broken>>
      BY <2>1 DEF CallClose, CallCloseBadCode, goVars, owner, peer
    <3>2. 2 \in 0..NoObject /\ "lookup" \in Closer
      BY DEF NoObject, Closer
    <3> QED BY <1>1, <3>1, <3>2 DEF Values
  <2>2. CASE Lookup(c) \/ OwnerFinished(c)
    BY <1>1, <2>2 DEF Lookup, OwnerFinished, Step, Values, Closer, goVars, peer
  <2>3. CASE Mark(c)
    <3>1. ClosersCode \in Codes /\ "closing" \in States /\ {"none", "hangup"} \subseteq Closer
      BY DEF ClosersCode, Codes, States, Closer
    <3>2. /\ state' = state \/ state' = [state EXCEPT ![c] = "closing"]
          /\ code' = code \/ code' = [code EXCEPT ![c] = ClosersCode]
          /\ \E to \in {"none", "hangup"} : closer' = [closer EXCEPT ![c] = to]
      BY <2>3 DEF Mark, Step
    <3>3. UNCHANGED <<slots, connections, link, fin, thread, phase, queue, readyState, seen, peer,
                      broken>>
      BY <2>3 DEF Mark, peer
    <3> HIDE DEF ClosersCode
    <3> QED BY <1>1, <3>1, <3>2, <3>3 DEF Values
  <2>4. CASE Hangup(c)
    BY <1>1, <2>4 DEF Hangup, Step, Down, Values, Closer, Links, peer
  <2> QED BY <2>1, <2>2, <2>3, <2>4
<1>3. /\ state'[c] = "none" <=> state[c] = "none"
      /\ IsClosing(c) => IsClosing(c)'
      /\ Life(c)'
  <2>1. CASE CallClose(c) \/ CallCloseBadCode(c)
    BY <1>1, <1>2, <2>1 DEF CallClose, CallCloseBadCode, CanClose, JavaScript, Life, Values,
                            IsClosing, Ended, At, closed, NoObject, goVars, owner
  <2>2. CASE Lookup(c)
    BY <1>1, <1>2, <2>2 DEF Lookup, Step, Life, Values, IsClosing, Ended, At, closed, goVars
  <2>3. CASE OwnerFinished(c)
    BY <1>1, <1>2, <2>3 DEF OwnerFinished, Step, Life, Values, IsClosing, Ended, At, closed, goVars
  <2>4. CASE Mark(c)
    BY <1>1, <1>2, <2>4 DEF Mark, Step, ClosersCode, Life, Values, IsClosing, Ended, At, closed
  <2>5. CASE Hangup(c)
    BY <1>1, <1>2, <2>5 DEF Hangup, Step, Down, Life, Values, Links, IsClosing, Ended, At, closed
  <2> QED BY <2>1, <2>2, <2>3, <2>4, <2>5
<1> QED BY <1>2, <1>3, OwnersStep

LEMMA CloseAllStep ==
    ASSUME WebSocketInv, CloseAll \/ Snapshot
    PROVE  Kept
<1>1. Values /\ (\A d \in Sockets : Life(d)) /\ (\A u \in Threads : AtWork(u))
  BY InvFacts
<1>2. UNCHANGED <<slots, connections, state, code, link, fin, thread, jobs, lost, readyState, seen,
                  broken, received>>
  BY DEF CloseAll, Snapshot, goVars, queue, peer
<1>3. /\ phase' \in {"flagged", "closing"}
      /\ phase' = "flagged" => closer' = closer
      /\ phase' = "closing" =>
           closer' = [c \in Sockets |-> IF c \in connections THEN "lookup" ELSE "none"]
      /\ closer' \in [Sockets -> Closer]
  BY <1>1 DEF CloseAll, Snapshot, Values, Closer
<1>4. Values'
  BY <1>1, <1>2, <1>3 DEF Values
<1>5. ASSUME NEW c \in Sockets PROVE Life(c)'
  <2>1. CASE phase' = "flagged"
    BY <1>1, <1>2, <1>3, <2>1 DEF Life, IsClosing, Ended, At, closed
  <2>2. CASE phase' = "closing"
    BY <1>1, <1>2, <1>3, <2>2 DEF Life, IsClosing, Ended, At, closed
  <2> QED BY <1>3, <2>1, <2>2
<1>6. ASSUME NEW u \in Threads PROVE AtWork(u)'
  BY <1>1, <1>2, <1>3 DEF AtWork, IsClosing, closed
<1>7. Events' /\ SlotStep
  BY <1>1, <1>2, EventsKept, SlotsKept DEF Forward, Values
<1> QED BY <1>4, <1>5, <1>6, <1>7 DEF Kept, Shape

LEMMA DispatchStep ==
    ASSUME WebSocketInv, Dispatch
    PROVE  Kept
<1> DEFINE c == Head(jobs)[1]
           type == Head(jobs)[2]
<1>1. Values /\ (\A d \in Sockets : Life(d)) /\ (\A u \in Threads : AtWork(u)) /\ Events
  BY InvFacts
<1>2. /\ jobs \in Seq(Sockets \X Types) /\ jobs # <<>> /\ Head(jobs) = jobs[1]
      /\ 1 \in DOMAIN jobs /\ Head(jobs) \in Sockets \X Types
      /\ Tail(jobs) \in Seq(Sockets \X Types)
      /\ \A i \in DOMAIN Tail(jobs) : i + 1 \in DOMAIN jobs /\ Tail(jobs)[i] = jobs[i + 1]
  BY <1>1 DEF Values, Dispatch
<1>3. c \in Sockets /\ type \in Types /\ Means(c, type)
  BY <1>1, <1>2 DEF Events
<1>4. /\ UNCHANGED <<slots, connections, state, code, link, fin, thread, phase, closer, lost,
                     broken, received>>
      /\ jobs' = Tail(jobs)
      /\ \/ UNCHANGED <<readyState, seen>>
         \/ /\ seen' = [seen EXCEPT ![c] = Append(@, type)]
            /\ \/ readyState' = readyState
               \/ readyState' = [readyState EXCEPT ![c] = 1]
               \/ type = "close" /\ readyState' = [readyState EXCEPT ![c] = 3]
  BY DEF Dispatch, Told, SetReady, goVars, owner, peer
<1> HIDE DEF c, type
<1>5. /\ readyState' \in [Sockets -> 0..NoObject]
      /\ \A d \in Sockets : \/ readyState'[d] = readyState[d]
                            \/ d = c /\ readyState'[d] = 1
                            \/ d = c /\ type = "close" /\ readyState'[d] = 3
  <2>1. {1, 3} \subseteq 0..NoObject /\ readyState \in [Sockets -> 0..NoObject]
    BY <1>1 DEF Values, NoObject
  <2>2. \/ readyState' = readyState
        \/ readyState' = [readyState EXCEPT ![c] = 1]
        \/ type = "close" /\ readyState' = [readyState EXCEPT ![c] = 3]
    BY <1>4
  <2> QED BY <1>3, <2>1, <2>2
<1>6. /\ seen' \in [Sockets -> Seq(Types)]
      /\ \A d \in Sockets : \A i \in DOMAIN seen'[d] :
           \/ i \in DOMAIN seen[d] /\ seen'[d][i] = seen[d][i]
           \/ d = c /\ seen'[d][i] = type
  <2>1. CASE seen' = seen
    BY <1>1, <2>1 DEF Values
  <2>2. CASE seen' = [seen EXCEPT ![c] = Append(@, type)]
    <3>1. seen[c] \in Seq(Types)
      BY <1>1, <1>3 DEF Values
    <3>2. /\ Append(seen[c], type) \in Seq(Types)
          /\ \A i \in DOMAIN Append(seen[c], type) :
               \/ i \in DOMAIN seen[c] /\ Append(seen[c], type)[i] = seen[c][i]
               \/ Append(seen[c], type)[i] = type
      BY <1>3, <3>1
    <3> QED BY <1>1, <1>3, <2>2, <3>2 DEF Values
  <2> QED BY <1>4, <2>1, <2>2
<1>7. Values'
  BY <1>1, <1>2, <1>4, <1>5, <1>6 DEF Values
<1>8. ASSUME NEW d \in Sockets PROVE Life(d)'
  BY <1>1, <1>3, <1>4, <1>5 DEF Life, Means, IsClosing, Ended, At, closed, NoObject
<1>9. ASSUME NEW u \in Threads PROVE AtWork(u)'
  BY <1>1, <1>4 DEF AtWork, IsClosing, closed
<1>10. Events'
  <2>1. ASSUME NEW i \in DOMAIN jobs' PROVE Means(jobs[i + 1][1], jobs[i + 1][2])
    BY <1>1, <1>2, <1>4 DEF Events
  <2>2. ASSUME NEW d \in Sockets, NEW i \in DOMAIN seen'[d]
        PROVE  /\ state[d] # "none"
               /\ seen'[d][i] = "close" => fin[d] = "done"
               /\ seen'[d][i] = "error" => d \in broken
    BY <1>1, <1>3, <1>6 DEF Events, Means
  <2> QED BY <1>2, <1>4, <2>1, <2>2 DEF Events, Means
<1>11. SlotStep
  BY <1>4, SlotsKept
<1> QED BY <1>7, <1>8, <1>9, <1>10, <1>11 DEF Kept, Shape

-------------------------------------------------------------------------------
\* The body of finish.
LEMMA BodyStep ==
    ASSUME WebSocketInv, NEW c \in Sockets,
           UNCHANGED <<thread, phase, closer, readyState, seen, broken, received>>,
           \A d \in Sockets \ {c} :
             /\ state'[d] = state[d] /\ link'[d] = link[d] /\ code'[d] = code[d]
             /\ fin'[d] = fin[d] /\ (d \in connections' <=> d \in connections),
           state' \in [Sockets -> States], link' \in [Sockets -> Links],
           code' \in [Sockets -> Codes], fin' \in [Sockets -> Body],
           connections' \subseteq Sockets,
           state'[c] # "none", fin[c] # "done",
           IsClosing(c) => IsClosing(c)', Life(c)', SlotStep,
           \/ UNCHANGED queue
           \/ ScheduleEvent(c, "close") /\ fin'[c] = "done"
    PROVE  Kept
<1>1. Values /\ (\A u \in Threads : AtWork(u))
  BY InvFacts
<1>2. Forward
  BY DEF Forward
<1>3. jobs' \in Seq(Sockets \X Types) /\ lost' \subseteq Noted /\ Events'
  <2>1. CASE UNCHANGED queue
    BY <1>1, <1>2, <2>1, EventsKept DEF queue, Values
  <2>2. CASE ScheduleEvent(c, "close") /\ fin'[c] = "done"
    <3>1. "close" \in Types /\ "close" # "error"
      BY DEF Types
    <3> QED BY <1>1, <1>2, <2>2, <3>1, Scheduled, EventsKept
  <2> QED BY <2>1, <2>2
<1>4. Values'
  BY <1>1, <1>3 DEF Values
<1>5. OnlyAt(c)
  BY DEF OnlyAt
<1>6. ASSUME NEW u \in Threads, u[1] = c PROVE AtWork(u)'
  BY <1>1, <1>6 DEF AtWork, IsClosing, closed
<1> QED BY <1>3, <1>4, <1>5, <1>6, ShapeOfOthers DEF Kept

LEMMA BeginStep ==
    ASSUME WebSocketInv, NEW c \in Sockets, NEW k \in Codes, BeginBody(c, k),
           UNCHANGED <<slots, connections, link, thread, owner, queue, readyState, seen, peer>>,
           state[c] # "none", c \in broken \/ closed \/ k = Normal
    PROVE  Kept
<1>1. Values /\ Life(c)
  BY InvFacts
<1>2. /\ state' = [state EXCEPT ![c] = "closed"] /\ code' = [code EXCEPT ![c] = k]
      /\ fin[c] = "none" /\ fin' = [fin EXCEPT ![c] = "hangup"]
      /\ UNCHANGED <<slots, connections, link, thread, phase, closer, readyState, seen, broken,
                     received>>
  BY DEF BeginBody, FinBody, owner, peer
<1>3. "closed" \in States /\ "hangup" \in Body
  BY DEF States, Body
<1>4. Life(c)'
  BY <1>1, <1>2 DEF Life, Values, IsClosing, Ended, At, closed
<1>5. SlotStep
  BY <1>1, <1>2, SlotsKept DEF Values
<1> QED BY <1>1, <1>2, <1>3, <1>4, <1>5, BodyStep DEF Values, IsClosing

LEMMA FinishKeeps ==
    ASSUME WebSocketInv, NEW c \in Sockets, FinishStep(c)
    PROVE  Kept
<1>1. Values /\ Life(c) /\ state[c] = "closed"
  BY InvFacts DEF FinishStep, FinHangup, FinRemove, FinRelease, FinReport, FinBody, Life
<1>2. /\ UNCHANGED <<state, code, thread, phase, closer, readyState, seen, broken, received>>
      /\ fin[c] # "done"
  BY DEF FinishStep, FinHangup, FinRemove, FinRelease, FinReport, FinBody, owner, peer
<1>3. CASE FinHangup(c)
  <2>1. /\ link' \in [Sockets -> Links] /\ fin' \in [Sockets -> Body]
        /\ \A d \in Sockets \ {c} : link'[d] = link[d] /\ fin'[d] = fin[d]
        /\ fin[c] = "hangup" /\ fin'[c] = "remove" /\ UNCHANGED <<slots, connections, queue>>
        /\ link'[c] = IF link[c] = "up" THEN "down" ELSE link[c]
    BY <1>1, <1>3 DEF FinHangup, FinBody, Down, Values, Links, Body
  <2>2. Life(c)' /\ SlotStep
    BY <1>1, <1>2, <2>1, SlotsKept DEF Life, IsClosing, Ended, At, closed
  <2> QED BY <1>1, <1>2, <2>1, <2>2, BodyStep DEF Values, IsClosing
<1>4. CASE FinRemove(c)
  <2>1. /\ fin' \in [Sockets -> Body] /\ (\A d \in Sockets \ {c} : fin'[d] = fin[d])
        /\ fin[c] = "remove" /\ fin'[c] = "release" /\ UNCHANGED <<slots, link, queue>>
        /\ connections' = connections \ {c}
    BY <1>1, <1>4 DEF FinRemove, FinBody, Values, Body
  <2>2. Life(c)' /\ SlotStep
    BY <1>1, <1>2, <2>1, SlotsKept DEF Life, IsClosing, Ended, At, closed
  <2> QED BY <1>1, <1>2, <2>1, <2>2, BodyStep DEF Values, IsClosing
<1>5. CASE FinRelease(c)
  <2>1. /\ fin' \in [Sockets -> Body] /\ (\A d \in Sockets \ {c} : fin'[d] = fin[d])
        /\ fin[c] = "release" /\ fin'[c] = "report" /\ UNCHANGED <<connections, link, queue>>
        /\ slots' = slots - 1
    BY <1>1, <1>5 DEF FinRelease, FinBody, Values, Body
  <2>2. Life(c)'
    BY <1>1, <1>2, <2>1 DEF Life, IsClosing, Ended, At, closed
  <2>3. Gives(c)
    BY <1>1, <1>2, <2>1 DEF Gives, Holding, Opening, Released
  <2> QED BY <1>1, <1>2, <2>1, <2>2, <2>3, BodyStep DEF Values, IsClosing, SlotStep
<1>6. CASE FinReport(c)
  <2>1. /\ fin' \in [Sockets -> Body] /\ (\A d \in Sockets \ {c} : fin'[d] = fin[d])
        /\ fin[c] = "report" /\ fin'[c] = "done" /\ UNCHANGED <<slots, connections, link>>
        /\ ScheduleEvent(c, "close")
    BY <1>1, <1>6 DEF FinReport, FinBody, Values, Body
  <2>2. Life(c)' /\ SlotStep
    BY <1>1, <1>2, <2>1, SlotsKept DEF Life, IsClosing, Ended, At, closed
  <2> QED BY <1>1, <1>2, <2>1, <2>2, BodyStep DEF Values, IsClosing
<1> QED BY <1>3, <1>4, <1>5, <1>6 DEF FinishStep

-------------------------------------------------------------------------------
\* The theorems.

LEMMA InitWebSocket == Init => WebSocketInv
<1> SUFFICES ASSUME Init PROVE WebSocketInv
    OBVIOUS
<1>1. TypeOK
  <2>1. <<>> \in Seq(Sockets \X Types) /\ <<>> \in Seq(Types)
    OBVIOUS
  <2> QED BY <2>1, WebSocketAssumption
          DEF Init, TypeOK, States, Codes, Links, Body, Points, Closer, NoObject
<1>2. Shape
  <2>1. \A t \in Threads : thread[t].pc = "idle"
    BY DEF Init
  <2>2. \A c \in Sockets : thread[Connect(c)].pc = "idle"
    BY <2>1, ThreadFacts
  <2>3. ASSUME NEW c \in Sockets PROVE Life(c)
    BY <2>2 DEF Init, Life, IsClosing, Ended, At, closed, NoObject
  <2>4. ASSUME NEW t \in Threads PROVE AtWork(t)
    BY <2>1 DEF AtWork
  <2> QED BY <2>3, <2>4 DEF Shape
<1>3. Events
  BY DEF Init, Events
<1>4. slots = Cardinality(Holding)
  <2>1. Holding = {}
    BY DEF Init, Holding, Opening
  <2> QED BY <2>1, FS_EmptySet DEF Init
<1> QED BY <1>1, <1>2, <1>3, <1>4 DEF WebSocketInv

LEMMA NextKeeps ==
    ASSUME WebSocketInv, [Next]_vars
    PROVE  WebSocketInv' /\ SlotStep
<1>1. CASE Next
  <2>0. ASSUME NEW d \in Sockets, NEW m \in Codes, BeginBody(d, m), state[d] # "none",
               d \in broken \/ closed \/ m = Normal,
               UNCHANGED <<slots, connections, link, thread, owner, queue, readyState, seen, peer>>
        PROVE  Kept
    BY <2>0, BeginStep
  <2>1. ASSUME NEW c \in Sockets, Class(c) \/ OwnerStep(c)
        PROVE  Kept
    <3>1. CASE BeginOwnersFinish(c)
      <4>1. state[c] # "none" /\ ClosersCode \in Codes /\ (closed \/ ClosersCode = Normal)
        BY <3>1, InvFacts DEF BeginOwnersFinish, Life, ClosersCode, Codes
      <4>2. /\ BeginBody(c, ClosersCode)
            /\ UNCHANGED <<slots, connections, link, thread, owner, queue, readyState, seen, peer>>
        BY <3>1 DEF BeginOwnersFinish
      <4> QED BY <4>1, <4>2, <2>0
    <3> QED BY <2>1, <3>1, OpenStep, CloseStep DEF Class, OwnerStep
  <2>2. ASSUME NEW c \in Sockets, FinishStep(c) \/ ConnectStep(c) \/ Arrives(c)
        PROVE  Kept
    BY <2>2, FinishKeeps, ReadingSteps, DialStep, AttachStep DEF ConnectStep
  <2>3. ASSUME NEW t \in Threads, Send(t) \/ ThreadStep(t)
        PROVE  Kept
    <3>1. CASE BeginFinish(t)
      <4> DEFINE c == t[1]
                 k == thread[t].code
      <4>1. /\ c \in Sockets /\ state[c] # "none" /\ k \in Codes
            /\ c \in broken \/ closed \/ k = Normal
        BY <3>1, InvFacts, ThreadFacts DEF BeginFinish, AtWork, Values
      <4>2. /\ BeginBody(c, k)
            /\ UNCHANGED <<slots, connections, link, thread, owner, queue, readyState, seen, peer>>
        BY <3>1 DEF BeginFinish
      <4> HIDE DEF c, k
      <4> QED BY <4>1, <4>2, <2>0
    <3> QED BY <2>3, <3>1, ThreadStepKeeps DEF ThreadStep
  <2>4. Kept
    BY <1>1, <2>1, <2>2, <2>3, DispatchStep, CloseAllStep DEF Next
  <2> QED BY <2>4, SlotsFollow DEF Kept, WebSocketInv, TypeOK, Values
<1>2. CASE UNCHANGED vars
  <2>1. UNCHANGED <<slots, connections, state, code, link, fin, thread, phase, closer, jobs, lost,
                    readyState, seen, broken, received>>
    BY <1>2 DEF vars, goVars, owner, queue, peer
  <2>2. SlotStep
    BY <2>1, SlotsKept
  <2>3. TypeOK' /\ Events'
    BY <2>1 DEF WebSocketInv, TypeOK, Events, Means
  <2>4. Shape'
    BY <2>1 DEF WebSocketInv, Shape, Life, AtWork, IsClosing, Ended, At, closed
  <2>5. slots' = Cardinality(Holding')
    BY <2>2, SlotsFollow
  <2> QED BY <2>2, <2>3, <2>4, <2>5 DEF WebSocketInv
<1> QED BY <1>1, <1>2

\* The inductive invariant holds.
THEOREM WebSocketInvHolds == Spec => []WebSocketInv
<1>1. WebSocketInv /\ [Next]_vars => WebSocketInv'
  BY NextKeeps
<1> QED BY <1>1, InitWebSocket, PTL DEF Spec

\* Types are kept; the channel of slots never holds more than its capacity.
THEOREM WebSocketTypes == Spec => []TypeOK
<1>1. WebSocketInv => TypeOK
  BY DEF WebSocketInv
<1> QED BY <1>1, WebSocketInvHolds, PTL

\* Each connection that is not finished has one slot, however many goroutines and
\* calls of close end it at once, and an object that knows of its close has none.
THEOREM SlotsAlwaysAccounted == Spec => []SlotsAccounted
<1>1. WebSocketInv => SlotsAccounted
  BY DEF WebSocketInv, SlotsAccounted, Shape, Life, Holding, Released
<1> QED BY <1>1, WebSocketInvHolds, PTL

\* No Conn is left behind, and what closeAll leaves is being finished elsewhere.
THEOREM NoConnIsLeft == Spec => []NoConnLeft
<1>1. WebSocketInv => NoConnLeft
  <2> SUFFICES ASSUME WebSocketInv PROVE NoConnLeft
    OBVIOUS
  <2>1. \A c \in Sockets : Life(c) /\ (closer[c] = "none" <=> c \notin InClose)
    BY InvFacts DEF InClose
  <2> QED BY <2>1 DEF NoConnLeft, Life, InClose
<1> QED BY <1>1, WebSocketInvHolds, PTL

\* What only this side ended is never reported as a failure.
THEOREM NoFailureIsSpurious == Spec => []NoSpuriousFailure
<1>1. WebSocketInv => NoSpuriousFailure
  <2> SUFFICES ASSUME WebSocketInv, NEW c \in Sockets \ broken
               PROVE  /\ (fin[c] # "none" /\ ~closed) => code[c] = Normal
                      /\ \A i \in 1..Len(jobs) : jobs[i] # <<c, "error">>
                      /\ \A i \in 1..Len(seen[c]) : seen[c][i] # "error"
    BY DEF NoSpuriousFailure
  <2>1. Life(c) /\ Events /\ Values
    BY InvFacts
  <2>2. (fin[c] # "none" /\ ~closed) => code[c] = Normal
    BY <2>1 DEF Life, IsClosing
  <2>3. ASSUME NEW i \in 1..Len(jobs), jobs[i] = <<c, "error">> PROVE FALSE
    <3>1. i \in DOMAIN jobs
      BY <2>1 DEF Values
    <3>2. Means(c, "error")
      BY <2>1, <2>3, <3>1 DEF Events
    <3> QED BY <3>2 DEF Means
  <2>4. ASSUME NEW i \in 1..Len(seen[c]), seen[c][i] = "error" PROVE FALSE
    <3>1. i \in DOMAIN seen[c]
      BY <2>1 DEF Values
    <3> QED BY <2>1, <2>4, <3>1 DEF Events, Means
  <2> QED BY <2>2, <2>3, <2>4
<1> QED BY <1>1, WebSocketInvHolds, PTL

\* The connections of one runtime take slots from the pool that limits promises: none
\* twice, none above the limit, and each gives its own back once.
THEOREM ImplementsSlotPool == Spec => Pool!Spec
<1>1. Init => Pool!Init
  BY DEF Init, Pool!Init, Holding, Opening, Released
<1>2. WebSocketInv /\ [Next]_vars => [Pool!Next]_(Pool!poolVars)
  <2> SUFFICES ASSUME WebSocketInv, [Next]_vars
               PROVE  [Pool!Next]_(Pool!poolVars)
    OBVIOUS
  <2>1. SlotStep
    BY NextKeeps
  <2>2. CASE Keeps
    BY <2>2 DEF Keeps, Pool!poolVars
  <2>3. ASSUME NEW c \in Sockets, Takes(c) PROVE Pool!Next
    <3>1. Cardinality(Holding) < MaxWebSocketConcurrent
      BY <2>3 DEF WebSocketInv, Takes, HasSlot
    <3>2. Pool!Cardinality(Holding) = Cardinality(Holding)
      BY DEF Pool!Cardinality, Cardinality
    <3> QED BY <2>3, <3>1, <3>2 DEF Takes, Pool!Next, Pool!Acquire
  <2>4. ASSUME NEW c \in Sockets, Gives(c) PROVE Pool!Next
    BY <2>4 DEF Gives, Pool!Next, Pool!Release
  <2> QED BY <2>1, <2>2, <2>3, <2>4 DEF SlotStep
<1> QED BY <1>1, <1>2, WebSocketInvHolds, PTL DEF Spec, Pool!Spec

-------------------------------------------------------------------------------
\* The order of events.  The goroutine of a connection queues messages only after it
\* has queued open, unless the context refused that or the runtime was closed.
OpenIsTold(c) == \/ <<c, "open">> \in lost \/ readyState[c] = 3
                 \/ \E j \in DOMAIN seen[c] : seen[c][j] = "open"

Order ==
    /\ \A c \in Sockets, i \in DOMAIN jobs :
         jobs[i] = <<c, "message">> =>
           OpenIsTold(c) \/ \E j \in DOMAIN jobs : j < i /\ jobs[j] = <<c, "open">>
    /\ \A c \in Sockets : thread[Connect(c)].pc = "read" /\ ~closed =>
           OpenIsTold(c) \/ \E j \in DOMAIN jobs : jobs[j] = <<c, "open">>
    /\ \A c \in Sockets : \A i \in DOMAIN seen[c] :
         /\ seen[c][i] = "close" => readyState[c] = 3 /\ i = Len(seen[c])
         /\ seen[c][i] = "message" /\ <<c, "open">> \notin lost =>
              \E j \in DOMAIN seen[c] : j < i /\ seen[c][j] = "open"

\* All but dispatch.
Queues ==
    /\ seen' = seen /\ (closed => closed')
    /\ \A c \in Sockets : readyState[c] = 3 => readyState'[c] = 3
    /\ \/ /\ UNCHANGED queue
          /\ \A c \in Sockets : thread'[Connect(c)].pc = "read" => thread[Connect(c)].pc = "read"
       \/ \E c \in Sockets, type \in Types :
            /\ ScheduleEvent(c, type) /\ (type = "message" => thread[Connect(c)].pc = "read")
            /\ \A d \in Sockets : thread'[Connect(d)].pc = "read" =>
                 thread[Connect(d)].pc = "read" \/ (d = c /\ type = "open")

LEMMA QueuesKeepOrder ==
    ASSUME Values, Order, Queues
    PROVE  Order'
<1>1. /\ jobs \in Seq(Sockets \X Types) /\ seen' = seen
      /\ lost \subseteq lost'
  <2>1. CASE UNCHANGED queue
    BY <2>1 DEF Queues, Values, queue
  <2>2. ASSUME NEW c \in Sockets, NEW type \in Types, ScheduleEvent(c, type)
        PROVE  lost \subseteq lost'
    BY <2>2 DEF ScheduleEvent, queue
  <2> QED BY <2>1, <2>2 DEF Queues, Values
<1>2. \A c \in Sockets : OpenIsTold(c) => OpenIsTold(c)'
  BY <1>1 DEF OpenIsTold, Queues
<1>3. \A c \in Sockets : \A i \in DOMAIN seen'[c] :
        /\ seen'[c][i] = "close" => readyState'[c] = 3 /\ i = Len(seen'[c])
        /\ seen'[c][i] = "message" /\ <<c, "open">> \notin lost' =>
             \E j \in DOMAIN seen'[c] : j < i /\ seen'[c][j] = "open"
  <2> SUFFICES ASSUME NEW c \in Sockets, NEW i \in DOMAIN seen[c]
               PROVE  /\ seen[c][i] = "close" => readyState'[c] = 3 /\ i = Len(seen[c])
                      /\ seen[c][i] = "message" /\ <<c, "open">> \notin lost' =>
                           \E j \in DOMAIN seen[c] : j < i /\ seen[c][j] = "open"
    BY <1>1
  <2>1. /\ seen[c][i] = "close" => readyState[c] = 3 /\ i = Len(seen[c])
        /\ seen[c][i] = "message" /\ <<c, "open">> \notin lost =>
             \E j \in DOMAIN seen[c] : j < i /\ seen[c][j] = "open"
    BY DEF Order
  <2>2. readyState[c] = 3 => readyState'[c] = 3
    BY DEF Queues
  <2> QED BY <1>1, <2>1, <2>2
<1>4. CASE /\ UNCHANGED queue
           /\ \A c \in Sockets : thread'[Connect(c)].pc = "read" => thread[Connect(c)].pc = "read"
  <2>1. jobs' = jobs /\ (closed => closed')
    BY <1>4 DEF queue, Queues
  <2>2. \A c \in Sockets, i \in DOMAIN jobs' :
          jobs'[i] = <<c, "message">> =>
            OpenIsTold(c)' \/ \E j \in DOMAIN jobs' : j < i /\ jobs'[j] = <<c, "open">>
    BY <1>2, <2>1 DEF Order
  <2>3. \A c \in Sockets : thread'[Connect(c)].pc = "read" /\ ~closed' =>
          OpenIsTold(c)' \/ \E j \in DOMAIN jobs' : jobs'[j] = <<c, "open">>
    BY <1>2, <1>4, <2>1 DEF Order
  <2> QED BY <1>3, <2>2, <2>3 DEF Order
<1>5. ASSUME NEW c \in Sockets, NEW type \in Types, ScheduleEvent(c, type),
             type = "message" => thread[Connect(c)].pc = "read",
             \A d \in Sockets : thread'[Connect(d)].pc = "read" =>
                 thread[Connect(d)].pc = "read" \/ (d = c /\ type = "open")
      PROVE  Order'
  <2> DEFINE event == <<c, type>>
  <2>1. event \in Sockets \X Types /\ event = <<c, type>>
    OBVIOUS
  <2> HIDE DEF event
  <2>2. /\ closed => closed'
        /\ \/ closed /\ jobs' = jobs
           \/ ~closed /\ jobs' = Append(jobs, event)
           \/ ~closed /\ jobs' = jobs /\ lost' = lost \cup ({<<c, type>>} \cap Noted)
    BY <1>5, <2>1 DEF ScheduleEvent, queue, Queues
  <2>3. /\ \A i \in DOMAIN jobs : i \in DOMAIN jobs' /\ jobs'[i] = jobs[i]
        /\ \A i \in DOMAIN jobs' :
             i \in DOMAIN jobs \/ (~closed /\ i = Len(jobs) + 1 /\ jobs'[i] = event)
        /\ \A i \in DOMAIN jobs : i < Len(jobs) + 1
    <3>1. CASE jobs' = jobs
      BY <1>1, <3>1
    <3>2. CASE ~closed /\ jobs' = Append(jobs, event)
      BY <1>1, <2>1, <3>2
    <3> QED BY <2>2, <3>1, <3>2
  <2>4. ASSUME NEW d \in Sockets, NEW i \in DOMAIN jobs', jobs'[i] = <<d, "message">>
        PROVE  OpenIsTold(d)' \/ \E j \in DOMAIN jobs' : j < i /\ jobs'[j] = <<d, "open">>
    <3>1. CASE i \in DOMAIN jobs
      BY <1>2, <2>3, <2>4, <3>1 DEF Order
    <3>2. CASE i \notin DOMAIN jobs
      <4>1. ~closed /\ i = Len(jobs) + 1 /\ d = c /\ type = "message"
        BY <2>1, <2>3, <2>4, <3>2
      <4>2. OpenIsTold(c) \/ \E j \in DOMAIN jobs : jobs[j] = <<c, "open">>
        BY <1>5, <4>1 DEF Order
      <4> QED BY <1>2, <2>3, <4>1, <4>2
    <3> QED BY <3>1, <3>2
  <2>5. ASSUME NEW d \in Sockets, thread'[Connect(d)].pc = "read", ~closed'
        PROVE  OpenIsTold(d)' \/ \E j \in DOMAIN jobs' : jobs'[j] = <<d, "open">>
    <3>1. CASE thread[Connect(d)].pc = "read"
      BY <1>2, <2>2, <2>3, <2>5, <3>1 DEF Order
    <3>2. CASE d = c /\ type = "open"
      <4>1. CASE jobs' = Append(jobs, event)
        <5>1. Len(jobs) + 1 \in DOMAIN jobs' /\ jobs'[Len(jobs) + 1] = event
          BY <1>1, <2>1, <4>1
        <5> QED BY <2>1, <3>2, <5>1
      <4>2. CASE lost' = lost \cup ({<<c, type>>} \cap Noted)
        BY <3>2, <4>2 DEF Noted, OpenIsTold
      <4> QED BY <2>2, <2>5, <4>1, <4>2
    <3> QED BY <1>5, <2>5, <3>1, <3>2
  <2> QED BY <1>3, <2>4, <2>5 DEF Order
<1> QED BY <1>4, <1>5 DEF Queues

LEMMA DispatchKeepsOrder ==
    ASSUME WebSocketInv, Order, Dispatch
    PROVE  Order'
<1>0. PICK c \in Sockets, type \in Types : c = Head(jobs)[1] /\ type = Head(jobs)[2]
  <2>1. jobs \in Seq(Sockets \X Types) /\ jobs # <<>>
    BY DEF Dispatch, WebSocketInv, TypeOK
  <2>2. Head(jobs) \in Sockets \X Types
    BY <2>1
  <2> QED BY <2>2
<1>1. /\ jobs \in Seq(Sockets \X Types) /\ jobs # <<>> /\ jobs[1] = <<c, type>>
      /\ c \in Sockets /\ type \in Types /\ 1 \in DOMAIN jobs
      /\ \A i \in DOMAIN Tail(jobs) : i + 1 \in DOMAIN jobs /\ Tail(jobs)[i] = jobs[i + 1]
      /\ \A i \in DOMAIN jobs : i # 1 => i - 1 \in DOMAIN Tail(jobs) /\ Tail(jobs)[i - 1] = jobs[i]
      /\ \A i \in DOMAIN jobs : i \in Nat /\ i >= 1
      /\ \A i \in DOMAIN Tail(jobs) : i \in Nat /\ i >= 1
  <2>1. jobs \in Seq(Sockets \X Types) /\ jobs # <<>>
    BY DEF Dispatch, WebSocketInv, TypeOK
  <2>2. Head(jobs) = jobs[1] /\ Head(jobs) \in Sockets \X Types
    BY <2>1
  <2> QED BY <1>0, <2>1, <2>2
<1>2. /\ UNCHANGED <<thread, phase, lost>> /\ jobs' = Tail(jobs)
      /\ \/ readyState[c] = 3 /\ UNCHANGED <<readyState, seen>>
         \/ /\ readyState[c] # 3 /\ seen' = [seen EXCEPT ![c] = Append(@, type)]
            /\ \/ type = "close" /\ readyState' = [readyState EXCEPT ![c] = 3]
               \/ type # "close" /\ readyState' = [readyState EXCEPT ![c] = 1]
               \/ type # "close" /\ readyState' = readyState
  BY <1>0 DEF Dispatch, DispatchKnown, Told, SetReady, goVars, owner
<1>3. /\ readyState \in [Sockets -> 0..NoObject] /\ seen \in [Sockets -> Seq(Types)]
      /\ seen[c] \in Seq(Types)
  BY <1>1 DEF WebSocketInv, TypeOK
\* What the object of c is told comes after what it was told before.
<1>4. /\ \A d \in Sockets : /\ readyState[d] = 3 => readyState'[d] = 3 /\ seen'[d] = seen[d]
                            /\ d # c => seen'[d] = seen[d]
      /\ \A d \in Sockets : \A i \in DOMAIN seen[d] :
           i \in DOMAIN seen'[d] /\ seen'[d][i] = seen[d][i]
      /\ \/ readyState[c] = 3
         \/ /\ readyState[c] # 3 /\ (type = "close" => readyState'[c] = 3)
            /\ seen'[c] \in Seq(Types) /\ Len(seen'[c]) \in DOMAIN seen'[c]
            /\ seen'[c][Len(seen'[c])] = type
            /\ \A i \in DOMAIN seen'[c] : i \in DOMAIN seen[c] \/ i = Len(seen'[c])
            /\ \A i \in DOMAIN seen[c] : i < Len(seen'[c])
  <2>1. CASE readyState[c] = 3 /\ UNCHANGED <<readyState, seen>>
    BY <1>3, <2>1
  <2>2. CASE /\ readyState[c] # 3 /\ seen' = [seen EXCEPT ![c] = Append(@, type)]
             /\ \/ type = "close" /\ readyState' = [readyState EXCEPT ![c] = 3]
                \/ type # "close" /\ readyState' = [readyState EXCEPT ![c] = 1]
                \/ type # "close" /\ readyState' = readyState
    <3>1. /\ seen'[c] = Append(seen[c], type)
          /\ \A d \in Sockets \ {c} : seen'[d] = seen[d] /\ readyState'[d] = readyState[d]
          /\ type = "close" => readyState'[c] = 3
      BY <1>1, <1>3, <2>2
    <3>2. /\ seen'[c] \in Seq(Types) /\ Len(seen'[c]) \in DOMAIN seen'[c]
          /\ seen'[c][Len(seen'[c])] = type
          /\ \A i \in DOMAIN seen'[c] : i \in DOMAIN seen[c] \/ i = Len(seen'[c])
          /\ \A i \in DOMAIN seen[c] : i < Len(seen'[c]) /\ i \in DOMAIN seen'[c]
                                       /\ seen'[c][i] = seen[c][i]
      BY <1>1, <1>3, <3>1
    <3> QED BY <2>2, <3>1, <3>2
  <2> QED BY <1>2, <2>1, <2>2
\* Open is told when it is dispatched.
<1>5. \A d \in Sockets : OpenIsTold(d) => OpenIsTold(d)'
  BY <1>2, <1>4 DEF OpenIsTold
<1>6. type = "open" => OpenIsTold(c)'
  <2>1. CASE readyState[c] = 3
    BY <1>1, <1>4, <2>1 DEF OpenIsTold
  <2>2. CASE readyState[c] # 3 /\ type = "open"
    <3>1. Len(seen'[c]) \in DOMAIN seen'[c] /\ seen'[c][Len(seen'[c])] = "open"
      BY <1>4, <2>2
    <3> QED BY <3>1 DEF OpenIsTold
  <2> QED BY <2>1, <2>2
<1>7. ASSUME NEW d \in Sockets, NEW j \in DOMAIN jobs, jobs[j] = <<d, "open">>
      PROVE  OpenIsTold(d)' \/ (j # 1 /\ j - 1 \in DOMAIN jobs' /\ jobs'[j - 1] = <<d, "open">>)
  <2>1. CASE j = 1
    <3>1. <<c, type>> = <<d, "open">>
      BY <1>1, <1>7, <2>1
    <3>2. d = c /\ type = "open"
      BY <3>1
    <3> QED BY <1>6, <3>2
  <2>2. CASE j # 1
    BY <1>1, <1>2, <1>7, <2>2
  <2> QED BY <2>1, <2>2
<1>8. ASSUME NEW d \in Sockets, NEW i \in DOMAIN jobs', jobs'[i] = <<d, "message">>
      PROVE  OpenIsTold(d)' \/ \E j \in DOMAIN jobs' : j < i /\ jobs'[j] = <<d, "open">>
  <2>1. i + 1 \in DOMAIN jobs /\ jobs[i + 1] = <<d, "message">>
    BY <1>1, <1>2, <1>8
  <2>2. CASE OpenIsTold(d)
    BY <1>5, <2>2
  <2>3. CASE ~OpenIsTold(d)
    <3>1. PICK j \in DOMAIN jobs : j < i + 1 /\ jobs[j] = <<d, "open">>
      BY <2>1, <2>3 DEF Order
    <3>2. j - 1 < i
      BY <1>1, <1>2, <3>1
    <3> QED BY <1>7, <3>1, <3>2
  <2> QED BY <2>2, <2>3
<1>9. ASSUME NEW d \in Sockets, thread'[Connect(d)].pc = "read", ~closed'
      PROVE  OpenIsTold(d)' \/ \E j \in DOMAIN jobs' : jobs'[j] = <<d, "open">>
  <2>1. OpenIsTold(d) \/ \E j \in DOMAIN jobs : jobs[j] = <<d, "open">>
    BY <1>2, <1>9 DEF Order, closed
  <2> QED BY <1>5, <1>7, <2>1
<1>10. ASSUME NEW d \in Sockets, NEW i \in DOMAIN seen'[d]
       PROVE  /\ seen'[d][i] = "close" => readyState'[d] = 3 /\ i = Len(seen'[d])
              /\ seen'[d][i] = "message" /\ <<d, "open">> \notin lost' =>
                   \E j \in DOMAIN seen'[d] : j < i /\ seen'[d][j] = "open"
  <2>1. CASE seen'[d] = seen[d]
    BY <1>2, <1>4, <1>10, <2>1 DEF Order
  <2>2. CASE seen'[d] # seen[d]
    <3>1. d = c /\ readyState[c] # 3
      BY <1>4, <2>2
    <3>2. CASE i \in DOMAIN seen[c]
      BY <1>2, <1>4, <3>1, <3>2 DEF Order
    <3>3. CASE i \notin DOMAIN seen[c]
      <4>1. i = Len(seen'[c]) /\ seen'[c][i] = type
        BY <1>4, <1>10, <3>1, <3>3
      <4>2. ASSUME type = "message", <<c, "open">> \notin lost'
            PROVE  \E j \in DOMAIN seen'[c] : j < i /\ seen'[c][j] = "open"
        <5>1. ~ \E j \in DOMAIN jobs : j < 1 /\ jobs[j] = <<c, "open">>
          BY <1>1
        <5>2. OpenIsTold(c)
          BY <1>1, <4>2, <5>1 DEF Order
        <5> QED BY <1>2, <1>4, <3>1, <4>1, <4>2, <5>2 DEF OpenIsTold
      <4> QED BY <1>4, <3>1, <4>1, <4>2
    <3> QED BY <3>2, <3>3
  <2> QED BY <2>1, <2>2
<1> QED BY <1>8, <1>9, <1>10 DEF Order

\* Going anywhere but to "read" starts no reader.
LEMMA GoingElsewhere ==
    ASSUME WebSocketInv, NEW t \in Threads, NEW pc \in Points, pc # "read", NEW k \in Codes,
           Goto(t, pc) \/ GoFinish(t, k)
    PROVE  \A d \in Sockets : thread'[Connect(d)].pc = "read" => thread[Connect(d)].pc = "read"
<1>1. thread \in [Threads -> [pc : Points, code : Codes]]
  BY DEF WebSocketInv, TypeOK
<1>2. \A x \in Threads : thread'[x].pc = "read" => thread[x].pc = "read"
  <2>1. CASE Goto(t, pc)
    BY <1>1, <2>1 DEF Goto
  <2>2. CASE GoFinish(t, k)
    BY <1>1, <2>2 DEF GoFinish
  <2> QED BY <2>1, <2>2
<1>3. \A d \in Sockets : Connect(d) \in Threads
  BY WebSocketAssumption DEF Connect, Threads
<1> QED BY <1>2, <1>3

LEMMA ClassQueues ==
    ASSUME WebSocketInv, NEW c \in Sockets, Class(c)
    PROVE  Queues
<1>1. readyState \in [Sockets -> 0..NoObject] /\ Connect(c) \in Threads
  BY WebSocketAssumption DEF WebSocketInv, TypeOK, Connect, Threads
<1>2. CASE Open(c)
  <2>1. Goto(Connect(c), "start") /\ 0 \in Codes /\ "start" \in Points
    BY <1>2 DEF Open, Codes, Points
  <2>2. \A d \in Sockets : thread'[Connect(d)].pc = "read" => thread[Connect(d)].pc = "read"
    BY <1>1, <2>1, GoingElsewhere
  <2> QED BY <1>1, <1>2, <2>2 DEF Open, Queues, NoObject, closed, owner
<1>3. CASE CallClose(c)
  BY <1>1, <1>3 DEF CallClose, CanClose, Queues, closed, JavaScript
<1>4. CASE CallCloseBadCode(c)
  BY <1>1, <1>4 DEF CallCloseBadCode, CanClose, Queues, closed, owner
<1> QED BY <1>2, <1>3, <1>4 DEF Class

LEMMA OwnerQueues ==
    ASSUME WebSocketInv, NEW c \in Sockets, OwnerStep(c)
    PROVE  Queues
<1>1. UNCHANGED <<thread, phase, queue, readyState, seen>>
  BY DEF OwnerStep, Lookup, Mark, Hangup, BeginOwnersFinish, OwnerFinished, owner, goVars
<1> QED BY <1>1 DEF Queues, closed

LEMMA FinishQueues ==
    ASSUME WebSocketInv, NEW c \in Sockets, FinishStep(c)
    PROVE  Queues
<1>1. UNCHANGED <<thread, phase, readyState, seen>>
  BY DEF FinishStep, FinHangup, FinRemove, FinRelease, FinReport, owner
<1>2. UNCHANGED queue \/ ScheduleEvent(c, "close")
  BY DEF FinishStep, FinHangup, FinRemove, FinRelease, FinReport
<1>3. "close" \in Types /\ "close" # "message"
  BY DEF Types
<1> QED BY <1>1, <1>2, <1>3 DEF Queues, closed

LEMMA ConnectQueues ==
    ASSUME WebSocketInv, NEW c \in Sockets, ConnectStep(c) \/ Arrives(c)
    PROVE  Queues
<1>1. Connect(c) \in Threads /\ CloseDetails(c) \in Codes
  BY WebSocketAssumption DEF WebSocketInv, TypeOK, Connect, Threads, CloseDetails, Codes
<1>2. UNCHANGED <<phase, readyState, seen>>
  BY DEF ConnectStep, Arrives, Start, Dial, Attach, Opened, HungUp, Receive, PeerCloses,
         NetworkFails, owner, goVars
<1>3. CASE Opened(c)
  <2>1. thread' = [thread EXCEPT ![Connect(c)].pc = "read"]
    BY <1>3 DEF Opened, Goto
  <2>2. \A d \in Sockets : d # c => thread'[Connect(d)] = thread[Connect(d)]
    <3> SUFFICES ASSUME NEW d \in Sockets, d # c
                 PROVE  thread'[Connect(d)] = thread[Connect(d)]
      OBVIOUS
    <3>1. Connect(d) \in Threads /\ Connect(d) # Connect(c)
      BY WebSocketAssumption DEF Connect, Threads
    <3> QED BY <2>1, <3>1 DEF WebSocketInv, TypeOK
  <2>3. "open" \in Types /\ "open" # "message"
    BY DEF Types
  <2> QED BY <1>2, <1>3, <2>2, <2>3 DEF Opened, Queues, closed
<1>4. CASE Receive(c)
  <2>1. "message" \in Types
    BY DEF Types
  <2> QED BY <1>2, <1>4, <2>1 DEF Receive, At, Queues, closed
<1>5. CASE (ConnectStep(c) /\ ~Opened(c)) \/ PeerCloses(c) \/ NetworkFails(c)
  <2>1. UNCHANGED queue
    BY <1>5 DEF ConnectStep, Start, Dial, Attach, HungUp, PeerCloses, NetworkFails
  <2>2. \/ \E pc \in {"dial", "fail", "attach", "opened", "ended"} : Goto(Connect(c), pc)
        \/ \E k \in {Abnormal, FromPeer, CloseDetails(c)} : GoFinish(Connect(c), k)
    BY <1>5 DEF ConnectStep, Start, Dial, Attach, HungUp, PeerCloses, NetworkFails
  <2>3. \A d \in Sockets : thread'[Connect(d)].pc = "read" => thread[Connect(d)].pc = "read"
    <3>1. ASSUME NEW pc \in {"dial", "fail", "attach", "opened", "ended"},
                 Goto(Connect(c), pc)
          PROVE  \A d \in Sockets :
                   thread'[Connect(d)].pc = "read" => thread[Connect(d)].pc = "read"
      <4>1. pc \in Points /\ pc # "read" /\ 0 \in Codes
        BY DEF Points, Codes
      <4> QED BY <1>1, <3>1, <4>1, GoingElsewhere
    <3>2. ASSUME NEW k \in {Abnormal, FromPeer, CloseDetails(c)}, GoFinish(Connect(c), k)
          PROVE  \A d \in Sockets :
                   thread'[Connect(d)].pc = "read" => thread[Connect(d)].pc = "read"
      <4>1. k \in Codes /\ "idle" \in Points /\ "idle" # "read"
        BY <1>1 DEF Points, Codes
      <4> QED BY <1>1, <3>2, <4>1, GoingElsewhere
    <3> QED BY <2>2, <3>1, <3>2
  <2> QED BY <1>2, <2>1, <2>3 DEF Queues, closed
<1> QED BY <1>3, <1>4, <1>5 DEF ConnectStep, Arrives

LEMMA ThreadQueues ==
    ASSUME WebSocketInv, NEW t \in Threads, Send(t) \/ ThreadStep(t)
    PROVE  Queues
<1>1. UNCHANGED <<phase, readyState, seen>>
  BY DEF Send, ThreadStep, Write, CheckFail, ReportError, BeginFinish, Finished, owner, goVars
<1>2. t[1] \in Sockets /\ CloseDetails(t[1]) \in Codes
  BY DEF WebSocketInv, TypeOK, Threads, CloseDetails, Codes
<1>3. \/ UNCHANGED thread
      \/ \E pc \in {"write", "ended", "fail", "error"} : Goto(t, pc)
      \/ \E k \in {Abnormal, CloseDetails(t[1])} : GoFinish(t, k)
  BY DEF Send, ThreadStep, Write, CheckFail, ReportError, BeginFinish, Finished
<1>4. \A d \in Sockets : thread'[Connect(d)].pc = "read" => thread[Connect(d)].pc = "read"
  <2>1. ASSUME NEW pc \in {"write", "ended", "fail", "error"}, Goto(t, pc)
        PROVE  \A d \in Sockets : thread'[Connect(d)].pc = "read" => thread[Connect(d)].pc = "read"
    <3>1. pc \in Points /\ pc # "read" /\ 0 \in Codes
      BY DEF Points, Codes
    <3> QED BY <2>1, <3>1, GoingElsewhere
  <2>2. ASSUME NEW k \in {Abnormal, CloseDetails(t[1])}, GoFinish(t, k)
        PROVE  \A d \in Sockets : thread'[Connect(d)].pc = "read" => thread[Connect(d)].pc = "read"
    <3>1. k \in Codes /\ "idle" \in Points /\ "idle" # "read"
      BY <1>2 DEF Points, Codes
    <3> QED BY <2>2, <3>1, GoingElsewhere
  <2> QED BY <1>3, <2>1, <2>2
<1>5. UNCHANGED queue \/ ScheduleEvent(t[1], "error")
  BY DEF Send, ThreadStep, Write, CheckFail, ReportError, BeginFinish, Finished
<1>6. "error" \in Types /\ "error" # "message"
  BY DEF Types
<1> QED BY <1>1, <1>2, <1>4, <1>5, <1>6 DEF Queues, closed

LEMMA NextQueues ==
    ASSUME WebSocketInv, [Next]_vars
    PROVE  Queues \/ Dispatch
<1>1. CASE CloseAll
  BY <1>1 DEF CloseAll, Queues, closed, JavaScript
<1>2. CASE Snapshot
  BY <1>2 DEF Snapshot, Queues, closed
<1>3. CASE UNCHANGED vars
  BY <1>3 DEF vars, owner, queue, Queues, closed
<1> QED BY <1>1, <1>2, <1>3, ClassQueues, OwnerQueues, FinishQueues, ConnectQueues, ThreadQueues
        DEF Next

\* The object of a connection hears of nothing after its close event, and of no
\* message before open unless the context refused open (scheduleEvent, __dispatch),
\* whatever the other goroutines of the connection do in between.
THEOREM EventsInOrder == Spec => []EventOrder
<1>1. Init => Order
  <2> SUFFICES ASSUME Init
               PROVE  Order
    OBVIOUS
  <2>1. /\ jobs = <<>> /\ \A c \in Sockets : seen[c] = <<>>
        /\ \A c \in Sockets : thread[Connect(c)].pc = "idle"
    BY WebSocketAssumption DEF Init, Connect, Threads
  <2> QED BY <2>1 DEF Order
<1>2. WebSocketInv /\ Order /\ [Next]_vars => Order'
  <2> SUFFICES ASSUME WebSocketInv, Order, [Next]_vars
               PROVE  Order'
    OBVIOUS
  <2>1. CASE Queues
    BY <2>1, QueuesKeepOrder, InvFacts
  <2>2. CASE Dispatch
    BY <2>2, DispatchKeepsOrder
  <2> QED BY <2>1, <2>2, NextQueues
<1>3. WebSocketInv /\ Order => EventOrder
  <2> SUFFICES ASSUME WebSocketInv, Order, NEW c \in Sockets, NEW i \in 1..Len(seen[c])
               PROVE  /\ seen[c][i] = "close" => i = Len(seen[c])
                      /\ (seen[c][i] = "message" /\ <<c, "open">> \notin lost) =>
                           \E j \in 1..(i - 1) : seen[c][j] = "open"
    BY DEF EventOrder
  <2>1. seen[c] \in Seq(Types) /\ i \in DOMAIN seen[c]
    BY DEF WebSocketInv, TypeOK
  <2>2. \A j \in DOMAIN seen[c] : j < i => j \in 1..(i - 1)
    BY <2>1
  <2> QED BY <2>1, <2>2 DEF Order
<1> QED BY <1>1, <1>2, <1>3, WebSocketInvHolds, PTL DEF Spec
================================================================================
