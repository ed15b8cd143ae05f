--------------------------- MODULE FetchRuntimeProofs ---------------------------
(***************************************************************************)
(* Theorems about FetchRuntime for every finite set of requests, every      *)
(* limit, and any number of Reloads: the slots are the pool that the limits *)
(* package promises.                                                        *)
(***************************************************************************)
EXTENDS FetchRuntime, FiniteSetTheorems, TLAPS

\* Where a request is: registered or taken by Close while its goroutine is at
\* work and its promise pending; giving its slot back itself; or done.
Shape ==
    \A r \in Requests :
      /\ r \in requests => req[r].gen = generation /\ r \notin closing
      /\ r \in Holding => promise[r] = "pending" /\ req[r].gen # 0
      /\ req[r].pc \in {"idle", "release"} => r \notin requests \cup closing
      /\ req[r].pc = "roundTrip" /\ ~req[r].cancelled => r \in requests \cup closing
      /\ promise[r] = "none" => req[r].gen = 0
      /\ req[r].gen = 0 => req[r].pc = "idle"

\* What Close has done in each of its phases.
PhaseOK ==
    /\ generation # 0
    /\ phase \notin {"open", "lock"} => requests = {}
    /\ phase # "release" => closing = {}
    /\ \A i \in DOMAIN jobs : req[jobs[i]].pc = "ended"

\* The inductive invariant.
FetchInv == TypeOK /\ Shape /\ PhaseOK /\ SlotsAccounted

-------------------------------------------------------------------------------
\* What a step does to the slots: nothing, one is taken, or one given back.
Keeps    == Holding' = Holding /\ Started' = Started /\ slots' = slots
Takes(r) == /\ r \in Requests \ Started /\ HasSlot /\ Acquire
            /\ Holding' = Holding \cup {r} /\ Started' = Started \cup {r}
Gives(r) == /\ r \in Holding /\ Release
            /\ Holding' = Holding \ {r} /\ Started' = Started
SlotStep == Keeps \/ \E r \in Requests : Takes(r) \/ Gives(r)

LEMMA HoldingFinite ==
    ASSUME FetchInv
    PROVE  /\ Holding \subseteq Started /\ Holding \subseteq Requests
           /\ IsFiniteSet(Holding) /\ Cardinality(Holding) \in Nat
<1>1. Holding \subseteq Requests
  BY DEF Holding, Releasing, FetchInv, TypeOK
<1>2. Holding \subseteq Started
  BY <1>1 DEF FetchInv, Shape, Started
<1>3. IsFiniteSet(Holding)
  BY <1>1, FS_Subset, FetchAssumption
<1> QED BY <1>1, <1>2, <1>3, FS_CardinalityType

\* The counter follows the set, so it stays within the channel's capacity.
LEMMA SlotsFollow ==
    ASSUME FetchInv, SlotStep
    PROVE  SlotsAccounted' /\ slots' \in 0..MaxFetchConcurrent
<1>1. /\ Holding \subseteq Started /\ IsFiniteSet(Holding) /\ Cardinality(Holding) \in Nat
      /\ MaxFetchConcurrent \in Nat /\ slots \in 0..MaxFetchConcurrent /\ slots \in Nat
      /\ Limited => slots = Cardinality(Holding)
  BY HoldingFinite, FetchAssumption DEF FetchInv, TypeOK, SlotsAccounted
<1>2. CASE Keeps
  BY <1>1, <1>2 DEF Keeps, SlotsAccounted, Limited
<1>3. ASSUME NEW r \in Requests, Takes(r)
      PROVE  SlotsAccounted' /\ slots' \in 0..MaxFetchConcurrent
  <2>1. r \notin Holding
    BY <1>1, <1>3 DEF Takes
  <2>2. Cardinality(Holding') = Cardinality(Holding) + 1
    BY <1>1, <1>3, <2>1, FS_AddElement DEF Takes
  <2> QED BY <1>1, <1>3, <2>2 DEF Takes, Acquire, HasSlot, Limited, SlotsAccounted
<1>4. ASSUME NEW r \in Requests, Gives(r)
      PROVE  SlotsAccounted' /\ slots' \in 0..MaxFetchConcurrent
  <2>1. Cardinality(Holding') = Cardinality(Holding) - 1 /\ Cardinality(Holding') \in Nat
    BY <1>1, <1>4, FS_RemoveElement, FS_CardinalityType DEF Gives
  <2> QED BY <1>1, <1>4, <2>1 DEF Gives, Release, Limited, SlotsAccounted
<1> QED BY <1>2, <1>3, <1>4 DEF SlotStep

-------------------------------------------------------------------------------
\* Each action keeps the values, the shape and the phases, and is a step of the
\* slots.

Values ==
    /\ requests \subseteq Requests /\ closing \subseteq Requests
    /\ req \in [Requests -> Request] /\ promise \in [Requests -> Promises]
    /\ jobs \in Seq(Requests)
    /\ generation \in Nat /\ phase \in Phases

Kept == Values' /\ Shape' /\ PhaseOK' /\ SlotStep

LEMMA GotoKeeps ==
    ASSUME FetchInv, NEW r \in Requests, NEW pc \in Points, Goto(r, pc)
    PROVE  /\ req' \in [Requests -> Request] /\ Started' = Started
           /\ req'[r].pc = pc /\ req'[r].gen = req[r].gen
           /\ req'[r].cancelled = req[r].cancelled
           /\ \A q \in Requests \ {r} : req'[q] = req[q]
  BY DEF Goto, FetchInv, TypeOK, Request, Started

LEMMA FetchStep ==
    ASSUME FetchInv, NEW r \in Requests, Fetch(r) \/ FetchRefused(r)
    PROVE  Kept
<1>1. CASE FetchRefused(r)
  <2>1. Keeps
    BY <1>1 DEF FetchRefused, Keeps, Holding, Releasing, Started
  <2>2. r \notin Holding
    BY <1>1 DEF FetchRefused, FetchInv, Shape
  <2>3. Values' /\ PhaseOK'
    BY <1>1 DEF FetchRefused, FetchInv, TypeOK, Values, Promises, PhaseOK
  <2>4. Shape'
    BY <1>1, <2>1, <2>2 DEF FetchRefused, FetchInv, TypeOK, Shape, Keeps, Promises
  <2> QED BY <2>1, <2>3, <2>4 DEF Kept, SlotStep
<1>2. CASE Fetch(r)
  <2>1. /\ r \notin Started /\ req[r].gen = 0 /\ req[r].pc = "idle" /\ r \notin Holding
        /\ phase = "open" /\ closing = {} /\ generation # 0 /\ generation \in Nat
    BY <1>2 DEF Fetch, Registers, FetchInv, TypeOK, Shape, PhaseOK, Started
  <2>2. /\ req' \in [Requests -> Request] /\ req'[r].pc = "roundTrip"
        /\ req'[r].gen = generation
        /\ \A q \in Requests \ {r} : req'[q] = req[q]
    BY <1>2, <2>1 DEF Fetch, FetchInv, TypeOK, Request, Points
  <2>3. Values'
    BY <1>2, <2>2 DEF Fetch, FetchInv, TypeOK, Values, Promises
  <2>4. Releasing' = Releasing /\ Started' = Started \cup {r}
    BY <2>1, <2>2 DEF Releasing, Started
  <2>5. Holding' = Holding \cup {r}
    BY <1>2, <2>4 DEF Fetch, Holding
  <2>6. Takes(r)
    BY <1>2, <2>1, <2>4, <2>5 DEF Fetch, Takes
  <2>7. Shape'
    BY <1>2, <2>1, <2>2, <2>5 DEF Fetch, FetchInv, TypeOK, Shape, Promises
  <2>8. PhaseOK'
    <3>1. \A i \in DOMAIN jobs : jobs[i] \in Requests /\ jobs[i] # r
      BY <2>1 DEF FetchInv, TypeOK, PhaseOK
    <3> QED BY <1>2, <2>1, <2>2, <3>1 DEF Fetch, FetchInv, PhaseOK
  <2> QED BY <2>3, <2>6, <2>7, <2>8 DEF Kept, SlotStep
<1> QED BY <1>1, <1>2

LEMMA AbortStep ==
    ASSUME FetchInv, NEW r \in Requests, Abort(r)
    PROVE  Kept
<1>1. /\ req' \in [Requests -> Request] /\ r \in requests /\ req'[r].cancelled = TRUE
      /\ \A q \in Requests : req'[q].pc = req[q].pc /\ req'[q].gen = req[q].gen
      /\ \A q \in Requests \ {r} : req'[q] = req[q]
  BY DEF Abort, FetchInv, TypeOK, Request
<1>2. Keeps
  BY <1>1 DEF Abort, Keeps, Holding, Releasing, Started
<1>3. Values' /\ Shape'
  BY <1>1, <1>2 DEF Abort, FetchInv, TypeOK, Values, Shape, Keeps
<1>4. PhaseOK'
  BY <1>1 DEF Abort, FetchInv, TypeOK, PhaseOK
<1> QED BY <1>2, <1>3, <1>4 DEF Kept, SlotStep

LEMMA RoundTripStep ==
    ASSUME FetchInv, NEW r \in Requests, RoundTrip(r)
    PROVE  Kept
<1>1. /\ req' \in [Requests -> Request] /\ Started' = Started
      /\ req'[r].pc = "schedule" /\ req'[r].gen = req[r].gen
      /\ req'[r].cancelled = req[r].cancelled
      /\ \A q \in Requests \ {r} : req'[q] = req[q]
  BY GotoKeeps DEF RoundTrip, Points
<1>2. Keeps
  BY <1>1 DEF RoundTrip, Keeps, Holding, Releasing
<1>3. Values' /\ Shape'
  BY <1>1, <1>2 DEF RoundTrip, FetchInv, TypeOK, Values, Shape, Keeps
<1>4. PhaseOK'
  BY <1>1 DEF RoundTrip, FetchInv, TypeOK, PhaseOK
<1> QED BY <1>2, <1>3, <1>4 DEF Kept, SlotStep

LEMMA ScheduleStep ==
    ASSUME FetchInv, NEW r \in Requests, Schedule(r)
    PROVE  Kept
<1>1. PICK pc \in {"ended", "complete"} :
        /\ Goto(r, pc)
        /\ \/ pc = "ended" /\ jobs' = Append(jobs, r)
           \/ jobs' = jobs
  BY DEF Schedule
<1>2. /\ req' \in [Requests -> Request] /\ Started' = Started
      /\ req'[r].pc = pc /\ req'[r].gen = req[r].gen
      /\ req'[r].cancelled = req[r].cancelled
      /\ \A q \in Requests \ {r} : req'[q] = req[q]
  BY <1>1, GotoKeeps DEF Points
<1>3. Keeps
  BY <1>2 DEF Schedule, Keeps, Holding, Releasing
<1>4. Values' /\ Shape'
  <2>1. jobs' \in Seq(Requests)
    BY <1>1 DEF FetchInv, TypeOK
  <2>2. Values'
    BY <1>2, <2>1 DEF Schedule, FetchInv, TypeOK, Values
  <2>3. Shape'
    BY <1>2, <1>3 DEF Schedule, FetchInv, TypeOK, Shape, Keeps
  <2> QED BY <2>2, <2>3
<1>5. PhaseOK'
  <2>1. \A i \in DOMAIN jobs : jobs[i] \in Requests /\ req[jobs[i]].pc = "ended"
                               /\ jobs[i] # r
    BY DEF Schedule, FetchInv, TypeOK, PhaseOK
  <2>2. \A i \in DOMAIN jobs' : req'[jobs'[i]].pc = "ended"
    BY <1>1, <1>2, <2>1 DEF FetchInv, TypeOK
  <2> QED BY <2>2 DEF Schedule, FetchInv, PhaseOK
<1> QED BY <1>3, <1>4, <1>5 DEF Kept, SlotStep

LEMMA CompleteStep ==
    ASSUME FetchInv, NEW r \in Requests, Complete(r)
    PROVE  Kept
<1>1. PICK pc \in {"ended", "release"} :
        Goto(r, pc) /\ (pc = "release" <=> r \in requests)
  BY DEF Complete, StillThere
<1>2. /\ req' \in [Requests -> Request] /\ Started' = Started
      /\ req'[r].pc = pc /\ req'[r].gen = req[r].gen
      /\ req'[r].cancelled = req[r].cancelled
      /\ \A q \in Requests \ {r} : req'[q] = req[q]
  BY <1>1, GotoKeeps DEF Points
<1>3. Releasing' = IF r \in requests THEN Releasing \cup {r} ELSE Releasing
  BY <1>1, <1>2 DEF Releasing, Complete
<1>4. Keeps
  BY <1>2, <1>3 DEF Complete, Keeps, Holding, FetchInv, TypeOK
<1>5. Values' /\ Shape'
  <2>1. Values'
    BY <1>2 DEF Complete, FetchInv, TypeOK, Values
  <2>2. Shape'
    BY <1>1, <1>2, <1>4 DEF Complete, FetchInv, TypeOK, Shape, Keeps
  <2> QED BY <2>1, <2>2
<1>6. PhaseOK'
  <2>1. \A i \in DOMAIN jobs : jobs[i] \in Requests /\ jobs[i] # r
    BY DEF Complete, FetchInv, TypeOK, PhaseOK
  <2> QED BY <1>2, <2>1 DEF Complete, FetchInv, PhaseOK
<1> QED BY <1>4, <1>5, <1>6 DEF Kept, SlotStep

LEMMA ReleaseSlotStep ==
    ASSUME FetchInv, NEW r \in Requests, ReleaseSlot(r)
    PROVE  Kept
<1>1. /\ req' \in [Requests -> Request] /\ Started' = Started
      /\ req'[r].pc = "ended" /\ req'[r].gen = req[r].gen
      /\ req'[r].cancelled = req[r].cancelled
      /\ \A q \in Requests \ {r} : req'[q] = req[q]
  BY GotoKeeps DEF ReleaseSlot, Points
<1>2. r \in Releasing /\ r \notin requests \cup closing /\ Releasing' = Releasing \ {r}
  BY <1>1 DEF ReleaseSlot, Releasing, FetchInv, Shape
<1>3. Gives(r)
  BY <1>1, <1>2 DEF ReleaseSlot, Gives, Holding
<1>4. Values' /\ Shape'
  BY <1>1, <1>2, <1>3 DEF ReleaseSlot, FetchInv, TypeOK, Values, Shape, Gives
<1>5. PhaseOK'
  BY <1>1 DEF ReleaseSlot, FetchInv, TypeOK, PhaseOK
<1> QED BY <1>3, <1>4, <1>5 DEF Kept, SlotStep

LEMMA RunJobStep ==
    ASSUME FetchInv, RunJob
    PROVE  Kept
<1> DEFINE r == Head(jobs)
<1>1. /\ jobs \in Seq(Requests) /\ jobs # <<>> /\ r \in Requests
      /\ Tail(jobs) \in Seq(Requests)
      /\ req[r].pc = "ended"
      /\ \A i \in DOMAIN Tail(jobs) : req[Tail(jobs)[i]].pc = "ended"
  BY DEF RunJob, FetchInv, TypeOK, PhaseOK
<1>2. /\ phase = "open" /\ closing = {} /\ Releasing' = Releasing /\ Started' = Started
      /\ r \notin Releasing
  BY <1>1 DEF RunJob, FetchInv, PhaseOK, Releasing, Started
<1>3. requests' = requests \ {r} /\ closing' = closing
  BY DEF RunJob
<1>4. SlotStep /\ Holding' = Holding \ {r}
  <2>1. Holding' = Holding \ {r}
    BY <1>2, <1>3 DEF Holding
  <2>2. CASE r \in requests
    BY <1>1, <1>2, <2>1, <2>2 DEF RunJob, SlotStep, Gives, Holding
  <2>3. CASE r \notin requests
    BY <1>2, <1>3, <2>1, <2>3 DEF RunJob, SlotStep, Keeps, Holding
  <2> QED BY <2>1, <2>2, <2>3
<1>5. Values' /\ PhaseOK'
  <2>1. promise' = [promise EXCEPT ![r] = "settled"] /\ jobs' = Tail(jobs)
    BY DEF RunJob
  <2>2. Values'
    BY <1>1, <1>3, <2>1 DEF RunJob, FetchInv, TypeOK, Values, Promises
  <2>3. PhaseOK'
    BY <1>1, <1>2, <1>3, <2>1 DEF RunJob, FetchInv, PhaseOK
  <2> QED BY <2>2, <2>3
<1>6. Shape'
  <2>1. /\ promise' = [promise EXCEPT ![r] = "settled"]
        /\ req' = req /\ generation' = generation
    BY DEF RunJob
  <2> HIDE DEF r
  <2> QED BY <1>1, <1>2, <1>3, <1>4, <2>1 DEF FetchInv, TypeOK, Shape
<1> QED BY <1>4, <1>5, <1>6 DEF Kept

LEMMA CloseSteps ==
    ASSUME FetchInv, BeginClose \/ Closing \/ Reload
    PROVE  Kept
<1>1. CASE BeginClose \/ Closed \/ DisposeContext \/ Reload
  <2>1. UNCHANGED <<slots, requests, req, promise, closing>>
    BY <1>1 DEF BeginClose, Closed, DisposeContext, Reload
  <2>2. Keeps
    BY <2>1 DEF Keeps, Holding, Releasing, Started
  <2>3. Values'
    <3>1. jobs' \in Seq(Requests)
      <4>1. jobs' = jobs \/ jobs' = <<>>
        BY <1>1 DEF BeginClose, Closed, DisposeContext, Reload
      <4>2. jobs \in Seq(Requests) /\ <<>> \in Seq(Requests)
        BY DEF FetchInv, TypeOK
      <4> QED BY <4>1, <4>2
    <3>2. generation' \in Nat /\ phase' \in Phases
      BY <1>1 DEF BeginClose, Closed, DisposeContext, Reload, FetchInv, TypeOK, Phases
    <3> QED BY <2>1, <3>1, <3>2 DEF FetchInv, TypeOK, Values
  <2>4. PhaseOK'
    <3>1. CASE DisposeContext
      BY <2>1, <3>1 DEF DisposeContext, FetchInv, PhaseOK
    <3>2. CASE BeginClose \/ Closed \/ Reload
      BY <2>1, <3>2 DEF BeginClose, Closed, Reload, FetchInv, TypeOK, PhaseOK
    <3> QED BY <1>1, <3>1, <3>2
  <2>5. Shape'
    <3>1. generation' = generation \/ requests = {}
      BY <1>1 DEF BeginClose, Closed, DisposeContext, Reload, FetchInv, PhaseOK
    <3> QED BY <2>1, <2>2, <3>1 DEF FetchInv, Shape, Keeps
  <2> QED BY <2>2, <2>3, <2>4, <2>5 DEF Kept, SlotStep
<1>2. CASE TakeAll
  <2>1. requests \subseteq Requests /\ closing = {} /\ closing' = requests /\ requests' = {}
    BY <1>2 DEF TakeAll, FetchInv, TypeOK, Shape, PhaseOK
  <2>2. Keeps
    BY <1>2, <2>1 DEF TakeAll, Keeps, Holding, Releasing, Started
  <2>3. Values' /\ PhaseOK'
    BY <1>2, <2>1 DEF TakeAll, FetchInv, TypeOK, Values, PhaseOK, Phases
  <2>4. Shape'
    BY <1>2, <2>1, <2>2 DEF TakeAll, FetchInv, Shape, Keeps
  <2> QED BY <2>2, <2>3, <2>4 DEF Kept, SlotStep
<1>3. CASE CloseRequest
  <2>1. PICK r \in closing : /\ req' = [req EXCEPT ![r].cancelled = TRUE]
                             /\ closing' = closing \ {r}
    BY <1>3 DEF CloseRequest
  <2>2. /\ r \in Requests /\ req' \in [Requests -> Request] /\ req'[r].cancelled = TRUE
        /\ \A q \in Requests : req'[q].pc = req[q].pc /\ req'[q].gen = req[q].gen
        /\ \A q \in Requests \ {r} : req'[q] = req[q]
    BY <2>1 DEF FetchInv, TypeOK, Request
  <2>3. /\ Releasing' = Releasing /\ Started' = Started
        /\ r \notin requests \cup Releasing /\ requests = {}
    BY <1>3, <2>1, <2>2 DEF CloseRequest, Releasing, Started, FetchInv, Shape, PhaseOK
  <2>4. Gives(r) /\ requests' = requests /\ Holding' = Holding \ {r}
    BY <1>3, <2>1, <2>3 DEF CloseRequest, Gives, Holding
  <2>5. Values' /\ PhaseOK'
    BY <1>3, <2>1, <2>2 DEF CloseRequest, FetchInv, TypeOK, Values, PhaseOK
  <2>6. Shape'
    BY <1>3, <2>1, <2>2, <2>3, <2>4 DEF CloseRequest, FetchInv, Shape
  <2> QED BY <2>2, <2>4, <2>5, <2>6 DEF Kept, SlotStep
<1> QED BY <1>1, <1>2, <1>3 DEF Closing

-------------------------------------------------------------------------------
\* The theorems.

LEMMA InitFetch == Init => FetchInv
<1> SUFFICES ASSUME Init PROVE FetchInv
    OBVIOUS
<1>1. TypeOK
  BY FetchAssumption DEF Init, TypeOK, Request, Points, Promises, Phases
<1>2. Holding = {}
  BY DEF Init, Holding, Releasing
<1>3. SlotsAccounted
  BY <1>2, FS_EmptySet DEF Init, SlotsAccounted
<1>4. Shape /\ PhaseOK
  BY <1>2 DEF Init, Shape, PhaseOK
<1> QED BY <1>1, <1>3, <1>4 DEF FetchInv

LEMMA NextKeeps ==
    ASSUME FetchInv, [Next]_vars
    PROVE  FetchInv' /\ SlotStep
<1>1. CASE Next
  <2>1. ASSUME NEW r \in Requests, JavaScript(r) \/ Goroutine(r) PROVE Kept
    BY <2>1, FetchStep, AbortStep, RoundTripStep, ScheduleStep, CompleteStep,
       ReleaseSlotStep DEF JavaScript, Goroutine
  <2>2. Kept
    BY <1>1, <2>1, RunJobStep, CloseSteps DEF Next
  <2> QED BY <2>2, SlotsFollow DEF Kept, FetchInv, TypeOK, Values
<1>2. CASE UNCHANGED vars
  <2>1. Keeps
    BY <1>2 DEF vars, Keeps, Holding, Releasing, Started
  <2>2. FetchInv'
    BY <1>2, <2>1 DEF vars, FetchInv, TypeOK, Shape, PhaseOK, SlotsAccounted, Limited, Keeps
  <2> QED BY <2>1, <2>2 DEF SlotStep
<1> QED BY <1>1, <1>2

\* The inductive invariant holds.
THEOREM FetchInvHolds == Spec => []FetchInv
<1>1. FetchInv /\ [Next]_vars => FetchInv'
  BY NextKeeps
<1> QED BY <1>1, InitFetch, PTL DEF Spec

\* Types are kept; the channel of slots never holds more than its capacity.
THEOREM FetchTypes == Spec => []TypeOK
<1>1. FetchInv => TypeOK
  BY DEF FetchInv
<1> QED BY <1>1, FetchInvHolds, PTL

\* Every slot taken belongs to one request, for any number of requests, any
\* limit and any number of Reloads.
THEOREM SlotsAlwaysAccounted == Spec => []SlotsAccounted
<1>1. FetchInv => SlotsAccounted
  BY DEF FetchInv
<1> QED BY <1>1, FetchInvHolds, PTL

\* The transports at work and not cancelled stay within the limit.
THEOREM TransportsAlwaysBounded == Spec => []TransportsBounded
<1>1. FetchInv => TransportsBounded
  <2> SUFFICES ASSUME FetchInv, Limited
               PROVE  Cardinality(InFlight) <= MaxFetchConcurrent
    BY DEF TransportsBounded
  <2>1. InFlight \subseteq Holding
    BY DEF InFlight, Holding, FetchInv, Shape
  <2>2. /\ Cardinality(InFlight) <= Cardinality(Holding) /\ Cardinality(InFlight) \in Nat
        /\ Cardinality(Holding) \in Nat
    BY <2>1, HoldingFinite, FS_Subset, FS_CardinalityType
  <2>3. Cardinality(Holding) <= MaxFetchConcurrent
    BY FetchAssumption DEF FetchInv, SlotsAccounted, TypeOK
  <2> QED BY <2>2, <2>3, FetchAssumption
<1> QED BY <1>1, FetchInvHolds, PTL

\* When Close has returned nothing of the runtime is left but cancelled
\* transports.
THEOREM NothingIsLeft == Spec => []NothingAfterClose
<1>1. FetchInv => NothingAfterClose
  BY DEF FetchInv, NothingAfterClose, PhaseOK, Shape, InFlight
<1> QED BY <1>1, FetchInvHolds, PTL

\* A promise settles after its request has given its slot back.
THEOREM SettledIsAlwaysFree == Spec => []SettledIsFree
<1>1. FetchInv => SettledIsFree
  BY DEF FetchInv, SettledIsFree, Shape
<1> QED BY <1>1, FetchInvHolds, PTL

\* With a limit, the runtime implements the pool of slots.
THEOREM ImplementsSlotPool == ASSUME Limited PROVE Spec => IsSlotPool
<1>1. Init => Pool!Init
  BY DEF Init, Pool!Init, Holding, Releasing, Started
<1>2. FetchInv /\ [Next]_vars => [Pool!Next]_(Pool!poolVars)
  <2> SUFFICES ASSUME FetchInv, [Next]_vars
               PROVE  [Pool!Next]_(Pool!poolVars)
    OBVIOUS
  <2>1. SlotStep /\ Holding \subseteq Started
    BY NextKeeps, HoldingFinite
  <2>2. CASE Keeps
    BY <2>2 DEF Keeps, Pool!poolVars
  <2>3. ASSUME NEW r \in Requests, Takes(r) PROVE Pool!Next
    <3>1. Cardinality(Holding) < MaxFetchConcurrent
      BY <2>3 DEF FetchInv, SlotsAccounted, Takes, HasSlot
    <3>2. Pool!Cardinality(Holding) = Cardinality(Holding)
      BY DEF Pool!Cardinality, Cardinality
    <3>3. /\ r \notin Holding \cup (Started \ Holding)
          /\ Holding' = Holding \cup {r}
          /\ (Started \ Holding)' = Started \ Holding
      BY <2>1, <2>3 DEF Takes
    <3> QED BY <3>1, <3>2, <3>3 DEF Pool!Next, Pool!Acquire
  <2>4. ASSUME NEW r \in Requests, Gives(r) PROVE Pool!Next
    BY <2>1, <2>4 DEF Gives, Pool!Next, Pool!Release
  <2> QED BY <2>1, <2>2, <2>3, <2>4 DEF SlotStep
<1> QED BY <1>1, <1>2, FetchInvHolds, PTL DEF Spec, IsSlotPool, Pool!Spec
===============================================================================
