------------------------------ MODULE FetchRuntime ------------------------------
(***************************************************************************)
(* The requests of the fetch package.  The owner goroutine runs JavaScript, *)
(* which starts requests and aborts them, and the jobs of the context; each *)
(* request has a goroutine that waits for the transport and then hands its  *)
(* result to the context by Schedule.  The slots of limits.Runtime outlive  *)
(* a Reload, the runtime and the context do not.                            *)
(* External: the transport, and the context's job queue.                    *)
(***************************************************************************)
EXTENDS Naturals, Sequences, FiniteSets

CONSTANTS
    Requests,
    MaxFetchConcurrent,   \* 0 is no limit
    MayRefuse,            \* whether a live context's Schedule may return false
    MaxGenerations        \* bound: contexts made by Reload

ASSUME FetchAssumption ==
    /\ IsFiniteSet(Requests) /\ MaxFetchConcurrent \in Nat
    /\ MayRefuse \in BOOLEAN /\ MaxGenerations \in Nat \ {0}

VARIABLES
    slots,       \* values in the channel fetchSlots
    requests,    \* keys of the map of requests, one map for each generation
    req,         \* each request's goroutine and what it knows
    promise,     \* each request's promise
    jobs,        \* the context's job queue
    generation,
    phase,       \* the owner: "open" while it pumps, else a step of Close
    closing      \* the requests that Close has taken out of the map
vars == <<slots, requests, req, promise, jobs, generation, phase, closing>>

-------------------------------------------------------------------------------
Promises == {"none", "pending", "settled"}
Points  == {"idle", "roundTrip", "schedule", "complete", "release", "ended"}
Request == [pc : Points, gen : Nat, cancelled : BOOLEAN]
Phases  == {"open", "lock", "release", "closed", "gone"}

Limited  == MaxFetchConcurrent > 0
HasSlotOffByOne == ~Limited \/ slots <= MaxFetchConcurrent    \* mutant
HasSlot  == ~Limited \/ slots < MaxFetchConcurrent
Acquire  == slots' = IF Limited THEN slots + 1 ELSE slots
KeepSlot == slots' = slots    \* mutant
Release  == slots' = IF Limited THEN slots - 1 ELSE slots

\* register: the runtime takes no request once its closed flag is set.
RegistersAlways == TRUE    \* mutant
Registers == phase = "open"

Goto(r, pc) == req' = [req EXCEPT ![r].pc = pc]

Init ==
    /\ slots = 0 /\ requests = {} /\ jobs = <<>>
    /\ req = [r \in Requests |->
                [pc |-> "idle", gen |-> 0, cancelled |-> FALSE]]
    /\ promise = [r \in Requests |-> "none"]
    /\ generation = 1 /\ phase = "open" /\ closing = {}

-------------------------------------------------------------------------------
\* The owner: JavaScript.

\* performFetch: a bad request, an aborted signal, the limit and a closed
\* runtime (which takes a slot and gives it back at once) are refused.
FetchRefused(r) ==
    /\ phase \in {"open", "closed"} /\ promise[r] = "none"
    /\ promise' = [promise EXCEPT ![r] = "settled"]
    /\ UNCHANGED <<slots, requests, req, jobs, generation, phase, closing>>

Fetch(r) ==
    /\ phase \in {"open", "closed"} /\ promise[r] = "none"
    /\ HasSlot /\ Registers
    /\ Acquire
    /\ requests' = requests \cup {r}
    /\ req' = [req EXCEPT ![r] = [@ EXCEPT !.pc = "roundTrip", !.gen = generation]]
    /\ promise' = [promise EXCEPT ![r] = "pending"]
    /\ UNCHANGED <<jobs, generation, phase, closing>>

\* The signal's abort event cancels the request if it is still registered.
Abort(r) ==
    /\ phase = "open" /\ r \in requests
    /\ req' = [req EXCEPT ![r].cancelled = TRUE]
    /\ UNCHANGED <<slots, requests, promise, jobs, generation, phase, closing>>

-------------------------------------------------------------------------------
\* A request's goroutine.

\* RoundTrip and the reading of the body end, with a response or an error.
RoundTrip(r) ==
    /\ req[r].pc = "roundTrip" /\ Goto(r, "schedule")
    /\ UNCHANGED <<slots, requests, promise, jobs, generation, phase, closing>>

\* scheduleFetch: a job of the context, or none when the context refuses it.
ContextLives(r) == req[r].gen = generation /\ phase # "gone"

ScheduleAndForget(r) ==    \* mutant
    /\ req[r].pc = "schedule"
    /\ Goto(r, "ended")
    /\ \/ ContextLives(r) /\ jobs' = Append(jobs, r)
       \/ (~ContextLives(r) \/ MayRefuse) /\ UNCHANGED jobs
    /\ UNCHANGED <<slots, requests, promise, generation, phase, closing>>
Schedule(r) ==
    /\ req[r].pc = "schedule"
    /\ \/ /\ ContextLives(r)
          /\ jobs' = Append(jobs, r) /\ Goto(r, "ended")
       \/ /\ ~ContextLives(r) \/ MayRefuse
          /\ Goto(r, "complete") /\ UNCHANGED jobs
    /\ UNCHANGED <<slots, requests, promise, generation, phase, closing>>

\* complete on this goroutine: the entry is taken under the lock, and its slot
\* released after it, if it is still there.
AlwaysThere(r) == TRUE    \* mutant
StillThere(r)  == r \in requests

Complete(r) ==
    /\ req[r].pc = "complete"
    /\ Goto(r, IF StillThere(r) THEN "release" ELSE "ended")
    /\ requests' = requests \ {r}
    /\ UNCHANGED <<slots, promise, jobs, generation, phase, closing>>

ReleaseSlot(r) ==
    /\ req[r].pc = "release"
    /\ Release /\ Goto(r, "ended")
    /\ UNCHANGED <<requests, promise, jobs, generation, phase, closing>>

-------------------------------------------------------------------------------
\* The owner: the context's jobs, Close and Reload.

\* The job that scheduleFetch made completes the request, then settles it.
SettleOnly ==    \* mutant
    /\ phase = "open" /\ jobs # <<>>
    /\ promise' = [promise EXCEPT ![Head(jobs)] = "settled"]
    /\ jobs' = Tail(jobs)
    /\ UNCHANGED <<slots, requests, req, generation, phase, closing>>
RunJob ==
    /\ phase = "open" /\ jobs # <<>>
    /\ LET r == Head(jobs) IN
         /\ IF r \in requests
            THEN requests' = requests \ {r} /\ Release
            ELSE UNCHANGED <<requests, slots>>
         /\ promise' = [promise EXCEPT ![r] = "settled"]
    /\ jobs' = Tail(jobs)
    /\ UNCHANGED <<req, generation, phase, closing>>

\* fetchRuntime.Close, called by closeResources of Close or Reload: the flag,
BeginClose ==
    /\ phase = "open" /\ phase' = "lock"
    /\ UNCHANGED <<slots, requests, req, promise, jobs, generation, closing>>

\* the map, emptied under the lock,
TakeAll ==
    /\ phase = "lock" /\ phase' = "release"
    /\ closing' = {r \in requests : req[r].gen = generation}
    /\ requests' = requests \ closing'
    /\ UNCHANGED <<slots, req, promise, jobs, generation>>

\* and each request in it, in any order.
CloseUncancelled ==    \* mutant
    /\ phase = "release"
    /\ \E r \in closing : closing' = closing \ {r}
    /\ Release
    /\ UNCHANGED <<requests, req, promise, jobs, generation, phase>>
CloseRequest ==
    /\ phase = "release"
    /\ \E r \in closing :
         /\ req' = [req EXCEPT ![r].cancelled = TRUE]
         /\ closing' = closing \ {r}
    /\ Release
    /\ UNCHANGED <<requests, promise, jobs, generation, phase>>

Closed ==
    /\ phase = "release" /\ closing = {} /\ phase' = "closed"
    /\ UNCHANGED <<slots, requests, req, promise, jobs, generation, closing>>

\* The context goes, with the jobs it has; Reload makes another.
DisposeContext ==
    /\ phase = "closed" /\ phase' = "gone" /\ jobs' = <<>>
    /\ UNCHANGED <<slots, requests, req, promise, generation, closing>>

Reload ==
    /\ phase = "gone" /\ generation < MaxGenerations
    /\ phase' = "open" /\ generation' = generation + 1
    /\ UNCHANGED <<slots, requests, req, promise, jobs, closing>>

Goroutine(r) == RoundTrip(r) \/ Schedule(r) \/ Complete(r) \/ ReleaseSlot(r)
JavaScript(r) == FetchRefused(r) \/ Fetch(r) \/ Abort(r)
Closing == TakeAll \/ CloseRequest \/ Closed \/ DisposeContext

Next == \/ \E r \in Requests : JavaScript(r) \/ Goroutine(r)
        \/ RunJob \/ BeginClose \/ Closing \/ Reload

Spec == Init /\ [][Next]_vars

\* The owner pumps and every goroutine is scheduled; the transport returns.
Fairness == /\ WF_vars(RunJob) /\ WF_vars(Closing)
            /\ \A r \in Requests : WF_vars(Goroutine(r))
FairSpec == Spec /\ Fairness

-------------------------------------------------------------------------------
\* Properties

TypeOK ==
    /\ slots \in 0..MaxFetchConcurrent
    /\ requests \subseteq Requests /\ closing \subseteq Requests
    /\ req \in [Requests -> Request] /\ promise \in [Requests -> Promises]
    /\ jobs \in Seq(Requests)
    /\ generation \in Nat /\ phase \in Phases

Releasing == {r \in Requests : req[r].pc = "release"}
Holding   == requests \cup closing \cup Releasing
Started   == {r \in Requests : req[r].gen # 0}
InFlight  == {r \in Requests : req[r].pc = "roundTrip" /\ ~req[r].cancelled}

\* A slot is taken for each request that is registered or about to give its
\* slot back, and for nothing else: whoever finds the request first - its own
\* goroutine, its job or Close - gives it back, and nobody else does.
SlotsAccounted == Limited => slots = Cardinality(Holding)

\* No more transports are at work, but for cancelled ones, than the limit says,
\* also when a Reload gives slots back while old transports are at work.
TransportsBounded == Limited => Cardinality(InFlight) <= MaxFetchConcurrent

\* Once Close has returned nothing is registered, no slot is kept for this or an
\* earlier context, and every transport still at work was cancelled.
NothingAfterClose ==
    phase \in {"closed", "gone"} => requests \cup closing = {} /\ InFlight = {}

\* When JavaScript learns of the result the slot is free again: a fetch made in
\* answer to it is not refused because of it.
SettledIsFree == \A r \in Requests : promise[r] = "settled" => r \notin Holding

\* Every slot comes back, whether the context takes the result or refuses it,
\* lives or is replaced.
SlotsComeBack == \A r \in Requests : r \in Holding ~> r \notin Holding

Pool == INSTANCE SlotPool WITH
          Holders <- Requests, Max <- MaxFetchConcurrent, held <- Holding,
          past <- Started \ Holding

\* The channel of slots, shared by the contexts a loop has one after another,
\* is the pool it is meant to be: no request takes a slot twice or above the
\* limit, or gives back one that it does not hold.
IsSlotPool == Pool!Spec
================================================================================
