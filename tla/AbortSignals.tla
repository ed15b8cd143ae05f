------------------------------ MODULE AbortSignals ------------------------------
(***************************************************************************)
(* AbortController and AbortSignal: signals that depend on others through    *)
(* AbortSignal.any, and the dispatch of the abort event, which calls the      *)
(* listeners one after the other; a listener is user code that may abort,     *)
(* listen and remove in its turn, or throw, which ends the dispatch and every *)
(* dispatch that reached it through a dependent signal.                       *)
(***************************************************************************)
EXTENDS Naturals, Sequences, FiniteSets, SequencesExt

CONSTANTS
    Signals,     \* numbers, given in the order the signals are made
    Listeners    \* calls of addEventListener by user code

ASSUME SignalsAssumption == Signals \subseteq Nat /\ Signals \cap Listeners = {}

VARIABLES
    kind,        \* how each signal was made
    sources,     \* history: the signals given to any
    aborted, reason,
    listeners,   \* of each signal: user listeners and dependent signals
    onabort,     \* whether the handler is set
    dispatches,  \* the calls of _abort in progress, the innermost last
    heard,       \* history: how often each listener was called
    taken,       \* history: the listeners there when their signal was aborted
    cut          \* history: signals whose dispatch an exception ended
signalVars == <<kind, sources, aborted, reason, listeners, onabort, dispatches, heard, taken, cut>>

-------------------------------------------------------------------------------
Kinds == {"none", "controller", "timeout", "any"}
Frame == [signal : Signals, rest : Seq(Signals \cup Listeners),
          at : {"list", "listener", "handler"}]

\* User code runs: nothing is dispatched, or the innermost dispatch is in it.
UserCode == dispatches # <<>> => Last(dispatches).at \in {"listener", "handler"}

SignalsInit ==
    /\ kind = [s \in Signals |-> "none"] /\ sources = [s \in Signals |-> {}]
    /\ aborted = {} /\ reason = [s \in Signals |-> s]
    /\ listeners = [s \in Signals |-> <<>>] /\ onabort = {}
    /\ dispatches = <<>> /\ heard = [l \in Listeners |-> 0] /\ taken = {} /\ cut = {}

Unmade(s) == kind[s] = "none" /\ \A t \in Signals : t < s => kind[t] # "none"

\* new AbortController, or timeout: a signal of its own.  AbortSignal.abort is a
\* controller that aborts at once.
NewSignal(s) ==
    /\ UserCode /\ Unmade(s)
    /\ \E k \in {"controller", "timeout"} : kind' = [kind EXCEPT ![s] = k]
    /\ UNCHANGED <<sources, aborted, reason, listeners, onabort, dispatches, heard, taken, cut>>

\* any: a listener on each signal up to the first that is aborted, whose reason
\* the new signal takes; it has no listeners of its own yet.
Dependent(s, given, before) ==
    listeners' = [t \in Signals |->
                    listeners[t] \o [i \in 1..Cardinality({j \in before : given[j] = t}) |-> s]]

SignalAnySkipping(s, given) ==    \* mutant
    /\ UserCode /\ Unmade(s) /\ kind' = [kind EXCEPT ![s] = "any"]
    /\ sources' = [sources EXCEPT ![s] = ToSet(given)]
    /\ Dependent(s, given, {i \in 1..Len(given) : given[i] \notin aborted})
    /\ UNCHANGED <<aborted, reason, onabort, dispatches, heard, taken, cut>>
SignalAny(s, given) ==
    LET stop == {i \in 1..Len(given) : given[i] \in aborted}
        before == {i \in 1..Len(given) : \A k \in stop : i < k}
    IN /\ UserCode /\ Unmade(s) /\ kind' = [kind EXCEPT ![s] = "any"]
       /\ sources' = [sources EXCEPT ![s] = ToSet(given)]
       /\ Dependent(s, given, before)
       /\ IF stop = {} THEN UNCHANGED <<aborted, reason>>
          ELSE /\ aborted' = aborted \cup {s}
               /\ \E i \in stop : /\ \A j \in stop : i <= j
                                  /\ reason' = [reason EXCEPT ![s] = reason[given[i]]]
       /\ UNCHANGED <<onabort, dispatches, heard, taken, cut>>

\* addEventListener: on an aborted signal the listener is called at once.
Listen(s, l) ==
    /\ UserCode /\ kind[s] # "none" /\ heard[l] = 0
    /\ \A t \in Signals : l \notin ToSet(listeners[t])
    /\ \A i \in 1..Len(dispatches) : l \notin ToSet(dispatches[i].rest)
    /\ IF s \in aborted
       THEN heard' = [heard EXCEPT ![l] = 1] /\ UNCHANGED listeners
       ELSE listeners' = [listeners EXCEPT ![s] = Append(@, l)] /\ UNCHANGED heard
    /\ UNCHANGED <<kind, sources, aborted, reason, onabort, dispatches, taken, cut>>

\* removeEventListener: the entry is in the list once (see Listen).
Unlisten(s, l) ==
    /\ UserCode
    /\ \E i \in 1..Len(listeners[s]) :
         /\ listeners[s][i] = l
         /\ listeners' = [listeners EXCEPT ![s] = RemoveAt(@, i)]
    /\ UNCHANGED <<kind, sources, aborted, reason, onabort, dispatches, heard, taken, cut>>

SetHandler(s) ==
    /\ UserCode /\ kind[s] # "none" /\ onabort' = onabort \cup {s}
    /\ UNCHANGED <<kind, sources, aborted, reason, listeners, dispatches, heard, taken, cut>>

-------------------------------------------------------------------------------
\* _abort: the signal is aborted before the first of its listeners is called, so
\* another abort does nothing; the listeners are taken once.
Begin(s, why, outer) ==
    /\ aborted' = aborted \cup {s} /\ reason' = [reason EXCEPT ![s] = why]
    /\ dispatches' = Append(outer, [signal |-> s, rest |-> listeners[s], at |-> "list"])
    /\ listeners' = [listeners EXCEPT ![s] = <<>>]
    /\ taken' = taken \cup ({s} \X (ToSet(listeners[s]) \cap Listeners))

\* By its controller, in user code, or by its timer, when nothing else runs.
Abort(s) ==
    /\ \/ kind[s] = "controller" /\ UserCode
       \/ kind[s] = "timeout" /\ dispatches = <<>>
    /\ s \notin aborted /\ Begin(s, s, dispatches)
    /\ UNCHANGED <<kind, sources, onabort, heard, cut>>

Top == Last(dispatches)
ToTop(frame) == [dispatches EXCEPT ![Len(dispatches)] = frame]

\* The next listener: user code, or the abort of a dependent signal.  One that was
\* not added with once goes back to the list.
\* The abort of a signal that is aborted returns at once; the dispatch goes on.
PassedOver(left) == Front(left)    \* mutant
Passed(left) == left

Call ==
    /\ dispatches # <<>> /\ Top.at = "list" /\ Top.rest # <<>>
    /\ LET next == Head(Top.rest)
           left == ToTop([Top EXCEPT !.rest = Tail(@)])
       IN IF next \in Listeners
          THEN /\ dispatches' = ToTop([Top EXCEPT !.rest = Tail(@), !.at = "listener"])
               /\ heard' = [heard EXCEPT ![next] = @ + 1]
               /\ \/ UNCHANGED listeners
                  \/ listeners' = [listeners EXCEPT ![Top.signal] = Append(@, next)]
               /\ UNCHANGED <<aborted, reason, taken>>
          ELSE /\ IF next \in aborted
                  THEN dispatches' = Passed(left) /\ UNCHANGED <<aborted, reason, listeners, taken>>
                  ELSE Begin(next, reason[Top.signal], left)
               /\ UNCHANGED heard
    /\ UNCHANGED <<kind, sources, onabort, cut>>

\* After the last listener the handler, and the dispatch is over.
CallHandler ==
    /\ dispatches # <<>> /\ Top.at = "list" /\ Top.rest = <<>>
    /\ dispatches' = IF Top.signal \in onabort
                     THEN ToTop([Top EXCEPT !.at = "handler"]) ELSE Front(dispatches)
    /\ UNCHANGED <<kind, sources, aborted, reason, listeners, onabort, heard, taken, cut>>

Return ==
    /\ dispatches # <<>> /\ Top.at \in {"listener", "handler"}
    /\ dispatches' = IF Top.at = "handler" THEN Front(dispatches)
                     ELSE ToTop([Top EXCEPT !.at = "list"])
    /\ UNCHANGED <<kind, sources, aborted, reason, listeners, onabort, heard, taken, cut>>

\* The user code throws: the dispatch ends, and so does the one it was called
\* from for a dependent signal, up to user code that called abort, or to the top.
Throw ==
    /\ dispatches # <<>> /\ Top.at \in {"listener", "handler"}
    /\ \E kept \in 0..(Len(dispatches) - 1) :
         /\ kept # 0 => dispatches[kept].at # "list"
         /\ \A i \in (kept + 1)..(Len(dispatches) - 1) : dispatches[i].at = "list"
         /\ dispatches' = SubSeq(dispatches, 1, kept)
         /\ cut' = cut \cup {dispatches[i].signal : i \in (kept + 1)..Len(dispatches)}
    /\ UNCHANGED <<kind, sources, aborted, reason, listeners, onabort, heard, taken>>

Given == {<<s>> : s \in Signals} \cup (Signals \X Signals)
SignalsNext ==
    \/ \E s \in Signals : NewSignal(s) \/ SetHandler(s) \/ Abort(s)
    \/ \E s \in Signals, g \in Given : (\A t \in ToSet(g) : kind[t] # "none") /\ SignalAny(s, g)
    \/ \E s \in Signals, l \in Listeners : Listen(s, l) \/ Unlisten(s, l)
    \/ Call \/ CallHandler \/ Return \/ Throw

SignalsSpec == SignalsInit /\ [][SignalsNext]_signalVars

-------------------------------------------------------------------------------
\* Properties

SignalsTypeOK ==
    /\ kind \in [Signals -> Kinds] /\ sources \in [Signals -> SUBSET Signals]
    /\ aborted \subseteq Signals /\ reason \in [Signals -> Signals]
    /\ listeners \in [Signals -> Seq(Signals \cup Listeners)]
    /\ onabort \subseteq Signals /\ dispatches \in Seq(Frame)
    /\ heard \in [Listeners -> Nat] /\ taken \subseteq Signals \X Listeners /\ cut \subseteq Signals

Dispatching == {dispatches[i].signal : i \in 1..Len(dispatches)}

\* A signal made by any is aborted when one of its sources is, with the reason of
\* one of them, once the source's dispatch is over, unless an exception ended that;
\* and it is never aborted of itself.
DependentsAgree ==
    \A s \in Signals : kind[s] = "any" =>
      /\ s \in aborted => \E t \in sources[s] \cap aborted : reason[s] = reason[t]
      /\ \A t \in sources[s] \cap aborted : t \in Dispatching \cup cut \/ s \in aborted

\* A listener is called once at most, whatever listeners abort, remove and listen
\* in their turn; and one that was there when its signal was aborted is called,
\* before the dispatch is over, unless an exception ended it.
HeardOnce ==
    /\ \A l \in Listeners : heard[l] <= 1
    /\ \A e \in taken :
         \/ heard[e[2]] = 1 \/ e[1] \in cut
         \/ \E i \in 1..Len(dispatches) :
              dispatches[i].signal = e[1] /\ e[2] \in ToSet(dispatches[i].rest)
================================================================================
