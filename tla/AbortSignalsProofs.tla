--------------------------- MODULE AbortSignalsProofs ---------------------------
(***************************************************************************)
(* Theorems about AbortSignals for every set of signals and of listeners:    *)
(* dependent signals follow their sources, and listeners are called once.    *)
(***************************************************************************)
EXTENDS AbortSignals, FiniteSetTheorems, SequenceTheorems, TLAPS

Left(i) == dispatches[i].rest

\* What waits in a list, or in a dispatch, for the abort of a signal was made to
\* depend on that signal, if it is one itself.
Linked ==
    /\ \A s \in Signals : \A i \in DOMAIN listeners[s] :
         listeners[s][i] \in Signals =>
           s \in sources[listeners[s][i]] /\ kind[listeners[s][i]] = "any"
    /\ \A k \in DOMAIN dispatches : \A i \in DOMAIN Left(k) :
         Left(k)[i] \in Signals =>
           dispatches[k].signal \in sources[Left(k)[i]] /\ kind[Left(k)[i]] = "any"
    /\ \A s \in Signals : \A t \in sources[s] : kind[t] # "none"
    /\ \A s \in Signals : kind[s] = "none" => sources[s] = {} /\ s \notin aborted

\* The dispatches in progress are of aborted signals, and one that is at its
\* handler has no listeners left.
Begun ==
    \A k \in DOMAIN dispatches :
      /\ dispatches[k].signal \in aborted
      /\ dispatches[k].at = "handler" => Left(k) = <<>>

\* A dependent signal that is not aborted waits for each of its sources: in the list
\* of one that is not aborted, in the dispatch of one that is.
Awaits(s, t) ==
    IF t \notin aborted THEN \E i \in DOMAIN listeners[t] : listeners[t][i] = s
    ELSE \/ t \in cut
         \/ \E k \in DOMAIN dispatches :
              dispatches[k].signal = t /\ \E i \in DOMAIN Left(k) : Left(k)[i] = s
Agree ==
    \A s \in Signals : kind[s] = "any" =>
      /\ s \in aborted => \E t \in sources[s] \cap aborted : reason[s] = reason[t]
      /\ s \notin aborted => \A t \in sources[s] : Awaits(s, t)

\* A listener that waits was not called, and waits in one place only.
Unheard ==
    /\ \A s \in Signals \ aborted : \A i \in DOMAIN listeners[s] :
         listeners[s][i] \in Listeners => heard[listeners[s][i]] = 0
    /\ \A k \in DOMAIN dispatches : \A i \in DOMAIN Left(k) :
         Left(k)[i] \in Listeners => heard[Left(k)[i]] = 0
InOnePlace ==
    /\ \A s, t \in Signals \ aborted : \A i \in DOMAIN listeners[s], j \in DOMAIN listeners[t] :
         listeners[s][i] = listeners[t][j] /\ listeners[s][i] \in Listeners => s = t /\ i = j
    /\ \A k, m \in DOMAIN dispatches : \A i \in DOMAIN Left(k), j \in DOMAIN Left(m) :
         Left(k)[i] = Left(m)[j] /\ Left(k)[i] \in Listeners => k = m /\ i = j
    /\ \A s \in Signals \ aborted, k \in DOMAIN dispatches :
         \A i \in DOMAIN listeners[s], j \in DOMAIN Left(k) :
         listeners[s][i] = Left(k)[j] => listeners[s][i] \notin Listeners

\* A listener that was there at the abort was called, or waits in its dispatch.
Kept ==
    \A e \in taken :
      \/ heard[e[2]] = 1 \/ e[1] \in cut
      \/ \E k \in DOMAIN dispatches :
           dispatches[k].signal = e[1] /\ \E i \in DOMAIN Left(k) : Left(k)[i] = e[2]
Once == \A l \in Listeners : heard[l] <= 1

\* The inductive invariant.
SignalsInv ==
    /\ SignalsTypeOK /\ Linked /\ Begun /\ Agree
    /\ Unheard /\ InOnePlace /\ Kept /\ Once

-------------------------------------------------------------------------------
\* The initial state, and what the invariant says.

LEMMA InitSignals == SignalsInit => SignalsInv
<1> SUFFICES ASSUME SignalsInit PROVE SignalsInv
  OBVIOUS
<1>1. /\ \A s \in Signals : listeners[s] = <<>> /\ sources[s] = {} /\ kind[s] = "none"
      /\ dispatches = <<>> /\ taken = {} /\ aborted = {}
      /\ \A l \in Listeners : heard[l] = 0
  BY DEF SignalsInit
<1>2. SignalsTypeOK
  BY DEF SignalsInit, SignalsTypeOK, Kinds
<1> QED
  BY <1>1, <1>2 DEF SignalsInv, Linked, Begun, Agree, Unheard, InOnePlace, Kept, Once

LEMMA InvAgrees == SignalsInv => DependentsAgree
<1> SUFFICES ASSUME SignalsInv PROVE DependentsAgree
  OBVIOUS
<1>1. dispatches \in Seq(Frame)
  BY DEF SignalsInv, SignalsTypeOK
<1> QED BY <1>1 DEF SignalsInv, Agree, Awaits, DependentsAgree, Dispatching

LEMMA InvHeard == SignalsInv => HeardOnce
<1> SUFFICES ASSUME SignalsInv PROVE HeardOnce
  OBVIOUS
<1>1. dispatches \in Seq(Frame)
  BY DEF SignalsInv, SignalsTypeOK
<1> QED BY <1>1 DEF SignalsInv, Kept, Once, HeardOnce, ToSet, Left

-------------------------------------------------------------------------------
\* Steps that change nothing but the dispatches: each that is left goes on as it
\* was, and one that is gone was through its list, or was cut.

Ends ==
    /\ UNCHANGED <<kind, sources, aborted, reason, listeners, onabort, heard, taken>>
    /\ cut \subseteq cut' /\ cut' \subseteq Signals
    /\ dispatches' \in Seq(Frame) /\ Len(dispatches') <= Len(dispatches)
    /\ \A k \in DOMAIN dispatches' :
         /\ dispatches'[k].signal = dispatches[k].signal
         /\ dispatches'[k].rest = Left(k)
         /\ dispatches'[k].at = "handler" => Left(k) = <<>>
    /\ \A k \in DOMAIN dispatches :
         k \in DOMAIN dispatches' \/ Left(k) = <<>> \/ dispatches[k].signal \in cut'

LEMMA FrameFacts ==
    ASSUME SignalsTypeOK
    PROVE  /\ Len(dispatches) \in Nat /\ DOMAIN dispatches = 1..Len(dispatches)
           /\ \A k \in DOMAIN dispatches :
                /\ dispatches[k] \in Frame
                /\ dispatches[k] = [signal |-> dispatches[k].signal,
                                    rest |-> Left(k), at |-> dispatches[k].at]
                /\ dispatches[k].signal \in Signals /\ Left(k) \in Seq(Signals \cup Listeners)
                /\ DOMAIN Left(k) = 1..Len(Left(k)) /\ Len(Left(k)) \in Nat
           /\ \A s \in Signals : /\ listeners[s] \in Seq(Signals \cup Listeners)
                                 /\ DOMAIN listeners[s] = 1..Len(listeners[s])
                                 /\ Len(listeners[s]) \in Nat
<1>1. dispatches \in Seq(Frame) /\ listeners \in [Signals -> Seq(Signals \cup Listeners)]
  BY DEF SignalsTypeOK
<1>2. \A k \in DOMAIN dispatches : dispatches[k] \in Frame
  BY <1>1
<1>3. \A f \in Frame : /\ f = [signal |-> f.signal, rest |-> f.rest, at |-> f.at]
                       /\ f.signal \in Signals /\ f.rest \in Seq(Signals \cup Listeners)
  BY DEF Frame
<1> QED BY <1>1, <1>2, <1>3 DEF Left

LEMMA EndsKeeps ==
    ASSUME SignalsInv, Ends
    PROVE  SignalsInv'
<1>1. /\ Len(dispatches) \in Nat /\ DOMAIN dispatches = 1..Len(dispatches)
      /\ Len(dispatches') \in Nat /\ DOMAIN dispatches' = 1..Len(dispatches')
      /\ Len(dispatches') <= Len(dispatches)
  BY FrameFacts DEF SignalsInv, Ends
<1>2. \A k \in DOMAIN dispatches' : k \in DOMAIN dispatches /\ Left(k)' = Left(k)
  BY <1>1 DEF Ends, Left
<1>3. SignalsTypeOK'
  BY DEF SignalsInv, SignalsTypeOK, Ends
<1>4. Linked' /\ Begun'
  BY <1>2 DEF SignalsInv, Linked, Begun, Ends
<1>5. Agree'
  <2>1. ASSUME NEW s \in Signals, NEW t \in Signals, Awaits(s, t)
        PROVE  Awaits(s, t)'
    BY <1>2, <2>1 DEF Awaits, Ends
  <2> QED BY <2>1 DEF SignalsInv, Agree, SignalsTypeOK, Ends
<1>6. Unheard' /\ InOnePlace' /\ Once'
  BY <1>2 DEF SignalsInv, Unheard, InOnePlace, Once, Ends
<1>7. Kept'
  BY <1>2 DEF SignalsInv, Kept, Ends
<1> QED BY <1>3, <1>4, <1>5, <1>6, <1>7 DEF SignalsInv

LEMMA TopFacts ==
    ASSUME SignalsTypeOK, dispatches # <<>>
    PROVE  /\ Len(dispatches) \in DOMAIN dispatches /\ Top = dispatches[Len(dispatches)]
           /\ Front(dispatches) \in Seq(Frame)
           /\ Len(Front(dispatches)) = Len(dispatches) - 1
           /\ \A k \in 1..(Len(dispatches) - 1) : Front(dispatches)[k] = dispatches[k]
<1>1. dispatches \in Seq(Frame)
  BY DEF SignalsTypeOK
<1>2. Len(dispatches) \in Nat /\ Len(dispatches) # 0 /\ DOMAIN dispatches = 1..Len(dispatches)
  BY <1>1
<1>3. /\ Front(dispatches) \in Seq(Frame)
      /\ Len(Front(dispatches)) = Len(dispatches) - 1
      /\ \A k \in 1..(Len(dispatches) - 1) : Front(dispatches)[k] = dispatches[k]
  BY <1>1, <1>2 DEF Front
<1> QED BY <1>2, <1>3 DEF Top, Last

\* A frame that takes the place of the innermost one.
LEMMA ToTopFacts ==
    ASSUME SignalsTypeOK, dispatches # <<>>, NEW f \in Frame
    PROVE  /\ ToTop(f) \in Seq(Frame) /\ Len(ToTop(f)) = Len(dispatches)
           /\ DOMAIN ToTop(f) = DOMAIN dispatches
           /\ \A k \in DOMAIN dispatches :
                ToTop(f)[k] = IF k = Len(dispatches) THEN f ELSE dispatches[k]
<1>1. dispatches \in Seq(Frame)
  BY DEF SignalsTypeOK
<1> QED BY <1>1 DEF ToTop

LEMMA PopEnds ==
    ASSUME SignalsInv, dispatches # <<>>, Top.rest = <<>>, dispatches' = Front(dispatches),
           UNCHANGED <<kind, sources, aborted, reason, listeners, onabort, heard, taken, cut>>
    PROVE  Ends
<1>1. SignalsTypeOK /\ cut \subseteq Signals
  BY DEF SignalsInv, SignalsTypeOK
<1>2. \A k \in DOMAIN dispatches : dispatches[k].at = "handler" => Left(k) = <<>>
  BY DEF SignalsInv, Begun
<1>3. /\ dispatches' \in Seq(Frame) /\ Len(dispatches') = Len(dispatches) - 1
      /\ DOMAIN dispatches' = 1..(Len(dispatches) - 1)
      /\ \A k \in 1..(Len(dispatches) - 1) : dispatches'[k] = dispatches[k]
  BY <1>1, TopFacts, FrameFacts
<1>4. Len(dispatches) \in Nat /\ DOMAIN dispatches = 1..Len(dispatches)
  BY <1>1, FrameFacts
<1>5. Left(Len(dispatches)) = <<>>
  BY <1>1, TopFacts DEF Left
<1> QED BY <1>1, <1>2, <1>3, <1>4, <1>5 DEF Ends, Left

LEMMA ReplaceEnds ==
    ASSUME SignalsInv, dispatches # <<>>, NEW f \in Frame, f.signal = Top.signal,
           f.rest = Top.rest, f.at = "handler" => Top.rest = <<>>, dispatches' = ToTop(f),
           UNCHANGED <<kind, sources, aborted, reason, listeners, onabort, heard, taken, cut>>
    PROVE  Ends
<1>1. SignalsTypeOK /\ cut \subseteq Signals
  BY DEF SignalsInv, SignalsTypeOK
<1>2. \A k \in DOMAIN dispatches : dispatches[k].at = "handler" => Left(k) = <<>>
  BY DEF SignalsInv, Begun
<1>3. /\ dispatches' \in Seq(Frame) /\ Len(dispatches') = Len(dispatches)
      /\ DOMAIN dispatches' = DOMAIN dispatches
      /\ \A k \in DOMAIN dispatches :
           dispatches'[k] = IF k = Len(dispatches) THEN f ELSE dispatches[k]
  BY <1>1, ToTopFacts
<1>4. Len(dispatches) \in Nat /\ Top = dispatches[Len(dispatches)]
  BY <1>1, FrameFacts, TopFacts
<1> QED BY <1>1, <1>2, <1>3, <1>4 DEF Ends, Left

LEMMA CallHandlerEnds ==
    ASSUME SignalsInv, CallHandler
    PROVE  Ends
<1>1. SignalsTypeOK /\ dispatches # <<>> /\ Top.rest = <<>>
  BY DEF SignalsInv, CallHandler
<1>2. UNCHANGED <<kind, sources, aborted, reason, listeners, onabort, heard, taken, cut>>
  BY DEF CallHandler
<1>3. CASE Top.signal \in onabort
  <2> DEFINE f == [Top EXCEPT !.at = "handler"]
  <2>1. f \in Frame /\ f.signal = Top.signal /\ f.rest = Top.rest
    BY <1>1, TopFacts, FrameFacts DEF Frame
  <2>2. dispatches' = ToTop(f)
    BY <1>3 DEF CallHandler
  <2> HIDE DEF f
  <2> QED BY <1>1, <1>2, <2>1, <2>2, ReplaceEnds
<1>4. CASE Top.signal \notin onabort
  BY <1>1, <1>2, <1>4, PopEnds DEF CallHandler
<1> QED BY <1>3, <1>4

LEMMA ReturnEnds ==
    ASSUME SignalsInv, Return
    PROVE  Ends
<1>1. SignalsTypeOK /\ dispatches # <<>>
  BY DEF SignalsInv, Return
<1>2. UNCHANGED <<kind, sources, aborted, reason, listeners, onabort, heard, taken, cut>>
  BY DEF Return
<1>3. CASE Top.at # "handler"
  <2> DEFINE f == [Top EXCEPT !.at = "list"]
  <2>1. f \in Frame /\ f.signal = Top.signal /\ f.rest = Top.rest /\ f.at = "list"
    BY <1>1, TopFacts, FrameFacts DEF Frame
  <2>2. dispatches' = ToTop(f)
    BY <1>3 DEF Return
  <2> HIDE DEF f
  <2> QED BY <1>1, <1>2, <2>1, <2>2, ReplaceEnds
<1>4. CASE Top.at = "handler"
  <2>1. dispatches' = Front(dispatches)
    BY <1>4 DEF Return
  <2>2. Top.rest = <<>>
    BY <1>1, <1>4, TopFacts DEF SignalsInv, Begun, Left
  <2> QED BY <1>1, <1>2, <2>1, <2>2, PopEnds
<1> QED BY <1>3, <1>4

LEMMA ThrowEnds ==
    ASSUME SignalsInv, Throw
    PROVE  Ends
<1>1. PICK kept \in 0..(Len(dispatches) - 1) :
        /\ dispatches' = SubSeq(dispatches, 1, kept)
        /\ cut' = cut \cup {dispatches[i].signal : i \in (kept + 1)..Len(dispatches)}
  BY DEF Throw
<1>2. dispatches \in Seq(Frame) /\ Len(dispatches) \in Nat /\ SignalsTypeOK
  BY DEF SignalsInv, SignalsTypeOK
<1>3. /\ dispatches' \in Seq(Frame) /\ Len(dispatches') = kept
      /\ \A k \in 1..kept : dispatches'[k] = dispatches[k]
  BY <1>1, <1>2
<1>4. \A k \in DOMAIN dispatches : dispatches[k].at = "handler" => Left(k) = <<>>
  BY DEF SignalsInv, Begun
<1>5. cut \subseteq cut' /\ cut' \subseteq Signals
  BY <1>1, <1>2, FrameFacts DEF SignalsTypeOK
<1>6. \A k \in DOMAIN dispatches : k \in DOMAIN dispatches' \/ dispatches[k].signal \in cut'
  BY <1>1, <1>2, <1>3
<1> QED BY <1>1, <1>2, <1>3, <1>4, <1>5, <1>6 DEF Ends, Throw, Left

LEMMA NewSignalKeeps ==
    ASSUME SignalsInv, NEW s \in Signals, NewSignal(s)
    PROVE  SignalsInv'
<1>1. PICK k \in {"controller", "timeout"} : kind' = [kind EXCEPT ![s] = k]
  BY DEF NewSignal
<1>2. SignalsTypeOK'
  BY <1>1 DEF SignalsInv, SignalsTypeOK, NewSignal, Kinds
<1>3. \A t \in Signals : kind'[t] = "any" <=> kind[t] = "any"
  BY <1>1 DEF SignalsInv, SignalsTypeOK, NewSignal, Unmade
<1>3a. \A t \in Signals : kind[t] # "none" => kind'[t] # "none"
  BY <1>1 DEF SignalsInv, SignalsTypeOK, NewSignal, Unmade
<1>4. UNCHANGED <<sources, aborted, reason, listeners, onabort, dispatches, heard, taken, cut>>
  BY DEF NewSignal
<1>4a. \A t \in Signals : sources[t] \subseteq Signals
  BY DEF SignalsInv, SignalsTypeOK
<1>5. Linked'
  BY <1>3, <1>3a, <1>4, <1>4a DEF SignalsInv, Linked, Left
<1>6. Begun' /\ Unheard' /\ InOnePlace' /\ Kept' /\ Once'
  BY <1>4 DEF SignalsInv, Begun, Unheard, InOnePlace, Kept, Once, Left
<1>7. Agree'
  BY <1>3, <1>4 DEF SignalsInv, Agree, Awaits, Left
<1> QED BY <1>2, <1>5, <1>6, <1>7 DEF SignalsInv

LEMMA SetHandlerKeeps ==
    ASSUME SignalsInv, NEW s \in Signals, SetHandler(s)
    PROVE  SignalsInv'
<1>1. SignalsTypeOK'
  BY DEF SignalsInv, SignalsTypeOK, SetHandler
<1> QED BY <1>1 DEF SetHandler, SignalsInv, Linked, Begun, Agree, Awaits, Unheard,
                    InOnePlace, Kept, Once, Left

-------------------------------------------------------------------------------
\* addEventListener and removeEventListener.

LEMMA ListenKeeps ==
    ASSUME SignalsInv, NEW s \in Signals, NEW l \in Listeners, Listen(s, l)
    PROVE  SignalsInv'
<1>1. /\ heard[l] = 0 /\ l \notin Signals
      /\ UNCHANGED <<kind, sources, aborted, reason, onabort, dispatches, taken, cut>>
  BY SignalsAssumption DEF Listen
<1>2. /\ SignalsTypeOK /\ Len(listeners[s]) \in Nat
      /\ DOMAIN listeners[s] = 1..Len(listeners[s])
  BY FrameFacts DEF SignalsInv
<1>3. /\ \A t \in Signals : \A i \in DOMAIN listeners[t] : listeners[t][i] # l
      /\ \A k \in DOMAIN dispatches : \A i \in DOMAIN Left(k) : Left(k)[i] # l
  <2>1. /\ \A t \in Signals : l \notin ToSet(listeners[t])
        /\ \A k \in 1..Len(dispatches) : l \notin ToSet(dispatches[k].rest)
    BY DEF Listen
  <2> QED BY <1>2, <2>1, FrameFacts DEF ToSet, Left
<1>4. CASE s \in aborted
  <2>1. heard' = [heard EXCEPT ![l] = 1] /\ UNCHANGED listeners
    BY <1>4 DEF Listen
  <2>2. SignalsTypeOK'
    BY <1>1, <2>1 DEF SignalsInv, SignalsTypeOK
  <2>3. Linked' /\ Begun' /\ Agree' /\ InOnePlace'
    BY <1>1, <2>1 DEF SignalsInv, Linked, Begun, Agree, Awaits, InOnePlace, Left
  <2>4. heard'[l] = 1 /\ \A m \in Listeners \ {l} : heard'[m] = heard[m]
    BY <2>1 DEF SignalsInv, SignalsTypeOK
  <2>5. Unheard'
    BY <1>1, <1>3, <2>1, <2>4 DEF SignalsInv, Unheard, Left
  <2>6. Once'
    BY <2>4 DEF SignalsInv, Once
  <2>7. Kept'
    <3>1. \A m \in Listeners : heard[m] = 1 => heard'[m] = 1
      BY <2>4
    <3>2. \A e \in taken : e[2] \in Listeners
      BY <1>2 DEF SignalsTypeOK
    <3> QED BY <1>1, <3>1, <3>2 DEF SignalsInv, Kept, Left
  <2> QED BY <2>2, <2>3, <2>5, <2>6, <2>7 DEF SignalsInv
<1>5. CASE s \notin aborted
  <2>1. listeners' = [listeners EXCEPT ![s] = Append(@, l)] /\ UNCHANGED heard
    BY <1>5 DEF Listen
  <2>2. SignalsTypeOK'
    BY <1>1, <2>1 DEF SignalsInv, SignalsTypeOK
  <2>3. /\ \A t \in Signals \ {s} : listeners'[t] = listeners[t]
        /\ DOMAIN listeners'[s] = 1..(Len(listeners[s]) + 1)
        /\ \A i \in DOMAIN listeners[s] : listeners'[s][i] = listeners[s][i]
        /\ listeners'[s][Len(listeners[s]) + 1] = l
    BY <1>2, <2>1 DEF SignalsTypeOK
  <2>4. \A t \in Signals : \A i \in DOMAIN listeners'[t] :
          \/ i \in DOMAIN listeners[t] /\ listeners'[t][i] = listeners[t][i]
          \/ t = s /\ i = Len(listeners[s]) + 1 /\ listeners'[t][i] = l
    BY <1>2, <2>3
  <2>5. Linked' /\ Begun' /\ Unheard'
    BY <1>1, <2>1, <2>4 DEF SignalsInv, Linked, Begun, Unheard, Left
  <2>6. Agree'
    <3>1. ASSUME NEW u \in Signals, NEW t \in Signals, Awaits(u, t)
          PROVE  Awaits(u, t)'
      BY <1>1, <1>2, <2>3, <3>1 DEF Awaits, Left
    <3> QED BY <1>1, <3>1 DEF SignalsInv, Agree, SignalsTypeOK
  <2>7. InOnePlace'
    <3>1. ASSUME NEW u \in Signals \ aborted, NEW t \in Signals \ aborted,
                 NEW i \in DOMAIN listeners'[u], NEW j \in DOMAIN listeners'[t],
                 listeners'[u][i] = listeners'[t][j], listeners'[u][i] \in Listeners
          PROVE  u = t /\ i = j
      BY <1>3, <2>4, <3>1 DEF SignalsInv, InOnePlace
    <3>2. ASSUME NEW u \in Signals \ aborted, NEW k \in DOMAIN dispatches,
                 NEW i \in DOMAIN listeners'[u], NEW j \in DOMAIN Left(k),
                 listeners'[u][i] = Left(k)[j]
          PROVE  listeners'[u][i] \notin Listeners
      BY <1>3, <2>4, <3>2 DEF SignalsInv, InOnePlace
    <3> QED BY <1>1, <3>1, <3>2 DEF SignalsInv, InOnePlace, Left
  <2>8. Kept' /\ Once'
    BY <1>1, <2>1 DEF SignalsInv, Kept, Once, Left
  <2> QED BY <2>2, <2>5, <2>6, <2>7, <2>8 DEF SignalsInv
<1> QED BY <1>4, <1>5

LEMMA RemoveAtFacts ==
    ASSUME NEW S, NEW q \in Seq(S), NEW i \in 1..Len(q)
    PROVE  /\ RemoveAt(q, i) \in Seq(S) /\ Len(RemoveAt(q, i)) = Len(q) - 1
           /\ \A j \in 1..(Len(q) - 1) :
                RemoveAt(q, i)[j] = IF j < i THEN q[j] ELSE q[j + 1]
<1>1. Len(q) \in Nat /\ i \in Nat /\ 1 <= i /\ i <= Len(q)
  OBVIOUS
<1> DEFINE a == SubSeq(q, 1, i - 1)
           b == SubSeq(q, i + 1, Len(q))
<1>2. a \in Seq(S) /\ Len(a) = i - 1 /\ \A j \in 1..(i - 1) : a[j] = q[j]
  BY <1>1
<1>3. /\ b \in Seq(S) /\ Len(b) = Len(q) - i
      /\ \A j \in 1..(Len(q) - i) : b[j] = q[j + i]
  BY <1>1
<1>4. RemoveAt(q, i) = a \o b
  BY DEF RemoveAt
<1> HIDE DEF a, b
<1>5. /\ a \o b \in Seq(S) /\ Len(a \o b) = Len(q) - 1
      /\ \A j \in 1..(Len(q) - 1) : (a \o b)[j] = IF j < i THEN a[j] ELSE b[j - (i - 1)]
  <2>1. /\ a \o b \in Seq(S) /\ Len(a \o b) = Len(a) + Len(b)
        /\ \A j \in 1..(Len(a) + Len(b)) :
             (a \o b)[j] = IF j <= Len(a) THEN a[j] ELSE b[j - Len(a)]
    BY <1>2, <1>3, ConcatProperties
  <2>2. Len(a) + Len(b) = Len(q) - 1 /\ Len(a) = i - 1
    BY <1>1, <1>2, <1>3
  <2>3. \A j \in 1..(Len(q) - 1) : j <= i - 1 <=> j < i
    BY <1>1
  <2> QED BY <2>1, <2>2, <2>3
<1>6. \A j \in 1..(Len(q) - 1) : (a \o b)[j] = IF j < i THEN q[j] ELSE q[j + 1]
  <2> SUFFICES ASSUME NEW j \in 1..(Len(q) - 1)
               PROVE  (a \o b)[j] = IF j < i THEN q[j] ELSE q[j + 1]
    OBVIOUS
  <2>1. CASE j < i
    BY <1>1, <1>2, <1>5, <2>1
  <2>2. CASE ~(j < i)
    <3>1. j - (i - 1) \in 1..(Len(q) - i) /\ (j - (i - 1)) + i = j + 1
      BY <1>1, <2>2
    <3> QED BY <1>1, <1>3, <1>5, <2>2, <3>1
  <2> QED BY <2>1, <2>2
<1> QED BY <1>4, <1>5, <1>6

LEMMA UnlistenKeeps ==
    ASSUME SignalsInv, NEW s \in Signals, NEW l \in Listeners, Unlisten(s, l)
    PROVE  SignalsInv'
<1>1. PICK n \in 1..Len(listeners[s]) :
        /\ listeners[s][n] = l
        /\ listeners' = [listeners EXCEPT ![s] = RemoveAt(@, n)]
  BY DEF Unlisten
<1>2. UNCHANGED <<kind, sources, aborted, reason, onabort, dispatches, heard, taken, cut>>
  BY DEF Unlisten
<1>3. /\ SignalsTypeOK /\ Len(listeners[s]) \in Nat
      /\ listeners[s] \in Seq(Signals \cup Listeners)
      /\ \A t \in Signals : DOMAIN listeners[t] = 1..Len(listeners[t])
  BY FrameFacts DEF SignalsInv
<1>4. /\ RemoveAt(listeners[s], n) \in Seq(Signals \cup Listeners)
      /\ Len(RemoveAt(listeners[s], n)) = Len(listeners[s]) - 1
      /\ \A j \in 1..(Len(listeners[s]) - 1) :
           RemoveAt(listeners[s], n)[j] = IF j < n THEN listeners[s][j] ELSE listeners[s][j + 1]
  BY <1>3, RemoveAtFacts
<1>5. /\ \A t \in Signals \ {s} : listeners'[t] = listeners[t]
      /\ listeners'[s] = RemoveAt(listeners[s], n)
      /\ DOMAIN listeners'[s] = 1..(Len(listeners[s]) - 1)
  BY <1>1, <1>3, <1>4 DEF SignalsTypeOK
<1>6. SignalsTypeOK'
  BY <1>1, <1>2, <1>4 DEF SignalsInv, SignalsTypeOK
<1> DEFINE Was(t, i) == IF t = s /\ i >= n THEN i + 1 ELSE i
<1>7. \A t \in Signals : \A i \in DOMAIN listeners'[t] :
        Was(t, i) \in DOMAIN listeners[t] /\ listeners'[t][i] = listeners[t][Was(t, i)]
  <2> SUFFICES ASSUME NEW t \in Signals, NEW i \in DOMAIN listeners'[t]
               PROVE  /\ Was(t, i) \in DOMAIN listeners[t]
                      /\ listeners'[t][i] = listeners[t][Was(t, i)]
    OBVIOUS
  <2>1. CASE t # s
    BY <1>5, <2>1
  <2>2. CASE t = s
    <3>1. i \in 1..(Len(listeners[s]) - 1)
      BY <1>5, <2>2
    <3> QED BY <1>1, <1>3, <1>4, <1>5, <2>2, <3>1
  <2> QED BY <2>1, <2>2
<1>8. \A t \in Signals : \A i, j \in DOMAIN listeners'[t] : Was(t, i) = Was(t, j) => i = j
  BY <1>3, <1>5
<1>9. \A t, u \in Signals : \A i \in DOMAIN listeners[t] :
        listeners[t][i] = u => \E j \in DOMAIN listeners'[t] : listeners'[t][j] = u
  <2> SUFFICES ASSUME NEW t \in Signals, NEW u \in Signals, NEW i \in DOMAIN listeners[t],
                      listeners[t][i] = u
               PROVE  \E j \in DOMAIN listeners'[t] : listeners'[t][j] = u
    OBVIOUS
  <2>1. CASE t # s
    BY <1>5, <2>1
  <2>2. CASE t = s
    <3>1. i # n
      BY <1>1, <2>2, SignalsAssumption
    <3>2. CASE i < n
      BY <1>3, <1>4, <1>5, <2>2, <3>2
    <3>3. CASE i > n
      <4>1. i - 1 \in DOMAIN listeners'[s] /\ listeners'[s][i - 1] = u
        <5>1. i \in 1..Len(listeners[s])
          BY <1>3, <2>2
        <5>2. i - 1 \in 1..(Len(listeners[s]) - 1) /\ ~(i - 1 < n) /\ (i - 1) + 1 = i
          BY <1>3, <3>3, <5>1
        <5> QED BY <1>4, <1>5, <2>2, <5>2
      <4> QED BY <2>2, <4>1
    <3> QED BY <1>3, <2>2, <3>1, <3>2, <3>3
  <2> QED BY <2>1, <2>2
<1> HIDE DEF Was
<1>10. Linked' /\ Begun' /\ Unheard'
  BY <1>2, <1>7 DEF SignalsInv, Linked, Begun, Unheard, Left
<1>11. Agree'
  <2>1. ASSUME NEW u \in Signals, NEW t \in Signals, Awaits(u, t)
        PROVE  Awaits(u, t)'
    BY <1>2, <1>9, <2>1 DEF Awaits, Left
  <2> QED BY <1>2, <2>1 DEF SignalsInv, Agree, SignalsTypeOK
<1>12. InOnePlace'
  <2>1. ASSUME NEW u \in Signals \ aborted, NEW t \in Signals \ aborted,
               NEW i \in DOMAIN listeners'[u], NEW j \in DOMAIN listeners'[t],
               listeners'[u][i] = listeners'[t][j], listeners'[u][i] \in Listeners
        PROVE  u = t /\ i = j
    <3>1. u = t /\ Was(u, i) = Was(t, j)
      BY <1>7, <2>1 DEF SignalsInv, InOnePlace
    <3> QED BY <1>8, <3>1
  <2>2. ASSUME NEW u \in Signals \ aborted, NEW k \in DOMAIN dispatches,
               NEW i \in DOMAIN listeners'[u], NEW j \in DOMAIN Left(k),
               listeners'[u][i] = Left(k)[j]
        PROVE  listeners'[u][i] \notin Listeners
    BY <1>7, <2>2 DEF SignalsInv, InOnePlace
  <2> QED BY <1>2, <2>1, <2>2 DEF SignalsInv, InOnePlace, Left
<1>13. Kept' /\ Once'
  BY <1>2 DEF SignalsInv, Kept, Once, Left
<1> QED BY <1>6, <1>10, <1>11, <1>12, <1>13 DEF SignalsInv

-------------------------------------------------------------------------------
\* AbortSignal.any.

\* What a dependent signal adds to the lists: itself, to those of the signals given.
Joined(s, given, before) ==
    /\ listeners' \in [Signals -> Seq(Signals \cup Listeners)]
    /\ \A t \in Signals : \A i \in DOMAIN listeners[t] :
         i \in DOMAIN listeners'[t] /\ listeners'[t][i] = listeners[t][i]
    /\ \A t \in Signals : \A i \in DOMAIN listeners'[t] :
         \/ i \in DOMAIN listeners[t] /\ listeners'[t][i] = listeners[t][i]
         \/ listeners'[t][i] = s /\ \E j \in before : given[j] = t
    /\ \A j \in before : \E i \in DOMAIN listeners'[given[j]] : listeners'[given[j]][i] = s

LEMMA DependentFacts ==
    ASSUME SignalsTypeOK, NEW s \in Signals, NEW given \in Seq(Signals),
           NEW before \in SUBSET (1..Len(given)), Dependent(s, given, before)
    PROVE  Joined(s, given, before)
<1> DEFINE At(t) == {j \in before : given[j] = t}
           Added(t) == [i \in 1..Cardinality(At(t)) |-> s]
<1>1. \A t \in Signals : Cardinality(At(t)) \in Nat /\ (Cardinality(At(t)) = 0 <=> At(t) = {})
  <2> SUFFICES ASSUME NEW t \in Signals
               PROVE  Cardinality(At(t)) \in Nat /\ (Cardinality(At(t)) = 0 <=> At(t) = {})
    OBVIOUS
  <2>1. IsFiniteSet(1..Len(given))
    BY FS_Interval
  <2>2. IsFiniteSet(At(t))
    BY <2>1, FS_Subset
  <2> QED BY <2>2, FS_CardinalityType, FS_EmptySet
<1>2. /\ listeners' = [t \in Signals |-> listeners[t] \o Added(t)]
      /\ \A t \in Signals : (\E j \in before : given[j] = t) <=> At(t) # {}
  BY DEF Dependent
<1> HIDE DEF At
<1>3. ASSUME NEW t \in Signals
      PROVE  /\ listeners'[t] \in Seq(Signals \cup Listeners)
             /\ DOMAIN listeners[t] = 1..Len(listeners[t]) /\ Len(listeners[t]) \in Nat
             /\ DOMAIN listeners'[t] = 1..(Len(listeners[t]) + Cardinality(At(t)))
             /\ \A i \in DOMAIN listeners'[t] : listeners'[t][i] =
                  IF i <= Len(listeners[t]) THEN listeners[t][i] ELSE s
  <2>1. Added(t) \in Seq(Signals \cup Listeners) /\ Len(Added(t)) = Cardinality(At(t))
    BY <1>1
  <2>2. \A i \in 1..Cardinality(At(t)) : Added(t)[i] = s
    OBVIOUS
  <2>3. /\ listeners[t] \in Seq(Signals \cup Listeners) /\ Len(listeners[t]) \in Nat
        /\ DOMAIN listeners[t] = 1..Len(listeners[t])
    BY FrameFacts
  <2>4. listeners'[t] = listeners[t] \o Added(t)
    BY <1>2
  <2> DEFINE S == Signals \cup Listeners
             q == listeners[t]
             r == Added(t)
  <2>0. q \in Seq(S) /\ r \in Seq(S)
    BY <2>1, <2>3
  <2> HIDE DEF Added, S, q, r
  <2>8. /\ q \o r \in Seq(S)
        /\ Len(q \o r) = Len(q) + Len(r)
        /\ \A i \in 1..(Len(q) + Len(r)) : (q \o r)[i] =
             IF i <= Len(q) THEN q[i] ELSE r[i - Len(q)]
    BY <2>0, ConcatProperties
  <2>5. /\ listeners'[t] \in Seq(Signals \cup Listeners)
        /\ Len(listeners'[t]) = Len(listeners[t]) + Cardinality(At(t))
        /\ \A i \in 1..(Len(listeners[t]) + Cardinality(At(t))) : listeners'[t][i] =
             IF i <= Len(listeners[t]) THEN listeners[t][i] ELSE Added(t)[i - Len(listeners[t])]
    BY <2>1, <2>4, <2>8 DEF S, q, r
  <2>6. DOMAIN listeners'[t] = 1..(Len(listeners[t]) + Cardinality(At(t)))
    BY <2>5
  <2>7. \A i \in 1..(Len(listeners[t]) + Cardinality(At(t))) :
          ~(i <= Len(listeners[t])) => i - Len(listeners[t]) \in 1..Cardinality(At(t))
    BY <1>1, <2>3
  <2> QED BY <2>2, <2>3, <2>5, <2>6, <2>7
<1>4. ASSUME NEW t \in Signals, NEW i \in DOMAIN listeners'[t]
      PROVE  \/ i \in DOMAIN listeners[t] /\ listeners'[t][i] = listeners[t][i]
             \/ listeners'[t][i] = s /\ \E j \in before : given[j] = t
  <2>1. CASE i <= Len(listeners[t])
    BY <1>1, <1>3, <2>1
  <2>2. CASE ~(i <= Len(listeners[t]))
    <3>1. Cardinality(At(t)) # 0
      BY <1>1, <1>3, <2>2
    <3> QED BY <1>1, <1>2, <1>3, <2>2, <3>1
  <2> QED BY <2>1, <2>2
<1>5. ASSUME NEW j \in before
      PROVE  \E i \in DOMAIN listeners'[given[j]] : listeners'[given[j]][i] = s
  <2>1. given[j] \in Signals /\ Cardinality(At(given[j])) # 0
    BY <1>1, <1>2
  <2>2. /\ Len(listeners[given[j]]) + 1 \in DOMAIN listeners'[given[j]]
        /\ ~(Len(listeners[given[j]]) + 1 <= Len(listeners[given[j]]))
    BY <1>1, <1>3, <2>1
  <2> QED BY <1>3, <2>1, <2>2
<1>6. ASSUME NEW t \in Signals, NEW i \in DOMAIN listeners[t]
      PROVE  i \in DOMAIN listeners'[t] /\ listeners'[t][i] = listeners[t][i]
  BY <1>1, <1>3
<1>7. listeners' \in [Signals -> Seq(Signals \cup Listeners)]
  BY <1>2, <1>3
<1> QED BY <1>4, <1>5, <1>6, <1>7 DEF Joined

LEMMA SignalAnyKeeps ==
    ASSUME SignalsInv, NEW s \in Signals, NEW given \in Seq(Signals),
           \A t \in ToSet(given) : kind[t] # "none", SignalAny(s, given)
    PROVE  SignalsInv'
<1>0. PICK stop, before :
        /\ stop = {i \in 1..Len(given) : given[i] \in aborted}
        /\ before = {i \in 1..Len(given) : \A k \in stop : i < k}
  OBVIOUS
<1>1. /\ kind' = [kind EXCEPT ![s] = "any"] /\ kind[s] = "none"
      /\ sources' = [sources EXCEPT ![s] = ToSet(given)]
      /\ UNCHANGED <<onabort, dispatches, heard, taken, cut>>
  BY DEF SignalAny, Unmade
<1>2. Dependent(s, given, before)
  BY <1>0 DEF SignalAny, Dependent
<1>3. \/ stop = {} /\ UNCHANGED <<aborted, reason>>
      \/ /\ aborted' = aborted \cup {s}
         /\ \E i \in stop : reason' = [reason EXCEPT ![s] = reason[given[i]]]
  BY <1>0 DEF SignalAny
<1>4. stop = {} => before = 1..Len(given)
  BY <1>0
<1>5. before \in SUBSET (1..Len(given)) /\ stop \in SUBSET (1..Len(given))
      /\ \A i \in stop : given[i] \in aborted
  BY <1>0
<1>6. SignalsTypeOK /\ DOMAIN given = 1..Len(given) /\ ToSet(given) = {given[i] : i \in 1..Len(given)}
  BY DEF SignalsInv, ToSet
<1>7. /\ listeners' \in [Signals -> Seq(Signals \cup Listeners)]
      /\ \A t \in Signals : \A i \in DOMAIN listeners[t] :
           i \in DOMAIN listeners'[t] /\ listeners'[t][i] = listeners[t][i]
      /\ \A t \in Signals : \A i \in DOMAIN listeners'[t] :
           \/ i \in DOMAIN listeners[t] /\ listeners'[t][i] = listeners[t][i]
           \/ listeners'[t][i] = s /\ \E j \in before : given[j] = t
      /\ \A j \in before : \E i \in DOMAIN listeners'[given[j]] : listeners'[given[j]][i] = s
  <2>1. Joined(s, given, before)
    BY <1>2, <1>5, <1>6, DependentFacts
  <2> QED BY <2>1 DEF Joined
<1>8. s \notin ToSet(given) /\ s \notin aborted /\ \A u \in Signals : s \notin sources[u]
  BY <1>1 DEF SignalsInv, Linked
<1>9. /\ \A u \in Signals \ {s} : kind'[u] = kind[u] /\ sources'[u] = sources[u]
      /\ kind'[s] = "any" /\ sources'[s] = ToSet(given)
  BY <1>1, <1>6 DEF SignalsTypeOK
<1>10. /\ aborted \subseteq aborted' /\ aborted' \subseteq aborted \cup {s}
       /\ reason' \in [Signals -> Signals] /\ \A u \in Signals \ {s} : reason'[u] = reason[u]
  BY <1>3, <1>5, <1>6 DEF SignalsTypeOK
<1>11. SignalsTypeOK'
  BY <1>1, <1>6, <1>7, <1>10 DEF SignalsTypeOK, Kinds
<1>12. Linked'
  <2>1. ASSUME NEW t \in Signals, NEW i \in DOMAIN listeners'[t], listeners'[t][i] \in Signals
        PROVE  t \in sources'[listeners'[t][i]] /\ kind'[listeners'[t][i]] = "any"
    <3>1. CASE i \in DOMAIN listeners[t] /\ listeners'[t][i] = listeners[t][i]
      <4>1. t \in sources[listeners[t][i]] /\ kind[listeners[t][i]] = "any"
        BY <2>1, <3>1 DEF SignalsInv, Linked
      <4> QED BY <1>1, <1>9, <2>1, <3>1, <4>1
    <3>2. CASE listeners'[t][i] = s /\ \E j \in before : given[j] = t
      BY <1>5, <1>6, <1>9, <3>2
    <3> QED BY <1>7, <2>1, <3>1, <3>2
  <2>2. ASSUME NEW k \in DOMAIN dispatches, NEW i \in DOMAIN Left(k), Left(k)[i] \in Signals
        PROVE  dispatches[k].signal \in sources'[Left(k)[i]] /\ kind'[Left(k)[i]] = "any"
    <3>1. dispatches[k].signal \in sources[Left(k)[i]] /\ kind[Left(k)[i]] = "any"
      BY <2>2 DEF SignalsInv, Linked
    <3> QED BY <1>1, <1>9, <2>2, <3>1
  <2>3. \A u \in Signals : \A t \in sources'[u] : kind'[t] # "none"
    <3>1. \A t \in Signals : kind[t] # "none" => kind'[t] # "none"
      BY <1>9
    <3>2. \A u \in Signals : sources[u] \subseteq Signals
      BY <1>6 DEF SignalsTypeOK
    <3>3. \A u \in Signals \ {s} : \A t \in sources'[u] : kind'[t] # "none"
      BY <1>9, <3>1, <3>2 DEF SignalsInv, Linked
    <3>4. \A t \in sources'[s] : kind'[t] # "none"
      BY <1>6, <1>9, <3>1
    <3> QED BY <3>3, <3>4
  <2>4. \A u \in Signals : kind'[u] = "none" => sources'[u] = {} /\ u \notin aborted'
    BY <1>9, <1>10 DEF SignalsInv, Linked
  <2> QED BY <1>1, <2>1, <2>2, <2>3, <2>4 DEF Linked, Left
<1>13. Begun'
  BY <1>1, <1>10 DEF SignalsInv, Begun, Left
<1>14. Agree'
  <2>1. ASSUME NEW u \in Signals \ {s}, kind'[u] = "any", u \in aborted'
        PROVE  \E t \in sources'[u] \cap aborted' : reason'[u] = reason'[t]
    <3>1. kind[u] = "any" /\ u \in aborted /\ sources'[u] = sources[u] /\ sources[u] \subseteq Signals
      BY <1>6, <1>9, <1>10, <2>1 DEF SignalsTypeOK
    <3>2. PICK t \in sources[u] \cap aborted : reason[u] = reason[t]
      BY <3>1 DEF SignalsInv, Agree
    <3>3. t # s /\ t \in Signals /\ t \in aborted'
      BY <1>8, <1>10, <3>1, <3>2
    <3> QED BY <1>10, <3>1, <3>2, <3>3
  <2>2. ASSUME NEW u \in Signals \ {s}, kind'[u] = "any", u \notin aborted',
               NEW t \in sources'[u]
        PROVE  Awaits(u, t)'
    <3>1. kind[u] = "any" /\ u \notin aborted /\ t \in sources[u] /\ t # s /\ t \in Signals
      BY <1>6, <1>8, <1>9, <1>10, <2>2 DEF SignalsTypeOK
    <3>2. Awaits(u, t)
      BY <3>1 DEF SignalsInv, Agree
    <3>3. t \in aborted' <=> t \in aborted
      BY <1>10, <3>1
    <3> QED BY <1>1, <1>7, <3>1, <3>2, <3>3 DEF Awaits, Left
  <2>3. ASSUME s \in aborted'
        PROVE  \E t \in sources'[s] \cap aborted' : reason'[s] = reason'[t]
    <3>1. PICK i \in stop : reason' = [reason EXCEPT ![s] = reason[given[i]]]
      BY <1>3, <1>8, <2>3
    <3>2. given[i] \in ToSet(given) /\ given[i] \in aborted' /\ given[i] # s /\ given[i] \in Signals
      BY <1>5, <1>6, <1>8, <1>10
    <3>3. reason'[s] = reason[given[i]] /\ reason'[given[i]] = reason[given[i]]
      BY <1>6, <3>1, <3>2 DEF SignalsTypeOK
    <3> QED BY <1>9, <3>2, <3>3
  <2>4. ASSUME s \notin aborted', NEW t \in sources'[s]
        PROVE  Awaits(s, t)'
    <3>1. stop = {} /\ aborted' = aborted
      BY <1>3, <2>4
    <3>2. PICK j \in 1..Len(given) : given[j] = t
      BY <1>6, <1>9, <2>4
    <3>3. t \notin aborted'
      BY <1>0, <3>1, <3>2
    <3>4. j \in before
      BY <1>4, <3>1
    <3> QED BY <1>7, <3>2, <3>3, <3>4 DEF Awaits
  <2> QED BY <2>1, <2>2, <2>3, <2>4 DEF Agree
<1>15. Unheard' /\ InOnePlace'
  <2>1. \A t \in Signals : \A i \in DOMAIN listeners'[t] : listeners'[t][i] \in Listeners =>
          i \in DOMAIN listeners[t] /\ listeners'[t][i] = listeners[t][i]
    BY <1>7, SignalsAssumption
  <2>2. Signals \ aborted' \subseteq Signals \ aborted
    BY <1>10
  <2>3. Unheard'
    BY <1>1, <2>1, <2>2 DEF SignalsInv, Unheard, Left
  <2>4. InOnePlace'
    BY <1>1, <2>1, <2>2 DEF SignalsInv, InOnePlace, Left
  <2> QED BY <2>3, <2>4
<1>16. Kept' /\ Once'
  BY <1>1 DEF SignalsInv, Kept, Once, Left
<1> QED BY <1>11, <1>12, <1>13, <1>14, <1>15, <1>16 DEF SignalsInv

-------------------------------------------------------------------------------
\* The abort of a signal, and the walk through its listeners.

\* Frames that stand for the dispatches with what is next in one of them taken.
Skipped(outer, k) == IF outer[k].rest = Left(k) THEN 0 ELSE 1
Advanced(outer, next) ==
    /\ outer \in Seq(Frame) /\ Len(outer) = Len(dispatches)
    /\ \A k \in DOMAIN dispatches :
         /\ outer[k].signal = dispatches[k].signal
         /\ outer[k].at = "handler" => outer[k].rest = <<>>
         /\ \/ outer[k].rest = Left(k)
            \/ Left(k) # <<>> /\ Head(Left(k)) = next /\ outer[k].rest = Tail(Left(k))

\* An element that is left was there, and one that was there and is not next is left.
Walks(outer, next) ==
    /\ DOMAIN outer = DOMAIN dispatches
    /\ \A k \in DOMAIN dispatches :
         /\ outer[k].signal = dispatches[k].signal
         /\ outer[k].at = "handler" => outer[k].rest = <<>>
         /\ Skipped(outer, k) \in 0..1
         /\ \A i \in DOMAIN outer[k].rest :
              /\ i \in Nat /\ i + Skipped(outer, k) \in DOMAIN Left(k)
              /\ outer[k].rest[i] = Left(k)[i + Skipped(outer, k)]
         /\ \A i \in DOMAIN Left(k) : Left(k)[i] # next =>
              \E j \in DOMAIN outer[k].rest : outer[k].rest[j] = Left(k)[i]

LEMMA AdvancedWalks ==
    ASSUME SignalsTypeOK, NEW outer, NEW next, Advanced(outer, next)
    PROVE  Walks(outer, next)
<1>1. DOMAIN outer = DOMAIN dispatches
  BY FrameFacts DEF Advanced
<1>2. ASSUME NEW k \in DOMAIN dispatches
      PROVE  /\ outer[k].signal = dispatches[k].signal
             /\ outer[k].at = "handler" => outer[k].rest = <<>>
             /\ Skipped(outer, k) \in 0..1
             /\ \A i \in DOMAIN outer[k].rest :
                  /\ i \in Nat /\ i + Skipped(outer, k) \in DOMAIN Left(k)
                  /\ outer[k].rest[i] = Left(k)[i + Skipped(outer, k)]
             /\ \A i \in DOMAIN Left(k) : Left(k)[i] # next =>
                  \E j \in DOMAIN outer[k].rest : outer[k].rest[j] = Left(k)[i]
  <2>1. /\ Left(k) \in Seq(Signals \cup Listeners) /\ Len(Left(k)) \in Nat
        /\ DOMAIN Left(k) = 1..Len(Left(k))
    BY FrameFacts
  <2>2. CASE outer[k].rest = Left(k)
    BY <2>1, <2>2 DEF Advanced, Skipped
  <2>3. CASE outer[k].rest # Left(k)
    <3>1. Left(k) # <<>> /\ Head(Left(k)) = next /\ outer[k].rest = Tail(Left(k))
      BY <2>3 DEF Advanced
    <3>2. Left(k)[1] = next /\ Len(Left(k)) # 0
      BY <2>1, <3>1
    <3>3. /\ DOMAIN outer[k].rest = 1..(Len(Left(k)) - 1)
          /\ \A i \in 1..(Len(Left(k)) - 1) : outer[k].rest[i] = Left(k)[i + 1]
      BY <2>1, <3>1
    <3>4. Skipped(outer, k) = 1
      BY <2>3 DEF Skipped
    <3>5. \A i \in DOMAIN Left(k) : Left(k)[i] # next =>
            i - 1 \in 1..(Len(Left(k)) - 1) /\ (i - 1) + 1 = i
      BY <2>1, <3>2
    <3>6. \A i \in DOMAIN Left(k) : Left(k)[i] # next =>
            \E j \in DOMAIN outer[k].rest : outer[k].rest[j] = Left(k)[i]
      BY <3>3, <3>5
    <3>7. \A i \in DOMAIN outer[k].rest :
            /\ i \in Nat /\ i + 1 \in DOMAIN Left(k)
            /\ outer[k].rest[i] = Left(k)[i + 1]
      BY <2>1, <3>2, <3>3
    <3> QED BY <3>4, <3>6, <3>7 DEF Advanced
  <2> QED BY <2>2, <2>3
<1> QED BY <1>1, <1>2 DEF Walks

\* The abort of a signal that is passed over.
LEMMA PassedKeeps ==
    ASSUME SignalsInv, NEW next \in aborted, Advanced(dispatches', next),
           UNCHANGED <<kind, sources, aborted, reason, listeners, onabort, heard, taken, cut>>
    PROVE  SignalsInv'
<1>1. SignalsTypeOK /\ next \in Signals /\ next \notin Listeners
  BY SignalsAssumption DEF SignalsInv, SignalsTypeOK
<1>2. PICK outer : outer = dispatches'
  OBVIOUS
<1>3. Advanced(outer, next)
  BY <1>2 DEF Advanced
<1>4. Walks(outer, next)
  BY <1>1, <1>3, AdvancedWalks
<1>5. /\ DOMAIN dispatches' = DOMAIN dispatches
      /\ \A k \in DOMAIN dispatches : Left(k)' = outer[k].rest /\ dispatches'[k] = outer[k]
  BY <1>2, <1>4 DEF Walks, Left
<1>6. SignalsTypeOK'
  BY DEF SignalsInv, SignalsTypeOK, Advanced
<1>7. Linked'
  BY <1>4, <1>5 DEF SignalsInv, Linked, Walks
<1>8. Begun'
  BY <1>4, <1>5 DEF SignalsInv, Begun, Walks
<1>9. Unheard'
  BY <1>4, <1>5 DEF SignalsInv, Unheard, Walks
<1>10. InOnePlace'
  <2>1. ASSUME NEW k \in DOMAIN dispatches, NEW m \in DOMAIN dispatches,
               NEW i \in DOMAIN outer[k].rest, NEW j \in DOMAIN outer[m].rest,
               outer[k].rest[i] = outer[m].rest[j], outer[k].rest[i] \in Listeners
        PROVE  k = m /\ i = j
    <3>1. k = m /\ i + Skipped(outer, k) = j + Skipped(outer, m)
      BY <1>4, <2>1 DEF SignalsInv, InOnePlace, Walks
    <3> QED BY <1>4, <3>1 DEF Walks
  <2> QED BY <1>4, <1>5, <2>1 DEF SignalsInv, InOnePlace, Walks
<1>11. Agree'
  <2>1. ASSUME NEW u \in Signals, NEW t \in Signals, u \notin aborted, Awaits(u, t)
        PROVE  Awaits(u, t)'
    BY <1>4, <1>5, <2>1 DEF Awaits, Walks
  <2>2. \A u \in Signals : sources[u] \subseteq Signals
    BY <1>1 DEF SignalsTypeOK
  <2> QED BY <2>1, <2>2 DEF SignalsInv, Agree
<1>12. Kept' /\ Once'
  <2>1. \A e \in taken : e[2] \in Listeners
    BY <1>1 DEF SignalsTypeOK
  <2> QED BY <1>1, <1>4, <1>5, <2>1 DEF SignalsInv, Kept, Once, Walks
<1> QED BY <1>6, <1>7, <1>8, <1>9, <1>10, <1>11, <1>12 DEF SignalsInv

LEMMA TailIsShorter ==
    ASSUME NEW S, NEW q \in Seq(S), Len(q) # 0
    PROVE  Tail(q) # q
<1>1. Len(q) \in Nat
  OBVIOUS
<1>2. Len(Tail(q)) = Len(q) - 1
  BY <1>1
<1>3. \A n \in Nat : n - 1 # n
  OBVIOUS
<1>4. Len(Tail(q)) # Len(q)
  BY <1>1, <1>2, <1>3, Zenon
<1> QED BY <1>4, Zenon

\* The call of a listener, which may stay in the list of its signal.
LEMMA CalledKeeps ==
    ASSUME SignalsInv, NEW next \in Listeners, Advanced(dispatches', next),
           NEW k \in DOMAIN dispatches, Left(k) # <<>>, Head(Left(k)) = next,
           dispatches'[k].rest = Tail(Left(k)),
           heard' = [heard EXCEPT ![next] = @ + 1],
           \/ UNCHANGED listeners
           \/ listeners' = [listeners EXCEPT ![dispatches[k].signal] = Append(@, next)],
           UNCHANGED <<kind, sources, aborted, reason, onabort, taken, cut>>
    PROVE  SignalsInv'
<1>1. SignalsTypeOK /\ next \notin Signals /\ dispatches[k].signal \in Signals \cap aborted
  BY SignalsAssumption, FrameFacts DEF SignalsInv, Begun
<1>2. PICK outer : outer = dispatches'
  OBVIOUS
<1>3. Advanced(outer, next)
  BY <1>2 DEF Advanced
<1>4. Walks(outer, next)
  BY <1>1, <1>3, AdvancedWalks
<1>5. /\ DOMAIN dispatches' = DOMAIN dispatches
      /\ \A m \in DOMAIN dispatches : Left(m)' = outer[m].rest /\ dispatches'[m] = outer[m]
  BY <1>2, <1>4 DEF Walks, Left
<1>6. /\ \A t \in Signals : \A i \in DOMAIN listeners[t] :
           i \in DOMAIN listeners'[t] /\ listeners'[t][i] = listeners[t][i]
      /\ \A t \in Signals : \A i \in DOMAIN listeners'[t] :
           \/ i \in DOMAIN listeners[t] /\ listeners'[t][i] = listeners[t][i]
           \/ t \in aborted /\ listeners'[t][i] = next
      /\ listeners' \in [Signals -> Seq(Signals \cup Listeners)]
  <2>1. CASE UNCHANGED listeners
    BY <1>1, <2>1 DEF SignalsTypeOK
  <2>2. CASE listeners' = [listeners EXCEPT ![dispatches[k].signal] = Append(@, next)]
    <3> DEFINE s == dispatches[k].signal
    <3>1. /\ s \in Signals /\ s \in aborted /\ listeners[s] \in Seq(Signals \cup Listeners)
          /\ DOMAIN listeners[s] = 1..Len(listeners[s]) /\ Len(listeners[s]) \in Nat
      BY <1>1, FrameFacts
    <3> DEFINE w == Append(listeners[s], next)
    <3>2. listeners' = [listeners EXCEPT ![s] = w]
      BY <2>2
    <3> HIDE DEF s
    <3>3. /\ w \in Seq(Signals \cup Listeners) /\ DOMAIN w = 1..(Len(listeners[s]) + 1)
          /\ \A i \in 1..Len(listeners[s]) : w[i] = listeners[s][i]
          /\ w[Len(listeners[s]) + 1] = next
      BY <3>1
    <3> HIDE DEF w
    <3>4. /\ listeners' \in [Signals -> Seq(Signals \cup Listeners)] /\ listeners'[s] = w
          /\ \A t \in Signals \ {s} : listeners'[t] = listeners[t]
      BY <1>1, <3>1, <3>2, <3>3 DEF SignalsTypeOK
    <3>5. \A i \in DOMAIN w : i \in 1..Len(listeners[s]) \/ w[i] = next
      BY <3>1, <3>3
    <3>6. \A i \in 1..Len(listeners[s]) : i \in DOMAIN w
      BY <3>1, <3>3
    <3> QED BY <3>1, <3>3, <3>4, <3>5, <3>6
  <2> QED BY <2>1, <2>2
<1>7. /\ heard[next] = 0 /\ heard'[next] = 1 /\ heard' \in [Listeners -> Nat]
      /\ \A l \in Listeners \ {next} : heard'[l] = heard[l]
  <2>1. 1 \in DOMAIN Left(k) /\ Left(k)[1] = next
    BY <1>1, FrameFacts
  <2>2. heard[next] = 0 /\ heard \in [Listeners -> Nat]
    BY <2>1 DEF SignalsInv, Unheard, SignalsTypeOK
  <2> QED BY <2>2
\* The listener is nowhere else, neither in a list nor in what is left.
<1>8. /\ \A t \in Signals \ aborted : \A i \in DOMAIN listeners[t] : listeners[t][i] # next
      /\ \A m \in DOMAIN dispatches : \A i \in DOMAIN outer[m].rest : outer[m].rest[i] # next
  <2>1. 1 \in DOMAIN Left(k) /\ Left(k)[1] = next
    BY <1>1, FrameFacts
  <2>2. \A t \in Signals \ aborted : \A i \in DOMAIN listeners[t] : listeners[t][i] # next
    BY <2>1 DEF SignalsInv, InOnePlace
  <2>3. ASSUME NEW m \in DOMAIN dispatches, NEW i \in DOMAIN outer[m].rest, outer[m].rest[i] = next
        PROVE  FALSE
    <3>1. m = k /\ i + Skipped(outer, m) = 1
      BY <1>4, <2>1, <2>3 DEF SignalsInv, InOnePlace, Walks
    <3>2. Skipped(outer, k) = 1
      <4>1. outer[k].rest = Tail(Left(k))
        BY <1>2
      <4>2. Left(k) \in Seq(Signals \cup Listeners) /\ Len(Left(k)) # 0 /\ Len(Left(k)) \in Nat
        BY <1>1, FrameFacts
      <4>4. Tail(Left(k)) # Left(k)
        BY <4>2, TailIsShorter
      <4> QED BY <4>1, <4>4 DEF Skipped
    <3>3. i \in 1..Len(outer[k].rest)
      <4>1. outer[k].rest = Tail(Left(k)) /\ Left(k) \in Seq(Signals \cup Listeners) /\ Left(k) # <<>>
        BY <1>1, <1>2, FrameFacts
      <4> QED BY <3>1, <4>1, <2>3
    <3> QED BY <3>1, <3>2, <3>3
  <2> QED BY <2>2, <2>3
<1>9. SignalsTypeOK'
  BY <1>6, <1>7 DEF SignalsInv, SignalsTypeOK, Advanced
<1>10. Linked'
  <2>1. \A t \in Signals : \A i \in DOMAIN listeners'[t] : listeners'[t][i] \in Signals =>
          i \in DOMAIN listeners[t] /\ listeners'[t][i] = listeners[t][i]
    BY <1>1, <1>6
  <2>2. \A t \in Signals : \A i \in DOMAIN listeners'[t] : listeners'[t][i] \in Signals =>
          t \in sources[listeners'[t][i]] /\ kind[listeners'[t][i]] = "any"
    BY <2>1 DEF SignalsInv, Linked
  <2>3. \A m \in DOMAIN dispatches : \A i \in DOMAIN outer[m].rest : outer[m].rest[i] \in Signals =>
          outer[m].signal \in sources[outer[m].rest[i]] /\ kind[outer[m].rest[i]] = "any"
    BY <1>4 DEF SignalsInv, Linked, Walks
  <2> QED BY <1>5, <2>2, <2>3 DEF SignalsInv, Linked
<1>11. Begun'
  BY <1>4, <1>5 DEF SignalsInv, Begun, Walks
<1>12. Unheard'
  <2>1. \A t \in Signals \ aborted : \A i \in DOMAIN listeners'[t] :
          listeners'[t][i] \in Listeners => heard'[listeners'[t][i]] = 0
    BY <1>6, <1>7, <1>8 DEF SignalsInv, Unheard
  <2>2. \A m \in DOMAIN dispatches : \A i \in DOMAIN outer[m].rest :
          outer[m].rest[i] \in Listeners => heard'[outer[m].rest[i]] = 0
    BY <1>4, <1>7, <1>8 DEF SignalsInv, Unheard, Walks
  <2> QED BY <1>5, <2>1, <2>2 DEF Unheard
<1>13. InOnePlace'
  <2>1. ASSUME NEW m \in DOMAIN dispatches, NEW n \in DOMAIN dispatches,
               NEW i \in DOMAIN outer[m].rest, NEW j \in DOMAIN outer[n].rest,
               outer[m].rest[i] = outer[n].rest[j], outer[m].rest[i] \in Listeners
        PROVE  m = n /\ i = j
    <3>1. m = n /\ i + Skipped(outer, m) = j + Skipped(outer, n)
      BY <1>4, <2>1 DEF SignalsInv, InOnePlace, Walks
    <3> QED BY <1>4, <3>1 DEF Walks
  <2>2. \A t \in Signals \ aborted : \A i \in DOMAIN listeners'[t] :
          i \in DOMAIN listeners[t] /\ listeners'[t][i] = listeners[t][i]
    BY <1>6
  <2> QED BY <1>4, <1>5, <2>1, <2>2 DEF SignalsInv, InOnePlace, Walks
<1>14. Agree'
  <2>1. ASSUME NEW u \in Signals, NEW t \in Signals, Awaits(u, t)
        PROVE  Awaits(u, t)'
    BY <1>1, <1>4, <1>5, <1>6, <2>1 DEF Awaits, Walks
  <2>2. \A u \in Signals : sources[u] \subseteq Signals
    BY <1>1 DEF SignalsTypeOK
  <2> QED BY <2>1, <2>2 DEF SignalsInv, Agree
<1>15. Kept'
  <2>1. \A e \in taken : e[2] \in Listeners
    BY <1>1 DEF SignalsTypeOK
  <2> QED BY <1>4, <1>5, <1>7, <2>1 DEF SignalsInv, Kept, Walks
<1>16. Once'
  BY <1>7 DEF SignalsInv, Once
<1> QED BY <1>9, <1>10, <1>11, <1>12, <1>13, <1>14, <1>15, <1>16 DEF SignalsInv

\* The abort of a signal, alone or as the next in the walk of one it depends on.
LEMMA BeginKeeps ==
    ASSUME SignalsInv, NEW s \in Signals, s \notin aborted, kind[s] # "none",
           NEW why \in Signals, NEW outer, Advanced(outer, s),
           kind[s] = "any" => \E t \in sources[s] \cap aborted : why = reason[t],
           Begin(s, why, outer), UNCHANGED <<kind, sources, onabort, heard, cut>>
    PROVE  SignalsInv'
<1>1. SignalsTypeOK /\ s \notin Listeners
  BY SignalsAssumption DEF SignalsInv
<1>2. Walks(outer, s)
  BY <1>1, AdvancedWalks
<1>3. PICK new : new = [signal |-> s, rest |-> listeners[s], at |-> "list"]
  OBVIOUS
<1>4. /\ aborted' = aborted \cup {s} /\ reason' = [reason EXCEPT ![s] = why]
      /\ dispatches' = Append(outer, new)
      /\ listeners' = [listeners EXCEPT ![s] = <<>>]
      /\ taken' = taken \cup ({s} \X (ToSet(listeners[s]) \cap Listeners))
  BY <1>3 DEF Begin
<1>5. /\ new \in Frame /\ new.signal = s /\ new.rest = listeners[s] /\ new.at = "list"
      /\ listeners[s] \in Seq(Signals \cup Listeners)
  BY <1>1, <1>3, FrameFacts DEF Frame
<1>6. PICK last : last = Len(dispatches) + 1
  OBVIOUS
<1>7. /\ dispatches' \in Seq(Frame) /\ last \notin DOMAIN dispatches
      /\ DOMAIN dispatches' = DOMAIN dispatches \cup {last}
      /\ dispatches'[last] = new /\ \A k \in DOMAIN dispatches : dispatches'[k] = outer[k]
  <2>1. /\ outer \in Seq(Frame) /\ Len(outer) = Len(dispatches) /\ Len(dispatches) \in Nat
        /\ DOMAIN dispatches = 1..Len(dispatches)
    BY <1>1, FrameFacts DEF Advanced
  <2> QED BY <1>4, <1>5, <1>6, <2>1
<1>8. /\ Left(last)' = listeners[s]
      /\ \A k \in DOMAIN dispatches : Left(k)' = outer[k].rest
  BY <1>5, <1>7 DEF Left
<1>9. /\ listeners' \in [Signals -> Seq(Signals \cup Listeners)]
      /\ listeners'[s] = <<>> /\ \A t \in Signals \ {s} : listeners'[t] = listeners[t]
      /\ reason' \in [Signals -> Signals]
      /\ reason'[s] = why /\ \A t \in Signals \ {s} : reason'[t] = reason[t]
  BY <1>1, <1>4 DEF SignalsTypeOK
<1>10. ToSet(listeners[s]) = {listeners[s][i] : i \in DOMAIN listeners[s]}
  BY <1>5 DEF ToSet
<1>11. SignalsTypeOK'
  <2>1. aborted' \subseteq Signals /\ taken' \subseteq Signals \X Listeners
    BY <1>1, <1>4 DEF SignalsTypeOK
  <2> QED BY <1>1, <1>7, <1>9, <2>1 DEF SignalsTypeOK
<1>12. Linked'
  <2>1. \A t \in Signals : \A i \in DOMAIN listeners'[t] : listeners'[t][i] \in Signals =>
          t \in sources[listeners'[t][i]] /\ kind[listeners'[t][i]] = "any"
    <3>1. \A t \in Signals \ {s} : \A i \in DOMAIN listeners'[t] : listeners'[t][i] \in Signals =>
            t \in sources[listeners'[t][i]] /\ kind[listeners'[t][i]] = "any"
      <4>1. ASSUME NEW t \in Signals \ {s}, NEW i \in DOMAIN listeners[t], listeners[t][i] \in Signals
            PROVE  t \in sources[listeners[t][i]] /\ kind[listeners[t][i]] = "any"
        BY <4>1 DEF SignalsInv, Linked
      <4>2. \A t \in Signals \ {s} : listeners'[t] = listeners[t]
        BY <1>9
      <4> QED BY <4>1, <4>2
    <3>2. DOMAIN listeners'[s] = {}
      BY <1>9
    <3> QED BY <3>1, <3>2
  <2>2. \A k \in DOMAIN dispatches : \A i \in DOMAIN outer[k].rest : outer[k].rest[i] \in Signals =>
          outer[k].signal \in sources[outer[k].rest[i]] /\ kind[outer[k].rest[i]] = "any"
    BY <1>2 DEF SignalsInv, Linked, Walks
  <2>3. \A i \in DOMAIN listeners[s] : listeners[s][i] \in Signals =>
          new.signal \in sources[listeners[s][i]] /\ kind[listeners[s][i]] = "any"
    BY <1>5 DEF SignalsInv, Linked
  <2>4. \A k \in DOMAIN dispatches' : \A i \in DOMAIN Left(k)' : Left(k)'[i] \in Signals =>
          dispatches'[k].signal \in sources[Left(k)'[i]] /\ kind[Left(k)'[i]] = "any"
    BY <1>7, <1>8, <2>2, <2>3
  <2>5. \A u \in Signals : kind[u] = "none" => sources[u] = {} /\ u \notin aborted'
    BY <1>4 DEF SignalsInv, Linked
  <2> QED BY <2>1, <2>4, <2>5 DEF SignalsInv, Linked
<1>13. Begun'
  <2>1. \A k \in DOMAIN dispatches : outer[k].signal \in aborted'
                                    /\ (outer[k].at = "handler" => outer[k].rest = <<>>)
    BY <1>2, <1>4 DEF SignalsInv, Begun, Walks
  <2> QED BY <1>4, <1>5, <1>7, <1>8, <2>1 DEF Begun
<1>14. Unheard'
  <2>1. \A k \in DOMAIN dispatches : \A i \in DOMAIN outer[k].rest :
          outer[k].rest[i] \in Listeners => heard[outer[k].rest[i]] = 0
    BY <1>2 DEF SignalsInv, Unheard, Walks
  <2>2. \A i \in DOMAIN listeners[s] :
          listeners[s][i] \in Listeners => heard[listeners[s][i]] = 0
    BY DEF SignalsInv, Unheard
  <2>3. \A t \in Signals \ aborted' : t \in Signals \ aborted /\ listeners'[t] = listeners[t]
    BY <1>4, <1>9
  <2>4. \A t \in Signals \ aborted' : \A i \in DOMAIN listeners'[t] :
          listeners'[t][i] \in Listeners => heard[listeners'[t][i]] = 0
    BY <2>3 DEF SignalsInv, Unheard
  <2> QED BY <1>7, <1>8, <2>1, <2>2, <2>4 DEF Unheard
<1>15. InOnePlace'
  <2>1. ASSUME NEW k \in DOMAIN dispatches, NEW m \in DOMAIN dispatches,
               NEW i \in DOMAIN outer[k].rest, NEW j \in DOMAIN outer[m].rest,
               outer[k].rest[i] = outer[m].rest[j], outer[k].rest[i] \in Listeners
        PROVE  k = m /\ i = j
    <3>1. k = m /\ i + Skipped(outer, k) = j + Skipped(outer, m)
      BY <1>2, <2>1 DEF SignalsInv, InOnePlace, Walks
    <3> QED BY <1>2, <3>1 DEF Walks
  <2>2. \A i, j \in DOMAIN listeners[s] :
          listeners[s][i] = listeners[s][j] /\ listeners[s][i] \in Listeners => i = j
    BY DEF SignalsInv, InOnePlace
  <2>3. \A t \in Signals \ aborted : \A k \in DOMAIN dispatches :
          \A i \in DOMAIN listeners[t], j \in DOMAIN outer[k].rest :
          listeners[t][i] = outer[k].rest[j] => listeners[t][i] \notin Listeners
    BY <1>2 DEF SignalsInv, InOnePlace, Walks
  <2>4. \A k, m \in DOMAIN dispatches' : \A i \in DOMAIN Left(k)', j \in DOMAIN Left(m)' :
          Left(k)'[i] = Left(m)'[j] /\ Left(k)'[i] \in Listeners => k = m /\ i = j
    BY <1>7, <1>8, <2>1, <2>2, <2>3
  <2>5. \A t \in Signals \ aborted' : t \in Signals \ aborted /\ t # s /\ listeners'[t] = listeners[t]
    BY <1>4, <1>9
  <2>6. \A t, u \in Signals \ aborted' : \A i \in DOMAIN listeners'[t], j \in DOMAIN listeners'[u] :
          listeners'[t][i] = listeners'[u][j] /\ listeners'[t][i] \in Listeners => t = u /\ i = j
    BY <2>5 DEF SignalsInv, InOnePlace
  <2>7. \A t \in Signals \ aborted' :
          \A i \in DOMAIN listeners'[t], j \in DOMAIN listeners[s] :
          listeners'[t][i] = listeners[s][j] => listeners'[t][i] \notin Listeners
    BY <2>5 DEF SignalsInv, InOnePlace
  <2>8. \A t \in Signals \ aborted', k \in DOMAIN dispatches' :
          \A i \in DOMAIN listeners'[t], j \in DOMAIN Left(k)' :
          listeners'[t][i] = Left(k)'[j] => listeners'[t][i] \notin Listeners
    BY <1>7, <1>8, <2>3, <2>5, <2>7
  <2> QED BY <2>4, <2>6, <2>8 DEF InOnePlace
<1>16. Agree'
  <2>1. \A u \in Signals : sources[u] \subseteq Signals
    BY <1>1 DEF SignalsTypeOK
  <2>2. ASSUME NEW u \in Signals, u # s, NEW t \in Signals, Awaits(u, t)
        PROVE  Awaits(u, t)'
    <3>1. CASE t = s
      <4>1. PICK i \in DOMAIN listeners[s] : listeners[s][i] = u
        BY <2>2, <3>1 DEF Awaits
      <4> QED BY <1>4, <1>5, <1>7, <1>8, <3>1, <4>1 DEF Awaits
    <3>2. CASE t # s /\ t \notin aborted
      BY <1>4, <1>9, <2>2, <3>2 DEF Awaits
    <3>3. CASE t \in aborted /\ t \in cut
      BY <1>4, <3>3 DEF Awaits
    <3>4. CASE t \in aborted /\ t \notin cut
      <4>1. PICK k \in DOMAIN dispatches :
              dispatches[k].signal = t /\ \E i \in DOMAIN Left(k) : Left(k)[i] = u
        BY <2>2, <3>4 DEF Awaits
      <4>2. outer[k].signal = t /\ \E i \in DOMAIN outer[k].rest : outer[k].rest[i] = u
        BY <1>2, <2>2, <4>1 DEF Walks
      <4> QED BY <1>4, <1>7, <1>8, <3>4, <4>2 DEF Awaits
    <3> QED BY <3>1, <3>2, <3>3, <3>4
  <2>3. ASSUME kind[s] = "any"
        PROVE  \E t \in sources[s] \cap aborted' : reason'[s] = reason'[t]
    BY <1>4, <1>9, <2>1, <2>3
  <2>4. ASSUME NEW u \in Signals, u # s, kind[u] = "any", u \in aborted'
        PROVE  \E t \in sources[u] \cap aborted' : reason'[u] = reason'[t]
    <3>1. PICK t \in sources[u] \cap aborted : reason[u] = reason[t]
      BY <1>4, <2>4 DEF SignalsInv, Agree
    <3> QED BY <1>4, <1>9, <2>1, <2>4, <3>1
  <2>5. ASSUME NEW u \in Signals, kind[u] = "any", u \notin aborted', NEW t \in sources[u]
        PROVE  Awaits(u, t)'
    BY <1>4, <2>1, <2>2, <2>5 DEF SignalsInv, Agree
  <2> QED BY <1>4, <2>3, <2>4, <2>5 DEF Agree
<1>17. Kept'
  <2>1. \A e \in taken : e[2] \in Listeners
    BY <1>1 DEF SignalsTypeOK
  <2>2. ASSUME NEW e \in taken
        PROVE  \/ heard[e[2]] = 1 \/ e[1] \in cut
               \/ \E k \in DOMAIN dispatches' :
                    dispatches'[k].signal = e[1] /\ \E i \in DOMAIN Left(k)' : Left(k)'[i] = e[2]
    <3>1. CASE heard[e[2]] = 1 \/ e[1] \in cut
      BY <3>1
    <3>2. CASE ~(heard[e[2]] = 1 \/ e[1] \in cut)
      <4>1. PICK k \in DOMAIN dispatches :
              dispatches[k].signal = e[1] /\ \E i \in DOMAIN Left(k) : Left(k)[i] = e[2]
        BY <3>2 DEF SignalsInv, Kept
      <4>2. outer[k].signal = e[1] /\ \E i \in DOMAIN outer[k].rest : outer[k].rest[i] = e[2]
        BY <1>1, <1>2, <2>1, <4>1 DEF Walks
      <4> QED BY <1>7, <1>8, <4>2
    <3> QED BY <3>1, <3>2
  <2>3. ASSUME NEW e \in {s} \X (ToSet(listeners[s]) \cap Listeners)
        PROVE  \E k \in DOMAIN dispatches' :
                 dispatches'[k].signal = e[1] /\ \E i \in DOMAIN Left(k)' : Left(k)'[i] = e[2]
    <3>1. e[1] = s /\ \E i \in DOMAIN listeners[s] : listeners[s][i] = e[2]
      BY <1>10, <2>3
    <3> QED BY <1>5, <1>7, <1>8, <3>1
  <2>4. \A e \in taken' : e \in taken \/ e \in {s} \X (ToSet(listeners[s]) \cap Listeners)
    BY <1>4
  <2> QED BY <2>2, <2>3, <2>4 DEF Kept
<1>18. Once'
  BY DEF SignalsInv, Once
<1> QED BY <1>11, <1>12, <1>13, <1>14, <1>15, <1>16, <1>17, <1>18 DEF SignalsInv

LEMMA NothingAdvanced ==
    ASSUME SignalsInv, NEW next
    PROVE  Advanced(dispatches, next)
<1>1. dispatches \in Seq(Frame)
  BY DEF SignalsInv, SignalsTypeOK
<1> QED BY <1>1 DEF Advanced, SignalsInv, Begun, Left

LEMMA AbortKeeps ==
    ASSUME SignalsInv, NEW s \in Signals, Abort(s)
    PROVE  SignalsInv'
<1>1. PICK outer : outer = dispatches
  OBVIOUS
<1>2. /\ kind[s] \in {"controller", "timeout"} /\ s \notin aborted
      /\ UNCHANGED <<kind, sources, onabort, heard, cut>>
  BY DEF Abort
<1>3. Begin(s, s, outer)
  BY <1>1 DEF Abort, Begin
<1>4. Advanced(outer, s)
  BY <1>1, NothingAdvanced DEF Advanced
<1> QED BY <1>2, <1>3, <1>4, BeginKeeps

LEMMA CallKeeps ==
    ASSUME SignalsInv, Call
    PROVE  SignalsInv'
<1>1. SignalsTypeOK /\ dispatches # <<>> /\ Top.at = "list" /\ Top.rest # <<>>
  BY DEF SignalsInv, Call
<1>2. PICK k \in DOMAIN dispatches : k = Len(dispatches) /\ Top = dispatches[k]
  BY <1>1, TopFacts
<1>3. /\ Left(k) \in Seq(Signals \cup Listeners) /\ Left(k) # <<>> /\ Left(k) = Top.rest
      /\ Top.signal = dispatches[k].signal /\ Top.signal \in Signals
      /\ Top \in Frame
  BY <1>1, <1>2, FrameFacts DEF Left
<1>4. PICK next : next = Head(Left(k))
  OBVIOUS
<1>5. /\ next \in Signals \cup Listeners /\ 1 \in DOMAIN Left(k) /\ Left(k)[1] = next
      /\ Tail(Left(k)) \in Seq(Signals \cup Listeners)
  BY <1>3, <1>4
<1>6. UNCHANGED <<kind, sources, onabort, cut>>
  BY DEF Call
\* A frame that takes the place of the innermost one, without its next listener.
<1>7. ASSUME NEW f \in Frame, f.signal = Top.signal, f.rest = Tail(Top.rest), f.at # "handler"
      PROVE  Advanced(ToTop(f), next) /\ ToTop(f)[k] = f
  <2>1. \A m \in DOMAIN dispatches : dispatches[m].at = "handler" => Left(m) = <<>>
    BY DEF SignalsInv, Begun
  <2>2. /\ ToTop(f) \in Seq(Frame) /\ Len(ToTop(f)) = Len(dispatches)
        /\ \A m \in DOMAIN dispatches : ToTop(f)[m] = IF m = k THEN f ELSE dispatches[m]
    BY <1>1, <1>2, ToTopFacts
  <2> HIDE DEF ToTop
  <2> QED BY <1>2, <1>3, <1>4, <1>7, <2>1, <2>2 DEF Advanced, Left
<1>8. CASE next \in Listeners
  <2> DEFINE f == [Top EXCEPT !.rest = Tail(@), !.at = "listener"]
  <2>1. f \in Frame /\ f.signal = Top.signal /\ f.rest = Tail(Top.rest) /\ f.at # "handler"
    BY <1>3, <1>5 DEF Frame
  <2>2. /\ dispatches' = ToTop(f)
        /\ heard' = [heard EXCEPT ![next] = @ + 1]
        /\ \/ UNCHANGED listeners
           \/ listeners' = [listeners EXCEPT ![dispatches[k].signal] = Append(@, next)]
        /\ UNCHANGED <<aborted, reason, taken>>
    BY <1>3, <1>4, <1>8 DEF Call
  <2> HIDE DEF f
  <2>3. PICK outer : outer = ToTop(f)
    OBVIOUS
  <2>4. Advanced(dispatches', next) /\ dispatches'[k].rest = Tail(Left(k))
    BY <1>3, <1>7, <2>1, <2>2 DEF Advanced
  <2> QED BY <1>3, <1>4, <1>6, <1>8, <2>2, <2>4, CalledKeeps
<1>9. CASE next \notin Listeners
  <2> DEFINE f == [Top EXCEPT !.rest = Tail(@)]
  <2>1. f \in Frame /\ f.signal = Top.signal /\ f.rest = Tail(Top.rest) /\ f.at # "handler"
    BY <1>1, <1>3, <1>5 DEF Frame
  <2>2. PICK left : left = ToTop(f)
    OBVIOUS
  <2>3. /\ IF next \in aborted
           THEN dispatches' = left /\ UNCHANGED <<aborted, reason, listeners, taken>>
           ELSE Begin(next, reason[Top.signal], left)
        /\ UNCHANGED heard
    BY <1>3, <1>4, <1>9, <2>2 DEF Call, Passed, Begin
  <2> HIDE DEF f
  <2>4. Advanced(left, next)
    BY <1>7, <2>1, <2>2 DEF Advanced
  <2>5. CASE next \in aborted
    <3>1. Advanced(dispatches', next)
      BY <2>3, <2>4, <2>5 DEF Advanced
    <3> QED BY <1>6, <2>3, <2>5, <3>1, PassedKeeps
  <2>6. CASE next \notin aborted
    <3>1. PICK why : why = reason[Top.signal]
      OBVIOUS
    <3>2. Begin(next, why, left)
      BY <2>3, <2>6, <3>1 DEF Begin
    <3>3. /\ next \in Signals /\ kind[next] = "any" /\ Top.signal \in sources[next]
          /\ Top.signal \in aborted
      BY <1>2, <1>3, <1>5, <1>9 DEF SignalsInv, Linked, Begun
    <3>4. why \in Signals
      BY <1>1, <1>3, <3>1 DEF SignalsTypeOK
    <3> QED BY <1>6, <2>3, <2>4, <2>6, <3>1, <3>2, <3>3, <3>4, BeginKeeps
  <2> QED BY <2>5, <2>6
<1> QED BY <1>8, <1>9

-------------------------------------------------------------------------------
\* The theorems.

LEMMA SignalsNextKeeps == SignalsInv /\ [SignalsNext]_signalVars => SignalsInv'
<1> SUFFICES ASSUME SignalsInv, [SignalsNext]_signalVars PROVE SignalsInv'
  OBVIOUS
<1>1. CASE UNCHANGED signalVars
  BY <1>1 DEF signalVars, SignalsInv, SignalsTypeOK, Linked, Begun, Agree, Awaits, Unheard,
              InOnePlace, Kept, Once, Left
<1>2. ASSUME NEW s \in Signals, NewSignal(s) \/ SetHandler(s) \/ Abort(s)
      PROVE  SignalsInv'
  BY <1>2, NewSignalKeeps, SetHandlerKeeps, AbortKeeps
<1>3. ASSUME NEW s \in Signals, NEW g \in Given, \A t \in ToSet(g) : kind[t] # "none",
             SignalAny(s, g)
      PROVE  SignalsInv'
  <2>1. g \in Seq(Signals)
    <3>1. \A t \in Signals : <<t>> \in Seq(Signals)
      OBVIOUS
    <3>2. \A t, u \in Signals : <<t, u>> \in Seq(Signals)
      OBVIOUS
    <3>3. g \in {<<t>> : t \in Signals} \/ \E t, u \in Signals : g = <<t, u>>
      BY DEF Given
    <3> QED BY <3>1, <3>2, <3>3
  <2> QED BY <1>3, <2>1, SignalAnyKeeps
<1>4. ASSUME NEW s \in Signals, NEW l \in Listeners, Listen(s, l) \/ Unlisten(s, l)
      PROVE  SignalsInv'
  BY <1>4, ListenKeeps, UnlistenKeeps
<1>5. CASE CallHandler \/ Return \/ Throw
  BY <1>5, CallHandlerEnds, ReturnEnds, ThrowEnds, EndsKeeps
<1>6. CASE Call
  BY <1>6, CallKeeps
<1> QED BY <1>1, <1>2, <1>3, <1>4, <1>5, <1>6 DEF SignalsNext

\* The inductive invariant holds in every behaviour.
THEOREM SignalsInvariant == SignalsSpec => []SignalsInv
<1> QED BY InitSignals, SignalsNextKeeps, PTL DEF SignalsSpec

\* For every set of signals and of listeners, whatever user code the listeners run: a
\* signal made by any is aborted, with the reason of one of its sources, once one of them
\* is and its dispatch is over without an exception, and never of itself
\* (abort.go, any and _abort).
THEOREM DependentsFollow == SignalsSpec => []DependentsAgree
<1> QED BY SignalsInvariant, InvAgrees, PTL

\* For every set of signals and of listeners: no listener is called twice, and one that was
\* there when its signal was aborted is called unless an exception ended the dispatch.
THEOREM ListenersHeardOnce == SignalsSpec => []HeardOnce
<1> QED BY SignalsInvariant, InvHeard, PTL

\* Every variable stays in its type.
THEOREM SignalsTypesHold == SignalsSpec => []SignalsTypeOK
<1>1. SignalsInv => SignalsTypeOK
  BY DEF SignalsInv
<1> QED BY <1>1, SignalsInvariant, PTL
================================================================================
