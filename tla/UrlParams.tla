------------------------------- MODULE UrlParams --------------------------------
(***************************************************************************)
(* URL objects, their searchParams, and URLSearchParams of their own.  A URL *)
(* keeps nothing but its href, and its searchParams keep nothing at all: each *)
(* call reads the query from the owner's href and writes it back, also in the  *)
(* middle of a forEach or of an iterator, whose callbacks are user code.      *)
(* A query is the sequence of its pairs; how a pair is written and escaped is  *)
(* left out, and so is a query that is empty but there.                       *)
(* External: the WHATWG parser and its setters.                               *)
(***************************************************************************)
EXTENDS Naturals, Sequences, FiniteSets, SequencesExt

CONSTANTS
    URLs, FreeParams,    \* URL objects, and URLSearchParams without an owner
    ParamNames,          \* names: sequences of code points
    ParamValues,
    Walks,               \* iterators, calls of forEach, and constructors at their input
    MaxPairs, MaxQuery   \* bounds: pairs written in all, and pairs in a query

ASSUME UrlAssumption ==
    /\ URLs \cap FreeParams = {} /\ MaxPairs \in Nat /\ MaxQuery \in Nat
    /\ \A n \in ParamNames : n \in Seq(0..1114111)

VARIABLES
    query,       \* of each URL the query of its href, of other params their own
    params,      \* what has been made: the searchParams of URLs, and free ones
    walk,
    written      \* pairs written: each has a number, which is history
urlVars == <<query, params, walk, written>>

-------------------------------------------------------------------------------
Params == URLs \cup FreeParams
Pair == [n : 1..MaxPairs, name : ParamNames, value : ParamValues]
NoWalk == [of |-> "none", kind |-> "none", index |-> 0, visited |-> <<>>, moved |-> FALSE,
           given |-> <<>>]
Inputs == {"iterable", "record"}

UrlInit ==
    /\ query = [p \in Params |-> <<>>]
    /\ params = {} /\ walk = [w \in Walks |-> NoWalk] /\ written = 0

\* Code has the params: those constructed, and the one object each URL makes and keeps.
Known(p) == p \in params

\* setParamsQuery, or a setter of the URL: walks whose part behind them is not as
\* it was are marked, which is history.
WriteQuery(p, pairs) ==
    /\ Len(pairs) <= MaxQuery /\ query' = [query EXCEPT ![p] = pairs]
    /\ walk' = [w \in Walks |->
                  IF walk[w].of = p /\ \E i \in 1..walk[w].index :
                       i > Len(pairs) \/ i > Len(query[p]) \/ pairs[i] # query[p][i]
                  THEN [walk[w] EXCEPT !.moved = TRUE] ELSE walk[w]]

\* The first use of searchParams makes the object that is kept.
SearchParams(u) ==
    /\ ~Known(u) /\ params' = params \cup {u}
    /\ UNCHANGED <<query, walk, written>>

-------------------------------------------------------------------------------
\* What the methods find.
PairsOf(s, name) == SelectSeq(s, LAMBDA x : x.name = name)
GetAll(s, name) == [i \in 1..Len(PairsOf(s, name)) |-> PairsOf(s, name)[i].value]

\* compareUTF16: names are compared by the 16-bit units of their code points.
Units(c) == IF c <= 65535 THEN <<c>>
            ELSE <<55296 + ((c - 65536) \div 1024), 56320 + ((c - 65536) % 1024)>>
UTF16(name) == FlattenSeq([i \in 1..Len(name) |-> Units(name[i])])
Precedes(a, b) ==
    LET x == UTF16(a)
        y == UTF16(b)
    IN \/ IsStrictPrefix(x, y)
       \/ \E i \in 1..Len(x) : /\ i <= Len(y) /\ x[i] < y[i]
                               /\ \A j \in 1..(i - 1) : x[j] = y[j]

\* SliceStable: each pair goes after those that precede it and those that are equal
\* and came before.
SortedBy(s, before(_, _)) ==
    LET rank(i) == Cardinality({j \in 1..Len(s) : before(j, i)})
    IN [k \in 1..Len(s) |-> s[CHOOSE i \in 1..Len(s) : rank(i) = k - 1]]
Sorted(s) == SortedBy(s, LAMBDA j, i : Precedes(s[j].name, s[i].name)
                                        \/ (j < i /\ ~Precedes(s[i].name, s[j].name)))

\* paramsSet: the first pair of that name takes the value, the others go.
WithoutOthers(s, name) ==
    LET first == {i \in 1..Len(s) : s[i].name = name /\ \A j \in 1..(i - 1) : s[j].name # name}
        kept == {i \in 1..Len(s) : s[i].name # name} \cup first
        nth(k) == CHOOSE i \in kept : Cardinality({j \in kept : j <= i}) = k
    IN [k \in 1..Cardinality(kept) |-> s[nth(k)]]
NewPair(name, value) == [n |-> written + 1, name |-> name, value |-> value]
SetFirstOnly(s, pair) ==    \* mutant
    IF PairsOf(s, pair.name) = <<>> THEN Append(s, pair)
    ELSE [i \in 1..Len(s) |-> IF s[i] = PairsOf(s, pair.name)[1] THEN pair ELSE s[i]]
WithPair(s, pair) ==
    IF PairsOf(s, pair.name) = <<>> THEN Append(s, pair)
    ELSE LET kept == WithoutOthers(s, pair.name)
         IN [i \in 1..Len(kept) |-> IF kept[i].name = pair.name THEN pair ELSE kept[i]]

-------------------------------------------------------------------------------
\* The methods that write: each reads all pairs, and writes all pairs back.
ParamsAppend(p, name, value) ==
    /\ Known(p) /\ written < MaxPairs /\ written' = written + 1
    /\ WriteQuery(p, Append(query[p], NewPair(name, value)))
    /\ UNCHANGED params
ParamsDelete(p, name, values) ==
    /\ Known(p)
    /\ WriteQuery(p, SelectSeq(query[p], LAMBDA x : ~(x.name = name /\ x.value \in values)))
    /\ UNCHANGED <<params, written>>
ParamsSet(p, name, value) ==
    /\ Known(p) /\ written < MaxPairs /\ written' = written + 1
    /\ WriteQuery(p, WithPair(query[p], NewPair(name, value)))
    /\ UNCHANGED params
ParamsSort(p) ==
    /\ Known(p) /\ WriteQuery(p, Sorted(query[p]))
    /\ UNCHANGED <<params, written>>

\* The setters of the URL: search, href (which the parser may reject: nothing
\* changes then), and the others, which write the href back with the query it had.
SetSearch(u, name, value) ==
    /\ written < MaxPairs /\ written' = written + 1
    /\ \/ WriteQuery(u, <<>>)
       \/ WriteQuery(u, <<NewPair(name, value)>>)
    /\ UNCHANGED params
SetHref(u, name, value) ==
    /\ written < MaxPairs /\ written' = written + 1
    /\ WriteQuery(u, <<NewPair(name, value)>>) /\ UNCHANGED params
SetOther(u) ==
    /\ WriteQuery(u, query[u]) /\ UNCHANGED <<params, written>>

-------------------------------------------------------------------------------
\* forEach and iterators: the pair at the index, as the query is now.
StartWalk(w, p, kind) ==
    /\ Known(p) /\ walk[w].kind = "none"
    /\ walk' = [walk EXCEPT ![w] = [NoWalk EXCEPT !.of = p, !.kind = kind]]
    /\ UNCHANGED <<query, params, written>>

Visit(w) ==
    /\ walk[w].kind \in {"forEach", "iterator"} /\ walk[w].index < Len(query[walk[w].of])
    /\ walk' = [walk EXCEPT ![w].index = @ + 1,
                            ![w].visited = Append(@, query[walk[w].of][walk[w].index + 1].n)]
    /\ UNCHANGED <<query, params, written>>

\* forEach returns after the last pair, or its callback throws; an iterator that is
\* done may go on when there are pairs again.
EndForEach(w) ==
    /\ walk[w].kind = "forEach"
    /\ walk[w].index >= Len(query[walk[w].of]) \/ walk[w].index > 0
    /\ walk' = [walk EXCEPT ![w] = NoWalk]
    /\ UNCHANGED <<query, params, written>>

-------------------------------------------------------------------------------
\* new URLSearchParams(input).  A string, other params (their iterator is native
\* code), or nothing is read at once; a given iterable, its entries and a record's
\* properties are user code, which may do anything between two pairs.
Constructed(p, pairs) ==
    /\ params' = params \cup {p} /\ query' = [query EXCEPT ![p] = pairs]
Constructing(p) == p \in FreeParams /\ ~Known(p) /\ \A w \in Walks : walk[w].of # p
ParamsFromString(p, name, value) ==
    /\ Constructing(p) /\ written < MaxPairs /\ written' = written + 1
    /\ \E pairs \in {<<>>, <<NewPair(name, value)>>} : Constructed(p, pairs)
    /\ UNCHANGED walk
ParamsCopied(p, from) ==
    /\ Constructing(p) /\ Known(from) /\ Constructed(p, query[from])
    /\ UNCHANGED <<walk, written>>

ParamsInput(w, p, kind) ==
    /\ Constructing(p) /\ walk[w].kind = "none"
    /\ walk' = [walk EXCEPT ![w] = [NoWalk EXCEPT !.of = p, !.kind = kind]]
    /\ UNCHANGED <<query, params, written>>
\* Two keys of a record can be one name, with what UTF-8 cannot hold replaced: the
\* second value then takes the place of the first.
WithField(s, pair) ==
    IF PairsOf(s, pair.name) = <<>> THEN Append(s, pair)
    ELSE [i \in 1..Len(s) |-> IF s[i].name = pair.name THEN pair ELSE s[i]]
GivePair(w, name, value) ==
    /\ walk[w].kind \in Inputs /\ Len(walk[w].given) < MaxQuery
    /\ written < MaxPairs /\ written' = written + 1
    /\ LET pair == NewPair(name, value) IN
       walk' = [walk EXCEPT ![w].given = IF walk[w].kind = "record" THEN WithField(@, pair)
                                         ELSE Append(@, pair)]
    /\ UNCHANGED <<query, params>>
\* The input is done; or it throws, or an entry is no pair: no object is made.
InputDone(w) ==
    /\ walk[w].kind \in Inputs /\ Constructed(walk[w].of, walk[w].given)
    /\ walk' = [walk EXCEPT ![w] = NoWalk] /\ UNCHANGED written
InputThrows(w) ==
    /\ walk[w].kind \in Inputs /\ walk' = [walk EXCEPT ![w] = NoWalk]
    /\ UNCHANGED <<query, params, written>>

\* What the prototypes offer.
UrlCall(u) ==
    \/ SearchParams(u) \/ SetOther(u)
    \/ \E n \in ParamNames, v \in ParamValues : SetSearch(u, n, v) \/ SetHref(u, n, v)
ParamsCall(p) ==
    \/ ParamsSort(p)
    \/ \E n \in ParamNames, v \in ParamValues :
         \/ ParamsAppend(p, n, v) \/ ParamsSet(p, n, v)
         \/ ParamsDelete(p, n, {v}) \/ ParamsDelete(p, n, ParamValues)
    \/ \E w \in Walks, k \in {"forEach", "iterator"} : StartWalk(w, p, k)
NewParams(p) ==
    \/ \E n \in ParamNames, v \in ParamValues : ParamsFromString(p, n, v)
    \/ \E from \in Params : ParamsCopied(p, from)
    \/ \E w \in Walks, k \in Inputs : ParamsInput(w, p, k)

UrlNext ==
    \/ \E u \in URLs : UrlCall(u)
    \/ \E p \in Params : ParamsCall(p) \/ NewParams(p)
    \/ \E w \in Walks : \/ Visit(w) \/ EndForEach(w) \/ InputDone(w) \/ InputThrows(w)
                        \/ \E n \in ParamNames, v \in ParamValues : GivePair(w, n, v)

UrlSpec == UrlInit /\ [][UrlNext]_urlVars

-------------------------------------------------------------------------------
\* Properties

UrlTypeOK ==
    /\ query \in [Params -> Seq(Pair)]
    /\ params \subseteq Params /\ written \in 0..MaxPairs
    /\ \A w \in Walks : /\ walk[w].kind \in {"none", "forEach", "iterator"} \cup Inputs
                        /\ walk[w].index \in Nat

\* What code sees through any of the params after a method that changed them: set
\* writes a new pair, the others write none.
Contract ==
    \A p \in Params :
      query'[p] # query[p] /\ params' = params =>
        IF written' # written THEN
          \A n \in ParamNames, v \in ParamValues : ParamsSet(p, n, v) =>
            /\ GetAll(query'[p], n) = <<v>>
            /\ \A m \in ParamNames \ {n} : GetAll(query'[p], m) = GetAll(query[p], m)
        ELSE
          /\ \A n \in ParamNames, v \in ParamValues : ParamsDelete(p, n, {v}) =>
               GetAll(query'[p], n) = SelectSeq(GetAll(query[p], n), LAMBDA x : x # v)
          /\ ParamsSort(p) =>
               /\ \A i, j \in 1..Len(query'[p]) :
                    i < j => ~Precedes(query'[p][j].name, query'[p][i].name)
               /\ \A m \in ParamNames : GetAll(query'[p], m) = GetAll(query[p], m)

\* A walk has visited the pairs before its index, each once and in order, as long as
\* nobody changes that part, whatever is written after it.
WalksInOrder ==
    \A w \in Walks : walk[w].kind # "none" /\ ~walk[w].moved =>
      walk[w].visited = [i \in 1..walk[w].index |-> query[walk[w].of][i].n]

\* A record gives each name once, also when two of its keys are read as one name and
\* when the getters of its properties write to other params.
RecordNamesOnce ==
    \A w \in Walks, m \in ParamNames :
      walk[w].kind = "record" => Len(PairsOf(walk[w].given, m)) <= 1

\* The params behave as the standard wants, also while they are walked or made.
ParamsBehave == [](WalksInOrder /\ RecordNamesOnce) /\ [][Contract]_urlVars
================================================================================
