--------------------------- MODULE MessagePortsProofs ---------------------------
(***************************************************************************)
(* Theorems about MessagePorts for any number of ports, messages and          *)
(* dispatches: transfers keep the two ends of a channel linked and lose,      *)
(* repeat or reorder no message, whatever is cloned with them and also when   *)
(* the clone fails half way.                                                  *)
(***************************************************************************)
EXTENDS MessagePorts, FiniteSetTheorems, SequenceTheorems, WellFoundedInduction, TLAPS

-------------------------------------------------------------------------------
\* What the clone of a value does, value by value.

\* The induction that first-order provers can use: a set of numbers has a least one.
LEMMA Least ==
    ASSUME NEW T, T \subseteq Nat, T # {}
    PROVE  \E n \in T : \A m \in T : n <= m
<1>1. IsWellFoundedOn(OpToRel(<, Nat), Nat)
  BY NatLessThanWellFounded, Zenon
<1>2. \A x, y \in Nat : <<y, x>> \in OpToRel(<, Nat) <=> y < x
  BY DEF OpToRel
<1>3. \E x \in T : \A y \in T : ~(<<y, x>> \in OpToRel(<, Nat))
  BY <1>1, WFMin, Zenon
<1>4. \E x \in T : \A y \in T : ~(y < x)
  BY <1>2, <1>3, Zenon
<1> QED
  BY <1>4

\* The function that Progress defines by recursion exists ...
Runs(f, n, work, values, transfers) ==
    f = [i \in 0..n |-> IF i = 0 THEN work ELSE CloneValue(f[i - 1], values[i], transfers)]

LEMMA ProgressExists ==
    ASSUME NEW work, NEW values, NEW transfers
    PROVE  \A n \in Nat : \E f : Runs(f, n, work, values, transfers)
<1> DEFINE T == {n \in Nat : ~\E f : Runs(f, n, work, values, transfers)}
<1>1. SUFFICES ASSUME T # {} PROVE FALSE
  OBVIOUS
<1>2. PICK n \in T : \A m \in T : n <= m
  BY <1>1, Least
<1>3. n # 0
  <2>1. Runs([i \in 0..0 |-> work], 0, work, values, transfers)
    BY DEF Runs
  <2> QED
    BY <2>1
<1>4. n \in Nat /\ n - 1 \in Nat /\ n - 1 \notin T
  BY <1>2, <1>3
<1>5. PICK f : Runs(f, n - 1, work, values, transfers)
  BY <1>4
<1>6. PICK g : g = [i \in 0..n |-> IF i = 0 THEN work ELSE CloneValue(f[i - 1], values[i], transfers)]
  OBVIOUS
<1>7. Runs(g, n, work, values, transfers)
  <2>1. \A i \in 0..n : i # 0 => i - 1 \in 0..(n - 1) /\ i - 1 \in 0..n
    BY <1>4
  <2>2. \A i \in 0..(n - 1) : g[i] = f[i]
    BY <1>4, <1>5, <1>6 DEF Runs
  <2>3. \A i \in 0..n : g[i] = IF i = 0 THEN work ELSE CloneValue(g[i - 1], values[i], transfers)
    BY <1>6, <2>1, <2>2
  <2>4. g = [i \in 0..n |-> g[i]]
    BY <1>6
  <2> QED
    BY <2>3, <2>4 DEF Runs
<1>8. n \notin T
  BY <1>7
<1> QED
  BY <1>2, <1>8

\* ... and is what it says.
LEMMA ProgressUnfolds ==
    ASSUME NEW work, NEW values, Len(values) \in Nat, NEW transfers,
           NEW f, f = Progress(work, values, transfers)
    PROVE  /\ f[0] = work
           /\ \A i \in 1..Len(values) : f[i] = CloneValue(f[i - 1], values[i], transfers)
<1>1. Runs(f, Len(values), work, values, transfers)
  BY ProgressExists DEF Progress, Runs
<1> QED
  BY <1>1 DEF Runs

-------------------------------------------------------------------------------
\* A clone in progress.

\* Two live ports are the two ends of the channel, and each other's peers.
LinkedIn(po, live) ==
    \A p, q \in live : p # q => po[p].end # po[q].end /\ po[p].peer = q
\* A live port has an end, and its peer is or was another port.
ShapedIn(po, live, last) ==
    \A p \in live :
      /\ p \in 1..last /\ po[p].end \in Ends
      /\ po[p].peer \in 1..last /\ po[p].peer # p

Work == [port : [Ids -> Port], ports : SUBSET Ids, next : Nat,
         copy : [Ids -> 0..MaxPorts], ok : BOOLEAN]
Done(w) == {p \in Ids : w.copy[p] # 0}
\* Where a port is now, and that it has what the port had.
At(w, p) == IF w.copy[p] = 0 THEN p ELSE w.copy[p]
Same(a, b) == a.queue = b.queue /\ a.started = b.started /\ a.end = b.end

Cloning(w, T) ==
    /\ w \in Work /\ w.next = nextPortID + Cardinality(Done(w)) /\ Done(w) \subseteq T
    /\ \A p \in Done(w) : w.copy[p] \in (nextPortID + 1)..w.next
    /\ w.ports = {At(w, p) : p \in ports}
    /\ \A p, r \in ports : At(w, p) = At(w, r) => p = r
    /\ \A p \in ports : Same(w.port[At(w, p)], port[p])
    /\ LinkedIn(w.port, w.ports) /\ ShapedIn(w.port, w.ports, w.next)

\* What is assumed of the ports before the clone, and of what is transferred.
Base(T) ==
    /\ PortsTypeOK /\ LinkedIn(port, ports) /\ ShapedIn(port, ports, nextPortID)
    /\ T \subseteq ports /\ nextPortID + Cardinality(T) <= MaxPorts

LEMMA UntouchedClones ==
    ASSUME NEW T, Base(T), NEW w, w = Untouched
    PROVE  Cloning(w, T)
<1>1. /\ w.port = port /\ w.ports = ports /\ w.next = nextPortID /\ w.ok = TRUE
      /\ w.copy = [p \in Ids |-> 0] /\ w \in Work
  <2>1. PICK none : none = [p \in Ids |-> 0]
    OBVIOUS
  <2>2. none \in [Ids -> 0..MaxPorts]
    BY <2>1, PortsAssumption
  <2>3. w = [port |-> port, ports |-> ports, next |-> nextPortID, copy |-> none, ok |-> TRUE]
    BY <2>1 DEF Untouched
  <2>4. port \in [Ids -> Port] /\ ports \in SUBSET Ids /\ nextPortID \in Nat
    BY DEF Base, PortsTypeOK
  <2> QED
    BY <2>1, <2>2, <2>3, <2>4 DEF Work
<1>2. Done(w) = {} /\ \A p \in ports : At(w, p) = p
  BY <1>1 DEF Done, At, Base, PortsTypeOK
<1>3. Cardinality(Done(w)) = 0 /\ nextPortID \in Nat
  BY <1>2, FS_EmptySet DEF Base, PortsTypeOK
<1> QED
  BY <1>1, <1>2, <1>3 DEF Cloning, Base, Same

\* A set of ports is finite.
LEMMA PortsFinite ==
    ASSUME NEW S, S \subseteq Ids
    PROVE  IsFiniteSet(S) /\ Cardinality(S) \in Nat
<1>1. IsFiniteSet(Ids)
  BY FS_Interval, PortsAssumption DEF Ids
<1>2. IsFiniteSet(S)
  BY <1>1, FS_Subset
<1> QED
  BY <1>2, FS_CardinalityType

\* The transfer of one port that was not transferred before.
LEMMA TransferClones ==
    ASSUME NEW T, Base(T), NEW w, Cloning(w, T), NEW p \in T, w.copy[p] = 0,
           NEW x, x = TransferMessagePort(w, p)
    PROVE  Cloning(x, T) /\ x.ok = w.ok /\ Done(x) = Done(w) \cup {p}
<1> USE DEF Base
<1>1. PICK q : q = w.next + 1
  OBVIOUS
<1>2. /\ T \subseteq Ids /\ p \in ports /\ p \in Ids /\ p \notin Done(w)
      /\ Done(w) \subseteq Ids /\ nextPortID \in Nat
  BY DEF PortsTypeOK, Done
<1>3. /\ Done(w) \cup {p} \subseteq T /\ Cardinality(Done(w) \cup {p}) = Cardinality(Done(w)) + 1
      /\ Cardinality(Done(w)) \in Nat /\ Cardinality(T) \in Nat
      /\ Cardinality(Done(w) \cup {p}) <= Cardinality(T)
  <2>1. Done(w) \cup {p} \subseteq T
    BY DEF Cloning
  <2>2. IsFiniteSet(T) /\ IsFiniteSet(Done(w))
    BY <1>2, PortsFinite
  <2> QED
    BY <1>2, <2>1, <2>2, FS_AddElement, FS_Subset, FS_CardinalityType
<1>4. q \in Ids /\ q = nextPortID + Cardinality(Done(w) \cup {p}) /\ w.next \in Nat
  <2>1. w.next = nextPortID + Cardinality(Done(w)) /\ w.next \in Nat
    BY DEF Cloning, Work
  <2> QED
    BY <1>1, <1>2, <1>3, <2>1, PortsAssumption DEF Ids
<1>5. At(w, p) = p /\ p \in w.ports /\ w.ports \subseteq 1..w.next /\ q \notin w.ports /\ q # p
  <2>1. At(w, p) = p
    BY DEF At
  <2>2. p \in w.ports
    BY <1>2, <2>1 DEF Cloning
  <2> QED
    BY <1>1, <1>4, <2>1, <2>2 DEF Cloning, ShapedIn
<1>6. PICK peer : peer = w.port[p].peer
  OBVIOUS
<1>7. peer \in 1..w.next /\ peer # p /\ peer # q /\ peer \in Ids
  <2>1. peer \in 1..w.next /\ peer # p
    BY <1>5, <1>6 DEF Cloning, ShapedIn
  <2> QED
    BY <1>1, <1>4, <2>1, PortsAssumption DEF Ids
<1> DEFINE old == [w.port EXCEPT ![p].queue = <<>>, ![p].detached = TRUE, ![q] = w.port[p]]
           new == IF peer \in w.ports THEN [old EXCEPT ![peer].peer = q] ELSE old
<1>8. /\ x.next = q /\ x.ports = (w.ports \ {p}) \cup {q} /\ x.copy = [w.copy EXCEPT ![p] = q]
      /\ x.port = new /\ x.ok = w.ok
      /\ x = [port |-> x.port, ports |-> x.ports, next |-> x.next, copy |-> x.copy, ok |-> x.ok]
  <2>1. w = [port |-> w.port, ports |-> w.ports, next |-> w.next, copy |-> w.copy, ok |-> w.ok]
    BY DEF Cloning, Work
  <2>2. PICK n : n = new
    OBVIOUS
  <2>3. x = [w EXCEPT !.next = q, !.ports = (@ \ {p}) \cup {q}, !.copy[p] = q, !.port = n]
    BY <1>1, <1>6, <2>2 DEF TransferMessagePort
  <2> HIDE DEF new, old
  <2> QED
    BY <2>1, <2>2, <2>3
<1>9. w.port \in [Ids -> Port] /\ w.copy \in [Ids -> 0..MaxPorts] /\ w.ports \subseteq Ids
  BY DEF Cloning, Work
<1>10. /\ new \in [Ids -> Port]
       /\ new[q] = w.port[p]
       /\ \A r \in Ids \ {p, q} : Same(new[r], w.port[r]) /\ (r # peer => new[r] = w.port[r])
       /\ peer \in w.ports => new[peer].peer = q
  <2>1. /\ old \in [Ids -> Port] /\ old[q] = w.port[p]
        /\ \A r \in Ids \ {p, q} : old[r] = w.port[r]
    <3>1. PICK o1 : o1 = [w.port EXCEPT ![p].queue = <<>>, ![p].detached = TRUE]
      OBVIOUS
    <3>2. w.port[p] \in Port /\ w.port[q] \in Port
      BY <1>2, <1>4, <1>9
    <3>3. [w.port[p] EXCEPT !.queue = <<>>, !.detached = TRUE] \in Port
      <4>1. PICK o : o = w.port[p]
        OBVIOUS
      <4>2. PICK a, b, c, d, e, g :
              /\ a = o.peer /\ b = o.queue /\ c = o.started
              /\ d = o.closed /\ e = o.detached /\ g = o.end
        OBVIOUS
      <4>3. o = [peer |-> a, queue |-> b, started |-> c, closed |-> d, detached |-> e, end |-> g]
        BY <3>2, <4>1, <4>2 DEF Port
      <4>4. [o EXCEPT !.queue = <<>>, !.detached = TRUE]
              = [peer |-> a, queue |-> <<>>, started |-> c, closed |-> d, detached |-> TRUE,
                 end |-> g]
        <5>1. PICK y : y = [o EXCEPT !.queue = <<>>]
          OBVIOUS
        <5>2. y = [peer |-> a, queue |-> <<>>, started |-> c, closed |-> d, detached |-> e,
                    end |-> g]
          BY <4>3, <5>1
        <5>3. [o EXCEPT !.queue = <<>>, !.detached = TRUE] = [y EXCEPT !.detached = TRUE]
          BY <5>1
        <5>4. PICK z : z = [y EXCEPT !.detached = TRUE]
          OBVIOUS
        <5>5. z = [peer |-> a, queue |-> <<>>, started |-> c, closed |-> d, detached |-> TRUE,
                    end |-> g]
          BY <5>2, <5>4
        <5> QED
          BY <5>3, <5>4, <5>5, Zenon
      <4>5. /\ a \in 0..MaxPorts /\ c \in BOOLEAN /\ d \in BOOLEAN /\ g \in 0..2
            /\ <<>> \in Seq(Message)
        BY <3>2, <4>1, <4>2 DEF Port
      <4> QED
        BY <4>1, <4>4, <4>5 DEF Port
    <3>4. o1 = [w.port EXCEPT ![p] = [w.port[p] EXCEPT !.queue = <<>>, !.detached = TRUE]]
      BY <1>2, <1>9, <3>1
    <3>5. o1 \in [Ids -> Port] /\ \A r \in Ids \ {p} : o1[r] = w.port[r]
      BY <1>2, <1>9, <3>3, <3>4
    <3>6. old = [o1 EXCEPT ![q] = w.port[p]]
      BY <3>1
    <3> HIDE DEF old
    <3> QED
      BY <1>2, <1>4, <1>5, <3>2, <3>5, <3>6
  <2> HIDE DEF old
  <2>2. q \in 0..MaxPorts
    BY <1>4 DEF Ids
  <2>3. CASE peer \in w.ports
    <3>1. new = [old EXCEPT ![peer].peer = q]
      BY <2>3
    <3>2. old[peer] \in Port /\ old[peer] = w.port[peer]
      BY <1>7, <2>1
    <3>3. PICK o : o = [old[peer] EXCEPT !.peer = q]
      OBVIOUS
    <3>4. o \in Port /\ Same(o, old[peer]) /\ o.peer = q
      BY <2>2, <3>2, <3>3 DEF Port, Same
    <3>5. new = [old EXCEPT ![peer] = o]
      BY <3>1, <3>3
    <3> HIDE DEF new
    <3>6. /\ new \in [Ids -> Port] /\ new[peer] = o
          /\ \A r \in Ids \ {peer} : new[r] = old[r]
      BY <1>7, <2>1, <3>4, <3>5
    <3> QED
      BY <1>4, <1>7, <2>1, <3>2, <3>4, <3>6 DEF Same
  <2>4. CASE peer \notin w.ports
    <3>1. new = old
      BY <2>4
    <3> HIDE DEF new
    <3> QED
      BY <1>4, <2>1, <2>4, <3>1 DEF Same
  <2> QED
    BY <2>3, <2>4
<1> HIDE DEF new
<1>11. x.copy \in [Ids -> 0..MaxPorts] /\ x.copy[p] = q /\ \A r \in Ids \ {p} : x.copy[r] = w.copy[r]
  <2>1. PICK c : c = w.copy
    OBVIOUS
  <2>2. x.copy = [c EXCEPT ![p] = q] /\ c \in [Ids -> 0..MaxPorts] /\ q \in 0..MaxPorts
    BY <1>4, <1>8, <1>9, <2>1 DEF Ids
  <2> QED
    BY <1>2, <2>1, <2>2
<1>12. Done(x) = Done(w) \cup {p}
  BY <1>2, <1>4, <1>11 DEF Done, Ids
<1>13. At(x, p) = q /\ \A r \in ports \ {p} : At(x, r) = At(w, r)
  <2>1. q # 0 /\ ports \subseteq Ids
    BY <1>4 DEF PortsTypeOK, Ids
  <2> QED
    BY <1>2, <1>11, <2>1 DEF At
<1>14. \A r \in ports \ {p} : At(w, r) \in w.ports /\ At(w, r) # p /\ At(w, r) # q /\ At(w, r) \in Ids
  BY <1>2, <1>5, <1>9 DEF Cloning
<1>15. x \in Work
  <2>1. x.ports \subseteq Ids
    BY <1>4, <1>8, <1>9
  <2>2. q \in Nat
    BY <1>1, <1>4
  <2>3. w.ok \in BOOLEAN
    BY DEF Cloning, Work
  <2>4. PICK a, b, c, d, e : a = x.port /\ b = x.ports /\ c = x.next /\ d = x.copy /\ e = x.ok
    OBVIOUS
  <2>5. /\ a \in [Ids -> Port] /\ b \in SUBSET Ids /\ c \in Nat
        /\ d \in [Ids -> 0..MaxPorts] /\ e \in BOOLEAN
        /\ x = [port |-> a, ports |-> b, next |-> c, copy |-> d, ok |-> e]
    BY <1>8, <1>10, <1>11, <2>1, <2>2, <2>3, <2>4
  <2> QED
    BY <2>5 DEF Work
<1>16. x.ports = {At(x, r) : r \in ports}
  BY <1>2, <1>8, <1>13, <1>14, <1>5 DEF Cloning
<1>17. \A r, s \in ports : At(x, r) = At(x, s) => r = s
  BY <1>13, <1>14 DEF Cloning
<1>18. \A r \in ports : Same(x.port[At(x, r)], port[r])
  <2>1. Same(w.port[p], port[p])
    BY <1>2, <1>5 DEF Cloning
  <2>2. \A r \in ports \ {p} : Same(w.port[At(w, r)], port[r])
    BY DEF Cloning
  <2>3. \A r \in ports \ {p} : Same(new[At(w, r)], w.port[At(w, r)])
    BY <1>10, <1>14
  <2> QED
    BY <1>8, <1>10, <1>13, <2>1, <2>2, <2>3 DEF Same
<1>19. \A r \in w.ports \ {p} : peer = r /\ w.port[r].end # w.port[p].end /\ w.port[r].peer = p
  BY <1>5, <1>6 DEF Cloning, LinkedIn
<1>20. LinkedIn(x.port, x.ports)
  <2> SUFFICES ASSUME NEW r \in x.ports, NEW s \in x.ports, r # s
               PROVE  new[r].end # new[s].end /\ new[r].peer = s
    BY <1>8 DEF LinkedIn
  <2>1. CASE r = q
    BY <1>5, <1>6, <1>8, <1>9, <1>10, <1>19, <2>1 DEF Same
  <2>2. CASE s = q
    BY <1>5, <1>6, <1>8, <1>9, <1>10, <1>19, <2>2 DEF Same
  <2>3. CASE r # q /\ s # q
    BY <1>8, <1>19, <2>3
  <2> QED
    BY <2>1, <2>2, <2>3
<1>21. ShapedIn(x.port, x.ports, x.next)
  <2> SUFFICES ASSUME NEW r \in x.ports
               PROVE  /\ r \in 1..q /\ new[r].end \in Ends
                      /\ new[r].peer \in 1..q /\ new[r].peer # r
    BY <1>8 DEF ShapedIn
  <2>1. CASE r = q
    BY <1>1, <1>4, <1>5, <1>6, <1>7, <1>10, <2>1 DEF Cloning, ShapedIn
  <2>2. CASE r # q
    <3>1. r \in w.ports \ {p} /\ r \in Ids
      BY <1>8, <1>9, <2>2
    <3>2. r = peer /\ new[r].peer = q /\ new[r].end = w.port[r].end
      BY <1>10, <1>19, <3>1, <2>2 DEF Same
    <3> QED
      BY <1>1, <1>4, <3>1, <3>2, <2>2 DEF Cloning, ShapedIn
  <2> QED
    BY <2>1, <2>2
<1>22. \A r \in Done(x) : x.copy[r] \in (nextPortID + 1)..x.next
  <2>1. nextPortID <= w.next
    BY <1>2, <1>3 DEF Cloning
  <2>2. CASE TRUE
    BY <1>1, <1>2, <1>4, <1>8, <1>11, <1>12, <2>1 DEF Cloning
  <2> QED
    BY <2>2
<1> QED
  BY <1>3, <1>4, <1>8, <1>12, <1>15, <1>16, <1>17, <1>18, <1>20, <1>21, <1>22 DEF Cloning

\* One value of a clone: a port that was met is a copy now, if nothing was thrown.
LEMMA ValueClones ==
    ASSUME NEW T, Base(T), NEW w, Cloning(w, T), NEW v,
           NEW x, x = CloneValue(w, v, T)
    PROVE  /\ Cloning(x, T) /\ Done(w) \subseteq Done(x)
           /\ x.ok => w.ok /\ v \in Done(x)
<1>1. CASE ~w.ok \/ v \notin T
  <2>1. PICK a, b, c, d, e : a = w.port /\ b = w.ports /\ c = w.next /\ d = w.copy /\ e = w.ok
    OBVIOUS
  <2>2. w = [port |-> a, ports |-> b, next |-> c, copy |-> d, ok |-> e]
    BY <2>1 DEF Cloning, Work
  <2>3. x = [w EXCEPT !.ok = FALSE]
    BY <1>1 DEF CloneValue
  <2>4. x = [port |-> a, ports |-> b, next |-> c, copy |-> d, ok |-> FALSE]
    BY <2>2, <2>3
  <2>5. x.port = w.port /\ x.ports = w.ports /\ x.next = w.next /\ x.copy = w.copy /\ x.ok = FALSE
    BY <2>1, <2>4
  <2>6. x \in Work
    BY <2>1, <2>4 DEF Cloning, Work
  <2>7. Done(x) = Done(w) /\ \A p \in ports : At(x, p) = At(w, p)
    BY <2>5 DEF Done, At
  <2> QED
    BY <2>5, <2>6, <2>7 DEF Cloning
<1>2. CASE w.ok /\ v \in T /\ w.copy[v] # 0
  <2>1. x = w
    BY <1>2 DEF CloneValue
  <2>2. v \in Done(w)
    BY <1>2 DEF Done, Base, PortsTypeOK
  <2> QED
    BY <1>2, <2>1, <2>2
<1>3. CASE w.ok /\ v \in T /\ w.copy[v] = 0
  <2>1. x = TransferMessagePort(w, v)
    BY <1>3 DEF CloneValue
  <2> QED
    BY <1>3, <2>1, TransferClones
<1> QED
  BY <1>1, <1>2, <1>3

\* All of them, by induction.
LEMMA AllClone ==
    ASSUME NEW values, Len(values) \in Nat, NEW transfer, Base(ToSet(transfer)),
           NEW x, x = CloneAll(values, transfer)
    PROVE  /\ Cloning(x, ToSet(transfer))
           /\ x.ok => \A i \in 1..Len(values) : values[i] \in Done(x)
<1>1. PICK T : T = ToSet(transfer)
  OBVIOUS
<1>2. PICK w : w = Untouched
  OBVIOUS
<1>3. PICK f : f = Progress(w, values, T)
  OBVIOUS
<1>4. /\ f[0] = w
      /\ \A i \in 1..Len(values) : f[i] = CloneValue(f[i - 1], values[i], T)
  BY <1>3, ProgressUnfolds
<1>5. x = f[Len(values)]
  BY <1>1, <1>2, <1>3 DEF CloneAll
<1>6. Base(T) /\ Cloning(w, T)
  BY <1>1, <1>2, UntouchedClones
<1> DEFINE Good(n) == /\ Cloning(f[n], T)
                      /\ f[n].ok => \A i \in 1..n : values[i] \in Done(f[n])
           Bad == {n \in 0..Len(values) : ~Good(n)}
<1>7. Bad = {}
  <2> SUFFICES ASSUME Bad # {} PROVE FALSE
    OBVIOUS
  <2>1. PICK n \in Bad : \A m \in Bad : n <= m
    <3>1. Bad \subseteq Nat
      OBVIOUS
    <3> HIDE DEF Bad
    <3> QED
      BY <3>1, Least
  <2>2. n # 0
    BY <1>4, <1>6
  <2>3. n \in 1..Len(values) /\ n - 1 \in 0..Len(values) /\ n - 1 \notin Bad
    BY <2>1, <2>2
  <2>4. PICK y, z : y = f[n - 1] /\ z = f[n]
    OBVIOUS
  <2>5. Cloning(y, T) /\ (y.ok => \A i \in 1..(n - 1) : values[i] \in Done(y))
    BY <2>3, <2>4
  <2>6. z = CloneValue(y, values[n], T)
    BY <1>4, <2>3, <2>4
  <2>7. /\ Cloning(z, T) /\ Done(y) \subseteq Done(z)
        /\ z.ok => y.ok /\ values[n] \in Done(z)
    BY <1>6, <2>5, <2>6, ValueClones
  <2>8. z.ok => \A i \in 1..n : values[i] \in Done(z)
    <3> SUFFICES ASSUME z.ok, NEW i \in 1..n PROVE values[i] \in Done(z)
      OBVIOUS
    <3>1. i = n \/ i \in 1..(n - 1)
      BY <2>3
    <3> QED
      BY <2>5, <2>7, <3>1
  <2>9. Good(n)
    BY <2>4, <2>7, <2>8
  <2> QED
    BY <2>1, <2>9
<1>8. Len(values) \notin Bad /\ Len(values) \in 0..Len(values)
  BY <1>7
<1> QED
  BY <1>1, <1>5, <1>8

-------------------------------------------------------------------------------
\* The inductive invariant.

Numbers(q) == [i \in 1..Len(q) |-> q[i].n]

KeptIn(po, live, sent, heard) ==
    \A p \in live : sent[po[p].end] = heard[po[p].end] \o Numbers(po[p].queue)
WokenIn(po, live, asleep, jobs, now) ==
    \A p \in live \ asleep : po[p].started /\ po[p].queue # <<>> => p \in ToSet(jobs) \/ p = now
ReachableIn(po, live, had) ==
    \A p \in live \ had : \E q \in live : p \in Carried(po[q].queue)

PortsInv ==
    /\ PortsTypeOK
    /\ LinkedIn(port, ports) /\ ShapedIn(port, ports, nextPortID)
    /\ KeptIn(port, ports, posted, delivered)
    /\ WokenIn(port, ports, unwoken, portJobs, dispatching)
    /\ ReachableIn(port, ports, heldPorts \cup orphans)

LEMMA InvSays == PortsInv => PortsTypeOK /\ PortsLinked /\ MessagesKept /\ StartedIsWoken /\ PortsReachable
  BY DEF PortsInv, PortsLinked, LinkedIn, MessagesKept, KeptIn, Numbers,
         StartedIsWoken, WokenIn, PortsReachable, ReachableIn

LEMMA NumbersType ==
    ASSUME NEW q \in Seq(Message)
    PROVE  /\ Numbers(q) \in Seq(1..MaxPosts) /\ Len(Numbers(q)) = Len(q)
           /\ \A i \in 1..Len(q) : Numbers(q)[i] = q[i].n
<1>1. Len(q) \in Nat /\ \A i \in 1..Len(q) : q[i].n \in 1..MaxPosts
  <2>1. \A i \in 1..Len(q) : q[i] \in Message
    BY ElementOfSeq
  <2> QED
    BY <2>1, LenProperties DEF Message
<1> QED
  BY <1>1 DEF Numbers

LEMMA EmptyNumbers == Numbers(<<>>) = <<>>
  BY DEF Numbers

LEMMA NumbersAppend ==
    ASSUME NEW d \in Seq(1..MaxPosts), NEW q \in Seq(Message), NEW e \in Message
    PROVE  Append(d \o Numbers(q), e.n) = d \o Numbers(Append(q, e))
<1>1. PICK a : a = Append(q, e)
  OBVIOUS
<1>2. /\ a \in Seq(Message) /\ Len(a) = Len(q) + 1 /\ Len(q) \in Nat
      /\ a[Len(q) + 1] = e /\ \A i \in 1..Len(q) : a[i] = q[i]
  BY <1>1
<1>3. PICK m, k : m = Numbers(q) /\ k = Numbers(a)
  OBVIOUS
<1>4. /\ m \in Seq(1..MaxPosts) /\ Len(m) = Len(q) /\ \A i \in 1..Len(q) : m[i] = q[i].n
      /\ k \in Seq(1..MaxPosts) /\ Len(k) = Len(a) /\ \A i \in 1..Len(a) : k[i] = a[i].n
  BY <1>2, <1>3, NumbersType
<1>5. e.n \in 1..MaxPosts
  BY DEF Message
<1>6. k = Append(m, e.n)
  <2>1. k[Len(m) + 1] = e.n /\ \A i \in 1..Len(m) : k[i] = m[i]
    <3>1. Len(q) + 1 \in 1..Len(a) /\ \A i \in 1..Len(q) : i \in 1..Len(a)
      BY <1>2
    <3>2. k[Len(q) + 1] = a[Len(q) + 1].n /\ \A i \in 1..Len(q) : k[i] = a[i].n
      BY <1>4, <3>1
    <3> QED
      BY <1>2, <1>4, <3>2
  <2>2. PICK b : b = Append(m, e.n)
    OBVIOUS
  <2>3. /\ b \in Seq(1..MaxPosts) /\ Len(b) = Len(m) + 1 /\ Len(m) \in Nat
        /\ b[Len(m) + 1] = e.n /\ \A i \in 1..Len(m) : b[i] = m[i]
    BY <1>4, <1>5, <2>2
  <2>4. Len(k) = Len(b) /\ \A i \in 1..Len(k) : k[i] = b[i]
    <3>1. Len(k) = Len(b) /\ \A i \in 1..Len(k) : i \in 1..Len(m) \/ i = Len(m) + 1
      BY <1>2, <1>4, <2>3
    <3> QED
      BY <2>1, <2>3, <3>1
  <2> QED
    BY <1>4, <2>2, <2>3, <2>4, SeqEqual
<1>7. Append(d \o m, e.n) = d \o Append(m, e.n)
  <2>1. PICK u : u = <<e.n>>
    OBVIOUS
  <2>2. u \in Seq(1..MaxPosts)
    BY <1>5, <2>1
  <2>3. d \o m \in Seq(1..MaxPosts)
    BY <1>4, ConcatProperties
  <2>4. (d \o m) \o u = d \o (m \o u)
    <3>1. m \in Seq(1..MaxPosts)
      BY <1>4
    <3> QED
      BY <2>2, <3>1, ConcatAssociative
  <2>5. \A s \in Seq(1..MaxPosts) : Append(s, e.n) = s \o u
    <3> SUFFICES ASSUME NEW s \in Seq(1..MaxPosts) PROVE Append(s, e.n) = s \o u
      OBVIOUS
    <3>1. PICK v, w : v = Append(s, e.n) /\ w = s \o u
      OBVIOUS
    <3>2. /\ v \in Seq(1..MaxPosts) /\ Len(v) = Len(s) + 1 /\ Len(s) \in Nat
          /\ v[Len(s) + 1] = e.n /\ \A i \in 1..Len(s) : v[i] = s[i]
      BY <1>5, <3>1
    <3>3. Len(u) = 1 /\ u[1] = e.n
      BY <2>1
    <3>4. /\ s \o u \in Seq(1..MaxPosts) /\ Len(s \o u) = Len(s) + Len(u)
          /\ \A i \in 1..(Len(s) + Len(u)) :
               (s \o u)[i] = IF i <= Len(s) THEN s[i] ELSE u[i - Len(s)]
      BY <2>2, ConcatProperties
    <3>5. Len(w) = Len(v) /\ \A i \in 1..Len(v) : v[i] = w[i]
      BY <3>1, <3>2, <3>3, <3>4
    <3> QED
      BY <3>1, <3>2, <3>4, <3>5, SeqEqual
  <2> QED
    BY <1>4, <2>3, <2>4, <2>5, Zenon
<1> QED
  BY <1>1, <1>3, <1>6, <1>7

LEMMA NumbersTail ==
    ASSUME NEW d \in Seq(1..MaxPosts), NEW q \in Seq(Message), q # <<>>
    PROVE  d \o Numbers(q) = Append(d, Head(q).n) \o Numbers(Tail(q))
<1>1. PICK t : t = Tail(q)
  OBVIOUS
<1>2. /\ t \in Seq(Message) /\ Len(t) = Len(q) - 1 /\ Len(t) \in Nat /\ Len(q) \in Nat
      /\ Head(q) = q[1] /\ Head(q) \in Message
      /\ \A i \in 1..Len(t) : t[i] = q[i + 1]
  BY <1>1, HeadTailProperties, LenProperties
<1>3. PICK m, k : m = Numbers(q) /\ k = Numbers(t)
  OBVIOUS
<1>4. /\ m \in Seq(1..MaxPosts) /\ Len(m) = Len(q) /\ \A i \in 1..Len(q) : m[i] = q[i].n
      /\ k \in Seq(1..MaxPosts) /\ Len(k) = Len(t) /\ \A i \in 1..Len(t) : k[i] = t[i].n
  BY <1>2, <1>3, NumbersType
<1>5. PICK h : h = Head(q).n
  OBVIOUS
<1>6. h \in 1..MaxPosts
  BY <1>2, <1>5 DEF Message
<1>7. PICK a, b, c : a = Append(d, h) /\ b = a \o k /\ c = d \o m
  OBVIOUS
<1>8. /\ a \in Seq(1..MaxPosts) /\ Len(a) = Len(d) + 1 /\ Len(d) \in Nat
      /\ a[Len(d) + 1] = h /\ \A i \in 1..Len(d) : a[i] = d[i]
  BY <1>6, <1>7
<1>9. /\ b \in Seq(1..MaxPosts) /\ Len(b) = Len(a) + Len(k)
      /\ \A i \in 1..(Len(a) + Len(k)) : b[i] = IF i <= Len(a) THEN a[i] ELSE k[i - Len(a)]
  <2>1. PICK S : S = 1..MaxPosts
    OBVIOUS
  <2>2. a \in Seq(S) /\ k \in Seq(S)
    BY <1>4, <1>8, <2>1
  <2>3. /\ a \o k \in Seq(S) /\ Len(a \o k) = Len(a) + Len(k)
        /\ \A i \in 1..(Len(a) + Len(k)) :
             (a \o k)[i] = IF i <= Len(a) THEN a[i] ELSE k[i - Len(a)]
    BY <2>2, ConcatProperties
  <2> QED
    BY <1>7, <2>1, <2>3, Zenon
<1>10. /\ c \in Seq(1..MaxPosts) /\ Len(c) = Len(d) + Len(m)
       /\ \A i \in 1..(Len(d) + Len(m)) : c[i] = IF i <= Len(d) THEN d[i] ELSE m[i - Len(d)]
  <2>1. PICK S : S = 1..MaxPosts
    OBVIOUS
  <2>2. d \in Seq(S) /\ m \in Seq(S)
    BY <1>4, <2>1
  <2>3. /\ d \o m \in Seq(S) /\ Len(d \o m) = Len(d) + Len(m)
        /\ \A i \in 1..(Len(d) + Len(m)) :
             (d \o m)[i] = IF i <= Len(d) THEN d[i] ELSE m[i - Len(d)]
    BY <2>2, ConcatProperties
  <2> QED
    BY <1>7, <2>1, <2>3, Zenon
<1>11. \A i \in 1..Len(c) : c[i] = b[i]
  <2> SUFFICES ASSUME NEW i \in 1..Len(c) PROVE c[i] = b[i]
    OBVIOUS
  <2>1. i \in 1..(Len(a) + Len(k)) /\ i \in 1..(Len(d) + Len(m))
    BY <1>2, <1>4, <1>8, <1>10
  <2>2. CASE i <= Len(d)
    <3>1. i \in 1..Len(d) /\ i <= Len(a)
      BY <1>8, <2>1, <2>2
    <3>2. c[i] = d[i]
      BY <1>10, <2>1, <2>2
    <3>3. b[i] = a[i]
      BY <1>9, <2>1, <3>1
    <3>4. a[i] = d[i]
      BY <1>8, <3>1
    <3> QED BY <3>2, <3>3, <3>4
  <2>3. CASE i = Len(d) + 1
    <3>1. c[i] = m[1] /\ 1 \in 1..Len(q)
      <4>1. ~(i <= Len(d)) /\ i - Len(d) = 1
        BY <1>8, <2>3
      <4>2. 1 \in 1..Len(q)
        BY <1>2
      <4> QED BY <1>10, <2>1, <4>1, <4>2
    <3>2. m[1] = h
      BY <1>2, <1>4, <1>5, <3>1
    <3> QED
      BY <1>8, <1>9, <2>1, <2>3, <3>1, <3>2
  <2>4. CASE i > Len(d) + 1
    <3>1. PICK j : j = i - Len(a)
      OBVIOUS
    <3>2. j \in 1..Len(t) /\ j + 1 \in 1..Len(q) /\ i - Len(d) = j + 1 /\ ~(i <= Len(a))
      BY <1>2, <1>4, <1>8, <2>1, <2>4, <3>1
    <3>3. c[i] = m[j + 1] /\ b[i] = k[j]
      BY <1>8, <1>9, <1>10, <2>1, <2>4, <3>1, <3>2
    <3>4. m[j + 1] = q[j + 1].n /\ k[j] = t[j].n /\ t[j] = q[j + 1]
      BY <1>2, <1>4, <3>2
    <3> QED
      BY <3>3, <3>4
  <2> QED
    BY <1>8, <2>1, <2>2, <2>3, <2>4
<1>12. b = c
  BY <1>2, <1>4, <1>8, <1>9, <1>10, <1>11, SeqEqual
<1> QED
  BY <1>1, <1>3, <1>5, <1>7, <1>12

\* The ports that the messages of a queue carry.
LEMMA CarriedAppend ==
    ASSUME NEW q \in Seq(Message), NEW e \in Message
    PROVE  Carried(Append(q, e)) = Carried(q) \cup ToSet(e.carries)
<1>1. PICK a : a = Append(q, e)
  OBVIOUS
<1>2. /\ Len(a) = Len(q) + 1 /\ Len(q) \in Nat
      /\ a[Len(q) + 1] = e /\ \A i \in 1..Len(q) : a[i] = q[i]
  BY <1>1
<1>3. \A i \in 1..Len(a) : i \in 1..Len(q) \/ i = Len(q) + 1
  BY <1>2
<1>4. Carried(a) = Carried(q) \cup ToSet(e.carries)
  BY <1>2, <1>3 DEF Carried
<1> QED
  BY <1>1, <1>4

LEMMA CarriedTail ==
    ASSUME NEW q \in Seq(Message), q # <<>>
    PROVE  Carried(q) = ToSet(Head(q).carries) \cup Carried(Tail(q))
<1>1. PICK t : t = Tail(q)
  OBVIOUS
<1>2. /\ Len(t) = Len(q) - 1 /\ Len(t) \in Nat /\ Head(q) = q[1] /\ Len(q) \in Nat
      /\ \A i \in 1..Len(t) : t[i] = q[i + 1]
  BY <1>1, HeadTailProperties, LenProperties
<1>3. \A i \in 1..Len(q) : i = 1 \/ (i - 1 \in 1..Len(t) /\ t[i - 1] = q[i])
  BY <1>2
<1>4. \A i \in 1..Len(t) : i + 1 \in 1..Len(q) /\ t[i] = q[i + 1]
  BY <1>2
<1>5. 1 \in 1..Len(q)
  BY <1>2
<1>6. Carried(q) = ToSet(q[1].carries) \cup Carried(t)
  <2>1. ASSUME NEW x \in Carried(q) PROVE x \in ToSet(q[1].carries) \cup Carried(t)
    <3>1. PICK i \in 1..Len(q) : x \in ToSet(q[i].carries)
      BY <2>1, Zenon DEF Carried
    <3> QED BY <1>3, <3>1, Zenon DEF Carried
  <2>2. ASSUME NEW x \in Carried(t) PROVE x \in Carried(q)
    <3>1. PICK i \in 1..Len(t) : x \in ToSet(t[i].carries)
      BY <2>2, Zenon DEF Carried
    <3> QED BY <1>4, <3>1, Zenon DEF Carried
  <2>3. ToSet(q[1].carries) \subseteq Carried(q)
    BY <1>5, Zenon DEF Carried
  <2> QED BY <2>1, <2>2, <2>3
<1> QED
  BY <1>1, <1>2, <1>6

LEMMA CarriedType ==
    ASSUME NEW q \in Seq(Message)
    PROVE  Carried(q) \subseteq Ids
<1>1. \A i \in 1..Len(q) : q[i] \in Message
  BY ElementOfSeq
<1>2. \A i \in 1..Len(q) : ToSet(q[i].carries) \subseteq Ids
  BY <1>1 DEF Message, ToSet
<1> QED
  BY <1>2 DEF Carried

LEMMA InitPorts == PortsInit => PortsInv
<1> SUFFICES ASSUME PortsInit PROVE PortsInv
  OBVIOUS
<1> USE PortsAssumption
<1>1. /\ ports = {1, 2} /\ nextPortID = 2 /\ heldPorts = {1, 2} /\ {1, 2} \subseteq Ids
      /\ \A p \in Ids : port[p] = NewPort(IF p \in {1, 2} THEN p ELSE 0)
  BY DEF PortsInit, Ends, Ids
<1>2. \A e \in 0..2 : NewPort(e) \in Port /\ NewPort(e).queue = <<>> /\ NewPort(e).end = e
  <2>1. <<>> \in Seq(Message)
    OBVIOUS
  <2> QED
    BY <2>1 DEF NewPort, Port
<1>3. port[1].end = 1 /\ port[2].end = 2 /\ port[1].queue = <<>> /\ port[2].queue = <<>>
  BY <1>1, <1>2
<1>4. port[1].peer = 2 /\ port[2].peer = 1
  <2>1. port[1] = NewPort(1) /\ port[2] = NewPort(2)
    BY <1>1
  <2>2. NewPort(1).peer = 2 /\ NewPort(2).peer = 1
    BY DEF NewPort
  <2> QED
    BY <2>1, <2>2
<1>5. PortsTypeOK
  <2>1. port \in [Ids -> Port]
    BY <1>1, <1>2 DEF PortsInit
  <2> QED
    BY <1>1, <2>1 DEF PortsInit, PortsTypeOK, Ends
<1>6. LinkedIn(port, ports) /\ ShapedIn(port, ports, nextPortID)
  BY <1>1, <1>3, <1>4 DEF LinkedIn, ShapedIn, Ends
<1>7. KeptIn(port, ports, posted, delivered)
  <2>1. \A e \in {1, 2} : posted[e] = <<>> /\ delivered[e] = <<>>
    BY DEF PortsInit, Ends
  <2>2. <<>> \o <<>> = <<>>
    OBVIOUS
  <2> QED
    BY <1>1, <1>3, <2>1, <2>2, EmptyNumbers DEF KeptIn
<1> QED
  BY <1>1, <1>3, <1>5, <1>6, <1>7 DEF PortsInv, WokenIn, ReachableIn

-------------------------------------------------------------------------------
\* What a clone leaves.

LEMMA TransferCount ==
    ASSUME NEW transfer \in Transfers, ports \subseteq Ids
    PROVE  /\ transfer \in Seq(Ids) /\ ToSet(transfer) \subseteq ports \cap heldPorts
           /\ Cardinality(ToSet(transfer)) <= Len(transfer)
<1>1. transfer \in Seq(ports) /\ ToSet(transfer) \subseteq heldPorts
  <2>1. ToSet(transfer) \subseteq heldPorts
    BY DEF Transfers
  <2>2. \/ transfer = <<>>
        \/ \E p \in ports : transfer = <<p>>
        \/ \E p, q \in ports : transfer = <<p, q>>
    BY DEF Transfers
  <2>3. transfer \in Seq(ports)
    <3>1. <<>> \in Seq(ports)
      OBVIOUS
    <3>2. \A p \in ports : <<p>> \in Seq(ports)
      OBVIOUS
    <3>3. \A p, q \in ports : <<p, q>> \in Seq(ports)
      OBVIOUS
    <3> QED
      BY <2>2, <3>1, <3>2, <3>3, Zenon
  <2> QED
    BY <2>1, <2>3
<1>2. ToSet(transfer) \subseteq ports
  BY <1>1, ElementOfSeq, LenProperties DEF ToSet
<1>3. transfer \in Seq(Ids)
  BY <1>1, SeqMonotonic
<1>4. Cardinality(ToSet(transfer)) <= Len(transfer)
  <2>1. PICK n : n = Len(transfer)
    OBVIOUS
  <2>2. n \in Nat /\ DOMAIN transfer = 1..n /\ transfer \in [1..n -> ports]
    BY <1>1, <2>1, LenProperties
  <2>3. transfer \in Surjection(1..n, ToSet(transfer))
    BY <2>2 DEF Surjection, ToSet
  <2>4. IsFiniteSet(1..n) /\ Cardinality(1..n) = n
    BY <2>2, FS_Interval
  <2> QED
    BY <2>1, <2>3, <2>4, FS_Surjection
<1> QED
  BY <1>1, <1>2, <1>3, <1>4

LEMMA CloneFollows ==
    ASSUME PortsInv, NEW value \in Values, NEW transfer \in Transfers,
           nextPortID + Len(transfer) <= MaxPorts,
           NEW x, x = CloneWithTransfers(value, transfer)
    PROVE  /\ Cloning(x, ToSet(transfer)) /\ x.next \in nextPortID..MaxPorts
           /\ x.ok => ToSet(transfer) \cup ToSet(value) \subseteq Done(x)
<1>1. /\ PortsTypeOK /\ ports \subseteq Ids /\ heldPorts \subseteq Ids /\ nextPortID \in Nat
      /\ LinkedIn(port, ports) /\ ShapedIn(port, ports, nextPortID)
  BY DEF PortsInv, PortsTypeOK
<1>2. PICK T : T = ToSet(transfer)
  OBVIOUS
<1>3. /\ transfer \in Seq(Ids) /\ T \subseteq ports /\ T \subseteq Ids
      /\ Cardinality(T) <= Len(transfer)
  BY <1>1, <1>2, TransferCount
<1>4. Len(transfer) \in Nat /\ Cardinality(T) \in Nat /\ IsFiniteSet(T)
  BY <1>3, LenProperties, PortsFinite
<1>5. Base(T)
  <2>1. nextPortID + Cardinality(T) <= MaxPorts
    BY <1>1, <1>3, <1>4, PortsAssumption
  <2> QED
    BY <1>1, <1>3, <2>1 DEF Base
<1>6. PICK S : S = Ids \cup {Uncloneable}
  OBVIOUS
<1>7. value \in Seq(S) /\ transfer \in Seq(S)
  <2>1. value \in Seq(S)
    <3>1. \/ value = <<>> \/ value = <<Uncloneable>>
          \/ \E p \in heldPorts : value = <<p>> \/ value = <<p, Uncloneable>>
      BY DEF Values
    <3>2. Uncloneable \in S /\ heldPorts \subseteq S
      BY <1>1, <1>6
    <3>3. <<>> \in Seq(S) /\ <<Uncloneable>> \in Seq(S)
      BY <3>2
    <3>4. \A p \in heldPorts : <<p>> \in Seq(S)
      BY <3>2
    <3>5. \A p \in heldPorts : <<p, Uncloneable>> \in Seq(S)
      BY <3>2
    <3> QED
      BY <3>1, <3>3, <3>4, <3>5, Zenon
  <2>2. Ids \subseteq S
    BY <1>6
  <2> QED
    BY <1>3, <2>1, <2>2, SeqMonotonic
<1>8. PICK all : all = value \o transfer
  OBVIOUS
<1>9. /\ all \in Seq(S) /\ Len(all) = Len(value) + Len(transfer) /\ Len(value) \in Nat
      /\ \A i \in 1..Len(value) : all[i] = value[i]
      /\ \A i \in 1..Len(transfer) : all[i + Len(value)] = transfer[i]
  <2>1. /\ value \o transfer \in Seq(S) /\ Len(value \o transfer) = Len(value) + Len(transfer)
        /\ \A i \in 1..(Len(value) + Len(transfer)) :
             (value \o transfer)[i] = IF i <= Len(value) THEN value[i] ELSE transfer[i - Len(value)]
    BY <1>7, ConcatProperties
  <2>2. Len(value) \in Nat
    BY <1>7, LenProperties
  <2>3. \A i \in 1..Len(value) : all[i] = value[i]
    BY <1>4, <1>8, <2>1, <2>2
  <2>4. \A i \in 1..Len(transfer) : all[i + Len(value)] = transfer[i]
    <3> SUFFICES ASSUME NEW i \in 1..Len(transfer) PROVE all[i + Len(value)] = transfer[i]
      OBVIOUS
    <3>1. PICK j : j = i + Len(value)
      OBVIOUS
    <3>2. j \in 1..(Len(value) + Len(transfer)) /\ ~(j <= Len(value)) /\ j - Len(value) = i
      BY <1>4, <2>2, <3>1
    <3> QED
      BY <1>8, <2>1, <3>1, <3>2
  <2> QED
    BY <1>8, <2>1, <2>2, <2>3, <2>4
<1>10. /\ Cloning(x, T) /\ Len(all) \in Nat
       /\ x.ok => \A i \in 1..Len(all) : all[i] \in Done(x)
  <2>1. x = CloneAll(all, transfer)
    BY <1>8 DEF CloneWithTransfers
  <2>2. Len(all) \in Nat
    BY <1>4, <1>9
  <2> QED
    BY <1>2, <1>5, <2>1, <2>2, AllClone
<1>11. x.next \in nextPortID..MaxPorts
  <2>1. x.next = nextPortID + Cardinality(Done(x)) /\ Done(x) \subseteq T
    BY <1>10 DEF Cloning
  <2>2. Cardinality(Done(x)) \in Nat /\ Cardinality(Done(x)) <= Cardinality(T)
    BY <1>3, <1>4, <2>1, PortsFinite, FS_Subset
  <2> QED
    BY <1>1, <1>3, <1>4, <2>1, <2>2, PortsAssumption
<1>12. ASSUME x.ok PROVE T \subseteq Done(x) /\ ToSet(value) \subseteq Done(x)
  <2>1. \A i \in 1..Len(value) : value[i] \in Done(x)
    BY <1>4, <1>9, <1>10, <1>12
  <2>2. \A i \in 1..Len(transfer) : transfer[i] \in Done(x)
    <3> SUFFICES ASSUME NEW i \in 1..Len(transfer) PROVE transfer[i] \in Done(x)
      OBVIOUS
    <3>1. i + Len(value) \in 1..Len(all)
      BY <1>4, <1>9
    <3> QED
      BY <1>9, <1>10, <1>12, <3>1
  <2>3. DOMAIN value = 1..Len(value) /\ DOMAIN transfer = 1..Len(transfer)
    BY <1>7, LenProperties
  <2> QED
    BY <1>2, <2>1, <2>2, <2>3 DEF ToSet
<1> QED
  BY <1>2, <1>10, <1>11, <1>12

\* What the invariant says of the ports after a clone that has made its copies.
CloneLeft(x) ==
    /\ x.port \in [Ids -> Port] /\ x.ports \subseteq Ids /\ Copies(x) \subseteq Ids
    /\ LinkedIn(x.port, x.ports) /\ ShapedIn(x.port, x.ports, x.next)
    /\ KeptIn(x.port, x.ports, posted, delivered)
    /\ WokenIn(x.port, x.ports, unwoken \cup Inherited(x), portJobs, dispatching)
    /\ ReachableIn(x.port, x.ports, heldPorts \cup orphans \cup Copies(x))

LEMMA CopiesAre ==
    ASSUME NEW x, x \in Work
    PROVE  Copies(x) = {x.copy[p] : p \in Done(x)}
  BY DEF Copies, Done

LEMMA CloneLeaves ==
    ASSUME PortsInv, NEW T, NEW x, Cloning(x, T), x.next <= MaxPorts
    PROVE  CloneLeft(x)
<1>1. /\ x.port \in [Ids -> Port] /\ x.ports \subseteq Ids /\ x \in Work /\ x.next \in Nat
      /\ LinkedIn(x.port, x.ports) /\ ShapedIn(x.port, x.ports, x.next)
  BY DEF Cloning, Work
<1>2. ports \subseteq Ids /\ nextPortID \in Nat
  BY DEF PortsInv, PortsTypeOK
<1>3. \A c \in Copies(x) : c \in (nextPortID + 1)..x.next
  BY <1>1, CopiesAre DEF Cloning
<1>4. Copies(x) \subseteq Ids
  BY <1>1, <1>2, <1>3, PortsAssumption DEF Ids
<1>5. \A s \in x.ports : \E p \in ports :
        /\ s = At(x, p) /\ Same(x.port[s], port[p])
        /\ s \in Copies(x) \/ s = p
  <2> SUFFICES ASSUME NEW s \in x.ports
               PROVE  \E p \in ports : /\ s = At(x, p) /\ Same(x.port[s], port[p])
                                       /\ s \in Copies(x) \/ s = p
    OBVIOUS
  <2>1. PICK p \in ports : s = At(x, p)
    BY DEF Cloning
  <2>2. Same(x.port[s], port[p])
    BY <2>1 DEF Cloning
  <2>3. s \in Copies(x) \/ s = p
    BY <1>2, <2>1 DEF At, Copies
  <2> QED
    BY <2>1, <2>2, <2>3
<1>6. KeptIn(x.port, x.ports, posted, delivered)
  BY <1>5 DEF PortsInv, KeptIn, Same
<1>7. WokenIn(x.port, x.ports, unwoken \cup Inherited(x), portJobs, dispatching)
  <2> SUFFICES ASSUME NEW s \in x.ports \ (unwoken \cup Inherited(x)),
                      x.port[s].started, x.port[s].queue # <<>>
               PROVE  s \in ToSet(portJobs) \/ s = dispatching
    BY DEF WokenIn
  <2>1. s \notin Copies(x)
    BY DEF Inherited
  <2> QED
    BY <1>5, <2>1 DEF PortsInv, WokenIn, Same
<1>8. ReachableIn(x.port, x.ports, heldPorts \cup orphans \cup Copies(x))
  <2> SUFFICES ASSUME NEW s \in x.ports \ (heldPorts \cup orphans \cup Copies(x))
               PROVE  \E r \in x.ports : s \in Carried(x.port[r].queue)
    BY DEF ReachableIn
  <2>1. s \in ports \ (heldPorts \cup orphans)
    BY <1>5
  <2>2. PICK q \in ports : s \in Carried(port[q].queue)
    BY <2>1 DEF PortsInv, ReachableIn
  <2>3. At(x, q) \in x.ports /\ x.port[At(x, q)].queue = port[q].queue
    BY DEF Cloning, Same
  <2> QED
    BY <2>2, <2>3
<1> QED
  BY <1>1, <1>4, <1>6, <1>7, <1>8 DEF CloneLeft

-------------------------------------------------------------------------------
\* The steps.

LEMMA CopiesHeldOrLost ==
    ASSUME PortsInv, NEW value \in Values, NEW transfer \in Transfers,
           StructuredClone(value, transfer)
    PROVE  PortsInv'
<1>1. PICK x : x = CloneWithTransfers(value, transfer)
  OBVIOUS
<1>2. PICK given : given = IF x.ok THEN {x.copy[p] : p \in ToSet(value)} ELSE {}
  OBVIOUS
<1>3. /\ nextPortID + Len(transfer) <= MaxPorts
      /\ ports' = x.ports /\ nextPortID' = x.next /\ orphans' = orphans \cup (Copies(x) \ given)
      /\ port' = x.port /\ heldPorts' = heldPorts \cup given
      /\ unwoken' = unwoken \cup Inherited(x)
      /\ UNCHANGED <<portJobs, dispatching, posted, delivered>>
  BY <1>1, <1>2 DEF StructuredClone, Cloned
<1>4. /\ Cloning(x, ToSet(transfer)) /\ x.next \in nextPortID..MaxPorts
      /\ x.ok => ToSet(value) \subseteq Done(x)
  BY <1>1, <1>3, CloneFollows
<1>5. x \in Work /\ CloneLeft(x) /\ nextPortID \in 2..MaxPorts /\ PortsTypeOK
  <2>1. nextPortID \in 2..MaxPorts /\ PortsTypeOK
    BY DEF PortsInv, PortsTypeOK
  <2>2. x.next <= MaxPorts /\ x \in Work
    BY <1>4, <2>1, PortsAssumption DEF Cloning
  <2> QED
    BY <1>4, <2>1, <2>2, CloneLeaves
<1>6. given \subseteq Copies(x) /\ Inherited(x) \subseteq Copies(x)
  BY <1>2, <1>4, <1>5, CopiesAre DEF Inherited
<1>7. PortsTypeOK'
  BY <1>3, <1>4, <1>5, <1>6 DEF PortsTypeOK, CloneLeft
<1>8. heldPorts' \cup orphans' = heldPorts \cup orphans \cup Copies(x)
  BY <1>3, <1>6
<1> QED
  BY <1>3, <1>5, <1>7, <1>8 DEF PortsInv, CloneLeft

\* A message joins a queue.
Pushed(po, to, e, pn) ==
    /\ pn \in [Ids -> Port]
    /\ pn[to].queue = Append(po[to].queue, e) /\ pn[to].peer = po[to].peer
    /\ pn[to].end = po[to].end /\ pn[to].started = po[to].started
    /\ \A r \in Ids \ {to} : pn[r] = po[r]

LEMMA Push ==
    ASSUME NEW po \in [Ids -> Port], NEW to \in Ids, NEW e \in Message,
           NEW pn, pn = [po EXCEPT ![to].queue = Append(@, e)]
    PROVE  Pushed(po, to, e, pn)
<1>1. PICK o : o = po[to]
  OBVIOUS
<1>2. PICK q : q = Append(o.queue, e)
  OBVIOUS
<1>3. o \in Port
  BY <1>1
<1>4. q \in Seq(Message)
  BY <1>2, <1>3 DEF Port
<1>5. PICK n : n = [o EXCEPT !.queue = q]
  OBVIOUS
<1>6. /\ n \in Port /\ n.queue = q /\ n.peer = o.peer /\ n.end = o.end /\ n.started = o.started
  BY <1>3, <1>4, <1>5 DEF Port
<1>7. pn = [po EXCEPT ![to] = n]
  BY <1>1, <1>2, <1>5
<1> QED
  BY <1>1, <1>2, <1>6, <1>7 DEF Pushed

LEMMA EnqueueWakes ==
    ASSUME NEW p, NEW asleep, NEW jobs \in Seq(Ids), p \in Ids, Enqueue(jobs, p, asleep)
    PROVE  /\ portJobs' \in Seq(Ids) /\ ToSet(jobs) \subseteq ToSet(portJobs')
           /\ unwoken' \subseteq unwoken \cup asleep \cup {p}
           /\ (unwoken \cup asleep) \ {p} \subseteq unwoken'
           /\ p \in unwoken' \/ p \in ToSet(portJobs')
<1>1. CASE /\ portJobs' = Append(jobs, p)
           /\ unwoken' = (unwoken \cup asleep) \ {p}
  <2>1. PICK a, b : a = jobs /\ b = portJobs'
    OBVIOUS
  <2>2. b = Append(a, p) /\ a \in Seq(Ids)
    BY <1>1, <2>1
  <2>3. /\ b \in Seq(Ids) /\ Len(b) = Len(a) + 1 /\ Len(a) \in Nat /\ b[Len(a) + 1] = p
        /\ \A i \in 1..Len(a) : b[i] = a[i]
    BY <2>2
  <2>4. DOMAIN a = 1..Len(a) /\ DOMAIN b = 1..Len(b) /\ Len(a) + 1 \in 1..Len(b)
        /\ 1..Len(a) \subseteq 1..Len(b)
    BY <2>2, <2>3, LenProperties
  <2>5. ToSet(a) \subseteq ToSet(b) /\ p \in ToSet(b)
    BY <2>3, <2>4 DEF ToSet
  <2> QED
    BY <1>1, <2>1, <2>3, <2>5
<1>2. CASE unwoken' = unwoken \cup asleep \cup {p} /\ portJobs' = jobs
  BY <1>2
<1> QED
  BY <1>1, <1>2 DEF Enqueue

LEMMA PostKeeps ==
    ASSUME PortsInv, NEW p \in Ids, NEW value \in Values, NEW transfer \in Transfers,
           Post(p, value, transfer)
    PROVE  PortsInv'
<1>1. PICK q, x : q = port[p].peer /\ x = CloneWithTransfers(value, transfer)
  OBVIOUS
<1>2. PICK to : to = At(x, q)
  OBVIOUS
<1>3. PICK entry : entry = [n |-> Len(posted[port[q].end]) + 1,
                            carries |-> [i \in 1..Len(transfer) |-> x.copy[transfer[i]]]]
  OBVIOUS
<1>4. /\ p \in ports /\ q \in ports /\ nextPortID + Len(transfer) <= MaxPorts
      /\ Len(posted[1]) + Len(posted[2]) < MaxPosts
      /\ ports' = x.ports /\ nextPortID' = x.next
      /\ orphans' = orphans \cup (IF x.ok THEN {} ELSE Copies(x))
      /\ UNCHANGED <<dispatching, heldPorts, delivered>>
  BY <1>1 DEF Post, Cloned
<1>20. ~x.ok => /\ port' = x.port /\ unwoken' = unwoken \cup Inherited(x)
                /\ UNCHANGED <<portJobs, posted>>
  BY <1>1 DEF Post
<1>21. ASSUME x.ok
       PROVE  /\ port' = [x.port EXCEPT ![to].queue = Append(@, entry)]
              /\ posted' = [posted EXCEPT ![port[q].end] = Append(@, entry.n)]
              /\ IF to = q THEN Enqueue(portJobs, q, Inherited(x))
                 ELSE unwoken' = unwoken \cup Inherited(x) \cup {to} /\ UNCHANGED portJobs
  <2>1. to = IF x.copy[q] # 0 THEN x.copy[q] ELSE q
    BY <1>2 DEF At
  <2> DEFINE goes == IF x.copy[q] # 0 THEN x.copy[q] ELSE q
             message == [n |-> Len(posted[port[q].end]) + 1,
                         carries |-> [i \in 1..Len(transfer) |-> x.copy[transfer[i]]]]
  <2>4. port' = [x.port EXCEPT ![goes].queue = Append(@, message)]
    <3> DEFINE peer == port[p].peer
               w == CloneWithTransfers(value, transfer)
               there == IF w.copy[peer] # 0 THEN w.copy[peer] ELSE peer
               sent == [n |-> Len(posted[port[peer].end]) + 1,
                        carries |-> [i \in 1..Len(transfer) |-> w.copy[transfer[i]]]]
    <3>1. w = x /\ peer = q /\ w.ok
      BY <1>1, <1>21
    <3>2. port' = [w.port EXCEPT ![there].queue = Append(@, sent)]
      BY <3>1, Zenon DEF Post
    <3>3. there = goes /\ sent = message
      BY <3>1, Zenon
    <3> HIDE DEF w, there, sent, goes, message
    <3> QED
      BY <3>1, <3>2, <3>3
  <2>5. posted' = [posted EXCEPT ![port[q].end] = Append(@, message.n)]
    BY <1>1, <1>21 DEF Post
  <2>6. IF goes = q THEN Enqueue(portJobs, q, Inherited(x))
        ELSE unwoken' = unwoken \cup Inherited(x) \cup {goes} /\ UNCHANGED portJobs
    BY <1>1, <1>21 DEF Post
  <2>3. goes = to /\ message = entry
    BY <1>3, <2>1, Zenon
  <2> HIDE DEF goes, message
  <2> QED
    BY <2>3, <2>4, <2>5, <2>6
<1>5. /\ Cloning(x, ToSet(transfer)) /\ x.next \in nextPortID..MaxPorts
      /\ x.ok => ToSet(transfer) \subseteq Done(x)
  BY <1>1, <1>4, CloneFollows
<1>6. x \in Work /\ CloneLeft(x) /\ x.next \in 2..MaxPorts /\ PortsTypeOK
  <2>1. nextPortID \in 2..MaxPorts /\ PortsTypeOK
    BY DEF PortsInv, PortsTypeOK
  <2>2. x.next <= MaxPorts /\ x \in Work /\ x.next \in 2..MaxPorts
    BY <1>5, <2>1, PortsAssumption DEF Cloning
  <2> QED
    BY <1>5, <2>1, <2>2, CloneLeaves
<1>7. Inherited(x) \subseteq Copies(x) /\ Copies(x) \subseteq Ids
  BY <1>6 DEF Inherited, CloneLeft
<1>8. CASE ~x.ok
  <2>1. PortsTypeOK'
    BY <1>4, <1>20, <1>6, <1>7, <1>8 DEF PortsTypeOK, CloneLeft
  <2>2. heldPorts' \cup orphans' = heldPorts \cup orphans \cup Copies(x)
    BY <1>4, <1>8
  <2> QED
    BY <1>4, <1>20, <1>6, <1>8, <2>1, <2>2 DEF PortsInv, CloneLeft
<1>9. CASE x.ok
  <2>1. /\ transfer \in Seq(Ids) /\ Len(transfer) \in Nat /\ DOMAIN transfer = 1..Len(transfer)
        /\ \A i \in 1..Len(transfer) : transfer[i] \in Done(x)
    <3>1. transfer \in Seq(Ids)
      BY <1>6, TransferCount DEF PortsTypeOK
    <3>2. Len(transfer) \in Nat /\ DOMAIN transfer = 1..Len(transfer)
      BY <3>1, LenProperties
    <3> QED
      BY <1>5, <1>9, <3>1, <3>2 DEF ToSet
  <2>2. /\ entry.carries \in Seq(Ids) /\ Len(entry.carries) = Len(transfer)
        /\ \A i \in 1..Len(transfer) : entry.carries[i] = x.copy[transfer[i]]
    <3>1. \A i \in 1..Len(transfer) : x.copy[transfer[i]] \in Ids
      BY <1>6, <1>7, <2>1, CopiesAre
    <3>2. entry.carries = [i \in 1..Len(transfer) |-> x.copy[transfer[i]]]
      BY <1>3
    <3> QED
      BY <2>1, <3>1, <3>2
  <2>3. Copies(x) \subseteq ToSet(entry.carries)
    <3> SUFFICES ASSUME NEW c \in Copies(x) PROVE c \in ToSet(entry.carries)
      OBVIOUS
    <3>1. PICK r \in Done(x) : c = x.copy[r]
      BY <1>6, CopiesAre
    <3>2. PICK i \in 1..Len(transfer) : r = transfer[i]
      BY <1>5, <2>1 DEF Cloning, ToSet
    <3>3. i \in DOMAIN entry.carries
      BY <2>2, LenProperties
    <3> QED
      BY <2>2, <3>1, <3>2, <3>3 DEF ToSet
  <2>4. PICK e : e = port[q].end
    OBVIOUS
  <2>5. e \in Ends /\ q \in Ids
    BY <1>4, <2>4 DEF PortsInv, ShapedIn, PortsTypeOK
  <2>6. entry.n \in 1..MaxPosts /\ posted[e] \in Seq(1..MaxPosts) /\ delivered[e] \in Seq(1..MaxPosts)
    <3>1. /\ Len(posted[1]) \in Nat /\ Len(posted[2]) \in Nat
          /\ posted[e] \in Seq(1..MaxPosts) /\ delivered[e] \in Seq(1..MaxPosts)
      BY <1>6, <2>5, LenProperties DEF PortsTypeOK, Ends
    <3>2. Len(posted[e]) + 1 \in 1..MaxPosts
      <4>1. Len(posted[e]) <= Len(posted[1]) + Len(posted[2])
        <5>1. PICK m, n : m = Len(posted[1]) /\ n = Len(posted[2])
          OBVIOUS
        <5>2. m \in Nat /\ n \in Nat
          BY <3>1, <5>1
        <5>3. Len(posted[e]) = m \/ Len(posted[e]) = n
          BY <2>5, <5>1, Zenon DEF Ends
        <5>4. m <= m + n /\ n <= m + n
          BY <5>2
        <5> QED
          BY <5>1, <5>3, <5>4
      <4>2. Len(posted[e]) \in Nat
        BY <3>1, LenProperties
      <4>3. PICK k, m, n : k = Len(posted[e]) /\ m = Len(posted[1]) /\ n = Len(posted[2])
        OBVIOUS
      <4>4. k \in Nat /\ m \in Nat /\ n \in Nat /\ k <= m + n /\ m + n < MaxPosts
        BY <1>4, <3>1, <4>1, <4>2, <4>3
      <4>5. k + 1 \in 1..MaxPosts
        BY <4>4, PortsAssumption
      <4> QED
        BY <4>3, <4>5
    <3> QED
      BY <1>3, <2>4, <3>1, <3>2
  <2>7. entry \in Message
    BY <1>3, <2>2, <2>6 DEF Message
  <2>8. /\ to \in x.ports /\ to \in Ids /\ Same(x.port[to], port[q])
        /\ x.port[to].queue \in Seq(Message)
    <3>1. to \in x.ports /\ Same(x.port[to], port[q])
      BY <1>2, <1>4, <1>5 DEF Cloning
    <3> QED
      BY <1>6, <3>1 DEF CloneLeft, Port
  <2>9. PICK po, pn : po = x.port /\ pn = port'
    OBVIOUS
  <2>10. po \in [Ids -> Port] /\ pn = [po EXCEPT ![to].queue = Append(@, entry)]
    BY <1>21, <1>6, <1>9, <2>9 DEF CloneLeft
  <2>11. /\ pn \in [Ids -> Port]
         /\ pn[to].queue = Append(po[to].queue, entry) /\ pn[to].peer = po[to].peer
         /\ pn[to].end = po[to].end /\ pn[to].started = po[to].started
         /\ \A r \in Ids \ {to} : pn[r] = po[r]
    <3>1. Pushed(po, to, entry, pn)
      BY <2>7, <2>8, <2>10, Push
    <3> QED
      BY <3>1 DEF Pushed
  <2>12. /\ posted' \in [Ends -> Seq(1..MaxPosts)]
         /\ posted'[e] = Append(posted[e], entry.n)
         /\ \A f \in Ends \ {e} : posted'[f] = posted[f]
    <3>1. PICK s : s = Append(posted[e], entry.n)
      OBVIOUS
    <3>2. s \in Seq(1..MaxPosts)
      BY <2>6, <3>1
    <3>3. posted' = [posted EXCEPT ![e] = s]
      BY <1>21, <1>9, <2>4, <3>1
    <3> QED
      BY <1>6, <2>5, <3>1, <3>2, <3>3 DEF PortsTypeOK
  <2>13. /\ portJobs' \in Seq(Ids) /\ ToSet(portJobs) \subseteq ToSet(portJobs')
         /\ unwoken' \subseteq Ids
         /\ (unwoken \cup Inherited(x)) \ {to} \subseteq unwoken'
         /\ to \in unwoken' \/ to \in ToSet(portJobs')
    <3>1. portJobs \in Seq(Ids) /\ unwoken \subseteq Ids
      BY <1>6 DEF PortsTypeOK
    <3>2. CASE to = q
      <4>1. Enqueue(portJobs, q, Inherited(x))
        BY <1>21, <1>9, <3>2
      <4>2. /\ portJobs' \in Seq(Ids) /\ ToSet(portJobs) \subseteq ToSet(portJobs')
            /\ unwoken' \subseteq unwoken \cup Inherited(x) \cup {q}
            /\ (unwoken \cup Inherited(x)) \ {q} \subseteq unwoken'
            /\ q \in unwoken' \/ q \in ToSet(portJobs')
        BY <2>5, <3>1, <4>1, EnqueueWakes
      <4> QED
        BY <1>7, <2>5, <3>1, <3>2, <4>2
    <3>3. CASE to # q
      BY <1>21, <1>7, <1>9, <2>8, <3>1, <3>3
    <3> QED
      BY <3>2, <3>3
  <2>14. PortsTypeOK'
    BY <1>4, <1>6, <1>9, <2>9, <2>11, <2>12, <2>13 DEF PortsTypeOK, CloneLeft
  <2>15. LinkedIn(pn, x.ports) /\ ShapedIn(pn, x.ports, x.next)
    <3>1. \A r \in x.ports : pn[r].end = po[r].end /\ pn[r].peer = po[r].peer
      BY <1>6, <2>11 DEF CloneLeft
    <3> QED
      BY <1>6, <2>9, <3>1 DEF CloneLeft, LinkedIn, ShapedIn
  <2>16. KeptIn(pn, x.ports, posted', delivered)
    <3> SUFFICES ASSUME NEW r \in x.ports
                 PROVE  posted'[pn[r].end] = delivered[pn[r].end] \o Numbers(pn[r].queue)
      BY DEF KeptIn
    <3>1. po[r].end \in Ends /\ r \in Ids
      BY <1>6, <2>9 DEF CloneLeft, ShapedIn
    <3>2. posted[po[r].end] = delivered[po[r].end] \o Numbers(po[r].queue)
      BY <1>6, <2>9 DEF CloneLeft, KeptIn
    <3>3. CASE r = to
      <4>1. pn[r].end = e /\ po[r].end = e
        BY <2>4, <2>8, <2>9, <2>11, <3>3 DEF Same
      <4>2. Append(delivered[e] \o Numbers(po[to].queue), entry.n)
              = delivered[e] \o Numbers(Append(po[to].queue, entry))
        BY <2>6, <2>7, <2>8, <2>9, NumbersAppend
      <4>3. posted'[e] = Append(posted[e], entry.n)
        BY <2>12
      <4> QED
        BY <2>11, <3>2, <3>3, <4>1, <4>2, <4>3
    <3>4. CASE r # to
      <4>1. po[r].end # po[to].end
        BY <1>6, <2>8, <2>9, <3>4 DEF CloneLeft, LinkedIn
      <4>2. po[to].end = e
        BY <2>4, <2>8, <2>9 DEF Same
      <4> QED
        BY <2>11, <2>12, <3>1, <3>2, <3>4, <4>1, <4>2
    <3> QED
      BY <3>3, <3>4
  <2>17. WokenIn(pn, x.ports, unwoken', portJobs', dispatching)
    <3> SUFFICES ASSUME NEW r \in x.ports \ unwoken', pn[r].started, pn[r].queue # <<>>
                 PROVE  r \in ToSet(portJobs') \/ r = dispatching
      BY DEF WokenIn
    <3>1. CASE r = to
      BY <2>13, <3>1
    <3>2. CASE r # to
      <4>1. r \in x.ports \ (unwoken \cup Inherited(x)) /\ pn[r] = po[r]
        BY <1>6, <2>11, <2>13, <3>2 DEF CloneLeft
      <4> QED
        BY <1>6, <2>9, <2>13, <4>1 DEF CloneLeft, WokenIn
    <3> QED
      BY <3>1, <3>2
  <2>18. ReachableIn(pn, x.ports, heldPorts \cup orphans)
    <3> SUFFICES ASSUME NEW s \in x.ports \ (heldPorts \cup orphans)
                 PROVE  \E r \in x.ports : s \in Carried(pn[r].queue)
      BY DEF ReachableIn
    <3>1. Carried(pn[to].queue) = Carried(po[to].queue) \cup ToSet(entry.carries)
      BY <2>7, <2>8, <2>9, <2>11, CarriedAppend
    <3>2. CASE s \in Copies(x)
      BY <2>3, <2>8, <3>1, <3>2
    <3>3. CASE s \notin Copies(x)
      <4>1. PICK r \in x.ports : s \in Carried(po[r].queue)
        BY <1>6, <2>9, <3>3 DEF CloneLeft, ReachableIn
      <4>2. r \in Ids
        BY <1>6 DEF CloneLeft
      <4>3. s \in Carried(pn[r].queue)
        BY <2>11, <3>1, <4>1, <4>2
      <4> QED
        BY <4>3
    <3> QED
      BY <3>2, <3>3
  <2>19. heldPorts' \cup orphans' = heldPorts \cup orphans
    BY <1>4, <1>9
  <2> QED
    BY <1>4, <2>9, <2>14, <2>15, <2>16, <2>17, <2>18, <2>19 DEF PortsInv
<1> QED
  BY <1>8, <1>9

LEMMA StartKeeps ==
    ASSUME PortsInv, NEW p \in Ids, Start(p)
    PROVE  PortsInv'
<1>1. /\ p \in ports /\ port' = [port EXCEPT ![p].started = TRUE]
      /\ IF port[p].queue # <<>> THEN Enqueue(portJobs, p, {}) ELSE UNCHANGED <<portJobs, unwoken>>
      /\ UNCHANGED <<ports, nextPortID, dispatching, heldPorts, posted, delivered, orphans>>
  BY DEF Start
<1>2. PortsTypeOK
  BY DEF PortsInv
<1>3. PICK o, n : o = port[p] /\ n = [port[p] EXCEPT !.started = TRUE]
  OBVIOUS
<1>4. /\ o \in Port /\ n = [o EXCEPT !.started = TRUE] /\ port' = [port EXCEPT ![p] = n]
  BY <1>1, <1>2, <1>3 DEF PortsTypeOK
<1>5. n \in Port /\ n.queue = o.queue /\ n.end = o.end /\ n.peer = o.peer
  BY <1>4 DEF Port
<1>6. /\ port' \in [Ids -> Port]
      /\ \A r \in Ids : /\ port'[r].queue = port[r].queue /\ port'[r].end = port[r].end
                        /\ port'[r].peer = port[r].peer
                        /\ r # p => port'[r].started = port[r].started
  BY <1>2, <1>3, <1>4, <1>5 DEF PortsTypeOK
<1>7. /\ portJobs' \in Seq(Ids) /\ unwoken' \subseteq Ids
      /\ ToSet(portJobs) \subseteq ToSet(portJobs') /\ unwoken \ {p} \subseteq unwoken'
      /\ port[p].queue # <<>> => p \in unwoken' \/ p \in ToSet(portJobs')
      /\ port[p].queue = <<>> => unwoken' = unwoken
  <2>1. portJobs \in Seq(Ids) /\ unwoken \subseteq Ids
    BY <1>2 DEF PortsTypeOK
  <2>2. CASE port[p].queue # <<>>
    <3>1. Enqueue(portJobs, p, {})
      BY <1>1, <2>2
    <3>2. /\ portJobs' \in Seq(Ids) /\ ToSet(portJobs) \subseteq ToSet(portJobs')
          /\ unwoken' \subseteq unwoken \cup {} \cup {p}
          /\ (unwoken \cup {}) \ {p} \subseteq unwoken'
          /\ p \in unwoken' \/ p \in ToSet(portJobs')
      BY <2>1, <3>1, EnqueueWakes
    <3> QED
      BY <2>1, <2>2, <3>2
  <2>3. CASE port[p].queue = <<>>
    BY <1>1, <2>1, <2>3
  <2> QED
    BY <2>2, <2>3
<1>8. ports \subseteq Ids
  BY <1>2 DEF PortsTypeOK
<1>9. PortsTypeOK'
  BY <1>1, <1>2, <1>6, <1>7 DEF PortsTypeOK
<1>10. LinkedIn(port', ports') /\ ShapedIn(port', ports', nextPortID')
  BY <1>1, <1>6, <1>8 DEF PortsInv, LinkedIn, ShapedIn
<1>11. KeptIn(port', ports', posted', delivered')
  BY <1>1, <1>6, <1>8 DEF PortsInv, KeptIn
<1>12. WokenIn(port', ports', unwoken', portJobs', dispatching')
  <2> SUFFICES ASSUME NEW r \in ports \ unwoken', port'[r].started, port'[r].queue # <<>>
               PROVE  r \in ToSet(portJobs') \/ r = dispatching
    BY <1>1 DEF WokenIn
  <2>1. CASE r = p
    BY <1>6, <1>7, <2>1
  <2>2. CASE r # p
    BY <1>6, <1>7, <1>8, <2>2 DEF PortsInv, WokenIn
  <2> QED
    BY <2>1, <2>2
<1>13. ReachableIn(port', ports', heldPorts' \cup orphans')
  BY <1>1, <1>6, <1>8 DEF PortsInv, ReachableIn
<1> QED
  BY <1>9, <1>10, <1>11, <1>12, <1>13 DEF PortsInv

LEMMA CloseKeeps ==
    ASSUME PortsInv, NEW p \in Ids, ClosePort(p)
    PROVE  PortsInv'
<1>1. /\ port' = [port EXCEPT ![p].closed = TRUE, ![p].queue = <<>>]
      /\ ports' = ports \ {p} /\ orphans' = orphans \cup Carried(port[p].queue)
      /\ UNCHANGED <<nextPortID, portJobs, dispatching, heldPorts, posted, delivered, unwoken>>
  BY DEF ClosePort
<1>2. PortsTypeOK /\ port[p] \in Port /\ ports \subseteq Ids /\ port \in [Ids -> Port]
  BY DEF PortsInv, PortsTypeOK
<1>3. PICK o : o = port[p]
  OBVIOUS
<1>4. PICK m : m = [o EXCEPT !.closed = TRUE]
  OBVIOUS
<1>5. PICK n : n = [m EXCEPT !.queue = <<>>]
  OBVIOUS
<1>6. m \in Port
  BY <1>2, <1>3, <1>4 DEF Port
<1>7. n \in Port
  <2>1. <<>> \in Seq(Message)
    OBVIOUS
  <2> QED
    BY <1>5, <1>6, <2>1 DEF Port
<1>8. PICK c : c = [port EXCEPT ![p] = m]
  OBVIOUS
<1>9. port' = [c EXCEPT ![p] = n]
  <2>1. c = [port EXCEPT ![p].closed = TRUE]
    BY <1>3, <1>4, <1>8
  <2>2. c[p] = m
    BY <1>2, <1>8
  <2>3. port' = [c EXCEPT ![p].queue = <<>>]
    BY <1>1, <2>1
  <2> QED
    BY <1>5, <2>2, <2>3
<1>10. port' \in [Ids -> Port] /\ \A r \in Ids \ {p} : port'[r] = port[r]
  BY <1>2, <1>6, <1>7, <1>8, <1>9
<1>11. Carried(port[p].queue) \subseteq Ids
  <2>1. port[p].queue \in Seq(Message)
    BY <1>2 DEF Port
  <2> QED
    BY <2>1, CarriedType
<1>12. PortsTypeOK'
  BY <1>1, <1>2, <1>10, <1>11 DEF PortsTypeOK
<1>13. \A r \in ports' : r \in ports /\ r \in Ids /\ r # p /\ port'[r] = port[r]
  BY <1>1, <1>2, <1>10
<1>14. LinkedIn(port', ports') /\ ShapedIn(port', ports', nextPortID')
  <2>1. LinkedIn(port, ports) /\ ShapedIn(port, ports, nextPortID) /\ nextPortID' = nextPortID
    BY <1>1 DEF PortsInv
  <2>2. LinkedIn(port', ports')
    BY <1>13, <2>1 DEF LinkedIn
  <2>3. ShapedIn(port', ports', nextPortID')
    BY <1>13, <2>1 DEF ShapedIn
  <2> QED
    BY <2>2, <2>3
<1>15. KeptIn(port', ports', posted', delivered')
  BY <1>1, <1>13 DEF PortsInv, KeptIn
<1>16. WokenIn(port', ports', unwoken', portJobs', dispatching')
  BY <1>1, <1>13 DEF PortsInv, WokenIn
<1>17. ReachableIn(port', ports', heldPorts' \cup orphans')
  <2> SUFFICES ASSUME NEW s \in ports' \ (heldPorts' \cup orphans')
               PROVE  \E r \in ports' : s \in Carried(port'[r].queue)
    BY DEF ReachableIn
  <2>1. s \in ports \ (heldPorts \cup orphans) /\ s \notin Carried(port[p].queue)
    BY <1>1, <1>13
  <2>2. PICK r \in ports : s \in Carried(port[r].queue)
    BY <2>1 DEF PortsInv, ReachableIn
  <2>3. r \in ports'
    BY <1>1, <2>1, <2>2
  <2> QED
    BY <1>13, <2>2, <2>3
<1> QED
  BY <1>12, <1>14, <1>15, <1>16, <1>17 DEF PortsInv

LEMMA ShiftKeeps ==
    ASSUME PortsInv, NEW p \in Ids, Dispatchable(p), Shift(p),
           NEW had, had = ToSet(NextMessage(p).carries)
    PROVE  /\ port' \in [Ids -> Port] /\ delivered' \in [Ends -> Seq(1..MaxPosts)]
           /\ had \subseteq Ids
           /\ LinkedIn(port', ports) /\ ShapedIn(port', ports, nextPortID)
           /\ KeptIn(port', ports, posted, delivered')
           /\ ReachableIn(port', ports, heldPorts \cup orphans \cup had)
           /\ \A r \in ports \ {p} : port'[r] = port[r]
           /\ port'[p].queue = Tail(port[p].queue)
<1>2. PICK entry : entry = Head(port[p].queue)
  OBVIOUS
<1>4. /\ PortsTypeOK /\ ports \subseteq Ids /\ port \in [Ids -> Port]
  BY DEF PortsInv, PortsTypeOK
<1>6. p \in ports /\ port[p].started /\ port[p].queue # <<>>
  BY DEF Dispatchable
<1> SUFFICES /\ port' \in [Ids -> Port] /\ delivered' \in [Ends -> Seq(1..MaxPosts)]
             /\ had \subseteq Ids
             /\ LinkedIn(port', ports) /\ ShapedIn(port', ports, nextPortID)
             /\ KeptIn(port', ports, posted, delivered')
             /\ ReachableIn(port', ports, heldPorts \cup orphans \cup had)
             /\ \A r \in ports \ {p} : port'[r] = port[r]
             /\ port'[p].queue = Tail(port[p].queue)
  OBVIOUS
<1>20. QED
  <2>1. /\ port' = [port EXCEPT ![p].queue = Tail(@)]
        /\ delivered' = [delivered EXCEPT ![port[p].end] = Append(@, entry.n)]
        /\ had = ToSet(entry.carries)
    BY <1>2 DEF Shift, NextMessage
  <2>2. PICK o, q, t, e : o = port[p] /\ q = o.queue /\ t = Tail(q) /\ e = o.end
    OBVIOUS
  <2>3. o \in Port /\ q \in Seq(Message) /\ q # <<>> /\ entry = Head(q)
    BY <1>2, <1>4, <1>6, <2>2 DEF Port
  <2>4. entry \in Message /\ t \in Seq(Message)
    BY <2>2, <2>3, HeadTailProperties
  <2>5. PICK n : n = [o EXCEPT !.queue = t]
    OBVIOUS
  <2>6. n \in Port /\ n.queue = t /\ n.end = o.end /\ n.peer = o.peer /\ n.started = o.started
    BY <2>3, <2>4, <2>5 DEF Port
  <2>7. port' = [port EXCEPT ![p] = n]
    BY <2>1, <2>2, <2>5
  <2>8. /\ port' \in [Ids -> Port] /\ port'[p] = n /\ \A r \in Ids \ {p} : port'[r] = port[r]
    BY <1>4, <2>6, <2>7
  <2>9. e \in Ends
    BY <1>6, <2>2 DEF PortsInv, ShapedIn
  <2>10. entry.n \in 1..MaxPosts /\ entry.carries \in Seq(Ids)
    BY <2>4 DEF Message
  <2>11. ToSet(entry.carries) \subseteq Ids
    BY <2>10 DEF ToSet
  <2>12. /\ delivered[e] \in Seq(1..MaxPosts) /\ delivered' \in [Ends -> Seq(1..MaxPosts)]
         /\ delivered'[e] = Append(delivered[e], entry.n)
         /\ \A f \in Ends \ {e} : delivered'[f] = delivered[f]
    <3>1. PICK s : s = Append(delivered[e], entry.n)
      OBVIOUS
    <3>2. delivered[e] \in Seq(1..MaxPosts) /\ delivered \in [Ends -> Seq(1..MaxPosts)]
      BY <1>4, <2>9 DEF PortsTypeOK
    <3>3. s \in Seq(1..MaxPosts)
      BY <2>10, <3>1, <3>2
    <3>4. delivered' = [delivered EXCEPT ![e] = s]
      BY <2>1, <2>2, <3>1
    <3> QED
      BY <2>9, <3>1, <3>2, <3>3, <3>4
  <2>14. \A r \in ports : /\ port'[r].end = port[r].end /\ port'[r].peer = port[r].peer
                          /\ r # p => port'[r] = port[r]
    BY <1>4, <2>2, <2>6, <2>8
  <2>15. LinkedIn(port', ports) /\ ShapedIn(port', ports, nextPortID)
    BY <2>14 DEF PortsInv, LinkedIn, ShapedIn
  <2>16. KeptIn(port', ports, posted, delivered')
    <3> SUFFICES ASSUME NEW r \in ports
                 PROVE  posted[port'[r].end] = delivered'[port'[r].end] \o Numbers(port'[r].queue)
      BY DEF KeptIn
    <3>1. posted[port[r].end] = delivered[port[r].end] \o Numbers(port[r].queue) /\ port[r].end \in Ends
      BY DEF PortsInv, KeptIn, ShapedIn
    <3>2. CASE r = p
      <4>1. posted[e] = delivered[e] \o Numbers(q) /\ port'[r].end = e /\ port'[r].queue = t
        BY <2>2, <2>6, <2>8, <3>1, <3>2
      <4>2. delivered[e] \o Numbers(q) = Append(delivered[e], Head(q).n) \o Numbers(Tail(q))
        BY <2>3, <2>12, NumbersTail
      <4>3. delivered'[e] = Append(delivered[e], Head(q).n) /\ t = Tail(q)
        BY <2>2, <2>3, <2>12
      <4> QED
        BY <4>1, <4>2, <4>3
    <3>3. CASE r # p
      <4>1. port[r].end # e
        BY <1>6, <2>2, <3>3 DEF PortsInv, LinkedIn
      <4> QED
        BY <2>12, <2>14, <3>1, <3>3, <4>1
    <3> QED
      BY <3>2, <3>3
  <2>18. ReachableIn(port', ports, heldPorts \cup orphans \cup had)
    <3> SUFFICES ASSUME NEW s \in ports \ (heldPorts \cup orphans \cup had)
                 PROVE  \E r \in ports : s \in Carried(port'[r].queue)
      BY DEF ReachableIn
    <3>1. s \notin ToSet(entry.carries) /\ s \in ports \ (heldPorts \cup orphans)
      BY <2>1
    <3>2. PICK r \in ports : s \in Carried(port[r].queue)
      BY <3>1 DEF PortsInv, ReachableIn
    <3>3. Carried(q) = ToSet(Head(q).carries) \cup Carried(Tail(q))
      BY <2>3, CarriedTail
    <3>4. s \in Carried(port'[r].queue)
      BY <2>2, <2>3, <2>6, <2>8, <2>14, <3>1, <3>2, <3>3
    <3> QED
      BY <3>4
  <2> QED
    BY <2>1, <2>2, <2>6, <2>8, <2>11, <2>12, <2>14, <2>15, <2>16, <2>18

\* The job of the port leaves the queue.
LEMMA JobTaken ==
    ASSUME PortsInv, portJobs # <<>>, NEW p, p = Head(portJobs)
    PROVE  /\ p \in Ids /\ Tail(portJobs) \in Seq(Ids)
           /\ ToSet(portJobs) \subseteq ToSet(Tail(portJobs)) \cup {p}
<1>1. portJobs \in Seq(Ids)
  BY DEF PortsInv, PortsTypeOK
<1>2. PICK a, b : a = portJobs /\ b = Tail(portJobs)
  OBVIOUS
<1>3. a \in Seq(Ids) /\ a # <<>> /\ b = Tail(a) /\ p = Head(a)
  BY <1>1, <1>2
<1>4. /\ p \in Ids /\ b \in Seq(Ids) /\ Len(b) = Len(a) - 1 /\ p = a[1]
      /\ \A i \in 1..Len(b) : b[i] = a[i + 1]
  BY <1>3, HeadTailProperties
<1>5. Len(a) \in Nat /\ DOMAIN a = 1..Len(a) /\ DOMAIN b = 1..Len(b)
  BY <1>3, <1>4, LenProperties
<1>6. \A i \in 1..Len(a) : a[i] = p \/ (i - 1 \in 1..Len(b) /\ b[i - 1] = a[i])
  BY <1>4, <1>5
<1>7. ToSet(a) \subseteq ToSet(b) \cup {p}
  BY <1>5, <1>6, Zenon DEF ToSet
<1> QED
  BY <1>2, <1>4, <1>7

LEMMA DispatchKeeps ==
    ASSUME PortsInv, NEW p \in Ids, Dispatch(p)
    PROVE  PortsInv'
<1>1. /\ dispatching = 0 /\ portJobs # <<>> /\ p = Head(portJobs)
      /\ Dispatchable(p) /\ Shift(p) /\ dispatching' = p /\ portJobs' = Tail(portJobs)
      /\ heldPorts' = heldPorts \cup ToSet(NextMessage(p).carries)
      /\ UNCHANGED <<ports, nextPortID, posted, unwoken, orphans>>
  BY DEF Dispatch
<1>2. PICK had : had = ToSet(NextMessage(p).carries)
  OBVIOUS
<1>3. /\ port' \in [Ids -> Port] /\ delivered' \in [Ends -> Seq(1..MaxPosts)]
      /\ had \subseteq Ids
      /\ LinkedIn(port', ports) /\ ShapedIn(port', ports, nextPortID)
      /\ KeptIn(port', ports, posted, delivered')
      /\ ReachableIn(port', ports, heldPorts \cup orphans \cup had)
      /\ \A r \in ports \ {p} : port'[r] = port[r]
  BY <1>1, <1>2, ShiftKeeps
<1>4. Tail(portJobs) \in Seq(Ids) /\ ToSet(portJobs) \subseteq ToSet(Tail(portJobs)) \cup {p}
  BY <1>1, JobTaken
<1>5. PortsTypeOK /\ ports \subseteq Ids
  BY DEF PortsInv, PortsTypeOK
<1>6. PortsTypeOK'
  <2>1. p \in 0..MaxPorts
    BY PortsAssumption DEF Ids
  <2> QED
    BY <1>1, <1>2, <1>3, <1>4, <1>5, <2>1 DEF PortsTypeOK
<1>7. WokenIn(port', ports', unwoken', portJobs', dispatching')
  <2> SUFFICES ASSUME NEW r \in ports \ unwoken, port'[r].started, port'[r].queue # <<>>
               PROVE  r \in ToSet(portJobs') \/ r = p
    BY <1>1 DEF WokenIn
  <2>1. CASE r # p
    <3>1. r \in ToSet(portJobs) \/ r = dispatching
      BY <1>3, <2>1 DEF PortsInv, WokenIn
    <3>2. r # 0
      BY <1>5 DEF Ids
    <3> QED
      BY <1>1, <1>4, <2>1, <3>1, <3>2
  <2> QED
    BY <2>1
<1>8. heldPorts' \cup orphans' = heldPorts \cup orphans \cup had
  BY <1>1, <1>2
<1> QED
  BY <1>1, <1>3, <1>6, <1>7, <1>8 DEF PortsInv

LEMMA NobodyKeeps ==
    ASSUME PortsInv, NEW p \in Ids, DispatchToNobody(p)
    PROVE  PortsInv'
<1>1. /\ portJobs # <<>> /\ p = Head(portJobs) /\ Dispatchable(p) /\ Shift(p)
      /\ orphans' = orphans \cup ToSet(NextMessage(p).carries)
      /\ IF Tail(port[p].queue) # <<>>
         THEN Enqueue(Tail(portJobs), p, {})
         ELSE portJobs' = Tail(portJobs) /\ UNCHANGED unwoken
      /\ UNCHANGED <<ports, nextPortID, dispatching, heldPorts, posted>>
  BY DEF DispatchToNobody
<1>2. PICK had : had = ToSet(NextMessage(p).carries)
  OBVIOUS
<1>3. /\ port' \in [Ids -> Port] /\ delivered' \in [Ends -> Seq(1..MaxPosts)]
      /\ had \subseteq Ids
      /\ LinkedIn(port', ports) /\ ShapedIn(port', ports, nextPortID)
      /\ KeptIn(port', ports, posted, delivered')
      /\ ReachableIn(port', ports, heldPorts \cup orphans \cup had)
      /\ \A r \in ports \ {p} : port'[r] = port[r]
      /\ port'[p].queue = Tail(port[p].queue)
  BY <1>1, <1>2, ShiftKeeps
<1>4. Tail(portJobs) \in Seq(Ids) /\ ToSet(portJobs) \subseteq ToSet(Tail(portJobs)) \cup {p}
  BY <1>1, JobTaken
<1>5. PortsTypeOK /\ ports \subseteq Ids /\ unwoken \subseteq Ids
  BY DEF PortsInv, PortsTypeOK
<1>6. /\ portJobs' \in Seq(Ids) /\ unwoken' \subseteq Ids
      /\ ToSet(Tail(portJobs)) \subseteq ToSet(portJobs') /\ unwoken \ {p} \subseteq unwoken'
      /\ Tail(port[p].queue) # <<>> => p \in unwoken' \/ p \in ToSet(portJobs')
  <2>1. CASE Tail(port[p].queue) # <<>>
    <3>1. Enqueue(Tail(portJobs), p, {})
      BY <1>1, <2>1
    <3>2. PICK jobs : jobs = Tail(portJobs)
      OBVIOUS
    <3>3. jobs \in Seq(Ids) /\ Enqueue(jobs, p, {})
      BY <1>4, <3>1, <3>2
    <3>4. /\ portJobs' \in Seq(Ids) /\ ToSet(jobs) \subseteq ToSet(portJobs')
          /\ unwoken' \subseteq unwoken \cup {} \cup {p}
          /\ (unwoken \cup {}) \ {p} \subseteq unwoken'
          /\ p \in unwoken' \/ p \in ToSet(portJobs')
      BY <3>3, EnqueueWakes
    <3> QED
      BY <1>5, <3>2, <3>4
  <2>2. CASE Tail(port[p].queue) = <<>>
    BY <1>1, <1>4, <1>5, <2>2
  <2> QED
    BY <2>1, <2>2
<1>7. PortsTypeOK'
  BY <1>1, <1>2, <1>3, <1>5, <1>6 DEF PortsTypeOK
<1>8. WokenIn(port', ports', unwoken', portJobs', dispatching')
  <2> SUFFICES ASSUME NEW r \in ports \ unwoken', port'[r].started, port'[r].queue # <<>>
               PROVE  r \in ToSet(portJobs') \/ r = dispatching
    BY <1>1 DEF WokenIn
  <2>1. CASE r = p
    BY <1>3, <1>6, <2>1
  <2>2. CASE r # p
    <3>1. r \notin unwoken
      BY <1>6, <2>2
    <3>2. r \in ToSet(portJobs) \/ r = dispatching
      BY <1>3, <2>2, <3>1 DEF PortsInv, WokenIn
    <3> QED
      BY <1>4, <1>6, <2>2, <3>2
  <2> QED
    BY <2>1, <2>2
<1>9. heldPorts' \cup orphans' = heldPorts \cup orphans \cup had
  BY <1>1, <1>2
<1> QED
  BY <1>1, <1>3, <1>7, <1>8, <1>9 DEF PortsInv

LEMMA NothingKeeps ==
    ASSUME PortsInv, DispatchNothing
    PROVE  PortsInv'
<1>1. PICK p : p = Head(portJobs)
  OBVIOUS
<1>2. /\ portJobs # <<>> /\ portJobs' = Tail(portJobs) /\ ~Dispatchable(p)
      /\ UNCHANGED <<port, ports, nextPortID, dispatching, heldPorts, posted, delivered,
                     unwoken, orphans>>
  BY <1>1 DEF DispatchNothing
<1>3. Tail(portJobs) \in Seq(Ids) /\ ToSet(portJobs) \subseteq ToSet(Tail(portJobs)) \cup {p}
  BY <1>1, <1>2, JobTaken
<1>4. PortsTypeOK'
  BY <1>2, <1>3 DEF PortsInv, PortsTypeOK
<1>5. WokenIn(port', ports', unwoken', portJobs', dispatching')
  <2> SUFFICES ASSUME NEW r \in ports \ unwoken, port[r].started, port[r].queue # <<>>
               PROVE  r \in ToSet(portJobs') \/ r = dispatching
    BY <1>2 DEF WokenIn
  <2>1. r \in ToSet(portJobs) \/ r = dispatching
    BY DEF PortsInv, WokenIn
  <2> QED
    BY <1>2, <1>3, <2>1 DEF Dispatchable
<1> QED
  BY <1>2, <1>4, <1>5 DEF PortsInv

LEMMA ReturnKeeps ==
    ASSUME PortsInv, DispatchReturns
    PROVE  PortsInv'
<1>1. PICK p : p = dispatching
  OBVIOUS
<1>2. /\ p # 0 /\ dispatching' = 0
      /\ IF More(p) THEN Enqueue(portJobs, p, {}) ELSE UNCHANGED <<portJobs, unwoken>>
      /\ UNCHANGED <<port, ports, nextPortID, heldPorts, posted, delivered, orphans>>
  BY <1>1 DEF DispatchReturns
<1>3. /\ PortsTypeOK /\ portJobs \in Seq(Ids) /\ unwoken \subseteq Ids /\ ports \subseteq Ids
      /\ p \in Ids
  BY <1>1, <1>2, PortsAssumption DEF PortsInv, PortsTypeOK, Ids
<1>4. /\ portJobs' \in Seq(Ids) /\ unwoken' \subseteq Ids
      /\ ToSet(portJobs) \subseteq ToSet(portJobs') /\ unwoken \ {p} \subseteq unwoken'
      /\ More(p) => p \in unwoken' \/ p \in ToSet(portJobs')
      /\ ~More(p) => unwoken' = unwoken
  <2>1. CASE More(p)
    <3>1. Enqueue(portJobs, p, {})
      BY <1>2, <2>1
    <3>2. /\ portJobs' \in Seq(Ids) /\ ToSet(portJobs) \subseteq ToSet(portJobs')
          /\ unwoken' \subseteq unwoken \cup {} \cup {p}
          /\ (unwoken \cup {}) \ {p} \subseteq unwoken'
          /\ p \in unwoken' \/ p \in ToSet(portJobs')
      BY <1>3, <3>1, EnqueueWakes
    <3> QED
      BY <1>3, <2>1, <3>2
  <2>2. CASE ~More(p)
    BY <1>2, <1>3, <2>2
  <2> QED
    BY <2>1, <2>2
<1>5. PortsTypeOK'
  <2>1. 0 \in 0..MaxPorts
    BY PortsAssumption
  <2> QED
    BY <1>2, <1>3, <1>4, <2>1 DEF PortsTypeOK
<1>6. WokenIn(port', ports', unwoken', portJobs', dispatching')
  <2> SUFFICES ASSUME NEW r \in ports \ unwoken', port[r].started, port[r].queue # <<>>
               PROVE  r \in ToSet(portJobs')
    BY <1>2 DEF WokenIn
  <2>1. CASE r = p
    BY <1>4, <2>1 DEF More
  <2>2. CASE r # p
    <3>1. r \notin unwoken
      BY <1>4, <2>2
    <3>2. r \in ToSet(portJobs)
      BY <1>1, <2>2, <3>1 DEF PortsInv, WokenIn
    <3> QED
      BY <1>4, <3>2
  <2> QED
    BY <2>1, <2>2
<1> QED
  BY <1>2, <1>5, <1>6 DEF PortsInv

-------------------------------------------------------------------------------
\* Theorems

LEMMA PortsStep == PortsInv /\ [PortsNext]_portVars => PortsInv'
<1> SUFFICES ASSUME PortsInv, [PortsNext]_portVars PROVE PortsInv'
  OBVIOUS
<1>1. CASE \E p \in Ids, v \in Values, t \in Transfers : Post(p, v, t)
  BY <1>1, PostKeeps
<1>2. CASE \E v \in Values, t \in Transfers : StructuredClone(v, t)
  BY <1>2, CopiesHeldOrLost
<1>3. CASE \E p \in Ids : ClosePort(p) \/ Start(p)
  BY <1>3, StartKeeps, CloseKeeps
<1>4. CASE (\E p \in Ids : Dispatch(p) \/ DispatchToNobody(p)) \/ DispatchReturns \/ DispatchNothing
  BY <1>4, DispatchKeeps, NobodyKeeps, ReturnKeeps, NothingKeeps
<1>5. CASE UNCHANGED portVars \/ \E p \in Ids, t \in Transfers : PostToNobody(p, t)
  <2>1. UNCHANGED portVars
    BY <1>5 DEF PostToNobody
  <2> QED
    BY <2>1 DEF portVars, PortsInv, PortsTypeOK
<1> QED
  BY <1>1, <1>2, <1>3, <1>4, <1>5 DEF PortsNext

\* The inductive invariant of ports.
THEOREM PortsInvariant == PortsSpec => []PortsInv
  BY InitPorts, PortsStep, PTL DEF PortsSpec

\* However many ports are made by however many transfers (of either end, of both in one
\* clone, by clones that fail): two live ports are the two ends of the channel and each
\* other's peers (transferMessagePort).
THEOREM EndsStayLinked == PortsSpec => []PortsLinked
  BY PortsInvariant, InvSays, PTL

\* The messages accepted for a live end are those delivered there and those that wait
\* at its port, once each and in the order of posting (postMessage, dispatch, transfer).
THEOREM NoMessageIsLost == PortsSpec => []MessagesKept
  BY PortsInvariant, InvSays, PTL

\* A started port with messages has a dispatch queued or running, unless it is a copy
\* that inherited them or the context refused the dispatch (enqueue, start, dispatch).
THEOREM StartedPortsWake == PortsSpec => []StartedIsWoken
  BY PortsInvariant, InvSays, PTL

\* A live port is held or carried by a waiting message, but for the copies of a clone
\* that failed or dropped them, those in a closed port's queue, and those in a message
\* dispatched at a port without listeners (cloneWithTransfers, close, dispatch).
THEOREM PortsStayReachable == PortsSpec => []PortsReachable
  BY PortsInvariant, InvSays, PTL

\* Every variable keeps its type; no port is made beyond the bound.
THEOREM PortsTypesHold == PortsSpec => []PortsTypeOK
  BY PortsInvariant, InvSays, PTL
===============================================================================
