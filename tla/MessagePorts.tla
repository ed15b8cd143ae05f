------------------------------ MODULE MessagePorts ------------------------------
(***************************************************************************)
(* The two ports of a MessageChannel, and what becomes of them when          *)
(* structuredClone or postMessage transfers them: a transfer makes another   *)
(* port object, with an id of its own, and detaches the old one.             *)
(* A value is the sequence of what cloneValue meets in it that matters here: *)
(* ports, and Uncloneable for what it throws at.                             *)
(* External: the context's job queue.                                        *)
(***************************************************************************)
EXTENDS Naturals, Sequences, FiniteSets, SequencesExt

CONSTANTS
    MaxPorts,     \* bound: ports made, the first two by the channel
    MaxPosts,     \* bound: messages accepted
    MaxDispatches \* bound: dispatches waiting when start queues another

ASSUME PortsAssumption ==
    MaxPorts \in Nat \ {0, 1} /\ MaxPosts \in Nat /\ MaxDispatches \in Nat

VARIABLES
    port,         \* the port objects
    ports,        \* keys of the map of ports
    nextPortID,
    portJobs,     \* ids in the context's queue of dispatches
    dispatching,  \* the port whose listeners are running, or 0
    heldPorts,    \* the objects JavaScript has a reference to
    posted,       \* history: the messages accepted for each end
    delivered,    \* history: the messages dispatched at each end
    unwoken,      \* history: ports whose wakeup nobody queued, or was refused
    orphans       \* history: ports dropped by a failed clone, by close, or by a
                  \* dispatch that nobody listened to
portVars == <<port, ports, nextPortID, portJobs, dispatching, heldPorts, posted,
              delivered, unwoken, orphans>>

-------------------------------------------------------------------------------
Ids == 1..MaxPorts
Uncloneable == 0
Ends == {1, 2}
Message == [n : 1..MaxPosts, carries : Seq(Ids)]
Port == [peer : 0..MaxPorts, queue : Seq(Message), started : BOOLEAN,
         closed : BOOLEAN, detached : BOOLEAN, end : 0..2]

NewPort(end) == [peer |-> IF end = 0 THEN 0 ELSE 3 - end, queue |-> <<>>,
                 started |-> FALSE, closed |-> FALSE, detached |-> FALSE, end |-> end]

\* The channel: port1 and port2, each the peer of the other.
PortsInit ==
    /\ port = [p \in Ids |-> NewPort(IF p \in Ends THEN p ELSE 0)]
    /\ ports = Ends /\ nextPortID = 2 /\ heldPorts = Ends
    /\ portJobs = <<>> /\ dispatching = 0
    /\ posted = [e \in Ends |-> <<>>] /\ delivered = [e \in Ends |-> <<>>]
    /\ unwoken = {} /\ orphans = {}

-------------------------------------------------------------------------------
\* structuredClone.  A clone in progress is a record of the ports as they are so
\* far, and of the copies (seen) of those that were transferred.
Carried(q) == UNION {ToSet(q[i].carries) : i \in 1..Len(q)}

TransferKeepingPeer(w, p) ==    \* mutant
    LET q == w.next + 1
    IN [w EXCEPT !.next = q, !.ports = (@ \ {p}) \cup {q}, !.copy[p] = q,
                 !.port[p] = [@ EXCEPT !.queue = <<>>, !.detached = TRUE],
                 !.port[q] = w.port[p]]
TransferDroppingQueue(w, p) ==    \* mutant
    LET q == w.next + 1
        peer == w.port[p].peer
        old == [w.port EXCEPT ![p].queue = <<>>, ![p].detached = TRUE,
                              ![q] = [w.port[p] EXCEPT !.queue = <<>>]]
    IN [w EXCEPT !.next = q, !.ports = (@ \ {p}) \cup {q}, !.copy[p] = q,
                 !.port = IF peer \in w.ports THEN [old EXCEPT ![peer].peer = q] ELSE old]

\* transferMessagePort: the replacement takes the peer, the queue and started.
TransferMessagePort(w, p) ==
    LET q == w.next + 1
        peer == w.port[p].peer
        old == [w.port EXCEPT ![p].queue = <<>>, ![p].detached = TRUE, ![q] = w.port[p]]
    IN [w EXCEPT !.next = q, !.ports = (@ \ {p}) \cup {q}, !.copy[p] = q,
                 !.port = IF peer \in w.ports THEN [old EXCEPT ![peer].peer = q] ELSE old]

\* cloneValue for one port or Uncloneable: one that is not to be transferred
\* throws, one met before is the copy it was given.
CloneValue(w, v, transfers) ==
    CASE ~w.ok \/ v \notin transfers -> [w EXCEPT !.ok = FALSE]
      [] OTHER -> IF w.copy[v] # 0 THEN w ELSE TransferMessagePort(w, v)

\* cloneWithTransfers: the value first, then what is left of the transfer list.
Untouched == [port |-> port, ports |-> ports, next |-> nextPortID,
              copy |-> [p \in Ids |-> 0], ok |-> TRUE]
Progress(work, values, transfers) ==
    LET after[i \in 0..Len(values)] ==
          IF i = 0 THEN work ELSE CloneValue(after[i - 1], values[i], transfers)
    IN after
CloneAll(values, transfer) ==
    Progress(Untouched, values, ToSet(transfer))[Len(values)]
CloneValueOnly(value, transfer) == CloneAll(value, transfer)    \* mutant
CloneWithTransfers(value, transfer) == CloneAll(value \o transfer, transfer)

\* transferSet: ports that can be transferred, none twice.
Transfers == {t \in {<<>>} \cup {<<p>> : p \in ports} \cup (ports \X ports) :
                IsInjective(t) /\ ToSet(t) \subseteq heldPorts}
Values == {<<>>, <<Uncloneable>>} \cup {<<p>> : p \in heldPorts}
            \cup {<<p, Uncloneable>> : p \in heldPorts}

Copies(w) == {w.copy[p] : p \in Ids} \ {0}
Inherited(w) == {q \in Copies(w) : w.port[q].queue # <<>>}

\* What a clone changes stays changed also when it throws.
Cloned(w, lost) ==
    /\ ports' = w.ports /\ nextPortID' = w.next /\ orphans' = orphans \cup lost

\* structuredClone gives the copies that are in the value, and no others.
StructuredClone(value, transfer) ==
    LET w == CloneWithTransfers(value, transfer)
        given == IF w.ok THEN {w.copy[p] : p \in ToSet(value)} ELSE {}
    IN /\ transfer # <<>> /\ nextPortID + Len(transfer) <= MaxPorts
       /\ Cloned(w, Copies(w) \ given)
       /\ port' = w.port /\ heldPorts' = heldPorts \cup given
       /\ unwoken' = unwoken \cup Inherited(w)
       /\ UNCHANGED <<portJobs, dispatching, posted, delivered>>

-------------------------------------------------------------------------------
\* enqueue: a dispatch of this id; the context may refuse it.  The ports that
\* inherited messages are not woken by anybody.
Enqueue(jobs, p, asleep) ==
    \/ portJobs' = Append(jobs, p) /\ unwoken' = (unwoken \cup asleep) \ {p}
    \/ portJobs' = jobs /\ unwoken' = unwoken \cup asleep \cup {p}

\* postMessage.  The peer is looked up before the clone, and so is the array the
\* message is pushed to: when the clone transfers the peer, the message joins the
\* queue of its replacement, and enqueue ignores the detached peer.
Post(p, value, transfer) ==
    LET q == port[p].peer
        w == CloneWithTransfers(value, transfer)
        to == IF w.copy[q] # 0 THEN w.copy[q] ELSE q
        entry == [n |-> Len(posted[port[q].end]) + 1,
                  carries |-> [i \in 1..Len(transfer) |-> w.copy[transfer[i]]]]
    IN /\ p \in heldPorts \cap ports /\ q \in ports
       /\ nextPortID + Len(transfer) <= MaxPorts
       /\ Len(posted[1]) + Len(posted[2]) < MaxPosts
       /\ Cloned(w, IF w.ok THEN {} ELSE Copies(w))
       /\ IF ~w.ok
          THEN /\ port' = w.port /\ unwoken' = unwoken \cup Inherited(w)
               /\ UNCHANGED <<portJobs, posted>>
          ELSE /\ port' = [w.port EXCEPT ![to].queue = Append(@, entry)]
               /\ posted' = [posted EXCEPT ![port[q].end] = Append(@, entry.n)]
               /\ IF to = q THEN Enqueue(portJobs, q, Inherited(w))
                  ELSE unwoken' = unwoken \cup Inherited(w) \cup {to} /\ UNCHANGED portJobs
       /\ UNCHANGED <<dispatching, heldPorts, delivered>>

\* A peer that is gone: nothing is cloned and nothing is transferred.
PostDropsTransfers(p, transfer) ==    \* mutant
    LET w == CloneWithTransfers(<<>>, transfer)
    IN /\ p \in heldPorts \cap ports /\ port[p].peer \notin ports
       /\ nextPortID + Len(transfer) <= MaxPorts
       /\ Cloned(w, {}) /\ port' = w.port
       /\ UNCHANGED <<portJobs, dispatching, heldPorts, posted, delivered, unwoken>>
PostToNobody(p, transfer) ==
    /\ p \in heldPorts \cap ports /\ port[p].peer \notin ports
    /\ UNCHANGED portVars

\* start, also by the setter of onmessage.
Start(p) ==
    /\ p \in heldPorts \cap ports /\ Len(portJobs) < MaxDispatches
    /\ port' = [port EXCEPT ![p].started = TRUE]
    /\ IF port[p].queue # <<>> THEN Enqueue(portJobs, p, {})
                               ELSE UNCHANGED <<portJobs, unwoken>>
    /\ UNCHANGED <<ports, nextPortID, dispatching, heldPorts, posted, delivered, orphans>>

\* close: the queue goes, with the ports its messages carry.
ClosePort(p) ==
    /\ p \in heldPorts /\ ~port[p].closed
    /\ port' = [port EXCEPT ![p].closed = TRUE, ![p].queue = <<>>]
    /\ ports' = ports \ {p}
    /\ orphans' = orphans \cup Carried(port[p].queue)
    /\ UNCHANGED <<nextPortID, portJobs, dispatching, heldPorts, posted, delivered, unwoken>>

-------------------------------------------------------------------------------
\* dispatch: one message, its listeners, and another dispatch if there are more.
NoMore(p) == FALSE    \* mutant
More(p) == p \in ports /\ port[p].queue # <<>>

Dispatchable(p) == p \in ports /\ port[p].started /\ port[p].queue # <<>>

\* addEventListener, removeEventListener and onmessage: whether a port has a listener
\* at the moment is the choice of JavaScript, for a port that it has; a replacement
\* that still waits in a queue has none, started or not.
MayListen(p) == p \in heldPorts

\* The message leaves the queue; a port it carries is had by the listeners, and
\* by nobody when there are none.
NextMessage(p) == Head(port[p].queue)
Shift(p) ==
    /\ port' = [port EXCEPT ![p].queue = Tail(@)]
    /\ delivered' = [delivered EXCEPT ![port[p].end] = Append(@, NextMessage(p).n)]

Dispatch(p) ==
    /\ dispatching = 0 /\ portJobs # <<>> /\ p = Head(portJobs)
    /\ Dispatchable(p) /\ MayListen(p) /\ Shift(p)
    /\ dispatching' = p /\ portJobs' = Tail(portJobs)
    /\ heldPorts' = heldPorts \cup ToSet(NextMessage(p).carries)
    /\ UNCHANGED <<ports, nextPortID, posted, unwoken, orphans>>

\* The listeners have returned; what they did came in between.
DispatchReturns ==
    /\ dispatching # 0 /\ dispatching' = 0
    /\ IF More(dispatching) THEN Enqueue(portJobs, dispatching, {})
                            ELSE UNCHANGED <<portJobs, unwoken>>
    /\ UNCHANGED <<port, ports, nextPortID, heldPorts, posted, delivered, orphans>>

DispatchToNobody(p) ==
    /\ dispatching = 0 /\ portJobs # <<>> /\ p = Head(portJobs)
    /\ Dispatchable(p) /\ Shift(p)
    /\ orphans' = orphans \cup ToSet(NextMessage(p).carries)
    /\ IF Tail(port[p].queue) # <<>>
       THEN Enqueue(Tail(portJobs), p, {})
       ELSE portJobs' = Tail(portJobs) /\ UNCHANGED unwoken
    /\ UNCHANGED <<ports, nextPortID, dispatching, heldPorts, posted>>

\* A dispatch for a port that is gone, or has not started, or has no message.
DispatchNothing ==
    /\ dispatching = 0 /\ portJobs # <<>> /\ ~Dispatchable(Head(portJobs))
    /\ portJobs' = Tail(portJobs)
    /\ UNCHANGED <<port, ports, nextPortID, dispatching, heldPorts, posted, delivered,
                   unwoken, orphans>>

PortsNext ==
    \/ \E p \in Ids, v \in Values, t \in Transfers : Post(p, v, t)
    \/ \E p \in Ids, t \in Transfers : PostToNobody(p, t)
    \/ \E v \in Values, t \in Transfers : StructuredClone(v, t)
    \/ \E p \in Ids : ClosePort(p) \/ Start(p)
    \/ \E p \in Ids : Dispatch(p) \/ DispatchToNobody(p)
    \/ DispatchReturns \/ DispatchNothing

PortsSpec == PortsInit /\ [][PortsNext]_portVars

-------------------------------------------------------------------------------
\* Properties

PortsTypeOK ==
    /\ port \in [Ids -> Port] /\ ports \subseteq Ids /\ heldPorts \subseteq Ids
    /\ nextPortID \in 2..MaxPorts /\ portJobs \in Seq(Ids) /\ dispatching \in 0..MaxPorts
    /\ posted \in [Ends -> Seq(1..MaxPosts)] /\ delivered \in [Ends -> Seq(1..MaxPosts)]
    /\ unwoken \subseteq Ids /\ orphans \subseteq Ids

\* However often the ends of a channel are transferred, also both of them in one
\* clone and also by a clone that then fails, each end is one live port at most,
\* and two live ends are each other's peers.
PortsLinked ==
    \A p, q \in ports : p # q =>
      port[p].end # port[q].end /\ port[p].peer = q

\* An end that is not closed has every message posted to it, once and in order:
\* those that were dispatched there, to the listeners of the moment (or to none),
\* and then those that wait at its port.
MessagesKept ==
    \A p \in ports :
      LET e == port[p].end IN
        posted[e] = delivered[e] \o [i \in 1..Len(port[p].queue) |-> port[p].queue[i].n]

\* A started port with messages is about to be dispatched, but for one whose
\* wakeup the context refused, and for a replacement: the messages it inherits,
\* or is sent in its own transfer, wait for the next post or start.
StartedIsWoken ==
    \A p \in ports \ unwoken :
      port[p].started /\ port[p].queue # <<>> =>
        p \in ToSet(portJobs) \/ p = dispatching

\* A live port can be had: JavaScript has it or a waiting message carries it, but
\* for the copies made by a clone that failed or did not return them, those in the
\* queue of a closed port, and those in a message dispatched at a started port that
\* nobody listened to (start() without a listener, or a replacement, which takes
\* over started and no listener).
PortsReachable ==
    \A p \in ports \ (heldPorts \cup orphans) :
      \E q \in ports : p \in Carried(port[q].queue)
================================================================================
