-------------------------------- MODULE SlotPool --------------------------------
(***************************************************************************)
(* What the limits package promises of a limit: at most Max holders at a    *)
(* time, each of which takes one slot and gives it back once.               *)
(***************************************************************************)
EXTENDS Naturals, FiniteSets

CONSTANTS Holders, Max
VARIABLES held, past
poolVars == <<held, past>>

Init == held = {} /\ past = {}

Acquire(h) ==
    /\ h \notin held \cup past
    /\ Cardinality(held) < Max
    /\ held' = held \cup {h} /\ UNCHANGED past

Release(h) ==
    /\ h \in held
    /\ held' = held \ {h} /\ past' = past \cup {h}

Next == \E h \in Holders : Acquire(h) \/ Release(h)

Spec == Init /\ [][Next]_poolVars
================================================================================
