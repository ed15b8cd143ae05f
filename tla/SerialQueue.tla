------------------------------ MODULE SerialQueue ------------------------------
(***************************************************************************)
(* What Schedule promises: accepted tasks are executed one at a time, each  *)
(* once, in the order of acceptance, until the loop is reloaded, which      *)
(* drops those still pending, or closed, which drops them for good.         *)
(***************************************************************************)
EXTENDS Sequences

CONSTANT Tasks
VARIABLES open, pending, executed
queueVars == <<open, pending, executed>>

Init == open = TRUE /\ pending = <<>> /\ executed = <<>>

Accept(t) ==
    /\ open
    /\ pending' = Append(pending, t)
    /\ UNCHANGED <<open, executed>>

Execute ==
    /\ open /\ pending # <<>>
    /\ executed' = Append(executed, Head(pending))
    /\ pending' = Tail(pending)
    /\ UNCHANGED open

Reload == open /\ pending' = <<>> /\ UNCHANGED <<open, executed>>

Close == open /\ open' = FALSE /\ pending' = <<>> /\ UNCHANGED executed

Next == (\E t \in Tasks : Accept(t)) \/ Execute \/ Reload \/ Close

Spec == Init /\ [][Next]_queueVars
================================================================================
