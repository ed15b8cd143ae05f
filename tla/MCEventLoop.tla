------------------------------ MODULE MCEventLoop ------------------------------
\* EventLoop for TLC: the client goroutines are interchangeable.
EXTENDS EventLoop, TLC

Symmetry == Permutations(Clients)
================================================================================
