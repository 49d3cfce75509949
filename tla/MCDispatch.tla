----------------------------- MODULE MCDispatch -----------------------------
(* Instances of Dispatch for TLC.                                          *)
EXTENDS Dispatch

CONSTANTS root, a, b, c, d

\* One compilation that maps over four tasks: enough for a batch of three
\* on one of two workers, hence for a reclaim that leaves one behind.
FourTasks == [t \in Tasks |-> IF t = root THEN <<a, b, c, d>> ELSE <<>>]
=============================================================================
