----------------------------- MODULE MCShutdown -----------------------------
(* Instances of Shutdown for TLC.                                          *)
EXTENDS Shutdown

CONSTANTS server, m1, m2, w1, w2

Tree(top, one, two) ==
    [n \in Bosses |-> CASE n = server -> top [] n = m1 -> one [] OTHER -> two]

\* An attached server with its two workers; a detached one with a manager of a
\* worker it has spawned, and of one that was started by hand; a manager above
\* another.
MCSystems ==
    {[employees |-> Tree({w1, w2}, {}, {}), spawned |-> {w1, w2}, attached |-> TRUE, work |-> 1],
     [employees |-> Tree({m1}, {w1}, {}), spawned |-> {w1}, attached |-> FALSE, work |-> 1],
     [employees |-> Tree({m1}, {w1}, {}), spawned |-> {}, attached |-> FALSE, work |-> 1],
     [employees |-> Tree({m1}, {m2}, {w1}), spawned |-> {w1}, attached |-> FALSE, work |-> 0]}
=============================================================================
