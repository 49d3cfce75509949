---------------------------- MODULE MCHierarchy -----------------------------
(* Instances of Hierarchy for TLC.                                         *)
EXTENDS Hierarchy

CONSTANTS server, m0, m1, m2, w1, w2, w3, root, a, b, single, c

MCChildren == [t \in Tasks |-> CASE t = root -> <<a, b>> [] t = single -> <<c>> [] OTHER -> <<>>]

Tree(top, left, right) ==
    [n \in Bosses |-> CASE n = server -> top [] n = m1 -> left [] n = m2 -> right
                        [] OTHER -> IF m0 \in Range(top) THEN <<m1, m2>> ELSE <<>>]
System(nodes, task) == [employees |-> nodes, roots |-> {task}]

\* Two managers; one with more idle workers than a task has children; a
\* manager above two others.
MCSystems ==
    {System(Tree(<<m1, m2>>, <<w1>>, <<w2>>), root),
     System(Tree(<<m1>>, <<w1, w2, w3>>, <<>>), single),
     System(Tree(<<m0>>, <<w1>>, <<w2>>), single)}

\* A worker that is idle again without its boss hearing of it.
MCSmall == {System(Tree(<<m1>>, <<w1, w2>>, <<>>), c)}
=============================================================================
