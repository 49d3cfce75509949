----------------------------- MODULE Compilation -----------------------------
(* What the runtime promises to those who submit and map tasks, whatever     *)
(* workers, batches, idle counts and reclaims do underneath.  Dispatch and   *)
(* Hierarchy implement it.                                                   *)
EXTENDS Sequences, Functions

CONSTANTS Tasks, Children

VARIABLES
    born,      \* tasks that a client has submitted or a task has mapped over
    over,      \* tasks that have returned
    answered   \* tasks whose result a client can have

Roots == {r \in Tasks : \A t \in Tasks : r \notin Range(Children[t])}

Init == born = {} /\ over = {} /\ answered = {}

Submit(r) ==
    /\ r \in Roots \ born /\ born' = born \cup {r}
    /\ UNCHANGED <<over, answered>>

\* A task maps over its children once, while it runs.
Map(t) ==
    /\ t \in born \ over
    /\ Range(Children[t]) # {} /\ Range(Children[t]) \cap born = {}
    /\ born' = born \cup Range(Children[t])
    /\ UNCHANGED <<over, answered>>

\* It returns when what it awaited has.
End(t) ==
    /\ t \in born \ over /\ Range(Children[t]) \subseteq over
    /\ over' = over \cup {t}
    /\ UNCHANGED <<born, answered>>

Answer(r) ==
    /\ r \in (Roots \cap over) \ answered /\ answered' = answered \cup {r}
    /\ UNCHANGED <<born, over>>

Next == \E t \in Tasks : Submit(t) \/ Map(t) \/ End(t) \/ Answer(t)

Spec == Init /\ [][Next]_<<born, over, answered>>
=============================================================================
