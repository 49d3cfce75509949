----------------------------- MODULE Rectangle -----------------------------
(***************************************************************************)
(* RectangleSynthesisPass: an anytime breadth-first search with one open   *)
(* list per depth.  A circuit is its structure, the sequence of locations  *)
(* of its layers; two structures that differ only in the order of disjoint *)
(* neighbours are the same circuit.  The cost an instantiation reaches is  *)
(* the environment's: the optimiser may fail on a structure that would do. *)
(*                                                                         *)
(* Partial solutions (off by default) and the probe are left out.          *)
(***************************************************************************)
EXTENDS Integers, Sequences, FiniteSets, SequencesExt, FiniteSetsExt

CONSTANTS
    RectJobs,       \* options of the pass, see RectJobType
    RectCosts,      \* the costs an instantiation may reach; 0 is a solution
    MaxDeepen       \* bound on deepen, which grows with every iteration

VARIABLES
    rect,           \* the options of this pass
    stage,          \* "start", "select", "expand", "evaluate", "done"
    openlists,      \* by depth, the nodes waiting; a missing list is an empty one
    seen,           \* the structure keys met
    incumbent,      \* the solution with the fewest layers, and its layers
    fallback,       \* best_circ and best_dist while there is no incumbent
    deepest,        \* the deepest level opened
    deepen,         \* expansions at the newest level
    picks,          \* the row: nodes and their levels
    batch,          \* the circuits sent to the workers, with their costs
    evaluated,      \* the structures evaluated, with their costs (history)
    found           \* what synthesize returned

rectVars == <<rect, stage, openlists, seen, incumbent, fallback, deepest, deepen,
              picks, batch, evaluated, found>>

\* The layer generator puts a layer at each of the locations, in their order.
RectJobType ==
    [maxLayer : Nat \ {0}, aspect : Nat \ {0}, maxBatch : Nat, duplicates : BOOLEAN,
     locations : Seq(SUBSET Nat)]

NoCircuit == [structure |-> <<>>, cost |-> -1]
Levels == 0 .. rect.maxLayer

Overlap(l, k) == l \cap k # {}

\* Where append puts the next layer: in the cycle after the last it overlaps.
Placed(placed, location) ==
    LET before == {p \in placed : Overlap(p.location, location)}
    IN  placed \cup {[location |-> location, cycle |-> 1 + Max({0} \cup {p.cycle : p \in before})]}

\* structure_key: the gates with their places, whatever order they came in.
StructureKey(structure) == FoldLeft(Placed, {}, structure)

\* Costs before: by the heuristic, then by age; the heuristic only orders.
Cheaper(m, n) == m.cost < n.cost \/ (m.cost = n.cost /\ m.age < n.age)
Cheapest(nodes, k) == {n \in nodes : Cardinality({m \in nodes : Cheaper(m, n)}) < k}
InOrder(nodes) == SetToSortSeq(nodes, Cheaper)

\* A level whose nodes could still beat the incumbent.
UsefulLevel(level) == incumbent = NoCircuit \/ level < Len(incumbent.structure)

RectInit ==
    /\ rect \in RectJobs
    /\ stage = "start"
    /\ openlists = [l \in 0 .. rect.maxLayer |-> {}]
    /\ seen = {} /\ incumbent = NoCircuit /\ fallback = NoCircuit
    /\ deepest = 0 /\ deepen = 1
    /\ picks = <<>> /\ batch = <<>> /\ evaluated = {} /\ found = NoCircuit

RectIdle ==
    /\ rect = <<>> /\ stage = "idle" /\ openlists = <<>> /\ seen = {}
    /\ incumbent = NoCircuit /\ fallback = NoCircuit /\ deepest = 0 /\ deepen = 0
    /\ picks = <<>> /\ batch = <<>> /\ evaluated = {} /\ found = NoCircuit

Enough(cost) == cost = 0

RectStart(cost) ==
    LET node == [structure |-> <<>>, cost |-> cost] IN
    /\ stage = "start"
    /\ evaluated' = {node}
    /\ fallback' = node
    /\ IF Enough(cost)
       THEN stage' = "done" /\ found' = node /\ UNCHANGED <<openlists, seen>>
       ELSE /\ stage' = "select"
            /\ openlists' = [openlists EXCEPT ![0] =
                                {[structure |-> <<>>, cost |-> cost, age |-> 0]}]
            /\ seen' = IF rect.duplicates THEN {StructureKey(<<>>)} ELSE {}
            /\ UNCHANGED found
    /\ UNCHANGED <<rect, incumbent, deepest, deepen, picks, batch>>

\* The row: the best node of every level, then deepen nodes of the newest one.
OneOf(level) == IF UsefulLevel(level) THEN Cheapest(openlists[level], 1) ELSE {}
MoreOf(level) ==
    IF UsefulLevel(level) THEN Cheapest(openlists[level] \ OneOf(level), deepen) ELSE {}

\* What the row leaves; lists the incumbent dominates are emptied on the way.
\* A plausible slip looks at the best nodes and leaves them in their lists.
LeftAll(level, newest) == IF ~UsefulLevel(level) THEN {} ELSE openlists[level]

Left(level, newest) ==
    IF ~UsefulLevel(level) THEN {}
    ELSE openlists[level] \ (OneOf(level) \cup IF level = newest THEN MoreOf(level) ELSE {})

SelectRow ==
    LET newest == Min({deepest + rect.aspect, rect.maxLayer})
        row == FlattenSeq([l \in 1 .. rect.maxLayer + 1 |-> InOrder(OneOf(l - 1))])
                   \o InOrder(MoreOf(newest))
    IN
    /\ stage = "select"
    /\ picks' = row
    /\ openlists' = [l \in Levels |-> Left(l, newest)]
    /\ deepest' = newest
    /\ deepen' = Min({deepen + rect.aspect, MaxDeepen})
    /\ stage' = IF row = <<>> THEN "exhausted" ELSE "expand"
    /\ UNCHANGED <<rect, seen, incumbent, fallback, batch, evaluated, found>>

\* A plausible slip: the last level stays empty.
AdmittedShort(node) ==
    LET level == Len(node.structure)
    IN  level + 1 < rect.maxLayer /\ (incumbent = NoCircuit \/ level + 1 < Len(incumbent.structure))

\* A pick whose children are neither too deep nor as deep as the incumbent.
Admitted(node) ==
    LET level == Len(node.structure)
    IN  /\ level + 1 <= rect.maxLayer
        /\ incumbent = NoCircuit \/ level + 1 < Len(incumbent.structure)

Full(taken) == rect.maxBatch # 0 /\ Len(taken.batch) >= rect.maxBatch

\* One successor joins the batch unless its structure has been met or the batch
\* is full.
Offer(taken, structure) ==
    IF Full(taken) \/ (rect.duplicates /\ StructureKey(structure) \in taken.seen) THEN taken
    ELSE [batch |-> Append(taken.batch, structure),
          seen |-> IF rect.duplicates THEN taken.seen \cup {StructureKey(structure)} ELSE {}]

Successors(node) == 
    [k \in DOMAIN rect.locations |-> Append(node.structure, rect.locations[k])]

\* The row becomes one batch.  What a full batch has no room for is not put
\* back: the node has been popped.
Batched(row) ==
    LET admitted == SelectSeq(row, Admitted)
        offered == FlattenSeq([p \in DOMAIN admitted |-> Successors(admitted[p])])
    IN  FoldLeft(Offer, [batch |-> <<>>, seen |-> seen], offered)

Expand ==
    /\ stage = "expand"
    /\ \E taken \in {Batched(picks)} :
          /\ seen' = taken.seen
          /\ \E costs \in [DOMAIN taken.batch -> RectCosts] :
                batch' = [b \in DOMAIN taken.batch |->
                             [structure |-> taken.batch[b], cost |-> costs[b]]]
          /\ stage' = IF taken.batch # <<>> THEN "evaluate"
                      ELSE IF \A l \in Levels : openlists[l] = {} THEN "exhausted" ELSE "select"
    /\ picks' = <<>>
    /\ UNCHANGED <<rect, openlists, incumbent, fallback, deepest, deepen, evaluated, found>>

\* A solution becomes the incumbent when it is shallower.
BetterIncumbent(node) ==
    incumbent = NoCircuit \/ Len(node.structure) < Len(incumbent.structure)

\* A candidate whose children may matter joins the list of its depth.
Worthwhile(node) ==
    incumbent = NoCircuit \/ Len(node.structure) + 1 < Len(incumbent.structure)

EvaluateSolution ==
    /\ stage = "evaluate" /\ batch # <<>> /\ Enough(Head(batch).cost)
    /\ incumbent' = IF BetterIncumbent(Head(batch)) THEN Head(batch) ELSE incumbent
    /\ evaluated' = evaluated \cup {Head(batch)}
    /\ batch' = Tail(batch)
    /\ UNCHANGED <<rect, stage, openlists, seen, fallback, deepest, deepen, picks, found>>

EvaluateOther ==
    LET node == Head(batch)
        level == Len(node.structure)
        age == Cardinality(UNION {openlists[l] : l \in Levels}) + Cardinality(evaluated)
    IN
    /\ stage = "evaluate" /\ batch # <<>> /\ ~Enough(node.cost)
    /\ fallback' = IF incumbent = NoCircuit /\ node.cost < fallback.cost THEN node ELSE fallback
    /\ IF Worthwhile(node)
       THEN /\ openlists' = [openlists EXCEPT ![level] = @ \cup
                   {[structure |-> node.structure, cost |-> node.cost, age |-> age]}]
            /\ deepest' = Max({deepest, level})
       ELSE UNCHANGED <<openlists, deepest>>
    /\ evaluated' = evaluated \cup {node}
    /\ batch' = Tail(batch)
    /\ UNCHANGED <<rect, stage, seen, incumbent, deepen, picks, found>>

NextIteration ==
    /\ stage = "evaluate" /\ batch = <<>>
    /\ stage' = "select"
    /\ UNCHANGED <<rect, openlists, seen, incumbent, fallback, deepest, deepen, picks,
                   batch, evaluated, found>>

RectReturn ==
    /\ stage = "exhausted"
    /\ found' = IF incumbent # NoCircuit THEN incumbent ELSE fallback
    /\ stage' = "done"
    /\ UNCHANGED <<rect, openlists, seen, incumbent, fallback, deepest, deepen, picks,
                   batch, evaluated>>

RectNext ==
    \/ \E cost \in RectCosts : RectStart(cost)
    \/ SelectRow
    \/ Expand
    \/ EvaluateSolution
    \/ EvaluateOther
    \/ NextIteration
    \/ RectReturn

-----------------------------------------------------------------------------
(* Properties.                                                             *)

Structures(n) == UNION {[1 .. k -> ToSet(rect.locations)] : k \in 0 .. n}

\* The completeness and optimality the module's documentation claims: when the
\* pass returns, every structure with fewer layers than its result, or up to
\* max_layer if it found none, has been tried, up to the order of disjoint
\* layers.
RectComplete ==
    stage = "done" =>
        LET depth == IF Enough(found.cost) THEN Len(found.structure) - 1 ELSE rect.maxLayer
            tried == {StructureKey(e.structure) : e \in evaluated}
        IN  \A s \in Structures(depth) :
                StructureKey(s) \in tried \/ \E e \in evaluated :
                    Enough(e.cost) /\ Len(e.structure) <= Len(s)

\* The result is a solution with the fewest layers of all that were evaluated,
\* or, when none was one, the cheapest circuit.
RectBest ==
    stage = "done" =>
        IF \E e \in evaluated : Enough(e.cost)
        THEN /\ Enough(found.cost)
             /\ \A e \in evaluated : Enough(e.cost) => Len(found.structure) <= Len(e.structure)
        ELSE \A e \in evaluated : found.cost <= e.cost

\* Both together: the last incumbent is optimal over what was tried, and what
\* was not tried could not have beaten it.
RectangleSound == RectComplete /\ RectBest

\* A search bounded in depth ends.
RectEnds == stage # "idle" ~> stage \in {"done", "idle"}
=============================================================================
