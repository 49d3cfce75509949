------------------------------ MODULE Circuit ------------------------------
(***************************************************************************)
(* The Circuit of ir/circuit.py as a value: the grid of operations, the    *)
(* links between them (_dag, _front, _rear) and the counts (_gate_info,    *)
(* _graph_info).  An operator takes a circuit and returns the circuit that *)
(* the method of the same name leaves behind.                              *)
(*                                                                         *)
(* Cycles and qudits are numbered from 0; a point is <<cycle, qudit>>.  An *)
(* operation is pointed to from every qudit of its location and known to   *)
(* the links by its first qudit.  A gate is a member of Gates, or a circuit *)
(* (a CircuitGate).  Parameters, radixes and unitaries are left out: no step   *)
(* of these methods depends on them once the arguments have been checked.  *)
(***************************************************************************)
EXTENDS Integers, FiniteSets, SequencesExt

CONSTANTS
    Gates,
    None,
    MaxDepth     \* bound: blocks inside blocks

Op(gate, loc) == [gate |-> gate, loc |-> loc]
On(op) == Range(op.loc)

\* CircuitLocation.pairs: unordered pairs, the smaller qudit first.
Pairs(op) == {<<a, b>> \in On(op) \X On(op) : a < b}

Circuit(n) ==
    LET none == [q \in 0..n-1 |-> None]
    IN  [n |-> n, grid |-> <<>>, front |-> none, rear |-> none, dag |-> <<>>,
         gates |-> EmptyBag, graph |-> EmptyBag]

Qudits(c) == 0 .. c.n - 1
Cycles(c) == 0 .. Len(c.grid) - 1
At(c, k, q) == c.grid[k + 1][q]
Idle(c, p) == At(c, p[1], p[2]) = None
OpAt(c, p) == At(c, p[1], p[2])
AnchorOf(c, p) == <<p[1], OpAt(c, p).loc[1]>>

\* One point for each operation.
Points(c) == {AnchorOf(c, p) : p \in {x \in Cycles(c) \X Qudits(c) : ~Idle(c, x)}}
Ops(c) == {OpAt(c, p) : p \in Points(c)}
IdleCycle(c, k) == \A q \in Qudits(c) : Idle(c, <<k, q>>)
Unoccupied(c, k, loc) == \A q \in Range(loc) : Idle(c, <<k, q>>)

Before(p, r) == p[1] < r[1] \/ (p[1] = r[1] /\ p[2] < r[2])
Nexts(c, p) == Range(c.dag[p].next) \ {None}
Prevs(c, p) == Range(c.dag[p].prev) \ {None}

----------------------------------------------------------------------------
(* Renaming points and qudits.  at and on are injections.                  *)

Renamed(c, at, on) ==
    LET at0(p) == IF p = None THEN None ELSE at[p]
        map(f) == LET S == DOMAIN f
                      T == {on[q] : q \in S}
                  IN  [t \in T |-> at0(f[CHOOSE q \in S : on[q] = t])]
        points == {at[p] : p \in DOMAIN c.dag}
    IN  [c EXCEPT
            !.front = map(@),
            !.rear = map(@),
            !.dag = [t \in points |->
                        LET p == CHOOSE x \in DOMAIN c.dag : at[x] = t
                        IN  [prev |-> map(c.dag[p].prev), next |-> map(c.dag[p].next)]]]

SameQudits(c) == [q \in Qudits(c) |-> q]

InsertCycle(c, k) ==
    LET at == [p \in DOMAIN c.dag |-> IF p[1] < k THEN p ELSE <<p[1] + 1, p[2]>>]
    IN  [Renamed(c, at, SameQudits(c)) EXCEPT
            !.grid = InsertAt(@, k + 1, [q \in Qudits(c) |-> None])]

\* A mutant: the operations after the cycle are still looked for where they were.
DropCycleUnshifted(c, k) == [c EXCEPT !.grid = RemoveAt(@, k + 1)]

\* The idle cycle k disappears; the last one takes no point with it.
DropCycle(c, k) ==
    LET at == [p \in DOMAIN c.dag |-> IF p[1] < k THEN p ELSE <<p[1] - 1, p[2]>>]
        shifted == IF k = Len(c.grid) - 1 THEN c ELSE Renamed(c, at, SameQudits(c))
    IN  [shifted EXCEPT !.grid = RemoveAt(@, k + 1)]

----------------------------------------------------------------------------
(* Placing and removing one operation.                                     *)

Counted(c, op) ==
    [c EXCEPT !.gates = @ (+) SetToBag({op.gate}), !.graph = @ (+) SetToBag(Pairs(op))]

\* A mutant: the first cycle with room, whatever comes after it.
AvailableAnywhere(c, loc) ==
    Min({k \in 0 .. Len(c.grid) : k = Len(c.grid) \/ Unoccupied(c, k, loc)})

\* find_available_cycle: the first cycle with nothing at or after it.
Available(c, loc) == Max({0} \cup {c.rear[q][1] + 1 : q \in {x \in Range(loc) : c.rear[x] # None}})

AppendOp(c, op) ==
    LET k == Available(c, op.loc)
        p == <<k, op.loc[1]>>
        grid == IF k = Len(c.grid) THEN Append(c.grid, [q \in Qudits(c) |-> None]) ELSE c.grid
        links(x) == IF x = p
                    THEN [prev |-> [q \in On(op) |-> c.rear[q]], next |-> [q \in On(op) |-> None]]
                    ELSE [c.dag[x] EXCEPT !.next = [q \in DOMAIN @ |->
                            IF q \in On(op) /\ c.rear[q] = x THEN p ELSE @[q]]]
    IN  Counted([c EXCEPT
            !.grid = [grid EXCEPT ![k + 1] = [q \in Qudits(c) |-> IF q \in On(op) THEN op ELSE @[q]]],
            !.dag = [x \in DOMAIN c.dag \cup {p} |-> links(x)],
            !.rear = [q \in Qudits(c) |-> IF q \in On(op) THEN p ELSE @[q]],
            !.front = [q \in Qudits(c) |-> IF q \in On(op) /\ @[q] = None THEN p ELSE @[q]]], op)

\* The operation on qudit q nearest to cycle k on its left, and at k or on its right.
LeftOf(c, k, q) ==
    LET found == {j \in 0..k-1 : ~Idle(c, <<j, q>>)}
    IN  IF found = {} THEN None ELSE AnchorOf(c, <<Max(found), q>>)
RightOf(c, k, q) ==
    LET found == {j \in k..Len(c.grid)-1 : ~Idle(c, <<j, q>>)}
    IN  IF found = {} THEN None ELSE AnchorOf(c, <<Min(found), q>>)

\* insert at a cycle in range: a new cycle is made unless this one is free.
PlaceOp(before, k, op) ==
    LET c == IF Unoccupied(before, k, op.loc) THEN before ELSE InsertCycle(before, k)
        p == <<k, op.loc[1]>>
        links(x) == IF x = p
                    THEN [prev |-> [q \in On(op) |-> LeftOf(c, k, q)],
                          next |-> [q \in On(op) |-> RightOf(c, k, q)]]
                    ELSE [prev |-> [q \in DOMAIN c.dag[x].prev |->
                                       IF q \in On(op) /\ RightOf(c, k, q) = x THEN p ELSE c.dag[x].prev[q]],
                          next |-> [q \in DOMAIN c.dag[x].next |->
                                       IF q \in On(op) /\ LeftOf(c, k, q) = x THEN p ELSE c.dag[x].next[q]]]
    IN  Counted([c EXCEPT
            !.grid = [@ EXCEPT ![k + 1] = [q \in Qudits(c) |-> IF q \in On(op) THEN op ELSE @[q]]],
            !.dag = [x \in DOMAIN c.dag \cup {p} |-> links(x)],
            !.front = [q \in Qudits(c) |-> IF q \in On(op) /\ LeftOf(c, k, q) = None THEN p ELSE @[q]],
            !.rear = [q \in Qudits(c) |-> IF q \in On(op) /\ RightOf(c, k, q) = None THEN p ELSE @[q]]], op)

\* A negative cycle counts from the end; one out of range is clamped at the
\* front, and at the back means append.
InsertOp(c, cycle, op) ==
    LET n == Len(c.grid)
    IN  IF n = 0 \/ cycle >= n THEN AppendOp(c, op)
        ELSE PlaceOp(c, IF cycle >= 0 THEN cycle ELSE Max({n + cycle, 0}), op)

\* pop: take the operation out of the links, then out of the grid, then its
\* cycle if nothing is left in it, then out of the counts.
PopOp(c, point) ==
    LET p == AnchorOf(c, point)
        op == OpAt(c, p)
        around == c.dag[p]
        skip(f, x, to) == [q \in DOMAIN f |-> IF q \in On(op) /\ f[q] = x THEN to[q] ELSE f[q]]
        out == [c EXCEPT
            !.dag = [x \in DOMAIN c.dag \ {p} |->
                        [prev |-> skip(c.dag[x].prev, p, around.prev),
                         next |-> skip(c.dag[x].next, p, around.next)]],
            !.front = skip(@, p, around.next),
            !.rear = skip(@, p, around.prev),
            !.grid = [@ EXCEPT ![p[1] + 1] = [q \in Qudits(c) |-> IF q \in On(op) THEN None ELSE @[q]]],
            !.gates = @ (-) SetToBag({op.gate}),
            !.graph = @ (-) SetToBag(Pairs(op))]
    IN  IF IdleCycle(out, p[1]) THEN DropCycle(out, p[1]) ELSE out

\* The count of a pair that the operation counts in is missing: pop raises KeyError.
Uncounted(c, point) == Pairs(OpAt(c, point)) \ BagToSet(c.graph) # {}

PopAll(c, points) == FoldLeft(PopOp, c, Reverse(SetToSortSeq(points, Before)))
PopCycle(c, k) == IF IdleCycle(c, k) THEN DropCycle(c, k) ELSE PopAll(c, {p \in Points(c) : p[1] = k})

\* The circuit made of the operations at some points, on the qudits they use.
Extract(c, points) ==
    LET qudits == SetToSortSeq(UNION {On(OpAt(c, p)) : p \in points}, <)
        index(q) == CHOOSE i \in DOMAIN qudits : qudits[i] = q
        append(sub, p) == LET op == OpAt(c, p) IN
            AppendOp(sub, Op(op.gate, [i \in DOMAIN op.loc |-> index(op.loc[i]) - 1]))
    IN  FoldLeft(append, Circuit(Len(qudits)), SetToSortSeq(points, Before))

\* replace: in place if the qudits are the same ones, else pop and insert.
ReplaceOp(c, point, op) ==
    LET old == OpAt(c, point)
        from == AnchorOf(c, point)
        to == <<point[1], op.loc[1]>>
        at == [p \in DOMAIN c.dag |-> IF p = from THEN to ELSE p]
        moved == IF from = to THEN c ELSE Renamed(c, at, SameQudits(c))
    IN  IF On(old) = On(op)
        THEN [moved EXCEPT
                !.grid = [@ EXCEPT ![point[1] + 1] = [q \in Qudits(c) |-> IF q \in On(op) THEN op ELSE @[q]]],
                !.gates = (@ (-) SetToBag({old.gate})) (+) SetToBag({op.gate})]
        ELSE InsertOp(PopOp(c, point), point[1], op)

\* batch_replace: by cycle, each point shifted by the cycles lost so far.
ShiftedPoint(p, before, now) == <<p[1] - (before - now), p[2]>>
BatchReplace(c, points, new) ==
    LET step(d, p) ==
            LET at == ShiftedPoint(p, Len(c.grid), Len(d.grid))
            IN  IF at[1] \in Cycles(d) /\ ~Idle(d, at) THEN ReplaceOp(d, at, new[p]) ELSE d  \* IndexError
    IN  FoldLeft(step, c, SetToSortSeq(points, Before))

----------------------------------------------------------------------------
(* Iteration.  A region is a function from qudits to intervals             *)
(* <<lower, upper>> of cycles.                                             *)

Ready(c, p, visited) == visited = Cardinality(Prevs(c, p))

\* CircuitDagIterator: pop the least point whose predecessors have all been
\* visited, which a count for each successor tells.
DagOrder(c) ==
    LET least(S) == CHOOSE p \in S : \A r \in S \ {p} : Before(p, r)
        visit(s, i) ==
            IF s.frontier = {} THEN s
            ELSE LET p == least(s.frontier)
                     counts == [x \in DOMAIN s.counts |->
                                   s.counts[x] + (IF x \in Nexts(c, p) THEN 1 ELSE 0)]
                     ready == {x \in Nexts(c, p) : Ready(c, x, counts[x])}
                 IN  [frontier |-> (s.frontier \ {p}) \cup ready, counts |-> counts,
                      order |-> Append(s.order, p)]
        first == {p \in Range(c.front) \ {None} : Prevs(c, p) = {}}
        start == [frontier |-> first, counts |-> [x \in DOMAIN c.dag |-> 0], order |-> <<>>]
    IN  FoldLeft(visit, start, [i \in 1..Cardinality(DOMAIN c.dag) |-> i]).order

PointsOf(r) == UNION {{<<k, q>> : k \in r[q][1] .. r[q][2]} : q \in DOMAIN r}
\* Operations with a point in the region, and those with all of them in it.
Touched(c, r) == {AnchorOf(c, p) : p \in {x \in PointsOf(r) : ~Idle(c, x)}}
Inside(c, r) == {p \in Touched(c, r) : \A q \in On(OpAt(c, p)) : <<p[1], q>> \in PointsOf(r)}

\* CircuitGridIterator: cycle by cycle, each operation once, where it first has
\* a qudit in the region; those partly outside can be left out.
Walk(c, r, exclude) ==
    LET cells == PointsOf(r)
        seen(p) == <<p[1], Min({q \in On(OpAt(c, p)) : <<p[1], q>> \in cells})>>
    IN  SetToSortSeq(IF exclude THEN Inside(c, r) ELSE Touched(c, r),
                     LAMBDA p, s : Before(seen(p), seen(s)))
GridOrder(c) == Walk(c, [q \in Qudits(c) |-> <<0, Len(c.grid) - 1>>], FALSE)

----------------------------------------------------------------------------
(* Circuits inside circuits.                                               *)

Moved(op, loc) == Op(op.gate, [i \in DOMAIN op.loc |-> loc[op.loc[i] + 1]])

AppendCircuit(c, sub, loc) ==
    LET step(d, p) == AppendOp(d, Moved(OpAt(sub, p), loc))
    IN  FoldLeft(step, c, DagOrder(sub))

InsertCircuit(c, k, sub, loc) ==
    LET step(d, p) == InsertOp(d, k, Moved(OpAt(sub, p), loc))
    IN  FoldLeft(step, c, Reverse(GridOrder(sub)))

ReplaceWithCircuit(c, point, sub) ==
    InsertCircuit(PopOp(c, point), point[1], sub, OpAt(c, point).loc)

\* A CircuitGate is a gate that is a circuit.
IsBlock(op) == op.gate \notin Gates

Unfold(c, point) == ReplaceWithCircuit(c, point, OpAt(c, point).gate)
BatchUnfold(c, points) == FoldLeft(Unfold, c, Reverse(SetToSortSeq(points, Before)))

\* The operations in an order, blocks opened up one level, or all levels.
InOrder(d, order) == [i \in DOMAIN order |-> OpAt(d, order[i])]
Opened(line) ==
    FlattenSeq([i \in DOMAIN line |->
        IF IsBlock(line[i])
        THEN LET inner == InOrder(line[i].gate, GridOrder(line[i].gate))
             IN  [j \in DOMAIN inner |-> Moved(inner[j], line[i].loc)]
        ELSE <<line[i]>>])
Levels == [i \in 1 .. MaxDepth + 1 |-> i]
\* The operations on each qudit: what a circuit does.
Line(d, order) == FoldLeft(LAMBDA line, i : Opened(line), InOrder(d, order), Levels)
Depth(d) == FoldLeft(LAMBDA s, i : [line |-> Opened(s.line),
                                    depth |-> s.depth + (IF \E j \in DOMAIN s.line : IsBlock(s.line[j]) THEN 1 ELSE 0)],
                     [line |-> InOrder(d, GridOrder(d)), depth |-> 0], Levels).depth

WiresIn(d, order) == [q \in Qudits(d) |-> SelectSeq(Line(d, order), LAMBDA op : q \in On(op))]
WiresOf(d) == WiresIn(d, GridOrder(d))

\* One round of unfold_all: blocks that hold blocks take one round for each level.
UnfoldRound(c) ==
    LET step(d, p) == LET op == OpAt(c, p) IN
            IF IsBlock(op) THEN AppendCircuit(d, op.gate, op.loc) ELSE AppendOp(d, op)
    IN  FoldLeft(step, Circuit(c.n), DagOrder(c))

Compress(c) == FoldLeft(LAMBDA d, p : AppendOp(d, OpAt(c, p)), Circuit(c.n), DagOrder(c))

\* count, remove and remove_all: an operation is looked for by equality on
\* the qudit it comes first on.
Where(c, op) == {p \in Points(c) : OpAt(c, p) = op}
RemoveOp(c, op) == PopOp(c, CHOOSE p \in Where(c, op) : \A r \in Where(c, op) : p[1] <= r[1])
Count(c, op) == Cardinality(Where(c, op))
RemoveAll(c, op) == FoldLeft(LAMBDA d, i : RemoveOp(d, op), c, [i \in 1..Count(c, op) |-> i])

----------------------------------------------------------------------------
(* Qudits.                                                                 *)

\* Every location, point, pair and column follows the qudits it names.
WithQudits(c, n, on, columns) ==
    LET at == [p \in DOMAIN c.dag |-> <<p[1], on[p[2]]>>]
        op(x) == IF x = None THEN None ELSE Op(x.gate, [i \in DOMAIN x.loc |-> on[x.loc[i]]])
        counts == BagToSet(c.graph)
        edges == {<<on[e[1]], on[e[2]]>> : e \in counts}
    IN  [Renamed(c, at, on) EXCEPT
            !.n = n,
            !.grid = [k \in DOMAIN c.grid |-> [q \in 0..n-1 |->
                        IF columns[q] = None THEN None ELSE op(c.grid[k][columns[q]])]],
            !.graph = [t \in edges |-> c.graph[CHOOSE e \in counts : <<on[e[1]], on[e[2]]>> = t]]]

\* An index beyond the last qudit appends; one before the first is clamped.
InsertQudit(c, index) ==
    LET i == IF index >= c.n THEN c.n ELSE IF index >= 0 THEN index ELSE Max({0, c.n + index})
        on == [q \in Qudits(c) |-> IF q < i THEN q ELSE q + 1]
        columns == [q \in 0..c.n |-> IF q = i THEN None ELSE IF q < i THEN q ELSE q - 1]
        wider == WithQudits(c, c.n + 1, on, columns)
        idle(f) == [q \in 0..c.n |-> IF q = i THEN None ELSE f[q]]
    IN  [wider EXCEPT !.front = idle(@), !.rear = idle(@)]

\* All operations on the qudit go with it.
PopQudit(c, i) ==
    LET d == PopAll(c, {p \in Points(c) : i \in On(OpAt(c, p))})
        without(f) == [q \in Qudits(c) \ {i} |-> f[q]]
        on == [q \in Qudits(c) \ {i} |-> IF q < i THEN q ELSE q - 1]
        columns == [q \in 0..c.n-2 |-> IF q < i THEN q ELSE q + 1]
    IN  WithQudits([d EXCEPT !.front = without(@), !.rear = without(@)], c.n - 1, on, columns)

Renumber(c, perm) ==
    LET on == [q \in Qudits(c) |-> perm[q + 1]]
    IN  WithQudits(c, c.n, on, [q \in Qudits(c) |-> CHOOSE x \in Qudits(c) : on[x] = q])

----------------------------------------------------------------------------
(* Regions.                                                                *)

MinCycle(r) == Min({r[q][1] : q \in DOMAIN r})
MaxCycle(r) == Max({r[q][2] : q \in DOMAIN r})
MaxMinCycle(r) == Max({r[q][1] : q \in DOMAIN r})
Shifted(r, by) == [q \in DOMAIN r |-> <<r[q][1] + by, r[q][2] + by>>]

NextsOf(c, r) == UNION {Nexts(c, p) : p \in Touched(c, r)} \ Touched(c, r)
PrevsOf(c, r) == UNION {Prevs(c, p) : p \in Touched(c, r)} \ Touched(c, r)

\* check_region: no path leaves the region and comes back into it.  The walk
\* starts at every operation before the last cycle of the region and stops there.
ValidRegion(c, r) ==
    LET within == Inside(c, r)
        walked(S) == {p \in S \ within : p[1] < MaxCycle(r)}
        step(S, i) == S \cup walked(UNION {Nexts(c, p) : p \in S})
        left == walked(UNION {Nexts(c, p) : p \in {x \in within : x[1] # MaxCycle(r)}})
        outside == FoldLeft(step, left, [i \in 1..Len(c.grid) |-> i])
    IN  /\ DOMAIN r \subseteq Qudits(c)
        /\ MaxCycle(r) < Len(c.grid)
        /\ \A p \in outside : Nexts(c, p) \cap within = {}

\* get_region: the bounds of the operations at some points.  It is refused if
\* it holds other operations too, or is not valid.
Bounds(c, points) ==
    LET ops == {AnchorOf(c, p) : p \in {x \in points : ~Idle(c, x)}}
        cycles(q) == {p[1] : p \in {x \in ops : q \in On(OpAt(c, x))}}
    IN  [q \in UNION {On(OpAt(c, p)) : p \in ops} |-> <<Min(cycles(q)), Max(cycles(q))>>]
IsRegionOf(c, points) ==
    LET r == Bounds(c, points)
    IN  /\ DOMAIN r # {}
        /\ Touched(c, r) = {AnchorOf(c, p) : p \in {x \in points : ~Idle(c, x)}}
        /\ ValidRegion(c, r)

\* The operations of `old`, all in one cycle, move to the empty places in `new`.
MoveOps(c, points, new) ==
    LET at == [p \in DOMAIN c.dag |-> IF p \in points THEN <<new, p[2]>> ELSE p]
        moved(q) == \E p \in points : q \in On(OpAt(c, p))
        old == (CHOOSE p \in points : TRUE)[1]
    IN  IF points = {} THEN c
        ELSE [Renamed(c, at, SameQudits(c)) EXCEPT !.grid = [@ EXCEPT
                ![new + 1] = [q \in Qudits(c) |-> IF moved(q) THEN c.grid[old + 1][q] ELSE @[q]],
                ![old + 1] = [q \in Qudits(c) |-> IF moved(q) THEN None ELSE @[q]]]]

\* straighten: make room before the region and push back into it what lies
\* between the first and the last of the region's left ends, together with what that
\* depends on, so that the region can start in one cycle.
PushBack(c, r, room) ==
    LET push(s, i) ==
            LET old == MaxMinCycle(r) - i
                new == MinCycle(r) - i
                behind(q) == q \notin DOMAIN r \/ old < r[q][1]
                moved == {AnchorOf(s.c, <<old, q>>) :
                            q \in {x \in s.shadow : behind(x) /\ ~Idle(s.c, <<old, x>>)}}
                put(points) ==
                    [c |-> MoveOps(s.c, points, new),
                     shadow |-> s.shadow \cup UNION {On(OpAt(s.c, p)) : p \in points},
                     idle |-> IF points = {} THEN s.idle \cup {new} ELSE s.idle]
            IN  put(moved)
    IN  FoldLeft(push, [c |-> c, shadow |-> DOMAIN r, idle |-> {}], [i \in 1..room |-> i])

\* The new cycles that stayed idle go again.
Settle(pushed, r, room) ==
    LET start == MinCycle(r) - Cardinality(pushed.idle)
    IN  [c |-> FoldLeft(DropCycle, pushed.c, Reverse(SetToSortSeq(pushed.idle, <))),
         region |-> [q \in DOMAIN r |-> <<start, r[q][2] - Cardinality(pushed.idle)>>],
         net |-> room - Cardinality(pushed.idle)]

Straighten(c, region) ==
    LET within(small, room) ==
            LET wide == FoldLeft(LAMBDA d, i : InsertCycle(d, MinCycle(small)), c, [i \in 1..room |-> i])
            IN  Settle(PushBack(wide, Shifted(small, room), room), Shifted(small, room), room)
        from(small) == within(small, MaxMinCycle(small) - MinCycle(small))
    IN  from(Bounds(c, PointsOf(region)))

\* fold: the region becomes one CircuitGate.
FoldPoints(c, points, r) ==
    InsertOp(PopAll(c, points), MinCycle(r), Op(Extract(c, points), SetToSortSeq(DOMAIN r, <)))
Fold(c, region) ==
    LET fold(s) == FoldPoints(s.c, Touched(s.c, s.region), s.region)
    IN  fold(Straighten(c, region))

----------------------------------------------------------------------------
(* surround: the regions found from a first one by adding a neighbour.     *)

\* Cycle k on qudit q, and on towards the edge over single-qudit operations.
Skips(c, k, q) == Idle(c, <<k, q>>) \/ Len(At(c, k, q).loc) = 1
AbsorbLeft(c, k, q) == Min({j \in 0..k : \A i \in j..k-1 : Skips(c, i, q)})
AbsorbRight(c, k, q) == Max({j \in k..Len(c.grid)-1 : \A i \in k+1..j : Skips(c, i, q)})

Grown(c, r, p) ==
    LET k == p[1]
        interval(q) ==
            IF q \notin DOMAIN r THEN <<k, k>>
            ELSE IF k < r[q][1] THEN <<AbsorbLeft(c, k, q), r[q][2]>>
            ELSE IF k > r[q][2] THEN <<r[q][1], AbsorbRight(c, k, q)>>
            ELSE r[q]
    IN  [q \in DOMAIN r \cup On(OpAt(c, p)) |-> IF q \in On(OpAt(c, p)) THEN interval(q) ELSE r[q]]

\* A mutant: validity is not checked.
MayGrowUnchecked(c, r, p, n) == Cardinality(DOMAIN Grown(c, r, p)) <= n

\* A gate between the region and its neighbour on a shared qudit forbids it;
\* validity is checked only when a qudit is new.
MayGrow(c, r, p, n) ==
    LET shared == On(OpAt(c, p)) \cap DOMAIN r
        between(q) == (p[1] + 1 .. r[q][1] - 1) \cup (r[q][2] + 1 .. p[1] - 1)
    IN  /\ Cardinality(DOMAIN Grown(c, r, p)) <= n
        /\ \A q \in shared : \A k \in between(q) : Idle(c, <<k, q>>)
        /\ On(OpAt(c, p)) \subseteq DOMAIN r \/ ValidRegion(c, Grown(c, r, p))

Expand(c, r, n) == {Grown(c, r, p) : p \in {x \in NextsOf(c, r) \cup PrevsOf(c, r) : MayGrow(c, r, x, n)}}

Score(c, r) == MapThenSumSet(LAMBDA p : Len(OpAt(c, p).loc), Touched(c, r))

\* The best regions by the number of qudits their operations act on, then by width.
Surround(c, point, n) ==
    LET start == IF Idle(c, point) THEN [q \in {point[2]} |-> <<point[1], point[1]>>] ELSE Bounds(c, {point})
        grow(S, i) == S \cup UNION {Expand(c, r, n) : r \in S}
        found == FoldLeft(grow, {start}, [i \in 1..Cardinality(Points(c)) |-> i])
        better(r, s) == \/ Score(c, r) > Score(c, s)
                        \/ Score(c, r) = Score(c, s) /\ Cardinality(DOMAIN r) > Cardinality(DOMAIN s)
    IN  {r \in found : \A s \in found : ~better(s, r)}
=============================================================================
