----------------------------- MODULE Partition ------------------------------
(***************************************************************************)
(* The partitioning passes: a circuit goes in, a circuit of blocks         *)
(* (CircuitGates) that does the same comes out.  QuickPartitioner sweeps   *)
(* the circuit once and keeps open bins; ScanPartitioner takes the best    *)
(* block right of a divider again and again; GroupSingleQuditGatePass      *)
(* folds runs of single-qudit gates; ClusteringPartitioner folds a region  *)
(* around a point drawn at random; GreedyPartitioner takes the largest of  *)
(* the regions around the operations again and again.                      *)
(***************************************************************************)
EXTENDS Circuit

CONSTANTS
    Barriers,     \* gates no block may hold: barrier, measurement and reset placeholders
    Pieces,       \* the operations circuits are made of
    Width,        \* qudits
    MaxSource,    \* bound: operations of the circuit to partition
    Passes,       \* the passes run, of "quick", "scan", "single", "cluster", "greedy"
    BlockSizes,   \* the values of block_size
    ProcessAfter, \* closed bins that make QuickPartitioner place bins; the code has 5
    Rounds        \* ClusteringPartitioner's num_points

ASSUME PartitionAssumption ==
    Barriers \subseteq Gates /\ Width \in Nat \ {0} /\ ProcessAfter \in Nat /\ Rounds \in Nat

VARIABLES
    source,       \* the circuit to partition
    size,         \* block_size
    phase,        \* "build", a pass, "done", "stuck", "refused" or "failed"
    out,          \* the partitioned circuit
    local         \* the variables of the pass

partitionVars == <<source, size, phase, out, local>>

IsBarrier(op) == op.gate \in Barriers

PartitionInit ==
    /\ source = Circuit(Width)
    /\ size \in BlockSizes
    /\ phase = "build"
    /\ out = source
    /\ local = <<>>

PartitionIdle ==
    /\ source = Circuit(Width) /\ size = 0 /\ phase = "idle" /\ out = source /\ local = <<>>

Add ==
    /\ phase = "build" /\ Cardinality(Points(source)) < MaxSource
    /\ \E op \in Pieces : source' = AppendOp(source, op)
    /\ out' = source'
    /\ UNCHANGED <<size, phase, local>>

Finish(d) == phase' = "done" /\ out' = d /\ local' = [pass |-> phase] /\ UNCHANGED <<source, size>>
Refuse == phase' = "refused" /\ local' = <<>> /\ UNCHANGED <<source, size, out>>

\* scan and cluster: a block_size beyond the circuit blocks all of it; cluster
\* and greedy name a cycle too many, which fold refuses.
StartWhole ==
    /\ phase = "build" /\ size > Width /\ Points(source) # {}
    /\ \/ "scan" \in Passes /\ Finish(Fold(source, [q \in 0..Width-1 |-> <<0, Len(source.grid) - 1>>]))
       \/ Passes \cap {"cluster", "greedy"} # {} /\ Refuse

----------------------------------------------------------------------------
(* QuickPartitioner.  A bin is known by the point of its first operation.  *)

NewBin == [starts |-> <<>>, ends |-> <<>>, active |-> {}, blocked |-> {}, ops |-> {}, barrier |-> FALSE]
BinQudits(bin) == DOMAIN bin.starts

StartQuick ==
    /\ phase = "build" /\ "quick" \in Passes /\ Points(source) # {}
    /\ phase' = "quick"
    /\ out' = Circuit(Width)
    /\ local' = [todo |-> GridOrder(source), bins |-> <<>>, pending |-> {}, closed |-> 0,
                 active |-> [q \in Qudits(source) |-> None],
                 line |-> [q \in Qudits(source) |->
                              IF source.front[q] = None THEN 0 ELSE source.front[q][1]],
                 draining |-> FALSE, ending |-> FALSE, placing |-> None]
    /\ UNCHANGED <<source, size>>

AddOp(bin, p, loc) ==
    LET starts == [q \in BinQudits(bin) \cup loc |-> IF q \in BinQudits(bin) THEN bin.starts[q] ELSE p[1]]
    IN  [bin EXCEPT !.starts = starts,
                    !.ends = [q \in DOMAIN starts |-> IF q \in BinQudits(bin) THEN bin.ends[q] ELSE None],
                    !.active = @ \cup (loc \ BinQudits(bin)),
                    !.ops = @ \cup {p}]

CanAccommodate(bin, loc, limit) ==
    /\ loc \cap bin.blocked \subseteq bin.active
    /\ BinQudits(bin) \cap loc \subseteq bin.active
    /\ Cardinality(BinQudits(bin) \cup loc) <= Max({limit, Cardinality(BinQudits(bin))})

\* close_bin_qudits on the bins in B: those left with no active qudit are pending.
CloseQudits(l, B, loc, cycle) ==
    LET closing(b) == loc \cap l.bins[b].active
        done == {b \in B : l.bins[b].active \subseteq loc}
    IN  [l EXCEPT
            !.bins = [b \in DOMAIN @ |->
                IF b \notin B THEN @[b]
                ELSE [@[b] EXCEPT !.active = @ \ loc,
                                  !.ends = [q \in DOMAIN @ |-> IF q \in closing(b) THEN cycle - 1 ELSE @[q]]]],
            !.active = [q \in DOMAIN @ |-> IF q \in loc /\ @[q] \in B THEN None ELSE @[q]],
            !.pending = @ \cup done,
            !.closed = @ + Cardinality(done)]

\* The barrier fills its qudits up to the next operations.
NextOn(p, q, nexts) == Min({x[1] : x \in {y \in nexts : q \in On(OpAt(source, y))}})

BarrierBin(p) ==
    LET loc == On(OpAt(source, p))
        nexts == Nexts(source, p)
        reached(q) == \E x \in nexts : q \in On(OpAt(source, x))
    IN  [AddOp(NewBin, p, loc) EXCEPT
            !.barrier = TRUE, !.active = {},
            !.ends = [q \in loc |-> IF reached(q) THEN NextOn(p, q, nexts) - 1 ELSE None]]

\* Every other open bin that shares a qudit, or a blocked one, with the selected bin
\* is placed before it: its qudits become blocked there.
BlockQudits(bins, active, selected) ==
    LET mine == bins[selected]
        open == {b \in Range(active) \ {None, selected} :
                    (bins[b].blocked \cup BinQudits(bins[b])) \cap BinQudits(mine) # {}}
    IN  [b \in DOMAIN bins |-> IF b \notin open THEN bins[b]
                               ELSE [bins[b] EXCEPT !.blocked = @ \cup BinQudits(mine) \cup mine.blocked]]

QuickReady == phase = "quick" /\ ~local.draining /\ local.placing = None

QuickBarrier ==
    /\ QuickReady /\ local.todo # <<>>
    /\ LET p == Head(local.todo)
           loc == On(OpAt(source, p))
           B == {local.active[q] : q \in loc} \ {None}
           l == CloseQudits(local, B, loc, p[1])
           extend(b) == IF b \in B /\ l.bins[b].active # {}
                        THEN [l.bins[b] EXCEPT !.blocked = @ \cup (loc \ BinQudits(l.bins[b]))]
                        ELSE l.bins[b]
       IN  /\ IsBarrier(OpAt(source, p))
           /\ local' = [l EXCEPT !.todo = Tail(@), !.pending = @ \cup {p},
                                 !.bins = (p :> BarrierBin(p)) @@ [b \in DOMAIN @ |-> extend(b)]]
    /\ UNCHANGED <<source, size, phase, out>>

QuickOp ==
    /\ QuickReady /\ local.todo # <<>>
    /\ LET p == Head(local.todo)
           loc == On(OpAt(source, p))
           B == {local.active[q] : q \in loc} \ {None}
           admissible == {b \in B : CanAccommodate(local.bins[b], loc, size)}
           holding == {b \in admissible : loc \subseteq BinQudits(local.bins[b])}
           candidates == IF admissible = {} THEN {p} ELSE IF holding # {} THEN holding ELSE admissible
       IN  /\ ~IsBarrier(OpAt(source, p))
           /\ \E selected \in candidates :
                LET l == CloseQudits(local, B \ {selected}, loc, p[1])
                    old == IF selected = p THEN NewBin ELSE l.bins[selected]
                    bins == (selected :> AddOp(old, p, loc)) @@ l.bins
                    active == [q \in DOMAIN l.active |-> IF q \in loc THEN selected ELSE l.active[q]]
                IN  local' = [l EXCEPT !.todo = Tail(@), !.active = active,
                                       !.bins = BlockQudits(bins, active, selected),
                                       !.draining = l.closed >= ProcessAfter,
                                       !.closed = IF @ >= ProcessAfter THEN 0 ELSE @]
    /\ UNCHANGED <<source, size, phase, out>>

\* At the end every bin still open is closed, and all that are pending must find
\* their place.
QuickLast ==
    /\ QuickReady /\ local.todo = <<>>
    /\ local' = [CloseQudits(local, Range(local.active) \ {None}, Qudits(source), Len(source.grid))
                    EXCEPT !.draining = TRUE, !.ending = TRUE]
    /\ UNCHANGED <<source, size, phase, out>>

\* process_pending_bins: the bins whose qudits have all been placed up to their starts.
Placeable == {b \in local.pending : \A q \in BinQudits(local.bins[b]) : local.line[q] = local.bins[b].starts[q]}

QuickPick ==
    /\ phase = "quick" /\ local.draining /\ local.placing = None
    /\ \E b \in Placeable :
        local' = [local EXCEPT !.placing =
                    [bin |-> b, sub |-> Extract(source, local.bins[b].ops),
                     loc |-> SetToSortSeq(BinQudits(local.bins[b]), <)]]
    /\ UNCHANGED <<source, size, phase, out>>

Index(loc, q) == CHOOSE i \in DOMAIN loc : loc[i] = q
Local(inner, outer) == [i \in DOMAIN inner |-> Index(outer, inner[i]) - 1]

\* Circuit.rear: the operations with nothing after them.
Rear(c) == {p \in Range(c.rear) \ {None} : Nexts(c, p) = {}}
Mergeable ==
    LET loc == Range(local.placing.loc)
    IN  {p \in Rear(out) : /\ ~local.bins[local.placing.bin].barrier
                           /\ ~IsBarrier(OpAt(out, p))
                           /\ On(OpAt(out, p)) \subseteq loc \/ loc \subseteq On(OpAt(out, p))}

\* A mutant: the block placed before goes behind.
JoinedBehind(old, sub, inner, outer) == AppendCircuit(sub, old, Local(inner, outer))

\* The block placed before goes to the front of this one.
JoinedBefore(old, sub, inner, outer) == InsertCircuit(sub, 0, old, Local(inner, outer))

QuickMerge ==
    /\ phase = "quick" /\ local.placing # None
    /\ \E p \in Mergeable :
        LET old == OpAt(out, p)
            loc == local.placing.loc
            sub == local.placing.sub
        IN  /\ out' = PopOp(out, p)
            /\ local' = [local EXCEPT
                !.placing.sub = IF On(old) \subseteq Range(loc)
                                THEN JoinedBefore(old.gate, sub, old.loc, loc)
                                ELSE AppendCircuit(old.gate, sub, Local(loc, old.loc)),
                !.placing.loc = IF On(old) \subseteq Range(loc) THEN loc ELSE old.loc]
    /\ UNCHANGED <<source, size, phase>>

QuickPut ==
    /\ phase = "quick" /\ local.placing # None /\ Mergeable = {}
    /\ LET bin == local.bins[local.placing.bin]
           loc == local.placing.loc
       IN  /\ out' = IF bin.barrier THEN AppendCircuit(out, local.placing.sub, loc)
                     ELSE AppendOp(out, Op(local.placing.sub, loc))
           /\ local' = [local EXCEPT
                !.line = [q \in DOMAIN @ |->
                            IF q \notin BinQudits(bin) THEN @[q]
                            ELSE IF bin.ends[q] = None THEN Len(source.grid) ELSE bin.ends[q] + 1],
                !.pending = @ \ {local.placing.bin}, !.placing = None]
    /\ UNCHANGED <<source, size, phase>>

Drained == phase = "quick" /\ local.draining /\ local.placing = None /\ Placeable = {}

QuickDrained ==
    /\ Drained /\ ~local.ending
    /\ local' = [local EXCEPT !.draining = FALSE]
    /\ UNCHANGED <<source, size, phase, out>>

\* "This should never happen".
QuickEnd ==
    /\ Drained /\ local.ending
    /\ IF local.pending = {} THEN Finish(out)
       ELSE phase' = "stuck" /\ UNCHANGED <<source, size, out, local>>

----------------------------------------------------------------------------
(* ScanPartitioner.                                                        *)

Joined(S, edges) == \A T \in SUBSET S \ {{}, S} :
                        \E e \in edges : {e[1], e[2]} \subseteq S /\ Cardinality({e[1], e[2]} \cap T) = 1

\* calculate_qudit_groups: as many qudits as a block takes, joined by gates; fewer
\* only where no larger group has them.  Idle qudits are in none.
QuditGroups(c) ==
    LET joined == {S \in SUBSET Qudits(c) : S # {} /\ Cardinality(S) <= size /\ Joined(S, BagToSet(c.graph))}
        busy == {q \in Qudits(c) : c.front[q] # None}
        groups == {S \in joined : ~\E T \in joined : S \subseteq T /\ S # T}
    IN  {S \cap busy : S \in groups} \ {{}}

\* calculate_block: a gate that leaves the group stops its qudits.  A gate counts
\* once for every qudit the sweep meets it on.
BlockOf(group, c, divider) ==
    LET cycles == [i \in DOMAIN c.grid |-> i - 1]
        meet(s, k) ==
            LET met == {q \in group : divider[q] <= k /\ ~Idle(c, <<k, q>>)}
                leaving == {q \in met : ~(On(At(c, k, q)) \subseteq s.in)}
                stopped == leaving \cap s.in
                worth(q) == (Len(At(c, k, q).loc) - 1) * 100 + 1
            IN  IF s.in = {} THEN s
                ELSE [in |-> s.in \ UNION {On(At(c, k, q)) : q \in leaving},
                      ends |-> [q \in group |-> IF q \in UNION {On(At(c, k, x)) : x \in leaving} \cap s.in
                                                THEN k ELSE s.ends[q]],
                      score |-> s.score + MapThenSumSet(worth, met \ leaving),
                      refused |-> s.refused \/ \E q \in leaving : Len(At(c, k, q).loc) > size]
        swept == FoldLeft(meet, [in |-> group, ends |-> [q \in group |-> Len(c.grid)], score |-> 0,
                                 refused |-> FALSE], cycles)
        held == {q \in group : swept.ends[q] - 1 >= divider[q]}
    IN  [region |-> [q \in held |-> <<divider[q], swept.ends[q] - 1>>],
         score |-> swept.score, refused |-> swept.refused]

StartScan ==
    /\ phase = "build" /\ "scan" \in Passes /\ size <= Width /\ Points(source) # {}
    /\ phase' = "scan"
    /\ local' = [divider |-> [q \in Qudits(source) |->
                                IF q \in UNION QuditGroups(source) THEN 0 ELSE Len(source.grid)],
                 regions |-> <<>>]
    /\ UNCHANGED <<source, size, out>>

Candidates == {BlockOf(g, source, local.divider) : g \in QuditGroups(source)}
ScanOver == \A q \in Qudits(source) : local.divider[q] >= Len(source.grid)

Past(divider, r) == [q \in DOMAIN divider |-> IF q \in DOMAIN r THEN r[q][2] + 1 ELSE divider[q]]

ScanRefuses == phase = "scan" /\ (\E b \in Candidates : b.refused) /\ Refuse

\* Among equals the last one is taken, in an order of the groups left open here.
ScanBlock ==
    /\ phase = "scan" /\ ~ScanOver /\ ~\E b \in Candidates : b.refused
    /\ \E b \in Candidates :
        /\ \A x \in Candidates : x.score <= b.score
        /\ local' = [divider |-> Past(local.divider, b.region), regions |-> Append(local.regions, b.region)]
    /\ UNCHANGED <<source, size, phase, out>>

FoldCircuit(c, regions) ==
    LET block(d, r) ==
            LET points == Touched(c, r)
                qudits == UNION {On(OpAt(c, p)) : p \in points}
            IN  AppendOp(d, Op(Extract(c, points), SetToSortSeq(qudits, <)))
    IN  FoldLeft(block, Circuit(c.n), regions)

ScanFold == phase = "scan" /\ ScanOver /\ Finish(FoldCircuit(source, local.regions))

----------------------------------------------------------------------------
(* GroupSingleQuditGatePass and ClusteringPartitioner.                     *)

StartSingle ==
    /\ phase = "build" /\ "single" \in Passes
    /\ phase' = "single" /\ local' = [qudit |-> 0]
    /\ UNCHANGED <<source, size, out>>

Alone(op) == Len(op.loc) = 1 /\ ~IsBarrier(op)

\* The runs of single-qudit gates on a qudit, folded from the last one on.
FoldRuns(c, q) ==
    LET busy == {k \in Cycles(c) : ~Idle(c, <<k, q>>)}
        alone == {k \in busy : Alone(At(c, k, q))}
        first == {k \in alone : \A j \in busy : j < k => j \notin alone \/ \E i \in busy \ alone : j < i /\ i < k}
        end(k) == Min({Len(c.grid)} \cup {j \in busy \ alone : j > k}) - 1
        runs == SetToSortSeq(first, LAMBDA a, b : a > b)
    IN  FoldLeft(LAMBDA d, k : Fold(d, [x \in {q} |-> <<k, end(k)>>]), c, runs)

GroupQudit ==
    /\ phase = "single"
    /\ LET d == FoldRuns(out, local.qudit)
       IN  IF local.qudit = Width - 1 THEN Finish(d)
           ELSE out' = d /\ local' = [qudit |-> local.qudit + 1] /\ UNCHANGED <<source, size, phase>>

StartCluster ==
    /\ phase = "build" /\ "cluster" \in Passes /\ size <= Width /\ Points(source) # {}
    /\ phase' = "cluster" /\ local' = [rounds |-> 0]
    /\ UNCHANGED <<source, size, out>>

\* The best of four points, any of which may be drawn four times.
ClusterRound ==
    /\ phase = "cluster"
    /\ \E p \in Points(out) :
        IF Len(OpAt(out, p).loc) > size THEN Refuse
        ELSE \E r \in Surround(out, p, size) :
            IF local.rounds = Rounds - 1 THEN Finish(Fold(out, r))
            ELSE /\ out' = Fold(out, r) /\ local' = [rounds |-> local.rounds + 1]
                 /\ UNCHANGED <<source, size, phase>>

----------------------------------------------------------------------------
(* GreedyPartitioner.  The region that is to bound a recalculated one is   *)
(* not used by surround, so a recalculated region is the one it was; which *)
(* of the best regions surround finds first is fixed by the point.         *)

StartGreedy ==
    /\ phase = "build" /\ "greedy" \in Passes /\ size <= Width /\ Points(source) # {}
    /\ LET wide == {p \in Points(source) : Len(OpAt(source, p).loc) > size}
           narrow == Points(source) \ wide
           order == SetToSortSeq(wide, Before)
       IN  local' = [potential |-> [p \in narrow |-> CHOOSE r \in Surround(source, p, size) : TRUE],
                     left |-> Cardinality(narrow),
                     regions |-> [i \in DOMAIN order |-> Bounds(source, {order[i]})]]
    /\ phase' = "greedy"
    /\ UNCHANGED <<source, size, out>>

Fail == phase' = "failed" /\ local' = <<>> /\ UNCHANGED <<source, size, out>>

GreedyPick ==
    /\ phase = "greedy" /\ local.left > 0
    /\ IF DOMAIN local.potential = {} THEN Fail  \* IndexError
       ELSE \E p \in DOMAIN local.potential :
            LET gates(x) == Cardinality(Touched(source, local.potential[x]))
                r == local.potential[p]
                kept == {x \in DOMAIN local.potential : x \notin PointsOf(r) /\ local.potential[x] # r}
            IN  /\ \A x \in DOMAIN local.potential : gates(x) <= gates(p)
                /\ local' = [potential |-> [x \in kept |-> local.potential[x]],
                             left |-> local.left - gates(p), regions |-> Append(local.regions, r)]
                /\ UNCHANGED <<source, size, phase, out>>

\* CircuitRegion.depends_on: behind the other on every qudit they share.
DependsOn(r, s) == /\ DOMAIN r \cap DOMAIN s # {}
                   /\ \A q \in DOMAIN r \cap DOMAIN s : s[q][2] < r[q][1]

\* topo_sort: the first region all of whose dependencies are out, again and again.
TopoSort(regions) ==
    LET free(done) == {i \in DOMAIN regions : i \notin Range(done)
                          /\ \A j \in DOMAIN regions \ Range(done) : j = i \/ ~DependsOn(regions[i], regions[j])}
        take(done, n) == IF free(done) = {} THEN done ELSE Append(done, Min(free(done)))
    IN  FoldLeft(take, <<>>, [i \in DOMAIN regions |-> i])

Disjoint(regions) ==
    \A i, j \in DOMAIN regions : i # j => Touched(source, regions[i]) \cap Touched(source, regions[j]) = {}

GreedyFold ==
    /\ phase = "greedy" /\ local.left <= 0
    /\ LET sorted == TopoSort(local.regions)
           put(d, i) ==
                LET points == Touched(source, local.regions[i])
                    qudits == SetToSortSeq(UNION {On(OpAt(source, p)) : p \in points}, <)
                IN  IF Len(qudits) <= size THEN AppendOp(d, Op(Extract(source, points), qudits))
                    ELSE FoldLeft(LAMBDA e, p : AppendOp(e, OpAt(source, p)), d, SetToSortSeq(points, Before))
       IN  IF Len(sorted) < Len(local.regions) \/ \E i \in DOMAIN local.regions :
                                                    ~IsRegionOf(source, PointsOf(local.regions[i]))
           THEN Fail
           ELSE /\ phase' = "done" /\ out' = FoldLeft(put, Circuit(Width), sorted)
                /\ local' = [pass |-> IF Disjoint(local.regions) THEN "greedy" ELSE "greedy, overlapping"]
                /\ UNCHANGED <<source, size>>

----------------------------------------------------------------------------

Quick == QuickBarrier \/ QuickOp \/ QuickLast \/ QuickPick \/ QuickMerge \/ QuickPut
         \/ QuickDrained \/ QuickEnd
Scan == ScanRefuses \/ ScanBlock \/ ScanFold
PartitionNext == Add \/ StartWhole \/ StartQuick \/ StartScan \/ StartSingle \/ StartCluster
        \/ Quick \/ Scan \/ GroupQudit \/ ClusterRound
        \/ StartGreedy \/ GreedyPick \/ GreedyFold
----------------------------------------------------------------------------

\* "Unable to process all pending bins ... This should never happen" (quick.py:283):
\* no bin waits for a bin that waits for it.
NeverStuck == phase # "stuck"

\* What comes out does to every qudit what went in did (quick.py:56 "Partition
\* gates in a circuit into a series of CircuitGates"); a block is no wider than
\* block_size or than the one gate it was made for, and no barrier, measurement
\* or reset ends up inside one.  GreedyPartitioner, which is deprecated, can pick
\* regions that overlap, and then repeats or loses operations.
Widest == Max({size} \cup {Len(op.loc) : op \in Ops(source)})
PartitionedSound ==
    phase = "done" =>
        /\ local.pass # "greedy, overlapping" => WiresOf(out) = WiresOf(source)
        /\ size <= Width =>
             \A op \in Ops(out) : IsBlock(op) =>
                 /\ op.gate.n <= Widest /\ op.gate.n = Len(op.loc)
                 /\ local.pass \in {"quick", "single"} => \A x \in Ops(op.gate) : ~IsBarrier(x)

\* No pass of these stops half-way: no bin waits in vain, and each block the scan takes
\* holds operations, none of them an earlier block's, so that the loop of scan.py:112,
\* which has no other bound, ends.
PartitionersAdvance ==
    /\ NeverStuck
    /\ phase = "scan" => /\ \A i \in DOMAIN local.regions : Touched(source, local.regions[i]) # {}
                         /\ Disjoint(local.regions)

\* A pass comes to its end, with the circuit it was given.
PartitionsRight == PartitionersAdvance /\ PartitionedSound
=============================================================================
