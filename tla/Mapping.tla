------------------------------ MODULE Mapping ------------------------------
(***************************************************************************)
(* Mapping a circuit to a machine: a placement pass, SABRE or the          *)
(* permutation-aware (PAM) layout and routing, ApplyPlacement.  Both       *)
(* algorithms sweep the circuit with a logical-to-physical mapping pi,     *)
(* execute what pi makes adjacent and swap when nothing is; PAM also       *)
(* exchanges the qudits of a block while it executes it.                   *)
(*                                                                         *)
(* A gate is its qudits.  The circuit PAM's synthesis found for a block    *)
(* with permutations pre and post is Post^T . Block . Pre, for any pair;   *)
(* which pair scores best depends on gate counts, so any may be chosen.    *)
(***************************************************************************)
EXTENDS Graph

CONSTANTS
    MapJobs,        \* see MapJobType
    Patience,       \* the swaps without a gate before backtracking, 5 * n
    ResetInterval   \* decay_reset_interval

VARIABLES
    map,            \* the job
    mapping,        \* "place", "forward", "backward", "route", "apply",
                    \* "mapped", "failed", "unembedded" or "idle"
    cg, D,          \* data.connectivity and its shortest paths, during a sweep
    placement,      \* data.placement: logical to physical, as a sequence
    neighbors,      \* the greedy placement's list of neighbours
    pi,             \* logical qudit to position in the placement
    front,          \* F, the operations that wait for nothing but adjacency
    ran,            \* the operations executed in this sweep
    decay,          \* by physical qudit, the swaps since the last reset
    iterCount,
    leading,        \* leading_swaps: the swaps since a gate was executed
    forced,         \* backtracking, or gathering the qudits of a gate
    mapped,         \* mapped_circuit
    initialMapping, finalMapping

mapVars == <<map, mapping, cg, D, placement, neighbors, pi, front, ran, decay, iterCount,
             leading, forced, mapped, initialMapping, finalMapping>>

\* machine: the coupling graph; circuit: a sequence of operations on n qudits,
\* barriers and blocks of one-qudit gates among them; embedded: the graphs of a
\* block's qudits that EmbedAllPermutationsPass has made circuits for.
MapJobType ==
    [machine : [n : Nat, edges : SUBSET (Nat \X Nat), remote : SUBSET (Nat \X Nat)],
     n : Nat, circuit : Seq([qudits : Seq(Nat), barrier : BOOLEAN, local : BOOLEAN]),
     embedded : SUBSET [n : Nat, edges : SUBSET (Nat \X Nat)],
     placer : {"trivial", "greedy", "static"}, pam : BOOLEAN, layout : BOOLEAN,
     resetOnGate : BOOLEAN]

Logical == 0 .. map.n - 1
Identity == [q \in Logical |-> q]
Ops == DOMAIN map.circuit
Of(n) == map.circuit[n].qudits

\* data.connectivity: the machine's graph among the placed qudits.
Connectivity(where) == Subgraph(map.machine, where)
Connected(where) == \A g \in {Connectivity(where)} : IsFullyConnected(g)

-----------------------------------------------------------------------------
(* Placement.                                                                *)

Coupled(q, r) ==
    \E n \in Ops : ~map.circuit[n].barrier /\ q # r /\ {q, r} \subseteq Range(Of(n))

Free == [step |-> "no", center |-> 0, left |-> <<>>, path |-> <<>>]

Unplaced ==
    /\ forced = Free
    /\ cg = AllToAll(1) /\ D = <<>> /\ neighbors = {} /\ pi = Identity /\ front = {} /\ ran = {} /\ iterCount = 0
    /\ decay = [q \in Logical |-> 0] /\ leading = <<>> /\ mapped = <<>>
    /\ initialMapping = Identity /\ finalMapping = Identity

\* SetModelPass: the placement starts as the first qudits of the machine.
MapInit ==
    /\ map \in MapJobs
    /\ mapping = "place"
    /\ placement = IF map.placer = "greedy" THEN <<>> ELSE [i \in 1 .. map.n |-> i - 1]
    /\ Unplaced

MapIdle ==
    /\ map = [machine |-> AllToAll(1), n |-> 0, circuit |-> <<>>, placer |-> "trivial",
              embedded |-> {}, pam |-> FALSE, layout |-> FALSE, resetOnGate |-> FALSE]
    /\ mapping = "idle" /\ placement = <<>> /\ Unplaced

KeepSweep == UNCHANGED <<map, cg, D, pi, front, ran, decay, iterCount, leading, forced, mapped, initialMapping, finalMapping>>
Place(where) == placement' = where /\ mapping' = "layout" /\ UNCHANGED neighbors /\ KeepSweep

PlaceTrivial ==
    /\ mapping = "place" /\ map.placer = "trivial"
    /\ placement' = [i \in 1 .. map.n |-> i - 1]
    /\ mapping' = IF Connected(placement') THEN "layout" ELSE "failed"
    /\ UNCHANGED neighbors /\ KeepSweep

\* The greedy pass starts at the first qudit of the highest degree ...
Highest == Min({q \in Qudits(map.machine) : \A r \in Qudits(map.machine) :
                   Degree(map.machine, r) <= Degree(map.machine, q)})

GreedyScore(q) ==
    <<Cardinality(Adj(map.machine, q) \cap Range(placement)), Degree(map.machine, q),
      FoldSet(LAMBDA r, acc : acc + Degree(map.machine, r), 0, Adj(map.machine, q))>>
Beats(s, t) ==
    \E k \in 1 .. 3 : s[k] > t[k] /\ \A j \in 1 .. k - 1 : s[j] = t[j]

\* ... and adds the best neighbour, the first of the best in no set order.
PlaceGreedy ==
    /\ mapping = "place" /\ map.placer = "greedy" /\ Len(placement) < map.n
    /\ \E q \in IF placement = <<>> THEN {Highest}
                ELSE {q \in neighbors : \A r \in neighbors : ~Beats(GreedyScore(r), GreedyScore(q))} :
         /\ placement' = Append(placement, q)
         /\ neighbors' = (neighbors \cup Adj(map.machine, q)) \ Range(placement')
    /\ UNCHANGED mapping /\ KeepSweep

PlacedGreedy ==
    /\ mapping = "place" /\ map.placer = "greedy"
    /\ \/ Len(placement) = map.n
          /\ placement' = SortSeq(placement, <)
          /\ mapping' = IF Connected(placement') THEN "layout" ELSE "failed"
       \/ Len(placement) \in 1 .. map.n - 1 /\ neighbors = {}
          /\ mapping' = "failed" /\ UNCHANGED placement
    /\ UNCHANGED neighbors /\ KeepSweep

\* _find_monomorphic_subgraph: depth first, so the first in dictionary order.
Fits(f) ==
    \A q \in Logical :
      /\ Degree(map.machine, f[q]) >= Cardinality({r \in Logical : Coupled(q, r)})
      /\ \A r \in 0 .. q - 1 : Coupled(q, r) => f[q] \in Adj(map.machine, f[r])
First(fs) ==
    CHOOSE f \in fs : \A g \in fs : f = g \/ \E q \in Logical :
      f[q] < g[q] /\ \A r \in 0 .. q - 1 : f[r] = g[r]

\* The search may run out of time; without a result the placement stays.
PlaceStatic ==
    /\ mapping = "place" /\ map.placer = "static"
    /\ \E fs \in {{f \in Renumberings[map.n][map.machine.n] : Fits(f)}} :
         \/ fs # {} /\ Place([i \in 1 .. map.n |-> First(fs)[i - 1]])
         \/ Place(placement)

-----------------------------------------------------------------------------
(* The sweep, forward or backward over the circuit.                          *)

Looping == mapping \in {"forward", "backward", "route"} /\ forced = Free

Later(n) == {m \in Ops : m > n /\ \E q \in Range(Of(n)) \cap Range(Of(m)) :
                            \A k \in n + 1 .. m - 1 : q \notin Range(Of(k))}
Earlier(n) == {m \in Ops : n \in Later(m)}
Succ(n) == IF mapping = "backward" THEN Earlier(n) ELSE Later(n)
Pred(n) == IF mapping = "backward" THEN Later(n) ELSE Earlier(n)

\* Mutant of Ready: one executed predecessor is enough.
Ready_AfterOne(done) == {n \in Ops \ done : Pred(n) \cap done # {} \/ Pred(n) = {}}

\* prev_executed_counts: an operation joins F when all before it have run.
Ready(done) == {n \in Ops \ done : Pred(n) \subseteq done}

NoDecay == [q \in Logical |-> 0]

BeginSweep(next, from) ==
    /\ \E g \in {Connectivity(placement')} : cg' = g /\ D' = AllPairs(g)
    /\ mapping' = next
    /\ front' = {n \in Ops : IF next = "backward" THEN Later(n) = {} ELSE Earlier(n) = {}}
    /\ ran' = {} /\ decay' = NoDecay /\ iterCount' = 0 /\ leading' = <<>> /\ mapped' = <<>>
    /\ pi' = from

KeepPlaced == UNCHANGED <<map, placement, neighbors, forced, initialMapping, finalMapping>>
KeepMap == UNCHANGED <<cg, D, placement, neighbors, initialMapping, finalMapping>>

Layout ==
    /\ mapping = "layout" /\ KeepPlaced
    /\ IF ~Connected(placement)
       THEN mapping' = "failed" /\ UNCHANGED <<cg, D, pi, front, ran, decay, iterCount, leading, mapped>>
       ELSE BeginSweep(IF map.layout THEN "forward" ELSE "route", Identity)

Turn ==
    /\ mapping = "forward" /\ front = {} /\ KeepPlaced
    /\ BeginSweep("backward", pi)

\* _apply_perm: the sorted qudits take the places of the permuted ones.
ApplyPerm(perm, f) ==
    LET sorted == SortSeq(perm, <)
    IN  [q \in DOMAIN f |-> IF q \in Range(perm)
                            THEN f[perm[CHOOSE i \in DOMAIN perm : sorted[i] = q]] ELSE f[q]]

\* The end of a layout pass: the layout is put into the placement.
EndLayout ==
    /\ mapping = "backward" /\ front = {}
    /\ LET where == ApplyPerm([i \in 1 .. map.n |-> pi[i - 1]], [q \in Logical |-> placement[q + 1]])
       IN  placement' = [i \in 1 .. map.n |-> where[i - 1]]
    /\ BeginSweep("route", Identity)
    /\ UNCHANGED <<map, neighbors, forced, initialMapping, finalMapping>>

EndRoute ==
    /\ mapping = "route" /\ front = {}
    /\ finalMapping' = [l \in Logical |-> pi[finalMapping[l]]]
    /\ mapping' = "apply"
    /\ UNCHANGED <<map, cg, D, placement, neighbors, pi, front, ran, decay, iterCount, leading, forced, mapped, initialMapping>>

\* ApplyPlacement: everything moves to the qudits of the machine.
Apply ==
    /\ mapping = "apply"
    /\ mapped' = [k \in DOMAIN mapped |->
                    [mapped[k] EXCEPT !.at = [i \in DOMAIN @ |-> placement[@[i] + 1]]]]
    /\ initialMapping' = [l \in Logical |-> placement[initialMapping[l] + 1]]
    /\ finalMapping' = [l \in Logical |-> placement[finalMapping[l] + 1]]
    /\ mapping' = "mapped"
    /\ UNCHANGED <<map, cg, D, placement, neighbors, pi, front, ran, decay, iterCount, leading, forced>>

-----------------------------------------------------------------------------
(* Executing.                                                                *)

Positions(n) == [i \in DOMAIN Of(n) |-> pi[Of(n)[i]]]

CanExe(n) ==
    \/ map.circuit[n].barrier \/ map.circuit[n].local
    \/ Len(Of(n)) = 1
    \/ \E g \in {Subgraph(cg, Positions(n))} : IsFullyConnected(g)

Executable == {n \in front : CanExe(n)}

Modify(entries) == mapped' = IF mapping = "route" THEN mapped \o entries ELSE mapped
Gate(n, at, pre, post) ==
    [op |-> n, at |-> at, pre |-> pre, post |-> post, tag |-> <<>>]
SwapOf(swap) == Gate(0, swap, <<1, 2>>, <<1, 2>>)
Plain(n) == Gate(n, Positions(n), [i \in DOMAIN Of(n) |-> i], [i \in DOMAIN Of(n) |-> i])

Executed(done) ==
    /\ ran' = ran \cup done
    /\ front' = (front \ done) \cup (Ready(ran \cup done) \ front)
    /\ leading' = <<>>
    /\ IF map.resetOnGate THEN decay' = NoDecay /\ iterCount' = 0 ELSE UNCHANGED <<decay, iterCount>>
    /\ UNCHANGED <<map, mapping, forced>> /\ KeepMap

\* SABRE executes all that pi allows, and so does every backward sweep.
Execute ==
    /\ Looping /\ Executable # {} /\ (~map.pam \/ mapping = "backward")
    /\ Executed(Executable)
    /\ Modify([k \in 1 .. Cardinality(Executable) |->
                 Plain(SetToSortSeq(Executable, <)[k])])
    /\ UNCHANGED pi

\* PAM: the inverse of pre is applied to pi, the circuit is put where the
\* qudits then are, and post is applied.  A barrier keeps its own location.
InverseOf(perm) == [i \in DOMAIN perm |-> CHOOSE j \in DOMAIN perm : perm[j] = i]
Global(n, perm) == [i \in DOMAIN perm |-> Of(n)[perm[i]]]
AtBlock(n, pre) == ApplyPerm(Global(n, InverseOf(pre)), pi)
AfterBlock(n, pre, post) == ApplyPerm(Global(n, post), AtBlock(n, pre))
PermutationsOf(n) == SetToSeqs(DOMAIN Of(n))

\* _global_to_local_perm, for the tag that PAM's verification reads.
LocalOf(perm) ==
    LET sorted == SortSeq(perm, <)
    IN  [i \in DOMAIN perm |-> CHOOSE j \in DOMAIN perm : sorted[j] = perm[i]]

PamGate(n, pre, post) ==
    IF map.circuit[n].barrier
    THEN [pi |-> pi, entry |-> Gate(n, Of(n), pre, pre)]
    ELSE [pi |-> AfterBlock(n, pre, post),
          entry |-> [Gate(n, [i \in DOMAIN Of(n) |-> AtBlock(n, pre)[Of(n)[i]]], pre, post)
                       EXCEPT !.tag = <<LocalOf(Global(n, InverseOf(pre))), LocalOf(Global(n, post))>>]]

\* The graph that pre leaves between the qudits of a block, and the permutations
\* there is a circuit for: all on a graph that was embedded; on no edges, those
\* that leave one-qudit gates where they are.
GraphBelow(n, pre) == Subgraph(cg, [i \in DOMAIN pre |-> pi[Global(n, InverseOf(pre))[i]]])
PermutationData(n) ==
    {perms \in PermutationsOf(n) \X PermutationsOf(n) :
       \E g \in {GraphBelow(n, perms[1])} :
         \/ [n |-> g.n, edges |-> g.edges] \in map.embedded
         \/ map.circuit[n].local /\ g.edges = {} /\ perms[1] = perms[2]}
PermutationsFor(n) ==
    IF map.circuit[n].barrier THEN {<<p, p>> : p \in PermutationsOf(n)} ELSE PermutationData(n)

\* _get_best_perm finds no circuit for a block.
NoPermutation ==
    /\ Looping /\ map.pam /\ mapping # "backward"
    /\ \E n \in Executable : PermutationsFor(n) = {}
    /\ mapping' = "unembedded"
    /\ UNCHANGED <<map, pi, front, ran, decay, iterCount, leading, forced, mapped>> /\ KeepMap

\* The gates of execute_list are disjoint: one at a time, in any order.
ExecutePam ==
    /\ Looping /\ map.pam /\ mapping # "backward"
    /\ \E n \in Executable : \E perms \in PermutationsFor(n) : LET pre == perms[1] post == perms[2] IN
         /\ Executed({n})
         /\ pi' = PamGate(n, pre, post).pi
         /\ Modify(<<PamGate(n, pre, post).entry>>)

-----------------------------------------------------------------------------
(* Swapping.                                                                 *)

\* _get_distance: from the qudit that is nearest to the others.
Distance(f, qudits) ==
    Min({FoldSet(LAMBDA p, acc : acc + D[f[q], f[p]], 0, Range(qudits) \ {q}) : q \in Range(qudits)})

Swapped(f, swap) ==
    LET at(p) == CHOOSE q \in DOMAIN f : f[q] = p
    IN  [f EXCEPT ![at(swap[1])] = swap[2], ![at(swap[2])] = swap[1]]

\* _obtain_swaps: the edges at a qudit of the front.
Candidates ==
    {e \in cg.edges : \E n \in front : {e[1], e[2]} \cap Range(Positions(n)) # {}}

\* A swap inside the operands of one gate is never scored.
Meaningless(swap) ==
    \E n \in front : {swap[1], swap[2]} \subseteq Range(Positions(n))

\* _calc_extended_set looks ahead, in a backward sweep at what has been executed;
\* the circuits here are smaller than its size.
Extended ==
    LET grown[k \in 0 .. Len(map.circuit)] ==
          IF k = 0 THEN UNION {Later(n) : n \in front}
          ELSE grown[k - 1] \cup UNION {Later(n) : n \in grown[k - 1]}
    IN  grown[Len(map.circuit)]

Total(f, ns) == FoldSet(LAMBDA n, acc : acc + Distance(f, Of(n)), 0, ns)

\* _score_swap over its denominators: the decay is in thousandths, and the
\* extended set weighs half.
Score(extended, swap) ==
    LET f == Swapped(pi, swap)
        decayed == 1000 + Max({decay[swap[1]], decay[swap[2]]})
    IN  IF extended = {} THEN decayed * Total(f, front)
        ELSE decayed * (2 * Cardinality(extended) * Total(f, front)
                        + Cardinality(front) * Total(f, extended))

Stuck == Len(leading) > Patience

\* The best swap; among equals the first in no particular order.
BestSwaps(extended) ==
    LET scored == {[swap |-> e, score |-> Score(extended, e)] : e \in {e \in Candidates : ~Meaningless(e)}}
    IN  {s.swap : s \in {s \in scored : \A t \in scored : s.score <= t.score}}

Swap ==
    /\ Looping /\ front # {} /\ Executable = {} /\ ~Stuck
    /\ \E swap \in BestSwaps(Extended) :
           /\ pi' = Swapped(pi, swap)
           /\ leading' = Append(leading, swap)
           /\ iterCount' = (iterCount + 1) % ResetInterval
           /\ decay' = IF iterCount' = 0 THEN NoDecay
                       ELSE [decay EXCEPT ![swap[1]] = @ + 1, ![swap[2]] = @ + 1]
           /\ Modify(<<SwapOf(swap)>>)
    /\ UNCHANGED <<map, mapping, front, ran, forced>> /\ KeepMap

\* In a local minimum the swaps since the last gate are taken back ...
Backtrack ==
    /\ Looping /\ front # {} /\ Executable = {} /\ Stuck
    /\ forced' = [Free EXCEPT !.step = "back"]
    /\ UNCHANGED <<map, mapping, pi, front, ran, decay, iterCount, leading, mapped>> /\ KeepMap

Exchange(swap) ==
    /\ pi' = Swapped(pi, swap)
    /\ decay' = [decay EXCEPT ![swap[1]] = @ + 1, ![swap[2]] = @ + 1]

\* ... each by popping the last operation on its first qudit ...
RearOn(q) == Max({k \in DOMAIN mapped : q \in Range(mapped[k].at)})

TakeBack ==
    /\ forced.step = "back" /\ leading # <<>>
    /\ Exchange(Last(leading))
    /\ leading' = Front(leading)
    /\ mapped' = IF mapping = "route" THEN RemoveAt(mapped, RearOn(Last(leading)[1])) ELSE mapped
    /\ UNCHANGED <<map, mapping, front, ran, iterCount, forced>> /\ KeepMap

\* ... and the nearest gate of the front is brought together by force:
\* _uphill_swaps moves its qudits, one after another, to the one that is
\* nearest to all, each along the shortest path from where it then is.
Center(qudits) ==
    LET far(q) == FoldSet(LAMBDA p, acc : acc + D[pi[q], pi[p]], 0, Range(qudits) \ {q})
        best == {i \in DOMAIN qudits : \A j \in DOMAIN qudits : far(qudits[i]) <= far(qudits[j])}
    IN  qudits[Min(best)]

Override ==
    /\ forced.step = "back" /\ leading = <<>>
    /\ \E n \in {n \in front : \A m \in front : Distance(pi, Of(n)) <= Distance(pi, Of(m))} :
         forced' = [step |-> "gather", center |-> Center(Of(n)),
                    left |-> SelectSeq(Of(n), LAMBDA q : q # Center(Of(n))), path |-> <<>>]
    /\ UNCHANGED <<map, mapping, pi, front, ran, decay, iterCount, leading, mapped>> /\ KeepMap

Gathering == forced.step = "gather"

NextQudit ==
    /\ Gathering /\ Len(forced.path) < 2 /\ forced.left # <<>>
    /\ forced' = [forced EXCEPT
                    !.path = Reverse(ShortestPathTree(cg, pi[forced.center])[pi[Head(forced.left)]]),
                    !.left = Tail(@)]
    /\ UNCHANGED <<map, mapping, pi, front, ran, decay, iterCount, leading, mapped>> /\ KeepMap

\* Mutant of Hop: the mapping is not told of the swaps that are forced.
Hop_Unapplied ==
    /\ Gathering /\ Len(forced.path) >= 2
    /\ forced' = [forced EXCEPT !.path = Tail(@)]
    /\ UNCHANGED <<map, mapping, pi, front, ran, decay, iterCount, leading, mapped>> /\ KeepMap

\* A step along the path; the last one, into the center, is not taken.
Hop ==
    /\ Gathering /\ Len(forced.path) >= 2
    /\ forced' = [forced EXCEPT !.path = Tail(@)]
    /\ LET swap == <<forced.path[1], forced.path[2]>>
       IN  IF pi[forced.center] \in Range(swap)
           THEN UNCHANGED <<pi, decay, mapped>>
           ELSE Exchange(swap) /\ Modify(<<SwapOf(swap)>>)
    /\ UNCHANGED <<map, mapping, front, ran, iterCount, leading>> /\ KeepMap

Overridden ==
    /\ Gathering /\ Len(forced.path) < 2 /\ forced.left = <<>>
    /\ forced' = Free
    /\ UNCHANGED <<map, mapping, pi, front, ran, decay, iterCount, leading, mapped>> /\ KeepMap

MapNext ==
    \/ PlaceTrivial \/ PlaceGreedy \/ PlacedGreedy \/ PlaceStatic
    \/ Layout \/ Turn \/ EndLayout \/ EndRoute \/ Apply
    \/ Execute \/ ExecutePam \/ NoPermutation \/ Swap
    \/ Backtrack \/ TakeBack \/ Override \/ NextQudit \/ Hop \/ Overridden

-----------------------------------------------------------------------------
(* What mapping promises.                                                    *)

\* Run the mapped circuit: pairs of a physical qudit and the logical qudit it
\* holds, -1 for none and -2 for the result of a gate on the wrong operands.
After(held, g) ==
    LET in(p) == CHOOSE l \in -2 .. map.n : <<p, l>> \in held
        out(j) == CHOOSE i \in DOMAIN g.post : g.post[i] = j
        result(i) == IF in(g.at[g.pre[i]]) = Of(g.op)[i] THEN Of(g.op)[i] ELSE -2
    IN  IF g.op = 0 THEN {<<IF h[1] = g.at[1] THEN g.at[2] ELSE IF h[1] = g.at[2] THEN g.at[1] ELSE h[1], h[2]>>
                            : h \in held}
        ELSE IF map.circuit[g.op].barrier /\ map.pam THEN held
        ELSE {h \in held : h[1] \notin Range(g.at)} \cup {<<g.at[j], result(out(j))>> : j \in DOMAIN g.at}

Replay(held, g) == UNION {After(h, g) : h \in {held}}

Start == {<<p, IF p \in Range(initialMapping) THEN CHOOSE l \in Logical : initialMapping[l] = p ELSE -1>>
            : p \in Qudits(map.machine)}

\* CalculatePAMErrorsPass rebuilds a block from its tag: a permutation gate,
\* the original, a permutation gate; gate p moves wire p[i] to wire i.
\* Which wire argument i enters at, and which it leaves at:
Rebuilt(tag) ==
    LET first == InverseOf(tag[1])
        last == InverseOf(tag[2])
    IN  <<[i \in DOMAIN first |-> first[i]],
          [i \in DOMAIN last |-> CHOOSE w \in DOMAIN last : last[w] = i]>>

Adjacent(g) == Len(g.at) = 1 \/ Joined(map.machine, Range(g.at))

\* The mapped circuit does what the circuit did: every operation once, those
\* that share a qudit in their order, each on the qudits that hold its
\* operands, all joined on the machine, and the logical qudits end where
\* final_mapping says.  Rebuilt from its tag, a block is what was put there.
\* Left out: where PAM puts a barrier.  The placement and pi never put two
\* qudits on one, a connected machine with room for the circuit does not fail
\* the greedy pass, and PAM has a circuit for every block it comes to when those
\* for all connected graphs were embedded.
Embeddable == \A n \in Ops : LET k == Len(Of(n)) IN
    \A edges \in SUBSET {<<q, r>> \in (0 .. k - 1) \X (0 .. k - 1) : q < r} :
      IsFullyConnected(NewGraph(k, edges, {})) => [n |-> k, edges |-> edges] \in map.embedded
MappedSound ==
    /\ mapping = "unembedded" => ~Embeddable
    /\ mapping = "failed" /\ map.placer = "greedy" => ~IsFullyConnected(map.machine)
    /\ mapping # "idle" => IsInjective(placement) /\ IsInjective(pi)
    /\ mapping = "mapped" =>
      LET gates == SelectSeq(mapped, LAMBDA g : g.op # 0)
          end == FoldLeft(Replay, Start, mapped)
      IN  /\ Range([k \in DOMAIN gates |-> gates[k].op]) = Ops /\ Len(gates) = Len(map.circuit)
          /\ \A j, k \in DOMAIN gates : j < k => gates[k].op \notin Earlier(gates[j].op)
          /\ \A k \in DOMAIN mapped :
               \/ mapped[k].op # 0 /\ (map.circuit[mapped[k].op].barrier \/ map.circuit[mapped[k].op].local)
               \/ Adjacent(mapped[k])
          /\ \A l \in Logical : <<finalMapping[l], l>> \in end
          /\ \A k \in DOMAIN mapped : mapped[k].tag # <<>> =>
               Rebuilt(mapped[k].tag) = <<mapped[k].pre, mapped[k].post>>

\* Every mapping ends: the sweeps do not swap for ever.
MappingEnds == [](mapping # "idle" => <>(mapping \in {"mapped", "failed", "unembedded"}))
=============================================================================
