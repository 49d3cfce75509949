------------------------------- MODULE Graph -------------------------------
(***************************************************************************)
(* CouplingGraph: which qudits of a machine, or of a circuit, interact.    *)
(* The queries the passes ask of it are compared with what they mean on    *)
(* every small graph.  Where the code takes the members of a set in no     *)
(* particular order (a matching, a traversal of the QPUs, a spanning tree) *)
(* the query runs in steps and any order may be taken.                     *)
(***************************************************************************)
EXTENDS Integers, Sequences, FiniteSets, SequencesExt, FiniteSetsExt

CONSTANTS
    MaxQudits,      \* bound on the number of vertices of the graphs asked
    RemoteWeight,   \* default_remote_weight; the other edges weigh 1
    Queries         \* the names of the queries that are asked

VARIABLES
    graph,          \* the coupling graph
    query,          \* the query, "idle" or "done" with it
    work,           \* the local variables of a query that runs in steps
    answer          \* what it returned

graphVars == <<graph, query, work, answer>>

-----------------------------------------------------------------------------
\* CouplingGraph.__init__: edges are kept with the smaller qudit first.
Edge(q, r) == IF q <= r THEN <<q, r>> ELSE <<r, q>>
Pairs(n) == {<<q, r>> \in (0 .. n - 1) \X (0 .. n - 1) : q < r}
Qudits(g) == 0 .. g.n - 1

NewGraph(n, edges, remote) ==
    [n |-> n, edges |-> {Edge(e[1], e[2]) : e \in edges},
     remote |-> {Edge(e[1], e[2]) : e \in remote}]

\* The number of qudits when none is given: one more than the largest seen.
CountOf(edges) == 1 + Max({0} \cup UNION {{e[1], e[2]} : e \in edges})
Inferred(edges) == NewGraph(CountOf(edges), edges, {})

Adj(g, q) == {r \in Qudits(g) : Edge(q, r) \in g.edges}
Degree(g, q) == Cardinality(Adj(g, q))
HasEdge(g, q, r) == <<q, r>> \in g.edges

-----------------------------------------------------------------------------
(* Shapes.                                                                   *)

AllToAll(n) == Inferred(Pairs(n))
Linear(n) == Inferred({<<q, q + 1>> : q \in 0 .. n - 2})
Ring(n) == Inferred({<<q, q + 1>> : q \in 0 .. n - 2} \cup {<<0, n - 1>>})
Star(n) == Inferred({<<0, q>> : q \in 1 .. n - 1})
Grid(rows, columns) ==
    Inferred({<<q, q + 1>> : q \in {q \in 0 .. rows * columns - 1 : q % columns # columns - 1}}
             \cup {<<q, q + columns>> : q \in 0 .. (rows - 1) * columns - 1})

\* get_subgraph: the qudits are renumbered by their place in the location;
\* weights and remote edges are not kept.
Subgraph(g, location) ==
    LET inside == {e \in (DOMAIN location) \X (DOMAIN location) :
                     location[e[2]] \in Adj(g, location[e[1]])}
    IN  NewGraph(Len(location), {<<e[1] - 1, e[2] - 1>> : e \in inside}, {})

-----------------------------------------------------------------------------
(* Connectivity.                                                             *)

\* The closure that both searches from one qudit compute, avoiding some.
Reach(g, start, avoid) ==
    LET ring[k \in 0 .. g.n] ==
          IF k = 0 THEN {start}
          ELSE LET inner == ring[k - 1]
               IN  inner \cup (UNION {Adj(g, q) : q \in inner} \ avoid)
    IN  ring[g.n]

IsFullyConnected(g) == Cardinality(Reach(g, 0, {})) = g.n

IsFullyConnectedWithout(g, q) ==
    Cardinality(Reach(g, IF q = 0 THEN 1 ELSE 0, {q})) = g.n - 1

\* is_linear looks at degrees alone.
IsLinear(g) ==
    /\ g.n >= 2
    /\ \A q \in Qudits(g) : Degree(g, q) \in 1 .. 2
    /\ Cardinality({q \in Qudits(g) : Degree(g, q) = 1}) = 2

\* get_subgraphs_of_size with _location_search: grow from every qudit.
LocationsOf(g, size) ==
    LET grown[k \in 1 .. size] ==
          IF k = 1 THEN {{q} : q \in Qudits(g)}
          ELSE UNION {{path \cup {r} : r \in (UNION {Adj(g, q) : q \in path}) \ path}
                        : path \in grown[k - 1]}
    IN  grown[size]

-----------------------------------------------------------------------------
(* Distances.  Infinity is a number no path adds up to.                      *)

Infinity == RemoteWeight * (MaxQudits + 1) + 1
Weight(g, q, r) ==
    CASE Edge(q, r) \in g.remote -> RemoteWeight
      [] Edge(q, r) \in g.edges \ g.remote -> 1
      [] OTHER -> Infinity
Sum2(a, b) == IF a + b > Infinity THEN Infinity ELSE a + b

\* all_pairs_shortest_path: the in-place loops; the diagonal starts infinite.
AllPairs(g) ==
    LET D[k \in 0 .. g.n] ==
          IF k = 0 THEN [i, j \in Qudits(g) |-> Weight(g, i, j)]
          ELSE [i, j \in Qudits(g) |->
                  Min({D[k - 1][i, j], Sum2(D[k - 1][i, k - 1], D[k - 1][k - 1, j])})]
    IN  D[g.n]

\* get_shortest_path_tree: the first of the nearest unvisited, and a path
\* that is replaced only by a shorter one.  Every edge counts as one.
PathOf(paths, q) == CHOOSE p \in paths : Last(p) = q
Met(paths) == {Last(p) : p \in paths}

Nearest(unvisited, paths) ==
    LET met == unvisited \cap Met(paths)
    IN  Min({q \in met : \A r \in met : Len(PathOf(paths, q)) <= Len(PathOf(paths, r))})

Visit(g, q, unvisited, paths) ==
    LET own == PathOf(paths, q)
        better == {r \in Adj(g, q) \cap unvisited :
                     r \notin Met(paths) \/ Len(own) + 1 < Len(PathOf(paths, r))}
    IN  {p \in paths : Last(p) \notin better} \cup {Append(own, r) : r \in better}

VisitNext(g, tree) ==
    LET q == Nearest(tree.unvisited, tree.paths)
    IN  [unvisited |-> tree.unvisited \ {q}, paths |-> Visit(g, q, tree.unvisited, tree.paths)]

ShortestPathTree(g, source) ==
    LET tree[k \in 0 .. g.n] ==
          IF k = 0 THEN {[unvisited |-> Qudits(g), paths |-> {<<source>>}]}
          ELSE {VisitNext(g, last) : last \in tree[k - 1]}
        paths == UNION {last.paths : last \in tree[g.n]}
    IN  [q \in Qudits(g) |-> PathOf(paths, q)]

-----------------------------------------------------------------------------
(* Embeddings.                                                               *)

Renumberings ==
    [n \in 1 .. MaxQudits + 1 |-> [m \in n .. MaxQudits + 1 |->
       {f \in [0 .. n - 1 -> 0 .. m - 1] : IsInjective(f)}]]
Maps(g, f, h) == \A e \in g.edges : Edge(f[e[1]], f[e[2]]) \in h.edges

IsEmbeddedIn(g, h) ==
    /\ g.n <= h.n
    /\ \A q \in Qudits(g) : \E r \in Qudits(h) : Degree(g, q) <= Degree(h, r)
    /\ \E f \in Renumberings[g.n][h.n] : Maps(g, f, h)

\* MachineModel.is_compatible, as far as the couplings are concerned.
IsCompatible(circuit, placement, machine) ==
    /\ circuit.n <= machine.n
    /\ \A e \in circuit.edges : HasEdge(machine, placement[e[1]], placement[e[2]])

-----------------------------------------------------------------------------
(* Queries that run in steps.                                                *)

\* maximal_matching, over the edges that are not to be ignored.
BeginMatching(ignored) ==
    [ignored |-> ignored, left |-> {e \in graph.edges : <<e[1], e[2]>> \notin ignored /\ <<e[2], e[1]>> \notin ignored},
     matching |-> {}, vertices |-> {}]

MatchEdge ==
    /\ query = "matching" /\ work.left # {}
    /\ \E e \in work.left :
         LET free == {e[1], e[2]} \cap work.vertices = {}
         IN  work' = [work EXCEPT
                        !.left = @ \ {e},
                        !.matching = IF free THEN @ \cup {e} ELSE @,
                        !.vertices = IF free THEN @ \cup {e[1], e[2]} ELSE @]
    /\ UNCHANGED <<graph, query, answer>>

\* get_qpu_to_qudit_map: a search that does not cross the remote edges.
BeginQpus == [qpus |-> <<>>, qpu |-> <<>>, frontier |-> {}, seen |-> {}]
Local(q) == {r \in Adj(graph, q) : Edge(q, r) \notin graph.remote}

OpenQpu ==
    /\ query = "qpus" /\ work.frontier = {} /\ work.seen # Qudits(graph)
    /\ work' = [work EXCEPT !.frontier = {Min(Qudits(graph) \ work.seen)}]
    /\ UNCHANGED <<graph, query, answer>>

PopQpu ==
    /\ query = "qpus" /\ work.frontier # {}
    /\ \E q \in work.frontier :
         LET seen == work.seen \cup {q}
             frontier == (work.frontier \ {q}) \cup (Local(q) \ seen)
             qpu == Append(work.qpu, q)
         IN  work' = [work EXCEPT
                        !.seen = seen, !.frontier = frontier,
                        !.qpu = IF frontier = {} THEN <<>> ELSE qpu,
                        !.qpus = IF frontier = {} THEN Append(@, qpu) ELSE @]
    /\ UNCHANGED <<graph, query, answer>>

\* get_qudit_to_qpu_map returns the values of a dictionary, in the order its
\* keys were put in; get_qpu_connectivity indexes them with qudits.
QuditToQpu(qpus) ==
    FoldLeft(LAMBDA acc, i : acc \o [k \in DOMAIN qpus[i] |-> i - 1], <<>>, [i \in DOMAIN qpus |-> i])
QpuConnectivity(g, qpus, qpuOf) ==
    [p \in 0 .. Len(qpus) - 1 |->
       {r \in 0 .. Len(qpus) - 1 :
          \E e \in g.remote : {qpuOf[e[1] + 1], qpuOf[e[2] + 1]} = {p, r}}]

\* get_rooted_minimum_span: a breadth-first tree, then its edges depth first.
BeginSpan(root) ==
    [root |-> root, tree |-> {}, seen |-> {root}, frontier |-> <<root>>,
     interactions |-> <<>>, walk |-> <<[qudit |-> root, from |-> -1]>>]
Growing == Len(work.frontier) > 0 /\ Cardinality(work.seen) < graph.n

GrowTree ==
    /\ query = "span" /\ Growing
    /\ LET q == Head(work.frontier)
           unseen == Adj(graph, q) \ work.seen
       IN  \E order \in SetToSeqs(unseen) :
             work' = [work EXCEPT
                        !.frontier = Tail(@) \o order,
                        !.seen = @ \cup Adj(graph, q),
                        !.tree = @ \cup {Edge(q, r) : r \in unseen}]
    /\ UNCHANGED <<graph, query, answer>>

WalkTree ==
    /\ query = "span" /\ ~Growing /\ Len(work.walk) > 0
    /\ LET at == Head(work.walk)
           next == Adj(Inferred(work.tree), at.qudit) \ {at.from}
       IN  \E order \in SetToSeqs(next) :
             work' = [work EXCEPT
                        !.interactions = IF at.from = -1 THEN @ ELSE Append(@, <<at.from, at.qudit>>),
                        !.walk = [k \in DOMAIN order |-> [qudit |-> order[k], from |-> at.qudit]] \o Tail(@)]
    /\ UNCHANGED <<graph, query, answer>>

-----------------------------------------------------------------------------
NoWork == [nothing |-> TRUE]

GraphInit ==
    /\ \E n \in 1 .. MaxQudits : \E edges \in SUBSET Pairs(n) :
         \E remote \in {r \in SUBSET edges : Cardinality(r) <= 2} : graph = NewGraph(n, edges, remote)
    /\ query = "ask" /\ work = NoWork /\ answer = NoWork

GraphIdle == graph = AllToAll(1) /\ query = "idle" /\ work = NoWork /\ answer = NoWork

\* Circuits of two gates to be placed on a machine, with a placement.
Circuits(g) ==
    LET n == IF g.n < 3 THEN g.n ELSE 3
    IN  {NewGraph(n, es, {}) : es \in kSubset(IF n = 1 THEN 0 ELSE n - 1, Pairs(n))}
          \X Renumberings[n][g.n]

\* The queries that have an answer only for a connected graph.
NeedConnected == {"tree", "span"}

Ask ==
    /\ query = "ask"
    /\ \E name \in Queries :
         /\ name \in NeedConnected => IsFullyConnected(graph)
         /\ query' = name
         /\ \/ name = "matching" /\ \E ignored \in SUBSET graph.edges : work' = BeginMatching(ignored)
            \/ name = "qpus" /\ work' = BeginQpus
            \/ name = "span" /\ \E root \in Qudits(graph) : work' = BeginSpan(root)
            \/ name \notin {"matching", "qpus", "span"} /\ work' = NoWork
    /\ UNCHANGED <<graph, answer>>

Finished ==
    \/ query = "matching" /\ work.left = {}
    \/ query = "qpus" /\ work.frontier = {} /\ work.seen = Qudits(graph)
    \/ query = "span" /\ ~Growing /\ work.walk = <<>>
    \/ query \in {"distances", "tree", "locations", "without", "subgraph", "shapes", "compatible"}

Answer ==
    CASE query = "matching" -> work.matching
      [] query = "qpus" -> [qpus |-> work.qpus, linked |-> QpuConnectivity(graph, work.qpus, QuditToQpu(work.qpus))]
      [] query = "span" -> work.interactions
      [] query = "distances" -> AllPairs(graph)
      [] query = "tree" -> [s \in Qudits(graph) |-> ShortestPathTree(graph, s)]
      [] query = "locations" -> [k \in 1 .. graph.n |-> LocationsOf(graph, k)]
      [] query = "without" -> {q \in Qudits(graph) : graph.n > 1 /\ IsFullyConnectedWithout(graph, q)}
      [] query = "subgraph" -> {<<l, Subgraph(graph, l)>> : l \in UNION {SetToSeqs(s) : s \in SUBSET Qudits(graph) \ {{}}}}
      [] query = "compatible" -> {<<c, f>> \in Circuits(graph) : IsCompatible(c, f, graph)}
      [] OTHER -> [linear |-> IsLinear(graph), connected |-> IsFullyConnected(graph)]

Reply ==
    /\ Finished
    /\ answer' = [name |-> query, value |-> Answer]
    /\ query' = "done"
    /\ UNCHANGED <<graph, work>>

GraphNext == Ask \/ MatchEdge \/ OpenQpu \/ PopQpu \/ GrowTree \/ WalkTree \/ Reply

-----------------------------------------------------------------------------
(* What the queries mean.                                                    *)

Joined(g, S) ==
    \A A \in (SUBSET S) \ {{}, S} : \E q \in A, r \in S \ A : Edge(q, r) \in g.edges

Trails(g, q, r) ==
    {p \in UNION {SetToSeqs(S) : S \in {S \in SUBSET Qudits(g) : {q, r} \subseteq S}} :
       /\ p[1] = q /\ p[Len(p)] = r
       /\ \A k \in 1 .. Len(p) - 1 : Edge(p[k], p[k + 1]) \in g.edges}
Length(g, p) == FoldLeft(LAMBDA acc, k : acc + Weight(g, p[k], p[k + 1]), 0, [k \in 1 .. Len(p) - 1 |-> k])

DistancesRight(g, D) ==
    \A q, r \in Qudits(g) : q # r =>
      LET trails == Trails(g, q, r)
      IN  D[q, r] = IF trails = {} THEN Infinity ELSE Min({Length(g, p) : p \in trails})

TreesRight(g, trees) ==
    \A q, r \in Qudits(g) :
      /\ trees[q][r] \in Trails(g, q, r)
      /\ \A p \in Trails(g, q, r) : Len(trees[q][r]) <= Len(p)
      /\ q # r => Front(trees[q][r]) \in Range(trees[q])

SpanRight(g, root, edges) ==
    LET reached(k) == {root} \cup {edges[i][2] : i \in 1 .. k}
    IN  /\ reached(Len(edges)) = Qudits(g) /\ Len(edges) = g.n - 1
        /\ \A k \in DOMAIN edges :
             Edge(edges[k][1], edges[k][2]) \in g.edges /\ edges[k][1] \in reached(k - 1)

MatchingRight(g, ignored, matching) ==
    /\ \A e, f \in matching : e = f \/ {e[1], e[2]} \cap {f[1], f[2]} = {}
    /\ \A e \in g.edges : e \in ignored \/ \E f \in matching : {e[1], e[2]} \cap {f[1], f[2]} # {}
    /\ matching \subseteq g.edges \ ignored

InOrder(qpus) == FlattenSeq([i \in DOMAIN qpus |-> SetToSortSeq(Range(qpus[i]), <)]) = [q \in 1 .. graph.n |-> q - 1]

\* The QPUs are what the local edges join.  The connectivity is only right
\* when every QPU is a range of qudits.
QpusRight(g, qpus, linked) ==
    LET chips == NewGraph(g.n, g.edges \ g.remote, {})
        OnChip(q, p) == q \in Range(qpus[p + 1])
    IN  /\ UNION {Range(qpus[p]) : p \in DOMAIN qpus} = Qudits(g)
        /\ \A p, r \in DOMAIN qpus : p # r => Range(qpus[p]) \cap Range(qpus[r]) = {}
        /\ \A p \in DOMAIN qpus : Joined(chips, Range(qpus[p])) /\ IsInjective(qpus[p])
        /\ \A q, r \in Qudits(g) : Edge(q, r) \in chips.edges =>
             \E p \in DOMAIN qpus : {q, r} \subseteq Range(qpus[p])
        /\ InOrder(qpus) =>
             \A p \in DOMAIN linked :
               linked[p] = {r \in DOMAIN linked : \E e \in g.remote :
                              \/ OnChip(e[1], p) /\ OnChip(e[2], r)
                              \/ OnChip(e[2], p) /\ OnChip(e[1], r)}

IsPath(g) ==
    \E p \in SetToSeqs(Qudits(g)) : g.edges = {Edge(p[k], p[k + 1]) : k \in 1 .. g.n - 1}

\* The constructors draw what they are called.
ShapesRight(n) ==
    /\ IsPath(Linear(3)) /\ IsFullyConnected(Linear(n)) /\ AllToAll(n).edges = Pairs(n)
    /\ n >= 3 => \A q \in 0 .. n - 1 : Adj(Ring(n), q) = {(q + 1) % n, (q + n - 1) % n}
    /\ \A q \in 1 .. n - 1 : Adj(Star(n), q) = {0}
    /\ \A c \in 1 .. 3 : \A q, r \in 0 .. n * c - 1 :
         r \in Adj(Grid(n, c), q) <=>
           \/ q \div c = r \div c /\ q - r \in {-1, 1}
           \/ q % c = r % c /\ q \div c - r \div c \in {-1, 1}

\* Compatible circuits are: every pair that interacts is placed on an edge.
Compatible(c, f) == \A e \in c.edges : Edge(f[e[1]], f[e[2]]) \in graph.edges

\* Every query of a coupling graph answers what its name says: distances and
\* shortest paths are shortest, the locations of a size are the connected sets
\* of that size, a matching is maximal, the edges of a span join each qudit to
\* one already joined, the QPUs are the parts the local edges join.
GraphSound ==
    query = "done" =>
      LET v == answer.value
      IN  CASE answer.name = "distances" -> DistancesRight(graph, v)
            [] answer.name = "tree" -> TreesRight(graph, v)
            [] answer.name = "locations" ->
                 \A k \in DOMAIN v : v[k] = {S \in kSubset(k, Qudits(graph)) : Joined(graph, S)}
            [] answer.name = "without" ->
                 v = {q \in Qudits(graph) : graph.n > 1 /\ Joined(graph, Qudits(graph) \ {q})}
            [] answer.name = "subgraph" ->
                 \A s \in v : \A i, j \in DOMAIN s[1] : i # j =>
                   (Edge(i - 1, j - 1) \in s[2].edges <=> Edge(s[1][i], s[1][j]) \in graph.edges)
            [] answer.name = "matching" ->
                 MatchingRight(graph, work.ignored, v)
            [] answer.name = "span" -> SpanRight(graph, work.root, v)
            [] answer.name = "qpus" -> QpusRight(graph, v.qpus, v.linked)
            [] answer.name = "compatible" ->
                 /\ \A cf \in v : Compatible(cf[1], cf[2])
                 /\ \A cf \in Circuits(graph) : (\A q, r \in DOMAIN cf[2] : q < r => cf[2][q] < cf[2][r])
                      => (Compatible(cf[1], cf[2]) => cf \in v)
            [] OTHER -> /\ ShapesRight(graph.n)
                        /\ v.connected = Joined(graph, Qudits(graph))
                        /\ v.connected => (v.linear <=> (graph.n >= 2 /\ IsPath(graph)))
=============================================================================
