------------------------------ MODULE Topology ------------------------------
(***************************************************************************)
(* SubtopologySelectionPass: which connected graphs of a block's size the  *)
(* machine contains.  The candidates are kept in a GraphDAG, a node for    *)
(* every class of isomorphic graphs under those it can be embedded in, so  *)
(* that one embedding that is found settles the graphs below it.           *)
(***************************************************************************)
EXTENDS Graph

CONSTANTS
    Machines,       \* coupling graphs
    BlockSizes      \* sizes of the blocks, 2 or more

VARIABLES
    machine, size,
    candidates,     \* the graphs of that size, fewest edges first
    graphList,      \* GraphDAG.graph_list
    nodes,          \* the nodes in the order they came
    leafs,          \* GraphDAG.leafs
    inserting,      \* which insertion it is; the last is of the root again
    toCheck,        \* nodes_to_check of that insertion, <<0>> for a new one
    indices,        \* <<what get_embedded_indices returned>>
    selected        \* <<what filter_compatible_subgraphs returned>>

topologyVars == <<machine, size, candidates, graphList, nodes, leafs, inserting,
                  toCheck, indices, selected>>

None == <<>>
Fresh == <<0>>

\* all_coupling_graphs_of_size: every qudit added may be joined to any before.
AllCouplingGraphs(n) ==
    LET extended[k \in 2 .. n] ==
          IF k = 2 THEN {{}, {<<0, 1>>}}
          ELSE {edges \cup {<<q, k - 1>> : q \in joined} :
                  edges \in extended[k - 1], joined \in SUBSET (0 .. k - 2)}
    IN  {g \in {NewGraph(n, edges, {}) : edges \in extended[n]} : IsFullyConnected(g)}

\* sorted by the number of edges; ties in some fixed order.
Code(g) == SumSet({2 ^ (5 * e[1] + e[2]) : e \in g.edges})
Sparser(g, h) ==
    \/ Cardinality(g.edges) < Cardinality(h.edges)
    \/ Cardinality(g.edges) = Cardinality(h.edges) /\ Code(g) < Code(h)
Sorted(graphs) ==
    [k \in 1 .. Cardinality(graphs) |->
       CHOOSE g \in graphs : Cardinality({h \in graphs : Sparser(h, g)}) = k - 1]

\* GraphDAG.__init__: an empty graph is the root of all.
Rooted(graphs) == IF graphs[1].edges = {} THEN graphs ELSE <<Inferred({})>> \o graphs

InducedSubgraphs(g, n) ==
    {Subgraph(g, CHOOSE l \in SetToSeqs(L) : TRUE) : L \in LocationsOf(g, n)}

TopologyIdle ==
    /\ machine = AllToAll(1) /\ size = 0 /\ candidates = None /\ graphList = None
    /\ nodes = None /\ leafs = None /\ inserting = 0 /\ toCheck = None
    /\ indices = None /\ selected = None

TopologyInit ==
    /\ machine \in Machines
    /\ size \in {n \in BlockSizes : n <= machine.n}
    /\ \E all \in {AllCouplingGraphs(size)} : candidates = Sorted(all)
    /\ graphList = Rooted(candidates)
    /\ nodes = None /\ leafs = None /\ inserting = 1 /\ toCheck = Fresh
    /\ indices = None /\ selected = None

Peek(node) == graphList[node.indices[1]]

\* The node of this graph, once some other has been linked to it.
Own == {k \in DOMAIN nodes : nodes[k].indices[1] = inserting}
Linked == Own # {}

RECURSIVE PathTo(_, _)
PathTo(k, goal) == k = goal \/ \E s \in Range(nodes[k].successors) : PathTo(s, goal)

\* Every graph is inserted, and the first once more.
Inserting == graphList # None /\ inserting <= Len(graphList) + 1
Inserted == IF inserting \in DOMAIN graphList THEN inserting ELSE 1

Step == inserting' = inserting + 1 /\ toCheck' = Fresh
KeepTopology == UNCHANGED <<machine, size, candidates, graphList, indices, selected>>
NewNode == [indices |-> <<Inserted>>, predecessors |-> <<>>, successors |-> <<>>]

InsertRoot ==
    /\ Inserting /\ nodes = None
    /\ nodes' = <<NewNode>> /\ leafs' = <<1>>
    /\ Step /\ KeepTopology

BeginInsert ==
    /\ Inserting /\ nodes # None /\ toCheck = Fresh
    /\ toCheck' = leafs
    /\ UNCHANGED <<nodes, leafs, inserting>> /\ KeepTopology

Other == nodes[Head(toCheck)]
Checking == Inserting /\ toCheck \notin {Fresh, <<>>}

\* How the graph being inserted compares with the node that is looked at.
Compared ==
    IF ~IsEmbeddedIn(Peek(Other), graphList[Inserted]) THEN "outside"
    ELSE IF IsEmbeddedIn(graphList[Inserted], Peek(Other)) THEN "same" ELSE "above"

JoinClass ==
    /\ Checking /\ Compared = "same"
    /\ nodes' = [nodes EXCEPT ![Head(toCheck)].indices = Append(@, Inserted)]
    /\ UNCHANGED leafs
    /\ Step /\ KeepTopology

LinkBelow ==
    /\ Checking /\ Compared = "above"
    /\ LET k == Head(toCheck)
           own == IF Linked THEN CHOOSE o \in Own : TRUE ELSE Len(nodes) + 1
           all == IF Linked THEN nodes ELSE Append(nodes, NewNode)
           known == Linked /\ PathTo(k, own)
           rest == SelectSeq(leafs, LAMBDA l : l # k)
       IN  /\ nodes' = IF known THEN all
                       ELSE [all EXCEPT ![k].successors = Append(@, own),
                                        ![own].predecessors = Append(@, k)]
           /\ leafs' = IF own \in Range(rest) THEN rest ELSE Append(rest, own)
    /\ toCheck' = Tail(toCheck)
    /\ UNCHANGED inserting /\ KeepTopology

\* Mutant of LookBehind: only the leafs are compared with a new graph.
LookBehind_Leafs ==
    /\ Checking /\ Compared = "outside"
    /\ toCheck' = Tail(toCheck)
    /\ UNCHANGED <<nodes, leafs, inserting>> /\ KeepTopology

LookBehind ==
    /\ Checking /\ Compared = "outside"
    /\ toCheck' = Tail(toCheck) \o Other.predecessors
    /\ UNCHANGED <<nodes, leafs, inserting>> /\ KeepTopology

EndInsert ==
    /\ Inserting /\ toCheck = <<>>
    /\ UNCHANGED <<nodes, leafs>>
    /\ Step /\ KeepTopology

-----------------------------------------------------------------------------
\* get_embedded_indices, one graph after the other, those with most edges first:
\* from the leafs down; what is found settles what lies behind it.  A state is
\* what has been found and the predecessors of every node, for the walk behind a
\* node appends what it passes to that node's own list.
Hits(k, g) == IsEmbeddedIn(Peek(nodes[k]), g)
Known(s, k) == nodes[k].indices[1] \in s.found
Found(s, k) == [s EXCEPT !.found = @ \cup Range(nodes[k].indices)]

RECURSIVE Behind(_, _, _)
Behind(s, k, i) ==
    IF i > Len(s.preds[k]) THEN s
    ELSE LET p == s.preds[k][i] IN
         IF Known(s, p) THEN Behind(s, k, i + 1)
         ELSE Behind([Found(s, p) EXCEPT !.preds[k] = @ \o s.preds[p]], k, i + 1)

RECURSIVE Settled(_, _, _)
Settled(s, asked, g) ==
    IF asked = <<>> THEN s
    ELSE LET k == Head(asked) IN
         IF ~Hits(k, g) THEN Settled(s, Tail(asked) \o s.preds[k], g)
         ELSE IF Known(s, k) THEN Settled(s, Tail(asked), g)
         ELSE Settled(Behind(Found(s, k), k, 1), Tail(asked), g)

RECURSIVE EmbeddedIndices(_, _)
EmbeddedIndices(s, graphs) ==
    IF graphs = {} THEN s
    ELSE LET g == CHOOSE g \in graphs : \A h \in graphs : h = g \/ Sparser(h, g) IN
         EmbeddedIndices(Settled(s, leafs, g), graphs \ {g})

Lookup ==
    /\ graphList # None /\ ~Inserting /\ indices = None
    /\ LET s == EmbeddedIndices([found |-> {}, preds |-> [k \in DOMAIN nodes |-> nodes[k].predecessors]],
                                InducedSubgraphs(machine, size))
       IN  /\ indices' = <<s.found>>
           /\ nodes' = [k \in DOMAIN nodes |-> [nodes[k] EXCEPT !.predecessors = s.preds[k]]]
    /\ UNCHANGED <<machine, size, candidates, graphList, leafs, inserting, toCheck, selected>>

\* filter_compatible_subgraphs indexes the candidates with what are indices
\* of graphList; a machine with every edge needs no filter.
Filtered == {candidates[i] : i \in indices[1] \cap DOMAIN candidates}

Select ==
    /\ indices # None /\ selected = None
    /\ selected' = <<IF machine.edges = Pairs(machine.n) THEN {AllToAll(size)}
                     ELSE {g \in Filtered : g.edges # {}}>>
    /\ UNCHANGED <<machine, size, candidates, graphList, nodes, leafs, inserting, toCheck, indices>>

TopologyNext ==
    \/ InsertRoot \/ BeginInsert \/ JoinClass \/ LinkBelow \/ LookBehind \/ EndInsert
    \/ Lookup \/ Select

-----------------------------------------------------------------------------
\* A predecessor is embedded in a node and leads to it, before and after a
\* lookup has lengthened its list; no two nodes are of isomorphic graphs; and what
\* the DAG answers is what asking for every graph would.
Isomorphic(g, h) == IsEmbeddedIn(g, h) /\ IsEmbeddedIn(h, g)
TopologySound ==
    graphList # None /\ ~Inserting =>
    /\ \A k \in DOMAIN nodes : \A p \in Range(nodes[k].predecessors) :
         IsEmbeddedIn(Peek(nodes[p]), Peek(nodes[k])) /\ PathTo(p, k)
    /\ \A j, k \in DOMAIN nodes : Isomorphic(Peek(nodes[j]), Peek(nodes[k])) => j = k
    /\ indices # None =>
         indices[1] = {i \in DOMAIN graphList :
                      \E g \in InducedSubgraphs(machine, size) : IsEmbeddedIn(graphList[i], g)}

\* What a machine's graph is asked and what a GraphDAG concludes agree with
\* the definitions: a wrong distance, location or embedding would send every
\* later mapping astray.
ShapesSound == GraphSound /\ TopologySound

\* Not so in the code, nor checked with the rest: the pass selects the graphs of
\* the size that the machine has (topology.py:207, "A list of coupling graphs that are both in the
\* `candidate_subgraphs` list and the `machine`'s CouplingGraph").
SelectedFit ==
    selected # None =>
      \A s \in selected[1] : \E g \in InducedSubgraphs(machine, size) : IsEmbeddedIn(s, g)
=============================================================================
