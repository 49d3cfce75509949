----------------------------- MODULE MCMapping -----------------------------
(* Coupling graphs, topology selection, embedding and mapping.  A behaviour  *)
(* is one of them: the variables of the other modules are idle.              *)
EXTENDS Topology, Embed, Mapping

MCMachines ==
    {Linear(4), Ring(5), Star(4), AllToAll(4), Grid(2, 2),
     NewGraph(5, {<<0, 1>>, <<1, 2>>, <<0, 2>>, <<2, 3>>, <<3, 4>>}, {})}

On(qudits) == [qudits |-> qudits, barrier |-> FALSE, local |-> FALSE]
Barrier(qudits) == [qudits |-> qudits, barrier |-> TRUE, local |-> FALSE]
Local1(qudits) == [qudits |-> qudits, barrier |-> FALSE, local |-> TRUE]

\* Every connected graph on one to three qudits.
MCEmbedded ==
    {[n |-> 1, edges |-> {}], [n |-> 2, edges |-> {<<0, 1>>}]}
      \cup {[n |-> 3, edges |-> edges] :
               edges \in {E \in SUBSET {<<0, 1>>, <<0, 2>>, <<1, 2>>} : Cardinality(E) >= 2}}

Job ==
    [machine |-> Linear(4), n |-> 4,
     circuit |-> <<On(<<0, 3>>), On(<<1, 2>>), On(<<0, 2>>), On(<<1>>), Barrier(<<0, 1, 2>>), On(<<1, 3>>)>>,
     embedded |-> MCEmbedded, placer |-> "trivial", pam |-> FALSE, layout |-> FALSE,
     resetOnGate |-> TRUE]

MCMapJobs ==
    {Job, [Job EXCEPT !.layout = TRUE],
     [Job EXCEPT !.placer = "greedy", !.machine = Star(5)],
     [Job EXCEPT !.pam = TRUE],
     [Job EXCEPT !.circuit = <<On(<<0, 2>>), Local1(<<0, 3>>), On(<<0, 3>>)>>],
     [Job EXCEPT !.pam = TRUE, !.circuit = <<On(<<0, 2>>), Local1(<<0, 3>>), On(<<0, 3>>)>>],
     [Job EXCEPT !.pam = TRUE, !.n = 3, !.circuit = <<On(<<0, 1>>), On(<<0, 1, 2>>)>>,
                 !.embedded = {[n |-> 2, edges |-> {<<0, 1>>}]}],
     [Job EXCEPT !.pam = TRUE, !.layout = TRUE, !.n = 3, !.placer = "static",
                 !.circuit = <<On(<<0, 1>>), On(<<1, 2>>), On(<<0, 2>>)>>],
     [Job EXCEPT !.layout = TRUE, !.resetOnGate = FALSE, !.machine = Ring(4), !.placer = "static",
                 !.circuit = <<On(<<0, 1, 3>>), On(<<0, 2>>), On(<<1, 2, 3>>)>>],
     [Job EXCEPT !.machine = Ring(5), !.placer = "static",
                 !.circuit = <<On(<<0, 3>>), On(<<2, 3>>), On(<<0, 3>>)>>],
     [Job EXCEPT !.machine = Linear(5), !.n = 5, !.circuit = <<On(<<0, 4>>), On(<<2, 3>>), On(<<0, 2, 3>>)>>],
     [Job EXCEPT !.machine = NewGraph(4, {<<0, 3>>, <<3, 1>>}, {}), !.placer = "greedy"],
     [Job EXCEPT !.machine = NewGraph(4, {<<0, 3>>, <<3, 1>>}, {}), !.placer = "static", !.n = 3,
                 !.circuit = <<On(<<0, 1>>), On(<<1, 2>>), On(<<0, 2>>)>>]}

Block(width, graphs) ==
    [width |-> width, input |-> FALSE, output |-> TRUE, graphs |-> graphs, native |-> TRUE,
     original |-> [edges |-> Linear(width).edges, score |-> 1]]

MCEmbedJobs ==
    {Block(3, <<Linear(3).edges>>), [Block(2, <<Linear(2).edges>>) EXCEPT !.input = TRUE],
     [Block(2, <<Linear(2).edges>>) EXCEPT !.native = FALSE],
     [Block(3, <<Linear(3).edges, {<<0, 1>>, <<0, 2>>}>>) EXCEPT !.output = FALSE]}

MCNone == {}

mappingVars == <<graphVars, topologyVars, embedVars, mapVars>>

Init ==
    \/ GraphInit /\ TopologyIdle /\ EmbedIdle /\ MapIdle
    \/ GraphIdle /\ TopologyInit /\ EmbedIdle /\ MapIdle
    \/ GraphIdle /\ TopologyIdle /\ EmbedInit /\ MapIdle
    \/ GraphIdle /\ TopologyIdle /\ EmbedIdle /\ MapInit

Ended ==
    /\ query \in {"idle", "done"} /\ (selected # None \/ graphList = None)
    /\ stored = -1 \/ EmbedDone
    /\ mapping \in {"idle", "mapped", "failed", "unembedded"}
    /\ UNCHANGED mappingVars

Next ==
    \/ query # "idle" /\ GraphNext /\ UNCHANGED <<topologyVars, embedVars, mapVars>>
    \/ graphList # None /\ TopologyNext /\ UNCHANGED <<graphVars, embedVars, mapVars>>
    \/ stored >= 0 /\ EmbedNext /\ UNCHANGED <<graphVars, topologyVars, mapVars>>
    \/ mapping # "idle" /\ MapNext /\ UNCHANGED <<graphVars, topologyVars, embedVars>>
    \/ Ended

Spec == Init /\ [][Next]_mappingVars /\ WF_mapVars(MapNext)
=============================================================================
