------------------------------ MODULE MCCompile ------------------------------
(***************************************************************************)
(* Calls of compile() and circuits with blocks to check.  A behaviour is a *)
(* call or one ForEachBlockPass: the variables of the other are idle.      *)
(***************************************************************************)
EXTENDS Compile, Blocks

Line(ones) ==
    [width |-> 3, sizes |-> {2}, ones |-> ones, graph |-> "model", links |-> "model", registered |-> "none"]
Known(name) == [Line("zx") EXCEPT !.registered = name]

Foreign(s) == Kind(s, FALSE, FALSE)
Input(kind, width, kinds, count) == [kind |-> kind, circuit |-> Circ(width, kinds, count, 1, FALSE)]
Measured(x) == [x EXCEPT !.circuit.measured = 0]

Pair == Input("circuit", 2, {Foreign(2)}, 2)
Triple == Input("circuit", 3, {Foreign(2), Foreign(3)}, 2)
Lone == Input("circuit", 1, {}, 0)
Target(kind, n) == Input(kind, n, {}, 0)

Call(x, m, level) ==
    [inputs |-> <<x>>, list |-> FALSE, machine |-> m, level |-> level, size |-> 3, threshold |-> FALSE,
     tight |-> FALSE, sim |-> 8, seed |-> FALSE, managed |-> FALSE]
Within(c, sim) == [c EXCEPT !.threshold = TRUE, !.sim = sim]

MCCalls ==
    {[Call(Measured(Pair), Line("zx"), 1) EXCEPT !.seed = TRUE, !.managed = TRUE],
     [Call(Pair, Line("rotations"), 1) EXCEPT !.inputs = <<Lone, Pair>>, !.list = TRUE],
     Call(Triple, Line("general"), 1), Within(Call(Pair, Line("general"), 2), 3), Within(Call(Pair, Line("constant"), 2), 4),
     Call(Pair, Line("none"), 1),
     Call(Pair, Line("zx"), 3), Call(Pair, NoMachine, 3),
     Within(Call(Measured(Pair), Line("zx"), 4), 4), Call(Lone, Line("zx"), 4),
     Call(Target("unitary", 2), Line("zx"), 1), Call(Target("unitary", 1), Line("zx"), 2),
     Call(Target("unitary", 3), NoMachine, 4), Call(Target("state", 2), Line("zx"), 1),
     Call(Target("system", 2), Line("zx"), 4),
     Call(Pair, Known("decide"), 1), Call(Pair, Known("parallel"), 1), Call(Pair, Known("tools"), 1),
     Call(Pair, Known("unprepared"), 1)}
    \cup {[Call(Pair, Line("zx"), 1) EXCEPT !.size = 1], Call(Lone, Line("none"), 1), Call(Lone, Line("none"), 5),
          Call(Pair, [Line("zx") EXCEPT !.width = 1], 2), Within(Call(Pair, Line("zx"), 4), 3)}

\* A machine of many-qudit gates, for the connectivity that is taken away.
MCManyQudits == {Call(Pair, [Line("zx") EXCEPT !.sizes = {2, 3}], 1)}

Shape(foreign, pairs, counts) == [foreign |-> foreign, pairs |-> pairs, counts |-> counts]
Ladder == Shape({}, {<<0, 1>>, <<1, 2>>}, <<0, 4, 2>>)
Short == Shape({}, {<<0, 1>>}, <<0, 3, 1>>)
Triangle == Shape({}, {<<0, 1>>, <<1, 2>>, <<0, 2>>}, <<0, 3, 1>>)
Raw == Shape({"multi", "single"}, {<<0, 1>>}, <<1, 1, 1>>)

Op(gate, location, circuit_) == [gate |-> gate, location |-> location, circuit |-> circuit_]
Answers(circuits) == [i \in DOMAIN circuits |-> [circuit |-> circuits[i], error |-> i]]
Filter(mode, count) == [mode |-> mode, count |-> count]

BlocksJob(filter, answers) ==
    [model |-> {<<0, 1>>, <<1, 2>>, <<2, 3>>},
     ops |-> <<Op("circuit", <<0, 1, 2>>, Ladder), Op("gate", <<3>>, NoCircuit), Op("circuit", <<1, 2, 3>>, Triangle),
               Op("constant", <<2, 3>>, NoCircuit), Op("circuit", <<1, 0>>, Raw)>>,
     filter |-> filter, answers |-> Answers(answers), shared |-> "given", specific |-> [i \in {1, 3} |-> i]]

MCBlockJobs ==
    {BlocksJob(Filter(mode, count), answers) :
        mode \in {"always", "plain", "respecting", "fully"}, count \in {"all", "multi", "many"},
        answers \in {<<Short, Ladder, Short, Short>>, <<Triangle, Triangle, Raw, Short>>,
                     <<Raw, Short, Short, Ladder>>, <<Ladder, Ladder, Short, Raw>>}}
    \cup {[BlocksJob(Filter("always", "all"), <<>>) EXCEPT !.ops = <<Op("gate", <<3>>, NoCircuit)>>]}

MCNone == {}

Init ==
    \/ CompileInit /\ BlocksIdle
    \/ CompileIdle /\ BlocksInit

Ended ==
    /\ phase \in {"idle", "returned", "raised"} /\ stage \in {"idle", "replaced", "nothing"}
    /\ UNCHANGED <<compileVars, blocksVars>>

Next ==
    \/ phase # "idle" /\ CompileNext /\ UNCHANGED blocksVars
    \/ stage # "idle" /\ BlocksNext /\ UNCHANGED compileVars
    \/ Ended

Spec == Init /\ [][Next]_<<compileVars, blocksVars>> /\ WF_compileVars(CompileNext)
=============================================================================
