-------------------------------- MODULE Flow --------------------------------
(***************************************************************************)
(* Workflows: what a sequence of passes does to the circuit and to the     *)
(* PassData it is given.  A pass of the control package (if, while, decide,*)
(* parallel, for each block) puts passes in front of those that remain or  *)
(* opens a frame of its own; every other pass is one action.               *)
(*                                                                         *)
(* A circuit is followed by the kinds of its multi-qudit gates (how many   *)
(* qudits, native to the machine or not, on qudits the machine couples or  *)
(* not), how many multi- and single-qudit gates it has, and its blocks,    *)
(* which are circuits.  start and end count the passes that moved its      *)
(* first and its last wires; initial and final in the data count those the *)
(* data was told of.  A numerical pass returns any circuit of its shape.   *)
(***************************************************************************)
EXTENDS Integers, Sequences, FiniteSets, SequencesExt

CONSTANTS
    MaxGates,       \* multi-qudit gates of a circuit are counted up to this many
    MaxSingles      \* ... and its single-qudit gates up to this many

ASSUME FlowAssumption == MaxGates \in Nat \ {0} /\ MaxSingles \in Nat \ {0}

VARIABLES
    frames,         \* the workflows that run, the innermost last
    failed          \* the pass that raised an error, or "none"

flowVars == <<frames, failed>>

Least(a, b) == IF a < b THEN a ELSE b
Kind(size, native, coupled) == [size |-> size, native |-> native, coupled |-> coupled]

Circ(width, kinds, count, sq, plain) ==
    [width |-> width, kinds |-> kinds, count |-> count, sq |-> sq, plain |-> plain, blocks |-> <<>>,
     sorted |-> TRUE, off |-> {}, changed |-> FALSE, start |-> 0, end |-> 0, measured |-> -1]

\* A MachineModel; links tells the hardware, graph what the model's coupling graph says of it.
DefaultMachine(width) ==
    [width |-> width, sizes |-> {2}, ones |-> "general", graph |-> "all", links |-> "all", registered |-> "none"]

\* PassData of a circuit.
PassData(c) ==
    [machine |-> DefaultMachine(c.width), kept |-> "none", placed |-> "home", initial |-> 0, final |-> 0,
     known |-> c.width, hash |-> FALSE, count |-> -1, error |-> FALSE, calc |-> FALSE, meas |-> -1,
     seed |-> FALSE, target |-> c.width, perms |-> "none", routed |-> FALSE, tops |-> FALSE]

\* PassData.become: everything but initial_mapping and final_mapping.
Become(d, other) == [other EXCEPT !.initial = d.initial, !.final = d.final, !.known = d.known]

RECURSIVE Sum(_)
Sum(s) == IF s = <<>> THEN 0 ELSE Head(s) + Sum(Tail(s))

RECURSIVE Flat(_)
Flat(c) ==
    LET inner == [i \in DOMAIN c.blocks |-> Flat(c.blocks[i])]
        all == {inner[i] : i \in DOMAIN inner}
    IN  [c EXCEPT !.kinds = @ \cup UNION {b.kinds : b \in all},
                  !.count = Least(MaxGates, @ + Sum([i \in DOMAIN inner |-> inner[i].count])),
                  !.sq = Least(MaxSingles, @ + Sum([i \in DOMAIN inner |-> inner[i].sq])),
                  !.plain = (c.sq = 0 \/ c.plain) /\ \A b \in all : b.sq = 0 \/ b.plain,
                  !.blocks = <<>>]

----------------------------------------------------------------------------
\* The passes.

Leaf(op) == [op |-> op]
Sized(op, n) == [op |-> op, n |-> n]
IfElse(test, then, else) == [op |-> "If", test |-> test, then |-> then, else |-> else]
If(test, then) == IfElse(test, then, <<>>)
While(test, body) == [op |-> "While", test |-> test, body |-> body]
DoWhile(test, body) == [op |-> "DoWhile", test |-> test, body |-> body]
Decide(body) == [op |-> "Decide", body |-> body]
Parallel(bodies) == [op |-> "Parallel", bodies |-> bodies]
ForEach(body, calc, filter) == [op |-> "ForEach", body |-> body, calc |-> calc, filter |-> filter]

Is(name) == [is |-> name]
Narrower(n) == [is |-> "Width", n |-> n]
Not(p) == [is |-> "Not", of |-> p]
And(p, q) == [is |-> "And", p |-> p, q |-> q]
Or(p, q) == [is |-> "Or", p |-> p, q |-> q]

Top == Last(frames)
pass == Head(Top.todo)
circuit == Top.circuit
data == Top.data

\* The coupling graph is asked for (location[a], location[b]) in the order of the gate and by the
\* numbers of the circuit: the answer is the right one only for sorted locations placed at home.
Told(c, d, sorted) ==
    IF d.machine.graph = "all" \/ c.count = 0 THEN {TRUE}
    ELSE IF d.placed = "home" /\ sorted /\ \A k \in c.kinds : k.coupled THEN {TRUE}
    ELSE BOOLEAN

NativeMulti(c) == c.blocks = <<>> /\ \A k \in c.kinds : k.native
NativeSingle(c) == (c.sq = 0 \/ c.plain) /\ \A i \in DOMAIN c.blocks : c.blocks[i].width > 1

MultiPhysicalPredicate(c, d) == {NativeMulti(c)}
SinglePhysicalPredicate(c, d) == {NativeSingle(c)}
NoSingleQuditGatesInModel(c, d) == {d.machine.ones = "none"}
HasGeneralSingleQuditGate(c, d) == {d.machine.ones = "general"}
ZXGatePredicate(c, d) == {d.machine.ones = "zx"}
AllConstantSingleQuditGates(c, d) == {d.machine.ones \in {"none", "constant"}}
WidthPredicate(c, d, n) == {c.width < n}
ManyQuditGatesPredicate(c, d) == {(\E k \in Flat(c).kinds : k.size > 2) \/ \E s \in d.machine.sizes : s > 2}
PhysicalPredicate(c, d) ==
    {c.width <= d.machine.width /\ NativeMulti(c) /\ NativeSingle(c) /\ told : told \in Told(c, d, FALSE)}
DistributedPredicate(c, d) == {d.machine.links = "distributed"}
DiagonalPredicate(c, d) == BOOLEAN

\* ChangePredicate and GateCountPredicate remember what they saw under one key of the data each.
ChangePredicate(c, d) == {~d.hash \/ c.changed}
GateCountPredicate(c, d) == {d.count # c.count}

RECURSIVE Truth(_, _, _)
Truth(p, c, d) ==
    CASE p.is = "Not" -> {~b : b \in Truth(p.of, c, d)}
      [] p.is = "And" -> {a /\ b : a \in Truth(p.p, c, d), b \in Truth(p.q, c, d)}
      [] p.is = "Or" -> {a \/ b : a \in Truth(p.p, c, d), b \in Truth(p.q, c, d)}
      [] p.is = "Width" -> WidthPredicate(c, d, p.n)
      [] p.is = "MultiPhysical" -> MultiPhysicalPredicate(c, d)
      [] p.is = "SinglePhysical" -> SinglePhysicalPredicate(c, d)
      [] p.is = "NoSingle" -> NoSingleQuditGatesInModel(c, d)
      [] p.is = "General" -> HasGeneralSingleQuditGate(c, d)
      [] p.is = "ZX" -> ZXGatePredicate(c, d)
      [] p.is = "Constant" -> AllConstantSingleQuditGates(c, d)
      [] p.is = "Many" -> ManyQuditGatesPredicate(c, d)
      [] p.is = "Physical" -> PhysicalPredicate(c, d)
      [] p.is = "Distributed" -> DistributedPredicate(c, d)
      [] p.is = "Diagonal" -> DiagonalPredicate(c, d)
      [] p.is = "Change" -> ChangePredicate(c, d)
      [] p.is = "Count" -> GateCountPredicate(c, d)

\* Mutant of Asked: the loop's predicate forgets the count it saw.
Asked_Forgets(p, c, d) == IF p.is = "Change" THEN [d EXCEPT !.hash = TRUE] ELSE d

\* What a call of the predicate leaves in the data.
Asked(p, c, d) ==
    CASE p.is = "Change" -> [d EXCEPT !.hash = TRUE]
      [] p.is = "Count" -> [d EXCEPT !.count = c.count]
      [] OTHER -> d
Seen(p, c) == IF p.is = "Change" THEN [c EXCEPT !.changed = FALSE] ELSE c

----------------------------------------------------------------------------
\* Workflow.run and the control passes.

Running(op) == failed = "none" /\ frames # <<>> /\ Top.todo # <<>> /\ pass.op = op
PutTop(f) == frames' = Append(Front(frames), f) /\ UNCHANGED failed
Return(c, d) == PutTop([Top EXCEPT !.todo = Tail(@), !.circuit = c, !.data = d])
Raise == failed' = pass.op /\ UNCHANGED frames
Replace(todo) == PutTop([Top EXCEPT !.todo = todo \o Tail(@)])

IfThenElsePass ==
    /\ Running("If")
    /\ \E b \in Truth(pass.test, circuit, data) : Replace(IF b THEN pass.then ELSE pass.else)

WhileLoopPass ==
    /\ Running("While")
    /\ \E b \in Truth(pass.test, circuit, data) :
          PutTop([Top EXCEPT !.todo = (IF b THEN Append(pass.body, pass) ELSE <<>>) \o Tail(@),
                             !.circuit = Seen(pass.test, @), !.data = Asked(pass.test, circuit, @)])

DoWhileLoopPass == Running("DoWhile") /\ Replace(Append(pass.body, While(pass.test, pass.body)))

DoThenDecide ==
    /\ Running("Decide")
    /\ Replace(Append(pass.body, [op |-> "Judge", circuit |-> circuit, data |-> data]))

Judge ==
    /\ Running("Judge")
    /\ \/ Return(circuit, data)
       \/ Return(pass.circuit, Become(data, pass.data))

Work(todo, c, d) == [todo |-> todo, circuit |-> c, data |-> d, results |-> <<>>]

ParallelDo ==
    /\ Running("Parallel")
    /\ Replace(<<[op |-> "Pick",
                  work |-> [i \in DOMAIN pass.bodies |-> Work(pass.bodies[i], circuit, data)]]>>)

\* The one that came first, or the best of all by the caller's less_than: any of them.
Pick ==
    /\ Running("Pick") /\ Len(Top.results) = Len(pass.work)
    /\ \E i \in DOMAIN Top.results :
          PutTop([Top EXCEPT !.todo = Tail(@), !.results = <<>>, !.circuit = Top.results[i].circuit,
                             !.data = Become(@, Top.results[i].data)])

\* A block on its own: its circuit, its part of the model, what is passed down.
BlockData(c, d, calc) ==
    [PassData(c) EXCEPT !.machine = [d.machine EXCEPT !.width = c.width], !.calc = calc, !.seed = d.seed,
                        !.tops = d.tops]
BlockOf(c) == [c EXCEPT !.off = {}, !.changed = FALSE, !.start = 0, !.end = 0, !.measured = -1]

ForEachBlockPass ==
    /\ Running("ForEach")
    /\ IF circuit.blocks = <<>> THEN Return(circuit, [data EXCEPT !.perms = "empty"])
       ELSE Replace(<<[op |-> "Gather", filter |-> pass.filter,
                       work |-> [i \in DOMAIN circuit.blocks |->
                                   LET b == BlockOf(circuit.blocks[i])
                                   IN  Work(pass.body, b, BlockData(b, data, pass.calc))]]>>)

Spawn ==
    /\ failed = "none" /\ frames # <<>> /\ Top.todo # <<>> /\ pass.op \in {"Gather", "Pick"}
    /\ Len(Top.results) < Len(pass.work)
    /\ frames' = Append(frames, pass.work[Len(Top.results) + 1])
    /\ UNCHANGED failed

\* _sub_do_work: the distance between what went in and what came out, when it is asked for.
Finish ==
    /\ failed = "none" /\ Len(frames) > 1 /\ Top.todo = <<>>
    /\ LET done == [circuit |-> circuit,
                    data |-> IF data.calc THEN [data EXCEPT !.error = circuit.off \ {"single"} # {}] ELSE data]
           above == frames[Len(frames) - 1]
       IN  frames' = Append(SubSeq(frames, 1, Len(frames) - 2), [above EXCEPT !.results = Append(@, done)])
    /\ UNCHANGED failed

\* The answers of the replace filter.
Respects(c, d, sorted) == {NativeMulti(c) /\ told : told \in Told(c, d, sorted)}
FewerMulti(new, old) == new.count < old.count \/ (new.count = old.count /\ new.sq < old.sq)
Replaces(filter, new, old, d) ==
    IF filter = "always" THEN {TRUE}
    ELSE {IF ~ro THEN TRUE ELSE IF ~rn THEN FALSE ELSE FewerMulti(new, old)
            : ro \in Respects(old, d, old.sorted), rn \in Respects(new, d, old.sorted)}

Common(set) == IF Cardinality(set) = 1 THEN CHOOSE x \in set : TRUE ELSE "none"

Gather ==
    /\ Running("Gather") /\ Len(Top.results) = Len(pass.work)
    /\ LET new == [i \in DOMAIN pass.work |-> Top.results[i].circuit]
           old == [i \in DOMAIN pass.work |-> pass.work[i].circuit]
       IN  \E put \in {p \in [DOMAIN new -> BOOLEAN] :
                          \A i \in DOMAIN new : p[i] \in Replaces(pass.filter, new[i], old[i], data)} :
             LET kept == {i \in DOMAIN new : put[i]}
             IN  PutTop([Top EXCEPT
                    !.todo = Tail(@), !.results = <<>>,
                    !.circuit.blocks = [i \in DOMAIN new |-> IF put[i] THEN [new[i] EXCEPT !.off = {}] ELSE old[i]],
                    !.circuit.off = @ \cup UNION {new[i].off : i \in kept},
                    !.circuit.changed = @ \/ \E i \in kept : new[i].changed,
                    !.data.error = @ \/ \E i \in kept : Top.results[i].data.error,
                    !.data.perms = Common({Top.results[i].data.perms : i \in DOMAIN new})])

----------------------------------------------------------------------------
\* Passes that look after the circuit and the data.

LogPass == Running("Log") /\ Return(circuit, data)
LogErrorPass == Running("LogError") /\ Return(circuit, data)
NOOPPass == Running("NoOp") /\ Return(circuit, data)
CompressPass == Running("Compress") /\ Return(circuit, data)
RecordStatsPass == Running("Record") /\ Return(circuit, data)
UpdateDataPass == Running("Update") /\ Return(circuit, data)
SetRandomSeedPass == Running("Seed") /\ Return(circuit, [data EXCEPT !.seed = TRUE])
UnfoldPass == Running("Unfold") /\ Return(Flat(circuit), data)

\* The circuits of the blocks are unfolded where they are.
StructureAnalysisPass ==
    Running("Structure") /\ Return([circuit EXCEPT !.blocks = [i \in DOMAIN @ |-> Flat(@[i])]], data)

ClearAllBlockData == Running("Clear") /\ Return(circuit, [data EXCEPT !.perms = "none", !.tops = FALSE])

SetModelPass ==
    /\ Running("SetModel")
    /\ IF pass.machine.width < circuit.width THEN Raise
       ELSE Return(circuit, [data EXCEPT !.machine = pass.machine, !.placed = "home"])

SetTargetPass == Running("SetTarget") /\ Return(circuit, [data EXCEPT !.target = pass.n, !.placed = IF pass.n = circuit.width THEN @ ELSE "home"])

ExtractModelConnectivityPass ==
    /\ Running("Extract")
    /\ Return(circuit, [data EXCEPT !.kept = data.machine.graph, !.machine.graph = "all"])

\* Mutant of RestoreModelConnectivityPass: the graph stays open.
RestoreModelConnectivityPass_Open ==
    Running("Restore") /\ Return(circuit, [data EXCEPT !.kept = "none"])

RestoreModelConnectivityPass ==
    /\ Running("Restore")
    /\ IF data.kept = "none" THEN Raise
       ELSE Return(circuit, [data EXCEPT !.machine.graph = data.kept, !.kept = "none"])

ExtractMeasurements ==
    /\ Running("ExtractMeasurements")
    /\ Return([circuit EXCEPT !.measured = -1],
              IF circuit.measured = -1 THEN data ELSE [data EXCEPT !.meas = circuit.measured])

\* The measured qudits are looked up in the final mapping.
RestoreMeasurements ==
    /\ Running("RestoreMeasurements")
    /\ Return(IF data.meas = -1 THEN circuit ELSE [circuit EXCEPT !.measured = data.meas + data.final], data)

----------------------------------------------------------------------------
\* Partitioning.

Block(width, kinds, count, sq) == [Circ(width, kinds, count, sq, circuit.plain) EXCEPT !.changed = FALSE]

\* How QuickPartitioner may group the gates of a circuit without blocks: together or in two blocks.
Splits(c, n) ==
    LET whole == {<<c.kinds, c.count, c.sq>>}
        left == {<<K, m, s>> : K \in SUBSET c.kinds, m \in 0 .. c.count, s \in 0 .. c.sq}
        fits(p) == (p[1] = {} <=> p[2] = 0) /\ p[2] + p[3] > 0
        pairs == {<<p, q>> \in left \X left :
                    fits(p) /\ fits(q) /\ p[1] \cup q[1] = c.kinds /\ p[2] + q[2] = c.count /\ p[3] + q[3] = c.sq}
        widths(p) == {w \in 1 .. Least(n, c.width) : (w = 1 <=> p[2] = 0) /\ \A k \in p[1] : k.size <= w}
        blocks(p) == {Block(w, p[1], p[2], p[3]) : w \in widths(p)}
    IN  IF c.count + c.sq = 0 THEN {<<>>}
        ELSE {<<b>> : b \in UNION {blocks(p) : p \in whole}}
             \cup UNION {blocks(pq[1]) \X blocks(pq[2]) : pq \in pairs}

\* Blocks are grouped into one larger block, or each into one of its own.
Groups(c, n) ==
    LET around(bs) == [Circ(Least(n, c.width), {}, 0, 0, TRUE) EXCEPT !.blocks = bs]
        loose(b) == [b EXCEPT !.kinds = c.kinds, !.count = c.count, !.sq = c.sq, !.plain = c.plain]
    IN  {<<loose(around(c.blocks))>>,
         [i \in DOMAIN c.blocks |-> IF i = 1 THEN loose(around(<<c.blocks[1]>>)) ELSE around(<<c.blocks[i]>>)]}

QuickPartitioner ==
    /\ Running("Partition")
    /\ \E bs \in IF circuit.blocks = <<>> THEN Splits(circuit, pass.n) ELSE Groups(circuit, pass.n) :
          Return([circuit EXCEPT !.kinds = {}, !.count = 0, !.sq = 0, !.blocks = bs], data)

ExtendBlockSizePass ==
    /\ Running("Extend")
    /\ LET smallest == CHOOSE s \in data.machine.sizes : \A t \in data.machine.sizes : s <= t
       IN  IF circuit.width = 1 THEN Return(circuit, data)
           ELSE IF circuit.width < smallest THEN Raise
           ELSE Return([circuit EXCEPT !.blocks = [i \in DOMAIN @ |->
                    IF @[i].width < smallest THEN [@[i] EXCEPT !.width = smallest, !.sorted = FALSE] ELSE @[i]]], data)

GroupSingleQuditGatePass ==
    /\ Running("GroupSingle")
    /\ Return(IF circuit.sq = 0 THEN circuit
              ELSE [circuit EXCEPT !.sq = 0, !.blocks = Append(@, Block(1, {}, 0, circuit.sq))], data)

----------------------------------------------------------------------------
\* Synthesis, rebasing and gate removal.

Coupled(d) == d.machine.graph = "model" \/ d.machine.links = "all"

\* The multi-qudit gates a search may come back with.
Found(d, width, coupled) ==
    LET native == {Kind(s, TRUE, coupled) : s \in {t \in d.machine.sizes : t <= width}}
    IN  {<<K, n>> \in (SUBSET native) \X (0 .. MaxGates) : (K = {} <=> n = 0) /\ Cardinality(K) <= n}

With(c, d, found, off) ==
    [c EXCEPT !.width = d.target, !.kinds = found[1], !.count = found[2], !.sq = MaxSingles,
              !.plain = (d.machine.ones = "general"), !.blocks = <<>>, !.changed = TRUE,
              !.off = IF off THEN @ \cup {"multi"} ELSE @]

SearchSynthesis ==
    /\ Running("Search")
    /\ \E f \in Found(data, data.target, Coupled(data)), off \in BOOLEAN : Return(With(circuit, data, f, off), data)

PermutationAwareSynthesisPass ==
    /\ Running("PAS")
    /\ \E f \in Found(data, data.target, Coupled(data)), off \in BOOLEAN :
          Return([With(circuit, data, f, off) EXCEPT !.start = 1, !.end = 1],
                 [data EXCEPT !.initial = 1, !.final = 1, !.known = data.target])

FillSingleQuditGatesPass ==
    /\ Running("Fill")
    /\ Return([circuit EXCEPT !.sq = MaxSingles, !.plain = (data.machine.ones = "general"), !.changed = TRUE], data)

\* Every foreign two-qudit gate is replaced where it stands; a target that is the identity empties the circuit.
AutoRebase2QuditGatePass ==
    /\ Running("Rebase")
    /\ LET kinds == {IF k.size = 2 THEN [k EXCEPT !.native = TRUE] ELSE k : k \in circuit.kinds}
       IN  \E found \in {<<{}, 0, 0>>} \cup {<<kinds, n, circuit.sq>> : n \in {m \in 1 .. MaxGates : kinds # {}}},
              off \in BOOLEAN :
             Return([circuit EXCEPT !.kinds = found[1], !.count = found[2], !.sq = found[3], !.changed = TRUE,
                                    !.off = IF off THEN @ \cup {"multi"} ELSE @], data)

\* The collection filter tells the gates that may go: all, those of several qudits, those of one.
ScanningGateRemovalPass ==
    /\ Running("Scan")
    /\ \E n \in IF pass.of = "single" THEN {circuit.count} ELSE 0 .. circuit.count,
          s \in IF pass.of = "multi" THEN {circuit.sq} ELSE 0 .. circuit.sq, K \in SUBSET circuit.kinds :
          /\ (n = circuit.count => K = circuit.kinds) /\ (K = {} <=> n = 0)
          /\ LET removed == <<n, s>> # <<circuit.count, circuit.sq>>
             IN  \E off \in IF removed THEN BOOLEAN ELSE {FALSE} :
                    Return([circuit EXCEPT !.kinds = K, !.count = n, !.sq = s, !.changed = @ \/ removed,
                                           !.off = IF off THEN @ \cup {"multi"} ELSE @], data)

OneGate(c, plain) == [c EXCEPT !.sq = 1, !.plain = plain, !.changed = TRUE]
GeneralSQDecomposition ==
    /\ Running("General")
    /\ IF circuit.width # 1 \/ data.machine.ones # "general" THEN Raise ELSE Return(OneGate(circuit, TRUE), data)

\* For one qubit only; the circuits here have qubits, whose radix is 2.
QubitRule(native) == IF circuit.width # 1 THEN Raise ELSE Return(OneGate(circuit, native), data)
ZXZXZDecomposition == Running("ZXZXZ") /\ QubitRule(data.machine.ones = "zx")
U3Decomposition == Running("U3") /\ QubitRule(data.machine.ones = "general")
SingleQuditSearch ==
    /\ Running("SearchSingle")
    /\ \E off \in BOOLEAN :
          Return([OneGate(circuit, TRUE) EXCEPT !.width = data.target,
                                                !.off = IF off THEN @ \cup {"single"} ELSE @], data)

\* The general gates, or all single-qudit gates, become U3 or VariableUnitary gates.
Recast(c, all, plain) == IF c.sq > 0 /\ (all \/ ~c.plain \/ data.machine.ones = "general")
                         THEN [c EXCEPT !.plain = plain, !.changed = TRUE] ELSE c
ToU3Pass == Running("ToU3") /\ Return(Recast(circuit, pass.all, data.machine.ones = "general"), data)
ToVariablePass == Running("ToVariable") /\ Return(Recast(circuit, pass.all, FALSE), data)

----------------------------------------------------------------------------
\* Mapping, as Mapping.tla has it in full.

Moved(c) == [c EXCEPT !.kinds = {[k EXCEPT !.coupled = (data.machine.links = "all")] : k \in @}]

GreedyPlacementPass ==
    /\ Running("Greedy")
    /\ \E p \in {"home", "moved"} : Return(Moved(circuit), [data EXCEPT !.placed = p])

GeneralizedSabreLayoutPass ==
    /\ Running("Layout")
    /\ \E p \in {"home", "moved"} : Return(Moved(circuit), [data EXCEPT !.placed = p])

\* Swaps are put in until every gate is on coupled qudits.
Swapped(c, swaps) ==
    [c EXCEPT !.kinds = {[k EXCEPT !.coupled = TRUE] : k \in @} \cup (IF swaps THEN {Kind(2, FALSE, TRUE)} ELSE {}),
              !.count = IF swaps THEN Least(MaxGates, @ + 1) ELSE @, !.changed = TRUE]

GeneralizedSabreRoutingPass ==
    /\ Running("Route")
    /\ \E swaps \in IF data.machine.graph = "all" \/ circuit.count = 0 THEN {FALSE} ELSE BOOLEAN :
          Return([Swapped(circuit, swaps) EXCEPT !.end = @ + 1], [data EXCEPT !.final = @ + 1])

ApplyPlacement ==
    /\ Running("Apply")
    /\ Return([circuit EXCEPT !.width = data.machine.width, !.start = @ + 1, !.end = @ + 1],
              [data EXCEPT !.initial = @ + 1, !.final = @ + 1, !.placed = "home"])

\* The blocks of a sub-topology pass are synthesised for the shapes the machine holds.
SubtopologySelectionPass == Running("Topologies") /\ Return(circuit, [data EXCEPT !.tops = TRUE])

EmbedAllPermutationsPass ==
    /\ Running("Embed")
    /\ IF pass.vary /\ circuit.width # 1 /\ ~data.tops THEN Raise
       ELSE Return(circuit, [data EXCEPT !.perms = IF pass.vary THEN "model" ELSE "all"])

PAMLayoutPass ==
    /\ Running("PAMLayout")
    /\ IF data.perms = "none" THEN Raise
       ELSE \E p \in {"home", "moved"} : Return(circuit, [data EXCEPT !.placed = p])

\* Each block becomes one of the circuits cached for it; swaps go between the blocks.
PAMRoutingPass ==
    /\ Running("PAMRoute")
    /\ IF data.perms = "none" THEN Raise
       ELSE LET coupled == data.perms = "model" \/ data.machine.links = "all"
                options == [i \in DOMAIN circuit.blocks |-> Found(data, circuit.blocks[i].width, coupled)]
                asBlock(b, f, off) == [b EXCEPT !.kinds = f[1], !.count = f[2], !.sq = MaxSingles,
                                                !.plain = (data.machine.ones = "general"),
                                                !.off = IF off THEN {"multi"} ELSE {}]
            IN  \E f \in {g \in [DOMAIN options -> UNION {options[i] : i \in DOMAIN options}] :
                             \A i \in DOMAIN options : g[i] \in options[i]},
                   off \in BOOLEAN, swaps \in IF data.machine.graph = "all" THEN {FALSE} ELSE BOOLEAN :
                  LET c == [circuit EXCEPT !.blocks = [i \in DOMAIN @ |-> asBlock(@[i], f[i], off)],
                                           !.off = IF off THEN @ \cup {"multi"} ELSE @, !.end = @ + 1]
                  IN  Return(Swapped(c, swaps), [data EXCEPT !.final = @ + 1, !.routed = TRUE])

TagPAMBlockDataPass == Running("Tag") /\ IF data.routed THEN Return(circuit, [data EXCEPT !.routed = FALSE]) ELSE Raise
UnTagPAMBlockDataPass == Running("UnTag") /\ Return(circuit, data)

\* A panel is compared with what the tags of its blocks say it was.
CalculatePAMErrorsPass ==
    /\ Running("PAMErrors")
    /\ Return(circuit, [data EXCEPT !.error = @ \/ \E i \in DOMAIN circuit.blocks : circuit.blocks[i].off # {}])

----------------------------------------------------------------------------
FlowNext ==
    \/ IfThenElsePass \/ WhileLoopPass \/ DoWhileLoopPass \/ DoThenDecide \/ Judge
    \/ ParallelDo \/ Pick \/ ForEachBlockPass \/ Spawn \/ Finish \/ Gather
    \/ LogPass \/ LogErrorPass \/ NOOPPass \/ CompressPass \/ RecordStatsPass \/ UpdateDataPass
    \/ SetRandomSeedPass \/ UnfoldPass \/ StructureAnalysisPass \/ ClearAllBlockData
    \/ SetModelPass \/ SetTargetPass \/ ExtractModelConnectivityPass \/ RestoreModelConnectivityPass
    \/ ExtractMeasurements \/ RestoreMeasurements
    \/ QuickPartitioner \/ ExtendBlockSizePass \/ GroupSingleQuditGatePass
    \/ SearchSynthesis \/ PermutationAwareSynthesisPass \/ FillSingleQuditGatesPass \/ AutoRebase2QuditGatePass
    \/ ScanningGateRemovalPass \/ GeneralSQDecomposition \/ ZXZXZDecomposition \/ U3Decomposition
    \/ SingleQuditSearch \/ ToU3Pass \/ ToVariablePass
    \/ GreedyPlacementPass \/ GeneralizedSabreLayoutPass \/ GeneralizedSabreRoutingPass \/ ApplyPlacement
    \/ SubtopologySelectionPass \/ EmbedAllPermutationsPass \/ PAMLayoutPass \/ PAMRoutingPass
    \/ TagPAMBlockDataPass \/ UnTagPAMBlockDataPass \/ CalculatePAMErrorsPass
=============================================================================
