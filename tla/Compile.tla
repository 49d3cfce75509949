------------------------------- MODULE Compile -------------------------------
(***************************************************************************)
(* compile(): the checks of its arguments, the workflow built for each     *)
(* input from the optimization level and the sizes, the runs of those      *)
(* workflows (Flow.tla) and what is returned.                              *)
(***************************************************************************)
EXTENDS Flow

CONSTANT
    Calls           \* the calls there may be

VARIABLES
    call,           \* the arguments of the call
    phase,          \* "idle", "options", "inputs", "running", "returned" or "raised"
    compiler,       \* "given" by the caller, not there "yet", "open" or "closed"
    outs            \* what the runs so far returned

compileVars == <<frames, failed, call, phase, compiler, outs>>

NoSize == 0
NoMachine == DefaultMachine(0)

Machine(m, x) == IF m = NoMachine THEN DefaultMachine(x.circuit.width) ELSE m

----------------------------------------------------------------------------
\* The workflows.

BuildPartitioning(inner, n, sim) ==
    <<Sized("Partition", n), Leaf("Extend")>>
    \o (CASE sim = NoSize -> <<ForEach(inner, FALSE, "respecting-multi")>>
          [] sim = n -> <<ForEach(inner, TRUE, "respecting-multi")>>
          [] OTHER -> <<Sized("Partition", sim),
                        ForEach(<<ForEach(inner, FALSE, "respecting-multi")>>, TRUE, "always")>>)
    \o <<Leaf("Unfold")>>

\* QSearch for the narrow and LEAP for the wide; both find circuits of the same kind.
BuildStandardSearchSynthesis == IfElse(Narrower(3), <<Leaf("Search")>>, <<Leaf("Search")>>)

Scan(of) == [op |-> "Scan", of |-> of]

BuildMultiQuditRetarget(n, sim) ==
    LET core == <<Leaf("Fill"),
                  IfElse(Not(Is("MultiPhysical")),
                         <<IfElse(Is("Many"),
                                  <<Leaf("Extract"), BuildStandardSearchSynthesis, Leaf("Restore")>>,
                                  <<Leaf("Rebase")>>)>>,
                         <<Scan("multi")>>)>>
    IN  <<If(Not(Narrower(2)), <<Leaf("Log")>> \o BuildPartitioning(core, n, sim))>>

BuildSingleQuditRetarget(n, sim) ==
    LET foreign == Not(Is("SinglePhysical"))
        retarget == IfElse(Is("General"), <<Leaf("General")>>,
                           <<IfElse(Is("ZX"), <<Leaf("ZXZXZ")>>, <<Leaf("SearchSingle")>>)>>)
    IN  <<If(foreign,
             <<Leaf("Log"), Leaf("Unfold"), Leaf("GroupSingle"),
               If(Is("Constant"), <<Leaf("Log")>>),
               IfElse(Is("NoSingle"),
                      <<Leaf("Log")>> \o BuildPartitioning(<<Scan("single")>>, n, sim)
                                      \o <<If(foreign, <<Leaf("Log")>>)>>,
                      <<ForEach(<<If(foreign, <<retarget>>)>>, FALSE, "always")>>),
               Leaf("Unfold")>>)>>

BuildSabreMapping == <<Leaf("Log"), Leaf("Greedy"), Leaf("Layout"), Leaf("Route")>>

Embed(vary) == [op |-> "Embed", vary |-> vary]
PAMVerificationSequence(sim) ==
    <<Leaf("Tag"), Sized("Partition", sim), ForEach(<<Leaf("PAMErrors")>>, FALSE, "always"),
      Leaf("Unfold"), Leaf("UnTag")>>

BuildSeqpamMapping(n, sim) ==
    LET verify == IF sim = NoSize THEN <<Leaf("NoOp")>> ELSE PAMVerificationSequence(sim)
        cache(vary) == ForEach(<<IfElse(Narrower(4), <<Embed(vary)>>, <<Embed(vary)>>)>>, FALSE, "always")
    IN  <<If(Not(Narrower(2)),
             <<Leaf("Log"), Leaf("Extract"), Sized("Partition", n), cache(FALSE), Leaf("Log"), Leaf("PAMRoute")>>
             \o verify
             \o <<Leaf("Unfold"), Leaf("Restore"), Leaf("Log"), Leaf("Topologies"), Sized("Partition", n),
                  cache(TRUE), Leaf("Log"), Leaf("Apply"), Leaf("PAMLayout"), Leaf("PAMRoute")>>
             \o verify
             \o <<Leaf("Apply"), Leaf("Unfold")>>)>>

BuildGateDeletion(n, sim, iterative) ==
    LET core == <<Leaf("Log")>> \o BuildPartitioning(<<Scan("all")>>, n, sim)
    IN  IF iterative THEN <<While(Is("Change"), core)>> ELSE core

BuildResynthesis(n, sim, iterative) ==
    LET core == <<Leaf("Log")>>
                \o BuildPartitioning(<<If(Not(Narrower(2)), <<BuildStandardSearchSynthesis>>)>>, n, sim)
    IN  IF iterative THEN <<While(Is("Count"), core)>> ELSE core

SetModel(m) == [op |-> "SetModel", machine |-> m]

Opt1Workflow(m, n, sim) ==
    <<SetModel(m)>> \o BuildMultiQuditRetarget(n, sim) \o BuildSabreMapping
    \o BuildMultiQuditRetarget(n, sim) \o BuildSingleQuditRetarget(n, sim)
    \o <<Leaf("LogError"), Leaf("Apply")>>

Opt2Workflow(m, n, sim) ==
    <<SetModel(m)>> \o BuildMultiQuditRetarget(n, sim) \o BuildSabreMapping
    \o BuildMultiQuditRetarget(n, sim) \o BuildSingleQuditRetarget(n, sim)
    \o BuildGateDeletion(n, sim, FALSE) \o <<Leaf("LogError"), Leaf("Apply")>>

Opt3Workflow(m, n, sim) ==
    <<SetModel(m)>> \o BuildMultiQuditRetarget(n, sim) \o BuildSabreMapping
    \o BuildMultiQuditRetarget(n, sim) \o BuildResynthesis(n, sim, TRUE)
    \o BuildSingleQuditRetarget(n, sim) \o BuildGateDeletion(n, sim, TRUE)
    \o <<Leaf("LogError"), Leaf("Apply")>>

\* The block sizes are fixed, whatever max_synthesis_size says.
Opt4Workflow(m, sim) ==
    <<SetModel(m)>> \o BuildSeqpamMapping(3, sim) \o BuildMultiQuditRetarget(4, sim)
    \o BuildResynthesis(4, sim, FALSE) \o BuildSingleQuditRetarget(4, sim) \o <<Leaf("LogError")>>

Seed(seed) == IF seed THEN <<Leaf("Seed")>> ELSE <<>>

\* error_sim_size counts only when there is an error threshold.
Sim(c) == IF c.threshold THEN c.sim ELSE NoSize

CircuitWorkflow(c, m) ==
    Seed(c.seed) \o <<Leaf("Unfold"), Leaf("ExtractMeasurements")>>
    \o (CASE c.level = 1 -> Opt1Workflow(m, c.size, Sim(c))
          [] c.level = 2 -> Opt2Workflow(m, c.size, Sim(c))
          [] c.level = 3 -> Opt3Workflow(m, c.size, Sim(c))
          [] c.level = 4 -> Opt4Workflow(m, Sim(c)))
    \o <<Leaf("RestoreMeasurements")>>

LastScan(c) == IF c.level >= 2 THEN <<Scan("all")>> ELSE <<Leaf("NoOp")>>

SynthesisWorkflow(c, m, n) ==
    Seed(c.seed) \o <<SetModel(m), Sized("SetTarget", n)>>
    \o (CASE n = 1 -> <<Leaf("SearchSingle")>>
          [] n > 1 /\ c.level < 4 -> <<BuildStandardSearchSynthesis>>
          [] OTHER -> <<Leaf("PAS")>>)
    \o BuildSingleQuditRetarget(c.size, Sim(c)) \o LastScan(c)

StateprepWorkflow(c, m, n) ==
    Seed(c.seed) \o <<SetModel(m), Sized("SetTarget", n), Leaf(IF c.level < 4 THEN "Search" ELSE "PAS")>>
    \o LastScan(c)

StatemapWorkflow(c, m, n) ==
    Seed(c.seed) \o <<SetModel(m), Sized("SetTarget", n), Leaf(IF c.level < 4 THEN "Search" ELSE "PAS")>>
    \o LastScan(c)

\* _get_single_qudit_gate_rebase_pass, which is deprecated.
SingleQuditGateRebase(m) ==
    LET foreign == Not(Is("SinglePhysical"))
        core == CASE m.ones = "general" -> <<Leaf("U3")>> [] m.ones = "zx" -> <<Leaf("ZXZXZ")>>
                  [] OTHER -> <<Leaf("SearchSingle")>>
    IN  IF m.ones = "none" THEN <<Leaf("NoOp")>>
        ELSE <<If(foreign, <<Leaf("GroupSingle"), ForEach(<<If(foreign, core)>>, FALSE, "always"), Leaf("Unfold")>>)>>

\* Workflows that users of the library registered for their machines.
Registered(c, m) ==
    CASE m.registered = "decide" ->
           <<SetModel(m), Decide(BuildGateDeletion(c.size, NoSize, FALSE))>>
      [] m.registered = "parallel" ->
           <<SetModel(m), Parallel(<<BuildGateDeletion(c.size, NoSize, FALSE),
                                     BuildResynthesis(c.size, NoSize, FALSE)>>)>>
      [] m.registered = "unprepared" -> <<SetModel(m), Leaf("PAMLayout")>>
      [] m.registered = "tools" ->
           <<SetModel(m), Leaf("Update"), Leaf("Record"), Leaf("Compress"),
             If(Or(Is("Physical"), Is("Distributed")), <<Leaf("NoOp")>>),
             If(And(Not(Is("Distributed")), Is("Diagonal")), <<[op |-> "ToU3", all |-> TRUE]>>),
             [op |-> "ToVariable", all |-> FALSE], DoWhile(Is("Count"), <<Scan("all")>>),
             Sized("Partition", 2), Leaf("Structure"), Leaf("Unfold"), Leaf("Clear")>>
           \o SingleQuditGateRebase(m)

BuildWorkflow(c, x) ==
    LET m == Machine(c.machine, x)
        n == x.circuit.width
    IN  IF m.registered # "none" /\ x.kind = "circuit" THEN Registered(c, m)
        ELSE CASE x.kind = "circuit" -> CircuitWorkflow(c, m)
               [] x.kind = "unitary" -> SynthesisWorkflow(c, m, n)
               [] x.kind = "state" -> StateprepWorkflow(c, m, n)
               [] x.kind = "system" -> StatemapWorkflow(c, m, n)

----------------------------------------------------------------------------
\* The checks.

BadOptions(c) ==
    \/ c.level \notin 1 .. 4
    \/ c.size <= 1
    \/ c.machine # NoMachine /\ \E s \in c.machine.sizes : s > c.size
    \/ c.sim < c.size

\* type_and_check_input: a machine with a single-qudit gate passes the last line whatever its others are.
BadInput(c, x) ==
    /\ c.machine # NoMachine
    /\ \/ c.machine.width < x.circuit.width
       \/ c.machine.sizes = {} /\ x.circuit.width > 1
       \/ c.machine.ones = "none" /\ \A s \in c.machine.sizes : s > x.circuit.width

\* build_workflow and the builders it calls.
BadWorkflow(c, x) ==
    \/ x.kind = "circuit" /\ x.circuit.width > c.size /\ \E k \in x.circuit.kinds : k.size > c.size
    \/ x.kind # "circuit" /\ x.circuit.width > c.size
    \/ x.kind = "unitary" /\ c.threshold /\ c.tight
    \/ x.kind = "circuit" /\ c.level = 4 /\ c.threshold /\ c.sim < 4 /\ Machine(c.machine, x).registered = "none"

----------------------------------------------------------------------------
\* The call.

CompileInit ==
    /\ call \in Calls
    /\ phase = "options" /\ outs = <<>> /\ frames = <<>> /\ failed = "none"
    /\ compiler = IF call.managed THEN "yet" ELSE "given"

CompileIdle ==
    /\ call = (CHOOSE c \in Calls : TRUE) /\ phase = "idle" /\ outs = <<>> /\ frames = <<>> /\ failed = "none" /\ compiler = "given"

CheckOptions ==
    /\ phase = "options"
    /\ IF BadOptions(call) THEN phase' = "raised" /\ UNCHANGED compiler
       ELSE phase' = "inputs" /\ compiler' = (IF compiler = "yet" THEN "open" ELSE compiler)
    /\ UNCHANGED <<call, outs, frames, failed>>

\* The circuit that goes with an input; a list of inputs sends one qudit with what is not a circuit.
InCircuit(c, x) ==
    IF x.kind = "circuit" THEN x.circuit ELSE Circ(IF c.list THEN 1 ELSE x.circuit.width, {}, 0, 0, TRUE)

Submit(i) ==
    LET in == InCircuit(call, call.inputs[i])
    IN  frames' = <<Work(BuildWorkflow(call, call.inputs[i]), in, PassData(in))>>

CheckInputs ==
    /\ phase = "inputs"
    /\ IF call.inputs = <<>> \/ \E i \in DOMAIN call.inputs : BadInput(call, call.inputs[i]) \/ BadWorkflow(call, call.inputs[i])
       THEN phase' = "raised" /\ UNCHANGED frames
       ELSE phase' = "running" /\ Submit(1)
    /\ UNCHANGED <<call, outs, failed, compiler>>

Collect ==
    /\ phase = "running" /\ failed = "none" /\ Len(frames) = 1 /\ Top.todo = <<>>
    /\ outs' = Append(outs, [circuit |-> circuit, data |-> data])
    /\ IF Len(outs) + 1 < Len(call.inputs)
       THEN Submit(Len(outs) + 2) /\ UNCHANGED <<phase, compiler>>
       ELSE /\ frames' = <<>> /\ phase' = "returned"
            /\ compiler' = IF call.managed THEN "closed" ELSE compiler
    /\ UNCHANGED <<call, failed>>

\* An error of a pass comes back from the compiler as an error of the call.
Fail ==
    /\ phase = "running" /\ failed # "none"
    /\ phase' = "raised" /\ frames' = <<>>
    /\ UNCHANGED <<call, outs, failed, compiler>>

CompileNext ==
    \/ CheckOptions \/ CheckInputs \/ Collect \/ Fail
    \/ phase = "running" /\ FlowNext /\ UNCHANGED <<call, phase, compiler, outs>>

----------------------------------------------------------------------------
Returned == {i \in DOMAIN outs : Machine(call.machine, call.inputs[i]).registered = "none"}

\* Single-qudit gates stay foreign when the machine has none, and for states, which are not retargeted.
KeepsSingles(m, x) == m.ones = "none" \/ x.kind \in {"state", "system"}

\* Every gate of a compiled circuit is on qudits the machine couples.
CompiledRuns ==
    \A i \in Returned : \A k \in outs[i].circuit.kinds : k.coupled

\* The gates of a compiled circuit are the machine's, of one and of several qudits; nothing is left
\* folded; the coupling graph that was taken away for a while is back; the circuit has the machine's
\* qudits and, on a machine of two-qudit gates, every gate is on qudits it couples.  No pass of the
\* library's own workflows raises.
CompiledFits ==
    /\ failed = "none" \/ \E i \in DOMAIN call.inputs : Machine(call.machine, call.inputs[i]).registered # "none"
    /\ phase = "returned" => Len(outs) = Len(call.inputs)
    /\ \A i \in Returned :
         LET m == Machine(call.machine, call.inputs[i])
             c == outs[i].circuit
         IN  /\ c.blocks = <<>> /\ \A k \in c.kinds : k.native
             /\ KeepsSingles(m, call.inputs[i]) \/ c.sq = 0 \/ c.plain
             /\ outs[i].data.machine = m /\ outs[i].data.kept = "none"
             /\ call.inputs[i].kind = "circuit" /\ (call.level < 4 \/ call.inputs[i].circuit.width > 1)
                   => c.width = m.width
    /\ (\A i \in Returned : Machine(call.machine, call.inputs[i]).sizes = {2}) => CompiledRuns

\* The mappings returned tell how often the wires were moved at either end and cover the input; the
\* measurements are where the measured qudits have ended; with an error threshold no approximation
\* of a block goes uncounted; the seed reaches every workflow that runs.
MappingTold ==
    /\ \A i \in DOMAIN outs :
         LET x == call.inputs[i]
             c == outs[i].circuit
             d == outs[i].data
         IN  /\ d.initial = c.start /\ d.final = c.end /\ d.known = x.circuit.width
             /\ x.circuit.measured # -1 /\ i \in Returned => c.measured = c.end
             /\ call.threshold /\ x.kind = "circuit" /\ "multi" \in c.off /\ i \in Returned => d.error
    /\ phase = "running" /\ Len(frames) > 1 => \A i \in 1 .. Len(frames) : frames[i].data.seed = call.seed

\* What compile returns runs on the machine, and what it tells about it is so.
CompiledSound == CompiledFits /\ MappingTold

\* Whatever the level, a call ends.  The loops of level 3 end when the replace filter asks the right
\* question, which it does on machines that couple all their qudits.
CompileEnds == phase # "idle" /\ (call.level = 3 => call.machine = NoMachine) => <>(phase \in {"returned", "raised"})
=============================================================================
