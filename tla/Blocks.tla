-------------------------------- MODULE Blocks --------------------------------
(***************************************************************************)
(* One ForEachBlockPass in full: the blocks it collects, the part of the   *)
(* machine and of the data each is given, the answers of the workers, which *)
(* next brings in any order and in any batches, the replace filter asked of *)
(* each as it comes, and the circuit put together at the end.              *)
(*                                                                         *)
(* A block's circuit is followed by the gates that are not the machine's   *)
(* (multi- and single-qudit), by the pairs of its own qudits its gates are  *)
(* on, and by how many gates of three qudits, two and one it has.          *)
(***************************************************************************)
EXTENDS Integers, Sequences, FiniteSets

CONSTANT
    BlockJobs       \* circuits with blocks, filters, data passed down and what the loop body answers

VARIABLES
    job,           \* the job, or one without operations
    stage,          \* "idle", "collect", "prepare", "drain", "replaced" or "nothing"
    blocks,         \* indices of the operations collected, in order
    subdata,        \* the data made for each
    waiting,        \* blocks whose answer has not come
    replacements,   \* block index -> the circuit to put there, or none yet
    completed,      \* block index -> the data that came back
    errorSum,       \* of the blocks replaced
    result          \* the operations at the end

blocksVars == <<job, stage, blocks, subdata, waiting, replacements, completed, errorSum, result>>

NoCircuit == [foreign |-> {}, pairs |-> {}, counts |-> <<0, 0, 0>>]
Nothing == [circuit |-> NoCircuit, put |-> FALSE]

RECURSIVE Total(_)
Total(s) == IF s = <<>> THEN 0 ELSE Head(s) + Total(Tail(s))

----------------------------------------------------------------------------
\* The replace filters; counts are of gates on many, two and single qudits.

RECURSIVE Lower(_, _)
Lower(s, t) == s # <<>> /\ (Head(s) < Head(t) \/ (Head(s) = Head(t) /\ Lower(Tail(s), Tail(t))))

Less(new, old) == Total(new.counts) < Total(old.counts)
LessMulti(new, old) ==
    LET of(c) == <<c.counts[1] + c.counts[2], c.counts[3]>> IN Lower(of(new), of(old))
LessMany(new, old) == Lower(new.counts, old.counts)

\* The pairs a circuit uses are looked up as they are written, smaller qudit first.
IsRespecting(c, location, model, fully) ==
    /\ "multi" \notin c.foreign
    /\ fully => "single" \notin c.foreign
    /\ \A e \in c.pairs : <<location[e[1] + 1], location[e[2] + 1]>> \in model

LessRespecting(new, old, location, model, fully, fn) ==
    IF ~IsRespecting(old, location, model, fully) THEN TRUE
    ELSE IsRespecting(new, location, model, fully) /\ fn

ReplaceFilter(filter, new, op, model) ==
    LET old == op.circuit
        fn == CASE filter.count = "all" -> Less(new, old)
                [] filter.count = "multi" -> LessMulti(new, old)
                [] filter.count = "many" -> LessMany(new, old)
    IN  CASE filter.mode = "always" \/ op.gate # "circuit" -> TRUE
          [] filter.mode = "plain" -> fn
          [] filter.mode = "respecting" -> LessRespecting(new, old, op.location, model, FALSE, fn)
          [] filter.mode = "fully" -> LessRespecting(new, old, op.location, model, TRUE, fn)

----------------------------------------------------------------------------
\* The job.

CollectionFilter(op) == op.gate \in {"circuit", "constant", "variable"}

BlocksInit ==
    /\ job \in BlockJobs
    /\ stage = "collect"
    /\ blocks = <<>> /\ subdata = <<>> /\ waiting = {} /\ replacements = <<>> /\ completed = <<>>
    /\ errorSum = 0 /\ result = <<>>

BlocksIdle ==
    /\ job = CHOOSE j \in BlockJobs : TRUE
    /\ stage = "idle"
    /\ blocks = <<>> /\ subdata = <<>> /\ waiting = {} /\ replacements = <<>> /\ completed = <<>>
    /\ errorSum = 0 /\ result = <<>>

CollectBlocks ==
    /\ stage = "collect"
    /\ blocks' = SelectSeq([i \in DOMAIN job.ops |-> i], LAMBDA i : CollectionFilter(job.ops[i]))
    /\ IF blocks' = <<>> THEN stage' = "nothing" /\ result' = job.ops
       ELSE stage' = "prepare" /\ UNCHANGED result
    /\ UNCHANGED <<job, subdata, waiting, replacements, completed, errorSum>>

\* The place in a location of a qudit of the circuit: subnumbering.
Subnumber(location, q) == CHOOSE k \in 0 .. Len(location) - 1 : location[k + 1] = q
Ordered(a, b) == IF a < b THEN <<a, b>> ELSE <<b, a>>

Submodel(location, model) ==
    LET within == {e \in model : \A k \in 1 .. 2 : \E n \in DOMAIN location : location[n] = e[k]}
    IN  {Ordered(Subnumber(location, e[1]), Subnumber(location, e[2])) : e \in within}

\* Keys with one prefix go to every block, keys with the other to the block they have an entry for.
SubData(i) ==
    LET op == job.ops[blocks[i]]
    IN  [model |-> Submodel(op.location, job.model), point |-> blocks[i], shared |-> job.shared,
         own |-> IF i \in DOMAIN job.specific THEN {job.specific[i]} ELSE {}, replaced |-> FALSE, error |-> 0]

Prepare ==
    /\ stage = "prepare"
    /\ subdata' = [i \in DOMAIN blocks |-> SubData(i)]
    /\ waiting' = DOMAIN blocks
    /\ replacements' = [i \in DOMAIN blocks |-> Nothing]
    /\ completed' = subdata'
    /\ stage' = "drain"
    /\ UNCHANGED <<job, blocks, errorSum, result>>

\* What a worker answers for a block, and the error its workflow has seen.
Answer(i) == job.answers[i]

\* Mutant of Fetch: what an earlier batch decided is lost.
Fetch_Overwrites ==
    /\ stage = "drain" /\ waiting # {}
    /\ \E come \in (SUBSET waiting) \ {{}} :
         LET put == {i \in come : ReplaceFilter(job.filter, Answer(i).circuit, job.ops[blocks[i]], job.model)}
         IN  /\ waiting' = waiting \ come
             /\ replacements' = [i \in DOMAIN blocks |->
                    IF i \in put THEN [circuit |-> Answer(i).circuit, put |-> TRUE] ELSE Nothing]
             /\ completed' = [i \in DOMAIN blocks |->
                    IF i \in come THEN [subdata[i] EXCEPT !.replaced = i \in put, !.error = Answer(i).error]
                    ELSE completed[i]]
             /\ errorSum' = errorSum + Total([i \in DOMAIN blocks |-> IF i \in put THEN Answer(i).error ELSE 0])
    /\ UNCHANGED <<job, stage, blocks, subdata, result>>

\* One call of next: the results that have come since the last, in the order they came; each is
\* looked at once, and those after it do not change what was decided.
Fetch ==
    /\ stage = "drain" /\ waiting # {}
    /\ \E come \in (SUBSET waiting) \ {{}} :
         LET put == {i \in come : ReplaceFilter(job.filter, Answer(i).circuit, job.ops[blocks[i]], job.model)}
         IN  /\ waiting' = waiting \ come
             /\ replacements' = [i \in DOMAIN blocks |->
                    IF i \in put THEN [circuit |-> Answer(i).circuit, put |-> TRUE] ELSE replacements[i]]
             /\ completed' = [i \in DOMAIN blocks |->
                    IF i \in come THEN [subdata[i] EXCEPT !.replaced = i \in put, !.error = Answer(i).error]
                    ELSE completed[i]]
             /\ errorSum' = errorSum + Total([i \in DOMAIN blocks |-> IF i \in put THEN Answer(i).error ELSE 0])
    /\ UNCHANGED <<job, stage, blocks, subdata, result>>

\* batch_replace: the points and operations of the blocks that are replaced, in block order.
BlockAt(n) == CHOOSE i \in DOMAIN blocks : blocks[i] = n
Replacement(n) ==
    IF (\E i \in DOMAIN blocks : blocks[i] = n) /\ replacements[BlockAt(n)].put
    THEN [job.ops[n] EXCEPT !.gate = "circuit", !.circuit = replacements[BlockAt(n)].circuit]
    ELSE job.ops[n]

ReplaceBlocks ==
    /\ stage = "drain" /\ waiting = {}
    /\ result' = [n \in DOMAIN job.ops |-> Replacement(n)]
    /\ stage' = "replaced"
    /\ UNCHANGED <<job, blocks, subdata, waiting, replacements, completed, errorSum>>

BlocksNext == CollectBlocks \/ Prepare \/ Fetch \/ ReplaceBlocks

----------------------------------------------------------------------------
\* What the circuit can be run on: its gates and the pairs, whichever way they are written.
Runs(c, location, model, fully) ==
    /\ c.foreign \cap (IF fully THEN {"multi", "single"} ELSE {"multi"}) = {}
    /\ \A e \in c.pairs : Ordered(location[e[1] + 1], location[e[2] + 1]) \in model

Increasing(location) == \A i, j \in DOMAIN location : i < j => location[i] < location[j]

\* Whatever order the answers come in: every operation stands where it stood, with its own answer or
\* with what it had; a filter that respects the model never puts a circuit that cannot run in place
\* of one that can, nor keeps one that cannot; a plain filter never lets the gates it counts grow;
\* every block has its own data, and the error is that of the blocks that were replaced.
BlocksSound ==
    stage = "replaced" =>
        /\ Len(result) = Len(job.ops) /\ waiting = {}
        /\ \A n \in DOMAIN result : result[n].location = job.ops[n].location
        /\ \A n \in DOMAIN result : n \notin {blocks[i] : i \in DOMAIN blocks} => result[n] = job.ops[n]
        /\ \A i \in DOMAIN blocks :
             LET op == job.ops[blocks[i]]
                 new == result[blocks[i]]
                 fully == job.filter.mode = "fully"
                 strict == job.filter.mode \in {"respecting", "fully"} /\ Increasing(op.location)
             IN  /\ new.circuit \in {Answer(i).circuit, op.circuit}
                 /\ op.gate = "circuit" /\ strict =>
                       IF Runs(op.circuit, op.location, job.model, fully)
                       THEN /\ Runs(new.circuit, op.location, job.model, fully)
                            /\ job.filter.count = "all" =>
                                 Total(new.circuit.counts) <= Total(op.circuit.counts)
                       ELSE new.circuit = Answer(i).circuit
                 /\ job.filter.mode = "plain" /\ job.filter.count = "many" /\ op.gate = "circuit" =>
                       new.circuit.counts[1] <= op.circuit.counts[1]
                 /\ completed[i].point = blocks[i]
                 /\ completed[i].own = IF i \in DOMAIN job.specific THEN {job.specific[i]} ELSE {}
                 /\ \A a, b \in 1 .. Len(op.location) :
                       a < b => (<<a - 1, b - 1>> \in completed[i].model
                                   <=> Ordered(op.location[a], op.location[b]) \in job.model)
                 /\ op.gate # "circuit" => completed[i].replaced
        /\ errorSum = Total([i \in DOMAIN blocks |-> IF completed[i].replaced THEN Answer(i).error ELSE 0])
=============================================================================
