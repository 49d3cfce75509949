------------------------------ MODULE Shannon ------------------------------
(***************************************************************************)
(* The analytic decompositions: the quantum Shannon decomposition, Block   *)
(* ZXZ, the decomposition of multiplexed rotations, the extraction of      *)
(* diagonals and the Walsh synthesis of diagonal unitaries.                *)
(*                                                                         *)
(* A circuit is a sequence of operations with their select (or control)    *)
(* qudits and their target; the wide unitaries are opaque, the angles of a *)
(* multiplexed rotation are integers that halve as often as is needed.     *)
(* What is numerical linear algebra, the CS, Schur and eigen decompositions*)
(* that find the matrices, is left out.                                    *)
(***************************************************************************)
EXTENDS Integers, Sequences, FiniteSets, SequencesExt, FiniteSetsExt

CONSTANT ShannonJobs    \* the passes: algorithm, width, min_qudit_size, extraction

VARIABLES
    shannon,    \* the pass
    todo,       \* the rounds left of its workflow
    ops,        \* the circuit
    replaced,   \* the multiplexers of the last round and what replaced them (history)
    crossed     \* what the last extracted diagonal was moved across (history)

shannonVars == <<shannon, todo, ops, replaced, crossed>>

Gate(kind, select, target, angles) ==
    [kind |-> kind, select |-> select, target |-> target, angles |-> angles]
Unitary(location) == Gate("VU", location, -1, <<>>)
CNOT(control, target) == Gate("CX", <<control>>, target, <<>>)
Multiplexers == {"MPRY", "MPRZ"}

Width(op) == Len(op.select) + IF op.target = -1 THEN 0 ELSE 1
Repeat(round, k) == [i \in 1 .. k |-> round]

\* Angles that stay whole when halved at every select qudit, all sums distinct.
Angles(select) == [i \in 1 .. 2 ^ Len(select) |-> 2 ^ Len(select) * 3 ^ (i - 1)]

-----------------------------------------------------------------------------
(* Multiplexed rotations.                                                  *)

\* MPRYGate.get_decomposition: half sums and half differences over the first
\* select qudit.
Half(angles) == Len(angles) \div 2
LeftAngles(angles) == [i \in 1 .. Half(angles) |-> (angles[i] + angles[i + Half(angles)]) \div 2]
RightAngles(angles) == [i \in 1 .. Half(angles) |-> (angles[i] - angles[i + Half(angles)]) \div 2]

\* A rotation about one axis that is left when no select qudit is.
Smaller(op, angles) ==
    Gate(IF Len(op.select) > 1 THEN op.kind ELSE IF op.kind = "MPRY" THEN "RY" ELSE "RZ",
         Tail(op.select), op.target, angles)

Arrange(pieces, reverse, dropLast) ==
    LET all == IF dropLast THEN Front(pieces) ELSE pieces
    IN  IF reverse THEN Reverse(all) ELSE all

OneLevel(op, reverse, dropLast) ==
    LET cx == CNOT(Head(op.select), op.target)
    IN  Arrange(<<Smaller(op, LeftAngles(op.angles)), cx,
                  Smaller(op, RightAngles(op.angles)), cx>>, reverse, dropLast)

\* A plausible slip: both halves are taken in the same order.
TwoLevelsAlike(op, reverse, dropLast) ==
    LET cx == CNOT(Head(op.select), op.target)
        left == OneLevel(Smaller(op, LeftAngles(op.angles)), reverse, TRUE)
        right == OneLevel(Smaller(op, RightAngles(op.angles)), reverse, TRUE)
    IN  IF Width(op) <= 2 THEN OneLevel(op, reverse, FALSE)
        ELSE FlattenSeq(Arrange(<<left, <<cx>>, right, <<cx>>>>, reverse, dropLast))

\* Two levels at once save the CNOT that would end each half: the right half is
\* taken in reverse, so that its missing one meets that of the left half.
TwoLevels(op, reverse, dropLast) ==
    LET cx == CNOT(Head(op.select), op.target)
        left == OneLevel(Smaller(op, LeftAngles(op.angles)), reverse, TRUE)
        right == OneLevel(Smaller(op, RightAngles(op.angles)), ~reverse, TRUE)
    IN  IF Width(op) <= 2 THEN OneLevel(op, reverse, FALSE)
        ELSE FlattenSeq(Arrange(<<left, <<cx>>, right, <<cx>>>>, reverse, dropLast))

-----------------------------------------------------------------------------
(* One level of the two decompositions, for a unitary on a location.       *)

Multiplexed(kind, select, target) == Gate(kind, select, target, Angles(select))

\* create_multiplexed_circ: two smaller unitaries around a multiplexed Z.
Demultiplexed(location) ==
    <<Unitary(Front(location)), Multiplexed("MPRZ", Front(location), Last(location)),
      Unitary(Front(location))>>

QSD(location) ==
    Demultiplexed(location)
        \o <<Multiplexed("MPRY", Front(location), Last(location))>>
        \o Demultiplexed(location)

\* zxz: the outer multiplexers are decomposed at once, each without the CNOT
\* that has been merged into the middle.
OuterZ(location) == Multiplexed("MPRZ", Tail(location), Head(location))
ZXZ(location) ==
    LET select == Tail(location)
        hadamard == Gate("H", <<>>, Head(location), <<>>)
    IN  <<Unitary(select)>> \o TwoLevels(OuterZ(location), FALSE, TRUE)
        \o <<Unitary(select), hadamard, OuterZ(location), Unitary(select), hadamard>>
        \o TwoLevels(OuterZ(location), TRUE, TRUE) \o <<Unitary(select)>>

\* What a round decomposes.
IsUnitary(op) == op.kind = "VU" /\ Len(op.select) > shannon.min
Unitaries == {k \in DOMAIN ops : IsUnitary(ops[k])}

\* Every chosen operation replaced, in groups because FlattenSeq recurs.
Group == 16
Each(circuit, by) ==
    LET piece(k) == IF k \in DOMAIN by THEN by[k] ELSE <<circuit[k]>>
        part(i) == FlattenSeq([k \in 1 .. Min({Group, Len(circuit) - i * Group}) |->
                                  piece(i * Group + k)])
    IN  FlattenSeq([i \in 1 .. (Len(circuit) + Group - 1) \div Group |-> part(i - 1)])

\* A multiplexer with its replacement, and the CNOT merged elsewhere, if any.
Trade(op, by, before, after) == [op |-> op, by |-> before \o by \o after]
NoCX == <<>>
MergedCX(op) == <<CNOT(Head(op.select), op.target)>>

-----------------------------------------------------------------------------
(* The passes and the workflows of FullQSDPass and FullBlockZXZPass.       *)

Workflow(job) ==
    CASE job.alg = "qsd" ->
           FlattenSeq(Repeat(<<"qsd", "mgd">>, job.width - job.min))
      [] job.alg = "zxz" ->
           Repeat("zxz", job.width - job.min)
               \o (IF job.extract THEN <<"extract">> ELSE <<>>)
               \o Repeat("mgd twice", job.width - 1)
      [] job.alg = "walsh" -> <<"walsh">>

ShannonInit ==
    /\ shannon \in ShannonJobs
    /\ todo = Workflow(shannon)
    /\ ops = <<Unitary([q \in 1 .. shannon.width |-> q - 1])>>
    /\ replaced = {} /\ crossed = <<>>

ShannonIdle ==
    /\ shannon = <<>> /\ todo = <<>> /\ ops = <<>> /\ replaced = {} /\ crossed = <<>>

QsdRound ==
    /\ todo # <<>> /\ Head(todo) = "qsd"
    /\ ops' = Each(ops, [k \in Unitaries |-> QSD(ops[k].select)])
    /\ replaced' = {}
    /\ todo' = Tail(todo)
    /\ UNCHANGED <<shannon, crossed>>

ZxzRound ==
    LET wide == {ops[k].select : k \in Unitaries}
        first(l) == TwoLevels(OuterZ(l), FALSE, TRUE)
        second(l) == TwoLevels(OuterZ(l), TRUE, TRUE)
    IN
    /\ todo # <<>> /\ Head(todo) = "zxz"
    /\ ops' = Each(ops, [k \in Unitaries |-> ZXZ(ops[k].select)])
    /\ replaced' = {Trade(OuterZ(l), first(l), NoCX, MergedCX(OuterZ(l))) : l \in wide}
                   \cup {Trade(OuterZ(l), second(l), MergedCX(OuterZ(l)), NoCX) : l \in wide}
    /\ todo' = Tail(todo)
    /\ UNCHANGED <<shannon, crossed>>

IsMultiplexer(op) == op.kind \in Multiplexers

MgdRound ==
    LET by(op) == IF Head(todo) = "mgd" THEN OneLevel(op, FALSE, FALSE)
                                        ELSE TwoLevels(op, FALSE, FALSE)
    IN
    /\ todo # <<>> /\ Head(todo) \in {"mgd", "mgd twice"}
    /\ ops' = Each(ops, [k \in {j \in DOMAIN ops : IsMultiplexer(ops[j])} |-> by(ops[k])])
    /\ replaced' = {Trade(ops[k], by(ops[k]), NoCX, NoCX) :
                        k \in {j \in DOMAIN ops : IsMultiplexer(ops[j])}}
    /\ todo' = Tail(todo)
    /\ UNCHANGED <<shannon, crossed>>

\* The unitaries an extraction considers.
Positions == {k \in DOMAIN ops : ops[k].kind = "VU"}

\* The ansatz that is left when the diagonal of a two-qudit unitary is taken.
Ansatz(a, b) ==
    LET locals == <<Gate("U1", <<>>, a, <<>>), Gate("U1", <<>>, b, <<>>)>>
    IN  locals \o <<CNOT(a, b)>> \o locals \o <<CNOT(a, b)>> \o locals

\* The unitary the diagonal goes into: the one before.
MergeInto(positions) == Max(positions \ {Max(positions)})

\* ExtractDiagonalPass: from the last unitary on, the diagonal moves across what
\* lies between into the unitary before; where the ansatz does not reach the
\* unitary it stays as it is, in a circuit gate.
Extract(succeeds) ==
    LET last == Max(Positions)
        op == ops[last]
        into == MergeInto(Positions)
    IN
    /\ todo # <<>> /\ Head(todo) = "extract" /\ Cardinality(Positions) > 1
    /\ ops' = IF succeeds
              THEN SubSeq(ops, 1, last - 1) \o Ansatz(op.select[1], op.select[2])
                       \o SubSeq(ops, last + 1, Len(ops))
              ELSE [ops EXCEPT ![last].kind = "Kept"]
    /\ crossed' = IF succeeds
                  THEN [location |-> op.select, into |-> ops[into].select,
                        across |-> SubSeq(ops, into + 1, last - 1)]
                  ELSE <<>>
    /\ UNCHANGED <<shannon, todo, replaced>>

ExtractEnd ==
    /\ todo # <<>> /\ Head(todo) = "extract" /\ Cardinality(Positions) <= 1
    /\ ops' = [k \in DOMAIN ops |->
                  IF ops[k].kind = "Kept" THEN [ops[k] EXCEPT !.kind = "VU"] ELSE ops[k]]
    /\ todo' = Tail(todo)
    /\ crossed' = <<>>
    /\ UNCHANGED <<shannon, replaced>>

-----------------------------------------------------------------------------
(* WalshDiagonalSynthesisPass: one rotation per string of Z's.             *)

Bit(n, k) == (n \div 2 ^ k) % 2
Xor(a, b, width) == FoldLeft(LAMBDA s, k : s + ((Bit(a, k - 1) + Bit(b, k - 1)) % 2) * 2 ^ (k - 1),
                             0, [k \in 1 .. width |-> k])
GrayCode(n, width) == Xor(n, n \div 2, width)

\* The qudits of a string, in order; qudit 0 is the most significant bit.
InString(string, width) ==
    SelectSeq([q \in 1 .. width |-> q - 1], LAMBDA q : Bit(string, width - 1 - q) = 1)

\* A ladder of CNOTs, the rotation at its end, and the ladder back.
LadderBack(pairs) == Reverse(pairs)

PauliCircuit(string, width) ==
    LET qudits == InString(string, width)
        pairs == [i \in 1 .. Len(qudits) - 1 |-> CNOT(qudits[i], qudits[i + 1])]
    IN  IF qudits = <<>> THEN <<>>
        ELSE pairs \o <<Gate("RZ", <<>>, Last(qudits), <<string>>)>> \o LadderBack(pairs)

Walsh ==
    LET width == shannon.width
        strings == SortSeq([n \in 1 .. 2 ^ width |-> n - 1],
                           LAMBDA a, b : GrayCode(a, width) < GrayCode(b, width))
    IN
    /\ todo # <<>> /\ Head(todo) = "walsh"
    /\ ops' = FlattenSeq([s \in DOMAIN strings |-> PauliCircuit(strings[s], width)])
    /\ todo' = Tail(todo)
    /\ UNCHANGED <<shannon, replaced, crossed>>

ShannonNext ==
    \/ QsdRound
    \/ ZxzRound
    \/ MgdRound
    \/ \E s \in shannon.outcomes : Extract(s)
    \/ ExtractEnd
    \/ Walsh

ShannonEnded == todo = <<>> /\ UNCHANGED shannonVars

-----------------------------------------------------------------------------
(* Properties.                                                             *)

Bits(op) == [ToSet(op.select) -> {0, 1}]
Chosen(op, bits) ==
    1 + FoldLeft(LAMBDA n, q : 2 * n + bits[q], 0, op.select)

\* The rotation a sequence makes of its target for one value of the selects: a
\* CNOT turns what follows around.
Turn(turn, op, bits) ==
    IF op.kind = "CX" THEN [turn EXCEPT !.sign = IF bits[op.select[1]] = 1 THEN -@ ELSE @]
    ELSE [turn EXCEPT !.angle = @ + turn.sign * op.angles[Chosen(op, bits)]]
Rotation(circuit, bits) ==
    FoldLeft(LAMBDA turn, op : Turn(turn, op, bits), [sign |-> 1, angle |-> 0], circuit)

\* Every replacement of a multiplexed rotation, together with the CNOT that was
\* merged elsewhere, rotates by the same angle for every value of its selects,
\* and leaves the target as it was.
SameRotation ==
    \A trade \in replaced : \A bits \in Bits(trade.op) :
        Rotation(trade.by, bits) =
            [sign |-> 1, angle |-> trade.op.angles[Chosen(trade.op, bits)]]

\* At the end no unitary is wider than asked for; every round turned one into
\* four.  Block ZXZ has decomposed every multiplexer, the Shannon passes all
\* those wider than the unitaries.
FullyDecomposed ==
    todo = <<>> /\ ops # <<>> /\ shannon.alg # "walsh" =>
        /\ \A k \in DOMAIN ops : ops[k].kind = "VU" => Width(ops[k]) <= shannon.min
        /\ shannon.alg = "qsd" \/ ~shannon.extract =>
               Cardinality(Positions) = 4 ^ (shannon.width - shannon.min)
        /\ \A k \in DOMAIN ops : IsMultiplexer(ops[k]) =>
               shannon.alg = "qsd" /\ Width(ops[k]) <= shannon.min

\* A diagonal is moved only across operations that it commutes with, those its
\* qudits control or select, into a unitary on the same qudits.
DiagonalCommutes ==
    crossed # <<>> =>
        /\ crossed.into = crossed.location
        /\ \A k \in DOMAIN crossed.across :
               LET op == crossed.across[k] IN
               /\ op.kind # "VU" \/ ToSet(op.select) \cap ToSet(crossed.location) = {}
               /\ op.target \in ToSet(crossed.location) => op.kind \in {"MPRZ", "RZ"}

\* The Walsh circuit gives every basis state the phase of every string of Z's,
\* and leaves the state as it was.
State(circuit, bits) ==
    FoldLeft(LAMBDA s, op :
        IF op.kind = "CX"
        THEN [s EXCEPT !.bits[op.target] = (@ + s.bits[op.select[1]]) % 2]
        ELSE [s EXCEPT !.phases = @ \cup {<<op.angles[1], s.bits[op.target]>>}],
        [bits |-> bits, phases |-> {}], circuit)
Parity(string, bits, width) ==
    FoldLeft(LAMBDA p, q : (p + bits[q]) % 2, 0, InString(string, width))
WalshPhases ==
    todo = <<>> /\ ops # <<>> /\ shannon.alg = "walsh" =>
        \A bits \in [0 .. shannon.width - 1 -> {0, 1}] :
            State(ops, bits) =
                [bits |-> bits,
                 phases |-> {<<s, Parity(s, bits, shannon.width)>> : s \in 1 .. 2 ^ shannon.width - 1}]

\* The decompositions keep what they decompose and finish.
DecomposedSound == SameRotation /\ FullyDecomposed /\ DiagonalCommutes /\ WalshPhases
=============================================================================
