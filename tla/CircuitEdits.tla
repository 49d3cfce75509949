---------------------------- MODULE CircuitEdits ----------------------------
(***************************************************************************)
(* A program edits one circuit through the public methods of Circuit, with *)
(* arguments that their checks let through.                                *)
(***************************************************************************)
EXTENDS Circuit

CONSTANTS
    Offered,     \* the operations that are appended and inserted
    Subcircuits, \* the circuits that are appended, inserted and put in place of an operation
    MaxOps,      \* bound: operations, those inside blocks included
    MaxWidth,    \* bound: qudits
    MaxCalls,    \* bound: calls from the first one on that is not append or insert
    Careful      \* whether callers keep away from the calls the operators below name

ASSUME BoundsAssumption ==
    MaxOps \in Nat \ {0} /\ MaxWidth \in Nat \ {0} /\ MaxCalls \in Nat /\ Careful \in BOOLEAN

VARIABLES
    c,           \* the circuit
    wires,       \* what it does: the operations on each qudit, blocks opened up
    did,         \* what the last call was for
    calls        \* calls made, from the first one on that is not append or insert

editVars == <<c, wires, did, calls>>

----------------------------------------------------------------------------
(* Calls the code mishandles.                                              *)

\* A block that is alone in the last cycle takes the cycle with it, and what
\* it holds is then appended, last operation first.
LastAlone(p) == p[1] = Len(c.grid) - 1 /\ \A x \in Points(c) : x[1] = p[1] => x = AnchorOf(c, p)

\* Opening one of two blocks in a cycle can move the other away.
SameCycle(points) == \E p, r \in points : p # r /\ p[1] = r[1]

\* The pairs counted come out with the larger qudit first.
Unsorts(perm) == \E e \in BagToSet(c.graph) : perm[e[1] + 1] > perm[e[2] + 1]

----------------------------------------------------------------------------

Calm == wires = WiresOf(c) /\ did = "nothing" /\ calls = 0
EditsInit == c \in {Circuit(n) : n \in 1 .. MaxWidth} /\ Calm
EditsIdle == c = Circuit(0) /\ Calm

\* The call leaves circuit d behind, within the bounds.
Leaves(what, d) ==
    /\ did' = what
    /\ c' = d
    /\ Len(Line(c', GridOrder(c'))) <= MaxOps /\ Depth(c') <= MaxDepth
    /\ wires' = WiresOf(c')
Builds(d) == Leaves("add", d) /\ (calls > 0 => calls < MaxCalls) /\ calls' = IF calls = 0 THEN 0 ELSE calls + 1
Does(what, d) == calls < MaxCalls /\ Leaves(what, d) /\ calls' = calls + 1

Fits(loc) == Range(loc) \subseteq Qudits(c)

Operations == {op \in Offered : Fits(op.loc)}
Boxes == {Op(sub, <<0, 1>>) : sub \in {s \in Subcircuits : s.n = 2 /\ c.n >= 2}}
Placements(sub) == {loc \in [1 .. sub.n -> Qudits(c)] : IsInjective(loc)}
CycleArgs == -Len(c.grid) - 1 .. Len(c.grid)
SomePoints == {S \in SUBSET Points(c) : S # {}}

\* The bound leaves room for one more operation.
Room == Len(Line(c, GridOrder(c))) < MaxOps

AppendCall == Room /\ \E op \in Operations \cup Boxes : Builds(AppendOp(c, op))

InsertCall ==
    Room /\ \E op \in Operations \cup Boxes, k \in CycleArgs : Builds(InsertOp(c, k, op))

AppendCircuitCall ==
    Room /\ \E sub \in Subcircuits : \E loc \in Placements(sub) :
        Does("add", AppendCircuit(c, sub, loc))

InsertCircuitCall ==
    Room /\ \E sub \in Subcircuits, k \in Cycles(c) : \E loc \in Placements(sub) :
        Does("add", InsertCircuit(c, k, sub, loc))

PopCall == \E p \in Points(c) : ~Uncounted(c, p) /\ Does("remove", PopOp(c, p))

\* pop_cycle removes the operations of the cycle, and so the cycle.
PopCycleCall == \E k \in Cycles(c) : Does("remove", PopCycle(c, k))

BatchPopCall == \E S \in SomePoints : Does("remove", PopAll(c, S))

RemoveCall == \E op \in Ops(c) : Does("remove", RemoveOp(c, op))

RemoveAllCall == \E op \in Ops(c) : Does("remove", RemoveAll(c, op))

ClearCall == Len(c.grid) > 0 /\ Does("remove", Circuit(c.n))

ReplaceCall ==
    \E p \in Points(c), op \in Operations :
        /\ On(op) \cap On(OpAt(c, p)) # {}
        /\ Does("replace", ReplaceOp(c, p, op))

ReplaceWithCircuitCall ==
    \E p \in Points(c), sub \in Subcircuits :
        /\ sub.n = Len(OpAt(c, p).loc)
        /\ Careful => ~LastAlone(p)
        /\ Does("replace", ReplaceWithCircuit(c, p, sub))

\* fold of what get_region makes of some points, and of what surround finds.
FoldCall ==
    \E S \in SomePoints :
        /\ IsRegionOf(c, S)
        /\ Does("redraw", Fold(c, Bounds(c, S)))

FoldAroundCall ==
    \E p \in Points(c), n \in 1 .. c.n : \E r \in Surround(c, p, n) :
        Does("redraw", Fold(c, r))

Blocks == {p \in Points(c) : IsBlock(OpAt(c, p))}

UnfoldCall ==
    \E p \in Blocks : (Careful => ~LastAlone(p)) /\ Does("redraw", Unfold(c, p))

BatchUnfoldCall ==
    \E S \in SUBSET Blocks :
        /\ S # {}
        /\ ~SameCycle(S)
        /\ Careful => \A p \in S : ~LastAlone(p)
        /\ Does("redraw", BatchUnfold(c, S))

UnfoldAllCall == Blocks # {} /\ Does("redraw", FoldLeft(LAMBDA d, i : UnfoldRound(d), c, Levels))

CompressCall == Len(c.grid) > 0 /\ Does("redraw", Compress(c))

InsertQuditCall ==
    \E i \in -c.n - 1 .. c.n + 1 : c.n < MaxWidth /\ Does("requdit", InsertQudit(c, i))

PopQuditCall == \E q \in Qudits(c) : c.n > 1 /\ Does("requdit", PopQudit(c, q))

RenumberCall ==
    \E perm \in {p \in [1 .. c.n -> Qudits(c)] : IsInjective(p)} :
        (Careful => ~Unsorts(perm)) /\ Does("requdit", Renumber(c, perm))

EditsNext ==
    \/ AppendCall \/ InsertCall \/ AppendCircuitCall \/ InsertCircuitCall
    \/ PopCall \/ PopCycleCall \/ BatchPopCall \/ RemoveCall \/ RemoveAllCall \/ ClearCall
    \/ ReplaceCall \/ ReplaceWithCircuitCall
    \/ FoldCall \/ FoldAroundCall \/ UnfoldCall \/ BatchUnfoldCall \/ UnfoldAllCall \/ CompressCall
    \/ InsertQuditCall \/ PopQuditCall \/ RenumberCall

----------------------------------------------------------------------------
(* Properties.                                                             *)

\* The links are what the grid says: an operation's neighbours on a qudit are
\* the nearest ones in the grid, front and rear the outermost ones, and the
\* counts of gates and of pairs of qudits are those of the operations there
\* are.  Each method repairs them by hand, in part, on its own.
Linked(d) ==
    /\ DOMAIN d.dag = Points(d)
    /\ \A p \in Points(d) :
         /\ d.dag[p].prev = [q \in On(OpAt(d, p)) |-> LeftOf(d, p[1], q)]
         /\ d.dag[p].next = [q \in On(OpAt(d, p)) |-> RightOf(d, p[1] + 1, q)]
    /\ d.front = [q \in Qudits(d) |-> RightOf(d, 0, q)]
    /\ d.rear = [q \in Qudits(d) |-> LeftOf(d, Len(d.grid), q)]

CountsOf(d) ==
    LET step(b, p) == [gates |-> b.gates (+) SetToBag({OpAt(d, p).gate}),
                       graph |-> b.graph (+) SetToBag(Pairs(OpAt(d, p)))]
    IN  FoldLeft(step, [gates |-> EmptyBag, graph |-> EmptyBag], GridOrder(d))

\* No operation is pointed to from two cycles, and each fills its location.
Placed(d) ==
    \A k \in Cycles(d), q \in Qudits(d) : ~Idle(d, <<k, q>>) =>
        /\ q \in On(OpAt(d, <<k, q>>))
        /\ \A x \in On(OpAt(d, <<k, q>>)) : OpAt(d, <<k, x>>) = OpAt(d, <<k, q>>)

\* A method never completes with an idle cycle.
NoIdleCycle == \A k \in Cycles(c) : ~IdleCycle(c, k)

\* The iterator that follows the links visits every operation once, in an
\* order that has the same wires as the grid.
Iterates ==
    /\ Len(DagOrder(c)) = Cardinality(Points(c))
    /\ WiresIn(c, DagOrder(c)) = wires

\* Grid, links, counts and iteration tell the same circuit after every call: the
\* operations fill their locations, each method's repairs of _dag, _front and
\* _rear leave no link to where an operation was, and the gates and pairs counted
\* are those there are.
StructureAgrees ==
    Placed(c) /\ Linked(c) /\ [gates |-> c.gates, graph |-> c.graph] = CountsOf(c) /\ Iterates

\* What surround settles on can be folded, whatever point it starts from.
SurroundedFolds ==
    \A p \in Points(c), n \in 1 .. c.n : \A r \in Surround(c, p, n) : ValidRegion(c, r)

\* batch_replace puts each operation where its point was, although the ones
\* before it have moved the cycles.
BatchReplaces ==
    \A p, r \in Points(c), op \in Operations :
        LET old == CountsOf(c).gates
            gates == SetToBag({OpAt(c, p).gate}) (+) SetToBag({OpAt(c, r).gate})
            twice == SetToBag({op.gate}) (+) SetToBag({op.gate})
        IN  p # r /\ (\A x \in {p, r} : On(op) \cap On(OpAt(c, x)) # {})
              => BatchReplace(c, {p, r}, [x \in {p, r} |-> op]).gates = (old (-) gates) (+) twice

\* What a call works out beforehand is still true when it acts: a region that
\* surround has grown can be folded, and points that batch_replace was given
\* are followed through the cycles it removes.
PositionsHold == SurroundedFolds /\ BatchReplaces

\* Every call is the step on the wires that it is meant to be; fold, unfold,
\* compress and the straightening in fold leave the wires as they are.
W == INSTANCE Wires WITH wires <- wires, did <- did
KeepsWires == W!Spec

\* Taking a block apart does not change what the circuit does.
UnfoldKeepsWires == [][UnfoldCall => wires' = wires]_editVars
=============================================================================
