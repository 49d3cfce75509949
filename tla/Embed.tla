------------------------------- MODULE Embed -------------------------------
(***************************************************************************)
(* EmbedAllPermutationsPass: a block is synthesised for pairs of input and *)
(* output permutations and for every topology; each result also serves,    *)
(* renumbered, for the other labellings of its qudits.  PAM looks circuits *)
(* up by the topology it finds and the permutations it wants.              *)
(*                                                                         *)
(* A circuit is the edges it uses, its score (its multi-qudit operations)  *)
(* and what it computes: argument i of the block enters at wire pre[i] and *)
(* leaves at wire post[i].                                                 *)
(***************************************************************************)
EXTENDS Graph

CONSTANTS
    EmbedJobs,      \* see EmbedJobType
    Scores          \* the scores a synthesised circuit may have

VARIABLES
    block,          \* the job
    results,        \* what was synthesised, in the order of the targets
    permData,       \* data['permutation_data']
    stored          \* results recorded; one more than their number at the end

embedVars == <<block, results, permData, stored>>

\* graphs: the topologies selected; original: the score of the block's own
\* circuit when its gates are native, and its edges.
EmbedJobType ==
    [width : Nat, input : BOOLEAN, output : BOOLEAN, graphs : Seq(SUBSET (Nat \X Nat)),
     native : BOOLEAN, original : [edges : SUBSET (Nat \X Nat), score : Nat]]

Wires == 0 .. block.width - 1
NoPerm == [w \in Wires |-> w]
Perms == Renumberings[block.width][block.width]

\* it.product of the permutations that vary, in some fixed order.
PermPairs ==
    SetToSeq((IF block.input THEN Perms ELSE {NoPerm}) \X (IF block.output THEN Perms ELSE {NoPerm}))

GraphOf(i) == block.graphs[1 + ((i - 1) % Len(block.graphs))]
PermsOf(pairs, i) == pairs[1 + ((i - 1) \div Len(block.graphs))]

\* Every target meets its permutations within its topology.
EmbedInit ==
    /\ block \in EmbedJobs
    /\ \E pairs \in {PermPairs} :
         \E scores \in [1 .. Len(pairs) * Len(block.graphs) -> Scores] :
           results = [i \in DOMAIN scores |->
                        [pre |-> PermsOf(pairs, i)[1], post |-> PermsOf(pairs, i)[2],
                         edges |-> IF scores[i] = 0 THEN {} ELSE GraphOf(i), score |-> scores[i]]]
    /\ permData = <<>> /\ stored = 0

EmbedIdle ==
    /\ block = [width |-> 0, input |-> FALSE, output |-> FALSE, graphs |-> <<>>, native |-> FALSE,
                original |-> [edges |-> {}, score |-> 0]]
    /\ results = <<>> /\ permData = <<>> /\ stored = -1

\* Keep the better of what is there and a new circuit.
Keep(data, key, c) ==
    IF key \in DOMAIN data /\ data[key].score <= c.score THEN data ELSE (key :> c) @@ data

\* Mutant of Renumber: the permutations are composed the other way round.
Renumber_Reversed(u, perm) == [i \in Wires |-> perm[u[i]]]

Renumber(u, perm) == [i \in Wires |-> u[perm[i]]]
RenumberEdges(u, edges) == {Edge(u[e[1]], u[e[2]]) : e \in edges}

\* renumber_qudits moves every operation of the circuit to the new wires.
Renumbered(u, c) ==
    [c EXCEPT !.pre = [i \in Wires |-> u[c.pre[i]]], !.post = [i \in Wires |-> u[c.post[i]]],
              !.edges = RenumberEdges(u, c.edges)]

KeepRenumbered(data, c, perm, us) ==
    FoldSet(LAMBDA u, acc :
              Keep(acc, <<RenumberEdges(u, c.edges), Renumber(u, perm[1]), Renumber(u, perm[2])>>,
                   Renumbered(u, c)),
            data, us)

\* A result and its renumberings, under the topology they actually use.
Record(pairs) ==
    /\ stored \in 0 .. Len(results) - 1
    /\ LET c == results[stored + 1]
           perm == PermsOf(pairs, stored + 1)
           own == Keep(permData, <<GraphOf(stored + 1), perm[1], perm[2]>>, c)
       IN  permData' = KeepRenumbered(own, c, perm, Perms \ {NoPerm})
    /\ stored' = stored + 1
    /\ UNCHANGED <<block, results>>

\* The original circuit takes the place of worse ones, wherever it fits.
OriginalAs(u) ==
    [pre |-> u, post |-> u, edges |-> RenumberEdges(u, block.original.edges), score |-> block.original.score]

Original ==
    /\ stored = Len(results)
    /\ permData' =
         IF ~block.native THEN permData
         ELSE FoldSet(LAMBDA ug, acc :
                        IF OriginalAs(ug[1]).edges \subseteq ug[2]
                        THEN Keep(acc, <<ug[2], ug[1], ug[1]>>, OriginalAs(ug[1])) ELSE acc,
                      permData, Perms \X {key[1] : key \in DOMAIN permData})
    /\ stored' = stored + 1
    /\ UNCHANGED <<block, results>>

EmbedNext == (\E pairs \in {PermPairs} : Record(pairs)) \/ Original

EmbedDone == stored = Len(results) + 1

\* A circuit that PAM finds under a topology and a pair of permutations uses
\* only that topology's edges and computes the block with those permutations;
\* no result for them, nor the block's own circuit, would have been cheaper;
\* every topology that was asked for has a circuit for every pair asked.
EmbedSound ==
    /\ \A key \in DOMAIN permData :
         LET c == permData[key]
         IN  /\ c.edges \subseteq key[1] /\ c.pre = key[2] /\ c.post = key[3]
             /\ EmbedDone /\ block.native /\ key[2] = key[3] /\ OriginalAs(key[2]).edges \subseteq key[1]
                  => c.score <= block.original.score
    /\ stored > 0 =>
         \A i \in 1 .. Min({stored, Len(results)}) :
           \E key \in DOMAIN permData :
             /\ key = <<GraphOf(i), results[i].pre, results[i].post>>
             /\ permData[key].score <= results[i].score
=============================================================================
