----------------------------- MODULE MCCircuit ------------------------------
(* A behaviour is a program that edits one circuit, or one partitioning pass  *)
(* over a circuit: the variables of the other are idle.                       *)
EXTENDS CircuitEdits, Partition

CONSTANTS x, y, b

MCGates == {x, y, b}
MCOffered == {Op(x, <<0>>), Op(x, <<0, 1>>), Op(y, <<2, 1>>)}
MCSubcircuits == {AppendOp(AppendOp(Circuit(2), Op(x, <<1>>)), Op(y, <<0, 1>>))}
\* A block that leaves its first qudit idle.
MCLopsided == {AppendOp(AppendOp(Circuit(2), Op(x, <<1>>)), Op(y, <<1>>))}

MCBarriers == {b}
MCPieces == {Op(x, <<0>>), Op(x, <<0, 1>>), Op(x, <<3, 0>>), Op(x, <<1, 2, 3>>), Op(b, <<2, 1>>), Op(b, <<0>>)}
MCBarriersApart == {Op(x, <<0, 1>>), Op(x, <<3, 0>>), Op(b, <<1, 2>>), Op(b, <<2, 3>>)}

Init ==
    \/ EditsInit /\ PartitionIdle
    \/ EditsIdle /\ PartitionInit

Next ==
    \/ c.n > 0 /\ EditsNext /\ UNCHANGED partitionVars
    \/ phase # "idle" /\ PartitionNext /\ UNCHANGED editVars

Spec == Init /\ [][Next]_<<editVars, partitionVars>>
=============================================================================
