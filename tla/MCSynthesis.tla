---------------------------- MODULE MCSynthesis ----------------------------
(* The synthesis modules with a set of passes each.  A behaviour is one pass: *)
(* the variables of the other modules are idle.                               *)
EXTENDS Search, Rectangle, Growth, Shannon

Leap ==
    [alg |-> "leap", heuristic |-> "astar", maxLayer |-> 2, keep |-> 0,
     minPrefix |-> 1, beam |-> 0, budget |-> 0, window |-> 0, beamMin |-> 1,
     beamMax |-> 4, drain |-> FALSE, starts |-> 1]

MCJobs ==
    {[Leap EXCEPT !.alg = "qsearch", !.keep = 1],
     [Leap EXCEPT !.alg = "qsearch", !.heuristic = "dijkstra", !.keep = 2],
     [Leap EXCEPT !.maxLayer = 3],
     [Leap EXCEPT !.beam = 2, !.minPrefix = 2, !.keep = 1, !.drain = TRUE],
     [Leap EXCEPT !.heuristic = "greedy", !.budget = 2, !.maxLayer = 3, !.drain = TRUE],
     [Leap EXCEPT !.window = 2, !.minPrefix = 2],
     [Leap EXCEPT !.beam = 2, !.starts = 2, !.maxLayer = 1]}

Square ==
    [maxLayer |-> 2, aspect |-> 1, maxBatch |-> 0, duplicates |-> TRUE,
     locations |-> <<{0, 1}, {1, 2}>>]

MCRectJobs ==
    {Square, [Square EXCEPT !.aspect = 2, !.duplicates = FALSE],
     [Square EXCEPT !.maxLayer = 3, !.locations = <<{0, 1}, {2, 3}>>]}

MCNone == {}

MCRectBatches == {[Square EXCEPT !.maxBatch = 1]}

MCGrowJobs ==
    {[pass |-> "qfast", locations |-> {{0, 1}, {1, 2}, {0, 2}}],
     [pass |-> "qfast", locations |-> {{0, 1}}],
     [pass |-> "qpredict", locations |-> {{0, 1}, {1, 2}, {2, 3}, {3, 4}}]}
    \cup [pass : {"pas"}, input : BOOLEAN, output : BOOLEAN, perms : {<<"same", "swapped">>}]

Decompose(alg, width, min, extract, outcomes) ==
    [alg |-> alg, width |-> width, min |-> min, extract |-> extract, outcomes |-> outcomes]

MCShannonJobs ==
    {Decompose("qsd", 3, 2, FALSE, {}), Decompose("qsd", 4, 2, FALSE, {}),
     Decompose("qsd", 4, 3, FALSE, {}), Decompose("zxz", 3, 2, TRUE, BOOLEAN),
     Decompose("zxz", 4, 2, TRUE, {TRUE}), Decompose("zxz", 4, 2, FALSE, {}),
     Decompose("walsh", 3, 0, FALSE, {})}

synthesisVars == <<searchVars, rectVars, growVars, shannonVars>>

Init ==
    \/ SearchInit /\ RectIdle /\ GrowIdle /\ ShannonIdle
    \/ SearchIdle /\ RectInit /\ GrowIdle /\ ShannonIdle
    \/ SearchIdle /\ RectIdle /\ GrowInit /\ ShannonIdle
    \/ SearchIdle /\ RectIdle /\ GrowIdle /\ ShannonInit

Ended ==
    /\ phase \in {"idle", "done"} /\ stage \in {"idle", "done"} /\ todo = <<>>
    /\ step = "idle" \/ (step # "idle" /\ GrowEnded)
    /\ UNCHANGED synthesisVars

Next ==
    \/ phase # "idle" /\ SearchNext /\ UNCHANGED <<rectVars, growVars, shannonVars>>
    \/ stage # "idle" /\ RectNext /\ UNCHANGED <<searchVars, growVars, shannonVars>>
    \/ step # "idle" /\ GrowNext /\ UNCHANGED <<searchVars, rectVars, shannonVars>>
    \/ shannon # <<>> /\ ShannonNext /\ UNCHANGED <<searchVars, rectVars, growVars>>
    \/ Ended

Spec == Init /\ [][Next]_synthesisVars /\ WF_rectVars(RectNext)
=============================================================================
