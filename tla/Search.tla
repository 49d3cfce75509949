------------------------------- MODULE Search -------------------------------
(***************************************************************************)
(* Best-first synthesis: QSearchSynthesisPass and LEAPSynthesisPass over   *)
(* their Frontier.  A circuit is a node: its cost after instantiation, an  *)
(* integer chosen by the environment, its depth in layers, and its number. *)
(* One round pops nodes, sends their successors to the workers, takes the  *)
(* answers and evaluates them one by one.                                  *)
(*                                                                         *)
(* The logging probes of leap.py are left out.                             *)
(***************************************************************************)
EXTENDS Integers, Sequences, FiniteSets, SequencesExt, FiniteSetsExt

CONSTANTS
    Jobs,       \* the passes with their options, see JobType
    Costs,      \* the costs an instantiation may reach
    Fanout,     \* the numbers of successors a layer generator may return
    MaxNodes    \* bound: no successors once so many nodes are known

VARIABLES
    job,        \* the options of this pass
    phase,      \* "start", "round", "pop", "drain", "evaluate", "done"
    frontier,   \* Frontier._frontier, the heap as a set
    counter,    \* Frontier._counter
    best,       \* best_circ, best_dist and best_layer as a node
    leap,       \* best_layers, best_dists and last_prefix_layer
    greedy,     \* greedy_hist and current_beam
    round,      \* popped, successors, the workers' answers, what has arrived
    psols,      \* data['psols'] as being built
    known,      \* every node evaluated so far, by number (history)
    opened,     \* the numbers of the nodes popped (history)
    result      \* what synthesize returned

searchVars == <<job, phase, frontier, counter, best, leap, greedy, round,
                psols, known, opened, result>>

None == 0       \* a bound that is not set
Success == 1    \* success_threshold: a cost below it ends the search

JobType ==
    [alg : {"qsearch", "leap"}, heuristic : {"astar", "greedy", "dijkstra"},
     maxLayer : Nat, keep : Nat, minPrefix : Nat, beam : Nat, budget : Nat,
     window : Nat, beamMin : Nat, beamMax : Nat, drain : BOOLEAN, starts : Nat]

NoNode == [id |-> 0, cost |-> -1, depth |-> -1]
EmptyRound ==
    [popped |-> <<>>, successors |-> <<>>, answers |-> <<>>, circuits |-> <<>>, at |-> 1]

-----------------------------------------------------------------------------
(* The frontier.                                                           *)

Heuristic(node) ==
    CASE job.heuristic = "astar" -> 10 * node.cost + node.depth
      [] job.heuristic = "greedy" -> node.cost
      [] job.heuristic = "dijkstra" -> node.depth

Entry(node, layer, n) ==
    [cost |-> Heuristic(node), id |-> n, node |-> node, layer |-> layer]

Before(e, f) == e.cost < f.cost \/ (e.cost = f.cost /\ e.id < f.id)

Top(entries) == CHOOSE e \in entries : \A f \in entries \ {e} : Before(e, f)

Prune(entries, k) ==
    IF k = None THEN entries
    ELSE {e \in entries : Cardinality({f \in entries : Before(f, e)}) < k}

-----------------------------------------------------------------------------
(* The decisions of one step.                                              *)

Deeper(layer) == job.maxLayer = None \/ layer < job.maxLayer

NewBest(layer, dist) ==
    \/ dist < best.cost /\ (best.cost >= Success \/ layer <= best.depth)
    \/ dist < Success /\ layer < best.depth

SumOf(s) == FoldSeq(+, 0, s)
Products(s, t) == [k \in 1 .. Len(s) |-> s[k] * t[k]]

\* scipy's linregress over the recorded bests, predicted at the new layer and
\* compared with the new best; over a single point the slope is not a number.
PredictedBelow(layer, dist, xs, ys) ==
    LET n == Len(xs)
        sxx == n * SumOf(Products(xs, xs)) - SumOf(xs) * SumOf(xs)
        sxy == n * SumOf(Products(xs, ys)) - SumOf(xs) * SumOf(ys)
    IN  n > 1 /\ sxy * (n * layer - SumOf(xs)) + SumOf(ys) * sxx < dist * n * sxx

FormsPrefix(layer, dist) ==
    /\ job.alg = "leap"
    /\ PredictedBelow(layer, dist, leap.layers, leap.dists)
    /\ layer - leap.prefix >= job.minPrefix

\* The greedy beam, when a window is set: the width of the next round from what the window bought.
Widths(width, hist) ==
    IF Len(hist) < job.window THEN IF job.beam = None THEN job.beamMin ELSE job.beam
    ELSE IF Head(hist) > Last(hist)
         THEN Min({job.beamMax, 2 * (IF width = None THEN job.beamMin ELSE width)})
         ELSE Max({job.beamMin, (IF width = None THEN job.beamMax ELSE width) \div 2})

Window(hist) == IF Len(hist) > job.window THEN Tail(hist) ELSE hist

\* Enough nodes have been expanded for this round.
RoundFull(popped, successors) ==
    \/ job.budget = None /\ greedy.beam = None
    \/ job.budget # None /\ Len(successors) >= job.budget
    \/ greedy.beam # None /\ Len(popped) >= greedy.beam

\* With parallel_multistart every starting point is a task of its own.
Owner(task) == (task - 1) \div job.starts + 1
TasksOf(s) == {t \in 1 .. Len(round.successors) * job.starts : Owner(t) = s}

\* The partial solutions of a layer: stable sort, the last one is dropped.
Partials(dists, dist) ==
    LET all == Append(dists, dist)
    IN  IF Len(all) > job.keep THEN Front(SortSeq(all, <)) ELSE all

-----------------------------------------------------------------------------
SearchInit ==
    /\ job \in Jobs
    /\ phase = "start"
    /\ frontier = {} /\ counter = 0
    /\ best = NoNode
    /\ leap = [layers |-> <<>>, dists |-> <<>>, prefix |-> 0]
    /\ greedy = [hist |-> <<>>, beam |-> None]
    /\ round = EmptyRound
    /\ psols = <<>>
    /\ known = <<>> /\ opened = {}
    /\ result = NoNode

SearchIdle ==
    /\ job = <<>> /\ phase = "idle" /\ frontier = {} /\ counter = 0 /\ best = NoNode
    /\ leap = <<>> /\ greedy = <<>> /\ round = <<>> /\ psols = <<>>
    /\ known = <<>> /\ opened = {} /\ result = NoNode

\* The initial layer, which may already be good enough.
Start(cost) ==
    LET node == [id |-> 1, cost |-> cost, depth |-> 0] IN
    /\ phase = "start"
    /\ frontier' = {Entry(node, 0, 0)} /\ counter' = 1
    /\ best' = node
    /\ known' = <<node>>
    /\ leap' = [layers |-> <<0>>, dists |-> <<cost>>, prefix |-> 0]
    /\ greedy' = [hist |-> <<>>, beam |-> job.beam]
    /\ psols' = [l \in 0 .. MaxNodes |-> <<>>]
    /\ IF cost < Success THEN phase' = "done" /\ result' = node
                         ELSE phase' = "round" /\ UNCHANGED result
    /\ UNCHANGED <<job, round, opened>>

\* The head of the main loop: the width of this round.
BeginRound ==
    /\ phase = "round" /\ frontier # {}
    /\ round' = EmptyRound
    /\ phase' = "pop"
    /\ IF job.window = None
       THEN UNCHANGED greedy
       ELSE LET hist == Window(Append(greedy.hist, best.cost))
            IN  greedy' = [greedy EXCEPT !.hist = hist,
                                         !.beam = Widths(greedy.beam, hist)]
    /\ UNCHANGED <<job, frontier, counter, best, leap, psols, known, opened, result>>

\* The layer a successor is recorded at: that of the node it comes from.
LayerOf(popped, top) == top.layer

\* One node is popped and expanded; the round may be full then.
Pop(k) ==
    LET top == Top(frontier)
        popped == Append(round.popped, top)
        new == [layer |-> LayerOf(popped, top), depth |-> top.node.depth + 1]
        successors == round.successors \o [s \in 1 .. k |-> new]
        rest == frontier \ {top}
    IN
    /\ phase = "pop"
    /\ k > 0 => Len(known) + Len(successors) <= MaxNodes
    /\ frontier' = rest
    /\ opened' = opened \cup {top.node.id}
    /\ round' = [round EXCEPT !.popped = popped, !.successors = successors]
    /\ phase' = IF rest # {} /\ ~RoundFull(popped, successors) THEN "pop"
                ELSE IF successors = <<>> THEN "round" ELSE "send"
    /\ UNCHANGED <<job, counter, best, leap, greedy, psols, known, result>>

\* The tasks go to the workers; what each will answer is the environment's.
Send ==
    /\ phase = "send"
    /\ \E answers \in [1 .. Len(round.successors) * job.starts -> Costs] :
          round' = [round EXCEPT !.answers = answers,
                                 !.circuits = [s \in 1 .. Len(round.successors) |-> None - 1]]
    /\ phase' = IF job.drain THEN "drain" ELSE "await"
    /\ UNCHANGED <<job, frontier, counter, best, leap, greedy, psols, known, opened, result>>

\* The whole map is awaited; of several starts the cheapest is kept.
Collect ==
    /\ phase = "await"
    /\ round' = [round EXCEPT !.circuits =
          [s \in 1 .. Len(round.successors) |-> Min({round.answers[t] : t \in TasksOf(s)})]]
    /\ phase' = "evaluate"
    /\ UNCHANGED <<job, frontier, counter, best, leap, greedy, psols, known, opened, result>>

\* A plausible slip: results are stored in the order they arrive.
SlotInTurn(task, arrived) == arrived + 1

\* Where a result taken with next is stored.
SlotOf(task, arrived) == task

\* async_drain: results are taken with next as they arrive, in any order.
Arrive(task) ==
    LET missing == {s \in DOMAIN round.circuits : round.circuits[s] = -1}
        arrived == Len(round.circuits) - Cardinality(missing)
    IN
    /\ phase = "drain"
    /\ task \in missing
    /\ round' = [round EXCEPT !.circuits[SlotOf(task, arrived)] = round.answers[task]]
    /\ phase' = IF missing = {task} THEN "evaluate" ELSE "drain"
    /\ UNCHANGED <<job, frontier, counter, best, leap, greedy, psols, known, opened, result>>

\* The next circuit of the round and the layer of its parent.
Layer == round.successors[round.at].layer
Candidate ==
    [id |-> Len(known) + 1, cost |-> round.circuits[round.at],
     depth |-> round.successors[round.at].depth]

\* It is good enough and returned at once.
Succeed ==
    /\ phase = "evaluate" /\ round.at <= Len(round.circuits)
    /\ Candidate.cost < Success
    /\ result' = Candidate
    /\ known' = Append(known, Candidate)
    /\ phase' = "done"
    /\ UNCHANGED <<job, frontier, counter, best, leap, greedy, round, psols, opened>>

Record(node, layer) ==
    /\ known' = Append(known, node)
    /\ psols' = [psols EXCEPT ![layer] = IF job.keep = None THEN @ ELSE Partials(@, node.cost)]
    /\ round' = [round EXCEPT !.at = @ + 1]
    /\ UNCHANGED <<job, phase, greedy, opened, result>>

\* It is not, and it forms no prefix: it joins the frontier.
Evaluate ==
    LET node == Candidate
        better == IF job.alg = "leap" THEN NewBest(Layer + 1, node.cost)
                                      ELSE node.cost < best.cost
    IN
    /\ phase = "evaluate" /\ round.at <= Len(round.circuits)
    /\ node.cost >= Success
    /\ ~(better /\ FormsPrefix(Layer + 1, node.cost))
    /\ best' = IF better THEN node ELSE best
    /\ leap' = IF better THEN [leap EXCEPT !.layers = Append(@, Layer + 1),
                                           !.dists = Append(@, node.cost)]
                         ELSE leap
    /\ IF Deeper(Layer + 1)
       THEN /\ frontier' = frontier \cup {Entry(node, Layer + 1, counter)}
            /\ counter' = counter + 1
       ELSE UNCHANGED <<frontier, counter>>
    /\ Record(node, Layer)

\* LEAP: it is a new best below the trend, long enough after the last prefix.
\* Everything else is given up.  The prefix enters the frontier twice, here and
\* with the nodes that form none.
FormPrefix ==
    LET node == Candidate IN
    /\ phase = "evaluate" /\ round.at <= Len(round.circuits)
    /\ node.cost >= Success
    /\ NewBest(Layer + 1, node.cost) /\ FormsPrefix(Layer + 1, node.cost)
    /\ best' = node
    /\ leap' = [layers |-> Append(leap.layers, Layer + 1),
                dists |-> Append(leap.dists, node.cost), prefix |-> Layer + 1]
    /\ IF Deeper(Layer + 1)
       THEN /\ frontier' = {Entry(node, Layer + 1, counter), Entry(node, Layer + 1, counter + 1)}
            /\ counter' = counter + 2
       ELSE frontier' = {} /\ UNCHANGED counter
    /\ Record(node, Layer)

\* The end of a round: LEAP bounds its frontier.
EndRound ==
    /\ phase = "evaluate" /\ round.at > Len(round.circuits)
    /\ frontier' = Prune(frontier, greedy.beam)
    /\ phase' = "round"
    /\ round' = EmptyRound
    /\ UNCHANGED <<job, counter, best, leap, greedy, psols, known, opened, result>>

GiveUp ==
    /\ phase = "round" /\ frontier = {}
    /\ result' = best
    /\ phase' = "done"
    /\ UNCHANGED <<job, frontier, counter, best, leap, greedy, round, psols, known, opened>>

SearchNext ==
    \/ \E cost \in Costs : Start(cost)
    \/ BeginRound
    \/ \E k \in Fanout : Pop(k)
    \/ Send
    \/ Collect
    \/ \E task \in 1 .. Len(round.circuits) : Arrive(task)
    \/ Succeed
    \/ Evaluate
    \/ FormPrefix
    \/ EndRound
    \/ GiveUp

SearchSpec == SearchInit /\ [][SearchNext]_searchVars /\ WF_searchVars(SearchNext)
-----------------------------------------------------------------------------
(* Properties.                                                             *)

\* What the search holds as its best, and returns when the frontier is empty,
\* is the cheapest of all circuits evaluated, in whatever order they came and
\* whatever was pruned or given up meanwhile; a circuit that is good enough is
\* never passed over.
BestIsLeast ==
    LET least == Min({known[n].cost : n \in DOMAIN known}) IN
    /\ phase \in {"round", "pop", "send", "await", "drain"} => best.cost = least
    /\ phase = "done" => IF least < Success THEN result.cost < Success
                                           ELSE result.cost = least

\* The layer a node is queued with is its depth: with several parents expanded
\* in one round every successor keeps the layer of its own.
LayerIsDepth == \A e \in frontier : e.layer = e.node.depth

\* Draining results as they arrive changes only the waiting: a successor is
\* evaluated with its own answer, as behind a barrier, or with its best start.
DrainedInOrder ==
    phase = "evaluate" =>
        \A s \in DOMAIN round.circuits :
            round.circuits[s] = Min({round.answers[t] : t \in TasksOf(s)})

\* The partial solutions of a layer are the cheapest of all circuits evaluated
\* there, as many as are kept.
PartialsCheapest ==
    \A l \in DOMAIN psols : \A c \in Costs :
        Cardinality({k \in DOMAIN psols[l] : psols[l][k] <= c}) =
            Min({job.keep, Cardinality({n \in DOMAIN known :
                known[n].depth = l + 1 /\ known[n].cost \in Success .. c})})

\* A search that bounds nothing but its depth and forms no prefix gives up only
\* when every node above the last layer has been expanded.
Exhausted ==
    phase = "done" /\ result.cost >= Success /\ job.beam = None /\ job.window = None
        /\ leap.prefix = 0 =>
        \A n \in DOMAIN known : known[n].depth < job.maxLayer => n \in opened

\* The search is sound: it returns the best it has seen, gives up only when
\* there is nothing left, and no answer, layer or partial solution is attributed
\* to another node than its own.
SearchSound ==
    BestIsLeast /\ LayerIsDepth /\ DrainedInOrder /\ PartialsCheapest /\ Exhausted
=============================================================================
