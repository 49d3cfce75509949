------------------------------- MODULE Growth -------------------------------
(***************************************************************************)
(* Synthesis that grows one circuit: QFASTDecompositionPass, which moves   *)
(* and fixes a head gate of variable location, QPredictDecompositionPass,  *)
(* which tries predicted locations and takes back those that do not help,  *)
(* and PermutationAwareSynthesisPass around either.  What an instantiation *)
(* reaches and what the analysis predicts is the environment's.            *)
(***************************************************************************)
EXTENDS Integers, Sequences, FiniteSets, SequencesExt, FiniteSetsExt

CONSTANTS
    GrowJobs,       \* the passes with the locations of their model
    Distances,      \* what an instantiation may reach; 0 is a success
    MaxGates        \* bound: neither pass bounds its circuit, max_depth is unused

VARIABLES
    grow,       \* the pass and its locations
    step,       \* "instantiate", "decide", "predict", "done", "error"
    gates,      \* the circuit without QFAST's head: gates with their cycles
    head,       \* the locations the head may still take
    at,         \* the location the head has, or QPredict is trying
    failed,     \* failed_locs: locations with their distances
    last,       \* last_dist, last_cost
    kept,       \* the locations fixed or kept so far, in order (history)
    mapped      \* permutation-aware synthesis: the circuit returned, its mappings

growVars == <<grow, step, gates, head, at, failed, last, kept, mapped>>

Initially == 1 + CHOOSE d \in Distances : \A c \in Distances : c <= d

\* Circuit.append: the cycle after the last one it overlaps.
CycleFor(location) == 1 + Max({0} \cup {g.cycle : g \in {h \in gates : h.location \cap location # {}}})
Put(location) == gates \cup {[location |-> location, cycle |-> CycleFor(location)]}
Depth(circuit) == Max({0} \cup {g.cycle : g \in circuit})

GrowInit ==
    /\ grow \in GrowJobs
    /\ step = CASE grow.pass = "qfast" -> "instantiate"
                 [] grow.pass = "qpredict" -> "predict"
                 [] grow.pass = "pas" -> "permute"
    /\ gates = {} /\ head = (IF grow.pass = "qfast" THEN grow.locations ELSE {})
    /\ at = {} /\ failed = <<>> /\ last = Initially /\ kept = <<>> /\ mapped = <<>>

GrowIdle ==
    /\ grow = <<>> /\ step = "idle" /\ gates = {} /\ head = {} /\ at = {}
    /\ failed = <<>> /\ last = 0 /\ kept = <<>> /\ mapped = <<>>

-----------------------------------------------------------------------------
(* QFAST.                                                                  *)

Instantiate(dist, location) ==
    /\ step = "instantiate" /\ location \in head
    /\ at' = location
    /\ IF dist = 0
       THEN /\ step' = "done"       \* finalize: the head becomes the gate
            /\ gates' = Put(location) /\ kept' = Append(kept, location)
            /\ UNCHANGED <<failed, last>>
       ELSE /\ step' = "decide"
            /\ failed' = Append(failed, [location |-> location, dist |-> dist])
            /\ UNCHANGED <<gates, last, kept>>
    /\ UNCHANGED <<grow, head, mapped>>

Restricted(location) == head \ {location}

\* The fresh head: all locations but the one just used.
Lifted(location) == grow.locations \ {location}

\* expand: the gate is fixed before the head, which may not take its location.
\* A head without any location raises an error.
FixGate(location, dist) ==
    /\ Len(kept) < MaxGates
    /\ gates' = Put(location)
    /\ kept' = Append(kept, location)
    /\ head' = Lifted(location)
    /\ last' = dist
    /\ failed' = <<>>
    /\ step' = IF Lifted(location) = {} THEN "error" ELSE "instantiate"
    /\ UNCHANGED <<grow, at, mapped>>

Tried == Last(failed)
Progress == last - Tried.dist >= 1      \* progress_threshold

ExpandOnProgress == step = "decide" /\ Progress /\ FixGate(at, Tried.dist)

\* No progress and no other place left: the best of the failed ones is taken,
\* the first of equals, whatever it reached.
ExpandAnyway ==
    /\ step = "decide" /\ ~Progress /\ Cardinality(head) = 1
    /\ LET least == Min({failed[f].dist : f \in DOMAIN failed})
           first == SelectInSeq(failed, LAMBDA f : f.dist = least)
       IN  FixGate(failed[first].location, least)

RestrictHead ==
    /\ step = "decide" /\ ~Progress /\ Cardinality(head) > 1
    /\ head' = Restricted(at)
    /\ step' = "instantiate"
    /\ UNCHANGED <<grow, gates, at, failed, last, kept, mapped>>

-----------------------------------------------------------------------------
(* QPredict.                                                               *)

\* A predicted location, never the one kept last, is tried.
Predict(location) ==
    /\ Len(kept) < MaxGates
    /\ kept # <<>> => location # Last(kept)
    /\ gates' = Put(location)
    /\ at' = location
    /\ step' = "measure"
    /\ UNCHANGED <<grow, head, failed, last, kept, mapped>>

KeepGate(dist) ==
    /\ step = "measure" /\ (dist = 0 \/ last - dist >= 1)
    /\ kept' = Append(kept, at)
    /\ last' = dist
    /\ step' = IF dist = 0 THEN "done" ELSE "predict"
    /\ UNCHANGED <<grow, gates, head, at, failed, mapped>>

\* circuit.pop((-1, loc[0])): the operation of the last cycle on that qudit.
\* A plausible slip pops the last operation of the circuit.
LastGate(location) ==
    {g \in gates : g.cycle = Depth(gates)
        /\ \A h \in gates : h.cycle = g.cycle => Max(h.location) <= Max(g.location)}
PoppedGate(location) == {g \in gates : g.cycle = Depth(gates) /\ Min(location) \in g.location}

\* Where append found a place before the last cycle there is none to pop.
TakeBack(dist) ==
    /\ step = "measure" /\ dist # 0 /\ last - dist < 1
    /\ gates' = gates \ PoppedGate(at)
    /\ step' = IF PoppedGate(at) = {} THEN "error" ELSE "predict"
    /\ UNCHANGED <<grow, head, at, failed, last, kept, mapped>>

-----------------------------------------------------------------------------
(* Permutation-aware synthesis.                                            *)

\* itertools.product as a sequence: the first argument varies slowest.
ProductOf(s, t) == FlattenSeq([i \in DOMAIN s |-> [j \in DOMAIN t |-> <<s[i], t[j]>>]])

\* The input and output permutations tried.
TargetPairs(inputs, outputs) == ProductOf(inputs, outputs)

Tries(permuted) == IF permuted THEN grow.perms ELSE <<Head(grow.perms)>>

\* Every permuted target is synthesised; the first of the best circuits is
\* returned, and its pair becomes the mappings of the pass data.
Permute ==
    LET inputs == Tries(grow.input)
        outputs == Tries(grow.output)
        pairs == ProductOf(inputs, outputs)
        targets == TargetPairs(inputs, outputs)
    IN
    /\ step = "permute"
    /\ \E scores \in [DOMAIN pairs -> Distances] :
          LET best == Min({b \in DOMAIN pairs : \A c \in DOMAIN pairs : scores[b] <= scores[c]})
          IN  mapped' = [initial |-> pairs[best][1], final |-> pairs[best][2],
                         target |-> targets[best], score |-> scores[best],
                         least |-> Min({scores[b] : b \in DOMAIN pairs})]
    /\ step' = "done"
    /\ UNCHANGED <<grow, gates, head, at, failed, last, kept>>

GrowNext ==
    \/ Permute
    \/ \E d \in Distances, l \in head : Instantiate(d, l)
    \/ ExpandOnProgress
    \/ ExpandAnyway
    \/ RestrictHead
    \/ step = "predict" /\ \E l \in grow.locations : Predict(l)
    \/ \E d \in Distances : KeepGate(d) \/ TakeBack(d)

GrowEnded ==
    /\ step \in {"done", "error"} \/ (step # "measure" /\ Len(kept) = MaxGates)
    /\ UNCHANGED growVars

-----------------------------------------------------------------------------
(* Properties.                                                             *)

\* QFAST loses no location: at every layer the head and the failed attempts
\* together are all locations but the one fixed last, so that each has been
\* tried before the pass settles for the best of those that failed.
HeadAccounts ==
    step \in {"instantiate", "decide"} =>
        /\ head \cup {failed[f].location : f \in DOMAIN failed} =
               grow.locations \ (IF kept = <<>> THEN {} ELSE {Last(kept)})
        /\ step = "instantiate" => \A f \in DOMAIN failed : failed[f].location \notin head

\* The mappings that permutation-aware synthesis reports are those of the circuit
\* it returns, which no other one beats.
MappingsMatch ==
    mapped # <<>> => /\ mapped.target = <<mapped.initial, mapped.final>>
                     /\ mapped.score = mapped.least

\* Unless it stops with an error, what QPredict takes back is the gate it has
\* just tried: the circuit is what was kept, each gate where append put it.
OnlyKept ==
    step \in {"predict", "done"} =>
        gates = FoldLeft(LAMBDA c, l :
            c \cup {[location |-> l,
                     cycle |-> 1 + Max({0} \cup {g.cycle : g \in {h \in c : h.location \cap l # {}}})]},
            {}, kept)

\* What is grown is what was decided: no location escapes the trials, a gate taken
\* back is the one just tried, and the mappings are those of the circuit.
GrowthSound == HeadAccounts /\ MappingsMatch /\ OnlyKept
=============================================================================
