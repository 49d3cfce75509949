------------------------------- MODULE Wires -------------------------------
(***************************************************************************)
(* What a circuit promises.  On every qudit it is a sequence of            *)
(* operations; circuits with the same wires have the same unitary, however *)
(* their grids are drawn and whatever is boxed in a CircuitGate.  A method *)
(* of ir/circuit.py adds operations, removes them, replaces one, changes   *)
(* the qudits, or leaves the wires alone.                                  *)
(***************************************************************************)
EXTENDS Integers, FiniteSets, SequencesExt

VARIABLES wires,   \* for each qudit, its operations [gate, loc] from first to last
          did      \* what the last call was for

vars == <<wires, did>>

\* An operation and which of its equals it is: the same token on all its qudits.
Token(w, q, j) == <<w[q][j], Cardinality({i \in 1..j : w[q][i] = w[q][j]})>>
Tokens(w) == UNION {{Token(w, q, j) : j \in DOMAIN w[q]} : q \in DOMAIN w}
Places(w, q, D) == {j \in DOMAIN w[q] : Token(w, q, j) \in D}

Erased(w, D) ==
    [q \in DOMAIN w |->
        LET kept == SetToSortSeq(DOMAIN w[q] \ Places(w, q, D), <)
        IN  [i \in DOMAIN kept |-> w[q][kept[i]]]]

\* On each wire the operations in D follow one another.
Together(w, D) ==
    \A q \in DOMAIN w : LET at == Places(w, q, D) IN
        at # {} => Max(at) - Min(at) + 1 = Cardinality(at)

\* What came in stands where what went out stood.
InPlace(old, out, new, in) ==
    \A q \in DOMAIN old : Places(old, q, out) # {} /\ Places(new, q, in) # {}
        => Min(Places(old, q, out)) = Min(Places(new, q, in))

Init == wires = [q \in DOMAIN wires |-> <<>>] /\ did = "nothing"

\* Each compares the wires before with those after.
Adds(old, new) ==
    \E in \in SUBSET Tokens(new) : Erased(new, in) = old /\ Together(new, in)

Removes(old, new) == \E out \in SUBSET Tokens(old) : new = Erased(old, out)

Replaces(old, new) ==
    \E out \in SUBSET Tokens(old), in \in SUBSET Tokens(new) :
        /\ Together(old, out) /\ Together(new, in)
        /\ InPlace(old, out, new, in)
        /\ Erased(new, in) = Erased(old, out)

\* The operations follow the qudits; those on a qudit that goes are removed,
\* and what is in a block with them.
Requdits(old, new) ==
    \E gone \in SUBSET DOMAIN old : \E to \in [DOMAIN old \ gone -> DOMAIN new] :
    \E out \in SUBSET Tokens(old) :
        LET kept == Erased(old, out)
            moved(op) == [op EXCEPT !.loc = [i \in DOMAIN @ |-> to[@[i]]]]
        IN  /\ IsInjective(to)
            /\ IF gone = {} THEN out = {} ELSE {t \in Tokens(old) : Range(t[1].loc) \cap gone # {}} \subseteq out
            /\ \A q \in DOMAIN to : new[to[q]] = [i \in DOMAIN kept[q] |-> moved(kept[q][i])]
            /\ \A q \in DOMAIN new \ Range(to) : new[q] = <<>>

Next ==
    \E old \in {wires}, new \in {wires'} :
        \/ did' = "add" /\ Adds(old, new)
        \/ did' = "remove" /\ Removes(old, new)
        \/ did' = "replace" /\ Replaces(old, new)
        \/ did' = "requdit" /\ Requdits(old, new)
        \/ did' = "redraw" /\ old = new

Spec == Init /\ [][Next]_vars
=============================================================================
