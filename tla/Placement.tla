----------------------------- MODULE Placement ------------------------------
(***************************************************************************)
(* What a server or manager works out from its view of its employees       *)
(* (bqskit/runtime/base.py): which task goes to which employee, and how    *)
(* many tasks an employee has not read; and the messages of the runtime.   *)
(***************************************************************************)
EXTENDS Lists, FiniteSets, SequencesExt

CONSTANT None    \* no worker (the server itself), no task

Batch(ts)    == [type |-> "SUBMIT_BATCH", tasks |-> ts]
Result(t, w) == [type |-> "RESULT", task |-> t, completed_by |-> w]
Reclaim(n)   == [type |-> "RECLAIM", n |-> n]
Waiting(n, r) == [type |-> "WAITING", idle |-> n, receipt |-> r]
Update(n)    == [type |-> "UPDATE", n |-> n]
Backlog(n)   == [type |-> "BACKLOG", n |-> n]

Capped(x, lo, hi) == IF x < lo THEN lo ELSE IF x > hi THEN hi ELSE x
Total(f) == FoldFunction(LAMBDA x, y : x + y, 0, f)

\* The order in which assign_tasks deals with n tasks of which k go to idle
\* workers: those first, then the others from the last one back.
DealOrder(n, k) == [i \in 1..n |-> IF i <= k THEN i ELSE n + k + 1 - i]

\* The tasks ts that place gives to e.
Share(ts, order, place, e) ==
    LET mine == Filtered([i \in DOMAIN ts |-> i], {i \in DOMAIN ts : place[i] = e})
    IN  [i \in DOMAIN mine |-> ts[order[mine[i]]]]

\* place[i] is the employee of the i-th task dealt: one with idle workers as long
\* as there are any, then one with the fewest tasks (ties are drawn at random).
FewestTasks(place, k, idle, numTasks) ==
    LET employees == DOMAIN idle IN
    /\ \A e \in employees : Cardinality({i \in 1..k : place[i] = e}) <= idle[e]
    /\ \A i \in DOMAIN place : i > k => \A e \in employees :
          numTasks[place[i]] + Cardinality({j \in 1..(i-1) : place[j] = place[i]})
            <= numTasks[e] + Cardinality({j \in 1..(i-1) : place[j] = e})

\* assign_tasks: the batches, one for each employee, that may come of it.
Assignments(ts, idle, numTasks) ==
    LET n == Len(ts)
        k == Capped(n, 0, Total(idle))
    IN  {[e \in DOMAIN idle |-> Share(ts, DealOrder(n, k), place, e)] :
            place \in {p \in [1..n -> DOMAIN idle] : FewestTasks(p, k, idle, numTasks)}}

\* get_num_of_tasks_sent_since, on a cache already cut at the read receipt.
CountSent(entries) == SumSeq([i \in DOMAIN entries |-> entries[i][2]])

\* Whether a read receipt can be found.
Found(entries, r) == r = None \/ \E e \in Range(entries) : e[1] = r

\* The part of the cache from the entry of the read receipt on, or all of it
\* for the receipt None.
CutCache(entries, r) ==
    LET at == IF r = None THEN 1
              ELSE CHOOSE i \in DOMAIN entries :
                      /\ entries[i][1] = r
                      /\ \A j \in 1..(i-1) : entries[j][1] # r
    IN  SubSeq(entries, at, Len(entries))

\* The tasks sent since the read receipt, given what is left of the cache.
SentSince(entries, r) == CountSent(IF r = None THEN entries ELSE Tail(entries))

\* handle_waiting: what is left of n idle workers once those have been read.
StillIdle(n, entries, r) ==
    LET left == n - SentSince(entries, r) IN IF left > 0 THEN left ELSE 0
=============================================================================
