------------------------------ MODULE Dispatch ------------------------------
(***************************************************************************)
(* How a BQSKit server places tasks on its workers                         *)
(* (bqskit/runtime/base.py, detached.py), with the workers of module Crew  *)
(* directly below it.                                                      *)
(*                                                                         *)
(* The server keeps an estimate of every worker: how many tasks it has,    *)
(* how many it delays, whether it is idle, and the batches sent to it that *)
(* it may not have read (submit_cache).  Workers send their new tasks,     *)
(* their results, WAITING with a read receipt, UPDATE and BACKLOG.  One    *)
(* connection per worker is a FIFO queue each way; the server handles one  *)
(* message at a time, from any of them.                                    *)
(***************************************************************************)
EXTENDS Crew

CONSTANTS
    StealThreshold,  \* BQSKIT_STEAL_THRESHOLD
    LeaveBehind      \* BQSKIT_STEAL_LEAVE_BEHIND

ASSUME StealAssumption == StealThreshold \in Nat /\ LeaveBehind \in Nat

VARIABLES
    numTasks, numDelayed, idle, cache,  \* the fields of each RuntimeEmployee
    numIdle,    \* num_idle_workers of the server
    reclaims,   \* n_reclaims_issued
    error,      \* the exception that stopped the server, or "none"
    submitted,  \* tasks that exist for the server
    done        \* client tasks whose result the server has

employee == <<numTasks, numDelayed, idle, cache>>
boss     == <<employee, numIdle, reclaims, error, submitted, done>>
vars     == <<boss, down, up, worker, tree>>

Init ==
    /\ numTasks = [w \in Workers |-> 0] /\ numDelayed = [w \in Workers |-> 0]
    /\ idle = [w \in Workers |-> 1] /\ cache = [w \in Workers |-> <<>>]
    /\ numIdle = Cardinality(Workers) /\ reclaims = 0 /\ error = "none"
    /\ submitted = {} /\ done = {}
    /\ down = [w \in Workers |-> <<>>] /\ up = [w \in Workers |-> <<>>]
    /\ CrewInit

----------------------------------------------------------------------------
(* Placing tasks.                                                          *)

schedule_tasks(ts) ==
    \E share \in Assignments(ts, idle, numTasks) :
        LET size  == [w \in Workers |-> Len(share[w])]
            given == {w \in Workers : size[w] > 0}
        IN /\ down' = [w \in Workers |-> IF w \in given
                         THEN Append(down[w], Batch(share[w])) ELSE down[w]]
           /\ numTasks' = [w \in Workers |-> numTasks[w] + size[w]]
           /\ idle' = [w \in Workers |-> Capped(idle[w] - size[w], 0, idle[w])]
           /\ cache' = [w \in Workers |-> IF w \in given
                          THEN Append(cache[w], <<share[w][1], size[w]>>)
                          ELSE cache[w]]
           /\ numIdle' = Total(idle')

\* try_reclaim, given the estimates the caller has just updated.
TryReclaim(exclude, delayedNow, idleNow) ==
    \E victim \in {w \in Workers : \A v \in Workers : delayedNow[v] <= delayedNow[w]} :
        LET n == delayedNow[victim] - LeaveBehind
        IN IF /\ WorkStealing /\ idleNow > 0 /\ victim # exclude
              /\ delayedNow[victim] >= StealThreshold /\ n >= 1
           THEN /\ down' = [down EXCEPT ![victim] = Append(@, Reclaim(n))]
                /\ numDelayed' = [delayedNow EXCEPT ![victim] = @ - n]
                /\ reclaims' = reclaims + 1
           ELSE down' = down /\ numDelayed' = delayedNow /\ reclaims' = reclaims

----------------------------------------------------------------------------
(* Handling messages.                                                      *)

\* The messages on a worker's connection, received in order.
Receive(w, type) ==
    /\ error = "none" /\ up[w] # <<>> /\ Head(up[w]).type = type
    /\ up' = [up EXCEPT ![w] = Tail(@)]

\* handle_new_comp_task
SubmitRoot(r) ==
    /\ error = "none" /\ r \in Roots \ submitted
    /\ submitted' = submitted \cup {r}
    /\ schedule_tasks(<<r>>)
    /\ UNCHANGED <<numDelayed, reclaims, error, done, up, worker, tree>>

HandleBatch(w) ==
    /\ Receive(w, "SUBMIT_BATCH")
    /\ schedule_tasks(Head(up[w]).tasks)
    /\ submitted' = submitted \cup Range(Head(up[w]).tasks)
    /\ UNCHANGED <<numDelayed, reclaims, error, done, worker, tree>>

\* A result counts one task less, and goes on to the worker that awaits it
\* (send_result_down) or is a client's.
HandleResult(w) ==
    /\ Receive(w, "RESULT")
    /\ numTasks' = [numTasks EXCEPT ![w] = @ - 1]
    /\ LET t == Head(up[w]).task IN
          IF home[t] = None
          THEN done' = done \cup {t} /\ UNCHANGED down
          ELSE /\ down' = [down EXCEPT ![home[t]] = Append(@, Head(up[w]))]
               /\ UNCHANGED done
    /\ UNCHANGED <<numDelayed, idle, cache, numIdle, reclaims, error,
                   submitted, worker, tree>>

HandleUpdate(w) ==
    /\ Receive(w, "UPDATE")
    /\ numTasks' = [numTasks EXCEPT ![w] = @ + Head(up[w]).n]
    /\ UNCHANGED <<numDelayed, idle, cache, numIdle, reclaims, error,
                   submitted, done, down, worker, tree>>

\* Variant: the old count of the employee not taken off.
NewIdleTotal_NoOld(w, count) == numIdle + count

NewIdleTotal(w, count) == numIdle + count - idle[w]

\* handle_waiting: the idle count of a worker, less what was sent to it
\* since the batch it read last.
HandleWaiting(w) ==
    /\ Receive(w, "WAITING")
    /\ LET r       == Head(up[w]).receipt
           entries == CutCache(cache[w], r)
           count   == StillIdle(Head(up[w]).idle, entries, r)
           total   == NewIdleTotal(w, count)
       IN IF ~Found(cache[w], r)
          THEN error' = "receipt" /\ UNCHANGED <<employee, numIdle, reclaims, down>>
          ELSE /\ cache' = [cache EXCEPT ![w] = entries]
               /\ idle' = [idle EXCEPT ![w] = count]
               /\ numIdle' = total
               /\ IF total \in 0..Cardinality(Workers)
                  THEN error' = error
                  ELSE error' = "count"
               /\ IF total \in 0..Cardinality(Workers) /\ count > 0
                  THEN TryReclaim(w, numDelayed, total)
                  ELSE UNCHANGED <<numDelayed, down, reclaims>>
               /\ UNCHANGED numTasks
    /\ UNCHANGED <<submitted, done, worker, tree>>

HandleBacklog(w) ==
    /\ Receive(w, "BACKLOG")
    /\ LET n   == Head(up[w]).n
           now == [numDelayed EXCEPT ![w] = n]
       IN IF n >= StealThreshold THEN TryReclaim(None, now, numIdle)
          ELSE numDelayed' = now /\ UNCHANGED <<down, reclaims>>
    /\ UNCHANGED <<numTasks, idle, cache, numIdle, error, submitted, done,
                   worker, tree>>

ServerStep ==
    \/ \E r \in Roots : SubmitRoot(r)
    \/ \E w \in Workers :
          \/ HandleBatch(w) \/ HandleResult(w) \/ HandleUpdate(w)
          \/ HandleWaiting(w) \/ HandleBacklog(w)

Next == \/ ServerStep
        \/ \E w \in Workers : WorkerStep(w) /\ UNCHANGED boss

\* Every process keeps running; clients need not submit anything.
Fairness ==
    /\ \A w \in Workers :
          /\ WF_vars(Incoming(w) /\ UNCHANGED boss)
          /\ WF_vars(Working(w) /\ UNCHANGED boss)
          /\ WF_vars(HandleBatch(w) \/ HandleResult(w) \/ HandleUpdate(w)
                     \/ HandleWaiting(w) \/ HandleBacklog(w))

Spec     == Init /\ [][Next]_vars
FairSpec == Spec /\ Fairness

----------------------------------------------------------------------------
(* Properties.                                                             *)

\* The server finds every read receipt in its submit_cache and its assertion
\* on the idle count holds: handle_waiting never stops it.
ServerSurvives == error = "none"

\* A task is in one place: with one worker, on its way back up, or over.
InOnePlace(t) ==
    Cardinality({w \in Workers : t \in Assigned(w)})
      + Cardinality({w \in Workers : t \in TasksOf(up[w], "SUBMIT_BATCH")})
      + (IF t \in finished THEN 1 ELSE 0) = 1

\* A reclaim neither loses nor duplicates a task, and the server's task count
\* of each worker is exact once the messages under way are counted.
TasksCounted ==
    /\ \A t \in submitted : InOnePlace(t)
    /\ \A w \in Workers : numTasks[w] + OwedIn(up[w]) = Cardinality(Assigned(w))

\* Batches, reclaims and results that travel implement the simple contract:
\* children are spawned once, a task returns once all of them have, wherever
\* they ran, and a client's task is answered once it has returned.
Contract == INSTANCE Compilation WITH
    born <- (submitted \cap Roots) \cup UNION {Range(Children[t]) : t \in mapped},
    over <- finished, answered <- done

ImplementsCompilation == Contract!Spec

\* Nothing is under way and every worker blocks on its ready queue.
Quiescent == \A w \in Workers : Blocked(w) /\ down[w] = <<>> /\ up[w] = <<>>

\* At rest the server counts every worker as idle.
IdleAtRest == Quiescent => \A w \in Workers : idle[w] = 1

\* The server's idle count is the sum of its employees', although one path
\* recomputes it and the other adjusts it; a worker it counts as idle has
\* read everything it was sent, the read receipt correcting the race of a
\* batch with a WAITING; and as long as nothing was reclaimed, every worker
\* is counted again at rest.
IdleBooks ==
    /\ numIdle = Total(idle)
    /\ \A w \in Workers :
          idle[w] > 0 => batch[w] = None /\ TasksOf(down[w], "SUBMIT_BATCH") = {}
    /\ reclaims = 0 => IdleAtRest

\* Every compilation a client submits ends, unless a worker is stuck.
RootsEnd == \A r \in Roots : r \in submitted ~> r \in done \/ Stuck
=============================================================================
