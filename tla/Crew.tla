-------------------------------- MODULE Crew --------------------------------
(***************************************************************************)
(* The workers below a server or manager (bqskit/runtime/worker.py): how   *)
(* they read batches, start, delay and hand back tasks, and what they say. *)
(* A task maps over its children once, awaits them all and returns.        *)
(*                                                                         *)
(* This is module WorkerLoop made coarser: a batch is read in two steps,   *)
(* as there, since the work thread may run in between; promotion and the   *)
(* backlog report are one step each.  What stands above the workers is not *)
(* mentioned: it takes part through the two queues of each connection.     *)
(*                                                                         *)
(* A definition marked "Variant" is a plausible mistake in the one after   *)
(* it, which the properties must notice.                                   *)
(***************************************************************************)
EXTENDS Placement

CONSTANTS
    Workers,
    Tasks,
    Children,        \* Children[t]: the tasks t maps over, as a sequence
    WorkStealing     \* BQSKIT_WORK_STEALING

ASSUME ChildrenAssumption == Children \in [Tasks -> Seq(Tasks)]
ASSUME WorkStealingAssumption == WorkStealing \in BOOLEAN
ASSUME NoneAssumption == None \notin Workers \cup Tasks \cup Seq(Tasks)
ASSUME WorkersAssumption == IsFiniteSet(Workers)

\* Every task that is mapped over gets an address of its own: it is one child
\* of one task.
ASSUME ForestAssumption ==
    \A p, t \in Tasks : \A i \in DOMAIN Children[p], j \in DOMAIN Children[t] :
        Children[p][i] = Children[t][j] => p = t /\ i = j

\* The tasks of the client, and the task that maps over t.
Roots     == {r \in Tasks : \A t \in Tasks : r \notin Range(Children[t])}
Parent(t) == CHOOSE p \in Tasks : t \in Range(Children[p])

VARIABLES
    down, up,   \* the messages on their way to and from each worker
    ready, delayed, held,  \* _ready_task_ids, _delayed_tasks, keys of _tasks
    batch,      \* the batch the incoming thread is delaying, or None
    receipt,    \* most_recent_read_submit
    reported,   \* _last_reported_backlog
    phase,      \* the work thread: "look", "pop" or "block"
    home,       \* the worker whose mailbox awaits the task's result
    missing,    \* the children whose results a task still awaits
    mapped, finished  \* tasks that have called map, that are over

worker   == <<ready, delayed, held, batch, receipt, reported, phase>>
tree     == <<home, missing, mapped, finished>>

CrewInit ==
    /\ ready = [w \in Workers |-> <<>>] /\ delayed = [w \in Workers |-> <<>>]
    /\ held = [w \in Workers |-> {}] /\ batch = [w \in Workers |-> None]
    /\ receipt = [w \in Workers |-> None]
    /\ reported = [w \in Workers |-> -1]
    /\ phase = [w \in Workers |-> "look"]
    /\ home = [t \in Tasks |-> None] /\ missing = [t \in Tasks |-> {}]
    /\ mapped = {} /\ finished = {}

Send(w, msgs) == up' = [up EXCEPT ![w] = @ \o msgs]

----------------------------------------------------------------------------
(* The incoming thread of a worker.                                        *)

\* The BACKLOG message a change of the delayed tasks calls for, if any.
Report(w, ts) == IF WorkStealing /\ Len(ts) # reported[w]
                 THEN <<Backlog(Len(ts))>> ELSE <<>>

SetDelayed(w, ts, msgs) ==
    /\ delayed' = [delayed EXCEPT ![w] = ts]
    /\ reported' = [reported EXCEPT ![w] = IF WorkStealing THEN Len(ts) ELSE @]
    /\ Send(w, msgs \o Report(w, ts))

\* It reads the next message, when it is done with the one before.
Read(w, type) ==
    /\ batch[w] = None /\ down[w] # <<>> /\ Head(down[w]).type = type
    /\ down' = [down EXCEPT ![w] = Tail(@)]

\* Variant: the receipt names the task that is started.
ReadBatch_WrongReceipt(w) ==
    /\ Read(w, "SUBMIT_BATCH")
    /\ LET ts == Head(down[w]).tasks IN
          /\ receipt' = [receipt EXCEPT ![w] = Last(ts)]
          /\ held' = [held EXCEPT ![w] = @ \cup {Last(ts)}]
          /\ ready' = [ready EXCEPT ![w] = Append(@, Last(ts))]
          /\ batch' = [batch EXCEPT ![w] = Front(ts)]
    /\ UNCHANGED <<up, delayed, reported, phase, tree>>

\* SUBMIT_BATCH: under the lock, the last task is started ...
ReadBatch(w) ==
    /\ Read(w, "SUBMIT_BATCH")
    /\ LET ts == Head(down[w]).tasks IN
          /\ receipt' = [receipt EXCEPT ![w] = ts[1]]
          /\ held' = [held EXCEPT ![w] = @ \cup {Last(ts)}]
          /\ ready' = [ready EXCEPT ![w] = Append(@, Last(ts))]
          /\ batch' = [batch EXCEPT ![w] = Front(ts)]
    /\ UNCHANGED <<up, delayed, reported, phase, tree>>

\* ... and the rest are delayed.
DelayRest(w) ==
    /\ batch[w] # None
    /\ SetDelayed(w, delayed[w] \o batch[w], <<>>)
    /\ batch' = [batch EXCEPT ![w] = None]
    /\ UNCHANGED <<down, ready, held, receipt, phase, tree>>

\* Variant: tasks handed back without the UPDATE.
HandBack_NoUpdate(ts) == IF ts = <<>> THEN <<>> ELSE <<Batch(ts)>>

\* Nothing is said when there is nothing to hand back.
HandBack(ts) == IF ts = <<>> THEN <<>> ELSE <<Update(-Len(ts)), Batch(ts)>>

\* RECLAIM: tasks from the front of the delayed ones go back, less what has
\* been started since the server asked.
ReadReclaim(w) ==
    /\ Read(w, "RECLAIM")
    /\ LET n    == Capped(Head(down[w]).n, 0, Len(delayed[w]))
           back == SubSeq(delayed[w], 1, n)
       IN SetDelayed(w, SubSeq(delayed[w], n + 1, Len(delayed[w])),
                     HandBack(back))
    /\ UNCHANGED <<ready, held, batch, receipt, phase, tree>>

\* Variant: the last result wakes nobody.
Deposit_NoWake(t) ==
    /\ missing' = [missing EXCEPT ![Parent(t)] = @ \ {t}]
    /\ UNCHANGED ready

\* Variant: any result wakes the task, as if it had called next().
Deposit_Early(t) ==
    /\ missing' = [missing EXCEPT ![Parent(t)] = @ \ {t}]
    /\ ready' = [ready EXCEPT ![home[t]] = Append(@, Parent(t))]

\* The result of t is in its mailbox: the last one a task awaits wakes it.
Deposit(t) ==
    LET p == Parent(t)
        w == home[t]
    IN /\ missing' = [missing EXCEPT ![p] = @ \ {t}]
       /\ ready' = [ready EXCEPT ![w] = IF missing[p] = {t} THEN Append(@, p) ELSE @]

ReadResult(w) ==
    /\ Read(w, "RESULT")
    /\ Deposit(Head(down[w]).task)
    /\ UNCHANGED <<up, delayed, held, batch, receipt, reported, phase,
                   home, mapped, finished>>

----------------------------------------------------------------------------
(* The work thread of a worker.                                            *)

\* read_receipt_mutex is free.
Unlocked(w) == batch[w] = None

\* Nothing is ready: the newest delayed task is started ...
Promote(w) ==
    /\ phase[w] = "look" /\ Unlocked(w)
    /\ ready[w] = <<>> /\ delayed[w] # <<>>
    /\ held' = [held EXCEPT ![w] = @ \cup {Last(delayed[w])}]
    /\ ready' = [ready EXCEPT ![w] = <<Last(delayed[w])>>]
    /\ SetDelayed(w, Front(delayed[w]), <<>>)
    /\ UNCHANGED <<down, batch, receipt, phase, tree>>

\* ... unless nothing is delayed either.
NothingDelayed(w) ==
    /\ phase[w] = "look" /\ ready[w] = <<>> /\ delayed[w] = <<>>
    /\ phase' = [phase EXCEPT ![w] = "pop"]
    /\ UNCHANGED <<down, up, ready, delayed, held, batch, receipt,
                   reported, tree>>

\* WAITING, under the lock; then the thread blocks without it.
SendWaiting(w) ==
    /\ phase[w] = "pop" /\ Unlocked(w) /\ ready[w] = <<>>
    /\ phase' = [phase EXCEPT ![w] = "block"]
    /\ Send(w, <<Waiting(1, receipt[w])>>)
    /\ UNCHANGED <<down, ready, delayed, held, batch, receipt, reported,
                   tree>>

\* The next ready task.
Pop(w, t) ==
    /\ phase[w] = "block" \/ Unlocked(w)
    /\ ready[w] # <<>> /\ t = Head(ready[w])
    /\ phase' = [phase EXCEPT ![w] = "look"]

\* It maps over its children and awaits them ...
RunToMap(w, t) ==
    /\ Pop(w, t)
    /\ Children[t] # <<>> /\ t \notin mapped
    /\ mapped' = mapped \cup {t}
    /\ missing' = [missing EXCEPT ![t] = Range(Children[t])]
    /\ home' = [c \in Tasks |-> IF c \in Range(Children[t]) THEN w ELSE home[c]]
    /\ Send(w, <<Batch(Children[t])>>)
    /\ ready' = [ready EXCEPT ![w] = Tail(@)]
    /\ UNCHANGED <<down, delayed, held, batch, receipt, reported, finished>>

\* ... or returns: its result is deposited here or sent.
RunToEnd(w, t) ==
    /\ Pop(w, t)
    /\ Children[t] = <<>> \/ t \in mapped
    /\ finished' = finished \cup {t}
    /\ held' = [held EXCEPT ![w] = @ \ {t}]
    /\ LET p    == Parent(t)
           rest == Tail(ready[w])
       IN IF home[t] = w
          THEN /\ missing' = [missing EXCEPT ![p] = @ \ {t}]
               /\ ready' = [ready EXCEPT ![w] =
                              IF missing[p] = {t} THEN Append(rest, p) ELSE rest]
               /\ Send(w, <<Update(-1)>>)
          ELSE /\ ready' = [ready EXCEPT ![w] = rest]
               /\ Send(w, <<Result(t, w)>>)
               /\ UNCHANGED missing
    /\ UNCHANGED <<down, delayed, batch, receipt, reported, home, mapped>>

Incoming(w) == ReadBatch(w) \/ DelayRest(w) \/ ReadReclaim(w) \/ ReadResult(w)

Working(w) ==
    \/ Promote(w) \/ NothingDelayed(w) \/ SendWaiting(w)
    \/ \E t \in Tasks : RunToMap(w, t) \/ RunToEnd(w, t)

WorkerStep(w) == Incoming(w) \/ Working(w)

----------------------------------------------------------------------------
(* What properties say of the workers.                                     *)

TasksOf(msgs, type) == UNION {Range(m.tasks) : m \in {x \in Range(msgs) : x.type = type}}

\* The changes of the task count that a sender has reported and its boss not handled.
Owes(m) == CASE m.type = "UPDATE" -> m.n [] m.type = "RESULT" -> -1 [] OTHER -> 0
OwedIn(msgs) == SumSeq([i \in DOMAIN msgs |-> Owes(msgs[i])])

\* Tasks sent to w that are not over, and not sent back.
Assigned(w) ==
    TasksOf(down[w], "SUBMIT_BATCH") \cup Range(delayed[w]) \cup held[w]
        \cup (IF batch[w] = None THEN {} ELSE Range(batch[w]))

\* A worker blocks on an empty ready queue with tasks delayed (see
\* ReadTasksEnd of WorkerLoop).
Stuck == \E w \in Workers : phase[w] = "block" /\ ready[w] = <<>> /\ delayed[w] # <<>>

\* A worker has said so and blocks on its ready queue.
Blocked(w) == phase[w] = "block" /\ ready[w] = <<>> /\ batch[w] = None
=============================================================================
