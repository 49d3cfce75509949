----------------------------- MODULE WorkerLoop -----------------------------
(***************************************************************************)
(* The two threads of a BQSKit worker (bqskit/runtime/worker.py) and the   *)
(* tasks they share: the delayed tasks, the ready queue, the started tasks *)
(* and the read receipt.                                                   *)
(*                                                                         *)
(* The incoming thread reads SUBMIT_BATCH, RECLAIM and CANCEL messages and *)
(* the results that wake a suspended task; the work thread promotes        *)
(* delayed tasks, pops the ready queue, runs one step of a task, and tells *)
(* the server that it is WAITING when nothing is left.  read_receipt_mutex *)
(* protects some of these steps and not others; an action here is a        *)
(* critical section of that lock or a statement outside it.  What happens  *)
(* inside one mailbox is the subject of module Mailbox.                    *)
(***************************************************************************)
EXTENDS Naturals, Sequences, FiniteSets, Lists

CONSTANTS
    Tasks,         \* tasks the server may send to this worker
    Families,      \* cancellable addresses: each is the set of the tasks that
                   \* descend from it (is_descendant_of)
    MaxBatch,      \* bound: tasks in one SUBMIT_BATCH (1: only SUBMITs)
    MaxReclaims,   \* bound: RECLAIM messages the server sends
    MaxAwaits,     \* bound: times a task is suspended
    WorkStealing,  \* BQSKIT_WORK_STEALING
    None

ASSUME FamiliesAssumption == Families \subseteq SUBSET Tasks
ASSUME BoundsAssumption   == MaxBatch \in Nat /\ MaxReclaims \in Nat
                             /\ MaxAwaits \in Nat
ASSUME StealAssumption    == WorkStealing \in BOOLEAN
ASSUME NoneAssumption     == None \notin Tasks \cup {"work", "incoming"}

VARIABLES
    unsent,      \* tasks the server has not sent here yet
    received,    \* tasks read from the connection
    delayed,     \* _delayed_tasks
    ready,       \* _ready_task_ids
    started,     \* the tasks in _tasks
    suspended,   \* started tasks that await a result
    cancelled,   \* _cancelled_task_ids, as families
    receipt,     \* most_recent_read_submit
    mutex,       \* the holder of read_receipt_mutex, or None
    pc,          \* the next step of each thread
    adding,      \* the task each thread has put in _tasks and not started
    batch,       \* the message the incoming thread handles: a batch, ...
    snapshot,    \* ... or the filtered copy of _delayed_tasks
    active,      \* the entry the work thread has popped
    seen,        \* len(_delayed_tasks) as each thread read it
    reported,    \* _last_reported_backlog
    reclaims, awaits,            \* counters for the bounds
    adds,        \* times each task was started (history)
    finished, returned, killed,  \* tasks gone: done, handed back, cancelled
    early        \* tasks cancelled before they were read (history)

queues  == <<delayed, ready, started, suspended, adding>>
fate    == <<adds, finished, returned, killed, early>>
backlog == <<seen, reported>>
bounds  == <<unsent, reclaims, awaits>>
vars    == <<bounds, received, queues, cancelled, receipt, mutex, pc, batch,
             snapshot, active, backlog, fate>>

Threads == {"work", "incoming"}
Places  == {"loop", "promote", "start", "pop", "block", "check", "step",
            "recv", "add", "extend", "give_back", "filter", "rebind",
            "report", "compare", "send", "dead"}

TypeOK ==
    /\ unsent \subseteq Tasks /\ received \subseteq Tasks
    /\ delayed \in Seq(Tasks) /\ ready \in Seq(Tasks)
    /\ batch \in Seq(Tasks) /\ snapshot \in Seq(Tasks)
    /\ started \subseteq Tasks /\ suspended \subseteq Tasks
    /\ cancelled \subseteq Families
    /\ receipt \in Tasks \cup {None} /\ active \in Tasks \cup {None}
    /\ reclaims \in Nat /\ awaits \in [Tasks -> Nat]
    /\ pc \in [Threads -> Places]
    /\ mutex = IF pc["incoming"] \in {"add", "start", "extend"} THEN "incoming"
               ELSE IF pc["work"] = "start" THEN "work" ELSE None
    /\ adding \in [Threads -> Tasks \cup {None}]
    /\ seen \in [Threads -> Nat]
    /\ reported \in Nat \cup {None}
    /\ adds \in [Tasks -> Nat]
    /\ finished \cup returned \cup killed \cup early \subseteq Tasks

Init ==
    /\ unsent = Tasks /\ received = {} /\ reclaims = 0
    /\ awaits = [t \in Tasks |-> 0]
    /\ delayed = <<>> /\ ready = <<>> /\ started = {} /\ suspended = {}
    /\ cancelled = {} /\ receipt = None /\ mutex = None
    /\ pc = [th \in Threads |-> IF th = "work" THEN "loop" ELSE "recv"]
    /\ batch = <<>> /\ snapshot = <<>> /\ active = None
    /\ adding = [th \in Threads |-> None]
    /\ seen = [th \in Threads |-> 0] /\ reported = None
    /\ adds = [t \in Tasks |-> 0]
    /\ finished = {} /\ returned = {} /\ killed = {} /\ early = {}

Goto(th, from, to) == pc[th] = from /\ pc' = [pc EXCEPT ![th] = to]

\* The task or one of its ancestors is in _cancelled_task_ids.
IsCancelled(t) == \E f \in cancelled : t \in f

----------------------------------------------------------------------------
(* Plausible mistakes, each a variant of a definition below.               *)


\* Replacing the delayed tasks by those of the new batch.
DelayRest_Replace ==
    /\ Goto("incoming", "extend", "report")
    /\ delayed' = batch /\ batch' = <<>>
    /\ mutex' = None
    /\ UNCHANGED <<bounds, received, ready, started, suspended, adding, cancelled,
                   receipt, snapshot, active, backlog, fate>>

\* WAITING sent without the lock.
SendWaiting_NoLock ==
    /\ ready = <<>>
    /\ Goto("work", "pop", "block")
    /\ UNCHANGED <<bounds, received, queues, cancelled, receipt, mutex, batch,
                   snapshot, active, backlog, fate>>

----------------------------------------------------------------------------
(* Shared helpers.                                                         *)

\* _add_task: the task is put in _tasks ...
AddTask(th, t) ==
    /\ started' = started \cup {t}
    /\ adding' = [adding EXCEPT ![th] = t]

\* ... and then gets its coroutine and is queued.
StartTask(th) ==
    /\ adds' = [adds EXCEPT ![adding[th]] = @ + 1]
    /\ ready' = Append(ready, adding[th])
    /\ adding' = [adding EXCEPT ![th] = None]

\* _report_backlog, from the read of the length to the send; `back` is where
\* the thread goes on.
ReadBacklog(th, from, back) ==
    /\ Goto(th, from, IF WorkStealing THEN "compare" ELSE back)
    /\ seen' = [seen EXCEPT ![th] = Len(delayed)]
    /\ UNCHANGED <<bounds, received, queues, cancelled, receipt, mutex, batch,
                   snapshot, active, reported, fate>>

CompareBacklog(th, back) ==
    /\ Goto(th, "compare", IF seen[th] = reported THEN back ELSE "send")
    /\ reported' = seen[th]
    /\ UNCHANGED <<bounds, received, queues, cancelled, receipt, mutex, batch,
                   snapshot, active, seen, fate>>

\* The BACKLOG itself is in module Dispatch; here only its time matters.
SendBacklog(th, back) ==
    /\ Goto(th, "send", back)
    /\ UNCHANGED <<bounds, received, queues, cancelled, receipt, mutex, batch,
                   snapshot, active, backlog, fate>>

----------------------------------------------------------------------------
(* The incoming thread.                                                    *)

\* SUBMIT_BATCH (or SUBMIT, a batch of one): take the lock and move the read
\* receipt to the first task of the batch.
ReadBatch ==
    /\ mutex = None /\ mutex' = "incoming"
    /\ Goto("incoming", "recv", "add")
    /\ \E n \in 1..MaxBatch : \E b \in [1..n -> unsent] :
          /\ \A i, j \in 1..n : b[i] = b[j] => i = j
          /\ batch' = b /\ receipt' = b[1]
          /\ unsent' = unsent \ Range(b)
          /\ received' = received \cup Range(b)
          /\ early' = early \cup {t \in Range(b) : IsCancelled(t)}
    /\ UNCHANGED <<reclaims, awaits, queues, cancelled, snapshot, active,
                   backlog, adds, finished, returned, killed>>

\* self._add_task(tasks.pop())
AddLast ==
    /\ Goto("incoming", "add", "start")
    /\ AddTask("incoming", batch[Len(batch)])
    /\ batch' = SubSeq(batch, 1, Len(batch) - 1)
    /\ UNCHANGED <<bounds, received, delayed, ready, suspended, cancelled, receipt,
                   mutex, snapshot, active, backlog, fate>>

StartLast ==
    /\ Goto("incoming", "start", "extend")
    /\ StartTask("incoming")
    /\ UNCHANGED <<bounds, received, delayed, started, suspended, cancelled,
                   receipt, mutex, batch, snapshot, active, backlog,
                   finished, returned, killed, early>>

\* Delay the rest and release the lock.
DelayRest ==
    /\ Goto("incoming", "extend", "report")
    /\ delayed' = delayed \o batch /\ batch' = <<>>
    /\ mutex' = None
    /\ UNCHANGED <<bounds, received, ready, started, suspended, adding, cancelled,
                   receipt, snapshot, active, backlog, fate>>

\* RECLAIM, under the lock: the front of _delayed_tasks is taken out.
Reclaim(n) ==
    /\ reclaims < MaxReclaims /\ reclaims' = reclaims + 1
    /\ mutex = None
    /\ Goto("incoming", "recv", "give_back")
    /\ n \in 1..Len(delayed)
    /\ batch' = SubSeq(delayed, 1, n)
    /\ delayed' = SubSeq(delayed, n + 1, Len(delayed))
    /\ UNCHANGED <<unsent, awaits, received, ready, started, suspended, adding,
                   cancelled, receipt, mutex, snapshot, active, backlog, fate>>

\* ... and sent back up, without the cancelled ones: UPDATE, SUBMIT_BATCH.
GiveBack ==
    /\ Goto("incoming", "give_back", "report")
    /\ returned' = returned \cup {t \in Range(batch) : ~IsCancelled(t)}
    /\ killed' = killed \cup {t \in Range(batch) : IsCancelled(t)}
    /\ batch' = <<>>
    /\ UNCHANGED <<bounds, received, queues, cancelled, receipt, mutex,
                   snapshot, active, backlog, adds, finished, early>>

\* A RESULT (or any wake-up) for a suspended task.
Wake(t) ==
    /\ pc["incoming"] = "recv" /\ t \in suspended
    /\ suspended' = suspended \ {t}
    /\ ready' = Append(ready, t)
    /\ UNCHANGED <<bounds, received, delayed, started, adding, cancelled, receipt,
                   mutex, pc, batch, snapshot, active, backlog, fate>>

\* Descendants in _tasks that have no coroutine yet: the work thread has just
\* put one there, so it is the last of the dictionary.
Unborn(f) == {t \in started \cap f : adds[t] = 0}

\* CANCEL: the address is remembered, and started descendants are dropped.  No
\* lock is taken: a task without a coroutine raises a RuntimeError when it is
\* cancelled, after the others, and the incoming thread is gone.
CancelStarted(f) ==
    /\ f \in Families \ cancelled
    /\ Goto("incoming", "recv", IF Unborn(f) = {} THEN "filter" ELSE "dead")
    /\ cancelled' = cancelled \cup {f}
    /\ started' = started \ (f \ Unborn(f)) /\ suspended' = suspended \ f
    /\ killed' = killed \cup ((started \cap f) \ Unborn(f))
    /\ UNCHANGED <<bounds, received, delayed, ready, adding, receipt, mutex, batch,
                   snapshot, active, backlog,
                   adds, finished, returned, early>>

\* The comprehension over _delayed_tasks, evaluated without the lock ...
FilterDelayed ==
    /\ Goto("incoming", "filter", "rebind")
    /\ snapshot' = Filtered(delayed, {t \in Tasks : ~IsCancelled(t)})
    /\ killed' = killed \cup {t \in Range(delayed) : IsCancelled(t)}
    /\ UNCHANGED <<bounds, received, queues, cancelled, receipt, mutex, batch,
                   active, backlog, adds, finished, returned, early>>

\* ... and the assignment that replaces the list.
RebindDelayed ==
    /\ Goto("incoming", "rebind", "recv")
    /\ delayed' = snapshot /\ snapshot' = <<>>
    /\ UNCHANGED <<bounds, received, ready, started, suspended, adding, cancelled,
                   receipt, mutex, batch, active, backlog, fate>>

IncomingStep ==
    \/ ReadBatch \/ AddLast \/ StartLast \/ DelayRest
    \/ \E n \in 1..Len(delayed) : Reclaim(n)
    \/ GiveBack
    \/ \E t \in Tasks : Wake(t)
    \/ \E f \in Families : CancelStarted(f)
    \/ FilterDelayed \/ RebindDelayed
    \/ ReadBacklog("incoming", "report", "recv")
    \/ CompareBacklog("incoming", "recv") \/ SendBacklog("incoming", "recv")

----------------------------------------------------------------------------
(* The work thread: _get_next_ready_task and _try_step_next_ready_task.    *)

\* Nothing ready but something delayed: go and promote it.
Look ==
    /\ Goto("work", "loop", IF ready = <<>> /\ delayed # <<>>
                            THEN "promote" ELSE "pop")
    /\ UNCHANGED <<bounds, received, queues, cancelled, receipt, mutex, batch,
                   snapshot, active, backlog, fate>>

\* Under the lock: the newest delayed task is put in _tasks, if one is left, ...
Promote ==
    /\ mutex = None
    /\ IF delayed = <<>>
       THEN /\ Goto("work", "promote", "report")
            /\ UNCHANGED <<delayed, started, adding, mutex>>
       ELSE /\ Goto("work", "promote", "start")
            /\ AddTask("work", delayed[Len(delayed)])
            /\ delayed' = SubSeq(delayed, 1, Len(delayed) - 1)
            /\ mutex' = "work"
    /\ UNCHANGED <<bounds, received, ready, suspended, cancelled, receipt,
                   batch, snapshot, active, backlog, fate>>

\* ... and started, and the lock is released.
StartPromoted ==
    /\ Goto("work", "start", "report")
    /\ StartTask("work")
    /\ mutex' = None
    /\ UNCHANGED <<bounds, received, delayed, started, suspended, cancelled,
                   receipt, batch, snapshot, active, backlog,
                   finished, returned, killed, early>>

PopNow ==
    /\ mutex = None /\ ready # <<>>
    /\ Goto("work", "pop", "check")
    /\ active' = Head(ready) /\ ready' = Tail(ready)
    /\ UNCHANGED <<bounds, received, delayed, started, suspended, adding,
                   cancelled, receipt, mutex, batch, snapshot, backlog, fate>>

\* The queue is empty: WAITING is sent with the read receipt, under the lock.
SendWaiting ==
    /\ mutex = None /\ ready = <<>>
    /\ Goto("work", "pop", "block")
    /\ UNCHANGED <<bounds, received, queues, cancelled, receipt, mutex, batch,
                   snapshot, active, backlog, fate>>

\* The blocking get, without the lock.
PopBlocked ==
    /\ ready # <<>>
    /\ Goto("work", "block", "check")
    /\ active' = Head(ready) /\ ready' = Tail(ready)
    /\ UNCHANGED <<bounds, received, delayed, started, suspended, adding,
                   cancelled, receipt, mutex, batch, snapshot, backlog, fate>>

\* An entry of a cancelled or unknown task is discarded.
CheckEntry ==
    /\ Goto("work", "check",
            IF IsCancelled(active) \/ active \notin started
            THEN "loop" ELSE "step")
    /\ killed' = IF IsCancelled(active) THEN killed \cup {active} ELSE killed
    /\ active' = IF IsCancelled(active) \/ active \notin started
                 THEN None ELSE active
    /\ UNCHANGED <<bounds, received, queues, cancelled, receipt, mutex, batch,
                   snapshot, backlog, adds, finished, returned, early>>

\* One step of the task's coroutine: it awaits something ...
StepAwaits ==
    /\ Goto("work", "step", "loop")
    /\ awaits[active] < MaxAwaits
    /\ awaits' = [awaits EXCEPT ![active] = @ + 1]
    /\ suspended' = IF active \in started THEN suspended \cup {active}
                    ELSE suspended
    /\ active' = None
    /\ UNCHANGED <<unsent, reclaims, received, delayed, ready, started, adding,
                   cancelled, receipt, mutex, batch, snapshot, backlog, fate>>

\* ... or returns.
StepReturns ==
    /\ Goto("work", "step", "loop")
    /\ started' = started \ {active}
    /\ finished' = finished \cup (started \cap {active})
    /\ active' = None
    /\ UNCHANGED <<bounds, received, delayed, ready, suspended, adding, cancelled,
                   receipt, mutex, batch, snapshot, backlog,
                   adds, returned, killed, early>>

WorkStep ==
    \/ Look \/ Promote \/ StartPromoted \/ PopNow \/ SendWaiting \/ PopBlocked \/ CheckEntry
    \/ StepAwaits \/ StepReturns
    \/ ReadBacklog("work", "report", "loop")
    \/ CompareBacklog("work", "loop") \/ SendBacklog("work", "loop")

Next == IncomingStep \/ WorkStep

\* Both threads run; a suspended task's result arrives.  The server is free
\* to send nothing more.
Fairness ==
    /\ WF_vars(WorkStep)
    /\ WF_vars(pc["incoming"] # "recv" /\ IncomingStep)
    /\ \A t \in Tasks : WF_vars(Wake(t))

Spec     == Init /\ [][Next]_vars
FairSpec == Spec /\ Fairness

----------------------------------------------------------------------------
(* Properties.                                                             *)

\* The tasks a RECLAIM has taken out and not sent back yet.
Reclaimed == IF pc["incoming"] = "give_back" THEN Range(batch) ELSE {}

\* The worker says it is waiting only when every task it has read up to the
\* receipt it quotes is delayed, suspended or gone: the check of the queue
\* and the read of the receipt are one step for the incoming thread.
WaitingIsTrue ==
    [][SendWaiting => received \subseteq Range(delayed) \cup suspended
            \cup Reclaimed \cup finished \cup returned \cup killed]_vars

\* A task sent to this worker is started at most once here.
StartedOnce == \A t \in Tasks : adds[t] <= 1

\* As long as nothing is cancelled, a task is started at most once here, and
\* one that was handed back to the server is not started at all.
StartedOrReturned ==
    cancelled = {} =>
        \A t \in Tasks : adds[t] + (IF t \in returned THEN 1 ELSE 0) <= 1

\* No task is lost or run twice between the two threads, a reclaim and a
\* cancel: every task read is delayed, about to be, started, or gone; none is
\* both started and handed back; one that was already cancelled when it
\* arrived never runs.
TasksAccounted ==
    /\ received \subseteq Range(delayed) \cup Range(batch) \cup started
                          \cup finished \cup returned \cup killed
    /\ StartedOrReturned
    /\ \A t \in early : active = t => pc["work"] # "step"


\* "an unhandled RuntimeError in recv_incoming kills the worker": none is
\* raised.  The code raises one in task.cancel().
IncomingSurvives == pc["incoming"] # "dead"

\* A task that is read is run to its end, handed back, or cancelled.
ReadTasksEnd ==
    \A t \in Tasks :
        t \in received ~> t \in finished \cup returned \cup killed
=============================================================================
