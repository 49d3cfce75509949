------------------------------ MODULE Mailbox ------------------------------
(***************************************************************************)
(* One mailbox of a BQSKit worker (bqskit/runtime/worker.py), the task     *)
(* that owns it, and the two threads that meet in it.                      *)
(*                                                                         *)
(* The work thread runs the task's coroutine, suspends it on the mailbox   *)
(* (_process_await), pops it from the ready queue and hands it its result  *)
(* (_get_desired_result); it also deposits the results of child tasks that *)
(* ran on this very worker (_process_task_completion).  The incoming       *)
(* thread deposits the results that arrive on the connection               *)
(* (recv_incoming).  Both deposit through _handle_result and no lock       *)
(* protects it, so the two threads interleave between any two statements:  *)
(* one action below is one statement of the code, pc[t] names the next     *)
(* statement of thread t, and a statement that reads shared state and then *)
(* changes it is two actions.                                              *)
(***************************************************************************)
EXTENDS Naturals, FiniteSets

CONSTANTS
    Slots,         \* the slots of the mailbox: one child task, one result, each
    LocalChoices,  \* the sets of children the scheduler may place on this worker
    Ops,           \* what the task's code does: "await", "next" or "cancel"
                   \* this mailbox, and await an "other" one afterwards
    YieldsCredit,  \* BQSKIT_AWAIT_YIELDS_CREDIT
    None           \* no slot

ASSUME SlotsAssumption == IsFiniteSet(Slots) /\ Slots # {} /\ None \notin Slots
ASSUME LocalAssumption == LocalChoices \subseteq SUBSET Slots
ASSUME OpsAssumption   == Ops \subseteq {"await", "next", "cancel", "other"}
ASSUME YieldAssumption == YieldsCredit \in BOOLEAN

Threads == {"work", "incoming"}

VARIABLES
    exists,      \* the mailbox is in Worker._mailboxes
    num,         \* box.num_results
    hasFresh,    \* box.fresh_results is not None
    fresh,       \* the slots recorded in the list box.fresh_results
    stored,      \* the slots whose result is in box.result
    dest,        \* box.dest_addr is the task's address (else None)
    task,        \* "running", "suspended", or "done": no longer in _tasks
    other,       \* another mailbox the task awaits: "none", "waiting", "full"
    error,       \* an ERROR for the compilation task was sent
    nextFlag,    \* future._next_flag: the task calls next() on the future
    wakeOnNext,  \* task.wake_on_next
    yielded,     \* task._yielded_credit: the server counts one task less
    queue,       \* entries of the task's address in _ready_task_ids
    local,       \* children that run on this worker; the others are remote
    todo,        \* children that have not completed yet
    handed,      \* handed[s]: times the result of s was returned by next()
    answer,      \* "none", or the slots filled in what await returned
    out,         \* the slots in the list next() is about to return
    missed,      \* those appended to a list the task had already read
    pc,          \* the next statement of each thread
    item,        \* the slot each thread is depositing
    seen,        \* the count each thread has loaded
    holds        \* the list each thread has loaded: "box" is box.fresh_results,
                 \* "out" the one next() is about to return, "old" any other

box     == <<exists, num, hasFresh, fresh, stored, dest>>
taskVar == <<task, other, error, nextFlag, wakeOnNext, yielded, handed, answer>>
refs    == <<out, missed, seen, holds>>
vars    == <<box, taskVar, refs, queue, local, todo, pc, item>>

\* The statements of _handle_result and deposit_result, in order.
Deposit == {"find", "count", "add", "test_fresh", "new_fresh", "append",
            "record", "store", "check", "assert", "lookup", "decide", "wake",
            "clear", "restore"}

\* Those up to the one that records the result as fresh.
BeforeAppend == {"find", "count", "add", "test_fresh", "new_fresh", "append",
                 "record"}

\* The statements of _process_await, and the states between them.
Work == {"running", "dest", "flag", "test", "put", "yield", "take", "swap",
         "resume", "drop"}

TypeOK ==
    /\ exists \in BOOLEAN /\ hasFresh \in BOOLEAN /\ dest \in BOOLEAN
    /\ other \in {"none", "waiting", "full"}
    /\ error \in BOOLEAN /\ nextFlag \in BOOLEAN
    /\ wakeOnNext \in BOOLEAN /\ yielded \in BOOLEAN
    /\ num \in Nat /\ queue \in Nat
    /\ fresh \subseteq Slots /\ stored \subseteq Slots
    /\ out \subseteq Slots /\ missed \subseteq Slots
    /\ local \subseteq Slots /\ todo \subseteq Slots
    /\ task \in {"running", "suspended", "done"}
    /\ handed \in [Slots -> Nat]
    /\ answer \in (SUBSET Slots) \cup {{None}}
    /\ pc \in [Threads -> Deposit \cup Work \cup {"idle", "dead"}]
    /\ pc["incoming"] \in Deposit \cup {"idle", "dead"}
    /\ item \in [Threads -> Slots \cup {None}]
    /\ seen \in [Threads -> Nat]
    /\ holds \in [Threads -> {"none", "box", "out", "old"}]

----------------------------------------------------------------------------
(* The mailbox.                                                            *)

\* The task has just called map (or submit): the mailbox is fresh, each
\* child is somewhere in the system, and the task's code is running.
Init ==
    /\ exists = TRUE /\ num = 0 /\ hasFresh = FALSE
    /\ fresh = {} /\ stored = {} /\ dest = FALSE
    /\ task = "running" /\ other = "none" /\ error = FALSE
    /\ nextFlag = FALSE /\ wakeOnNext = FALSE /\ yielded = FALSE
    /\ queue = 0
    /\ local \in LocalChoices /\ todo = Slots
    /\ handed = [s \in Slots |-> 0]
    /\ answer = {None}
    /\ pc = [t \in Threads |-> IF t = "work" THEN "running" ELSE "idle"]
    /\ item = [t \in Threads |-> None]
    /\ out = {} /\ missed = {}
    /\ seen = [t \in Threads |-> 0]
    /\ holds = [t \in Threads |-> "none"]

\* Thread t moves from statement `from` to statement `to`.
Goto(t, from, to) == pc[t] = from /\ pc' = [pc EXCEPT ![t] = to]

----------------------------------------------------------------------------
(* Plausible mistakes in the code, each a variant of a definition below:   *)
(* the properties must notice them.                                        *)

\* deposit_result starting a new fresh list for every result.
TestFresh_Always(t) ==
    /\ Goto(t, "test_fresh", "new_fresh")
    /\ UNCHANGED <<box, taskVar, refs, queue, local, todo, item>>

\* Waking without restoring the credit.
ClearDest_NoRestore(t) ==
    /\ Goto(t, "clear", "idle")
    /\ dest' = FALSE
    /\ UNCHANGED <<exists, num, hasFresh, fresh, stored,
                   taskVar, refs, queue, local, todo, item>>

\* _process_await without the test "if box.ready".
TestReady_Forgotten ==
    /\ Goto("work", "test", IF YieldsCredit THEN "yield" ELSE "idle")
    /\ UNCHANGED <<box, taskVar, refs, queue, local, todo, item>>

\* A pop that does not block on an empty queue.
PopReady_Empty ==
    /\ queue' = queue - 1
    /\ Goto("work", "idle", "take")
    /\ UNCHANGED <<box, taskVar, refs, local, todo, item>>

\* get_new_results without the reset of fresh_results.
SwapFresh_NoReset ==
    /\ Goto("work", "swap", "resume")
    /\ out' = fresh
    /\ UNCHANGED <<box, taskVar, missed, seen, holds, queue, local, todo, item>>

----------------------------------------------------------------------------
(* _handle_result and deposit_result, on either thread.                    *)

\* WorkerMailbox.ready
Ready == num >= Cardinality(Slots)

\* A dropped mailbox ignores the result.
Enter(t, s) ==
    IF exists
    THEN Goto(t, "idle", "find") /\ item' = [item EXCEPT ![t] = s]
    ELSE pc[t] = "idle" /\ UNCHANGED <<pc, item>>

Receive(s) ==
    /\ s \in todo \ local /\ todo' = todo \ {s}
    /\ Enter("incoming", s)
    /\ UNCHANGED <<box, taskVar, refs, queue, local>>

LocalFinish(s) ==
    /\ s \in todo \cap local /\ todo' = todo \ {s}
    /\ Enter("work", s)
    /\ UNCHANGED <<box, taskVar, refs, queue, local>>

\* self._mailboxes[mailbox_id]: a KeyError if it was dropped since the test.
Find(t) ==
    /\ Goto(t, "find", IF exists THEN "count" ELSE "dead")
    /\ UNCHANGED <<box, taskVar, refs, queue, local, todo, item>>

\* self.num_results += 1: a load ...
CountResult(t) ==
    /\ Goto(t, "count", "add")
    /\ seen' = [seen EXCEPT ![t] = num]
    /\ UNCHANGED <<box, taskVar, out, missed, holds, queue, local, todo, item>>

\* ... and a store.
AddResult(t) ==
    /\ Goto(t, "add", "test_fresh")
    /\ num' = seen[t] + 1
    /\ UNCHANGED <<exists, hasFresh, fresh, stored, dest,
                   taskVar, refs, queue, local, todo, item>>

TestFresh(t) ==
    /\ Goto(t, "test_fresh", IF hasFresh THEN "append" ELSE "new_fresh")
    /\ UNCHANGED <<box, taskVar, refs, queue, local, todo, item>>

\* self.fresh_results = []: the old list is the one next() returns if the
\* work thread has loaded it for that, and nobody's otherwise; a thread that
\* has loaded it still appends to it.
Replace ==
    LET taken == pc["work"] = "swap" /\ holds["work"] = "box"
    IN  /\ hasFresh' = TRUE /\ fresh' = {}
        /\ out' = IF taken THEN fresh ELSE out
        /\ holds' = [u \in Threads |-> IF holds[u] # "box" THEN holds[u]
                                      ELSE IF taken THEN "out" ELSE "old"]

NewFresh(t) ==
    /\ Goto(t, "new_fresh", "append")
    /\ Replace
    /\ UNCHANGED <<exists, num, stored, dest,
                   taskVar, missed, seen, queue, local, todo, item>>

\* self.fresh_results.append(...): the list is loaded ...
LoadFresh(t) ==
    /\ Goto(t, "append", "record")
    /\ holds' = [holds EXCEPT ![t] = "box"]
    /\ UNCHANGED <<box, taskVar, out, missed, seen, queue, local, todo, item>>

\* ... and the result appended to it, whatever has become of it.
AppendFresh(t) ==
    /\ Goto(t, "record", "store")
    /\ fresh'  = IF holds[t] = "box" THEN fresh \cup {item[t]} ELSE fresh
    /\ out'    = IF holds[t] = "out" THEN out \cup {item[t]} ELSE out
    /\ missed' = IF holds[t] = "old" THEN missed \cup {item[t]} ELSE missed
    /\ holds'  = [holds EXCEPT ![t] = "none"]
    /\ UNCHANGED <<exists, num, hasFresh, stored, dest,
                   taskVar, seen, queue, local, todo, item>>

StoreResult(t) ==
    /\ Goto(t, "store", "check")
    /\ stored' = stored \cup {item[t]}
    /\ UNCHANGED <<exists, num, hasFresh, fresh, dest,
                   taskVar, refs, queue, local, todo, item>>

\* if box.has_task_waiting
CheckWaiting(t) ==
    /\ Goto(t, "check", IF dest THEN "assert" ELSE "idle")
    /\ UNCHANGED <<box, taskVar, refs, queue, local, todo, item>>

\* assert box.dest_addr is not None
AssertWaiting(t) ==
    /\ Goto(t, "assert", IF dest THEN "lookup" ELSE "dead")
    /\ UNCHANGED <<box, taskVar, refs, queue, local, todo, item>>

\* self._tasks[box.dest_addr]: a KeyError for None or for a finished task.
LookupTask(t) ==
    /\ Goto(t, "lookup", IF dest /\ task # "done" THEN "decide" ELSE "dead")
    /\ UNCHANGED <<box, taskVar, refs, queue, local, todo, item>>

\* if task.wake_on_next or box.ready
DecideWake(t) ==
    /\ Goto(t, "decide", IF wakeOnNext \/ Ready THEN "wake" ELSE "idle")
    /\ UNCHANGED <<box, taskVar, refs, queue, local, todo, item>>

\* _ready_task_ids.put(box.dest_addr): an entry None is discarded when popped.
WakeTask(t) ==
    /\ Goto(t, "wake", "clear")
    /\ queue' = IF dest THEN queue + 1 ELSE queue
    /\ UNCHANGED <<box, taskVar, refs, local, todo, item>>

ClearDest(t) ==
    /\ Goto(t, "clear", IF YieldsCredit THEN "restore" ELSE "idle")
    /\ dest' = FALSE
    /\ UNCHANGED <<exists, num, hasFresh, fresh, stored,
                   taskVar, refs, queue, local, todo, item>>

RestoreCredit(t) ==
    /\ Goto(t, "restore", "idle")
    /\ yielded' = FALSE
    /\ UNCHANGED <<box, task, other, error, nextFlag, wakeOnNext, handed, answer,
                   refs, queue, local, todo, item>>

DepositStep(t) ==
    \/ Find(t) \/ CountResult(t) \/ AddResult(t) \/ TestFresh(t)
    \/ NewFresh(t) \/ LoadFresh(t) \/ AppendFresh(t) \/ StoreResult(t) \/ CheckWaiting(t)
    \/ AssertWaiting(t) \/ LookupTask(t) \/ DecideWake(t)
    \/ WakeTask(t) \/ ClearDest(t) \/ RestoreCredit(t)

----------------------------------------------------------------------------
(* The task's code and the work thread's loop.                             *)

\* The coroutine yields the future: `await future` or `await next(future)`.
Suspend(op) ==
    /\ op \in Ops \cap {"await", "next"} /\ exists
    /\ Goto("work", "running", "dest")
    /\ task' = "suspended"
    /\ nextFlag' = (op = "next")
    /\ UNCHANGED <<box, other, error, wakeOnNext, yielded, handed, answer,
                   refs, queue, local, todo, item>>

SetDest ==
    /\ Goto("work", "dest", "flag")
    /\ dest' = TRUE
    /\ UNCHANGED <<exists, num, hasFresh, fresh, stored,
                   taskVar, refs, queue, local, todo, item>>

SetWakeFlag ==
    /\ Goto("work", "flag", "test")
    /\ wakeOnNext' = nextFlag
    /\ UNCHANGED <<box, task, other, error, nextFlag, yielded, handed, answer,
                   refs, queue, local, todo, item>>

\* if box.ready: the result is there already; otherwise yield the credit.
TestReady ==
    /\ Goto("work", "test", IF Ready THEN "put"
                            ELSE IF YieldsCredit THEN "yield" ELSE "idle")
    /\ UNCHANGED <<box, taskVar, refs, queue, local, todo, item>>

PutReady ==
    /\ Goto("work", "put", "idle")
    /\ queue' = queue + 1
    /\ UNCHANGED <<box, taskVar, refs, local, todo, item>>

YieldCredit ==
    /\ Goto("work", "yield", "idle")
    /\ yielded' = TRUE
    /\ UNCHANGED <<box, task, other, error, wakeOnNext, nextFlag, handed, answer,
                   refs, queue, local, todo, item>>

\* _get_next_ready_task: an entry of a finished task is discarded.
PopReady ==
    /\ queue > 0 /\ queue' = queue - 1
    /\ IF task = "done"
       THEN pc["work"] = "idle" /\ UNCHANGED pc
       ELSE Goto("work", "idle", "take")
    /\ UNCHANGED <<box, taskVar, refs, local, todo, item>>

\* _get_desired_result for a task woken by next(): get_new_results loads the
\* list ...
TakeNext ==
    /\ other = "none" /\ wakeOnNext /\ hasFresh
    /\ Goto("work", "take", "swap")
    /\ holds' = [holds EXCEPT !["work"] = "box"]
    /\ UNCHANGED <<box, taskVar, out, missed, seen, queue, local, todo, item>>

\* ... and puts an empty one in its place.
SwapFresh ==
    /\ Goto("work", "swap", "resume")
    /\ Replace
    /\ UNCHANGED <<exists, num, stored, dest,
                   taskVar, missed, seen, queue, local, todo, item>>

\* _get_desired_result for an awaiting task: the mailbox is popped.
TakeResult ==
    /\ other = "none" /\ ~wakeOnNext /\ Ready
    /\ Goto("work", "take", "resume")
    /\ answer' = stored
    /\ exists' = FALSE
    /\ UNCHANGED <<num, hasFresh, fresh, stored, dest,
                   task, other, error, wakeOnNext, nextFlag, yielded, handed,
                   refs, queue, local, todo, item>>

\* The task goes on to await another mailbox, empty and not subject to the
\* race: await, arrival and answer are one step each.
AwaitOther ==
    /\ "other" \in Ops /\ ~exists
    /\ Goto("work", "running", "idle")
    /\ task' = "suspended" /\ other' = "waiting"
    /\ UNCHANGED <<box, error, wakeOnNext, nextFlag, yielded, handed, answer,
                   refs, queue, local, todo, item>>

OtherArrives ==
    /\ other = "waiting" /\ other' = "full"
    /\ queue' = queue + 1
    /\ UNCHANGED <<box, task, error, wakeOnNext, nextFlag, yielded, handed,
                   answer, refs, local, todo, pc, item>>

TakeOther ==
    /\ other = "full" /\ other' = "none"
    /\ Goto("work", "take", "resume")
    /\ UNCHANGED <<box, task, error, wakeOnNext, nextFlag, yielded, handed,
                   answer, refs, queue, local, todo, item>>

\* An assertion of _get_desired_result or get_new_results fails: the error is
\* sent up for the whole compilation task; the task itself stays suspended.
TakeFails ==
    /\ CASE other = "none"    -> IF wakeOnNext THEN ~hasFresh ELSE ~Ready
         [] other = "waiting" -> TRUE
         [] other = "full"    -> FALSE
    /\ Goto("work", "take", "idle")
    /\ error' = TRUE
    /\ UNCHANGED <<box, task, other, wakeOnNext, nextFlag, yielded, handed, answer,
                   refs, queue, local, todo, item>>

\* RuntimeTask.step clears the await flags and runs the coroutine, which
\* reads the list it is given.
Resume ==
    /\ Goto("work", "resume", "running")
    /\ task' = "running" /\ wakeOnNext' = FALSE
    /\ handed' = [s \in Slots |-> handed[s] + (IF s \in out THEN 1 ELSE 0)]
    /\ out' = {}
    /\ holds' = [t \in Threads |-> IF t = "work" THEN "none"
                                  ELSE IF holds[t] = "out" THEN "old" ELSE holds[t]]
    /\ UNCHANGED <<box, other, error, nextFlag, yielded, answer, missed, seen,
                   queue, local, todo, item>>

\* Worker.cancel(future): the mailbox is dropped.
Cancel ==
    /\ "cancel" \in Ops /\ exists
    /\ pc["work"] = "running" /\ UNCHANGED pc
    /\ exists' = FALSE
    /\ UNCHANGED <<num, hasFresh, fresh, stored, dest,
                   taskVar, refs, queue, local, todo, item>>

\* _process_task_completion: the task leaves _tasks, then its mailbox is
\* dropped, whether it is ready or still to be cancelled.
Return ==
    /\ Goto("work", "running", "drop")
    /\ task' = "done"
    /\ UNCHANGED <<box, other, error, wakeOnNext, nextFlag, yielded, handed, answer,
                   refs, queue, local, todo, item>>

DropMailbox ==
    /\ Goto("work", "drop", "idle")
    /\ exists' = FALSE
    /\ UNCHANGED <<num, hasFresh, fresh, stored, dest,
                   taskVar, refs, queue, local, todo, item>>

TaskStep ==
    \/ \E op \in Ops : Suspend(op)
    \/ SetDest \/ SetWakeFlag \/ TestReady \/ PutReady \/ YieldCredit
    \/ PopReady \/ TakeNext \/ SwapFresh \/ TakeResult \/ TakeOther \/ TakeFails
    \/ Resume \/ AwaitOther
    \/ Cancel \/ Return \/ DropMailbox

Arrival == OtherArrives \/ \E s \in Slots : Receive(s) \/ LocalFinish(s)

Next == Arrival \/ TaskStep \/ \E t \in Threads : DepositStep(t)

\* The threads keep running, messages arrive and child tasks complete; what
\* the task's own code does when it runs is its own affair.
Fairness ==
    /\ \A s \in Slots : WF_vars(Receive(s)) /\ WF_vars(LocalFinish(s))
    /\ \A t \in Threads : WF_vars(DepositStep(t))
    /\ WF_vars(SetDest) /\ WF_vars(SetWakeFlag) /\ WF_vars(TestReady)
    /\ WF_vars(PutReady) /\ WF_vars(YieldCredit) /\ WF_vars(PopReady)
    /\ WF_vars(TakeNext \/ TakeResult \/ TakeOther \/ TakeFails) /\ WF_vars(SwapFresh)
    /\ WF_vars(Resume) /\ WF_vars(DropMailbox) /\ WF_vars(OtherArrives)

Spec     == Init /\ [][Next]_vars
FairSpec == Spec /\ Fairness

----------------------------------------------------------------------------
(* Properties.                                                             *)

\* The task has asked for the mailbox and has not been answered.
Waiting == task = "suspended" /\ pc["work"] \notin {"take", "swap", "resume"}

\* Between two iterations of their loops, or gone.
Quiet(t) == pc[t] \in {"idle", "dead"}

\* A task that awaits a mailbox holding all its results has been put in the
\* ready queue, or a thread is still on its way to do it: the dest_addr
\* hand-shake between _process_await and _handle_result loses no wake-up.
NoLostWake ==
    Waiting /\ other = "none" /\ Ready /\ Quiet("work") /\ Quiet("incoming") => queue > 0

\* All results are deposited by one thread.
AllLocal   == local = Slots
OneThread  == local = {} \/ AllLocal

\* A suspended task is in the ready queue at most once and no other task is
\* ("Prevent double wake").
NoDoubleWake ==
    queue + (IF pc["work"] = "put" THEN 1 ELSE 0)
        <= (IF Waiting /\ other # "waiting" THEN 1 ELSE 0)

\* What await returns holds the result of every child: the mailbox is ready
\* only when it "has all expected results".
AwaitReturnsAll == answer \in {{None}, Slots}

\* Threads that are depositing the result of s and have not recorded it yet.
Depositing(s) == {t \in Threads : item[t] = s /\ pc[t] \in BeforeAppend}

\* next() returns the result of each child at most once ...
NextAtMostOnce == \A s \in Slots : handed[s] <= 1

\* ... and, if one thread deposits them all and the mailbox is not dropped, it
\* loses one only if that thread had loaded the list before a call of next()
\* took it, and appended to it after the task had read it.  When the work
\* thread deposits, even that cannot happen: a result not yet returned is on
\* its way, being deposited, or recorded in a list that is still to be read.
NextLosesNothing ==
    OneThread /\ exists => \A s \in Slots :
        \/ s \in todo \cup fresh \cup out
        \/ Depositing(s) # {}
        \/ handed[s] > 0
        \/ s \in missed /\ ~AllLocal

\* When the work thread does everything, that is, for the order of the
\* statements alone, one await has one wake-up and ends well: the task is not
\* queued twice, what it gets is complete, a finished task has given back the
\* credit it yielded while blocked, no assertion of _get_desired_result fails
\* and no exception escapes _handle_result.
AloneCorrect ==
    AllLocal => /\ NoDoubleWake
                /\ AwaitReturnsAll
                /\ task = "done" => ~yielded
                /\ ~error /\ \A t \in Threads : pc[t] # "dead"

\* Two threads loaded the same count: all results are deposited and num says
\* that some are missing.
CountLost ==
    /\ todo = {} /\ \A t \in Threads : pc[t] \notin {"find", "count", "add"}
    /\ ~Ready

\* A task that awaits is resumed, whatever the order in which the children
\* complete, unless a thread of its worker has died or two threads have lost
\* an increment of the count between them.
AwaitReturns ==
    task = "suspended" ~>
        \/ task # "suspended"
        \/ \E t \in Threads : pc[t] = "dead"
        \/ local \notin {{}, Slots} /\ CountLost

\* The docstrings of get_new_results and of ready without these exceptions, and
\* a comment of _handle_result; the code keeps none of the three.  No result
\* comes in too late for every call, ...
NextReturnsAll == local = {} => missed = {}

\* ... a mailbox with all its results is ready for the task that awaits it, ...
AwaitAlwaysReturns ==
    task = "suspended" ~>
        task # "suspended" \/ \E t \in Threads : pc[t] = "dead"

\* ... and a result for a mailbox that was dropped is ignored.
ThreadsSurvive == \A t \in Threads : pc[t] # "dead"
=============================================================================
