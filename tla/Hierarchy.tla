------------------------------ MODULE Hierarchy ------------------------------
(***************************************************************************)
(* A detached server, managers below it, managers or workers below those   *)
(* (bqskit/runtime/manager.py, base.py): how tasks, results and idle       *)
(* counts pass through the levels.  A manager keeps the tasks its workers  *)
(* submit when it knows of idle workers and tells its boss so with UPDATE; *)
(* the others go up.  It reads its boss's batches as a worker does and     *)
(* sends WAITING with a read receipt as a worker does.  Worker ids are     *)
(* drawn from ranges that are split at every level, and a result finds its *)
(* way by integer division.                                                *)
(*                                                                         *)
(* Workers are those of module Crew.  Tasks are not reclaimed through a    *)
(* manager: it drops BACKLOG, so that num_delayed stays 0 for its workers  *)
(* and its boss.  Cancellation is left out.                                *)
(***************************************************************************)
EXTENDS Crew

CONSTANTS
    Server,
    Managers,
    IdRange,      \* upper_id_bound of the server
    Systems       \* hierarchies, each with the tasks its clients may submit

Bosses == {Server} \cup Managers
Nodes  == Managers \cup Workers

ASSUME NodesAssumption ==
    IsFiniteSet(Managers) /\ Managers \cap Workers = {} /\ Server \notin Nodes

\* A manager without employees is not part of the hierarchy.
SystemType == [employees : [Bosses -> Seq(Nodes)], roots : SUBSET Roots]

\* The employees of a node are of one kind, each has one boss, and going up
\* from boss to boss one comes to the server.
IsTree(emps) ==
    LET of(n) == Range(emps[n]) IN
    /\ \A n \in Bosses : IsInjective(emps[n]) /\ (of(n) \subseteq Managers \/ of(n) \subseteq Workers)
    /\ of(Server) # {} /\ of(Server) \subseteq Managers
    /\ \A n, o \in Bosses : n # o => of(n) \cap of(o) = {}
    /\ \A n \in Bosses : \A m \in of(n) \cap Managers : of(m) # {}
    /\ \A S \in SUBSET {m \in Managers : of(m) # {}} :
          S # {} => \E n \in Bosses \ S : of(n) \cap S # {}

ASSUME SystemsAssumption ==
    /\ IdRange \in Nat /\ Systems \subseteq SystemType
    /\ \A s \in Systems : IsTree(s.employees)

VARIABLES
    system,     \* the hierarchy, as it was connected
    numTasks, idle, cache, \* the fields of each RuntimeEmployee
    numIdle,    \* num_idle_workers of the server and of each manager
    last,       \* last_num_idle_sent_up of each manager
    read,       \* most_recent_read_submit of each manager
    error,      \* the exception that stopped a server or manager, or "none"
    submitted,  \* client tasks the server has scheduled
    done,       \* client tasks whose result the server has
    announced   \* idle workers announced upstream for which there was no task (history)

employee == <<numTasks, idle, cache>>
above    == <<system, employee, numIdle, last, read, error, submitted, done, announced>>
vars     == <<above, down, up, worker, tree>>

Employees == system.employees
Of(n)     == Range(Employees[n])

\* The boss of e, and which of its employees e is.
BossIn(emps, e) == CHOOSE n \in Bosses : e \in Range(emps[n])
NthIn(emps, e)  == CHOOSE i \in DOMAIN emps[BossIn(emps, e)] : emps[BossIn(emps, e)][i] = e

Boss(e)   == BossIn(Employees, e)
Nth(e)    == NthIn(Employees, e)
Employed  == UNION {Of(n) : n \in Bosses}
Present   == {n \in Bosses : Of(n) # {}}     \* the server and the managers there are

----------------------------------------------------------------------------
(* Ids.                                                                    *)

\* lower_id_bound and upper_id_bound, given to a manager by its boss.
Ranges(emps) ==
    LET bounds[n \in {m \in Bosses : Range(emps[m]) # {}}] ==
          IF n = Server THEN <<0, IdRange>>
          ELSE LET boss == BossIn(emps, n)
                   lo   == bounds[boss][1]
                   hi   == bounds[boss][2]
                   step == (hi - lo) \div Len(emps[boss])
                   i    == NthIn(emps, n)
               IN  <<lo + (i - 1) * step, Capped(lo + i * step, lo, hi)>>
    IN  bounds

Bounds == Ranges(Employees)

StepSize(n) ==
    IF Of(n) \subseteq Workers THEN 1
    ELSE (Bounds[n][2] - Bounds[n][1]) \div Len(Employees[n])

\* spawn_workers; a mailbox of the server has the worker id -1.
Id(w) ==
    IF w = None THEN -1
    ELSE Bounds[Boss(w)][1] + Nth(w) - 1

\* Variant: the node's own lower bound forgotten.
EmployeeId_NoBound(n, id) == id \div StepSize(n)

\* The position, from 0, of the employee responsible for an id.
EmployeeId(n, id) == (id - Bounds[n][1]) \div StepSize(n)

is_my_worker(n, w) == EmployeeId(n, Id(w)) \in 0 .. Len(Employees[n]) - 1
Responsible(n, w)  == Employees[n][EmployeeId(n, Id(w)) + 1]

\* total_workers
Sizes(emps) ==
    LET size[e \in Bosses \cup Workers] ==
          IF e \in Workers THEN 1 ELSE Total([x \in Range(emps[e]) |-> size[x]])
    IN  size

Size == Sizes(Employees)

\* "Insufficient id range for workers" is raised at start-up.
Connected ==
    \A n \in Present : Of(n) \subseteq Workers => Bounds[n][1] + Len(Employees[n]) < Bounds[n][2]

Init ==
    /\ system \in Systems /\ Connected
    /\ numTasks = [e \in Employed |-> 0] /\ idle = [e \in Employed |-> Size[e]]
    /\ cache = [e \in Employed |-> <<>>]
    /\ numIdle = [n \in Present |-> Size[n]]
    /\ last = [m \in Present \ {Server} |-> Size[m]]
    /\ read = [m \in Present \ {Server} |-> None]
    /\ error = "none" /\ submitted = {} /\ done = {}
    /\ announced = [m \in Present \ {Server} |-> 0]
    /\ down = [e \in Nodes |-> <<>>] /\ up = [e \in Nodes |-> <<>>]
    /\ CrewInit

----------------------------------------------------------------------------
(* What a server and a manager do alike.                                   *)

Mine(f, n) == [e \in Of(n) |-> f[e]]

\* schedule_tasks among the employees of n, whose queues are q.
ScheduleOn(n, ts, q) ==
    \E share \in Assignments(ts, Mine(idle, n), Mine(numTasks, n)) :
        LET size(e) == IF e \in Of(n) THEN Len(share[e]) ELSE 0 IN
        /\ down' = [e \in Nodes |-> IF size(e) > 0 THEN Append(q[e], Batch(share[e])) ELSE q[e]]
        /\ numTasks' = [e \in Employed |-> numTasks[e] + size(e)]
        /\ idle' = [e \in Employed |-> Capped(idle[e] - size(e), 0, idle[e])]
        /\ cache' = [e \in Employed |-> IF size(e) > 0
                       THEN Append(cache[e], <<share[e][1], size(e)>>) ELSE cache[e]]
        /\ numIdle' = [numIdle EXCEPT ![n] = Total(Mine(idle', n))]

\* A message of an employee, and of the boss.
FromBelow(e, type) ==
    /\ error = "none" /\ up[e] # <<>> /\ Head(up[e]).type = type

FromAbove(m, type) ==
    /\ error = "none" /\ down[m] # <<>> /\ Head(down[m]).type = type
    /\ UNCHANGED up

Taken(q, e) == [q EXCEPT ![e] = Tail(@)]

\* send_result_down, on the queues q.
SendResultDown(n, result, q) ==
    LET dest == home[result.task] IN
    IF is_my_worker(n, dest)
    THEN down' = [q EXCEPT ![Responsible(n, dest)] = Append(@, result)] /\ UNCHANGED error
    ELSE error' = "unmanaged" /\ down' = q

\* "Record a task has been completed"; the id of a stranger, an IndexError,
\* would show as a wrong count.
CountCompleted(n, result) ==
    LET by == result.completed_by IN
    numTasks' = [e \in Employed |->
        IF is_my_worker(n, by) /\ e = Responsible(n, by) THEN numTasks[e] - 1 ELSE numTasks[e]]

----------------------------------------------------------------------------
(* The server.                                                             *)

\* handle_new_comp_task
SubmitRoot(r) ==
    /\ error = "none" /\ r \in system.roots \ submitted
    /\ submitted' = submitted \cup {r}
    /\ ScheduleOn(Server, <<r>>, down)
    /\ UNCHANGED <<system, last, read, error, done, announced, up, worker, tree>>

ServerBatch(e) ==
    /\ FromBelow(e, "SUBMIT_BATCH") /\ Boss(e) = Server
    /\ up' = Taken(up, e)
    /\ ScheduleOn(Server, Head(up[e]).tasks, down)
    /\ UNCHANGED <<system, last, read, error, submitted, done, announced, worker, tree>>

ServerResult(e) ==
    /\ FromBelow(e, "RESULT") /\ Boss(e) = Server
    /\ up' = Taken(up, e)
    /\ LET result == Head(up[e]) IN
          /\ CountCompleted(Server, result)
          /\ IF home[result.task] = None
             THEN done' = done \cup {result.task} /\ UNCHANGED <<down, error>>
             ELSE SendResultDown(Server, result, down) /\ UNCHANGED done
    /\ UNCHANGED <<system, idle, cache, numIdle, last, read, submitted, announced, worker, tree>>

\* handle_update of the server, which is nobody's employee.
ServerUpdate(e) ==
    /\ FromBelow(e, "UPDATE") /\ Boss(e) = Server
    /\ up' = Taken(up, e)
    /\ numTasks' = [numTasks EXCEPT ![e] = @ + Head(up[e]).n]
    /\ UNCHANGED <<system, idle, cache, numIdle, last, read, error, submitted, done, announced,
                   down, worker, tree>>

----------------------------------------------------------------------------
(* Idle counts.                                                            *)

\* update_upstream_idle_workers: a count the boss has been told is not repeated.
IdleReport(m, count, receiptOf) ==
    IF count = last[m] THEN <<>> ELSE <<Waiting(count, receiptOf)>>

\* Variant: the tasks sent since the receipt not taken off.
IdleNow_Unread(e) == Head(up[e]).idle

\* The idle count of an employee that says WAITING.
IdleNow(e) == StillIdle(Head(up[e]).idle, CutCache(cache[e], Head(up[e]).receipt), Head(up[e]).receipt)

\* handle_waiting; a manager goes on to tell its boss.
HandleWaiting(e) ==
    /\ FromBelow(e, "WAITING")
    /\ LET n     == Boss(e)
           r     == Head(up[e]).receipt
           total == numIdle[n] + IdleNow(e) - idle[e]
           fine  == total \in 0..Size[n]
       IN IF ~Found(cache[e], r)
          THEN /\ error' = "receipt" /\ up' = Taken(up, e)
               /\ UNCHANGED <<idle, cache, numIdle, last>>
          ELSE /\ cache' = [cache EXCEPT ![e] = CutCache(@, r)]
               /\ idle' = [idle EXCEPT ![e] = IdleNow(e)]
               /\ numIdle' = [numIdle EXCEPT ![n] = total]
               /\ error' = IF fine THEN error ELSE "count"
               /\ IF n \in Managers /\ fine
                  THEN /\ up' = [Taken(up, e) EXCEPT ![n] = @ \o IdleReport(n, total, read[n])]
                       /\ last' = [last EXCEPT ![n] = total]
                  ELSE up' = Taken(up, e) /\ UNCHANGED last
    /\ UNCHANGED <<system, numTasks, read, submitted, done, announced, down, worker, tree>>

----------------------------------------------------------------------------
(* A manager.                                                              *)

\* SUBMIT and SUBMIT_BATCH from its boss; the boss is told nothing.
ManagerReadBatch(m) ==
    /\ FromAbove(m, "SUBMIT_BATCH")
    /\ read' = [read EXCEPT ![m] = Head(down[m]).tasks[1]]
    /\ ScheduleOn(m, Head(down[m]).tasks, Taken(down, m))
    /\ UNCHANGED <<system, last, error, submitted, done, announced, worker, tree>>

ManagerReadResult(m) ==
    /\ FromAbove(m, "RESULT")
    /\ SendResultDown(m, Head(down[m]), Taken(down, m))
    /\ UNCHANGED <<system, employee, numIdle, last, read, submitted, done, announced, worker, tree>>

\* The tasks that stay, and those that go up.
Kept(m, ts)  == SubSeq(ts, 1, Capped(numIdle[m], 0, Len(ts)))
Going(m, ts) == SubSeq(ts, numIdle[m] + 1, Len(ts))

\* send_up_or_schedule_tasks.  UPDATE announces every idle worker, whether
\* there is a task for it or not.
SendUpOrSchedule(m, e) ==
    /\ FromBelow(e, "SUBMIT_BATCH") /\ m = Boss(e) /\ m \in Managers
    /\ LET ts   == Head(up[e]).tasks
           rest == IF Len(ts) > numIdle[m] THEN <<Batch(Going(m, ts))>> ELSE <<>>
           Tell(msgs) == up' = [Taken(up, e) EXCEPT ![m] = @ \o msgs]
       IN IF numIdle[m] # 0
          THEN /\ ScheduleOn(m, Kept(m, ts), down)
               /\ Tell(<<Update(numIdle[m])>> \o IdleReport(m, numIdle'[m], read[m]) \o rest)
               /\ last' = [last EXCEPT ![m] = numIdle'[m]]
               /\ announced' = [announced EXCEPT ![m] = @ + numIdle[m] - Len(Kept(m, ts))]
          ELSE Tell(rest) /\ UNCHANGED <<employee, numIdle, last, announced, down>>
    /\ UNCHANGED <<system, read, error, submitted, done, worker, tree>>

\* Variant: a result for a worker of its own is counted here only.
Completed_NotTold == <<>>

\* What the boss is told when a result stays below the manager.
Completed == <<Update(-1)>>

\* handle_result_from_below
ManagerResult(m, e) ==
    /\ FromBelow(e, "RESULT") /\ m = Boss(e) /\ m \in Managers
    /\ LET result == Head(up[e]) IN
          /\ CountCompleted(m, result)
          /\ IF is_my_worker(m, home[result.task])
             THEN /\ SendResultDown(m, result, down)
                  /\ up' = [Taken(up, e) EXCEPT ![m] = @ \o Completed]
             ELSE /\ up' = [Taken(up, e) EXCEPT ![m] = Append(@, result)]
                  /\ UNCHANGED <<down, error>>
    /\ UNCHANGED <<system, idle, cache, numIdle, last, read, submitted, done, announced, worker, tree>>

ManagerUpdate(m, e) ==
    /\ FromBelow(e, "UPDATE") /\ m = Boss(e) /\ m \in Managers
    /\ numTasks' = [numTasks EXCEPT ![e] = @ + Head(up[e]).n]
    /\ up' = [Taken(up, e) EXCEPT ![m] = Append(@, Head(up[e]))]
    /\ UNCHANGED <<system, idle, cache, numIdle, last, read, error, submitted, done, announced,
                   down, worker, tree>>

\* "consume worker backlog reports to avoid a crash"
ManagerBacklog(m, e) ==
    /\ FromBelow(e, "BACKLOG") /\ m = Boss(e) /\ m \in Managers
    /\ up' = Taken(up, e)
    /\ UNCHANGED <<above, down, worker, tree>>

----------------------------------------------------------------------------
\* One connection of a server or manager, below it or above it.
Below(e) ==
    \/ ServerBatch(e) \/ ServerResult(e) \/ ServerUpdate(e)
    \/ HandleWaiting(e)
    \/ \E m \in Managers : \/ SendUpOrSchedule(m, e) \/ ManagerResult(m, e)
                           \/ ManagerUpdate(m, e) \/ ManagerBacklog(m, e)
Above(m) == ManagerReadBatch(m) \/ ManagerReadResult(m)

Next ==
    \/ \E r \in Roots : SubmitRoot(r)
    \/ \E e \in Employed : Below(e)
    \/ \E m \in Managers \cap Employed : Above(m)
    \/ \E w \in Workers \cap Employed : WorkerStep(w) /\ UNCHANGED above

Spec == Init /\ [][Next]_vars

----------------------------------------------------------------------------
(* Properties.                                                             *)

\* Nothing is under way and every worker blocks on its ready queue.
AtRest ==
    /\ \A w \in Workers \cap Employed : Blocked(w)
    /\ \A e \in Employed : down[e] = <<>> /\ up[e] = <<>>

\* No node is stopped by an exception of its handlers: every read receipt is
\* found, every idle count is within bounds, and a result is only sent down by
\* a node that has the worker it is for (base.py:128, 650, 700).  And when
\* nothing is left to do every compilation submitted has been answered, unless
\* a worker is stuck: nothing got lost between the levels.
TreeServes == error = "none" /\ (AtRest => submitted \subseteq done \/ Stuck)

\* The employees below n, at any depth, n included.
Teams(emps) ==
    LET team[n \in Bosses \cup Workers] ==
          {n} \cup (IF n \in Workers THEN {} ELSE UNION {team[e] : e \in Range(emps[n])})
    IN  team

Team == Teams(Employees)

SumOver(f, S) == Total([x \in S |-> f[x]])

\* Tasks for e, or for someone below it, that are not over.
Responsibility(e) ==
    UNION {IF x \in Workers THEN Assigned(x) ELSE TasksOf(down[x], "SUBMIT_BATCH") : x \in Team[e]}

Owed(e) == SumOver([x \in Team[e] |-> OwedIn(up[x])], Team[e])

\* Every task is in one place, with one worker, under way, or over; and the
\* task count of every employee is exact once the messages under way are
\* counted, but for the idle workers that the managers below had announced
\* without a task for them: that count is never taken back.
TreeCounts ==
    /\ \A t \in submitted \cup UNION {Range(Children[p]) : p \in mapped} :
          Cardinality({w \in Workers \cap Employed : t \in Assigned(w)})
            + Cardinality({m \in Managers \cap Employed : t \in TasksOf(down[m], "SUBMIT_BATCH")})
            + Cardinality({e \in Employed : t \in TasksOf(up[e], "SUBMIT_BATCH")})
            + (IF t \in finished THEN 1 ELSE 0) = 1
    /\ \A e \in Employed :
          numTasks[e] + Owed(e)
            = Cardinality(Responsibility(e)) + SumOver(announced, Team[e] \cap Managers)

\* Idle counts never promise too much: a node's count is the sum over its
\* employees, a worker counted as idle has read what it was sent, and once a
\* manager's messages have arrived its boss counts no more idle workers below
\* it than the manager does, whatever batches are on their way to it.
TreeIdle ==
    /\ \A n \in Present : numIdle[n] = Total(Mine(idle, n))
    /\ \A w \in Workers \cap Employed :
          idle[w] > 0 => batch[w] = None /\ TasksOf(down[w], "SUBMIT_BATCH") = {}
    /\ \A m \in Managers \cap Employed :
          (\A i \in DOMAIN up[m] : up[m][i].type # "WAITING") => idle[m] <= numIdle[m]

\* Through any levels of managers, children are spawned once, a task returns
\* once all of them have, and a client is answered once its task has returned.
Contract == INSTANCE Compilation WITH
    born <- submitted \cup UNION {Range(Children[t]) : t \in mapped},
    over <- finished, answered <- done

TreeCompiles == Contract!Spec

\* At rest the server counts every worker as idle.
IdleReported == AtRest => \A e \in Employed : idle[e] = Size[e]
==============================================================================
