--------------------------- MODULE MailboxProofs ---------------------------
(***************************************************************************)
(* Proofs about Mailbox, for every set of children, every placement of     *)
(* them and every interleaving of the two threads:                         *)
(*   - the type invariant;                                                 *)
(*   - next() returns no result twice;                                     *)
(*   - what next() may lose when one thread deposits, and that it loses    *)
(*     nothing when the work thread does;                                  *)
(*   - a task that only uses await never misses its wake-up;               *)
(*   - when the work thread does everything, the whole hand-shake is       *)
(*     correct: one wake-up, all results, the credit given back, no error. *)
(***************************************************************************)
EXTENDS Mailbox, FiniteSetTheorems, TLAPS

----------------------------------------------------------------------------
(* Types.                                                                  *)

\* A thread that deposits a result deposits the result of some child.
PcInv ==
    /\ pc \in [Threads -> Deposit \cup Work \cup {"idle", "dead"}]
    /\ pc["incoming"] \in Deposit \cup {"idle", "dead"}
    /\ \A t \in Threads : pc[t] \in Deposit => item[t] \in Slots

Flags ==
    /\ exists \in BOOLEAN /\ hasFresh \in BOOLEAN /\ dest \in BOOLEAN
    /\ error \in BOOLEAN /\ nextFlag \in BOOLEAN
    /\ wakeOnNext \in BOOLEAN /\ yielded \in BOOLEAN

Data ==
    /\ num \in Nat /\ queue \in Nat
    /\ fresh \subseteq Slots /\ stored \subseteq Slots
    /\ out \subseteq Slots /\ missed \subseteq Slots
    /\ local \subseteq Slots /\ todo \subseteq Slots
    /\ task \in {"running", "suspended", "done"}
    /\ other \in {"none", "waiting", "full"}
    /\ handed \in [Slots -> Nat]
    /\ answer \in (SUBSET Slots) \cup {{None}}
    /\ item \in [Threads -> Slots \cup {None}]
    /\ seen \in [Threads -> Nat]
    /\ holds \in [Threads -> {"none", "box", "out", "old"}]

TypeInv == Flags /\ Data /\ PcInv

(* Where a result is.                                                      *)

\* The places a result passes through are disjoint.
OnePlace(s) ==
    /\ s \in todo => s \notin fresh \cup out /\ handed[s] = 0 /\ Depositing(s) = {}
    /\ s \in fresh \cup out => handed[s] = 0 /\ Depositing(s) = {}
    /\ s \in out => s \notin fresh
    /\ Depositing(s) # {} => handed[s] = 0
    /\ handed[s] <= 1
    /\ Depositing(s) # Threads

ResultInv == \A s \in Slots : OnePlace(s)

(* What becomes of a result when one thread deposits them all.             *)

\* Only one of the threads deposits: the one that gets the results.
OneDepositor ==
    \/ local = {} /\ pc["work"] \notin Deposit
    \/ local = Slots /\ pc["incoming"] \notin Deposit

\* A new fresh list replaces no list.
FreshInv ==
    /\ ~hasFresh => fresh = {}
    /\ \A t \in Threads : /\ pc[t] = "new_fresh" => ~hasFresh
                          /\ pc[t] \in {"append", "record", "swap"} => hasFresh

\* The work thread has the current list when it appends to it or takes it, and
\* the incoming thread holds a list only when it deposits.
ListInv ==
    /\ pc["work"] \in {"record", "swap"} => holds["work"] = "box"
    /\ pc["work"] # "resume" => out = {} /\ \A t \in Threads : holds[t] # "out"
    /\ pc["incoming"] = "record" => holds["incoming"] # "none"

Held(s) ==
    \/ s \in todo \cup fresh \cup out
    \/ \E t \in Threads : item[t] = s /\ pc[t] \in BeforeAppend
    \/ handed[s] > 0
    \/ s \in missed /\ ~AllLocal

KeepInv ==
    OneThread =>
        OneDepositor /\ FreshInv /\ ListInv /\ (exists => \A s \in Slots : Held(s))

(* The wake-up hand-shake of a task that never calls next().               *)

\* The task has written dest_addr of this mailbox and has not been answered.
Asked ==
    exists /\ task = "suspended" /\ pc["work"] \notin {"dest", "take", "swap", "resume"}

\* A thread has counted its result and not yet woken the task.
Counted == {"test_fresh", "new_fresh", "append", "record", "store",
            "check", "assert", "lookup", "decide", "wake"}

PastCheck == {"assert", "lookup", "decide", "wake", "clear"}

\* No task of this program ever asks for the next result.
NoNext == ~nextFlag /\ ~wakeOnNext /\ pc["work"] # "swap"

\* Entries of the ready queue are only made for a full mailbox.
QueuedIsReady ==
    exists /\ \/ queue > 0
              \/ pc["work"] \in {"put", "take"}
              \/ \E t \in Threads : pc[t] = "wake"
    => Ready

\* A full mailbox with a waiting task and an empty queue: somebody is about
\* to queue the task.
WakeComing ==
    Asked /\ dest /\ Ready /\ queue = 0 =>
        \/ pc["work"] \in {"flag", "test", "put"}
        \/ \E t \in Threads : pc[t] \in Counted

\* dest_addr is cleared only after the task has been queued.
ClearedAfterPut ==
    Asked /\ (~dest \/ \E t \in Threads : pc[t] = "clear") => queue > 0

\* Until the task asks for the first time nobody is waking it.
NotAskedYet ==
    exists /\ pc["work"] \in {"running", "dest"} =>
        ~dest /\ queue = 0 /\ \A t \in Threads : pc[t] \notin PastCheck

AnsweredOnce == pc["work"] = "resume" => ~exists

\* A task suspended on this mailbox is suspended on an existing one.
AsksExisting ==
    /\ other # "none" => ~exists
    /\ pc["work"] = "dest" => exists
    /\ task = "suspended" /\ other = "none" /\ pc["work"] # "resume" => exists
    /\ pc["work"] = "running" => task = "running"
    /\ pc["work"] = "drop" => task = "done"

WakeInv ==
    /\ NoNext /\ QueuedIsReady /\ WakeComing /\ ClearedAfterPut
    /\ NotAskedYet /\ AnsweredOnce /\ AsksExisting

----------------------------------------------------------------------------
(* Types.                                                                  *)

\* The types hold at the start.
LEMMA TypeInit == Init => TypeInv
<1> SUFFICES ASSUME Init PROVE TypeInv
  OBVIOUS
<1>1. local \subseteq Slots
  BY LocalAssumption DEF Init
<1> QED
  BY <1>1 DEF Init, TypeInv, Flags, Data, PcInv, Threads, Deposit, Work

\* Every statement of either thread preserves the types.
LEMMA TypeStep == TypeInv /\ [Next]_vars => TypeInv'
<1> SUFFICES ASSUME TypeInv, [Next]_vars PROVE TypeInv'
  OBVIOUS
<1> USE DEF TypeInv, Threads, Deposit, Work, box, taskVar, refs
<1>1. ASSUME NEW s \in Slots, Receive(s) PROVE TypeInv'
  BY <1>1 DEF Receive, Enter, Goto, Flags, Data, PcInv
<1>2. ASSUME NEW s \in Slots, LocalFinish(s) PROVE TypeInv'
  BY <1>2 DEF LocalFinish, Enter, Goto, Flags, Data, PcInv
<1>3. ASSUME NEW t \in Threads, DepositStep(t) PROVE TypeInv'
  <2>1. CASE Find(t)
    BY <2>1 DEF Find, Goto, Flags, Data, PcInv
  <2>2. CASE CountResult(t)
    BY <2>2 DEF CountResult, Goto, Flags, Data, PcInv
  <2>3. CASE TestFresh(t)
    BY <2>3 DEF TestFresh, Goto, Flags, Data, PcInv
  <2>4. CASE NewFresh(t)
    BY <2>4 DEF NewFresh, Replace, Goto, Flags, Data, PcInv
  <2>14. CASE AddResult(t)
    BY <2>14 DEF AddResult, Goto, Flags, Data, PcInv
  <2>15. CASE LoadFresh(t)
    BY <2>15 DEF LoadFresh, Goto, Flags, Data, PcInv
  <2>5. CASE AppendFresh(t)
    BY <2>5 DEF AppendFresh, Goto, Flags, Data, PcInv
  <2>6. CASE StoreResult(t)
    BY <2>6 DEF StoreResult, Goto, Flags, Data, PcInv
  <2>7. CASE CheckWaiting(t)
    BY <2>7 DEF CheckWaiting, Goto, Flags, Data, PcInv
  <2>8. CASE AssertWaiting(t)
    BY <2>8 DEF AssertWaiting, Goto, Flags, Data, PcInv
  <2>9. CASE LookupTask(t)
    BY <2>9 DEF LookupTask, Goto, Flags, Data, PcInv
  <2>10. CASE DecideWake(t)
    BY <2>10 DEF DecideWake, Goto, Flags, Data, PcInv
  <2>11. CASE WakeTask(t)
    BY <2>11 DEF WakeTask, Goto, Flags, Data, PcInv
  <2>12. CASE ClearDest(t)
    <3>a. Flags'
      BY <2>12 DEF ClearDest, Goto, Flags
    <3>b. Data'
      BY <2>12 DEF ClearDest, Goto, Data
    <3>c. PcInv'
      BY <2>12 DEF ClearDest, Goto, PcInv
    <3> QED
      BY <3>a, <3>b, <3>c
  <2>13. CASE RestoreCredit(t)
    <3>a. Flags'
      BY <2>13 DEF RestoreCredit, Goto, Flags
    <3>b. Data'
      BY <2>13 DEF RestoreCredit, Goto, Data
    <3>c. PcInv'
      BY <2>13 DEF RestoreCredit, Goto, PcInv
    <3> QED
      BY <3>a, <3>b, <3>c
  <2> QED
    BY <1>3, <2>1, <2>2, <2>3, <2>4, <2>5, <2>6, <2>7, <2>8, <2>9, <2>10, <2>11, <2>12, <2>13,
       <2>14, <2>15 DEF DepositStep
<1>4. ASSUME NEW op \in Ops, Suspend(op) PROVE TypeInv'
  BY <1>4 DEF Suspend, Goto, Flags, Data, PcInv
<1>5. CASE SetDest
  BY <1>5 DEF SetDest, Goto, Flags, Data, PcInv
<1>6. CASE SetWakeFlag
  BY <1>6 DEF SetWakeFlag, Goto, Flags, Data, PcInv
<1>7. CASE TestReady
  BY <1>7 DEF TestReady, Goto, Flags, Data, PcInv
<1>8. CASE PutReady
  BY <1>8 DEF PutReady, Goto, Flags, Data, PcInv
<1>9. CASE YieldCredit
  BY <1>9 DEF YieldCredit, Goto, Flags, Data, PcInv
<1>10. CASE PopReady
  BY <1>10 DEF PopReady, Goto, Flags, Data, PcInv
<1>11. CASE TakeNext
  BY <1>11 DEF TakeNext, Goto, Flags, Data, PcInv
<1>12. CASE TakeResult
  <2>a. Flags'
    BY <1>12 DEF TakeResult, Goto, Flags
  <2>b. Data'
    BY <1>12 DEF TakeResult, Goto, Data
  <2>c. PcInv'
    BY <1>12 DEF TakeResult, Goto, PcInv
  <2> QED
    BY <2>a, <2>b, <2>c
<1>13. CASE TakeFails
  BY <1>13 DEF TakeFails, Goto, Flags, Data, PcInv
<1>14. CASE Resume
  <2>a. Flags'
    BY <1>14 DEF Resume, Goto, Flags
  <2>b. Data'
    BY <1>14 DEF Resume, Goto, Data
  <2>c. PcInv'
    BY <1>14 DEF Resume, Goto, PcInv
  <2> QED
    BY <2>a, <2>b, <2>c
<1>15. CASE Cancel
  <2>a. Flags'
    BY <1>15 DEF Cancel, Goto, Flags
  <2>b. Data'
    BY <1>15 DEF Cancel, Goto, Data
  <2>c. PcInv'
    BY <1>15 DEF Cancel, Goto, PcInv
  <2> QED
    BY <2>a, <2>b, <2>c
<1>16. CASE Return
  BY <1>16 DEF Return, Goto, Flags, Data, PcInv
<1>17. CASE DropMailbox
  <2>a. Flags'
    BY <1>17 DEF DropMailbox, Goto, Flags
  <2>b. Data'
    BY <1>17 DEF DropMailbox, Goto, Data
  <2>c. PcInv'
    BY <1>17 DEF DropMailbox, Goto, PcInv
  <2> QED
    BY <2>a, <2>b, <2>c
<1>18. CASE AwaitOther
  BY <1>18 DEF AwaitOther, Goto, Flags, Data, PcInv
<1>19. CASE OtherArrives
  BY <1>19 DEF OtherArrives, Flags, Data, PcInv
<1>20. CASE TakeOther
  BY <1>20 DEF TakeOther, Goto, Flags, Data, PcInv
<1>21. CASE UNCHANGED vars
  BY <1>21 DEF vars, Flags, Data, PcInv
<1>22. CASE SwapFresh
  BY <1>22 DEF SwapFresh, Replace, Goto, Flags, Data, PcInv
<1> QED
  BY <1>1, <1>2, <1>3, <1>4, <1>5, <1>6, <1>7, <1>8, <1>9, <1>10, <1>11, <1>12, <1>13, <1>14, <1>15, <1>16, <1>17, <1>18, <1>19, <1>20, <1>21, <1>22
     DEF Next, Arrival, TaskStep

\* The variables keep their types in every behaviour.
THEOREM TypeCorrect == Spec => []TypeOK
<1>1. Spec => []TypeInv
  BY TypeInit, TypeStep, PTL DEF Spec
<1>2. TypeInv => TypeOK
  BY DEF TypeInv, TypeOK, Flags, Data, PcInv
<1> QED
  BY <1>1, <1>2, PTL

----------------------------------------------------------------------------
(* Where a result is.                                                      *)

\* A result that only leaves places is still in one place at most.
LEMMA LeavePlace ==
  ASSUME NEW s \in Slots, OnePlace(s),
         todo' = todo, handed'[s] = handed[s],
         s \in fresh' \cup out' => s \in fresh \cup out,
         s \notin fresh' \cap out', Depositing(s)' \subseteq Depositing(s)
  PROVE  OnePlace(s)'
BY DEF OnePlace, Depositing

\* So is one in a list that is replaced.
LEMMA ReplacePlace ==
  ASSUME NEW s \in Slots, OnePlace(s), Replace,
         todo' = todo, handed' = handed, Depositing(s)' \subseteq Depositing(s)
  PROVE  OnePlace(s)'
BY DEF OnePlace, Depositing, Replace

\* A statement that does not start a deposit adds no depositing thread.
LEMMA NoNewDeposit ==
  ASSUME TypeInv, NEW t \in Threads, NEW from, NEW to,
         Goto(t, from, to), item' = item,
         from \in BeforeAppend \/ to \notin BeforeAppend,
         NEW s \in Slots
  PROVE  Depositing(s)' \subseteq Depositing(s)
BY DEF TypeInv, PcInv, Goto, Depositing

\* No result is anywhere at the start.
LEMMA ResultInit == Init => ResultInv
BY DEF Init, ResultInv, OnePlace, Depositing, BeforeAppend, Threads

\* Every statement leaves each result in at most one place.
LEMMA ResultStep == TypeInv /\ ResultInv /\ [Next]_vars => ResultInv'
<1> SUFFICES ASSUME TypeInv, ResultInv, [Next]_vars, NEW s \in Slots
             PROVE  OnePlace(s)'
  BY DEF ResultInv
<1>0. OnePlace(s)
  BY DEF ResultInv
<1> USE DEF BeforeAppend, box, taskVar, refs
<1>1. ASSUME NEW x \in Slots, Receive(x) PROVE OnePlace(s)'
  <2>1. CASE s # x
    <3>1. Depositing(s)' \subseteq Depositing(s)
      BY <1>1, <2>1 DEF Receive, Enter, Goto, Depositing, TypeInv, PcInv,
                        Data, Threads
    <3>2. /\ s \in todo' <=> s \in todo
          /\ fresh' = fresh /\ out' = out /\ handed' = handed
      BY <1>1, <2>1 DEF Receive
    <3> QED
      BY <1>0, <3>1, <3>2 DEF OnePlace, Depositing
  <2>2. CASE s = x
    <3>1. /\ s \notin todo' /\ s \notin fresh' \cup out'
          /\ handed'[s] = 0
      BY <1>0, <1>1, <2>2 DEF Receive, OnePlace
    <3>2. "work" \notin Depositing(s)'
      <4>1. "work" \notin Depositing(s)
        BY <1>0, <1>1, <2>2 DEF Receive, OnePlace
      <4>2. /\ pc'["work"] = pc["work"]
            /\ item'["work"] = item["work"]
        BY <1>1 DEF Receive, Enter, Goto, TypeInv, Flags, Data, PcInv, Threads
      <4> QED
        BY <4>1, <4>2 DEF Depositing, Threads
    <3> QED
      BY <3>1, <3>2 DEF OnePlace, Threads
  <2> QED
    BY <2>1, <2>2
<1>2. ASSUME NEW x \in Slots, LocalFinish(x) PROVE OnePlace(s)'
  <2>1. CASE s # x
    <3>1. Depositing(s)' \subseteq Depositing(s)
      BY <1>2, <2>1 DEF LocalFinish, Enter, Goto, Depositing, TypeInv, PcInv,
                        Data, Threads
    <3>2. /\ s \in todo' <=> s \in todo
          /\ fresh' = fresh /\ out' = out /\ handed' = handed
      BY <1>2, <2>1 DEF LocalFinish
    <3> QED
      BY <1>0, <3>1, <3>2 DEF OnePlace, Depositing
  <2>2. CASE s = x
    <3>1. /\ s \notin todo' /\ s \notin fresh' \cup out'
          /\ handed'[s] = 0
      BY <1>0, <1>2, <2>2 DEF LocalFinish, OnePlace
    <3>2. "incoming" \notin Depositing(s)'
      <4>1. "incoming" \notin Depositing(s)
        BY <1>0, <1>2, <2>2 DEF LocalFinish, OnePlace
      <4>2. /\ pc'["incoming"] = pc["incoming"]
            /\ item'["incoming"] = item["incoming"]
        BY <1>2 DEF LocalFinish, Enter, Goto, TypeInv, Flags, Data, PcInv, Threads
      <4> QED
        BY <4>1, <4>2 DEF Depositing, Threads
    <3> QED
      BY <3>1, <3>2 DEF OnePlace, Threads
  <2> QED
    BY <2>1, <2>2
<1>3. ASSUME NEW t \in Threads, AppendFresh(t) PROVE OnePlace(s)'
  <2>1. CASE item[t] = s
    <3>1. t \in Depositing(s)
      BY <1>3, <2>1 DEF AppendFresh, Goto, Depositing
    <3>2. /\ s \notin todo' /\ s \notin fresh' \cap out'
          /\ handed'[s] = 0
      BY <1>0, <1>3, <3>1 DEF AppendFresh, OnePlace
    <3>3. Depositing(s)' = {}
      BY <1>0, <1>3, <3>1 DEF AppendFresh, Goto, OnePlace, Depositing,
                              Threads, TypeInv, PcInv
    <3> QED
      BY <3>2, <3>3 DEF OnePlace, Threads
  <2>2. CASE item[t] # s
    <3>1. /\ s \in fresh' <=> s \in fresh
          /\ s \in out' <=> s \in out
          /\ todo' = todo /\ handed' = handed
      BY <1>3, <2>2 DEF AppendFresh
    <3>2. Depositing(s)' \subseteq Depositing(s)
      BY <1>3, NoNewDeposit DEF AppendFresh
    <3> QED
      BY <1>0, <3>1, <3>2 DEF OnePlace, Depositing
  <2> QED
    BY <2>1, <2>2
<1>4. ASSUME NEW t \in Threads, DepositStep(t), ~AppendFresh(t)
      PROVE  OnePlace(s)'
  <2>1. CASE Find(t)
    BY <1>0, <2>1, NoNewDeposit, LeavePlace DEF Find, OnePlace
  <2>2. CASE CountResult(t)
    BY <1>0, <2>2, NoNewDeposit, LeavePlace DEF CountResult, OnePlace
  <2>3. CASE TestFresh(t)
    BY <1>0, <2>3, NoNewDeposit, LeavePlace DEF TestFresh, OnePlace
  <2>4. CASE NewFresh(t)
    BY <1>0, <2>4, NoNewDeposit, ReplacePlace DEF NewFresh
  <2>5. CASE StoreResult(t)
    BY <1>0, <2>5, NoNewDeposit, LeavePlace DEF StoreResult, OnePlace
  <2>6. CASE CheckWaiting(t)
    BY <1>0, <2>6, NoNewDeposit, LeavePlace DEF CheckWaiting, OnePlace
  <2>7. CASE AssertWaiting(t)
    BY <1>0, <2>7, NoNewDeposit, LeavePlace DEF AssertWaiting, OnePlace
  <2>8. CASE LookupTask(t)
    BY <1>0, <2>8, NoNewDeposit, LeavePlace DEF LookupTask, OnePlace
  <2>9. CASE DecideWake(t)
    BY <1>0, <2>9, NoNewDeposit, LeavePlace DEF DecideWake, OnePlace
  <2>10. CASE WakeTask(t)
    BY <1>0, <2>10, NoNewDeposit, LeavePlace DEF WakeTask, OnePlace
  <2>11. CASE ClearDest(t)
    BY <1>0, <2>11, NoNewDeposit, LeavePlace DEF ClearDest, OnePlace
  <2>12. CASE RestoreCredit(t)
    BY <1>0, <2>12, NoNewDeposit, LeavePlace DEF RestoreCredit, OnePlace
  <2>13. CASE AddResult(t)
    BY <1>0, <2>13, NoNewDeposit, LeavePlace DEF AddResult, OnePlace
  <2>14. CASE LoadFresh(t)
    BY <1>0, <2>14, NoNewDeposit, LeavePlace DEF LoadFresh, OnePlace
  <2> QED
    BY <1>4, <2>1, <2>2, <2>3, <2>4, <2>5, <2>6, <2>7, <2>8, <2>9, <2>10, <2>11, <2>12, <2>13,
       <2>14 DEF DepositStep
<1>5. ASSUME NEW op \in Ops, Suspend(op) PROVE OnePlace(s)'
  BY <1>0, <1>5, NoNewDeposit, LeavePlace DEF Suspend, Threads, OnePlace
<1>15. CASE Resume
  <2>1. Depositing(s)' \subseteq Depositing(s)
    BY <1>15, NoNewDeposit DEF Resume, Threads
  <2>2. /\ todo' = todo /\ fresh' = fresh /\ out' = {}
        /\ handed'[s] = handed[s] + (IF s \in out THEN 1 ELSE 0)
    BY <1>15 DEF Resume
  <2>3. handed[s] \in Nat
    BY DEF TypeInv, Data
  <2>4. CASE s \in out
    <3>1. /\ handed'[s] = 1 /\ Depositing(s)' = {}
          /\ s \notin todo /\ s \notin fresh
      BY <1>0, <2>1, <2>2, <2>4 DEF OnePlace
    <3> QED
      BY <2>2, <3>1 DEF OnePlace, Threads
  <2>5. CASE s \notin out
    <3>1. handed'[s] = handed[s]
      BY <2>2, <2>3, <2>5
    <3> QED
      BY <1>0, <2>1, <2>2, <3>1, LeavePlace
  <2> QED
    BY <2>4, <2>5
<1>7. CASE SetDest
  BY <1>0, <1>7, NoNewDeposit, LeavePlace DEF SetDest, Threads, OnePlace
<1>8. CASE SetWakeFlag
  BY <1>0, <1>8, NoNewDeposit, LeavePlace DEF SetWakeFlag, Threads, OnePlace
<1>9. CASE TestReady
  BY <1>0, <1>9, NoNewDeposit, LeavePlace DEF TestReady, Threads, OnePlace
<1>10. CASE PutReady
  BY <1>0, <1>10, NoNewDeposit, LeavePlace DEF PutReady, Threads, OnePlace
<1>11. CASE YieldCredit
  BY <1>0, <1>11, NoNewDeposit, LeavePlace DEF YieldCredit, Threads, OnePlace
<1>12. CASE PopReady
  <2>1. Depositing(s)' \subseteq Depositing(s)
    BY <1>12 DEF PopReady, Goto, Depositing, Threads, TypeInv, PcInv
  <2> QED
    BY <1>0, <1>12, <2>1, LeavePlace DEF PopReady, OnePlace
<1>13. CASE TakeResult
  BY <1>0, <1>13, NoNewDeposit, LeavePlace DEF TakeResult, Threads, OnePlace
<1>14. CASE TakeFails
  BY <1>0, <1>14, NoNewDeposit, LeavePlace DEF TakeFails, Threads, OnePlace
<1>6. CASE TakeNext
  BY <1>0, <1>6, NoNewDeposit, LeavePlace DEF TakeNext, Threads, OnePlace
<1>23. CASE SwapFresh
  BY <1>0, <1>23, NoNewDeposit, ReplacePlace DEF SwapFresh, Threads
<1>16. CASE Cancel
  <2>1. Depositing(s)' \subseteq Depositing(s)
    BY <1>16 DEF Cancel, Goto, Depositing, Threads, TypeInv, PcInv
  <2> QED
    BY <1>0, <1>16, <2>1, LeavePlace DEF Cancel, OnePlace
<1>17. CASE Return
  BY <1>0, <1>17, NoNewDeposit, LeavePlace DEF Return, Threads, OnePlace
<1>18. CASE DropMailbox
  BY <1>0, <1>18, NoNewDeposit, LeavePlace DEF DropMailbox, Threads, OnePlace
<1>19. CASE AwaitOther
  BY <1>0, <1>19, NoNewDeposit, LeavePlace DEF AwaitOther, Threads, OnePlace
<1>20. CASE OtherArrives
  BY <1>0, <1>20, LeavePlace DEF OtherArrives, Depositing, OnePlace
<1>21. CASE TakeOther
  BY <1>0, <1>21, NoNewDeposit, LeavePlace DEF TakeOther, Threads, OnePlace
<1>22. CASE UNCHANGED vars
  BY <1>0, <1>22 DEF vars, OnePlace, Depositing
<1> QED
  BY <1>1, <1>2, <1>3, <1>4, <1>5, <1>6, <1>7, <1>8, <1>9, <1>10, <1>11, <1>12, <1>13, <1>14, <1>15, <1>16, <1>17, <1>18, <1>19, <1>20, <1>21, <1>22, <1>23
     DEF Next, Arrival, TaskStep, DepositStep

\* next() never returns the result of a child twice, wherever the children
\* run and however the threads interleave.
THEOREM NextOnce == Spec => []NextAtMostOnce
<1>1. Spec => [](TypeInv /\ ResultInv)
  BY TypeInit, TypeStep, ResultInit, ResultStep, PTL DEF Spec
<1>2. ResultInv => NextAtMostOnce
  BY DEF ResultInv, OnePlace, NextAtMostOnce
<1> QED
  BY <1>1, <1>2, PTL

----------------------------------------------------------------------------
(* The wake-up of an awaiting task.                                        *)

\* A mailbox has a number of slots.
LEMMA SlotsFinite == Cardinality(Slots) \in Nat
BY SlotsAssumption, FS_CardinalityType

\* The results whose deposit has got as far as the store of the count.
Pending(t) == IF pc[t] \in {"find", "count", "add"} THEN {item[t]} ELSE {}
Past       == Slots \ (todo \cup Pending("work") \cup Pending("incoming"))

\* The count, and every copy of it a thread has loaded, is at most their number:
\* an increment may be lost, but none is made up.
CountInv ==
    /\ num <= Cardinality(Past)
    /\ \A t \in Threads : pc[t] = "add" => seen[t] <= Cardinality(Past)

\* Results only come to be past.
LEMMA PastGrows ==
  ASSUME TypeInv, Past \subseteq Past'
  PROVE  /\ Cardinality(Past) \in Nat /\ Cardinality(Past') \in Nat
         /\ Cardinality(Past) <= Cardinality(Past')
<1>1. Past \subseteq Slots /\ Past' \subseteq Slots
  BY DEF Past
<1>2. IsFiniteSet(Past) /\ IsFiniteSet(Past')
  BY <1>1, SlotsAssumption, FS_Subset
<1> QED
  BY <1>2, FS_Subset, FS_CardinalityType

\* Nothing is past at the start.
LEMMA CountInit == Init => CountInv
<1> SUFFICES ASSUME Init PROVE CountInv
  OBVIOUS
<1>1. Past = {}
  BY DEF Init, Past
<1> QED
  BY <1>1, FS_EmptySet DEF Init, CountInv, Threads

\* No statement counts a result that is not past.
LEMMA CountStep == TypeInv /\ ResultInv /\ CountInv /\ [Next]_vars => CountInv'
<1> SUFFICES ASSUME TypeInv, ResultInv, CountInv, [Next]_vars PROVE CountInv'
  OBVIOUS
<1>1. ASSUME NEW t \in Threads, AddResult(t) PROVE CountInv'
  <2>1. /\ pc[t] = "add" /\ item[t] \in Slots /\ seen[t] \in Nat
        /\ seen[t] <= Cardinality(Past) /\ num' = seen[t] + 1
        /\ pc' = [pc EXCEPT ![t] = "test_fresh"]
        /\ UNCHANGED <<todo, item, seen>>
    BY <1>1 DEF AddResult, Goto, TypeInv, PcInv, Data, Deposit, CountInv, refs
  <2>2. t \in Depositing(item[t])
    BY <2>1 DEF Depositing, BeforeAppend
  <2>3. item[t] \notin todo /\ Depositing(item[t]) # Threads
    BY <2>1, <2>2 DEF ResultInv, OnePlace
  <2>4. ASSUME NEW u \in Threads, u # t PROVE item[t] \notin Pending(u)
    BY <2>1, <2>2, <2>3, <2>4 DEF Pending, Depositing, BeforeAppend, Threads
  <2>5. Past' = Past \cup {item[t]} /\ item[t] \notin Past
    BY <2>1, <2>3, <2>4 DEF Past, Pending, Threads, TypeInv, PcInv
  <2>6. Past \subseteq Slots /\ IsFiniteSet(Past)
    BY SlotsAssumption, FS_Subset DEF Past
  <2>7. Cardinality(Past') = Cardinality(Past) + 1 /\ Cardinality(Past) \in Nat
    BY <2>5, <2>6, FS_AddElement, FS_CardinalityType
  <2>8. ASSUME NEW u \in Threads, pc'[u] = "add" PROVE seen'[u] <= Cardinality(Past')
    <3>1. pc[u] = "add" /\ seen[u] \in Nat /\ seen'[u] = seen[u]
      BY <2>1, <2>8 DEF TypeInv, PcInv, Data
    <3> QED
      BY <2>7, <3>1 DEF CountInv
  <2> QED
    BY <2>1, <2>7, <2>8 DEF CountInv
<1>2. ASSUME NEW t \in Threads, CountResult(t) PROVE CountInv'
  <2>1. /\ pc[t] = "count" /\ pc' = [pc EXCEPT ![t] = "add"]
        /\ seen' = [seen EXCEPT ![t] = num] /\ UNCHANGED <<num, todo, item>>
    BY <1>2 DEF CountResult, Goto, box
  <2>2. Past' = Past
    BY <2>1 DEF Past, Pending, TypeInv, PcInv, Threads
  <2> QED
    BY <2>1, <2>2 DEF CountInv, TypeInv, PcInv, Data
<1>3. ASSUME \A t \in Threads : ~AddResult(t) /\ ~CountResult(t) PROVE CountInv'
  <2> DEFINE G == /\ num' = num /\ seen' = seen /\ Past \subseteq Past'
                  /\ \A t \in Threads : pc'[t] = "add" => pc[t] = "add"
  <2>1. G
    <3> USE DEF TypeInv, Data, PcInv, Threads, Past, Pending, Goto, box, taskVar, refs
    <3>1. ASSUME NEW x \in Slots, Receive(x) PROVE G
      BY <3>1 DEF Receive, Enter
    <3>2. ASSUME NEW x \in Slots, LocalFinish(x) PROVE G
      BY <3>2 DEF LocalFinish, Enter
    <3>3. ASSUME NEW t \in Threads, DepositStep(t) PROVE G
      <4>1. CASE Find(t)
        BY <4>1 DEF Find
      <4>2. CASE TestFresh(t)
        BY <4>2 DEF TestFresh
      <4>3. CASE NewFresh(t)
        BY <4>3 DEF NewFresh, Replace
      <4>4. CASE LoadFresh(t)
        BY <4>4 DEF LoadFresh
      <4>5. CASE AppendFresh(t)
        BY <4>5 DEF AppendFresh
      <4>6. CASE StoreResult(t)
        BY <4>6 DEF StoreResult
      <4>7. CASE CheckWaiting(t)
        BY <4>7 DEF CheckWaiting
      <4>8. CASE AssertWaiting(t)
        BY <4>8 DEF AssertWaiting
      <4>9. CASE LookupTask(t)
        BY <4>9 DEF LookupTask
      <4>10. CASE DecideWake(t)
        BY <4>10 DEF DecideWake
      <4>11. CASE WakeTask(t)
        BY <4>11 DEF WakeTask
      <4>12. CASE ClearDest(t)
        BY <4>12 DEF ClearDest
      <4>13. CASE RestoreCredit(t)
        BY <4>13 DEF RestoreCredit
      <4> QED
        BY <1>3, <3>3, <4>1, <4>2, <4>3, <4>4, <4>5, <4>6, <4>7, <4>8, <4>9, <4>10, <4>11, <4>12, <4>13 DEF DepositStep
    <3>4. ASSUME NEW op \in Ops, Suspend(op) PROVE G
      BY <3>4 DEF Suspend
    <3>5. CASE SetDest
      BY <3>5 DEF SetDest
    <3>6. CASE SetWakeFlag
      BY <3>6 DEF SetWakeFlag
    <3>7. CASE TestReady
      BY <3>7 DEF TestReady
    <3>8. CASE PutReady
      BY <3>8 DEF PutReady
    <3>9. CASE YieldCredit
      BY <3>9 DEF YieldCredit
    <3>10. CASE PopReady
      BY <3>10 DEF PopReady
    <3>11. CASE TakeNext
      BY <3>11 DEF TakeNext
    <3>12. CASE SwapFresh
      BY <3>12 DEF SwapFresh, Replace
    <3>13. CASE TakeResult
      BY <3>13 DEF TakeResult
    <3>14. CASE TakeFails
      BY <3>14 DEF TakeFails
    <3>15. CASE Resume
      BY <3>15 DEF Resume
    <3>16. CASE Cancel
      BY <3>16 DEF Cancel
    <3>17. CASE Return
      BY <3>17 DEF Return
    <3>18. CASE DropMailbox
      BY <3>18 DEF DropMailbox
    <3>19. CASE AwaitOther
      BY <3>19 DEF AwaitOther
    <3>20. CASE OtherArrives
      BY <3>20 DEF OtherArrives
    <3>21. CASE TakeOther
      BY <3>21 DEF TakeOther
    <3>22. CASE UNCHANGED vars
      BY <3>22 DEF vars
    <3> QED
      BY <3>1, <3>2, <3>3, <3>4, <3>5, <3>6, <3>7, <3>8, <3>9, <3>10, <3>11, <3>12, <3>13, <3>14, <3>15, <3>16, <3>17, <3>18, <3>19, <3>20, <3>21, <3>22
         DEF Next, Arrival, TaskStep
  <2> QED
    BY <2>1, PastGrows DEF CountInv, TypeInv, Data
<1> QED
  BY <1>1, <1>2, <1>3

\* A full mailbox is full of results that are past.
LEMMA FullIsPast ==
  ASSUME TypeInv, CountInv, Ready
  PROVE  \A t \in Threads : pc[t] \notin {"find", "count", "add"}
<1>1. Past \subseteq Slots
  BY DEF Past
<1>2. /\ IsFiniteSet(Past) /\ Cardinality(Past) \in Nat
      /\ Cardinality(Slots) \in Nat /\ num \in Nat
  BY <1>1, SlotsAssumption, FS_Subset, FS_CardinalityType DEF TypeInv, Data
<1>3. Cardinality(Past) >= Cardinality(Slots)
  BY <1>2 DEF CountInv, Ready
<1>4. Past = Slots
  BY <1>1, <1>2, <1>3, SlotsAssumption, FS_Subset
<1> SUFFICES ASSUME NEW t \in Threads, pc[t] \in {"find", "count", "add"} PROVE FALSE
  OBVIOUS
<1>5. item[t] \in Slots /\ item[t] \in Pending(t)
  BY DEF TypeInv, PcInv, Deposit, Pending
<1> QED
  BY <1>4, <1>5 DEF Past, Threads

\* At the start nobody has asked, and no wake-up is due.
LEMMA WakeInit == Init => WakeInv
BY DEF Init, WakeInv, NoNext, QueuedIsReady, WakeComing, ClearedAfterPut,
       NotAskedYet, AnsweredOnce, AsksExisting, Asked, PastCheck, Threads

\* Every statement hands the wake-up on.
LEMMA WakeStep ==
  ASSUME "next" \notin Ops, TypeInv, CountInv, WakeInv, [Next]_vars
  PROVE  WakeInv'
<1>0. Ready => \A t \in Threads : pc[t] \notin {"find", "count", "add"}
  BY FullIsPast
<1> USE <1>0, SlotsFinite DEF WakeInv, NoNext, QueuedIsReady, WakeComing,
        ClearedAfterPut, NotAskedYet, AnsweredOnce, AsksExisting, Asked,
        Counted, PastCheck, TypeInv, Flags, Data, PcInv, Threads, Deposit, Work,
        Goto, Ready, box, taskVar, refs
<1>1. ASSUME NEW x \in Slots, Receive(x) PROVE WakeInv'
  BY <1>1 DEF Receive, Enter
<1>2. ASSUME NEW x \in Slots, LocalFinish(x) PROVE WakeInv'
  BY <1>2 DEF LocalFinish, Enter
<1>3. ASSUME NEW t \in Threads, DepositStep(t) PROVE WakeInv'
  <2>1. CASE Find(t)
    BY <2>1 DEF Find
  <2>2. CASE CountResult(t)
    BY <2>2 DEF CountResult
  <2>3. CASE TestFresh(t)
    BY <2>3 DEF TestFresh
  <2>4. CASE NewFresh(t)
    BY <2>4 DEF NewFresh, Replace
  <2>5. CASE AppendFresh(t)
    BY <2>5 DEF AppendFresh
  <2>6. CASE StoreResult(t)
    BY <2>6 DEF StoreResult
  <2>7. CASE CheckWaiting(t)
    BY <2>7 DEF CheckWaiting
  <2>8. CASE AssertWaiting(t)
    BY <2>8 DEF AssertWaiting
  <2>9. CASE LookupTask(t)
    BY <2>9 DEF LookupTask
  <2>10. CASE DecideWake(t)
    BY <2>10 DEF DecideWake
  <2>11. CASE WakeTask(t)
    BY <2>11 DEF WakeTask
  <2>12. CASE ClearDest(t)
    BY <2>12 DEF ClearDest
  <2>13. CASE RestoreCredit(t)
    BY <2>13 DEF RestoreCredit
  <2>14. CASE AddResult(t)
    BY <2>14 DEF AddResult
  <2>15. CASE LoadFresh(t)
    BY <2>15 DEF LoadFresh
  <2> QED
    BY <1>3, <2>1, <2>2, <2>3, <2>4, <2>5, <2>6, <2>7, <2>8, <2>9, <2>10, <2>11, <2>12, <2>13,
       <2>14, <2>15 DEF DepositStep
<1>4. ASSUME NEW op \in Ops, Suspend(op) PROVE WakeInv'
  BY <1>4 DEF Suspend
<1>5. CASE SetDest
  BY <1>5 DEF SetDest
<1>6. CASE SetWakeFlag
  BY <1>6 DEF SetWakeFlag
<1>7. CASE TestReady
  BY <1>7 DEF TestReady
<1>8. CASE PutReady
  BY <1>8 DEF PutReady
<1>9. CASE YieldCredit
  BY <1>9 DEF YieldCredit
<1>10. CASE PopReady
  BY <1>10 DEF PopReady
<1>11. CASE TakeNext
  BY <1>11 DEF TakeNext
<1>12. CASE TakeResult
  BY <1>12 DEF TakeResult
<1>13. CASE TakeFails
  BY <1>13 DEF TakeFails
<1>14. CASE Resume
  BY <1>14 DEF Resume
<1>15. CASE Cancel
  BY <1>15 DEF Cancel
<1>16. CASE Return
  BY <1>16 DEF Return
<1>17. CASE DropMailbox
  BY <1>17 DEF DropMailbox
<1>18. CASE AwaitOther
  BY <1>18 DEF AwaitOther
<1>19. CASE OtherArrives
  BY <1>19 DEF OtherArrives
<1>20. CASE TakeOther
  BY <1>20 DEF TakeOther
<1>21. CASE UNCHANGED vars
  BY <1>21 DEF vars
<1>22. CASE SwapFresh
  BY <1>22 DEF SwapFresh, Replace
<1> QED
  BY <1>1, <1>2, <1>3, <1>4, <1>5, <1>6, <1>7, <1>8, <1>9, <1>10, <1>11, <1>12, <1>13, <1>14, <1>15, <1>16, <1>17, <1>18, <1>19, <1>20, <1>21, <1>22
     DEF Next, Arrival, TaskStep

\* A task that awaits (and never calls next) is in the ready queue once its
\* mailbox is full and both threads are done with it, for every interleaving
\* of _process_await with _handle_result on either thread.
THEOREM WakeNotLost ==
  ASSUME "next" \notin Ops
  PROVE  Spec => []NoLostWake
<1>1. TypeInv /\ CountInv /\ WakeInv /\ [Next]_vars => WakeInv'
  BY WakeStep
<1>2. Spec => [](TypeInv /\ WakeInv)
  BY <1>1, TypeInit, TypeStep, ResultInit, ResultStep, CountInit, CountStep, WakeInit, PTL DEF Spec
<1>3. TypeInv /\ WakeInv => NoLostWake
  BY DEF WakeInv, WakeComing, ClearedAfterPut, NoLostWake, Waiting, Quiet,
         Asked, AsksExisting, Counted, Threads, TypeInv, Data, Flags
<1> QED
  BY <1>2, <1>3, PTL

----------------------------------------------------------------------------
(* No result is lost.                                                      *)

\* At the start there are no fresh results to lose.
LEMMA KeepInit == Init => KeepInv
BY DEF Init, KeepInv, OneThread, AllLocal, OneDepositor, FreshInv, ListInv, Held, Deposit,
       Threads

\* With one thread that deposits, no statement drops a fresh result.
LEMMA KeepStep == TypeInv /\ KeepInv /\ [Next]_vars => KeepInv'
<1> SUFFICES ASSUME TypeInv, KeepInv, [Next]_vars PROVE KeepInv'
  OBVIOUS
<1> USE SlotsAssumption DEF KeepInv, OneThread, AllLocal, OneDepositor, FreshInv, ListInv, Held, BeforeAppend, Goto,
        TypeInv, Flags, Data, PcInv, Threads, Deposit, Work, box, taskVar, refs
<1>1. ASSUME NEW x \in Slots, Receive(x) PROVE KeepInv'
  BY <1>1 DEF Receive, Enter
<1>2. ASSUME NEW x \in Slots, LocalFinish(x) PROVE KeepInv'
  BY <1>2 DEF LocalFinish, Enter
<1>3. ASSUME NEW t \in Threads, DepositStep(t) PROVE KeepInv'
  <2>1. CASE Find(t)
    BY <2>1 DEF Find
  <2>2. CASE CountResult(t)
    BY <2>2 DEF CountResult
  <2>3. CASE TestFresh(t)
    BY <2>3 DEF TestFresh
  <2>4. CASE NewFresh(t)
    BY <2>4 DEF NewFresh, Replace
  <2>5. CASE AppendFresh(t)
    <3>1. /\ fresh \subseteq fresh' /\ out \subseteq out' /\ missed \subseteq missed'
          /\ pc' = [pc EXCEPT ![t] = "store"]
          /\ UNCHANGED <<exists, hasFresh, local, todo, handed, item>>
      BY <2>5 DEF AppendFresh
    <3>2. OneThread => OneDepositor' /\ FreshInv' /\ ListInv'
      BY <2>5, <3>1 DEF AppendFresh
    <3>3. ASSUME OneThread, exists, NEW s \in Slots PROVE Held(s)'
      <4>1. CASE s \in todo \cup fresh \cup out \/ handed[s] > 0 \/ (s \in missed /\ ~AllLocal)
        BY <3>1, <4>1
      <4>2. CASE item[t] = s
        <5>1. holds[t] # "none"
          BY <2>5, <3>3 DEF AppendFresh
        <5>2. holds[t] = "old" => ~AllLocal
          BY <2>5, <3>3 DEF AppendFresh
        <5> QED
          BY <2>5, <3>1, <4>2, <5>1, <5>2 DEF AppendFresh
      <4>3. ASSUME NEW u \in Threads, u # t, item[u] = s,
                   pc[u] \in BeforeAppend
            PROVE  Held(s)'
        BY <3>1, <4>3
      <4> QED
        BY <3>3, <4>1, <4>2, <4>3
    <3>4. OneThread' => OneThread
      BY <3>1
    <3> QED
      BY <3>1, <3>2, <3>3, <3>4
  <2>6. CASE StoreResult(t)
    BY <2>6 DEF StoreResult
  <2>7. CASE CheckWaiting(t)
    BY <2>7 DEF CheckWaiting
  <2>8. CASE AssertWaiting(t)
    BY <2>8 DEF AssertWaiting
  <2>9. CASE LookupTask(t)
    BY <2>9 DEF LookupTask
  <2>10. CASE DecideWake(t)
    BY <2>10 DEF DecideWake
  <2>11. CASE WakeTask(t)
    BY <2>11 DEF WakeTask
  <2>12. CASE ClearDest(t)
    BY <2>12 DEF ClearDest
  <2>13. CASE RestoreCredit(t)
    BY <2>13 DEF RestoreCredit
  <2>14. CASE AddResult(t)
    BY <2>14 DEF AddResult
  <2>15. CASE LoadFresh(t)
    BY <2>15 DEF LoadFresh
  <2> QED
    BY <1>3, <2>1, <2>2, <2>3, <2>4, <2>5, <2>6, <2>7, <2>8, <2>9, <2>10, <2>11, <2>12, <2>13,
       <2>14, <2>15 DEF DepositStep
<1>4. ASSUME NEW op \in Ops, Suspend(op) PROVE KeepInv'
  BY <1>4 DEF Suspend
<1>5. CASE SetDest
  BY <1>5 DEF SetDest
<1>6. CASE SetWakeFlag
  BY <1>6 DEF SetWakeFlag
<1>7. CASE TestReady
  BY <1>7 DEF TestReady
<1>8. CASE PutReady
  BY <1>8 DEF PutReady
<1>9. CASE YieldCredit
  BY <1>9 DEF YieldCredit
<1>10. CASE PopReady
  BY <1>10 DEF PopReady
<1>11. CASE TakeNext
  BY <1>11 DEF TakeNext
<1>12. CASE TakeResult
  BY <1>12 DEF TakeResult
<1>13. CASE TakeFails
  BY <1>13 DEF TakeFails
<1>14. CASE Resume
  BY <1>14 DEF Resume
<1>15. CASE Cancel
  BY <1>15 DEF Cancel
<1>16. CASE Return
  BY <1>16 DEF Return
<1>17. CASE DropMailbox
  BY <1>17 DEF DropMailbox
<1>18. CASE AwaitOther
  BY <1>18 DEF AwaitOther
<1>19. CASE OtherArrives
  BY <1>19 DEF OtherArrives
<1>20. CASE TakeOther
  BY <1>20 DEF TakeOther
<1>21. CASE UNCHANGED vars
  BY <1>21 DEF vars
<1>22. CASE SwapFresh
  BY <1>22 DEF SwapFresh, Replace
<1> QED
  BY <1>1, <1>2, <1>3, <1>4, <1>5, <1>6, <1>7, <1>8, <1>9, <1>10, <1>11, <1>12, <1>13, <1>14, <1>15, <1>16, <1>17, <1>18, <1>19, <1>20, <1>21, <1>22
     DEF Next, Arrival, TaskStep

\* When one thread deposits every result, a result that has arrived stays in a
\* list that is still to be read until next() returns it, unless the thread
\* loaded the list before get_new_results took it and appended to it after the
\* task had read it; when the depositing thread is the work thread, always.
THEOREM NextLossless == Spec => []NextLosesNothing
<1>1. Spec => [](TypeInv /\ KeepInv)
  BY TypeInit, TypeStep, KeepInit, KeepStep, PTL DEF Spec
<1>2. KeepInv => NextLosesNothing
  BY DEF KeepInv, Held, NextLosesNothing, Depositing, Threads
<1> QED
  BY <1>1, <1>2, PTL


----------------------------------------------------------------------------
(* The order of the statements, when the work thread does everything.      *)

\* The results deposited so far are counted, stored and recorded as fresh, but
\* for the one the work thread is depositing.
Uncounted == IF pc["work"] \in {"find", "count", "add"} THEN {item["work"]} ELSE {}
Unstored  == IF pc["work"] \in BeforeAppend \cup {"store"} THEN {item["work"]} ELSE {}

Tallies ==
    /\ pc["work"] \in Deposit => exists /\ item["work"] \notin todo
    /\ exists =>
          /\ num = Cardinality(Slots \ (todo \cup Uncounted))
          /\ stored = (Slots \ todo) \ Unstored
          /\ num > 0 /\ pc["work"] \notin {"test_fresh", "new_fresh"} => hasFresh
          /\ pc["work"] = "add" => seen["work"] = num
          /\ pc["work"] \in {"append", "record"} \cup (Deposit \ BeforeAppend) => hasFresh

\* What the task asked for is there.
Served == IF wakeOnNext THEN hasFresh ELSE Ready

\* A task that asked and is not queued waits for a deposit to wake it.
Blocked ==
    /\ dest /\ queue = 0 /\ pc["work"] \notin {"clear", "restore"}
    /\ pc["work"] = "idle" => ~Ready
    /\ pc["work"] = "wake" => Served

\* One that is queued is so once, and no deposit will find it waiting.
Queued ==
    /\ queue = 1 /\ Served
    /\ pc["work"] \notin {"assert", "lookup", "decide", "wake"}
    /\ dest => pc["work"] \in {"idle", "clear"} /\ (pc["work"] = "idle" => Ready)
    /\ yielded => pc["work"] \in {"clear", "restore"}

\* Between two of its own statements the task runs, and nothing is queued.
Running ==
    pc["work"] \in {"running", "resume"} =>
        /\ task = (IF pc["work"] = "running" THEN "running" ELSE "suspended")
        /\ other = "none" /\ queue = 0 /\ ~yielded /\ (dest /\ exists => Ready)
        /\ pc["work"] = "running" => ~wakeOnNext

\* It suspends itself on a mailbox that exists.
Suspending ==
    pc["work"] \in {"dest", "flag", "test", "put", "yield"} =>
        /\ task = "suspended" /\ other = "none" /\ exists /\ queue = 0 /\ ~yielded
        /\ pc["work"] = "dest" => (dest => Ready) /\ ~wakeOnNext
        /\ pc["work"] # "dest" => dest
        /\ pc["work"] = "put" => Ready
        /\ pc["work"] = "yield" => ~Ready /\ YieldsCredit

Suspended ==
    pc["work"] \in Deposit \cup {"idle"} =>
        /\ task # "running"
        /\ task = "suspended" /\ other = "none" => exists /\ (Blocked \/ Queued)

Taken ==
    pc["work"] \in {"take", "swap"} =>
        /\ task = "suspended" /\ other # "waiting" /\ queue = 0 /\ ~yielded
        /\ other = "none" => exists /\ Served /\ (dest => Ready)

\* Afterwards the mailbox is gone.
Afterwards ==
    /\ other # "none" =>
          /\ task = "suspended" /\ ~exists /\ ~yielded /\ pc["work"] \in {"idle", "take"}
          /\ queue = IF other = "full" /\ pc["work"] = "idle" THEN 1 ELSE 0
    /\ pc["work"] = "drop" => task = "done"
    /\ task = "done" =>
          /\ pc["work"] \in {"drop", "idle"} /\ queue = 0 /\ ~yielded /\ other = "none"
          /\ pc["work"] = "idle" => ~exists

Sound ==
    /\ pc["incoming"] = "idle" /\ pc["work"] # "dead" /\ ~error
    /\ answer \in {{None}, Slots} /\ (yielded => YieldsCredit)

Alone == /\ Sound /\ Tallies /\ Running /\ Suspending /\ Suspended /\ Taken /\ Afterwards

\* A full mailbox has the results of all its slots.
LEMMA Filled ==
  ASSUME TypeInv, Tallies, exists, Ready
  PROVE  todo = {} /\ Uncounted = {}
<1>1. /\ Slots \ (todo \cup Uncounted) \subseteq Slots
      /\ Cardinality(Slots \ (todo \cup Uncounted)) = num /\ num \in Nat
      /\ Cardinality(Slots) \in Nat /\ num >= Cardinality(Slots)
  BY SlotsFinite DEF Tallies, TypeInv, Data, Ready
<1>2. Slots \ (todo \cup Uncounted) = Slots
  BY <1>1, SlotsAssumption, FS_Subset
<1>3. todo \subseteq Slots /\ Uncounted \subseteq Slots
  BY DEF Uncounted, TypeInv, Data, PcInv, Threads, Deposit
<1> QED
  BY <1>2, <1>3

\* An empty one is not full.
LEMMA ReadySome == TypeInv /\ Ready => num > 0
<1>1. Cardinality(Slots) \in Nat /\ Cardinality(Slots) # 0
  BY SlotsAssumption, FS_CardinalityType, FS_EmptySet
<1> QED
  BY <1>1 DEF Ready, TypeInv, Data

\* Nothing is counted at the start.
LEMMA AloneInit == AllLocal /\ Init => Alone
<1> SUFFICES ASSUME AllLocal, Init PROVE Alone
  OBVIOUS
<1>1. Slots \ (Slots \cup Uncounted) = {} /\ Uncounted = {} /\ Unstored = {}
  BY DEF Init, Uncounted, Unstored, Threads, BeforeAppend
<1>2. Cardinality({}) = 0
  BY FS_EmptySet
<1>3. Tallies
  BY <1>1, <1>2 DEF Init, Tallies, Threads, Deposit
<1> QED
  BY <1>3 DEF Init, Alone, Sound, Running, Suspending, Suspended, Taken, Afterwards,
     Threads, Deposit

\* The tallies, in every step.
LEMMA TalliesStep ==
  ASSUME AllLocal, TypeInv, Alone, [Next]_vars
  PROVE  Tallies'
<1> USE DEF Alone, Sound, Tallies, Uncounted, Unstored, BeforeAppend, AllLocal, TypeInv, Flags, Data,
        PcInv, Threads, Deposit, Work, Goto, box, taskVar, refs
<1>1. ASSUME NEW x \in Slots, Receive(x) PROVE Tallies'
  BY <1>1 DEF Receive, Enter
<1>2. ASSUME NEW x \in Slots, LocalFinish(x) PROVE Tallies'
  <2>1. CASE exists
    <3>1. /\ pc["work"] = "idle" /\ pc'["work"] = "find" /\ item'["work"] = x
          /\ x \in todo /\ todo' = todo \ {x} /\ UNCHANGED box
      BY <1>2, <2>1 DEF LocalFinish, Enter
    <3>2. Slots \ (todo \cup Uncounted) = (Slots \ (todo \cup Uncounted))'
      BY <3>1
    <3>3. stored' = ((Slots \ todo) \ Unstored)'
      BY <2>1, <3>1
    <3> QED
      BY <2>1, <3>1, <3>2, <3>3
  <2>2. CASE ~exists
    BY <1>2, <2>2 DEF LocalFinish, Enter
  <2> QED
    BY <2>1, <2>2
<1>3. ASSUME NEW t \in Threads, DepositStep(t) PROVE Tallies'
  <2>0. t = "work"
    BY <1>3 DEF DepositStep, Find, CountResult, AddResult, TestFresh, NewFresh, LoadFresh,
       AppendFresh, StoreResult,
       CheckWaiting, AssertWaiting, LookupTask, DecideWake, WakeTask, ClearDest, RestoreCredit
  <2>1. CASE Find(t)
    BY <2>0, <2>1 DEF Find
  <2>2. CASE CountResult(t)
    BY <2>0, <2>2 DEF CountResult
  <2>3. CASE TestFresh(t)
    BY <2>0, <2>3 DEF TestFresh
  <2>4. CASE NewFresh(t)
    BY <2>0, <2>4 DEF NewFresh, Replace
  <2>5. CASE AppendFresh(t)
    BY <2>0, <2>5 DEF AppendFresh
  <2>6. CASE StoreResult(t)
    BY <2>0, <2>6 DEF StoreResult
  <2>7. CASE CheckWaiting(t)
    BY <2>0, <2>7 DEF CheckWaiting
  <2>8. CASE AssertWaiting(t)
    BY <2>0, <2>8 DEF AssertWaiting
  <2>9. CASE LookupTask(t)
    BY <2>0, <2>9 DEF LookupTask
  <2>10. CASE DecideWake(t)
    BY <2>0, <2>10 DEF DecideWake
  <2>11. CASE WakeTask(t)
    BY <2>0, <2>11 DEF WakeTask
  <2>12. CASE ClearDest(t)
    BY <2>0, <2>12 DEF ClearDest
  <2>13. CASE RestoreCredit(t)
    BY <2>0, <2>13 DEF RestoreCredit
  <2>14. CASE AddResult(t)
    <3>1. /\ pc["work"] = "add" /\ pc'["work"] = "test_fresh" /\ num' = num + 1 /\ exists
          /\ item["work"] \in Slots /\ item["work"] \notin todo
          /\ UNCHANGED <<exists, hasFresh, fresh, stored, item, todo>>
      BY <2>0, <2>14 DEF AddResult
    <3>2. Cardinality(Slots \ todo) = Cardinality(Slots \ (todo \cup {item["work"]})) + 1
      <4>1. PICK S : S = Slots \ (todo \cup {item["work"]})
        OBVIOUS
      <4>2. /\ Slots \ todo = S \cup {item["work"]}
            /\ S \subseteq Slots /\ item["work"] \notin S
        BY <3>1, <4>1
      <4>3. IsFiniteSet(S)
        BY <4>2, SlotsAssumption, FS_Subset
      <4>4. Cardinality(S \cup {item["work"]}) = Cardinality(S) + 1
        BY ONLY <4>2, <4>3, FS_AddElement
      <4> QED
        BY <4>1, <4>2, <4>4
    <3>3. num = Cardinality(Slots \ (todo \cup {item["work"]}))
      BY <3>1
    <3>4. (Slots \ (todo \cup Uncounted))' = Slots \ todo
      BY <3>1
    <3>5. stored' = ((Slots \ todo) \ Unstored)'
      BY <3>1
    <3> QED
      BY <3>1, <3>2, <3>3, <3>4, <3>5
  <2>15. CASE LoadFresh(t)
    BY <2>0, <2>15 DEF LoadFresh
  <2> QED
    BY <1>3, <2>1, <2>2, <2>3, <2>4, <2>5, <2>6, <2>7, <2>8, <2>9, <2>10, <2>11, <2>12, <2>13,
       <2>14, <2>15 DEF DepositStep
<1>4. ASSUME NEW op \in Ops, Suspend(op) PROVE Tallies'
  BY <1>4 DEF Suspend
<1>5. CASE SetDest
  BY <1>5 DEF SetDest
<1>6. CASE SetWakeFlag
  BY <1>6 DEF SetWakeFlag
<1>7. CASE TestReady
  BY <1>7 DEF TestReady
<1>8. CASE PutReady
  BY <1>8 DEF PutReady
<1>9. CASE YieldCredit
  BY <1>9 DEF YieldCredit
<1>10. CASE PopReady
  <2>1. /\ pc["work"] = "idle" /\ pc'["work"] \in {"idle", "take"}
        /\ UNCHANGED <<exists, num, hasFresh, stored, item, todo>>
    BY <1>10 DEF PopReady
  <2>2. Uncounted' = Uncounted /\ Unstored' = Unstored
    BY <2>1
  <2> QED
    BY <2>1, <2>2
<1>11. CASE TakeNext
  BY <1>11 DEF TakeNext
<1>12. CASE TakeResult
  BY <1>12 DEF TakeResult
<1>13. CASE TakeFails
  BY <1>13 DEF TakeFails
<1>14. CASE Resume
  BY <1>14 DEF Resume
<1>15. CASE Cancel
  BY <1>15 DEF Cancel
<1>16. CASE Return
  BY <1>16 DEF Return
<1>17. CASE DropMailbox
  BY <1>17 DEF DropMailbox
<1>18. CASE AwaitOther
  BY <1>18 DEF AwaitOther
<1>19. CASE OtherArrives
  BY <1>19 DEF OtherArrives
<1>20. CASE TakeOther
  BY <1>20 DEF TakeOther
<1>21. CASE UNCHANGED vars
  BY <1>21 DEF vars
<1>22. CASE SwapFresh
  BY <1>22 DEF SwapFresh, Replace
<1> QED
  BY <1>1, <1>2, <1>3, <1>4, <1>5, <1>6, <1>7, <1>8, <1>9, <1>10, <1>11, <1>12, <1>13, <1>14, <1>15, <1>16, <1>17, <1>18, <1>19, <1>20, <1>21, <1>22
     DEF Next, Arrival, TaskStep

\* What a deposit and the task's own statements do to each other.
LEMMA OrderStep ==
  ASSUME AllLocal, TypeInv, Alone, [Next]_vars
  PROVE  (Sound /\ Running /\ Suspending /\ Suspended /\ Taken /\ Afterwards)'
<1> DEFINE G == Sound /\ Running /\ Suspending /\ Suspended /\ Taken /\ Afterwards
<1>a. exists /\ Ready => todo = {} /\ Uncounted = {}
  BY Filled DEF Alone
<1>b. Ready => num > 0
  BY ReadySome
<1>c. pc["work"] \in Deposit => exists
  BY DEF Alone, Tallies
<1>d. exists /\ num > 0 /\ pc["work"] \notin {"test_fresh", "new_fresh"} => hasFresh
  BY DEF Alone, Tallies
<1>e. exists /\ pc["work"] \in {"append", "record"} \cup (Deposit \ BeforeAppend) => hasFresh
  BY DEF Alone, Tallies
<1>f. exists /\ pc["work"] \notin Deposit => stored = Slots \ todo
  BY DEF Alone, Tallies, Unstored, BeforeAppend, Deposit
<1>g. Sound /\ Running /\ Suspending /\ Suspended /\ Taken /\ Afterwards
  BY DEF Alone
<1> USE <1>a, <1>b, <1>c, <1>d, <1>e, <1>f, <1>g, SlotsFinite DEF Sound, Running, Suspending, Suspended, Taken, Afterwards, Served,
        Blocked, Queued, Ready, Uncounted, BeforeAppend, AllLocal, TypeInv, Flags, Data,
        PcInv, Threads, Deposit, Work, Goto, box, taskVar, refs
<1>1. ASSUME NEW x \in Slots, Receive(x) PROVE G'
  BY <1>1 DEF Receive, Enter
<1>2. ASSUME NEW x \in Slots, LocalFinish(x) PROVE G'
  BY <1>2 DEF LocalFinish, Enter
<1>3. ASSUME NEW t \in Threads, DepositStep(t) PROVE G'
  <2>0. t = "work"
    BY <1>3 DEF DepositStep, Find, CountResult, AddResult, TestFresh, NewFresh, LoadFresh,
       AppendFresh, StoreResult,
       CheckWaiting, AssertWaiting, LookupTask, DecideWake, WakeTask, ClearDest, RestoreCredit
  <2>1. CASE Find(t)
    BY <2>0, <2>1 DEF Find
  <2>2. CASE CountResult(t)
    BY <2>0, <2>2 DEF CountResult
  <2>3. CASE TestFresh(t)
    BY <2>0, <2>3 DEF TestFresh
  <2>4. CASE NewFresh(t)
    BY <2>0, <2>4 DEF NewFresh, Replace
  <2>5. CASE AppendFresh(t)
    BY <2>0, <2>5 DEF AppendFresh
  <2>6. CASE StoreResult(t)
    BY <2>0, <2>6 DEF StoreResult
  <2>7. CASE CheckWaiting(t)
    BY <2>0, <2>7 DEF CheckWaiting
  <2>8. CASE AssertWaiting(t)
    BY <2>0, <2>8 DEF AssertWaiting
  <2>9. CASE LookupTask(t)
    BY <2>0, <2>9 DEF LookupTask
  <2>10. CASE DecideWake(t)
    BY <2>0, <2>10 DEF DecideWake
  <2>11. CASE WakeTask(t)
    BY <2>0, <2>11 DEF WakeTask
  <2>12. CASE ClearDest(t)
    BY <2>0, <2>12 DEF ClearDest
  <2>13. CASE RestoreCredit(t)
    BY <2>0, <2>13 DEF RestoreCredit
  <2>14. CASE AddResult(t)
    BY <2>0, <2>14 DEF AddResult
  <2>15. CASE LoadFresh(t)
    BY <2>0, <2>15 DEF LoadFresh
  <2> QED
    BY <1>3, <2>1, <2>2, <2>3, <2>4, <2>5, <2>6, <2>7, <2>8, <2>9, <2>10, <2>11, <2>12, <2>13,
       <2>14, <2>15 DEF DepositStep
<1>4. ASSUME NEW op \in Ops, Suspend(op) PROVE G'
  BY <1>4 DEF Suspend
<1>5. CASE SetDest
  BY <1>5 DEF SetDest
<1>6. CASE SetWakeFlag
  BY <1>6 DEF SetWakeFlag
<1>7. CASE TestReady
  BY <1>7 DEF TestReady
<1>8. CASE PutReady
  BY <1>8 DEF PutReady
<1>9. CASE YieldCredit
  BY <1>9 DEF YieldCredit
<1>10. CASE PopReady
  BY <1>10 DEF PopReady
<1>11. CASE TakeNext
  BY <1>11 DEF TakeNext
<1>12. CASE TakeResult
  BY <1>12 DEF TakeResult
<1>13. CASE TakeFails
  BY <1>13 DEF TakeFails
<1>14. CASE Resume
  BY <1>14 DEF Resume
<1>15. CASE Cancel
  BY <1>15 DEF Cancel
<1>16. CASE Return
  BY <1>16 DEF Return
<1>17. CASE DropMailbox
  BY <1>17 DEF DropMailbox
<1>18. CASE AwaitOther
  BY <1>18 DEF AwaitOther
<1>19. CASE OtherArrives
  BY <1>19 DEF OtherArrives
<1>20. CASE TakeOther
  BY <1>20 DEF TakeOther
<1>21. CASE UNCHANGED vars
  BY <1>21 DEF vars
<1>22. CASE SwapFresh
  BY <1>22 DEF SwapFresh, Replace
<1> QED
  BY <1>1, <1>2, <1>3, <1>4, <1>5, <1>6, <1>7, <1>8, <1>9, <1>10, <1>11, <1>12, <1>13, <1>14, <1>15, <1>16, <1>17, <1>18, <1>19, <1>20, <1>21, <1>22
     DEF Next, Arrival, TaskStep

\* When the work thread does everything, one await has one wake-up, returns
\* every result, and ends without an error or an exception, whatever the
\* number of children and the order in which they end; with next and cancel too.
THEOREM AloneIsCorrect == Spec => []AloneCorrect
<1>1. AllLocal /\ TypeInv /\ Alone => AloneCorrect
  BY DEF Alone, Sound, Running, Suspending, Suspended, Taken, Afterwards, Blocked, Queued,
     AloneCorrect, NoDoubleWake, AwaitReturnsAll, Waiting, TypeInv, Data, PcInv, Threads,
     Deposit, Work
<1>2. ~AllLocal => AloneCorrect
  BY DEF AloneCorrect
<1>3. [Next]_vars => (AllLocal' <=> AllLocal)
  <2>1. [Next]_vars => local' = local
    BY DEF Next, Arrival, TaskStep, Receive, LocalFinish, DepositStep, Find, CountResult, AddResult,
       TestFresh, NewFresh, LoadFresh, AppendFresh, StoreResult, CheckWaiting, AssertWaiting, LookupTask, DecideWake,
       WakeTask, ClearDest, RestoreCredit, Suspend, SetDest, SetWakeFlag, TestReady, PutReady,
       YieldCredit, PopReady, TakeNext, SwapFresh, TakeResult, TakeFails, Resume, Cancel, Return, DropMailbox,
       AwaitOther, OtherArrives, TakeOther, vars
  <2> QED
    BY <2>1 DEF AllLocal
<1>4. TypeInv /\ (AllLocal => Alone) /\ [Next]_vars => (AllLocal => Alone)'
  BY <1>3, TalliesStep, OrderStep DEF Alone
<1>5. Init => TypeInv /\ (AllLocal => Alone)
  BY TypeInit, AloneInit
<1>6. Spec => [](TypeInv /\ (AllLocal => Alone))
  BY <1>4, <1>5, TypeStep, PTL DEF Spec
<1>7. TypeInv /\ (AllLocal => Alone) => AloneCorrect
  BY <1>1, <1>2
<1> QED
  BY <1>6, <1>7, PTL
=============================================================================
