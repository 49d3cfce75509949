--------------------------- MODULE WorkerLoopProofs ---------------------------
(***************************************************************************)
(* Theorems about module WorkerLoop: its types, the account of every task  *)
(* a worker has read, and that WAITING is said only when it is true.       *)
(***************************************************************************)
EXTENDS WorkerLoop, DataLemmas

----------------------------------------------------------------------------
(* Types and control.                                                      *)

\* What the place of each thread says of the entry and the batch it holds.
Control ==
    /\ (pc["work"] \in {"check", "step"}) = (active # None)
    /\ pc["incoming"] \notin {"add", "start", "extend", "give_back"} => batch = <<>>
    /\ pc["incoming"] = "add" => batch # <<>>
    /\ pc["incoming"] \in {"filter", "rebind", "dead"} => cancelled # {}
    /\ \A th \in Threads : (pc[th] = "start") = (adding[th] # None)
    /\ pc["work"] = "start" => pc["incoming"] \notin {"add", "start", "extend"}

Typed == TypeOK /\ Control

\* The worker starts with everything of its type.
LEMMA TypedInit == Init => Typed
BY NoneAssumption DEF Init, Typed, TypeOK, Control, Threads, Places

Moved(th, from, to) ==
    /\ pc' \in [Threads -> Places]
    /\ pc[th] = from /\ pc'[th] = to
    /\ \A o \in Threads : o # th => pc'[o] = pc[o]

\* A move of one thread leaves the other where it is.
LEMMA GotoMoves ==
    ASSUME NEW th \in Threads, NEW from \in Places, NEW to \in Places,
           pc \in [Threads -> Places], Goto(th, from, to)
    PROVE  Moved(th, from, to)
BY DEF Goto, Moved

\* A step that leaves the tasks, the lock and the entry in hand alone.
NotesKept ==
    UNCHANGED <<unsent, reclaims, awaits, received, adding, delayed, ready, started,
                suspended, cancelled, receipt, mutex, batch, snapshot, active,
                adds, finished, returned, killed, early>>

\* Reporting the backlog changes what was seen and what was reported only.
LEMMA TypedNotes ==
    ASSUME Typed, NotesKept,
           seen' \in [Threads -> Nat], reported' \in Nat \cup {None},
           NEW th \in Threads, NEW from \in {"report", "compare", "send"},
           NEW to \in {"compare", "send", "loop", "recv"},
           Moved(th, from, to)
    PROVE  Typed'
<1>1. /\ pc' \in [Threads -> Places]
      /\ pc'["work"] \in {"check", "step"} <=> pc["work"] \in {"check", "step"}
      /\ pc'["work"] = "start" <=> pc["work"] = "start"
      /\ \A p \in {"add", "start", "extend", "give_back", "filter", "rebind", "dead"} :
            pc'["incoming"] = p <=> pc["incoming"] = p
  <2>1. CASE th = "work"
    <3>1. /\ pc["work"] \in {"report", "compare", "send"}
          /\ pc'["work"] \in {"compare", "send", "loop", "recv"}
      BY <2>1 DEF Moved
    <3>2. pc' \in [Threads -> Places] /\ pc'["incoming"] = pc["incoming"]
      BY <2>1 DEF Moved, Threads
    <3> QED BY <3>1, <3>2
  <2>2. CASE th = "incoming"
    <3>1. /\ pc["incoming"] \in {"report", "compare", "send"}
          /\ pc'["incoming"] \in {"compare", "send", "loop", "recv"}
      BY <2>2 DEF Moved
    <3>2. pc' \in [Threads -> Places] /\ pc'["work"] = pc["work"]
      BY <2>2 DEF Moved, Threads
    <3> QED BY <3>1, <3>2
  <2> QED BY <2>1, <2>2 DEF Threads
<1> HIDE DEF Moved
<1>2. TypeOK'
  BY <1>1 DEF Typed, TypeOK, NotesKept
<1>3. Control'
  BY <1>1 DEF Typed, Control, NotesKept, Threads
<1> QED BY <1>2, <1>3 DEF Typed

\* Counting one more of something.
LEMMA OneMore ==
    ASSUME NEW S, NEW f \in [S -> Nat], NEW x \in S
    PROVE  [f EXCEPT ![x] = @ + 1] \in [S -> Nat]
OBVIOUS

\* The task, if any, that is in _tasks and has no coroutine yet.
Being == {adding["work"], adding["incoming"]} \ {None}

\* A thread that is about to put a task there finds none.
LEMMA BeingStored ==
    ASSUME Typed, NEW th \in Threads, NEW t \in Tasks, AddTask(th, t),
           pc[th] # "start", NEW o \in Threads, o # th, pc[o] # "start"
    PROVE  /\ adding' \in [Threads -> Tasks \cup {None}]
           /\ adding'[th] = t /\ adding'[o] = None
           /\ Being = {} /\ Being' = {t}
<1>1. /\ adding \in [Threads -> Tasks \cup {None}]
      /\ adding[th] = None /\ adding[o] = None /\ t # None
      /\ adding' = [adding EXCEPT ![th] = t]
  BY NoneAssumption DEF Typed, TypeOK, Control, AddTask
<1> QED BY <1>1 DEF Being, Threads

\* A thread that starts its task leaves none.
LEMMA BeingBorn ==
    ASSUME Typed, NEW th \in Threads, StartTask(th),
           pc[th] = "start", NEW o \in Threads, o # th, pc[o] # "start"
    PROVE  /\ adding[th] \in Tasks /\ Being = {adding[th]} /\ Being' = {}
           /\ adding' \in [Threads -> Tasks \cup {None}]
           /\ adding'[th] = None /\ adding'[o] = None
           /\ adds' \in [Tasks -> Nat]
           /\ ready' \in Seq(Tasks) /\ Range(ready') = Range(ready) \cup {adding[th]}
<1>1. /\ adding \in [Threads -> Tasks \cup {None}]
      /\ adding[th] # None /\ adding[o] = None
      /\ adding' = [adding EXCEPT ![th] = None]
      /\ adds \in [Tasks -> Nat] /\ ready \in Seq(Tasks)
  BY DEF Typed, TypeOK, Control, StartTask
<1>2. adding[th] \in Tasks
  BY <1>1
<1>3. PICK t : t = adding[th]
  OBVIOUS
<1>4. adds' = [adds EXCEPT ![t] = @ + 1] /\ ready' = Append(ready, t)
  BY <1>3 DEF StartTask
<1>5. adds' \in [Tasks -> Nat]
  BY <1>1, <1>2, <1>3, <1>4, OneMore, Zenon
<1>6. ready' \in Seq(Tasks) /\ Range(ready') = Range(ready) \cup {adding[th]}
  BY <1>1, <1>2, <1>3, <1>4, RangeAppend
<1>7. /\ Being = {adding[th]} /\ Being' = {}
      /\ adding' \in [Threads -> Tasks \cup {None}]
      /\ adding'[th] = None /\ adding'[o] = None
  BY <1>1 DEF Being, Threads
<1> QED BY <1>2, <1>5, <1>6, <1>7

\* A step of the incoming thread keeps types and control.
LEMMA TypedIncoming ==
    ASSUME Typed, IncomingStep
    PROVE  Typed'
<1> USE DEF Typed, TypeOK, Control, Threads, Places
<1>1. CASE ReadBatch
  <2>1. PICK n \in 1..MaxBatch : \E b \in [1..n -> unsent] :
          /\ batch' = b /\ receipt' = b[1]
          /\ unsent' = unsent \ Range(b)
          /\ received' = received \cup Range(b)
          /\ early' = early \cup {t \in Range(b) : IsCancelled(t)}
    BY <1>1 DEF ReadBatch
  <2>2. PICK b \in [1..n -> unsent] :
          /\ batch' = b /\ receipt' = b[1]
          /\ unsent' = unsent \ Range(b)
          /\ received' = received \cup Range(b)
          /\ early' = early \cup {t \in Range(b) : IsCancelled(t)}
    BY <2>1
  <2>3. b \in Seq(Tasks) /\ b # <<>> /\ b[1] \in Tasks
    BY BoundsAssumption
  <2>4. Range(b) \subseteq Tasks
    BY <2>3, RangeType
  <2>5. Moved("incoming", "recv", "add")
    BY <1>1, GotoMoves DEF ReadBatch
  <2>6. /\ batch' \in Seq(Tasks) /\ batch' # <<>> /\ receipt' \in Tasks
        /\ unsent' \subseteq Tasks /\ received' \subseteq Tasks
        /\ early' \subseteq Tasks
    BY <2>2, <2>3, <2>4
  <2>7. /\ mutex' = "incoming"
        /\ UNCHANGED <<reclaims, awaits, delayed, ready, started, suspended,
                       adding, cancelled, snapshot, active, seen, reported, adds,
                       finished, returned, killed>>
    BY <1>1 DEF ReadBatch, queues, backlog
  <2>8. TypeOK'
    BY <2>5, <2>6, <2>7 DEF Moved
  <2>9. Control'
    <3>1. pc["work"] # "start"
      BY <1>1, <2>5, NoneAssumption DEF ReadBatch, Moved
    <3> QED BY <2>5, <2>6, <2>7, <3>1 DEF Moved
  <2> QED BY <2>8, <2>9
<1>2. CASE AddLast
  <2>1. batch # <<>> /\ batch[Len(batch)] \in Tasks
        /\ SubSeq(batch, 1, Len(batch) - 1) \in Seq(Tasks)
    BY <1>2, RangeFront DEF AddLast, Goto
  <2>2. Moved("incoming", "add", "start")
    BY <1>2, GotoMoves DEF AddLast
  <2>3. pc["incoming"] # "start" /\ pc["work"] # "start"
    BY <2>2 DEF Moved
  <2>4. /\ adding' \in [Threads -> Tasks \cup {None}]
        /\ adding'["incoming"] # None /\ adding'["work"] = None
    BY <1>2, <2>1, <2>3, BeingStored, NoneAssumption DEF AddLast
  <2>5. batch' \in Seq(Tasks) /\ started' \subseteq Tasks
    <3>1. /\ batch' = SubSeq(batch, 1, Len(batch) - 1)
          /\ started' = started \cup {batch[Len(batch)]}
      BY <1>2 DEF AddLast, AddTask
    <3> QED BY <3>1, <2>1
  <2>6. UNCHANGED <<unsent, reclaims, awaits, received, delayed, ready, suspended,
                    cancelled, receipt, mutex, snapshot, active, seen,
                    reported, adds, finished, returned, killed, early>>
    BY <1>2 DEF AddLast, bounds, backlog, fate
  <2>7. TypeOK'
    BY <2>2, <2>4, <2>5, <2>6 DEF Moved
  <2>8. Control'
    BY <2>2, <2>3, <2>4, <2>6 DEF Moved
  <2> QED BY <2>7, <2>8
<1>13. CASE StartLast
  <2>2. Moved("incoming", "start", "extend")
    BY <1>13, GotoMoves DEF StartLast
  <2>3. pc["incoming"] = "start" /\ pc["work"] # "start"
    BY <2>2 DEF Moved
  <2>4. /\ adding' \in [Threads -> Tasks \cup {None}]
        /\ adding'["incoming"] = None /\ adding'["work"] = None
        /\ adds' \in [Tasks -> Nat] /\ ready' \in Seq(Tasks)
    BY <1>13, <2>3, BeingBorn DEF StartLast
  <2>6. UNCHANGED <<unsent, reclaims, awaits, received, delayed, started, suspended,
                    cancelled, receipt, mutex, batch, snapshot, active, seen,
                    reported, finished, returned, killed, early>>
    BY <1>13 DEF StartLast, bounds, backlog
  <2>7. TypeOK'
    BY <2>2, <2>4, <2>6 DEF Moved
  <2>8. Control'
    BY <2>2, <2>3, <2>4, <2>6 DEF Moved
  <2> QED BY <2>7, <2>8
<1>3. CASE DelayRest
  <2>1. delayed \o batch \in Seq(Tasks)
    BY RangeConcat
  <2>2. Moved("incoming", "extend", "report")
    BY <1>3, GotoMoves DEF DelayRest
  <2>3. /\ delayed' \in Seq(Tasks) /\ batch' = <<>> /\ mutex' = None
        /\ UNCHANGED <<unsent, reclaims, awaits, received, adding, ready, started,
                       suspended, cancelled, receipt, snapshot, active, seen,
                       reported, adds, finished, returned, killed, early>>
    BY <1>3, <2>1 DEF DelayRest, bounds, backlog, fate
  <2>4. /\ pc' \in [Threads -> Places] /\ pc'["incoming"] = "report"
        /\ pc'["work"] = pc["work"]
    BY <2>2 DEF Moved
  <2>5. TypeOK'
    <3>1. mutex' = IF pc'["incoming"] \in {"add", "start", "extend"} THEN "incoming"
                   ELSE IF pc'["work"] = "start" THEN "work" ELSE None
      <4>1. pc["work"] # "start"
        BY <2>2 DEF Moved
      <4> QED BY <2>3, <2>4, <4>1
    <3>2. batch' \in Seq(Tasks) /\ delayed' \in Seq(Tasks)
      BY <2>3
    <3> QED BY <2>3, <2>4, <3>1, <3>2
  <2>6. Control'
    BY ONLY Typed, <2>2, <2>3, <2>4 DEF Typed, Control, Moved, Threads
  <2> QED BY <2>5, <2>6
<1>4. ASSUME NEW n \in 1..Len(delayed), Reclaim(n) PROVE Typed'
  <2>1. /\ SubSeq(delayed, 1, n) \in Seq(Tasks)
        /\ SubSeq(delayed, n + 1, Len(delayed)) \in Seq(Tasks)
    BY n \in 0..Len(delayed), RangeCut
  <2>2. Moved("incoming", "recv", "give_back")
    BY <1>4, GotoMoves DEF Reclaim
  <2>3. batch' \in Seq(Tasks) /\ delayed' \in Seq(Tasks)
    BY <1>4, <2>1, Zenon DEF Reclaim
  <2>4. reclaims' \in Nat
    BY <1>4 DEF Reclaim
  <2>5. TypeOK'
    <3>1. UNCHANGED <<mutex, unsent, awaits, received, adding, ready, started,
                   suspended, cancelled, receipt, snapshot, active, seen, reported, adds, finished, returned, killed, early>>
      BY <1>4 DEF Reclaim, backlog, fate
    <3> QED BY <3>1, <2>3, <2>4, <2>2 DEF Moved
  <2>6. Control'
    BY <1>4, <2>1, <2>2 DEF Moved, Reclaim, backlog, fate
  <2> QED BY <2>5, <2>6
<1>5. CASE GiveBack
  <2>1. Range(batch) \subseteq Tasks
    BY RangeType
  <2>2. Moved("incoming", "give_back", "report")
    BY <1>5, GotoMoves DEF GiveBack
  <2>3. /\ batch' = <<>> /\ returned' \cup killed' \subseteq Tasks
        /\ UNCHANGED <<unsent, reclaims, awaits, received, adding, delayed, ready,
                       started, suspended, cancelled, receipt, mutex, snapshot,
                       active, seen, reported, adds, finished, early>>
    BY <1>5, <2>1 DEF GiveBack, bounds, queues, backlog
  <2>4. TypeOK'
    BY <2>2, <2>3 DEF Moved
  <2>5. Control'
    BY <2>2, <2>3 DEF Moved
  <2> QED BY <2>4, <2>5
<1>6. ASSUME NEW t \in Tasks, Wake(t) PROVE Typed'
  <2>1. Append(ready, t) \in Seq(Tasks)
    BY RangeAppend
  <2>2. /\ ready' \in Seq(Tasks) /\ suspended' \subseteq Tasks
        /\ UNCHANGED <<unsent, reclaims, awaits, received, adding, delayed, started,
                       cancelled, receipt, mutex, pc, batch, snapshot, active, seen,
                       reported, adds, finished, returned, killed, early>>
    BY <1>6, <2>1 DEF Wake, bounds, backlog, fate
  <2>3. TypeOK'
    BY <2>2
  <2>4. Control'
    BY <2>2
  <2> QED BY <2>3, <2>4
<1>7. ASSUME NEW f \in Families, CancelStarted(f) PROVE Typed'
  <2>1. Moved("incoming", "recv", "filter") \/ Moved("incoming", "recv", "dead")
    <3>1. Goto("incoming", "recv", "filter") \/ Goto("incoming", "recv", "dead")
      BY <1>7 DEF CancelStarted
    <3> QED BY <3>1, GotoMoves
  <2>2. /\ cancelled' = cancelled \cup {f}
        /\ started' \subseteq Tasks /\ suspended' \subseteq Tasks
        /\ killed' \subseteq Tasks
        /\ UNCHANGED <<unsent, reclaims, awaits, received, adding, delayed, ready,
                       receipt, mutex, batch, snapshot, active, seen, reported,
                       adds, finished, returned, early>>
    BY <1>7 DEF CancelStarted, bounds, backlog
  <2>3. TypeOK'
    BY <2>1, <2>2 DEF Moved
  <2>4. Control'
    BY <2>1, <2>2 DEF Moved
  <2> QED BY <2>3, <2>4
<1>8. CASE FilterDelayed
  <2>1. Filtered(delayed, {t \in Tasks : ~IsCancelled(t)}) \in Seq(Tasks)
    BY FilteredRange
  <2>2. Range(delayed) \subseteq Tasks
    BY RangeType
  <2>3. Moved("incoming", "filter", "rebind")
    BY <1>8, GotoMoves DEF FilterDelayed
  <2>4. /\ snapshot' \in Seq(Tasks) /\ killed' \subseteq Tasks
        /\ UNCHANGED <<unsent, reclaims, awaits, received, adding, delayed, ready,
                       started, suspended, cancelled, receipt, mutex, batch,
                       active, seen, reported, adds, finished, returned, early>>
    BY <1>8, <2>1, <2>2 DEF FilterDelayed, bounds, queues, backlog
  <2>5. TypeOK'
    BY <2>3, <2>4 DEF Moved
  <2>6. Control'
    BY <2>3, <2>4 DEF Moved
  <2> QED BY <2>5, <2>6
<1>9. CASE RebindDelayed
  <2>1. Moved("incoming", "rebind", "recv")
    BY <1>9, GotoMoves DEF RebindDelayed
  <2>2. /\ delayed' \in Seq(Tasks) /\ snapshot' \in Seq(Tasks)
        /\ UNCHANGED <<unsent, reclaims, awaits, received, adding, ready, started,
                       suspended, cancelled, receipt, mutex, batch, active,
                       seen, reported, adds, finished, returned, killed, early>>
    BY <1>9 DEF RebindDelayed, bounds, backlog, fate
  <2>3. TypeOK'
    BY <2>1, <2>2 DEF Moved
  <2>4. Control'
    BY <2>1, <2>2 DEF Moved
  <2> QED BY <2>3, <2>4
<1>10. CASE ReadBacklog("incoming", "report", "recv")
  <2>1. seen' \in [Threads -> Nat] /\ UNCHANGED reported
    BY <1>10 DEF ReadBacklog
  <2>2. Moved("incoming", "report", "compare") \/ Moved("incoming", "report", "recv")
    <3>1. Goto("incoming", "report", "compare") \/ Goto("incoming", "report", "recv")
      BY <1>10 DEF ReadBacklog
    <3> QED BY <3>1, GotoMoves
  <2>3. NotesKept
    BY <1>10 DEF ReadBacklog, NotesKept, bounds, queues, fate
  <2> QED BY <2>1, <2>2, <2>3, TypedNotes
<1>11. CASE CompareBacklog("incoming", "recv")
  <2>1. reported' \in Nat /\ UNCHANGED seen
    BY <1>11 DEF CompareBacklog
  <2>2. Moved("incoming", "compare", "recv") \/ Moved("incoming", "compare", "send")
    <3>1. Goto("incoming", "compare", "recv") \/ Goto("incoming", "compare", "send")
      BY <1>11 DEF CompareBacklog
    <3> QED BY <3>1, GotoMoves
  <2>3. NotesKept
    BY <1>11 DEF CompareBacklog, NotesKept, bounds, queues, fate
  <2> QED BY <2>1, <2>2, <2>3, TypedNotes
<1>12. CASE SendBacklog("incoming", "recv")
  <2>1. UNCHANGED <<seen, reported>>
    BY <1>12 DEF SendBacklog, backlog
  <2>2. Moved("incoming", "send", "recv")
    BY <1>12, GotoMoves DEF SendBacklog
  <2>3. NotesKept
    BY <1>12 DEF SendBacklog, NotesKept, bounds, queues, fate
  <2> QED BY <2>1, <2>2, <2>3, TypedNotes
<1> QED BY <1>1, <1>2, <1>3, <1>4, <1>5, <1>6, <1>7, <1>8, <1>9, <1>10,
           <1>11, <1>12, <1>13 DEF IncomingStep

\* A step of the work thread keeps types and control.
LEMMA TypedWork ==
    ASSUME Typed, WorkStep
    PROVE  Typed'
<1> USE NoneAssumption DEF Typed, TypeOK, Control, Threads, Places
<1>1. CASE Look
  <2>1. Moved("work", "loop", "promote") \/ Moved("work", "loop", "pop")
    <3>1. CASE ready = <<>> /\ delayed # <<>>
      BY <1>1, <3>1, GotoMoves DEF Look
    <3>2. CASE ~ (ready = <<>> /\ delayed # <<>>)
      BY <1>1, <3>2, GotoMoves DEF Look
    <3> QED BY <3>1, <3>2
  <2>2. TypeOK'
    <3>1. /\ pc' \in [Threads -> Places] /\ pc'["incoming"] = pc["incoming"]
          /\ pc["work"] # "start" /\ pc'["work"] # "start"
      BY <2>1 DEF Moved
    <3>2. UNCHANGED <<unsent, reclaims, awaits, received, adding, delayed, ready,
                      started, suspended, cancelled, receipt, mutex, batch,
                      snapshot, active, seen, reported, adds, finished, returned,
                      killed, early>>
      BY <1>1 DEF Look, bounds, queues, backlog, fate
    <3> QED BY <3>1, <3>2
  <2>3. Control'
    <3>1. /\ pc["work"] = "loop" /\ pc'["work"] \in {"promote", "pop"}
          /\ pc'["incoming"] = pc["incoming"]
      BY <2>1 DEF Moved
    <3>2. UNCHANGED <<active, batch, cancelled, adding>>
      BY <1>1 DEF Look, queues
    <3> QED BY <3>1, <3>2
  <2> QED BY <2>2, <2>3
<1>2. CASE Promote
  <2>1. CASE delayed = <<>>
    <3>1. Moved("work", "promote", "report")
      BY <1>2, <2>1, GotoMoves DEF Promote
    <3>2. UNCHANGED <<unsent, reclaims, awaits, received, adding, delayed, ready,
                      started, suspended, cancelled, receipt, mutex, batch,
                      snapshot, active, seen, reported, adds, finished,
                      returned, killed, early>>
      BY <1>2, <2>1 DEF Promote, bounds, backlog, fate
    <3>3. TypeOK'
      BY <3>1, <3>2 DEF Moved
    <3>4. Control'
      BY <3>1, <3>2 DEF Moved
    <3> QED BY <3>3, <3>4
  <2>2. CASE delayed # <<>>
    <3>1. delayed[Len(delayed)] \in Tasks
          /\ SubSeq(delayed, 1, Len(delayed) - 1) \in Seq(Tasks)
      BY <2>2, RangeFront
    <3>2. Moved("work", "promote", "start")
      BY <1>2, <2>2, GotoMoves DEF Promote
    <3>3. /\ pc["work"] # "start" /\ mutex = None /\ mutex' = "work"
          /\ pc["incoming"] \notin {"add", "start", "extend"}
      BY <1>2, <2>2, <3>2 DEF Promote, Moved
    <3>4. /\ adding' \in [Threads -> Tasks \cup {None}]
          /\ adding'["work"] # None /\ adding'["incoming"] = None
      <4>1. AddTask("work", delayed[Len(delayed)])
        BY <1>2, <2>2 DEF Promote
      <4> QED BY <3>1, <3>3, <4>1, BeingStored
    <3>5. /\ delayed' \in Seq(Tasks) /\ started' \subseteq Tasks
      <4>1. /\ delayed' = SubSeq(delayed, 1, Len(delayed) - 1)
            /\ started' = started \cup {delayed[Len(delayed)]}
        BY <1>2, <2>2 DEF Promote, AddTask
      <4> QED BY <3>1, <4>1
    <3>6. UNCHANGED <<unsent, reclaims, awaits, received, ready, suspended, cancelled,
                      receipt, batch, snapshot, active, seen, reported,
                      adds, finished, returned, killed, early>>
      BY <1>2 DEF Promote, bounds, backlog, fate
    <3>7. TypeOK'
      BY <3>2, <3>3, <3>4, <3>5, <3>6 DEF Moved
    <3>8. Control'
      BY <3>2, <3>3, <3>4, <3>6 DEF Moved
    <3> QED BY <3>7, <3>8
  <2> QED BY <2>1, <2>2
<1>12. CASE StartPromoted
  <2>2. Moved("work", "start", "report")
    BY <1>12, GotoMoves DEF StartPromoted
  <2>3. pc["work"] = "start" /\ pc["incoming"] \notin {"add", "start", "extend"}
    BY <2>2 DEF Moved
  <2>4. /\ adding' \in [Threads -> Tasks \cup {None}]
        /\ adding'["incoming"] = None /\ adding'["work"] = None
        /\ adds' \in [Tasks -> Nat] /\ ready' \in Seq(Tasks)
    BY <1>12, <2>3, BeingBorn DEF StartPromoted
  <2>6. /\ mutex' = None
        /\ UNCHANGED <<unsent, reclaims, awaits, received, delayed, started,
                       suspended, cancelled, receipt, batch, snapshot, active,
                       seen, reported, finished, returned, killed, early>>
    BY <1>12 DEF StartPromoted, bounds, backlog
  <2>7. TypeOK'
    BY <2>2, <2>3, <2>4, <2>6 DEF Moved
  <2>8. Control'
    BY <2>2, <2>3, <2>4, <2>6 DEF Moved
  <2> QED BY <2>7, <2>8
<1>3. CASE PopNow
  <2>1. Head(ready) \in Tasks /\ Tail(ready) \in Seq(Tasks)
    BY <1>3, RangeTail DEF PopNow
  <2>2. Moved("work", "pop", "check")
    BY <1>3, GotoMoves DEF PopNow
  <2>3. /\ active' \in Tasks /\ ready' \in Seq(Tasks)
        /\ UNCHANGED <<unsent, reclaims, awaits, received, adding, delayed, started,
                       suspended, cancelled, receipt, mutex, batch, snapshot,
                       seen, reported, adds, finished, returned, killed, early>>
    BY <1>3, <2>1 DEF PopNow, bounds, backlog, fate
  <2>4. TypeOK'
    BY <2>2, <2>3 DEF Moved
  <2>5. Control'
    BY <2>2, <2>3 DEF Moved
  <2> QED BY <2>4, <2>5
<1>4. CASE SendWaiting
  <2>1. Moved("work", "pop", "block")
    BY <1>4, GotoMoves DEF SendWaiting
  <2>2. UNCHANGED <<unsent, reclaims, awaits, received, adding, delayed, ready, started,
                    suspended, cancelled, receipt, mutex, batch, snapshot,
                    active, seen, reported, adds, finished, returned, killed,
                    early>>
    BY <1>4 DEF SendWaiting, bounds, queues, backlog, fate
  <2>3. TypeOK'
    BY <2>1, <2>2 DEF Moved
  <2>4. Control'
    BY <2>1, <2>2 DEF Moved
  <2> QED BY <2>3, <2>4
<1>5. CASE PopBlocked
  <2>1. Head(ready) \in Tasks /\ Tail(ready) \in Seq(Tasks)
    BY <1>5, RangeTail DEF PopBlocked
  <2>2. Moved("work", "block", "check")
    BY <1>5, GotoMoves DEF PopBlocked
  <2>3. /\ active' \in Tasks /\ ready' \in Seq(Tasks)
        /\ UNCHANGED <<unsent, reclaims, awaits, received, adding, delayed, started,
                       suspended, cancelled, receipt, mutex, batch, snapshot,
                       seen, reported, adds, finished, returned, killed, early>>
    BY <1>5, <2>1 DEF PopBlocked, bounds, backlog, fate
  <2>4. TypeOK'
    BY <2>2, <2>3 DEF Moved
  <2>5. Control'
    BY <2>2, <2>3 DEF Moved
  <2> QED BY <2>4, <2>5
<1>6. CASE CheckEntry
  <2>1. active \in Tasks
    BY <1>6 DEF CheckEntry, Goto
  <2>2. \/ Moved("work", "check", "loop") /\ active' = None
        \/ Moved("work", "check", "step") /\ active' = active
    <3>1. CASE IsCancelled(active) \/ active \notin started
      BY <1>6, <3>1, GotoMoves DEF CheckEntry
    <3>2. CASE ~ (IsCancelled(active) \/ active \notin started)
      BY <1>6, <3>2, GotoMoves DEF CheckEntry
    <3> QED BY <3>1, <3>2
  <2>3. /\ killed' \subseteq Tasks
        /\ UNCHANGED <<unsent, reclaims, awaits, received, adding, delayed, ready,
                       started, suspended, cancelled, receipt, mutex, batch,
                       snapshot, seen, reported, adds, finished, returned,
                       early>>
    BY <1>6, <2>1 DEF CheckEntry, bounds, queues, backlog
  <2>4. /\ pc' \in [Threads -> Places] /\ active' \in Tasks \cup {None}
        /\ pc'["incoming"] = pc["incoming"]
        /\ (pc'["work"] \in {"check", "step"}) = (active' # None)
        /\ pc["work"] # "start" /\ pc'["work"] # "start"
    <3>1. CASE Moved("work", "check", "loop") /\ active' = None
      BY <3>1 DEF Moved
    <3>2. CASE Moved("work", "check", "step") /\ active' = active
      BY <2>1, <3>2 DEF Moved
    <3> QED BY <2>2, <3>1, <3>2
  <2>5. TypeOK'
    BY <2>3, <2>4
  <2>6. Control'
    BY <2>3, <2>4
  <2> QED BY <2>5, <2>6
<1>7. CASE StepAwaits
  <2>1. active \in Tasks /\ awaits' \in [Tasks -> Nat]
    <3>1. active \in Tasks /\ awaits \in [Tasks -> Nat]
      BY <1>7 DEF StepAwaits, Goto
    <3>2. awaits' = [awaits EXCEPT ![active] = @ + 1]
      BY <1>7 DEF StepAwaits
    <3> QED BY <3>1, <3>2, OneMore, Zenon
  <2>2. Moved("work", "step", "loop")
    BY <1>7, GotoMoves DEF StepAwaits
  <2>3. /\ suspended' \subseteq Tasks /\ active' = None
        /\ UNCHANGED <<unsent, reclaims, received, adding, delayed, ready, started,
                       cancelled, receipt, mutex, batch, snapshot, seen,
                       reported, adds, finished, returned, killed, early>>
    BY <1>7, <2>1 DEF StepAwaits, backlog, fate
  <2>4. TypeOK'
    BY <2>1, <2>2, <2>3 DEF Moved
  <2>5. Control'
    BY <2>2, <2>3 DEF Moved
  <2> QED BY <2>4, <2>5
<1>8. CASE StepReturns
  <2>1. active \in Tasks
    BY <1>8 DEF StepReturns, Goto
  <2>2. Moved("work", "step", "loop")
    BY <1>8, GotoMoves DEF StepReturns
  <2>3. /\ started' \subseteq Tasks /\ finished' \subseteq Tasks
        /\ active' = None
        /\ UNCHANGED <<unsent, reclaims, awaits, received, adding, delayed, ready,
                       suspended, cancelled, receipt, mutex, batch, snapshot,
                       seen, reported, adds, returned, killed, early>>
    BY <1>8, <2>1 DEF StepReturns, bounds, backlog
  <2>4. TypeOK'
    BY <2>2, <2>3 DEF Moved
  <2>5. Control'
    BY <2>2, <2>3 DEF Moved
  <2> QED BY <2>4, <2>5
<1>9. CASE ReadBacklog("work", "report", "loop")
  <2>1. seen' \in [Threads -> Nat] /\ UNCHANGED reported
    BY <1>9 DEF ReadBacklog
  <2>2. Moved("work", "report", "compare") \/ Moved("work", "report", "loop")
    <3>1. Goto("work", "report", "compare") \/ Goto("work", "report", "loop")
      BY <1>9 DEF ReadBacklog
    <3> QED BY <3>1, GotoMoves
  <2>3. NotesKept
    BY <1>9 DEF ReadBacklog, NotesKept, bounds, queues, fate
  <2> QED BY <2>1, <2>2, <2>3, TypedNotes
<1>10. CASE CompareBacklog("work", "loop")
  <2>1. reported' \in Nat /\ UNCHANGED seen
    BY <1>10 DEF CompareBacklog
  <2>2. Moved("work", "compare", "loop") \/ Moved("work", "compare", "send")
    <3>1. Goto("work", "compare", "loop") \/ Goto("work", "compare", "send")
      BY <1>10 DEF CompareBacklog
    <3> QED BY <3>1, GotoMoves
  <2>3. NotesKept
    BY <1>10 DEF CompareBacklog, NotesKept, bounds, queues, fate
  <2> QED BY <2>1, <2>2, <2>3, TypedNotes
<1>11. CASE SendBacklog("work", "loop")
  <2>1. UNCHANGED <<seen, reported>>
    BY <1>11 DEF SendBacklog, backlog
  <2>2. Moved("work", "send", "loop")
    BY <1>11, GotoMoves DEF SendBacklog
  <2>3. NotesKept
    BY <1>11 DEF SendBacklog, NotesKept, bounds, queues, fate
  <2> QED BY <2>1, <2>2, <2>3, TypedNotes
<1> QED BY <1>1, <1>2, <1>3, <1>4, <1>5, <1>6, <1>7, <1>8, <1>9, <1>10,
           <1>11, <1>12 DEF WorkStep

\* Every variable has its type, and the read receipt mutex is held exactly
\* while a batch is taken apart (worker.py, recv_incoming) and while a delayed
\* task is promoted (_get_next_ready_task).
THEOREM TypeCorrect == Spec => []TypeOK
<1>1. ASSUME Typed, [Next]_vars PROVE Typed'
  <2>1. CASE IncomingStep
    BY <1>1, <2>1, TypedIncoming
  <2>2. CASE WorkStep
    BY <1>1, <2>2, TypedWork
  <2>3. CASE UNCHANGED vars
    BY <1>1, <2>3 DEF Typed, TypeOK, Control, vars, bounds, queues, backlog,
                      fate
  <2> QED BY <1>1, <2>1, <2>2, <2>3 DEF Next
<1>2. Typed => TypeOK
  BY DEF Typed
<1> QED BY <1>1, <1>2, TypedInit, PTL DEF Spec

----------------------------------------------------------------------------
(* Where every task that was read is.                                      *)

\* Every task read is accounted for; while the incoming thread replaces the
\* list of delayed tasks, what it drops from it was cancelled.
Account ==
    /\ received \subseteq Range(delayed) \cup Range(batch) \cup started
                          \cup finished \cup returned \cup killed
    /\ pc["incoming"] = "rebind" =>
          Range(delayed) \subseteq Range(snapshot) \cup killed

\* A started task has an entry in the ready queue, is the entry in the work
\* thread's hand, awaits a result, was cancelled, or gets its coroutine next;
\* only this last one was never started before.
Queued ==
    /\ started \subseteq Range(ready) \cup {active} \cup suspended \cup killed \cup Being
    /\ \A t \in started : adds[t] = 0 => t \in Being

\* Whatever the worker holds was read.
Held == Range(delayed) \cup Range(batch) \cup Range(snapshot)
            \cup Range(ready) \cup started \cup suspended \cup early \cup Being

Known ==
    /\ received \cap unsent = {}
    /\ Held \subseteq received
    /\ active \in received \cup {None}

\* A task cancelled before it was read stays cancelled, and the work thread
\* does not step it.
EarlyStays ==
    /\ \A t \in early : IsCancelled(t)
    /\ pc["work"] = "step" => active \notin early

\* Batches, reclaims and cancels keep every task read accounted for.
LEMMA AccountIncoming ==
    ASSUME Typed, Account, IncomingStep
    PROVE  Account'
<1> USE DEF Account
<1>0. /\ delayed \in Seq(Tasks) /\ batch \in Seq(Tasks) /\ pc \in [Threads -> Places]
      /\ pc["incoming"] \notin {"add", "start", "extend", "give_back"} => batch = <<>>
      /\ pc["incoming"] = "add" => batch # <<>>
  BY DEF Typed, TypeOK, Control
<1>1. CASE ReadBatch
  <2>1. Moved("incoming", "recv", "add")
    BY <1>0, <1>1, GotoMoves DEF ReadBatch, Threads, Places
  <2>2. received' = received \cup Range(batch')
    BY <1>1 DEF ReadBatch
  <2>3. UNCHANGED <<delayed, started, finished, returned, killed>>
    BY <1>1 DEF ReadBatch, queues
  <2>4. Range(batch) = {}
    BY <1>0, <2>1, RangeType DEF Moved
  <2> QED BY <2>1, <2>2, <2>3, <2>4 DEF Moved
<1>13. CASE StartLast
  <2>1. pc'["incoming"] # "rebind"
    BY <1>0, <1>13 DEF StartLast, Goto, Threads
  <2> QED BY <1>13, <2>1 DEF StartLast
<1>2. CASE AddLast
  <2>1. Moved("incoming", "add", "start")
    BY <1>0, <1>2, GotoMoves DEF AddLast, Threads, Places
  <2>2. Range(batch) = Range(batch') \cup {batch[Len(batch)]}
    BY <1>0, <1>2, <2>1, RangeFront, Zenon DEF AddLast, Moved
  <2>3. UNCHANGED <<received, delayed, finished, returned, killed>>
        /\ started' = started \cup {batch[Len(batch)]}
    BY <1>2 DEF AddLast, AddTask, fate
  <2> QED BY <2>1, <2>2, <2>3 DEF Moved
<1>3. CASE DelayRest
  <2>1. Moved("incoming", "extend", "report")
    BY <1>0, <1>3, GotoMoves DEF DelayRest, Threads, Places
  <2>2. Range(delayed') = Range(delayed) \cup Range(batch)
    <3>1. delayed' = delayed \o batch
      BY <1>3 DEF DelayRest
    <3>2. delayed \in Seq(Tasks) /\ batch \in Seq(Tasks)
      BY <1>0
    <3>3. Range(delayed \o batch) = Range(delayed) \cup Range(batch)
      BY ONLY <3>2, RangeConcat
    <3> QED BY <3>1, <3>3, Zenon
  <2>3. UNCHANGED <<received, started, finished, returned, killed>>
    BY <1>3 DEF DelayRest, fate
  <2> QED BY <2>1, <2>2, <2>3 DEF Moved
<1>4. ASSUME NEW n \in 1..Len(delayed), Reclaim(n) PROVE Account'
  <2>1. Moved("incoming", "recv", "give_back")
    BY <1>0, <1>4, GotoMoves DEF Reclaim, Threads, Places
  <2>2. Range(delayed) = Range(batch') \cup Range(delayed')
    BY <1>0, <1>4, RangeCut, n \in 0..Len(delayed), Zenon DEF Reclaim
  <2>3. UNCHANGED <<received, started, finished, returned, killed>>
    BY <1>4 DEF Reclaim, fate
  <2>4. Range(batch) = {}
    BY <1>0, <2>1, RangeType DEF Moved
  <2> QED BY <2>1, <2>2, <2>3, <2>4 DEF Moved
<1>5. CASE GiveBack
  <2>1. Moved("incoming", "give_back", "report")
    BY <1>0, <1>5, GotoMoves DEF GiveBack, Threads, Places
  <2>2. returned' \cup killed' = returned \cup killed \cup Range(batch)
    BY <1>5 DEF GiveBack
  <2>3. UNCHANGED <<received, delayed, started, finished>>
    BY <1>5 DEF GiveBack, queues
  <2> QED BY <2>1, <2>2, <2>3 DEF Moved
<1>6. ASSUME NEW t \in Tasks, Wake(t) PROVE Account'
  BY <1>6 DEF Wake, fate
<1>7. ASSUME NEW f \in Families, CancelStarted(f) PROVE Account'
  <2>1. pc'["incoming"] # "rebind"
    BY <1>0, <1>7 DEF CancelStarted, Goto, Threads
  <2> QED BY <1>7, <2>1 DEF CancelStarted
<1>8. CASE FilterDelayed
  <2>1. Moved("incoming", "filter", "rebind")
    BY <1>0, <1>8, GotoMoves DEF FilterDelayed, Threads, Places
  <2>2. Range(snapshot') = Range(delayed) \cap {t \in Tasks : ~IsCancelled(t)}
    BY <1>0, <1>8, FilteredRange, Zenon DEF FilterDelayed
  <2>3. Range(delayed) \subseteq Tasks
    BY <1>0, RangeType
  <2>4. UNCHANGED <<received, delayed, batch, started, finished, returned>>
        /\ killed' = killed \cup {t \in Range(delayed) : IsCancelled(t)}
    BY <1>8 DEF FilterDelayed, queues
  <2> QED BY <2>1, <2>2, <2>3, <2>4 DEF Moved
<1>9. CASE RebindDelayed
  <2>1. Moved("incoming", "rebind", "recv")
    BY <1>0, <1>9, GotoMoves DEF RebindDelayed, Threads, Places
  <2> QED BY <1>9, <2>1 DEF Moved, RebindDelayed, fate
<1>10. CASE ReadBacklog("incoming", "report", "recv")
  <2>1. pc'["incoming"] # "rebind"
    BY <1>0, <1>10 DEF ReadBacklog, Goto, Threads
  <2> QED BY <1>10, <2>1 DEF ReadBacklog, queues, fate
<1>11. CASE CompareBacklog("incoming", "recv")
  <2>1. pc'["incoming"] # "rebind"
    BY <1>0, <1>11 DEF CompareBacklog, Goto, Threads
  <2> QED BY <1>11, <2>1 DEF CompareBacklog, queues, fate
<1>12. CASE SendBacklog("incoming", "recv")
  <2>1. pc'["incoming"] # "rebind"
    BY <1>0, <1>12 DEF SendBacklog, Goto, Threads
  <2> QED BY <1>12, <2>1 DEF SendBacklog, queues, fate
<1> QED BY <1>1, <1>2, <1>3, <1>4, <1>5, <1>6, <1>7, <1>8, <1>9, <1>10,
           <1>11, <1>12, <1>13 DEF IncomingStep

\* Promoting and running tasks keep every task read accounted for.
LEMMA AccountWork ==
    ASSUME Typed, Account, WorkStep
    PROVE  Account'
<1> USE DEF Account
<1>0. delayed \in Seq(Tasks) /\ pc \in [Threads -> Places]
  BY DEF Typed, TypeOK
<1>1. pc'["incoming"] = pc["incoming"]
  BY <1>0 DEF WorkStep, Look, Promote, StartPromoted, PopNow, SendWaiting, PopBlocked,
     CheckEntry, StepAwaits, StepReturns, ReadBacklog, CompareBacklog,
     SendBacklog, Goto, Threads
<1>2. CASE Promote
  <2>1. CASE delayed = <<>>
    BY <1>1, <1>2, <2>1 DEF Promote, fate
  <2>2. CASE delayed # <<>>
    <3>1. Range(delayed) = Range(delayed') \cup {delayed[Len(delayed)]}
      BY <1>0, <1>2, <2>2, RangeFront, Zenon DEF Promote
    <3>2. UNCHANGED <<received, batch, snapshot, finished, returned, killed>>
          /\ started' = started \cup {delayed[Len(delayed)]}
      BY <1>2, <2>2 DEF Promote, AddTask, fate
    <3> QED BY <1>1, <3>1, <3>2
  <2> QED BY <2>1, <2>2
<1>3. CASE StepReturns
  BY <1>1, <1>3 DEF StepReturns
<1>4. CASE CheckEntry
  BY <1>1, <1>4 DEF CheckEntry, queues
<1>5. CASE UNCHANGED <<received, delayed, batch, snapshot, started, finished,
                       returned, killed>>
  BY <1>1, <1>5
<1> QED BY <1>2, <1>3, <1>4, <1>5 DEF WorkStep, Look, StartPromoted, PopNow, SendWaiting,
        PopBlocked, StepAwaits, ReadBacklog, CompareBacklog, SendBacklog,
        queues, fate

----------------------------------------------------------------------------
(* What the worker holds.                                                  *)

Kept == Queued /\ Known /\ EarlyStays

\* Messages keep started tasks queued, and add only tasks just read.
LEMMA KeptIncoming ==
    ASSUME Typed, Kept, IncomingStep
    PROVE  Kept'
<1> USE DEF Kept, Queued, Known, Held, EarlyStays, IsCancelled
<1>a. adding' = adding => Being' = Being
  BY DEF Being
<1>b. /\ started \subseteq Tasks
      /\ pc["incoming"] \in {"add", "start"} => pc["work"] # "start"
  BY DEF Typed, TypeOK, Control
<1>0. /\ delayed \in Seq(Tasks) /\ batch \in Seq(Tasks) /\ ready \in Seq(Tasks)
      /\ pc \in [Threads -> Places] /\ snapshot \in Seq(Tasks)
      /\ pc["incoming"] = "add" => batch # <<>>
      /\ Range(<<>>) = {}
  BY RangeType DEF Typed, TypeOK, Control
<1>1. pc'["work"] = pc["work"]
  BY <1>0 DEF IncomingStep, ReadBatch, AddLast, StartLast, DelayRest, Reclaim, GiveBack,
     Wake, CancelStarted, FilterDelayed, RebindDelayed, ReadBacklog,
     CompareBacklog, SendBacklog, Goto, Threads
<1>2. CASE ReadBatch
  <2>1. PICK n \in 1..MaxBatch : \E b \in [1..n -> unsent] :
          /\ batch' = b
          /\ unsent' = unsent \ Range(b)
          /\ received' = received \cup Range(b)
          /\ early' = early \cup {t \in Range(b) : IsCancelled(t)}
    BY <1>2 DEF ReadBatch
  <2>2. PICK b \in [1..n -> unsent] :
          /\ batch' = b
          /\ unsent' = unsent \ Range(b)
          /\ received' = received \cup Range(b)
          /\ early' = early \cup {t \in Range(b) : IsCancelled(t)}
    BY <2>1
  <2>3. Range(b) \subseteq unsent
    BY DEF Range
  <2>4. UNCHANGED <<delayed, ready, started, suspended, adding, cancelled, snapshot,
                    active, killed, adds>>
    BY <1>2 DEF ReadBatch, queues
  <2>5. active \notin Range(b) \/ active = None
    BY <2>3
  <2>6. pc["work"] = "step" => active # None
    BY DEF Typed, Control
  <2> HIDE DEF IsCancelled
  <2>7. \A t : IsCancelled(t)' = IsCancelled(t)
    BY <2>4 DEF IsCancelled
  <2> QED BY <1>1, <1>a, <2>2, <2>3, <2>4, <2>5, <2>6, <2>7
<1>3. CASE AddLast
  <2>1. batch # <<>>
    BY <1>0, <1>3 DEF AddLast, Goto
  <2>2. batch[Len(batch)] \in Tasks
        /\ Range(batch) = Range(batch') \cup {batch[Len(batch)]}
    BY <1>0, <1>3, <2>1, RangeFront, Zenon DEF AddLast
  <2>3. Being' = {batch[Len(batch)]} /\ Being = {}
    <3>1. pc["incoming"] # "start" /\ pc["work"] # "start"
      BY <1>b, <1>3 DEF AddLast, Goto
    <3>2. AddTask("incoming", batch[Len(batch)])
      BY <1>3 DEF AddLast
    <3> QED BY <2>2, <3>1, <3>2, BeingStored DEF Threads
  <2>4. UNCHANGED <<unsent, received, delayed, ready, snapshot, suspended, killed,
                    active, early, cancelled, adds>>
        /\ started' = started \cup {batch[Len(batch)]}
    BY <1>3 DEF AddLast, AddTask, bounds, fate
  <2> QED BY <1>1, <2>2, <2>3, <2>4
<1>12. CASE StartLast
  <2>1. /\ adding["incoming"] \in Tasks /\ Being = {adding["incoming"]} /\ Being' = {}
        /\ Range(ready') = Range(ready) \cup {adding["incoming"]}
    <3>1. pc["incoming"] = "start" /\ pc["work"] # "start"
      BY <1>b, <1>12 DEF StartLast, Goto
    <3>2. StartTask("incoming")
      BY <1>12 DEF StartLast
    <3> QED BY <3>1, <3>2, BeingBorn DEF Threads
  <2>2. \A t \in Tasks : adds'[t] = 0 => adds[t] = 0 /\ t # adding["incoming"]
    BY <1>12, <2>1 DEF StartLast, StartTask, Typed, TypeOK
  <2>3. UNCHANGED <<unsent, received, delayed, started, batch, snapshot, suspended,
                    killed, active, early, cancelled>>
    BY <1>12 DEF StartLast, bounds
  <2> QED BY <1>1, <1>b, <2>1, <2>2, <2>3
<1>4. CASE DelayRest
  <2>1. Range(delayed') = Range(delayed) \cup Range(batch)
    <3>1. delayed' = delayed \o batch
      BY <1>4 DEF DelayRest
    <3> QED BY <1>0, <3>1, RangeConcat
  <2>2. /\ batch' = <<>>
        /\ UNCHANGED <<unsent, received, adding, ready, started, snapshot, suspended,
                       killed, active, early, cancelled, adds>>
    BY <1>4 DEF DelayRest, bounds, fate
  <2> QED BY <1>0, <1>1, <1>a, <2>1, <2>2
<1>5. ASSUME NEW n \in 1..Len(delayed), Reclaim(n) PROVE Kept'
  <2>1. Range(delayed) = Range(batch') \cup Range(delayed')
    BY <1>0, <1>5, RangeCut, n \in 0..Len(delayed), Zenon DEF Reclaim
  <2>2. UNCHANGED <<unsent, received, adding, ready, started, snapshot, suspended,
                    killed, active, early, cancelled, adds>>
    BY <1>5 DEF Reclaim, fate
  <2> QED BY <1>1, <1>a, <2>1, <2>2
<1>6. CASE GiveBack
  <2>1. /\ batch' = <<>> /\ killed \subseteq killed'
        /\ UNCHANGED <<unsent, received, adding, delayed, ready, started, snapshot,
                       suspended, active, early, cancelled, adds>>
    BY <1>6 DEF GiveBack, bounds, queues
  <2> QED BY <1>0, <1>1, <1>a, <2>1
<1>7. ASSUME NEW t \in Tasks, Wake(t) PROVE Kept'
  <2>1. Range(ready') = Range(ready) \cup {t}
    BY <1>0, <1>7, RangeAppend DEF Wake
  <2>2. /\ t \in suspended /\ suspended' = suspended \ {t}
        /\ UNCHANGED <<unsent, received, adding, delayed, started, snapshot, batch,
                       killed, active, early, cancelled, adds>>
    BY <1>7 DEF Wake, bounds, fate
  <2> QED BY <1>1, <1>a, <2>1, <2>2
<1>8. ASSUME NEW f \in Families, CancelStarted(f) PROVE Kept'
  <2>1. /\ cancelled' = cancelled \cup {f} /\ killed \subseteq killed'
        /\ started' = started \ (f \ Unborn(f)) /\ suspended' = suspended \ f
        /\ UNCHANGED <<unsent, received, adding, delayed, ready, snapshot, batch,
                       active, early, adds>>
    BY <1>8 DEF CancelStarted, bounds
  <2>2. Unborn(f) \subseteq Being
    BY DEF Unborn
  <2> QED BY <1>1, <1>a, <2>1, <2>2
<1>9. CASE FilterDelayed
  <2>0. Range(snapshot') = Range(delayed) \cap {t \in Tasks : ~IsCancelled(t)}
    <3> HIDE DEF IsCancelled
    <3> QED BY <1>0, <1>9, FilteredRange, Zenon DEF FilterDelayed
  <2>1. Range(snapshot') \subseteq Range(delayed)
    BY <2>0
  <2>2. /\ killed \subseteq killed'
        /\ UNCHANGED <<unsent, received, adding, delayed, ready, started, suspended,
                       batch, active, early, cancelled, adds>>
    BY <1>9 DEF FilterDelayed, bounds, queues
  <2> QED BY <1>1, <1>a, <2>1, <2>2
<1>10. CASE RebindDelayed
  <2>1. /\ delayed' = snapshot /\ snapshot' = <<>>
        /\ UNCHANGED <<unsent, received, adding, ready, started, suspended, batch,
                       killed, active, early, cancelled, adds>>
    BY <1>10 DEF RebindDelayed, bounds, fate
  <2> QED BY <1>0, <1>1, <1>a, <2>1
<1>11. CASE UNCHANGED <<unsent, received, adding, delayed, ready, started, suspended,
                        batch, snapshot, killed, active, early, cancelled, adds>>
  BY <1>1, <1>a, <1>11
<1> QED BY <1>2, <1>3, <1>4, <1>5, <1>6, <1>7, <1>8, <1>9, <1>10, <1>11, <1>12
        DEF IncomingStep, ReadBacklog, CompareBacklog, SendBacklog, bounds,
            queues, fate

\* The work thread keeps started tasks queued and steps none that was cancelled
\* before it arrived: CheckEntry looks before every step.
LEMMA KeptWork ==
    ASSUME Typed, Kept, WorkStep
    PROVE  Kept'
<1> USE DEF Kept, Queued, Known, Held, EarlyStays, IsCancelled
<1>a. adding' = adding => Being' = Being
  BY DEF Being
<1>0. /\ delayed \in Seq(Tasks) /\ ready \in Seq(Tasks)
      /\ pc \in [Threads -> Places] /\ started \subseteq Tasks
      /\ (pc["work"] \in {"check", "step"}) = (active # None)
  BY DEF Typed, TypeOK, Control
<1>1. CASE Promote
  <2>1. Moved("work", "promote", "report") \/ Moved("work", "promote", "start")
    <3>1. Goto("work", "promote", "report") \/ Goto("work", "promote", "start")
      BY <1>1 DEF Promote
    <3> QED BY <1>0, <3>1, GotoMoves DEF Threads, Places
  <2>2. CASE delayed = <<>>
    BY <1>1, <1>a, <2>1, <2>2 DEF Promote, Moved, bounds, fate
  <2>3. CASE delayed # <<>>
    <3>0. delayed[Len(delayed)] \in Tasks
      BY <1>0, <2>3, RangeFront
    <3>1. Range(delayed) = Range(delayed') \cup {delayed[Len(delayed)]}
      <4>1. delayed' = SubSeq(delayed, 1, Len(delayed) - 1)
        BY <1>1, <2>3 DEF Promote
      <4> QED BY <1>0, <2>3, <4>1, RangeFront, Zenon
    <3>2. Being' = {delayed[Len(delayed)]} /\ Being = {}
      <4>1. pc["work"] # "start" /\ pc["incoming"] # "start"
        BY <1>1, NoneAssumption DEF Promote, Goto, Typed, TypeOK
      <4>2. AddTask("work", delayed[Len(delayed)])
        BY <1>1, <2>3 DEF Promote
      <4> QED BY <3>0, <4>1, <4>2, BeingStored DEF Threads
    <3>3. UNCHANGED <<unsent, received, batch, ready, snapshot, suspended, killed,
                      active, early, cancelled, adds>>
          /\ started' = started \cup {delayed[Len(delayed)]}
      BY <1>1, <2>3 DEF Promote, AddTask, bounds, fate
    <3> QED BY <2>1, <3>1, <3>2, <3>3 DEF Moved
  <2> QED BY <2>2, <2>3
<1>8. CASE StartPromoted
  <2>0. Moved("work", "start", "report")
    BY <1>0, <1>8, GotoMoves DEF StartPromoted, Threads, Places
  <2>1. /\ adding["work"] \in Tasks /\ Being = {adding["work"]} /\ Being' = {}
        /\ Range(ready') = Range(ready) \cup {adding["work"]}
    <3>1. pc["work"] = "start" /\ pc["incoming"] # "start"
      BY <2>0 DEF Moved, Typed, Control
    <3>2. StartTask("work")
      BY <1>8 DEF StartPromoted
    <3> QED BY <3>1, <3>2, BeingBorn DEF Threads
  <2>2. \A t \in Tasks : adds'[t] = 0 => adds[t] = 0 /\ t # adding["work"]
    BY <1>8, <2>1 DEF StartPromoted, StartTask, Typed, TypeOK
  <2>3. UNCHANGED <<unsent, received, delayed, started, batch, snapshot, suspended,
                    killed, active, early, cancelled>>
    BY <1>8 DEF StartPromoted, bounds
  <2> QED BY <1>0, <2>0, <2>1, <2>2, <2>3 DEF Moved
<1>2. CASE PopNow \/ PopBlocked
  <2>1. Moved("work", "pop", "check") \/ Moved("work", "block", "check")
    BY <1>0, <1>2, GotoMoves DEF PopNow, PopBlocked, Threads, Places
  <2>2. Range(ready) = Range(ready') \cup {active'}
    <3>1. ready # <<>> /\ active' = Head(ready) /\ ready' = Tail(ready)
      BY <1>2 DEF PopNow, PopBlocked
    <3> QED BY <1>0, <3>1, RangeTail
  <2>3. UNCHANGED <<unsent, received, adding, delayed, started, batch, snapshot,
                    suspended, killed, early, cancelled, adds>>
    BY <1>2 DEF PopNow, PopBlocked, bounds, fate
  <2>4. active = None /\ pc'["work"] = "check"
    BY <1>0, <2>1 DEF Moved
  <2> QED BY <2>2, <2>3, <2>4, <1>0, <1>a, NoneAssumption
<1>3. CASE CheckEntry
  <2>1. UNCHANGED <<unsent, received, adding, delayed, ready, started, batch, snapshot,
                    suspended, early, cancelled, adds>>
    BY <1>3 DEF CheckEntry, bounds, queues
  <2>2. CASE IsCancelled(active) \/ active \notin started
    <3>1. Moved("work", "check", "loop")
      BY <1>0, <1>3, <2>2, GotoMoves DEF CheckEntry, Threads, Places
    <3>2. active' = None /\ killed \subseteq killed'
          /\ (active \in started => active \in killed')
      BY <1>3, <2>2 DEF CheckEntry
    <3> QED BY <1>a, <2>1, <3>1, <3>2 DEF Moved
  <2>3. CASE ~ (IsCancelled(active) \/ active \notin started)
    <3>1. Moved("work", "check", "step")
      BY <1>0, <1>3, <2>3, GotoMoves DEF CheckEntry, Threads, Places
    <3>2. UNCHANGED <<active, killed>>
      BY <1>3, <2>3 DEF CheckEntry
    <3> QED BY <1>a, <2>1, <2>3, <3>1, <3>2 DEF Moved
  <2> QED BY <2>2, <2>3
<1>4. CASE StepAwaits
  <2>1. Moved("work", "step", "loop")
    BY <1>0, <1>4, GotoMoves DEF StepAwaits, Threads, Places
  <2> QED BY <1>4, <1>a, <2>1 DEF StepAwaits, Moved, fate
<1>5. CASE StepReturns
  <2>1. Moved("work", "step", "loop")
    BY <1>0, <1>5, GotoMoves DEF StepReturns, Threads, Places
  <2> QED BY <1>5, <1>a, <2>1 DEF StepReturns, Moved, bounds
<1>6. CASE /\ UNCHANGED <<unsent, received, adding, delayed, ready, started, suspended,
                          batch, snapshot, killed, active, early, cancelled, adds>>
           /\ pc'["work"] # "step"
  BY <1>6, <1>a
<1>7. ASSUME Look \/ SendWaiting \/ ReadBacklog("work", "report", "loop")
                \/ CompareBacklog("work", "loop") \/ SendBacklog("work", "loop")
      PROVE  Kept'
  <2>1. UNCHANGED <<unsent, received, adding, delayed, ready, started, suspended,
                    batch, snapshot, killed, active, early, cancelled, adds>>
    BY <1>7 DEF Look, SendWaiting, ReadBacklog, CompareBacklog, SendBacklog,
                bounds, queues, fate
  <2>2. pc'["work"] # "step"
    BY <1>0, <1>7 DEF Look, SendWaiting, ReadBacklog, CompareBacklog,
                      SendBacklog, Goto, Threads
  <2> QED BY <1>6, <2>1, <2>2
<1> QED BY <1>1, <1>2, <1>3, <1>4, <1>5, <1>7, <1>8 DEF WorkStep

----------------------------------------------------------------------------
(* As long as nothing is cancelled, no task is started twice or both       *)
(* started and handed back.                                                *)

NotStarted == unsent \cup Range(delayed) \cup Range(batch) \cup Being

Apart ==
    /\ NoRepeat(delayed) /\ NoRepeat(batch)
    /\ Range(delayed) \cap Range(batch) = {}
    /\ (Range(delayed) \cup Range(batch)) \cap unsent = {}
    /\ Being \cap (unsent \cup Range(delayed) \cup Range(batch)) = {}
    /\ \A t \in NotStarted : adds[t] = 0 /\ t \notin returned
    /\ \A t \in Tasks : adds[t] <= 1 /\ (t \in returned => adds[t] = 0)

Once == cancelled = {} => Apart

\* Without a cancel, the incoming thread starts and hands back each task once.
LEMMA OnceIncoming ==
    ASSUME Typed, Once, IncomingStep
    PROVE  Once'
<1> SUFFICES ASSUME cancelled' = {} PROVE Apart'
  BY DEF Once
<1>0. cancelled \subseteq cancelled'
  BY DEF IncomingStep, ReadBatch, AddLast, StartLast, DelayRest, Reclaim, GiveBack, Wake,
         CancelStarted, FilterDelayed, RebindDelayed, ReadBacklog,
         CompareBacklog, SendBacklog, queues
<1>1. cancelled = {} /\ Apart
  BY <1>0 DEF Once
<1>2. /\ delayed \in Seq(Tasks) /\ batch \in Seq(Tasks)
      /\ pc \in [Threads -> Places] /\ unsent \subseteq Tasks
      /\ adds \in [Tasks -> Nat]
      /\ pc["incoming"] \notin {"add", "start", "extend", "give_back"} => batch = <<>>
      /\ pc["incoming"] = "add" => batch # <<>>
      /\ pc["incoming"] \notin {"filter", "rebind"}
      /\ pc["incoming"] \in {"add", "start"} => pc["work"] # "start"
      /\ Range(<<>>) = {} /\ NoRepeat(<<>>)
      /\ Range(delayed) \subseteq Tasks /\ Range(batch) \subseteq Tasks
  BY <1>1, RangeType DEF Typed, TypeOK, Control
<1>a. adding' = adding => Being' = Being
  BY DEF Being
<1> USE DEF Apart, NotStarted
<1>3. CASE ReadBatch
  <2>1. PICK n \in 1..MaxBatch : \E b \in [1..n -> unsent] :
          /\ \A i, j \in 1..n : b[i] = b[j] => i = j
          /\ batch' = b /\ unsent' = unsent \ Range(b)
    BY <1>3 DEF ReadBatch
  <2>2. PICK b \in [1..n -> unsent] :
          /\ \A i, j \in 1..n : b[i] = b[j] => i = j
          /\ batch' = b /\ unsent' = unsent \ Range(b)
    BY <2>1
  <2>3. NoRepeat(b) /\ Range(b) \subseteq unsent
    BY <2>2 DEF NoRepeat, Range
  <2>4. UNCHANGED <<delayed, adding, adds, returned>>
    BY <1>3 DEF ReadBatch, queues
  <2> QED BY <1>1, <1>a, <2>2, <2>3, <2>4
<1>4. CASE AddLast
  <2> DEFINE t == batch[Len(batch)]
  <2>1. batch # <<>> /\ batch' = SubSeq(batch, 1, Len(batch) - 1)
    BY <1>2, <1>4 DEF AddLast, Goto
  <2>2. /\ t \in Tasks /\ Range(batch) = Range(batch') \cup {t}
        /\ NoRepeat(batch') /\ t \notin Range(batch')
    BY <1>1, <1>2, <2>1, RangeFront, Zenon
  <2>3. UNCHANGED <<unsent, delayed, adds, returned>>
    BY <1>4 DEF AddLast, bounds, fate
  <2>4. Being' = {t} /\ Being = {}
    <3>1. pc["incoming"] # "start" /\ pc["work"] # "start"
      BY <1>2, <1>4 DEF AddLast, Goto
    <3>2. AddTask("incoming", t)
      BY <1>4 DEF AddLast
    <3> QED BY <2>2, <3>1, <3>2, BeingStored DEF Threads
  <2> HIDE DEF t
  <2> QED BY <1>1, <1>2, <2>2, <2>3, <2>4
<1>10. CASE StartLast
  <2>1. /\ adding["incoming"] \in Tasks /\ Being = {adding["incoming"]} /\ Being' = {}
    <3>1. pc["incoming"] = "start" /\ pc["work"] # "start"
      BY <1>2, <1>10 DEF StartLast, Goto
    <3>2. StartTask("incoming")
      BY <1>10 DEF StartLast
    <3> QED BY <3>1, <3>2, BeingBorn DEF Threads
  <2>2. PICK t : t = adding["incoming"]
    OBVIOUS
  <2>3. adds' = [adds EXCEPT ![t] = @ + 1]
        /\ UNCHANGED <<unsent, delayed, batch, returned>>
    BY <1>10, <2>2 DEF StartLast, StartTask, bounds
  <2>4. adds[t] = 0 /\ t \notin returned
    BY <1>1, <2>1, <2>2
  <2>5. \A u \in Tasks : adds'[u] = IF u = t THEN 1 ELSE adds[u]
    BY <1>2, <2>1, <2>2, <2>3, <2>4
  <2>6. \A u \in unsent \cup Range(delayed) \cup Range(batch) : u # t
    BY <1>1, <2>1, <2>2
  <2> QED BY <1>1, <1>2, <2>1, <2>2, <2>3, <2>4, <2>5, <2>6
<1>5. CASE DelayRest
  <2>1. delayed' = delayed \o batch /\ batch' = <<>>
        /\ UNCHANGED <<unsent, adding, adds, returned>>
    BY <1>a, <1>5 DEF DelayRest, bounds, fate
  <2>2. /\ Range(delayed') = Range(delayed) \cup Range(batch)
        /\ NoRepeat(delayed')
    BY <1>1, <1>2, <2>1, RangeConcat
  <2> QED BY <1>1, <1>2, <1>a, <2>1, <2>2
<1>6. ASSUME NEW n \in 1..Len(delayed), Reclaim(n) PROVE Apart'
  <2>1. /\ batch' = SubSeq(delayed, 1, n)
        /\ delayed' = SubSeq(delayed, n + 1, Len(delayed))
        /\ UNCHANGED <<unsent, adding, adds, returned>>
    BY <1>6 DEF Reclaim, fate
  <2>2. /\ Range(batch') \cup Range(delayed') = Range(delayed)
        /\ NoRepeat(batch') /\ NoRepeat(delayed')
        /\ Range(batch') \cap Range(delayed') = {}
    BY <1>1, <1>2, <2>1, RangeCut, n \in 0..Len(delayed), Zenon
  <2> QED BY <1>1, <1>a, <2>1, <2>2
<1>7. CASE GiveBack
  <2>1. /\ batch' = <<>> /\ returned' \subseteq returned \cup Range(batch)
        /\ UNCHANGED <<unsent, adding, delayed, adds>>
    BY <1>7 DEF GiveBack, bounds, queues
  <2> QED BY <1>1, <1>2, <1>a, <2>1
<1>8. CASE FilterDelayed \/ RebindDelayed
  BY <1>2, <1>8 DEF FilterDelayed, RebindDelayed, Goto
<1>9. CASE UNCHANGED <<unsent, adding, delayed, batch, adds, returned>>
  BY <1>1, <1>a, <1>9
<1> QED BY <1>3, <1>4, <1>5, <1>6, <1>7, <1>8, <1>9, <1>10
        DEF IncomingStep, Wake, CancelStarted, ReadBacklog, CompareBacklog,
            SendBacklog, bounds, queues, fate

\* Without a cancel, the work thread starts each delayed task once.
LEMMA OnceWork ==
    ASSUME Typed, Once, WorkStep
    PROVE  Once'
<1>0. cancelled' = cancelled
  BY DEF WorkStep, Look, Promote, StartPromoted, PopNow, SendWaiting, PopBlocked, CheckEntry,
         StepAwaits, StepReturns, ReadBacklog, CompareBacklog, SendBacklog,
         queues
<1> SUFFICES ASSUME cancelled = {} PROVE Apart'
  BY <1>0 DEF Once
<1>1. Apart
  BY DEF Once
<1>2. /\ delayed \in Seq(Tasks) /\ batch \in Seq(Tasks) /\ unsent \subseteq Tasks
      /\ adds \in [Tasks -> Nat]
  BY DEF Typed, TypeOK
<1>a. adding' = adding => Being' = Being
  BY DEF Being
<1> USE DEF Apart, NotStarted
<1>3. ASSUME Promote, delayed # <<>> PROVE Apart'
  <2> DEFINE t == delayed[Len(delayed)]
  <2>1. /\ delayed' = SubSeq(delayed, 1, Len(delayed) - 1)
        /\ UNCHANGED <<unsent, batch, adds, returned>>
    BY <1>3 DEF Promote, bounds, fate
  <2>2. /\ t \in Tasks /\ Range(delayed) = Range(delayed') \cup {t}
        /\ NoRepeat(delayed') /\ t \notin Range(delayed')
    BY <1>1, <1>2, <1>3, <2>1, RangeFront, Zenon
  <2>3. Being' = {t} /\ Being = {}
    <3>1. pc["work"] # "start" /\ pc["incoming"] # "start"
      BY <1>3, NoneAssumption DEF Promote, Goto, Typed, TypeOK
    <3>2. AddTask("work", t)
      BY <1>3 DEF Promote
    <3> QED BY <2>2, <3>1, <3>2, BeingStored DEF Threads
  <2> HIDE DEF t
  <2> QED BY <1>1, <2>1, <2>2, <2>3
<1>6. CASE StartPromoted
  <2>1. /\ adding["work"] \in Tasks /\ Being = {adding["work"]} /\ Being' = {}
    <3>1. pc["work"] = "start" /\ pc["incoming"] # "start"
      BY <1>6 DEF StartPromoted, Goto, Typed, Control
    <3>2. StartTask("work")
      BY <1>6 DEF StartPromoted
    <3> QED BY <3>1, <3>2, BeingBorn DEF Threads
  <2>2. PICK t : t = adding["work"]
    OBVIOUS
  <2>3. adds' = [adds EXCEPT ![t] = @ + 1]
        /\ UNCHANGED <<unsent, delayed, batch, returned>>
    BY <1>6, <2>2 DEF StartPromoted, StartTask, bounds
  <2>4. adds[t] = 0 /\ t \notin returned
    BY <1>1, <2>1, <2>2
  <2>5. \A u \in Tasks : adds'[u] = IF u = t THEN 1 ELSE adds[u]
    BY <1>2, <2>1, <2>2, <2>3, <2>4
  <2>6. \A u \in unsent \cup Range(delayed) \cup Range(batch) : u # t
    BY <1>1, <2>1, <2>2
  <2>7. unsent \cup Range(delayed) \cup Range(batch) \subseteq Tasks
    BY <1>2, RangeType DEF Typed, TypeOK
  <2> QED BY <1>1, <2>1, <2>2, <2>3, <2>4, <2>5, <2>6, <2>7
<1>4. ASSUME Promote, delayed = <<>> PROVE Apart'
  <2>1. UNCHANGED <<unsent, adding, delayed, batch, adds, returned>>
    BY <1>4 DEF Promote, bounds, fate
  <2> QED BY <1>1, <1>a, <2>1
<1>5. CASE UNCHANGED <<unsent, adding, delayed, batch, adds, returned>>
  BY <1>1, <1>a, <1>5
<1> QED BY <1>3, <1>4, <1>5, <1>6
        DEF WorkStep, Look, PopNow, SendWaiting, PopBlocked, CheckEntry,
            StepAwaits, StepReturns, ReadBacklog, CompareBacklog, SendBacklog,
            bounds, queues, fate

----------------------------------------------------------------------------
(* The theorems.                                                           *)

\* The inductive invariant.
IInv == Typed /\ Account /\ Kept /\ Once

\* The inductive invariant holds at the start ...
LEMMA InvInit == Init => IInv
<1> SUFFICES ASSUME Init PROVE IInv
  OBVIOUS
<1>1. Typed
  BY TypedInit
<1>2. Range(<<>>) = {} /\ NoRepeat(<<>>)
  BY RangeType
<1>6. Being = {}
  BY DEF Init, Being, Threads
<1>3. Account /\ Queued /\ Known
  BY <1>2, <1>6 DEF Init, Account, Queued, Known, Held
<1>4. EarlyStays
  BY DEF Init, EarlyStays
<1>5. Apart
  BY <1>2, <1>6 DEF Init, Apart, NotStarted
<1> QED BY <1>1, <1>3, <1>4, <1>5 DEF IInv, Kept, Once

\* ... every step keeps it ...
LEMMA InvNext == IInv /\ [Next]_vars => IInv'
<1> SUFFICES ASSUME IInv, [Next]_vars PROVE IInv'
  OBVIOUS
<1> USE DEF IInv
<1>1. CASE IncomingStep
  BY <1>1, TypedIncoming, AccountIncoming, KeptIncoming, OnceIncoming
<1>2. CASE WorkStep
  BY <1>2, TypedWork, AccountWork, KeptWork, OnceWork
<1>3. CASE UNCHANGED vars
  <2> USE <1>3 DEF vars, bounds, queues, backlog, fate
  <2>1. Typed'
    BY DEF Typed, TypeOK, Control
  <2>2. Account'
    BY DEF Account
  <2>3. Kept'
    BY DEF Kept, Queued, Known, Held, Being, EarlyStays, IsCancelled
  <2>4. Once'
    BY DEF Once, Apart, NotStarted, Being
  <2> QED BY <2>1, <2>2, <2>3, <2>4
<1> QED BY <1>1, <1>2, <1>3 DEF Next

\* ... so it always holds.
LEMMA InvAlways == Spec => []IInv
BY InvInit, InvNext, PTL DEF Spec

\* No task is lost or run twice between the two threads, a reclaim and a
\* cancel: every task read is delayed, about to be, started, or gone; as long
\* as nothing is cancelled none is started twice or both started and handed
\* back; one that was cancelled before it arrived is never stepped.
THEOREM EveryTaskAccounted == Spec => []TasksAccounted
<1>1. ASSUME IInv PROVE TasksAccounted
  <2>1. received \subseteq Range(delayed) \cup Range(batch) \cup started
                           \cup finished \cup returned \cup killed
    BY <1>1 DEF IInv, Account
  <2>2. StartedOrReturned
    <3> SUFFICES ASSUME cancelled = {}, NEW t \in Tasks
                 PROVE  adds[t] + (IF t \in returned THEN 1 ELSE 0) <= 1
      BY DEF StartedOrReturned
    <3>1. adds[t] \in Nat /\ adds[t] <= 1 /\ (t \in returned => adds[t] = 0)
      BY <1>1 DEF IInv, Once, Apart, Typed, TypeOK
    <3> QED BY <3>1
  <2>3. \A t \in early : active = t => pc["work"] # "step"
    BY <1>1 DEF IInv, Kept, EarlyStays
  <2> QED BY <2>1, <2>2, <2>3 DEF TasksAccounted
<1> QED BY <1>1, InvAlways, PTL

\* Whenever the worker says it is waiting, every task it has read is delayed,
\* suspended, on its way back or gone: none is ready or half-read, whatever
\* the other thread does meanwhile.
THEOREM WaitingOnlyWhenTrue == Spec => WaitingIsTrue
<1>1. ASSUME IInv, SendWaiting
      PROVE  received \subseteq Range(delayed) \cup suspended \cup Reclaimed
                                \cup finished \cup returned \cup killed
  <2>1. /\ mutex = None /\ ready = <<>> /\ pc["work"] = "pop"
    BY <1>1 DEF SendWaiting, Goto
  <2>2. active = None /\ Range(ready) = {}
    BY <1>1, <2>1, RangeType DEF IInv, Typed, Control
  <2>3. started \subseteq suspended \cup killed
    <3>1. /\ started \subseteq Tasks
          /\ started \subseteq Range(ready) \cup {active} \cup suspended \cup killed \cup Being
      BY <1>1 DEF IInv, Typed, TypeOK, Kept, Queued
    <3>2. Being = {}
      <4>1. adding["work"] = None
        BY <1>1, <2>1 DEF IInv, Typed, Control, Threads
      <4>2. adding["incoming"] = None
        <5>1. pc["incoming"] # "start"
          BY <1>1, <2>1, NoneAssumption DEF IInv, Typed, TypeOK
        <5> QED BY <1>1, <5>1 DEF IInv, Typed, Control, Threads
      <4> QED BY <4>1, <4>2 DEF Being
    <3> QED BY <2>2, <3>1, <3>2, NoneAssumption
  <2>4. Range(batch) = Reclaimed
    <3>1. pc["incoming"] \notin {"add", "start", "extend"}
      BY <1>1, <2>1, NoneAssumption DEF IInv, Typed, TypeOK
    <3>2. CASE pc["incoming"] = "give_back"
      BY <3>2 DEF Reclaimed
    <3>3. CASE pc["incoming"] # "give_back"
      BY <1>1, <3>1, <3>3, RangeType DEF IInv, Typed, Control, Reclaimed
    <3> QED BY <3>2, <3>3
  <2> QED BY <1>1, <2>3, <2>4 DEF IInv, Account
<1>2. IInv /\ [Next]_vars =>
        [SendWaiting => received \subseteq Range(delayed) \cup suspended
            \cup Reclaimed \cup finished \cup returned \cup killed]_vars
  BY <1>1
<1> QED BY <1>2, InvAlways, PTL DEF Spec, WaitingIsTrue
=============================================================================
