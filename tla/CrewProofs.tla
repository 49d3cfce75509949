----------------------------- MODULE CrewProofs -----------------------------
(***************************************************************************)
(* What is proved of the workers of module Crew, whatever stands above     *)
(* them: D is any set of nodes with the workers among them, one connection *)
(* each.                                                                   *)
(*                                                                         *)
(* The parts: what messages carry; what each step of a worker does and     *)
(* says; where tasks lie, and that a step only moves them; that a task     *)
(* awaits its children where it is held (CrewInv); what a worker owes its  *)
(* boss (Settles); what the boss's submit_cache says of a worker (Marks)   *)
(* and its idle count (IdleRight, Noticed); what assign_tasks deals out;   *)
(* totals over families of sets; and what a boss will count as idle below  *)
(* a manager once the manager's reports have arrived (View).  A boss's     *)
(* proof puts these together.                                              *)
(***************************************************************************)
EXTENDS Crew, DataLemmas

----------------------------------------------------------------------------
(* Messages and the tasks they carry.                                      *)

Batches == [type : {"SUBMIT_BATCH"}, tasks : Seq(Tasks) \ {<<>>}]

Messages ==
    Batches
      \cup [type : {"RESULT"}, task : Tasks, completed_by : Workers]
      \cup [type : {"RECLAIM"}, n : Int]
      \cup [type : {"WAITING"}, idle : Nat, receipt : Tasks \cup {None}]
      \cup [type : {"UPDATE"}, n : Int]
      \cup [type : {"BACKLOG"}, n : Int]

\* The tasks in a queue, and in one message.
Sent(q)   == TasksOf(q, "SUBMIT_BATCH")
SentBy(m) == IF m.type = "SUBMIT_BATCH" THEN Range(m.tasks) ELSE {}

\* No task is in a queue twice.
OnceEach(q) ==
    \A i, j \in DOMAIN q :
        q[i].type = "SUBMIT_BATCH" /\ q[j].type = "SUBMIT_BATCH" =>
            /\ NoRepeat(q[i].tasks)
            /\ i # j => Range(q[i].tasks) \cap Range(q[j].tasks) = {}

\* The tasks in a queue are those of its messages, and they are tasks.
LEMMA SentType ==
    ASSUME NEW q \in Seq(Messages)
    PROVE  /\ Sent(q) \subseteq Tasks
           /\ Sent(q) = UNION {SentBy(q[i]) : i \in DOMAIN q}
           /\ \A t : t \in Sent(q) <=> \E i \in DOMAIN q : t \in SentBy(q[i])
<1>1. \A m \in Messages : m.type = "SUBMIT_BATCH" => m.tasks \in Seq(Tasks)
  BY DEF Messages, Batches
<1>2. \A i \in DOMAIN q : q[i] \in Messages
  OBVIOUS
<1>3. \A t : t \in Sent(q) <=> \E i \in DOMAIN q : t \in SentBy(q[i])
  BY DEF Sent, TasksOf, SentBy, Range
<1>4. \A i \in DOMAIN q : SentBy(q[i]) \subseteq Tasks
  BY <1>1, <1>2, RangeType DEF SentBy
<1> QED BY <1>3, <1>4

\* Queues of no message and of one.
LEMMA SentFew ==
    /\ <<>> \in Seq(Messages) /\ Sent(<<>>) = {} /\ OnceEach(<<>>)
    /\ \A m \in Messages :
          /\ <<m>> \in Seq(Messages) /\ Sent(<<m>>) = SentBy(m)
          /\ (m.type = "SUBMIT_BATCH" => NoRepeat(m.tasks)) => OnceEach(<<m>>)
<1>1. <<>> \in Seq(Messages) /\ Sent(<<>>) = {} /\ OnceEach(<<>>)
  BY DEF Sent, TasksOf, Range, OnceEach
<1>2. ASSUME NEW m \in Messages
      PROVE  /\ <<m>> \in Seq(Messages) /\ Sent(<<m>>) = SentBy(m)
             /\ (m.type = "SUBMIT_BATCH" => NoRepeat(m.tasks)) => OnceEach(<<m>>)
  <2>1. <<m>> \in Seq(Messages) /\ DOMAIN <<m>> = {1} /\ <<m>>[1] = m
    OBVIOUS
  <2>2. \A t : t \in Sent(<<m>>) <=> \E i \in {1} : t \in SentBy(m)
    BY <2>1, SentType
  <2>3. Sent(<<m>>) = SentBy(m)
    BY <2>2
  <2>4. (m.type = "SUBMIT_BATCH" => NoRepeat(m.tasks)) => OnceEach(<<m>>)
    BY <2>1 DEF OnceEach
  <2> QED BY <2>1, <2>3, <2>4
<1> QED BY <1>1, <1>2

\* Two queues in a row carry the tasks of both, each once if disjoint.
LEMMA SentConcat ==
    ASSUME NEW p \in Seq(Messages), NEW q \in Seq(Messages)
    PROVE  /\ p \o q \in Seq(Messages)
           /\ Sent(p \o q) = Sent(p) \cup Sent(q)
           /\ OnceEach(p) /\ OnceEach(q) /\ Sent(p) \cap Sent(q) = {}
                => OnceEach(p \o q)
<1> DEFINE r == p \o q  m == Len(p)  n == Len(q)
<1>1. /\ r \in Seq(Messages) /\ m \in Nat /\ n \in Nat
      /\ DOMAIN r = 1..(m + n) /\ DOMAIN p = 1..m /\ DOMAIN q = 1..n
      /\ \A i \in 1..(m + n) : r[i] = IF i <= m THEN p[i] ELSE q[i - m]
  BY ConcatProperties
<1>0. m \in Nat /\ n \in Nat
  OBVIOUS
<1> HIDE DEF r, m, n
<1>2. \A i \in DOMAIN r : \/ i \in DOMAIN p /\ r[i] = p[i]
                          \/ i - m \in DOMAIN q /\ r[i] = q[i - m]
  <2>1. ASSUME NEW i \in 1..(m + n), i <= m PROVE i \in 1..m /\ r[i] = p[i]
    BY <1>1, <2>1
  <2>2. ASSUME NEW i \in 1..(m + n), ~(i <= m) PROVE i - m \in 1..n /\ r[i] = q[i - m]
    <3>1. i - m \in 1..n
      BY <1>0, <2>2
    <3> QED BY <1>1, <2>2, <3>1
  <2> QED BY <1>1, <2>1, <2>2
<1>3. \A i \in DOMAIN p : i \in DOMAIN r /\ r[i] = p[i]
  BY <1>1
<1>4. \A i \in DOMAIN q : i + m \in DOMAIN r /\ r[i + m] = q[i]
  BY <1>1
<1>5. /\ \A t : t \in Sent(r) <=> \E i \in DOMAIN r : t \in SentBy(r[i])
      /\ \A t : t \in Sent(p) <=> \E i \in DOMAIN p : t \in SentBy(p[i])
      /\ \A t : t \in Sent(q) <=> \E i \in DOMAIN q : t \in SentBy(q[i])
  BY <1>1, SentType
<1>6. Sent(r) = Sent(p) \cup Sent(q)
  <2>1. \A t : t \in Sent(r) <=> t \in Sent(p) \/ t \in Sent(q)
    BY <1>2, <1>3, <1>4, <1>5
  <2> QED BY <2>1
<1>7. ASSUME OnceEach(p), OnceEach(q), Sent(p) \cap Sent(q) = {}
      PROVE  OnceEach(r)
  <2>1. ASSUME NEW i \in DOMAIN r, NEW j \in DOMAIN r,
               r[i].type = "SUBMIT_BATCH", r[j].type = "SUBMIT_BATCH"
        PROVE  /\ NoRepeat(r[i].tasks)
               /\ i # j => Range(r[i].tasks) \cap Range(r[j].tasks) = {}
    <3>1. CASE i \in DOMAIN p /\ r[i] = p[i] /\ j \in DOMAIN p /\ r[j] = p[j]
      BY <2>1, <3>1, <1>7 DEF OnceEach
    <3>2. CASE i \in DOMAIN p /\ r[i] = p[i] /\ j - m \in DOMAIN q /\ r[j] = q[j - m]
      <4>1. Range(r[i].tasks) \subseteq Sent(p) /\ Range(r[j].tasks) \subseteq Sent(q)
        BY <2>1, <3>2, <1>5 DEF SentBy
      <4>2. NoRepeat(r[i].tasks)
        BY <2>1, <3>2, <1>7 DEF OnceEach
      <4> QED BY <4>1, <4>2, <1>7
    <3>3. CASE i - m \in DOMAIN q /\ r[i] = q[i - m] /\ j \in DOMAIN p /\ r[j] = p[j]
      <4>1. Range(r[i].tasks) \subseteq Sent(q) /\ Range(r[j].tasks) \subseteq Sent(p)
        BY <2>1, <3>3, <1>5 DEF SentBy
      <4>2. NoRepeat(r[i].tasks)
        BY <2>1, <3>3, <1>7 DEF OnceEach
      <4> QED BY <4>1, <4>2, <1>7
    <3>4. CASE i - m \in DOMAIN q /\ r[i] = q[i - m] /\ j - m \in DOMAIN q /\ r[j] = q[j - m]
      <4>1. i # j => i - m # j - m
        BY <1>1
      <4> QED BY <2>1, <3>4, <4>1, <1>7 DEF OnceEach
    <3> QED BY <2>1, <3>1, <3>2, <3>3, <3>4, <1>2
  <2> QED BY <2>1 DEF OnceEach
<1> QED BY <1>1, <1>6, <1>7 DEF r

\* A message put at the end of a queue.
LEMMA SentAppend ==
    ASSUME NEW q \in Seq(Messages), NEW m \in Messages
    PROVE  /\ Append(q, m) \in Seq(Messages)
           /\ Sent(Append(q, m)) = Sent(q) \cup SentBy(m)
           /\ OnceEach(q) /\ Sent(q) \cap SentBy(m) = {}
              /\ (m.type = "SUBMIT_BATCH" => NoRepeat(m.tasks))
                => OnceEach(Append(q, m))
<1>1. Append(q, m) = q \o <<m>>
  BY AppendIsConcat
<1>2. /\ <<m>> \in Seq(Messages) /\ Sent(<<m>>) = SentBy(m)
      /\ (m.type = "SUBMIT_BATCH" => NoRepeat(m.tasks)) => OnceEach(<<m>>)
  BY SentFew
<1> QED BY <1>1, <1>2, SentConcat

\* A message taken from the head of a queue.
LEMMA SentTail ==
    ASSUME NEW q \in Seq(Messages), q # <<>>
    PROVE  /\ Tail(q) \in Seq(Messages) /\ Head(q) \in Messages
           /\ Sent(q) = SentBy(Head(q)) \cup Sent(Tail(q))
           /\ OnceEach(q) =>
                 /\ OnceEach(Tail(q)) /\ SentBy(Head(q)) \cap Sent(Tail(q)) = {}
                 /\ Head(q).type = "SUBMIT_BATCH" => NoRepeat(Head(q).tasks)
<1> DEFINE r == Tail(q)
<1>1. /\ r \in Seq(Messages) /\ Head(q) \in Messages /\ Head(q) = q[1] /\ 1 \in DOMAIN q
      /\ DOMAIN q = 1..Len(q) /\ DOMAIN r = 1..(Len(q) - 1) /\ Len(q) \in Nat
      /\ \A i \in DOMAIN r : r[i] = q[i + 1]
  BY HeadTailProperties
<1> HIDE DEF r
<1>2. \A i \in DOMAIN q : i = 1 \/ (i - 1 \in DOMAIN r /\ q[i] = r[i - 1])
  <2>1. ASSUME NEW i \in DOMAIN q, i # 1 PROVE i - 1 \in DOMAIN r /\ q[i] = r[i - 1]
    <3>1. i \in 1..Len(q) /\ Len(q) \in Nat
      BY <1>1
    <3>2. i - 1 \in 1..(Len(q) - 1) /\ (i - 1) + 1 = i
      BY <2>1, <3>1
    <3> QED BY <1>1, <3>2
  <2> QED BY <2>1
<1>3. \A i \in DOMAIN r : i + 1 \in DOMAIN q /\ i + 1 # 1 /\ r[i] = q[i + 1]
  BY <1>1
<1>4. /\ \A t : t \in Sent(r) <=> \E i \in DOMAIN r : t \in SentBy(r[i])
      /\ \A t : t \in Sent(q) <=> \E i \in DOMAIN q : t \in SentBy(q[i])
  BY <1>1, SentType
<1>5. Sent(q) = SentBy(Head(q)) \cup Sent(r)
  <2>1. 1 \in DOMAIN q
    BY <1>1
  <2>2. \A t : t \in Sent(q) => t \in SentBy(q[1]) \/ t \in Sent(r)
    BY <1>2, <1>4
  <2>3. \A t : t \in SentBy(q[1]) \/ t \in Sent(r) => t \in Sent(q)
    BY <2>1, <1>3, <1>4
  <2> QED BY <2>2, <2>3, <1>1
<1>6. ASSUME OnceEach(q)
      PROVE  /\ OnceEach(r) /\ SentBy(Head(q)) \cap Sent(r) = {}
             /\ Head(q).type = "SUBMIT_BATCH" => NoRepeat(Head(q).tasks)
  <2>1. OnceEach(r)
    <3>1. \A i, j \in DOMAIN r : i # j => i + 1 # j + 1
      BY <1>1
    <3> QED BY <3>1, <1>3, <1>6 DEF OnceEach
  <2>2. \A i \in DOMAIN r : SentBy(q[1]) \cap SentBy(r[i]) = {}
    BY <1>1, <1>3, <1>6 DEF OnceEach, SentBy
  <2> QED BY <2>1, <2>2, <1>1, <1>4, <1>6 DEF OnceEach
<1> QED BY <1>1, <1>5, <1>6 DEF r

\* What the messages of a type hold, and the messages of this module.
LEMMA Fields ==
    ASSUME NEW m \in Messages
    PROVE  /\ m.type = "SUBMIT_BATCH" => m.tasks \in Seq(Tasks) /\ m.tasks # <<>>
           /\ m.type = "RESULT" => m.task \in Tasks
           /\ m.type = "RECLAIM" => m.n \in Int
           /\ m.type = "WAITING" => m.idle \in Nat /\ m.receipt \in Tasks \cup {None}
           /\ m.type = "UPDATE" => m.n \in Int
           /\ m.type = "BACKLOG" => m.n \in Int
BY DEF Messages, Batches

\* What the constructors of Crew make are messages.
LEMMA MessagesMade ==
    /\ \A ts \in Seq(Tasks) : ts # <<>> => Batch(ts) \in Messages
    /\ \A t \in Tasks, w \in Workers : Result(t, w) \in Messages
    /\ \A n \in Int : /\ Reclaim(n) \in Messages /\ Update(n) \in Messages
                      /\ Backlog(n) \in Messages
    /\ \A n \in Nat, r \in Tasks \cup {None} : Waiting(n, r) \in Messages
BY DEF Messages, Batches, Batch, Result, Reclaim, Update, Backlog, Waiting

\* Only a batch carries tasks.
LEMMA Carried ==
    /\ \A ts : SentBy(Batch(ts)) = Range(ts) /\ Batch(ts).tasks = ts
    /\ \A t, w : SentBy(Result(t, w)) = {} /\ Result(t, w).type # "SUBMIT_BATCH"
    /\ \A n : /\ SentBy(Reclaim(n)) = {} /\ Reclaim(n).type # "SUBMIT_BATCH"
              /\ SentBy(Update(n)) = {} /\ Update(n).type # "SUBMIT_BATCH"
              /\ SentBy(Backlog(n)) = {} /\ Backlog(n).type # "SUBMIT_BATCH"
    /\ \A n, r : SentBy(Waiting(n, r)) = {} /\ Waiting(n, r).type # "SUBMIT_BATCH"
BY DEF SentBy, Batch, Result, Reclaim, Update, Backlog, Waiting

\* The changes of the task count that messages report.
LEMMA OwedType ==
    /\ \A m \in Messages : Owes(m) \in Int
    /\ \A q \in Seq(Messages) : [i \in DOMAIN q |-> Owes(q[i])] \in Seq(Int)
<1>1. ASSUME NEW m \in Messages PROVE Owes(m) \in Int
  <2>1. m.type = "UPDATE" => m.n \in Int
    BY Fields
  <2> QED BY <2>1 DEF Owes
<1>2. ASSUME NEW q \in Seq(Messages) PROVE [i \in DOMAIN q |-> Owes(q[i])] \in Seq(Int)
  <2>1. Len(q) \in Nat /\ DOMAIN q = 1..Len(q) /\ \A i \in DOMAIN q : q[i] \in Messages
    OBVIOUS
  <2>2. [i \in 1..Len(q) |-> Owes(q[i])] \in [1..Len(q) -> Int]
    BY <1>1, <2>1
  <2> QED BY <2>1, <2>2
<1> QED BY <1>1, <1>2

\* What is owed in two queues in a row is the sum.
LEMMA OwedConcat ==
    ASSUME NEW p \in Seq(Messages), NEW q \in Seq(Messages)
    PROVE  /\ OwedIn(p \o q) = OwedIn(p) + OwedIn(q)
           /\ OwedIn(p) \in Int /\ OwedIn(<<>>) = 0
<1> DEFINE o(s) == [i \in DOMAIN s |-> Owes(s[i])]
           r == p \o q  m == Len(p)  n == Len(q)
<1>1. /\ r \in Seq(Messages) /\ m \in Nat /\ n \in Nat
      /\ DOMAIN r = 1..(m + n) /\ DOMAIN p = 1..m /\ DOMAIN q = 1..n
      /\ \A i \in 1..(m + n) : r[i] = IF i <= m THEN p[i] ELSE q[i - m]
  BY ConcatProperties
<1>2. m \in Nat /\ n \in Nat
  OBVIOUS
<1> HIDE DEF r, m, n
<1>3. o(p) \in Seq(Int) /\ o(q) \in Seq(Int) /\ o(r) \in Seq(Int)
  BY <1>1, OwedType
<1>4. /\ Len(o(p)) = m /\ Len(o(q)) = n /\ Len(o(r)) = m + n
      /\ \A i \in 1..m : o(p)[i] = Owes(p[i])
      /\ \A i \in 1..n : o(q)[i] = Owes(q[i])
      /\ \A i \in 1..(m + n) : o(r)[i] = Owes(r[i])
  BY <1>1
<1> HIDE DEF o
<1>5. ASSUME NEW i \in 1..(m + n)
      PROVE  o(r)[i] = (o(p) \o o(q))[i]
  <2>1. (o(p) \o o(q))[i] = IF i <= m THEN o(p)[i] ELSE o(q)[i - m]
    BY <1>3, <1>4, ConcatProperties
  <2>2. CASE i <= m
    <3>1. i \in 1..m
      BY <1>2, <2>2
    <3> QED BY <1>1, <1>4, <2>1, <2>2, <3>1
  <2>3. CASE ~(i <= m)
    <3>1. i - m \in 1..n
      BY <1>2, <2>3
    <3> QED BY <1>1, <1>4, <2>1, <2>3, <3>1
  <2> QED BY <2>2, <2>3
<1>6. o(r) = o(p) \o o(q)
  <2>1. o(p) \o o(q) \in Seq(Int) /\ Len(o(p) \o o(q)) = m + n
    BY <1>3, <1>4, ConcatProperties
  <2> QED BY <1>3, <1>4, <1>5, <2>1, SeqEqual
<1>7. SumSeq(o(r)) = SumSeq(o(p)) + SumSeq(o(q)) /\ SumSeq(o(p)) \in Int
  BY <1>3, <1>6, SumConcat
<1>8. OwedIn(<<>>) = 0
  <2>1. [i \in DOMAIN <<>> |-> Owes(<<>>[i])] = <<>>
    OBVIOUS
  <2>2. SumSeq(<<>>) = 0
    BY <1>3, SumConcat
  <2> QED BY <2>1, <2>2 DEF OwedIn
<1> QED BY <1>7, <1>8 DEF OwedIn, o, r

\* What is owed in a queue is what its head and its tail owe.
LEMMA OwedTail ==
    /\ OwedIn(<<>>) = 0
    /\ \A m \in Messages : OwedIn(<<m>>) = Owes(m)
    /\ \A q \in Seq(Messages) :
          q # <<>> => OwedIn(q) = Owes(Head(q)) + OwedIn(Tail(q))
<1>1. ASSUME NEW m \in Messages PROVE OwedIn(<<m>>) = Owes(m)
  <2>1. [i \in DOMAIN <<m>> |-> Owes(<<m>>[i])] = <<Owes(m)>>
    OBVIOUS
  <2>2. SumSeq(<<Owes(m)>>) = Owes(m)
    BY OwedType, SumTail
  <2> QED BY <2>1, <2>2 DEF OwedIn
<1>2. ASSUME NEW q \in Seq(Messages), q # <<>>
      PROVE  OwedIn(q) = Owes(Head(q)) + OwedIn(Tail(q))
  <2>1. /\ Head(q) \in Messages /\ Tail(q) \in Seq(Messages)
        /\ <<Head(q)>> \in Seq(Messages) /\ q = <<Head(q)>> \o Tail(q)
    BY <1>2
  <2>2. OwedIn(<<Head(q)>> \o Tail(q)) = OwedIn(<<Head(q)>>) + OwedIn(Tail(q))
    BY <2>1, OwedConcat
  <2> QED BY <1>1, <2>1, <2>2
<1>3. OwedIn(<<>>) = 0
  <2>1. <<>> \in Seq(Messages)
    OBVIOUS
  <2> QED BY <2>1, OwedConcat
<1> QED BY <1>1, <1>2, <1>3

\* Every task is the child of one task at most.
LEMMA Forest ==
    /\ \A t \in Tasks : /\ Children[t] \in Seq(Tasks) /\ NoRepeat(Children[t])
                        /\ Range(Children[t]) \subseteq Tasks
    /\ \A p, t \in Tasks : p # t => Range(Children[p]) \cap Range(Children[t]) = {}
    /\ \A p \in Tasks : \A c \in Range(Children[p]) : Parent(c) = p /\ c \notin Roots
    /\ \A c \in Tasks \ Roots : Parent(c) \in Tasks /\ c \in Range(Children[Parent(c)])
<1>1. \A t \in Tasks : /\ Children[t] \in Seq(Tasks) /\ NoRepeat(Children[t])
                       /\ Range(Children[t]) \subseteq Tasks
  BY ChildrenAssumption, ForestAssumption, RangeType DEF NoRepeat
<1>2. \A p, t \in Tasks : p # t => Range(Children[p]) \cap Range(Children[t]) = {}
  BY ForestAssumption DEF Range
<1>3. ASSUME NEW p \in Tasks, NEW c \in Range(Children[p])
      PROVE  Parent(c) = p /\ c \notin Roots
  <2>1. c \in Tasks /\ \A t \in Tasks : c \in Range(Children[t]) <=> t = p
    BY <1>1, <1>2
  <2> QED BY <2>1 DEF Parent, Roots
<1>4. ASSUME NEW c \in Tasks \ Roots
      PROVE  Parent(c) \in Tasks /\ c \in Range(Children[Parent(c)])
  BY DEF Parent, Roots
<1> QED BY <1>1, <1>2, <1>3, <1>4

----------------------------------------------------------------------------
(* The types of what workers keep and of the queues between the nodes D.   *)

CrewType(D) ==
    /\ down \in [D -> Seq(Messages)] /\ up \in [D -> Seq(Messages)]
    /\ ready \in [Workers -> Seq(Tasks)] /\ delayed \in [Workers -> Seq(Tasks)]
    /\ held \in [Workers -> SUBSET Tasks]
    /\ batch \in [Workers -> Seq(Tasks) \cup {None}]
    /\ receipt \in [Workers -> Tasks \cup {None}]
    /\ reported \in [Workers -> Int]
    /\ phase \in [Workers -> {"look", "pop", "block"}]
    /\ home \in [Tasks -> Workers \cup {None}]
    /\ missing \in [Tasks -> SUBSET Tasks]
    /\ mapped \subseteq Tasks /\ finished \subseteq Tasks

\* What a worker reads.
LEMMA ReadType ==
    ASSUME NEW D, CrewType(D), NEW w \in Workers \cap D, NEW type, Read(w, type)
    PROVE  /\ Head(down[w]) \in Messages /\ Head(down[w]).type = type
           /\ down' = [down EXCEPT ![w] = Tail(down[w])]
           /\ down' \in [D -> Seq(Messages)] /\ batch[w] = None
           /\ down[w] \in Seq(Messages) /\ down[w] # <<>>
<1>1. down[w] \in Seq(Messages) /\ down[w] # <<>>
  BY DEF CrewType, Read
<1>2. Head(down[w]) \in Messages /\ Tail(down[w]) \in Seq(Messages)
  BY <1>1, SentTail
<1> QED BY <1>1, <1>2 DEF CrewType, Read

\* What worker w adds to its queue, msgs: the tasks G, k changes of its task count;
\* results of tasks that are over and idle reports made while it holds no batch.
Spoke(w, msgs, G, k) ==
    /\ up' = [up EXCEPT ![w] = up[w] \o msgs]
    /\ Sent(msgs) = G /\ OnceEach(msgs) /\ OwedIn(msgs) = k
    /\ \A i \in DOMAIN msgs :
          /\ msgs[i].type = "RESULT" => msgs[i].task \in finished'
          /\ msgs[i].type = "WAITING" =>
                batch[w] = None /\ msgs[i] = Waiting(1, receipt[w])

\* The queues to the boss stay queues of messages.
LEMMA SpokeType ==
    ASSUME NEW D, CrewType(D), NEW w \in Workers \cap D, NEW msgs \in Seq(Messages),
           up' = [up EXCEPT ![w] = up[w] \o msgs]
    PROVE  up' \in [D -> Seq(Messages)]
<1>1. up[w] \o msgs \in Seq(Messages)
  BY SentConcat DEF CrewType
<1> QED BY <1>1 DEF CrewType

\* A step that sends nothing is a special case of one that speaks.
LEMMA Silent ==
    ASSUME NEW D, CrewType(D), NEW w \in Workers \cap D, UNCHANGED up
    PROVE  \E msgs \in Seq(Messages) : Spoke(w, msgs, {}, 0)
<1>1. up[w] \in Seq(Messages) /\ up \in [D -> Seq(Messages)]
  BY DEF CrewType
<1>2. up[w] \o <<>> = up[w]
  BY <1>1, ConcatEmptySeq
<1>3. up' = [up EXCEPT ![w] = up[w] \o <<>>]
  BY <1>1, <1>2
<1>4. <<>> \in Seq(Messages) /\ Sent(<<>>) = {} /\ OnceEach(<<>>) /\ OwedIn(<<>>) = 0
  BY <1>1, SentFew, OwedConcat
<1>5. \A i \in DOMAIN <<>> : FALSE
  OBVIOUS
<1>6. Spoke(w, <<>>, {}, 0)
  BY <1>3, <1>4, <1>5 DEF Spoke
<1> QED BY <1>4, <1>6

\* One message is sent.
LEMMA SaysOne ==
    ASSUME NEW w, NEW m \in Messages, Send(w, <<m>>),
           m.type = "SUBMIT_BATCH" => NoRepeat(m.tasks),
           m.type = "RESULT" => m.task \in finished',
           m.type = "WAITING" => batch[w] = None /\ m = Waiting(1, receipt[w])
    PROVE  <<m>> \in Seq(Messages) /\ Spoke(w, <<m>>, SentBy(m), Owes(m))
<1>1. <<m>> \in Seq(Messages) /\ Sent(<<m>>) = SentBy(m) /\ OnceEach(<<m>>)
  BY SentFew
<1>2. OwedIn(<<m>>) = Owes(m)
  BY OwedTail
<1>3. up' = [up EXCEPT ![w] = up[w] \o <<m>>]
  BY DEF Send
<1>4. \A i \in DOMAIN <<m>> : <<m>>[i] = m
  OBVIOUS
<1> QED BY <1>1, <1>2, <1>3, <1>4 DEF Spoke

\* A change of the delayed tasks, together with the messages msgs.
LEMMA SetDelayedEffect ==
    ASSUME NEW D, CrewType(D), NEW w \in Workers \cap D, NEW ts \in Seq(Tasks),
           NEW msgs \in Seq(Messages), OnceEach(msgs),
           \A i \in DOMAIN msgs : msgs[i].type \notin {"RESULT", "WAITING"},
           SetDelayed(w, ts, msgs)
    PROVE  /\ delayed' = [delayed EXCEPT ![w] = ts]
           /\ delayed' \in [Workers -> Seq(Tasks)]
           /\ reported' \in [Workers -> Int]
           /\ \E all \in Seq(Messages) : Spoke(w, all, Sent(msgs), OwedIn(msgs))
           /\ up' \in [D -> Seq(Messages)]
<1> DEFINE r == Report(w, ts)
<1>1. Len(ts) \in Int
  OBVIOUS
<1>2. Backlog(Len(ts)) \in Messages /\ SentBy(Backlog(Len(ts))) = {}
      /\ Backlog(Len(ts)).type = "BACKLOG" /\ Owes(Backlog(Len(ts))) = 0
  BY <1>1, MessagesMade, Carried DEF Backlog, Owes
<1>3. r = <<>> \/ r = <<Backlog(Len(ts))>>
  BY DEF Report
<1> HIDE DEF r
<1>4. /\ r \in Seq(Messages) /\ Sent(r) = {} /\ OnceEach(r)
      /\ \A i \in DOMAIN r : r[i].type = "BACKLOG"
  <2>1. CASE r = <<>>
    BY <2>1, SentFew
  <2>2. CASE r = <<Backlog(Len(ts))>>
    BY <1>2, <2>2, SentFew
  <2> QED BY <1>3, <2>1, <2>2
<1>5. OwedIn(r) = 0
  BY <1>2, <1>3, OwedTail, OwedConcat
<1> DEFINE all == msgs \o r
<1>6. all \in Seq(Messages) /\ Sent(all) = Sent(msgs) /\ OnceEach(all)
  <2>1. Sent(msgs) \cap Sent(r) = {} /\ Sent(msgs) \cup Sent(r) = Sent(msgs)
    BY <1>4
  <2> QED BY <1>4, <2>1, SentConcat
<1>7. OwedIn(all) = OwedIn(msgs)
  BY <1>4, <1>5, OwedConcat
<1>8. \A i \in DOMAIN all : all[i].type \notin {"RESULT", "WAITING"}
  <2>1. Range(all) = Range(msgs) \cup Range(r)
    BY <1>4, RangeConcat
  <2>2. \A m \in Range(msgs) \cup Range(r) : m.type \notin {"RESULT", "WAITING"}
    BY <1>4 DEF Range
  <2> HIDE DEF all
  <2>3. \A i \in DOMAIN all : all[i] \in Range(all)
    BY DEF Range
  <2> QED BY <2>1, <2>2, <2>3
<1>9. up' = [up EXCEPT ![w] = up[w] \o all]
  BY DEF SetDelayed, Send, r
<1> HIDE DEF all
<1>10. Spoke(w, all, Sent(msgs), OwedIn(msgs))
  BY <1>6, <1>7, <1>8, <1>9 DEF Spoke
<1>11. up' \in [D -> Seq(Messages)]
  BY <1>6, <1>9, SpokeType
<1>12. /\ delayed' = [delayed EXCEPT ![w] = ts]
       /\ delayed' \in [Workers -> Seq(Tasks)] /\ reported' \in [Workers -> Int]
  BY <1>1 DEF CrewType, SetDelayed
<1> QED BY <1>6, <1>10, <1>11, <1>12

\* The last task of a batch, and the others.
LEMMA LastAndFront ==
    ASSUME NEW ts \in Seq(Tasks), ts # <<>>
    PROVE  /\ Front(ts) \in Seq(Tasks) /\ Last(ts) \in Tasks /\ ts[1] \in Tasks
           /\ Len(ts) \in Nat /\ Len(ts) >= 1
           /\ Range(ts) = Range(Front(ts)) \cup {Last(ts)}
           /\ NoRepeat(ts) => NoRepeat(Front(ts)) /\ Last(ts) \notin Range(Front(ts))
<1>1. Len(ts) \in Nat /\ Len(ts) >= 1 /\ ts[1] \in Tasks
  OBVIOUS
<1> QED BY <1>1, RangeFront DEF Front, Last

\* ReadBatch takes the batch from the queue, starts its last task and keeps
\* the others until they are delayed.
LEMMA ReadBatchEffect ==
    ASSUME NEW D, CrewType(D), NEW w \in Workers \cap D, ReadBatch(w)
    PROVE  LET ts == Head(down[w]).tasks IN
           /\ ts \in Seq(Tasks) /\ ts # <<>> /\ SentBy(Head(down[w])) = Range(ts)
           /\ Head(down[w]).type = "SUBMIT_BATCH" /\ down[w] # <<>>
           /\ down' = [down EXCEPT ![w] = Tail(down[w])]
           /\ held' = [held EXCEPT ![w] = held[w] \cup {Last(ts)}]
           /\ ready' = [ready EXCEPT ![w] = Append(ready[w], Last(ts))]
           /\ batch[w] = None /\ batch' = [batch EXCEPT ![w] = Front(ts)]
           /\ receipt' = [receipt EXCEPT ![w] = ts[1]]
           /\ UNCHANGED <<up, delayed, reported, phase, tree>>
           /\ CrewType(D)'
<1> DEFINE ts == Head(down[w]).tasks
<1>1. /\ Head(down[w]) \in Messages /\ Head(down[w]).type = "SUBMIT_BATCH"
      /\ down' = [down EXCEPT ![w] = Tail(down[w])]
      /\ down' \in [D -> Seq(Messages)] /\ batch[w] = None /\ down[w] # <<>>
  BY ReadType DEF ReadBatch
<1>2. ts \in Seq(Tasks) /\ ts # <<>> /\ SentBy(Head(down[w])) = Range(ts)
  BY <1>1, Fields DEF SentBy
<1>3. /\ held' = [held EXCEPT ![w] = held[w] \cup {Last(ts)}]
      /\ ready' = [ready EXCEPT ![w] = Append(ready[w], Last(ts))]
      /\ batch' = [batch EXCEPT ![w] = Front(ts)]
      /\ receipt' = [receipt EXCEPT ![w] = ts[1]]
      /\ UNCHANGED <<up, delayed, reported, phase, tree>>
  BY DEF ReadBatch
<1> HIDE DEF ts
<1>4. Front(ts) \in Seq(Tasks) /\ Last(ts) \in Tasks /\ ts[1] \in Tasks
  BY <1>2, LastAndFront
<1>5. Append(ready[w], Last(ts)) \in Seq(Tasks)
  BY <1>4, RangeAppend DEF CrewType
<1>6. CrewType(D)'
  BY <1>1, <1>3, <1>4, <1>5 DEF CrewType, tree
<1> QED BY <1>1, <1>2, <1>3, <1>6 DEF ts

\* _add_task's rest of the batch: it joins the delayed tasks.
LEMMA DelayRestEffect ==
    ASSUME NEW D, CrewType(D), NEW w \in Workers \cap D, DelayRest(w)
    PROVE  /\ batch[w] # None /\ batch[w] \in Seq(Tasks)
           /\ batch' = [batch EXCEPT ![w] = None]
           /\ delayed' = [delayed EXCEPT ![w] = delayed[w] \o batch[w]]
           /\ \E msgs \in Seq(Messages) : Spoke(w, msgs, {}, 0)
           /\ UNCHANGED <<down, ready, held, receipt, phase, tree>>
           /\ CrewType(D)'
<1>1. batch[w] # None /\ batch[w] \in Seq(Tasks) /\ delayed[w] \in Seq(Tasks)
  BY DEF CrewType, DelayRest
<1>2. delayed[w] \o batch[w] \in Seq(Tasks)
  BY <1>1, RangeConcat
<1>3. SetDelayed(w, delayed[w] \o batch[w], <<>>)
  BY DEF DelayRest
<1>4. /\ <<>> \in Seq(Messages) /\ OnceEach(<<>>) /\ Sent(<<>>) = {} /\ OwedIn(<<>>) = 0
      /\ \A i \in DOMAIN <<>> : <<>>[i].type \notin {"RESULT", "WAITING"}
  BY SentFew, OwedTail
<1>5. /\ delayed' = [delayed EXCEPT ![w] = delayed[w] \o batch[w]]
      /\ delayed' \in [Workers -> Seq(Tasks)] /\ reported' \in [Workers -> Int]
      /\ \E all \in Seq(Messages) : Spoke(w, all, Sent(<<>>), OwedIn(<<>>))
      /\ up' \in [D -> Seq(Messages)]
  BY <1>2, <1>3, <1>4, SetDelayedEffect
<1>6. /\ batch' = [batch EXCEPT ![w] = None]
      /\ UNCHANGED <<down, ready, held, receipt, phase, tree>>
  BY DEF DelayRest
<1>7. CrewType(D)'
  BY <1>5, <1>6 DEF CrewType, tree
<1> QED BY <1>1, <1>4, <1>5, <1>6, <1>7

\* ReadReclaim takes tasks from the front of the delayed ones and sends them up.
HandsBack(w, n) ==
    LET back == SubSeq(delayed[w], 1, n)
        rest == SubSeq(delayed[w], n + 1, Len(delayed[w]))
    IN  /\ delayed' = [delayed EXCEPT ![w] = rest]
        /\ \E msgs \in Seq(Messages) : Spoke(w, msgs, Range(back), -n)

\* The message that hands tasks back: the tasks, and as many less owed.
LEMMA HandBackType ==
    ASSUME NEW ts \in Seq(Tasks), NoRepeat(ts)
    PROVE  /\ HandBack(ts) \in Seq(Messages) /\ Sent(HandBack(ts)) = Range(ts)
           /\ OnceEach(HandBack(ts)) /\ OwedIn(HandBack(ts)) = -Len(ts)
           /\ \A i \in DOMAIN HandBack(ts) :
                 HandBack(ts)[i].type \notin {"RESULT", "WAITING"}
<1>1. CASE ts = <<>>
  <2>1. HandBack(ts) = <<>> /\ Range(ts) = {} /\ Len(ts) = 0
    BY <1>1, RangeType DEF HandBack
  <2> QED BY <2>1, SentFew, OwedTail
<1>2. CASE ts # <<>>
  <2> DEFINE u == Update(-Len(ts))
             b == Batch(ts)
  <2>1. Len(ts) \in Nat /\ -Len(ts) \in Int
    OBVIOUS
  <2>2. /\ u \in Messages /\ SentBy(u) = {} /\ u.type = "UPDATE" /\ Owes(u) = -Len(ts)
        /\ b \in Messages /\ SentBy(b) = Range(ts) /\ b.tasks = ts
        /\ b.type = "SUBMIT_BATCH" /\ Owes(b) = 0
    BY <1>2, <2>1, MessagesMade, Carried DEF Update, Batch, Owes
  <2>3. HandBack(ts) = <<u, b>>
    BY <1>2 DEF HandBack
  <2> HIDE DEF u, b
  <2>4. /\ <<u>> \in Seq(Messages) /\ Sent(<<u>>) = {} /\ OnceEach(<<u>>)
        /\ OwedIn(<<u>>) = -Len(ts)
    BY <2>2, SentFew, OwedTail
  <2>5. /\ <<b>> \in Seq(Messages) /\ Sent(<<b>>) = Range(ts) /\ OnceEach(<<b>>)
        /\ OwedIn(<<b>>) = 0
    BY <2>2, SentFew, OwedTail
  <2>6. HandBack(ts) = <<u>> \o <<b>>
    <3>1. /\ <<u>> \o <<b>> \in Seq(Messages) /\ Len(<<u>> \o <<b>>) = 2
          /\ (<<u>> \o <<b>>)[1] = u /\ (<<u>> \o <<b>>)[2] = b
      BY <2>4, <2>5, ConcatProperties
    <3>2. <<u, b>> \in Seq(Messages) /\ Len(<<u, b>>) = 2
      BY <2>2
    <3>3. \A i \in 1..2 : <<u, b>>[i] = (<<u>> \o <<b>>)[i]
      BY <3>1
    <3> QED BY <2>3, <3>1, <3>2, <3>3, SeqEqual
  <2>7. {} \cap Range(ts) = {} /\ {} \cup Range(ts) = Range(ts)
    OBVIOUS
  <2>8. /\ HandBack(ts) \in Seq(Messages) /\ Sent(HandBack(ts)) = Range(ts)
        /\ OnceEach(HandBack(ts))
    BY <2>4, <2>5, <2>6, <2>7, SentConcat
  <2>9. OwedIn(HandBack(ts)) = -Len(ts) + 0
    BY <2>4, <2>5, <2>6, OwedConcat
  <2>10. \A i \in DOMAIN <<u, b>> : <<u, b>>[i] \in {u, b}
    OBVIOUS
  <2> QED BY <2>1, <2>2, <2>3, <2>8, <2>9, <2>10
<1> QED BY <1>1, <1>2

\* handle_reclaim of a worker: some delayed tasks go back up.
LEMMA ReadReclaimEffect ==
    ASSUME NEW D, CrewType(D), NEW w \in Workers \cap D, ReadReclaim(w),
           NoRepeat(delayed[w])
    PROVE  /\ \E n \in 0..Len(delayed[w]) : HandsBack(w, n)
           /\ down[w] # <<>> /\ Head(down[w]).type = "RECLAIM"
           /\ down' = [down EXCEPT ![w] = Tail(down[w])]
           /\ UNCHANGED <<ready, held, batch, receipt, phase, tree>>
           /\ CrewType(D)'
<1> DEFINE n == Capped(Head(down[w]).n, 0, Len(delayed[w]))
           back == SubSeq(delayed[w], 1, n)
           rest == SubSeq(delayed[w], n + 1, Len(delayed[w]))
<1>1. /\ Head(down[w]) \in Messages /\ Head(down[w]).type = "RECLAIM"
      /\ down' = [down EXCEPT ![w] = Tail(down[w])]
      /\ down' \in [D -> Seq(Messages)] /\ down[w] # <<>>
  BY ReadType DEF ReadReclaim
<1>2. SetDelayed(w, rest, HandBack(back))
  BY DEF ReadReclaim
<1>3. UNCHANGED <<ready, held, batch, receipt, phase, tree>>
  BY DEF ReadReclaim
<1>4. delayed[w] \in Seq(Tasks) /\ Len(delayed[w]) \in Nat
  BY DEF CrewType
<1>5. n \in 0..Len(delayed[w])
  BY <1>1, <1>4, Fields DEF Capped
<1> HIDE DEF n
<1>6. back \in Seq(Tasks) /\ rest \in Seq(Tasks) /\ NoRepeat(back) /\ Len(back) = n
  <2>1. back \in Seq(Tasks) /\ rest \in Seq(Tasks) /\ NoRepeat(back)
    BY <1>4, <1>5, RangeCut
  <2>2. Len(back) = n
    BY <1>4, <1>5
  <2> QED BY <2>1, <2>2
<1> HIDE DEF back, rest
<1>7. /\ HandBack(back) \in Seq(Messages) /\ Sent(HandBack(back)) = Range(back)
      /\ OnceEach(HandBack(back)) /\ OwedIn(HandBack(back)) = -n
      /\ \A i \in DOMAIN HandBack(back) :
            HandBack(back)[i].type \notin {"RESULT", "WAITING"}
  BY <1>6, HandBackType
<1>8. /\ delayed' = [delayed EXCEPT ![w] = rest]
      /\ delayed' \in [Workers -> Seq(Tasks)] /\ reported' \in [Workers -> Int]
      /\ \E all \in Seq(Messages) :
            Spoke(w, all, Sent(HandBack(back)), OwedIn(HandBack(back)))
      /\ up' \in [D -> Seq(Messages)]
  BY <1>2, <1>6, <1>7, SetDelayedEffect
<1>9. HandsBack(w, n)
  BY <1>7, <1>8 DEF HandsBack, back, rest
<1>10. CrewType(D)'
  BY <1>1, <1>3, <1>8 DEF CrewType, tree
<1> QED BY <1>1, <1>3, <1>5, <1>9, <1>10

\* A result wakes the task that awaits it, if it is the last.
LEMMA ReadResultEffect ==
    ASSUME NEW D, CrewType(D), NEW w \in Workers \cap D, ReadResult(w),
           home[Head(down[w]).task] \in Workers, Parent(Head(down[w]).task) \in Tasks
    PROVE  LET t == Head(down[w]).task
               p == Parent(t)
               v == home[t]
           IN
           /\ t \in Tasks /\ down[w] # <<>> /\ Head(down[w]).type = "RESULT"
           /\ down' = [down EXCEPT ![w] = Tail(down[w])]
           /\ missing' = [missing EXCEPT ![p] = missing[p] \ {t}]
           /\ ready' = IF missing[p] = {t}
                       THEN [ready EXCEPT ![v] = Append(ready[v], p)] ELSE ready
           /\ UNCHANGED <<up, delayed, held, batch, receipt, reported, phase,
                          home, mapped, finished>>
           /\ CrewType(D)'
<1> DEFINE t == Head(down[w]).task
           p == Parent(t)
           v == home[t]
<1>1. /\ Head(down[w]) \in Messages /\ Head(down[w]).type = "RESULT"
      /\ down' = [down EXCEPT ![w] = Tail(down[w])]
      /\ down' \in [D -> Seq(Messages)] /\ down[w] # <<>>
  BY ReadType DEF ReadResult
<1>2. t \in Tasks
  BY <1>1, Fields
<1>3. /\ missing' = [missing EXCEPT ![p] = missing[p] \ {t}]
      /\ ready' = [ready EXCEPT ![v] = IF missing[p] = {t} THEN Append(ready[v], p)
                                       ELSE ready[v]]
      /\ UNCHANGED <<up, delayed, held, batch, receipt, reported, phase,
                     home, mapped, finished>>
  BY DEF ReadResult, Deposit
<1>4. p \in Tasks /\ v \in Workers
  OBVIOUS
<1> HIDE DEF t, p, v
<1>5. Append(ready[v], p) \in Seq(Tasks)
  BY <1>4, RangeAppend DEF CrewType
<1>6. ready' = IF missing[p] = {t}
               THEN [ready EXCEPT ![v] = Append(ready[v], p)] ELSE ready
  BY <1>3, <1>4 DEF CrewType
<1>7. CrewType(D)'
  <2>1. missing' \in [Tasks -> SUBSET Tasks]
    BY <1>3, <1>4 DEF CrewType
  <2>2. ready' \in [Workers -> Seq(Tasks)]
    BY <1>4, <1>5, <1>6 DEF CrewType
  <2> QED BY <1>1, <1>3, <2>1, <2>2 DEF CrewType
<1> QED BY <1>1, <1>2, <1>3, <1>6, <1>7 DEF t, p, v

\* Promote starts the newest delayed task.
LEMMA PromoteEffect ==
    ASSUME NEW D, CrewType(D), NEW w \in Workers \cap D, Promote(w)
    PROVE  LET ts == delayed[w] IN
           /\ ts \in Seq(Tasks) /\ ts # <<>> /\ ready[w] = <<>>
           /\ phase[w] = "look"
           /\ held' = [held EXCEPT ![w] = held[w] \cup {Last(ts)}]
           /\ ready' = [ready EXCEPT ![w] = <<Last(ts)>>]
           /\ delayed' = [delayed EXCEPT ![w] = Front(ts)]
           /\ \E msgs \in Seq(Messages) : Spoke(w, msgs, {}, 0)
           /\ UNCHANGED <<down, batch, receipt, phase, tree>>
           /\ CrewType(D)'
<1> DEFINE ts == delayed[w]
<1>1. ts \in Seq(Tasks) /\ ts # <<>> /\ ready[w] = <<>> /\ phase[w] = "look"
  BY DEF CrewType, Promote
<1>2. Front(ts) \in Seq(Tasks) /\ Last(ts) \in Tasks
  BY <1>1, LastAndFront
<1>3. SetDelayed(w, Front(ts), <<>>)
  BY DEF Promote
<1>4. /\ <<>> \in Seq(Messages) /\ OnceEach(<<>>) /\ Sent(<<>>) = {} /\ OwedIn(<<>>) = 0
      /\ \A i \in DOMAIN <<>> : <<>>[i].type \notin {"RESULT", "WAITING"}
  BY SentFew, OwedTail
<1>5. /\ held' = [held EXCEPT ![w] = held[w] \cup {Last(ts)}]
      /\ ready' = [ready EXCEPT ![w] = <<Last(ts)>>]
      /\ UNCHANGED <<down, batch, receipt, phase, tree>>
  BY DEF Promote
<1> HIDE DEF ts
<1>6. /\ delayed' = [delayed EXCEPT ![w] = Front(ts)]
      /\ delayed' \in [Workers -> Seq(Tasks)] /\ reported' \in [Workers -> Int]
      /\ \E all \in Seq(Messages) : Spoke(w, all, Sent(<<>>), OwedIn(<<>>))
      /\ up' \in [D -> Seq(Messages)]
  BY <1>2, <1>3, <1>4, SetDelayedEffect
<1>7. <<Last(ts)>> \in Seq(Tasks)
  BY <1>2
<1>8. CrewType(D)'
  BY <1>2, <1>5, <1>6, <1>7 DEF CrewType, tree
<1> QED BY <1>1, <1>4, <1>5, <1>6, <1>8 DEF ts

\* The work thread finds nothing to promote: only its place changes.
LEMMA NothingDelayedEffect ==
    ASSUME NEW D, CrewType(D), NEW w \in Workers \cap D, NothingDelayed(w)
    PROVE  /\ ready[w] = <<>> /\ delayed[w] = <<>> /\ phase[w] = "look"
           /\ phase' = [phase EXCEPT ![w] = "pop"]
           /\ UNCHANGED <<down, up, ready, delayed, held, batch, receipt, reported, tree>>
           /\ CrewType(D)'
BY DEF NothingDelayed, CrewType, tree

\* SendWaiting says that the worker is idle, and blocks.
\* WAITING is sent between batches, with the receipt of the last one.
LEMMA SendWaitingEffect ==
    ASSUME NEW D, CrewType(D), NEW w \in Workers \cap D, SendWaiting(w)
    PROVE  /\ ready[w] = <<>> /\ batch[w] = None /\ phase[w] = "pop"
           /\ phase' = [phase EXCEPT ![w] = "block"]
           /\ LET m == Waiting(1, receipt[w]) IN
                 <<m>> \in Seq(Messages) /\ Spoke(w, <<m>>, {}, 0)
           /\ UNCHANGED <<down, ready, delayed, held, batch, receipt, reported, tree>>
           /\ CrewType(D)'
<1> DEFINE m == Waiting(1, receipt[w])
<1>1. receipt[w] \in Tasks \cup {None} /\ 1 \in Nat
  BY DEF CrewType
<1>2. m \in Messages /\ SentBy(m) = {} /\ m.type = "WAITING" /\ Owes(m) = 0
  BY <1>1, MessagesMade, Carried DEF Waiting, Owes
<1>3. /\ ready[w] = <<>> /\ batch[w] = None /\ phase[w] = "pop"
      /\ phase' = [phase EXCEPT ![w] = "block"] /\ Send(w, <<m>>)
      /\ UNCHANGED <<down, ready, delayed, held, batch, receipt, reported, tree>>
  BY DEF SendWaiting, Unlocked
<1>4. <<m>> \in Seq(Messages) /\ Spoke(w, <<m>>, {}, 0)
  <2>1. m = Waiting(1, receipt[w])
    OBVIOUS
  <2> HIDE DEF m
  <2>2. <<m>> \in Seq(Messages) /\ Spoke(w, <<m>>, SentBy(m), Owes(m))
    BY <1>2, <1>3, <2>1, SaysOne
  <2> QED BY <1>2, <2>2
<1> HIDE DEF m
<1>5. up' \in [D -> Seq(Messages)]
  BY <1>4, SpokeType DEF Spoke
<1>6. CrewType(D)'
  BY <1>3, <1>5 DEF CrewType, tree
<1> QED BY <1>3, <1>4, <1>6 DEF m

\* A ready task is popped.
LEMMA PopType ==
    ASSUME NEW D, CrewType(D), NEW w \in Workers, NEW t, Pop(w, t)
    PROVE  /\ ready[w] \in Seq(Tasks) /\ ready[w] # <<>> /\ t = Head(ready[w])
           /\ t \in Tasks /\ Tail(ready[w]) \in Seq(Tasks)
           /\ phase' = [phase EXCEPT ![w] = "look"]
BY RangeTail DEF Pop, CrewType

\* RunToMap submits the children of a task and makes it await them all.
LEMMA RunToMapEffect ==
    ASSUME NEW D, CrewType(D), NEW w \in Workers \cap D, NEW t \in Tasks, RunToMap(w, t)
    PROVE  /\ ready[w] # <<>> /\ t = Head(ready[w]) /\ t \notin mapped
           /\ Range(Children[t]) # {}
           /\ phase' = [phase EXCEPT ![w] = "look"]
           /\ mapped' = mapped \cup {t}
           /\ missing' = [missing EXCEPT ![t] = Range(Children[t])]
           /\ home' = [c \in Tasks |-> IF c \in Range(Children[t]) THEN w ELSE home[c]]
           /\ ready' = [ready EXCEPT ![w] = Tail(ready[w])]
           /\ \E msgs \in Seq(Messages) : Spoke(w, msgs, Range(Children[t]), 0)
           /\ UNCHANGED <<down, delayed, held, batch, receipt, reported, finished>>
           /\ CrewType(D)'
<1> DEFINE cs == Children[t]
           m == Batch(cs)
<1>1. /\ cs \in Seq(Tasks) /\ NoRepeat(cs) /\ Range(cs) \subseteq Tasks /\ cs # <<>>
  BY Forest DEF RunToMap
<1>2. Range(cs) # {}
  <2>1. cs[1] \in Range(cs)
    BY <1>1 DEF Range
  <2> QED BY <2>1
<1>3. /\ m \in Messages /\ SentBy(m) = Range(cs) /\ m.tasks = cs
      /\ m.type = "SUBMIT_BATCH" /\ Owes(m) = 0
  BY <1>1, MessagesMade, Carried DEF Batch, Owes
<1>4. Send(w, <<m>>)
  BY DEF RunToMap
<1> HIDE DEF m
<1>5. <<m>> \in Seq(Messages) /\ Spoke(w, <<m>>, Range(cs), 0)
  <2>1. <<m>> \in Seq(Messages) /\ Spoke(w, <<m>>, SentBy(m), Owes(m))
    BY <1>1, <1>3, <1>4, SaysOne
  <2> QED BY <1>3, <2>1
<1>6. up' \in [D -> Seq(Messages)]
  BY <1>5, SpokeType DEF Spoke
<1>7. /\ ready[w] # <<>> /\ t = Head(ready[w]) /\ Tail(ready[w]) \in Seq(Tasks)
      /\ phase' = [phase EXCEPT ![w] = "look"]
  BY PopType DEF RunToMap
<1>8. /\ t \notin mapped /\ mapped' = mapped \cup {t}
      /\ missing' = [missing EXCEPT ![t] = Range(cs)]
      /\ home' = [c \in Tasks |-> IF c \in Range(cs) THEN w ELSE home[c]]
      /\ ready' = [ready EXCEPT ![w] = Tail(ready[w])]
      /\ UNCHANGED <<down, delayed, held, batch, receipt, reported, finished>>
  BY DEF RunToMap
<1> HIDE DEF cs
<1>9. CrewType(D)'
  BY <1>1, <1>6, <1>7, <1>8 DEF CrewType
<1> QED BY <1>2, <1>5, <1>7, <1>8, <1>9 DEF cs

\* RunToEnd ends a task; its result is deposited with its parent, or sent.
LEMMA RunToEndEffect ==
    ASSUME NEW D, CrewType(D), NEW w \in Workers \cap D, NEW t \in Tasks, RunToEnd(w, t),
           home[t] = w => Parent(t) \in Tasks
    PROVE  LET p == Parent(t)
               rest == Tail(ready[w])
           IN
           /\ ready[w] # <<>> /\ t = Head(ready[w])
           /\ Children[t] = <<>> \/ t \in mapped
           /\ phase' = [phase EXCEPT ![w] = "look"]
           /\ finished' = finished \cup {t}
           /\ held' = [held EXCEPT ![w] = held[w] \ {t}]
           /\ missing' = IF home[t] = w THEN [missing EXCEPT ![p] = missing[p] \ {t}]
                         ELSE missing
           /\ ready' = [ready EXCEPT ![w] =
                          IF home[t] = w /\ missing[p] = {t} THEN Append(rest, p) ELSE rest]
           /\ \E msgs \in Seq(Messages) : Spoke(w, msgs, {}, -1)
           /\ UNCHANGED <<down, delayed, batch, receipt, reported, home, mapped>>
           /\ CrewType(D)'
<1> DEFINE p == Parent(t)
           rest == Tail(ready[w])
<1>1. /\ ready[w] # <<>> /\ t = Head(ready[w]) /\ rest \in Seq(Tasks)
      /\ phase' = [phase EXCEPT ![w] = "look"]
  BY PopType DEF RunToEnd
<1>2. /\ Children[t] = <<>> \/ t \in mapped
      /\ finished' = finished \cup {t}
      /\ held' = [held EXCEPT ![w] = held[w] \ {t}]
      /\ UNCHANGED <<down, delayed, batch, receipt, reported, home, mapped>>
  BY DEF RunToEnd
<1>3. CASE home[t] = w
  <2>1. /\ missing' = [missing EXCEPT ![p] = missing[p] \ {t}]
        /\ ready' = [ready EXCEPT ![w] =
                       IF missing[p] = {t} THEN Append(rest, p) ELSE rest]
        /\ Send(w, <<Update(-1)>>)
    BY <1>3 DEF RunToEnd
  <2>2. /\ Update(-1) \in Messages /\ SentBy(Update(-1)) = {}
        /\ Update(-1).type = "UPDATE" /\ Owes(Update(-1)) = -1
    BY MessagesMade, Carried DEF Update, Owes
  <2> DEFINE u == Update(-1)
  <2> HIDE DEF u
  <2>3. <<u>> \in Seq(Messages) /\ Spoke(w, <<u>>, SentBy(u), Owes(u))
    BY <2>1, <2>2, SaysOne DEF u
  <2>4. <<u>> \in Seq(Messages) /\ Spoke(w, <<u>>, {}, -1)
    BY <2>2, <2>3 DEF u
  <2>5. up' \in [D -> Seq(Messages)]
    BY <2>4, SpokeType DEF Spoke
  <2>6. p \in Tasks /\ Append(rest, p) \in Seq(Tasks)
    BY <1>1, <1>3, RangeAppend
  <2> HIDE DEF p, rest
  <2>7. CrewType(D)'
    BY <1>1, <1>2, <2>1, <2>5, <2>6 DEF CrewType
  <2> QED BY <1>1, <1>2, <1>3, <2>1, <2>4, <2>7 DEF p, rest
<1>4. CASE home[t] # w
  <2>1. /\ ready' = [ready EXCEPT ![w] = rest] /\ missing' = missing
        /\ Send(w, <<Result(t, w)>>)
    BY <1>4 DEF RunToEnd
  <2>2. /\ Result(t, w) \in Messages /\ SentBy(Result(t, w)) = {}
        /\ Result(t, w).type = "RESULT" /\ Owes(Result(t, w)) = -1
        /\ Result(t, w).task \in finished'
    BY <1>2, MessagesMade, Carried DEF Result, Owes
  <2> DEFINE u == Result(t, w)
  <2> HIDE DEF u
  <2>3. <<u>> \in Seq(Messages) /\ Spoke(w, <<u>>, SentBy(u), Owes(u))
    BY <2>1, <2>2, SaysOne DEF u
  <2>4. <<u>> \in Seq(Messages) /\ Spoke(w, <<u>>, {}, -1)
    BY <2>2, <2>3 DEF u
  <2>5. up' \in [D -> Seq(Messages)]
    BY <2>4, SpokeType DEF Spoke
  <2> HIDE DEF p, rest
  <2>6. CrewType(D)'
    BY <1>1, <1>2, <2>1, <2>5 DEF CrewType
  <2> QED BY <1>1, <1>2, <1>4, <2>1, <2>4, <2>6 DEF p, rest
<1> QED BY <1>3, <1>4

----------------------------------------------------------------------------
(* Where the tasks are: every task that exists is in one spot.             *)

Batched(w) == IF batch[w] = None THEN {} ELSE Range(batch[w])

Spots(D) ==
    ({"down", "up"} \X D) \cup ({"batch", "delayed", "held"} \X Workers)
        \cup {<<"over", None>>}

Lies(s) ==
    CASE s[1] = "down"    -> Sent(down[s[2]])
      [] s[1] = "up"      -> Sent(up[s[2]])
      [] s[1] = "batch"   -> Batched(s[2])
      [] s[1] = "delayed" -> Range(delayed[s[2]])
      [] s[1] = "held"    -> held[s[2]]
      [] s[1] = "over"    -> finished

Layout(D) == [s \in Spots(D) |-> Lies(s)]

\* No two spots have a task in common; the tasks that are in some spot.
Apart(C)      == \A s, r \in DOMAIN C : s # r => C[s] \cap C[r] = {}
Everywhere(C) == UNION {C[s] : s \in DOMAIN C}

\* E comes from C by tasks of M going from one spot to others, and from nowhere.
Shift(C, E, from, to) ==
    LET M == UNION {to[s] : s \in DOMAIN C} IN
    /\ DOMAIN E = DOMAIN C /\ DOMAIN to = DOMAIN C /\ Apart(to)
    /\ M \subseteq C[from] /\ to[from] = {} /\ E[from] = C[from] \ M
    /\ \A s \in DOMAIN C : s # from => E[s] = C[s] \cup to[s]

Spread(C, E, to) ==
    LET M == UNION {to[s] : s \in DOMAIN C} IN
    /\ DOMAIN E = DOMAIN C /\ DOMAIN to = DOMAIN C /\ Apart(to)
    /\ M \cap Everywhere(C) = {}
    /\ \A s \in DOMAIN C : E[s] = C[s] \cup to[s]

\* Disjoint places stay disjoint when tasks move from one to others.
LEMMA ShiftApart ==
    ASSUME NEW C, NEW E, NEW from \in DOMAIN C, NEW to, Apart(C), Shift(C, E, from, to)
    PROVE  Apart(E) /\ Everywhere(E) = Everywhere(C)
<1> DEFINE S == DOMAIN C
           M == UNION {to[s] : s \in S}
<1>1. /\ DOMAIN E = S /\ \A s, r \in S : s # r => to[s] \cap to[r] = {}
      /\ M \subseteq C[from] /\ to[from] = {} /\ E[from] = C[from] \ M
      /\ \A s \in S : s # from => E[s] = C[s] \cup to[s]
  BY DEF Shift, Apart
<1>2. \A s, r \in S : s # r => C[s] \cap C[r] = {}
  BY DEF Apart
<1>3. \A s \in S : to[s] \subseteq M
  OBVIOUS
<1>4. \A x \in M : \E s \in S : x \in to[s]
  OBVIOUS
<1> HIDE DEF M, S
<1>5. ASSUME NEW s \in S, NEW r \in S, s # r PROVE E[s] \cap E[r] = {}
  <2>1. CASE s = from
    BY <1>1, <1>2, <1>3, <1>5, <2>1
  <2>2. CASE r = from
    BY <1>1, <1>2, <1>3, <1>5, <2>2
  <2>3. CASE s # from /\ r # from
    <3>1. C[s] \cap C[from] = {} /\ C[r] \cap C[from] = {} /\ C[s] \cap C[r] = {}
      BY <1>2, <1>5, <2>3 DEF S
    <3>2. to[s] \cap to[r] = {} /\ to[s] \subseteq C[from] /\ to[r] \subseteq C[from]
      BY <1>1, <1>3, <1>5
    <3> QED BY <1>1, <2>3, <3>1, <3>2
  <2> QED BY <2>1, <2>2, <2>3
<1>6. Apart(E)
  BY <1>1, <1>5 DEF Apart
<1>7. ASSUME NEW s \in S, NEW x \in E[s] PROVE x \in Everywhere(C)
  BY <1>1, <1>3, <1>7 DEF Everywhere, S
<1>8. ASSUME NEW s \in S, NEW x \in C[s] PROVE x \in Everywhere(E)
  <2>1. CASE x \in M
    <3>1. PICK r \in S : x \in to[r]
      BY <1>4, <2>1
    <3>2. r # from /\ x \in E[r]
      BY <1>1, <3>1
    <3> QED BY <1>1, <3>2 DEF Everywhere
  <2>2. CASE x \notin M
    BY <1>1, <2>2, <1>8 DEF Everywhere
  <2> QED BY <2>1, <2>2
<1>9. Everywhere(E) = Everywhere(C)
  <2>1. \A x : x \in Everywhere(E) => \E s \in S : x \in E[s]
    BY <1>1 DEF Everywhere
  <2>2. \A x : x \in Everywhere(C) => \E s \in S : x \in C[s]
    BY DEF Everywhere, S
  <2> QED BY <1>7, <1>8, <2>1, <2>2
<1> QED BY <1>6, <1>9

\* They stay disjoint when new tasks are spread over them.
LEMMA SpreadApart ==
    ASSUME NEW C, NEW E, NEW to, Apart(C), Spread(C, E, to)
    PROVE  Apart(E) /\ Everywhere(E) = Everywhere(C) \cup UNION {to[s] : s \in DOMAIN C}
<1> DEFINE S == DOMAIN C
           M == UNION {to[s] : s \in S}
<1>1. /\ DOMAIN E = S /\ \A s, r \in S : s # r => to[s] \cap to[r] = {}
      /\ M \cap Everywhere(C) = {} /\ \A s \in S : E[s] = C[s] \cup to[s]
  BY DEF Spread, Apart
<1>2. \A s, r \in S : s # r => C[s] \cap C[r] = {}
  BY DEF Apart
<1>3. \A s \in S : to[s] \subseteq M /\ C[s] \subseteq Everywhere(C)
  BY DEF Everywhere
<1>4. \A x : x \in M => \E s \in S : x \in to[s]
  OBVIOUS
<1>5. \A x : x \in Everywhere(C) => \E s \in S : x \in C[s]
  BY DEF Everywhere
<1>6. \A x : x \in Everywhere(E) <=> \E s \in S : x \in E[s]
  BY <1>1 DEF Everywhere
<1> HIDE DEF M, S
<1>7. Apart(E)
  BY <1>1, <1>2, <1>3 DEF Apart
<1>8. Everywhere(E) = Everywhere(C) \cup M
  <2>1. \A x : x \in Everywhere(E) <=> x \in Everywhere(C) \/ x \in M
    BY <1>1, <1>3, <1>4, <1>5, <1>6
  <2> QED BY <2>1
<1> QED BY <1>7, <1>8 DEF M, S

\* A shift to one or two spots.
OneShift(S, C, E, from, a, A) ==
    /\ DOMAIN C = S /\ DOMAIN E = S /\ Apart(C)
    /\ from \in S /\ a \in S /\ from # a
    /\ A \subseteq C[from] /\ E[from] = C[from] \ A /\ E[a] = C[a] \cup A
    /\ \A s \in S \ {from, a} : E[s] = C[s]

TwoShift(S, C, E, from, a, b, A, B) ==
    /\ DOMAIN C = S /\ DOMAIN E = S /\ Apart(C)
    /\ from \in S /\ a \in S /\ b \in S /\ from # a /\ from # b /\ a # b
    /\ A \cap B = {} /\ A \cup B \subseteq C[from]
    /\ E[from] = C[from] \ (A \cup B) /\ E[a] = C[a] \cup A /\ E[b] = C[b] \cup B
    /\ \A s \in S \ {from, a, b} : E[s] = C[s]

\* A move from one place to two.
LEMMA ShiftToTwo ==
    ASSUME NEW S, NEW C, NEW E, NEW from, NEW a, NEW b, NEW A, NEW B,
           TwoShift(S, C, E, from, a, b, A, B)
    PROVE  Apart(E) /\ Everywhere(E) = Everywhere(C)
<1> USE DEF TwoShift
<1> DEFINE to == [s \in S |-> IF s = a THEN A ELSE IF s = b THEN B ELSE {}]
<1>1. /\ DOMAIN to = S /\ to[a] = A /\ to[b] = B
      /\ \A s \in S : s \notin {a, b} => to[s] = {}
  OBVIOUS
<1> HIDE DEF to
<1>2. \A s \in S : s = a \/ s = b \/ s \notin {a, b}
  OBVIOUS
<1>3. UNION {to[s] : s \in S} = A \cup B
  <2>1. \A x : x \in UNION {to[s] : s \in S} <=> \E s \in S : x \in to[s]
    OBVIOUS
  <2>2. \A x : x \in A \cup B <=> \E s \in S : x \in to[s]
    BY <1>1, <1>2
  <2> QED BY <2>1, <2>2
<1>4. Apart(to)
  BY <1>1, <1>2 DEF Apart
<1>5. \A s \in S : s # from => E[s] = C[s] \cup to[s]
  BY <1>1, <1>2
<1>6. Shift(C, E, from, to)
  BY <1>1, <1>3, <1>4, <1>5 DEF Shift
<1> QED BY <1>6, ShiftApart

\* A move from one place to another.
LEMMA ShiftToOne ==
    ASSUME NEW S, NEW C, NEW E, NEW from, NEW a, NEW A, OneShift(S, C, E, from, a, A)
    PROVE  Apart(E) /\ Everywhere(E) = Everywhere(C)
<1> USE DEF OneShift
<1> DEFINE to == [s \in S |-> IF s = a THEN A ELSE {}]
<1>1. /\ DOMAIN to = S /\ to[a] = A
      /\ \A s \in S : s # a => to[s] = {}
  OBVIOUS
<1> HIDE DEF to
<1>2. UNION {to[s] : s \in S} = A
  <2>1. \A x : x \in UNION {to[s] : s \in S} <=> \E s \in S : x \in to[s]
    OBVIOUS
  <2>2. \A x : x \in A <=> \E s \in S : x \in to[s]
    BY <1>1
  <2> QED BY <2>1, <2>2
<1>3. Apart(to)
  BY <1>1 DEF Apart
<1>4. \A s \in S : s # from => E[s] = C[s] \cup to[s]
  BY <1>1
<1>5. Shift(C, E, from, to)
  BY <1>1, <1>2, <1>3, <1>4 DEF Shift
<1> QED BY <1>5, ShiftApart

Once(D) ==
    /\ \A e \in D : OnceEach(down[e]) /\ OnceEach(up[e])
    /\ \A w \in Workers : NoRepeat(delayed[w]) /\ (batch[w] # None => NoRepeat(batch[w]))

Placed(D) == Apart(Layout(D)) /\ Once(D)

\* What a step of worker w leaves alone: all that belongs to other nodes.
OthersSame(D, w) ==
    /\ \A e \in D \ {w} : down'[e] = down[e] /\ up'[e] = up[e]
    /\ \A v \in Workers \ {w} :
          batch'[v] = batch[v] /\ delayed'[v] = delayed[v] /\ held'[v] = held[v]

\* The spots, and what lies there now and after a step.
LEMMA LayoutType ==
    ASSUME NEW D
    PROVE  /\ DOMAIN Layout(D) = Spots(D) /\ DOMAIN Layout(D)' = Spots(D)
           /\ \A s \in Spots(D) : Layout(D)[s] = Lies(s) /\ Layout(D)'[s] = Lies(s)'
           /\ \A e \in D : <<"down", e>> \in Spots(D) /\ <<"up", e>> \in Spots(D)
           /\ \A w \in Workers : /\ <<"batch", w>> \in Spots(D)
                                 /\ <<"delayed", w>> \in Spots(D)
                                 /\ <<"held", w>> \in Spots(D)
           /\ <<"over", None>> \in Spots(D)
           /\ \A s \in Spots(D) :
                 \/ \E e \in D : s = <<"down", e>> \/ s = <<"up", e>>
                 \/ \E w \in Workers : s = <<"batch", w>> \/ s = <<"delayed", w>>
                                       \/ s = <<"held", w>>
                 \/ s = <<"over", None>>
BY DEF Layout, Spots

\* What lies at a spot of each kind, now and after a step.
LEMMA LiesAt ==
    /\ \A e : /\ Lies(<<"down", e>>) = Sent(down[e])
              /\ Lies(<<"up", e>>) = Sent(up[e])
              /\ Lies(<<"batch", e>>) = Batched(e)
              /\ Lies(<<"delayed", e>>) = Range(delayed[e])
              /\ Lies(<<"held", e>>) = held[e]
              /\ Lies(<<"over", e>>) = finished
    /\ \A e : /\ Lies(<<"down", e>>)' = Sent(down'[e])
              /\ Lies(<<"up", e>>)' = Sent(up'[e])
              /\ Lies(<<"batch", e>>)' = IF batch'[e] = None THEN {} ELSE Range(batch'[e])
              /\ Lies(<<"delayed", e>>)' = Range(delayed'[e])
              /\ Lies(<<"held", e>>)' = held'[e]
              /\ Lies(<<"over", e>>)' = finished'
BY DEF Lies, Batched

\* The spots that a step of worker w changes are its own or "over".
Stays(w, X) ==
    /\ <<"down", w>> \notin X => Lies(<<"down", w>>)' = Lies(<<"down", w>>)
    /\ <<"up", w>> \notin X => Lies(<<"up", w>>)' = Lies(<<"up", w>>)
    /\ <<"batch", w>> \notin X => Lies(<<"batch", w>>)' = Lies(<<"batch", w>>)
    /\ <<"delayed", w>> \notin X => Lies(<<"delayed", w>>)' = Lies(<<"delayed", w>>)
    /\ <<"held", w>> \notin X => Lies(<<"held", w>>)' = Lies(<<"held", w>>)
    /\ <<"over", None>> \notin X => finished' = finished

\* A step of a worker leaves all spots alone but its own.
LEMMA LocalChange ==
    ASSUME NEW D, NEW w \in Workers \cap D, OthersSame(D, w), NEW X, Stays(w, X)
    PROVE  \A s \in Spots(D) \ X : Layout(D)'[s] = Layout(D)[s]
<1> USE DEF Stays
<1> SUFFICES ASSUME NEW s \in Spots(D), s \notin X PROVE Lies(s)' = Lies(s)
  BY LayoutType
<1>1. ASSUME NEW e \in D, s = <<"down", e>> PROVE Lies(s)' = Lies(s)
  <2>1. CASE e = w
    BY <1>1, <2>1
  <2>2. CASE e # w
    <3>1. down'[e] = down[e]
      BY <2>2 DEF OthersSame
    <3> QED BY <1>1, <3>1 DEF Lies
  <2> QED BY <2>1, <2>2
<1>2. ASSUME NEW e \in D, s = <<"up", e>> PROVE Lies(s)' = Lies(s)
  <2>1. CASE e = w
    BY <1>2, <2>1
  <2>2. CASE e # w
    <3>1. up'[e] = up[e]
      BY <2>2 DEF OthersSame
    <3> QED BY <1>2, <3>1 DEF Lies
  <2> QED BY <2>1, <2>2
<1>3. ASSUME NEW v \in Workers, s = <<"batch", v>> PROVE Lies(s)' = Lies(s)
  <2>1. CASE v = w
    BY <1>3, <2>1
  <2>2. CASE v # w
    <3>1. batch'[v] = batch[v]
      BY <2>2 DEF OthersSame
    <3> QED BY <1>3, <3>1 DEF Lies, Batched
  <2> QED BY <2>1, <2>2
<1>4. ASSUME NEW v \in Workers, s = <<"delayed", v>> PROVE Lies(s)' = Lies(s)
  <2>1. CASE v = w
    BY <1>4, <2>1
  <2>2. CASE v # w
    <3>1. delayed'[v] = delayed[v]
      BY <2>2 DEF OthersSame
    <3> QED BY <1>4, <3>1 DEF Lies
  <2> QED BY <2>1, <2>2
<1>5. ASSUME NEW v \in Workers, s = <<"held", v>> PROVE Lies(s)' = Lies(s)
  <2>1. CASE v = w
    BY <1>5, <2>1
  <2>2. CASE v # w
    <3>1. held'[v] = held[v]
      BY <2>2 DEF OthersSame
    <3> QED BY <1>5, <3>1 DEF Lies
  <2> QED BY <2>1, <2>2
<1>6. CASE s = <<"over", None>>
  <2>1. finished' = finished
    BY <1>6
  <2> QED BY <1>6, <2>1 DEF Lies
<1> QED BY <1>1, <1>2, <1>3, <1>4, <1>5, <1>6, LayoutType

\* Reading a batch moves its tasks to the work queue and the batch.
LEMMA ReadBatchPlaced ==
    ASSUME NEW D, CrewType(D), Placed(D), NEW w \in Workers \cap D, ReadBatch(w)
    PROVE  Placed(D)' /\ Everywhere(Layout(D))' = Everywhere(Layout(D))
<1> DEFINE ts == Head(down[w]).tasks
           A == {Last(ts)}
           B == Range(Front(ts))
           C == Layout(D)
           E == Layout(D)'
<1>1. /\ ts \in Seq(Tasks) /\ ts # <<>> /\ SentBy(Head(down[w])) = Range(ts)
      /\ Head(down[w]).type = "SUBMIT_BATCH" /\ down[w] # <<>>
      /\ down' = [down EXCEPT ![w] = Tail(down[w])]
      /\ held' = [held EXCEPT ![w] = held[w] \cup {Last(ts)}]
      /\ batch[w] = None /\ batch' = [batch EXCEPT ![w] = Front(ts)]
      /\ UNCHANGED <<up, delayed, finished>>
  BY ReadBatchEffect DEF tree
<1>2. down[w] \in Seq(Messages) /\ OnceEach(down[w])
  BY DEF CrewType, Placed, Once
<1>3. /\ Sent(down[w]) = Range(ts) \cup Sent(Tail(down[w]))
      /\ Range(ts) \cap Sent(Tail(down[w])) = {} /\ NoRepeat(ts)
      /\ OnceEach(Tail(down[w]))
  BY <1>1, <1>2, SentTail
<1> HIDE DEF ts
<1>4. /\ Range(ts) = A \cup B /\ A \cap B = {} /\ NoRepeat(Front(ts))
      /\ Front(ts) \in Seq(Tasks)
  BY <1>1, <1>3, LastAndFront
<1>5. /\ down'[w] = Tail(down[w]) /\ held'[w] = held[w] \cup A /\ batch'[w] = Front(ts)
      /\ OthersSame(D, w)
  BY <1>1 DEF CrewType, OthersSame
<1>6. Front(ts) # None
  BY <1>4, NoneAssumption
<1> HIDE DEF A, B
<1>7. /\ Lies(<<"down", w>>)' = Lies(<<"down", w>>) \ (A \cup B)
      /\ Lies(<<"held", w>>)' = Lies(<<"held", w>>) \cup A
      /\ Lies(<<"batch", w>>)' = Lies(<<"batch", w>>) \cup B
      /\ Lies(<<"up", w>>)' = Lies(<<"up", w>>)
      /\ Lies(<<"delayed", w>>)' = Lies(<<"delayed", w>>)
      /\ A \cup B \subseteq Lies(<<"down", w>>)
  BY <1>1, <1>3, <1>4, <1>5, <1>6, LiesAt DEF Batched, B
<1> DEFINE X == {<<"down", w>>, <<"held", w>>, <<"batch", w>>}
<1>8. \A s \in Spots(D) \ X : E[s] = C[s]
  <2>1. Stays(w, X)
    BY <1>1, <1>7 DEF Stays
  <2> HIDE DEF X
  <2> QED BY <1>5, <2>1, LocalChange
<1>9. Apart(E) /\ Everywhere(E) = Everywhere(C)
  <2> DEFINE d == <<"down", w>>  h == <<"held", w>>  b == <<"batch", w>>
  <2>1. DOMAIN C = Spots(D) /\ DOMAIN E = Spots(D)
    BY LayoutType
  <2>2. Apart(C)
    BY DEF Placed
  <2>3. d \in Spots(D) /\ h \in Spots(D) /\ b \in Spots(D)
    BY LayoutType
  <2>4. E[d] = C[d] \ (A \cup B) /\ E[h] = C[h] \cup A /\ E[b] = C[b] \cup B
        /\ A \cup B \subseteq C[d]
    BY <1>7, <2>3, LayoutType
  <2>5. d # h /\ d # b /\ h # b
    OBVIOUS
  <2>6. \A s \in Spots(D) \ {d, h, b} : E[s] = C[s]
    BY <1>8
  <2> HIDE DEF C, E, d, h, b
  <2>7. TwoShift(Spots(D), C, E, d, h, b, A, B)
    BY <1>4, <2>1, <2>2, <2>3, <2>4, <2>5, <2>6 DEF TwoShift
  <2> QED BY <2>7, ShiftToTwo, Zenon
<1>10. Once(D)'
  BY <1>1, <1>3, <1>4, <1>5 DEF Placed, Once, OthersSame
<1> QED BY <1>9, <1>10 DEF Placed, Everywhere

\* What is on its way up after a worker has spoken.
LEMMA SpokeSent ==
    ASSUME NEW D, CrewType(D), NEW w \in Workers \cap D, NEW G, NEW k,
           \E msgs \in Seq(Messages) : Spoke(w, msgs, G, k)
    PROVE  /\ Sent(up'[w]) = Sent(up[w]) \cup G
           /\ OnceEach(up[w]) /\ Sent(up[w]) \cap G = {} => OnceEach(up'[w])
           /\ OwedIn(up'[w]) = OwedIn(up[w]) + k
           /\ \A e \in D \ {w} : up'[e] = up[e]
<1>1. PICK msgs \in Seq(Messages) : Spoke(w, msgs, G, k)
  OBVIOUS
<1>2. /\ up' = [up EXCEPT ![w] = up[w] \o msgs]
      /\ Sent(msgs) = G /\ OnceEach(msgs) /\ OwedIn(msgs) = k
  BY <1>1 DEF Spoke
<1>3. up'[w] = up[w] \o msgs /\ \A e \in D \ {w} : up'[e] = up[e]
  BY <1>2 DEF CrewType
<1>4. up[w] \in Seq(Messages)
  BY DEF CrewType
<1>5. OwedIn(up'[w]) = OwedIn(up[w]) + k
  BY <1>2, <1>3, <1>4, OwedConcat
<1>6. /\ Sent(up'[w]) = Sent(up[w]) \cup G
      /\ OnceEach(up[w]) /\ Sent(up[w]) \cap G = {} => OnceEach(up'[w])
  <2>1. /\ Sent(up[w] \o msgs) = Sent(up[w]) \cup Sent(msgs)
        /\ OnceEach(up[w]) /\ OnceEach(msgs) /\ Sent(up[w]) \cap Sent(msgs) = {}
             => OnceEach(up[w] \o msgs)
    BY <1>4, SentConcat
  <2> QED BY <1>2, <1>3, <2>1
<1> QED BY <1>3, <1>5, <1>6

\* A spot of worker w as it was before a step that changes nothing there.
LEMMA QuietUp ==
    ASSUME NEW D, CrewType(D), Placed(D), NEW w \in Workers \cap D, NEW k,
           \E msgs \in Seq(Messages) : Spoke(w, msgs, {}, k)
    PROVE  /\ Lies(<<"up", w>>)' = Lies(<<"up", w>>) /\ OnceEach(up'[w])
           /\ \A e \in D \ {w} : up'[e] = up[e]
<1>1. OnceEach(up[w]) /\ Sent(up[w]) \cap {} = {} /\ Sent(up[w]) \cup {} = Sent(up[w])
  BY DEF Placed, Once
<1>2. /\ Sent(up'[w]) = Sent(up[w]) \cup {} /\ \A e \in D \ {w} : up'[e] = up[e]
      /\ OnceEach(up[w]) /\ Sent(up[w]) \cap {} = {} => OnceEach(up'[w])
  BY SpokeSent, Zenon
<1> QED BY <1>1, <1>2, LiesAt

\* The rest of a batch moves to the delayed tasks.
LEMMA DelayRestPlaced ==
    ASSUME NEW D, CrewType(D), Placed(D), NEW w \in Workers \cap D, DelayRest(w)
    PROVE  Placed(D)' /\ Everywhere(Layout(D))' = Everywhere(Layout(D))
<1> DEFINE A == Range(batch[w])
           C == Layout(D)
           E == Layout(D)'
           b == <<"batch", w>>
           d == <<"delayed", w>>
<1>1. /\ batch[w] # None /\ batch[w] \in Seq(Tasks)
      /\ batch' = [batch EXCEPT ![w] = None]
      /\ delayed' = [delayed EXCEPT ![w] = delayed[w] \o batch[w]]
      /\ \E msgs \in Seq(Messages) : Spoke(w, msgs, {}, 0)
      /\ UNCHANGED <<down, held, finished>>
  BY DelayRestEffect DEF tree
<1>2. /\ Lies(<<"up", w>>)' = Lies(<<"up", w>>) /\ OnceEach(up'[w])
      /\ \A e \in D \ {w} : up'[e] = up[e]
  BY <1>1, QuietUp
<1>3. /\ batch'[w] = None /\ delayed'[w] = delayed[w] \o batch[w]
      /\ delayed[w] \in Seq(Tasks) /\ OthersSame(D, w)
  BY <1>1, <1>2 DEF CrewType, OthersSame
<1>4. /\ d \in Spots(D) /\ b \in Spots(D) /\ b # d
      /\ DOMAIN C = Spots(D) /\ DOMAIN E = Spots(D) /\ Apart(C)
  BY LayoutType DEF Placed
<1>5. C[b] = A /\ C[d] = Range(delayed[w])
  BY <1>1, <1>4, LiesAt, LayoutType DEF Batched
<1>6. A \cap Range(delayed[w]) = {}
  BY <1>4, <1>5 DEF Apart
<1>7. /\ Range(delayed'[w]) = Range(delayed[w]) \cup A
      /\ NoRepeat(delayed'[w])
  <2>1. NoRepeat(delayed[w]) /\ NoRepeat(batch[w])
    BY <1>1 DEF Placed, Once
  <2>2. /\ Range(delayed[w] \o batch[w]) = Range(delayed[w]) \cup Range(batch[w])
        /\ NoRepeat(delayed[w]) /\ NoRepeat(batch[w])
             /\ Range(delayed[w]) \cap Range(batch[w]) = {}
             => NoRepeat(delayed[w] \o batch[w])
    BY <1>1, <1>3, RangeConcat
  <2> QED BY <1>3, <1>6, <2>1, <2>2
<1>8. E[b] = {} /\ E[d] = C[d] \cup A
  <2>1. Lies(b)' = {} /\ Lies(d)' = Range(delayed'[w])
    BY <1>3, LiesAt
  <2>2. E[b] = Lies(b)' /\ E[d] = Lies(d)'
    BY <1>4, LayoutType
  <2> QED BY <1>5, <1>7, <2>1, <2>2
<1>9. \A s \in Spots(D) \ {b, d} : E[s] = C[s]
  <2>1. /\ Lies(<<"down", w>>)' = Lies(<<"down", w>>)
        /\ Lies(<<"held", w>>)' = Lies(<<"held", w>>)
    BY <1>1, LiesAt
  <2>2. Stays(w, {b, d})
    BY <1>1, <1>2, <2>1 DEF Stays
  <2> QED BY <1>1, <1>3, <2>2, LocalChange
<1>10. Apart(E) /\ Everywhere(E) = Everywhere(C)
  <2>1. E[b] = C[b] \ A /\ A \subseteq C[b]
    BY <1>5, <1>8
  <2> HIDE DEF A, C, E, b, d
  <2>2. OneShift(Spots(D), C, E, b, d, A)
    BY <1>4, <1>8, <1>9, <2>1 DEF OneShift
  <2> QED BY <2>2, ShiftToOne, Zenon
<1>11. Once(D)'
  BY <1>1, <1>2, <1>3, <1>7 DEF Placed, Once, OthersSame
<1> QED BY <1>10, <1>11 DEF Placed, Everywhere

\* Reclaimed tasks move to the queue to the boss.
LEMMA ReadReclaimPlaced ==
    ASSUME NEW D, CrewType(D), Placed(D), NEW w \in Workers \cap D, ReadReclaim(w)
    PROVE  Placed(D)' /\ Everywhere(Layout(D))' = Everywhere(Layout(D))
<1> DEFINE C == Layout(D)
           E == Layout(D)'
           d == <<"delayed", w>>
           u == <<"up", w>>
           q == delayed[w]
<1>1. q \in Seq(Tasks) /\ NoRepeat(q)
  BY DEF CrewType, Placed, Once
<1>2. /\ \E n \in 0..Len(q) : HandsBack(w, n)
      /\ down[w] # <<>> /\ Head(down[w]).type = "RECLAIM"
      /\ down' = [down EXCEPT ![w] = Tail(down[w])]
      /\ UNCHANGED <<held, batch, finished>>
  BY <1>1, ReadReclaimEffect DEF tree
<1>3. PICK n \in 0..Len(q) : HandsBack(w, n)
  BY <1>2
<1> DEFINE back == SubSeq(q, 1, n)
           rest == SubSeq(q, n + 1, Len(q))
           A == Range(back)
<1>4. delayed' = [delayed EXCEPT ![w] = rest]
  BY <1>3 DEF HandsBack
<1>5. \E msgs \in Seq(Messages) : Spoke(w, msgs, A, -n)
  BY <1>3 DEF HandsBack
<1>6. /\ Range(back) \cup Range(rest) = Range(q) /\ Range(back) \cap Range(rest) = {}
      /\ NoRepeat(rest)
  BY <1>1, RangeCut
<1> HIDE DEF rest, A
<1>7. /\ d \in Spots(D) /\ u \in Spots(D) /\ u # d
      /\ DOMAIN C = Spots(D) /\ DOMAIN E = Spots(D) /\ Apart(C)
  BY LayoutType DEF Placed
<1>8. C[d] = Range(q) /\ C[u] = Sent(up[w])
  BY <1>7, LiesAt, LayoutType
<1>9. A \subseteq Range(q) /\ Range(rest) = Range(q) \ A
  BY <1>6 DEF A
<1>10. Sent(up[w]) \cap A = {}
  BY <1>7, <1>8, <1>9 DEF Apart
<1>11. /\ Sent(up'[w]) = Sent(up[w]) \cup A /\ \A e \in D \ {w} : up'[e] = up[e]
       /\ OnceEach(up'[w])
  <2>1. OnceEach(up[w])
    BY DEF Placed, Once
  <2>2. /\ Sent(up'[w]) = Sent(up[w]) \cup A /\ \A e \in D \ {w} : up'[e] = up[e]
        /\ OnceEach(up[w]) /\ Sent(up[w]) \cap A = {} => OnceEach(up'[w])
    BY <1>5, SpokeSent, Zenon
  <2> QED BY <1>10, <2>1, <2>2
<1>12. delayed'[w] = rest /\ OthersSame(D, w) /\ down'[w] = Tail(down[w])
  BY <1>2, <1>4, <1>11 DEF CrewType, OthersSame
<1>13. E[d] = C[d] \ A /\ E[u] = C[u] \cup A
  BY <1>7, <1>8, <1>9, <1>11, <1>12, LiesAt, LayoutType
<1>14. OnceEach(Tail(down[w])) /\ Sent(Tail(down[w])) = Sent(down[w])
  <2>1. SentBy(Head(down[w])) = {}
    BY <1>2 DEF SentBy
  <2>2. down[w] \in Seq(Messages) /\ OnceEach(down[w])
    BY DEF CrewType, Placed, Once
  <2>3. /\ Sent(down[w]) = SentBy(Head(down[w])) \cup Sent(Tail(down[w]))
        /\ OnceEach(Tail(down[w]))
    BY <1>2, <2>2, SentTail
  <2> QED BY <2>1, <2>3
<1>15. \A s \in Spots(D) \ {d, u} : E[s] = C[s]
  <2>1. /\ Lies(<<"down", w>>)' = Lies(<<"down", w>>)
        /\ Lies(<<"held", w>>)' = Lies(<<"held", w>>)
        /\ Lies(<<"batch", w>>)' = Lies(<<"batch", w>>)
    <3>1. /\ Sent(down'[w]) = Sent(down[w]) /\ held'[w] = held[w]
          /\ Batched(w)' = Batched(w)
      BY <1>2, <1>12, <1>14 DEF Batched
    <3>2. Lies(<<"batch", w>>)' = Batched(w)' /\ Lies(<<"batch", w>>) = Batched(w)
      BY DEF Lies
    <3> QED BY <3>1, <3>2, LiesAt
  <2>2. Stays(w, {d, u})
    BY <1>2, <2>1 DEF Stays
  <2> QED BY <1>12, <2>2, LocalChange
<1>16. Apart(E) /\ Everywhere(E) = Everywhere(C)
  <2>1. A \subseteq C[d]
    BY <1>8, <1>9
  <2> HIDE DEF C, E, u, d
  <2>2. OneShift(Spots(D), C, E, d, u, A)
    BY <1>7, <1>13, <1>15, <2>1 DEF OneShift
  <2> QED BY <2>2, ShiftToOne, Zenon
<1>17. Once(D)'
  BY <1>2, <1>6, <1>11, <1>12, <1>14 DEF Placed, Once, OthersSame
<1> QED BY <1>16, <1>17 DEF Placed, Everywhere

\* A promoted task moves from the delayed to the held ones.
LEMMA PromotePlaced ==
    ASSUME NEW D, CrewType(D), Placed(D), NEW w \in Workers \cap D, Promote(w)
    PROVE  Placed(D)' /\ Everywhere(Layout(D))' = Everywhere(Layout(D))
<1> DEFINE C == Layout(D)
           E == Layout(D)'
           d == <<"delayed", w>>
           h == <<"held", w>>
           q == delayed[w]
           A == {Last(q)}
<1>1. /\ q \in Seq(Tasks) /\ q # <<>>
      /\ held' = [held EXCEPT ![w] = held[w] \cup A]
      /\ delayed' = [delayed EXCEPT ![w] = Front(q)]
      /\ \E msgs \in Seq(Messages) : Spoke(w, msgs, {}, 0)
      /\ UNCHANGED <<down, batch, finished>>
  BY PromoteEffect DEF tree
<1>2. NoRepeat(q)
  BY DEF Placed, Once
<1>3. /\ Range(q) = Range(Front(q)) \cup A /\ A \cap Range(Front(q)) = {}
      /\ NoRepeat(Front(q))
  <2>1. /\ Range(q) = Range(Front(q)) \cup {Last(q)}
        /\ NoRepeat(q) => NoRepeat(Front(q)) /\ Last(q) \notin Range(Front(q))
    BY <1>1, LastAndFront
  <2> QED BY <1>2, <2>1
<1>4. /\ Lies(<<"up", w>>)' = Lies(<<"up", w>>) /\ OnceEach(up'[w])
      /\ \A e \in D \ {w} : up'[e] = up[e]
  BY <1>1, QuietUp
<1>5. delayed'[w] = Front(q) /\ held'[w] = held[w] \cup A /\ OthersSame(D, w)
  BY <1>1, <1>4 DEF CrewType, OthersSame
<1>6. /\ d \in Spots(D) /\ h \in Spots(D) /\ h # d
      /\ DOMAIN C = Spots(D) /\ DOMAIN E = Spots(D) /\ Apart(C)
  BY LayoutType DEF Placed
<1>7. C[d] = Range(q) /\ C[h] = held[w]
  BY <1>6, LiesAt, LayoutType
<1>8. E[d] = Range(Front(q)) /\ E[h] = held[w] \cup A
  <2>1. Lies(d)' = Range(delayed'[w]) /\ Lies(h)' = held'[w]
    BY LiesAt
  <2>2. E[d] = Lies(d)' /\ E[h] = Lies(h)'
    BY <1>6, LayoutType
  <2> QED BY <1>5, <2>1, <2>2
<1>9. \A s \in Spots(D) \ {d, h} : E[s] = C[s]
  <2>1. /\ Lies(<<"down", w>>)' = Lies(<<"down", w>>)
        /\ Lies(<<"batch", w>>)' = Lies(<<"batch", w>>)
    <3>1. Sent(down'[w]) = Sent(down[w]) /\ Batched(w)' = Batched(w)
      BY <1>1 DEF Batched
    <3>2. Lies(<<"batch", w>>)' = Batched(w)' /\ Lies(<<"batch", w>>) = Batched(w)
      BY DEF Lies
    <3> QED BY <3>1, <3>2, LiesAt
  <2>2. Stays(w, {d, h})
    BY <1>1, <1>4, <2>1 DEF Stays
  <2> QED BY <1>5, <2>2, LocalChange
<1>10. Apart(E) /\ Everywhere(E) = Everywhere(C)
  <2>1. E[d] = C[d] \ A /\ A \subseteq C[d] /\ E[h] = C[h] \cup A
    BY <1>3, <1>7, <1>8
  <2> HIDE DEF A, C, E, d, h
  <2>2. OneShift(Spots(D), C, E, d, h, A)
    BY <1>6, <1>9, <2>1 DEF OneShift
  <2> QED BY <2>2, ShiftToOne, Zenon
<1>11. Once(D)'
  BY <1>1, <1>3, <1>4, <1>5 DEF Placed, Once, OthersSame
<1> QED BY <1>10, <1>11 DEF Placed, Everywhere

\* A task that ends moves from the held tasks to the finished ones.
LEMMA RunToEndPlaced ==
    ASSUME NEW D, CrewType(D), Placed(D), NEW w \in Workers \cap D, NEW t \in Tasks,
           RunToEnd(w, t), home[t] = w => Parent(t) \in Tasks, t \in held[w]
    PROVE  Placed(D)' /\ Everywhere(Layout(D))' = Everywhere(Layout(D))
<1> DEFINE C == Layout(D)
           E == Layout(D)'
           h == <<"held", w>>
           o == <<"over", None>>
           A == {t}
<1>1. /\ held' = [held EXCEPT ![w] = held[w] \ A] /\ finished' = finished \cup A
      /\ \E msgs \in Seq(Messages) : Spoke(w, msgs, {}, -1)
      /\ UNCHANGED <<down, delayed, batch>>
  BY RunToEndEffect
<1>2. /\ Lies(<<"up", w>>)' = Lies(<<"up", w>>) /\ OnceEach(up'[w])
      /\ \A e \in D \ {w} : up'[e] = up[e]
  BY <1>1, QuietUp
<1>3. held'[w] = held[w] \ A /\ OthersSame(D, w)
  BY <1>1, <1>2 DEF CrewType, OthersSame
<1>4. /\ h \in Spots(D) /\ o \in Spots(D) /\ h # o
      /\ DOMAIN C = Spots(D) /\ DOMAIN E = Spots(D) /\ Apart(C)
  BY LayoutType DEF Placed
<1>5. C[h] = held[w] /\ C[o] = finished
  BY <1>4, LiesAt, LayoutType
<1>6. E[h] = held[w] \ A /\ E[o] = finished \cup A
  <2>1. Lies(h)' = held'[w] /\ Lies(o)' = finished'
    BY LiesAt
  <2>2. E[h] = Lies(h)' /\ E[o] = Lies(o)'
    BY <1>4, LayoutType
  <2> QED BY <1>1, <1>3, <2>1, <2>2
<1>7. \A s \in Spots(D) \ {h, o} : E[s] = C[s]
  <2>1. /\ Lies(<<"down", w>>)' = Lies(<<"down", w>>)
        /\ Lies(<<"batch", w>>)' = Lies(<<"batch", w>>)
        /\ Lies(<<"delayed", w>>)' = Lies(<<"delayed", w>>)
    <3>1. down'[w] = down[w] /\ batch'[w] = batch[w] /\ delayed'[w] = delayed[w]
      BY <1>1
    <3> QED BY <3>1, LiesAt DEF Batched
  <2>2. Stays(w, {h, o})
    BY <1>1, <1>2, <2>1 DEF Stays
  <2> QED BY <1>3, <2>2, LocalChange
<1>8. Apart(E) /\ Everywhere(E) = Everywhere(C)
  <2>1. E[h] = C[h] \ A /\ A \subseteq C[h] /\ E[o] = C[o] \cup A
    BY <1>5, <1>6
  <2> HIDE DEF A, C, E, h, o
  <2>2. OneShift(Spots(D), C, E, h, o, A)
    BY <1>4, <1>7, <2>1 DEF OneShift
  <2> QED BY <2>2, ShiftToOne, Zenon
<1>9. Once(D)'
  BY <1>1, <1>2, <1>3 DEF Placed, Once, OthersSame
<1> QED BY <1>8, <1>9 DEF Placed, Everywhere

\* A task that maps over its children puts them on their way up.
LEMMA RunToMapPlaced ==
    ASSUME NEW D, CrewType(D), Placed(D), NEW w \in Workers \cap D, NEW t \in Tasks,
           RunToMap(w, t), Range(Children[t]) \cap Everywhere(Layout(D)) = {}
    PROVE  /\ Placed(D)'
           /\ Everywhere(Layout(D))' = Everywhere(Layout(D)) \cup Range(Children[t])
<1> DEFINE C == Layout(D)
           E == Layout(D)'
           u == <<"up", w>>
           A == Range(Children[t])
           S == Spots(D)
<1>1. /\ \E msgs \in Seq(Messages) : Spoke(w, msgs, A, 0)
      /\ UNCHANGED <<down, delayed, batch, held, finished>>
  BY RunToMapEffect
<1> HIDE DEF A
<1>2. /\ u \in S /\ DOMAIN C = S /\ DOMAIN E = S /\ Apart(C)
  BY LayoutType DEF Placed
<1>3. C[u] = Sent(up[w])
  BY <1>2, LiesAt, LayoutType
<1>4. A \cap Sent(up[w]) = {} /\ A \cap Everywhere(C) = {}
  <2>1. Sent(up[w]) \subseteq Everywhere(C)
    BY <1>2, <1>3 DEF Everywhere
  <2> QED BY <2>1 DEF A
<1>5. /\ Sent(up'[w]) = Sent(up[w]) \cup A /\ OnceEach(up'[w])
      /\ \A e \in D \ {w} : up'[e] = up[e]
  <2>1. OnceEach(up[w])
    BY DEF Placed, Once
  <2>2. /\ Sent(up'[w]) = Sent(up[w]) \cup A /\ \A e \in D \ {w} : up'[e] = up[e]
        /\ OnceEach(up[w]) /\ Sent(up[w]) \cap A = {} => OnceEach(up'[w])
    BY <1>1, SpokeSent, Zenon
  <2> QED BY <1>4, <2>1, <2>2
<1>6. OthersSame(D, w)
  BY <1>1, <1>5 DEF OthersSame
<1>7. \A s \in S \ {u} : E[s] = C[s]
  <2>1. /\ Lies(<<"down", w>>)' = Lies(<<"down", w>>)
        /\ Lies(<<"batch", w>>)' = Lies(<<"batch", w>>)
        /\ Lies(<<"delayed", w>>)' = Lies(<<"delayed", w>>)
        /\ Lies(<<"held", w>>)' = Lies(<<"held", w>>)
    <3>1. /\ down'[w] = down[w] /\ batch'[w] = batch[w] /\ delayed'[w] = delayed[w]
          /\ held'[w] = held[w]
      BY <1>1
    <3> QED BY <3>1, LiesAt DEF Batched
  <2>2. Stays(w, {u})
    BY <1>1, <2>1 DEF Stays
  <2> QED BY <1>6, <2>2, LocalChange
<1>8. E[u] = C[u] \cup A
  <2>1. Lies(u)' = Sent(up'[w]) /\ E[u] = Lies(u)'
    BY <1>2, LiesAt, LayoutType
  <2> QED BY <1>3, <1>5, <2>1
<1>9. Apart(E) /\ Everywhere(E) = Everywhere(C) \cup A
  <2> HIDE DEF C, E, u, S
  <2> DEFINE to == [s \in S |-> IF s = u THEN A ELSE {}]
  <2>1. DOMAIN to = S /\ to[u] = A /\ \A s \in S : s # u => to[s] = {}
    BY <1>2
  <2> HIDE DEF to
  <2>2. UNION {to[s] : s \in S} = A
    <3>1. \A x : x \in UNION {to[s] : s \in S} <=> \E s \in S : x \in to[s]
      OBVIOUS
    <3>2. \A x : x \in A <=> \E s \in S : x \in to[s]
      BY <1>2, <2>1
    <3> QED BY <3>1, <3>2
  <2>3. Apart(to)
    BY <2>1 DEF Apart
  <2>4. \A s \in S : E[s] = C[s] \cup to[s]
    BY <1>7, <1>8, <2>1
  <2>5. Spread(C, E, to)
    BY <1>2, <1>4, <2>1, <2>2, <2>3, <2>4 DEF Spread
  <2> QED BY <1>2, <2>2, <2>5, SpreadApart
<1>10. Once(D)'
  BY <1>1, <1>5, <1>6 DEF Placed, Once, OthersSame
<1> QED BY <1>9, <1>10 DEF Placed, Everywhere, A

\* The other steps move no task.
LEMMA QuietPlaced ==
    ASSUME NEW D, CrewType(D), Placed(D), NEW w \in Workers \cap D,
           \E msgs \in Seq(Messages) : Spoke(w, msgs, {}, 0),
           \/ UNCHANGED down
           \/ /\ down[w] # <<>> /\ Head(down[w]).type # "SUBMIT_BATCH"
              /\ down' = [down EXCEPT ![w] = Tail(down[w])],
           UNCHANGED <<delayed, held, batch, finished>>
    PROVE  Placed(D)' /\ Everywhere(Layout(D))' = Everywhere(Layout(D))
<1>1. down[w] \in Seq(Messages) /\ OnceEach(down[w])
  BY DEF CrewType, Placed, Once
<1>2. Sent(down'[w]) = Sent(down[w]) /\ OnceEach(down'[w])
      /\ \A e \in D \ {w} : down'[e] = down[e]
  <2>1. CASE UNCHANGED down
    BY <1>1, <2>1
  <2>2. CASE /\ down[w] # <<>> /\ Head(down[w]).type # "SUBMIT_BATCH"
             /\ down' = [down EXCEPT ![w] = Tail(down[w])]
    <3>1. SentBy(Head(down[w])) = {}
      BY <2>2 DEF SentBy
    <3>2. /\ Sent(down[w]) = SentBy(Head(down[w])) \cup Sent(Tail(down[w]))
          /\ OnceEach(Tail(down[w]))
      BY <1>1, <2>2, SentTail
    <3>3. down'[w] = Tail(down[w]) /\ \A e \in D \ {w} : down'[e] = down[e]
      BY <2>2 DEF CrewType
    <3> QED BY <3>1, <3>2, <3>3
  <2> QED BY <2>1, <2>2
<1>3. /\ Lies(<<"up", w>>)' = Lies(<<"up", w>>) /\ OnceEach(up'[w])
      /\ \A e \in D \ {w} : up'[e] = up[e]
  BY QuietUp
<1>4. OthersSame(D, w)
  BY <1>2, <1>3 DEF OthersSame
<1>5. \A s \in Spots(D) \ {} : Layout(D)'[s] = Layout(D)[s]
  <2>1. /\ Lies(<<"down", w>>)' = Lies(<<"down", w>>)
        /\ Lies(<<"batch", w>>)' = Lies(<<"batch", w>>)
        /\ Lies(<<"delayed", w>>)' = Lies(<<"delayed", w>>)
        /\ Lies(<<"held", w>>)' = Lies(<<"held", w>>)
    <3>1. /\ Sent(down'[w]) = Sent(down[w]) /\ batch'[w] = batch[w]
          /\ delayed'[w] = delayed[w] /\ held'[w] = held[w]
      BY <1>2
    <3>2. Batched(w)' = Batched(w)
      BY <3>1 DEF Batched
    <3>3. Lies(<<"batch", w>>)' = Batched(w)' /\ Lies(<<"batch", w>>) = Batched(w)
      BY DEF Lies
    <3> QED BY <3>1, <3>2, <3>3, LiesAt
  <2>2. Stays(w, {})
    BY <1>2, <1>3, <2>1 DEF Stays
  <2> QED BY <1>4, <2>2, LocalChange
<1>6. Apart(Layout(D)') /\ Everywhere(Layout(D)') = Everywhere(Layout(D))
  BY <1>5, LayoutType DEF Placed, Apart, Everywhere
<1>7. Once(D)'
  BY <1>2, <1>3 DEF Placed, Once
<1> QED BY <1>6, <1>7 DEF Placed, Apart, Everywhere

----------------------------------------------------------------------------
(* What tasks await, and what is known of it.                              *)

Kids(p) == Range(Children[p])

\* A task that has not mapped has no children yet; one that awaits children is
\* held by the worker their results go to.
Tree(D) ==
    /\ mapped \subseteq Everywhere(Layout(D))
    /\ \A p \in Tasks \ mapped :
          missing[p] = {} /\ Kids(p) \cap Everywhere(Layout(D)) = {}
    /\ \A p \in mapped :
          /\ missing[p] \subseteq Kids(p) /\ Kids(p) \ missing[p] \subseteq finished
          /\ missing[p] # {} => \A c \in Kids(p) : p \in held[home[c]]

\* The children of a task have a home once it has mapped.
Homes ==
    /\ \A p \in Tasks : \A c \in Kids(p) : home[c] # None <=> p \in mapped
    /\ \A r \in Roots : home[r] = None

\* A ready task is held, and awaits nothing.
Readies ==
    \A w \in Workers :
       /\ NoRepeat(ready[w]) /\ Range(ready[w]) \subseteq held[w]
       /\ \A t \in Range(ready[w]) : t \in mapped => missing[t] = {}

\* A result that travels is that of a task that is over, and has a home on its
\* way down.
Results(D) ==
    \A e \in D :
       /\ \A m \in Range(up[e]) : m.type = "RESULT" => m.task \in finished
       /\ \A m \in Range(down[e]) :
             m.type = "RESULT" => m.task \in finished /\ home[m.task] # None

CrewInv(D) ==
    CrewType(D) /\ Placed(D) /\ Tree(D) /\ Homes /\ Readies /\ Results(D)

\* Children are tasks with one parent, and no roots.
LEMMA KidsType ==
    /\ \A p \in Tasks : Kids(p) \subseteq Tasks
    /\ \A p, t \in Tasks : p # t => Kids(p) \cap Kids(t) = {}
    /\ \A p \in Tasks : \A c \in Kids(p) : Parent(c) = p /\ c \notin Roots
    /\ \A c \in Tasks \ Roots : Parent(c) \in Tasks /\ c \in Kids(Parent(c))
BY Forest DEF Kids

\* A task that awaits another is held.
LEMMA AwaitsHeld ==
    ASSUME NEW D, CrewType(D), Tree(D), Homes, NEW p \in mapped, missing[p] # {}
    PROVE  \E v \in Workers : p \in held[v]
<1>1. missing[p] \subseteq Kids(p) /\ \A c \in Kids(p) : p \in held[home[c]]
  BY DEF Tree
<1>2. PICK c \in Kids(p) : TRUE
  BY <1>1
<1>3. p \in Tasks /\ c \in Tasks /\ home[c] # None /\ home[c] \in Workers \cup {None}
  BY KidsType DEF CrewType, Homes
<1> QED BY <1>1, <1>3

\* What lies in another spot is not held.
LEMMA NotHeld ==
    ASSUME NEW D, Placed(D), NEW s \in Spots(D), \A v \in Workers : s # <<"held", v>>,
           NEW t \in Lies(s)
    PROVE  \A v \in Workers : t \notin held[v]
<1> SUFFICES ASSUME NEW v \in Workers, t \in held[v] PROVE FALSE
  OBVIOUS
<1>1. /\ <<"held", v>> \in Spots(D) /\ s # <<"held", v>>
      /\ Layout(D)[s] = Lies(s) /\ Layout(D)[<<"held", v>>] = held[v]
      /\ DOMAIN Layout(D) = Spots(D)
  BY LayoutType, LiesAt
<1>2. Layout(D)[s] \cap Layout(D)[<<"held", v>>] = {}
  BY <1>1 DEF Placed, Apart
<1> QED BY <1>1, <1>2

\* A task that awaits something is in no spot but that of the worker that holds it.
LEMMA AwaitsNothing ==
    ASSUME NEW D, CrewType(D), Placed(D), Tree(D), Homes,
           NEW s \in Spots(D), \A v \in Workers : s # <<"held", v>>,
           NEW t \in Lies(s), t \in mapped
    PROVE  missing[t] = {}
BY AwaitsHeld, NotHeld

\* Results under way are still of finished tasks with a home.
LEMMA ResultsKept ==
    ASSUME NEW D, CrewType(D), Results(D), NEW w \in Workers \cap D, NEW G, NEW k,
           \E msgs \in Seq(Messages) : Spoke(w, msgs, G, k),
           \/ UNCHANGED down
           \/ down[w] # <<>> /\ down' = [down EXCEPT ![w] = Tail(down[w])],
           finished \subseteq finished',
           \A t \in Tasks : home[t] # None => home'[t] # None
    PROVE  Results(D)'
<1>1. PICK msgs \in Seq(Messages) : Spoke(w, msgs, G, k)
  OBVIOUS
<1>2. /\ up[w] \in Seq(Messages) /\ up' = [up EXCEPT ![w] = up[w] \o msgs]
      /\ \A m \in Range(msgs) : m.type = "RESULT" => m.task \in finished'
  <2>1. up[w] \in Seq(Messages)
    BY DEF CrewType
  <2>2. /\ up' = [up EXCEPT ![w] = up[w] \o msgs]
        /\ \A i \in DOMAIN msgs : msgs[i].type = "RESULT" => msgs[i].task \in finished'
    BY <1>1 DEF Spoke
  <2>3. \A m \in Range(msgs) : \E i \in DOMAIN msgs : m = msgs[i]
    BY DEF Range
  <2> QED BY <2>1, <2>2, <2>3
<1>3. Range(up[w] \o msgs) = Range(up[w]) \cup Range(msgs)
  BY <1>2, RangeConcat
<1>4. ASSUME NEW e \in D, NEW m \in Range(up'[e]), m.type = "RESULT"
      PROVE  m.task \in finished'
  <2>1. m \in Range(up[e]) \/ m \in Range(msgs)
    <3>1. CASE e = w
      <4>1. up'[w] = up[w] \o msgs
        BY <1>2 DEF CrewType
      <4> QED BY <1>3, <1>4, <3>1, <4>1
    <3>2. CASE e # w
      <4>1. up'[e] = up[e]
        BY <1>2, <3>2 DEF CrewType
      <4> QED BY <1>4, <4>1
    <3> QED BY <3>1, <3>2
  <2> QED BY <1>2, <1>4, <2>1 DEF Results
<1>5. ASSUME NEW e \in D PROVE Range(down'[e]) \subseteq Range(down[e])
  <2>1. CASE UNCHANGED down
    BY <2>1
  <2>2. CASE down[w] # <<>> /\ down' = [down EXCEPT ![w] = Tail(down[w])]
    <3>1. CASE e = w
      <4>1. down'[w] = Tail(down[w]) /\ down[w] \in Seq(Messages)
        BY <2>2 DEF CrewType
      <4>2. Range(down[w]) = Range(Tail(down[w])) \cup {Head(down[w])}
        BY <2>2, <4>1, RangeTail
      <4> QED BY <3>1, <4>1, <4>2
    <3>2. CASE e # w
      <4>1. down'[e] = down[e]
        BY <2>2, <3>2 DEF CrewType
      <4> QED BY <4>1
    <3> QED BY <3>1, <3>2
  <2> QED BY <2>1, <2>2
<1>6. ASSUME NEW e \in D, NEW m \in Range(down'[e]), m.type = "RESULT"
      PROVE  m.task \in finished' /\ home'[m.task] # None
  <2>1. m \in Range(down[e])
    BY <1>5
  <2>2. m \in Messages
    BY <2>1, RangeType DEF CrewType
  <2>3. m.task \in Tasks
    BY <1>6, <2>2, Fields
  <2> QED BY <1>6, <2>1, <2>3 DEF Results
<1> QED BY <1>4, <1>6 DEF Results

\* A step that only moves tasks disturbs nothing about the tree.
LEMMA TreeKept ==
    ASSUME NEW D, CrewType(D), Tree(D), Homes, UNCHANGED tree,
           Everywhere(Layout(D))' = Everywhere(Layout(D)),
           \A v \in Workers : held[v] \subseteq held'[v]
    PROVE  Tree(D)' /\ Homes'
<1>1. UNCHANGED <<home, missing, mapped, finished>>
  BY DEF tree
<1>2. Homes'
  BY <1>1 DEF Homes, Kids
<1>3. ASSUME NEW p \in mapped, NEW c \in Kids(p), p \in held[home[c]]
      PROVE  p \in held'[home[c]]
  <2>1. p \in Tasks /\ c \in Tasks /\ home[c] # None /\ home[c] \in Workers \cup {None}
    BY KidsType DEF CrewType, Homes
  <2> QED BY <1>3, <2>1
<1>4. Tree(D)'
  BY <1>1, <1>3 DEF Tree, Kids
<1> QED BY <1>2, <1>4

\* One more task is ready: one that is held now, and was not ready.
LEMMA OneMoreReady ==
    ASSUME NEW D, CrewType(D), Readies, NEW w \in Workers, NEW t \in Tasks,
           ready' = [ready EXCEPT ![w] = Append(ready[w], t)],
           t \notin Range(ready[w]), t \in held'[w],
           \A v \in Workers : held[v] \subseteq held'[v], mapped' = mapped,
           t \in mapped => missing'[t] = {},
           \A p \in Tasks : missing[p] = {} => missing'[p] = {}
    PROVE  Readies'
<1>1. ASSUME NEW v \in Workers
      PROVE  /\ NoRepeat(ready'[v]) /\ Range(ready'[v]) \subseteq held'[v]
             /\ \A p \in Range(ready'[v]) : p \in mapped => missing'[p] = {}
  <2>1. /\ NoRepeat(ready[v]) /\ Range(ready[v]) \subseteq held[v]
        /\ \A p \in Range(ready[v]) : p \in mapped => missing[p] = {}
        /\ ready[v] \in Seq(Tasks) /\ Range(ready[v]) \subseteq Tasks
    BY RangeType DEF Readies, CrewType
  <2>2. CASE v = w
    <3>1. ready'[w] = Append(ready[w], t)
      BY DEF CrewType
    <3>2. NoRepeat(Append(ready[w], t)) /\ Range(Append(ready[w], t)) = Range(ready[w]) \cup {t}
      BY <2>1, <2>2, RangeAppend, NoRepeatAppend
    <3> QED BY <2>1, <2>2, <3>1, <3>2
  <2>3. CASE v # w
    <3>1. ready'[v] = ready[v]
      BY <2>3 DEF CrewType
    <3> QED BY <2>1, <3>1
  <2> QED BY <2>2, <2>3
<1> QED BY <1>1 DEF Readies

\* A step that leaves the ready queues alone leaves them right.
LEMMA ReadiesSame ==
    ASSUME NEW D, CrewType(D), Readies, UNCHANGED ready,
           \A v \in Workers : held[v] \subseteq held'[v], mapped' = mapped,
           \A p \in Tasks : missing[p] = {} => missing'[p] = {}
    PROVE  Readies'
<1>1. \A v \in Workers : Range(ready[v]) \subseteq Tasks
  BY RangeType DEF CrewType
<1> QED BY <1>1 DEF Readies

\* CrewInv through each step of a worker: a batch is read.
LEMMA ReadBatchKeeps ==
    ASSUME NEW D, CrewInv(D), NEW w \in Workers \cap D, ReadBatch(w)
    PROVE  CrewInv(D)' /\ Everywhere(Layout(D))' = Everywhere(Layout(D))
<1> USE DEF CrewInv
<1> DEFINE ts == Head(down[w]).tasks
           t == Last(ts)
<1>1. /\ ts \in Seq(Tasks) /\ ts # <<>> /\ SentBy(Head(down[w])) = Range(ts)
      /\ down[w] # <<>> /\ down' = [down EXCEPT ![w] = Tail(down[w])]
      /\ held' = [held EXCEPT ![w] = held[w] \cup {t}]
      /\ ready' = [ready EXCEPT ![w] = Append(ready[w], t)]
      /\ UNCHANGED <<up, tree>> /\ CrewType(D)'
  BY ReadBatchEffect
<1>2. Placed(D)' /\ Everywhere(Layout(D))' = Everywhere(Layout(D))
  BY ReadBatchPlaced
<1>3. t \in Range(ts) /\ t \in Tasks
  BY <1>1, LastAndFront
<1> HIDE DEF t, ts
<1>4. t \in Lies(<<"down", w>>) /\ <<"down", w>> \in Spots(D)
  <2>1. down[w] \in Seq(Messages)
    BY DEF CrewType
  <2>2. Range(ts) \subseteq Sent(down[w])
    BY <1>1, <2>1, SentTail
  <2> QED BY <1>3, <2>2, LiesAt, LayoutType, ZenonT(30)
<1>5. t \in mapped => missing[t] = {}
  BY <1>4, AwaitsNothing
<1>6. t \notin held[w]
  BY <1>4, NotHeld
<1>7. /\ \A v \in Workers : held[v] \subseteq held'[v]
      /\ t \in held'[w] /\ t \notin Range(ready[w])
  BY <1>1, <1>6 DEF CrewType, Readies
<1>8. mapped' = mapped /\ missing' = missing /\ finished' = finished /\ home' = home
  BY <1>1 DEF tree
<1>9. Readies'
  BY <1>1, <1>3, <1>5, <1>7, <1>8, OneMoreReady
<1>10. Tree(D)' /\ Homes'
  BY <1>1, <1>2, <1>7, TreeKept
<1>11. Results(D)'
  <2>1. \E msgs \in Seq(Messages) : Spoke(w, msgs, {}, 0)
    BY <1>1, Silent
  <2> QED BY <1>1, <1>8, <2>1, ResultsKept
<1> QED BY <1>1, <1>2, <1>9, <1>10, <1>11

\* CrewInv: the rest of the batch is delayed.
LEMMA DelayRestKeeps ==
    ASSUME NEW D, CrewInv(D), NEW w \in Workers \cap D, DelayRest(w)
    PROVE  CrewInv(D)' /\ Everywhere(Layout(D))' = Everywhere(Layout(D))
<1> USE DEF CrewInv
<1>1. /\ \E msgs \in Seq(Messages) : Spoke(w, msgs, {}, 0)
      /\ UNCHANGED <<down, ready, held, tree>> /\ CrewType(D)'
  BY DelayRestEffect
<1>2. Placed(D)' /\ Everywhere(Layout(D))' = Everywhere(Layout(D))
  BY DelayRestPlaced
<1>3. /\ mapped' = mapped /\ missing' = missing /\ finished' = finished /\ home' = home
      /\ \A v \in Workers : held[v] \subseteq held'[v]
  BY <1>1 DEF tree
<1>4. Readies' /\ Tree(D)' /\ Homes'
  BY <1>1, <1>2, <1>3, ReadiesSame, TreeKept
<1>5. Results(D)'
  BY <1>1, <1>3, ResultsKept
<1> QED BY <1>1, <1>2, <1>4, <1>5

\* CrewInv: tasks are handed back.
LEMMA ReadReclaimKeeps ==
    ASSUME NEW D, CrewInv(D), NEW w \in Workers \cap D, ReadReclaim(w)
    PROVE  CrewInv(D)' /\ Everywhere(Layout(D))' = Everywhere(Layout(D))
<1> USE DEF CrewInv
<1>1. NoRepeat(delayed[w])
  BY DEF Placed, Once
<1>2. /\ \E n \in 0..Len(delayed[w]) : HandsBack(w, n)
      /\ down[w] # <<>> /\ down' = [down EXCEPT ![w] = Tail(down[w])]
      /\ UNCHANGED <<ready, held, tree>> /\ CrewType(D)'
  BY <1>1, ReadReclaimEffect
<1>3. Placed(D)' /\ Everywhere(Layout(D))' = Everywhere(Layout(D))
  BY ReadReclaimPlaced
<1>4. /\ mapped' = mapped /\ missing' = missing /\ finished' = finished /\ home' = home
      /\ \A v \in Workers : held[v] \subseteq held'[v]
  BY <1>2 DEF tree
<1>5. Readies' /\ Tree(D)' /\ Homes'
  BY <1>2, <1>3, <1>4, ReadiesSame, TreeKept
<1>6. Results(D)'
  <2>1. PICK n \in 0..Len(delayed[w]) : HandsBack(w, n)
    BY <1>2
  <2>2. \E msgs \in Seq(Messages) : Spoke(w, msgs, Range(SubSeq(delayed[w], 1, n)), -n)
    BY <2>1 DEF HandsBack
  <2> QED BY <1>2, <1>4, <2>2, ResultsKept
<1> QED BY <1>2, <1>3, <1>5, <1>6

\* CrewInv: a delayed task is promoted.
LEMMA PromoteKeeps ==
    ASSUME NEW D, CrewInv(D), NEW w \in Workers \cap D, Promote(w)
    PROVE  CrewInv(D)' /\ Everywhere(Layout(D))' = Everywhere(Layout(D))
<1> USE DEF CrewInv
<1> DEFINE t == Last(delayed[w])
<1>1. /\ delayed[w] \in Seq(Tasks) /\ delayed[w] # <<>> /\ ready[w] = <<>>
      /\ held' = [held EXCEPT ![w] = held[w] \cup {t}]
      /\ ready' = [ready EXCEPT ![w] = <<t>>]
      /\ \E msgs \in Seq(Messages) : Spoke(w, msgs, {}, 0)
      /\ UNCHANGED <<down, tree>> /\ CrewType(D)'
  BY PromoteEffect
<1>2. Placed(D)' /\ Everywhere(Layout(D))' = Everywhere(Layout(D))
  BY PromotePlaced
<1>3. t \in Range(delayed[w]) /\ t \in Tasks
  BY <1>1, LastAndFront
<1> HIDE DEF t
<1>4. t \in Lies(<<"delayed", w>>) /\ <<"delayed", w>> \in Spots(D)
  BY <1>3, LiesAt, LayoutType
<1>5. t \in mapped => missing[t] = {}
  BY <1>4, AwaitsNothing
<1>6. /\ \A v \in Workers : held[v] \subseteq held'[v]
      /\ t \in held'[w] /\ t \notin Range(ready[w])
  BY <1>1, RangeType DEF CrewType
<1>7. ready' = [ready EXCEPT ![w] = Append(ready[w], t)]
  <2>1. Append(<<>>, t) = <<t>>
    OBVIOUS
  <2> QED BY <1>1, <2>1
<1>8. mapped' = mapped /\ missing' = missing /\ finished' = finished /\ home' = home
  BY <1>1 DEF tree
<1>9. Readies'
  BY <1>3, <1>5, <1>6, <1>7, <1>8, OneMoreReady
<1>10. Tree(D)' /\ Homes'
  BY <1>1, <1>2, <1>6, TreeKept
<1>11. Results(D)'
  BY <1>1, <1>8, ResultsKept
<1> QED BY <1>1, <1>2, <1>9, <1>10, <1>11

\* CrewInv: the work thread finds nothing.
LEMMA NothingDelayedKeeps ==
    ASSUME NEW D, CrewInv(D), NEW w \in Workers \cap D, NothingDelayed(w)
    PROVE  CrewInv(D)' /\ Everywhere(Layout(D))' = Everywhere(Layout(D))
<1> USE DEF CrewInv
<1>1. UNCHANGED <<down, up, ready, delayed, held, batch, tree>> /\ CrewType(D)'
  BY NothingDelayedEffect
<1>2. \E msgs \in Seq(Messages) : Spoke(w, msgs, {}, 0)
  BY <1>1, Silent
<1>3. /\ mapped' = mapped /\ missing' = missing /\ finished' = finished /\ home' = home
      /\ \A v \in Workers : held[v] \subseteq held'[v]
  BY <1>1 DEF tree
<1>4. Placed(D)' /\ Everywhere(Layout(D))' = Everywhere(Layout(D))
  BY <1>1, <1>2, <1>3, QuietPlaced
<1>5. Readies' /\ Tree(D)' /\ Homes'
  BY <1>1, <1>3, <1>4, ReadiesSame, TreeKept
<1>6. Results(D)'
  BY <1>1, <1>2, <1>3, ResultsKept
<1> QED BY <1>1, <1>4, <1>5, <1>6

\* CrewInv: WAITING is sent.
LEMMA SendWaitingKeeps ==
    ASSUME NEW D, CrewInv(D), NEW w \in Workers \cap D, SendWaiting(w)
    PROVE  CrewInv(D)' /\ Everywhere(Layout(D))' = Everywhere(Layout(D))
<1> USE DEF CrewInv
<1>1. /\ LET m == Waiting(1, receipt[w]) IN
            <<m>> \in Seq(Messages) /\ Spoke(w, <<m>>, {}, 0)
      /\ UNCHANGED <<down, ready, delayed, held, batch, tree>> /\ CrewType(D)'
  BY SendWaitingEffect
<1>2. \E msgs \in Seq(Messages) : Spoke(w, msgs, {}, 0)
  BY <1>1
<1>3. /\ mapped' = mapped /\ missing' = missing /\ finished' = finished /\ home' = home
      /\ \A v \in Workers : held[v] \subseteq held'[v]
  BY <1>1 DEF tree
<1>4. Placed(D)' /\ Everywhere(Layout(D))' = Everywhere(Layout(D))
  BY <1>1, <1>2, <1>3, QuietPlaced
<1>5. Readies' /\ Tree(D)' /\ Homes'
  BY <1>1, <1>3, <1>4, ReadiesSame, TreeKept
<1>6. Results(D)'
  BY <1>1, <1>2, <1>3, ResultsKept
<1> QED BY <1>1, <1>4, <1>5, <1>6

\* A child whose result is there no longer counts as missing.
LEMMA ChildDone ==
    ASSUME NEW D, CrewType(D), Tree(D), Homes, NEW t \in Tasks, home[t] # None,
           t \in finished', finished \subseteq finished',
           missing' = [missing EXCEPT ![Parent(t)] = missing[Parent(t)] \ {t}],
           Everywhere(Layout(D))' = Everywhere(Layout(D)),
           UNCHANGED <<home, mapped>>,
           \A p \in mapped, v \in Workers :
              missing'[p] # {} /\ p \in held[v] => p \in held'[v]
    PROVE  /\ Tree(D)' /\ Homes'
           /\ Parent(t) \in mapped /\ t \in Kids(Parent(t))
           /\ missing[Parent(t)] # {} => Parent(t) \in held[home[t]]
           /\ \A p \in Tasks : missing[p] = {} => missing'[p] = {}
<1> DEFINE p == Parent(t)
<1>1. p \in Tasks /\ t \in Kids(p) /\ p \in mapped
  <2>1. t \notin Roots
    BY DEF Homes
  <2> QED BY <2>1, KidsType DEF Homes
<1>2. missing[p] # {} => p \in held[home[t]]
  BY <1>1 DEF Tree
<1> HIDE DEF p
<1>3. /\ missing'[p] = missing[p] \ {t} /\ missing[p] \subseteq Kids(p)
      /\ \A q \in Tasks \ {p} : missing'[q] = missing[q]
  BY <1>1 DEF p, CrewType, Tree
<1>4. Homes'
  BY DEF Homes, Kids
<1>5. ASSUME NEW q \in mapped
      PROVE  /\ missing'[q] \subseteq missing[q] /\ missing'[q] \subseteq Kids(q)
             /\ Kids(q) \ missing'[q] \subseteq finished'
             /\ missing'[q] # {} => \A c \in Kids(q) : q \in held'[home[c]]
  <2>1. q \in Tasks /\ missing[q] \subseteq Kids(q) /\ Kids(q) \ missing[q] \subseteq finished
    BY DEF Tree, CrewType
  <2>2. missing'[q] \subseteq missing[q] /\ Kids(q) \ missing'[q] \subseteq finished'
    BY <1>3, <2>1
  <2>3. ASSUME missing'[q] # {}, NEW c \in Kids(q) PROVE q \in held'[home[c]]
    <3>1. q \in held[home[c]]
      BY <2>2, <2>3 DEF Tree
    <3>2. home[c] \in Workers
      BY <2>1, KidsType DEF Homes, CrewType
    <3> QED BY <2>3, <3>1, <3>2
  <2> QED BY <2>1, <2>2, <2>3
<1>6. \A q \in Tasks : missing[q] = {} => missing'[q] = {}
  BY <1>3
<1>7. Tree(D)'
  <2>1. \A q \in Tasks \ mapped :
           missing[q] = {} /\ Kids(q) \cap Everywhere(Layout(D)) = {}
    BY DEF Tree
  <2>2. mapped \subseteq Everywhere(Layout(D))
    BY DEF Tree
  <2> QED BY <1>5, <1>6, <2>1, <2>2 DEF Tree, Kids
<1> QED BY <1>1, <1>2, <1>4, <1>6, <1>7 DEF p

\* CrewInv: the result of a child that ran elsewhere comes home.
LEMMA ReadResultKeeps ==
    ASSUME NEW D, CrewInv(D), NEW w \in Workers \cap D, ReadResult(w)
    PROVE  CrewInv(D)' /\ Everywhere(Layout(D))' = Everywhere(Layout(D))
<1> USE DEF CrewInv
<1> DEFINE t == Head(down[w]).task
           p == Parent(t)
           v == home[t]
<1>1. /\ Head(down[w]) \in Messages /\ Head(down[w]).type = "RESULT"
      /\ down[w] # <<>> /\ down[w] \in Seq(Messages)
  BY ReadType DEF ReadResult
<1>2. t \in Tasks /\ t \in finished /\ v # None
  <2>1. Head(down[w]) \in Range(down[w])
    BY <1>1, RangeTail
  <2> QED BY <1>1, <2>1, Fields DEF Results
<1>3. v \in Workers /\ p \in Tasks
  <2>1. t \notin Roots
    BY <1>2 DEF Homes
  <2> QED BY <1>2, <2>1, KidsType DEF CrewType
<1>4. /\ down' = [down EXCEPT ![w] = Tail(down[w])]
      /\ missing' = [missing EXCEPT ![p] = missing[p] \ {t}]
      /\ ready' = IF missing[p] = {t}
                  THEN [ready EXCEPT ![v] = Append(ready[v], p)] ELSE ready
      /\ UNCHANGED <<up, delayed, held, batch, receipt, reported, phase,
                     home, mapped, finished>>
      /\ CrewType(D)'
  BY <1>3, ReadResultEffect
<1>5. \E msgs \in Seq(Messages) : Spoke(w, msgs, {}, 0)
  BY <1>4, Silent
<1>6. Placed(D)' /\ Everywhere(Layout(D))' = Everywhere(Layout(D))
  BY <1>1, <1>4, <1>5, QuietPlaced
<1>7. \A q \in mapped, u \in Workers :
         missing'[q] # {} /\ q \in held[u] => q \in held'[u]
  BY <1>4
<1>8. Results(D)'
  BY <1>1, <1>4, <1>5, ResultsKept
<1>9. /\ Tree(D)' /\ Homes' /\ p \in mapped /\ t \in Kids(p)
      /\ missing[p] # {} => p \in held[v]
      /\ \A q \in Tasks : missing[q] = {} => missing'[q] = {}
  BY <1>2, <1>4, <1>6, <1>7, ChildDone
<1> HIDE DEF t, v, p
<1>10. Readies'
  <2>1. CASE missing[p] = {t}
    <3>1. ready' = [ready EXCEPT ![v] = Append(ready[v], p)]
      BY <1>4, <2>1
    <3>2. p \in held'[v]
      BY <1>4, <1>9, <2>1
    <3>3. p \notin Range(ready[v])
      BY <1>3, <1>9, <2>1 DEF Readies
    <3>4. missing'[p] = {}
      BY <1>3, <1>4, <2>1 DEF CrewType
    <3>5. \A u \in Workers : held[u] \subseteq held'[u]
      BY <1>4
    <3> QED BY <1>3, <1>4, <1>9, <3>1, <3>2, <3>3, <3>4, <3>5, OneMoreReady
  <2>2. CASE missing[p] # {t}
    <3>1. ready' = ready /\ \A u \in Workers : held[u] \subseteq held'[u]
      BY <1>4, <2>2
    <3> QED BY <1>4, <1>9, <3>1, ReadiesSame
  <2> QED BY <2>1, <2>2
<1> QED BY <1>4, <1>6, <1>8, <1>9, <1>10

\* The task that is popped.
LEMMA PoppedTask ==
    ASSUME NEW D, CrewInv(D), NEW w \in Workers, ready[w] # <<>>
    PROVE  LET t == Head(ready[w])
               rest == Tail(ready[w])
           IN  /\ t \in Tasks /\ t \in held[w] /\ (t \in mapped => missing[t] = {})
               /\ rest \in Seq(Tasks) /\ NoRepeat(rest) /\ t \notin Range(rest)
               /\ Range(rest) \subseteq Range(ready[w]) /\ Range(rest) \subseteq held[w]
               /\ \A v \in Workers : t \in held[v] => v = w
<1> USE DEF CrewInv
<1> DEFINE q == ready[w]
           t == Head(q)
           rest == Tail(q)
<1>1. /\ q \in Seq(Tasks) /\ q # <<>> /\ NoRepeat(q) /\ Range(q) \subseteq held[w]
      /\ \A p \in Range(q) : p \in mapped => missing[p] = {}
  BY DEF CrewType, Readies
<1> HIDE DEF q
<1>2. /\ rest \in Seq(Tasks) /\ t \in Tasks /\ Range(q) = Range(rest) \cup {t}
  BY <1>1, RangeTail
<1>3. /\ t = q[1] /\ 1 \in DOMAIN q /\ Len(q) \in Nat
      /\ DOMAIN q = 1..Len(q) /\ DOMAIN rest = 1..(Len(q) - 1)
      /\ \A i \in DOMAIN rest : rest[i] = q[i + 1]
  BY <1>1, HeadTailProperties
<1> HIDE DEF t, rest
<1>4. \A i \in DOMAIN rest : i + 1 \in DOMAIN q /\ i + 1 # 1
  BY <1>3
<1>5. NoRepeat(rest) /\ t \notin Range(rest)
  <2>1. \A i, j \in DOMAIN rest : i # j => i + 1 # j + 1
    BY <1>3
  <2>2. NoRepeat(rest)
    BY <1>1, <1>3, <1>4, <2>1 DEF NoRepeat
  <2>3. \A i \in DOMAIN rest : rest[i] # t
    BY <1>1, <1>3, <1>4 DEF NoRepeat
  <2> QED BY <2>2, <2>3 DEF Range
<1>6. \A v \in Workers : t \in held[v] => v = w
  <2> SUFFICES ASSUME NEW v \in Workers, t \in held[v], v # w PROVE FALSE
    OBVIOUS
  <2> DEFINE a == <<"held", v>>  b == <<"held", w>>
  <2>1. a \in Spots(D) /\ b \in Spots(D) /\ a # b /\ DOMAIN Layout(D) = Spots(D)
    BY LayoutType
  <2>2. Lies(a) = held[v] /\ Lies(b) = held[w]
    BY LiesAt
  <2>3. Layout(D)[a] = Lies(a) /\ Layout(D)[b] = Lies(b)
    BY <2>1, LayoutType
  <2> HIDE DEF a, b
  <2>4. held[v] \cap held[w] = {}
    BY <2>1, <2>2, <2>3 DEF Placed, Apart
  <2> QED BY <1>1, <1>2, <2>4
<1> QED BY <1>1, <1>2, <1>5, <1>6 DEF t, rest, q

\* CrewInv: a task maps over its children, who are new.
LEMMA RunToMapKeeps ==
    ASSUME NEW D, CrewInv(D), NEW w \in Workers \cap D, NEW t \in Tasks, RunToMap(w, t)
    PROVE  /\ CrewInv(D)'
           /\ Everywhere(Layout(D))' = Everywhere(Layout(D)) \cup Kids(t)
<1> USE DEF CrewInv
<1>1. /\ ready[w] # <<>> /\ t = Head(ready[w]) /\ t \notin mapped
      /\ Kids(t) # {} /\ mapped' = mapped \cup {t}
      /\ missing' = [missing EXCEPT ![t] = Kids(t)]
      /\ home' = [c \in Tasks |-> IF c \in Kids(t) THEN w ELSE home[c]]
      /\ ready' = [ready EXCEPT ![w] = Tail(ready[w])]
      /\ \E msgs \in Seq(Messages) : Spoke(w, msgs, Kids(t), 0)
      /\ UNCHANGED <<down, held, finished>> /\ CrewType(D)'
  BY RunToMapEffect DEF Kids
<1>2. /\ t \in held[w] /\ NoRepeat(Tail(ready[w])) /\ t \notin Range(Tail(ready[w]))
      /\ Range(Tail(ready[w])) \subseteq Range(ready[w])
      /\ Range(Tail(ready[w])) \subseteq held[w] /\ Tail(ready[w]) \in Seq(Tasks)
  BY <1>1, PoppedTask
<1>3. Kids(t) \cap Everywhere(Layout(D)) = {}
  BY <1>1 DEF Tree
<1>4. Placed(D)' /\ Everywhere(Layout(D))' = Everywhere(Layout(D)) \cup Kids(t)
  BY <1>3, RunToMapPlaced DEF Kids
<1>5. /\ missing'[t] = Kids(t) /\ \A q \in Tasks \ {t} : missing'[q] = missing[q]
      /\ \A c \in Tasks : home'[c] = IF c \in Kids(t) THEN w ELSE home[c]
      /\ ready'[w] = Tail(ready[w]) /\ \A v \in Workers \ {w} : ready'[v] = ready[v]
      /\ mapped \subseteq Tasks /\ w # None
  BY <1>1, NoneAssumption DEF CrewType
<1>6. Homes'
  <2>1. ASSUME NEW p \in Tasks, NEW c \in Kids(p)
        PROVE  home'[c] # None <=> p \in mapped'
    <3>1. c \in Tasks /\ (c \in Kids(t) <=> p = t)
      BY KidsType
    <3> QED BY <1>1, <1>5, <3>1 DEF Homes
  <2>2. ASSUME NEW r \in Roots PROVE home'[r] = None
    <3>1. r \in Tasks /\ r \notin Kids(t)
      BY KidsType DEF Roots
    <3> QED BY <1>5, <3>1 DEF Homes
  <2> QED BY <2>1, <2>2 DEF Homes, Kids
<1>7. t \in Everywhere(Layout(D))
  <2>1. <<"held", w>> \in DOMAIN Layout(D) /\ Layout(D)[<<"held", w>>] = held[w]
    BY LayoutType, LiesAt
  <2> QED BY <1>2, <2>1 DEF Everywhere
<1>8. ASSUME NEW p \in Tasks \ mapped'
      PROVE  missing'[p] = {} /\ Kids(p) \cap Everywhere(Layout(D))' = {}
  <2>1. p \in Tasks \ mapped /\ p # t
    BY <1>1
  <2>2. Kids(p) \cap Kids(t) = {}
    BY <2>1, KidsType
  <2> QED BY <1>4, <1>5, <2>1, <2>2 DEF Tree
<1>9. ASSUME NEW p \in mapped'
      PROVE  /\ missing'[p] \subseteq Kids(p) /\ Kids(p) \ missing'[p] \subseteq finished'
             /\ missing'[p] # {} => \A c \in Kids(p) : p \in held'[home'[c]]
  <2>1. CASE p = t
    <3>1. \A c \in Kids(p) : c \in Tasks
      BY <2>1, KidsType
    <3> QED BY <1>1, <1>2, <1>5, <2>1, <3>1
  <2>2. CASE p # t
    <3>1. p \in mapped /\ p \in Tasks /\ missing'[p] = missing[p]
      BY <1>1, <1>5, <2>2
    <3>2. \A c \in Kids(p) : home'[c] = home[c]
      BY <1>5, <2>2, <3>1, KidsType
    <3> QED BY <1>1, <3>1, <3>2 DEF Tree
  <2> QED BY <2>1, <2>2
<1>10. Tree(D)'
  <2>1. mapped' \subseteq Everywhere(Layout(D))'
    BY <1>1, <1>4, <1>7 DEF Tree
  <2> QED BY <1>8, <1>9, <2>1 DEF Tree, Kids
<1>11. Readies'
  <2>1. ASSUME NEW v \in Workers
        PROVE  /\ NoRepeat(ready'[v]) /\ Range(ready'[v]) \subseteq held'[v]
               /\ \A q \in Range(ready'[v]) : q \in mapped' => missing'[q] = {}
    <3>1. /\ NoRepeat(ready[v]) /\ Range(ready[v]) \subseteq held[v]
          /\ \A q \in Range(ready[v]) : q \in mapped => missing[q] = {}
          /\ Range(ready[v]) \subseteq Tasks
      BY RangeType DEF Readies, CrewType
    <3>2. /\ NoRepeat(ready'[v]) /\ Range(ready'[v]) \subseteq Range(ready[v])
          /\ t \notin Range(ready'[v])
      <4>1. CASE v = w
        BY <1>2, <1>5, <4>1
      <4>2. CASE v # w
        <5>1. t \notin held[v]
          BY <1>1, <4>2, PoppedTask
        <5> QED BY <1>5, <3>1, <4>2, <5>1
      <4> QED BY <4>1, <4>2
    <3> QED BY <1>1, <1>5, <3>1, <3>2
  <2> QED BY <2>1 DEF Readies
<1>12. Results(D)'
  <2>1. \A c \in Tasks : home[c] # None => home'[c] # None
    BY <1>5
  <2> QED BY <1>1, <2>1, ResultsKept
<1> QED BY <1>1, <1>4, <1>6, <1>10, <1>11, <1>12

\* CrewInv: a task returns, and all its children have before.
LEMMA RunToEndKeeps ==
    ASSUME NEW D, CrewInv(D), NEW w \in Workers \cap D, NEW t \in Tasks, RunToEnd(w, t)
    PROVE  /\ CrewInv(D)' /\ Everywhere(Layout(D))' = Everywhere(Layout(D))
           /\ t \in held[w] /\ Kids(t) \subseteq finished /\ finished' = finished \cup {t}
<1> USE DEF CrewInv
<1> DEFINE p == Parent(t)
           rest == Tail(ready[w])
<1>1. home[t] = w => p \in Tasks
  <2>1. t \in Roots => home[t] = None
    BY DEF Homes
  <2> QED BY <2>1, NoneAssumption, KidsType
<1>2. /\ ready[w] # <<>> /\ t = Head(ready[w])
      /\ Children[t] = <<>> \/ t \in mapped
      /\ finished' = finished \cup {t}
      /\ held' = [held EXCEPT ![w] = held[w] \ {t}]
      /\ missing' = IF home[t] = w THEN [missing EXCEPT ![p] = missing[p] \ {t}]
                    ELSE missing
      /\ ready' = [ready EXCEPT ![w] =
                     IF home[t] = w /\ missing[p] = {t} THEN Append(rest, p) ELSE rest]
      /\ \E msgs \in Seq(Messages) : Spoke(w, msgs, {}, -1)
      /\ UNCHANGED <<down, home, mapped>> /\ CrewType(D)'
  BY <1>1, RunToEndEffect
<1>3. /\ t \in held[w] /\ (t \in mapped => missing[t] = {})
      /\ rest \in Seq(Tasks) /\ NoRepeat(rest) /\ t \notin Range(rest)
      /\ Range(rest) \subseteq Range(ready[w]) /\ Range(rest) \subseteq held[w]
      /\ \A v \in Workers : t \in held[v] => v = w
  BY <1>2, PoppedTask
<1> HIDE DEF p, rest
<1>4. Placed(D)' /\ Everywhere(Layout(D))' = Everywhere(Layout(D))
  BY <1>1, <1>3, RunToEndPlaced DEF p
<1>5. Kids(t) \subseteq finished
  <2>1. CASE t \in mapped
    BY <1>3, <2>1 DEF Tree
  <2>2. CASE Children[t] = <<>>
    BY <2>2, RangeType DEF Kids
  <2> QED BY <1>2, <2>1, <2>2
<1>6. /\ held'[w] = held[w] \ {t} /\ \A v \in Workers \ {w} : held'[v] = held[v]
  BY <1>2 DEF CrewType
<1>7. /\ Tree(D)' /\ Homes'
      /\ home[t] = w => p \in mapped /\ t \in Kids(p)
                        /\ (missing[p] # {} => p \in held[w])
      /\ \A q \in Tasks : missing[q] = {} => missing'[q] = {}
  <2>1. CASE home[t] = w
    <3>1. \A q \in mapped, v \in Workers :
             missing'[q] # {} /\ q \in held[v] => q \in held'[v]
      <4>1. ASSUME t \in mapped PROVE missing'[t] = {}
        <5>1. missing[t] = {} /\ missing' = [missing EXCEPT ![p] = missing[p] \ {t}]
          BY <1>2, <1>3, <2>1, <4>1
        <5> QED BY <5>1 DEF CrewType
      <4> QED BY <1>6, <4>1
    <3>2. w # None
      BY NoneAssumption
    <3>3. missing' = [missing EXCEPT ![Parent(t)] = missing[Parent(t)] \ {t}]
      BY <1>2, <2>1 DEF p
    <3>4. t \in finished' /\ finished \subseteq finished'
      BY <1>2
    <3>5. UNCHANGED <<home, mapped>> /\ home[t] # None
      BY <1>2, <2>1, <3>2
    <3>6. /\ Tree(D)' /\ Homes'
          /\ Parent(t) \in mapped /\ t \in Kids(Parent(t))
          /\ missing[Parent(t)] # {} => Parent(t) \in held[home[t]]
          /\ \A q \in Tasks : missing[q] = {} => missing'[q] = {}
      BY <1>4, <3>1, <3>3, <3>4, <3>5, ChildDone
    <3> QED BY <2>1, <3>6 DEF p
  <2>2. CASE home[t] # w
    <3>1. missing' = missing
      BY <1>2, <2>2
    <3>2. Homes'
      BY <1>2 DEF Homes, Kids
    <3>3. ASSUME NEW q \in mapped, missing[q] # {}, NEW c \in Kids(q)
          PROVE  q \in held'[home[c]]
      <4>1. q \in held[home[c]] /\ q # t /\ q \in Tasks
        BY <1>3, <3>3 DEF Tree, CrewType
      <4>2. home[c] \in Workers
        BY <4>1, KidsType DEF Homes, CrewType
      <4> QED BY <1>6, <4>1, <4>2
    <3>4. Tree(D)'
      BY <1>2, <1>4, <3>1, <3>3 DEF Tree, Kids
    <3> QED BY <2>2, <3>1, <3>2, <3>4
  <2> QED BY <2>1, <2>2
<1>8. /\ ready'[w] = (IF home[t] = w /\ missing[p] = {t} THEN Append(rest, p) ELSE rest)
      /\ \A v \in Workers \ {w} : ready'[v] = ready[v]
  BY <1>2 DEF CrewType
<1>9. ASSUME home[t] = w, missing[p] = {t}
      PROVE  p \in held'[w] /\ p \notin Range(rest) /\ missing'[p] = {} /\ p \in Tasks
  <2>1. p \in mapped /\ p \in held[w] /\ p \in Tasks
    BY <1>1, <1>7, <1>9
  <2>2. p # t
    BY <1>3, <1>9, <2>1
  <2>3. missing'[p] = {}
    BY <1>2, <1>9, <2>1 DEF CrewType
  <2>4. p \notin Range(ready[w])
    BY <1>9, <2>1 DEF Readies
  <2> QED BY <1>3, <1>6, <2>1, <2>2, <2>3, <2>4
<1>10. Readies'
  <2>1. ASSUME NEW v \in Workers
        PROVE  /\ NoRepeat(ready'[v]) /\ Range(ready'[v]) \subseteq held'[v]
               /\ \A q \in Range(ready'[v]) : q \in mapped => missing'[q] = {}
    <3>1. /\ NoRepeat(ready[v]) /\ Range(ready[v]) \subseteq held[v]
          /\ \A q \in Range(ready[v]) : q \in mapped => missing[q] = {}
          /\ Range(ready[v]) \subseteq Tasks
      BY RangeType DEF Readies, CrewType
    <3>2. CASE v # w
      BY <1>6, <1>7, <1>8, <3>1, <3>2
    <3>3. CASE v = w /\ ~(home[t] = w /\ missing[p] = {t})
      <4>1. ready'[v] = rest
        BY <1>8, <3>3
      <4> QED BY <1>3, <1>6, <1>7, <3>1, <3>3, <4>1
    <3>4. CASE v = w /\ home[t] = w /\ missing[p] = {t}
      <4>1. ready'[v] = Append(rest, p)
        BY <1>8, <3>4
      <4>2. NoRepeat(Append(rest, p)) /\ Range(Append(rest, p)) = Range(rest) \cup {p}
        BY <1>3, <1>9, <3>4, RangeAppend, NoRepeatAppend
      <4> QED BY <1>3, <1>6, <1>7, <1>9, <3>1, <3>4, <4>1, <4>2
    <3> QED BY <3>2, <3>3, <3>4
  <2> QED BY <1>2, <2>1 DEF Readies
<1>11. Results(D)'
  <2>1. /\ \A c \in Tasks : home[c] # None => home'[c] # None
        /\ finished \subseteq finished'
    BY <1>2
  <2> QED BY <1>2, <2>1, ResultsKept
<1> QED BY <1>2, <1>3, <1>4, <1>5, <1>7, <1>10, <1>11

----------------------------------------------------------------------------
(* The tasks assigned to a worker, and their count.                        *)

\* The tasks assigned to a worker, by the spots they lie at.
LEMMA AssignedLies ==
    \A w : /\ Assigned(w) = Sent(down[w]) \cup Range(delayed[w]) \cup held[w] \cup Batched(w)
           /\ Assigned(w)' = Sent(down'[w]) \cup Range(delayed'[w]) \cup held'[w]
                               \cup (IF batch'[w] = None THEN {} ELSE Range(batch'[w]))
BY DEF Assigned, Sent, Batched

\* A worker step leaves the tasks of the others alone; it takes k tasks from its
\* own and owes its boss as many.
Settles(w) ==
    /\ \A v \in Workers \ {w} : Assigned(v)' = Assigned(v) /\ OwedIn(up'[v]) = OwedIn(up[v])
    /\ \E X \in SUBSET Assigned(w) :
          /\ IsFiniteSet(X) /\ Assigned(w)' = Assigned(w) \ X
          /\ OwedIn(up'[w]) = OwedIn(up[w]) - Cardinality(X)

\* A worker's step changes nothing about the others' accounts.
LEMMA OthersSettled ==
    ASSUME NEW D, Workers \subseteq D, NEW w \in Workers, OthersSame(D, w)
    PROVE  \A v \in Workers \ {w} :
              Assigned(v)' = Assigned(v) /\ OwedIn(up'[v]) = OwedIn(up[v])
<1> SUFFICES ASSUME NEW v \in Workers \ {w}
             PROVE  Assigned(v)' = Assigned(v) /\ OwedIn(up'[v]) = OwedIn(up[v])
  OBVIOUS
<1>1. /\ down'[v] = down[v] /\ up'[v] = up[v] /\ delayed'[v] = delayed[v]
      /\ held'[v] = held[v] /\ batch'[v] = batch[v]
  BY DEF OthersSame
<1> QED BY <1>1, AssignedLies DEF Batched

\* A step that takes no task away and owes nothing settles.
LEMMA NothingTaken ==
    ASSUME NEW D, Workers \subseteq D, CrewType(D), NEW w \in Workers, OthersSame(D, w),
           Assigned(w)' = Assigned(w), NEW G,
           \E msgs \in Seq(Messages) : Spoke(w, msgs, G, 0)
    PROVE  Settles(w)
<1>1. OwedIn(up'[w]) = OwedIn(up[w]) + 0 /\ OwedIn(up[w]) \in Int
  <2>1. OwedIn(up'[w]) = OwedIn(up[w]) + 0
    BY SpokeSent
  <2>2. up[w] \in Seq(Messages) /\ <<>> \in Seq(Messages)
    BY DEF CrewType
  <2> QED BY <2>1, <2>2, OwedConcat
<1>2. IsFiniteSet({}) /\ Cardinality({}) = 0
  BY FS_EmptySet
<1>3. OwedIn(up'[w]) = OwedIn(up[w]) - Cardinality({})
  BY <1>1, <1>2
<1>4. {} \in SUBSET Assigned(w) /\ Assigned(w)' = Assigned(w) \ {}
  OBVIOUS
<1>5. \E X \in SUBSET Assigned(w) :
          /\ IsFiniteSet(X) /\ Assigned(w)' = Assigned(w) \ X
          /\ OwedIn(up'[w]) = OwedIn(up[w]) - Cardinality(X)
  BY <1>2, <1>3, <1>4
<1> QED BY <1>5, OthersSettled DEF Settles

\* Each step leaves tasks and debts in balance: a batch is read.
LEMMA ReadBatchSettles ==
    ASSUME NEW D, Workers \subseteq D, CrewInv(D), NEW w \in Workers, ReadBatch(w)
    PROVE  Settles(w)
<1> USE DEF CrewInv
<1> DEFINE ts == Head(down[w]).tasks
<1>1. /\ ts \in Seq(Tasks) /\ ts # <<>> /\ SentBy(Head(down[w])) = Range(ts)
      /\ down[w] # <<>> /\ down' = [down EXCEPT ![w] = Tail(down[w])]
      /\ held' = [held EXCEPT ![w] = held[w] \cup {Last(ts)}]
      /\ batch[w] = None /\ batch' = [batch EXCEPT ![w] = Front(ts)]
      /\ UNCHANGED <<up, delayed>>
  BY ReadBatchEffect
<1> HIDE DEF ts
<1>2. /\ Range(ts) = Range(Front(ts)) \cup {Last(ts)} /\ Front(ts) # None
  BY <1>1, LastAndFront, NoneAssumption
<1>3. Sent(down[w]) = Range(ts) \cup Sent(Tail(down[w]))
  <2>1. down[w] \in Seq(Messages)
    BY DEF CrewType
  <2> QED BY <1>1, <2>1, SentTail
<1>4. /\ down'[w] = Tail(down[w]) /\ held'[w] = held[w] \cup {Last(ts)}
      /\ batch'[w] = Front(ts) /\ delayed'[w] = delayed[w]
      /\ OthersSame(D, w)
  BY <1>1 DEF CrewType, OthersSame
<1>5. Assigned(w)' = Assigned(w)
  <2>1. Batched(w) = {}
    BY <1>1 DEF Batched
  <2> QED BY <1>2, <1>3, <1>4, <2>1, AssignedLies
<1>6. \E msgs \in Seq(Messages) : Spoke(w, msgs, {}, 0)
  BY <1>1, Silent
<1> QED BY <1>4, <1>5, <1>6, NothingTaken

\* Balance: the rest of the batch is delayed.
LEMMA DelayRestSettles ==
    ASSUME NEW D, Workers \subseteq D, CrewInv(D), NEW w \in Workers, DelayRest(w)
    PROVE  Settles(w)
<1> USE DEF CrewInv
<1>1. /\ batch[w] # None /\ batch[w] \in Seq(Tasks)
      /\ batch' = [batch EXCEPT ![w] = None]
      /\ delayed' = [delayed EXCEPT ![w] = delayed[w] \o batch[w]]
      /\ \E msgs \in Seq(Messages) : Spoke(w, msgs, {}, 0)
      /\ UNCHANGED <<down, held>>
  BY DelayRestEffect
<1>2. \A e \in D \ {w} : up'[e] = up[e]
  BY <1>1, QuietUp
<1>3. /\ batch'[w] = None /\ delayed'[w] = delayed[w] \o batch[w] /\ down'[w] = down[w]
      /\ held'[w] = held[w] /\ delayed[w] \in Seq(Tasks) /\ OthersSame(D, w)
  BY <1>1, <1>2 DEF CrewType, OthersSame
<1>4. Range(delayed[w] \o batch[w]) = Range(delayed[w]) \cup Range(batch[w])
  BY <1>1, <1>3, RangeConcat
<1>5. Assigned(w)' = Assigned(w)
  <2>1. Batched(w) = Range(batch[w])
    BY <1>1 DEF Batched
  <2> QED BY <1>3, <1>4, <2>1, AssignedLies
<1> QED BY <1>1, <1>3, <1>5, NothingTaken

\* Balance: a delayed task is promoted.
LEMMA PromoteSettles ==
    ASSUME NEW D, Workers \subseteq D, CrewInv(D), NEW w \in Workers, Promote(w)
    PROVE  Settles(w)
<1> USE DEF CrewInv
<1> DEFINE q == delayed[w]
<1>1. /\ q \in Seq(Tasks) /\ q # <<>>
      /\ held' = [held EXCEPT ![w] = held[w] \cup {Last(q)}]
      /\ delayed' = [delayed EXCEPT ![w] = Front(q)]
      /\ \E msgs \in Seq(Messages) : Spoke(w, msgs, {}, 0)
      /\ UNCHANGED <<down, batch>>
  BY PromoteEffect
<1>2. \A e \in D \ {w} : up'[e] = up[e]
  BY <1>1, QuietUp
<1>3. /\ held'[w] = held[w] \cup {Last(q)} /\ delayed'[w] = Front(q)
      /\ down'[w] = down[w] /\ batch'[w] = batch[w] /\ OthersSame(D, w)
  BY <1>1, <1>2 DEF CrewType, OthersSame
<1>4. Range(q) = Range(Front(q)) \cup {Last(q)}
  BY <1>1, LastAndFront
<1>5. Assigned(w)' = Assigned(w)
  BY <1>3, <1>4, AssignedLies DEF Batched
<1> QED BY <1>1, <1>3, <1>5, NothingTaken

\* Balance: what is handed back is owed.
LEMMA ReadReclaimSettles ==
    ASSUME NEW D, Workers \subseteq D, CrewInv(D), NEW w \in Workers, ReadReclaim(w)
    PROVE  Settles(w)
<1> USE DEF CrewInv
<1> DEFINE q == delayed[w]
<1>1. NoRepeat(q) /\ q \in Seq(Tasks)
  BY DEF Placed, Once, CrewType
<1>2. /\ \E n \in 0..Len(q) : HandsBack(w, n)
      /\ down[w] # <<>> /\ Head(down[w]).type = "RECLAIM"
      /\ down' = [down EXCEPT ![w] = Tail(down[w])]
      /\ UNCHANGED <<held, batch>>
  BY <1>1, ReadReclaimEffect
<1>3. PICK n \in 0..Len(q) : HandsBack(w, n)
  BY <1>2
<1> DEFINE back == SubSeq(q, 1, n)
           rest == SubSeq(q, n + 1, Len(q))
           A == Range(back)
<1>4. /\ delayed' = [delayed EXCEPT ![w] = rest]
      /\ \E msgs \in Seq(Messages) : Spoke(w, msgs, A, -n)
  BY <1>3 DEF HandsBack
<1>5. /\ A \cup Range(rest) = Range(q) /\ A \cap Range(rest) = {}
      /\ NoRepeat(back) /\ back \in Seq(Tasks)
  BY <1>1, RangeCut
<1>6. Len(back) = n
  BY <1>1
<1>7. IsFiniteSet(A) /\ Cardinality(A) = n
  BY <1>5, <1>6, RangeCardinality
<1> HIDE DEF A, rest, back
<1>8. /\ OwedIn(up'[w]) = OwedIn(up[w]) + (-n) /\ \A e \in D \ {w} : up'[e] = up[e]
  <2>1. w \in Workers \cap D /\ CrewType(D)
    OBVIOUS
  <2> DEFINE k == -n
  <2>2. \E msgs \in Seq(Messages) : Spoke(w, msgs, A, k)
    BY <1>4
  <2> HIDE DEF k
  <2>3. /\ Sent(up'[w]) = Sent(up[w]) \cup A
        /\ OnceEach(up[w]) /\ Sent(up[w]) \cap A = {} => OnceEach(up'[w])
        /\ OwedIn(up'[w]) = OwedIn(up[w]) + k
        /\ \A e \in D \ {w} : up'[e] = up[e]
    BY <2>1, <2>2, SpokeSent, Zenon
  <2> QED BY <2>3 DEF k
<1>9. OwedIn(up[w]) \in Int /\ down[w] \in Seq(Messages)
  <2>1. up[w] \in Seq(Messages) /\ <<>> \in Seq(Messages)
    BY DEF CrewType
  <2> QED BY <2>1, OwedConcat DEF CrewType
<1>10. OwedIn(up'[w]) = OwedIn(up[w]) - Cardinality(A)
  BY <1>7, <1>8, <1>9
<1>11. /\ delayed'[w] = rest /\ down'[w] = Tail(down[w]) /\ held'[w] = held[w]
       /\ batch'[w] = batch[w] /\ OthersSame(D, w)
  BY <1>2, <1>4, <1>8 DEF CrewType, OthersSame
<1>12. Sent(Tail(down[w])) = Sent(down[w])
  <2>1. SentBy(Head(down[w])) = {}
    BY <1>2 DEF SentBy
  <2>2. Sent(down[w]) = SentBy(Head(down[w])) \cup Sent(Tail(down[w]))
    BY <1>2, <1>9, SentTail
  <2> QED BY <2>1, <2>2
<1>13. A \cap Sent(down[w]) = {} /\ A \cap held[w] = {} /\ A \cap Batched(w) = {}
  <2>1. A \subseteq Range(delayed[w])
    BY <1>5
  <2>2. /\ Range(delayed[w]) \cap Sent(down[w]) = {} /\ Range(delayed[w]) \cap held[w] = {}
        /\ Range(delayed[w]) \cap Batched(w) = {}
    <3> DEFINE d == <<"delayed", w>>  o == <<"down", w>>  h == <<"held", w>>
               b == <<"batch", w>>  C == Layout(D)
    <3>1. d \in Spots(D) /\ o \in Spots(D) /\ h \in Spots(D) /\ b \in Spots(D)
          /\ DOMAIN C = Spots(D)
      BY LayoutType
    <3>2. /\ C[d] = Range(delayed[w]) /\ C[o] = Sent(down[w])
          /\ C[h] = held[w] /\ C[b] = Batched(w)
      BY <3>1, LayoutType, LiesAt
    <3>3. d # o /\ d # h /\ d # b
      OBVIOUS
    <3> HIDE DEF d, o, h, b, C
    <3>4. Apart(C)
      BY DEF Placed, C
    <3>5. C[d] \cap C[o] = {} /\ C[d] \cap C[h] = {} /\ C[d] \cap C[b] = {}
      BY <3>1, <3>3, <3>4 DEF Apart
    <3> QED BY <3>2, <3>5
  <2> QED BY <2>1, <2>2
<1>14. A \in SUBSET Assigned(w) /\ Assigned(w)' = Assigned(w) \ A
  <2>1. Range(rest) = Range(q) \ A /\ A \subseteq Range(q)
    BY <1>5
  <2>2. (IF batch'[w] = None THEN {} ELSE Range(batch'[w])) = Batched(w)
    BY <1>11 DEF Batched
  <2> QED BY <1>11, <1>12, <1>13, <2>1, <2>2, AssignedLies
<1>15. \E X \in SUBSET Assigned(w) :
          /\ IsFiniteSet(X) /\ Assigned(w)' = Assigned(w) \ X
          /\ OwedIn(up'[w]) = OwedIn(up[w]) - Cardinality(X)
  BY <1>7, <1>10, <1>14
<1> QED BY <1>11, <1>15, OthersSettled DEF Settles

\* Steps that move no task to or from a worker.
LEMMA QuietSettles ==
    ASSUME NEW D, Workers \subseteq D, CrewInv(D), NEW w \in Workers, NEW G,
           \E msgs \in Seq(Messages) : Spoke(w, msgs, G, 0),
           \/ UNCHANGED down
           \/ /\ down[w] # <<>> /\ Head(down[w]).type # "SUBMIT_BATCH"
              /\ down' = [down EXCEPT ![w] = Tail(down[w])],
           UNCHANGED <<delayed, held, batch>>
    PROVE  Settles(w)
<1> USE DEF CrewInv
<1>1. down[w] \in Seq(Messages)
  BY DEF CrewType
<1>2. Sent(down'[w]) = Sent(down[w]) /\ \A e \in D \ {w} : down'[e] = down[e]
  <2>1. CASE UNCHANGED down
    BY <2>1
  <2>2. CASE /\ down[w] # <<>> /\ Head(down[w]).type # "SUBMIT_BATCH"
             /\ down' = [down EXCEPT ![w] = Tail(down[w])]
    <3>1. SentBy(Head(down[w])) = {}
      BY <2>2 DEF SentBy
    <3>2. Sent(down[w]) = SentBy(Head(down[w])) \cup Sent(Tail(down[w]))
      BY <1>1, <2>2, SentTail
    <3>3. down'[w] = Tail(down[w]) /\ \A e \in D \ {w} : down'[e] = down[e]
      BY <2>2 DEF CrewType
    <3> QED BY <3>1, <3>2, <3>3
  <2> QED BY <2>1, <2>2
<1>3. \A e \in D \ {w} : up'[e] = up[e]
  <2>1. PICK msgs \in Seq(Messages) : Spoke(w, msgs, G, 0)
    OBVIOUS
  <2> QED BY <2>1 DEF Spoke, CrewType
<1>4. OthersSame(D, w)
  BY <1>2, <1>3 DEF OthersSame
<1>5. Assigned(w)' = Assigned(w)
  <2>1. delayed'[w] = delayed[w] /\ held'[w] = held[w] /\ batch'[w] = batch[w]
    OBVIOUS
  <2> QED BY <1>2, <2>1, AssignedLies DEF Batched
<1> QED BY <1>4, <1>5, NothingTaken

\* Balance: a task that ended is owed, by UPDATE or RESULT.
LEMMA RunToEndSettles ==
    ASSUME NEW D, Workers \subseteq D, CrewInv(D), NEW w \in Workers, NEW t \in Tasks,
           RunToEnd(w, t)
    PROVE  Settles(w)
<1> USE DEF CrewInv
<1> DEFINE A == {t}
<1>1. home[t] = w => Parent(t) \in Tasks
  <2>1. t \in Roots => home[t] = None
    BY DEF Homes
  <2> QED BY <2>1, NoneAssumption, KidsType
<1>2. /\ ready[w] # <<>> /\ t = Head(ready[w])
      /\ held' = [held EXCEPT ![w] = held[w] \ A]
      /\ \E msgs \in Seq(Messages) : Spoke(w, msgs, {}, -1)
      /\ UNCHANGED <<down, delayed, batch>>
  BY <1>1, RunToEndEffect
<1>3. t \in held[w]
  BY <1>2, PoppedTask
<1>4. /\ OwedIn(up'[w]) = OwedIn(up[w]) + (-1) /\ \A e \in D \ {w} : up'[e] = up[e]
      /\ OwedIn(up[w]) \in Int
  <2> DEFINE k == -1
  <2>1. w \in Workers \cap D /\ \E msgs \in Seq(Messages) : Spoke(w, msgs, {}, k)
    BY <1>2
  <2>2. CrewType(D)
    OBVIOUS
  <2> HIDE DEF k
  <2>3. /\ Sent(up'[w]) = Sent(up[w]) \cup {}
        /\ OnceEach(up[w]) /\ Sent(up[w]) \cap {} = {} => OnceEach(up'[w])
        /\ OwedIn(up'[w]) = OwedIn(up[w]) + k
        /\ \A e \in D \ {w} : up'[e] = up[e]
    BY <2>1, <2>2, SpokeSent, Zenon
  <2>4. up[w] \in Seq(Messages) /\ <<>> \in Seq(Messages)
    BY DEF CrewType
  <2> QED BY <2>3, <2>4, OwedConcat DEF k
<1>5. IsFiniteSet(A) /\ Cardinality(A) = 1
  BY FS_Singleton
<1>6. OwedIn(up'[w]) = OwedIn(up[w]) - Cardinality(A)
  BY <1>4, <1>5
<1>7. /\ held'[w] = held[w] \ A /\ down'[w] = down[w] /\ delayed'[w] = delayed[w]
      /\ batch'[w] = batch[w] /\ OthersSame(D, w)
  BY <1>2, <1>4 DEF CrewType, OthersSame
<1>8. t \notin Sent(down[w]) /\ t \notin Range(delayed[w]) /\ t \notin Batched(w)
  <2>1. /\ <<"down", w>> \in Spots(D) /\ <<"delayed", w>> \in Spots(D)
        /\ <<"batch", w>> \in Spots(D)
    BY LayoutType
  <2>2. \A s \in {<<"down", w>>, <<"delayed", w>>, <<"batch", w>>} :
           s \in Spots(D) /\ (\A v \in Workers : s # <<"held", v>>)
    BY <2>1
  <2>3. \A s \in {<<"down", w>>, <<"delayed", w>>, <<"batch", w>>} : t \notin Lies(s)
    BY <1>3, <2>2, NotHeld
  <2> QED BY <2>3, LiesAt
<1>9. A \in SUBSET Assigned(w) /\ Assigned(w)' = Assigned(w) \ A
  <2>1. (IF batch'[w] = None THEN {} ELSE Range(batch'[w])) = Batched(w)
    BY <1>7 DEF Batched
  <2> QED BY <1>3, <1>7, <1>8, <2>1, AssignedLies
<1> HIDE DEF A
<1>10. \E X \in SUBSET Assigned(w) :
          /\ IsFiniteSet(X) /\ Assigned(w)' = Assigned(w) \ X
          /\ OwedIn(up'[w]) = OwedIn(up[w]) - Cardinality(X)
  BY <1>5, <1>6, <1>9
<1> QED BY <1>7, <1>10, OthersSettled DEF Settles

\* Balance: a result read is no task.
LEMMA ReadResultSettles ==
    ASSUME NEW D, Workers \subseteq D, CrewInv(D), NEW w \in Workers, ReadResult(w)
    PROVE  Settles(w)
<1> USE DEF CrewInv
<1>1. /\ Head(down[w]).type = "RESULT" /\ down[w] # <<>>
      /\ down' = [down EXCEPT ![w] = Tail(down[w])]
  BY ReadType DEF ReadResult
<1>2. UNCHANGED <<up, delayed, held, batch>>
  BY DEF ReadResult
<1>3. \E msgs \in Seq(Messages) : Spoke(w, msgs, {}, 0)
  BY <1>2, Silent
<1> QED BY <1>1, <1>2, <1>3, QuietSettles

----------------------------------------------------------------------------
(* Every worker step.                                                      *)

\* Any step of a worker keeps CrewInv and the balance of its account.
LEMMA WorkerStepKeeps ==
    ASSUME NEW D, Workers \subseteq D, CrewInv(D), NEW w \in Workers, WorkerStep(w)
    PROVE  CrewInv(D)' /\ Settles(w)
<1>1. CASE ReadBatch(w)
  BY <1>1, ReadBatchKeeps, ReadBatchSettles
<1>2. CASE DelayRest(w)
  BY <1>2, DelayRestKeeps, DelayRestSettles
<1>3. CASE ReadReclaim(w)
  BY <1>3, ReadReclaimKeeps, ReadReclaimSettles
<1>4. CASE ReadResult(w)
  BY <1>4, ReadResultKeeps, ReadResultSettles
<1>5. CASE Promote(w)
  BY <1>5, PromoteKeeps, PromoteSettles
<1>6. CASE NothingDelayed(w)
  <2>1. UNCHANGED <<down, up, delayed, held, batch>>
    BY <1>6 DEF NothingDelayed
  <2>2. \E msgs \in Seq(Messages) : Spoke(w, msgs, {}, 0)
    BY <2>1, Silent DEF CrewInv
  <2>3. Settles(w)
    BY <2>1, <2>2, QuietSettles
  <2> QED BY <1>6, <2>3, NothingDelayedKeeps
<1>7. CASE SendWaiting(w)
  <2>1. /\ \E msgs \in Seq(Messages) : Spoke(w, msgs, {}, 0)
        /\ UNCHANGED <<down, delayed, held, batch>>
    BY <1>7, SendWaitingEffect DEF CrewInv
  <2>2. Settles(w)
    BY <2>1, QuietSettles
  <2> QED BY <1>7, <2>2, SendWaitingKeeps
<1>8. ASSUME NEW t \in Tasks, RunToMap(w, t) PROVE CrewInv(D)' /\ Settles(w)
  <2>1. /\ \E msgs \in Seq(Messages) : Spoke(w, msgs, Range(Children[t]), 0)
        /\ UNCHANGED <<down, delayed, held, batch>>
    BY <1>8, RunToMapEffect DEF CrewInv
  <2>2. Settles(w)
    BY <2>1, QuietSettles
  <2> QED BY <1>8, <2>2, RunToMapKeeps
<1>9. ASSUME NEW t \in Tasks, RunToEnd(w, t) PROVE CrewInv(D)' /\ Settles(w)
  BY <1>9, RunToEndKeeps, RunToEndSettles
<1> QED BY <1>1, <1>2, <1>3, <1>4, <1>5, <1>6, <1>7, <1>8, <1>9
        DEF WorkerStep, Incoming, Working

\* Nothing has been submitted yet.
LEMMA CrewStarts ==
    ASSUME NEW D, Workers \subseteq D, CrewInit,
           down = [e \in D |-> <<>>], up = [e \in D |-> <<>>]
    PROVE  /\ CrewInv(D) /\ Everywhere(Layout(D)) = {}
           /\ \A w \in Workers : Assigned(w) = {}
<1>1. <<>> \in Seq(Messages) /\ Sent(<<>>) = {} /\ OnceEach(<<>>)
  BY SentFew
<1>2. <<>> \in Seq(Tasks) /\ Range(<<>>) = {} /\ NoRepeat(<<>>)
  BY RangeType
<1>3. CrewType(D)
  BY <1>1, <1>2 DEF CrewInit, CrewType
<1>4. ASSUME NEW s \in Spots(D) PROVE Layout(D)[s] = {}
  <2>1. Layout(D)[s] = Lies(s)
    BY LayoutType
  <2>2. CASE \E e \in D : s = <<"down", e>> \/ s = <<"up", e>>
    BY <1>1, <2>1, <2>2, LiesAt
  <2>3. CASE \E w \in Workers : s = <<"batch", w>> \/ s = <<"delayed", w>>
                                \/ s = <<"held", w>>
    <3>1. PICK w \in Workers : s = <<"batch", w>> \/ s = <<"delayed", w>>
                                \/ s = <<"held", w>>
      BY <2>3
    <3>2. batch[w] = None /\ delayed[w] = <<>> /\ held[w] = {}
      BY DEF CrewInit
    <3> QED BY <1>2, <2>1, <3>1, <3>2, LiesAt DEF Batched
  <2>4. CASE s = <<"over", None>>
    BY <2>1, <2>4, LiesAt DEF CrewInit
  <2> QED BY <2>2, <2>3, <2>4, LayoutType
<1>5. Apart(Layout(D)) /\ Everywhere(Layout(D)) = {}
  BY <1>4, LayoutType DEF Apart, Everywhere
<1>6. Placed(D)
  BY <1>1, <1>2, <1>5 DEF Placed, Once, CrewInit
<1>7. Tree(D) /\ Homes
  <2>1. /\ mapped = {} /\ \A t \in Tasks : home[t] = None /\ missing[t] = {}
    BY DEF CrewInit
  <2>2. Roots \subseteq Tasks
    BY DEF Roots
  <2> QED BY <1>5, <2>1, <2>2, KidsType DEF Tree, Homes
<1>8. Readies
  BY <1>2 DEF Readies, CrewInit
<1>9. Results(D)
  BY <1>2 DEF Results
<1>10. \A w \in Workers : Assigned(w) = {}
  BY <1>1, <1>2, AssignedLies DEF CrewInit, Batched
<1> QED BY <1>3, <1>5, <1>6, <1>7, <1>8, <1>9, <1>10 DEF CrewInv

----------------------------------------------------------------------------
(* Read receipts: a boss's cache e of the batches it sent to an employee,  *)
(* against the queues u up and d down, the receipt r of the last batch     *)
(* read, and whether the employee is busy with that batch.                 *)

Entries == Tasks \X (Nat \ {0})

\* The batches on their way down.
Unread(d) == Filtered(d, Batches)

\* Position i of the cache is that of the batch the receipt r names.
Names(e, i, r) == IF r = None THEN i = 0 ELSE i \in DOMAIN e /\ e[i][1] = r

\* f leads from the messages on their way up to positions in the cache, in order.
Trace(e, u, f) ==
    /\ \A i, j \in DOMAIN u : i <= j => f[i] <= f[j]
    /\ \A i \in DOMAIN u : u[i].type = "WAITING" => Names(e, f[i], u[i].receipt)

\* The last batch read is at c, the unread ones n behind it in order; what is on its
\* way up was said before c, and before the batch that the employee is busy with.
Marked(e, u, n, r, c, b, f) ==
    /\ Len(e) = c + Len(n) /\ Names(e, c, r)
    /\ \A i \in DOMAIN n : e[c + i][1] = n[i].tasks[1]
    /\ f \in [DOMAIN u -> 0..b] /\ Trace(e, u, f)

Marks(e, u, d, r, busy) ==
    \E c, b \in Nat : \E f : /\ b = (IF busy THEN c - 1 ELSE c)
                             /\ Marked(e, u, Unread(d), r, c, b, f)

\* The batches in a queue; there are none if it carries no task.
LEMMA UnreadType ==
    ASSUME NEW d \in Seq(Messages)
    PROVE  /\ Unread(d) \in Seq(Messages)
           /\ \A i \in DOMAIN Unread(d) : Unread(d)[i] \in Batches
           /\ Unread(d) = <<>> <=> Sent(d) = {}
<1>1. Unread(d) \in Seq(Messages) /\ Range(Unread(d)) = Range(d) \cap Batches
  BY FilteredRange DEF Unread
<1>2. \A i \in DOMAIN Unread(d) : Unread(d)[i] \in Batches
  BY <1>1 DEF Range
<1>3. \A m \in Messages : m \in Batches <=> m.type = "SUBMIT_BATCH"
  BY DEF Messages, Batches
<1>4. ASSUME Unread(d) = <<>> PROVE Sent(d) = {}
  <2>1. Range(d) \cap Batches = {}
    BY <1>1, <1>4, RangeType
  <2>2. \A i \in DOMAIN d : SentBy(d[i]) = {}
    BY <1>3, <2>1 DEF SentBy, Range
  <2> QED BY <2>2, SentType
<1>5. ASSUME Unread(d) # <<>> PROVE Sent(d) # {}
  <2>1. 1 \in DOMAIN Unread(d)
    BY <1>1, <1>5
  <2>2. PICK i \in DOMAIN d : d[i] \in Batches
    BY <1>1, <2>1 DEF Range
  <2>3. d[i].tasks \in Seq(Tasks) /\ d[i].tasks # <<>> /\ d[i].type = "SUBMIT_BATCH"
    BY <2>2 DEF Batches
  <2>4. d[i].tasks[1] \in SentBy(d[i])
    BY <2>3 DEF SentBy, Range
  <2> QED BY <2>4, SentType
<1> QED BY <1>1, <1>2, <1>4, <1>5

\* The employee says something.
LEMMA MarksSpeak ==
    ASSUME NEW e \in Seq(Entries), NEW u \in Seq(Messages), NEW d, NEW r,
           NEW busy \in BOOLEAN, NEW msgs \in Seq(Messages), Marks(e, u, d, r, busy),
           \A i \in DOMAIN msgs :
              msgs[i].type = "WAITING" => ~busy /\ msgs[i].receipt = r
    PROVE  Marks(e, u \o msgs, d, r, busy)
<1>1a. PICK c, b \in Nat : \E f : /\ b = (IF busy THEN c - 1 ELSE c)
                                  /\ Marked(e, u, Unread(d), r, c, b, f)
  BY DEF Marks
<1>1. PICK f : /\ b = (IF busy THEN c - 1 ELSE c)
               /\ Marked(e, u, Unread(d), r, c, b, f)
  BY <1>1a
<1> DEFINE v == u \o msgs
           m == Len(u)
           n == Len(msgs)
           g == [i \in DOMAIN v |-> IF i <= m THEN f[i] ELSE b]
<1>2. /\ v \in Seq(Messages) /\ m \in Nat /\ n \in Nat
      /\ DOMAIN v = 1..(m + n) /\ DOMAIN u = 1..m /\ DOMAIN msgs = 1..n
      /\ \A i \in 1..(m + n) : v[i] = IF i <= m THEN u[i] ELSE msgs[i - m]
  BY ConcatProperties
<1>3. m \in Nat /\ n \in Nat
  OBVIOUS
<1>4. /\ f \in [1..m -> 0..b]
      /\ \A i, j \in 1..m : i <= j => f[i] <= f[j]
      /\ \A i \in 1..m : u[i].type = "WAITING" => Names(e, f[i], u[i].receipt)
      /\ Names(e, c, r)
  BY <1>1, <1>2 DEF Marked, Trace
<1> HIDE DEF v, m, n
<1>5. /\ DOMAIN g = 1..(m + n) /\ \A i \in 1..(m + n) : g[i] = IF i <= m THEN f[i] ELSE b
  BY <1>2
<1> HIDE DEF g
<1>6. ASSUME NEW i \in 1..(m + n)
      PROVE  \/ i \in 1..m /\ g[i] = f[i] /\ v[i] = u[i]
             \/ i - m \in 1..n /\ ~(i <= m) /\ g[i] = b /\ v[i] = msgs[i - m]
  <2>1. CASE i <= m
    <3>1. i \in 1..m
      BY <1>3, <2>1
    <3> QED BY <1>2, <1>5, <2>1, <3>1
  <2>2. CASE ~(i <= m)
    <3>1. i - m \in 1..n
      BY <1>3, <2>2
    <3> QED BY <1>2, <1>5, <2>2, <3>1
  <2> QED BY <2>1, <2>2
<1>7. g \in [DOMAIN v -> 0..b]
  <2>1. \A i \in 1..(m + n) : g[i] \in 0..b
    BY <1>4, <1>6
  <2>2. g = [i \in 1..(m + n) |-> g[i]]
    BY <1>2 DEF g
  <2> QED BY <1>2, <2>1, <2>2
<1>8. ASSUME NEW i \in 1..(m + n), NEW j \in 1..(m + n), i <= j PROVE g[i] <= g[j]
  <2>1. CASE j \in 1..m
    <3>1. i \in 1..m /\ i <= m /\ j <= m
      BY <1>3, <1>8, <2>1
    <3>2. g[i] = f[i] /\ g[j] = f[j] /\ f[i] <= f[j]
      BY <1>4, <1>5, <1>8, <2>1, <3>1
    <3> QED BY <3>2
  <2>2. CASE j \notin 1..m
    <3>1. g[j] = b
      BY <1>6, <2>2
    <3>2. b \in 0..b /\ \A k \in 1..m : f[k] \in 0..b
      BY <1>4
    <3>3. g[i] \in 0..b
      BY <1>6, <3>2
    <3> QED BY <3>1, <3>3
  <2> QED BY <2>1, <2>2
<1>9. ASSUME NEW i \in 1..(m + n), v[i].type = "WAITING"
      PROVE  Names(e, g[i], v[i].receipt)
  <2>1. CASE i \in 1..m /\ g[i] = f[i] /\ v[i] = u[i]
    BY <1>4, <1>9, <2>1
  <2>2. CASE i - m \in 1..n /\ ~(i <= m) /\ g[i] = b /\ v[i] = msgs[i - m]
    <3>1. ~busy /\ v[i].receipt = r
      BY <1>2, <1>9, <2>2
    <3>2. b = c
      BY <1>1, <3>1
    <3> QED BY <1>4, <2>2, <3>1, <3>2
  <2> QED BY <1>6, <2>1, <2>2
<1>10. Trace(e, v, g)
  BY <1>2, <1>8, <1>9 DEF Trace
<1>11. Marked(e, v, Unread(d), r, c, b, g)
  BY <1>1, <1>7, <1>10 DEF Marked
<1> QED BY <1>1, <1>11 DEF Marks, v

\* It reads a message that is no batch, or is sent one.
LEMMA MarksSame ==
    ASSUME NEW e, NEW u, NEW d, NEW x, NEW r, NEW busy, Marks(e, u, d, r, busy),
           Unread(x) = Unread(d)
    PROVE  Marks(e, u, x, r, busy)
BY DEF Marks

\* What appending to a queue and reading from it do to its batches.
LEMMA UnreadSame ==
    ASSUME NEW d \in Seq(Messages)
    PROVE  /\ d # <<>> /\ Head(d).type # "SUBMIT_BATCH" => Unread(Tail(d)) = Unread(d)
           /\ \A m \in Messages : m.type # "SUBMIT_BATCH" => Unread(Append(d, m)) = Unread(d)
           /\ \A m \in Messages : m.type = "SUBMIT_BATCH" =>
                 Unread(Append(d, m)) = Append(Unread(d), m)
           /\ d # <<>> /\ Head(d).type = "SUBMIT_BATCH" =>
                 Unread(d) = <<Head(d)>> \o Unread(Tail(d))
<1>1. \A m \in Messages : m \in Batches <=> m.type = "SUBMIT_BATCH"
  BY DEF Messages, Batches
<1>2. d # <<>> => Head(d) \in Messages
  BY SentTail
<1>3. /\ d # <<>> => Unread(d) = IF Head(d) \in Batches
                                 THEN <<Head(d)>> \o Unread(Tail(d)) ELSE Unread(Tail(d))
      /\ \A m \in Messages : Unread(Append(d, m)) = IF m \in Batches
                                 THEN Append(Unread(d), m) ELSE Unread(d)
  <2>1. /\ \A x \in Messages :
              Filtered(<<x>>, Batches) = IF x \in Batches THEN <<x>> ELSE <<>>
        /\ \A q \in Seq(Messages), x \in Messages :
              Filtered(Append(q, x), Batches) = IF x \in Batches
                 THEN Append(Filtered(q, Batches), x) ELSE Filtered(q, Batches)
        /\ \A q \in Seq(Messages) : q # <<>> =>
              Filtered(q, Batches) = IF Head(q) \in Batches
                 THEN <<Head(q)>> \o Filtered(Tail(q), Batches)
                 ELSE Filtered(Tail(q), Batches)
    BY FilteredFew, Zenon
  <2> QED BY <2>1 DEF Unread
<1> QED BY <1>1, <1>2, <1>3

\* It is done with its batch.
LEMMA MarksFree ==
    ASSUME NEW e, NEW u, NEW d, NEW r, Marks(e, u, d, r, TRUE)
    PROVE  Marks(e, u, d, r, FALSE)
<1>1a. PICK c, b \in Nat : \E f : b = c - 1 /\ Marked(e, u, Unread(d), r, c, b, f)
  BY DEF Marks
<1>1. PICK f : b = c - 1 /\ Marked(e, u, Unread(d), r, c, b, f)
  BY <1>1a
<1>2. f \in [DOMAIN u -> 0..c]
  <2>1. f \in [DOMAIN u -> 0..b] /\ \A x \in 0..b : x \in 0..c
    BY <1>1 DEF Marked
  <2> QED BY <2>1
<1>3. Marked(e, u, Unread(d), r, c, c, f)
  BY <1>1, <1>2 DEF Marked
<1> QED BY <1>3 DEF Marks

\* It reads a batch.
LEMMA MarksRead ==
    ASSUME NEW e \in Seq(Entries), NEW u, NEW d \in Seq(Messages), NEW r,
           Marks(e, u, d, r, FALSE), d # <<>>, Head(d).type = "SUBMIT_BATCH"
    PROVE  Marks(e, u, Tail(d), Head(d).tasks[1], TRUE)
<1>1a. PICK c \in Nat : \E f : Marked(e, u, Unread(d), r, c, c, f)
  BY DEF Marks
<1>1. PICK f : Marked(e, u, Unread(d), r, c, c, f)
  BY <1>1a
<1> DEFINE m == Head(d)
           n == Unread(d)
           s == Unread(Tail(d))
           z == <<m>>
<1>2. /\ m \in Messages /\ Tail(d) \in Seq(Messages) /\ z \in Seq(Messages)
      /\ Len(z) = 1 /\ z[1] = m
  BY SentTail
<1>3. n = z \o s /\ s \in Seq(Messages)
  BY <1>2, UnreadSame, UnreadType
<1>4. m.tasks \in Seq(Tasks) /\ m.tasks # <<>>
  BY <1>2, Fields
<1>5. m.tasks[1] \in Tasks /\ m.tasks[1] # None
  BY <1>4, NoneAssumption
<1>6. /\ Len(e) = c + Len(n) /\ \A i \in DOMAIN n : e[c + i][1] = n[i].tasks[1]
      /\ f \in [DOMAIN u -> 0..c] /\ Trace(e, u, f)
  BY <1>1 DEF Marked
<1> HIDE DEF m, n, s, z
<1>7. /\ Len(n) = 1 + Len(s) /\ Len(s) \in Nat /\ DOMAIN n = 1..(1 + Len(s))
      /\ DOMAIN s = 1..Len(s)
      /\ \A i \in 1..(1 + Len(s)) : n[i] = IF i <= 1 THEN z[i] ELSE s[i - 1]
  <2> DEFINE x == z \o s
  <2>1. /\ x \in Seq(Messages) /\ Len(x) = Len(z) + Len(s)
        /\ \A i \in 1..(Len(z) + Len(s)) : x[i] = IF i <= Len(z) THEN z[i] ELSE s[i - Len(z)]
    BY <1>2, <1>3, ConcatProperties
  <2>2. Len(s) \in Nat /\ DOMAIN s = 1..Len(s) /\ Len(z) = 1
    BY <1>2, <1>3
  <2> HIDE DEF x
  <2>3. DOMAIN x = 1..(1 + Len(s))
    BY <2>1, <2>2
  <2>4. n = x
    BY <1>3 DEF x
  <2> QED BY <2>1, <2>2, <2>3, <2>4
<1>8. n[1] = m /\ \A i \in DOMAIN s : i + 1 \in DOMAIN n /\ n[i + 1] = s[i]
  <2>1. n[1] = m
    BY <1>2, <1>7
  <2>2. ASSUME NEW i \in DOMAIN s PROVE i + 1 \in DOMAIN n /\ n[i + 1] = s[i]
    <3>1. i + 1 \in 1..(1 + Len(s)) /\ ~(i + 1 <= 1) /\ (i + 1) - 1 = i
      BY <1>7
    <3> QED BY <1>7, <3>1
  <2> QED BY <2>1, <2>2
<1>9. Names(e, c + 1, m.tasks[1])
  <2>1. 1 \in DOMAIN n /\ c + 1 \in DOMAIN e
    BY <1>6, <1>7
  <2> QED BY <1>5, <1>6, <1>8, <2>1 DEF Names
<1>10. Len(e) = (c + 1) + Len(s)
  BY <1>6, <1>7
<1>11. \A i \in DOMAIN s : e[(c + 1) + i][1] = s[i].tasks[1]
  <2>1. \A i \in DOMAIN s : (c + 1) + i = c + (i + 1)
    BY <1>7
  <2> QED BY <1>6, <1>8, <2>1
<1>12. Marked(e, u, s, m.tasks[1], c + 1, c, f)
  BY <1>6, <1>9, <1>10, <1>11 DEF Marked
<1>13. c + 1 \in Nat /\ c = (c + 1) - 1
  OBVIOUS
<1> QED BY <1>12, <1>13 DEF Marks, m, s

\* It is sent a batch.
LEMMA MarksSent ==
    ASSUME NEW e \in Seq(Entries), NEW u, NEW d \in Seq(Messages), NEW r, NEW busy,
           Marks(e, u, d, r, busy), NEW ts \in Seq(Tasks), ts # <<>>
    PROVE  /\ Append(e, <<ts[1], Len(ts)>>) \in Seq(Entries)
           /\ Marks(Append(e, <<ts[1], Len(ts)>>), u, Append(d, Batch(ts)), r, busy)
<1> DEFINE m == Batch(ts)
           y == <<ts[1], Len(ts)>>
           n == Unread(d)
           s == Unread(Append(d, m))
           x == Append(e, y)
<1>1a. PICK c, b \in Nat : \E f : /\ b = (IF busy THEN c - 1 ELSE c)
                                  /\ Marked(e, u, n, r, c, b, f)
  BY DEF Marks
<1>1. PICK f : /\ b = (IF busy THEN c - 1 ELSE c)
               /\ Marked(e, u, n, r, c, b, f)
  BY <1>1a
<1>2. m \in Messages /\ m.type = "SUBMIT_BATCH" /\ m.tasks = ts
  BY MessagesMade, Carried DEF Batch
<1>3. s = Append(n, m) /\ n \in Seq(Messages)
  BY <1>2, UnreadSame, UnreadType
<1>4. y \in Entries /\ y[1] = ts[1]
  BY DEF Entries
<1> HIDE DEF m, y, n, s
<1>5. /\ x \in Seq(Entries) /\ Len(x) = Len(e) + 1 /\ Len(e) \in Nat
      /\ \A i \in 1..Len(e) : x[i] = e[i]
      /\ x[Len(e) + 1] = y
  BY <1>4, AppendProperties
<1>6. /\ Len(s) = Len(n) + 1 /\ Len(n) \in Nat
      /\ \A i \in 1..Len(n) : s[i] = n[i]
      /\ s[Len(n) + 1] = m /\ DOMAIN s = 1..(Len(n) + 1) /\ DOMAIN n = 1..Len(n)
  BY <1>2, <1>3, AppendProperties
<1> HIDE DEF x
<1>7. /\ Len(e) = c + Len(n) /\ \A i \in DOMAIN n : e[c + i][1] = n[i].tasks[1]
      /\ f \in [DOMAIN u -> 0..b] /\ Trace(e, u, f) /\ Names(e, c, r)
  BY <1>1 DEF Marked
<1>8. \A i, k : Names(e, i, k) => Names(x, i, k)
  <2>1. DOMAIN e = 1..Len(e) /\ DOMAIN x = 1..(Len(e) + 1)
    BY <1>5
  <2> QED BY <1>5, <2>1 DEF Names
<1>9. Trace(x, u, f) /\ Names(x, c, r)
  BY <1>7, <1>8 DEF Trace
<1>10. Len(x) = c + Len(s)
  BY <1>5, <1>6, <1>7
<1>11. ASSUME NEW i \in DOMAIN s PROVE x[c + i][1] = s[i].tasks[1]
  <2>1. CASE i \in 1..Len(n)
    <3>1. c + i \in 1..Len(e)
      BY <1>6, <1>7, <2>1
    <3> QED BY <1>5, <1>6, <1>7, <2>1, <3>1
  <2>2. CASE i = Len(n) + 1
    <3>1. c + i = Len(e) + 1
      BY <1>6, <1>7, <2>2
    <3> QED BY <1>2, <1>4, <1>5, <1>6, <2>2, <3>1
  <2> QED BY <1>6, <2>1, <2>2
<1>12. Marked(x, u, s, r, c, b, f)
  BY <1>7, <1>9, <1>10, <1>11 DEF Marked
<1> QED BY <1>1, <1>5, <1>12 DEF Marks, s, x, y, m

\* Each entry of a cache counts for at least one task.
LEMMA CountSentBound ==
    /\ \A q \in Seq(Entries) : CountSent(q) \in Nat /\ CountSent(q) >= Len(q)
    /\ CountSent(<<>>) = 0
<1>1. ASSUME NEW q \in Seq(Entries) PROVE CountSent(q) \in Nat /\ CountSent(q) >= Len(q)
  <2> DEFINE s == [i \in DOMAIN q |-> q[i][2]]
  <2>1. Len(q) \in Nat /\ DOMAIN q = 1..Len(q) /\ \A i \in 1..Len(q) : q[i] \in Entries
    OBVIOUS
  <2>2. \A i \in 1..Len(q) : q[i][2] \in Int /\ q[i][2] >= 1
    BY <2>1 DEF Entries
  <2>3. s \in [1..Len(q) -> Int] /\ \A i \in 1..Len(q) : s[i] >= 1
    BY <2>1, <2>2
  <2> HIDE DEF s
  <2>4. s \in Seq(Int) /\ Len(s) = Len(q) /\ DOMAIN s = 1..Len(q)
    BY <2>1, <2>3
  <2>5. SumSeq(s) \in Nat /\ SumSeq(s) >= Len(s)
    BY <2>3, <2>4, SumPositive
  <2> QED BY <2>4, <2>5 DEF CountSent, s
<1>2. CountSent(<<>>) = 0
  <2>1. [i \in DOMAIN <<>> |-> <<>>[i][2]] = <<>>
    OBVIOUS
  <2>2. <<>> \in Seq(Int)
    OBVIOUS
  <2>3. SumSeq(<<>>) = 0
    BY <2>2, SumConcat
  <2> QED BY <2>1, <2>3 DEF CountSent
<1> QED BY <1>1, <1>2

\* The cache cut at a receipt, at the first entry of that name.
LEMMA CutAt ==
    ASSUME NEW e \in Seq(Entries), NEW k, k # None, NEW i \in DOMAIN e, e[i][1] = k
    PROVE  \E at \in 1..i :
              LET x == CutCache(e, k) IN
              /\ e[at][1] = k /\ x \in Seq(Entries) /\ Len(x) = Len(e) - at + 1
              /\ \A j \in 1..Len(x) : x[j] = e[at + j - 1]
<1> DEFINE M == {j \in DOMAIN e : e[j][1] = k}
           first(j) == j \in DOMAIN e /\ e[j][1] = k /\ \A l \in 1..(j - 1) : e[l][1] # k
           at == CHOOSE j \in DOMAIN e : e[j][1] = k /\ \A l \in 1..(j - 1) : e[l][1] # k
           x == CutCache(e, k)
<1>1. Len(e) \in Nat /\ DOMAIN e = 1..Len(e)
  OBVIOUS
<1>2. \E j \in DOMAIN e : e[j][1] = k /\ \A l \in 1..(j - 1) : e[l][1] # k
  <2>1. M \subseteq Nat /\ M # {}
    BY <1>1
  <2>2. PICK j \in M : \A l \in M : j <= l
    BY <2>1, LeastNatural
  <2>3. ASSUME NEW l \in 1..(j - 1) PROVE e[l][1] # k
    <3>1. l \in DOMAIN e /\ ~(j <= l)
      BY <1>1, <2>2
    <3> QED BY <2>2, <3>1
  <2> QED BY <2>2, <2>3
<1>3. at \in DOMAIN e /\ e[at][1] = k /\ \A l \in 1..(at - 1) : e[l][1] # k
  BY <1>2
<1>4. x = SubSeq(e, at, Len(e))
  BY DEF CutCache
<1> HIDE DEF at, x
<1>5. at \in 1..i
  <2>1. ~(i < at)
    <3>1. i < at => i \in 1..(at - 1)
      BY <1>1, <1>3
    <3> QED BY <1>3, <3>1
  <2> QED BY <1>1, <1>3, <2>1
<1>6. /\ x \in Seq(Entries) /\ Len(x) = Len(e) - at + 1
      /\ \A j \in 1..Len(x) : x[j] = e[at + j - 1]
  <2>1. \A j \in at..Len(e) : e[j] \in Entries
    BY <1>1, <1>3
  <2>2. at \in Int /\ at <= Len(e) + 1
    BY <1>1, <1>3
  <2>3. /\ SubSeq(e, at, Len(e)) \in Seq(Entries)
        /\ Len(SubSeq(e, at, Len(e))) = IF at <= Len(e) THEN Len(e) - at + 1 ELSE 0
        /\ \A j \in 1..(Len(e) - at + 1) : SubSeq(e, at, Len(e))[j] = e[at + j - 1]
    BY <1>1, <1>3, <2>1, SubSeqProperties
  <2> QED BY <1>1, <1>3, <1>4, <2>3
<1> QED BY <1>3, <1>5, <1>6 DEF x

\* A message that is handled and is no WAITING.
LEMMA MarksHeard ==
    ASSUME NEW e, NEW u \in Seq(Messages), NEW d, NEW r, NEW busy,
           Marks(e, u, d, r, busy), u # <<>>
    PROVE  Marks(e, Tail(u), d, r, busy)
<1>1a. PICK c, b \in Nat : \E f : /\ b = (IF busy THEN c - 1 ELSE c)
                                  /\ Marked(e, u, Unread(d), r, c, b, f)
  BY DEF Marks
<1>1. PICK f : /\ b = (IF busy THEN c - 1 ELSE c)
               /\ Marked(e, u, Unread(d), r, c, b, f)
  BY <1>1a
<1> DEFINE v == Tail(u)
           g == [i \in DOMAIN v |-> f[i + 1]]
<1>2. /\ Len(u) \in Nat /\ DOMAIN u = 1..Len(u) /\ DOMAIN v = 1..(Len(u) - 1)
      /\ \A i \in DOMAIN v : v[i] = u[i + 1]
  BY HeadTailProperties
<1> HIDE DEF v
<1>3. \A i \in DOMAIN v : i + 1 \in DOMAIN u
  BY <1>2
<1>4. /\ f \in [DOMAIN u -> 0..b] /\ \A i, j \in DOMAIN u : i <= j => f[i] <= f[j]
      /\ \A i \in DOMAIN u : u[i].type = "WAITING" => Names(e, f[i], u[i].receipt)
  BY <1>1 DEF Marked, Trace
<1>5. g \in [DOMAIN v -> 0..b]
  BY <1>3, <1>4
<1>6. \A i, j \in DOMAIN v : i <= j => g[i] <= g[j]
  <2>1. \A i, j \in DOMAIN v : i <= j => i + 1 <= j + 1
    BY <1>2
  <2> QED BY <1>3, <1>4, <2>1
<1>7. \A i \in DOMAIN v : v[i].type = "WAITING" => Names(e, g[i], v[i].receipt)
  BY <1>2, <1>3, <1>4
<1> HIDE DEF g
<1>8. Marked(e, v, Unread(d), r, c, b, g)
  BY <1>1, <1>5, <1>6, <1>7 DEF Marked, Trace
<1> QED BY <1>1, <1>8 DEF Marks, v

\* What a boss makes of a WAITING: it finds the receipt, the cache is cut there,
\* and nothing sent since means that nothing is unread.
Answered(e, u, d, r, busy) ==
    LET k == Head(u).receipt
        x == CutCache(e, k)
    IN  /\ Found(e, k) /\ x \in Seq(Entries) /\ Range(x) \subseteq Range(e)
        /\ Marks(x, Tail(u), d, r, busy)
        /\ SentSince(x, k) \in Nat
        /\ SentSince(x, k) = 0 =>
              /\ Unread(d) = <<>> /\ ~busy
              /\ \A i \in DOMAIN Tail(u) :
                    Tail(u)[i].type = "WAITING" => Tail(u)[i].receipt = r
        /\ (\A i, j \in DOMAIN e : i # j => e[i][1] # e[j][1]) =>
              /\ \A i, j \in DOMAIN x : i # j => x[i][1] # x[j][1]
              /\ Unread(d) = <<>> /\ ~busy /\ r = k => SentSince(x, k) = 0

\* Answering a WAITING of a worker that has read nothing yet.
LEMMA MarksAnsweredNone ==
    ASSUME NEW e \in Seq(Entries), NEW u \in Seq(Messages), NEW d \in Seq(Messages),
           NEW r, NEW busy \in BOOLEAN, Marks(e, u, d, r, busy), u # <<>>,
           Head(u).type = "WAITING", Head(u).receipt = None
    PROVE  Answered(e, u, d, r, busy)
<1> DEFINE x == CutCache(e, None)
<1>1. Len(e) \in Nat /\ DOMAIN e = 1..Len(e) /\ \A i \in 1..Len(e) : e[i] \in Entries
  OBVIOUS
<1>2. x = e
  <2>1. x = SubSeq(e, 1, Len(e))
    BY DEF CutCache
  <2>2. /\ SubSeq(e, 1, Len(e)) \in Seq(Entries) /\ Len(SubSeq(e, 1, Len(e))) = Len(e)
        /\ \A i \in 1..Len(e) : SubSeq(e, 1, Len(e))[i] = e[i]
    OBVIOUS
  <2> QED BY <2>1, <2>2, SeqEqual
<1> HIDE DEF x
<1>3. SentSince(x, None) = CountSent(e)
  BY <1>2 DEF SentSince
<1>4. CountSent(e) \in Nat /\ CountSent(e) >= Len(e) /\ CountSent(<<>>) = 0
  BY CountSentBound
<1>5a. PICK c, b \in Nat : \E f : /\ b = (IF busy THEN c - 1 ELSE c)
                                  /\ Marked(e, u, Unread(d), r, c, b, f)
  BY DEF Marks
<1>5. PICK f : /\ b = (IF busy THEN c - 1 ELSE c)
               /\ Marked(e, u, Unread(d), r, c, b, f)
  BY <1>5a
<1>6. Len(e) = c + Len(Unread(d)) /\ Names(e, c, r) /\ Unread(d) \in Seq(Messages)
  BY <1>5, UnreadType DEF Marked
<1>7. ASSUME CountSent(e) = 0
      PROVE  /\ Unread(d) = <<>> /\ ~busy
             /\ \A i \in DOMAIN u : u[i].type = "WAITING" => u[i].receipt = r
  <2>1. Len(Unread(d)) \in Nat
    BY <1>6
  <2>2. Len(e) = 0 /\ c = 0 /\ Len(Unread(d)) = 0
    BY <1>1, <1>4, <1>6, <1>7, <2>1
  <2>3. ~busy /\ b = 0
    BY <1>5, <2>2
  <2>4. r = None
    BY <1>1, <1>6, <2>2 DEF Names
  <2>5. ASSUME NEW i \in DOMAIN u, u[i].type = "WAITING" PROVE u[i].receipt = None
    <3>1. f[i] = 0 /\ Names(e, f[i], u[i].receipt)
      BY <1>5, <2>3, <2>5 DEF Marked, Trace
    <3> QED BY <1>1, <2>2, <3>1 DEF Names
  <2> QED BY <1>6, <2>2, <2>3, <2>4, <2>5
<1>8. ASSUME Unread(d) = <<>>, r = None PROVE CountSent(e) = 0
  <2>1. c = 0 /\ Len(Unread(d)) = 0
    BY <1>6, <1>8 DEF Names
  <2>2. e = <<>>
    BY <1>1, <1>6, <2>1
  <2> QED BY <1>4, <2>2
<1>9. Marks(e, Tail(u), d, r, busy)
  BY MarksHeard
<1>10. \A i \in DOMAIN Tail(u) : i + 1 \in DOMAIN u /\ Tail(u)[i] = u[i + 1]
  <2>1. /\ DOMAIN u = 1..Len(u) /\ DOMAIN Tail(u) = 1..(Len(u) - 1) /\ Len(u) \in Nat
        /\ \A i \in DOMAIN Tail(u) : Tail(u)[i] = u[i + 1]
    BY HeadTailProperties
  <2> QED BY <2>1
<1> QED BY <1>2, <1>3, <1>4, <1>7, <1>8, <1>9, <1>10 DEF Answered, Found, x

\* Answering a WAITING with a receipt: the cache is cut there.
LEMMA MarksAnswered ==
    ASSUME NEW e \in Seq(Entries), NEW u \in Seq(Messages), NEW d \in Seq(Messages),
           NEW r, NEW busy \in BOOLEAN, Marks(e, u, d, r, busy), u # <<>>,
           Head(u).type = "WAITING", Head(u).receipt # None
    PROVE  Answered(e, u, d, r, busy)
<1> DEFINE k == Head(u).receipt
           x == CutCache(e, k)
           n == Unread(d)
           v == Tail(u)
<1>1a. PICK c, b \in Nat : \E f : /\ b = (IF busy THEN c - 1 ELSE c)
                                  /\ Marked(e, u, n, r, c, b, f)
  BY DEF Marks
<1>1. PICK f : /\ b = (IF busy THEN c - 1 ELSE c)
               /\ Marked(e, u, n, r, c, b, f)
  BY <1>1a
<1>2. /\ Len(u) \in Nat /\ DOMAIN u = 1..Len(u) /\ DOMAIN v = 1..(Len(u) - 1)
      /\ \A i \in DOMAIN v : v[i] = u[i + 1]
      /\ 1 \in DOMAIN u /\ u[1] = Head(u) /\ Len(u) >= 1
  BY HeadTailProperties
<1>3. /\ Len(e) = c + Len(n) /\ Names(e, c, r)
      /\ \A i \in DOMAIN n : e[c + i][1] = n[i].tasks[1]
      /\ f \in [DOMAIN u -> 0..b]
      /\ \A i, j \in DOMAIN u : i <= j => f[i] <= f[j]
      /\ \A i \in DOMAIN u : u[i].type = "WAITING" => Names(e, f[i], u[i].receipt)
  BY <1>1 DEF Marked, Trace
<1>4. /\ n \in Seq(Messages) /\ Len(n) \in Nat /\ DOMAIN n = 1..Len(n)
      /\ n = <<>> <=> Len(n) = 0
  BY UnreadType
<1>5. k # None /\ u[1].type = "WAITING" /\ u[1].receipt = k
  BY <1>2
<1>6. Len(e) \in Nat /\ DOMAIN e = 1..Len(e)
  OBVIOUS
<1> HIDE DEF k, n, v
<1>7. Names(e, f[1], k)
  BY <1>2, <1>3, <1>5
<1>8. f[1] \in DOMAIN e /\ e[f[1]][1] = k /\ f[1] \in 0..b
  BY <1>2, <1>3, <1>5, <1>7 DEF Names
<1>9. PICK at \in 1..f[1] : LET y == CutCache(e, k) IN
              /\ e[at][1] = k /\ y \in Seq(Entries) /\ Len(y) = Len(e) - at + 1
              /\ \A j \in 1..Len(y) : y[j] = e[at + j - 1]
  BY <1>5, <1>8, CutAt
<1>10. /\ x \in Seq(Entries) /\ Len(x) = Len(e) - at + 1
       /\ \A j \in 1..Len(x) : x[j] = e[at + j - 1]
  BY <1>9
<1> HIDE DEF x
<1>11. /\ at \in Nat /\ at >= 1 /\ at <= f[1] /\ f[1] <= b /\ b <= c /\ f[1] \in Nat
  <2>1. f[1] \in Nat /\ f[1] <= b
    BY <1>8
  <2>2. b <= c
    BY <1>1
  <2>3. at \in Nat /\ at >= 1 /\ at <= f[1]
    BY <1>9, <2>1
  <2> QED BY <2>1, <2>2, <2>3
<1> DEFINE cc == c - at + 1
           bb == b - at + 1
           g  == [i \in DOMAIN v |-> f[i + 1] - at + 1]
<1>12. /\ cc \in Nat /\ bb \in Nat /\ bb >= 1 /\ cc >= 1
       /\ bb = (IF busy THEN cc - 1 ELSE cc)
  <2>1. b = (IF busy THEN c - 1 ELSE c)
    BY <1>1
  <2> QED BY <1>11, <2>1
<1>13. DOMAIN x = 1..Len(x) /\ Len(x) = cc + Len(n) /\ Len(x) \in Nat
  BY <1>3, <1>4, <1>6, <1>10, <1>11
<1>14. ASSUME NEW i \in DOMAIN e, i >= at
       PROVE  i - at + 1 \in DOMAIN x /\ x[i - at + 1] = e[i]
  <2>1. i - at + 1 \in 1..Len(x)
    BY <1>6, <1>10, <1>11, <1>14
  <2>2. at + (i - at + 1) - 1 = i
    BY <1>6, <1>11
  <2> QED BY <1>10, <1>13, <2>1, <2>2
<1>15. ASSUME NEW i \in Nat, NEW q, i >= f[1], Names(e, i, q) PROVE Names(x, i - at + 1, q)
  <2>1. i # 0 /\ i >= at
    BY <1>6, <1>8, <1>11, <1>15
  <2>2. q # None /\ i \in DOMAIN e /\ e[i][1] = q
    BY <1>15, <2>1 DEF Names
  <2>3. i - at + 1 \in DOMAIN x /\ x[i - at + 1] = e[i]
    BY <1>14, <2>1, <2>2
  <2> QED BY <2>2, <2>3 DEF Names
<1>16. ASSUME NEW i \in DOMAIN v
       PROVE  /\ i + 1 \in DOMAIN u /\ f[i + 1] \in 0..b /\ f[i + 1] >= f[1]
              /\ v[i] = u[i + 1] /\ g[i] = f[i + 1] - at + 1
  <2>1. i + 1 \in DOMAIN u /\ 1 <= i + 1
    BY <1>2
  <2>2. f[1] <= f[i + 1] /\ f[i + 1] \in 0..b
    BY <1>2, <1>3, <2>1
  <2>3. v[i] = u[i + 1]
    BY <1>2
  <2>4. f[i + 1] >= f[1]
    BY <1>8, <2>2
  <2>5. g[i] = f[i + 1] - at + 1
    OBVIOUS
  <2> QED BY <2>1, <2>2, <2>3, <2>4, <2>5
<1>17. g \in [DOMAIN v -> 0..bb]
  <2>1. ASSUME NEW i \in DOMAIN v PROVE f[i + 1] - at + 1 \in 0..bb
    <3>1. f[i + 1] \in 0..b /\ f[i + 1] >= f[1]
      BY <1>16
    <3>2. b \in Nat /\ at \in Nat /\ at <= f[i + 1]
      BY <1>11, <3>1
    <3> QED BY <3>1, <3>2
  <2> QED BY <2>1
<1>18. ASSUME NEW i \in DOMAIN v, NEW j \in DOMAIN v, i <= j PROVE g[i] <= g[j]
  <2>1. i + 1 <= j + 1
    BY <1>2, <1>18
  <2>2. f[i + 1] <= f[j + 1]
    BY <1>3, <1>16, <2>1
  <2> QED BY <1>11, <1>16, <2>2
<1>19. ASSUME NEW i \in DOMAIN v, v[i].type = "WAITING"
       PROVE  Names(x, g[i], v[i].receipt)
  <2>1. f[i + 1] \in Nat /\ f[i + 1] >= f[1] /\ Names(e, f[i + 1], v[i].receipt)
    BY <1>3, <1>16, <1>19
  <2>2. Names(x, f[i + 1] - at + 1, v[i].receipt)
    BY <1>15, <2>1
  <2> QED BY <1>16, <2>2
<1>20. Names(x, cc, r)
  <2>1. c \in Nat /\ c >= f[1]
    BY <1>11
  <2> QED BY <1>3, <1>15, <2>1
<1>21. ASSUME NEW i \in DOMAIN n PROVE x[cc + i][1] = n[i].tasks[1]
  <2>1. i \in Nat /\ i >= 1 /\ i <= Len(n)
    BY <1>4
  <2>2. c + i \in 1..Len(e) /\ c + i >= at
    <3>1. c \in Nat /\ Len(n) \in Nat /\ Len(e) = c + Len(n)
      BY <1>3, <1>4
    <3>2. at \in Nat /\ at <= c
      BY <1>11
    <3> QED BY <2>1, <3>1, <3>2
  <2>3. \A l \in 1..Len(e) : l >= at => x[l - at + 1] = e[l]
    BY <1>6, <1>14
  <2>4. x[(c + i) - at + 1] = e[c + i]
    BY <2>2, <2>3, Zenon
  <2>5. (c + i) - at + 1 = cc + i
    BY <1>11, <2>1
  <2> QED BY <1>3, <2>4, <2>5
<1>30. \A i \in DOMAIN v : g[i] >= 1
  BY <1>11, <1>16
<1> HIDE DEF g, cc, bb
<1>22. Marks(x, v, d, r, busy)
  <2>1. Trace(x, v, g)
    BY <1>18, <1>19 DEF Trace
  <2>2. Marked(x, v, n, r, cc, bb, g)
    BY <1>13, <1>17, <1>20, <1>21, <2>1 DEF Marked
  <2> QED BY <1>12, <2>2 DEF Marks, n
<1>23. Range(x) \subseteq Range(e)
  <2>1. ASSUME NEW j \in 1..Len(x) PROVE at + j - 1 \in DOMAIN e
    BY <1>6, <1>10, <1>11
  <2> QED BY <1>10, <1>13, <2>1 DEF Range
<1>24. Found(e, k)
  BY <1>8 DEF Found, Range
<1> DEFINE t == Tail(x)
<1>25. x # <<>> /\ t \in Seq(Entries) /\ Len(t) = Len(x) - 1
  <2>1. Len(x) >= 1
    BY <1>4, <1>12, <1>13
  <2>2. x # <<>>
    BY <2>1
  <2> QED BY <1>10, <2>2, HeadTailProperties
<1>26. SentSince(x, k) = CountSent(t)
  BY <1>5 DEF SentSince
<1> HIDE DEF t
<1>27. CountSent(t) \in Nat /\ CountSent(t) >= Len(t) /\ CountSent(<<>>) = 0
  BY <1>25, CountSentBound
<1>28. ASSUME CountSent(t) = 0
       PROVE  /\ n = <<>> /\ ~busy
              /\ \A i \in DOMAIN v : v[i].type = "WAITING" => v[i].receipt = r
  <2>1. Len(t) = 0
    BY <1>12, <1>13, <1>25, <1>27, <1>28
  <2>2. cc = 1 /\ Len(n) = 0
    BY <1>4, <1>12, <1>13, <1>25, <2>1
  <2>3. ~busy /\ bb = 1
    BY <1>12, <2>2
  <2>4. r = x[1][1]
    BY <1>20, <2>2 DEF Names
  <2>5. ASSUME NEW i \in DOMAIN v, v[i].type = "WAITING" PROVE v[i].receipt = x[1][1]
    <3>1. g[i] \in 0..1 /\ g[i] >= 1
      BY <1>16, <1>17, <1>30, <2>3, <2>5
    <3>2. g[i] = 1
      BY <3>1
    <3> QED BY <1>19, <2>5, <3>2 DEF Names
  <2> QED BY <1>4, <2>2, <2>3, <2>4, <2>5
<1>29. ASSUME \A i, j \in DOMAIN e : i # j => e[i][1] # e[j][1]
       PROVE  /\ \A i, j \in DOMAIN x : i # j => x[i][1] # x[j][1]
              /\ n = <<>> /\ ~busy /\ r = k => CountSent(t) = 0
  <2>1. ASSUME NEW i \in DOMAIN x, NEW j \in DOMAIN x, i # j PROVE x[i][1] # x[j][1]
    <3>1. i \in Nat /\ j \in Nat /\ at + i - 1 # at + j - 1
      BY <1>11, <1>13, <2>1
    <3>2. \A l \in 1..Len(x) : at + l - 1 \in DOMAIN e
      BY <1>6, <1>10, <1>11
    <3>3. e[at + i - 1][1] # e[at + j - 1][1]
      BY <1>13, <1>29, <3>1, <3>2
    <3> QED BY <1>10, <1>13, <3>3
  <2>2. ASSUME n = <<>>, r = k PROVE CountSent(t) = 0
    <3>1. c \in DOMAIN e /\ e[c][1] = k
      BY <1>3, <1>5, <2>2 DEF Names
    <3>2. at \in DOMAIN e /\ e[at][1] = k
      BY <1>6, <1>8, <1>9, <1>11
    <3>3. at = c
      BY <1>29, <3>1, <3>2
    <3>4. Len(t) = 0
      BY <1>3, <1>4, <1>10, <1>11, <1>25, <2>2, <3>3
    <3>5. t = <<>>
      BY <1>25, <3>4
    <3> QED BY <1>27, <3>5
  <2> QED BY <2>1, <2>2
<1> QED BY <1>10, <1>22, <1>23, <1>24, <1>26, <1>27, <1>28, <1>29
        DEF Answered, x, n, k, v

\* The two cases together: handle_waiting finds what it looks up.
LEMMA MarksAnsweredAll ==
    ASSUME NEW e \in Seq(Entries), NEW u \in Seq(Messages), NEW d \in Seq(Messages),
           NEW r, NEW busy \in BOOLEAN, Marks(e, u, d, r, busy), u # <<>>,
           Head(u).type = "WAITING"
    PROVE  Answered(e, u, d, r, busy)
BY MarksAnsweredNone, MarksAnswered

----------------------------------------------------------------------------
(* What a worker step means to the boss of the worker.                     *)

\* The other workers: one may be woken by a result.
OthersRest(w) ==
    \A v \in Workers \ {w} :
        /\ down'[v] = down[v] /\ up'[v] = up[v] /\ batch'[v] = batch[v]
        /\ receipt'[v] = receipt[v] /\ phase'[v] = phase[v]
        /\ ready'[v] = <<>> => ready[v] = <<>>

\* Tasks that w says are new, or were handed back.
Says(w) ==
    \E msgs \in Seq(Messages) : \E G, k :
        /\ Spoke(w, msgs, G, k)
        /\ \/ G = {}
           \/ down[w] # <<>> /\ Head(down[w]).type = "RECLAIM"
           \/ \E t \in Tasks \ mapped : G = Kids(t)

StartsBatch(w) ==
    /\ down[w] # <<>> /\ Head(down[w]).type = "SUBMIT_BATCH" /\ down'[w] = Tail(down[w])
    /\ batch[w] = None /\ batch'[w] # None /\ receipt'[w] = Head(down[w]).tasks[1]
    /\ up'[w] = up[w] /\ ready'[w] # <<>>

EndsBatch(w) ==
    /\ batch[w] # None /\ batch'[w] = None /\ down'[w] = down[w]
    /\ receipt'[w] = receipt[w] /\ phase'[w] = phase[w] /\ ready'[w] = ready[w]

GoesOn(w) ==
    /\ batch'[w] = batch[w] /\ receipt'[w] = receipt[w]
    /\ \/ down'[w] = down[w]
       \/ /\ down[w] # <<>> /\ Head(down[w]).type # "SUBMIT_BATCH"
          /\ down'[w] = Tail(down[w])
    /\ phase'[w] = "block" /\ ready'[w] = <<>> =>
          \/ phase[w] = "block" /\ ready[w] = <<>>
          \/ batch[w] = None /\ up'[w] = up[w] \o <<Waiting(1, receipt[w])>>

Acts(w) == OthersRest(w) /\ Says(w) /\ (StartsBatch(w) \/ EndsBatch(w) \/ GoesOn(w))

\* What a worker does as its boss's cache sees it: it reads a batch.
LEMMA ReadBatchActs ==
    ASSUME NEW D, CrewInv(D), NEW w \in Workers \cap D, ReadBatch(w)
    PROVE  Acts(w)
<1>1. LET ts == Head(down[w]).tasks IN
      /\ ts \in Seq(Tasks) /\ ts # <<>>
      /\ Head(down[w]).type = "SUBMIT_BATCH" /\ down[w] # <<>>
      /\ down' = [down EXCEPT ![w] = Tail(down[w])]
      /\ ready' = [ready EXCEPT ![w] = Append(ready[w], Last(ts))]
      /\ batch[w] = None /\ batch' = [batch EXCEPT ![w] = Front(ts)]
      /\ receipt' = [receipt EXCEPT ![w] = ts[1]]
      /\ UNCHANGED <<up, phase>>
  BY ReadBatchEffect DEF CrewInv
<1>2. \E msgs \in Seq(Messages) : Spoke(w, msgs, {}, 0)
  BY <1>1, Silent DEF CrewInv
<1>3. Says(w)
  BY <1>2 DEF Says
<1>4. Front(Head(down[w]).tasks) \in Seq(Tasks)
  BY <1>1, LastAndFront
<1>5. Append(ready[w], Last(Head(down[w]).tasks)) # <<>>
  <2>1. ready[w] \in Seq(Tasks)
    BY DEF CrewInv, CrewType
  <2>2. Last(Head(down[w]).tasks) \in Tasks
    BY <1>1, LastAndFront
  <2> QED BY <2>1, <2>2, AppendProperties
<1>6. StartsBatch(w)
  <2>1. /\ down'[w] = Tail(down[w]) /\ batch'[w] = Front(Head(down[w]).tasks)
        /\ receipt'[w] = Head(down[w]).tasks[1] /\ up'[w] = up[w]
        /\ ready'[w] = Append(ready[w], Last(Head(down[w]).tasks))
    BY <1>1 DEF CrewInv, CrewType
  <2> QED BY <1>1, <1>4, <1>5, <2>1, NoneAssumption DEF StartsBatch
<1>7. OthersRest(w)
  BY <1>1 DEF OthersRest, CrewInv, CrewType
<1> QED BY <1>3, <1>6, <1>7 DEF Acts

\* Any step of a worker is one the cache can follow.
LEMMA WorkerStepActs ==
    ASSUME NEW D, Workers \subseteq D, CrewInv(D), NEW w \in Workers, WorkerStep(w)
    PROVE  Acts(w)
<1>1. CASE ReadBatch(w)
  BY <1>1, ReadBatchActs
<1>2. CASE DelayRest(w)
  <2>1. /\ batch[w] # None /\ batch' = [batch EXCEPT ![w] = None]
        /\ \E msgs \in Seq(Messages) : Spoke(w, msgs, {}, 0)
        /\ UNCHANGED <<down, ready, receipt, phase>>
    BY <1>2, DelayRestEffect DEF CrewInv
  <2>2. \A v \in Workers \ {w} : up'[v] = up[v]
    BY <2>1, SpokeSent DEF CrewInv
  <2>3. OthersRest(w) /\ EndsBatch(w)
    BY <2>1, <2>2 DEF OthersRest, EndsBatch, CrewInv, CrewType
  <2> QED BY <2>1, <2>3 DEF Acts, Says
<1>3. CASE ReadReclaim(w)
  <2>1. NoRepeat(delayed[w])
    BY DEF CrewInv, Placed, Once
  <2>2. /\ \E n \in 0..Len(delayed[w]) : HandsBack(w, n)
        /\ down[w] # <<>> /\ Head(down[w]).type = "RECLAIM"
        /\ down' = [down EXCEPT ![w] = Tail(down[w])]
        /\ UNCHANGED <<ready, batch, receipt, phase>>
    BY <1>3, <2>1, ReadReclaimEffect DEF CrewInv
  <2>3. \E msgs \in Seq(Messages) : \E G, k : Spoke(w, msgs, G, k)
    BY <2>2 DEF HandsBack
  <2>4. \A v \in Workers \ {w} : up'[v] = up[v]
    BY <2>3, SpokeSent DEF CrewInv
  <2>5. OthersRest(w) /\ GoesOn(w)
    BY <2>2, <2>4 DEF OthersRest, GoesOn, CrewInv, CrewType
  <2> QED BY <2>2, <2>3, <2>5 DEF Acts, Says
<1>4. CASE ReadResult(w)
  <2>1. /\ Head(down[w]).type = "RESULT" /\ down[w] # <<>>
        /\ down' = [down EXCEPT ![w] = Tail(down[w])]
        /\ UNCHANGED <<up, batch, receipt, phase>>
    BY <1>4, ReadType DEF ReadResult, Deposit, CrewInv
  <2>2. \A v \in Workers : ready'[v] = <<>> => ready[v] = <<>>
    <3>1. PICK v, p, q : ready' = [ready EXCEPT ![v] = IF q THEN Append(@, p) ELSE @]
      BY <1>4 DEF ReadResult, Deposit
    <3>2. \A s \in Seq(Tasks) : \A x : Append(s, x) # <<>>
      OBVIOUS
    <3> QED BY <3>1, <3>2 DEF CrewInv, CrewType
  <2>3. \E msgs \in Seq(Messages) : Spoke(w, msgs, {}, 0)
    BY <2>1, Silent DEF CrewInv
  <2>4. OthersRest(w) /\ GoesOn(w)
    BY <2>1, <2>2 DEF OthersRest, GoesOn, CrewInv, CrewType
  <2> QED BY <2>3, <2>4 DEF Acts, Says
<1>5. CASE Promote(w)
  <2>1. /\ phase[w] = "look" /\ ready' = [ready EXCEPT ![w] = <<Last(delayed[w])>>]
        /\ \E msgs \in Seq(Messages) : Spoke(w, msgs, {}, 0)
        /\ UNCHANGED <<down, batch, receipt, phase>>
    BY <1>5, PromoteEffect DEF CrewInv
  <2>2. \A v \in Workers \ {w} : up'[v] = up[v]
    BY <2>1, SpokeSent DEF CrewInv
  <2>3. OthersRest(w) /\ GoesOn(w)
    BY <2>1, <2>2 DEF OthersRest, GoesOn, CrewInv, CrewType
  <2> QED BY <2>1, <2>3 DEF Acts, Says
<1>6. CASE NothingDelayed(w)
  <2>1. /\ phase' = [phase EXCEPT ![w] = "pop"]
        /\ UNCHANGED <<down, up, ready, batch, receipt>>
    BY <1>6 DEF NothingDelayed
  <2>2. \E msgs \in Seq(Messages) : Spoke(w, msgs, {}, 0)
    BY <2>1, Silent DEF CrewInv
  <2>3. OthersRest(w) /\ GoesOn(w)
    BY <2>1 DEF OthersRest, GoesOn, CrewInv, CrewType
  <2> QED BY <2>2, <2>3 DEF Acts, Says
<1>7. CASE SendWaiting(w)
  <2>1. /\ batch[w] = None /\ phase' = [phase EXCEPT ![w] = "block"]
        /\ LET m == Waiting(1, receipt[w]) IN
              <<m>> \in Seq(Messages) /\ Spoke(w, <<m>>, {}, 0)
        /\ UNCHANGED <<down, ready, batch, receipt>>
    BY <1>7, SendWaitingEffect DEF CrewInv
  <2>2. up' = [up EXCEPT ![w] = up[w] \o <<Waiting(1, receipt[w])>>]
    BY <2>1 DEF Spoke
  <2>3. /\ \A v \in Workers \ {w} : up'[v] = up[v]
        /\ up'[w] = up[w] \o <<Waiting(1, receipt[w])>>
    BY <2>2 DEF CrewInv, CrewType
  <2>4. OthersRest(w) /\ GoesOn(w)
    BY <2>1, <2>3 DEF OthersRest, GoesOn, CrewInv, CrewType
  <2> QED BY <2>1, <2>4 DEF Acts, Says
<1>8. ASSUME NEW t \in Tasks, RunToMap(w, t) PROVE Acts(w)
  <2>1. /\ t \notin mapped /\ phase' = [phase EXCEPT ![w] = "look"]
        /\ ready' = [ready EXCEPT ![w] = Tail(ready[w])]
        /\ \E msgs \in Seq(Messages) : Spoke(w, msgs, Kids(t), 0)
        /\ UNCHANGED <<down, batch, receipt>>
    BY <1>8, RunToMapEffect DEF CrewInv, Kids
  <2>2. \A v \in Workers \ {w} : up'[v] = up[v]
    BY <2>1, SpokeSent DEF CrewInv
  <2>3. OthersRest(w) /\ GoesOn(w)
    BY <2>1, <2>2 DEF OthersRest, GoesOn, CrewInv, CrewType
  <2> QED BY <2>1, <2>3 DEF Acts, Says
<1>9. ASSUME NEW t \in Tasks, RunToEnd(w, t) PROVE Acts(w)
  <2>1. home[t] = w => Parent(t) \in Tasks
    <3>1. t \in Roots => home[t] = None
      BY DEF Homes, CrewInv
    <3> QED BY <3>1, NoneAssumption, KidsType
  <2>2. LET p == Parent(t)
            rest == Tail(ready[w])
        IN
        /\ phase' = [phase EXCEPT ![w] = "look"]
        /\ ready' = [ready EXCEPT ![w] =
                       IF home[t] = w /\ missing[p] = {t} THEN Append(rest, p) ELSE rest]
        /\ \E msgs \in Seq(Messages) : Spoke(w, msgs, {}, -1)
        /\ UNCHANGED <<down, batch, receipt>>
    BY <1>9, <2>1, RunToEndEffect DEF CrewInv
  <2>3. \A v \in Workers \ {w} : up'[v] = up[v]
    BY <2>2, SpokeSent DEF CrewInv
  <2>4. phase'[w] = "look" /\ \A v \in Workers \ {w} : phase'[v] = phase[v] /\ ready'[v] = ready[v]
    BY <2>2 DEF CrewInv, CrewType
  <2>5. OthersRest(w) /\ GoesOn(w)
    BY <2>2, <2>3, <2>4 DEF OthersRest, GoesOn, CrewInv, CrewType
  <2> QED BY <2>2, <2>5 DEF Acts, Says
<1> QED BY <1>1, <1>2, <1>3, <1>4, <1>5, <1>6, <1>7, <1>8, <1>9
        DEF WorkerStep, Incoming, Working

\* The boss's cache stays true to the worker.
LEMMA ActsMarks ==
    ASSUME NEW D, Workers \subseteq D, CrewInv(D), NEW w \in Workers, Acts(w),
           NEW v \in Workers, NEW e \in Seq(Entries),
           Marks(e, up[v], down[v], receipt[v], batch[v] # None)
    PROVE  Marks(e, up'[v], down'[v], receipt'[v], batch'[v] # None)
<1>1. CASE v # w
  <2>1. /\ up'[v] = up[v] /\ down'[v] = down[v] /\ receipt'[v] = receipt[v]
        /\ batch'[v] = batch[v]
    BY <1>1 DEF Acts, OthersRest
  <2> QED BY <2>1
<1>2. CASE v = w
  <2>1. up[w] \in Seq(Messages) /\ down[w] \in Seq(Messages)
    BY DEF CrewInv, CrewType
  <2>2. CASE StartsBatch(w)
    <3>1. Marks(e, up[w], down[w], receipt[w], FALSE)
      BY <1>2, <2>2 DEF StartsBatch
    <3>2. Marks(e, up[w], Tail(down[w]), Head(down[w]).tasks[1], TRUE)
      BY <2>1, <2>2, <3>1, MarksRead DEF StartsBatch
    <3> QED BY <1>2, <2>2, <3>2 DEF StartsBatch
  <2>3. PICK msgs \in Seq(Messages) : \E G, k : Spoke(w, msgs, G, k)
    BY DEF Acts, Says
  <2>4. /\ up'[w] = up[w] \o msgs
        /\ \A i \in DOMAIN msgs : msgs[i].type = "WAITING" =>
              batch[w] = None /\ msgs[i] = Waiting(1, receipt[w])
    BY <2>3 DEF Spoke, CrewInv, CrewType
  <2>5. \A i \in DOMAIN msgs : msgs[i].type = "WAITING" =>
              ~(batch[w] # None) /\ msgs[i].receipt = receipt[w]
    BY <2>4 DEF Waiting
  <2>6. Marks(e, up[w] \o msgs, down[w], receipt[w], batch[w] # None)
    <3> DEFINE busy == batch[w] # None
    <3>1. busy \in BOOLEAN /\ Marks(e, up[w], down[w], receipt[w], busy)
          /\ \A i \in DOMAIN msgs : msgs[i].type = "WAITING" =>
                ~busy /\ msgs[i].receipt = receipt[w]
      BY <1>2, <2>5
    <3> HIDE DEF busy
    <3>2. Marks(e, up[w] \o msgs, down[w], receipt[w], busy)
      BY <2>1, <3>1, MarksSpeak
    <3> QED BY <3>2 DEF busy
  <2>7. CASE EndsBatch(w)
    <3>1. Marks(e, up[w] \o msgs, down[w], receipt[w], TRUE)
      BY <2>6, <2>7 DEF EndsBatch
    <3>2. Marks(e, up[w] \o msgs, down[w], receipt[w], FALSE)
      BY <3>1, MarksFree
    <3> QED BY <1>2, <2>4, <2>7, <3>2 DEF EndsBatch
  <2>8. CASE GoesOn(w)
    <3>1. Unread(down'[w]) = Unread(down[w])
      BY <2>1, <2>8, UnreadSame DEF GoesOn
    <3>2. Marks(e, up[w] \o msgs, down'[w], receipt[w], batch[w] # None)
      BY <2>6, <3>1 DEF Marks
    <3> QED BY <1>2, <2>4, <2>8, <3>2 DEF GoesOn
  <2> QED BY <2>2, <2>7, <2>8 DEF Acts
<1> QED BY <1>1, <1>2

\* An employee counted as idle, n > 0, has read all it was sent, and nothing it has
\* yet to be heard saying is out of date.
IdleRight(n, u, d, r, busy) ==
    /\ \A m \in Range(u) : m.type = "WAITING" => m.idle = 1
    /\ n > 0 => /\ ~busy /\ Unread(d) = <<>>
                /\ \A m \in Range(u) : m.type = "WAITING" => m.receipt = r

\* It is counted as idle, will find a batch, or will be heard to wait.
Heard(n, u, d, r) ==
    \/ n = 1 \/ Unread(d) # <<>>
    \/ \E m \in Range(u) : m.type = "WAITING" /\ m.receipt = r

Rests(v)      == phase[v] = "block" /\ ready[v] = <<>>
Noticed(v, n) == Rests(v) => batch[v] = None /\ Heard(n, up[v], down[v], receipt[v])

\* The idle count of a worker stays right when a worker acts.
LEMMA ActsIdle ==
    ASSUME NEW D, Workers \subseteq D, CrewInv(D), NEW w \in Workers, Acts(w),
           NEW v \in Workers, NEW n,
           IdleRight(n, up[v], down[v], receipt[v], batch[v] # None)
    PROVE  IdleRight(n, up'[v], down'[v], receipt'[v], batch'[v] # None)
<1>1. CASE v # w
  <2>1. /\ up'[v] = up[v] /\ down'[v] = down[v] /\ receipt'[v] = receipt[v]
        /\ batch'[v] = batch[v]
    BY <1>1 DEF Acts, OthersRest
  <2> QED BY <2>1
<1>2. CASE v = w
  <2>1. up[w] \in Seq(Messages) /\ down[w] \in Seq(Messages)
    BY DEF CrewInv, CrewType
  <2>2. CASE StartsBatch(w)
    <3>1. Unread(down[w]) # <<>>
      <4>1. down[w] # <<>> /\ Head(down[w]).type = "SUBMIT_BATCH"
        BY <2>2 DEF StartsBatch
      <4>2. Sent(down[w]) = SentBy(Head(down[w])) \cup Sent(Tail(down[w]))
            /\ Head(down[w]) \in Messages
        BY <2>1, <4>1, SentTail
      <4>3. Head(down[w]).tasks \in Seq(Tasks) /\ Head(down[w]).tasks # <<>>
        BY <4>1, <4>2, Fields
      <4>4. Head(down[w]).tasks[1] \in Range(Head(down[w]).tasks)
        BY <4>3 DEF Range
      <4> QED BY <2>1, <4>1, <4>2, <4>4, UnreadType DEF SentBy
    <3>2. ~(n > 0)
      BY <1>2, <3>1 DEF IdleRight
    <3> QED BY <1>2, <2>2, <3>2 DEF IdleRight, StartsBatch
  <2>3. PICK msgs \in Seq(Messages) : \E G, k : Spoke(w, msgs, G, k)
    BY DEF Acts, Says
  <2>4. /\ up'[w] = up[w] \o msgs
        /\ \A m \in Range(msgs) : m.type = "WAITING" =>
              batch[w] = None /\ m = Waiting(1, receipt[w])
    <3>1. up'[w] = up[w] \o msgs
      BY <2>3 DEF Spoke, CrewInv, CrewType
    <3>2. \A i \in DOMAIN msgs : msgs[i].type = "WAITING" =>
              batch[w] = None /\ msgs[i] = Waiting(1, receipt[w])
      BY <2>3 DEF Spoke
    <3> QED BY <3>1, <3>2 DEF Range
  <2>5. Range(up'[w]) = Range(up[w]) \cup Range(msgs)
    BY <2>1, <2>4, RangeConcat
  <2>6. \A m \in Range(msgs) : m.type = "WAITING" => m.idle = 1 /\ m.receipt = receipt[w]
    BY <2>4 DEF Waiting
  <2>7. CASE EndsBatch(w)
    <3>1. ~(n > 0)
      BY <1>2, <2>7 DEF IdleRight, EndsBatch
    <3> QED BY <1>2, <2>5, <2>6, <3>1 DEF IdleRight
  <2>8. CASE GoesOn(w)
    <3>1. Unread(down'[w]) = Unread(down[w])
      BY <2>1, <2>8, UnreadSame DEF GoesOn
    <3>2. receipt'[w] = receipt[w] /\ batch'[w] = batch[w]
      BY <2>8 DEF GoesOn
    <3> QED BY <1>2, <2>5, <2>6, <3>1, <3>2 DEF IdleRight
  <2> QED BY <2>2, <2>7, <2>8 DEF Acts
<1> QED BY <1>1, <1>2

\* A worker that comes to rest has told so.
LEMMA ActsNoticed ==
    ASSUME NEW D, Workers \subseteq D, CrewInv(D), NEW w \in Workers, Acts(w),
           NEW v \in Workers, NEW n, Noticed(v, n), Rests(v)'
    PROVE  batch'[v] = None /\ Heard(n, up'[v], down'[v], receipt'[v])
<1>1. CASE v # w
  <2>1. /\ up'[v] = up[v] /\ down'[v] = down[v] /\ receipt'[v] = receipt[v]
        /\ batch'[v] = batch[v] /\ Rests(v)
    BY <1>1 DEF Acts, OthersRest, Rests
  <2> QED BY <2>1 DEF Noticed
<1>2. CASE v = w
  <2>1. up[w] \in Seq(Messages) /\ down[w] \in Seq(Messages)
    BY DEF CrewInv, CrewType
  <2>2. ~StartsBatch(w)
    BY <1>2 DEF StartsBatch, Rests
  <2>3. ~EndsBatch(w)
    BY <1>2 DEF EndsBatch, Rests, Noticed
  <2>4. GoesOn(w)
    BY <2>2, <2>3 DEF Acts
  <2>5. PICK msgs \in Seq(Messages) : \E G, k : Spoke(w, msgs, G, k)
    BY DEF Acts, Says
  <2>6. up'[w] = up[w] \o msgs
    BY <2>5 DEF Spoke, CrewInv, CrewType
  <2>7. Range(up'[w]) = Range(up[w]) \cup Range(msgs)
    BY <2>1, <2>6, RangeConcat
  <2>8. Unread(down'[w]) = Unread(down[w])
    BY <2>1, <2>4, UnreadSame DEF GoesOn
  <2>9. receipt'[w] = receipt[w] /\ batch'[w] = batch[w]
    BY <2>4 DEF GoesOn
  <2>10. CASE Rests(w)
    BY <1>2, <2>7, <2>8, <2>9, <2>10 DEF Noticed, Heard
  <2>11. CASE batch[w] = None /\ up'[w] = up[w] \o <<Waiting(1, receipt[w])>>
    <3> DEFINE m == Waiting(1, receipt[w])
               z == <<m>>
    <3>1. z \in Seq(Messages) /\ m \in Range(z) /\ m.type = "WAITING" /\ m.receipt = receipt[w]
      <4>1. m \in Messages
        BY MessagesMade DEF CrewInv, CrewType
      <4>2. z \in Seq(Messages) /\ DOMAIN z = {1} /\ z[1] = m
        BY <4>1
      <4> QED BY <4>2 DEF Range, Waiting
    <3> HIDE DEF z, m
    <3>2. up'[w] = up[w] \o z
      BY <2>11 DEF z, m
    <3>3. Range(up[w] \o z) = Range(up[w]) \cup Range(z)
      BY <2>1, <3>1, RangeConcat
    <3>4. m \in Range(up'[w])
      BY <3>1, <3>2, <3>3
    <3> QED BY <1>2, <2>9, <2>11, <3>1, <3>4 DEF Heard
  <2> QED BY <1>2, <2>4, <2>10, <2>11 DEF GoesOn, Rests
<1> QED BY <1>1, <1>2

----------------------------------------------------------------------------
(* assign_tasks: every task is dealt to one employee.                      *)

\* The total of a function is the sum over its domain.
LEMMA TotalIsSum ==
    ASSUME NEW S, IsFiniteSet(S), NEW f \in [S -> Int]
    PROVE  Total(f) = Sums(f, S)[S]
<1>1. DOMAIN f = S
  OBVIOUS
<1>2. Total(f) = Sums(f, DOMAIN f)[DOMAIN f]
  BY DEF Total, FoldFunction, FoldFunctionOnSet, MapThenFoldSet, Sums, SumBody
<1> QED BY <1>1, <1>2

\* assign_tasks deals every task: its order is a permutation.
LEMMA DealOrderPermutes ==
    ASSUME NEW n \in Nat, NEW k \in 0..n
    PROVE  LET o == DealOrder(n, k) IN
           /\ o \in [1..n -> 1..n]
           /\ \A i, j \in 1..n : o[i] = o[j] => i = j
           /\ \A j \in 1..n : \E i \in 1..n : o[i] = j
<1> DEFINE o == DealOrder(n, k)
<1>1. /\ DOMAIN o = 1..n /\ o = [i \in 1..n |-> o[i]]
      /\ \A i \in 1..n : o[i] = IF i <= k THEN i ELSE n + k + 1 - i
  BY DEF DealOrder
<1> HIDE DEF o
<1>2. \A i \in 1..n : o[i] \in 1..n
  BY <1>1
<1>3. \A i, j \in 1..n : o[i] = o[j] => i = j
  BY <1>1
<1>4. ASSUME NEW j \in 1..n PROVE \E i \in 1..n : o[i] = j
  <2>1. CASE j <= k
    BY <1>1, <2>1
  <2>2. CASE ~(j <= k)
    <3>1. /\ n + k + 1 - j \in 1..n /\ ~(n + k + 1 - j <= k)
          /\ n + k + 1 - (n + k + 1 - j) = j
      BY <2>2
    <3> QED BY <1>1, <3>1
  <2> QED BY <2>1, <2>2
<1>5. o \in [1..n -> 1..n]
  BY <1>1, <1>2
<1> QED BY <1>3, <1>4, <1>5 DEF o

\* What one employee gets: its tasks, in the dealt order, each once.
LEMMA ShareType ==
    ASSUME NEW ts \in Seq(Tasks), NEW o \in [1..Len(ts) -> 1..Len(ts)],
           \A i, j \in 1..Len(ts) : o[i] = o[j] => i = j,
           NEW place, NEW e
    PROVE  LET mine == Share(ts, o, place, e) IN
           /\ mine \in Seq(Tasks)
           /\ Range(mine) = {ts[o[i]] : i \in {j \in 1..Len(ts) : place[j] = e}}
           /\ NoRepeat(ts) => NoRepeat(mine)
<1> DEFINE N == 1..Len(ts)
           all == [i \in DOMAIN ts |-> i]
           S == {i \in DOMAIN ts : place[i] = e}
           ids == Filtered(all, S)
           mine == [i \in DOMAIN ids |-> ts[o[ids[i]]]]
<1>1. DOMAIN ts = N /\ Len(ts) \in Nat /\ \A i \in N : ts[i] \in Tasks
  OBVIOUS
<1>2. all \in Seq(N) /\ DOMAIN all = N /\ \A i \in N : all[i] = i
  BY <1>1
<1> HIDE DEF all
<1>3. Range(all) = N /\ NoRepeat(all)
  BY <1>2 DEF Range, NoRepeat
<1>4. ids \in Seq(N) /\ Range(ids) = N \cap S /\ NoRepeat(ids)
  BY <1>2, <1>3, FilteredRange
<1>5. S = {j \in N : place[j] = e} /\ S \subseteq N
  BY <1>1
<1> HIDE DEF ids, S, N
<1>6. /\ Len(ids) \in Nat /\ DOMAIN ids = 1..Len(ids) /\ \A i \in DOMAIN ids : ids[i] \in N
  BY <1>4
<1>7. \A i \in DOMAIN ids : ts[o[ids[i]]] \in Tasks
  BY <1>1, <1>6 DEF N
<1>8. mine \in Seq(Tasks) /\ DOMAIN mine = DOMAIN ids
      /\ \A i \in DOMAIN ids : mine[i] = ts[o[ids[i]]]
  BY <1>6, <1>7
<1> HIDE DEF mine
<1>9. Range(mine) = {ts[o[i]] : i \in S}
  <2>1. \A x : x \in Range(mine) <=> \E i \in DOMAIN ids : x = ts[o[ids[i]]]
    BY <1>8 DEF Range
  <2>2. \A i : i \in S <=> \E l \in DOMAIN ids : ids[l] = i
    BY <1>4, <1>5 DEF Range
  <2> QED BY <2>1, <2>2
<1>10. ASSUME NoRepeat(ts) PROVE NoRepeat(mine)
  <2>1. ASSUME NEW i \in DOMAIN ids, NEW j \in DOMAIN ids, mine[i] = mine[j]
        PROVE  i = j
    <3>1. ids[i] \in N /\ ids[j] \in N /\ o[ids[i]] \in N /\ o[ids[j]] \in N
      BY <1>6 DEF N
    <3>2. o[ids[i]] = o[ids[j]]
      BY <1>1, <1>8, <1>10, <2>1, <3>1 DEF NoRepeat
    <3>3. ids[i] = ids[j]
      BY <3>1, <3>2 DEF N
    <3> QED BY <1>4, <3>3 DEF NoRepeat
  <2> QED BY <1>8, <2>1 DEF NoRepeat
<1>11. Share(ts, o, place, e) = mine
  BY DEF Share, mine, ids, all, S
<1> QED BY <1>5, <1>8, <1>9, <1>10, <1>11 DEF N

Dealt(ts, share, E) ==
    /\ share \in [E -> Seq(Tasks)]
    /\ Range(ts) = UNION {Range(share[e]) : e \in E}
    /\ \A e \in E : NoRepeat(share[e])
    /\ \A e, g \in E : e # g => Range(share[e]) \cap Range(share[g]) = {}

\* Every assignment deals each task to exactly one employee.
LEMMA AssignmentsDeal ==
    ASSUME NEW E, NEW idle, DOMAIN idle = E, Total(idle) \in Nat, NEW numTasks,
           NEW ts \in Seq(Tasks), NoRepeat(ts),
           NEW share \in Assignments(ts, idle, numTasks)
    PROVE  Dealt(ts, share, E)
<1> DEFINE n == Len(ts)
           k == Capped(n, 0, Total(idle))
           o == DealOrder(n, k)
<1>1. n \in Nat /\ k \in 0..n /\ DOMAIN ts = 1..n
  BY DEF Capped
<1>2. PICK place \in [1..n -> E] : share = [e \in E |-> Share(ts, o, place, e)]
  BY DEF Assignments
<1> HIDE DEF k
<1>3. /\ o \in [1..n -> 1..n] /\ \A i, j \in 1..n : o[i] = o[j] => i = j
      /\ \A j \in 1..n : \E i \in 1..n : o[i] = j
  BY <1>1, DealOrderPermutes
<1> HIDE DEF o
<1>4. ASSUME NEW e \in E
      PROVE  /\ share[e] \in Seq(Tasks) /\ NoRepeat(share[e])
             /\ Range(share[e]) = {ts[o[i]] : i \in {j \in 1..n : place[j] = e}}
  <2>1. share[e] = Share(ts, o, place, e)
    BY <1>2
  <2>2. /\ Share(ts, o, place, e) \in Seq(Tasks)
        /\ Range(Share(ts, o, place, e)) = {ts[o[i]] : i \in {j \in 1..Len(ts) : place[j] = e}}
        /\ NoRepeat(ts) => NoRepeat(Share(ts, o, place, e))
    BY <1>3, ShareType, Zenon
  <2> QED BY <2>1, <2>2
<1>5. share \in [E -> Seq(Tasks)]
  BY <1>2, <1>4
<1> HIDE DEF n
<1>6. \A e \in E : Range(share[e]) = {ts[o[i]] : i \in {j \in 1..n : place[j] = e}}
  BY <1>4 DEF n
<1>7. ASSUME NEW e \in E, NEW g \in E, e # g, NEW t,
             t \in Range(share[e]), t \in Range(share[g])
      PROVE  FALSE
  <2>1. PICK i \in 1..n : place[i] = e /\ t = ts[o[i]]
    <3>1. t \in {ts[o[i]] : i \in {j \in 1..n : place[j] = e}}
      BY <1>6, <1>7
    <3> QED BY <3>1
  <2>2. PICK j \in 1..n : place[j] = g /\ t = ts[o[j]]
    <3>1. t \in {ts[o[y]] : y \in {x \in 1..n : place[x] = g}}
      BY <1>6, <1>7
    <3> QED BY <3>1
  <2>3. o[i] \in 1..n /\ o[j] \in 1..n
    BY <1>3
  <2>4. o[i] = o[j]
    BY <1>1, <2>1, <2>2, <2>3 DEF NoRepeat
  <2> QED BY <1>3, <1>7, <2>1, <2>2, <2>4
<1>8. ASSUME NEW t PROVE t \in Range(ts) <=> \E e \in E : t \in Range(share[e])
  <2>1. ASSUME t \in Range(ts) PROVE \E e \in E : t \in Range(share[e])
    <3>1. PICK j \in 1..n : t = ts[j]
      BY <1>1, <2>1 DEF Range
    <3>2. PICK i \in 1..n : o[i] = j
      BY <1>3
    <3>3. place[i] \in E
      BY <1>2 DEF n
    <3> QED BY <1>6, <3>1, <3>2, <3>3
  <2>2. ASSUME NEW e \in E, t \in Range(share[e]) PROVE t \in Range(ts)
    <3>1. PICK i \in 1..n : t = ts[o[i]]
      <4>1. t \in {ts[o[i]] : i \in {j \in 1..n : place[j] = e}}
        BY <1>6, <2>2
      <4> QED BY <4>1
    <3>2. o[i] \in 1..n
      BY <1>3
    <3> QED BY <1>1, <3>1, <3>2 DEF Range
  <2> QED BY <2>1, <2>2
<1>9. Range(ts) = UNION {Range(share[e]) : e \in E}
  BY <1>8
<1> QED BY <1>4, <1>5, <1>7, <1>9 DEF Dealt

----------------------------------------------------------------------------
(* What a step of a boss means to the tasks.                               *)

Given(q, ts) == IF ts = <<>> THEN q ELSE Append(q, Batch(ts))

\* A batch put into a queue, or nothing if the share is empty.
LEMMA GivenType ==
    ASSUME NEW q \in Seq(Messages), NEW ts \in Seq(Tasks)
    PROVE  /\ Given(q, ts) \in Seq(Messages)
           /\ Sent(Given(q, ts)) = Sent(q) \cup Range(ts)
           /\ OnceEach(q) /\ NoRepeat(ts) /\ Sent(q) \cap Range(ts) = {}
                => OnceEach(Given(q, ts))
           /\ \A m \in Range(Given(q, ts)) : m \in Range(q) \/ m.type = "SUBMIT_BATCH"
<1>1. CASE ts = <<>>
  BY <1>1, RangeType DEF Given
<1>2. CASE ts # <<>>
  <2> DEFINE m == Batch(ts)
  <2>1. m \in Messages /\ SentBy(m) = Range(ts) /\ m.tasks = ts /\ m.type = "SUBMIT_BATCH"
    BY <1>2, MessagesMade, Carried DEF Batch
  <2>2. Given(q, ts) = Append(q, m)
    BY <1>2 DEF Given
  <2> HIDE DEF m
  <2>3. Range(Append(q, m)) = Range(q) \cup {m}
    BY <2>1, RangeAppend
  <2> QED BY <2>1, <2>2, <2>3, SentAppend
<1> QED BY <1>1, <1>2

\* The tasks of a batch go to the queues of employees ...
Toward(D, E, ts, share, to) ==
    /\ DOMAIN to = Spots(D) /\ Apart(to)
    /\ \A e \in E : <<"down", e>> \in Spots(D) /\ to[<<"down", e>>] = Range(share[e])
    /\ \A s \in Spots(D) : (\A e \in E : s # <<"down", e>>) => to[s] = {}
    /\ UNION {to[s] : s \in Spots(D)} = Range(ts)

\* Where dealt tasks go, as a function on the spots.
LEMMA TowardExists ==
    ASSUME NEW D, NEW E \in SUBSET D, NEW ts, NEW share, Dealt(ts, share, E)
    PROVE  \E to : Toward(D, E, ts, share, to)
<1> DEFINE to == [s \in Spots(D) |-> IF \E e \in E : s = <<"down", e>>
                                     THEN Range(share[s[2]]) ELSE {}]
<1>1. /\ DOMAIN to = Spots(D)
      /\ \A e \in E : <<"down", e>> \in Spots(D) /\ to[<<"down", e>>] = Range(share[e])
      /\ \A s \in Spots(D) : (\A e \in E : s # <<"down", e>>) => to[s] = {}
  BY LayoutType
<1> HIDE DEF to
<1>2. /\ Range(ts) = UNION {Range(share[e]) : e \in E}
      /\ \A e, g \in E : e # g => Range(share[e]) \cap Range(share[g]) = {}
  BY DEF Dealt
<1>3. UNION {to[s] : s \in Spots(D)} = Range(ts)
  <2>1. ASSUME NEW s \in Spots(D), NEW x \in to[s] PROVE x \in Range(ts)
    <3>1. PICK e \in E : s = <<"down", e>>
      BY <1>1, <2>1
    <3> QED BY <1>1, <1>2, <2>1, <3>1
  <2>2. ASSUME NEW e \in E, NEW x \in Range(share[e]) PROVE \E s \in Spots(D) : x \in to[s]
    BY <1>1, <2>2
  <2> QED BY <1>2, <2>1, <2>2
<1>4. Apart(to)
  <2>1. ASSUME NEW s \in Spots(D), NEW r \in Spots(D), s # r PROVE to[s] \cap to[r] = {}
    <3>1. CASE (\E e \in E : s = <<"down", e>>) /\ (\E e \in E : r = <<"down", e>>)
      <4>1. PICK e \in E, g \in E : s = <<"down", e>> /\ r = <<"down", g>>
        BY <3>1
      <4> QED BY <1>1, <1>2, <2>1, <4>1
    <3> QED BY <1>1, <3>1
  <2> QED BY <1>1, <2>1 DEF Apart
<1> QED BY <1>1, <1>3, <1>4 DEF Toward

\* ... from where they were ...
LEMMA DealtPlaced ==
    ASSUME NEW D, NEW E \in SUBSET D, NEW ts, NEW share, Dealt(ts, share, E),
           Apart(Layout(D)),
           NEW from \in Spots(D), \A e \in E : from # <<"down", e>>,
           Range(ts) \subseteq Layout(D)[from],
           Layout(D)'[from] = Layout(D)[from] \ Range(ts),
           \A e \in E : Layout(D)'[<<"down", e>>] = Layout(D)[<<"down", e>>] \cup Range(share[e]),
           \A s \in Spots(D) \ {from} :
              (\A e \in E : s # <<"down", e>>) => Layout(D)'[s] = Layout(D)[s]
    PROVE  Apart(Layout(D))' /\ Everywhere(Layout(D))' = Everywhere(Layout(D))
<1>0. PICK to : Toward(D, E, ts, share, to)
  BY TowardExists
<1>1. /\ DOMAIN to = Spots(D) /\ Apart(to)
      /\ \A e \in E : <<"down", e>> \in Spots(D) /\ to[<<"down", e>>] = Range(share[e])
      /\ \A s \in Spots(D) : (\A e \in E : s # <<"down", e>>) => to[s] = {}
      /\ UNION {to[s] : s \in Spots(D)} = Range(ts)
  BY <1>0 DEF Toward
<1>2. DOMAIN Layout(D) = Spots(D) /\ DOMAIN Layout(D)' = Spots(D)
  BY LayoutType
<1>3. ASSUME NEW s \in Spots(D), s # from
      PROVE  Layout(D)'[s] = Layout(D)[s] \cup to[s]
  <2>1. CASE \E e \in E : s = <<"down", e>>
    <3>1. PICK e \in E : s = <<"down", e>>
      BY <2>1
    <3> QED BY <1>1, <3>1
  <2>2. CASE ~\E e \in E : s = <<"down", e>>
    <3>1. Layout(D)'[s] = Layout(D)[s] /\ to[s] = {}
      BY <1>1, <1>3, <2>2
    <3> QED BY <3>1
  <2> QED BY <2>1, <2>2
<1>4. to[from] = {}
  BY <1>1
<1>5. Shift(Layout(D), Layout(D)', from, to)
  BY <1>1, <1>2, <1>3, <1>4 DEF Shift
<1>6. Apart(Layout(D)') /\ Everywhere(Layout(D)') = Everywhere(Layout(D))
  BY <1>2, <1>5, ShiftApart
<1> QED BY <1>6 DEF Apart, Everywhere

\* ... or from a client.
LEMMA NewDealtPlaced ==
    ASSUME NEW D, NEW E \in SUBSET D, NEW ts, NEW share, Dealt(ts, share, E),
           Apart(Layout(D)), Range(ts) \cap Everywhere(Layout(D)) = {},
           \A e \in E : Layout(D)'[<<"down", e>>] = Layout(D)[<<"down", e>>] \cup Range(share[e]),
           \A s \in Spots(D) :
              (\A e \in E : s # <<"down", e>>) => Layout(D)'[s] = Layout(D)[s]
    PROVE  /\ Apart(Layout(D))'
           /\ Everywhere(Layout(D))' = Everywhere(Layout(D)) \cup Range(ts)
<1>0. PICK to : Toward(D, E, ts, share, to)
  BY TowardExists
<1>1. /\ DOMAIN to = Spots(D) /\ Apart(to)
      /\ \A e \in E : <<"down", e>> \in Spots(D) /\ to[<<"down", e>>] = Range(share[e])
      /\ \A s \in Spots(D) : (\A e \in E : s # <<"down", e>>) => to[s] = {}
      /\ UNION {to[s] : s \in Spots(D)} = Range(ts)
  BY <1>0 DEF Toward
<1>2. DOMAIN Layout(D) = Spots(D) /\ DOMAIN Layout(D)' = Spots(D)
  BY LayoutType
<1>3. ASSUME NEW s \in Spots(D)
      PROVE  Layout(D)'[s] = Layout(D)[s] \cup to[s]
  <2>1. CASE \E e \in E : s = <<"down", e>>
    <3>1. PICK e \in E : s = <<"down", e>>
      BY <2>1
    <3> QED BY <1>1, <3>1
  <2>2. CASE ~\E e \in E : s = <<"down", e>>
    <3>1. Layout(D)'[s] = Layout(D)[s] /\ to[s] = {}
      BY <1>1, <2>2
    <3> QED BY <3>1
  <2> QED BY <2>1, <2>2
<1>4. Spread(Layout(D), Layout(D)', to)
  BY <1>1, <1>2, <1>3 DEF Spread
<1>5. /\ Apart(Layout(D)')
      /\ Everywhere(Layout(D)') = Everywhere(Layout(D)) \cup UNION {to[s] : s \in Spots(D)}
  BY <1>2, <1>4, SpreadApart
<1> QED BY <1>1, <1>5 DEF Apart, Everywhere

\* The workers stand still; roots may be new.
LEMMA BossKeeps ==
    ASSUME NEW D, CrewInv(D), UNCHANGED <<worker, tree>>,
           down' \in [D -> Seq(Messages)], up' \in [D -> Seq(Messages)],
           Apart(Layout(D))', NEW N \in SUBSET Roots,
           Everywhere(Layout(D))' = Everywhere(Layout(D)) \cup N,
           \A e \in D : OnceEach(down'[e]) /\ OnceEach(up'[e]),
           Results(D)'
    PROVE  CrewInv(D)'
<1> USE DEF CrewInv
<1>1. UNCHANGED <<ready, delayed, held, batch, receipt, reported, phase,
                  home, missing, mapped, finished>>
  BY DEF worker, tree
<1>2. CrewType(D)'
  BY <1>1 DEF CrewType
<1>3. Placed(D)'
  BY <1>1 DEF Placed, Once
<1>4. Homes' /\ Readies'
  BY <1>1 DEF Homes, Readies, Kids
<1>5. \A p \in Tasks : Kids(p) \cap N = {}
  BY KidsType
<1>6. Tree(D)'
  BY <1>1, <1>5 DEF Tree, Kids
<1> QED BY <1>2, <1>3, <1>4, <1>6

\* Nothing of a batch moves.
LEMMA StillPlaced ==
    ASSUME NEW D, UNCHANGED <<worker, tree>>, Apart(Layout(D)),
           \A e \in D : Sent(down'[e]) = Sent(down[e]) /\ Sent(up'[e]) = Sent(up[e])
    PROVE  /\ Layout(D)' = Layout(D) /\ Apart(Layout(D))'
           /\ Everywhere(Layout(D))' = Everywhere(Layout(D))
<1>1. UNCHANGED <<delayed, held, batch, finished>>
  BY DEF worker, tree
<1>2. ASSUME NEW s \in Spots(D) PROVE Lies(s)' = Lies(s)
  <2>1. CASE \E e \in D : s = <<"down", e>> \/ s = <<"up", e>>
    BY <2>1, LiesAt
  <2>2. CASE \E v \in Workers : s = <<"batch", v>> \/ s = <<"delayed", v>>
                                \/ s = <<"held", v>>
    BY <1>1, <2>2, LiesAt DEF Batched
  <2>3. CASE s = <<"over", None>>
    BY <1>1, <2>3, LiesAt
  <2> QED BY <2>1, <2>2, <2>3, LayoutType
<1>3. Layout(D)' = Layout(D)
  BY <1>2 DEF Layout, Spots
<1> QED BY <1>3 DEF Apart, Everywhere

----------------------------------------------------------------------------
(* Totals.                                                                 *)

\* A total is a sum: it can be taken an element at a time.
LEMMA TotalSums ==
    ASSUME NEW S, IsFiniteSet(S), NEW f \in [S -> Int]
    PROVE  /\ Total(f) = Sums(f, S)[S] /\ Total(f) \in Int
           /\ Sums(f, S) \in [SUBSET S -> Int] /\ Sums(f, S)[{}] = 0
           /\ \A T \in SUBSET S : \A x \in S \ T :
                 Sums(f, S)[T \cup {x}] = f[x] + Sums(f, S)[T]
<1> DEFINE it == Sums(f, S)
<1>1. /\ it \in [SUBSET S -> Int] /\ it[{}] = 0
      /\ \A T \in SUBSET S : \A x \in T : it[T] = f[x] + it[T \ {x}]
  <2>1. SummedUp(Sums(f, S), f, S)
    BY SumsStep
  <2> QED BY <2>1 DEF SummedUp
<1>2. Total(f) = it[S]
  BY TotalIsSum
<1> HIDE DEF it
<1>3. ASSUME NEW T \in SUBSET S, NEW x \in S \ T PROVE it[T \cup {x}] = f[x] + it[T]
  <2> DEFINE R == T \cup {x}
  <2>1. R \in SUBSET S /\ x \in R /\ R \ {x} = T
    OBVIOUS
  <2> HIDE DEF R
  <2>2. it[R] = f[x] + it[T]
    BY <1>1, <2>1
  <2> QED BY <2>2 DEF R
<1> QED BY <1>1, <1>2, <1>3 DEF it

\* A total of natural numbers is one, and no less than any of them.
LEMMA TotalNat ==
    ASSUME NEW S, IsFiniteSet(S), NEW f \in [S -> Nat]
    PROVE  Total(f) \in Nat /\ \A x \in S : f[x] <= Total(f)
<1> DEFINE it == Sums(f, S)
           F == {T \in SUBSET S : it[T] \in Nat /\ \A x \in T : f[x] <= it[T]}
<1>0. f \in [S -> Int]
  OBVIOUS
<1>1. /\ Total(f) = it[S] /\ it[{}] = 0
      /\ \A T \in SUBSET S : \A x \in S \ T : it[T \cup {x}] = f[x] + it[T]
  BY <1>0, TotalSums
<1> HIDE DEF it
<1>2. {} \in F
  BY <1>1
<1>3. ASSUME NEW T \in SUBSET S, NEW x \in S \ T, T \in F PROVE T \cup {x} \in F
  <2> DEFINE R == T \cup {x}
  <2>1. R \in SUBSET S /\ it[R] = f[x] + it[T] /\ f[x] \in Nat
    BY <1>1
  <2>2. \A y \in R : y = x \/ y \in T
    OBVIOUS
  <2> HIDE DEF R
  <2>3. it[R] \in Nat
    BY <1>3, <2>1
  <2>4. ASSUME NEW y \in R PROVE f[y] <= it[R]
    <3>1. CASE y = x
      BY <1>3, <2>1, <3>1
    <3>2. CASE y \in T
      <4>1. f[y] \in Nat /\ f[y] <= it[T] /\ it[T] \in Nat
        BY <1>3, <3>2
      <4> QED BY <2>1, <4>1
    <3> QED BY <2>2, <3>1, <3>2
  <2>5. R \in F
    BY <2>1, <2>3, <2>4
  <2> QED BY <2>5 DEF R
<1> HIDE DEF F
<1>4. S \in F
  BY <1>2, <1>3, InductionOnSubsets
<1> QED BY <1>1, <1>4 DEF F

\* Totals are added term by term.
LEMMA TotalPlus ==
    ASSUME NEW S, IsFiniteSet(S), NEW f \in [S -> Int], NEW g \in [S -> Int], NEW s \in [S -> Int],
           \A x \in S : s[x] = f[x] + g[x]
    PROVE  Total(s) = Total(f) + Total(g)
<1> DEFINE a == Sums(f, S)
           b == Sums(g, S)
           c == Sums(s, S)
           F == {T \in SUBSET S : c[T] = a[T] + b[T]}
<1>1. /\ Total(f) = a[S] /\ a[{}] = 0 /\ a \in [SUBSET S -> Int]
      /\ \A T \in SUBSET S : \A x \in S \ T : a[T \cup {x}] = f[x] + a[T]
  BY TotalSums
<1>2. /\ Total(g) = b[S] /\ b[{}] = 0 /\ b \in [SUBSET S -> Int]
      /\ \A T \in SUBSET S : \A x \in S \ T : b[T \cup {x}] = g[x] + b[T]
  BY TotalSums
<1>3. /\ Total(s) = c[S] /\ c[{}] = 0 /\ c \in [SUBSET S -> Int]
      /\ \A T \in SUBSET S : \A x \in S \ T : c[T \cup {x}] = s[x] + c[T]
  BY TotalSums
<1> HIDE DEF a, b, c
<1>4. {} \in F
  BY <1>1, <1>2, <1>3
<1>5. ASSUME NEW T \in SUBSET S, NEW x \in S \ T, T \in F PROVE T \cup {x} \in F
  <2> DEFINE R == T \cup {x}
  <2>1. R \in SUBSET S /\ a[R] = f[x] + a[T] /\ b[R] = g[x] + b[T] /\ c[R] = s[x] + c[T]
    BY <1>1, <1>2, <1>3
  <2>2. s[x] = f[x] + g[x] /\ f[x] \in Int /\ g[x] \in Int
    OBVIOUS
  <2>3. c[T] = a[T] + b[T] /\ a[T] \in Int /\ b[T] \in Int
    BY <1>1, <1>2, <1>5
  <2> HIDE DEF R
  <2>4. c[R] = a[R] + b[R]
    BY <2>1, <2>2, <2>3
  <2>5. R \in F
    BY <2>1, <2>4
  <2> QED BY <2>5 DEF R
<1> HIDE DEF F
<1>6. S \in F
  BY <1>4, <1>5, InductionOnSubsets
<1>7. c[S] = a[S] + b[S]
  BY <1>6 DEF F
<1> QED BY <1>1, <1>2, <1>3, <1>7

\* One term may change.
LEMMA TotalChange ==
    ASSUME NEW S, IsFiniteSet(S), NEW f \in [S -> Int], NEW g \in [S -> Int],
           NEW c \in S, \A x \in S \ {c} : f[x] = g[x]
    PROVE  Total(g) = Total(f) - f[c] + g[c]
<1>1. Sums(g, S)[S] = Sums(f, S)[S] - f[c] + g[c]
  BY SumsChange
<1> QED BY <1>1, TotalIsSum

\* Smaller terms, smaller total.
LEMMA TotalMonotonic ==
    ASSUME NEW S, IsFiniteSet(S), NEW f \in [S -> Int], NEW g \in [S -> Int],
           \A x \in S : f[x] <= g[x]
    PROVE  Total(f) <= Total(g)
<1> DEFINE d == [x \in S |-> g[x] - f[x]]
<1>1. d \in [S -> Nat] /\ d \in [S -> Int] /\ \A x \in S : g[x] = f[x] + d[x]
  <2>1. \A x \in S : f[x] \in Int /\ g[x] \in Int
    OBVIOUS
  <2> QED BY <2>1
<1> HIDE DEF d
<1>2. Total(g) = Total(f) + Total(d)
  BY <1>1, TotalPlus
<1>3. Total(d) \in Nat /\ Total(f) \in Int
  BY <1>1, TotalNat, TotalSums
<1> QED BY <1>2, <1>3

\* The sum over a part of a set is the same in any larger set.
LEMMA SumsPart ==
    ASSUME NEW U, IsFiniteSet(U), NEW f \in [U -> Int], NEW W \in SUBSET U
    PROVE  Total([x \in W |-> f[x]]) = Sums(f, U)[W]
<1> DEFINE g == [x \in W |-> f[x]]
           a == Sums(f, U)
           b == Sums(g, W)
           F == {T \in SUBSET W : a[T] = b[T]}
<1>1. IsFiniteSet(W) /\ g \in [W -> Int] /\ \A x \in W : g[x] = f[x]
  BY FS_Subset
<1> HIDE DEF g
<1>2. /\ a[{}] = 0
      /\ \A T \in SUBSET U : \A x \in U \ T : a[T \cup {x}] = f[x] + a[T]
  BY TotalSums
<1>3. /\ Total(g) = b[W] /\ b[{}] = 0
      /\ \A T \in SUBSET W : \A x \in W \ T : b[T \cup {x}] = g[x] + b[T]
  BY <1>1, TotalSums
<1> HIDE DEF a, b
<1>4. {} \in F
  BY <1>2, <1>3
<1>5. ASSUME NEW T \in SUBSET W, NEW x \in W \ T, T \in F PROVE T \cup {x} \in F
  <2> DEFINE R == T \cup {x}
  <2>1. R \in SUBSET W /\ a[R] = f[x] + a[T] /\ b[R] = g[x] + b[T]
    BY <1>2, <1>3
  <2>2. a[R] = b[R]
    BY <1>1, <1>5, <2>1
  <2> HIDE DEF R
  <2>3. R \in F
    BY <2>1, <2>2
  <2> QED BY <2>3 DEF R
<1> HIDE DEF F
<1>6. W \in F
  BY <1>1, <1>4, <1>5, InductionOnSubsets
<1>7. a[W] = b[W]
  BY <1>6 DEF F
<1> QED BY <1>3, <1>7 DEF a, g

\* Two disjoint parts.
LEMMA SumsJoin ==
    ASSUME NEW U, IsFiniteSet(U), NEW f \in [U -> Int],
           NEW A \in SUBSET U, NEW B \in SUBSET U, A \cap B = {}
    PROVE  Sums(f, U)[A \cup B] = Sums(f, U)[A] + Sums(f, U)[B]
<1> DEFINE a == Sums(f, U)
           F == {T \in SUBSET B : a[A \cup T] = a[A] + a[T]}
<1>1. /\ a[{}] = 0 /\ a \in [SUBSET U -> Int]
      /\ \A T \in SUBSET U : \A x \in U \ T : a[T \cup {x}] = f[x] + a[T]
  BY TotalSums, ZenonT(30)
<1> HIDE DEF a
<1>2. {} \in F
  <2>1. A \cup {} = A /\ a[A] \in Int
    BY <1>1
  <2> QED BY <1>1, <2>1
<1>3. ASSUME NEW T \in SUBSET B, NEW x \in B \ T, T \in F PROVE T \cup {x} \in F
  <2> DEFINE R == T \cup {x}
             P == A \cup T
  <2>1. R \in SUBSET B /\ a[R] = f[x] + a[T] /\ f[x] \in Int /\ a[T] \in Int /\ a[A] \in Int
    BY <1>1
  <2>2. P \in SUBSET U /\ x \in U \ P /\ A \cup R = P \cup {x}
    OBVIOUS
  <2>3. a[P] = a[A] + a[T]
    BY <1>3
  <2> HIDE DEF R, P
  <2>4. a[P \cup {x}] = f[x] + a[P]
    BY <1>1, <2>2
  <2>5. a[A \cup R] = a[A] + a[R]
    <3>1. a[A \cup R] = a[P \cup {x}]
      BY <2>2
    <3>2. a[P \cup {x}] = f[x] + (a[A] + a[T])
      BY <2>3, <2>4
    <3> QED BY <2>1, <3>1, <3>2
  <2>6. R \in F
    BY <2>1, <2>5
  <2> QED BY <2>6 DEF R
<1>4. IsFiniteSet(B)
  BY FS_Subset
<1> HIDE DEF F
<1>5. B \in F
  BY <1>2, <1>3, <1>4, InductionOnSubsets
<1> QED BY <1>5 DEF F, a

\* A family of sets no two of which have an element in common.
Families(S, X) == \A e, g \in S : e # g => X[e] \cap X[g] = {}

\* The union of the family.
Union(S, X)    == UNION {X[e] : e \in S}

\* The sum over the union of a family is the total of the sums over its sets.
LEMMA SumOfFamily ==
    ASSUME NEW U, IsFiniteSet(U), NEW f \in [U -> Int], NEW S, IsFiniteSet(S),
           NEW X \in [S -> SUBSET U], Families(S, X)
    PROVE  Sums(f, U)[Union(S, X)] = Total([e \in S |-> Sums(f, U)[X[e]]])
<1> DEFINE a == Sums(f, U)
           g == [e \in S |-> a[X[e]]]
           b == Sums(g, S)
           F == {T \in SUBSET S : a[Union(T, X)] = b[T]}
<1>1. a[{}] = 0 /\ a \in [SUBSET U -> Int]
  BY TotalSums
<1>2. \A A, B \in SUBSET U : A \cap B = {} => a[A \cup B] = a[A] + a[B]
  BY SumsJoin
<1> HIDE DEF a
<1>3. g \in [S -> Int] /\ \A e \in S : g[e] = a[X[e]]
  BY <1>1
<1> HIDE DEF g
<1>4. /\ Total(g) = b[S] /\ b[{}] = 0 /\ b \in [SUBSET S -> Int]
      /\ \A T \in SUBSET S : \A x \in S \ T : b[T \cup {x}] = g[x] + b[T]
  BY <1>3, TotalSums, ZenonT(30)
<1> HIDE DEF b
<1>5. {} \in F
  <2>1. Union({}, X) = {}
    BY DEF Union
  <2> QED BY <1>1, <1>4, <2>1
<1>6. ASSUME NEW T \in SUBSET S, NEW x \in S \ T, T \in F PROVE T \cup {x} \in F
  <2> DEFINE R == T \cup {x}
             A == Union(T, X)
  <2>1. R \in SUBSET S /\ b[R] = a[X[x]] + b[T] /\ a[A] = b[T]
    BY <1>3, <1>4, <1>6
  <2>2. Union(R, X) = A \cup X[x] /\ A \in SUBSET U /\ X[x] \in SUBSET U
    BY DEF Union
  <2>3. A \cap X[x] = {}
    BY DEF Families, Union
  <2> HIDE DEF R, A
  <2>4. a[Union(R, X)] = a[A] + a[X[x]] /\ a[A] \in Int /\ a[X[x]] \in Int
    BY <1>1, <1>2, <2>2, <2>3
  <2>5. a[Union(R, X)] = b[R]
    BY <2>1, <2>4
  <2>6. R \in F
    BY <2>1, <2>5
  <2> QED BY <2>6 DEF R
<1> HIDE DEF F
<1>7. S \in F
  BY <1>5, <1>6, InductionOnSubsets
<1>8. a[Union(S, X)] = b[S]
  BY <1>7 DEF F
<1> QED BY <1>4, <1>8 DEF a, g

\* So is the number of elements.
LEMMA SizeOfFamily ==
    ASSUME NEW S, IsFiniteSet(S), NEW X, Families(S, X), \A e \in S : IsFiniteSet(X[e])
    PROVE  /\ IsFiniteSet(Union(S, X))
           /\ Cardinality(Union(S, X)) = Total([e \in S |-> Cardinality(X[e])])
<1> DEFINE g == [e \in S |-> Cardinality(X[e])]
           b == Sums(g, S)
           F == {T \in SUBSET S : /\ IsFiniteSet(Union(T, X))
                                  /\ Cardinality(Union(T, X)) = b[T]}
<1>1. g \in [S -> Int] /\ \A e \in S : g[e] = Cardinality(X[e]) /\ g[e] \in Nat
  BY FS_CardinalityType
<1> HIDE DEF g
<1>2. /\ Total(g) = b[S] /\ b[{}] = 0
      /\ \A T \in SUBSET S : \A x \in S \ T : b[T \cup {x}] = g[x] + b[T]
  BY <1>1, TotalSums
<1> HIDE DEF b
<1>3. {} \in F
  <2>1. Union({}, X) = {}
    BY DEF Union
  <2> QED BY <1>2, <2>1, FS_EmptySet
<1>4. ASSUME NEW T \in SUBSET S, NEW x \in S \ T, T \in F PROVE T \cup {x} \in F
  <2> DEFINE R == T \cup {x}
             A == Union(T, X)
             B == X[x]
  <2>1. R \in SUBSET S /\ b[R] = Cardinality(B) + b[T] /\ Cardinality(A) = b[T]
        /\ IsFiniteSet(A) /\ IsFiniteSet(B)
    BY <1>1, <1>2, <1>4
  <2>2. Union(R, X) = A \cup B
    BY DEF Union
  <2>3. A \cap B = {}
    BY DEF Families, Union
  <2> HIDE DEF R, A, B
  <2>4. /\ IsFiniteSet(A \cup B)
        /\ Cardinality(A \cup B) = Cardinality(A) + Cardinality(B) - Cardinality(A \cap B)
    BY <2>1, FS_Union
  <2>5. Cardinality(A \cap B) = 0 /\ Cardinality(A) \in Nat /\ Cardinality(B) \in Nat
    BY <2>1, <2>3, FS_EmptySet, FS_CardinalityType
  <2>6. IsFiniteSet(Union(R, X)) /\ Cardinality(Union(R, X)) = b[R]
    BY <2>1, <2>2, <2>4, <2>5
  <2>7. R \in F
    BY <2>1, <2>6
  <2> QED BY <2>7 DEF R
<1> HIDE DEF F
<1>5. S \in F
  BY <1>3, <1>4, InductionOnSubsets
<1> QED BY <1>2, <1>5 DEF F, g

----------------------------------------------------------------------------
(* What a boss's cache says of the tasks sent after a receipt.             *)

\* No two batches begin with the same task.
Distinct(q) == \A i, j \in DOMAIN q : q[i][1] = q[j][1] => i = j

\* The tasks of the entries behind position i.
Since(q, i) == CountSent(SubSeq(q, i + 1, Len(q)))

\* What was sent since the receipt r, as the boss computes it.
After(q, r) == SentSince(CutCache(q, r), r)

\* The tasks of two caches in a row, and of one entry.
LEMMA CountSentConcat ==
    /\ \A p, q \in Seq(Entries) : CountSent(p \o q) = CountSent(p) + CountSent(q)
    /\ \A y \in Entries : CountSent(<<y>>) = y[2] /\ y[2] \in Nat
<1> DEFINE s(q) == [i \in DOMAIN q |-> q[i][2]]
<1>1. \A q \in Seq(Entries) : s(q) \in Seq(Int) /\ Len(s(q)) = Len(q)
  <2> SUFFICES ASSUME NEW q \in Seq(Entries) PROVE s(q) \in Seq(Int) /\ Len(s(q)) = Len(q)
    OBVIOUS
  <2>1. Len(q) \in Nat /\ DOMAIN q = 1..Len(q) /\ \A i \in 1..Len(q) : q[i][2] \in Int
    BY DEF Entries
  <2>2. s(q) \in [1..Len(q) -> Int]
    BY <2>1
  <2> HIDE DEF s
  <2> QED BY <2>1, <2>2
<1>2. ASSUME NEW p \in Seq(Entries), NEW q \in Seq(Entries)
      PROVE  CountSent(p \o q) = CountSent(p) + CountSent(q)
  <2>1. p \o q \in Seq(Entries) /\ Len(p \o q) = Len(p) + Len(q)
    OBVIOUS
  <2>2. s(p \o q) = s(p) \o s(q)
    <3>1. s(p) \o s(q) \in Seq(Int) /\ Len(s(p) \o s(q)) = Len(p) + Len(q)
      <4>1. s(p) \in Seq(Int) /\ s(q) \in Seq(Int) /\ Len(s(p)) = Len(p) /\ Len(s(q)) = Len(q)
        BY <1>1
      <4>2. \A a, b \in Seq(Int) : a \o b \in Seq(Int) /\ Len(a \o b) = Len(a) + Len(b)
        OBVIOUS
      <4> HIDE DEF s
      <4> QED BY <4>1, <4>2
    <3>2. ASSUME NEW i \in 1..Len(p \o q) PROVE s(p \o q)[i] = (s(p) \o s(q))[i]
      <4>1. CASE i \in 1..Len(p)
        BY <4>1, <2>1, <1>1
      <4>2. CASE i \notin 1..Len(p)
        <5>1. i - Len(p) \in 1..Len(q) /\ (p \o q)[i] = q[i - Len(p)]
          BY <4>2, <2>1
        <5>2. Len(s(p)) = Len(p) /\ Len(s(q)) = Len(q) /\ s(p) \in Seq(Int) /\ s(q) \in Seq(Int)
          BY <1>1
        <5>3. (s(p) \o s(q))[i] = s(q)[i - Len(p)]
          <6> HIDE DEF s
          <6> QED BY <5>1, <5>2, <4>2, <2>1
        <5> QED BY <5>1, <5>3, <2>1
      <4> QED BY <4>1, <4>2
    <3>3. s(p \o q) \in Seq(Int) /\ Len(s(p \o q)) = Len(p \o q)
      BY <1>1, <2>1
    <3> HIDE DEF s
    <3> QED BY <3>1, <3>2, <3>3, <2>1, SameSequence
  <2>3. s(p) \in Seq(Int) /\ s(q) \in Seq(Int)
    BY <1>1
  <2> HIDE DEF s
  <2>4. SumSeq(s(p) \o s(q)) = SumSeq(s(p)) + SumSeq(s(q))
    BY <2>3, SumConcat
  <2> QED BY <2>2, <2>4 DEF CountSent, s
<1>3. ASSUME NEW y \in Entries PROVE CountSent(<<y>>) = y[2] /\ y[2] \in Nat
  <2>1. y[2] \in Nat
    BY DEF Entries
  <2>2. s(<<y>>) = <<y[2]>>
    OBVIOUS
  <2>3. SumSeq(<<y[2]>>) = y[2]
    BY <2>1, SumTail
  <2> QED BY <2>1, <2>2, <2>3 DEF CountSent
<1> QED BY <1>2, <1>3

\* How many tasks lie behind a position, and one position on.
LEMMA SinceType ==
    ASSUME NEW q \in Seq(Entries)
    PROVE  /\ \A i \in 0..Len(q) : Since(q, i) \in Nat
           /\ \A i \in 0..Len(q) : i < Len(q) => Since(q, i) = q[i + 1][2] + Since(q, i + 1)
           /\ \A y \in Entries, i \in 0..Len(q) :
                 /\ Append(q, y) \in Seq(Entries) /\ y[2] \in Nat
                 /\ Since(Append(q, y), i) = Since(q, i) + y[2]
<1> DEFINE rest(i) == SubSeq(q, i + 1, Len(q))
<1>1. \A i \in 0..Len(q) : rest(i) \in Seq(Entries) /\ Len(rest(i)) = Len(q) - i
                           /\ \A j \in 1..Len(rest(i)) : rest(i)[j] = q[i + j]
  BY SMTT(30)
<1>2. \A i \in 0..Len(q) : Since(q, i) \in Nat
  BY <1>1, CountSentBound DEF Since
<1>3. ASSUME NEW i \in 0..Len(q), i < Len(q) PROVE Since(q, i) = q[i + 1][2] + Since(q, i + 1)
  <2>1. q[i + 1] \in Entries /\ i + 1 \in 0..Len(q)
    BY <1>3
  <2>2. rest(i) \in Seq(Entries) /\ rest(i + 1) \in Seq(Entries) /\ <<q[i + 1]>> \in Seq(Entries)
    BY <2>1, <1>1
  <2>3. rest(i) = <<q[i + 1]>> \o rest(i + 1)
    <3>1. <<q[i + 1]>> \o rest(i + 1) \in Seq(Entries)
          /\ Len(<<q[i + 1]>> \o rest(i + 1)) = 1 + Len(rest(i + 1))
      BY <2>2
    <3>2. \A j \in 1..Len(rest(i)) : (<<q[i + 1]>> \o rest(i + 1))[j] = rest(i)[j]
      <4> SUFFICES ASSUME NEW j \in 1..Len(rest(i))
                   PROVE  (<<q[i + 1]>> \o rest(i + 1))[j] = rest(i)[j]
        OBVIOUS
      <4>1. CASE j = 1
        BY <4>1, <2>1, <2>2, <1>1
      <4>2. CASE j # 1
        <5>1. j - 1 \in 1..Len(rest(i + 1)) /\ rest(i + 1)[j - 1] = q[i + j]
          BY <4>2, <2>1, <1>1
        <5>2. (<<q[i + 1]>> \o rest(i + 1))[j] = rest(i + 1)[j - 1]
          <6> HIDE DEF rest
          <6> QED BY <5>1, <2>2
        <5> QED BY <5>1, <5>2, <1>1
      <4> QED BY <4>1, <4>2
    <3>3. Len(rest(i)) = 1 + Len(rest(i + 1))
      BY <2>1, <1>1
    <3> HIDE DEF rest
    <3> QED BY <3>1, <3>2, <3>3, <2>2, SameSequence
  <2>4. CountSent(rest(i)) = CountSent(<<q[i + 1]>>) + CountSent(rest(i + 1))
    <3> HIDE DEF rest
    <3> QED BY <2>2, <2>3, CountSentConcat
  <2> QED BY <2>1, <2>4, CountSentConcat DEF Since
<1>4. ASSUME NEW y \in Entries, NEW i \in 0..Len(q)
      PROVE  /\ Append(q, y) \in Seq(Entries) /\ y[2] \in Nat
             /\ Since(Append(q, y), i) = Since(q, i) + y[2]
  <2>1. rest(i) \in Seq(Entries) /\ <<y>> \in Seq(Entries) /\ Append(q, y) \in Seq(Entries)
    BY <1>1
  <2>2. SubSeq(Append(q, y), i + 1, Len(Append(q, y))) = rest(i) \o <<y>>
    <3> DEFINE p == Append(q, y)
               a == SubSeq(p, i + 1, Len(p))
    <3>1. p \in Seq(Entries) /\ Len(p) = Len(q) + 1 /\ p[Len(q) + 1] = y
          /\ \A j \in 1..Len(q) : p[j] = q[j]
      OBVIOUS
    <3> HIDE DEF p
    <3>2. a \in Seq(Entries) /\ Len(a) = Len(q) + 1 - i /\ \A j \in 1..Len(a) : a[j] = p[i + j]
      BY <3>1
    <3>3. /\ Len(rest(i)) = Len(q) - i /\ \A j \in 1..Len(rest(i)) : rest(i)[j] = q[i + j]
          /\ Len(q) \in Nat /\ Len(rest(i)) \in Nat
      BY <1>1
    <3> HIDE DEF a, rest
    <3>4. rest(i) \o <<y>> \in Seq(Entries) /\ Len(rest(i) \o <<y>>) = Len(a)
      BY <2>1, <3>2, <3>3
    <3>5. ASSUME NEW j \in 1..Len(a) PROVE a[j] = (rest(i) \o <<y>>)[j]
      <4>1. CASE j <= Len(rest(i))
        BY <4>1, <2>1, <3>1, <3>2, <3>3
      <4>2. CASE ~(j <= Len(rest(i)))
        <5>1. j = Len(rest(i)) + 1 /\ i + j = Len(q) + 1
          <6>1. Len(a) = Len(rest(i)) + 1
            BY <3>2, <3>3
          <6> QED BY <4>2, <3>3, <6>1
        <5>2. (rest(i) \o <<y>>)[j] = y
          BY <5>1, <2>1
        <5> QED BY <5>1, <5>2, <3>1, <3>2
      <4> QED BY <4>1, <4>2
    <3>6. a = rest(i) \o <<y>>
      BY <3>2, <3>4, <3>5, SameSequence
    <3> QED BY <3>6 DEF a, p
  <2>3. CountSent(rest(i) \o <<y>>) = CountSent(rest(i)) + CountSent(<<y>>)
    <3> HIDE DEF rest
    <3> QED BY <2>1, CountSentConcat
  <2> QED BY <2>1, <2>2, <2>3, CountSentConcat DEF Since
<1> QED BY <1>2, <1>3, <1>4

\* Position i of the cache lies behind the cut at entry k, at position at or later.
Cuts(e, k, i) ==
    \E at \in 1..i : LET x == CutCache(e, k) IN
        /\ e[at][1] = k /\ x \in Seq(Entries) /\ Len(x) = Len(e) - at + 1
        /\ \A j \in 1..Len(x) : x[j] = e[at + j - 1]

\* A cache is cut at a name in it.
LEMMA CutExists ==
    \A e \in Seq(Entries) : \A k : k # None => \A l \in DOMAIN e : e[l][1] = k => Cuts(e, k, l)
BY CutAt DEF Cuts

\* What has been sent after a receipt is what lies behind its entry.
LEMMA AfterNames ==
    ASSUME NEW q \in Seq(Entries), Distinct(q), NEW i \in 0..Len(q), NEW r, Names(q, i, r)
    PROVE  /\ After(q, r) = Since(q, i) /\ After(q, r) \in Nat
           /\ r # None => CutCache(q, r) = SubSeq(q, i, Len(q))
<1>1. Since(q, i) \in Nat
  BY SinceType
<1>2. CASE r = None
  <2>1. i = 0
    BY <1>2 DEF Names
  <2>2. CutCache(q, r) = SubSeq(q, 1, Len(q))
    BY <1>2 DEF CutCache
  <2> QED BY <1>1, <1>2, <2>1, <2>2 DEF After, SentSince, Since
<1>3. CASE r # None
  <2>1. i \in DOMAIN q /\ q[i][1] = r
    BY <1>3 DEF Names
  <2> DEFINE x == CutCache(q, r)
  <2>2. PICK at \in 1..i : /\ q[at][1] = r /\ x \in Seq(Entries) /\ Len(x) = Len(q) - at + 1
                           /\ \A j \in 1..Len(x) : x[j] = q[at + j - 1]
    <3>1. Cuts(q, r, i)
      BY <1>3, <2>1, CutExists
    <3> QED BY <3>1 DEF Cuts
  <2>3. at = i
    BY <2>1, <2>2 DEF Distinct
  <2> HIDE DEF x
  <2>4. x = SubSeq(q, i, Len(q))
    <3>1. SubSeq(q, i, Len(q)) \in Seq(Entries) /\ Len(SubSeq(q, i, Len(q))) = Len(q) - i + 1
          /\ \A j \in 1..(Len(q) - i + 1) : SubSeq(q, i, Len(q))[j] = q[i + j - 1]
      BY <2>1
    <3> QED BY <3>1, <2>2, <2>3, SameSequence
  <2>5. Tail(SubSeq(q, i, Len(q))) = SubSeq(q, i + 1, Len(q))
    BY <2>1, SMTT(30)
  <2> QED BY <1>1, <1>3, <2>4, <2>5 DEF x, After, SentSince, Since
<1> QED BY <1>2, <1>3

\* An entry more.
LEMMA AfterAppend ==
    ASSUME NEW q \in Seq(Entries), NEW y \in Entries, Distinct(Append(q, y)),
           NEW i \in 0..Len(q), NEW r, Names(q, i, r)
    PROVE  /\ After(Append(q, y), r) = After(q, r) + y[2]
           /\ y[2] \in Nat /\ After(q, r) \in Nat
<1> DEFINE p == Append(q, y)
<1>1. p \in Seq(Entries) /\ Len(p) = Len(q) + 1 /\ \A j \in 1..Len(q) : p[j] = q[j]
  OBVIOUS
<1>2. Distinct(q)
  BY <1>1 DEF Distinct
<1>3. Names(p, i, r) /\ i \in 0..Len(p)
  BY <1>1 DEF Names
<1>4. Since(p, i) = Since(q, i) + y[2] /\ y[2] \in Nat
  BY SinceType
<1> HIDE DEF p
<1>5. After(p, r) = Since(p, i)
  BY <1>1, <1>3, AfterNames DEF p
<1>6. After(q, r) = Since(q, i) /\ After(q, r) \in Nat
  BY <1>2, AfterNames
<1> QED BY <1>4, <1>5, <1>6 DEF p

\* A cache cut at a receipt: what was sent after a later one is still there.
LEMMA AfterCut ==
    ASSUME NEW q \in Seq(Entries), Distinct(q), NEW i \in 0..Len(q), NEW k, Names(q, i, k),
           NEW j \in 0..Len(q), NEW r, Names(q, j, r), i <= j
    PROVE  After(CutCache(q, k), r) = After(q, r)
<1> DEFINE x == CutCache(q, k)
<1>1. CASE k = None
  <2>1. SubSeq(q, 1, Len(q)) = q
    OBVIOUS
  <2> QED BY <1>1, <2>1 DEF CutCache
<1>2. CASE k # None
  <2>1. i \in 1..Len(q)
    BY <1>2 DEF Names
  <2>2. r # None /\ j \in 1..Len(q) /\ q[j][1] = r
    BY <2>1 DEF Names
  <2>3. x = SubSeq(q, i, Len(q))
    BY <1>2, AfterNames
  <2>4. x \in Seq(Entries) /\ Len(x) = Len(q) - i + 1
        /\ \A l \in 1..Len(x) : x[l] = q[i + l - 1]
    BY <2>1, <2>3
  <2> HIDE DEF x
  <2>5. Distinct(x)
    <3> SUFFICES ASSUME NEW l \in 1..Len(x), NEW m \in 1..Len(x), x[l][1] = x[m][1] PROVE l = m
      BY <2>4 DEF Distinct
    <3>1. i + l - 1 \in 1..Len(q) /\ i + m - 1 \in 1..Len(q)
      BY <2>1, <2>4
    <3>2. q[i + l - 1][1] = q[i + m - 1][1]
      BY <2>4
    <3> QED BY <3>1, <3>2 DEF Distinct
  <2>6. j - i + 1 \in 1..Len(x) /\ x[j - i + 1] = q[j]
    BY <2>1, <2>2, <2>4
  <2>7. Names(x, j - i + 1, r) /\ j - i + 1 \in 0..Len(x)
    BY <2>2, <2>4, <2>6 DEF Names
  <2>8. After(x, r) = Since(x, j - i + 1)
    BY <2>4, <2>5, <2>7, AfterNames
  <2>9. After(q, r) = Since(q, j)
    BY AfterNames
  <2>10. SubSeq(x, (j - i + 1) + 1, Len(x)) = SubSeq(q, j + 1, Len(q))
    <3> DEFINE a == SubSeq(x, (j - i + 1) + 1, Len(x))
               b == SubSeq(q, j + 1, Len(q))
    <3>1. b \in Seq(Entries) /\ Len(b) = Len(q) - j /\ \A l \in 1..Len(b) : b[l] = q[j + l]
      BY <2>2
    <3>2. a \in Seq(Entries) /\ Len(a) = Len(x) - (j - i + 1)
          /\ \A l \in 1..Len(a) : a[l] = x[(j - i + 1) + l]
      BY <2>4, <2>6
    <3>3. Len(a) = Len(b)
      BY <3>1, <3>2, <2>4, <2>1, <2>2
    <3>4. \A l \in 1..Len(a) : a[l] = b[l]
      BY <3>1, <3>2, <3>3, <2>4, <2>1, <2>2
    <3> HIDE DEF a, b
    <3>5. a = b
      BY <3>1, <3>2, <3>3, <3>4, SameSequence
    <3> QED BY <3>5 DEF a, b
  <2> QED BY <2>8, <2>9, <2>10 DEF Since, x
<1> QED BY <1>1, <1>2

----------------------------------------------------------------------------
(* What a manager's boss will count once the manager's messages are read.  *)

\* The places of the reports in the queue u, and the last of them.
Reports(u)   == {i \in DOMAIN u : u[i].type = "WAITING"}
IsLast(u, i) == i \in Reports(u) /\ \A j \in Reports(u) : j <= i

\* What the boss counts as idle once the messages u have arrived; it counts id now.
Promised(c, u, id, v) ==
    \/ Reports(u) = {} /\ v = id
    \/ \E i \in DOMAIN u : IsLast(u, i) /\ v = u[i].idle - After(c, u[i].receipt)

\* With the batches behind the receipt r it is no more than the manager counts, n,
\* and than it last said, l.
View(c, u, id, r, n, l) ==
    \A v \in Int : Promised(c, u, id, v) /\ v > 0 => v + After(c, r) <= n /\ v + After(c, r) <= l

\* There is a last report, if there is one.
LEMMA LastReport ==
    ASSUME NEW u \in Seq(Messages), Reports(u) # {}
    PROVE  \E i \in DOMAIN u : IsLast(u, i)
<1> DEFINE T == {n \in Nat : \E j \in Reports(u) : j + n = Len(u)}
<1>1. Len(u) \in Nat /\ DOMAIN u = 1..Len(u) /\ Reports(u) \subseteq 1..Len(u)
  BY DEF Reports
<1>2. PICK j \in Reports(u) : TRUE
  OBVIOUS
<1>3. Len(u) - j \in Nat /\ j + (Len(u) - j) = Len(u)
  BY <1>1, <1>2
<1>4. T # {} /\ T \subseteq Nat
  BY <1>2, <1>3
<1>5. PICK n \in T : \A m \in T : n <= m
  BY <1>4, LeastNatural
<1>6. PICK i \in Reports(u) : i + n = Len(u)
  BY <1>5
<1>7. ASSUME NEW l \in Reports(u) PROVE l <= i
  <2>1. Len(u) - l \in T
    BY <1>1, SMTT(30)
  <2>2. n <= Len(u) - l /\ n \in Nat
    BY <2>1, <1>5
  <2> QED BY <2>2, <1>1, <1>6
<1> QED BY <1>1, <1>6, <1>7 DEF IsLast

\* The last report in a queue after another.
LEMMA LastAppended ==
    ASSUME NEW u \in Seq(Messages), NEW p \in Seq(Messages)
    PROVE  /\ u \o p \in Seq(Messages)
           /\ \A i \in DOMAIN (u \o p) : IsLast(u \o p, i) =>
                 \/ i - Len(u) \in Reports(p) /\ (u \o p)[i] = p[i - Len(u)]
                 \/ Reports(p) = {} /\ i \in DOMAIN u /\ IsLast(u, i) /\ (u \o p)[i] = u[i]
           /\ Reports(u \o p) = {} <=> Reports(u) = {} /\ Reports(p) = {}
<1> DEFINE q == u \o p
<1>1. /\ q \in Seq(Messages) /\ Len(q) = Len(u) + Len(p) /\ DOMAIN q = 1..Len(q)
      /\ Len(u) \in Nat /\ Len(p) \in Nat /\ DOMAIN u = 1..Len(u) /\ DOMAIN p = 1..Len(p)
      /\ \A i \in DOMAIN u : i \in DOMAIN q /\ q[i] = u[i]
      /\ \A i \in DOMAIN p : i + Len(u) \in DOMAIN q /\ q[i + Len(u)] = p[i]
  OBVIOUS
<1> HIDE DEF q
<1>2. \A i \in DOMAIN u : i \in Reports(q) <=> i \in Reports(u)
  BY <1>1 DEF Reports
<1>3. \A i \in DOMAIN p : i + Len(u) \in Reports(q) <=> i \in Reports(p)
  BY <1>1 DEF Reports
<1>4. \A i \in DOMAIN q : i \in DOMAIN u \/ (i - Len(u) \in DOMAIN p /\ i = (i - Len(u)) + Len(u))
  BY <1>1
<1>5. Reports(q) \subseteq DOMAIN q /\ Reports(u) \subseteq DOMAIN u /\ Reports(p) \subseteq DOMAIN p
  BY DEF Reports
<1>6. Reports(q) = {} <=> Reports(u) = {} /\ Reports(p) = {}
  BY <1>2, <1>3, <1>4, <1>5
<1>7. ASSUME NEW i \in DOMAIN q, IsLast(q, i)
      PROVE  \/ i - Len(u) \in Reports(p) /\ q[i] = p[i - Len(u)]
             \/ Reports(p) = {} /\ i \in DOMAIN u /\ IsLast(u, i) /\ q[i] = u[i]
  <2>1. i \in Reports(q) /\ \A j \in Reports(q) : j <= i
    BY <1>7 DEF IsLast
  <2>2. CASE i \in DOMAIN u
    <3>1. Reports(p) = {}
      <4> SUFFICES ASSUME NEW j \in Reports(p) PROVE FALSE
        OBVIOUS
      <4>1. j + Len(u) \in Reports(q) /\ j \in 1..Len(p)
        BY <1>3, <1>5, <1>1
      <4>2. j + Len(u) <= i /\ i \in 1..Len(u)
        BY <4>1, <2>1, <2>2, <1>1
      <4> QED BY <4>1, <4>2, <1>1
    <3>2. IsLast(u, i)
      BY <2>1, <2>2, <1>2, <1>5 DEF IsLast
    <3> QED BY <3>1, <3>2, <2>2, <1>1
  <2>3. CASE i \notin DOMAIN u
    <3>1. i - Len(u) \in DOMAIN p /\ i = (i - Len(u)) + Len(u)
      BY <2>3, <1>4
    <3>2. i - Len(u) \in Reports(p)
      BY <3>1, <2>1, <1>3
    <3> QED BY <3>1, <3>2, <1>1
  <2> QED BY <2>2, <2>3
<1> QED BY <1>1, <1>6, <1>7 DEF q

\* What is no report changes nothing of what the boss will count.
LEMMA ViewQuiet ==
    ASSUME NEW u \in Seq(Messages), NEW p \in Seq(Messages), Reports(p) = {},
           NEW c, NEW id, NEW r, NEW n, NEW l, View(c, u, id, r, n, l)
    PROVE  View(c, u \o p, id, r, n, l)
<1> DEFINE q == u \o p
<1>0. \A i \in DOMAIN q : IsLast(q, i) => i \in DOMAIN u /\ IsLast(u, i) /\ q[i] = u[i]
  BY LastAppended
<1>1. Reports(q) = {} => Reports(u) = {}
  BY LastAppended
<1> HIDE DEF q
<1>2. ASSUME NEW v, Promised(c, q, id, v) PROVE Promised(c, u, id, v)
  BY <1>0, <1>1, <1>2 DEF Promised
<1>3. View(c, q, id, r, n, l)
  BY <1>2 DEF View
<1> QED BY <1>3 DEF q

\* A report of n idle workers when n is what the manager counts.
LEMMA ViewReport ==
    ASSUME NEW u \in Seq(Messages), NEW p \in Seq(Messages), Reports(p) # {},
           NEW c, NEW id, NEW r, NEW n \in Nat, After(c, r) \in Nat,
           \A i \in Reports(p) : p[i].idle = n /\ p[i].receipt = r
    PROVE  View(c, u \o p, id, r, n, n)
<1> DEFINE q == u \o p
<1>0. \A i \in DOMAIN q : IsLast(q, i) => i - Len(u) \in Reports(p) /\ q[i] = p[i - Len(u)]
  BY LastAppended
<1>1. Reports(q) # {}
  BY LastAppended
<1> HIDE DEF q
<1>2. ASSUME NEW v, Promised(c, q, id, v) PROVE v = n - After(c, r)
  BY <1>0, <1>1, <1>2 DEF Promised
<1>3. View(c, q, id, r, n, n)
  BY <1>2 DEF View
<1> QED BY <1>3 DEF q

\* The positions after the first.
LEMMA ReportsTail ==
    ASSUME NEW u \in Seq(Messages), u # <<>>
    PROVE  /\ Tail(u) \in Seq(Messages)
           /\ \A i \in DOMAIN Tail(u) : i + 1 \in DOMAIN u /\ Tail(u)[i] = u[i + 1]
           /\ \A i \in DOMAIN Tail(u) : IsLast(Tail(u), i) => IsLast(u, i + 1)
           /\ Reports(Tail(u)) = {} =>
                 IF Head(u).type = "WAITING" THEN IsLast(u, 1) ELSE Reports(u) = {}
<1> DEFINE t == Tail(u)
<1>1. /\ t \in Seq(Messages) /\ Len(u) \in Nat /\ Len(t) = Len(u) - 1 /\ u[1] = Head(u)
      /\ DOMAIN u = 1..Len(u) /\ DOMAIN t = 1..Len(t) /\ 1 \in DOMAIN u
      /\ \A i \in DOMAIN t : i + 1 \in DOMAIN u /\ t[i] = u[i + 1]
  OBVIOUS
<1> HIDE DEF t
<1>2. \A i \in DOMAIN t : i \in Reports(t) <=> i + 1 \in Reports(u)
  BY <1>1 DEF Reports
<1>3. \A i \in DOMAIN u : i = 1 \/ (i - 1 \in DOMAIN t /\ i = (i - 1) + 1)
  BY <1>1
<1>4. Reports(u) \subseteq DOMAIN u /\ Reports(t) \subseteq DOMAIN t
  BY DEF Reports
<1>5. ASSUME NEW i \in DOMAIN t, IsLast(t, i) PROVE IsLast(u, i + 1)
  <2>1. i + 1 \in Reports(u)
    BY <1>2, <1>5 DEF IsLast
  <2>2. ASSUME NEW j \in Reports(u) PROVE j <= i + 1
    <3>1. j = 1 \/ (j - 1 \in Reports(t) /\ j - 1 \in DOMAIN t)
      BY <1>2, <1>3, <1>4
    <3>2. j \in Int /\ i \in Int /\ i >= 1
      BY <1>1, <1>4
    <3>3. j - 1 \in Reports(t) => j - 1 <= i
      BY <1>5 DEF IsLast
    <3> QED BY <3>1, <3>2, <3>3
  <2> QED BY <2>1, <2>2 DEF IsLast
<1>6. ASSUME Reports(t) = {} PROVE Reports(u) \subseteq {1}
  BY <1>2, <1>3, <1>4, <1>6
<1>7. 1 \in Reports(u) <=> Head(u).type = "WAITING"
  BY <1>1 DEF Reports
<1>8. Reports(t) = {} => IF Head(u).type = "WAITING" THEN IsLast(u, 1) ELSE Reports(u) = {}
  BY <1>6, <1>7 DEF IsLast
<1> QED BY <1>1, <1>5, <1>8 DEF t

\* A message that is handled and is no report.
LEMMA ViewHeard ==
    ASSUME NEW u \in Seq(Messages), u # <<>>, Head(u).type # "WAITING",
           NEW c, NEW id, NEW r, NEW n, NEW l, View(c, u, id, r, n, l)
    PROVE  View(c, Tail(u), id, r, n, l)
<1>1. ASSUME NEW v, Promised(c, Tail(u), id, v) PROVE Promised(c, u, id, v)
  BY <1>1, ReportsTail DEF Promised
<1> QED BY <1>1 DEF View

----------------------------------------------------------------------------
(* The cache and the queues of a manager's boss.                           *)

\* The receipts in a cache: that of the last batch read, and before it those of
\* the reports, in order.
Points(e, u, p, f, r) ==
    /\ p \in 0..Len(e) /\ Names(e, p, r) /\ f \in [DOMAIN u -> 0..p] /\ Trace(e, u, f)

\* There are such receipts.
Pointed(e, u, r) == \E p, f : Points(e, u, p, f, r)

\* Every receipt has its place in the cache.
LEMMA MarksPoint ==
    ASSUME NEW e \in Seq(Entries), NEW u \in Seq(Messages), NEW d \in Seq(Messages), NEW r,
           NEW busy \in BOOLEAN, Marks(e, u, d, r, busy)
    PROVE  Pointed(e, u, r)
<1>0. PICK c \in Nat, b \in Nat : \E f : b = (IF busy THEN c - 1 ELSE c)
                                        /\ Marked(e, u, Unread(d), r, c, b, f)
  BY DEF Marks
<1>1. PICK f : b = (IF busy THEN c - 1 ELSE c) /\ Marked(e, u, Unread(d), r, c, b, f)
  BY <1>0
<1>2. Len(Unread(d)) \in Nat /\ Len(e) = c + Len(Unread(d))
  BY <1>1, UnreadType DEF Marked
<1>3. c \in 0..Len(e) /\ 0..b \subseteq 0..c
  BY <1>1, <1>2
<1>4. f \in [DOMAIN u -> 0..c]
  BY <1>1, <1>3 DEF Marked
<1>5. Points(e, u, c, f, r)
  BY <1>1, <1>3, <1>4 DEF Marked, Points
<1> QED BY <1>5 DEF Pointed

\* What has been sent after any receipt is a number.
LEMMA AfterType ==
    ASSUME NEW e \in Seq(Entries), Distinct(e), NEW u \in Seq(Messages), NEW r, Pointed(e, u, r)
    PROVE  After(e, r) \in Nat /\ \A i \in Reports(u) : After(e, u[i].receipt) \in Nat
<1>1. PICK p, f : Points(e, u, p, f, r)
  BY DEF Pointed
<1>2. After(e, r) \in Nat
  BY <1>1, AfterNames DEF Points
<1>3. ASSUME NEW i \in Reports(u) PROVE After(e, u[i].receipt) \in Nat
  <2>1. i \in DOMAIN u /\ f[i] \in 0..p /\ p \in 0..Len(e) /\ Names(e, f[i], u[i].receipt)
    BY <1>1 DEF Points, Trace, Reports
  <2>2. f[i] \in 0..Len(e)
    BY <2>1
  <2> QED BY <2>1, <2>2, AfterNames
<1> QED BY <1>2, <1>3

\* The boss sends a batch: it counts less idle workers by the tasks in it, and
\* expects the manager to have as many more to read.
LEMMA ViewSent ==
    ASSUME NEW c \in Seq(Entries), NEW y \in Entries, Distinct(Append(c, y)),
           NEW u \in Seq(Messages), NEW r, Pointed(c, u, r),
           NEW id \in Nat, NEW n \in Int, NEW l \in Int, View(c, u, id, r, n, l)
    PROVE  View(Append(c, y), u, Capped(id - y[2], 0, id), r, n, l)
<1> DEFINE e == Append(c, y)
           id2 == Capped(id - y[2], 0, id)
<1>0. e \in Seq(Entries) /\ Len(e) = Len(c) + 1 /\ \A j \in 1..Len(c) : e[j] = c[j]
  OBVIOUS
<1>1. Distinct(c)
  BY <1>0, SMTT(30) DEF Distinct
<1>2. PICK p, f : Points(c, u, p, f, r)
  BY DEF Pointed
<1>3. y[2] \in Nat /\ After(e, r) = After(c, r) + y[2] /\ After(c, r) \in Nat
  BY <1>2, AfterAppend DEF Points
<1>4. ASSUME NEW i \in Reports(u)
      PROVE  /\ After(e, u[i].receipt) = After(c, u[i].receipt) + y[2]
             /\ After(c, u[i].receipt) \in Nat /\ u[i].idle \in Nat
  <2>1. i \in DOMAIN u /\ f[i] \in 0..p /\ p \in 0..Len(c) /\ Names(c, f[i], u[i].receipt)
    BY <1>2 DEF Points, Trace, Reports
  <2>2. f[i] \in 0..Len(c)
    BY <2>1
  <2>3. u[i].idle \in Nat
    BY <2>1, Fields DEF Reports
  <2> QED BY <2>1, <2>2, <2>3, AfterAppend
<1> HIDE DEF e
<1>5. id2 = IF id - y[2] < 0 THEN 0 ELSE id - y[2]
  BY <1>3 DEF Capped
<1> HIDE DEF id2
<1>6. ASSUME NEW v \in Int, Promised(e, u, id2, v), v > 0
      PROVE  Promised(c, u, id, v + y[2])
  <2>1. CASE Reports(u) = {} /\ v = id2
    BY <2>1, <1>3, <1>5, <1>6 DEF Promised
  <2>2. ASSUME NEW i \in DOMAIN u, IsLast(u, i), v = u[i].idle - After(e, u[i].receipt)
        PROVE  Promised(c, u, id, v + y[2])
    <3>1. v + y[2] = u[i].idle - After(c, u[i].receipt)
      BY <2>2, <1>3, <1>4, SMTT(30) DEF IsLast
    <3> QED BY <3>1, <2>2 DEF Promised
  <2> QED BY <1>6, <2>1, <2>2 DEF Promised
<1>7. ASSUME NEW v \in Int, Promised(e, u, id2, v), v > 0
      PROVE  v + After(e, r) <= n /\ v + After(e, r) <= l
  <2>1. v + y[2] \in Int /\ v + y[2] > 0
    BY <1>3, <1>7
  <2>2. (v + y[2]) + After(c, r) <= n /\ (v + y[2]) + After(c, r) <= l
    BY <1>6, <1>7, <2>1 DEF View
  <2> QED BY <2>2, <1>3
<1> QED BY <1>7 DEF View, e, id2

\* The boss handles a report: it now counts what it said, less what was sent
\* since, and forgets what was read before.
LEMMA ViewAnswered ==
    ASSUME NEW c \in Seq(Entries), Distinct(c), NEW u \in Seq(Messages), u # <<>>,
           Head(u).type = "WAITING", NEW r, Pointed(c, u, r),
           NEW id \in Nat, NEW n \in Int, NEW l \in Int, View(c, u, id, r, n, l)
    PROVE  LET k == Head(u).receipt
               x == CutCache(c, k)
           IN  View(x, Tail(u), StillIdle(Head(u).idle, x, k), r, n, l)
<1> DEFINE k == Head(u).receipt
           x == CutCache(c, k)
           id2 == StillIdle(Head(u).idle, x, k)
<1>0. 1 \in DOMAIN u /\ u[1] = Head(u) /\ DOMAIN u \subseteq Int
  OBVIOUS
<1>1. 1 \in Reports(u)
  BY <1>0 DEF Reports
<1>2. PICK p, f : Points(c, u, p, f, r)
  BY DEF Pointed
<1>3. /\ f[1] \in 0..Len(c) /\ Names(c, f[1], k) /\ p \in 0..Len(c) /\ Names(c, p, r)
      /\ f[1] <= p
  <2>1. f[1] \in 0..p /\ p \in 0..Len(c) /\ Names(c, f[1], k) /\ Names(c, p, r)
    BY <1>0, <1>1, <1>2 DEF Points, Trace, Reports
  <2> QED BY <2>1
<1>4. After(x, r) = After(c, r)
  BY <1>3, AfterCut
<1>5. After(c, k) \in Nat /\ Head(u).idle \in Nat /\ After(c, r) \in Nat
  <2>1. Head(u) \in Messages
    BY <1>0
  <2> QED BY <1>3, <2>1, AfterNames, Fields
<1>6. id2 = IF Head(u).idle - After(c, k) > 0 THEN Head(u).idle - After(c, k) ELSE 0
  BY DEF StillIdle, After
<1>7. ASSUME NEW i \in DOMAIN u, i \in Reports(u)
      PROVE  After(x, u[i].receipt) = After(c, u[i].receipt)
  <2>1. f[i] \in 0..p /\ Names(c, f[i], u[i].receipt)
    BY <1>2, <1>7 DEF Points, Trace, Reports
  <2>2. f[1] <= f[i]
    <3>1. 1 <= i
      OBVIOUS
    <3> QED BY <3>1, <1>0, <1>2 DEF Points, Trace
  <2>3. f[i] \in 0..Len(c)
    BY <2>1, <1>3
  <2> QED BY <1>3, <2>1, <2>2, <2>3, AfterCut
<1> HIDE DEF x, id2, k
<1>8. ASSUME NEW v \in Int, Promised(x, Tail(u), id2, v), v > 0
      PROVE  Promised(c, u, id, v)
  <2>1. CASE Reports(Tail(u)) = {} /\ v = id2
    <3>1. IsLast(u, 1) /\ v = u[1].idle - After(c, u[1].receipt)
      BY <2>1, <1>0, <1>5, <1>6, <1>8, ReportsTail DEF k
    <3> QED BY <3>1, <1>0 DEF Promised
  <2>2. ASSUME NEW i \in DOMAIN Tail(u), IsLast(Tail(u), i),
               v = Tail(u)[i].idle - After(x, Tail(u)[i].receipt)
        PROVE  Promised(c, u, id, v)
    <3>1. i + 1 \in DOMAIN u /\ Tail(u)[i] = u[i + 1] /\ IsLast(u, i + 1)
      BY <2>2, ReportsTail
    <3>2. After(x, u[i + 1].receipt) = After(c, u[i + 1].receipt)
      BY <3>1, <1>7 DEF IsLast
    <3>3. v = u[i + 1].idle - After(c, u[i + 1].receipt)
      BY <2>2, <3>1, <3>2
    <3> QED BY <3>1, <3>3 DEF Promised
  <2> QED BY <1>8, <2>1, <2>2 DEF Promised
<1>9. View(x, Tail(u), id2, r, n, l)
  BY <1>4, <1>8 DEF View
<1> QED BY <1>9 DEF x, id2, k

\* The manager reads a batch of k tasks and counts at most k idle workers less.
LEMMA ViewRead ==
    ASSUME NEW c \in Seq(Entries), Distinct(c), NEW u \in Seq(Messages),
           NEW d \in Seq(Messages), NEW r, Marks(c, u, d, r, FALSE),
           d # <<>>, Head(d).type = "SUBMIT_BATCH",
           \A y \in Range(c) : y[1] = Head(d).tasks[1] => y[2] = Len(Head(d).tasks),
           NEW id \in Nat, NEW n \in Int, NEW m \in Int, NEW l \in Int, View(c, u, id, r, n, l),
           m >= n - Len(Head(d).tasks)
    PROVE  View(c, u, id, Head(d).tasks[1], m, l)
<1> DEFINE t == Head(d).tasks[1]
           k == Len(Head(d).tasks)
<1>0. PICK p \in Nat, b \in Nat : \E f : Marked(c, u, Unread(d), r, p, b, f)
  BY DEF Marks
<1>1. PICK f : Marked(c, u, Unread(d), r, p, b, f)
  BY <1>0
<1>2. Unread(d) = <<Head(d)>> \o Unread(Tail(d)) /\ Unread(Tail(d)) \in Seq(Messages)
      /\ Head(d) \in Messages
  BY UnreadSame, UnreadType, SentTail
<1>3. Len(Unread(d)) \in Nat /\ Len(Unread(d)) >= 1 /\ Unread(d)[1] = Head(d)
      /\ 1 \in DOMAIN Unread(d)
  BY <1>2
<1>4. p + 1 \in 1..Len(c) /\ p \in 0..Len(c) /\ c[p + 1][1] = t /\ Names(c, p, r)
  BY <1>1, <1>3, SMTT(30) DEF Marked
<1>5. c[p + 1] \in Range(c) /\ c[p + 1][2] = k
  <2>1. c[p + 1] \in Range(c)
    BY <1>4 DEF Range
  <2> QED BY <2>1, <1>4
<1>6. k \in Nat /\ t # None
  <2>1. Head(d).tasks \in Seq(Tasks) /\ Head(d).tasks # <<>>
    BY <1>2, Fields
  <2> QED BY <2>1, NoneAssumption
<1> HIDE DEF t, k
<1>7. Names(c, p + 1, t) /\ p + 1 \in 0..Len(c)
  BY <1>4, <1>6 DEF Names
<1>8. After(c, t) = Since(c, p + 1) /\ After(c, r) = Since(c, p) /\ After(c, t) \in Nat
  BY <1>4, <1>7, AfterNames
<1>9. Since(c, p) = c[p + 1][2] + Since(c, p + 1)
  BY <1>4, SinceType
<1>10. After(c, r) = k + After(c, t)
  BY <1>5, <1>8, <1>9
<1>11. m >= n - k
  BY DEF k
<1>12. View(c, u, id, t, m, l)
  BY <1>6, <1>8, <1>10, <1>11 DEF View
<1> QED BY <1>12 DEF t

\* A view of what the manager counts is one of anything more.
LEMMA ViewMore ==
    ASSUME NEW c, NEW u, NEW id, NEW r, After(c, r) \in Nat,
           NEW n \in Int, NEW l \in Int, NEW m \in Int,
           View(c, u, id, r, n, l), m >= l
    PROVE  View(c, u, id, r, m, m)
BY DEF View

=============================================================================
