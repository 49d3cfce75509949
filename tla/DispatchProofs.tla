--------------------------- MODULE DispatchProofs ---------------------------
(***************************************************************************)
(* What is proved of module Dispatch, for any workers, tasks and           *)
(* environment settings: that every task is in one place and counted, that *)
(* batches, reclaims and results implement the contract of Compilation,    *)
(* that no read receipt stops the server, and that its idle books agree.   *)
(***************************************************************************)
EXTENDS Dispatch, CrewProofs

----------------------------------------------------------------------------
(* The inductive invariant.                                                *)

\* The tasks that the contract counts as born.
Born == (submitted \cap Roots) \cup UNION {Kids(t) : t \in mapped}

BossType ==
    /\ numTasks \in [Workers -> Int] /\ numDelayed \in [Workers -> Int]
    /\ idle \in [Workers -> 0..1] /\ numIdle = Total(idle)
    /\ cache \in [Workers -> Seq(Entries)] /\ reclaims \in Nat

\* The born tasks are those that are somewhere.
Births == Born = Everywhere(Layout(Workers)) /\ submitted \subseteq Born

Counted ==
    \A w \in Workers :
        /\ IsFiniteSet(Assigned(w))
        /\ numTasks[w] + OwedIn(up[w]) = Cardinality(Assigned(w))

\* The submit_cache of each worker agrees with the worker.
Caches == \A w \in Workers : Marks(cache[w], up[w], down[w], receipt[w], batch[w] # None)

Idles ==
    \A w \in Workers :
        IdleRight(idle[w], up[w], down[w], receipt[w], batch[w] # None)

\* Before the first reclaim no task is sent twice, so that a read receipt names
\* one batch, and a worker at rest is counted, or is about to be.
NoneReclaimed(w) ==
    /\ \A m \in Range(down[w]) : m.type # "RECLAIM"
    /\ Sent(up[w]) \cap submitted = {}
    /\ \A i, j \in DOMAIN cache[w] : i # j => cache[w][i][1] # cache[w][j][1]
    /\ \A x \in Range(cache[w]) : x[1] \in submitted
    /\ Noticed(w, idle[w])

Untouched == reclaims = 0 => \A w \in Workers : NoneReclaimed(w)

IInv ==
    /\ CrewInv(Workers) /\ Births
    /\ BossType /\ Counted /\ Caches /\ Idles /\ Untouched /\ error = "none"

----------------------------------------------------------------------------
(* Placing tasks.                                                          *)

\* A count of idle workers lies between none and all of them.
LEMMA TotalBounds ==
    ASSUME NEW f \in [Workers -> 0..1]
    PROVE  /\ Total(f) \in 0..Cardinality(Workers) /\ Total(f) \in Nat
           /\ (\A w \in Workers : f[w] = 1) => Total(f) = Cardinality(Workers)
<1>1. f \in [Workers -> Int]
  OBVIOUS
<1>2. Total(f) = Sums(f, Workers)[Workers]
  BY <1>1, WorkersAssumption, TotalIsSum
<1>3. /\ Sums(f, Workers)[Workers] \in 0..Cardinality(Workers)
      /\ (\A w \in Workers : f[w] = 1) => Sums(f, Workers)[Workers] = Cardinality(Workers)
  BY WorkersAssumption, SumsBounds
<1>4. Cardinality(Workers) \in Nat
  BY WorkersAssumption, FS_CardinalityType
<1> QED BY <1>2, <1>3, <1>4

\* What schedule_tasks comes to: each worker is given its share.
Scheduled(ts, share) ==
    /\ Dealt(ts, share, Workers)
    /\ down' \in [Workers -> Seq(Messages)]
    /\ numTasks' \in [Workers -> Int] /\ idle' \in [Workers -> 0..1]
    /\ numIdle' = Total(idle') /\ cache' \in [Workers -> Seq(Entries)]
    /\ \A w \in Workers :
          /\ down'[w] = Given(down[w], share[w])
          /\ numTasks'[w] = numTasks[w] + Len(share[w])
          /\ share[w] = <<>> => cache'[w] = cache[w] /\ idle'[w] = idle[w]
          /\ share[w] # <<>> =>
                /\ cache'[w] = Append(cache[w], <<share[w][1], Len(share[w])>>)
                /\ idle'[w] = 0

\* schedule_tasks deals the tasks and enters them in the books.
LEMMA ScheduleEffect ==
    ASSUME BossType, CrewType(Workers), NEW ts \in Seq(Tasks), NoRepeat(ts),
           schedule_tasks(ts)
    PROVE  \E share : Scheduled(ts, share)
<1>1. PICK share \in Assignments(ts, idle, numTasks) :
        LET size  == [w \in Workers |-> Len(share[w])]
            given == {w \in Workers : size[w] > 0}
        IN /\ down' = [w \in Workers |-> IF w \in given
                         THEN Append(down[w], Batch(share[w])) ELSE down[w]]
           /\ numTasks' = [w \in Workers |-> numTasks[w] + size[w]]
           /\ idle' = [w \in Workers |-> Capped(idle[w] - size[w], 0, idle[w])]
           /\ cache' = [w \in Workers |-> IF w \in given
                          THEN Append(cache[w], <<share[w][1], size[w]>>)
                          ELSE cache[w]]
           /\ numIdle' = Total(idle')
  BY DEF schedule_tasks
<1>2. idle \in [Workers -> 0..1] /\ DOMAIN idle = Workers /\ Total(idle) \in Nat
  BY TotalBounds DEF BossType
<1>3. Dealt(ts, share, Workers)
  BY <1>2, AssignmentsDeal
<1>4. ASSUME NEW w \in Workers
      PROVE  /\ down'[w] = Given(down[w], share[w])
             /\ numTasks'[w] = numTasks[w] + Len(share[w])
             /\ share[w] = <<>> => cache'[w] = cache[w] /\ idle'[w] = idle[w]
             /\ share[w] # <<>> =>
                   /\ cache'[w] = Append(cache[w], <<share[w][1], Len(share[w])>>)
                   /\ idle'[w] = 0
  <2>1. /\ share[w] \in Seq(Tasks) /\ Len(share[w]) \in Nat
        /\ Len(share[w]) > 0 <=> share[w] # <<>>
    BY <1>3 DEF Dealt
  <2>2. /\ down'[w] = IF Len(share[w]) > 0 THEN Append(down[w], Batch(share[w])) ELSE down[w]
        /\ numTasks'[w] = numTasks[w] + Len(share[w])
        /\ cache'[w] = IF Len(share[w]) > 0
                       THEN Append(cache[w], <<share[w][1], Len(share[w])>>) ELSE cache[w]
        /\ idle'[w] = Capped(idle[w] - Len(share[w]), 0, idle[w])
    BY <1>1
  <2>3. idle[w] \in 0..1
    BY <1>2
  <2>4. /\ Len(share[w]) = 0 => Capped(idle[w] - Len(share[w]), 0, idle[w]) = idle[w]
        /\ Len(share[w]) > 0 => Capped(idle[w] - Len(share[w]), 0, idle[w]) = 0
    BY <2>1, <2>3 DEF Capped
  <2>5. Len(share[w]) = 0 <=> share[w] = <<>>
    BY <2>1
  <2> QED BY <2>1, <2>2, <2>4, <2>5 DEF Given
<1>5. /\ DOMAIN down' = Workers /\ DOMAIN numTasks' = Workers /\ DOMAIN idle' = Workers
      /\ DOMAIN cache' = Workers /\ numIdle' = Total(idle')
      /\ down' = [w \in Workers |-> down'[w]] /\ numTasks' = [w \in Workers |-> numTasks'[w]]
      /\ idle' = [w \in Workers |-> idle'[w]] /\ cache' = [w \in Workers |-> cache'[w]]
  BY <1>1
<1>6. ASSUME NEW w \in Workers
      PROVE  /\ down'[w] \in Seq(Messages) /\ numTasks'[w] \in Int
             /\ idle'[w] \in 0..1 /\ cache'[w] \in Seq(Entries)
  <2>1. /\ share[w] \in Seq(Tasks) /\ Len(share[w]) \in Nat
        /\ share[w] # <<>> => <<share[w][1], Len(share[w])>> \in Entries
    <3>1. share[w] \in Seq(Tasks)
      BY <1>3 DEF Dealt
    <3>2. share[w] # <<>> => share[w][1] \in Tasks /\ Len(share[w]) \in Nat \ {0}
      BY <3>1
    <3> QED BY <3>1, <3>2 DEF Entries
  <2>2. down[w] \in Seq(Messages) /\ numTasks[w] \in Int /\ idle[w] \in 0..1
        /\ cache[w] \in Seq(Entries)
    BY DEF CrewType, BossType
  <2>3. down'[w] \in Seq(Messages)
    BY <1>4, <2>1, <2>2, GivenType
  <2>4. cache'[w] \in Seq(Entries)
    <3>1. \A z \in Entries : Append(cache[w], z) \in Seq(Entries)
      BY <2>2
    <3> QED BY <1>4, <2>1, <2>2, <3>1
  <2>5. idle'[w] \in 0..1
    BY <1>4, <2>2
  <2>6. numTasks'[w] \in Int
    BY <1>4, <2>1, <2>2
  <2> QED BY <2>3, <2>4, <2>5, <2>6
<1>7. /\ down' \in [Workers -> Seq(Messages)] /\ numTasks' \in [Workers -> Int]
      /\ idle' \in [Workers -> 0..1] /\ cache' \in [Workers -> Seq(Entries)]
  BY <1>5, <1>6
<1>8. Scheduled(ts, share)
  BY <1>3, <1>4, <1>5, <1>7 DEF Scheduled
<1> QED BY <1>8

\* The server has received a message of worker w, or none.
Received(w) ==
    \/ up'[w] = up[w]
    \/ up[w] # <<>> /\ Head(up[w]).type # "WAITING" /\ up'[w] = Tail(up[w])

\* A queue with at most one message taken, which is no WAITING.
LEMMA ReceivedType ==
    ASSUME CrewType(Workers), NEW w \in Workers, Received(w)
    PROVE  /\ up'[w] \in Seq(Messages)
           /\ Range(up'[w]) \subseteq Range(up[w]) /\ Sent(up'[w]) \subseteq Sent(up[w])
           /\ \A m \in Range(up[w]) : m.type = "WAITING" => m \in Range(up'[w])
           /\ \A e, d, r, busy : Marks(e, up[w], d, r, busy) => Marks(e, up'[w], d, r, busy)
<1>1. up[w] \in Seq(Messages)
  BY DEF CrewType
<1>2. CASE up'[w] = up[w]
  BY <1>1, <1>2
<1>3. CASE up[w] # <<>> /\ Head(up[w]).type # "WAITING" /\ up'[w] = Tail(up[w])
  <2>1. /\ Tail(up[w]) \in Seq(Messages) /\ Range(up[w]) = {Head(up[w])} \cup Range(Tail(up[w]))
        /\ Sent(up[w]) = SentBy(Head(up[w])) \cup Sent(Tail(up[w]))
    BY <1>1, <1>3, RangeTail, SentTail
  <2>2. \A e, d, r, busy : Marks(e, up[w], d, r, busy) => Marks(e, Tail(up[w]), d, r, busy)
    BY <1>1, <1>3, MarksHeard
  <2> QED BY <1>3, <2>1, <2>2
<1> QED BY <1>2, <1>3 DEF Received

\* The tasks assigned to a worker change with its queue only.
LEMMA AssignedByQueue ==
    ASSUME UNCHANGED worker, NEW w
    PROVE  /\ Assigned(w) = Sent(down[w]) \cup Range(delayed[w]) \cup held[w] \cup Batched(w)
           /\ Assigned(w)' = Sent(down'[w]) \cup Range(delayed[w]) \cup held[w] \cup Batched(w)
BY AssignedLies DEF worker, Batched

\* The task counts are exact again after new tasks are dealt.
LEMMA ScheduleCounts ==
    ASSUME CrewInv(Workers), BossType, Counted, NEW ts, NEW share, Scheduled(ts, share),
           UNCHANGED worker, NEW w \in Workers, Range(ts) \cap Assigned(w) = {},
           OwedIn(up'[w]) = OwedIn(up[w])
    PROVE  /\ IsFiniteSet(Assigned(w)')
           /\ numTasks'[w] + OwedIn(up'[w]) = Cardinality(Assigned(w)')
<1> DEFINE A == Assigned(w)
           R == Range(share[w])
<1>1. /\ share[w] \in Seq(Tasks) /\ NoRepeat(share[w]) /\ Range(share[w]) \subseteq Range(ts)
      /\ down'[w] = Given(down[w], share[w]) /\ numTasks'[w] = numTasks[w] + Len(share[w])
  BY DEF Scheduled, Dealt
<1>2. /\ down[w] \in Seq(Messages) /\ up[w] \in Seq(Messages) /\ numTasks[w] \in Int
  BY DEF CrewInv, CrewType, BossType
<1>3. Sent(down'[w]) = Sent(down[w]) \cup R
  BY <1>1, <1>2, GivenType
<1>4. Assigned(w)' = A \cup R
  BY <1>3, AssignedByQueue
<1>5. IsFiniteSet(A) /\ numTasks[w] + OwedIn(up[w]) = Cardinality(A) /\ OwedIn(up[w]) \in Int
  BY <1>2, OwedConcat DEF Counted
<1>6. IsFiniteSet(R) /\ Cardinality(R) = Len(share[w]) /\ Len(share[w]) \in Nat
  BY <1>1, RangeCardinality
<1>7. A \cap R = {}
  BY <1>1
<1> HIDE DEF A, R
<1>8. Cardinality(A) \in Nat
  BY <1>5, FS_CardinalityType
<1>9. IsFiniteSet(A \cup R) /\ Cardinality(A \cup R) = Cardinality(A) + Cardinality(R)
  <2>1. IsFiniteSet(A \cup R)
    BY <1>5, <1>6, FS_Union
  <2>2. Cardinality(A \cup R) = Cardinality(A) + Cardinality(R) - Cardinality(A \cap R)
    BY <1>5, <1>6, FS_Union
  <2>3. Cardinality(A \cap R) = 0
    BY <1>7, FS_EmptySet
  <2>4. Cardinality(R) \in Nat
    BY <1>6
  <2> QED BY <1>8, <2>1, <2>2, <2>3, <2>4
<1> QED BY <1>1, <1>2, <1>4, <1>5, <1>6, <1>8, <1>9

\* The unread batches of a queue after a share is put in it.
LEMMA UnreadGiven ==
    ASSUME NEW q \in Seq(Messages), NEW ts \in Seq(Tasks)
    PROVE  /\ ts = <<>> => Unread(Given(q, ts)) = Unread(q)
           /\ ts # <<>> => Unread(Given(q, ts)) # <<>>
<1>1. /\ Given(q, ts) \in Seq(Messages) /\ Sent(Given(q, ts)) = Sent(q) \cup Range(ts)
  BY GivenType
<1>2. ASSUME ts # <<>> PROVE Unread(Given(q, ts)) # <<>>
  <2>1. ts[1] \in Range(ts)
    BY <1>2 DEF Range
  <2> QED BY <1>1, <2>1, UnreadType
<1>3. ts = <<>> => Given(q, ts) = q
  BY DEF Given
<1> QED BY <1>2, <1>3

\* The cache and the idle count of a worker after tasks are dealt.
LEMMA ScheduleBooks ==
    ASSUME CrewInv(Workers), BossType, Caches, Idles, NEW ts, NEW share, Scheduled(ts, share),
           UNCHANGED worker, NEW w \in Workers, Received(w)
    PROVE  /\ Marks(cache'[w], up'[w], down'[w], receipt'[w], batch'[w] # None)
           /\ IdleRight(idle'[w], up'[w], down'[w], receipt'[w], batch'[w] # None)
<1>1. receipt' = receipt /\ batch' = batch
  BY DEF worker
<1>2. /\ up[w] \in Seq(Messages) /\ down[w] \in Seq(Messages) /\ cache[w] \in Seq(Entries)
      /\ up'[w] \in Seq(Messages)
  BY ReceivedType DEF CrewInv, CrewType, BossType
<1> DEFINE busy == batch[w] # None
           s == share[w]
<1>3. busy \in BOOLEAN /\ s \in Seq(Tasks)
  BY DEF Scheduled, Dealt
<1>4. Marks(cache[w], up'[w], down[w], receipt[w], busy)
  BY ReceivedType DEF Caches, CrewInv
<1>5. /\ down'[w] = Given(down[w], s)
      /\ s = <<>> => cache'[w] = cache[w] /\ idle'[w] = idle[w]
      /\ s # <<>> => cache'[w] = Append(cache[w], <<s[1], Len(s)>>) /\ idle'[w] = 0
  BY DEF Scheduled
<1>6. IdleRight(idle[w], up[w], down[w], receipt[w], busy)
  BY DEF Idles
<1>7. Range(up'[w]) \subseteq Range(up[w])
  BY ReceivedType DEF CrewInv
<1> HIDE DEF busy, s
<1>8. Marks(cache'[w], up'[w], down'[w], receipt[w], busy)
  <2>1. CASE s = <<>>
    BY <1>4, <1>5, <2>1 DEF Given
  <2>2. CASE s # <<>>
    <3>1. Marks(Append(cache[w], <<s[1], Len(s)>>), up'[w], Append(down[w], Batch(s)),
                receipt[w], busy)
      BY <1>2, <1>3, <1>4, <2>2, MarksSent
    <3> QED BY <1>5, <2>2, <3>1 DEF Given
  <2> QED BY <2>1, <2>2
<1>9. IdleRight(idle'[w], up'[w], down'[w], receipt[w], busy)
  <2>1. CASE s = <<>>
    BY <1>5, <1>6, <1>7, <2>1 DEF Given, IdleRight
  <2>2. CASE s # <<>>
    BY <1>5, <1>6, <1>7, <2>2 DEF IdleRight
  <2> QED BY <2>1, <2>2
<1> QED BY <1>1, <1>8, <1>9 DEF busy

\* Without a reclaim, receipts stay unambiguous when tasks are dealt.
LEMMA ScheduleUntouched ==
    ASSUME CrewInv(Workers), BossType, NEW ts, NEW share, Scheduled(ts, share),
           UNCHANGED worker, NEW w \in Workers, Received(w), NoneReclaimed(w),
           submitted' = submitted \cup Range(ts), Range(ts) \cap submitted = {},
           Sent(up'[w]) \cap Range(ts) = {}
    PROVE  NoneReclaimed(w)'
<1>1. /\ receipt'[w] = receipt[w] /\ batch'[w] = batch[w]
      /\ phase'[w] = phase[w] /\ ready'[w] = ready[w]
  BY DEF worker
<1> DEFINE s == share[w]
           e == cache[w]
           y == <<s[1], Len(s)>>
<1>2. /\ s \in Seq(Tasks) /\ Range(s) \subseteq Range(ts) /\ down[w] \in Seq(Messages)
      /\ down'[w] = Given(down[w], s) /\ e \in Seq(Entries)
      /\ s = <<>> => cache'[w] = e /\ idle'[w] = idle[w]
      /\ s # <<>> => cache'[w] = Append(e, y)
  <2>1. /\ s \in Seq(Tasks) /\ Range(s) \subseteq Range(ts)
    BY DEF Scheduled, Dealt
  <2>2. down[w] \in Seq(Messages) /\ e \in Seq(Entries)
    BY DEF CrewInv, CrewType, BossType
  <2> QED BY <2>1, <2>2 DEF Scheduled
<1>3. /\ Range(up'[w]) \subseteq Range(up[w]) /\ Sent(up'[w]) \subseteq Sent(up[w])
      /\ \A m \in Range(up[w]) : m.type = "WAITING" => m \in Range(up'[w])
  BY ReceivedType DEF CrewInv
<1>4. /\ \A m \in Range(down[w]) : m.type # "RECLAIM"
      /\ Sent(up[w]) \cap submitted = {}
      /\ \A i, j \in DOMAIN e : i # j => e[i][1] # e[j][1]
      /\ \A x \in Range(e) : x[1] \in submitted
      /\ Noticed(w, idle[w])
  BY DEF NoneReclaimed
<1>5. s # <<>> => s[1] \in Range(ts) /\ y \in Entries /\ y[1] = s[1]
  <2>1. s # <<>> => s[1] \in Range(s) /\ s[1] \in Tasks /\ Len(s) \in Nat \ {0}
    BY <1>2 DEF Range
  <2> QED BY <1>2, <2>1 DEF Entries
<1> HIDE DEF s, e, y
<1>6. \A m \in Range(down'[w]) : m.type # "RECLAIM"
  BY <1>2, <1>4, GivenType
<1>7. Sent(up'[w]) \cap submitted' = {}
  BY <1>3, <1>4
<1>8. /\ \A i, j \in DOMAIN cache'[w] : i # j => cache'[w][i][1] # cache'[w][j][1]
      /\ \A x \in Range(cache'[w]) : x[1] \in submitted'
  <2>1. CASE s = <<>>
    BY <1>2, <1>4, <2>1
  <2>2. CASE s # <<>>
    <3> DEFINE x == Append(e, y)
    <3>1. /\ x \in Seq(Entries) /\ Len(x) = Len(e) + 1 /\ Len(e) \in Nat
          /\ \A i \in 1..Len(e) : x[i] = e[i]
          /\ x[Len(e) + 1] = y /\ DOMAIN e = 1..Len(e) /\ DOMAIN x = 1..(Len(e) + 1)
      BY <1>2, <1>5, <2>2, AppendProperties
    <3>2. Range(x) = Range(e) \cup {y}
      BY <1>2, <1>5, <2>2, RangeAppend
    <3> HIDE DEF x
    <3>3. \A i \in DOMAIN e : e[i][1] # y[1]
      BY <1>4, <1>5, <2>2 DEF Range
    <3>4. \A i \in DOMAIN x : \/ i \in DOMAIN e /\ x[i] = e[i]
                              \/ i = Len(e) + 1 /\ x[i] = y
      BY <3>1
    <3>5. \A i, j \in DOMAIN x : i # j => x[i][1] # x[j][1]
      BY <1>4, <3>3, <3>4
    <3>6. \A z \in Range(x) : z[1] \in submitted'
      BY <1>4, <1>5, <2>2, <3>2
    <3> QED BY <1>2, <2>2, <3>5, <3>6 DEF x
  <2> QED BY <2>1, <2>2
<1>9. ASSUME Rests(w)'
      PROVE  batch'[w] = None /\ Heard(idle'[w], up'[w], down'[w], receipt'[w])
  <2>1. Rests(w)
    BY <1>1, <1>9 DEF Rests
  <2>2. batch[w] = None /\ Heard(idle[w], up[w], down[w], receipt[w])
    BY <1>4, <2>1 DEF Noticed
  <2>3. CASE s = <<>>
    BY <1>1, <1>2, <1>3, <2>2, <2>3, UnreadGiven DEF Heard
  <2>4. CASE s # <<>>
    BY <1>1, <1>2, <2>2, <2>4, UnreadGiven DEF Heard
  <2> QED BY <2>3, <2>4
<1> QED BY <1>6, <1>7, <1>8, <1>9 DEF NoneReclaimed, Noticed

\* The queues in the layout.
LEMMA QueueSpots ==
    ASSUME NEW w \in Workers
    PROVE  /\ Layout(Workers)[<<"down", w>>] = Sent(down[w])
           /\ Layout(Workers)[<<"up", w>>] = Sent(up[w])
           /\ Layout(Workers)'[<<"down", w>>] = Sent(down'[w])
           /\ Layout(Workers)'[<<"up", w>>] = Sent(up'[w])
           /\ <<"down", w>> \in Spots(Workers) /\ <<"up", w>> \in Spots(Workers)
           /\ Sent(down[w]) \subseteq Everywhere(Layout(Workers))
           /\ Sent(up[w]) \subseteq Everywhere(Layout(Workers))
<1>1. /\ <<"down", w>> \in Spots(Workers) /\ <<"up", w>> \in Spots(Workers)
      /\ DOMAIN Layout(Workers) = Spots(Workers)
  BY LayoutType
<1>2. /\ Layout(Workers)[<<"down", w>>] = Lies(<<"down", w>>)
      /\ Layout(Workers)'[<<"down", w>>] = Lies(<<"down", w>>)'
  BY <1>1, LayoutType
<1>3. /\ Layout(Workers)[<<"up", w>>] = Lies(<<"up", w>>)
      /\ Layout(Workers)'[<<"up", w>>] = Lies(<<"up", w>>)'
  BY <1>1, LayoutType
<1>4. /\ Lies(<<"down", w>>) = Sent(down[w]) /\ Lies(<<"down", w>>)' = Sent(down'[w])
      /\ Lies(<<"up", w>>) = Sent(up[w]) /\ Lies(<<"up", w>>)' = Sent(up'[w])
  BY LiesAt
<1>5. /\ Layout(Workers)[<<"down", w>>] \subseteq Everywhere(Layout(Workers))
      /\ Layout(Workers)[<<"up", w>>] \subseteq Everywhere(Layout(Workers))
  BY <1>1 DEF Everywhere
<1> QED BY <1>1, <1>2, <1>3, <1>4, <1>5

\* Dealing changes what lies on the connections, and nothing else.
LEMMA ScheduledLayout ==
    ASSUME CrewInv(Workers), UNCHANGED <<worker, tree>>, NEW ts, NEW share,
           Scheduled(ts, share), \A w \in Workers : Sent(down[w]) \cap Range(ts) = {},
           \A w \in Workers : Received(w)
    PROVE  /\ \A w \in Workers :
                 /\ Layout(Workers)'[<<"down", w>>]
                      = Layout(Workers)[<<"down", w>>] \cup Range(share[w])
                 /\ Layout(Workers)'[<<"up", w>>] = Sent(up'[w])
                 /\ OnceEach(down'[w])
           /\ \A s \in Spots(Workers) :
                 (\A w \in Workers : s # <<"down", w>> /\ s # <<"up", w>>) =>
                    Layout(Workers)'[s] = Layout(Workers)[s]
           /\ Results(Workers)'
<1>1. UNCHANGED <<delayed, held, batch, finished, home>>
  BY DEF worker, tree
<1>2. ASSUME NEW w \in Workers
      PROVE  /\ share[w] \in Seq(Tasks) /\ NoRepeat(share[w])
             /\ Range(share[w]) \subseteq Range(ts)
             /\ down'[w] = Given(down[w], share[w]) /\ down[w] \in Seq(Messages)
  BY DEF Scheduled, Dealt, CrewInv, CrewType
<1>3. ASSUME NEW w \in Workers
      PROVE  /\ Sent(down'[w]) = Sent(down[w]) \cup Range(share[w]) /\ OnceEach(down'[w])
             /\ \A m \in Range(down'[w]) : m \in Range(down[w]) \/ m.type = "SUBMIT_BATCH"
  <2>1. Sent(down[w]) \cap Range(share[w]) = {} /\ OnceEach(down[w])
    BY <1>2 DEF CrewInv, Placed, Once
  <2> QED BY <1>2, <2>1, GivenType
<1>4. \A w \in Workers :
        /\ Layout(Workers)'[<<"down", w>>] = Sent(down'[w])
        /\ Layout(Workers)[<<"down", w>>] = Sent(down[w])
        /\ Layout(Workers)'[<<"up", w>>] = Sent(up'[w])
  BY QueueSpots
<1>5. ASSUME NEW s \in Spots(Workers), \A w \in Workers : s # <<"down", w>> /\ s # <<"up", w>>
      PROVE  Layout(Workers)'[s] = Layout(Workers)[s]
  <2>1. CASE \E v \in Workers : s = <<"batch", v>> \/ s = <<"delayed", v>>
                                \/ s = <<"held", v>>
    <3>1. Lies(s)' = Lies(s)
      BY <1>1, <2>1, LiesAt DEF Batched
    <3> QED BY <3>1, LayoutType
  <2>2. CASE s = <<"over", None>>
    <3>1. Lies(s)' = Lies(s)
      BY <1>1, <2>2, LiesAt
    <3> QED BY <3>1, LayoutType
  <2> QED BY <1>5, <2>1, <2>2, LayoutType
<1>6. Results(Workers)'
  <2>1. ASSUME NEW w \in Workers, NEW m \in Range(up'[w]), m.type = "RESULT"
        PROVE  m.task \in finished
    BY <2>1, ReceivedType DEF CrewInv, Results
  <2>2. ASSUME NEW w \in Workers, NEW m \in Range(down'[w]), m.type = "RESULT"
        PROVE  m.task \in finished /\ home[m.task] # None
    BY <1>3, <2>2 DEF CrewInv, Results
  <2> QED BY <1>1, <2>1, <2>2 DEF Results
<1> QED BY <1>3, <1>4, <1>5, <1>6

\* What all batches placed have in common.
LEMMA ScheduleKeeps ==
    ASSUME IInv, UNCHANGED <<worker, numDelayed, reclaims, error>>,
           NEW ts \in Seq(Tasks), NEW share, Scheduled(ts, share),
           \A w \in Workers : /\ Received(w) /\ OwedIn(up'[w]) = OwedIn(up[w])
                              /\ Range(ts) \cap Assigned(w) = {},
           submitted' = submitted \cup Range(ts),
           reclaims = 0 => /\ Range(ts) \cap submitted = {}
                           /\ \A w \in Workers : Sent(up'[w]) \cap Range(ts) = {}
    PROVE  BossType' /\ Counted' /\ Caches' /\ Idles' /\ Untouched' /\ error' = "none"
<1> USE DEF IInv
<1>1. BossType' /\ error' = "none"
  BY DEF BossType, Scheduled
<1>2. Counted'
  <2>1. ASSUME NEW w \in Workers
        PROVE  /\ IsFiniteSet(Assigned(w)')
               /\ numTasks'[w] + OwedIn(up'[w]) = Cardinality(Assigned(w)')
    BY ScheduleCounts
  <2> QED BY <2>1 DEF Counted
<1>3. Caches' /\ Idles'
  BY ScheduleBooks DEF Caches, Idles
<1>4. Untouched'
  <2>1. ASSUME reclaims' = 0, NEW w \in Workers PROVE NoneReclaimed(w)'
    <3>1. reclaims = 0 /\ NoneReclaimed(w)
      BY <2>1 DEF Untouched
    <3> QED BY <3>1, ScheduleUntouched
  <2> QED BY <2>1 DEF Untouched
<1> QED BY <1>1, <1>2, <1>3, <1>4

\* Where the assigned tasks are.
LEMMA AssignedSomewhere ==
    ASSUME NEW w \in Workers
    PROVE  /\ Assigned(w) \subseteq Everywhere(Layout(Workers))
           /\ \A t \in Assigned(w) : \E s \in Spots(Workers) :
                 t \in Layout(Workers)[s] /\ \A v \in Workers : s # <<"up", v>>
<1>1. Assigned(w) = Sent(down[w]) \cup Range(delayed[w]) \cup held[w] \cup Batched(w)
  BY AssignedLies
<1>2. /\ <<"down", w>> \in Spots(Workers) /\ <<"batch", w>> \in Spots(Workers)
      /\ <<"delayed", w>> \in Spots(Workers) /\ <<"held", w>> \in Spots(Workers)
      /\ DOMAIN Layout(Workers) = Spots(Workers)
  BY LayoutType
<1>3. /\ Layout(Workers)[<<"down", w>>] = Sent(down[w])
      /\ Layout(Workers)[<<"batch", w>>] = Batched(w)
      /\ Layout(Workers)[<<"delayed", w>>] = Range(delayed[w])
      /\ Layout(Workers)[<<"held", w>>] = held[w]
  BY <1>2, LayoutType, LiesAt
<1>4. \A t \in Assigned(w) : \E s \in Spots(Workers) :
                 t \in Layout(Workers)[s] /\ \A v \in Workers : s # <<"up", v>>
  BY <1>1, <1>2, <1>3
<1> QED BY <1>2, <1>4 DEF Everywhere

\* The invariant through handle_new_comp_task: a new root is born.
LEMMA SubmitRootKeeps ==
    ASSUME IInv, NEW r, SubmitRoot(r)
    PROVE  IInv' /\ r \in Roots \ Born /\ Born' = Born \cup {r}
<1> USE DEF IInv
<1> DEFINE ts == <<r>>
<1>1. /\ r \in Roots \ submitted /\ r \in Tasks /\ submitted' = submitted \cup {r}
      /\ schedule_tasks(ts) /\ UNCHANGED <<numDelayed, reclaims, error, done, up, worker, tree>>
  BY DEF SubmitRoot, Roots
<1>2. ts \in Seq(Tasks) /\ NoRepeat(ts) /\ Range(ts) = {r}
  BY <1>1 DEF NoRepeat, Range
<1> HIDE DEF ts
<1>3. PICK share : Scheduled(ts, share)
  BY <1>1, <1>2, ScheduleEffect DEF CrewInv
<1>4. mapped \subseteq Tasks /\ mapped' = mapped
  BY <1>1 DEF CrewInv, CrewType, tree
<1>5. r \notin Everywhere(Layout(Workers))
  BY <1>1, <1>4, KidsType DEF Births, Born
<1>6. \A w \in Workers : Received(w) /\ OwedIn(up'[w]) = OwedIn(up[w])
  BY <1>1 DEF Received
<1>7. \A w \in Workers : Range(ts) \cap Assigned(w) = {}
  BY <1>2, <1>5, AssignedSomewhere
<1>8. \A w \in Workers : Sent(down[w]) \cap Range(ts) = {} /\ Sent(up[w]) \cap Range(ts) = {}
  <2>1. ASSUME NEW w \in Workers
        PROVE  /\ Sent(down[w]) \subseteq Everywhere(Layout(Workers))
               /\ Sent(up[w]) \subseteq Everywhere(Layout(Workers))
    BY QueueSpots
  <2> QED BY <1>2, <1>5, <2>1
<1>9. BossType' /\ Counted' /\ Caches' /\ Idles' /\ Untouched' /\ error' = "none"
  BY <1>1, <1>2, <1>3, <1>6, <1>7, <1>8, ScheduleKeeps
<1>10. /\ \A w \in Workers :
             /\ Layout(Workers)'[<<"down", w>>]
                  = Layout(Workers)[<<"down", w>>] \cup Range(share[w])
             /\ Layout(Workers)'[<<"up", w>>] = Sent(up'[w])
             /\ OnceEach(down'[w])
       /\ \A s \in Spots(Workers) :
             (\A w \in Workers : s # <<"down", w>> /\ s # <<"up", w>>) =>
                Layout(Workers)'[s] = Layout(Workers)[s]
       /\ Results(Workers)'
  BY <1>1, <1>3, <1>6, <1>8, ScheduledLayout
<1>11. \A w \in Workers : Layout(Workers)'[<<"up", w>>] = Layout(Workers)[<<"up", w>>]
  BY <1>1, QueueSpots
<1>12. /\ Apart(Layout(Workers))'
       /\ Everywhere(Layout(Workers))' = Everywhere(Layout(Workers)) \cup {r}
  <2>1. Dealt(ts, share, Workers) /\ Apart(Layout(Workers))
    BY <1>3 DEF Scheduled, CrewInv, Placed
  <2>2. Range(ts) \cap Everywhere(Layout(Workers)) = {}
    BY <1>2, <1>5
  <2>3. \A s \in Spots(Workers) : (\A w \in Workers : s # <<"down", w>>) =>
                Layout(Workers)'[s] = Layout(Workers)[s]
    BY <1>10, <1>11
  <2>4. /\ Apart(Layout(Workers))'
        /\ Everywhere(Layout(Workers))' = Everywhere(Layout(Workers)) \cup Range(ts)
    <3>1. Workers \in SUBSET Workers
      OBVIOUS
    <3>2. \A w \in Workers : Layout(Workers)'[<<"down", w>>]
                                = Layout(Workers)[<<"down", w>>] \cup Range(share[w])
      BY <1>10
    <3> QED BY <2>1, <2>2, <2>3, <3>1, <3>2, NewDealtPlaced
  <2> QED BY <1>2, <2>4
<1>13. CrewInv(Workers)'
  <2>1. /\ down' \in [Workers -> Seq(Messages)] /\ up' \in [Workers -> Seq(Messages)]
        /\ \A w \in Workers : OnceEach(up'[w])
    BY <1>1, <1>3 DEF Scheduled, CrewInv, CrewType, Placed, Once
  <2>2. {r} \in SUBSET Roots
    BY <1>1
  <2> QED BY <1>1, <1>10, <1>12, <2>1, <2>2, BossKeeps
<1>14. Births' /\ Born' = Born \cup {r}
  <2>1. Born' = Born \cup {r}
    BY <1>1, <1>4 DEF Born, Kids, Roots
  <2> QED BY <1>1, <1>12, <2>1 DEF Births
<1> QED BY <1>1, <1>5, <1>9, <1>13, <1>14 DEF Births

\* The message that the server handles next, and what it carries.
LEMMA NextMessage ==
    ASSUME CrewInv(Workers), NEW x \in Workers, NEW type, Receive(x, type)
    PROVE  LET m == Head(up[x]) IN
           /\ m \in Messages /\ m.type = type /\ up[x] \in Seq(Messages) /\ up[x] # <<>>
           /\ up' \in [Workers -> Seq(Messages)]
           /\ up'[x] = Tail(up[x]) /\ \A w \in Workers \ {x} : up'[w] = up[w]
           /\ Sent(up[x]) = SentBy(m) \cup Sent(up'[x])
           /\ SentBy(m) \cap Sent(up'[x]) = {}
           /\ OwedIn(up[x]) = Owes(m) + OwedIn(up'[x]) /\ OwedIn(up'[x]) \in Int
           /\ \A w \in Workers : OnceEach(up'[w])
           /\ m.type = "SUBMIT_BATCH" => NoRepeat(m.tasks)
<1>1. /\ up \in [Workers -> Seq(Messages)] /\ up[x] \in Seq(Messages) /\ up[x] # <<>>
      /\ Head(up[x]).type = type /\ up' = [up EXCEPT ![x] = Tail(up[x])]
      /\ \A w \in Workers : OnceEach(up[w])
  BY DEF CrewInv, CrewType, Receive, Placed, Once
<1>2. /\ Tail(up[x]) \in Seq(Messages) /\ Head(up[x]) \in Messages
      /\ Sent(up[x]) = SentBy(Head(up[x])) \cup Sent(Tail(up[x]))
      /\ OnceEach(Tail(up[x])) /\ SentBy(Head(up[x])) \cap Sent(Tail(up[x])) = {}
      /\ Head(up[x]).type = "SUBMIT_BATCH" => NoRepeat(Head(up[x]).tasks)
  BY <1>1, SentTail
<1>3. /\ up' \in [Workers -> Seq(Messages)] /\ up'[x] = Tail(up[x])
      /\ \A w \in Workers \ {x} : up'[w] = up[w]
  BY <1>1, <1>2
<1>4. /\ OwedIn(up[x]) = Owes(Head(up[x])) + OwedIn(Tail(up[x]))
      /\ OwedIn(Tail(up[x])) \in Int
  BY <1>1, <1>2, OwedTail, OwedConcat
<1>5. \A w \in Workers : OnceEach(up'[w])
  BY <1>1, <1>2, <1>3
<1> QED BY <1>1, <1>2, <1>3, <1>4, <1>5

\* What is on its way up is nowhere else.
LEMMA UpNowhereElse ==
    ASSUME CrewInv(Workers), NEW x \in Workers, NEW A, A \subseteq Sent(up[x])
    PROVE  /\ \A w \in Workers : A \cap Assigned(w) = {} /\ A \cap Sent(down[w]) = {}
           /\ \A w \in Workers \ {x} : A \cap Sent(up[w]) = {}
           /\ A \subseteq Everywhere(Layout(Workers))
<1>1. /\ Layout(Workers)[<<"up", x>>] = Sent(up[x]) /\ <<"up", x>> \in Spots(Workers)
      /\ A \subseteq Everywhere(Layout(Workers)) /\ DOMAIN Layout(Workers) = Spots(Workers)
  BY QueueSpots, LayoutType
<1>2. ASSUME NEW s \in Spots(Workers), s # <<"up", x>>
      PROVE  A \cap Layout(Workers)[s] = {}
  BY <1>1, <1>2 DEF CrewInv, Placed, Apart
<1>3. ASSUME NEW w \in Workers PROVE A \cap Assigned(w) = {}
  <2>1. ASSUME NEW t \in Assigned(w) PROVE t \notin A
    BY <1>2, AssignedSomewhere
  <2> QED BY <2>1
<1>4. ASSUME NEW w \in Workers PROVE A \cap Sent(down[w]) = {}
  <2>1. <<"down", w>> # <<"up", x>>
    OBVIOUS
  <2> QED BY <1>2, <2>1, QueueSpots
<1>5. ASSUME NEW w \in Workers \ {x} PROVE A \cap Sent(up[w]) = {}
  <2>1. <<"up", w>> # <<"up", x>>
    OBVIOUS
  <2> QED BY <1>2, <2>1, QueueSpots
<1> QED BY <1>1, <1>3, <1>4, <1>5

\* The invariant through a SUBMIT_BATCH of a worker.
LEMMA HandleBatchKeeps ==
    ASSUME IInv, NEW x \in Workers, HandleBatch(x)
    PROVE  IInv' /\ Born' = Born
<1> USE DEF IInv
<1> DEFINE ts == Head(up[x]).tasks
<1>1. /\ Receive(x, "SUBMIT_BATCH") /\ schedule_tasks(ts)
      /\ submitted' = submitted \cup Range(ts)
      /\ UNCHANGED <<numDelayed, reclaims, error, done, worker, tree>>
  BY DEF HandleBatch
<1>2. /\ Head(up[x]) \in Messages /\ Head(up[x]).type = "SUBMIT_BATCH"
      /\ up[x] # <<>> /\ up[x] \in Seq(Messages)
      /\ up' \in [Workers -> Seq(Messages)]
      /\ up'[x] = Tail(up[x]) /\ \A w \in Workers \ {x} : up'[w] = up[w]
      /\ Sent(up[x]) = SentBy(Head(up[x])) \cup Sent(up'[x])
      /\ SentBy(Head(up[x])) \cap Sent(up'[x]) = {}
      /\ OwedIn(up[x]) = Owes(Head(up[x])) + OwedIn(up'[x]) /\ OwedIn(up'[x]) \in Int
      /\ \A w \in Workers : OnceEach(up'[w])
      /\ NoRepeat(ts)
  BY <1>1, NextMessage
<1>3. ts \in Seq(Tasks) /\ SentBy(Head(up[x])) = Range(ts) /\ Owes(Head(up[x])) = 0
  BY <1>2, Fields DEF SentBy, Owes
<1> HIDE DEF ts
<1>4. PICK share : Scheduled(ts, share)
  BY <1>1, <1>2, <1>3, ScheduleEffect DEF CrewInv
<1>5. \A w \in Workers : Received(w) /\ OwedIn(up'[w]) = OwedIn(up[w])
  <2>1. Received(x) /\ OwedIn(up'[x]) = OwedIn(up[x])
    BY <1>2, <1>3 DEF Received
  <2>2. ASSUME NEW w \in Workers \ {x} PROVE Received(w) /\ OwedIn(up'[w]) = OwedIn(up[w])
    BY <1>2 DEF Received
  <2> QED BY <2>1, <2>2
<1>6. /\ \A w \in Workers : /\ Range(ts) \cap Assigned(w) = {}
                            /\ Range(ts) \cap Sent(down[w]) = {}
      /\ \A w \in Workers \ {x} : Range(ts) \cap Sent(up[w]) = {}
      /\ Range(ts) \subseteq Everywhere(Layout(Workers))
  <2>1. Range(ts) \subseteq Sent(up[x])
    BY <1>2, <1>3
  <2> QED BY <2>1, UpNowhereElse
<1>7. reclaims = 0 => /\ Range(ts) \cap submitted = {}
                      /\ \A w \in Workers : Sent(up'[w]) \cap Range(ts) = {}
  <2>1. Sent(up'[x]) \cap Range(ts) = {}
    BY <1>2, <1>3
  <2>2. \A w \in Workers : Sent(up'[w]) \cap Range(ts) = {}
    BY <1>2, <1>6, <2>1
  <2>3. reclaims = 0 => Sent(up[x]) \cap submitted = {}
    BY DEF Untouched, NoneReclaimed
  <2> QED BY <1>2, <1>3, <2>2, <2>3
<1>8. BossType' /\ Counted' /\ Caches' /\ Idles' /\ Untouched' /\ error' = "none"
  <2>1. UNCHANGED <<worker, numDelayed, reclaims, error>>
    BY <1>1
  <2> QED BY <1>1, <1>3, <1>4, <1>5, <1>6, <1>7, <2>1, ScheduleKeeps
<1>9. /\ \A w \in Workers :
             /\ Layout(Workers)'[<<"down", w>>]
                  = Layout(Workers)[<<"down", w>>] \cup Range(share[w])
             /\ Layout(Workers)'[<<"up", w>>] = Sent(up'[w])
             /\ OnceEach(down'[w])
      /\ \A s \in Spots(Workers) :
            (\A w \in Workers : s # <<"down", w>> /\ s # <<"up", w>>) =>
               Layout(Workers)'[s] = Layout(Workers)[s]
      /\ Results(Workers)'
  BY <1>1, <1>4, <1>5, <1>6, ScheduledLayout
<1>10. /\ Apart(Layout(Workers))'
       /\ Everywhere(Layout(Workers))' = Everywhere(Layout(Workers))
  <2> DEFINE from == <<"up", x>>
  <2>1. /\ Dealt(ts, share, Workers) /\ Apart(Layout(Workers))
        /\ from \in Spots(Workers) /\ \A w \in Workers : from # <<"down", w>>
    BY <1>4, QueueSpots DEF Scheduled, CrewInv, Placed
  <2>2. /\ Range(ts) \subseteq Layout(Workers)[from]
        /\ Layout(Workers)'[from] = Layout(Workers)[from] \ Range(ts)
    <3>1. Layout(Workers)[from] = Sent(up[x]) /\ Layout(Workers)'[from] = Sent(up'[x])
      BY QueueSpots
    <3>2. Sent(up[x]) = Range(ts) \cup Sent(up'[x]) /\ Range(ts) \cap Sent(up'[x]) = {}
      BY <1>2, <1>3
    <3> QED BY <3>1, <3>2
  <2>3. ASSUME NEW s \in Spots(Workers) \ {from}, \A w \in Workers : s # <<"down", w>>
        PROVE  Layout(Workers)'[s] = Layout(Workers)[s]
    <3>1. CASE \E w \in Workers : s = <<"up", w>>
      <4>1. PICK w \in Workers : s = <<"up", w>>
        BY <3>1
      <4>2. up'[w] = up[w]
        BY <1>2, <4>1
      <4> QED BY <4>1, <4>2, QueueSpots
    <3> QED BY <1>9, <2>3, <3>1
  <2>4. Workers \in SUBSET Workers
    OBVIOUS
  <2>5. \A w \in Workers : Layout(Workers)'[<<"down", w>>]
                              = Layout(Workers)[<<"down", w>>] \cup Range(share[w])
    BY <1>9
  <2> HIDE DEF from
  <2> QED BY <2>1, <2>2, <2>3, <2>4, <2>5, DealtPlaced
<1>11. CrewInv(Workers)'
  <2>1. /\ down' \in [Workers -> Seq(Messages)] /\ {} \in SUBSET Roots
        /\ Everywhere(Layout(Workers))' = Everywhere(Layout(Workers)) \cup {}
    BY <1>4, <1>10 DEF Scheduled
  <2> QED BY <1>1, <1>2, <1>9, <1>10, <2>1, BossKeeps
<1>12. Born' = Born /\ submitted' \subseteq Born
  <2>1. mapped' = mapped /\ mapped \subseteq Tasks
    BY <1>1 DEF CrewInv, CrewType, tree
  <2>2. Range(ts) \subseteq Born /\ submitted \subseteq Born
    BY <1>6 DEF Births
  <2>3. (UNION {Kids(t) : t \in mapped}) \cap Roots = {}
    BY <2>1, KidsType
  <2>4. Range(ts) \cap Roots \subseteq submitted
    BY <2>2, <2>3 DEF Born
  <2>5. submitted' \cap Roots = submitted \cap Roots
    BY <1>1, <2>4
  <2>6. Born' = Born
    BY <2>1, <2>5 DEF Born, Kids, Roots
  <2> QED BY <1>1, <2>2, <2>6
<1> QED BY <1>8, <1>10, <1>11, <1>12 DEF Births

----------------------------------------------------------------------------
(* Handling the other messages.                                            *)

\* A message that carries no tasks is handled: at most one message that carries
\* none either goes to each worker.
Answers(x) ==
    /\ \A w \in Workers : \/ down'[w] = down[w]
                          \/ \E m \in Messages : down'[w] = Append(down[w], m)
    /\ down' \in [Workers -> Seq(Messages)]
    /\ \A w \in Workers : \A m \in Messages : down'[w] = Append(down[w], m) =>
          /\ m.type # "SUBMIT_BATCH"
          /\ m.type = "RESULT" => m.task \in finished /\ home[m.task] # None

\* A message that carries no task leaves every task where it is.
LEMMA AnswersKeep ==
    ASSUME IInv, NEW x \in Workers, NEW type, Receive(x, type), type # "SUBMIT_BATCH",
           Answers(x), UNCHANGED <<submitted, worker, tree>>
    PROVE  /\ CrewInv(Workers)' /\ Births' /\ Born' = Born
           /\ \A w \in Workers : /\ Sent(up'[w]) = Sent(up[w])
                                 /\ Unread(down'[w]) = Unread(down[w])
                                 /\ Assigned(w)' = Assigned(w)
                                 /\ w # x => up'[w] = up[w]
<1> USE DEF IInv
<1>1. /\ Head(up[x]) \in Messages /\ Head(up[x]).type = type
      /\ up' \in [Workers -> Seq(Messages)]
      /\ up'[x] = Tail(up[x]) /\ up[x] # <<>> /\ \A w \in Workers \ {x} : up'[w] = up[w]
      /\ Sent(up[x]) = SentBy(Head(up[x])) \cup Sent(up'[x])
      /\ \A w \in Workers : OnceEach(up'[w])
  BY NextMessage
<1>2. SentBy(Head(up[x])) = {}
  BY <1>1 DEF SentBy
<1>3. \A w \in Workers : Sent(up'[w]) = Sent(up[w])
  BY <1>1, <1>2
<1>4. ASSUME NEW w \in Workers
      PROVE  /\ Sent(down'[w]) = Sent(down[w]) /\ Unread(down'[w]) = Unread(down[w])
             /\ OnceEach(down'[w])
             /\ \A m \in Range(down'[w]) :
                   m.type = "RESULT" => m.task \in finished /\ home[m.task] # None
  <2>1. /\ down[w] \in Seq(Messages) /\ OnceEach(down[w])
        /\ \A m \in Range(down[w]) :
              m.type = "RESULT" => m.task \in finished /\ home[m.task] # None
    BY DEF CrewInv, CrewType, Placed, Once, Results
  <2>2. CASE down'[w] = down[w]
    BY <2>1, <2>2
  <2>3. CASE \E m \in Messages : down'[w] = Append(down[w], m)
    <3>1. PICK m \in Messages : down'[w] = Append(down[w], m)
      BY <2>3
    <3>2. /\ m.type # "SUBMIT_BATCH"
          /\ m.type = "RESULT" => m.task \in finished /\ home[m.task] # None
      BY <3>1 DEF Answers
    <3>3. SentBy(m) = {}
      BY <3>2 DEF SentBy
    <3>4. Sent(down'[w]) = Sent(down[w]) /\ OnceEach(down'[w])
      BY <2>1, <3>1, <3>2, <3>3, SentAppend
    <3>5. Unread(down'[w]) = Unread(down[w])
      BY <2>1, <3>1, <3>2, UnreadSame
    <3>6. Range(down'[w]) = Range(down[w]) \cup {m}
      BY <2>1, <3>1, RangeAppend
    <3>7. \A z \in Range(down'[w]) :
                   z.type = "RESULT" => z.task \in finished /\ home[z.task] # None
      BY <2>1, <3>2, <3>6
    <3> QED BY <3>4, <3>5, <3>7
  <2> QED BY <2>2, <2>3 DEF Answers
<1>5. /\ Apart(Layout(Workers))'
      /\ Everywhere(Layout(Workers))' = Everywhere(Layout(Workers))
  BY <1>3, <1>4, StillPlaced DEF CrewInv, Placed
<1>6. Results(Workers)'
  <2>1. finished' = finished /\ home' = home
    BY DEF tree
  <2>2. ASSUME NEW w \in Workers, NEW m \in Range(up'[w]), m.type = "RESULT"
        PROVE  m.task \in finished
    <3>1. Range(up'[w]) \subseteq Range(up[w])
      <4>1. CASE w = x
        <5>1. up[x] \in Seq(Messages)
          BY DEF CrewInv, CrewType
        <5>2. Range(Tail(up[x])) \subseteq Range(up[x])
          BY <1>1, <5>1, RangeTail
        <5> QED BY <1>1, <4>1, <5>2
      <4> QED BY <1>1, <4>1
    <3> QED BY <2>2, <3>1 DEF CrewInv, Results
  <2> QED BY <1>4, <2>1, <2>2 DEF Results
<1>7. CrewInv(Workers)'
  <2>1. /\ down' \in [Workers -> Seq(Messages)] /\ {} \in SUBSET Roots
        /\ Everywhere(Layout(Workers))' = Everywhere(Layout(Workers)) \cup {}
        /\ \A w \in Workers : OnceEach(down'[w]) /\ OnceEach(up'[w])
    BY <1>1, <1>4, <1>5 DEF Answers
  <2> QED BY <1>1, <1>5, <1>6, <2>1, BossKeeps
<1>8. Born' = Born /\ Births'
  <2>1. Born' = Born
    BY DEF Born, Kids, Roots, tree
  <2> QED BY <1>5, <2>1 DEF Births
<1>9. \A w \in Workers : Assigned(w)' = Assigned(w)
  <2>1. UNCHANGED worker
    OBVIOUS
  <2> QED BY <1>4, <2>1, AssignedByQueue
<1> QED BY <1>1, <1>3, <1>4, <1>7, <1>8, <1>9

\* Nothing is known anew of the idle workers.
LEMMA BooksStand ==
    ASSUME IInv, NEW x \in Workers, NEW type, Receive(x, type),
           type \notin {"SUBMIT_BATCH", "WAITING"},
           Answers(x), UNCHANGED <<submitted, idle, numIdle, cache, worker, tree>>
    PROVE  /\ Caches' /\ Idles'
           /\ \A w \in Workers :
                 /\ NoneReclaimed(w) =>
                       /\ Sent(up'[w]) \cap submitted' = {}
                       /\ \A i, j \in DOMAIN cache'[w] :
                             i # j => cache'[w][i][1] # cache'[w][j][1]
                       /\ \A z \in Range(cache'[w]) : z[1] \in submitted'
                       /\ Noticed(w, idle[w])'
<1> USE DEF IInv
<1>1. \A w \in Workers : Received(w)
  BY NextMessage DEF Received
<1>2. \A w \in Workers : Sent(up'[w]) = Sent(up[w]) /\ Unread(down'[w]) = Unread(down[w])
  BY AnswersKeep
<1>3. UNCHANGED <<batch, receipt, phase, ready>>
  BY DEF worker
<1>4. ASSUME NEW w \in Workers
      PROVE  /\ \A m \in Range(up[w]) : m.type = "WAITING" => m \in Range(up'[w])
             /\ Range(up'[w]) \subseteq Range(up[w])
             /\ \A e, d, r, busy : Marks(e, up[w], d, r, busy) => Marks(e, up'[w], d, r, busy)
  BY <1>1, ReceivedType DEF CrewInv
<1>5. ASSUME NEW w \in Workers
      PROVE  Marks(cache'[w], up'[w], down'[w], receipt'[w], batch'[w] # None)
  <2>1. Marks(cache[w], up[w], down[w], receipt[w], batch[w] # None)
    BY DEF Caches
  <2>2. Marks(cache[w], up'[w], down[w], receipt[w], batch[w] # None)
    BY <1>4, <2>1
  <2>3. Marks(cache[w], up'[w], down'[w], receipt[w], batch[w] # None)
    BY <1>2, <2>2, MarksSame
  <2> QED BY <1>3, <2>3
<1>6. ASSUME NEW w \in Workers
      PROVE  IdleRight(idle'[w], up'[w], down'[w], receipt'[w], batch'[w] # None)
  <2>1. IdleRight(idle[w], up[w], down[w], receipt[w], batch[w] # None)
    BY DEF Idles
  <2> QED BY <1>2, <1>3, <1>4, <2>1 DEF IdleRight
<1>7. ASSUME NEW w \in Workers, Noticed(w, idle[w]) PROVE Noticed(w, idle[w])'
  BY <1>2, <1>3, <1>4, <1>7 DEF Noticed, Heard, Rests
<1>8. ASSUME NEW w \in Workers, NoneReclaimed(w)
      PROVE  /\ Sent(up'[w]) \cap submitted' = {}
             /\ \A i, j \in DOMAIN cache'[w] : i # j => cache'[w][i][1] # cache'[w][j][1]
             /\ \A z \in Range(cache'[w]) : z[1] \in submitted'
             /\ Noticed(w, idle[w])'
  BY <1>2, <1>7, <1>8 DEF NoneReclaimed
<1> QED BY <1>5, <1>6, <1>8 DEF Caches, Idles

\* The task count of a worker moves by what the worker owed.
LEMMA CountsMove ==
    ASSUME IInv, NEW x \in Workers, NEW type, Receive(x, type), type # "SUBMIT_BATCH",
           Answers(x), UNCHANGED <<submitted, worker, tree>>,
           numTasks'[x] = numTasks[x] + Owes(Head(up[x])),
           \A w \in Workers \ {x} : numTasks'[w] = numTasks[w]
    PROVE  Counted'
<1> USE DEF IInv
<1>1. \A w \in Workers : Assigned(w)' = Assigned(w) /\ (w # x => up'[w] = up[w])
  BY AnswersKeep
<1>2. OwedIn(up[x]) = Owes(Head(up[x])) + OwedIn(up'[x]) /\ OwedIn(up'[x]) \in Int
  BY NextMessage
<1>3. Owes(Head(up[x])) \in Int /\ numTasks[x] \in Int
  <2>1. Head(up[x]) \in Messages
    BY NextMessage
  <2> QED BY <2>1, OwedType DEF BossType
<1>4. ASSUME NEW w \in Workers
      PROVE  /\ IsFiniteSet(Assigned(w)')
             /\ numTasks'[w] + OwedIn(up'[w]) = Cardinality(Assigned(w)')
  <2>1. /\ IsFiniteSet(Assigned(w))
        /\ numTasks[w] + OwedIn(up[w]) = Cardinality(Assigned(w))
    BY DEF Counted
  <2>2. CASE w = x
    <3>1. numTasks'[x] + OwedIn(up'[x]) = numTasks[x] + OwedIn(up[x])
      BY <1>2, <1>3
    <3> QED BY <1>1, <2>1, <2>2, <3>1
  <2>3. CASE w # x
    <3>1. numTasks'[w] = numTasks[w] /\ up'[w] = up[w] /\ Assigned(w)' = Assigned(w)
      BY <1>1, <2>3
    <3> QED BY <2>1, <3>1
  <2> QED BY <2>2, <2>3
<1> QED BY <1>4 DEF Counted

\* A handler that sends nothing is a special case.
LEMMA NoAnswer ==
    ASSUME IInv, NEW x \in Workers, UNCHANGED down
    PROVE  Answers(x)
<1>1. /\ down \in [Workers -> Seq(Messages)]
      /\ \A w \in Workers : down[w] \in Seq(Messages)
  BY DEF IInv, CrewInv, CrewType
<1>2. ASSUME NEW w \in Workers, NEW m \in Messages PROVE down[w] # Append(down[w], m)
  <2>1. Len(Append(down[w], m)) = Len(down[w]) + 1 /\ Len(down[w]) \in Nat
    BY <1>1
  <2> QED BY <2>1
<1> QED BY <1>1, <1>2 DEF Answers

\* The invariant through an UPDATE.
LEMMA HandleUpdateKeeps ==
    ASSUME IInv, NEW x \in Workers, HandleUpdate(x)
    PROVE  IInv' /\ Born' = Born
<1> USE DEF IInv
<1>1. /\ Receive(x, "UPDATE")
      /\ numTasks' = [numTasks EXCEPT ![x] = numTasks[x] + Head(up[x]).n]
      /\ UNCHANGED <<numDelayed, idle, cache, numIdle, reclaims, error,
                     submitted, done, down, worker, tree>>
  BY DEF HandleUpdate
<1>2. Answers(x)
  BY <1>1, NoAnswer
<1>3. CrewInv(Workers)' /\ Births' /\ Born' = Born
  BY <1>1, <1>2, AnswersKeep
<1>4. Owes(Head(up[x])) = Head(up[x]).n /\ Head(up[x]).n \in Int
  BY <1>1, NextMessage, Fields DEF Owes
<1>5. BossType' /\ error' = "none"
  BY <1>1, <1>4 DEF BossType
<1>6. Counted'
  <2>1. /\ numTasks'[x] = numTasks[x] + Owes(Head(up[x]))
        /\ \A w \in Workers \ {x} : numTasks'[w] = numTasks[w]
    BY <1>1, <1>4 DEF BossType
  <2> QED BY <1>1, <1>2, <2>1, CountsMove
<1>7. /\ Caches' /\ Idles'
      /\ \A w \in Workers :
            NoneReclaimed(w) =>
               /\ Sent(up'[w]) \cap submitted' = {}
               /\ \A i, j \in DOMAIN cache'[w] : i # j => cache'[w][i][1] # cache'[w][j][1]
               /\ \A z \in Range(cache'[w]) : z[1] \in submitted'
               /\ Noticed(w, idle[w])'
  BY <1>1, <1>2, BooksStand
<1>8. Untouched'
  BY <1>1, <1>7 DEF Untouched, NoneReclaimed
<1> QED BY <1>3, <1>5, <1>6, <1>7, <1>8

\* The invariant through a RESULT, which may answer a client.
LEMMA HandleResultKeeps ==
    ASSUME IInv, NEW x \in Workers, HandleResult(x)
    PROVE  /\ IInv' /\ Born' = Born
           /\ done' = done \/ \E t \in Roots \cap finished : done' = done \cup {t}
<1> USE DEF IInv
<1> DEFINE m == Head(up[x])
<1>1. /\ Receive(x, "RESULT")
      /\ numTasks' = [numTasks EXCEPT ![x] = numTasks[x] - 1]
      /\ IF home[m.task] = None
         THEN done' = done \cup {m.task} /\ UNCHANGED down
         ELSE /\ down' = [down EXCEPT ![home[m.task]] = Append(down[home[m.task]], m)]
              /\ UNCHANGED done
      /\ UNCHANGED <<numDelayed, idle, cache, numIdle, reclaims, error,
                     submitted, worker, tree>>
  BY DEF HandleResult
<1>2. m \in Messages /\ m.type = "RESULT" /\ m.task \in Tasks /\ m.task \in finished
  <2>1. m \in Messages /\ m.type = "RESULT" /\ up[x] \in Seq(Messages) /\ up[x] # <<>>
    BY <1>1, NextMessage
  <2>2. m \in Range(up[x])
    BY <2>1, RangeTail
  <2> QED BY <2>1, <2>2, Fields DEF CrewInv, Results
<1>3. Answers(x) /\ \A w \in Workers : \A z \in Range(down'[w]) :
                       z \in Range(down[w]) \/ z.type = "RESULT"
  <2>1. /\ down \in [Workers -> Seq(Messages)] /\ home \in [Tasks -> Workers \cup {None}]
        /\ \A w \in Workers : down[w] \in Seq(Messages)
    BY DEF CrewInv, CrewType
  <2>2. CASE home[m.task] = None
    <3>1. UNCHANGED down
      BY <1>1, <2>2
    <3> QED BY <3>1, NoAnswer
  <2>3. CASE home[m.task] # None
    <3>1. PICK v \in Workers : v = home[m.task]
      BY <1>2, <2>1, <2>3
    <3>2. down' = [down EXCEPT ![v] = Append(down[v], m)]
      BY <1>1, <2>3, <3>1
    <3>3. Append(down[v], m) \in Seq(Messages) /\ Range(Append(down[v], m)) = Range(down[v]) \cup {m}
      BY <1>2, <2>1, RangeAppend
    <3>4. down' \in [Workers -> Seq(Messages)] /\ down'[v] = Append(down[v], m)
          /\ \A w \in Workers \ {v} : down'[w] = down[w]
      BY <2>1, <3>2, <3>3
    <3>5. ASSUME NEW w \in Workers, NEW z \in Messages, down'[w] = Append(down[w], z)
          PROVE  z = m
      <4>1. CASE w = v
        <5>1. Append(down[v], z) = Append(down[v], m)
          BY <3>4, <3>5, <4>1
        <5>2. \A y \in Messages : Append(down[v], y)[Len(down[v]) + 1] = y
          BY <2>1
        <5> QED BY <1>2, <5>1, <5>2
      <4>2. CASE w # v
        <5>1. Len(Append(down[w], z)) = Len(down[w]) + 1 /\ Len(down[w]) \in Nat
          BY <2>1
        <5> QED BY <3>4, <3>5, <4>2, <5>1
      <4> QED BY <4>1, <4>2
    <3>6. \A w \in Workers : \A z \in Range(down'[w]) :
                       z \in Range(down[w]) \/ z.type = "RESULT"
      BY <1>2, <3>3, <3>4
    <3>7. \A w \in Workers : down'[w] = down[w] \/ \E z \in Messages : down'[w] = Append(down[w], z)
      BY <1>2, <3>4
    <3> QED BY <1>2, <2>3, <3>4, <3>5, <3>6, <3>7 DEF Answers
  <2> QED BY <2>2, <2>3
<1>4. CrewInv(Workers)' /\ Births' /\ Born' = Born
  BY <1>1, <1>3, AnswersKeep
<1>5. Owes(m) = -1
  BY <1>2 DEF Owes
<1>6. BossType' /\ error' = "none"
  BY <1>1 DEF BossType
<1>7. Counted'
  <2>1. /\ numTasks'[x] = numTasks[x] + Owes(Head(up[x]))
        /\ \A w \in Workers \ {x} : numTasks'[w] = numTasks[w]
    BY <1>1, <1>5 DEF BossType
  <2> QED BY <1>1, <1>3, <2>1, CountsMove
<1>8. /\ Caches' /\ Idles'
      /\ \A w \in Workers :
            NoneReclaimed(w) =>
               /\ Sent(up'[w]) \cap submitted' = {}
               /\ \A i, j \in DOMAIN cache'[w] : i # j => cache'[w][i][1] # cache'[w][j][1]
               /\ \A z \in Range(cache'[w]) : z[1] \in submitted'
               /\ Noticed(w, idle[w])'
  BY <1>1, <1>3, BooksStand
<1>9. Untouched'
  <2>1. ASSUME reclaims' = 0, NEW w \in Workers PROVE NoneReclaimed(w)'
    <3>1. NoneReclaimed(w)
      BY <1>1, <2>1 DEF Untouched
    <3>2. \A z \in Range(down'[w]) : z.type # "RECLAIM"
      BY <1>3, <3>1 DEF NoneReclaimed
    <3> QED BY <1>1, <1>8, <3>1, <3>2 DEF NoneReclaimed
  <2> QED BY <2>1 DEF Untouched
<1>10. done' = done \/ \E t \in Roots \cap finished : done' = done \cup {t}
  <2>1. CASE home[m.task] = None
    <3>1. m.task \in Roots
      <4>1. m.task \in Born
        <5>1. Lies(<<"over", None>>) = finished /\ <<"over", None>> \in Spots(Workers)
          BY LiesAt, LayoutType
        <5>2. finished \subseteq Everywhere(Layout(Workers))
          BY <5>1, LayoutType DEF Everywhere
        <5> QED BY <1>2, <5>2 DEF Births
      <4>2. \A t \in mapped : m.task \notin Kids(t)
        BY <2>1 DEF CrewInv, Homes, CrewType
      <4> QED BY <4>1, <4>2 DEF Born
    <3> QED BY <1>1, <1>2, <2>1, <3>1
  <2>2. CASE home[m.task] # None
    BY <1>1, <2>2
  <2> QED BY <2>1, <2>2
<1> QED BY <1>4, <1>6, <1>7, <1>8, <1>9, <1>10

\* A reclaim asks one worker for delayed tasks, or none.
LEMMA TryReclaimEffect ==
    ASSUME IInv, NEW x \in Workers, NEW exclude, NEW now \in [Workers -> Int], NEW n,
           TryReclaim(exclude, now, n)
    PROVE  /\ Answers(x) /\ numDelayed' \in [Workers -> Int] /\ reclaims' \in Nat
           /\ reclaims' = 0 => reclaims = 0 /\ down' = down
<1>1. /\ down \in [Workers -> Seq(Messages)] /\ \A w \in Workers : down[w] \in Seq(Messages)
      /\ reclaims \in Nat
  BY DEF IInv, CrewInv, CrewType, BossType
<1>2. PICK victim \in {w \in Workers : \A v \in Workers : now[v] <= now[w]} :
        LET k == now[victim] - LeaveBehind
        IN IF /\ WorkStealing /\ n > 0 /\ victim # exclude
              /\ now[victim] >= StealThreshold /\ k >= 1
           THEN /\ down' = [down EXCEPT ![victim] = Append(down[victim], Reclaim(k))]
                /\ numDelayed' = [now EXCEPT ![victim] = now[victim] - k]
                /\ reclaims' = reclaims + 1
           ELSE down' = down /\ numDelayed' = now /\ reclaims' = reclaims
  BY DEF TryReclaim
<1> DEFINE k == now[victim] - LeaveBehind
<1>3. k \in Int /\ now[victim] - k \in Int /\ victim \in Workers
  BY <1>2, StealAssumption
<1> HIDE DEF k
<1>4. CASE down' = down /\ numDelayed' = now /\ reclaims' = reclaims
  BY <1>1, <1>4, NoAnswer
<1>5. CASE /\ down' = [down EXCEPT ![victim] = Append(down[victim], Reclaim(k))]
           /\ numDelayed' = [now EXCEPT ![victim] = now[victim] - k]
           /\ reclaims' = reclaims + 1
  <2> DEFINE m == Reclaim(k)
  <2>1. m \in Messages /\ m.type = "RECLAIM"
    BY <1>3, MessagesMade DEF Reclaim
  <2> HIDE DEF m
  <2>2. Append(down[victim], m) \in Seq(Messages)
    BY <1>1, <1>3, <2>1
  <2>3. /\ down' \in [Workers -> Seq(Messages)] /\ down'[victim] = Append(down[victim], m)
        /\ \A w \in Workers \ {victim} : down'[w] = down[w]
    BY <1>1, <1>3, <1>5, <2>2 DEF m
  <2>4. ASSUME NEW w \in Workers, NEW z \in Messages, down'[w] = Append(down[w], z)
        PROVE  z = m
    <3>1. CASE w = victim
      <4>1. Append(down[victim], z) = Append(down[victim], m)
        BY <2>3, <2>4, <3>1
      <4>2. \A y \in Messages : Append(down[victim], y)[Len(down[victim]) + 1] = y
        BY <1>1, <1>3
      <4> QED BY <2>1, <4>1, <4>2
    <3>2. CASE w # victim
      <4>1. Len(Append(down[w], z)) = Len(down[w]) + 1 /\ Len(down[w]) \in Nat
        BY <1>1
      <4> QED BY <2>3, <2>4, <3>2, <4>1
    <3> QED BY <3>1, <3>2
  <2>5. \A w \in Workers : down'[w] = down[w] \/ \E z \in Messages : down'[w] = Append(down[w], z)
    BY <2>1, <2>3
  <2>6. Answers(x)
    BY <2>1, <2>3, <2>4, <2>5 DEF Answers
  <2>7. numDelayed' \in [Workers -> Int]
    BY <1>3, <1>5
  <2>8. reclaims' \in Nat /\ reclaims' # 0
    BY <1>1, <1>5
  <2> QED BY <2>6, <2>7, <2>8
<1> QED BY <1>2, <1>4, <1>5 DEF k

\* The invariant through a BACKLOG, which may reclaim tasks.
LEMMA HandleBacklogKeeps ==
    ASSUME IInv, NEW x \in Workers, HandleBacklog(x)
    PROVE  IInv' /\ Born' = Born
<1> USE DEF IInv
<1> DEFINE n   == Head(up[x]).n
           now == [numDelayed EXCEPT ![x] = n]
<1>1. /\ Receive(x, "BACKLOG")
      /\ IF n >= StealThreshold THEN TryReclaim(None, now, numIdle)
         ELSE numDelayed' = now /\ UNCHANGED <<down, reclaims>>
      /\ UNCHANGED <<numTasks, idle, cache, numIdle, error, submitted, done, worker, tree>>
  BY DEF HandleBacklog
<1>2. Head(up[x]) \in Messages /\ Head(up[x]).type = "BACKLOG" /\ n \in Int
  BY <1>1, NextMessage, Fields
<1>3. now \in [Workers -> Int]
  BY <1>2 DEF BossType
<1>4. /\ Answers(x) /\ numDelayed' \in [Workers -> Int] /\ reclaims' \in Nat
      /\ reclaims' = 0 => reclaims = 0 /\ down' = down
  <2>1. CASE TryReclaim(None, now, numIdle)
    <3> HIDE DEF now, n
    <3> QED BY <1>3, <2>1, TryReclaimEffect
  <2>2. CASE numDelayed' = now /\ UNCHANGED <<down, reclaims>>
    <3>1. Answers(x)
      BY <2>2, NoAnswer
    <3> QED BY <1>3, <2>2, <3>1 DEF BossType
  <2> QED BY <1>1, <2>1, <2>2
<1> HIDE DEF n, now
<1>5. CrewInv(Workers)' /\ Births' /\ Born' = Born
  BY <1>1, <1>4, AnswersKeep
<1>6. BossType' /\ error' = "none"
  BY <1>1, <1>4 DEF BossType
<1>7. Counted'
  <2>1. Owes(Head(up[x])) = 0
    BY <1>2 DEF Owes
  <2>2. /\ numTasks'[x] = numTasks[x] + Owes(Head(up[x]))
        /\ \A w \in Workers \ {x} : numTasks'[w] = numTasks[w]
    BY <1>1, <2>1 DEF BossType
  <2> QED BY <1>1, <1>4, <2>2, CountsMove
<1>8. /\ Caches' /\ Idles'
      /\ \A w \in Workers :
            NoneReclaimed(w) =>
               /\ Sent(up'[w]) \cap submitted' = {}
               /\ \A i, j \in DOMAIN cache'[w] : i # j => cache'[w][i][1] # cache'[w][j][1]
               /\ \A z \in Range(cache'[w]) : z[1] \in submitted'
               /\ Noticed(w, idle[w])'
  BY <1>1, <1>4, BooksStand
<1>9. Untouched'
  <2>1. ASSUME reclaims' = 0, NEW w \in Workers PROVE NoneReclaimed(w)'
    <3>1. NoneReclaimed(w) /\ down' = down
      BY <1>4, <2>1 DEF Untouched
    <3> QED BY <1>8, <3>1 DEF NoneReclaimed
  <2> QED BY <2>1 DEF Untouched
<1> QED BY <1>5, <1>6, <1>7, <1>8, <1>9

\* WAITING: the receipt is found, the count is right, and the books are in order.
Settled(x, entries, count) ==
    /\ entries \in Seq(Entries) /\ count \in 0..1
    /\ Range(entries) \subseteq Range(cache[x])
    /\ Marks(entries, up'[x], down[x], receipt[x], batch[x] # None)
    /\ count = 1 => /\ Unread(down[x]) = <<>> /\ batch[x] = None
                    /\ \A m \in Range(up'[x]) : m.type = "WAITING" => m.receipt = receipt[x]
    /\ (\A i, j \in DOMAIN cache[x] : i # j => cache[x][i][1] # cache[x][j][1]) =>
          /\ \A i, j \in DOMAIN entries : i # j => entries[i][1] # entries[j][1]
          /\ Unread(down[x]) = <<>> /\ batch[x] = None /\ receipt[x] = Head(up[x]).receipt
                => count = 1
    /\ cache' = [cache EXCEPT ![x] = entries] /\ idle' = [idle EXCEPT ![x] = count]
    /\ numIdle' = Total(idle') /\ idle' \in [Workers -> 0..1]
    /\ UNCHANGED <<error, numTasks>>
    /\ \/ UNCHANGED <<numDelayed, down, reclaims>>
       \/ TryReclaim(x, numDelayed, numIdle')

\* handle_waiting finds the receipt and cuts the cache there.
LEMMA WaitingSettled ==
    ASSUME IInv, NEW x \in Workers, HandleWaiting(x)
    PROVE  \E entries, count : Settled(x, entries, count)
<1> USE DEF IInv
<1> DEFINE r       == Head(up[x]).receipt
           entries == CutCache(cache[x], r)
           count   == StillIdle(Head(up[x]).idle, entries, r)
           total   == NewIdleTotal(x, count)
<1>1. /\ Receive(x, "WAITING")
      /\ IF ~Found(cache[x], r)
         THEN error' = "receipt" /\ UNCHANGED <<employee, numIdle, reclaims, down>>
         ELSE /\ cache' = [cache EXCEPT ![x] = entries]
              /\ idle' = [idle EXCEPT ![x] = count]
              /\ numIdle' = total
              /\ IF total \in 0..Cardinality(Workers) THEN error' = error ELSE error' = "count"
              /\ IF total \in 0..Cardinality(Workers) /\ count > 0
                 THEN TryReclaim(x, numDelayed, total)
                 ELSE UNCHANGED <<numDelayed, down, reclaims>>
              /\ UNCHANGED numTasks
  BY DEF HandleWaiting
<1>2. /\ Head(up[x]) \in Messages /\ Head(up[x]).type = "WAITING"
      /\ up[x] \in Seq(Messages) /\ up[x] # <<>> /\ up'[x] = Tail(up[x])
      /\ Head(up[x]).idle = 1
  <2>1. /\ Head(up[x]) \in Messages /\ Head(up[x]).type = "WAITING"
        /\ up[x] \in Seq(Messages) /\ up[x] # <<>> /\ up'[x] = Tail(up[x])
    BY <1>1, NextMessage
  <2>2. Head(up[x]) \in Range(up[x])
    BY <2>1, RangeTail
  <2> QED BY <2>1, <2>2 DEF Idles, IdleRight
<1>3. Answered(cache[x], up[x], down[x], receipt[x], batch[x] # None)
  <2>1. /\ cache[x] \in Seq(Entries) /\ down[x] \in Seq(Messages)
        /\ (batch[x] # None) \in BOOLEAN
        /\ Marks(cache[x], up[x], down[x], receipt[x], batch[x] # None)
    BY DEF BossType, CrewInv, CrewType, Caches
  <2> DEFINE busy == batch[x] # None
  <2> HIDE DEF busy
  <2>2. Answered(cache[x], up[x], down[x], receipt[x], busy)
    BY <1>2, <2>1, MarksAnsweredAll DEF busy
  <2> QED BY <2>2 DEF busy
<1>4. /\ Found(cache[x], r) /\ entries \in Seq(Entries)
      /\ Range(entries) \subseteq Range(cache[x])
      /\ Marks(entries, up'[x], down[x], receipt[x], batch[x] # None)
      /\ SentSince(entries, r) \in Nat
      /\ SentSince(entries, r) = 0 =>
            /\ Unread(down[x]) = <<>> /\ batch[x] = None
            /\ \A i \in DOMAIN up'[x] :
                  up'[x][i].type = "WAITING" => up'[x][i].receipt = receipt[x]
      /\ (\A i, j \in DOMAIN cache[x] : i # j => cache[x][i][1] # cache[x][j][1]) =>
            /\ \A i, j \in DOMAIN entries : i # j => entries[i][1] # entries[j][1]
            /\ Unread(down[x]) = <<>> /\ batch[x] = None /\ receipt[x] = r
                  => SentSince(entries, r) = 0
  BY <1>2, <1>3 DEF Answered
<1>5. count \in 0..1 /\ (count = 1 <=> SentSince(entries, r) = 0)
  <2> DEFINE k == SentSince(entries, r)
  <2>1. k \in Nat
    BY <1>4
  <2>2. count = IF 1 - k > 0 THEN 1 - k ELSE 0
    BY <1>2 DEF StillIdle
  <2> HIDE DEF k, count
  <2>3. count \in 0..1 /\ (count = 1 <=> k = 0)
    BY <2>1, <2>2
  <2> QED BY <2>3 DEF k
<1> HIDE DEF entries, count
<1>6. /\ cache' = [cache EXCEPT ![x] = entries] /\ idle' = [idle EXCEPT ![x] = count]
      /\ numIdle' = total
      /\ IF total \in 0..Cardinality(Workers) THEN error' = error ELSE error' = "count"
      /\ IF total \in 0..Cardinality(Workers) /\ count > 0
         THEN TryReclaim(x, numDelayed, total)
         ELSE UNCHANGED <<numDelayed, down, reclaims>>
      /\ UNCHANGED numTasks
  BY <1>1, <1>4
<1>7. /\ idle' \in [Workers -> 0..1] /\ total = Total(idle')
      /\ total \in 0..Cardinality(Workers)
  <2>1. /\ idle \in [Workers -> 0..1] /\ numIdle = Total(idle) /\ idle[x] \in 0..1
    BY DEF BossType
  <2>2. /\ idle' \in [Workers -> 0..1] /\ idle'[x] = count
        /\ \A w \in Workers \ {x} : idle[w] = idle'[w]
    BY <1>5, <1>6, <2>1
  <2>3. idle \in [Workers -> Int] /\ idle' \in [Workers -> Int]
    BY <2>1, <2>2
  <2>4. Total(idle) = Sums(idle, Workers)[Workers] /\ Total(idle') = Sums(idle', Workers)[Workers]
    BY <2>3, WorkersAssumption, TotalIsSum
  <2>5. /\ Sums(idle, Workers)[Workers] \in Int
        /\ Sums(idle', Workers)[Workers] = Sums(idle, Workers)[Workers] - idle[x] + idle'[x]
    BY <2>2, <2>3, WorkersAssumption, SumsChange
  <2>6. total = numIdle + count - idle[x]
    BY DEF NewIdleTotal
  <2>7. Total(idle') = total
    BY <1>5, <2>1, <2>2, <2>4, <2>5, <2>6
  <2>8. Total(idle') \in 0..Cardinality(Workers)
    BY <2>2, TotalBounds
  <2> QED BY <2>2, <2>7, <2>8
<1> HIDE DEF total, r
<1>8. /\ UNCHANGED error /\ numIdle' = Total(idle')
      /\ \/ UNCHANGED <<numDelayed, down, reclaims>>
         \/ TryReclaim(x, numDelayed, numIdle')
  BY <1>6, <1>7
<1>9. count = 1 => /\ Unread(down[x]) = <<>> /\ batch[x] = None
                   /\ \A m \in Range(up'[x]) : m.type = "WAITING" => m.receipt = receipt[x]
  BY <1>4, <1>5 DEF Range
<1>10. (\A i, j \in DOMAIN cache[x] : i # j => cache[x][i][1] # cache[x][j][1]) =>
          /\ \A i, j \in DOMAIN entries : i # j => entries[i][1] # entries[j][1]
          /\ Unread(down[x]) = <<>> /\ batch[x] = None /\ receipt[x] = Head(up[x]).receipt
                => count = 1
  BY <1>4, <1>5 DEF r
<1>11. Settled(x, entries, count)
  BY <1>4, <1>5, <1>6, <1>7, <1>8, <1>9, <1>10 DEF Settled
<1> QED BY <1>11

\* The invariant through a WAITING.
LEMMA HandleWaitingKeeps ==
    ASSUME IInv, NEW x \in Workers, HandleWaiting(x)
    PROVE  IInv' /\ Born' = Born
<1> USE DEF IInv
<1>1. Receive(x, "WAITING") /\ UNCHANGED <<submitted, done, worker, tree>>
  BY DEF HandleWaiting
<1>2. PICK entries, count : Settled(x, entries, count)
  BY WaitingSettled
<1>3. /\ Answers(x) /\ numDelayed' \in [Workers -> Int] /\ reclaims' \in Nat
      /\ reclaims' = 0 => reclaims = 0 /\ down' = down
  <2>1. CASE TryReclaim(x, numDelayed, numIdle')
    BY <2>1, TryReclaimEffect DEF BossType
  <2>2. CASE UNCHANGED <<numDelayed, down, reclaims>>
    BY <2>2, NoAnswer DEF BossType
  <2> QED BY <1>2, <2>1, <2>2 DEF Settled
<1>4. /\ CrewInv(Workers)' /\ Births' /\ Born' = Born
      /\ \A w \in Workers : /\ Sent(up'[w]) = Sent(up[w])
                            /\ Unread(down'[w]) = Unread(down[w])
                            /\ w # x => up'[w] = up[w]
  BY <1>1, <1>3, AnswersKeep
<1>5. /\ entries \in Seq(Entries) /\ count \in 0..1
      /\ cache \in [Workers -> Seq(Entries)] /\ idle \in [Workers -> 0..1]
      /\ cache' = [cache EXCEPT ![x] = entries] /\ idle' = [idle EXCEPT ![x] = count]
  BY <1>2 DEF Settled, BossType
<1>6. /\ cache'[x] = entries /\ idle'[x] = count
      /\ \A w \in Workers \ {x} : cache'[w] = cache[w] /\ idle'[w] = idle[w]
      /\ cache' \in [Workers -> Seq(Entries)]
  BY <1>5
<1>7. BossType' /\ error' = "none"
  BY <1>2, <1>3, <1>6 DEF BossType, Settled
<1>8. Counted'
  <2>1. Head(up[x]) \in Messages /\ Head(up[x]).type = "WAITING"
    BY <1>1, NextMessage
  <2>2. Owes(Head(up[x])) = 0
    BY <2>1 DEF Owes
  <2>3. numTasks' = numTasks
    BY <1>2 DEF Settled
  <2>4. /\ numTasks'[x] = numTasks[x] + Owes(Head(up[x]))
        /\ \A w \in Workers \ {x} : numTasks'[w] = numTasks[w]
    BY <2>2, <2>3 DEF BossType
  <2> QED BY <1>1, <1>3, <2>4, CountsMove
<1>9. UNCHANGED <<batch, receipt, phase, ready>>
  BY <1>1 DEF worker
<1>10. ASSUME NEW w \in Workers
       PROVE  Marks(cache'[w], up'[w], down'[w], receipt'[w], batch'[w] # None)
  <2>1. Marks(cache'[w], up'[w], down[w], receipt[w], batch[w] # None)
    <3>1. CASE w = x
      BY <1>2, <1>6, <3>1 DEF Settled
    <3>2. CASE w # x
      BY <1>4, <1>6, <3>2 DEF Caches
    <3> QED BY <3>1, <3>2
  <2>2. Marks(cache'[w], up'[w], down'[w], receipt[w], batch[w] # None)
    BY <1>4, <2>1, MarksSame
  <2> QED BY <1>9, <2>2
<1>11. /\ up[x] \in Seq(Messages) /\ up[x] # <<>> /\ Head(up[x]).type = "WAITING"
       /\ up'[x] = Tail(up[x]) /\ Range(up[x]) = Range(up'[x]) \cup {Head(up[x])}
  <2>1. /\ up[x] \in Seq(Messages) /\ up[x] # <<>> /\ Head(up[x]).type = "WAITING"
        /\ up'[x] = Tail(up[x])
    BY <1>1, NextMessage
  <2> QED BY <2>1, RangeTail
<1>12. ASSUME NEW w \in Workers
       PROVE  IdleRight(idle'[w], up'[w], down'[w], receipt'[w], batch'[w] # None)
  <2>1. IdleRight(idle[w], up[w], down[w], receipt[w], batch[w] # None)
    BY DEF Idles
  <2>2. CASE w = x
    <3>1. idle'[x] > 0 => idle'[x] = 1
      BY <1>5, <1>6
    <3> QED BY <1>2, <1>4, <1>6, <1>9, <1>11, <2>1, <2>2, <3>1 DEF IdleRight, Settled
  <2>3. CASE w # x
    BY <1>4, <1>6, <1>9, <2>1, <2>3 DEF IdleRight
  <2> QED BY <2>2, <2>3
<1>13. Untouched'
  <2>1. ASSUME reclaims' = 0, NEW w \in Workers PROVE NoneReclaimed(w)'
    <3>1. NoneReclaimed(w) /\ down' = down
      BY <1>3, <2>1 DEF Untouched
    <3>2. \A m \in Range(down'[w]) : m.type # "RECLAIM"
      BY <3>1 DEF NoneReclaimed
    <3>3. Sent(up'[w]) \cap submitted' = {}
      BY <1>1, <1>4, <3>1 DEF NoneReclaimed
    <3>4. /\ \A i, j \in DOMAIN cache'[w] : i # j => cache'[w][i][1] # cache'[w][j][1]
          /\ \A z \in Range(cache'[w]) : z[1] \in submitted'
      <4>1. CASE w = x
        BY <1>1, <1>2, <1>6, <3>1, <4>1 DEF NoneReclaimed, Settled
      <4>2. CASE w # x
        BY <1>1, <1>6, <3>1, <4>2 DEF NoneReclaimed
      <4> QED BY <4>1, <4>2
    <3>5. Noticed(w, idle[w])'
      <4>1. CASE w # x
        BY <1>4, <1>6, <1>9, <3>1, <4>1 DEF NoneReclaimed, Noticed, Heard, Rests
      <4>2. CASE w = x
        <5>1. SUFFICES ASSUME Rests(x)
                       PROVE  batch[x] = None /\ Heard(count, up'[x], down'[x], receipt[x])
          BY <1>6, <1>9, <4>2 DEF Noticed, Rests
        <5>2. batch[x] = None /\ Heard(idle[x], up[x], down[x], receipt[x])
          BY <3>1, <4>2, <5>1 DEF NoneReclaimed, Noticed
        <5>3. Unread(down[x]) = <<>> /\ Head(up[x]).receipt = receipt[x] => count = 1
          BY <1>2, <3>1, <4>2, <5>2 DEF Settled, NoneReclaimed
        <5>4. CASE idle[x] = 1
          <6>1. IdleRight(idle[x], up[x], down[x], receipt[x], batch[x] # None)
            BY DEF Idles
          <6>2. Unread(down[x]) = <<>> /\ Head(up[x]).receipt = receipt[x]
            BY <1>11, <5>4, <6>1 DEF IdleRight
          <6> QED BY <5>2, <5>3, <6>2 DEF Heard
        <5>5. CASE Unread(down[x]) # <<>>
          BY <1>4, <5>2, <5>5 DEF Heard
        <5>6. CASE Unread(down[x]) = <<>> /\ \E m \in Range(up[x]) :
                      m.type = "WAITING" /\ m.receipt = receipt[x]
          BY <1>11, <5>2, <5>3, <5>6 DEF Heard
        <5> QED BY <5>2, <5>4, <5>5, <5>6 DEF Heard
      <4> QED BY <4>1, <4>2
    <3> QED BY <3>2, <3>3, <3>4, <3>5 DEF NoneReclaimed
  <2> QED BY <2>1 DEF Untouched
<1> QED BY <1>4, <1>7, <1>8, <1>10, <1>12, <1>13 DEF Caches, Idles

----------------------------------------------------------------------------
(* The workers, and the beginning.                                         *)

\* Only map makes tasks, the children of a task that has not mapped before.
LEMMA WorkerStepBirths ==
    ASSUME NEW D, Workers \subseteq D, CrewInv(D), NEW w \in Workers, WorkerStep(w)
    PROVE  \/ mapped' = mapped /\ Everywhere(Layout(D))' = Everywhere(Layout(D))
           \/ \E t \in Tasks : /\ mapped' = mapped \cup {t}
                               /\ Everywhere(Layout(D))' = Everywhere(Layout(D)) \cup Kids(t)
<1>1. w \in Workers \cap D
  OBVIOUS
<1>2. CASE ReadBatch(w) \/ DelayRest(w) \/ ReadReclaim(w)
  <2>1. mapped' = mapped
    BY <1>2 DEF ReadBatch, DelayRest, ReadReclaim, tree
  <2> QED BY <1>1, <1>2, <2>1, ReadBatchKeeps, DelayRestKeeps, ReadReclaimKeeps
<1>3. CASE ReadResult(w)
  <2>1. mapped' = mapped
    BY <1>3 DEF ReadResult
  <2> QED BY <1>1, <1>3, <2>1, ReadResultKeeps
<1>4. CASE Promote(w) \/ NothingDelayed(w) \/ SendWaiting(w)
  <2>1. mapped' = mapped
    BY <1>4 DEF Promote, NothingDelayed, SendWaiting, tree
  <2> QED BY <1>1, <1>4, <2>1, PromoteKeeps, NothingDelayedKeeps, SendWaitingKeeps
<1>5. CASE \E t \in Tasks : RunToMap(w, t)
  <2>1. PICK t \in Tasks : RunToMap(w, t)
    BY <1>5
  <2>2. mapped' = mapped \cup {t}
    BY <2>1 DEF RunToMap
  <2>3. Everywhere(Layout(D))' = Everywhere(Layout(D)) \cup Kids(t)
    BY <1>1, <2>1, RunToMapKeeps
  <2> QED BY <2>2, <2>3
<1>6. CASE \E t \in Tasks : RunToEnd(w, t)
  <2>1. PICK t \in Tasks : RunToEnd(w, t)
    BY <1>6
  <2>2. mapped' = mapped
    BY <2>1 DEF RunToEnd
  <2> QED BY <1>1, <2>1, <2>2, RunToEndKeeps
<1> QED BY <1>2, <1>3, <1>4, <1>5, <1>6 DEF WorkerStep, Incoming, Working

\* What the server keeps of its workers stays right when a worker moves.
LEMMA WorkerCounts ==
    ASSUME IInv, NEW w \in Workers, WorkerStep(w), UNCHANGED boss
    PROVE  Counted'
<1> USE DEF IInv
<1>1. Settles(w) /\ numTasks' = numTasks
  BY WorkerStepKeeps DEF boss, employee
<1>2. PICK X \in SUBSET Assigned(w) :
        /\ IsFiniteSet(X) /\ Assigned(w)' = Assigned(w) \ X
        /\ OwedIn(up'[w]) = OwedIn(up[w]) - Cardinality(X)
  BY <1>1 DEF Settles
<1>3. /\ IsFiniteSet(Assigned(w)) /\ numTasks[w] \in Int
      /\ numTasks[w] + OwedIn(up[w]) = Cardinality(Assigned(w))
      /\ OwedIn(up[w]) \in Int
  <2>1. up[w] \in Seq(Messages)
    BY DEF CrewInv, CrewType
  <2> QED BY <2>1, OwedConcat DEF Counted, BossType
<1>4. /\ IsFiniteSet(Assigned(w) \ X)
      /\ Cardinality(Assigned(w) \ X) = Cardinality(Assigned(w)) - Cardinality(X)
      /\ Cardinality(X) \in Nat /\ Cardinality(Assigned(w)) \in Nat
  <2> DEFINE A == Assigned(w)
  <2>1. IsFiniteSet(A) /\ A \cap X = X /\ IsFiniteSet(X)
    BY <1>2, <1>3
  <2> HIDE DEF A
  <2>2. IsFiniteSet(A \ X) /\ Cardinality(A \ X) = Cardinality(A) - Cardinality(A \cap X)
    BY <2>1, FS_Difference, Zenon
  <2>3. Cardinality(X) \in Nat /\ Cardinality(A) \in Nat
    BY <2>1, FS_CardinalityType
  <2> QED BY <2>1, <2>2, <2>3 DEF A
<1>5. numTasks[w] + OwedIn(up'[w]) = Cardinality(Assigned(w)')
  BY <1>2, <1>3, <1>4
<1>6. \A v \in Workers \ {w} : Assigned(v)' = Assigned(v) /\ OwedIn(up'[v]) = OwedIn(up[v])
  BY <1>1 DEF Settles
<1>7. ASSUME NEW v \in Workers
      PROVE  IsFiniteSet(Assigned(v)') /\ numTasks[v] + OwedIn(up'[v]) = Cardinality(Assigned(v)')
  <2>1. CASE v = w
    BY <1>2, <1>4, <1>5, <2>1
  <2>2. CASE v # w
    BY <1>6, <2>2 DEF Counted
  <2> QED BY <2>1, <2>2
<1> QED BY <1>1, <1>7 DEF Counted

\* Without a reclaim, a worker's step keeps receipts unambiguous.
LEMMA WorkerUntouched ==
    ASSUME IInv, NEW w \in Workers, Acts(w), UNCHANGED boss, NEW v \in Workers,
           NoneReclaimed(v), NoneReclaimed(w)
    PROVE  NoneReclaimed(v)'
<1> USE DEF IInv
<1>1. UNCHANGED <<cache, idle, submitted>>
  BY DEF boss, employee
<1>2. /\ down \in [Workers -> Seq(Messages)] /\ up \in [Workers -> Seq(Messages)]
      /\ CrewType(Workers)
  BY DEF CrewInv, CrewType
<1>3. Range(down'[v]) \subseteq Range(down[v])
  <2>1. CASE v # w
    BY <2>1 DEF Acts, OthersRest
  <2>2. CASE v = w
    <3>1. down'[w] = down[w] \/ (down[w] # <<>> /\ down'[w] = Tail(down[w]))
      BY DEF Acts, StartsBatch, EndsBatch, GoesOn
    <3>2. down[w] # <<>> => Range(Tail(down[w])) \subseteq Range(down[w])
      BY <1>2, RangeTail
    <3> QED BY <2>2, <3>1, <3>2
  <2> QED BY <2>1, <2>2
<1>4. Sent(up'[v]) \cap submitted = {}
  <2>1. CASE v # w
    BY <2>1 DEF Acts, OthersRest, NoneReclaimed
  <2>2. CASE v = w
    <3>1. PICK msgs \in Seq(Messages) : \E G, k :
            /\ Spoke(w, msgs, G, k)
            /\ \/ G = {}
               \/ down[w] # <<>> /\ Head(down[w]).type = "RECLAIM"
               \/ \E t \in Tasks \ mapped : G = Kids(t)
      BY DEF Acts, Says
    <3>2. PICK G, k :
            /\ Spoke(w, msgs, G, k)
            /\ \/ G = {}
               \/ down[w] # <<>> /\ Head(down[w]).type = "RECLAIM"
               \/ \E t \in Tasks \ mapped : G = Kids(t)
      BY <3>1
    <3>3. Sent(up'[w]) = Sent(up[w]) \cup G
      <4>1. w \in Workers \cap Workers
        OBVIOUS
      <4> QED BY <1>2, <3>2, <4>1, SpokeSent
    <3>4. ~(down[w] # <<>> /\ Head(down[w]).type = "RECLAIM")
      <4>1. down[w] # <<>> => Head(down[w]) \in Range(down[w])
        BY <1>2, RangeTail
      <4> QED BY <4>1 DEF NoneReclaimed
    <3>5. G \cap submitted = {}
      <4>1. CASE G = {}
        BY <4>1
      <4>2. CASE \E t \in Tasks \ mapped : G = Kids(t)
        BY <4>2 DEF CrewInv, Tree, Births
      <4> QED BY <3>2, <3>4, <4>1, <4>2
    <3> QED BY <2>2, <3>3, <3>5 DEF NoneReclaimed
  <2> QED BY <2>1, <2>2
<1>5. Noticed(v, idle[v])'
  <2>1. SUFFICES ASSUME Rests(v)'
                 PROVE  batch'[v] = None /\ Heard(idle[v], up'[v], down'[v], receipt'[v])
    BY <1>1 DEF Noticed
  <2>2. Noticed(v, idle[v]) /\ Workers \subseteq Workers
    BY DEF NoneReclaimed
  <2> QED BY <2>1, <2>2, ActsNoticed
<1> QED BY <1>1, <1>3, <1>4, <1>5 DEF NoneReclaimed

\* The invariant through any step of a worker.
LEMMA WorkerKeeps ==
    ASSUME IInv, NEW w \in Workers, WorkerStep(w), UNCHANGED boss
    PROVE  /\ IInv' /\ submitted' = submitted
           /\ Born' = Born \/ \E t \in Tasks : mapped' = mapped \cup {t}
<1> USE DEF IInv
<1>1. /\ UNCHANGED <<numTasks, numDelayed, idle, cache, numIdle, reclaims, error, submitted>>
      /\ Workers \subseteq Workers
  BY DEF boss, employee
<1>2. CrewInv(Workers)' /\ Acts(w)
  BY <1>1, WorkerStepKeeps, WorkerStepActs
<1>3. BossType' /\ error' = "none"
  BY <1>1 DEF BossType
<1>4. Births'
  <2>1. CASE mapped' = mapped /\ Everywhere(Layout(Workers))' = Everywhere(Layout(Workers))
    <3>1. Born' = Born
      BY <1>1, <2>1 DEF Born, Kids, Roots
    <3> QED BY <1>1, <2>1, <3>1 DEF Births
  <2>2. CASE \E t \in Tasks :
                /\ mapped' = mapped \cup {t}
                /\ Everywhere(Layout(Workers))' = Everywhere(Layout(Workers)) \cup Kids(t)
    <3>1. PICK t \in Tasks :
                /\ mapped' = mapped \cup {t}
                /\ Everywhere(Layout(Workers))' = Everywhere(Layout(Workers)) \cup Kids(t)
      BY <2>2
    <3>2. Born' = Born \cup Kids(t)
      BY <1>1, <3>1 DEF Born, Kids, Roots
    <3> QED BY <1>1, <3>1, <3>2 DEF Births
  <2> QED BY <1>1, <2>1, <2>2, WorkerStepBirths
<1>5. Counted'
  BY WorkerCounts
<1>6. Caches'
  <2>1. ASSUME NEW v \in Workers
        PROVE  Marks(cache[v], up'[v], down'[v], receipt'[v], batch'[v] # None)
    <3>1. cache[v] \in Seq(Entries)
          /\ Marks(cache[v], up[v], down[v], receipt[v], batch[v] # None)
      BY DEF BossType, Caches
    <3> QED BY <1>1, <1>2, <3>1, ActsMarks
  <2> QED BY <1>1, <2>1 DEF Caches
<1>7. Idles'
  <2>1. ASSUME NEW v \in Workers
        PROVE  IdleRight(idle[v], up'[v], down'[v], receipt'[v], batch'[v] # None)
    <3>1. IdleRight(idle[v], up[v], down[v], receipt[v], batch[v] # None)
      BY DEF Idles
    <3> QED BY <1>1, <1>2, <3>1, ActsIdle
  <2> QED BY <1>1, <2>1 DEF Idles
<1>8. Untouched'
  <2>1. ASSUME reclaims = 0, NEW v \in Workers PROVE NoneReclaimed(v)'
    BY <1>2, <2>1, WorkerUntouched DEF Untouched
  <2> QED BY <1>1, <2>1 DEF Untouched
<1>9. Born' = Born \/ \E t \in Tasks : mapped' = mapped \cup {t}
  <2>1. CASE mapped' = mapped
    BY <1>1, <2>1 DEF Born, Kids, Roots
  <2> QED BY <1>1, <2>1, WorkerStepBirths
<1> QED BY <1>1, <1>2, <1>3, <1>4, <1>5, <1>6, <1>7, <1>8, <1>9

\* The invariant at the start.
LEMMA InitHolds ==
    ASSUME Init
    PROVE  IInv
<1>1. CrewInv(Workers) /\ Everywhere(Layout(Workers)) = {}
      /\ \A w \in Workers : Assigned(w) = {}
  <2>1. /\ CrewInit /\ Workers \subseteq Workers
        /\ down = [e \in Workers |-> <<>>] /\ up = [e \in Workers |-> <<>>]
    BY DEF Init
  <2> QED BY <2>1, CrewStarts
<1>2. /\ \A w \in Workers : /\ down[w] = <<>> /\ up[w] = <<>> /\ cache[w] = <<>>
                            /\ numTasks[w] = 0 /\ idle[w] = 1
                            /\ receipt[w] = None /\ batch[w] = None
      /\ submitted = {} /\ mapped = {}
  BY DEF Init, CrewInit
<1>3. Births
  BY <1>1, <1>2 DEF Births, Born
<1>4. BossType /\ error = "none"
  <2>1. /\ idle \in [Workers -> 0..1] /\ \A w \in Workers : idle[w] = 1
    BY DEF Init
  <2>2. Total(idle) = Cardinality(Workers)
    BY <2>1, TotalBounds
  <2>3. <<>> \in Seq(Entries)
    OBVIOUS
  <2> QED BY <2>1, <2>2, <2>3 DEF Init, BossType
<1>5. Counted
  <2>1. IsFiniteSet({}) /\ Cardinality({}) = 0 /\ OwedIn(<<>>) = 0
    BY FS_EmptySet, OwedTail
  <2>2. ASSUME NEW w \in Workers
        PROVE  /\ IsFiniteSet(Assigned(w))
               /\ numTasks[w] + OwedIn(up[w]) = Cardinality(Assigned(w))
    <3>1. Assigned(w) = {} /\ up[w] = <<>> /\ numTasks[w] = 0
      BY <1>1, <1>2
    <3> QED BY <2>1, <3>1
  <2> QED BY <2>2 DEF Counted
<1>6. Unread(<<>>) = <<>>
  BY UnreadType, SentFew
<1>7. Marks(<<>>, <<>>, <<>>, None, FALSE)
  <2>1. Len(<<>>) = 0 + Len(<<>>) /\ DOMAIN <<>> = {}
    OBVIOUS
  <2>2. <<>> \in [DOMAIN <<>> -> 0..0]
    BY <2>1
  <2>3. Marked(<<>>, <<>>, Unread(<<>>), None, 0, 0, <<>>)
    BY <1>6, <2>1, <2>2 DEF Marked, Names, Trace
  <2> QED BY <2>3 DEF Marks
<1>8. Caches
  BY <1>2, <1>7 DEF Caches
<1>9. Range(<<>>) = {}
  BY RangeType
<1>10. Idles
  BY <1>2, <1>6, <1>9 DEF Idles, IdleRight
<1>11. Untouched
  <2>1. Sent(<<>>) = {} /\ DOMAIN <<>> = {}
    BY SentFew
  <2> QED BY <1>2, <1>9, <2>1 DEF Untouched, NoneReclaimed, Noticed, Heard
<1> QED BY <1>1, <1>3, <1>4, <1>5, <1>8, <1>10, <1>11 DEF IInv

\* The invariant through a stuttering step.
LEMMA StutterHolds ==
    ASSUME IInv, UNCHANGED vars
    PROVE  IInv' /\ Born' = Born
<1>1. UNCHANGED <<numTasks, numDelayed, idle, cache, numIdle, reclaims, error, submitted,
                  done, down, up, worker, tree>>
  BY DEF vars, boss, employee
<1>2. /\ CrewInv(Workers)' /\ Layout(Workers)' = Layout(Workers)
      /\ \A w \in Workers : Assigned(w)' = Assigned(w)
  <2>1. /\ Layout(Workers)' = Layout(Workers) /\ Apart(Layout(Workers))'
        /\ Everywhere(Layout(Workers))' = Everywhere(Layout(Workers))
    BY <1>1, StillPlaced DEF IInv, CrewInv, Placed
  <2>2. /\ down' \in [Workers -> Seq(Messages)] /\ up' \in [Workers -> Seq(Messages)]
        /\ {} \in SUBSET Roots
        /\ Everywhere(Layout(Workers))' = Everywhere(Layout(Workers)) \cup {}
        /\ \A w \in Workers : OnceEach(down'[w]) /\ OnceEach(up'[w])
    BY <1>1, <2>1 DEF IInv, CrewInv, CrewType, Placed, Once
  <2>3. finished' = finished /\ home' = home
    BY <1>1 DEF tree
  <2>4. Results(Workers)'
    BY <1>1, <2>3 DEF IInv, CrewInv, Results
  <2>5. CrewInv(Workers)'
    BY <1>1, <2>1, <2>2, <2>4, BossKeeps DEF IInv
  <2> QED BY <1>1, <2>1, <2>5, AssignedByQueue
<1>3. Births' /\ Born' = Born
  BY <1>1, <1>2 DEF IInv, Births, Born, Kids, Roots, tree
<1>4. BossType' /\ error' = "none"
  BY <1>1 DEF IInv, BossType
<1>5. UNCHANGED <<batch, receipt, phase, ready>>
  BY <1>1 DEF worker
<1>6. Counted' /\ Caches' /\ Idles'
  BY <1>1, <1>2, <1>5 DEF IInv, Counted, Caches, Idles
<1>7. Untouched'
  BY <1>1, <1>5 DEF IInv, Untouched, NoneReclaimed, Noticed, Rests
<1> QED BY <1>2, <1>3, <1>4, <1>6, <1>7 DEF IInv

\* The inductive invariant holds: whatever the interleaving of the server, the
\* incoming threads and the work threads, each step keeps all that it says.
THEOREM IInvHolds == Spec => []IInv
<1>1. Init => IInv
  BY InitHolds
<1>2. IInv /\ [Next]_vars => IInv'
  <2> SUFFICES ASSUME IInv, [Next]_vars PROVE IInv'
    OBVIOUS
  <2>1. CASE \E r \in Roots : SubmitRoot(r)
    BY <2>1, SubmitRootKeeps
  <2>2. ASSUME NEW w \in Workers, HandleBatch(w) PROVE IInv'
    BY <2>2, HandleBatchKeeps
  <2>3. ASSUME NEW w \in Workers, HandleResult(w) PROVE IInv'
    BY <2>3, HandleResultKeeps
  <2>4. ASSUME NEW w \in Workers, HandleUpdate(w) PROVE IInv'
    BY <2>4, HandleUpdateKeeps
  <2>5. ASSUME NEW w \in Workers, HandleWaiting(w) PROVE IInv'
    BY <2>5, HandleWaitingKeeps
  <2>6. ASSUME NEW w \in Workers, HandleBacklog(w) PROVE IInv'
    BY <2>6, HandleBacklogKeeps
  <2>7. ASSUME NEW w \in Workers, WorkerStep(w), UNCHANGED boss PROVE IInv'
    BY <2>7, WorkerKeeps
  <2>8. CASE UNCHANGED vars
    BY <2>8, StutterHolds
  <2> QED BY <2>1, <2>2, <2>3, <2>4, <2>5, <2>6, <2>7, <2>8 DEF Next, ServerStep
<1> QED BY <1>1, <1>2, PTL DEF Spec

----------------------------------------------------------------------------
(* What follows from it.                                                   *)

\* handle_waiting never stops the server: a read receipt always names an entry
\* of the submit_cache, and the assertion on the idle count never fails.
THEOREM SurvivalHolds == Spec => []ServerSurvives
<1>1. IInv => ServerSurvives
  BY DEF IInv, ServerSurvives
<1> QED BY <1>1, IInvHolds, PTL

\* A task that is in a spot is in no other.
LEMMA OneSpot ==
    ASSUME CrewInv(Workers), NEW s \in Spots(Workers), NEW t \in Lies(s)
    PROVE  /\ \A r \in Spots(Workers) \ {s} : t \notin Lies(r)
           /\ \A w \in Workers :
                 /\ t \in Assigned(w) <=> s \in {<<k, w>> : k \in {"down", "delayed", "held", "batch"}}
                 /\ t \in Sent(up[w]) <=> s = <<"up", w>>
           /\ t \in finished <=> s = <<"over", None>>
<1>1. \A r \in Spots(Workers) \ {s} : t \notin Lies(r)
  BY LayoutType DEF CrewInv, Placed, Apart
<1>2. ASSUME NEW w \in Workers
      PROVE  /\ t \in Assigned(w) <=> s \in {<<k, w>> : k \in {"down", "delayed", "held", "batch"}}
             /\ t \in Sent(up[w]) <=> s = <<"up", w>>
  <2>1. Assigned(w) = Lies(<<"down", w>>) \cup Lies(<<"delayed", w>>)
                        \cup Lies(<<"held", w>>) \cup Lies(<<"batch", w>>)
    BY AssignedLies, LiesAt
  <2>2. Sent(up[w]) = Lies(<<"up", w>>)
    BY LiesAt
  <2>3. /\ <<"down", w>> \in Spots(Workers) /\ <<"batch", w>> \in Spots(Workers)
        /\ <<"delayed", w>> \in Spots(Workers) /\ <<"held", w>> \in Spots(Workers)
        /\ <<"up", w>> \in Spots(Workers)
    BY LayoutType
  <2> QED BY <1>1, <2>1, <2>2, <2>3
<1>3. t \in finished <=> s = <<"over", None>>
  <2>1. finished = Lies(<<"over", None>>) /\ <<"over", None>> \in Spots(Workers)
    BY LiesAt, LayoutType
  <2> QED BY <1>1, <2>1
<1> QED BY <1>1, <1>2, <1>3

\* A task in exactly one spot is in one place, as the property counts.
LEMMA PlacedOnce ==
    ASSUME CrewInv(Workers), NEW t \in Everywhere(Layout(Workers))
    PROVE  InOnePlace(t)
<1>1. PICK s \in Spots(Workers) : t \in Lies(s)
  BY LayoutType DEF Everywhere
<1> DEFINE A == {w \in Workers : t \in Assigned(w)}
           B == {w \in Workers : t \in Sent(up[w])}
<1>2. /\ \A w \in Workers :
            /\ t \in Assigned(w) <=> s \in {<<k, w>> : k \in {"down", "delayed", "held", "batch"}}
            /\ t \in Sent(up[w]) <=> s = <<"up", w>>
      /\ t \in finished <=> s = <<"over", None>>
  BY <1>1, OneSpot
<1>4. Cardinality(A) + Cardinality(B) + (IF t \in finished THEN 1 ELSE 0) = 1 => InOnePlace(t)
  BY DEF InOnePlace, Sent
<1>3. /\ Cardinality({}) = 0 /\ \A w : Cardinality({w}) = 1
  BY FS_EmptySet, FS_Singleton
<1>5. CASE s = <<"over", None>>
  <2>1. A = {} /\ B = {} /\ t \in finished
    BY <1>2, <1>5
  <2>2. Cardinality(A) = 0 /\ Cardinality(B) = 0
    BY <1>3, <2>1
  <2> QED BY <1>4, <2>1, <2>2
<1>6. CASE \E w \in Workers : s = <<"up", w>>
  <2>1. PICK w \in Workers : s = <<"up", w>>
    BY <1>6
  <2>2. A = {} /\ B = {w} /\ t \notin finished
    BY <1>2, <2>1
  <2>3. Cardinality(A) = 0 /\ Cardinality(B) = 1
    BY <1>3, <2>2
  <2> QED BY <1>4, <2>2, <2>3
<1>7. CASE \E w \in Workers : \E k \in {"down", "delayed", "held", "batch"} : s = <<k, w>>
  <2>1. PICK w \in Workers, k \in {"down", "delayed", "held", "batch"} : s = <<k, w>>
    BY <1>7
  <2>2. A = {w} /\ B = {} /\ t \notin finished
    BY <1>2, <2>1
  <2>3. Cardinality(A) = 1 /\ Cardinality(B) = 0
    BY <1>3, <2>2
  <2> QED BY <1>4, <2>2, <2>3
<1> QED BY <1>5, <1>6, <1>7, LayoutType

\* Batches, reclaims and results neither lose nor duplicate a task, and the
\* task count of each worker is exact once the messages under way are counted.
THEOREM CountsHold == Spec => []TasksCounted
<1>1. IInv => TasksCounted
  <2>1. ASSUME IInv, NEW t \in submitted PROVE InOnePlace(t)
    BY <2>1, PlacedOnce DEF IInv, Births
  <2> QED BY <2>1 DEF IInv, Counted, TasksCounted
<1> QED BY <1>1, IInvHolds, PTL

\* The idle count of the server is the sum of its employees', a worker counted
\* as idle has read all it was sent, and until a reclaim no idle worker is
\* forgotten at rest.
THEOREM IdleHolds == Spec => []IdleBooks
<1>1. IInv => IdleBooks
  <2> SUFFICES ASSUME IInv PROVE IdleBooks
    OBVIOUS
  <2>1. numIdle = Total(idle)
    BY DEF IInv, BossType
  <2>2. ASSUME NEW w \in Workers, idle[w] > 0
        PROVE  batch[w] = None /\ TasksOf(down[w], "SUBMIT_BATCH") = {}
    <3>1. batch[w] = None /\ Unread(down[w]) = <<>>
      BY <2>2 DEF IInv, Idles, IdleRight
    <3>2. Sent(down[w]) = {}
      BY <3>1, UnreadType DEF IInv, CrewInv, CrewType
    <3> QED BY <3>1, <3>2 DEF Sent
  <2>3. ASSUME reclaims = 0, Quiescent, NEW w \in Workers PROVE idle[w] = 1
    <3>1. Rests(w) /\ down[w] = <<>> /\ up[w] = <<>>
      BY <2>3 DEF Quiescent, Blocked, Rests
    <3>2. Heard(idle[w], <<>>, <<>>, receipt[w])
      BY <2>3, <3>1 DEF IInv, Untouched, NoneReclaimed, Noticed
    <3>3. Unread(<<>>) = <<>> /\ Range(<<>>) = {}
      BY UnreadType, SentFew, RangeType
    <3> QED BY <3>2, <3>3 DEF Heard
  <2> QED BY <2>1, <2>2, <2>3 DEF IdleBooks, IdleAtRest
<1> QED BY <1>1, IInvHolds, PTL

----------------------------------------------------------------------------
(* The contract.                                                           *)

\* What the contract calls born is Born.
LEMMA ContractBorn ==
    /\ Born = (submitted \cap Roots) \cup UNION {Range(Children[t]) : t \in mapped}
    /\ Born' = (submitted' \cap Roots) \cup UNION {Range(Children[t]) : t \in mapped'}
    /\ Contract!Roots = Roots
    /\ \A t : Contract!Range(Children[t]) = Kids(t)
<1>1. /\ Contract!Roots = Roots
      /\ \A t : Contract!Range(Children[t]) = Kids(t)
  BY DEF Contract!Roots, Roots, Contract!Range, Range, Kids
<1> QED BY <1>1 DEF Born, Kids, Roots

\* A worker maps, ends a task, or does what the contract does not see.
LEMMA WorkerImplements ==
    ASSUME IInv, NEW w \in Workers, WorkerStep(w), UNCHANGED boss
    PROVE  \/ \E t \in Tasks : Contract!Map(t) \/ Contract!End(t)
           \/ Born' = Born /\ finished' = finished /\ done' = done
<1> USE DEF IInv
<1>1. submitted' = submitted /\ done' = done
  BY DEF boss
<1>2. /\ \A v \in Workers : held[v] \subseteq Born \ finished
      /\ \A p \in Tasks \ mapped : Kids(p) \cap Born = {}
  <2>1. ASSUME NEW v \in Workers, NEW t \in held[v] PROVE t \in Born \ finished
    <3>1. <<"held", v>> \in Spots(Workers) /\ t \in Lies(<<"held", v>>)
      BY LayoutType, LiesAt
    <3>2. t \notin finished
      BY <3>1, OneSpot
    <3>3. t \in Everywhere(Layout(Workers))
      BY <3>1, LayoutType DEF Everywhere
    <3> QED BY <3>2, <3>3 DEF Births
  <2>2. ASSUME NEW p \in Tasks \ mapped PROVE Kids(p) \cap Born = {}
    BY DEF CrewInv, Tree, Births
  <2> QED BY <2>1, <2>2
<1>3. CASE \E t \in Tasks : RunToMap(w, t)
  <2>1. PICK t \in Tasks : RunToMap(w, t)
    BY <1>3
  <2>2. /\ t \notin mapped /\ mapped' = mapped \cup {t} /\ finished' = finished
        /\ ready[w] # <<>> /\ t = Head(ready[w]) /\ Children[t] # <<>>
    BY <2>1 DEF RunToMap, Pop
  <2>3. t \in held[w]
    BY <2>2, PoppedTask
  <2>4. Kids(t) # {}
    <3>1. w \in Workers \cap Workers
      OBVIOUS
    <3> QED BY <2>1, <3>1, RunToMapEffect DEF CrewInv, Kids
  <2>5. Born' = Born \cup Kids(t)
    BY <1>1, <2>2 DEF Born, Kids, Roots
  <2>6. Contract!Map(t)
    BY <1>1, <1>2, <2>2, <2>3, <2>4, <2>5, ContractBorn DEF Contract!Map
  <2> QED BY <2>6
<1>4. CASE \E t \in Tasks : RunToEnd(w, t)
  <2>1. PICK t \in Tasks : RunToEnd(w, t)
    BY <1>4
  <2>2. t \in held[w] /\ Kids(t) \subseteq finished /\ finished' = finished \cup {t}
    <3>1. w \in Workers \cap Workers
      OBVIOUS
    <3> QED BY <2>1, <3>1, RunToEndKeeps
  <2>3. mapped' = mapped
    BY <2>1 DEF RunToEnd
  <2>4. Born' = Born
    BY <1>1, <2>3 DEF Born, Kids, Roots
  <2>5. Contract!End(t)
    BY <1>1, <1>2, <2>2, <2>4, ContractBorn DEF Contract!End
  <2> QED BY <2>5
<1>5. CASE Incoming(w) \/ Promote(w) \/ NothingDelayed(w) \/ SendWaiting(w)
  <2>1. mapped' = mapped /\ finished' = finished
    BY <1>5 DEF Incoming, ReadBatch, DelayRest, ReadReclaim, ReadResult, Promote,
                NothingDelayed, SendWaiting, tree
  <2> QED BY <1>1, <2>1 DEF Born, Kids, Roots
<1> QED BY <1>3, <1>4, <1>5 DEF WorkerStep, Working

\* A step of the server submits, answers, or does what the contract does not see.
LEMMA ServerImplements ==
    ASSUME IInv, ServerStep
    PROVE  \/ \E t \in Tasks : Contract!Submit(t) \/ Contract!Answer(t)
           \/ Born' = Born /\ finished' = finished /\ done' = done
<1>1. CASE \E r \in Roots : SubmitRoot(r)
  <2>1. PICK r \in Roots : SubmitRoot(r)
    BY <1>1
  <2>2. r \in Roots \ Born /\ Born' = Born \cup {r} /\ r \in Tasks
    BY <2>1, SubmitRootKeeps DEF Roots
  <2>3. finished' = finished /\ done' = done
    BY <2>1 DEF SubmitRoot, tree
  <2> QED BY <2>2, <2>3, ContractBorn DEF Contract!Submit
<1>2. ASSUME NEW w \in Workers, HandleResult(w)
      PROVE  \/ \E t \in Tasks : Contract!Answer(t)
             \/ Born' = Born /\ finished' = finished /\ done' = done
  <2>1. Born' = Born /\ finished' = finished
    BY <1>2, HandleResultKeeps DEF HandleResult, tree
  <2>2. done' = done \/ \E t \in Roots \cap finished : done' = done \cup {t}
    BY <1>2, HandleResultKeeps
  <2>3. ASSUME NEW t \in Roots \cap finished, t \notin done, done' = done \cup {t}
        PROVE  t \in Tasks /\ Contract!Answer(t)
    BY <2>1, <2>3, ContractBorn DEF Contract!Answer, Roots
  <2> QED BY <2>1, <2>2, <2>3
<1>3. ASSUME NEW w \in Workers,
             HandleBatch(w) \/ HandleUpdate(w) \/ HandleWaiting(w) \/ HandleBacklog(w)
      PROVE  Born' = Born /\ finished' = finished /\ done' = done
  <2>1. Born' = Born
    BY <1>3, HandleBatchKeeps, HandleUpdateKeeps, HandleWaitingKeeps, HandleBacklogKeeps
  <2>2. finished' = finished /\ done' = done
    BY <1>3 DEF HandleBatch, HandleUpdate, HandleWaiting, HandleBacklog, tree
  <2> QED BY <2>1, <2>2
<1> QED BY <1>1, <1>2, <1>3 DEF ServerStep

\* Whatever is batched, dealt out, delayed, stolen and sent back, what the
\* clients see is the contract of Compilation: children are spawned once, a task
\* returns once all its children have, and only what has returned is answered.
THEOREM ContractHolds == Spec => ImplementsCompilation
<1>1. Init => Contract!Init
  BY DEF Init, CrewInit, Contract!Init
<1>2. IInv /\ [Next]_vars
        => [Contract!Next]_<<(submitted \cap Roots) \cup UNION {Range(Children[t]) : t \in mapped},
                             finished, done>>
  <2> SUFFICES ASSUME IInv, [Next]_vars
               PROVE  Contract!Next \/ (Born' = Born /\ finished' = finished /\ done' = done)
    BY ContractBorn
  <2>1. CASE ServerStep
    BY <2>1, ServerImplements DEF Contract!Next
  <2>2. ASSUME NEW w \in Workers, WorkerStep(w), UNCHANGED boss
        PROVE  Contract!Next \/ (Born' = Born /\ finished' = finished /\ done' = done)
    BY <2>2, WorkerImplements DEF Contract!Next
  <2>3. CASE UNCHANGED vars
    <3>1. Born' = Born
      BY <2>3, StutterHolds
    <3> QED BY <2>3, <3>1 DEF vars, boss, tree
  <2> QED BY <2>1, <2>2, <2>3 DEF Next
<1> QED BY <1>1, <1>2, IInvHolds, PTL DEF Spec, ImplementsCompilation, Contract!Spec
=============================================================================
