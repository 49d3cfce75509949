--------------------------- MODULE ShutdownProofs ---------------------------
(***************************************************************************)
(* Theorems about module Shutdown: for every tree of servers, managers and *)
(* workers, a node that is over has left no spawned worker and no sending  *)
(* thread behind, and no manager without word.                             *)
(*                                                                         *)
(* A step belongs to one node, or to a worker or the client.  NodeStep     *)
(* says what a node may do to the rest: it closes ends of its own          *)
(* connections, reads its own ends, and sends.  NodeKeeps shows once that  *)
(* such a step keeps the invariant of every other node; the lemmas about   *)
(* the actions show that each is such a step.                              *)
(***************************************************************************)
EXTENDS Shutdown, DataLemmas

----------------------------------------------------------------------------
(* The inductive invariant.                                                *)

Notices == {"work", "SHUTDOWN", "ERROR"}
Threads == {"main", "sender"}

MainPlaces   == {"events", "select", "except", "tell", "part", "join", "over", "killed"}
SenderPlaces == {"get", "send", "tell", "part", "join", "dead"}
Places  == [main : MainPlaces, sender : SenderPlaces]
Returns == [main : {"events", "except", "over"}, sender : {"get", "except"}]

PlaceType == at \in [Bosses -> Places] /\ back \in [Bosses -> Returns]

BookType ==
    /\ running \in [Bosses -> BOOLEAN]
    /\ DOMAIN events = Bosses /\ DOMAIN members = Bosses /\ DOMAIN watched = Bosses
    /\ \A n \in Bosses : /\ events[n] \subseteq ConnsOf(n) \cup {"signal"}
                         /\ members[n] \subseteq Of(n)
                         /\ watched[n] \subseteq ConnsOf(n)

\* What the sending thread is about to send is in its queue.
QueueType ==
    /\ outgoing \in [Bosses -> Seq(Conns \X Notices)]
    /\ \A n \in Bosses : at[n].sender = "send" => outgoing[n] # <<>>

WireType ==
    /\ open \in [Conns -> [near : BOOLEAN, far : BOOLEAN]]
    /\ mail \in [Conns -> [near : Seq(Notices), far : Seq(Notices)]]

Typed == system \in Systems /\ PlaceType /\ BookType /\ QueueType /\ WireType

Alive(n) == at[n].main # "killed"
Subs(n)  == Of(n) \cap Managers

\* A thread of n is in handle_shutdown, past the messages to the employees.
Parting(n) == at[n].main = "part" \/ at[n].sender = "part"

\* handle_shutdown in order: the flag is cleared before anybody is waited for;
\* the main thread leaves it with no employees, and with no sending thread.
InOrder(n) ==
    /\ at[n].main \in {"part", "join"} => ~running[n]
    /\ at[n].main \in {"join", "over"} => members[n] = {}
    /\ at[n].main = "over" => at[n].sender = "dead"

\* A spawned worker is an employee until it is dead.
Waits(n) == \A w \in Of(n) \cap system.spawned : w \in members[n] \/ Dead(w)

\* An employed manager is told before its connection is closed.
Tells(n) ==
    /\ Parting(n) => \A m \in members[n] \cap Managers : Told(m)
    /\ \A m \in Subs(n) : ~open[m].near => Told(m)

\* An event of a manager that has no message left is the end of its stream.
Heard(n) == \A m \in Subs(n) \cap events[n] :
                mail[m].near # <<>> \/ ~open[m].far \/ ~open[m].near

Orderly(n) == InOrder(n) /\ (Alive(n) => Waits(n) /\ Tells(n) /\ Heard(n))

IInv == Typed /\ \A n \in Bosses : Orderly(n)

----------------------------------------------------------------------------
(* Steps of one node.                                                      *)

\* What n may do to the messages on all connections: at the far end of another
\* nothing is lost; the near ends it reads are those of its own connections.
Mails(n, p, q) ==
    /\ q \in [Conns -> [near : Seq(Notices), far : Seq(Notices)]]
    /\ \A x \in Conns \ {n} : Range(p[x].far) \subseteq Range(q[x].far)
    /\ \A x \in Conns : x \notin ConnsOf(n) \/ x = n =>
          (p[x].near # <<>> => q[x].near # <<>>)

\* What n may do to the ends of the connections: close its own.
Closes(n) ==
    /\ open' \in [Conns -> [near : BOOLEAN, far : BOOLEAN]]
    /\ \A x \in Conns : /\ open'[x].near => open[x].near
                        /\ open'[x].far => open[x].far
    /\ \A x \in Conns \ {n} : open'[x].far = open[x].far
    /\ \A x \in Conns : x \notin ConnsOf(n) \/ x = n => open'[x].near = open[x].near

\* The nodes but n.
Others(n) ==
    \A k \in Bosses \ {n} :
        /\ at'[k] = at[k] /\ running'[k] = running[k]
        /\ members'[k] = members[k] /\ events'[k] = events[k]

\* What the step does to n itself.
Own(n) ==
    /\ running'[n] => running[n]
    /\ n \in Managers /\ Told(n) => Told(n)'
    /\ InOrder(n)'
    /\ Alive(n)' =>
        /\ Alive(n)
        /\ \A w \in (members[n] \ members'[n]) \cap system.spawned : Dead(w)
        /\ members'[n] \subseteq members[n]
        /\ \A m \in Subs(n) : open[m].near /\ ~open'[m].near => Told(m)'
        /\ Parting(n)' /\ ~Parting(n) => \A m \in members'[n] \cap Managers : Told(m)'
        /\ Heard(n)'

NodeStep(n) ==
    /\ system' = system /\ Others(n) /\ Closes(n) /\ Mails(n, mail, mail') /\ Own(n)

\* Each node has employees of its own.
LEMMA Trees ==
    ASSUME system \in Systems
    PROVE  /\ \A n \in Bosses : n \notin Of(n) /\ Of(n) \subseteq Managers \cup Workers
           /\ \A n, k \in Bosses : n # k => Of(n) \cap Of(k) = {}
           /\ system.spawned \subseteq Workers
BY SystemsAssumption, TreeAssumption DEF SystemType, Of

\* A step of a node keeps the invariant of every node.
LEMMA NodeKeeps ==
    ASSUME IInv, NEW n \in Bosses, NodeStep(n)
    PROVE  \A k \in Bosses : Orderly(k)'
<1>0. system \in Systems /\ system' = system /\ WireType /\ (\A k \in Bosses : Orderly(k))
  BY DEF IInv, Typed, NodeStep
<1>1. ASSUME NEW m \in Managers, Told(m) PROVE Told(m)'
  <2>1. CASE m = n
    BY <1>1, <2>1 DEF NodeStep, Own
  <2>2. CASE m # n
    <3>1. m \in Conns /\ m \in Bosses
      BY DEF Conns, Bosses
    <3>2. /\ at'[m] = at[m] /\ running'[m] = running[m]
          /\ open'[m].far = open[m].far /\ Range(mail[m].far) \subseteq Range(mail'[m].far)
      BY <2>2, <3>1 DEF NodeStep, Others, Closes, Mails
    <3> QED BY <1>1, <3>2 DEF Told
  <2> QED BY <2>1, <2>2
<1>2. ASSUME NEW w \in Workers, Dead(w) PROVE Dead(w)'
  <2>1. w \in Conns
    BY DEF Conns
  <2> QED BY <1>2, <2>1 DEF NodeStep, Closes, Dead
<1>3. ASSUME NEW k \in Bosses PROVE Of(k)' = Of(k)
  BY <1>0 DEF Of
<1>4. Orderly(n)'
  <2>0. Orderly(n) /\ Own(n) /\ Of(n)' = Of(n)
    BY <1>0, <1>3 DEF NodeStep
  <2>1. ASSUME Alive(n)' PROVE Waits(n)'
    <3>1. Waits(n) /\ Alive(n)
      BY <2>0, <2>1 DEF Orderly, Own
    <3>2. ASSUME NEW w \in Of(n) \cap system.spawned PROVE w \in members'[n] \/ Dead(w)'
      <4>1. w \in Workers
        BY <1>0, Trees
      <4>2. w \in members'[n] \/ Dead(w)
        BY <2>0, <2>1, <3>1 DEF Own, Waits
      <4> QED BY <1>2, <4>1, <4>2
    <3> QED BY <1>0, <2>0, <3>2 DEF Waits
  <2>2. ASSUME Alive(n)' PROVE Tells(n)'
    <3>1. Tells(n) /\ Alive(n)
      BY <2>0, <2>2 DEF Orderly, Own
    <3>2. ASSUME Parting(n)', NEW m \in members'[n] \cap Managers PROVE Told(m)'
      <4>1. CASE Parting(n)
        <5>1. m \in members[n] \cap Managers
          BY <2>0, <2>2 DEF Own
        <5> QED BY <1>1, <3>1, <4>1, <5>1 DEF Tells
      <4>2. CASE ~Parting(n)
        BY <2>0, <2>2, <3>2, <4>2 DEF Own
      <4> QED BY <4>1, <4>2
    <3>3. ASSUME NEW m \in Subs(n), ~open'[m].near PROVE Told(m)'
      <4>1. CASE open[m].near
        BY <2>0, <2>2, <3>3, <4>1 DEF Own
      <4>2. CASE ~open[m].near
        <5>1. Told(m) /\ m \in Managers
          BY <3>1, <4>2 DEF Tells, Subs
        <5> QED BY <1>1, <5>1
      <4> QED BY <4>1, <4>2
    <3>4. Subs(n)' = Subs(n)
      BY <2>0 DEF Subs
    <3> QED BY <3>2, <3>3, <3>4 DEF Tells
  <2> QED BY <2>0, <2>1, <2>2 DEF Orderly, Own
<1>5. ASSUME NEW k \in Bosses \ {n} PROVE Orderly(k)'
  <2>0. /\ at'[k] = at[k] /\ running'[k] = running[k]
        /\ members'[k] = members[k] /\ events'[k] = events[k] /\ Of(k)' = Of(k)
    BY <1>3, <1>5 DEF NodeStep, Others
  <2>1. Orderly(k) /\ (Alive(k)' <=> Alive(k)) /\ (Parting(k)' <=> Parting(k)) /\ Subs(k)' = Subs(k)
    BY <1>0, <2>0 DEF Alive, Parting, Subs
  <2>2. InOrder(k)'
    BY <2>0, <2>1 DEF Orderly, InOrder
  <2>3. ASSUME NEW m \in Subs(k) PROVE open'[m].near = open[m].near /\ m \in Conns \ {k} /\
                 (mail[m].near # <<>> => mail'[m].near # <<>>) /\ (open'[m].far => open[m].far)
    <3>1. m \in Conns /\ m \in Managers /\ m \in Of(k) /\ m # k
      BY <1>0, Trees DEF Subs, Conns
    <3>2. m \notin ConnsOf(n) \/ m = n
      BY <1>0, <1>5, <3>1, Trees, NamesAssumption DEF ConnsOf, Bosses
    <3> QED BY <3>1, <3>2 DEF NodeStep, Closes, Mails
  <2>4. ASSUME Alive(k)' PROVE Waits(k)'
    <3>1. Waits(k)
      BY <2>1, <2>4 DEF Orderly
    <3>2. ASSUME NEW w \in Of(k) \cap system.spawned PROVE w \in members'[k] \/ Dead(w)'
      <4>1. w \in Workers
        BY <1>0, Trees
      <4> QED BY <1>2, <2>0, <3>1, <4>1 DEF Waits
    <3> QED BY <1>0, <2>0, <3>2 DEF Waits
  <2>5. ASSUME Alive(k)' PROVE Tells(k)'
    <3>1. Tells(k)
      BY <2>1, <2>5 DEF Orderly
    <3>2. ASSUME Parting(k)', NEW m \in members'[k] \cap Managers PROVE Told(m)'
      BY <1>1, <2>0, <2>1, <3>1, <3>2 DEF Tells
    <3>3. ASSUME NEW m \in Subs(k), ~open'[m].near PROVE Told(m)'
      <4>1. Told(m) /\ m \in Managers
        BY <2>3, <3>1, <3>3 DEF Tells, Subs
      <4> QED BY <1>1, <4>1
    <3> QED BY <2>1, <3>2, <3>3 DEF Tells
  <2>6. ASSUME Alive(k)' PROVE Heard(k)'
    <3>1. Heard(k)
      BY <2>1, <2>6 DEF Orderly
    <3> QED BY <2>0, <2>1, <2>3, <3>1 DEF Heard
  <2> QED BY <2>2, <2>4, <2>5, <2>6 DEF Orderly
<1> QED BY <1>4, <1>5

----------------------------------------------------------------------------
(* What the operators of the module do to places and connections.          *)

\* Where a thread may be.
PlacesOf(t) == IF t = "main" THEN MainPlaces ELSE SenderPlaces

\* One thread moves.
LEMMA Moved ==
    ASSUME PlaceType, NEW n \in Bosses, NEW t \in Threads, NEW p \in PlacesOf(t),
           Goto(n, t, p)
    PROVE  /\ PlaceType'
           /\ \A k \in Bosses \ {n} : at'[k] = at[k]
           /\ at'[n].main = IF t = "main" THEN p ELSE at[n].main
           /\ at'[n].sender = IF t = "sender" THEN p ELSE at[n].sender
<1>1. at[n] \in Places /\ at' = [at EXCEPT ![n] = [at[n] EXCEPT ![t] = p]] /\ back' = back
  BY DEF Goto, PlaceType
<1> DEFINE a == [at[n] EXCEPT ![t] = p]
<1>2. /\ a \in Places
      /\ a.main = IF t = "main" THEN p ELSE at[n].main
      /\ a.sender = IF t = "sender" THEN p ELSE at[n].sender
  <2>1. CASE t = "main"
    BY <1>1, <2>1 DEF PlacesOf, Places
  <2>2. CASE t = "sender"
    BY <1>1, <2>2 DEF PlacesOf, Places
  <2> QED BY <2>1, <2>2 DEF Threads
<1> HIDE DEF a
<1> QED BY <1>1, <1>2 DEF PlaceType, a

\* A thread calls handle_shutdown.
LEMMA Entered ==
    ASSUME PlaceType, NEW n \in Bosses, NEW t \in Threads, NEW r,
           r \in (IF t = "main" THEN {"events", "except", "over"} ELSE {"get", "except"}),
           Enter(n, t, r)
    PROVE  /\ PlaceType'
           /\ \A k \in Bosses \ {n} : at'[k] = at[k]
           /\ at'[n].main = IF t = "main" THEN "tell" ELSE at[n].main
           /\ at'[n].sender = IF t = "sender" THEN "tell" ELSE at[n].sender
<1> DEFINE a == [at[n] EXCEPT ![t] = "tell"]
           b == [back[n] EXCEPT ![t] = r]
<1>1. /\ at[n] \in Places /\ at' = [at EXCEPT ![n] = a]
      /\ back[n] \in Returns /\ back' = [back EXCEPT ![n] = b]
  BY DEF Enter, PlaceType
<1>2. /\ a \in Places
      /\ a.main = IF t = "main" THEN "tell" ELSE at[n].main
      /\ a.sender = IF t = "sender" THEN "tell" ELSE at[n].sender
  <2>1. CASE t = "main"
    BY <1>1, <2>1 DEF Places, MainPlaces
  <2>2. CASE t = "sender"
    BY <1>1, <2>2 DEF Places, SenderPlaces
  <2> QED BY <2>1, <2>2 DEF Threads
<1>3. b \in Returns
  <2>1. CASE t = "main"
    BY <1>1, <2>1 DEF Returns
  <2>2. CASE t = "sender"
    BY <1>1, <2>2 DEF Returns
  <2> QED BY <2>1, <2>2 DEF Threads
<1> HIDE DEF a, b
<1> QED BY <1>1, <1>2, <1>3 DEF PlaceType

\* A thread raises: the main thread gets to except, the other one ends.
LEMMA Raised ==
    ASSUME PlaceType, NEW n \in Bosses, NEW t \in Threads, Raise(n, t)
    PROVE  /\ PlaceType'
           /\ \A k \in Bosses \ {n} : at'[k] = at[k]
           /\ at'[n].main = IF t = "main" THEN "except" ELSE at[n].main
           /\ at'[n].sender = IF t = "sender" THEN "dead" ELSE at[n].sender
<1> DEFINE p == IF t = "main" THEN "except" ELSE "dead"
<1>1. p \in PlacesOf(t)
  BY DEF PlacesOf, MainPlaces, SenderPlaces
<1> HIDE DEF p
<1>2. Goto(n, t, p)
  BY DEF Raise, p
<1>3. t \in Threads /\ "main" # "sender"
  OBVIOUS
<1> QED BY <1>1, <1>2, <1>3, Moved DEF p, Threads

\* The messages at both ends of every connection.
Wires == [Conns -> [near : Seq(Notices), far : Seq(Notices)]]

\* No message is read or sent.
LEMMA MailsSame == ASSUME NEW n, NEW p \in Wires PROVE Mails(n, p, p)
BY DEF Mails, Wires

\* Reading, then sending, is within what a node may do.
LEMMA MailsTwice ==
    ASSUME NEW n, NEW p, NEW q, NEW r, Mails(n, p, q), Mails(n, q, r)
    PROVE  Mails(n, p, r)
BY DEF Mails

\* n reads a message, and loses what it would still have read.
LEMMA MailsRead ==
    ASSUME WireType, NEW n \in Bosses, NEW x \in ConnsOf(n), x \in Conns, Inbox(n, x) # <<>>
    PROVE  /\ Mails(n, mail, Read(n, x))
           /\ Read(n, x) \in Wires
           /\ Head(Inbox(n, x)) \in Notices
           /\ n \in Conns /\ (x # n \/ Head(Inbox(n, x)) # "SHUTDOWN") =>
                Range(mail[n].far) \subseteq Range(Read(n, x)[n].far) \cup (Notices \ {"SHUTDOWN"})
           /\ \A y \in Conns : y # x => Read(n, x)[y] = mail[y]
<1> DEFINE e == Mine(n, x)
           q == mail[x][e]
           r == [mail[x] EXCEPT ![e] = Tail(q)]
<1>1. mail \in Wires /\ mail[x] \in [near : Seq(Notices), far : Seq(Notices)]
  BY DEF WireType, Wires
<1>2. /\ q \in Seq(Notices) /\ q # <<>> /\ Inbox(n, x) = q
      /\ e = (IF x = n THEN "far" ELSE "near")
  BY <1>1 DEF Inbox, Mine
<1>3. Tail(q) \in Seq(Notices) /\ Head(q) \in Notices /\ Range(q) = Range(Tail(q)) \cup {Head(q)}
  <2> HIDE DEF q
  <2> QED BY <1>2, RangeTail
<1>4. Read(n, x) = [mail EXCEPT ![x] = r]
  BY DEF Read
<1>5. /\ r \in [near : Seq(Notices), far : Seq(Notices)]
      /\ x = n => r.near = mail[x].near /\ r.far = Tail(q) /\ q = mail[x].far
      /\ x # n => r.far = mail[x].far
  BY <1>1, <1>2, <1>3
<1> HIDE DEF r, q, e
<1>6. Read(n, x) \in Wires /\ Read(n, x)[x] = r /\ (\A y \in Conns : y # x => Read(n, x)[y] = mail[y])
  BY <1>1, <1>4, <1>5 DEF Wires
<1> HIDE DEF Read
<1>7. Mails(n, mail, Read(n, x))
  BY <1>1, <1>5, <1>6 DEF Mails, Wires
<1>8. ASSUME n \in Conns, x # n \/ Head(q) # "SHUTDOWN"
      PROVE  Range(mail[n].far) \subseteq Range(Read(n, x)[n].far) \cup (Notices \ {"SHUTDOWN"})
  BY <1>3, <1>5, <1>6, <1>8
<1> QED BY <1>2, <1>3, <1>6, <1>7, <1>8

\* n sends a message.
LEMMA MailsSent ==
    ASSUME NEW p \in Wires, NEW n \in Bosses, NEW x \in Conns, NEW m \in Notices
    PROVE  LET q == Delivered(p, n, x, m)
           IN  /\ q \in Wires /\ Mails(n, p, q)
               /\ \A y \in Conns : Range(p[y].far) \subseteq Range(q[y].far)
               /\ \A y \in Conns \ {n} : q[y].near = p[y].near
               /\ \A y \in Conns : y # x => q[y] = p[y]
<1> DEFINE q == Delivered(p, n, x, m)
           e == Theirs(n, x)
           r == [p[x] EXCEPT ![e] = Append(p[x][e], m)]
<1>1. p[x] \in [near : Seq(Notices), far : Seq(Notices)] /\ e = (IF x = n THEN "near" ELSE "far")
  BY DEF Wires, Theirs
<1>2. q = p \/ q = [p EXCEPT ![x] = r]
  BY DEF Delivered
<1>3. \A s \in Seq(Notices) : /\ Append(s, m) \in Seq(Notices) /\ Append(s, m) # <<>>
                              /\ Range(s) \subseteq Range(Append(s, m))
  BY RangeAppend, AppendProperties
<1>4. /\ r \in [near : Seq(Notices), far : Seq(Notices)]
      /\ Range(p[x].far) \subseteq Range(r.far)
      /\ p[x].near # <<>> => r.near # <<>>
      /\ x # n => r.near = p[x].near
  BY <1>1, <1>3
<1> HIDE DEF r, q, e
<1>5. CASE q = p
  <2>1. Mails(n, p, q) /\ q \in Wires
    BY <1>5, MailsSame
  <2> QED BY <1>5, <2>1 DEF q
<1>6. CASE q = [p EXCEPT ![x] = r]
  <2>1. q \in Wires /\ q[x] = r /\ \A y \in Conns : y # x => q[y] = p[y]
    BY <1>4, <1>6 DEF Wires
  <2>2. /\ Mails(n, p, q) /\ \A y \in Conns : Range(p[y].far) \subseteq Range(q[y].far)
        /\ \A y \in Conns \ {n} : q[y].near = p[y].near
    BY <1>4, <2>1 DEF Mails, Wires
  <2> QED BY <2>1, <2>2 DEF q
<1> QED BY <1>2, <1>5, <1>6

\* What becomes of the connections when n closes its ends of some of them.
Shut(n, X) ==
    /\ WireType' /\ Closes(n) /\ Mails(n, mail, mail')
    /\ \A x \in Conns : /\ open'[x].near = IF x \in X /\ x # n THEN FALSE ELSE open[x].near
                        /\ open'[x].far = IF x \in X /\ x = n THEN FALSE ELSE open[x].far
                        /\ x \notin X => mail'[x] = mail[x]

\* n closes its ends of some connections.
LEMMA Closed ==
    ASSUME WireType, NEW n \in Bosses, NEW STATE X, X \subseteq ConnsOf(n), Closing(n, X)
    PROVE  Shut(n, X)
<1>1. /\ DOMAIN open' = Conns /\ DOMAIN mail' = Conns
      /\ open' = [x \in Conns |-> open'[x]] /\ mail' = [x \in Conns |-> mail'[x]]
  BY DEF Closing
<1>2. ASSUME NEW x \in Conns
      PROVE  /\ open'[x] \in [near : BOOLEAN, far : BOOLEAN]
             /\ open'[x].near = IF x \in X /\ x # n THEN FALSE ELSE open[x].near
             /\ open'[x].far = IF x \in X /\ x = n THEN FALSE ELSE open[x].far
  <2>1. open[x] \in [near : BOOLEAN, far : BOOLEAN]
    BY DEF WireType
  <2>2. open'[x] = IF x \in X THEN [open[x] EXCEPT ![Mine(n, x)] = FALSE] ELSE open[x]
    BY DEF Closing
  <2> QED BY <2>1, <2>2 DEF Mine
<1>3. ASSUME NEW x \in Conns
      PROVE  /\ mail'[x] \in [near : Seq(Notices), far : Seq(Notices)]
             /\ x \notin X \/ x = n => mail'[x].near = mail[x].near
             /\ x # n => mail'[x].far = mail[x].far
             /\ x \notin X => mail'[x] = mail[x]
  <2>1. mail[x] \in [near : Seq(Notices), far : Seq(Notices)] /\ <<>> \in Seq(Notices)
    BY DEF WireType
  <2>2. mail'[x] = IF x \in X THEN [mail[x] EXCEPT ![Mine(n, x)] = <<>>] ELSE mail[x]
    BY DEF Closing
  <2> QED BY <2>1, <2>2 DEF Mine
<1>4. WireType'
  BY <1>1, <1>2, <1>3 DEF WireType
<1>5. Closes(n)
  BY <1>2, <1>4 DEF Closes, WireType
<1>6. Mails(n, mail, mail')
  BY <1>3, <1>4 DEF Mails, WireType
<1> QED BY <1>2, <1>3, <1>4, <1>5, <1>6 DEF Shut

\* Nothing happens to the connections.
LEMMA ClosesNone ==
    ASSUME WireType, open' = open, NEW n
    PROVE  Closes(n)
BY DEF Closes, WireType

----------------------------------------------------------------------------
(* The actions, one by one.                                                *)

\* What most of them have in common: they do not touch the employees, close a
\* connection only when its other end is closed, and begin no parting.
Mild(n) ==
    /\ system' = system /\ Others(n) /\ Closes(n) /\ Mails(n, mail, mail')
    /\ members' = members /\ events'[n] \subseteq events[n]
    /\ running'[n] => running[n]
    /\ Alive(n)' => Alive(n)
    /\ Parting(n)' => Parting(n)
    /\ \A m \in Subs(n) : open'[m] = open[m] \/ ~open[m].far
    /\ \A m \in Subs(n) \cap events'[n] : mail'[m].near = mail[m].near \/ ~open'[m].near
    /\ at'[n].main \in {"select", "events"} =>
         at[n].main \in {"select", "events"} \/ ~running[n]
    /\ n \in Managers /\ open'[n].far /\ at'[n].main \in {"select", "events"} =>
         Range(mail[n].far) \subseteq Range(mail'[n].far) \cup (Notices \ {"SHUTDOWN"})

\* A step that is mild keeps what the invariant says of the node.
LEMMA MildStep ==
    ASSUME IInv, NEW n \in Bosses, Mild(n), InOrder(n)'
    PROVE  NodeStep(n)
<1>0. system \in Systems /\ Orderly(n) /\ Of(n)' = Of(n) /\ Subs(n)' = Subs(n)
  BY DEF IInv, Typed, Mild, Of, Subs
<1>1. ASSUME n \in Managers, Told(n) PROVE Told(n)'
  <2>1. n \in Conns
    BY <1>1 DEF Conns
  <2>2. open'[n].far => open[n].far
    BY <2>1 DEF Mild, Closes
  <2> QED BY <1>1, <2>2 DEF Mild, Told
<1>2. ASSUME Alive(n)' PROVE Alive(n) /\ Heard(n)
  BY <1>0, <1>2 DEF Mild, Orderly
<1>3. ASSUME NEW m \in Subs(n), open[m].near, ~open'[m].near PROVE Told(m)'
  <2>1. m \in Conns /\ ~open[m].far
    BY <1>3 DEF Mild, Subs, Conns
  <2>2. ~open'[m].far
    BY <2>1 DEF Mild, Closes
  <2> QED BY <2>2 DEF Told
<1>4. ASSUME Alive(n)' PROVE Heard(n)'
  <2>1. ASSUME NEW m \in Subs(n) \cap events'[n]
        PROVE  mail'[m].near # <<>> \/ ~open'[m].far \/ ~open'[m].near
    <3>1. m \in Conns /\ m \in events[n] /\ (open'[m].far => open[m].far) /\ (open'[m].near => open[m].near)
      BY DEF Mild, Closes, Subs, Conns
    <3> QED BY <1>2, <1>4, <3>1 DEF Mild, Heard
  <2> QED BY <1>0, <2>1 DEF Heard
<1> QED BY <1>0, <1>1, <1>2, <1>3, <1>4 DEF NodeStep, Own, Mild

\* The types, as far as the actions have them in common.
LEMMA TypedStep ==
    ASSUME IInv, NEW n \in Bosses, system' = system, Others(n), PlaceType', BookType',
           Closes(n), Mails(n, mail, mail'), outgoing' = outgoing,
           at'[n].sender = "send" => at[n].sender = "send"
    PROVE  Typed'
<1>1. WireType'
  BY DEF Closes, Mails, WireType
<1>2. QueueType'
  BY DEF IInv, Typed, QueueType, Others
<1> QED BY <1>1, <1>2 DEF IInv, Typed

\* The parts of the invariant that the actions need.
LEMMA Facts ==
    ASSUME IInv, NEW n \in Bosses
    PROVE  /\ system \in Systems /\ PlaceType /\ BookType /\ QueueType /\ WireType
           /\ mail \in Wires /\ Orderly(n) /\ InOrder(n)
           /\ at[n].main \in MainPlaces /\ at[n].sender \in SenderPlaces
BY DEF IInv, Typed, Orderly, WireType, Wires, PlaceType, Places

\* Steps of a thread that leave connections, employees and queues alone.
LEMMA QuietStep ==
    ASSUME IInv, NEW n \in Bosses,
           UNCHANGED <<system, members, watched, outgoing, open, mail>>,
           PlaceType', BookType', Others(n), events'[n] \subseteq events[n],
           running'[n] => running[n], Alive(n)' => Alive(n), Parting(n)' => Parting(n),
           at'[n].main \in {"select", "events"} =>
              at[n].main \in {"select", "events"} \/ ~running[n],
           at'[n].sender = "send" => at[n].sender = "send", InOrder(n)'
    PROVE  NodeStep(n) /\ Typed'
<1>1. Closes(n) /\ Mails(n, mail, mail')
  BY Facts, ClosesNone, MailsSame
<1>2. Mild(n)
  BY <1>1 DEF Mild
<1> QED BY <1>1, <1>2, MildStep, TypedStep

\* The loop of run: nothing left to handle.
LEMMA LoopKeeps ==
    ASSUME IInv, NEW n \in Bosses, Loop(n)
    PROVE  NodeStep(n) /\ Typed'
<1>0. PlaceType /\ BookType /\ InOrder(n) /\ "main" \in Threads /\ at[n].main = "events"
  BY Facts DEF Threads, Loop
<1>1. /\ PlaceType' /\ \A k \in Bosses \ {n} : at'[k] = at[k]
      /\ at'[n].main \in {"tell", "except", "select"} /\ at'[n].sender = at[n].sender
  <2>1. CASE Enter(n, "main", "over")
    BY <1>0, <2>1, Entered DEF Threads
  <2>2. CASE Raise(n, "main")
    BY <1>0, <2>2, Raised DEF Threads
  <2>3. CASE Goto(n, "main", "select")
    <3>1. "select" \in PlacesOf("main")
      BY DEF PlacesOf, MainPlaces
    <3> QED BY <1>0, <2>3, <3>1, Moved DEF Threads
  <2> QED BY <2>1, <2>2, <2>3 DEF Loop
<1>2. UNCHANGED <<system, members, watched, outgoing, open, mail, events, running>>
  BY DEF Loop, process
<1>3. BookType' /\ Others(n)
  BY <1>0, <1>1, <1>2 DEF BookType, Others, ConnsOf, Of
<1>4. InOrder(n)'
  BY <1>0, <1>1, <1>2 DEF InOrder
<1>5. (Alive(n)' => Alive(n)) /\ (Parting(n)' => Parting(n))
  BY <1>0, <1>1 DEF Alive, Parting
<1> QED BY <1>0, <1>1, <1>2, <1>3, <1>4, <1>5, QuietStep

\* The byte in terminate_hotline.
LEMMA SignalledKeeps ==
    ASSUME IInv, NEW n \in Bosses, Signalled(n)
    PROVE  NodeStep(n) /\ Typed'
<1>0. PlaceType /\ BookType /\ InOrder(n) /\ "main" \in Threads /\ at[n].main = "events"
  BY Facts DEF Threads, Signalled
<1>1. /\ PlaceType' /\ \A k \in Bosses \ {n} : at'[k] = at[k]
      /\ at'[n].main = "tell" /\ at'[n].sender = at[n].sender
  BY <1>0, Entered DEF Threads, Signalled
<1>2. /\ UNCHANGED <<system, members, watched, outgoing, open, mail, running>>
      /\ events' = [events EXCEPT ![n] = {}]
  BY DEF Signalled, process
<1>3. BookType' /\ Others(n) /\ events'[n] \subseteq events[n]
  BY <1>0, <1>1, <1>2 DEF BookType, Others, ConnsOf, Of
<1>4. InOrder(n)'
  BY <1>0, <1>1, <1>2 DEF InOrder
<1>5. (Alive(n)' => Alive(n)) /\ (Parting(n)' => Parting(n))
  BY <1>0, <1>1 DEF Alive, Parting
<1> QED BY <1>0, <1>1, <1>2, <1>3, <1>4, <1>5, QuietStep

\* The sending thread dies of joining itself.
LEMMA JoinsItselfKeeps ==
    ASSUME IInv, NEW n \in Bosses, JoinsItself(n)
    PROVE  NodeStep(n) /\ Typed'
<1>0. PlaceType /\ BookType /\ InOrder(n) /\ "sender" \in Threads /\ at[n].sender = "join"
  BY Facts DEF Threads, JoinsItself
<1>1. /\ PlaceType' /\ \A k \in Bosses \ {n} : at'[k] = at[k]
      /\ at'[n].main = at[n].main /\ at'[n].sender = "dead"
  BY <1>0, Raised DEF Threads, JoinsItself
<1>2. UNCHANGED <<system, members, watched, outgoing, open, mail, events, running>>
  BY DEF JoinsItself, process
<1>3. BookType' /\ Others(n)
  BY <1>0, <1>1, <1>2 DEF BookType, Others, ConnsOf, Of
<1>4. InOrder(n)'
  BY <1>0, <1>1, <1>2 DEF InOrder
<1>5. (Alive(n)' => Alive(n)) /\ (Parting(n)' => Parting(n))
  BY <1>0, <1>1 DEF Alive, Parting
<1> QED BY <1>0, <1>1, <1>2, <1>3, <1>4, <1>5, QuietStep

\* sigint_handler.
LEMMA InterruptKeeps ==
    ASSUME IInv, NEW n \in Bosses, Interrupt(n)
    PROVE  NodeStep(n) /\ Typed'
<1>0. PlaceType /\ BookType /\ InOrder(n)
  BY Facts
<1>2. /\ UNCHANGED <<system, at, back, members, watched, outgoing, open, mail, events>>
      /\ running' = [running EXCEPT ![n] = FALSE]
  BY DEF Interrupt, Fault
<1>3. BookType' /\ Others(n) /\ PlaceType' /\ running'[n] = FALSE
  BY <1>0, <1>2 DEF BookType, PlaceType, Others, ConnsOf, Of
<1>4. InOrder(n)'
  BY <1>0, <1>2, <1>3 DEF InOrder
<1>5. (Alive(n)' => Alive(n)) /\ (Parting(n)' => Parting(n))
  BY <1>2 DEF Alive, Parting
<1> QED BY <1>2, <1>3, <1>4, <1>5, QuietStep

\* select: an event of a manager is a message, or the end of its stream.
LEMMA SelectKeeps ==
    ASSUME IInv, NEW n \in Bosses, Select(n)
    PROVE  NodeStep(n) /\ Typed'
<1>0. /\ PlaceType /\ BookType /\ WireType /\ Orderly(n) /\ InOrder(n) /\ "main" \in Threads
      /\ at[n].main = "select" /\ system \in Systems
  BY Facts DEF Threads, Select
<1>1. /\ PlaceType' /\ \A k \in Bosses \ {n} : at'[k] = at[k]
      /\ at'[n].main = "events" /\ at'[n].sender = at[n].sender
  <2>1. "events" \in PlacesOf("main")
    BY DEF PlacesOf, MainPlaces
  <2> QED BY <1>0, <2>1, Moved DEF Threads, Select
<1>2. /\ UNCHANGED <<system, members, watched, outgoing, open, mail, running>>
      /\ \/ events' = events
         \/ \E s \in SUBSET {"signal"} :
              events' = [events EXCEPT ![n] = {x \in watched[n] : Ready(n, x)} \cup s]
  BY DEF Select, process
<1>3. BookType' /\ Others(n)
  <2>1. CASE events' = events
    BY <1>0, <1>1, <1>2, <2>1 DEF BookType, Others, ConnsOf, Of
  <2>2. CASE events' # events
    <3>1. PICK s \in SUBSET {"signal"} :
             events' = [events EXCEPT ![n] = {x \in watched[n] : Ready(n, x)} \cup s]
      BY <1>2, <2>2
    <3> DEFINE new == {x \in watched[n] : Ready(n, x)} \cup s
    <3>2. new \subseteq ConnsOf(n) \cup {"signal"} /\ events' = [events EXCEPT ![n] = new]
      BY <1>0, <3>1 DEF BookType
    <3> HIDE DEF new
    <3> QED BY <1>0, <1>1, <1>2, <3>2 DEF BookType, Others, ConnsOf, Of
  <2> QED BY <2>1, <2>2
<1>4. InOrder(n)'
  BY <1>0, <1>1, <1>2 DEF InOrder
<1>5. Closes(n) /\ Mails(n, mail, mail')
  BY <1>2, Facts, ClosesNone, MailsSame
<1>6. Heard(n)'
  <2>1. Heard(n) /\ Subs(n)' = Subs(n)
    BY <1>0, <1>2 DEF Orderly, Alive, Subs, Of
  <2>2. ASSUME NEW m \in Subs(n) \cap events'[n], m \notin events[n]
        PROVE  mail[m].near # <<>> \/ ~open[m].far \/ ~open[m].near
    <3>1. m # n /\ m \in Conns /\ m \in ConnsOf(n)
      BY <1>0, Trees DEF Subs, Conns, ConnsOf
    <3>2. m # "signal"
      BY <3>1, NamesAssumption
    <3>3. Ready(n, m)
      BY <1>0, <1>2, <2>2, <3>2 DEF BookType
    <3> QED BY <3>1, <3>3 DEF Ready, Inbox, Hears, Open, Mine, Theirs
  <2> QED BY <1>2, <2>1, <2>2 DEF Heard
<1>7. Own(n)
  <2>1. n \in Managers /\ Told(n) => Told(n)'
    BY <1>0, <1>1, <1>2 DEF Told
  <2>2. Alive(n) /\ ~(Parting(n)' /\ ~Parting(n))
    BY <1>0, <1>1 DEF Alive, Parting
  <2> QED BY <1>2, <1>4, <1>6, <2>1, <2>2 DEF Own
<1> QED BY <1>1, <1>2, <1>3, <1>5, <1>7, TypedStep DEF NodeStep

\* The message that handle_shutdown sends to each employee.
LEMMA TellMails ==
    ASSUME IInv, NEW n \in Bosses, NEW t \in Threads, Tell(n, t)
    PROVE  /\ Mails(n, mail, mail') /\ (n \in Managers => mail'[n] = mail[n])
           /\ \A m \in members[n] \cap Managers :
                 open[m].near /\ open[m].far => "SHUTDOWN" \in Range(mail'[m].far)
           /\ \A x \in Conns : mail'[x].near = mail[x].near
<1>0. /\ mail \in Wires /\ system \in Systems /\ members[n] \subseteq Of(n) /\ n \notin Of(n)
  BY Facts, Trees DEF BookType
<1>1. \A s \in Seq(Notices) : LET a == Append(s, "SHUTDOWN")
                              IN  a \in Seq(Notices) /\ Range(a) = Range(s) \cup {"SHUTDOWN"}
  BY RangeAppend DEF Notices
<1>2. mail' = [x \in Conns |-> IF x \in members[n] /\ Open(n, x) /\ Hears(n, x)
                  THEN [mail[x] EXCEPT !.far = Append(@, "SHUTDOWN")] ELSE mail[x]]
  BY DEF Tell
<1>3. ASSUME NEW x \in Conns
      PROVE  /\ mail'[x] \in [near : Seq(Notices), far : Seq(Notices)]
             /\ mail'[x].near = mail[x].near
             /\ Range(mail[x].far) \subseteq Range(mail'[x].far)
             /\ x \notin members[n] => mail'[x] = mail[x]
             /\ x \in members[n] /\ Open(n, x) /\ Hears(n, x) => "SHUTDOWN" \in Range(mail'[x].far)
  <2>1. mail[x] \in [near : Seq(Notices), far : Seq(Notices)]
    BY <1>0 DEF Wires
  <2>2. CASE x \in members[n] /\ Open(n, x) /\ Hears(n, x)
    <3>1. mail'[x] = [mail[x] EXCEPT !.far = Append(mail[x].far, "SHUTDOWN")]
      BY <1>2, <2>2
    <3>2. mail'[x].far = Append(mail[x].far, "SHUTDOWN") /\ mail'[x].near = mail[x].near
      BY <2>1, <3>1
    <3>3. mail[x].far \in Seq(Notices)
      BY <2>1
    <3>4. Append(mail[x].far, "SHUTDOWN") \in Seq(Notices)
      BY <1>1, <3>3
    <3>5. mail'[x] \in [near : Seq(Notices), far : Seq(Notices)]
      BY <2>1, <3>1, <3>4
    <3> QED BY <1>1, <2>2, <3>2, <3>3, <3>5
  <2>3. CASE ~(x \in members[n] /\ Open(n, x) /\ Hears(n, x))
    <3>1. mail'[x] = mail[x]
      BY <1>2, <2>3
    <3> QED BY <2>1, <2>3, <3>1
  <2> QED BY <2>2, <2>3
<1>4. Mails(n, mail, mail')
  <2>1. mail' = [x \in Conns |-> mail'[x]]
    BY <1>2
  <2>2. mail' \in [Conns -> [near : Seq(Notices), far : Seq(Notices)]]
    BY <1>3, <2>1
  <2> QED BY <1>3, <2>2 DEF Mails
<1>5. ASSUME NEW m \in members[n] \cap Managers, open[m].near /\ open[m].far
      PROVE  "SHUTDOWN" \in Range(mail'[m].far)
  <2>1. m \in Conns /\ m # n
    BY <1>0 DEF Conns
  <2> QED BY <1>3, <1>5, <2>1 DEF Open, Hears, Mine, Theirs
<1>6. n \in Managers => mail'[n] = mail[n]
  BY <1>0, <1>3 DEF Conns
<1> QED BY <1>3, <1>4, <1>5, <1>6

\* The employees are told: from now on every one of them can know.
LEMMA TellKeeps ==
    ASSUME IInv, NEW n \in Bosses, NEW t \in Threads, Tell(n, t)
    PROVE  NodeStep(n) /\ Typed'
<1>0. /\ PlaceType /\ BookType /\ WireType /\ Orderly(n) /\ InOrder(n) /\ at[n][t] = "tell"
      /\ system \in Systems
  BY Facts DEF Tell
<1>1. /\ PlaceType' /\ \A k \in Bosses \ {n} : at'[k] = at[k]
      /\ at'[n].main = (IF t = "main" THEN "part" ELSE at[n].main)
      /\ at'[n].sender = (IF t = "sender" THEN "part" ELSE at[n].sender)
  <2>1. "part" \in PlacesOf(t) /\ Goto(n, t, "part")
    BY DEF PlacesOf, MainPlaces, SenderPlaces, Tell
  <2> QED BY <1>0, <2>1, Moved
<1>2. /\ UNCHANGED <<system, members, watched, outgoing, open, events>>
      /\ running' = [running EXCEPT ![n] = FALSE]
  BY DEF Tell, process
<1>3. BookType' /\ Others(n) /\ running'[n] = FALSE
  BY <1>0, <1>1, <1>2 DEF BookType, Others, ConnsOf, Of
<1>4. (t = "main" => at[n].main = "tell") /\ (t = "sender" => at[n].sender = "tell")
  BY <1>0
<1>5. InOrder(n)'
  BY <1>0, <1>1, <1>2, <1>3, <1>4 DEF InOrder, Threads
<1>6. Closes(n) /\ Mails(n, mail, mail')
  BY <1>0, <1>2, ClosesNone, TellMails
<1>7. Alive(n)' => Alive(n)
  BY <1>1, <1>4 DEF Alive
<1>8. ASSUME Alive(n)' PROVE Heard(n)'
  <2>1. Heard(n) /\ Subs(n)' = Subs(n)
    BY <1>0, <1>2, <1>7, <1>8 DEF Orderly, Subs, Of
  <2>2. \A m \in Subs(n) : mail'[m].near = mail[m].near
    BY TellMails DEF Subs, Conns
  <2> QED BY <1>2, <2>1, <2>2 DEF Heard
<1>9. ASSUME Alive(n)', NEW m \in members'[n] \cap Managers PROVE Told(m)'
  <2>1. m \in members[n] \cap Managers /\ m \in Subs(n) /\ m \in Conns \ {n} /\ m \in Bosses
    BY <1>0, <1>2, Trees DEF BookType, Subs, Conns, Bosses
  <2>2. CASE ~open[m].near
    <3>1. Told(m)
      BY <1>0, <1>7, <1>9, <2>1, <2>2 DEF Orderly, Tells
    <3>2. Range(mail[m].far) \subseteq Range(mail'[m].far) /\ at'[m] = at[m] /\ running'[m] = running[m]
      BY <1>3, <1>6, <2>1 DEF Mails, Others
    <3> QED BY <1>2, <3>1, <3>2 DEF Told
  <2>3. CASE open[m].near /\ open[m].far
    BY <2>1, <2>3, TellMails DEF Told
  <2>4. CASE ~open[m].far
    BY <1>2, <2>4 DEF Told
  <2> QED BY <2>2, <2>3, <2>4
<1>10. n \in Managers /\ Told(n) => Told(n)'
  BY <1>3 DEF Told
<1> QED BY <1>0, <1>1, <1>2, <1>3, <1>5, <1>6, <1>7, <1>8, <1>9, <1>10, TypedStep DEF NodeStep, Own

\* The connections of the employees are closed: they have been told.
LEMMA PartKeeps ==
    ASSUME IInv, NEW n \in Bosses, NEW t \in Threads, Part(n, t)
    PROVE  NodeStep(n) /\ Typed'
<1>0. /\ PlaceType /\ BookType /\ WireType /\ Orderly(n) /\ InOrder(n) /\ at[n][t] = "part"
      /\ system \in Systems /\ members[n] \subseteq ConnsOf(n) /\ n \notin members[n]
  BY Facts, Trees DEF Part, BookType, ConnsOf
<1>1. /\ PlaceType' /\ \A k \in Bosses \ {n} : at'[k] = at[k]
      /\ at'[n].main = (IF t = "main" THEN "join" ELSE at[n].main)
      /\ at'[n].sender = (IF t = "sender" THEN "join" ELSE at[n].sender)
  <2>1. "join" \in PlacesOf(t) /\ Goto(n, t, "join")
    BY DEF PlacesOf, MainPlaces, SenderPlaces, Part
  <2> QED BY <1>0, <2>1, Moved
<1>2. /\ UNCHANGED <<system, watched, outgoing, events, running>>
      /\ members' = [members EXCEPT ![n] = {}] /\ Joined(n) /\ Closing(n, members[n])
  BY DEF Part, process
<1>3. BookType' /\ Others(n) /\ members'[n] = {}
  BY <1>0, <1>1, <1>2 DEF BookType, Others, ConnsOf, Of
<1>4. (t = "main" => at[n].main = "part") /\ (t = "sender" => at[n].sender = "part") /\ Parting(n)
  BY <1>0 DEF Parting, Threads
<1>5. InOrder(n)'
  BY <1>0, <1>1, <1>2, <1>3, <1>4 DEF InOrder, Threads
<1>6. /\ Closes(n) /\ Mails(n, mail, mail')
      /\ \A x \in Conns : /\ open'[x].near = IF x \in members[n] THEN FALSE ELSE open[x].near
                          /\ open'[x].far = open[x].far
                          /\ x \notin members[n] => mail'[x] = mail[x]
  <2>1. /\ Closes(n) /\ Mails(n, mail, mail')
        /\ \A x \in Conns : /\ open'[x].near = IF x \in members[n] /\ x # n THEN FALSE ELSE open[x].near
                            /\ open'[x].far = IF x \in members[n] /\ x = n THEN FALSE ELSE open[x].far
                            /\ x \notin members[n] => mail'[x] = mail[x]
    <3> DEFINE X == members[n]
    <3>1. X \subseteq ConnsOf(n) /\ Closing(n, X) /\ WireType
      BY <1>0, <1>2
    <3> HIDE DEF X
    <3>2. Shut(n, X)
      BY <3>1, Closed, Zenon
    <3> QED BY <3>2 DEF X, Shut
  <2> QED BY <1>0, <2>1
<1>7. Alive(n)' => Alive(n)
  BY <1>1, <1>4 DEF Alive
<1>8. ASSUME Alive(n)' PROVE Heard(n)'
  <2>1. Heard(n) /\ Subs(n)' = Subs(n)
    BY <1>0, <1>2, <1>7, <1>8 DEF Orderly, Subs, Of
  <2>2. Subs(n) \subseteq Conns
    BY DEF Subs, Conns
  <2> QED BY <1>2, <1>6, <2>1, <2>2 DEF Heard
<1>9. ASSUME Alive(n)', NEW m \in Subs(n), open[m].near, ~open'[m].near PROVE Told(m)'
  <2>1. m \in members[n] /\ m \in Managers /\ m \in Conns \ {n} /\ m \in Bosses
    BY <1>0, <1>6, <1>9, Trees DEF Subs, Conns, Bosses
  <2>2. Told(m)
    BY <1>0, <1>4, <1>7, <1>9, <2>1 DEF Orderly, Tells
  <2>3. Range(mail[m].far) \subseteq Range(mail'[m].far) /\ at'[m] = at[m] /\ running'[m] = running[m]
        /\ open'[m].far = open[m].far
    BY <1>3, <1>6, <2>1 DEF Mails, Others
  <2> QED BY <2>2, <2>3 DEF Told
<1>10. n \in Managers /\ Told(n) => Told(n)'
  <2>1. ASSUME n \in Managers PROVE mail'[n] = mail[n] /\ open'[n].far = open[n].far
    BY <1>0, <1>6, <2>1 DEF Conns
  <2> QED BY <1>1, <1>2, <2>1 DEF Told
<1>11. \A w \in (members[n] \ members'[n]) \cap system.spawned : Dead(w)
  BY <1>2 DEF Joined
<1> QED BY <1>0, <1>1, <1>2, <1>3, <1>4, <1>5, <1>6, <1>7, <1>8, <1>9, <1>10, <1>11, TypedStep DEF NodeStep, Own

\* What n would still have read at its end of a connection is lost.
Emptied(p, n, x) == [p EXCEPT ![x][Mine(n, x)] = <<>>]

\* Closing an end loses what waits there.
LEMMA MailsEmptied ==
    ASSUME NEW n \in Bosses, NEW x \in Conns, x \in ConnsOf(n), NEW p \in Wires
    PROVE  /\ Emptied(p, n, x) \in Wires /\ Mails(n, p, Emptied(p, n, x))
           /\ \A y \in Conns : y # x => Emptied(p, n, x)[y] = p[y]
<1> DEFINE q == Emptied(p, n, x)
           r == [p[x] EXCEPT ![Mine(n, x)] = <<>>]
<1>1. p[x] \in [near : Seq(Notices), far : Seq(Notices)] /\ <<>> \in Seq(Notices)
  BY DEF Wires
<1>2. /\ r \in [near : Seq(Notices), far : Seq(Notices)]
      /\ x = n => r.near = p[x].near
      /\ x # n => r.far = p[x].far
  BY <1>1 DEF Mine
<1>3. q = [p EXCEPT ![x] = r]
  BY DEF Emptied
<1> HIDE DEF r, q
<1>4. q \in Wires /\ q[x] = r /\ \A y \in Conns : y # x => q[y] = p[y]
  BY <1>2, <1>3 DEF Wires
<1>5. Mails(n, p, q)
  BY <1>2, <1>4 DEF Mails, Wires
<1> QED BY <1>4, <1>5 DEF q

\* The main thread leaves handle_shutdown, and with it its own boss.
LEMMA LeaveKeeps ==
    ASSUME IInv, NEW n \in Bosses, Leave(n)
    PROVE  NodeStep(n) /\ Typed'
<1> DEFINE x == IF n = Server THEN Client ELSE n
           p == IF n # Server /\ Open(n, x) THEN Delivered(mail, n, x, "SHUTDOWN") ELSE mail
<1>0. /\ PlaceType /\ BookType /\ WireType /\ Orderly(n) /\ InOrder(n) /\ at[n].main = "join"
      /\ at[n].sender = "dead" /\ system \in Systems /\ mail \in Wires /\ back[n] \in Returns
  BY Facts DEF Leave, PlaceType
<1>1. /\ PlaceType' /\ \A k \in Bosses \ {n} : at'[k] = at[k]
      /\ at'[n].main \in {"events", "except", "over"}
      /\ at'[n].sender = at[n].sender
  <2>1. back[n].main \in PlacesOf("main") /\ Goto(n, "main", back[n].main)
        /\ back[n].main \in {"events", "except", "over"}
    BY <1>0 DEF PlacesOf, MainPlaces, Leave, Returns
  <2> QED BY <1>0, <2>1, Moved DEF Threads
<1>2. UNCHANGED <<system, members, watched, outgoing, events, running>>
  BY DEF Leave, process
<1>3. BookType' /\ Others(n)
  BY <1>0, <1>1, <1>2 DEF BookType, Others, ConnsOf, Of
<1>4. InOrder(n)' /\ ~running[n]
  BY <1>0, <1>1, <1>2 DEF InOrder
<1>5. x \in Conns /\ x \in ConnsOf(n) /\ x \notin Subs(n) /\ (n \in Managers => x = n) /\ x \notin Of(n)
  BY <1>0, Trees, NamesAssumption DEF Conns, ConnsOf, Subs, Bosses
<1>6. /\ open' = [open EXCEPT ![x][Mine(n, x)] = FALSE]
      /\ mail' = [p EXCEPT ![x][Mine(n, x)] = <<>>]
  BY DEF Leave
<1>7. p \in Wires /\ Mails(n, mail, p) /\ \A y \in Conns : y # x => p[y] = mail[y]
  <2>1. CASE p = mail
    BY <1>0, <2>1, MailsSame
  <2>2. CASE p = Delivered(mail, n, x, "SHUTDOWN")
    <3>1. p \in Wires /\ Mails(n, mail, p)
      BY <1>0, <1>5, <2>2, MailsSent DEF Notices
    <3>2. \A y \in Conns : y # x => p[y] = mail[y]
      BY <2>2 DEF Delivered
    <3> QED BY <3>1, <3>2
  <2> QED BY <2>1, <2>2
<1> HIDE DEF p
<1>8. Mails(n, p, mail') /\ \A y \in Conns : y # x => mail'[y] = p[y]
  <2> HIDE DEF x
  <2>1. p \in Wires /\ x \in Conns /\ x \in ConnsOf(n)
    BY <1>5, <1>7
  <2>2. mail' = Emptied(p, n, x)
    BY <1>6 DEF Emptied
  <2>3. /\ Emptied(p, n, x) \in Wires /\ Mails(n, p, Emptied(p, n, x))
        /\ \A y \in Conns : y # x => Emptied(p, n, x)[y] = p[y]
    BY <2>1, MailsEmptied, Zenon
  <2> QED BY <2>2, <2>3, Zenon
<1>9. Mails(n, mail, mail') /\ \A y \in Conns : y # x => mail'[y] = mail[y]
  BY <1>7, <1>8, MailsTwice
<1>10. /\ open' \in [Conns -> [near : BOOLEAN, far : BOOLEAN]]
       /\ \A y \in Conns : y # x => open'[y] = open[y]
       /\ x = n => open'[x].far = FALSE /\ open'[x].near = open[x].near
       /\ x # n => open'[x].near = FALSE /\ open'[x].far = open[x].far
  <2>1. open[x] \in [near : BOOLEAN, far : BOOLEAN] /\ open \in [Conns -> [near : BOOLEAN, far : BOOLEAN]]
    BY <1>0, <1>5 DEF WireType
  <2> DEFINE r == [open[x] EXCEPT ![Mine(n, x)] = FALSE]
  <2>2. /\ r \in [near : BOOLEAN, far : BOOLEAN]
        /\ x = n => r.far = FALSE /\ r.near = open[x].near
        /\ x # n => r.near = FALSE /\ r.far = open[x].far
    <3> HIDE DEF x
    <3> QED BY <2>1 DEF Mine
  <2>3. open' = [open EXCEPT ![x] = r]
    BY <1>6
  <2> HIDE DEF r, x
  <2> QED BY <1>5, <2>1, <2>2, <2>3
<1>11. Closes(n)
  <2> HIDE DEF x
  <2> QED BY <1>5, <1>10 DEF Closes
<1>12. Mild(n)
  <2>1. (Alive(n)' => Alive(n)) /\ (Parting(n)' => Parting(n))
    BY <1>0, <1>1 DEF Alive, Parting
  <2>2. \A m \in Subs(n) : m \in Conns /\ m # x
    BY <1>5 DEF Subs, Conns
  <2>3. n \in Managers => open'[n].far = FALSE
    BY <1>5, <1>10
  <2> HIDE DEF x
  <2> QED BY <1>2, <1>3, <1>4, <1>9, <1>10, <1>11, <2>1, <2>2, <2>3 DEF Mild
<1> QED BY <1>0, <1>1, <1>2, <1>3, <1>4, <1>9, <1>11, <1>12, MildStep, TypedStep


\* A step that sends to the client or to the boss at most.
LEMMA ExceptKeeps ==
    ASSUME IInv, NEW n \in Bosses, Except(n)
    PROVE  NodeStep(n) /\ Typed'
<1> DEFINE x == IF n = Server THEN Client ELSE n
<1>0. /\ PlaceType /\ BookType /\ WireType /\ InOrder(n) /\ at[n].main = "except"
      /\ system \in Systems /\ mail \in Wires
  BY Facts DEF Except
<1>1. /\ PlaceType' /\ \A k \in Bosses \ {n} : at'[k] = at[k]
      /\ at'[n].main = "tell" /\ at'[n].sender = at[n].sender
  BY <1>0, Entered DEF Threads, Except
<1>2. UNCHANGED <<system, members, watched, outgoing, events, running, open>>
  BY DEF Except, process
<1>3. BookType' /\ Others(n)
  BY <1>0, <1>1, <1>2 DEF BookType, Others, ConnsOf, Of
<1>4. InOrder(n)'
  BY <1>0, <1>1, <1>2 DEF InOrder
<1>5. x \in Conns /\ x \notin Subs(n)
  BY <1>0, Trees, NamesAssumption DEF Conns, Subs, Bosses
<1>6. mail' = mail \/ mail' = Delivered(mail, n, x, "ERROR")
  BY DEF Except
<1> HIDE DEF x
<1>7. Mails(n, mail, mail') /\ \A y \in Conns : y # x => mail'[y] = mail[y]
  <2>1. CASE mail' = mail
    BY <1>0, <2>1, MailsSame
  <2>2. CASE mail' = Delivered(mail, n, x, "ERROR")
    <3>1. "ERROR" \in Notices
      BY DEF Notices
    <3> QED BY <1>0, <1>5, <2>2, <3>1, MailsSent
  <2> QED BY <1>6, <2>1, <2>2
<1>8. Closes(n)
  BY <1>0, <1>2, ClosesNone
<1>9. Mild(n)
  <2>1. (Alive(n)' => Alive(n)) /\ (Parting(n)' => Parting(n))
    BY <1>0, <1>1 DEF Alive, Parting
  <2>2. \A m \in Subs(n) : m \in Conns /\ m # x
    BY <1>5 DEF Subs, Conns
  <2> QED BY <1>1, <1>2, <1>3, <1>7, <1>8, <2>1, <2>2 DEF Mild
<1> QED BY <1>1, <1>2, <1>3, <1>4, <1>7, <1>8, <1>9, MildStep, TypedStep

\* What an action has done to the books of n before and after handle_disconnect.
Taken(n) ==
    /\ system' = system /\ running' = running /\ members' = members
    /\ DOMAIN events' = Bosses /\ events'[n] \subseteq events[n]
    /\ \A k \in Bosses \ {n} : events'[k] = events[k]

\* handle_disconnect, of a connection whose other end is closed if it is a
\* manager's.
LEMMA DisconnectMild ==
    ASSUME IInv, NEW n \in Bosses, NEW t \in Threads, NEW x \in Conns,
           Disconnect(n, t, x), Taken(n), x \in Subs(n) => ~open[x].far,
           at[n][t] = IF t = "main" THEN "events" ELSE "send"
    PROVE  /\ Mild(n) /\ InOrder(n)' /\ PlaceType' /\ BookType' /\ WireType'
           /\ at'[n].sender = "send" => at[n].sender = "send"
<1>0. /\ PlaceType /\ BookType /\ WireType /\ InOrder(n) /\ system \in Systems /\ mail \in Wires
      /\ t = "main" => at[n].main = "events"
      /\ t = "sender" => at[n].sender = "send"
  BY Facts
<1> DEFINE home == IF t = "main" THEN "events" ELSE "get"
<1>1. /\ PlaceType' /\ \A k \in Bosses \ {n} : at'[k] = at[k]
      /\ t = "main" => at'[n].sender = at[n].sender /\ at'[n].main \in {"events", "tell", "except"}
      /\ t = "sender" => at'[n].main = at[n].main /\ at'[n].sender \in {"get", "tell", "dead"}
  <2>1. CASE \E r \in {"except", home} : Enter(n, t, r)
    BY <1>0, <2>1, Entered DEF Threads
  <2>2. CASE Raise(n, t)
    BY <1>0, <2>2, Raised DEF Threads
  <2>3. CASE Goto(n, t, home)
    <3>1. home \in PlacesOf(t)
      BY DEF PlacesOf, MainPlaces, SenderPlaces
    <3> QED BY <1>0, <2>3, <3>1, Moved DEF Threads
  <2> QED BY <2>1, <2>2, <2>3 DEF Disconnect
<1>2. \/ UNCHANGED <<watched, open, mail>>
      \/ watched' = [watched EXCEPT ![n] = @ \ {x}] /\ x \in watched[n] /\ Closing(n, {x})
  BY DEF Disconnect
<1>3. Others(n)
  BY <1>1 DEF Others, Taken
<1>4. BookType'
  <2>1. DOMAIN watched' = Bosses /\ \A k \in Bosses : watched'[k] \subseteq watched[k]
    BY <1>0, <1>2 DEF BookType
  <2>2. \A k \in Bosses : ConnsOf(k)' = ConnsOf(k) /\ Of(k)' = Of(k)
    BY DEF Taken, ConnsOf, Of
  <2> QED BY <1>0, <2>1, <2>2 DEF BookType, Taken
<1>5. InOrder(n)'
  BY <1>0, <1>1 DEF InOrder, Taken, Threads
<1>6. /\ WireType' /\ Closes(n) /\ Mails(n, mail, mail')
      /\ \A y \in Conns : y # x => mail'[y] = mail[y] /\ open'[y] = open[y]
      /\ (open'[x] = open[x] /\ mail'[x] = mail[x]) \/ ~open'[x][Mine(n, x)]
  <2>1. CASE UNCHANGED <<watched, open, mail>>
    BY <1>0, <2>1, ClosesNone, MailsSame DEF WireType
  <2>2. CASE x \in watched[n] /\ Closing(n, {x})
    <3> DEFINE X == {x}
    <3>1. X \subseteq ConnsOf(n) /\ Closing(n, X) /\ WireType
      BY <1>0, <2>2 DEF BookType
    <3> HIDE DEF X
    <3>2. Shut(n, X)
      BY <3>1, Closed, Zenon
    <3>3. ~open'[x][Mine(n, x)]
      BY <3>2 DEF X, Mine, Shut
    <3>4. ASSUME NEW y \in Conns, y # x PROVE open'[y] = open[y]
      BY <2>2, <3>4 DEF Closing, WireType
    <3> QED BY <3>2, <3>3, <3>4 DEF X, Shut
  <2> QED BY <1>2, <2>1, <2>2
<1>7. Mild(n)
  <2>1. (Alive(n)' => Alive(n)) /\ (Parting(n)' => Parting(n))
    BY <1>0, <1>1 DEF Alive, Parting, Threads
  <2>2. ASSUME NEW m \in Subs(n)
        PROVE  /\ open'[m] = open[m] \/ ~open[m].far
               /\ mail'[m].near = mail[m].near \/ ~open'[m].near
    <3>1. m \in Conns /\ m # n
      BY <1>0, Trees DEF Subs, Conns
    <3>2. CASE m # x
      BY <1>6, <3>1, <3>2
    <3>3. CASE m = x
      <4>1. ~open[m].far /\ Mine(n, m) = "near"
        BY <3>1, <3>3 DEF Mine
      <4> QED BY <1>6, <3>3, <4>1
    <3> QED BY <3>2, <3>3
  <2>3. ASSUME n \in Managers, open'[n].far PROVE mail'[n] = mail[n]
    <3>1. n \in Conns
      BY <2>3 DEF Conns
    <3>2. CASE n # x
      BY <1>6, <3>1, <3>2
    <3>3. CASE n = x
      <4>1. Mine(n, x) = "far"
        BY <3>3 DEF Mine
      <4> QED BY <1>6, <2>3, <3>3, <4>1
    <3> QED BY <3>2, <3>3
  <2>4. at'[n].main \in {"select", "events"} => at[n].main \in {"select", "events"}
    BY <1>0, <1>1 DEF Threads
  <2> QED BY <1>3, <1>6, <2>1, <2>2, <2>3, <2>4 DEF Mild, Taken
<1> QED BY <1>0, <1>1, <1>4, <1>5, <1>6, <1>7 DEF Threads

\* recv fails: by Heard, a manager that is lost has closed its end.
LEMMA LostKeeps ==
    ASSUME IInv, NEW n \in Bosses, NEW x \in Conns, Lost(n, x)
    PROVE  NodeStep(n) /\ Typed'
<1>0. /\ PlaceType /\ BookType /\ WireType /\ Orderly(n) /\ InOrder(n) /\ "main" \in Threads
      /\ at[n].main = "events" /\ x \in events[n] /\ Inbox(n, x) = <<>> /\ system \in Systems
  BY Facts DEF Threads, Lost, Take
<1>1. /\ UNCHANGED <<system, running, members, outgoing>>
      /\ events' = [events EXCEPT ![n] = @ \ {x}]
  BY DEF Lost, Take, process
<1>2. Taken(n)
  BY <1>0, <1>1 DEF Taken, BookType
<1>3. CASE Open(n, x) /\ Disconnect(n, "main", x)
  <2>1. x \in Subs(n) => ~open[x].far
    <3>1. ASSUME x \in Subs(n) PROVE ~open[x].far
      <4>1. x # n
        BY <1>0, <3>1, Trees DEF Subs
      <4>2. mail[x].near = <<>> /\ open[x].near
        BY <1>0, <1>3, <4>1 DEF Inbox, Mine, Open
      <4>3. Heard(n)
        BY <1>0 DEF Orderly, Alive
      <4> QED BY <1>0, <3>1, <4>2, <4>3 DEF Heard
    <3> QED BY <3>1
  <2>2. /\ Mild(n) /\ InOrder(n)' /\ PlaceType' /\ BookType' /\ WireType'
        /\ at'[n].sender = "send" => at[n].sender = "send"
    BY <1>0, <1>2, <1>3, <2>1, DisconnectMild
  <2> QED BY <1>1, <2>2, MildStep, TypedStep DEF Mild
<1>4. CASE Raise(n, "main") /\ UNCHANGED <<watched, open, mail>>
  <2>1. /\ PlaceType' /\ \A k \in Bosses \ {n} : at'[k] = at[k]
        /\ at'[n].main = "except" /\ at'[n].sender = at[n].sender
    BY <1>0, <1>4, Raised DEF Threads
  <2>2. BookType' /\ Others(n)
    BY <1>0, <1>1, <1>4, <2>1 DEF BookType, Others, ConnsOf, Of
  <2>3. InOrder(n)' /\ (Alive(n)' => Alive(n)) /\ (Parting(n)' => Parting(n)) /\ events'[n] \subseteq events[n]
    BY <1>0, <1>1, <1>2, <2>1 DEF InOrder, Alive, Parting, Taken
  <2> QED BY <1>1, <1>4, <2>1, <2>2, <2>3, QuietStep
<1> QED BY <1>3, <1>4 DEF Lost

----------------------------------------------------------------------------
(* Handlers and the sending thread.                                        *)

\* A message more in the queue of the sending thread.
LEMMA PutKeepsQueue ==
    ASSUME IInv, NEW n \in Bosses, NEW x \in Conns, NEW m \in Notices, Put(n, x, m),
           \A k \in Bosses : at'[k].sender = "send" => at[k].sender = "send"
    PROVE  QueueType'
<1>1. QueueType
  BY Facts
<1> DEFINE q == Append(outgoing[n], <<x, m>>)
<1>2. q \in Seq(Conns \X Notices) /\ q # <<>>
  <2>1. outgoing[n] \in Seq(Conns \X Notices) /\ <<x, m>> \in Conns \X Notices
    BY <1>1 DEF QueueType
  <2> QED BY <2>1, AppendProperties
<1> HIDE DEF q
<1>3. outgoing' = outgoing \/ outgoing' = [outgoing EXCEPT ![n] = q]
  BY DEF Put, q
<1> QED BY <1>1, <1>2, <1>3 DEF QueueType

\* The types, of a step that changes the queue of a node.
LEMMA TypedQueue ==
    ASSUME IInv, NEW n \in Bosses, system' = system, PlaceType', BookType', QueueType',
           Closes(n), Mails(n, mail, mail')
    PROVE  Typed'
<1>1. WireType'
  BY DEF Closes, Mails, WireType
<1> QED BY <1>1 DEF IInv, Typed

\* n reads a message and handles it: what it sends goes to the client at most,
\* and a SHUTDOWN of its boss makes it shut down.
LEMMA ReceiveKeeps ==
    ASSUME IInv, NEW n \in Bosses, NEW x \in Conns, Take(n, x), Inbox(n, x) # <<>>,
           Mails(n, Read(n, x), mail'),
           \A y \in Conns \ {Client} : mail'[y] = Read(n, x)[y],
           UNCHANGED <<system, running, members, watched, open>>,
           PlaceType', \A k \in Bosses \ {n} : at'[k] = at[k],
           at'[n].main \in {"events", "tell", "except"}, at'[n].sender = at[n].sender,
           x = n /\ Head(Inbox(n, x)) = "SHUTDOWN" => at'[n].main = "tell",
           QueueType'
    PROVE  NodeStep(n) /\ Typed'
<1>0. /\ BookType /\ WireType /\ InOrder(n) /\ at[n].main = "events" /\ x \in events[n]
      /\ events' = [events EXCEPT ![n] = @ \ {x}] /\ system \in Systems
  BY Facts DEF Take
<1>1. x \in ConnsOf(n)
  BY <1>0, NamesAssumption DEF BookType
<1>2. /\ Mails(n, mail, Read(n, x))
      /\ n \in Conns /\ (x # n \/ Head(Inbox(n, x)) # "SHUTDOWN") =>
            Range(mail[n].far) \subseteq Range(Read(n, x)[n].far) \cup (Notices \ {"SHUTDOWN"})
      /\ \A y \in Conns : y # x => Read(n, x)[y] = mail[y]
  BY <1>0, <1>1, MailsRead
<1>3. BookType' /\ Others(n)
  BY <1>0 DEF BookType, Others, ConnsOf, Of
<1>4. InOrder(n)'
  BY <1>0 DEF InOrder
<1>5. Closes(n) /\ Mails(n, mail, mail')
  BY <1>0, <1>2, ClosesNone, MailsTwice
<1>6. Mild(n)
  <2>1. (Alive(n)' => Alive(n)) /\ (Parting(n)' => Parting(n)) /\ events'[n] = events[n] \ {x}
    BY <1>0 DEF Alive, Parting, BookType
  <2>2. ASSUME NEW m \in Subs(n) \cap events'[n] PROVE mail'[m].near = mail[m].near
    <3>1. m \in Conns /\ m # x /\ m # Client
      BY <2>1, NamesAssumption DEF Subs, Conns, Bosses
    <3> QED BY <1>2, <3>1
  <2>3. ASSUME n \in Managers, at'[n].main \in {"select", "events"}
        PROVE  Range(mail[n].far) \subseteq Range(mail'[n].far) \cup (Notices \ {"SHUTDOWN"})
    <3>1. n \in Conns /\ n # Client
      BY <2>3, NamesAssumption DEF Conns
    <3> QED BY <1>2, <2>3, <3>1
  <2> QED BY <1>0, <1>3, <1>5, <2>1, <2>2, <2>3 DEF Mild
<1> QED BY <1>3, <1>4, <1>5, <1>6, MildStep, TypedQueue

\* What the handlers have in common.
LEMMA Received ==
    ASSUME IInv, NEW n \in Bosses, NEW x \in Conns, NEW m, Recv(n, x, m)
    PROVE  /\ PlaceType /\ BookType /\ QueueType /\ system \in Systems /\ at[n].main = "events"
           /\ Take(n, x) /\ Inbox(n, x) # <<>> /\ Head(Inbox(n, x)) = m
           /\ Read(n, x) \in Wires /\ Mails(n, Read(n, x), Read(n, x))
           /\ ConnsOf(n) \subseteq Conns /\ "main" \in Threads
<1>1. /\ PlaceType /\ BookType /\ QueueType /\ WireType /\ system \in Systems
      /\ at[n].main = "events" /\ x \in events[n]
      /\ Take(n, x) /\ Inbox(n, x) # <<>> /\ Head(Inbox(n, x)) = m
  BY Facts DEF Recv, Take
<1>2. x \in ConnsOf(n)
  BY <1>1, NamesAssumption DEF BookType
<1>3. Read(n, x) \in Wires
  BY <1>1, <1>2, MailsRead
<1>4. ConnsOf(n) \subseteq Conns
  BY <1>1, Trees DEF ConnsOf, Conns, Bosses
<1> QED BY <1>1, <1>3, <1>4, MailsSame DEF Threads

\* A message of work, passed on or not.
LEMMA HandleWorkKeeps ==
    ASSUME IInv, NEW n \in Bosses, NEW x \in Conns, HandleWork(n, x)
    PROVE  NodeStep(n) /\ Typed'
<1>0. /\ PlaceType /\ BookType /\ QueueType /\ system \in Systems /\ at[n].main = "events"
      /\ Take(n, x) /\ Inbox(n, x) # <<>> /\ Head(Inbox(n, x)) = "work"
      /\ Read(n, x) \in Wires /\ Mails(n, Read(n, x), Read(n, x))
      /\ ConnsOf(n) \subseteq Conns /\ "main" \in Threads
  BY Received DEF HandleWork
<1>1. mail' = Read(n, x) /\ UNCHANGED <<system, running, members, watched, open>>
  BY DEF HandleWork, process
<1>2. CASE Raise(n, "main") /\ UNCHANGED outgoing
  <2>1. /\ PlaceType' /\ \A k \in Bosses \ {n} : at'[k] = at[k]
        /\ at'[n].main = "except" /\ at'[n].sender = at[n].sender
    BY <1>0, <1>2, Raised DEF Threads
  <2>2. QueueType'
    BY <1>0, <1>2, <2>1 DEF QueueType
  <2> QED BY <1>0, <1>1, <2>1, <2>2, ReceiveKeeps
<1>3. CASE (\E y \in Conns : Put(n, y, "work")) /\ UNCHANGED <<at, back>>
  <2>1. PlaceType' /\ at' = at
    BY <1>0, <1>3 DEF PlaceType
  <2>2. QueueType'
    BY <1>3, PutKeepsQueue DEF Notices
  <2> QED BY <1>0, <1>1, <2>1, <2>2, ReceiveKeeps
<1>4. members[n] \cup (ConnsOf(n) \ (Of(n) \cup {x})) \subseteq Conns
  BY <1>0 DEF BookType, ConnsOf
<1> QED BY <1>2, <1>3, <1>4 DEF HandleWork

\* SHUTDOWN, from the boss or from a manager.
LEMMA HandleShutdownKeeps ==
    ASSUME IInv, NEW n \in Bosses, NEW x \in Conns, HandleShutdown(n, x)
    PROVE  NodeStep(n) /\ Typed'
<1>0. /\ PlaceType /\ BookType /\ QueueType /\ system \in Systems /\ at[n].main = "events"
      /\ Take(n, x) /\ Inbox(n, x) # <<>> /\ Head(Inbox(n, x)) = "SHUTDOWN"
      /\ Read(n, x) \in Wires /\ Mails(n, Read(n, x), Read(n, x))
      /\ ConnsOf(n) \subseteq Conns /\ "main" \in Threads
  BY Received DEF HandleShutdown
<1>1. mail' = Read(n, x) /\ UNCHANGED <<system, running, members, watched, open>>
  BY DEF HandleShutdown, process
<1>2. CASE Enter(n, "main", "events") /\ UNCHANGED outgoing
  <2>1. /\ PlaceType' /\ \A k \in Bosses \ {n} : at'[k] = at[k]
        /\ at'[n].main = "tell" /\ at'[n].sender = at[n].sender
    BY <1>0, <1>2, Entered DEF Threads
  <2>2. QueueType'
    BY <1>0, <1>2, <2>1 DEF QueueType
  <2> QED BY <1>0, <1>1, <2>1, <2>2, ReceiveKeeps
<1>3. CASE n # Server /\ x # n /\ Put(n, n, "SHUTDOWN") /\ UNCHANGED <<at, back>>
  <2>1. PlaceType' /\ at' = at
    BY <1>0, <1>3 DEF PlaceType
  <2>2. QueueType'
    BY <1>3, PutKeepsQueue DEF Notices, Bosses, Conns
  <2> QED BY <1>0, <1>1, <1>3, <2>1, <2>2, ReceiveKeeps
<1> QED BY <1>2, <1>3 DEF HandleShutdown

\* ERROR, at the server and at a manager.
LEMMA HandleErrorKeeps ==
    ASSUME IInv, NEW n \in Bosses, NEW x \in Conns, HandleError(n, x)
    PROVE  NodeStep(n) /\ Typed'
<1>0. /\ PlaceType /\ BookType /\ QueueType /\ system \in Systems /\ at[n].main = "events"
      /\ Take(n, x) /\ Inbox(n, x) # <<>> /\ Head(Inbox(n, x)) = "ERROR"
      /\ Read(n, x) \in Wires /\ Mails(n, Read(n, x), Read(n, x))
      /\ ConnsOf(n) \subseteq Conns /\ "main" \in Threads
  BY Received DEF HandleError
<1>1. UNCHANGED <<system, running, members, watched, open>>
  BY DEF HandleError, process
<1>2. CASE n = Server
  <2>0. /\ Enter(n, "main", "except") /\ UNCHANGED outgoing
        /\ mail' = Delivered(Read(n, x), n, Client, "ERROR") \/ mail' = Read(n, x)
    BY <1>2 DEF HandleError
  <2>1. /\ PlaceType' /\ \A k \in Bosses \ {n} : at'[k] = at[k]
        /\ at'[n].main = "tell" /\ at'[n].sender = at[n].sender
    BY <1>0, <2>0, Entered DEF Threads
  <2>2. QueueType'
    BY <1>0, <2>0, <2>1 DEF QueueType
  <2>3. Mails(n, Read(n, x), mail') /\ \A y \in Conns \ {Client} : mail'[y] = Read(n, x)[y]
    <3> DEFINE p == Read(n, x)
    <3>1. p \in Wires /\ Mails(n, p, p) /\ Client \in Conns /\ "ERROR" \in Notices
      BY <1>0 DEF Notices, Conns
    <3>2. mail' = Delivered(p, n, Client, "ERROR") \/ mail' = p
      BY <2>0
    <3> HIDE DEF p
    <3>3. Mails(n, p, mail') /\ \A y \in Conns \ {Client} : mail'[y] = p[y]
      BY <3>1, <3>2, MailsSent
    <3> QED BY <3>3 DEF p
  <2> QED BY <1>0, <1>1, <2>1, <2>2, <2>3, ReceiveKeeps
<1>3. CASE n # Server
  <2>0. mail' = Read(n, x) /\ Put(n, n, "ERROR") /\ UNCHANGED <<at, back>>
    BY <1>3 DEF HandleError
  <2>1. PlaceType' /\ at' = at
    BY <1>0, <2>0 DEF PlaceType
  <2>2. QueueType'
    BY <1>3, <2>0, PutKeepsQueue DEF Notices, Bosses, Conns
  <2> QED BY <1>0, <1>1, <2>0, <2>1, <2>2, ReceiveKeeps
<1> QED BY <1>2, <1>3

\* A handler raises.
LEMMA HandlerFailsKeeps ==
    ASSUME IInv, NEW n \in Bosses, NEW x \in Conns, HandlerFails(n, x)
    PROVE  NodeStep(n) /\ Typed'
<1>0. /\ PlaceType /\ BookType /\ QueueType /\ system \in Systems /\ at[n].main = "events"
      /\ Take(n, x) /\ Inbox(n, x) # <<>> /\ Head(Inbox(n, x)) = "work"
      /\ Read(n, x) \in Wires /\ Mails(n, Read(n, x), Read(n, x))
      /\ ConnsOf(n) \subseteq Conns /\ "main" \in Threads
  BY Received DEF HandlerFails
<1>1. mail' = Read(n, x) /\ Raise(n, "main")
      /\ UNCHANGED <<system, running, members, watched, open, outgoing>>
  BY DEF HandlerFails, Fault
<1>2. /\ PlaceType' /\ \A k \in Bosses \ {n} : at'[k] = at[k]
      /\ at'[n].main = "except" /\ at'[n].sender = at[n].sender
  BY <1>0, <1>1, Raised DEF Threads
<1>3. QueueType'
  BY <1>0, <1>1, <1>2 DEF QueueType
<1> QED BY <1>0, <1>1, <1>2, <1>3, ReceiveKeeps

\* The sending thread takes from its queue, or ends.
LEMMA GetKeeps ==
    ASSUME IInv, NEW n \in Bosses, Get(n)
    PROVE  NodeStep(n) /\ Typed'
<1>0. /\ PlaceType /\ BookType /\ QueueType /\ WireType /\ InOrder(n) /\ at[n].sender = "get"
      /\ outgoing[n] \in Seq(Conns \X Notices) /\ mail \in Wires
  BY Facts DEF Get, QueueType
<1>1. UNCHANGED <<system, events, running, members, watched, open, mail>>
  BY DEF Get, process
<1>2. /\ PlaceType' /\ QueueType' /\ \A k \in Bosses \ {n} : at'[k] = at[k]
      /\ at'[n].main = at[n].main /\ at'[n].sender \in {"get", "send", "dead"}
  <2>1. CASE Goto(n, "sender", "send") /\ UNCHANGED outgoing /\ outgoing[n] # <<>>
    <3>1. /\ PlaceType' /\ \A k \in Bosses \ {n} : at'[k] = at[k]
          /\ at'[n].main = at[n].main /\ at'[n].sender = "send"
      <4>1. "send" \in PlacesOf("sender")
        BY DEF PlacesOf, SenderPlaces
      <4> QED BY <1>0, <2>1, <4>1, Moved DEF Threads
    <3> QED BY <1>0, <2>1, <3>1 DEF QueueType
  <2>2. CASE outgoing' = [outgoing EXCEPT ![n] = Tail(@)] /\ UNCHANGED <<at, back>> /\ outgoing[n] # <<>>
    <3> DEFINE q == Tail(outgoing[n])
    <3>1. q \in Seq(Conns \X Notices)
      BY <1>0, <2>2
    <3>2. outgoing' = [outgoing EXCEPT ![n] = q]
      BY <2>2
    <3> HIDE DEF q
    <3> QED BY <1>0, <2>2, <3>1, <3>2 DEF QueueType, PlaceType
  <2>3. CASE outgoing' = [outgoing EXCEPT ![n] = <<>>] /\ Goto(n, "sender", "dead")
    <3>1. /\ PlaceType' /\ \A k \in Bosses \ {n} : at'[k] = at[k]
          /\ at'[n].main = at[n].main /\ at'[n].sender = "dead"
      <4>1. "dead" \in PlacesOf("sender")
        BY DEF PlacesOf, SenderPlaces
      <4> QED BY <1>0, <2>3, <4>1, Moved DEF Threads
    <3>2. <<>> \in Seq(Conns \X Notices)
      OBVIOUS
    <3> QED BY <1>0, <2>3, <3>1, <3>2 DEF QueueType
  <2> QED BY <2>1, <2>2, <2>3 DEF Get
<1>3. BookType' /\ Others(n)
  BY <1>0, <1>1, <1>2 DEF BookType, Others, ConnsOf, Of
<1>4. InOrder(n)'
  BY <1>0, <1>1, <1>2 DEF InOrder
<1>5. Closes(n) /\ Mails(n, mail, mail')
  BY <1>0, <1>1, ClosesNone, MailsSame
<1>6. Mild(n)
  <2>1. (Alive(n)' => Alive(n)) /\ (Parting(n)' => Parting(n))
    BY <1>0, <1>2 DEF Alive, Parting
  <2> QED BY <1>1, <1>2, <1>3, <1>5, <2>1 DEF Mild
<1> QED BY <1>1, <1>2, <1>3, <1>4, <1>5, <1>6, MildStep, TypedQueue

\* It sends, notices a loss, or dies of a broken pipe.
LEMMA SendKeeps ==
    ASSUME IInv, NEW n \in Bosses, Send(n)
    PROVE  NodeStep(n) /\ Typed'
<1>0. /\ PlaceType /\ BookType /\ QueueType /\ WireType /\ InOrder(n) /\ at[n].sender = "send"
      /\ outgoing[n] \in Seq(Conns \X Notices) /\ outgoing[n] # <<>> /\ mail \in Wires
      /\ system \in Systems
  BY Facts DEF Send, QueueType
<1>1. PICK x \in Conns, m \in Notices : Head(outgoing[n]) = <<x, m>>
  BY <1>0
<1>2. /\ UNCHANGED <<system, events, running, members>>
      /\ outgoing' = [outgoing EXCEPT ![n] = Tail(@)]
  BY DEF Send, process
<1>3. /\ outgoing' \in [Bosses -> Seq(Conns \X Notices)]
      /\ \A k \in Bosses \ {n} : outgoing'[k] = outgoing[k]
  <2> DEFINE q == Tail(outgoing[n])
  <2>1. q \in Seq(Conns \X Notices)
    BY <1>0
  <2>2. outgoing' = [outgoing EXCEPT ![n] = q]
    BY <1>2
  <2> HIDE DEF q
  <2> QED BY <1>0, <2>1, <2>2 DEF QueueType
<1>4. CASE mail' = Delivered(mail, n, x, m) /\ Goto(n, "sender", "get") /\ UNCHANGED <<watched, open>>
  <2>1. /\ PlaceType' /\ \A k \in Bosses \ {n} : at'[k] = at[k]
        /\ at'[n].main = at[n].main /\ at'[n].sender = "get"
    <3>1. "get" \in PlacesOf("sender")
      BY DEF PlacesOf, SenderPlaces
    <3> QED BY <1>0, <1>4, <3>1, Moved DEF Threads
  <2>2. BookType' /\ Others(n)
    BY <1>0, <1>2, <1>4, <2>1 DEF BookType, Others, ConnsOf, Of
  <2>3. InOrder(n)' /\ QueueType'
    BY <1>0, <1>2, <1>3, <2>1 DEF InOrder, QueueType
  <2>4. /\ Closes(n) /\ Mails(n, mail, mail')
        /\ \A y \in Conns : Range(mail[y].far) \subseteq Range(mail'[y].far)
        /\ \A y \in Conns \ {n} : mail'[y].near = mail[y].near
    <3>1. LET q == Delivered(mail, n, x, m)
          IN  /\ q \in Wires /\ Mails(n, mail, q)
              /\ \A y \in Conns : Range(mail[y].far) \subseteq Range(q[y].far)
              /\ \A y \in Conns \ {n} : q[y].near = mail[y].near
              /\ \A y \in Conns : y # x => q[y] = mail[y]
      BY <1>0, MailsSent
    <3>2. Closes(n)
      BY <1>0, <1>4, ClosesNone
    <3> QED BY <1>4, <3>1, <3>2
  <2>5. Mild(n)
    <3>1. (Alive(n)' => Alive(n)) /\ (Parting(n)' => Parting(n))
      BY <1>0, <2>1 DEF Alive, Parting
    <3>2. Subs(n) \subseteq Conns \ {n} /\ (n \in Managers => n \in Conns)
      BY <1>0, Trees DEF Subs, Conns
    <3> QED BY <1>2, <1>4, <2>1, <2>2, <2>4, <3>1, <3>2 DEF Mild
  <2> QED BY <1>2, <2>1, <2>2, <2>3, <2>4, <2>5, MildStep, TypedQueue
<1>5. CASE Open(n, x) /\ ~Hears(n, x) /\ Disconnect(n, "sender", x)
  <2>1. Taken(n)
    BY <1>0, <1>2 DEF Taken, BookType
  <2>2. x \in Subs(n) => ~open[x].far
    BY <1>0, <1>5, Trees DEF Subs, Hears, Theirs
  <2>3. /\ Mild(n) /\ InOrder(n)' /\ PlaceType' /\ BookType'
        /\ at'[n].sender # "send"
    <3>1. Mild(n) /\ InOrder(n)' /\ PlaceType' /\ BookType'
      BY <1>0, <1>5, <2>1, <2>2, DisconnectMild DEF Threads
    <3>2. at'[n].sender # "send"
      <4>1. CASE \E r \in {"except", "get"} : Enter(n, "sender", r)
        BY <1>0, <4>1, Entered DEF Threads
      <4>2. CASE Raise(n, "sender")
        BY <1>0, <4>2, Raised DEF Threads
      <4>3. CASE Goto(n, "sender", "get")
        <5>1. "get" \in PlacesOf("sender")
          BY DEF PlacesOf, SenderPlaces
        <5> QED BY <1>0, <4>3, <5>1, Moved DEF Threads
      <4> QED BY <1>5, <4>1, <4>2, <4>3 DEF Disconnect
    <3> QED BY <3>1, <3>2
  <2>4. QueueType'
    BY <1>0, <1>3, <2>3 DEF QueueType, Mild, Others
  <2> QED BY <2>3, <2>4, MildStep, TypedQueue DEF Mild
<1>6. CASE Raise(n, "sender") /\ UNCHANGED <<watched, open, mail>>
  <2>1. /\ PlaceType' /\ \A k \in Bosses \ {n} : at'[k] = at[k]
        /\ at'[n].main = at[n].main /\ at'[n].sender = "dead"
    BY <1>0, <1>6, Raised DEF Threads
  <2>2. BookType' /\ Others(n)
    BY <1>0, <1>2, <1>6, <2>1 DEF BookType, Others, ConnsOf, Of
  <2>3. InOrder(n)' /\ QueueType'
    BY <1>0, <1>2, <1>3, <2>1 DEF InOrder, QueueType
  <2>4. Closes(n) /\ Mails(n, mail, mail')
    BY <1>0, <1>6, ClosesNone, MailsSame
  <2>5. Mild(n)
    <3>1. (Alive(n)' => Alive(n)) /\ (Parting(n)' => Parting(n))
      BY <1>0, <2>1 DEF Alive, Parting
    <3> QED BY <1>2, <1>6, <2>1, <2>2, <2>4, <3>1 DEF Mild
  <2> QED BY <1>2, <2>1, <2>2, <2>3, <2>4, <2>5, MildStep, TypedQueue
<1> QED BY <1>1, <1>4, <1>5, <1>6 DEF Send

\* The process is killed: the invariant asks nothing of it any more.
LEMMA KilledKeeps ==
    ASSUME IInv, NEW n \in Bosses, Killed(n)
    PROVE  NodeStep(n) /\ Typed'
<1>0. PlaceType /\ BookType /\ QueueType /\ WireType
  BY Facts
<1>1. /\ UNCHANGED <<system, back, events, running, watched>>
      /\ at' = [at EXCEPT ![n] = [main |-> "killed", sender |-> "dead"]]
      /\ members' = [members EXCEPT ![n] = {}] /\ outgoing' = [outgoing EXCEPT ![n] = <<>>]
  BY DEF Killed, Fault
<1>2. /\ PlaceType' /\ \A k \in Bosses \ {n} : at'[k] = at[k]
      /\ at'[n].main = "killed" /\ at'[n].sender = "dead"
  <2> DEFINE a == [main |-> "killed", sender |-> "dead"]
  <2>1. a \in Places /\ a.main = "killed" /\ a.sender = "dead"
    BY DEF Places, MainPlaces, SenderPlaces
  <2>2. at' = [at EXCEPT ![n] = a]
    BY <1>1
  <2> HIDE DEF a
  <2> QED BY <1>0, <1>1, <2>1, <2>2 DEF PlaceType
<1>3. BookType' /\ Others(n)
  BY <1>0, <1>1, <1>2 DEF BookType, Others, ConnsOf, Of
<1>4. QueueType'
  <2>1. <<>> \in Seq(Conns \X Notices)
    OBVIOUS
  <2> QED BY <1>0, <1>1, <1>2, <2>1 DEF QueueType
<1>5. Closes(n) /\ Mails(n, mail, mail')
  <2> DEFINE X == ConnsOf(n)
  <2>1. X \subseteq ConnsOf(n) /\ Closing(n, X)
    BY DEF Killed
  <2> HIDE DEF X
  <2>2. Shut(n, X)
    BY <1>0, <2>1, Closed, Zenon
  <2> QED BY <2>2 DEF Shut
<1>6. Own(n)
  <2>1. n \in Managers /\ Told(n) => Told(n)'
    BY <1>2 DEF Told
  <2>2. ~Alive(n)' /\ InOrder(n)'
    BY <1>2 DEF Alive, InOrder
  <2> QED BY <1>1, <2>1, <2>2 DEF Own
<1> QED BY <1>1, <1>2, <1>3, <1>4, <1>5, <1>6, TypedQueue DEF NodeStep

----------------------------------------------------------------------------
(* Workers, the client, and the theorems.                                  *)

\* A step of a worker or of the client: the nodes and the connections of
\* managers are as they were, and no worker comes back to life.
Outside ==
    /\ UNCHANGED node /\ system' = system /\ WireType'
    /\ \A m \in Managers : open'[m] = open[m] /\ mail'[m] = mail[m]
    /\ \A w \in Workers : Dead(w) => Dead(w)'

\* What workers and the client do keeps the invariant.
LEMMA OutsideKeeps == ASSUME IInv, Outside PROVE IInv'
<1>0. /\ UNCHANGED <<system, at, back, events, running, members, watched, outgoing>>
      /\ system \in Systems
  BY DEF Outside, node, IInv, Typed
<1>1. Typed'
  BY <1>0 DEF IInv, Typed, PlaceType, BookType, QueueType, ConnsOf, Of, Outside
<1>2. ASSUME NEW n \in Bosses PROVE Orderly(n)'
  <2>1. Orderly(n) /\ Of(n)' = Of(n) /\ Subs(n)' = Subs(n) /\ (Alive(n)' <=> Alive(n)) /\ (Parting(n)' <=> Parting(n))
    BY <1>0 DEF IInv, Of, Subs, Alive, Parting
  <2>2. InOrder(n)'
    BY <1>0, <2>1 DEF Orderly, InOrder
  <2>3. \A m \in Managers : Told(m) => Told(m)'
    BY <1>0 DEF Told, Outside
  <2>4. ASSUME Alive(n) PROVE Waits(n)'
    <3>1. ASSUME NEW w \in Of(n) \cap system.spawned PROVE w \in members'[n] \/ Dead(w)'
      <4>1. w \in Workers
        BY <1>0, Trees
      <4>2. w \in members[n] \/ Dead(w)
        BY <2>1, <2>4 DEF Orderly, Waits
      <4> QED BY <1>0, <4>1, <4>2 DEF Outside
    <3> QED BY <1>0, <2>1, <3>1 DEF Waits
  <2>5. ASSUME Alive(n) PROVE Tells(n)'
    <3>1. Tells(n)
      BY <2>1, <2>5 DEF Orderly
    <3>2. \A m \in Subs(n) : m \in Managers /\ open'[m] = open[m]
      BY DEF Subs, Outside
    <3> QED BY <1>0, <2>1, <2>3, <3>1, <3>2 DEF Tells
  <2>6. ASSUME Alive(n) PROVE Heard(n)'
    <3>1. Heard(n)
      BY <2>1, <2>6 DEF Orderly
    <3>2. \A m \in Subs(n) : m \in Managers /\ open'[m] = open[m] /\ mail'[m] = mail[m]
      BY DEF Subs, Outside
    <3> QED BY <1>0, <2>1, <3>1, <3>2 DEF Heard
  <2> QED BY <2>1, <2>2, <2>4, <2>5, <2>6 DEF Orderly
<1> QED BY <1>1, <1>2 DEF IInv

\* One end of the connection of a worker or of the client changes.
LEMMA OneWire ==
    ASSUME IInv, NEW x \in Workers \cup {Client}, UNCHANGED node, system' = system,
           NEW o \in [near : BOOLEAN, far : BOOLEAN], open' = [open EXCEPT ![x] = o],
           NEW q \in [near : Seq(Notices), far : Seq(Notices)], mail' = [mail EXCEPT ![x] = q],
           o.far => open[x].far
    PROVE  IInv'
<1>1. x \in Conns /\ x \notin Managers
  BY NamesAssumption DEF Conns, Bosses
<1>2. WireType /\ Managers \cup Workers \subseteq Conns
  BY DEF IInv, Typed, Conns
<1>3. WireType' /\ \A y \in Conns : /\ y # x => open'[y] = open[y] /\ mail'[y] = mail[y]
                                    /\ y = x => open'[y] = o
  BY <1>1, <1>2 DEF WireType
<1>4. Outside
  BY <1>1, <1>2, <1>3 DEF Outside, Dead
<1> QED BY <1>4, OutsideKeeps

\* The state of one connection.
LEMMA Wire ==
    ASSUME IInv, NEW x \in Conns
    PROVE  /\ open[x] \in [near : BOOLEAN, far : BOOLEAN]
           /\ mail[x] \in [near : Seq(Notices), far : Seq(Notices)]
           /\ open = [open EXCEPT ![x] = open[x]] /\ mail = [mail EXCEPT ![x] = mail[x]]
BY DEF IInv, Typed, WireType

\* A worker or the client ends, with or without a last word.
LEMMA DiedKeeps ==
    ASSUME IInv, NEW w \in Workers \cup {Client}, UNCHANGED node, system' = system,
           NEW s \in Seq(Notices), Died(w, [mail EXCEPT ![w].near = s])
    PROVE  IInv'
<1>1. w \in Conns
  BY DEF Conns
<1>2. open[w] \in [near : BOOLEAN, far : BOOLEAN] /\ mail[w] \in [near : Seq(Notices), far : Seq(Notices)]
  BY <1>1, Wire
<1> DEFINE o == [open[w] EXCEPT !.far = FALSE]
           q == [[mail[w] EXCEPT !.near = s] EXCEPT !.far = <<>>]
<1>3. o \in [near : BOOLEAN, far : BOOLEAN] /\ (o.far => open[w].far)
  BY <1>2
<1>4. q \in [near : Seq(Notices), far : Seq(Notices)]
  <2> DEFINE p == [mail[w] EXCEPT !.near = s]
  <2>1. <<>> \in Seq(Notices) /\ p \in [near : Seq(Notices), far : Seq(Notices)]
    BY <1>2
  <2> HIDE DEF p
  <2>2. [p EXCEPT !.far = <<>>] \in [near : Seq(Notices), far : Seq(Notices)]
    BY <2>1
  <2> QED BY <2>2 DEF p
<1>5. open' = [open EXCEPT ![w] = o]
  BY DEF Died
<1>6. mail' = [mail EXCEPT ![w] = q]
  <2>1. mail' = [[mail EXCEPT ![w].near = s] EXCEPT ![w].far = <<>>] /\ DOMAIN mail = Conns
    BY DEF Died, IInv, Typed, WireType
  <2> QED BY <1>1, <2>1
<1> HIDE DEF o, q
<1> QED BY <1>3, <1>4, <1>5, <1>6, OneWire

\* A worker reads a message, or ends.
LEMMA WorkerReadsKeeps == ASSUME IInv, NEW w \in Workers, WorkerReads(w) PROVE IInv'
<1>1. w \in Conns /\ UNCHANGED node /\ system' = system
  BY DEF Conns, WorkerReads, process
<1>2. /\ open[w] \in [near : BOOLEAN, far : BOOLEAN]
      /\ mail[w] \in [near : Seq(Notices), far : Seq(Notices)]
      /\ open = [open EXCEPT ![w] = open[w]] /\ mail = [mail EXCEPT ![w].near = mail[w].near]
  BY <1>1 DEF IInv, Typed, WireType
<1>3. CASE Died(w, mail)
  BY <1>1, <1>2, <1>3, DiedKeeps
<1>4. CASE mail[w].far # <<>> /\ mail' = [mail EXCEPT ![w].far = Tail(@)] /\ UNCHANGED open
  <2> DEFINE o == open[w]
             q == [mail[w] EXCEPT !.far = Tail(mail[w].far)]
  <2>1. q \in [near : Seq(Notices), far : Seq(Notices)]
    <3> DEFINE s == Tail(mail[w].far)
    <3>1. s \in Seq(Notices)
      BY <1>2, <1>4
    <3> HIDE DEF s
    <3>2. [mail[w] EXCEPT !.far = s] \in [near : Seq(Notices), far : Seq(Notices)]
      BY <1>2, <3>1
    <3> QED BY <3>2 DEF s
  <2>2. mail' = [mail EXCEPT ![w] = q]
    BY <1>4
  <2>3. o \in [near : BOOLEAN, far : BOOLEAN] /\ open' = [open EXCEPT ![w] = o] /\ (o.far => open[w].far)
    BY <1>2, <1>4
  <2> HIDE DEF q, o
  <2> QED BY <1>1, <2>1, <2>2, <2>3, OneWire
<1> QED BY <1>3, <1>4 DEF WorkerReads

\* A worker is killed, or its loop raises.
LEMMA WorkerFailsKeeps == ASSUME IInv, NEW w \in Workers, WorkerFails(w) PROVE IInv'
<1>1. w \in Conns /\ UNCHANGED node /\ system' = system
  BY DEF Conns, WorkerFails, Fault
<1>2. /\ mail[w] \in [near : Seq(Notices), far : Seq(Notices)]
      /\ mail = [mail EXCEPT ![w].near = mail[w].near]
  BY <1>1 DEF IInv, Typed, WireType
<1>3. CASE Died(w, mail)
  BY <1>1, <1>2, <1>3, DiedKeeps
<1>4. CASE Died(w, [mail EXCEPT ![w].near = Append(@, "ERROR")])
  <2> DEFINE s == Append(mail[w].near, "ERROR")
  <2>1. s \in Seq(Notices)
    BY <1>2 DEF Notices
  <2>2. Died(w, [mail EXCEPT ![w].near = s])
    BY <1>4
  <2> HIDE DEF s
  <2> QED BY <1>1, <2>1, <2>2, DiedKeeps
<1> QED BY <1>3, <1>4 DEF WorkerFails

\* The client leaves, or a worker or the client speaks.
LEMMA ClientKeeps ==
    ASSUME IInv, ClientLeaves \/ \E x \in Conns : Speaks(x)
    PROVE  IInv'
<1>1. CASE ClientLeaves
  <2>1. Client \in Conns /\ UNCHANGED node /\ system' = system
    BY <1>1 DEF Conns, ClientLeaves, process
  <2>2. /\ mail[Client] \in [near : Seq(Notices), far : Seq(Notices)]
        /\ mail = [mail EXCEPT ![Client].near = mail[Client].near]
    BY <2>1 DEF IInv, Typed, WireType
  <2>3. Died(Client, mail)
    BY <1>1 DEF ClientLeaves, Died
  <2> QED BY <2>1, <2>2, <2>3, DiedKeeps
<1>2. ASSUME NEW x \in Conns, Speaks(x) PROVE IInv'
  <2>1. x \in Workers \cup {Client} /\ UNCHANGED node /\ system' = system
    BY <1>2 DEF Speaks
  <2>2. open[x] \in [near : BOOLEAN, far : BOOLEAN] /\ mail[x] \in [near : Seq(Notices), far : Seq(Notices)]
        /\ open = [open EXCEPT ![x] = open[x]]
    BY <1>2, Wire
  <2> DEFINE o == open[x]
             q == [mail[x] EXCEPT !.near = Append(mail[x].near, "work")]
  <2>3. q \in [near : Seq(Notices), far : Seq(Notices)]
    <3>1. mail[x].near \in Seq(Notices) /\ mail[x].far \in Seq(Notices) /\ "work" \in Notices
      BY <2>2 DEF Notices
    <3> DEFINE s == Append(mail[x].near, "work")
    <3>2. s \in Seq(Notices)
      BY <3>1
    <3> HIDE DEF s
    <3>3. [mail[x] EXCEPT !.near = s] \in [near : Seq(Notices), far : Seq(Notices)]
      BY <2>2, <3>2
    <3> QED BY <3>3 DEF s
  <2>4. mail' = [mail EXCEPT ![x] = q]
    BY <1>2 DEF Speaks
  <2>5. o \in [near : BOOLEAN, far : BOOLEAN] /\ open' = [open EXCEPT ![x] = o] /\ (o.far => open[x].far)
    BY <1>2, <2>2 DEF Speaks
  <2> HIDE DEF q, o
  <2> QED BY <2>1, <2>3, <2>4, <2>5, OneWire
<1> QED BY <1>1, <1>2

\* The invariant holds when the tree has been set up.
LEMMA InitHolds == Init => IInv
<1> SUFFICES ASSUME Init PROVE IInv
  OBVIOUS
<1>1. PlaceType
  <2>1. \A n \in Bosses : at[n] \in Places /\ back[n] \in Returns
    BY DEF Init, Places, MainPlaces, SenderPlaces, Returns
  <2> QED BY <2>1 DEF Init, PlaceType
<1>2. BookType
  BY DEF Init, BookType
<1>3. QueueType
  <2>1. \A n \in Bosses : at[n].sender # "send"
    BY DEF Init
  <2> QED BY <2>1 DEF Init, QueueType
<1>4. WireType
  BY DEF Init, WireType
<1>5. ASSUME NEW n \in Bosses PROVE Orderly(n)
  <2>1. /\ at[n].main = (IF n \in Present THEN "events" ELSE "over")
        /\ at[n].sender = (IF n \in Present THEN "get" ELSE "dead")
        /\ members[n] = Of(n) /\ events[n] = {} /\ (n \notin Present => Of(n) = {})
    BY DEF Init, Present
  <2>2. InOrder(n)
    BY <2>1 DEF InOrder
  <2>3. Waits(n) /\ Heard(n)
    BY <2>1 DEF Waits, Heard
  <2>4. Tells(n)
    <3>1. ~Parting(n)
      BY <2>1 DEF Parting
    <3>2. \A m \in Subs(n) : open[m].near
      BY DEF Init, Subs, Conns
    <3> QED BY <3>1, <3>2 DEF Tells
  <2> QED BY <2>2, <2>3, <2>4 DEF Orderly
<1> QED BY <1>1, <1>2, <1>3, <1>4, <1>5 DEF IInv, Typed, Init

\* Every step keeps the invariant.
LEMMA NextKeeps == IInv /\ [Next]_vars => IInv'
<1> SUFFICES ASSUME IInv, [Next]_vars PROVE IInv'
  OBVIOUS
<1>0. ASSUME NEW n \in Bosses, NodeStep(n), Typed' PROVE IInv'
  BY <1>0, NodeKeeps DEF IInv
<1>1. ASSUME NEW n \in Bosses, Main(n) PROVE IInv'
  <2>1. NodeStep(n) /\ Typed'
    <3>1. ASSUME NEW x \in Conns,
                 Lost(n, x) \/ HandleWork(n, x) \/ HandleShutdown(n, x) \/ HandleError(n, x)
          PROVE  NodeStep(n) /\ Typed'
      BY <3>1, LostKeeps, HandleWorkKeeps, HandleShutdownKeeps, HandleErrorKeeps
    <3>2. "main" \in Threads
      BY DEF Threads
    <3> QED BY <1>1, <3>1, <3>2, LoopKeeps, SelectKeeps, SignalledKeeps, ExceptKeeps,
               TellKeeps, PartKeeps, LeaveKeeps DEF Main
  <2> QED BY <1>0, <2>1
<1>2. ASSUME NEW n \in Bosses, Sender(n) PROVE IInv'
  <2>1. "sender" \in Threads
    BY DEF Threads
  <2>2. NodeStep(n) /\ Typed'
    BY <1>2, <2>1, GetKeeps, SendKeeps, TellKeeps, PartKeeps, JoinsItselfKeeps DEF Sender
  <2> QED BY <1>0, <2>2
<1>3. ASSUME NEW n \in Bosses, Interrupt(n) \/ Killed(n) \/ \E x \in Conns : HandlerFails(n, x)
      PROVE  IInv'
  <2>1. NodeStep(n) /\ Typed'
    BY <1>3, InterruptKeeps, KilledKeeps, HandlerFailsKeeps
  <2> QED BY <1>0, <2>1
<1>4. ASSUME NEW w \in Workers, WorkerReads(w) \/ WorkerFails(w) PROVE IInv'
  BY <1>4, WorkerReadsKeeps, WorkerFailsKeeps
<1>5. CASE ClientLeaves \/ \E x \in Conns : Speaks(x)
  BY <1>5, ClientKeeps
<1>6. CASE UNCHANGED vars
  BY <1>6 DEF vars, process, node, IInv, Typed, PlaceType, BookType, QueueType, WireType,
              Orderly, InOrder, Alive, Waits, Tells, Heard, Parting, Told, Dead, Subs, ConnsOf, Of
<1> QED BY <1>1, <1>2, <1>3, <1>4, <1>5, <1>6 DEF Next

\* Every step keeps the books of every node in order: the order of the calls
\* of handle_shutdown, a spawned worker in the list until it is dead, a manager
\* told before its connection is closed.
THEOREM OrderHolds == Spec => []IInv
BY InitHolds, NextKeeps, PTL DEF Spec

\* A node that is over has left no spawned worker and no sending thread
\* behind, and no manager without word (base.py, handle_shutdown).
THEOREM NothingLeftHolds == Spec => []NothingLeft
<1>1. IInv => NothingLeft
  <2> SUFFICES ASSUME IInv PROVE NothingLeft
    OBVIOUS
  <2>1. ASSUME NEW n \in Present PROVE n \in Bosses /\ Orderly(n)
    BY DEF IInv, Present
  <2>2. ASSUME NEW n \in Present, at[n].main = "over"
        PROVE  at[n].sender = "dead" /\ \A w \in Of(n) \cap system.spawned : Dead(w)
    BY <2>1, <2>2 DEF Orderly, InOrder, Alive, Waits
  <2>3. ASSUME NEW n \in Present, at[n].main # "killed",
               NEW m \in Of(n) \cap Managers, ~open[m].near
        PROVE  Told(m)
    BY <2>1, <2>3 DEF Orderly, Alive, Tells, Subs
  <2> QED BY <2>2, <2>3 DEF NothingLeft
<1> QED BY <1>1, OrderHolds, PTL
=============================================================================
