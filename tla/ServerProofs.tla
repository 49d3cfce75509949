---------------------------- MODULE ServerProofs ----------------------------
(***************************************************************************)
(* Proofs about Server, for every set of clients and every finite set of   *)
(* tasks, fragile workers or not:                                          *)
(*   - the type invariant (mailbox ids stay below mailbox_counter);        *)
(*   - BooksAgree: the four dictionaries agree until the server is down,   *)
(*     after every message and every statement of the sending thread, but  *)
(*     for the client that this thread forgets;                            *)
(*   - ClientsServed, for careful clients: no KeyError but in a race with  *)
(*     the sending thread, one reply to each call, no result lost, and a   *)
(*     true note of who waits.                                             *)
(*                                                                         *)
(* BooksAgree alone is not inductive.  handle_new_comp_task overwrites     *)
(* tasks[t], so the steps need that a SUBMIT on its way names a task the   *)
(* server has never seen (Drawn, from uuid4); handle_disconnect removes a  *)
(* client's entry, so they need that the server handles messages of its    *)
(* clients only (Links); and the sending thread, in the middle of it,      *)
(* needs that the tasks it has yet to visit are those left to forget       *)
(* (Torn).  The proof first reduces the actions to a few effects on the    *)
(* dictionaries (Effect), then proves each once.                           *)
(*                                                                         *)
(* Nor is ClientsServed.  That a lookup succeeds depends on what the       *)
(* client has asked, which depends on what it has been told: Served says   *)
(* of each client where its question or its answer is (Net), and of each   *)
(* task it submitted where its result is (Book).  A step is about one      *)
(* client and one task; it leaves the others as they were (Stays,          *)
(* TaskSame), and these lemmas leave one case for each action.             *)
(***************************************************************************)
EXTENDS Server, DataLemmas, SequenceTheorems, FiniteSetTheorems, TLAPS

-----------------------------------------------------------------------------
(* Sequences and dictionaries.                                             *)

\* Taking the head of a non-empty queue keeps the type of both parts.
LEMMA HeadTail ==
    ASSUME NEW S, NEW s \in Seq(S), s # <<>>
    PROVE  Head(s) \in S /\ Tail(s) \in Seq(S)
BY HeadTailProperties

\* Appending an element of S keeps a sequence over S.
LEMMA AppendIn ==
    ASSUME NEW S, NEW s \in Seq(S), NEW e \in S
    PROVE  Append(s, e) \in Seq(S)
BY AppendProperties

\* A message added to, or taken from, one connection keeps the types of all.
LEMMA DownAppend ==
    ASSUME down \in [Clients -> Seq(ToClient)], NEW c \in Clients, NEW m \in ToClient
    PROVE  [down EXCEPT ![c] = Append(@, m)] \in [Clients -> Seq(ToClient)]
BY AppendIn

\* A message taken from one connection leaves the types of the others.
LEMMA DownTail ==
    ASSUME down \in [Clients -> Seq(ToClient)], NEW c \in Clients, down[c] # <<>>
    PROVE  /\ Head(down[c]) \in ToClient
           /\ [down EXCEPT ![c] = Tail(@)] \in [Clients -> Seq(ToClient)]
BY HeadTail

\* The same for the messages to the server.
LEMMA UpAppend ==
    ASSUME up \in [Clients -> Seq(AsksOf)], NEW c \in Clients, NEW m \in AsksOf
    PROVE  [up EXCEPT ![c] = Append(@, m)] \in [Clients -> Seq(AsksOf)]
BY AppendIn

\* And a message taken by the server.
LEMMA UpTail ==
    ASSUME up \in [Clients -> Seq(AsksOf)], NEW c \in Clients, up[c] # <<>>
    PROVE  /\ Head(up[c]) \in AsksOf
           /\ [up EXCEPT ![c] = Tail(@)] \in [Clients -> Seq(AsksOf)]
BY HeadTail

\* What a handler puts in the outgoing queue is a message for a client.
LEMMA OutAppend ==
    ASSUME outgoing \in Seq(Addressed), NEW c \in Clients, NEW t \in Tasks \cup {None},
           NEW type \in Replies \cup Reports, Enqueue(c, type, t)
    PROVE  outgoing' \in Seq(Addressed)
<1>1. To(c, type, t) \in Addressed
  BY DEF To, Msg, Addressed, ToClient
<1> QED
  BY <1>1, AppendIn DEF Enqueue

-----------------------------------------------------------------------------
\* The types hold initially.
LEMMA InitType == Init => TypeOK
<1> SUFFICES ASSUME Init PROVE TypeOK
  OBVIOUS
<1>1. BooksType
  BY DEF Init, BooksType, NoEntry
<1>2. NetType
  BY DEF Init, NetType
<1>3. ClientType
  BY DEF Init, ClientType, NoCall
<1>4. ThreadType
  BY DEF Init, ThreadType, Sending
<1> QED
  BY <1>1, <1>2, <1>3, <1>4 DEF TypeOK

-----------------------------------------------------------------------------
(* The client's variables.                                                 *)

\* The value of call while the client is in none is of its type.
LEMMA NoCallType ==
    NoCall \in [want : Replies \cup {None}, task : Tasks \cup {None}, drain : BOOLEAN]
BY DEF NoCall

\* Dropping the connection keeps the types of the client.
LEMMA LeaveType ==
    ASSUME ClientType, NEW c \in Clients, Leave(c)
    PROVE  ClientType'
BY NoCallType DEF ClientType, Leave, program

\* Starting to wait for a reply keeps the types of the client.
LEMMA AwaitType ==
    ASSUME ClientType, NEW c \in Clients, NEW t \in Tasks \cup {None},
           NEW want \in Replies, NEW drain \in BOOLEAN,
           Await(c, want, t, drain), sub' = sub
    PROVE  ClientType'
BY DEF ClientType, Await

\* Every step keeps the types of the client's variables.
LEMMA ClientTypeStep == TypeOK /\ [Next]_vars => ClientType'
<1> SUFFICES ASSUME TypeOK, [Next]_vars PROVE ClientType'
  OBVIOUS
<1> USE NoCallType DEF TypeOK
<1>1. ASSUME UNCHANGED client PROVE ClientType'
  BY <1>1 DEF ClientType, client, program
<1>2. ASSUME NEW c \in Clients, HandleClient(c) PROVE UNCHANGED client
  BY <1>2 DEF HandleClient, HandleConnect, HandleDisconnect, HandleEOF,
       HandleSubmit, HandleRequest, HandleStatus, HandleCancel, HandleClosed,
       OvertakenAsk, Read, Turn
<1>3. ASSUME WorkerMessage PROVE UNCHANGED client
  BY <1>3 DEF WorkerMessage, HandleResult, HandleReport, OvertakenReport,
       HandleSystemError, Report
<1>4. ASSUME Select \/ SenderStep \/ Shutdown PROVE UNCHANGED client
  BY <1>4 DEF Select, SenderStep, Shutdown
<1>5. ASSUME NEW c \in Clients, Accept(c) PROVE UNCHANGED client
  BY <1>5 DEF Accept
<1>6. ASSUME NEW c \in Clients, Calls(c) PROVE ClientType'
  <2>1. CASE Connect(c)
    BY <2>1, AwaitType DEF Connect, Replies
  <2>2. CASE CallFails(c)
    BY <2>2, LeaveType DEF CallFails
  <2>8. CASE Die(c)
    BY <2>8, LeaveType DEF Die
  <2>3. CASE Close(c)
    <3>1. CASE link[c] = "closed"
      BY <2>3, <3>1, LeaveType DEF Close
    <3>2. CASE link[c] # "closed"
      BY <2>3, <3>2 DEF Close, ClientType, program
    <3> QED
      BY <3>1, <3>2
  <2>4. ASSUME NEW t \in Tasks, Submit(c, t) PROVE ClientType'
    BY <2>4 DEF Submit, ClientType
  <2>5. ASSUME NEW t \in Tasks, Status(c, t) PROVE ClientType'
    BY <2>5, AwaitType DEF Status, Replies
  <2>6. ASSUME NEW t \in Tasks, CancelTask(c, t) PROVE ClientType'
    BY <2>6, AwaitType DEF CancelTask, Replies
  <2>7. ASSUME NEW t \in Tasks, NEW drain \in BOOLEAN, Result(c, t, drain)
        PROVE  ClientType'
    BY <2>7, AwaitType DEF Result, Replies
  <2> QED
    BY <1>6, <2>1, <2>2, <2>3, <2>4, <2>5, <2>6, <2>7, <2>8 DEF Calls
<1>7. ASSUME NEW c \in Clients, Receives(c) PROVE ClientType'
  <2>0. down \in [Clients -> Seq(ToClient)]
    BY DEF NetType
  <2>1. CASE Recv(c)
    <3>1. Head(down[c]) \in ToClient
      BY <2>0, <2>1, DownTail DEF Recv
    <3>2. CASE First(c).type = "ERROR"
      BY <2>1, <3>2, LeaveType DEF Recv
    <3>3. CASE First(c).type # "ERROR"
      <4>1. reply' = reply \/ reply' = [reply EXCEPT ![c] = Head(down[c])]
        BY <2>1, <3>3 DEF Recv, First
      <4>2. reply' \in [Clients -> ToClient \cup {None}]
        BY <4>1, <3>1 DEF ClientType
      <4> QED
        BY <2>1, <3>3, <4>2 DEF Recv, ClientType, program
    <3> QED
      BY <3>2, <3>3
  <2>2. CASE RecvEOF(c)
    BY <2>2, LeaveType DEF RecvEOF
  <2>3. CASE Return(c)
    <3>1. over' \subseteq Tasks \cup {None}
      BY <2>3 DEF Return, ClientType
    <3>2. /\ at' = [at EXCEPT ![c] = "drain"] \/ at' = [at EXCEPT ![c] = "idle"]
          /\ call' = call \/ call' = [call EXCEPT ![c] = NoCall]
      BY <2>3 DEF Return, Idle
    <3>3. /\ at' \in [Clients -> {"off", "idle", "wait", "drain", "closing", "gone"}]
          /\ call' \in [Clients -> [want : Replies \cup {None},
                                    task : Tasks \cup {None}, drain : BOOLEAN]]
      BY <3>2, SMTT(30) DEF ClientType
    <3>4. /\ reply' = [reply EXCEPT ![c] = None]
          /\ UNCHANGED <<sub, dropped, raised>>
      BY <2>3 DEF Return
    <3>5. reply' \in [Clients -> ToClient \cup {None}]
      BY <3>4 DEF ClientType
    <3> QED
      BY <3>1, <3>3, <3>4, <3>5 DEF ClientType
  <2>4. CASE Drained(c)
    BY <2>4 DEF Drained, Idle, ClientType, program
  <2>5. CASE DrainRaises(c)
    <3>1. down[c] # <<>> => Head(down[c]).task \in Tasks \cup {None}
      BY <2>0, DownTail DEF ToClient
    <3>2. call[c].task \in Tasks \cup {None}
      BY DEF ClientType
    <3>3. /\ dropped' = dropped \/ dropped' = dropped \cup {call[c].task}
          /\ \/ raised' = raised
             \/ down[c] # <<>> /\ raised' = raised \cup {Head(down[c]).task}
      BY <2>5 DEF DrainRaises, First
    <3>4. dropped' \subseteq Tasks \cup {None} /\ raised' \subseteq Tasks \cup {None}
      BY <3>1, <3>2, <3>3 DEF ClientType
    <3> QED
      BY <2>5, <3>4 DEF DrainRaises, Idle, ClientType
  <2>6. CASE Closed(c)
    BY <2>6, LeaveType DEF Closed
  <2> QED
    BY <1>7, <2>1, <2>2, <2>3, <2>4, <2>5, <2>6 DEF Receives
<1>8. CASE UNCHANGED vars
  BY <1>1, <1>8 DEF vars
<1> QED
  BY <1>1, <1>2, <1>3, <1>4, <1>5, <1>6, <1>7, <1>8 DEF Next

-----------------------------------------------------------------------------
(* What a step does to the dictionaries and connections.                   *)

\* What the handlers of requests, results and cancels leave alone.
Rest == <<srv, tasks, boxTask, boxCounter, link>>

\* Each effect is what a group of actions does to the books and connections.
Connecting(c) ==
    /\ at'[c] # "off" /\ link' = [link EXCEPT ![c] = "pending"]
    /\ link[c] = "none" /\ UNCHANGED <<srv, books>>

Accepting(c) ==
    /\ link[c] = "pending" /\ link' = [link EXCEPT ![c] = "open"]
    /\ clients' = Put(clients, c, {})
    /\ UNCHANGED <<srv, tasks, boxTask, mailboxes, boxCounter>>

\* The thread that handles messages forgets c.
Leaving(c) == link[c] = "open" /\ Forget(c)

Submitting(c, t) ==
    /\ srv = "running" /\ Held(c)
    /\ up[c] # <<>> /\ Head(up[c]) = Msg("SUBMIT", t)
    /\ boxCounter' = boxCounter + 1
    /\ tasks' = Put(tasks, t, [box |-> boxCounter, conn |-> c])
    /\ boxTask' = Put(boxTask, boxCounter, t)
    /\ mailboxes' = Put(mailboxes, boxCounter, [ready |-> FALSE, waiting |-> FALSE])
    /\ clients' = [clients EXCEPT ![c] = @ \cup {t}]
    /\ up' = [up EXCEPT ![c] = Tail(@)]
    /\ UNCHANGED <<srv, link, sub>>

Marking(b) ==
    /\ b \in DOMAIN mailboxes
    /\ \/ mailboxes' = [mailboxes EXCEPT ![b].waiting = TRUE]
       \/ mailboxes' = [mailboxes EXCEPT ![b].ready = TRUE]
    /\ UNCHANGED <<Rest, clients>>

\* The mailbox of task t is removed, and the task is no longer open.
Ending(t) ==
    /\ HasBox(t)
    /\ clients' = [clients EXCEPT ![tasks[t].conn] = @ \ {t}]
    /\ mailboxes' = Without(mailboxes, {tasks[t].box})
    /\ UNCHANGED Rest

Stopping ==
    /\ srv' = "down" /\ link' \in [Clients -> {"none", "pending", "open", "cut", "closed"}]
    /\ clients' = NoEntry /\ UNCHANGED <<tasks, boxTask, mailboxes, boxCounter, sender>>

\* What the steps of the other threads do.
MainEffect ==
    \/ UNCHANGED <<srv, books, link>>
    \/ srv = "running" /\ UNCHANGED <<books, link>>
    \/ \E c \in Clients : Connecting(c) \/ Accepting(c) \/ Leaving(c)
    \/ \E c \in Clients, t \in Tasks : Submitting(c, t)
    \/ \E b \in Nat : Marking(b)
    \/ \E t \in Tasks : Ending(t)

\* Every step has one of these effects (NextEffect).
Effect == Stopping \/ (MainEffect /\ sender' = sender) \/ SenderStep

\* The sending thread has closed the connection it forgets.
After == {"cancel", "collect", "forget", "unbox"}

\* The connections the server holds are those of its clients, but for the one
\* that the sending thread unregisters, closes and takes out of clients.
Links ==
    \A c \in Clients :
        /\ c \in DOMAIN clients <=> Held(c) \/ (sender.at = "pop" /\ sender.conn = c)
        /\ link[c] = "cut" <=> sender.at = "close" /\ sender.conn = c
        /\ sender.conn = c =>
              /\ sender.at \in After \cup {"pop", "dead"} => link[c] = "closed"
              /\ sender.at = "unregister" => link[c] \in {"open", "closed"}
        /\ at[c] = "off" => link[c] = "none"

\* What the sending thread has yet to do accounts for what the dictionaries
\* still hold of the client it forgets: first its mailboxes, then its tasks,
\* then the mailbox id of the last one.
Torn ==
    /\ sender.at \in {"get", "send"} => sender.conn = None
    /\ sender.at \notin {"get", "send", "dead"} => sender.conn \in Clients
    /\ sender.at # "unbox" => sender.box = None
    /\ sender.at = "unbox" =>
          /\ sender.box \in Nat /\ sender.box < boxCounter
          /\ \A t \in DOMAIN tasks : tasks[t].box # sender.box
    /\ sender.at = "cancel" =>
          /\ sender.tasks \subseteq TasksOf(sender.conn)
          /\ \A t \in TasksOf(sender.conn) : HasBox(t) => t \in sender.tasks
    /\ sender.at \in {"collect", "forget", "unbox"} =>
          \A t \in TasksOf(sender.conn) : ~HasBox(t)
    /\ sender.at \in {"forget", "unbox"} => sender.tasks = TasksOf(sender.conn)

\* A submission on its way is of a task the server has never seen, and of one
\* its client has drawn; no two are of the same task.
Submission(c, i, t) == i \in DOMAIN up[c] /\ up[c][i] = Msg("SUBMIT", t)

Drawn ==
    /\ \A t \in DOMAIN tasks : \E c \in Clients : t \in sub[c]
    /\ \A c \in Clients, i \in Nat, t \in Tasks :
          Submission(c, i, t) => t \in sub[c] /\ t \notin DOMAIN tasks
    /\ \A c, d \in Clients, i, j \in Nat, t \in Tasks :
          Submission(c, i, t) /\ Submission(d, j, t) => c = d /\ i = j

\* What the dictionaries, connections and queues have in common.
Agree == OpenTasks /\ TasksKnown /\ BoxesKnown /\ Links /\ Torn /\ Drawn

\* The inductive invariant: the dictionaries need not agree once all is closed.
IInv == TypeOK /\ (srv # "down" => Agree)

\* These effects cover every step: the server stops itself,
LEMMA StopEffect ==
    ASSUME NEW why \in {"key error", "raced", "worker error"}, SystemError(why),
           srv = "running", sender' = sender
    PROVE  Effect
BY DEF SystemError, Effect, MainEffect

\* the disconnections,
LEMMA DisconnectEffect ==
    ASSUME NEW c \in Clients, Held(c), Disconnect(c), srv = "running", sender' = sender
    PROVE  Effect
<1>1. CASE Forget(c) /\ link[c] = "open"
  BY <1>1 DEF Leaving, Effect, MainEffect
<1>2. CASE KeyError \/ Raced
  BY <1>2, StopEffect DEF KeyError, Raced
<1> QED
  BY <1>1, <1>2 DEF Disconnect, Held

\* the messages of a client,
LEMMA ClientEffect ==
    ASSUME IInv, NEW c \in Clients, HandleClient(c)
    PROVE  Effect
<1>0. NetType /\ BooksType
  BY DEF IInv, TypeOK
<1>a. sender' = sender
  BY DEF HandleClient, HandleConnect, HandleDisconnect, HandleEOF, HandleSubmit,
     HandleRequest, HandleStatus, HandleCancel, HandleClosed, OvertakenAsk, Read, Turn
<1>b. MainEffect => Effect
  BY <1>a DEF Effect
<1>c. srv = "running"
  BY DEF HandleClient, HandleConnect, HandleDisconnect, HandleEOF, HandleSubmit,
     HandleRequest, HandleStatus, HandleCancel, HandleClosed, OvertakenAsk, Read, Turn
<1>1. CASE HandleConnect(c)
  BY <1>1, <1>b DEF HandleConnect, MainEffect
<1>2. CASE HandleDisconnect(c)
  BY <1>c, <1>a, <1>2, DisconnectEffect DEF HandleDisconnect, Read
<1>3. CASE HandleEOF(c)
  BY <1>c, <1>a, <1>3, DisconnectEffect DEF HandleEOF
<1>4. CASE HandleSubmit(c)
  <2>0. up \in [Clients -> Seq(AsksOf)]
    BY <1>0 DEF NetType
  <2>1. PICK t \in Tasks : Head(up[c]) = Msg("SUBMIT", t)
    <3>1. Head(up[c]) \in AsksOf /\ Head(up[c]).type = "SUBMIT"
      BY <2>0, <1>4, UpTail DEF HandleSubmit, Read
    <3> QED
      BY <3>1 DEF AsksOf, Msg
  <2>2. Asked(c) = t
    BY <2>1 DEF Asked, Msg
  <2>3. Submitting(c, t)
    BY <1>4, <2>1, <2>2 DEF HandleSubmit, Read, Turn, Submitting, client, program
  <2> QED
    BY <1>b, <2>3 DEF MainEffect
<1>5. CASE HandleRequest(c)
  <2> DEFINE t == Asked(c)
  <2>1. srv = "running" /\ Held(c) /\ c \in DOMAIN clients /\ OpenTasks
    BY <1>5 DEF HandleRequest, Read, Turn, IInv, Agree, Links
  <2>2. CASE ~Known(c, t)
    <3>1. CASE Disconnect(c)
      BY <1>c, <1>a, <2>1, <3>1, DisconnectEffect
    <3>2. CASE link[c] = "open" /\ Forget(c)
      BY <1>b, <3>2 DEF Leaving, MainEffect
    <3> QED
      BY <1>5, <2>2, <3>1, <3>2 DEF HandleRequest, RequestUnknown
  <2>3. CASE Known(c, t) /\ ~HasBox(t)
    BY <1>a, <1>c, <1>5, <2>3, StopEffect DEF HandleRequest, KeyError
  <2>4. CASE Known(c, t) /\ HasBox(t) /\ mailboxes[tasks[t].box].ready
    <3>1. t \in Tasks /\ tasks[t].conn = c
      BY <1>0, <2>1, <2>4 DEF Known, OpenTasks, TasksOf, BooksType
    <3>2. Ship(c, t)
      BY <1>5, <2>4 DEF HandleRequest
    <3>3. Ending(t)
      BY <2>4, <3>1, <3>2 DEF Ship, Deliver, Ending, Rest
    <3> QED
      BY <1>b, <3>1, <3>3 DEF MainEffect
  <2>5. CASE Known(c, t) /\ HasBox(t) /\ ~mailboxes[tasks[t].box].ready
    <3>1. tasks[t].box \in Nat
      BY <1>0, <2>5 DEF HasBox, BooksType
    <3>2. Marking(tasks[t].box)
      BY <1>5, <2>5 DEF HandleRequest, NoteWaiting, Marking, Rest, HasBox
    <3> QED
      BY <1>b, <3>1, <3>2 DEF MainEffect
  <2> QED
    BY <2>2, <2>3, <2>4, <2>5
<1>6. CASE HandleStatus(c)
  <2>1. CASE HasBox(Asked(c))
    BY <1>6, <1>b, <2>1 DEF HandleStatus, MainEffect
  <2>2. CASE ~HasBox(Asked(c))
    BY <1>a, <1>c, <1>6, <2>2, StopEffect DEF HandleStatus, KeyError
  <2> QED
    BY <2>1, <2>2
<1>7. CASE HandleCancel(c)
  <2> DEFINE t == Asked(c)
             ok == /\ HasBox(t)
                   /\ tasks[t].conn \in DOMAIN clients => t \in clients[tasks[t].conn]
  <2>1. CASE ok
    <3>1. t \in Tasks
      BY <1>0, <2>1 DEF HasBox, BooksType
    <3>2. Cancel(tasks[t].conn, t)
      BY <1>7, <2>1 DEF HandleCancel
    <3>3. Ending(t)
      BY <2>1, <3>2 DEF Cancel, Ending, Rest
    <3> QED
      BY <1>b, <3>1, <3>3 DEF MainEffect
  <2>2. CASE ~ok
    BY <1>a, <1>c, <1>7, <2>2, StopEffect DEF HandleCancel, KeyError
  <2> QED
    BY <2>1, <2>2
<1>8. CASE HandleClosed(c) \/ OvertakenAsk(c)
  BY <1>a, <1>c, <1>8, StopEffect DEF HandleClosed, OvertakenAsk, Raced
<1> QED
  BY <1>1, <1>2, <1>3, <1>4, <1>5, <1>6, <1>7, <1>8 DEF HandleClient

\* the messages of the workers,
LEMMA WorkerEffect == IInv /\ WorkerMessage => Effect
<1> SUFFICES ASSUME IInv, WorkerMessage PROVE Effect
  OBVIOUS
<1>0. NetType /\ BooksType
  BY DEF IInv, TypeOK
<1>a. sender' = sender
  BY DEF WorkerMessage, HandleResult, HandleReport, OvertakenReport, HandleSystemError,
     Report, threads
<1>b. MainEffect => Effect
  BY <1>a DEF Effect
<1>c. srv = "running"
  BY DEF WorkerMessage, HandleResult, HandleReport, OvertakenReport, HandleSystemError, Report
<1>1. ASSUME NEW b \in Boxes, HandleResult(b) PROVE Effect
  <2> DEFINE t == boxTask[b]
  <2>1. srv = "running" /\ BoxesKnown /\ b \in Nat
    BY <1>1 DEF HandleResult, Report, IInv, Agree, Boxes
  <2>2. CASE b \notin DOMAIN mailboxes
    BY <1>1, <1>b, <2>2 DEF HandleResult, MainEffect
  <2>3. CASE b \in DOMAIN mailboxes
    <3>1. t \in Tasks /\ t \in DOMAIN tasks /\ tasks[t].box = b /\ b \in DOMAIN boxTask
      BY <1>0, <2>1, <2>3 DEF BoxesKnown, BooksType
    <3>2. CASE ~mailboxes[b].waiting
      <4>1. Marking(b)
        BY <1>1, <2>3, <3>1, <3>2 DEF HandleResult, Marking, Rest
      <4> QED
        BY <1>b, <4>1, <2>1 DEF MainEffect
    <3>3. CASE mailboxes[b].waiting
      <4> DEFINE ok == /\ t \in DOMAIN tasks /\ tasks[t].conn \in DOMAIN clients
                       /\ t \in clients[tasks[t].conn]
      <4>1. CASE ok
        <5>1. Deliver(t, b, tasks[t].conn) /\ UNCHANGED Rest
          BY <1>1, <2>3, <3>1, <3>3, <4>1 DEF HandleResult, Rest
        <5>2. Ending(t)
          BY <2>3, <3>1, <5>1 DEF Deliver, Ending, HasBox
        <5> QED
          BY <1>b, <3>1, <5>2 DEF MainEffect
      <4>2. CASE ~ok
        <5>1. KeyError \/ Raced
          BY <1>1, <2>3, <3>1, <3>3, <4>2 DEF HandleResult
        <5> QED
          BY <1>a, <1>c, <5>1, StopEffect DEF KeyError, Raced
      <4> QED
        BY <4>1, <4>2
    <3> QED
      BY <3>2, <3>3
  <2> QED
    BY <2>2, <2>3
<1>2. ASSUME NEW b \in Boxes, NEW type \in {"ERROR", "LOG"}, HandleReport(b, type)
      PROVE  Effect
  <2>1. CASE UNCHANGED <<srv, books, link>>
    BY <1>b, <2>1 DEF MainEffect
  <2>2. CASE KeyError \/ Raced
    BY <1>a, <1>c, <2>2, StopEffect DEF KeyError, Raced
  <2> QED
    BY <1>2, <2>1, <2>2 DEF HandleReport
<1>3. ASSUME HandleSystemError PROVE Effect
  BY <1>a, <1>c, <1>3, StopEffect DEF HandleSystemError
<1>4. ASSUME NEW b \in Boxes, NEW type \in Reports, OvertakenReport(b, type) PROVE Effect
  BY <1>a, <1>c, <1>4, StopEffect DEF OvertakenReport, Raced
<1> QED
  BY <1>1, <1>2, <1>3, <1>4 DEF WorkerMessage

\* and every other step.
LEMMA NextEffect == IInv /\ [Next]_vars => Effect
<1> SUFFICES ASSUME IInv, [Next]_vars PROVE Effect
  OBVIOUS
<1>0. NetType /\ BooksType
  BY DEF IInv, TypeOK
<1>1. ASSUME NEW c \in Clients, Accept(c) PROVE Effect
  BY <1>1 DEF Accept, Accepting, Effect, MainEffect, threads
<1>2. ASSUME NEW c \in Clients, Calls(c) PROVE Effect
  <2>1. CASE Connect(c)
    <3>1. Connecting(c) /\ sender' = sender
      BY <1>0, <2>1 DEF Connect, Await, Connecting, IInv, TypeOK, ClientType, Agree, Links,
         threads
    <3> QED
      BY <3>1 DEF Effect, MainEffect
  <2>2. CASE ~Connect(c)
    <3>1. UNCHANGED <<srv, books, link, sender>>
      BY <1>2, <2>2 DEF Calls, CallFails, Close, Die, Leave, Submit, Status, CancelTask,
         Result, Await, threads
    <3> QED
      BY <3>1 DEF Effect, MainEffect
  <2> QED
    BY <2>1, <2>2
<1>3. ASSUME NEW c \in Clients, Receives(c) PROVE Effect
  <2>1. UNCHANGED <<srv, books, link, sender>>
    BY <1>3 DEF Receives, Recv, RecvEOF, Return, Drained, DrainRaises, Closed, Leave, threads
  <2> QED
    BY <2>1 DEF Effect, MainEffect
<1>4. CASE Select
  BY <1>4 DEF Select, Effect, MainEffect
<1>5. CASE SenderStep
  BY <1>5 DEF Effect
<1>6. CASE Shutdown
  <2>1. Stopping
    BY <1>0, <1>6 DEF Shutdown, Stopping, NetType, threads
  <2> QED
    BY <2>1 DEF Effect
<1>7. CASE UNCHANGED vars
  BY <1>7 DEF vars, threads, Effect, MainEffect
<1> QED
  BY <1>1, <1>2, <1>3, <1>4, <1>5, <1>6, <1>7, ClientEffect, WorkerEffect DEF Next

-----------------------------------------------------------------------------
(* Submissions.                                                            *)

\* What a step does to the messages on their way to the server.
UpEffect ==
    \/ UNCHANGED <<up, sub>>
    \/ \E c \in Clients : /\ up[c] # <<>> /\ up' = [up EXCEPT ![c] = Tail(@)]
                          /\ sub' = sub
    \/ \E c \in Clients : up' = [up EXCEPT ![c] = <<>>] /\ sub' = sub
    \/ \E c \in Clients, m \in AsksOf :
          /\ m.type # "SUBMIT" /\ up' = [up EXCEPT ![c] = Append(@, m)] /\ sub' = sub
    \/ \E c \in Clients, t \in Tasks :
          /\ \A d \in Clients : t \notin sub[d]
          /\ sub' = [sub EXCEPT ![c] = @ \cup {t}]
          /\ up' = [up EXCEPT ![c] = Append(@, Msg("SUBMIT", t))]

\* Every step appends to, takes from, empties or keeps the queue of a client.
LEMMA NextUpEffect == IInv /\ [Next]_vars => UpEffect
<1> SUFFICES ASSUME IInv, [Next]_vars PROVE UpEffect
  OBVIOUS
<1>1. ASSUME NEW c \in Clients, Accept(c) PROVE UpEffect
  BY <1>1 DEF Accept, client, program, UpEffect
<1>2. ASSUME NEW c \in Clients, HandleClient(c) PROVE UpEffect
  <2>1. CASE HandleEOF(c) \/ HandleClosed(c)
    BY <2>1 DEF HandleEOF, HandleClosed, Turn, UpEffect, client, program
  <2>2. CASE ~(HandleEOF(c) \/ HandleClosed(c))
    <3>1. /\ up[c] # <<>> /\ up' = [up EXCEPT ![c] = Tail(@)]
          /\ sub' = sub
      BY <1>2, <2>2 DEF HandleClient, HandleConnect, HandleDisconnect, HandleSubmit,
         HandleRequest, HandleStatus, HandleCancel, OvertakenAsk, Read, Turn, client, program
    <3> QED
      BY <3>1 DEF UpEffect
  <2> QED
    BY <2>1, <2>2
<1>3. ASSUME NEW c \in Clients, Calls(c) PROVE UpEffect
  <2>0. ASSUME NEW type, NEW t, Ask(c, type, t), Msg(type, t) \in AsksOf,
               type # "SUBMIT", sub' = sub
        PROVE  UpEffect
    <3>1. Msg(type, t).type # "SUBMIT"
      BY <2>0 DEF Msg
    <3> QED
      BY <2>0, <3>1 DEF Ask, UpEffect
  <2>1. CASE Connect(c)
    <3>1. Msg("CONNECT", None) \in AsksOf
      BY DEF Msg, AsksOf
    <3> QED
      BY <2>0, <2>1, <3>1 DEF Connect
  <2>2. CASE CallFails(c)
    BY <2>2 DEF CallFails, Leave, program, UpEffect
  <2>8. CASE Die(c)
    BY <2>8 DEF Die, Leave, program, UpEffect
  <2>3. CASE Close(c)
    <3>1. Msg("DISCONNECT", None) \in AsksOf
      BY DEF Msg, AsksOf
    <3>2. CASE link[c] = "closed"
      BY <2>3, <3>2 DEF Close, Leave, program, UpEffect
    <3>3. CASE link[c] # "closed"
      BY <2>0, <2>3, <3>1, <3>3 DEF Close, program
    <3> QED
      BY <3>2, <3>3
  <2>4. ASSUME NEW t \in Tasks, Submit(c, t) PROVE UpEffect
    BY <2>4 DEF Submit, Ask, UpEffect
  <2>5. ASSUME NEW t \in Tasks, Status(c, t) PROVE UpEffect
    <3>1. Msg("STATUS", t) \in AsksOf
      BY DEF Msg, AsksOf
    <3> QED
      BY <2>0, <2>5, <3>1 DEF Status
  <2>6. ASSUME NEW t \in Tasks, CancelTask(c, t) PROVE UpEffect
    <3>1. Msg("CANCEL", t) \in AsksOf
      BY DEF Msg, AsksOf
    <3> QED
      BY <2>0, <2>6, <3>1 DEF CancelTask
  <2>7. ASSUME NEW t \in Tasks, NEW drain \in BOOLEAN, Result(c, t, drain)
        PROVE  UpEffect
    <3>1. Msg("REQUEST", t) \in AsksOf
      BY DEF Msg, AsksOf
    <3> QED
      BY <2>0, <2>7, <3>1 DEF Result
  <2> QED
    BY <1>3, <2>1, <2>2, <2>3, <2>4, <2>5, <2>6, <2>7, <2>8 DEF Calls
<1>4. ASSUME NEW c \in Clients, Receives(c) PROVE UpEffect
  <2>1. UNCHANGED <<up, sub>>
    BY <1>4 DEF Receives, Recv, RecvEOF, Return, Drained, DrainRaises, Closed,
       Leave, program
  <2> QED
    BY <2>1 DEF UpEffect
<1>5. CASE WorkerMessage
  <2>1. UNCHANGED <<up, sub>>
    BY <1>5 DEF WorkerMessage, HandleResult, HandleReport, OvertakenReport,
       HandleSystemError, Report, client, program
  <2> QED
    BY <2>1 DEF UpEffect
<1>6. CASE Select \/ Shutdown
  BY <1>6 DEF Select, Shutdown, client, program, UpEffect
<1>7. CASE SenderStep
  <2>1. sub' = sub
    BY <1>7 DEF SenderStep, client, program
  <2>2. CASE CloseHandle
    <3>1. sender.conn \in Clients
      BY <1>7, <2>2 DEF SenderStep, CloseHandle, IInv, Agree, Torn
    <3> QED
      BY <2>1, <2>2, <3>1 DEF CloseHandle, UpEffect
  <2>3. CASE ~CloseHandle
    <3>1. up' = up
      BY <1>7, <2>3 DEF SenderStep, TakeNext, SendNext, SendReset, SendBroken, Sent,
         Unregister, PopClient, CancelOne, ForgetTask, Collect, Collected, ForgetBox, Released
    <3> QED
      BY <2>1, <3>1 DEF UpEffect
  <2> QED
    BY <2>2, <2>3
<1>8. CASE UNCHANGED vars
  BY <1>8 DEF vars, client, program, UpEffect
<1> QED
  BY <1>1, <1>2, <1>3, <1>4, <1>5, <1>6, <1>7, <1>8 DEF Next

\* The type of up is kept, and of sub (ClientTypeStep).
LEMMA UpType == IInv /\ UpEffect => up' \in [Clients -> Seq(AsksOf)]
<1> SUFFICES ASSUME IInv, UpEffect PROVE up' \in [Clients -> Seq(AsksOf)]
  OBVIOUS
<1>0. up \in [Clients -> Seq(AsksOf)]
  BY DEF IInv, TypeOK, NetType
<1>1. CASE UNCHANGED <<up, sub>>
  BY <1>0, <1>1
<1>2. ASSUME NEW c \in Clients, up[c] # <<>>, up' = [up EXCEPT ![c] = Tail(@)]
      PROVE  up' \in [Clients -> Seq(AsksOf)]
  BY <1>0, <1>2, UpTail
<1>3. ASSUME NEW c \in Clients, up' = [up EXCEPT ![c] = <<>>]
      PROVE  up' \in [Clients -> Seq(AsksOf)]
  BY <1>0, <1>3
<1>4. ASSUME NEW c \in Clients, NEW m \in AsksOf, up' = [up EXCEPT ![c] = Append(@, m)]
      PROVE  up' \in [Clients -> Seq(AsksOf)]
  BY <1>0, <1>4, UpAppend
<1>5. \A t \in Tasks : Msg("SUBMIT", t) \in AsksOf
  BY DEF Msg, AsksOf
<1> QED
  BY <1>1, <1>2, <1>3, <1>4, <1>5 DEF UpEffect

\* A submission in the tail of a queue was in the queue, one place later.
LEMMA TailSubmission ==
    ASSUME up \in [Clients -> Seq(AsksOf)], NEW c \in Clients, up[c] # <<>>,
           up' = [up EXCEPT ![c] = Tail(@)],
           NEW d \in Clients, NEW i \in Nat, NEW t \in Tasks, Submission(d, i, t)'
    PROVE  /\ d # c => Submission(d, i, t)
           /\ d = c => i > 0 /\ Submission(d, i + 1, t)
<1>1. CASE d # c
  BY <1>1 DEF Submission
<1>2. CASE d = c
  <2>1. up[c] \in Seq(AsksOf) /\ up'[c] = Tail(up[c])
    OBVIOUS
  <2>2. /\ Len(Tail(up[c])) = Len(up[c]) - 1
        /\ \A k \in 1 .. Len(Tail(up[c])) : Tail(up[c])[k] = up[c][k + 1]
    BY <2>1, HeadTailProperties
  <2>3. DOMAIN up[c] = 1 .. Len(up[c]) /\ DOMAIN Tail(up[c]) = 1 .. Len(Tail(up[c]))
    BY <2>1, HeadTailProperties, LenProperties
  <2>4. Len(up[c]) \in Nat
    BY <2>1, LenProperties
  <2> QED
    BY <1>2, <2>1, <2>2, <2>3, <2>4 DEF Submission
<1> QED
  BY <1>1, <1>2

\* A submission in an extended queue was there before or is the new message.
LEMMA AppendSubmission ==
    ASSUME up \in [Clients -> Seq(AsksOf)], NEW c \in Clients, NEW m \in AsksOf,
           up' = [up EXCEPT ![c] = Append(@, m)],
           NEW d \in Clients, NEW i \in Nat, NEW t \in Tasks, Submission(d, i, t)'
    PROVE  \/ Submission(d, i, t)
           \/ d = c /\ i = Len(up[c]) + 1 /\ m = Msg("SUBMIT", t)
<1>1. CASE d # c
  BY <1>1 DEF Submission
<1>2. CASE d = c
  <2>1. up[c] \in Seq(AsksOf) /\ up'[c] = Append(up[c], m)
    OBVIOUS
  <2>2. /\ Len(Append(up[c], m)) = Len(up[c]) + 1
        /\ \A k \in 1 .. Len(up[c]) : Append(up[c], m)[k] = up[c][k]
        /\ Append(up[c], m)[Len(up[c]) + 1] = m
        /\ Append(up[c], m) \in Seq(AsksOf)
    BY <2>1, AppendProperties
  <2>3. /\ DOMAIN up[c] = 1 .. Len(up[c]) /\ Len(up[c]) \in Nat
        /\ DOMAIN Append(up[c], m) = 1 .. Len(up[c]) + 1
    BY <2>1, <2>2, LenProperties
  <2> QED
    BY <1>2, <2>1, <2>2, <2>3 DEF Submission
<1> QED
  BY <1>1, <1>2

\* The sending thread only takes entries out of the dictionaries.
LEMMA SweepBooks ==
    ASSUME SenderStep
    PROVE  /\ clients' = clients \/ clients' = Without(clients, {sender.conn})
           /\ tasks' = tasks \/ \E t \in Tasks : tasks' = Without(tasks, {t})
           /\ boxTask' = boxTask \/ boxTask' = Without(boxTask, {sender.box})
           /\ mailboxes' = mailboxes
                \/ \E t \in Tasks : mailboxes' = Without(mailboxes, {tasks[t].box})
           /\ DOMAIN tasks' \subseteq DOMAIN tasks
           /\ \A t \in DOMAIN tasks' : tasks'[t] = tasks[t]
           /\ boxCounter' = boxCounter
<1>1. \/ UNCHANGED books
      \/ PopClient \/ ForgetBox
      \/ \E t \in Tasks : CancelOne(t) \/ ForgetTask(t)
  BY DEF SenderStep, TakeNext, SendNext, SendReset, SendBroken, Sent, Unregister,
     CloseHandle, Collect, Collected, Released
<1>2. CASE UNCHANGED books
  BY <1>2 DEF books
<1>3. CASE PopClient \/ ForgetBox
  BY <1>3 DEF PopClient, ForgetBox
<1>4. ASSUME NEW t \in Tasks, CancelOne(t)
      PROVE  /\ UNCHANGED <<clients, tasks, boxTask, boxCounter>>
             /\ mailboxes' = mailboxes \/ mailboxes' = Without(mailboxes, {tasks[t].box})
  BY <1>4 DEF CancelOne
<1>5. ASSUME NEW t \in Tasks, ForgetTask(t)
      PROVE  /\ UNCHANGED <<clients, mailboxes, boxTask, boxCounter>>
             /\ tasks' = Without(tasks, {t})
  BY <1>5 DEF ForgetTask
<1>6. tasks' = tasks \/ \E t \in Tasks : tasks' = Without(tasks, {t})
  BY <1>1, <1>2, <1>3, <1>4, <1>5 DEF PopClient, ForgetBox
<1>7. /\ DOMAIN tasks' \subseteq DOMAIN tasks
      /\ \A t \in DOMAIN tasks' : tasks'[t] = tasks[t]
  BY <1>6 DEF Without
<1> QED
  BY <1>1, <1>2, <1>3, <1>4, <1>5, <1>6, <1>7 DEF PopClient, ForgetBox

\* No step brings a submission of a known task, or a second one of a task.
LEMMA DrawnStep ==
    ASSUME IInv, Agree, UpEffect, Effect
    PROVE  Drawn'
<1>0. /\ up \in [Clients -> Seq(AsksOf)] /\ sub \in [Clients -> SUBSET Tasks]
      /\ DOMAIN tasks \subseteq Tasks /\ Drawn
  BY DEF IInv, TypeOK, NetType, ClientType, BooksType, Agree
<1>1. \A c \in Clients : sub[c] \subseteq sub'[c]
  BY <1>0 DEF UpEffect
<1>2. ASSUME NEW c \in Clients, NEW t \in Tasks, Submitting(c, t)
      PROVE  Drawn'
  <2>1. DOMAIN tasks' = DOMAIN tasks \cup {t}
    BY <1>2 DEF Submitting, Put
  <2>2. Submission(c, 1, t)
    <3>1. up[c] \in Seq(AsksOf) /\ up[c] # <<>> /\ Head(up[c]) = Msg("SUBMIT", t)
      BY <1>0, <1>2 DEF Submitting
    <3>2. 1 \in DOMAIN up[c] /\ up[c][1] = Head(up[c])
      BY <3>1
    <3> QED
      BY <3>1, <3>2 DEF Submission
  <2>3. ASSUME NEW d \in Clients, NEW i \in Nat, NEW u \in Tasks, Submission(d, i, u)'
        PROVE  /\ d # c => Submission(d, i, u)
               /\ d = c => i > 0 /\ Submission(d, i + 1, u)
    BY <1>0, <1>2, <2>3, TailSubmission DEF Submitting
  <2>4. ASSUME NEW d \in Clients, NEW i \in Nat, NEW u \in Tasks, Submission(d, i, u)'
        PROVE  u \in sub'[d] /\ u \notin DOMAIN tasks'
    <3>1. u # t
      BY <1>0, <2>2, <2>3, <2>4 DEF Drawn
    <3>2. u \in sub[d] /\ u \notin DOMAIN tasks
      <4>1. PICK k \in Nat : Submission(d, k, u)
        BY <2>3, <2>4
      <4> QED
        BY <1>0, <4>1 DEF Drawn
    <3> QED
      BY <1>1, <2>1, <3>1, <3>2
  <2>5. ASSUME NEW d \in Clients, NEW e \in Clients, NEW i \in Nat, NEW j \in Nat,
               NEW u \in Tasks, Submission(d, i, u)', Submission(e, j, u)'
        PROVE  d = e /\ i = j
    <3>1. (IF d = c THEN i + 1 ELSE i) \in Nat /\ (IF e = c THEN j + 1 ELSE j) \in Nat
      OBVIOUS
    <3> QED
      BY <1>0, <2>3, <2>5, <3>1 DEF Drawn
  <2>6. \A u \in DOMAIN tasks' : \E d \in Clients : u \in sub'[d]
    BY <1>0, <1>1, <2>1, <2>2 DEF Drawn
  <2> QED
    BY <2>4, <2>5, <2>6 DEF Drawn
<1>3. ASSUME DOMAIN tasks' \subseteq DOMAIN tasks
      PROVE  Drawn'
  <2>1. \A u \in DOMAIN tasks' : \E d \in Clients : u \in sub'[d]
    BY <1>0, <1>1, <1>3 DEF Drawn
  <2>2. CASE UNCHANGED <<up, sub>>
    BY <1>0, <1>3, <2>2 DEF Drawn, Submission
  <2>3. ASSUME NEW c \in Clients, up[c] # <<>>, up' = [up EXCEPT ![c] = Tail(@)], sub' = sub
        PROVE  Drawn'
    <3>1. ASSUME NEW d \in Clients, NEW i \in Nat, NEW u \in Tasks, Submission(d, i, u)'
          PROVE  /\ d # c => Submission(d, i, u)
                 /\ d = c => i > 0 /\ Submission(d, i + 1, u)
      BY <1>0, <2>3, <3>1, TailSubmission
    <3>2. ASSUME NEW d \in Clients, NEW i \in Nat, NEW u \in Tasks, Submission(d, i, u)'
          PROVE  u \in sub'[d] /\ u \notin DOMAIN tasks'
      BY <1>0, <1>3, <2>3, <3>1, <3>2 DEF Drawn
    <3>3. ASSUME NEW d \in Clients, NEW e \in Clients, NEW i \in Nat, NEW j \in Nat,
                 NEW u \in Tasks, Submission(d, i, u)', Submission(e, j, u)'
          PROVE  d = e /\ i = j
      BY <1>0, <3>1, <3>3 DEF Drawn
    <3> QED
      BY <2>1, <3>2, <3>3 DEF Drawn
  <2>4. ASSUME NEW c \in Clients, up' = [up EXCEPT ![c] = <<>>], sub' = sub
        PROVE  Drawn'
    <3>1. ASSUME NEW d \in Clients, NEW i \in Nat, NEW u \in Tasks, Submission(d, i, u)'
          PROVE  Submission(d, i, u)
      <4>1. d # c
        BY <1>0, <2>4, <3>1 DEF Submission
      <4> QED
        BY <1>0, <2>4, <3>1, <4>1 DEF Submission
    <3> QED
      BY <1>0, <1>3, <2>1, <2>4, <3>1 DEF Drawn
  <2>5. ASSUME NEW c \in Clients, NEW m \in AsksOf, m.type # "SUBMIT", sub' = sub,
               up' = [up EXCEPT ![c] = Append(@, m)]
        PROVE  Drawn'
    <3>1. ASSUME NEW d \in Clients, NEW i \in Nat, NEW u \in Tasks, Submission(d, i, u)'
          PROVE  Submission(d, i, u)
      <4>1. m # Msg("SUBMIT", u)
        BY <2>5 DEF Msg
      <4> QED
        BY <1>0, <2>5, <3>1, <4>1, AppendSubmission
    <3> QED
      BY <1>0, <1>3, <2>1, <2>5, <3>1 DEF Drawn
  <2>6. ASSUME NEW c \in Clients, NEW t \in Tasks, \A d \in Clients : t \notin sub[d],
               sub' = [sub EXCEPT ![c] = @ \cup {t}],
               up' = [up EXCEPT ![c] = Append(@, Msg("SUBMIT", t))]
        PROVE  Drawn'
    <3>1. Msg("SUBMIT", t) \in AsksOf /\ \A u : Msg("SUBMIT", t) = Msg("SUBMIT", u) => u = t
      BY DEF Msg, AsksOf
    <3>2. ASSUME NEW d \in Clients, NEW i \in Nat, NEW u \in Tasks, Submission(d, i, u)'
          PROVE  Submission(d, i, u) \/ (d = c /\ i = Len(up[c]) + 1 /\ u = t)
      BY <1>0, <2>6, <3>1, <3>2, AppendSubmission
    <3>3. t \notin DOMAIN tasks /\ t \in sub'[c]
      BY <1>0, <2>6 DEF Drawn
    <3>4. \A d \in Clients, i \in Nat : ~Submission(d, i, t)
      BY <1>0, <2>6 DEF Drawn
    <3>5. ASSUME NEW d \in Clients, NEW i \in Nat, NEW u \in Tasks, Submission(d, i, u)'
          PROVE  u \in sub'[d] /\ u \notin DOMAIN tasks'
      BY <1>0, <1>1, <1>3, <3>2, <3>3, <3>5 DEF Drawn
    <3>6. ASSUME NEW d \in Clients, NEW e \in Clients, NEW i \in Nat, NEW j \in Nat,
                 NEW u \in Tasks, Submission(d, i, u)', Submission(e, j, u)'
          PROVE  d = e /\ i = j
      BY <1>0, <3>2, <3>4, <3>6 DEF Drawn
    <3> QED
      BY <2>1, <3>5, <3>6 DEF Drawn
  <2> QED
    BY <2>2, <2>3, <2>4, <2>5, <2>6 DEF UpEffect
<1>4. \/ \E c \in Clients, t \in Tasks : Submitting(c, t)
      \/ DOMAIN tasks' \subseteq DOMAIN tasks
  <2>1. SenderStep => DOMAIN tasks' \subseteq DOMAIN tasks
    BY SweepBooks
  <2> QED
    BY <2>1 DEF Effect, MainEffect, Stopping, Connecting, Accepting, Leaving, Forget,
       Without, Marking, Ending, Rest, books
<1> QED
  BY <1>2, <1>3, <1>4

-----------------------------------------------------------------------------
(* The dictionaries.                                                       *)

\* Only a client that connects leaves "off".
LEMMA OffStep ==
    ASSUME IInv, [Next]_vars, NEW c \in Clients, at'[c] = "off"
    PROVE  at[c] = "off"
<1>0. at \in [Clients -> {"off", "idle", "wait", "drain", "closing", "gone"}]
  BY DEF IInv, TypeOK, ClientType
<1>1. at' = at \/ \E d \in Clients : \E s \in {"idle", "wait", "drain", "closing", "gone"} :
                     at' = [at EXCEPT ![d] = s]
  <2> DEFINE Moves == \E d \in Clients : \E s \in {"idle", "wait", "drain", "closing", "gone"} :
                         at' = [at EXCEPT ![d] = s]
  <2>1. ASSUME NEW d \in Clients, Calls(d) PROVE at' = at \/ Moves
    BY <2>1 DEF Calls, Connect, CallFails, Close, Die, Leave, Submit, Status, CancelTask,
       Result, Await
  <2>2. ASSUME NEW d \in Clients, Receives(d) PROVE at' = at \/ Moves
    BY <2>2 DEF Receives, Recv, RecvEOF, Return, Drained, DrainRaises, Closed,
       Leave, Idle
  <2>3. ASSUME NEW d \in Clients, HandleClient(d) PROVE at' = at
    BY <2>3 DEF HandleClient, HandleConnect, HandleDisconnect, HandleEOF,
       HandleSubmit, HandleRequest, HandleStatus, HandleCancel, HandleClosed,
       OvertakenAsk, Read, Turn, client
  <2>4. ASSUME NEW d \in Clients, Accept(d) PROVE at' = at
    BY <2>4 DEF Accept, client
  <2>5. ASSUME WorkerMessage PROVE at' = at
    BY <2>5 DEF WorkerMessage, HandleResult, HandleReport, OvertakenReport,
       HandleSystemError, Report, client
  <2>6. ASSUME Select \/ SenderStep \/ Shutdown \/ UNCHANGED vars PROVE at' = at
    BY <2>6 DEF Select, SenderStep, Shutdown, vars, client
  <2> HIDE DEF Moves
  <2>7. at' = at \/ Moves
    BY <2>1, <2>2, <2>3, <2>4, <2>5, <2>6 DEF Next
  <2> QED
    BY <2>7 DEF Moves
<1> QED
  BY <1>0, <1>1

\* Every step keeps the types of the dictionaries.
LEMMA BooksTypeStep ==
    ASSUME IInv, Effect
    PROVE  BooksType'
<1>0. BooksType /\ NetType
  BY DEF IInv, TypeOK
<1>1. CASE UNCHANGED books
  BY <1>0, <1>1 DEF BooksType, books
<1>2. CASE Stopping
  BY <1>0, <1>2 DEF BooksType, Stopping, NoEntry
<1>3. ASSUME NEW c \in Clients, Connecting(c) PROVE BooksType'
  BY <1>0, <1>3 DEF BooksType, Connecting, books
<1>4. ASSUME NEW c \in Clients, Accepting(c) PROVE BooksType'
  BY <1>0, <1>4 DEF BooksType, Accepting, Put
<1>5. ASSUME NEW c \in Clients, Leaving(c) PROVE BooksType'
  BY <1>0, <1>5 DEF BooksType, Leaving, Forget, Without
<1>6. ASSUME NEW c \in Clients, NEW t \in Tasks, Submitting(c, t) PROVE BooksType'
  <2>1. /\ DOMAIN tasks' = DOMAIN tasks \cup {t}
        /\ \A u \in DOMAIN tasks' :
              tasks'[u] = IF u = t THEN [box |-> boxCounter, conn |-> c] ELSE tasks[u]
    BY <1>6 DEF Submitting, Put
  <2>2. /\ DOMAIN boxTask' = DOMAIN boxTask \cup {boxCounter}
        /\ \A b \in DOMAIN boxTask' :
              boxTask'[b] = IF b = boxCounter THEN t ELSE boxTask[b]
    BY <1>6 DEF Submitting, Put
  <2>3. /\ DOMAIN mailboxes' = DOMAIN mailboxes \cup {boxCounter}
        /\ \A b \in DOMAIN mailboxes' :
              mailboxes'[b] \in [ready : BOOLEAN, waiting : BOOLEAN]
    BY <1>0, <1>6 DEF BooksType, Submitting, Put
  <2>4. /\ DOMAIN clients' = DOMAIN clients
        /\ \A d \in DOMAIN clients' : clients'[d] \subseteq clients[d] \cup {t}
    BY <1>6 DEF Submitting
  <2>5. boxCounter' = boxCounter + 1
    BY <1>6 DEF Submitting
  <2>6. \A u \in DOMAIN tasks' : tasks'[u] \in [box : Nat, conn : Clients]
    BY <1>0, <2>1 DEF BooksType
  <2>7. /\ DOMAIN boxTask' \subseteq 0 .. boxCounter' - 1
        /\ DOMAIN mailboxes' \subseteq 0 .. boxCounter' - 1
        /\ boxCounter' \in Nat
    BY <1>0, <2>2, <2>3, <2>5 DEF BooksType
  <2> QED
    BY <1>0, <2>1, <2>2, <2>3, <2>4, <2>6, <2>7 DEF BooksType
<1>7. ASSUME NEW b \in Nat, Marking(b) PROVE BooksType'
  BY <1>0, <1>7 DEF BooksType, Marking, Rest
<1>8. ASSUME NEW t \in Tasks, Ending(t) PROVE BooksType'
  BY <1>0, <1>8 DEF BooksType, Ending, Rest, Without
<1>9. ASSUME SenderStep PROVE BooksType'
  <2>1. /\ DOMAIN clients' \subseteq DOMAIN clients
        /\ \A c \in DOMAIN clients' : clients'[c] = clients[c]
    BY <1>9, SweepBooks DEF Without
  <2>2. /\ DOMAIN boxTask' \subseteq DOMAIN boxTask
        /\ \A b \in DOMAIN boxTask' : boxTask'[b] = boxTask[b]
    BY <1>9, SweepBooks DEF Without
  <2>3. /\ DOMAIN mailboxes' \subseteq DOMAIN mailboxes
        /\ \A b \in DOMAIN mailboxes' : mailboxes'[b] = mailboxes[b]
    BY <1>9, SweepBooks DEF Without
  <2>4. /\ DOMAIN tasks' \subseteq DOMAIN tasks
        /\ \A t \in DOMAIN tasks' : tasks'[t] = tasks[t]
        /\ boxCounter' = boxCounter
    BY <1>9, SweepBooks
  <2> QED
    BY <1>0, <2>1, <2>2, <2>3, <2>4 DEF BooksType
<1> QED
  BY <1>1, <1>2, <1>3, <1>4, <1>5, <1>6, <1>7, <1>8, <1>9 DEF Effect, MainEffect

\* A step of another thread that brings no task or mailbox of the client that
\* the sending thread forgets keeps Torn.
LEMMA TornKept ==
    ASSUME Torn, sender' = sender, boxCounter \in Nat, boxCounter' \in Nat,
           boxCounter <= boxCounter',
           sender.at \in After =>
              /\ TasksOf(sender.conn)' = TasksOf(sender.conn)
              /\ \A t \in TasksOf(sender.conn) : HasBox(t)' => HasBox(t),
           \A t \in DOMAIN tasks' :
              \/ tasks'[t].box = boxCounter
              \/ t \in DOMAIN tasks /\ tasks'[t].box = tasks[t].box
    PROVE  Torn'
<1>1. sender.at = "unbox" => /\ sender.box \in Nat /\ sender.box < boxCounter'
                             /\ \A t \in DOMAIN tasks' : tasks'[t].box # sender.box
  BY DEF Torn
<1>2. sender.at \in After =>
         /\ TasksOf(sender.conn)' = TasksOf(sender.conn)
         /\ \A t \in TasksOf(sender.conn) : HasBox(t)' => HasBox(t)
  OBVIOUS
<1>4. sender.at = "cancel" =>
         /\ sender.tasks \subseteq TasksOf(sender.conn)'
         /\ \A t \in TasksOf(sender.conn)' : HasBox(t)' => t \in sender.tasks
  BY <1>2 DEF Torn, After
<1>5. sender.at \in {"collect", "forget", "unbox"} =>
         \A t \in TasksOf(sender.conn)' : ~HasBox(t)'
  BY <1>2 DEF Torn, After
<1>6. sender.at \in {"forget", "unbox"} => sender.tasks = TasksOf(sender.conn)'
  BY <1>2 DEF Torn, After
<1> QED
  BY <1>1, <1>4, <1>5, <1>6 DEF Torn

\* Until it is down every step of the server keeps the dictionaries in
\* agreement: the steps of the threads that listen and handle messages,
LEMMA MainAgree ==
    ASSUME IInv, [Next]_vars, MainEffect, UpEffect, sender' = sender, Agree
    PROVE  (OpenTasks /\ TasksKnown /\ BoxesKnown /\ Links /\ Torn)'
<1>0. /\ BooksType /\ link \in [Clients -> {"none", "pending", "open", "cut", "closed"}]
      /\ Agree /\ boxCounter \in Nat
  BY DEF IInv, TypeOK, NetType, BooksType
<1>s. sender' = sender /\ Leaver' = Leaver
  BY DEF Leaver
<1>t. ThreadType
  BY DEF IInv, TypeOK
<1>b. \A c \in Clients : at'[c] = "off" => link[c] = "none"
  BY <1>0, OffStep DEF Agree, Links
<1> DEFINE Rels == OpenTasks /\ TasksKnown /\ BoxesKnown /\ Links /\ Torn
<1>c. Rels
  BY <1>0 DEF Agree
<1>1. ASSUME UNCHANGED <<books, link>> PROVE Rels'
  <2>1. UNCHANGED <<clients, tasks, boxTask, mailboxes, boxCounter, link, sender>>
    BY <1>1 DEF books
  <2>2. Links'
    BY <1>b, <1>c, <2>1 DEF Links, Held
  <2> QED
    BY <1>c, <1>s, <2>1, <2>2 DEF OpenTasks, TasksKnown, BoxesKnown, Torn, TasksOf, HasBox
<1>3. ASSUME NEW c \in Clients, Connecting(c) PROVE Rels'
  <2>1. UNCHANGED <<clients, tasks, boxTask, mailboxes, boxCounter, sender>>
    BY <1>3 DEF Connecting, books
  <2>2. Links'
    BY <1>0, <1>b, <1>c, <1>3, <2>1 DEF Links, Held, Connecting
  <2> QED
    BY <1>c, <1>s, <2>1, <2>2 DEF OpenTasks, TasksKnown, BoxesKnown, Torn, TasksOf, HasBox
<1>4. ASSUME NEW c \in Clients, Accepting(c) PROVE Rels'
  <2>1. c \notin DOMAIN clients /\ UNCHANGED <<tasks, boxTask, mailboxes, boxCounter>>
    BY <1>c, <1>4 DEF Accepting, Links, Held
  <2>a. c # sender.conn /\ c \notin Leaver
    BY <1>c, <1>4, <1>t, NoneAssumption DEF Accepting, Links, Torn, After, Leaver, ThreadType
  <2>2. TasksOf(c) = {}
    BY <1>c, <2>1, <2>a DEF TasksOf, TasksKnown
  <2>3. DOMAIN clients' = DOMAIN clients \cup {c} /\ clients'[c] = {}
        /\ \A d \in DOMAIN clients : clients'[d] = clients[d]
    BY <2>1, <1>4 DEF Accepting, Put
  <2>4. OpenTasks'
    BY <1>c, <2>1, <2>2, <2>3 DEF OpenTasks, TasksOf, HasBox
  <2>5. TasksKnown' /\ BoxesKnown' /\ Torn'
    BY <1>c, <1>s, <2>1, <2>3 DEF TasksKnown, BoxesKnown, Torn, TasksOf, HasBox
  <2>6. Links'
    BY <1>0, <1>b, <1>c, <1>4, <2>3, <2>a DEF Links, Held, Accepting
  <2> QED
    BY <2>4, <2>5, <2>6
<1>5. ASSUME NEW c \in Clients, Leaving(c) PROVE Rels'
  <2> USE DEF Leaving, Forget, Without
  <2>0. c \in DOMAIN clients /\ link[c] = "open"
    BY <1>c, <1>5 DEF Links, Held
  <2>1. /\ DOMAIN clients' = DOMAIN clients \ {c}
        /\ \A d \in DOMAIN clients' : clients'[d] = clients[d]
    BY <1>5
  <2>2. /\ DOMAIN tasks' = DOMAIN tasks \ TasksOf(c)
        /\ \A t \in DOMAIN tasks' : tasks'[t] = tasks[t]
    BY <1>5
  <2>3. /\ DOMAIN boxTask' = DOMAIN boxTask \ {tasks[t].box : t \in TasksOf(c)}
        /\ \A b \in DOMAIN boxTask' : boxTask'[b] = boxTask[b]
    BY <1>5
  <2>4. DOMAIN mailboxes' = DOMAIN mailboxes \ {tasks[t].box : t \in clients[c]}
    BY <1>5
  <2>5. \A t, u \in DOMAIN tasks : tasks[t].box = tasks[u].box => t = u
    BY <1>c DEF TasksKnown
  <2>6. clients[c] = {t \in TasksOf(c) : HasBox(t)}
    BY <1>c, <2>0 DEF OpenTasks
  <2>7. \A t \in DOMAIN tasks' : HasBox(t)' <=> HasBox(t)
    BY <2>2, <2>4, <2>5, <2>6 DEF HasBox, TasksOf
  <2>8. OpenTasks'
    BY <1>c, <2>1, <2>2, <2>7 DEF OpenTasks, TasksOf, HasBox
  <2>9. TasksKnown'
    <3>1. ASSUME NEW t \in DOMAIN tasks'
          PROVE  /\ tasks'[t].conn \in DOMAIN clients' \cup Leaver
                 /\ tasks'[t].box \in DOMAIN boxTask' /\ boxTask'[tasks'[t].box] = t
      <4>1. t \in DOMAIN tasks /\ t \notin TasksOf(c) /\ tasks'[t] = tasks[t]
        BY <2>2, <3>1
      <4>2. tasks[t].conn # c
        BY <4>1 DEF TasksOf
      <4>3. \A u \in TasksOf(c) : tasks[u].box # tasks[t].box
        BY <2>5, <4>1, <4>2 DEF TasksOf
      <4> QED
        BY <1>c, <2>1, <2>3, <4>1, <4>2, <4>3 DEF TasksKnown
    <3> QED
      BY <1>s, <3>1 DEF TasksKnown
  <2>10. \A b \in DOMAIN boxTask' \ {sender.box} : boxTask'[b] \in DOMAIN tasks' /\ tasks'[boxTask'[b]].box = b
    <3>1. ASSUME NEW b \in DOMAIN boxTask' \ {sender.box}
          PROVE  boxTask'[b] \in DOMAIN tasks' /\ tasks'[boxTask'[b]].box = b
      <4>1. b \in DOMAIN boxTask /\ boxTask'[b] = boxTask[b]
        BY <2>3, <3>1
      <4>2. boxTask[b] \in DOMAIN tasks /\ tasks[boxTask[b]].box = b
        BY <1>c, <3>1, <4>1 DEF BoxesKnown
      <4>3. boxTask[b] \notin TasksOf(c)
        BY <2>3, <3>1, <4>2
      <4> QED
        BY <2>2, <4>1, <4>2, <4>3
    <3> QED
      BY <3>1
  <2>11. DOMAIN mailboxes' \subseteq DOMAIN boxTask' \ {sender.box}
    <3>1. ASSUME NEW b \in DOMAIN mailboxes', NEW t \in TasksOf(c), b = tasks[t].box
          PROVE  FALSE
      BY <2>4, <2>6, <3>1 DEF HasBox, TasksOf
    <3> QED
      BY <1>c, <2>3, <2>4, <3>1 DEF BoxesKnown
  <2>12. Links'
    BY <1>0, <1>b, <1>c, <1>5, <2>0, <2>1 DEF Links, Held
  <2>13. Torn'
    <3>1. sender.at \in After => sender.conn # c
      BY <1>c, <2>0 DEF Links, After
    <3>2. sender.conn # c => TasksOf(sender.conn)' = TasksOf(sender.conn)
      BY <2>2 DEF TasksOf
    <3>3. boxCounter' = boxCounter
      BY <1>5
    <3>4. \A t \in DOMAIN tasks' : t \in DOMAIN tasks /\ tasks'[t].box = tasks[t].box
      BY <2>2
    <3>5. sender.at \in After => \A t \in TasksOf(sender.conn) : HasBox(t)' => HasBox(t)
      BY <2>7, <3>1, <3>2 DEF TasksOf
    <3> QED
      BY <1>0, <1>c, <1>s, <3>1, <3>2, <3>3, <3>4, <3>5, TornKept
  <2> QED
    BY <1>s, <2>8, <2>9, <2>10, <2>11, <2>12, <2>13 DEF BoxesKnown
<1>6. ASSUME NEW c \in Clients, NEW t \in Tasks, Submitting(c, t) PROVE Rels'
  <2> USE DEF Submitting, Put
  <2>1. t \notin DOMAIN tasks
    <3>1. up[c] \in Seq(AsksOf) /\ up[c] # <<>>
      BY <1>6 DEF IInv, TypeOK, NetType
    <3>2. 1 \in DOMAIN up[c] /\ up[c][1] = Head(up[c])
      BY <3>1
    <3> QED
      BY <1>0, <1>6, <3>2 DEF Submission, Agree, Drawn
  <2>2. boxCounter \notin DOMAIN boxTask /\ boxCounter \notin DOMAIN mailboxes
    BY <1>0 DEF BooksType
  <2>3. /\ DOMAIN tasks' = DOMAIN tasks \cup {t}
        /\ tasks'[t] = [box |-> boxCounter, conn |-> c]
        /\ \A u \in DOMAIN tasks : tasks'[u] = tasks[u]
    BY <1>6, <2>1
  <2>4. /\ DOMAIN boxTask' = DOMAIN boxTask \cup {boxCounter}
        /\ boxTask'[boxCounter] = t
        /\ \A b \in DOMAIN boxTask : boxTask'[b] = boxTask[b]
    BY <1>6, <2>2
  <2>5. DOMAIN mailboxes' = DOMAIN mailboxes \cup {boxCounter}
    BY <1>6
  <2>6. c \in DOMAIN clients /\ DOMAIN clients' = DOMAIN clients
    BY <1>6, <1>c DEF Links, Held
  <2>7. \A d \in DOMAIN clients :
            clients'[d] = IF d = c THEN clients[d] \cup {t} ELSE clients[d]
    BY <1>6
  <2>8. \A u \in DOMAIN tasks : HasBox(u)' <=> HasBox(u)
    BY <1>c, <2>2, <2>3, <2>5 DEF HasBox, TasksKnown
  <2>9. HasBox(t)'
    BY <2>3, <2>5 DEF HasBox
  <2>10. OpenTasks'
    <3>1. \A d \in DOMAIN clients : TasksOf(d)' = IF d = c THEN TasksOf(d) \cup {t}
                                                  ELSE TasksOf(d)
      BY <2>1, <2>3 DEF TasksOf
    <3>2. ASSUME NEW d \in DOMAIN clients
          PROVE  clients'[d] = {u \in TasksOf(d)' : HasBox(u)'}
      <4>1. clients[d] = {u \in TasksOf(d) : HasBox(u)} /\ TasksOf(d) \subseteq DOMAIN tasks
        BY <1>c DEF OpenTasks, TasksOf
      <4> QED
        BY <3>1, <2>7, <2>8, <2>9, <4>1
    <3> QED
      BY <2>6, <3>2 DEF OpenTasks
  <2>11. TasksKnown'
    BY <1>c, <1>s, <2>2, <2>3, <2>4, <2>6 DEF TasksKnown
  <2>14. sender.box # boxCounter
    BY <1>0, <1>c, NoneAssumption DEF Torn
  <2>12. BoxesKnown'
    BY <1>c, <1>s, <2>1, <2>3, <2>4, <2>5, <2>14 DEF BoxesKnown
  <2>13. Links'
    BY <1>b, <1>c, <1>6, <1>s, <2>6 DEF Links, Held
  <2>15. Torn'
    <3>1. sender.at \in After => sender.conn # c
      BY <1>c, <1>6 DEF Links, After, Held
    <3>2. sender.conn # c => TasksOf(sender.conn)' = TasksOf(sender.conn)
      BY <2>1, <2>3 DEF TasksOf
    <3>3. boxCounter' = boxCounter + 1
      BY <1>6
    <3>4. \A u \in DOMAIN tasks' : \/ tasks'[u].box = boxCounter
                                   \/ u \in DOMAIN tasks /\ tasks'[u].box = tasks[u].box
      BY <2>3
    <3>5. sender.at \in After => \A u \in TasksOf(sender.conn) : HasBox(u)' => HasBox(u)
      BY <2>8 DEF TasksOf
    <3>6. boxCounter' \in Nat /\ boxCounter <= boxCounter'
      BY <1>0, <3>3
    <3> QED
      BY <1>0, <1>c, <1>s, <3>1, <3>2, <3>4, <3>5, <3>6, TornKept
  <2> QED
    BY <2>10, <2>11, <2>12, <2>13, <2>15
<1>7. ASSUME NEW b \in Nat, Marking(b) PROVE Rels'
  <2>1. /\ DOMAIN mailboxes' = DOMAIN mailboxes
        /\ UNCHANGED <<clients, tasks, boxTask, boxCounter, link>>
    BY <1>7 DEF Marking, Rest
  <2>2. Links'
    BY <1>b, <1>c, <1>s, <2>1 DEF Links, Held
  <2> QED
    BY <1>c, <1>s, <2>1, <2>2 DEF OpenTasks, TasksKnown, BoxesKnown, Torn, TasksOf, HasBox
<1>8. ASSUME NEW t \in Tasks, Ending(t) PROVE Rels'
  <2> DEFINE c == tasks[t].conn
  <2>0. Torn'
    <3>1. /\ UNCHANGED <<tasks, boxCounter>>
          /\ \A u \in TasksOf(sender.conn) : HasBox(u)' => HasBox(u)
      BY <1>8 DEF Ending, Rest, Without, HasBox
    <3> QED
      BY <1>0, <1>c, <1>s, <3>1, TornKept DEF TasksOf
  <2>1. /\ DOMAIN mailboxes' = DOMAIN mailboxes \ {tasks[t].box}
        /\ UNCHANGED <<tasks, boxTask, link>> /\ DOMAIN clients' = DOMAIN clients
        /\ \A d \in DOMAIN clients : clients'[d] = IF d = c THEN clients[d] \ {t} ELSE clients[d]
    BY <1>8 DEF Ending, Rest, Without
  <2>2. t \in DOMAIN tasks
    BY <1>8 DEF Ending, HasBox
  <2>3. \A u \in DOMAIN tasks : HasBox(u)' <=> HasBox(u) /\ u # t
    BY <1>c, <2>1, <2>2 DEF HasBox, TasksKnown
  <2>4. OpenTasks'
    <3>1. \A d \in DOMAIN clients : TasksOf(d)' = TasksOf(d)
      BY <2>1 DEF TasksOf
    <3>2. ASSUME NEW d \in DOMAIN clients
          PROVE  clients'[d] = {u \in TasksOf(d)' : HasBox(u)'}
      <4>1. clients[d] = {u \in TasksOf(d) : HasBox(u)} /\ TasksOf(d) \subseteq DOMAIN tasks
            /\ (t \in TasksOf(d) => d = c)
        BY <1>c DEF OpenTasks, TasksOf
      <4> QED
        BY <3>1, <2>1, <2>3, <4>1
    <3> QED
      BY <2>1, <3>2 DEF OpenTasks
  <2>5. TasksKnown' /\ BoxesKnown' /\ Links'
    BY <1>b, <1>c, <1>s, <2>1 DEF TasksKnown, BoxesKnown, Links, Held
  <2> QED
    BY <2>0, <2>4, <2>5
<1> HIDE DEF Rels
<1>9. Rels'
  BY <1>1, <1>3, <1>4, <1>5, <1>6, <1>7, <1>8 DEF MainEffect
<1> QED
  BY <1>9 DEF Rels

\* and the statements of the thread that sends.
LEMMA SenderAgree ==
    ASSUME IInv, Agree, SenderStep
    PROVE  (OpenTasks /\ TasksKnown /\ BoxesKnown /\ Links /\ Torn)'
<1> DEFINE c == sender.conn
           Rels == OpenTasks /\ TasksKnown /\ BoxesKnown /\ Links /\ Torn
<1>0. /\ BooksType /\ link \in [Clients -> {"none", "pending", "open", "cut", "closed"}]
      /\ ThreadType /\ outgoing \in Seq(Addressed) /\ Rels
  BY DEF IInv, TypeOK, NetType, Agree
<1>a. at' = at
  BY DEF SenderStep, client
<1>u. \A t, u \in DOMAIN tasks : tasks[t].box = tasks[u].box => t = u
  BY <1>0 DEF TasksKnown
<1>n. None \notin Clients /\ None \notin Nat
  BY NoneAssumption
<1>f. sender = [at |-> sender.at, conn |-> sender.conn, tasks |-> sender.tasks,
                size |-> sender.size, box |-> sender.box]
  BY <1>0 DEF ThreadType
<1>r. sender.at \in After =>
         /\ c \in Clients /\ link[c] = "closed" /\ c \notin DOMAIN clients
         /\ \A d \in DOMAIN clients : d # c
  BY <1>0 DEF Links, Torn, After, Held
<1>1. ASSUME TakeNext \/ SendNext \/ SendReset \/ SendBroken PROVE Rels'
  <2>1. /\ UNCHANGED <<clients, tasks, boxTask, mailboxes, boxCounter, link>>
        /\ sender.at \in {"get", "send"} /\ sender.conn = None /\ sender.box = None
    BY <1>0, <1>1 DEF TakeNext, SendNext, SendReset, SendBroken, Sent, books, Torn
  <2>2. \/ sender'.at \in {"get", "send", "dead"} /\ sender'.conn = None /\ sender'.box = None
        \/ /\ sender'.at = "unregister" /\ sender'.box = None
           /\ sender'.conn \in Clients /\ link[sender'.conn] = "open"
    <3>1. CASE TakeNext
      BY <1>0, <1>f, <2>1, <3>1 DEF TakeNext
    <3>2. CASE SendNext \/ SendBroken
      BY <3>2 DEF SendNext, SendBroken, Sent, Sending
    <3>3. CASE SendReset
      <4>0. outgoing # <<>> /\ link[SendTo] = "open"
        BY <3>3 DEF SendReset, Sent
      <4>1. SendTo \in Clients
        <5>1. Head(outgoing) \in Addressed
          BY <1>0, <4>0, HeadTail
        <5> QED
          BY <5>1 DEF SendTo, Addressed
      <4>2. sender'.at = "unregister" /\ sender'.box = None /\ sender'.conn = SendTo
        BY <3>3 DEF SendReset, Sent, Sending
      <4> QED
        BY <4>0, <4>1, <4>2
    <3> QED
      BY <1>1, <3>1, <3>2, <3>3
  <2>3. OpenTasks' /\ TasksKnown' /\ BoxesKnown'
    <3>1. \A t \in DOMAIN tasks : tasks[t].conn \in DOMAIN clients
      BY <1>0, <2>1 DEF TasksKnown, Leaver
    <3> QED
      BY <1>0, <2>1, <2>2, <3>1 DEF OpenTasks, TasksKnown, BoxesKnown, TasksOf, HasBox
  <2>4. Links'
    BY <1>0, <1>a, <1>n, <2>1, <2>2 DEF Links, Held, After
  <2>5. Torn'
    BY <2>2 DEF Torn
  <2> QED
    BY <2>3, <2>4, <2>5
<1>2. ASSUME Unregister \/ CloseHandle PROVE Rels'
  <2>1. /\ UNCHANGED <<clients, tasks, boxTask, mailboxes, boxCounter>>
        /\ c \in Clients /\ sender.box = None
    BY <1>0, <1>2 DEF Unregister, CloseHandle, books, Torn
  <2>2. \/ /\ sender.at = "unregister" /\ link[c] = "open"
           /\ link' = [link EXCEPT ![c] = "cut"]
           /\ sender'.at = "close" /\ sender'.conn = c /\ sender'.box = None
        \/ /\ sender.at = "unregister" /\ link[c] = "closed" /\ link' = link
           /\ sender'.at = "dead" /\ sender'.conn = None /\ sender'.box = None
        \/ /\ sender.at = "close" /\ link[c] = "cut"
           /\ link' = [link EXCEPT ![c] = "closed"]
           /\ sender'.at = "pop" /\ sender'.conn = c /\ sender'.box = None
    <3>1. CASE Unregister
      BY <1>0, <1>f, <2>1, <3>1 DEF Unregister, Links, Sending
    <3>2. CASE CloseHandle
      BY <1>0, <1>f, <2>1, <3>2 DEF CloseHandle, Links
    <3> QED
      BY <1>2, <3>1, <3>2
  <2>3. \A t \in DOMAIN tasks : tasks[t].conn \in DOMAIN clients
    BY <1>0, <2>2 DEF TasksKnown, Leaver
  <2>4. OpenTasks' /\ TasksKnown' /\ BoxesKnown'
    BY <1>0, <2>1, <2>2, <2>3 DEF OpenTasks, TasksKnown, BoxesKnown, TasksOf, HasBox
  <2>5. Links'
    BY <1>0, <1>a, <1>n, <2>1, <2>2 DEF Links, Held, After
  <2>6. Torn'
    BY <2>1, <2>2 DEF Torn
  <2> QED
    BY <2>4, <2>5, <2>6
<1>3. ASSUME PopClient PROVE Rels'
  <2>1. /\ UNCHANGED <<tasks, boxTask, mailboxes, boxCounter, link>>
        /\ DOMAIN clients' = DOMAIN clients \ {c}
        /\ \A d \in DOMAIN clients' : clients'[d] = clients[d]
        /\ sender.at = "pop" /\ c \in Clients /\ sender.box = None
    BY <1>0, <1>3 DEF PopClient, Without, Torn
  <2>2. /\ sender'.at = "cancel" /\ sender'.conn = c /\ sender'.box = None
        /\ \E more \in SUBSET Late : sender'.tasks = clients[c] \cup more
    BY <1>3, <1>f, <2>1 DEF PopClient
  <2>9. clients[c] \subseteq sender'.tasks /\ sender'.tasks \subseteq clients[c] \cup TasksOf(c)
    BY <2>2 DEF Late
  <2>3. c \in DOMAIN clients /\ clients[c] = {t \in TasksOf(c) : HasBox(t)}
    BY <1>0, <2>1 DEF Links, OpenTasks
  <2>8. Leaver = {} /\ Leaver' = {c}
    BY <2>1, <2>2 DEF Leaver
  <2>4. OpenTasks' /\ TasksKnown' /\ BoxesKnown'
    BY <1>0, <2>1, <2>2, <2>8 DEF OpenTasks, TasksKnown, BoxesKnown, TasksOf, HasBox
  <2>5. Links'
    BY <1>0, <1>a, <2>1, <2>2 DEF Links, Held, After
  <2>6. TasksOf(c)' = TasksOf(c) /\ \A t \in TasksOf(c) : HasBox(t)' <=> HasBox(t)
    BY <2>1, <2>2 DEF TasksOf, HasBox
  <2>7. Torn'
    BY <2>1, <2>2, <2>3, <2>6, <2>9 DEF Torn
  <2> QED
    BY <2>4, <2>5, <2>7
<1>4. ASSUME NEW t \in Tasks, CancelOne(t) PROVE Rels'
  <2>1. /\ UNCHANGED <<clients, tasks, boxTask, boxCounter, link>>
        /\ sender.at = "cancel" /\ t \in sender.tasks /\ sender.box = None
        /\ sender.at \in After
    BY <1>0, <1>4 DEF CancelOne, Torn, After
  <2>2. /\ sender'.conn = c /\ sender'.box = None
        /\ sender'.at \in {"cancel", "dead"}
        /\ sender'.at = "cancel" => sender'.tasks = sender.tasks \ {t}
    BY <1>4, <1>f, <2>1 DEF CancelOne
  <2>3. /\ DOMAIN mailboxes' \subseteq DOMAIN mailboxes
        /\ t \in TasksOf(c) /\ t \in DOMAIN tasks
    BY <1>0, <1>4, <2>1 DEF CancelOne, Without, Torn, TasksOf
  <2>4. \A u \in DOMAIN tasks : u # t => (HasBox(u)' <=> HasBox(u))
    BY <1>u, <1>4, <2>1, <2>3 DEF CancelOne, HasBox, Without
  <2>5. HasBox(t)' => sender'.at = "dead"
    BY <1>4, <2>1, <2>3 DEF CancelOne, HasBox, Without
  <2>6. \A d : TasksOf(d)' = TasksOf(d)
    BY <2>1 DEF TasksOf
  <2>7. OpenTasks'
    <3>1. ASSUME NEW d \in DOMAIN clients PROVE clients[d] = {u \in TasksOf(d)' : HasBox(u)'}
      <4>1. t \notin TasksOf(d)
        BY <1>r, <2>1, <2>3, <3>1 DEF TasksOf
      <4>2. clients[d] = {u \in TasksOf(d) : HasBox(u)} /\ TasksOf(d) \subseteq DOMAIN tasks
        BY <1>0, <3>1 DEF OpenTasks, TasksOf
      <4> QED
        BY <2>4, <2>6, <4>1, <4>2
    <3> QED
      BY <2>1, <3>1 DEF OpenTasks
  <2>8. TasksKnown' /\ BoxesKnown'
    BY <1>0, <2>1, <2>2, <2>3 DEF TasksKnown, BoxesKnown, Leaver
  <2>9. Links'
    BY <1>0, <1>a, <2>1, <2>2 DEF Links, Held, After
  <2>10. Torn'
    <3>1. c \in Clients /\ TasksOf(c) \subseteq DOMAIN tasks
      BY <1>r, <2>1 DEF TasksOf
    <3>2. sender'.at = "cancel" =>
             /\ sender'.tasks \subseteq TasksOf(c)'
             /\ \A u \in TasksOf(c)' : HasBox(u)' => u \in sender'.tasks
      BY <1>0, <2>1, <2>2, <2>4, <2>5, <2>6, <3>1 DEF Torn
    <3> QED
      BY <2>2, <3>1, <3>2 DEF Torn
  <2> QED
    BY <2>7, <2>8, <2>9, <2>10
<1>5. ASSUME Collect \/ Collected PROVE Rels'
  <2>1. /\ UNCHANGED <<clients, tasks, boxTask, mailboxes, boxCounter, link>>
        /\ sender.at \in {"cancel", "collect"} /\ sender.box = None /\ sender.at \in After
        /\ \A t \in TasksOf(c) : ~HasBox(t)
    BY <1>0, <1>5 DEF Collect, Collected, books, Torn, After
  <2>2. /\ sender'.conn = c /\ sender'.box = None
        /\ sender'.at \in {"collect", "forget", "dead"}
        /\ sender'.at = "forget" => sender'.tasks = TasksOf(c)
    BY <1>5, <1>f, <2>1 DEF Collect, Collected
  <2>3. OpenTasks' /\ TasksKnown' /\ BoxesKnown'
    BY <1>0, <2>1, <2>2 DEF OpenTasks, TasksKnown, BoxesKnown, Leaver, TasksOf, HasBox
  <2>4. Links'
    BY <1>0, <1>a, <2>1, <2>2 DEF Links, Held, After
  <2>5. TasksOf(c)' = TasksOf(c) /\ \A t \in TasksOf(c) : HasBox(t)' <=> HasBox(t)
    BY <2>1, <2>2 DEF TasksOf, HasBox
  <2>6. Torn'
    BY <1>r, <2>1, <2>2, <2>5 DEF Torn
  <2> QED
    BY <2>3, <2>4, <2>6
<1>6. ASSUME NEW t \in Tasks, ForgetTask(t) PROVE Rels'
  <2>1. /\ UNCHANGED <<clients, boxTask, mailboxes, boxCounter, link>>
        /\ DOMAIN tasks' = DOMAIN tasks \ {t}
        /\ \A u \in DOMAIN tasks' : tasks'[u] = tasks[u]
        /\ sender.at = "forget" /\ t \in sender.tasks /\ sender.box = None
        /\ sender.at \in After /\ sender.tasks = TasksOf(c)
        /\ \A u \in TasksOf(c) : ~HasBox(u)
    BY <1>0, <1>6 DEF ForgetTask, Torn, After, Without
  <2>2. /\ sender'.conn = c /\ sender'.box = tasks[t].box /\ sender'.at = "unbox"
        /\ sender'.tasks = sender.tasks \ {t}
    BY <1>6, <1>f, <2>1 DEF ForgetTask
  <2>3. /\ t \in DOMAIN tasks /\ tasks[t].conn = c /\ tasks[t].box \notin DOMAIN mailboxes
        /\ tasks[t].box \in DOMAIN boxTask /\ boxTask[tasks[t].box] = t
        /\ tasks[t].box \in Nat /\ tasks[t].box < boxCounter
    BY <1>0, <2>1 DEF TasksOf, HasBox, TasksKnown, BooksType
  <2>4. \A d : TasksOf(d)' = TasksOf(d) \ {t}
    BY <2>1 DEF TasksOf
  <2>5. \A u \in DOMAIN tasks' : u \in DOMAIN tasks /\ u # t /\ (HasBox(u)' <=> HasBox(u))
    BY <2>1 DEF HasBox
  <2>6. OpenTasks'
    <3>1. ASSUME NEW d \in DOMAIN clients PROVE clients[d] = {u \in TasksOf(d)' : HasBox(u)'}
      <4>1. t \notin TasksOf(d)
        BY <1>r, <2>1, <2>3, <3>1 DEF TasksOf
      <4>2. clients[d] = {u \in TasksOf(d) : HasBox(u)} /\ TasksOf(d)' \subseteq DOMAIN tasks'
        BY <1>0, <3>1 DEF OpenTasks, TasksOf
      <4> QED
        BY <2>4, <2>5, <4>1, <4>2
    <3> QED
      BY <2>1, <3>1 DEF OpenTasks
  <2>7. TasksKnown'
    BY <1>0, <2>1, <2>2, <2>5 DEF TasksKnown, Leaver
  <2>8. BoxesKnown'
    <3>1. ASSUME NEW b \in DOMAIN boxTask \ {tasks[t].box}
          PROVE  boxTask[b] \in DOMAIN tasks' /\ tasks'[boxTask[b]].box = b
      <4>1. b # sender.box
        BY <1>0, <1>n, <2>1 DEF BooksType
      <4>2. boxTask[b] \in DOMAIN tasks /\ tasks[boxTask[b]].box = b
        BY <1>0, <4>1 DEF BoxesKnown
      <4> QED
        BY <2>1, <3>1, <4>2
    <3>2. DOMAIN mailboxes \subseteq DOMAIN boxTask \ {tasks[t].box}
      BY <1>0, <2>3 DEF BoxesKnown
    <3> QED
      BY <2>1, <2>2, <3>1, <3>2 DEF BoxesKnown
  <2>9. Links'
    BY <1>0, <1>a, <2>1, <2>2 DEF Links, Held, After
  <2>10. Torn'
    <3>1. \A u \in DOMAIN tasks' : tasks'[u].box # tasks[t].box
      BY <1>u, <2>1, <2>3
    <3>2. \A u \in TasksOf(c) \ {t} : u \in DOMAIN tasks' /\ ~HasBox(u)'
      BY <2>1, <2>5 DEF TasksOf
    <3>3. c \in Clients
      BY <1>r, <2>1
    <3> QED
      BY <2>1, <2>2, <2>3, <2>4, <3>1, <3>2, <3>3 DEF Torn
  <2> QED
    BY <2>6, <2>7, <2>8, <2>9, <2>10
<1>7. ASSUME ForgetBox PROVE Rels'
  <2>1. /\ UNCHANGED <<clients, tasks, mailboxes, boxCounter, link>>
        /\ DOMAIN boxTask' = DOMAIN boxTask \ {sender.box}
        /\ \A b \in DOMAIN boxTask' : boxTask'[b] = boxTask[b]
        /\ sender.at = "unbox" /\ sender.at \in After /\ sender.tasks = TasksOf(c)
        /\ \A u \in TasksOf(c) : ~HasBox(u)
        /\ \A u \in DOMAIN tasks : tasks[u].box # sender.box
    BY <1>0, <1>7 DEF ForgetBox, Torn, After, Without
  <2>2. /\ sender'.conn = c /\ sender'.box = None /\ sender'.at = "forget"
        /\ sender'.tasks = sender.tasks
    BY <1>7, <1>f, <2>1 DEF ForgetBox
  <2>3. OpenTasks'
    BY <1>0, <2>1 DEF OpenTasks, TasksOf, HasBox
  <2>4. TasksKnown'
    BY <1>0, <2>1, <2>2 DEF TasksKnown, Leaver
  <2>5. BoxesKnown'
    BY <1>0, <1>n, <2>1, <2>2 DEF BoxesKnown, BooksType
  <2>6. Links'
    BY <1>0, <1>a, <2>1, <2>2 DEF Links, Held, After
  <2>7. TasksOf(c)' = TasksOf(c) /\ \A t \in TasksOf(c) : HasBox(t)' <=> HasBox(t)
    BY <2>1, <2>2 DEF TasksOf, HasBox
  <2>8. Torn'
    BY <1>r, <2>1, <2>2, <2>7 DEF Torn
  <2> QED
    BY <2>3, <2>4, <2>5, <2>6, <2>8
<1>8. ASSUME Released PROVE Rels'
  <2>1. /\ UNCHANGED <<clients, tasks, boxTask, mailboxes, boxCounter, link>>
        /\ sender.at = "forget" /\ sender.box = None /\ TasksOf(c) = {}
    BY <1>0, <1>8 DEF Released, books, Torn
  <2>2. sender'.at = "get" /\ sender'.conn = None /\ sender'.box = None
    BY <1>8 DEF Released, Sending
  <2>3. \A t \in DOMAIN tasks : tasks[t].conn \in DOMAIN clients
    BY <1>0, <2>1 DEF TasksKnown, Leaver, TasksOf
  <2>4. OpenTasks' /\ TasksKnown' /\ BoxesKnown'
    BY <1>0, <2>1, <2>2, <2>3 DEF OpenTasks, TasksKnown, BoxesKnown, TasksOf, HasBox
  <2>5. Links'
    BY <1>0, <1>a, <1>n, <2>1, <2>2 DEF Links, Held, After
  <2>6. Torn'
    BY <2>2 DEF Torn
  <2> QED
    BY <2>4, <2>5, <2>6
<1> HIDE DEF Rels
<1>10. \/ TakeNext \/ SendNext \/ SendReset \/ SendBroken
       \/ Unregister \/ CloseHandle
       \/ PopClient
       \/ \E t \in Tasks : CancelOne(t)
       \/ Collect \/ Collected
       \/ \E t \in Tasks : ForgetTask(t)
       \/ ForgetBox \/ Released
  BY DEF SenderStep
<1>9. Rels'
  BY <1>1, <1>2, <1>3, <1>4, <1>5, <1>6, <1>7, <1>8, <1>10
<1> QED
  BY <1>9 DEF Rels

\* Together they are every step.
LEMMA AgreeStep ==
    ASSUME IInv, [Next]_vars, Effect, UpEffect, srv' # "down"
    PROVE  Agree'
<1>1. srv # "down"
  BY DEF Effect, MainEffect, Stopping, Connecting, Accepting, Leaving, Forget, Submitting,
     Marking, Ending, Rest, SenderStep
<1>2. Agree
  BY <1>1 DEF IInv
<1>3. Drawn'
  BY <1>2, DrawnStep
<1>4. (OpenTasks /\ TasksKnown /\ BoxesKnown /\ Links /\ Torn)'
  BY <1>2, MainAgree, SenderAgree DEF Effect, Stopping
<1> QED
  BY <1>3, <1>4 DEF Agree

-----------------------------------------------------------------------------
(* The queues and connections.                                             *)

\* The variables of NetType that a server step may change beside up.
ServerNet ==
    /\ srv \in {"running", "key error", "raced", "worker error", "down"}
    /\ link \in [Clients -> {"none", "pending", "open", "cut", "closed"}]
    /\ outgoing \in Seq(Addressed)
    /\ down \in [Clients -> Seq(ToClient)]

\* A reply or report is a message to a client.
LEMMA MsgType ==
    ASSUME NEW type \in Replies \cup Reports, NEW t \in Tasks \cup {None}
    PROVE  Msg(type, t) \in ToClient
BY DEF Msg, ToClient

\* Stopping the server keeps the types of the queues and connections;
LEMMA ErrorNet ==
    ASSUME ServerNet, NEW why \in {"key error", "raced", "worker error"}, SystemError(why)
    PROVE  ServerNet'
<1>1. Msg("ERROR", None) \in ToClient
  BY MsgType DEF Reports
<1>2. ASSUME NEW c \in Clients PROVE Append(down[c], Msg("ERROR", None)) \in Seq(ToClient)
  BY <1>1, AppendIn DEF ServerNet
<1>3. down' \in [Clients -> Seq(ToClient)]
  BY <1>2 DEF SystemError, ServerNet
<1> QED
  BY <1>3 DEF SystemError, ServerNet

\* so does forgetting a client,
LEMMA ForgetNet ==
    ASSUME ServerNet, NEW c \in Clients, Forget(c)
    PROVE  /\ srv' \in {"running", "key error", "raced", "worker error", "down"}
           /\ link' \in [Clients -> {"none", "pending", "open", "cut", "closed"}]
BY DEF Forget, ServerNet

\* disconnecting it,
LEMMA DisconnectNet ==
    ASSUME ServerNet, NEW c \in Clients, Disconnect(c)
    PROVE  ServerNet'
<1>1. CASE KeyError \/ Raced
  BY <1>1, ErrorNet DEF KeyError, Raced
<1>2. CASE ~(KeyError \/ Raced)
  BY <1>2, ForgetNet DEF Disconnect, ServerNet
<1> QED
  BY <1>1, <1>2

\* A step that only adds a message to the outgoing queue.
LEMMA EnqueueNet ==
    ASSUME ServerNet, NEW c \in Clients, NEW type \in Replies \cup Reports,
           NEW t \in Tasks \cup {None}, Enqueue(c, type, t), UNCHANGED <<srv, link, down>>
    PROVE  ServerNet'
BY OutAppend DEF ServerNet

\* handling any message of a client,
LEMMA HandleClientNet ==
    ASSUME IInv, NEW c \in Clients, HandleClient(c)
    PROVE  ServerNet'
<1>0. ServerNet /\ BooksType /\ up \in [Clients -> Seq(AsksOf)]
  BY DEF IInv, TypeOK, NetType, ServerNet
<1> DEFINE t == Asked(c)
<1>1. CASE HandleConnect(c)
  BY <1>0, <1>1, EnqueueNet DEF HandleConnect, Replies
<1>2. CASE HandleDisconnect(c)
  BY <1>0, <1>2, DisconnectNet DEF HandleDisconnect
<1>3. CASE HandleEOF(c)
  BY <1>0, <1>3, DisconnectNet DEF HandleEOF
<1>4. CASE HandleSubmit(c)
  BY <1>0, <1>4 DEF HandleSubmit, ServerNet
<1>5. CASE HandleRequest(c)
  <2>1. CASE KeyError
    BY <1>0, <2>1, ErrorNet DEF KeyError
  <2>4. CASE Disconnect(c)
    BY <1>0, <2>4, DisconnectNet
  <2>2. CASE ~Known(c, t) /\ ~Disconnect(c)
    <3>1. Forget(c) /\ UNCHANGED outgoing
      BY <1>5, <2>2 DEF HandleRequest, RequestUnknown
    <3>2. \/ down' = down
          \/ down' = [down EXCEPT ![c] = Append(@, Msg("ERROR", None))]
      BY <1>5, <2>2 DEF HandleRequest, RequestUnknown
    <3>3. Msg("ERROR", None) \in ToClient /\ down \in [Clients -> Seq(ToClient)]
      BY <1>0, MsgType DEF Reports, ServerNet
    <3>4. [down EXCEPT ![c] = Append(@, Msg("ERROR", None))] \in [Clients -> Seq(ToClient)]
      BY <3>3, DownAppend
    <3> QED
      BY <1>0, <3>1, <3>2, <3>3, <3>4, ForgetNet DEF ServerNet
  <2>3. CASE Known(c, t) /\ ~KeyError
    <3>1. t \in Tasks
      BY <1>0, <2>3 DEF Known, BooksType
    <3>2. CASE Ship(c, t)
      BY <1>0, <3>1, <3>2, EnqueueNet DEF Ship, Deliver, Replies
    <3>3. CASE NoteWaiting(c, t)
      BY <1>0, <3>3 DEF NoteWaiting, ServerNet
    <3> QED
      BY <1>5, <2>3, <3>2, <3>3 DEF HandleRequest
  <2> QED
    BY <2>1, <2>2, <2>3, <2>4
<1>6. CASE HandleStatus(c)
  <2>1. CASE KeyError
    BY <1>0, <2>1, ErrorNet DEF KeyError
  <2>2. CASE ~KeyError
    <3>1. HasBox(t)
      BY <1>6, <2>2 DEF HandleStatus
    <3> DEFINE unknown == IF Known(c, t) THEN <<>> ELSE <<To(c, "STATUS", t)>>
    <3>2. To(c, "STATUS", t) \in Addressed
      BY <1>0, <3>1, MsgType DEF To, Addressed, Replies, HasBox, BooksType
    <3>3. outgoing' = outgoing \o unknown \o <<To(c, "STATUS", t)>>
          /\ UNCHANGED <<srv, link, down>>
      BY <1>6, <2>2 DEF HandleStatus
    <3>4. <<To(c, "STATUS", t)>> \in Seq(Addressed) /\ unknown \in Seq(Addressed)
      BY <3>2
    <3>5. outgoing \in Seq(Addressed)
      BY <1>0 DEF ServerNet
    <3> HIDE DEF unknown
    <3>6. outgoing \o unknown \in Seq(Addressed)
      BY <3>4, <3>5, ConcatProperties
    <3>7. outgoing' \in Seq(Addressed)
      BY <3>3, <3>4, <3>6, ConcatProperties
    <3> QED
      BY <1>0, <3>3, <3>7 DEF ServerNet
  <2> QED
    BY <2>1, <2>2
<1>7. CASE HandleCancel(c)
  <2>1. CASE KeyError
    BY <1>0, <2>1, ErrorNet DEF KeyError
  <2>2. CASE ~KeyError
    <3>1. HasBox(t) /\ Cancel(tasks[t].conn, t)
      BY <1>7, <2>2 DEF HandleCancel
    <3>2. t \in Tasks /\ tasks[t].conn \in Clients
      BY <1>0, <3>1 DEF HasBox, BooksType
    <3>3. CASE UNCHANGED outgoing
      BY <1>0, <3>1, <3>3 DEF Cancel, ServerNet
    <3>4. CASE Enqueue(tasks[t].conn, "CANCEL", t)
      BY <1>0, <3>1, <3>2, <3>4, EnqueueNet DEF Cancel, Replies
    <3> QED
      BY <3>1, <3>3, <3>4 DEF Cancel
  <2> QED
    BY <2>1, <2>2
<1>8. CASE HandleClosed(c) \/ OvertakenAsk(c)
  BY <1>0, <1>8, ErrorNet DEF HandleClosed, OvertakenAsk, Raced
<1> QED
  BY <1>1, <1>2, <1>3, <1>4, <1>5, <1>6, <1>7, <1>8 DEF HandleClient

\* handling any message of the workers,
LEMMA WorkerMessageNet ==
    ASSUME IInv, WorkerMessage
    PROVE  ServerNet' /\ reported' \in [Boxes -> SUBSET Reports]
<1>0. /\ ServerNet /\ BooksType /\ reported \in [Boxes -> SUBSET Reports]
      /\ \A b \in DOMAIN boxTask : boxTask[b] \in Tasks
      /\ \A t \in DOMAIN tasks : tasks[t].conn \in Clients
  BY DEF IInv, TypeOK, NetType, ServerNet, BooksType
<1>1. ASSUME NEW b \in Boxes, HandleResult(b) PROVE ServerNet'
  <2>1. CASE UNCHANGED <<srv, link, outgoing, down>>
    BY <1>0, <2>1 DEF ServerNet
  <2>2. CASE KeyError \/ Raced
    BY <1>0, <2>2, ErrorNet DEF KeyError, Raced
  <2>3. CASE ~(KeyError \/ Raced) /\ ~UNCHANGED <<srv, link, outgoing, down>>
    <3>1. /\ b \in DOMAIN boxTask /\ boxTask[b] \in DOMAIN tasks
          /\ Deliver(boxTask[b], b, tasks[boxTask[b]].conn)
          /\ UNCHANGED <<srv, link, down>>
      BY <1>1, <2>3 DEF HandleResult, books
    <3>2. /\ boxTask[b] \in Tasks /\ tasks[boxTask[b]].conn \in Clients
          /\ Enqueue(tasks[boxTask[b]].conn, "RESULT", boxTask[b])
      BY <1>0, <3>1 DEF Deliver
    <3> QED
      BY <1>0, <3>1, <3>2, EnqueueNet DEF Replies
  <2> QED
    BY <2>1, <2>2, <2>3
<1>2. ASSUME NEW b \in Boxes, NEW type \in {"ERROR", "LOG"}, HandleReport(b, type)
      PROVE  ServerNet'
  <2>1. CASE UNCHANGED <<srv, link, outgoing, down>>
    BY <1>0, <2>1 DEF ServerNet
  <2>2. CASE KeyError \/ Raced
    BY <1>0, <2>2, ErrorNet DEF KeyError, Raced
  <2>3. CASE ~(KeyError \/ Raced) /\ ~UNCHANGED <<srv, link, outgoing, down>>
    <3>1. /\ boxTask[b] \in Tasks /\ tasks[boxTask[b]].conn \in Clients
          /\ Enqueue(tasks[boxTask[b]].conn, type, boxTask[b])
          /\ UNCHANGED <<srv, link, down>>
      BY <1>0, <1>2, <2>3 DEF HandleReport
    <3> QED
      BY <1>0, <3>1, EnqueueNet DEF Reports
  <2> QED
    BY <2>1, <2>2, <2>3
<1>3. ASSUME HandleSystemError PROVE ServerNet' /\ reported' \in [Boxes -> SUBSET Reports]
  BY <1>0, <1>3, ErrorNet DEF HandleSystemError
<1>4. ASSUME NEW b \in Boxes, NEW type \in Reports, Report(b, type)
      PROVE  reported' \in [Boxes -> SUBSET Reports]
  BY <1>0, <1>4 DEF Report
<1>5. ASSUME NEW b \in Boxes, HandleResult(b)
      PROVE  reported' \in [Boxes -> SUBSET Reports]
  BY <1>4, <1>5 DEF HandleResult, Reports
<1>6. ASSUME NEW b \in Boxes, NEW type \in {"ERROR", "LOG"}, HandleReport(b, type)
      PROVE  reported' \in [Boxes -> SUBSET Reports]
  BY <1>4, <1>6 DEF HandleReport, Reports
<1>7. ASSUME NEW b \in Boxes, NEW type \in Reports, OvertakenReport(b, type)
      PROVE  ServerNet' /\ reported' \in [Boxes -> SUBSET Reports]
  BY <1>0, <1>4, <1>7, ErrorNet DEF OvertakenReport, Raced
<1> QED
  BY <1>1, <1>2, <1>3, <1>5, <1>6, <1>7 DEF WorkerMessage

\* and a client that drops its connection.
LEMMA LeaveNet ==
    ASSUME ServerNet, reported \in [Boxes -> SUBSET Reports],
           NEW c \in Clients, Leave(c)
    PROVE  ServerNet' /\ reported' \in [Boxes -> SUBSET Reports]
<1>1. down \in [Clients -> Seq(ToClient)] /\ down' = [down EXCEPT ![c] = <<>>]
  BY DEF Leave, ServerNet
<1>2. <<>> \in Seq(ToClient)
  OBVIOUS
<1>3. down' \in [Clients -> Seq(ToClient)]
  BY <1>1, <1>2
<1>4. UNCHANGED <<srv, link, outgoing, reported>>
  BY DEF Leave
<1> QED
  BY <1>3, <1>4 DEF ServerNet

\* A call leaves, connects, or touches only what the client sends.
LEMMA CallsNet ==
    ASSUME NEW c \in Clients, Calls(c)
    PROVE  \/ Leave(c) \/ Connect(c)
           \/ UNCHANGED <<srv, link, outgoing, down, reported>>
<1>1. CASE CallFails(c) \/ Die(c)
  BY <1>1 DEF CallFails, Die
<1>2. CASE Close(c)
  <2>1. CASE link[c] = "closed"
    BY <1>2, <2>1 DEF Close
  <2>2. CASE link[c] # "closed"
    BY <1>2, <2>2 DEF Close
  <2> QED
    BY <2>1, <2>2
<1>3. CASE Connect(c)
  BY <1>3
<1>4. ASSUME NEW t \in Tasks, Submit(c, t)
      PROVE  UNCHANGED <<srv, link, outgoing, down, reported>>
  BY <1>4 DEF Submit
<1>5. ASSUME NEW t \in Tasks, Status(c, t)
      PROVE  UNCHANGED <<srv, link, outgoing, down, reported>>
  BY <1>5 DEF Status, Await
<1>6. ASSUME NEW t \in Tasks, CancelTask(c, t)
      PROVE  UNCHANGED <<srv, link, outgoing, down, reported>>
  BY <1>6 DEF CancelTask, Await
<1>7. ASSUME NEW t \in Tasks, NEW drain \in BOOLEAN, Result(c, t, drain)
      PROVE  UNCHANGED <<srv, link, outgoing, down, reported>>
  BY <1>7 DEF Result, Await
<1> QED
  BY <1>1, <1>2, <1>3, <1>4, <1>5, <1>6, <1>7 DEF Calls

\* A receiving client leaves, waits, or takes one message.
LEMMA ReceivesNet ==
    ASSUME NEW c \in Clients, Receives(c)
    PROVE  \/ Leave(c)
           \/ UNCHANGED <<srv, link, outgoing, down, reported>>
           \/ /\ down[c] # <<>> /\ Consume(c)
              /\ UNCHANGED <<srv, link, outgoing, reported>>
<1>1. CASE Recv(c)
  <2>1. CASE First(c).type = "ERROR"
    BY <1>1, <2>1 DEF Recv
  <2>2. CASE First(c).type # "ERROR"
    BY <1>1, <2>2 DEF Recv
  <2> QED
    BY <2>1, <2>2
<1>2. CASE RecvEOF(c)
  BY <1>2 DEF RecvEOF
<1>3. CASE Return(c)
  BY <1>3 DEF Return
<1>4. CASE Drained(c)
  BY <1>4 DEF Drained
<1>5. CASE DrainRaises(c)
  <2>1. CASE down[c] = <<>>
    BY <1>5, <2>1 DEF DrainRaises
  <2>2. CASE down[c] # <<>>
    BY <1>5, <2>2 DEF DrainRaises
  <2> QED
    BY <2>1, <2>2
<1>6. CASE Closed(c)
  BY <1>6 DEF Closed
<1> QED
  BY <1>1, <1>2, <1>3, <1>4, <1>5, <1>6 DEF Receives

\* Every step keeps the types of the queues and connections.
LEMMA NetTypeStep ==
    ASSUME IInv, [Next]_vars, UpEffect
    PROVE  NetType'
<1>0. NetType /\ ServerNet /\ reported \in [Boxes -> SUBSET Reports]
  BY DEF IInv, TypeOK, NetType, ServerNet
<1>1. up' \in [Clients -> Seq(AsksOf)]
  BY UpType
<1> DEFINE Good == ServerNet' /\ reported' \in [Boxes -> SUBSET Reports]
<1>2. ASSUME NEW c \in Clients, Accept(c) PROVE Good
  BY <1>0, <1>2 DEF Accept, ServerNet
<1>3. ASSUME NEW c \in Clients, HandleClient(c) PROVE Good
  <2>1. reported' = reported
    BY <1>3 DEF HandleClient, HandleConnect, HandleDisconnect, HandleEOF, HandleSubmit,
       HandleRequest, HandleStatus, HandleCancel, HandleClosed, OvertakenAsk, Read, Turn
  <2> QED
    BY <1>0, <1>3, <2>1, HandleClientNet
<1>4. ASSUME NEW c \in Clients, Calls(c) PROVE Good
  <2>1. ASSUME Leave(c) PROVE Good
    BY <1>0, <2>1, LeaveNet
  <2>2. ASSUME UNCHANGED <<srv, link, outgoing, down, reported>> PROVE Good
    BY <1>0, <2>2 DEF ServerNet
  <2>3. ASSUME Connect(c) PROVE Good
    BY <1>0, <2>3 DEF Connect, Await, ServerNet
  <2> HIDE DEF Good
  <2> QED
    BY <1>4, <2>1, <2>2, <2>3, CallsNet
<1>5. ASSUME NEW c \in Clients, Receives(c) PROVE Good
  <2>1. ASSUME Leave(c) PROVE Good
    BY <1>0, <2>1, LeaveNet
  <2>2. ASSUME UNCHANGED <<srv, link, outgoing, down, reported>> PROVE Good
    BY <1>0, <2>2 DEF ServerNet
  <2>3. ASSUME down[c] # <<>>, Consume(c), UNCHANGED <<srv, link, outgoing, reported>>
        PROVE  Good
    <3>0. down \in [Clients -> Seq(ToClient)]
      BY <1>0 DEF ServerNet
    <3>1. down' \in [Clients -> Seq(ToClient)]
      BY <3>0, <2>3, DownTail DEF Consume
    <3> QED
      BY <1>0, <2>3, <3>1 DEF ServerNet
  <2> HIDE DEF Good
  <2> QED
    BY <1>5, <2>1, <2>2, <2>3, ReceivesNet
<1>6. ASSUME WorkerMessage PROVE Good
  BY <1>6, WorkerMessageNet
<1>7. ASSUME SenderStep, SendNext PROVE Good
  <2>1. Head(outgoing) \in Addressed /\ Tail(outgoing) \in Seq(Addressed)
    BY <1>0, <1>7, HeadTail DEF SendNext, Sent, ServerNet
  <2> DEFINE c == Head(outgoing).conn
             m == Head(outgoing).msg
  <2>2. c \in Clients /\ m \in ToClient /\ down \in [Clients -> Seq(ToClient)]
    BY <1>0, <2>1 DEF Addressed, ServerNet
  <2>3. down' = down \/ down' = [down EXCEPT ![c] = Append(@, m)]
    BY <1>7 DEF SendNext, SendTo
  <2> HIDE DEF c, m
  <2>4. [down EXCEPT ![c] = Append(@, m)] \in [Clients -> Seq(ToClient)]
    BY <2>2, DownAppend
  <2>5. down' \in [Clients -> Seq(ToClient)]
    BY <2>2, <2>3, <2>4
  <2> QED
    BY <1>0, <1>7, <2>1, <2>5 DEF SenderStep, SendNext, Sent, ServerNet
<1>8. ASSUME SenderStep, ~SendNext PROVE Good
  <2>1. UNCHANGED <<srv, down, reported>>
    BY <1>8 DEF SenderStep, TakeNext, SendReset, SendBroken, Unregister, CloseHandle,
       PopClient, CancelOne, Collect, Collected, ForgetTask, ForgetBox, Released
  <2>2. outgoing' = outgoing \/ (outgoing # <<>> /\ outgoing' = Tail(outgoing))
    BY <1>8 DEF SenderStep, TakeNext, SendReset, SendBroken, Sent, Unregister, CloseHandle,
       PopClient, CancelOne, Collect, Collected, ForgetTask, ForgetBox, Released
  <2>3. outgoing' \in Seq(Addressed)
    BY <1>0, <2>2, HeadTail DEF ServerNet
  <2>4. \/ link' = link
        \/ link' = [link EXCEPT ![sender.conn] = "cut"]
        \/ link' = [link EXCEPT ![sender.conn] = "closed"]
    BY <1>8 DEF SenderStep, TakeNext, SendReset, SendBroken, Sent, Unregister, CloseHandle,
       PopClient, CancelOne, Collect, Collected, ForgetTask, ForgetBox, Released
  <2> QED
    BY <1>0, <2>1, <2>3, <2>4 DEF ServerNet
<1>12. ASSUME Select PROVE Good
  BY <1>0, <1>12 DEF Select, ServerNet
<1>9. ASSUME Shutdown PROVE Good
  BY <1>0, <1>9 DEF Shutdown, ServerNet
<1>10. ASSUME UNCHANGED vars PROVE Good
  BY <1>0, <1>10 DEF vars, ServerNet
<1> HIDE DEF Good
<1>11. Good
  BY <1>2, <1>3, <1>4, <1>5, <1>6, <1>7, <1>8, <1>9, <1>10, <1>12 DEF Next
<1> QED
  BY <1>1, <1>11 DEF Good, ServerNet, NetType

\* The sending thread drops a number it has read, of a task that exists, and
\* goes through the tasks of clients that exist.
LEMMA ThreadTypeStep ==
    ASSUME IInv, [Next]_vars
    PROVE  ThreadType'
<1>0. ThreadType /\ BooksType /\ link \in [Clients -> {"none", "pending", "open", "cut", "closed"}]
  BY DEF IInv, TypeOK, NetType
<1> DEFINE Places == {"get", "send", "unregister", "close", "pop", "cancel",
                      "collect", "forget", "unbox", "dead"}
           Type == [at : Places, conn : Clients \cup {None}, tasks : SUBSET Tasks,
                    size : Nat, box : Nat \cup {None}]
<1>1. sender \in Type
  BY <1>0 DEF ThreadType
<1>2. Sending \in Type
  BY DEF Sending
<1>3. ASSUME SenderStep PROVE sender' \in Type
  <2>a. Agree
    BY <1>3 DEF SenderStep, IInv
  <2>b. \A p \in Places : [sender EXCEPT !.at = p] \in Type /\ [Sending EXCEPT !.at = p] \in Type
    BY <1>1, <1>2
  <2>c. sender.conn \in Clients \cup {None} /\ sender.tasks \in SUBSET Tasks
    BY <1>1
  <2>1. CASE TakeNext
    <3>1. sender' = sender \/ sender' = [sender EXCEPT !.at = "send"]
      BY <2>1 DEF TakeNext
    <3> QED
      BY <1>1, <3>1
  <2>2. CASE SendNext \/ SendBroken
    <3>1. sender' = Sending \/ sender' = [Sending EXCEPT !.at = "dead"]
      BY <2>2 DEF SendNext, SendBroken, Sent
    <3> QED
      BY <1>2, <3>1
  <2>3. CASE SendReset
    <3>1. outgoing # <<>> /\ outgoing \in Seq(Addressed)
      BY <2>3 DEF SendReset, Sent, IInv, TypeOK, NetType
    <3>2. Head(outgoing) \in Addressed
      BY <3>1, HeadTail
    <3>3. SendTo \in Clients
      BY <3>2 DEF SendTo, Addressed
    <3>4. sender' = [Sending EXCEPT !.at = "unregister", !.conn = SendTo]
      BY <2>3 DEF SendReset, Sent
    <3> HIDE DEF Type
    <3>5. [Sending EXCEPT !.at = "unregister", !.conn = SendTo] \in Type
      BY <3>3 DEF Type, Sending
    <3> QED
      BY <3>4, <3>5
  <2>4. CASE Unregister
    <3>1. sender' = [sender EXCEPT !.at = "close"] \/ sender' = [Sending EXCEPT !.at = "dead"]
      BY <2>4 DEF Unregister
    <3> QED
      BY <1>1, <1>2, <3>1
  <2>5. CASE CloseHandle
    BY <2>5, <2>b DEF CloseHandle
  <2>6. CASE PopClient
    <3>1. sender.conn \in DOMAIN clients
      BY <2>a, <2>6 DEF PopClient, Agree, Links, Torn
    <3>2. clients[sender.conn] \in SUBSET Tasks
      BY <1>0, <3>1 DEF BooksType
    <3>3. PICK more \in SUBSET Late :
             sender' = [sender EXCEPT !.at = "cancel", !.tasks = clients[sender.conn] \cup more]
      BY <2>6 DEF PopClient
    <3>4. more \subseteq Tasks
      BY <1>0 DEF Late, TasksOf, BooksType
    <3> QED
      BY <1>1, <3>2, <3>3, <3>4
  <2>7. ASSUME NEW t \in Tasks, CancelOne(t) PROVE sender' \in Type
    <3>1. sender' = [sender EXCEPT !.tasks = @ \ {t}] \/ sender' = [sender EXCEPT !.at = "dead"]
      BY <2>7 DEF CancelOne
    <3>2. [sender EXCEPT !.tasks = @ \ {t}] \in Type
      BY <1>1
    <3> QED
      BY <2>b, <3>1, <3>2
  <2>8. CASE Collect
    <3>1. IsFiniteSet(DOMAIN tasks)
      BY <1>0, FiniteAssumption, FS_Subset DEF BooksType
    <3>2. Cardinality(DOMAIN tasks) \in Nat
      BY <3>1, FS_CardinalityType
    <3>3. sender' = [sender EXCEPT !.at = "collect", !.size = Cardinality(DOMAIN tasks)]
      BY <2>8 DEF Collect
    <3> QED
      BY <1>1, <3>2, <3>3
  <2>9. CASE Collected
    <3>1. TasksOf(sender.conn) \in SUBSET Tasks
      BY <1>0 DEF BooksType, TasksOf
    <3>2. \/ sender' = [sender EXCEPT !.at = "forget", !.tasks = TasksOf(sender.conn)]
          \/ sender' = [sender EXCEPT !.at = "dead"]
      BY <2>9 DEF Collected
    <3>3. [sender EXCEPT !.at = "forget", !.tasks = TasksOf(sender.conn)] \in Type
      BY <1>1, <3>1
    <3> QED
      BY <2>b, <3>2, <3>3
  <2>10. ASSUME NEW t \in Tasks, ForgetTask(t) PROVE sender' \in Type
    <3>1. t \in DOMAIN tasks
      BY <2>a, <2>10 DEF ForgetTask, Agree, Torn, TasksOf
    <3>2. tasks[t].box \in Nat
      BY <1>0, <3>1 DEF BooksType
    <3>3. sender' = [sender EXCEPT !.at = "unbox", !.tasks = @ \ {t}, !.box = tasks[t].box]
      BY <2>10 DEF ForgetTask
    <3> QED
      BY <1>1, <3>2, <3>3
  <2>11. CASE ForgetBox
    <3>1. sender' = [sender EXCEPT !.at = "forget", !.box = None]
      BY <2>11 DEF ForgetBox
    <3> QED
      BY <1>1, <3>1
  <2>12. CASE Released
    BY <1>2, <2>12 DEF Released
  <2> HIDE DEF Type
  <2>13. \/ TakeNext \/ SendNext \/ SendReset \/ SendBroken
         \/ Unregister \/ CloseHandle \/ PopClient
         \/ \E t \in Tasks : CancelOne(t)
         \/ Collect \/ Collected
         \/ \E t \in Tasks : ForgetTask(t)
         \/ ForgetBox \/ Released
    BY <1>3 DEF SenderStep
  <2> QED
    BY <2>1, <2>2, <2>3, <2>4, <2>5, <2>6, <2>7, <2>8, <2>9, <2>10, <2>11, <2>12, <2>13
<1>4. ASSUME ~SenderStep PROVE sender' = sender
  <2>1. Effect
    BY NextEffect
  <2> QED
    BY <1>4, <2>1 DEF Effect, Stopping
<1>5. events' \subseteq Clients
  <2>0. events \subseteq Clients
    BY <1>0 DEF ThreadType
  <2>1. CASE Select
    BY <2>1 DEF Select
  <2>2. ASSUME NEW c \in Clients, HandleClient(c) PROVE events' \subseteq Clients
    <3>1. Turn(c)
      BY <2>2 DEF HandleClient, HandleConnect, HandleDisconnect, HandleEOF, HandleSubmit,
         HandleRequest, HandleStatus, HandleCancel, HandleClosed, OvertakenAsk, Read
    <3> QED
      BY <2>0, <3>1 DEF Turn
  <2>3. ASSUME NEW c \in Clients, Accept(c) PROVE events' = events
    BY <2>3 DEF Accept, threads
  <2>4. ASSUME NEW c \in Clients, Calls(c) PROVE events' = events
    <3>1. CASE Leave(c)
      BY <3>1 DEF Leave, threads
    <3>2. CASE ~Leave(c)
      BY <2>4, <3>2 DEF Calls, Connect, CallFails, Close, Die, Submit, Status, CancelTask,
         Result, Await, threads
    <3> QED
      BY <3>1, <3>2
  <2>5. ASSUME NEW c \in Clients, Receives(c) PROVE events' = events
    BY <2>5 DEF Receives, Recv, RecvEOF, Return, Drained, DrainRaises, Closed, Leave, threads
  <2>6. CASE WorkerMessage
    BY <2>0, <2>6 DEF WorkerMessage, HandleResult, HandleReport, OvertakenReport, HandleSystemError,
       Report, threads
  <2>7. CASE SenderStep \/ Shutdown
    BY <2>0, <2>7 DEF SenderStep, Shutdown, threads
  <2>8. CASE UNCHANGED vars
    BY <2>0, <2>8 DEF vars, threads
  <2> QED
    BY <2>0, <2>1, <2>2, <2>3, <2>4, <2>5, <2>6, <2>7, <2>8 DEF Next
<1> HIDE DEF Type
<1>6. sender' \in Type
  BY <1>1, <1>3, <1>4
<1> QED
  BY <1>5, <1>6 DEF ThreadType, Type

-----------------------------------------------------------------------------
(* Types and dictionaries.                                                 *)

\* The inductive invariant holds initially.
LEMMA InitInv == Init => IInv
<1> SUFFICES ASSUME Init PROVE IInv
  OBVIOUS
<1>1. TypeOK
  BY InitType
<1>2. OpenTasks /\ TasksKnown /\ BoxesKnown /\ Links /\ Torn
  BY NoneAssumption DEF Init, OpenTasks, TasksKnown, BoxesKnown, Links, Held, Torn,
     Sending, NoEntry
<1>3. Drawn
  BY DEF Init, Drawn, Submission, NoEntry
<1> QED
  BY <1>1, <1>2, <1>3 DEF IInv, Agree

\* Every step keeps the inductive invariant.
LEMMA NextInv == IInv /\ [Next]_vars => IInv'
<1> SUFFICES ASSUME IInv, [Next]_vars PROVE IInv'
  OBVIOUS
<1>1. Effect /\ UpEffect
  BY NextEffect, NextUpEffect
<1>2. TypeOK'
  BY <1>1, BooksTypeStep, NetTypeStep, ClientTypeStep, ThreadTypeStep DEF TypeOK, IInv
<1>3. srv' # "down" => Agree'
  BY <1>1, AgreeStep
<1> QED
  BY <1>2, <1>3 DEF IInv

\* Every variable keeps its type, for any clients and tasks; mailbox ids stay
\* below mailbox_counter, so no id is given out twice.
THEOREM TypeCorrect == Spec => []TypeOK
<1>1. IInv => TypeOK
  BY DEF IInv
<1> QED
  BY InitInv, NextInv, <1>1, PTL DEF Spec

\* The four dictionaries of the server agree in every state until it is down or
\* a handler has lost an entry to the sending thread,
\* however many clients submit, ask, cancel, are interrupted and break off, and
\* between the statements of the sending thread: only the one client that this
\* thread is forgetting may be half forgotten.
THEOREM BooksAlwaysAgree == Spec => []BooksAgree
<1>1. IInv => BooksAgree
  BY DEF IInv, Agree, BooksAgree
<1> QED
  BY InitInv, NextInv, <1>1, PTL DEF Spec
-----------------------------------------------------------------------------
(* Careful clients are served.  ClientsServed follows from an invariant    *)
(* that relates, for each client, what it is doing, its queue of questions *)
(* and the replies on their way to it (Net), and, for each task it         *)
(* submitted, the mailbox, the workers' report and what the program has    *)
(* seen (Book).                                                            *)

\* Messages that the server answers; those queued by c.
Asking       == {"CONNECT", "STATUS", "REQUEST", "CANCEL"}
Questions(c) == {m \in Range(up[c]) : m.type \in Asking}
InQueue(c, t) == Msg("SUBMIT", t) \in Range(up[c])

\* Nothing but a DISCONNECT follows a question.
Alone(q) == \A i, j \in DOMAIN q : q[i].type \in Asking /\ j > i => q[j].type = "DISCONNECT"

\* The question to which a client waits for the answer want.
Question(want) == IF want = "READY" THEN "CONNECT"
                  ELSE IF want = "RESULT" THEN "REQUEST" ELSE want

\* The replies to c in the server's queue, and on the connection.
Queued(c)  == Filtered(outgoing, RepliesTo(c))
Arrived(c) == Filtered(down[c], Answers)

\* No reply is on its way to c; the one reply on its way is m.
Quiet(c)   == Queued(c) = <<>> /\ Arrived(c) = <<>> /\ reply[c] = None
Answering(c, m) ==
    \/ Queued(c) = <<[conn |-> c, msg |-> m]>> /\ Arrived(c) = <<>> /\ reply[c] = None
    \/ Queued(c) = <<>> /\ Arrived(c) = <<m>> /\ reply[c] = None
    \/ Queued(c) = <<>> /\ Arrived(c) = <<>> /\ reply[c] = m

\* The reply c waits for.
Wanted(c) == Msg(call[c].want, call[c].task)

\* A client asks one question at a time, about a task it submitted, and
\* waits for the answer.
Sends(c) ==
    /\ Alone(up[c])
    /\ \A m \in Questions(c) : m.type # "CONNECT" => m.task \in sub[c]
    /\ at[c] \in {"off", "idle", "drain"} => Questions(c) = {}
    /\ at[c] = "wait" =>
          /\ call[c].want \in Replies
          /\ Questions(c) \subseteq {Msg(Question(call[c].want), call[c].task)}

\* A client that waits has its question or its answer on the way, never both.
Hears(c) ==
    link[c] # "closed" =>
        /\ at[c] \in {"off", "idle", "drain"} => Quiet(c)
        /\ at[c] = "wait" => Quiet(c) \/ (Questions(c) = {} /\ Answering(c, Wanted(c)))

\* A client the server has not accepted yet.
Newcomer(c) ==
    link[c] \in {"none", "pending"} =>
        sub[c] = {} /\ Quiet(c) /\ at[c] \notin {"idle", "drain"}

\* The call a client is in.
Program(c) ==
    /\ at[c] \in {"off", "idle"} => call[c] = NoCall
    /\ call[c].drain => call[c].want = "RESULT"
    /\ at[c] = "drain" => call[c].drain

Net(c) == Sends(c) /\ Hears(c) /\ Newcomer(c) /\ Program(c)

\* Of a task: its result has arrived; its mailbox holds it; its mailbox notes
\* that a client waits.  Of a client: its program runs; it cancels t.
Reached(t) == "RESULT" \in reported[tasks[t].box]
Ready(t)   == HasBox(t) /\ mailboxes[tasks[t].box].ready
Waiting(t) == HasBox(t) /\ mailboxes[tasks[t].box].waiting
In(c)      == at[c] \in {"idle", "wait", "drain"}
Cancels(c, t) == call[c].want = "CANCEL" /\ call[c].task = t

\* The server finds the task of every status and cancel.
Answerable(c, t) ==
    Held(c) /\ (\E m \in Questions(c) : m.type \in {"STATUS", "CANCEL"} /\ m.task = t)
        => HasBox(t) \/ InQueue(c, t)

\* The server has handled the cancel of t, or has sent its result.
Ended(c, t) ==
    /\ at[c] = "wait" /\ call[c].task = t /\ Questions(c) = {}
    /\ \/ call[c].want = "CANCEL"
       \/ t \in DOMAIN tasks /\ Answering(c, Msg("RESULT", t)) /\ Reached(t)

\* A task that its program has not seen the end of has a mailbox, is still to
\* be submitted, or its end is on the way.
Owned(c, t) ==
    link[c] = "open" /\ In(c) /\ t \notin over => HasBox(t) \/ InQueue(c, t) \/ Ended(c, t)

\* A result that has arrived is in the mailbox or on its way.
Kept(c, t) ==
    t \in DOMAIN tasks /\ Reached(t) /\ In(c) /\ t \notin over /\ ~Cancels(c, t)
        => Ready(t) \/ Answering(c, Msg("RESULT", t))

\* A client is noted as waiting only while it waits for that result, or leaves.
Marked(c, t) ==
    Waiting(t) =>
        /\ Questions(c) = {} /\ at[c] \in {"wait", "closing", "gone"}
        /\ at[c] = "wait" => call[c].task = t /\ call[c].want = "RESULT" /\ Quiet(c)

\* The server knows t as a task of c; a mailbox holds only what has arrived.
Home(c, t) == t \in DOMAIN tasks => tasks[t].conn = c
Noted(t)   == Ready(t) => Reached(t)

Book(c, t) ==
    /\ Home(c, t) /\ Noted(t) /\ Answerable(c, t) /\ Owned(c, t) /\ Kept(c, t) /\ Marked(c, t)

\* What the invariant says of one client.
Served(c) == Net(c) /\ (srv = "running" => \A t \in sub[c] : Book(c, t))

\* The sending thread forgets only clients that have left.
Severed == /\ sender.conn # None => at[sender.conn] = "gone"
           /\ \A c \in Clients : link[c] = "cut" => at[c] = "gone"

\* No task has two clients (uuid4).
Own     == \A c, d \in Clients : c # d => sub[c] \cap sub[d] = {}

\* Every mailbox id stands for a task that left the queues, so ids stay among
\* Boxes; the workers have sent nothing for the ids not given out.
Handled == {t \in Tasks : /\ \E c \in Clients : t \in sub[c]
                          /\ \A c \in Clients : ~InQueue(c, t)}
Bound   == boxCounter <= Cardinality(Handled)
Fresh   == \A b \in Boxes : b >= boxCounter => reported[b] = {}

-----------------------------------------------------------------------------
(* Queues.                                                                 *)

\* A message is its type and its task.
LEMMA AskingTypes ==
    /\ \A m \in AsksOf : m.type = "CONNECT" \/ m.type = "DISCONNECT" => m.task = None
    /\ \A m \in AsksOf : m = Msg(m.type, m.task)
    /\ \A x, t, y, u : Msg(x, t) = Msg(y, u) => x = y /\ t = u
    /\ \A x, t : Msg(x, t).type = x /\ Msg(x, t).task = t
<1>1. \A m \in AsksOf : m = [type |-> m.type, task |-> m.task]
  BY DEF AsksOf
<1>2. \A m \in AsksOf : m.type = "CONNECT" \/ m.type = "DISCONNECT" => m.task = None
  BY DEF AsksOf
<1>3. \A x, t : Msg(x, t).type = x /\ Msg(x, t).task = t
  BY DEF Msg
<1>4. \A x, t, y, u : Msg(x, t) = Msg(y, u) => x = y /\ t = u
  BY <1>3
<1> QED
  BY <1>1, <1>2, <1>3, <1>4 DEF Msg

\* What follows the head of a queue of a client still has its question alone.
LEMMA AloneTail ==
    ASSUME NEW q \in Seq(AsksOf), q # <<>>, Alone(q)
    PROVE  /\ Alone(Tail(q)) /\ Alone(<<>>)
           /\ Head(q).type \in Asking => \A m \in Range(Tail(q)) : m.type = "DISCONNECT"
<1>1. /\ Tail(q) \in Seq(AsksOf) /\ Len(Tail(q)) = Len(q) - 1 /\ Head(q) = q[1]
      /\ \A k \in 1 .. Len(Tail(q)) : Tail(q)[k] = q[k + 1]
  BY HeadTailProperties
<1>2. /\ Len(q) \in Nat /\ Len(q) > 0
      /\ DOMAIN q = 1 .. Len(q) /\ DOMAIN Tail(q) = 1 .. Len(q) - 1
  BY <1>1, LenProperties
<1> DEFINE s == Tail(q)
<1>a. /\ DOMAIN s = 1 .. Len(q) - 1 /\ \A k \in 1 .. Len(q) - 1 : s[k] = q[k + 1]
  BY <1>1, <1>2
<1> HIDE DEF s
<1>3. Alone(s)
  <2> SUFFICES ASSUME NEW i \in DOMAIN s, NEW j \in DOMAIN s, s[i].type \in Asking, j > i
               PROVE  s[j].type = "DISCONNECT"
    BY DEF Alone
  <2>1. i + 1 \in DOMAIN q /\ j + 1 \in DOMAIN q /\ j + 1 > i + 1
    BY <1>2, <1>a
  <2>2. s[i] = q[i + 1] /\ s[j] = q[j + 1]
    BY <1>a
  <2> QED
    BY <2>1, <2>2 DEF Alone
<1>4. Alone(<<>>)
  BY DEF Alone
<1>5. ASSUME Head(q).type \in Asking, NEW m \in Range(s) PROVE m.type = "DISCONNECT"
  <2>1. PICK k \in DOMAIN s : m = s[k]
    BY <1>5 DEF Range
  <2>2. m = q[k + 1] /\ k + 1 \in DOMAIN q /\ 1 \in DOMAIN q /\ k + 1 > 1
    BY <2>1, <1>2, <1>a
  <2> QED
    BY <2>2, <1>1, <1>5 DEF Alone
<1> QED
  BY <1>3, <1>4, <1>5 DEF s

\* A client that has no question in its queue may add a message.
LEMMA AloneAppend ==
    ASSUME NEW q \in Seq(AsksOf), NEW m \in AsksOf, Alone(q),
           m.type = "DISCONNECT" \/ (\A x \in Range(q) : x.type \notin Asking)
    PROVE  Alone(Append(q, m))
<1> DEFINE s == Append(q, m)
<1>1. /\ Len(s) = Len(q) + 1 /\ s \in Seq(AsksOf)
      /\ \A k \in 1 .. Len(q) : s[k] = q[k]
      /\ s[Len(q) + 1] = m
  BY AppendProperties
<1>2. Len(q) \in Nat /\ DOMAIN q = 1 .. Len(q) /\ DOMAIN s = 1 .. Len(q) + 1
  BY <1>1, LenProperties
<1> HIDE DEF s
<1> SUFFICES ASSUME NEW i \in DOMAIN s, NEW j \in DOMAIN s, s[i].type \in Asking, j > i
             PROVE  s[j].type = "DISCONNECT"
  BY DEF Alone, s
<1>3. i \in DOMAIN q /\ s[i] = q[i] /\ s[i] \in Range(q)
  <2>1. i \in DOMAIN q
    BY <1>2
  <2> QED
    BY <2>1, <1>1, <1>2 DEF Range
<1>4. CASE j \in DOMAIN q
  BY <1>1, <1>2, <1>3, <1>4 DEF Alone
<1>5. CASE j \notin DOMAIN q
  <2>1. j = Len(q) + 1
    BY <1>2, <1>5
  <2> QED
    BY <2>1, <1>1, <1>3
<1> QED
  BY <1>4, <1>5

\* What the server takes from the queue of c was asked by c.
LEMMA TakeUp ==
    ASSUME up \in [Clients -> Seq(AsksOf)], NEW c \in Clients, up[c] # <<>>,
           up' = [up EXCEPT ![c] = Tail(@)]
    PROVE  /\ Range(up[c]) = Range(up[c])' \cup {Head(up[c])}
           /\ Head(up[c]) \in AsksOf
           /\ Alone(up[c]) => /\ Alone(up[c])'
                              /\ Head(up[c]).type \in Asking =>
                                    \A m \in Range(up[c])' : m.type = "DISCONNECT"
<1>1. up[c] \in Seq(AsksOf) /\ up'[c] = Tail(up[c])
  OBVIOUS
<1>2. Range(up[c]) = Range(Tail(up[c])) \cup {Head(up[c])} /\ Head(up[c]) \in AsksOf
  BY <1>1, RangeTail
<1>3. Alone(up[c]) => /\ Alone(Tail(up[c]))
                      /\ Head(up[c]).type \in Asking =>
                            \A m \in Range(Tail(up[c])) : m.type = "DISCONNECT"
  BY <1>1, AloneTail
<1>4. Range(up[c])' = Range(Tail(up[c])) /\ (Alone(up[c])' <=> Alone(Tail(up[c])))
  BY <1>1 DEF Alone, Range
<1> QED
  BY <1>2, <1>3, <1>4

\* What a client puts in its queue.
LEMMA PutUp ==
    ASSUME up \in [Clients -> Seq(AsksOf)], NEW c \in Clients, NEW m \in AsksOf,
           up' = [up EXCEPT ![c] = Append(@, m)]
    PROVE  /\ Range(up[c])' = Range(up[c]) \cup {m}
           /\ Alone(up[c]) /\ (m.type = "DISCONNECT" \/ Questions(c) = {}) => Alone(up[c])'
<1>1. up[c] \in Seq(AsksOf) /\ up'[c] = Append(up[c], m)
  OBVIOUS
<1>2. Range(Append(up[c], m)) = Range(up[c]) \cup {m}
  BY <1>1, RangeAppend
<1>3. Questions(c) = {} => \A x \in Range(up[c]) : x.type \notin Asking
  BY DEF Questions
<1>4. Alone(up[c]) /\ (m.type = "DISCONNECT" \/ Questions(c) = {}) => Alone(Append(up[c], m))
  BY <1>1, <1>3, AloneAppend
<1>5. Range(up[c])' = Range(Append(up[c], m)) /\ (Alone(up[c])' <=> Alone(Append(up[c], m)))
  BY <1>1 DEF Alone, Range
<1> QED
  BY <1>2, <1>4, <1>5

-----------------------------------------------------------------------------
(* Replies on their way.                                                   *)

\* The replies on their way to c are the same.
SameMail(c) == /\ Queued(c)' = Queued(c) /\ Arrived(c)' = Arrived(c)
               /\ reply[c]' = reply[c]

\* A reply may move on, but none appears or, if c still reads, is lost.
MailKept(c) ==
    /\ Quiet(c) => Quiet(c)'
    /\ link[c] = "open" /\ at[c] # "gone" =>
          \A m : Answering(c, m) => Answering(c, m)'

\* Replies that do not move are kept.
LEMMA SameMailKept ==
    ASSUME NEW c, SameMail(c)
    PROVE  /\ Quiet(c) <=> Quiet(c)'
           /\ \A m : Answering(c, m) <=> Answering(c, m)'
           /\ MailKept(c)
BY DEF SameMail, MailKept, Quiet, Answering

\* FilteredFew, for one list.
LEMMA FilteredAppend ==
    ASSUME NEW A, NEW S, NEW q \in Seq(A), NEW x \in A
    PROVE  Filtered(Append(q, x), S) = IF x \in S THEN Append(Filtered(q, S), x)
                                       ELSE Filtered(q, S)
<1>1. /\ \A y \in A : Filtered(<<y>>, S) = IF y \in S THEN <<y>> ELSE <<>>
      /\ \A p \in Seq(A), y \in A :
            Filtered(Append(p, y), S) = IF y \in S THEN Append(Filtered(p, S), y)
                                        ELSE Filtered(p, S)
      /\ \A p \in Seq(A) : p # <<>> =>
            Filtered(p, S) = IF Head(p) \in S THEN <<Head(p)>> \o Filtered(Tail(p), S)
                             ELSE Filtered(Tail(p), S)
  BY FilteredFew, Zenon
<1> QED
  BY <1>1

\* And taking the head of a list.
LEMMA FilteredHead ==
    ASSUME NEW A, NEW S, NEW q \in Seq(A), q # <<>>
    PROVE  /\ Filtered(q, S) = IF Head(q) \in S THEN <<Head(q)>> \o Filtered(Tail(q), S)
                               ELSE Filtered(Tail(q), S)
           /\ Filtered(Tail(q), S) \in Seq(A)
<1>1. \A p \in Seq(A) : p # <<>> =>
         Filtered(p, S) = IF Head(p) \in S THEN <<Head(p)>> \o Filtered(Tail(p), S)
                          ELSE Filtered(Tail(p), S)
  BY FilteredFew, Zenon
<1>2. Tail(q) \in Seq(A)
  BY HeadTail
<1> QED
  BY <1>1, <1>2, FilteredRange

\* A list of one element is its head and nothing more.
LEMMA OneElement ==
    /\ \A m : Append(<<>>, m) = <<m>> /\ <<m>> # <<>>
    /\ \A A : \A s \in Seq(A) : \A h, m : h \in A /\ <<h>> \o s = <<m>> => h = m /\ s = <<>>
    /\ \A A : \A s \in Seq(A) : \A h \in A : <<h>> \o s # <<>>
<1>1. \A m : Append(<<>>, m) = <<m>> /\ <<m>> # <<>>
  OBVIOUS
<1>2. ASSUME NEW A, NEW s \in Seq(A), NEW h \in A
      PROVE  Len(<<h>> \o s) = 1 + Len(s) /\ (<<h>> \o s)[1] = h /\ Len(s) \in Nat
  <2>1. <<h>> \in Seq(A) /\ Len(<<h>>) = 1 /\ <<h>>[1] = h
    OBVIOUS
  <2>2. /\ Len(<<h>> \o s) = Len(<<h>>) + Len(s)
        /\ (<<h>> \o s)[1] = <<h>>[1] /\ Len(s) \in Nat
    BY <2>1, ConcatProperties, LenProperties
  <2> QED
    BY <2>1, <2>2
<1>3. ASSUME NEW A, NEW s \in Seq(A), NEW h \in A, NEW m, <<h>> \o s = <<m>>
      PROVE  h = m /\ s = <<>>
  <2>1. Len(<<m>>) = 1 /\ <<m>>[1] = m
    OBVIOUS
  <2>2. Len(<<h>> \o s) = 1 + Len(s) /\ (<<h>> \o s)[1] = h /\ Len(s) \in Nat
    BY <1>2
  <2> DEFINE z == <<h>> \o s  y == <<m>>
  <2>3. /\ Len(z) = 1 + Len(s) /\ z[1] = h /\ Len(s) \in Nat
        /\ z = y /\ Len(y) = 1 /\ y[1] = m
    BY <2>1, <2>2, <1>3
  <2> HIDE DEF z, y
  <2>4. h = m
    BY <2>3
  <2>5. Len(s) = 0
    <3>1. Len(y) = 1 + Len(s)
      BY <2>3
    <3> QED
      BY <2>3, <3>1
  <2> QED
    BY <2>4, <2>5
<1>4. ASSUME NEW A, NEW s \in Seq(A), NEW h \in A PROVE <<h>> \o s # <<>>
  <2>1. Len(<<>>) = 0
    OBVIOUS
  <2> QED
    BY <1>2, <2>1
<1> QED
  BY <1>1, <1>3, <1>4

\* Which messages are replies to c.
LEMMA IsReply ==
    ASSUME NEW c, NEW d, NEW m \in ToClient
    PROVE  /\ [conn |-> d, msg |-> m] \in RepliesTo(c) <=> d = c /\ m.type \in Replies
           /\ m \in Answers <=> m.type \in Replies
<1>1. m = [type |-> m.type, task |-> m.task] /\ m.task \in Tasks \cup {None}
  BY DEF ToClient
<1>2. m \in Answers <=> m.type \in Replies
  BY <1>1 DEF Answers
<1>3. [conn |-> d, msg |-> m].conn = d /\ [conn |-> d, msg |-> m].msg = m
  OBVIOUS
<1> HIDE DEF Answers
<1>4. [conn |-> d, msg |-> m] \in RepliesTo(c) <=> d = c /\ m \in Answers
  BY <1>3 DEF RepliesTo
<1> QED
  BY <1>2, <1>4

\* A reply put in the outgoing queue is on its way to its client only.
LEMMA EnqueueMail ==
    ASSUME outgoing \in Seq(Addressed), NEW c \in Clients,
           NEW type \in Replies \cup Reports, NEW t \in Tasks \cup {None},
           Enqueue(c, type, t), UNCHANGED <<down, reply>>
    PROVE  /\ \A d \in Clients : d # c \/ type \notin Replies => SameMail(d)
           /\ type \in Replies /\ Quiet(c) => Answering(c, Msg(type, t))'
<1>1. /\ Msg(type, t) \in ToClient /\ To(c, type, t) = [conn |-> c, msg |-> Msg(type, t)]
      /\ Msg(type, t).type = type
  BY MsgType DEF To, Msg
<1>2. To(c, type, t) \in Addressed
  BY <1>1 DEF Addressed
<1>3. \A d : To(c, type, t) \in RepliesTo(d) <=> d = c /\ type \in Replies
  BY <1>1, IsReply
<1>4. outgoing' = Append(outgoing, To(c, type, t))
  BY DEF Enqueue
<1>5. ASSUME NEW d \in Clients
      PROVE  /\ Arrived(d)' = Arrived(d) /\ reply[d]' = reply[d]
             /\ Queued(d)' = Filtered(outgoing', RepliesTo(d))
  BY DEF Arrived, Queued, Answers, RepliesTo
<1>6. ASSUME NEW d \in Clients, d # c \/ type \notin Replies PROVE SameMail(d)
  <2>1. Filtered(outgoing', RepliesTo(d)) = Filtered(outgoing, RepliesTo(d))
    BY <1>2, <1>3, <1>4, <1>6, FilteredAppend
  <2> QED
    BY <2>1, <1>5 DEF SameMail, Queued
<1>7. ASSUME type \in Replies, Quiet(c) PROVE Answering(c, Msg(type, t))'
  <2>1. Filtered(outgoing', RepliesTo(c)) = Append(Filtered(outgoing, RepliesTo(c)), To(c, type, t))
    BY <1>2, <1>3, <1>4, <1>7, FilteredAppend
  <2>2. Queued(c)' = <<To(c, type, t)>>
    BY <2>1, <1>5, <1>7, OneElement DEF Quiet, Queued
  <2>3. Queued(c)' = <<[conn |-> c, msg |-> Msg(type, t)]>>
    BY <2>2, <1>1
  <2>4. Arrived(c)' = <<>> /\ reply[c]' = None
    BY <1>5, <1>7 DEF Quiet
  <2> QED
    BY <2>3, <2>4 DEF Answering
<1> QED
  BY <1>6, <1>7

\* send_outgoing takes the head of its queue and moves it on, if its client
\* still reads.
Passed ==
    /\ outgoing # <<>> /\ outgoing' = Tail(outgoing)
    /\ IF link[SendTo] = "open" /\ at[SendTo] # "gone"
       THEN down' = [down EXCEPT ![SendTo] = Append(@, Head(outgoing).msg)]
       ELSE UNCHANGED down

\* A reply so moved is kept.
LEMMA SendMail ==
    ASSUME IInv, Passed, UNCHANGED reply, NEW d \in Clients
    PROVE  MailKept(d)
<1> DEFINE h == Head(outgoing)
<1>0. /\ outgoing \in Seq(Addressed) /\ outgoing # <<>>
      /\ down \in [Clients -> Seq(ToClient)]
      /\ outgoing' = Tail(outgoing)
      /\ IF link[h.conn] = "open" /\ at[h.conn] # "gone"
         THEN down' = [down EXCEPT ![h.conn] = Append(@, h.msg)]
         ELSE UNCHANGED down
      /\ reply' = reply
  BY DEF IInv, TypeOK, NetType, Passed, SendTo
<1>1. /\ h \in Addressed /\ Tail(outgoing) \in Seq(Addressed)
  BY <1>0, HeadTail
<1>2. PICK c \in Clients, m \in ToClient : h = [conn |-> c, msg |-> m]
  BY <1>1 DEF Addressed
<1>3. h.conn = c /\ h.msg = m
  BY <1>2
<1>4. h \in RepliesTo(d) <=> d = c /\ m.type \in Replies
  BY <1>2, IsReply
<1>5. Filtered(outgoing, RepliesTo(d)) = IF h \in RepliesTo(d)
          THEN <<h>> \o Filtered(Tail(outgoing), RepliesTo(d))
          ELSE Filtered(Tail(outgoing), RepliesTo(d))
  BY <1>0, FilteredHead
<1>6. /\ Queued(d)' = Filtered(Tail(outgoing), RepliesTo(d))
      /\ Arrived(d)' = Filtered(down'[d], Answers) /\ reply[d]' = reply[d]
  BY <1>0 DEF Arrived, Queued, Answers, RepliesTo
<1>7. down' = IF link[c] = "open" /\ at[c] # "gone"
              THEN [down EXCEPT ![c] = Append(@, m)] ELSE down
  BY <1>0, <1>3
<1> HIDE DEF h
<1>8. CASE h \notin RepliesTo(d)
  <2>1. Queued(d)' = Queued(d)
    BY <1>5, <1>6, <1>8 DEF Queued
  <2>2. Arrived(d)' = Arrived(d)
    <3>1. CASE down'[d] = down[d]
      BY <3>1, <1>6 DEF Arrived
    <3>2. CASE d = c /\ down'[d] = Append(down[d], m)
      <4>1. m \notin Answers
        BY <3>2, <1>4, <1>8, IsReply
      <4>2. Filtered(Append(down[d], m), Answers) = Filtered(down[d], Answers)
        BY <1>0, <4>1, FilteredAppend
      <4> QED
        BY <4>2, <3>2, <1>6 DEF Arrived
    <3>3. down'[d] = down[d] \/ (d = c /\ down'[d] = Append(down[d], m))
      BY <1>0, <1>7
    <3> QED
      BY <3>1, <3>2, <3>3
  <2> QED
    BY <2>1, <2>2, <1>6, SameMailKept DEF SameMail
<1>9. CASE h \in RepliesTo(d)
  <2>1. d = c /\ m \in Answers
    BY <1>4, <1>9, IsReply
  <2>2. Queued(d) = <<h>> \o Queued(d)'
    BY <1>5, <1>6, <1>9 DEF Queued
  <2>3. Queued(d)' \in Seq(Addressed)
    <3>1. Filtered(Tail(outgoing), RepliesTo(d)) \in Seq(Addressed)
      BY <1>1, FilteredRange
    <3> QED
      BY <3>1, <1>6
  <2>4. ~Quiet(d)
    BY <2>2, <2>3, <1>1, OneElement DEF Quiet
  <2>5. ASSUME link[d] = "open" /\ at[d] # "gone", NEW x, Answering(d, x)
        PROVE  Answering(d, x)'
    <3>1. Queued(d) # <<>>
      BY <2>2, <2>3, <1>1, OneElement
    <3>2. /\ Queued(d) = <<[conn |-> d, msg |-> x]>> /\ Arrived(d) = <<>> /\ reply[d] = None
      BY <3>1, <2>5 DEF Answering
    <3>3. h = [conn |-> d, msg |-> x] /\ Queued(d)' = <<>>
      BY <3>2, <2>2, <2>3, <1>1, OneElement
    <3>4. x = m
      BY <3>3, <1>3
    <3>5. down'[d] = Append(down[d], m) /\ down[d] \in Seq(ToClient)
      BY <1>0, <1>7, <2>1, <2>5
    <3>6. Filtered(Append(down[d], m), Answers) = Append(Filtered(down[d], Answers), m)
      BY <3>5, <2>1, FilteredAppend
    <3>7. Arrived(d)' = <<m>>
      BY <3>2, <3>5, <3>6, <1>6, OneElement DEF Arrived
    <3> QED
      BY <3>2, <3>3, <3>4, <3>7, <1>6 DEF Answering
  <2> QED
    BY <2>4, <2>5 DEF MailKept
<1> QED
  BY <1>8, <1>9

\* The system error sent to every client is not a reply.
LEMMA ErrorMail ==
    ASSUME IInv, NEW why, SystemError(why), UNCHANGED reply, NEW d \in Clients
    PROVE  SameMail(d)
<1>0. down \in [Clients -> Seq(ToClient)] /\ outgoing' = outgoing
  BY DEF IInv, TypeOK, NetType, SystemError
<1>1. Msg("ERROR", None) \in ToClient /\ Msg("ERROR", None) \notin Answers
  <2>1. Msg("ERROR", None) \in ToClient /\ Msg("ERROR", None).type \notin Replies
    BY MsgType DEF Reports, Msg, Replies
  <2> QED
    BY <2>1, IsReply
<1>2. down'[d] = down[d] \/ down'[d] = Append(down[d], Msg("ERROR", None))
  BY DEF SystemError
<1>3. Filtered(Append(down[d], Msg("ERROR", None)), Answers) = Filtered(down[d], Answers)
  BY <1>0, <1>1, FilteredAppend
<1>4. Arrived(d)' = Filtered(down'[d], Answers) /\ Queued(d)' = Queued(d)
  BY <1>0 DEF Arrived, Queued, Answers, RepliesTo
<1> QED
  BY <1>2, <1>3, <1>4 DEF SameMail, Arrived

\* A client that receives takes the reply, and logs are not replies.
LEMMA RecvMail ==
    ASSUME IInv, NEW c \in Clients, Recv(c), First(c).type # "ERROR", NEW d \in Clients
    PROVE  MailKept(d)
<1>0. /\ down \in [Clients -> Seq(ToClient)] /\ down[c] # <<>>
      /\ reply \in [Clients -> ToClient \cup {None}]
      /\ outgoing' = outgoing /\ down' = [down EXCEPT ![c] = Tail(@)]
      /\ reply' = IF Head(down[c]).type = "LOG" THEN reply
                  ELSE [reply EXCEPT ![c] = Head(down[c])]
  BY DEF IInv, TypeOK, NetType, ClientType, Recv, Consume, First
<1>1. /\ Arrived(d)' = Filtered(down'[d], Answers) /\ Queued(d)' = Queued(d)
  BY <1>0 DEF Arrived, Queued, Answers, RepliesTo
<1>2. CASE d # c
  BY <1>0, <1>1, <1>2, SameMailKept DEF SameMail, Arrived
<1>3. CASE d = c
  <2>1. /\ down[c] \in Seq(ToClient) /\ Head(down[c]) \in ToClient
        /\ Tail(down[c]) \in Seq(ToClient) /\ down'[c] = Tail(down[c])
    BY <1>0, HeadTail
  <2>2. Filtered(down[c], Answers) = IF Head(down[c]) \in Answers
            THEN <<Head(down[c])>> \o Filtered(Tail(down[c]), Answers)
            ELSE Filtered(Tail(down[c]), Answers)
    BY <1>0, <2>1, FilteredHead
  <2>3. CASE Head(down[c]).type = "LOG"
    <3>1. Head(down[c]) \notin Answers
      BY <2>1, <2>3, IsReply DEF Replies
    <3> QED
      BY <3>1, <2>1, <2>2, <2>3, <1>0, <1>1, <1>3, SameMailKept DEF SameMail, Arrived
  <2>4. CASE Head(down[c]).type # "LOG"
    <3>1. Head(down[c]) \in Answers
      <4>1. Head(down[c]).type \in Replies
        BY <2>1, <2>4 DEF ToClient, Replies, Reports, First
      <4> QED
        BY <4>1, <2>1, IsReply
    <3>2. Arrived(c) = <<Head(down[c])>> \o Arrived(c)' /\ Arrived(c)' \in Seq(ToClient)
      BY <3>1, <2>1, <2>2, <1>1, <1>3, FilteredRange DEF Arrived
    <3>3. reply[c]' = Head(down[c])
      BY <2>4, <1>0
    <3>4. Arrived(c) # <<>>
      BY <2>1, <3>2, OneElement
    <3>5. ASSUME NEW m, Answering(c, m) PROVE Answering(c, m)'
      <4>1. Arrived(c) = <<m>> /\ Queued(c) = <<>>
        BY <3>4, <3>5 DEF Answering
      <4>2. m = Head(down[c]) /\ Arrived(c)' = <<>>
        BY <4>1, <3>2, <2>1, OneElement
      <4> QED
        BY <4>1, <4>2, <3>3, <1>1, <1>3 DEF Answering
    <3> QED
      BY <3>4, <3>5, <1>3 DEF MailKept, Quiet
  <2> QED
    BY <2>3, <2>4
<1> QED
  BY <1>2, <1>3

-----------------------------------------------------------------------------
(* What a step leaves alone.                                               *)

\* What the server knows of t is the same.
BoxSame(t) ==
    /\ t \in DOMAIN tasks' <=> t \in DOMAIN tasks
    /\ t \in DOMAIN tasks => tasks'[t] = tasks[t]
    /\ HasBox(t)' <=> HasBox(t)
    /\ HasBox(t) => mailboxes'[tasks[t].box] = mailboxes[tasks[t].box]

\* And what the workers have sent for it.
TaskSame(t) ==
    BoxSame(t) /\ (t \in DOMAIN tasks => (Reached(t)' <=> Reached(t)))

\* Client c does nothing, nothing is done to its connection, and its replies
\* are kept.
Stays(c) == /\ at'[c] = at[c] /\ call'[c] = call[c] /\ up'[c] = up[c]
            /\ sub'[c] = sub[c] /\ link'[c] = link[c] /\ over \subseteq over'
            /\ MailKept(c)

\* What TaskSame keeps.
LEMMA TaskSameFacts ==
    ASSUME NEW t, TaskSame(t)
    PROVE  /\ Ready(t)' <=> Ready(t)
           /\ Waiting(t)' <=> Waiting(t)
           /\ t \in DOMAIN tasks' <=> t \in DOMAIN tasks
           /\ t \in DOMAIN tasks => tasks'[t].conn = tasks[t].conn /\ (Reached(t)' <=> Reached(t))
           /\ HasBox(t)' <=> HasBox(t)
<1>1. HasBox(t) => t \in DOMAIN tasks /\ tasks'[t] = tasks[t]
  BY DEF HasBox, BoxSame, TaskSame
<1>2. Ready(t)' <=> Ready(t)
  BY <1>1 DEF Ready, BoxSame, TaskSame
<1>3. Waiting(t)' <=> Waiting(t)
  BY <1>1 DEF Waiting, BoxSame, TaskSame
<1> QED
  BY <1>2, <1>3 DEF BoxSame, TaskSame

\* What Stays keeps.
LEMMA StaysSame ==
    ASSUME NEW c, Stays(c)
    PROVE  /\ Questions(c)' = Questions(c) /\ In(c)' = In(c) /\ Wanted(c)' = Wanted(c)
           /\ \A t : InQueue(c, t)' <=> InQueue(c, t)
           /\ \A t : Cancels(c, t)' <=> Cancels(c, t)
           /\ Alone(up[c])' <=> Alone(up[c])
BY DEF Stays, Questions, In, Wanted, InQueue, Cancels, Alone, Range, Msg, Asking

\* A client that stays keeps Net.
LEMMA StaysNet ==
    ASSUME NEW c, Stays(c), Net(c), link[c] \in {"none", "pending", "open", "cut", "closed"},
           link[c] = "cut" => at[c] = "gone"
    PROVE  Net(c)'
<1>0. /\ Questions(c)' = Questions(c) /\ Wanted(c)' = Wanted(c)
      /\ Alone(up[c])' <=> Alone(up[c])
      /\ at'[c] = at[c] /\ call'[c] = call[c] /\ sub'[c] = sub[c] /\ link'[c] = link[c]
      /\ Quiet(c) => Quiet(c)'
  BY StaysSame DEF Stays, MailKept
<1>1. Sends(c)'
  BY <1>0 DEF Net, Sends, Msg, Question, Replies
<1>2. Newcomer(c)'
  BY <1>0 DEF Net, Newcomer
<1>3. Program(c)'
  BY <1>0 DEF Net, Program, NoCall
<1>4. Hears(c)'
  <2> SUFFICES ASSUME link[c] # "closed"
               PROVE  /\ at[c] \in {"off", "idle", "drain"} => Quiet(c)'
                      /\ at[c] = "wait" =>
                            Quiet(c)' \/ (Questions(c)' = {} /\ Answering(c, Wanted(c))')
    BY <1>0 DEF Hears
  <2>1. at[c] \in {"off", "idle", "drain"} => Quiet(c)'
    BY <1>0 DEF Net, Hears
  <2>2. ASSUME at[c] = "wait", ~Quiet(c)' PROVE Questions(c)' = {} /\ Answering(c, Wanted(c))'
    <3>1. ~Quiet(c)
      BY <1>0, <2>2
    <3>2. Questions(c) = {} /\ Answering(c, Wanted(c))
      BY <2>2, <3>1 DEF Net, Hears
    <3>3. link[c] \notin {"none", "pending"}
      BY <3>1 DEF Net, Newcomer
    <3>4. PICK m : m = Wanted(c)
      OBVIOUS
    <3>5. Answering(c, m) => Answering(c, m)'
      BY <2>2, <3>3 DEF Stays, MailKept
    <3>6. Answering(c, m)'
      BY <3>2, <3>4, <3>5
    <3> QED
      BY <1>0, <3>2, <3>4, <3>6
  <2> QED
    BY <2>1, <2>2
<1> QED
  BY <1>1, <1>2, <1>3, <1>4 DEF Net

\* A client that stays keeps Book of a task that is the same.
LEMMA StaysBook ==
    ASSUME NEW c, NEW t, Stays(c), TaskSame(t), Book(c, t),
           t \in DOMAIN tasks => link[c] = "open" \/ at[c] = "gone"
    PROVE  Book(c, t)'
<1>0. /\ Questions(c)' = Questions(c) /\ In(c)' = In(c)
      /\ InQueue(c, t)' <=> InQueue(c, t)
      /\ Cancels(c, t)' <=> Cancels(c, t)
      /\ at'[c] = at[c] /\ call'[c] = call[c] /\ link'[c] = link[c]
      /\ t \notin over' => t \notin over
      /\ Quiet(c) => Quiet(c)'
  BY StaysSame DEF Stays, MailKept
<1>1. /\ Ready(t)' <=> Ready(t)
      /\ Waiting(t)' <=> Waiting(t)
      /\ t \in DOMAIN tasks' <=> t \in DOMAIN tasks
      /\ t \in DOMAIN tasks => tasks'[t].conn = tasks[t].conn /\ (Reached(t)' <=> Reached(t))
      /\ HasBox(t)' <=> HasBox(t)
  BY TaskSameFacts
<1>2. PICK m : m = Msg("RESULT", t)
  OBVIOUS
<1>3. In(c) /\ link[c] = "open" /\ Answering(c, m) => Answering(c, m)'
  BY DEF Stays, MailKept, In
<1>4. In(c) /\ link[c] = "open" /\ Answering(c, Msg("RESULT", t)) => Answering(c, Msg("RESULT", t))'
  BY <1>2, <1>3
<1>5. Home(c, t)' /\ Noted(t)'
  BY <1>1 DEF Book, Home, Noted, Ready, HasBox
<1>6. Answerable(c, t)'
  BY <1>0, <1>1 DEF Book, Answerable, Held
<1>7. Owned(c, t)'
  <2> SUFFICES ASSUME link[c] = "open", In(c), t \notin over'
               PROVE  HasBox(t)' \/ InQueue(c, t)' \/ Ended(c, t)'
    BY <1>0 DEF Owned
  <2>1. HasBox(t) \/ InQueue(c, t) \/ Ended(c, t)
    BY <1>0 DEF Book, Owned
  <2>2. Ended(c, t) => Ended(c, t)'
    BY <1>0, <1>1, <1>4 DEF Ended
  <2> QED
    BY <2>1, <2>2, <1>0, <1>1
<1>8. Kept(c, t)'
  <2>1. In(c) => at[c] # "gone"
    BY DEF In
  <2> QED
    BY <2>1, <1>0, <1>1, <1>4 DEF Book, Kept
<1>9. Marked(c, t)'
  BY <1>0, <1>1 DEF Book, Marked
<1> QED
  BY <1>5, <1>6, <1>7, <1>8, <1>9 DEF Book

-----------------------------------------------------------------------------
(* What follows from the invariant.                                        *)

\* The inductive invariant, for careful clients.
SInv == /\ IInv /\ Careful /\ NoKeyError /\ Own /\ Bound /\ Fresh /\ Severed
        /\ \A c \in Clients : Served(c)

\* The parts of the invariant that the steps use.
LEMMA Facts ==
    ASSUME SInv
    PROVE  /\ up \in [Clients -> Seq(AsksOf)]
           /\ outgoing \in Seq(Addressed)
           /\ down \in [Clients -> Seq(ToClient)]
           /\ link \in [Clients -> {"none", "pending", "open", "cut", "closed"}]
           /\ at \in [Clients -> {"off", "idle", "wait", "drain", "closing", "gone"}]
           /\ sub \in [Clients -> SUBSET Tasks]
           /\ reported \in [Boxes -> SUBSET Reports]
           /\ reply \in [Clients -> ToClient \cup {None}]
           /\ BooksType /\ (srv # "down" => Agree) /\ (srv = "running" => Agree)
           /\ \A c \in Clients : link[c] = "cut" => at[c] = "gone"
           /\ sender.conn \in Clients => at[sender.conn] = "gone"
           /\ \A c \in Clients : Net(c)
           /\ \A c, d \in Clients, t \in Tasks : t \in sub[c] /\ t \in sub[d] => c = d
<1>1. /\ up \in [Clients -> Seq(AsksOf)]
      /\ outgoing \in Seq(Addressed)
      /\ down \in [Clients -> Seq(ToClient)]
      /\ link \in [Clients -> {"none", "pending", "open", "cut", "closed"}]
      /\ reported \in [Boxes -> SUBSET Reports]
  BY DEF SInv, IInv, TypeOK, NetType
<1>2. /\ at \in [Clients -> {"off", "idle", "wait", "drain", "closing", "gone"}]
      /\ sub \in [Clients -> SUBSET Tasks]
      /\ reply \in [Clients -> ToClient \cup {None}]
  BY DEF SInv, IInv, TypeOK, ClientType
<1>3. /\ BooksType /\ (srv # "down" => Agree) /\ (srv = "running" => Agree)
      /\ \A c \in Clients : Net(c)
  BY DEF SInv, IInv, TypeOK, Served
<1>4. \A c, d \in Clients, t \in Tasks : t \in sub[c] /\ t \in sub[d] => c = d
  BY DEF SInv, Own
<1>5. /\ \A c \in Clients : link[c] = "cut" => at[c] = "gone"
      /\ sender.conn \in Clients => at[sender.conn] = "gone"
  BY NoneAssumption DEF SInv, Severed
<1> QED
  BY <1>1, <1>2, <1>3, <1>4, <1>5

\* While the server runs each task it knows is one its client submitted.
LEMMA Owner ==
    ASSUME SInv, srv = "running"
    PROVE  /\ \A c \in Clients, t \in Tasks : t \in sub[c] => Book(c, t)
           /\ \A t \in DOMAIN tasks : /\ t \in Tasks /\ tasks[t].conn \in Clients
                                      /\ t \in sub[tasks[t].conn]
                                      /\ \/ link[tasks[t].conn] = "open"
                                         \/ at[tasks[t].conn] = "gone"
                                      /\ tasks[t].box \in Nat /\ tasks[t].box < boxCounter
           /\ \A c \in Clients, t \in Tasks : t \in sub[c] /\ t \in DOMAIN tasks =>
                                      /\ tasks[t].conn = c
                                      /\ link[c] = "open" \/ at[c] = "gone"
           /\ \A t, u \in DOMAIN tasks : tasks[t].box = tasks[u].box => t = u
<1>0. Agree /\ BooksType
  BY Facts
<1>1. \A c \in Clients, t \in Tasks : t \in sub[c] => Book(c, t)
  BY DEF SInv, Served
<1>2. ASSUME NEW t \in DOMAIN tasks
      PROVE  /\ t \in Tasks /\ tasks[t].conn \in Clients
             /\ t \in sub[tasks[t].conn]
             /\ link[tasks[t].conn] = "open" \/ at[tasks[t].conn] = "gone"
             /\ tasks[t].box \in Nat /\ tasks[t].box < boxCounter
  <2>1. t \in Tasks /\ tasks[t].conn \in Clients
    BY <1>0 DEF BooksType
  <2>2. PICK d \in Clients : t \in sub[d]
    BY <1>0 DEF Agree, Drawn
  <2>3. tasks[t].conn = d
    BY <1>1, <2>1, <2>2 DEF Book, Home
  <2>4. link[tasks[t].conn] = "open" \/ at[tasks[t].conn] = "gone"
    <3>1. CASE tasks[t].conn = sender.conn
      BY <2>1, <3>1, Facts
    <3>2. CASE tasks[t].conn # sender.conn
      <4>1. tasks[t].conn \in DOMAIN clients
        BY <1>0, <3>2 DEF Agree, TasksKnown, Leaver
      <4> QED
        BY <4>1, <3>2, <1>0, <2>1 DEF Agree, Links, Held
    <3> QED
      BY <3>1, <3>2
  <2>5. tasks[t].box \in 0 .. boxCounter - 1 /\ boxCounter \in Nat
    BY <1>0 DEF Agree, TasksKnown, BooksType
  <2> QED
    BY <2>1, <2>2, <2>3, <2>4, <2>5
<1>3. \A c \in Clients, t \in Tasks : t \in sub[c] /\ t \in DOMAIN tasks => tasks[t].conn = c
  BY <1>1 DEF Book, Home
<1>4. \A t, u \in DOMAIN tasks : tasks[t].box = tasks[u].box => t = u
  BY <1>0 DEF Agree, TasksKnown
<1> QED
  BY <1>1, <1>2, <1>3, <1>4

\* A client that stays, with all its tasks, stays served.
LEMMA OthersServed ==
    ASSUME SInv, NEW d \in Clients, Stays(d),
           srv' = "running" => srv = "running" /\ \A t \in sub[d] : TaskSame(t)
    PROVE  Served(d)'
<1>1. Net(d)'
  BY Facts, StaysNet
<1>2. ASSUME srv' = "running", NEW t \in sub'[d] PROVE Book(d, t)'
  <2>1. t \in sub[d] /\ t \in Tasks
    BY Facts DEF Stays
  <2>2. /\ Book(d, t) /\ TaskSame(t)
        /\ t \in DOMAIN tasks => link[d] = "open" \/ at[d] = "gone"
    BY <1>2, <2>1, Owner
  <2> QED
    BY <2>2, StaysBook
<1> QED
  BY <1>1, <1>2 DEF Served

\* No reply is on its way to a client for which none is.
LEMMA QuietSilent ==
    ASSUME NEW c, NEW m \in ToClient, Quiet(c)
    PROVE  ~Answering(c, m)
<1>1. m # None
  BY MessageAssumption
<1>2. <<m>> # <<>> /\ <<[conn |-> c, msg |-> m]>> # <<>>
  BY OneElement
<1> QED
  BY <1>1, <1>2 DEF Quiet, Answering

\* A result is a message to a client.
LEMMA ResultMsg == \A t \in Tasks : Msg("RESULT", t) \in ToClient
BY MsgType DEF Replies
-----------------------------------------------------------------------------
(* The effects on the dictionaries, for the tasks they are not about.      *)

\* A step that is not a report changes no report.
LEMMA BoxReached ==
    ASSUME NEW t, BoxSame(t), reported' = reported
    PROVE  TaskSame(t)
BY DEF BoxSame, TaskSame, Reached

\* A step that leaves the books changes no task.
LEMMA SameBooks ==
    ASSUME NEW t, UNCHANGED <<tasks, mailboxes>>
    PROVE  BoxSame(t)
BY DEF BoxSame, HasBox

\* The end of t changes no other task.
LEMMA EndingSame ==
    ASSUME SInv, srv = "running", NEW t \in Tasks, Ending(t), NEW u \in Tasks, u # t
    PROVE  BoxSame(u)
<1>1. /\ tasks' = tasks /\ mailboxes' = Without(mailboxes, {tasks[t].box})
      /\ t \in DOMAIN tasks
  BY DEF Ending, Rest, HasBox
<1>2. u \in DOMAIN tasks => tasks[u].box # tasks[t].box
  BY <1>1, Owner
<1>3. /\ DOMAIN mailboxes' = DOMAIN mailboxes \ {tasks[t].box}
      /\ \A b \in DOMAIN mailboxes' : mailboxes'[b] = mailboxes[b]
  BY <1>1 DEF Without
<1>4. HasBox(u)' <=> HasBox(u)
  BY <1>1, <1>2, <1>3 DEF HasBox
<1>5. HasBox(u) => mailboxes'[tasks[u].box] = mailboxes[tasks[u].box]
  BY <1>1, <1>2, <1>3 DEF HasBox
<1> QED
  BY <1>1, <1>4, <1>5 DEF BoxSame

\* A note in the mailbox of a task changes no other task.
LEMMA MarkingSame ==
    ASSUME SInv, srv = "running", NEW b, Marking(b), NEW u \in Tasks,
           u \in DOMAIN tasks => tasks[u].box # b
    PROVE  BoxSame(u)
<1>1. /\ tasks' = tasks /\ DOMAIN mailboxes' = DOMAIN mailboxes
      /\ \A a \in DOMAIN mailboxes : a # b => mailboxes'[a] = mailboxes[a]
  BY DEF Marking, Rest
<1> QED
  BY <1>1 DEF BoxSame, HasBox

\* Forgetting c changes no task of another client.
LEMMA ForgetSame ==
    ASSUME SInv, srv = "running", NEW c \in Clients, link[c] = "open", Forget(c),
           NEW u \in Tasks, u \in DOMAIN tasks => tasks[u].conn # c
    PROVE  BoxSame(u)
<1>0. OpenTasks /\ c \in DOMAIN clients
  BY Facts DEF Agree, Links, Held
<1>1. /\ tasks' = Without(tasks, TasksOf(c))
      /\ mailboxes' = Without(mailboxes, {tasks[t].box : t \in clients[c]})
  BY DEF Forget
<1>2. u \notin TasksOf(c)
  BY DEF TasksOf
<1>3. u \in DOMAIN tasks => tasks[u].box \notin {tasks[t].box : t \in clients[c]}
  <2>1. \A t \in clients[c] : t \in DOMAIN tasks /\ tasks[t].conn = c
    BY <1>0 DEF OpenTasks, TasksOf
  <2> QED
    BY <2>1, Owner
<1>4. /\ u \in DOMAIN tasks' <=> u \in DOMAIN tasks
      /\ u \in DOMAIN tasks => tasks'[u] = tasks[u]
  BY <1>1, <1>2 DEF Without
<1>5. /\ \A b : b \in DOMAIN mailboxes' <=>
               b \in DOMAIN mailboxes /\ b \notin {tasks[t].box : t \in clients[c]}
      /\ \A b \in DOMAIN mailboxes' : mailboxes'[b] = mailboxes[b]
  BY <1>1 DEF Without
<1>6. u \in DOMAIN tasks => /\ tasks[u].box \in DOMAIN mailboxes' <=>
                                  tasks[u].box \in DOMAIN mailboxes
                            /\ tasks[u].box \in DOMAIN mailboxes =>
                                  mailboxes'[tasks[u].box] = mailboxes[tasks[u].box]
  BY <1>3, <1>5
<1> QED
  BY <1>4, <1>6 DEF BoxSame, HasBox

\* A new task changes no other task, as its mailbox id is new.
LEMMA SubmittingSame ==
    ASSUME SInv, srv = "running", NEW c \in Clients, NEW t \in Tasks, Submitting(c, t),
           NEW u \in Tasks, u # t
    PROVE  BoxSame(u)
<1>1. /\ DOMAIN tasks' = DOMAIN tasks \cup {t}
      /\ \A v \in DOMAIN tasks : v # t => tasks'[v] = tasks[v]
      /\ DOMAIN mailboxes' = DOMAIN mailboxes \cup {boxCounter}
      /\ \A b \in DOMAIN mailboxes : b # boxCounter => mailboxes'[b] = mailboxes[b]
  BY DEF Submitting, Put
<1>2. u \in DOMAIN tasks => tasks[u].box # boxCounter
  <2>1. u \in DOMAIN tasks => tasks[u].box \in Nat /\ tasks[u].box < boxCounter
    BY Owner
  <2>2. boxCounter \in Nat
    BY Facts DEF BooksType
  <2> QED
    BY <2>1, <2>2
<1> QED
  BY <1>1, <1>2 DEF BoxSame, HasBox

-----------------------------------------------------------------------------
(* The server handles a question of c.                                     *)

\* A handler of a message of c leaves the other clients as they were.
LEMMA OthersRead ==
    ASSUME SInv, NEW c \in Clients, NEW type, Read(c, type), NEW d \in Clients, d # c,
           link'[d] = link[d], MailKept(d)
    PROVE  Stays(d)
<1>1. /\ up' = [up EXCEPT ![c] = Tail(@)]
      /\ UNCHANGED <<at, call, sub, over>>
  BY DEF Read, Turn, client, program
<1> QED
  BY <1>1, Facts DEF Stays

\* It was the only question, nothing is submitted after it, and if c waits
\* it is what c waits for, with nothing on its way.
Heard(c, h) ==
    /\ h \in Questions(c) /\ Questions(c)' = {} /\ Alone(up[c])'
    /\ \A t : ~InQueue(c, t) /\ ~InQueue(c, t)'
    /\ at[c] \in {"wait", "closing", "gone"}
    /\ at[c] = "wait" => /\ h = Msg(Question(call[c].want), call[c].task)
                         /\ call[c].want \in Replies /\ Quiet(c)
    /\ h.type # "CONNECT" => h.task \in sub[c]
    /\ UNCHANGED <<at, call, reply, sub, over, reported>>
    /\ srv = "running" /\ Held(c)

\* What the server reads from c is its only question.
LEMMA AskHeard ==
    ASSUME SInv, NEW c \in Clients, NEW type \in Asking, Read(c, type)
    PROVE  /\ Heard(c, Head(up[c])) /\ Head(up[c]) \in AsksOf
           /\ Head(up[c]).type = type
<1> DEFINE h == Head(up[c])
<1>0. /\ srv = "running" /\ Held(c) /\ up[c] # <<>> /\ h.type = type
      /\ up' = [up EXCEPT ![c] = Tail(@)]
      /\ UNCHANGED <<at, call, reply, sub, over, reported>>
  BY DEF Read, Turn, client, program
<1>1. Net(c) /\ up \in [Clients -> Seq(AsksOf)]
      /\ at[c] \in {"off", "idle", "wait", "drain", "closing", "gone"}
  BY Facts
<1>2. /\ Range(up[c]) = Range(up[c])' \cup {h} /\ h \in AsksOf
      /\ Alone(up[c])' /\ \A m \in Range(up[c])' : m.type = "DISCONNECT"
  BY <1>0, <1>1, TakeUp DEF Net, Sends
<1> HIDE DEF h
<1>3. h \in Questions(c)
  BY <1>0, <1>2 DEF Questions
<1>4. Questions(c)' = {}
  BY <1>2 DEF Questions, Asking
<1>5. \A t : ~InQueue(c, t) /\ ~InQueue(c, t)'
  <2>1. \A m \in Range(up[c])' : \A t : m # Msg("SUBMIT", t)
    BY <1>2 DEF Msg
  <2>2. \A t : h # Msg("SUBMIT", t)
    BY <1>0 DEF Msg, Asking
  <2>3. ASSUME NEW t PROVE ~InQueue(c, t) /\ ~InQueue(c, t)'
    <3>1. Msg("SUBMIT", t)' = Msg("SUBMIT", t)
      BY DEF Msg
    <3> QED
      BY <1>2, <2>1, <2>2, <3>1 DEF InQueue
  <2> QED
    BY <2>3
<1>6. at[c] \in {"wait", "closing", "gone"}
  BY <1>1, <1>3 DEF Net, Sends
<1>7. at[c] = "wait" => /\ h = Msg(Question(call[c].want), call[c].task)
                        /\ call[c].want \in Replies /\ Quiet(c)
  BY <1>0, <1>1, <1>3 DEF Net, Sends, Hears, Held
<1>8. h.type # "CONNECT" => h.task \in sub[c]
  BY <1>1, <1>3 DEF Net, Sends
<1> QED
  BY <1>0, <1>2, <1>3, <1>4, <1>5, <1>6, <1>7, <1>8 DEF Heard, h

\* The answer to each question.
AnswerTo == [type \in Asking |-> IF type = "CONNECT" THEN "READY"
                                 ELSE IF type = "REQUEST" THEN "RESULT" ELSE type]

\* The answer to the question is the one c waits for.
LEMMA AnswerFits ==
    ASSUME NEW c, NEW t, NEW type \in Asking, Heard(c, Msg(type, t)), at[c] = "wait"
    PROVE  call[c].want = AnswerTo[type] /\ call[c].task = t /\ Wanted(c) = Msg(AnswerTo[type], t)
<1>1. call[c].want \in Replies /\ Msg(type, t) = Msg(Question(call[c].want), call[c].task)
  BY DEF Heard
<1>2. type = Question(call[c].want) /\ t = call[c].task
  BY <1>1, AskingTypes
<1>3. call[c].want = AnswerTo[type]
  BY <1>1, <1>2 DEF Replies, Question, AnswerTo, Asking
<1> QED
  BY <1>2, <1>3 DEF Wanted

\* A question answered keeps Net of c.
LEMMA AskNet ==
    ASSUME SInv, NEW c \in Clients, NEW h, Heard(c, h), link'[c] = link[c],
           at[c] = "wait" => Quiet(c)' \/ Answering(c, Wanted(c))'
    PROVE  Net(c)'
<1>0. Net(c)
  BY Facts
<1>1. Sends(c)'
  BY <1>0 DEF Heard, Net, Sends, Replies
<1>2. Hears(c)'
  BY DEF Heard, Hears
<1>3. Newcomer(c)'
  BY DEF Heard, Held, Newcomer
<1>4. Program(c)'
  BY <1>0 DEF Heard, Net, Program, NoCall
<1> QED
  BY <1>1, <1>2, <1>3, <1>4 DEF Net

\* A question handled keeps Book of the tasks it is not about.
LEMMA AskBook ==
    ASSUME SInv, NEW c \in Clients, NEW h, Heard(c, h), link'[c] = link[c],
           NEW t \in Tasks, t \in sub[c], TaskSame(t)
    PROVE  Book(c, t)'
<1>0. /\ Book(c, t) /\ Held(c)
      /\ Questions(c)' = {} /\ Questions(c) # {} /\ ~InQueue(c, t)
      /\ at[c] \in {"wait", "closing", "gone"}
      /\ at[c] = "wait" => Quiet(c)
      /\ UNCHANGED <<at, call, over>>
  BY Owner DEF Heard
<1>1. /\ Ready(t)' <=> Ready(t)
      /\ Waiting(t)' <=> Waiting(t)
      /\ t \in DOMAIN tasks' <=> t \in DOMAIN tasks
      /\ t \in DOMAIN tasks => tasks'[t].conn = tasks[t].conn /\ (Reached(t)' <=> Reached(t))
      /\ HasBox(t)' <=> HasBox(t)
  BY TaskSameFacts
<1>2. Home(c, t)' /\ Noted(t)'
  BY <1>0, <1>1 DEF Book, Home, Noted, Ready, HasBox
<1>3. Answerable(c, t)'
  BY <1>0 DEF Answerable
<1>4. Owned(c, t)'
  <2> SUFFICES ASSUME link'[c] = "open", In(c)', t \notin over' PROVE HasBox(t)'
    BY DEF Owned
  <2>1. Owned(c, t) /\ ~Ended(c, t) /\ In(c)
    BY <1>0 DEF Book, Ended, In
  <2> QED
    BY <2>1, <1>0, <1>1 DEF Owned
<1>5. Kept(c, t)'
  <2> SUFFICES ASSUME t \in DOMAIN tasks', Reached(t)', In(c)', t \notin over', ~Cancels(c, t)'
               PROVE  Ready(t)'
    BY DEF Kept
  <2>1. In(c) /\ at[c] = "wait" /\ ~Cancels(c, t)
    BY <1>0 DEF In, Cancels
  <2>2. Ready(t) \/ Answering(c, Msg("RESULT", t))
    BY <2>1, <1>0, <1>1 DEF Book, Kept
  <2>3. ~Answering(c, Msg("RESULT", t))
    BY <2>1, <1>0, QuietSilent, ResultMsg
  <2> QED
    BY <2>2, <2>3, <1>1
<1>6. Marked(c, t)'
  BY <1>0, <1>1 DEF Book, Marked
<1> QED
  BY <1>2, <1>3, <1>4, <1>5, <1>6 DEF Book

\* What every step of the server has to keep.
AllServed == srv' # "key error" /\ \A c \in Clients : Served(c)'

\* The server answers the question of c at once and notes nothing.
LEMMA Replied ==
    ASSUME SInv, NEW c \in Clients, NEW type \in Asking, Read(c, type),
           NEW t \in Tasks \cup {None}, Head(up[c]) = Msg(type, t),
           Enqueue(c, AnswerTo[type], t), UNCHANGED <<srv, books, link, down>>
    PROVE  AllServed
<1>0. Heard(c, Msg(type, t)) /\ reply' = reply /\ reported' = reported
  BY AskHeard DEF Heard
<1>1. AnswerTo[type] \in Replies
  BY DEF AnswerTo, Asking, Replies
<1>2. /\ \A d \in Clients : d # c => SameMail(d)
      /\ Quiet(c) => Answering(c, Msg(AnswerTo[type], t))'
  BY <1>0, <1>1, EnqueueMail, Facts
<1>3. \A u : TaskSame(u)
  BY <1>0, SameBooks, BoxReached DEF books
<1>4. ASSUME NEW d \in Clients, d # c PROVE Served(d)'
  <2>1. Stays(d)
    BY <1>2, <1>4, OthersRead, SameMailKept
  <2> QED
    BY <1>3, <2>1, OthersServed
<1>5. Net(c)'
  <2>1. ASSUME at[c] = "wait" PROVE Answering(c, Wanted(c))'
    <3>1. Wanted(c) = Msg(AnswerTo[type], t) /\ Quiet(c) /\ Wanted(c)' = Wanted(c)
      BY <1>0, <2>1, AnswerFits DEF Heard, Wanted, Msg
    <3>2. PICK m : m = Msg(AnswerTo[type], t)
      OBVIOUS
    <3>3. Answering(c, m)'
      BY <1>2, <3>1, <3>2
    <3> QED
      BY <3>1, <3>2, <3>3
  <2>2. link'[c] = link[c]
    OBVIOUS
  <2> QED
    BY <1>0, <2>1, <2>2, AskNet
<1>6. ASSUME NEW u \in sub'[c] PROVE Book(c, u)'
  <2>1. u \in sub[c] /\ u \in Tasks
    BY <1>0, <1>6, Facts DEF Heard
  <2> QED
    BY <2>1, <1>0, <1>3, AskBook
<1> QED
  BY <1>4, <1>5, <1>6 DEF AllServed, Served, SInv, NoKeyError

\* handle_connect answers READY.
LEMMA ConnectServed ==
    ASSUME SInv, NEW c \in Clients, HandleConnect(c)
    PROVE  AllServed
<1>1. Read(c, "CONNECT") /\ "CONNECT" \in Asking /\ AnswerTo["CONNECT"] = "READY"
  BY DEF HandleConnect, Asking, AnswerTo
<1>2. Head(up[c]) = Msg("CONNECT", None)
  BY <1>1, AskHeard, AskingTypes
<1> QED
  BY <1>1, <1>2, Replied DEF HandleConnect

\* A task that is asked about or cancelled has a mailbox and is open.
LEMMA TaskOpen ==
    ASSUME SInv, NEW c \in Clients, NEW type \in {"STATUS", "CANCEL"}, NEW t,
           Heard(c, Msg(type, t))
    PROVE  HasBox(t) /\ tasks[t].conn = c /\ Known(c, t) /\ t \in Tasks /\ t \in sub[c]
<1>1. t \in sub[c] /\ t \in Tasks /\ srv = "running" /\ Held(c)
      /\ Msg(type, t) \in Questions(c) /\ ~InQueue(c, t)
  BY Facts, AskingTypes DEF Heard
<1>2. HasBox(t)
  BY <1>1, Owner, AskingTypes DEF Book, Answerable
<1>3. t \in DOMAIN tasks /\ tasks[t].conn = c
  BY <1>1, <1>2, Owner DEF HasBox
<1>4. OpenTasks /\ c \in DOMAIN clients
  BY <1>1, Facts DEF Agree, Links, Held
<1> QED
  BY <1>1, <1>2, <1>3, <1>4 DEF OpenTasks, TasksOf, Known

\* handle_status answers, without KeyError.
LEMMA StatusServed ==
    ASSUME SInv, NEW c \in Clients, HandleStatus(c)
    PROVE  AllServed
<1>1. Read(c, "STATUS") /\ "STATUS" \in Asking /\ AnswerTo["STATUS"] = "STATUS"
  BY DEF HandleStatus, Asking, AnswerTo
<1>2. PICK t : Head(up[c]) = Msg("STATUS", t)
  BY <1>1, AskHeard, AskingTypes
<1>3. Heard(c, Msg("STATUS", t))
  BY <1>1, <1>2, AskHeard
<1>4. HasBox(t) /\ Known(c, t) /\ t \in Tasks
  BY <1>3, TaskOpen
<1>5. Asked(c) = t
  BY <1>2, AskingTypes DEF Asked
<1>6. outgoing' = outgoing \o <<>> \o <<To(c, "STATUS", t)>>
      /\ UNCHANGED <<srv, books, link, down>>
  BY <1>4, <1>5 DEF HandleStatus
<1>7. Enqueue(c, "STATUS", t)
  <2>1. outgoing \in Seq(Addressed)
    BY Facts
  <2>2. outgoing \o <<>> = outgoing
    BY <2>1
  <2>3. To(c, "STATUS", t) \in Addressed
    BY <1>4, MsgType DEF To, Addressed, Replies
  <2>4. outgoing \o <<To(c, "STATUS", t)>> = Append(outgoing, To(c, "STATUS", t))
    BY <2>1, <2>3
  <2> QED
    BY <1>6, <2>2, <2>4 DEF Enqueue
<1> QED
  BY <1>1, <1>2, <1>4, <1>6, <1>7, Replied

-----------------------------------------------------------------------------
(* Cancels, requests, disconnections and submissions.                      *)

\* handle_cancel_comp_task removes the mailbox and answers, without KeyError.
LEMMA CancelServed ==
    ASSUME SInv, NEW c \in Clients, HandleCancel(c)
    PROVE  AllServed
<1>1. Read(c, "CANCEL") /\ "CANCEL" \in Asking /\ AnswerTo["CANCEL"] = "CANCEL"
  BY DEF HandleCancel, Asking, AnswerTo
<1>2. PICK t : Head(up[c]) = Msg("CANCEL", t)
  BY <1>1, AskHeard, AskingTypes
<1>3. Heard(c, Msg("CANCEL", t))
  BY <1>1, <1>2, AskHeard
<1>4. HasBox(t) /\ Known(c, t) /\ t \in Tasks /\ tasks[t].conn = c /\ t \in sub[c]
  BY <1>3, TaskOpen
<1>5. Asked(c) = t
  BY <1>2, AskingTypes DEF Asked
<1>6. /\ srv = "running" /\ Held(c)
      /\ UNCHANGED <<at, call, reply, sub, over, reported>>
  BY <1>3 DEF Heard
<1>7. Cancel(c, t)
  BY <1>4, <1>5 DEF HandleCancel, Known
<1>8. Ending(t) /\ Enqueue(c, "CANCEL", t) /\ UNCHANGED <<srv, link, down>>
  BY <1>4, <1>6, <1>7 DEF Cancel, Ending, Rest, Held
<1>9. /\ \A d \in Clients : d # c => SameMail(d)
      /\ Quiet(c) => Answering(c, Msg("CANCEL", t))'
  BY <1>4, <1>6, <1>8, EnqueueMail, Facts DEF Replies
<1>10. \A u \in Tasks : u # t => TaskSame(u)
  BY <1>4, <1>6, <1>8, EndingSame, BoxReached
<1>11. ASSUME NEW d \in Clients, d # c PROVE Served(d)'
  <2>1. Stays(d)
    BY <1>1, <1>8, <1>9, <1>11, OthersRead, SameMailKept
  <2>2. \A u \in sub[d] : u \in Tasks /\ u # t
    BY <1>4, <1>11, Facts
  <2> QED
    BY <1>6, <1>10, <2>1, <2>2, OthersServed
<1>12. at[c] = "wait" => call[c].want = "CANCEL" /\ call[c].task = t /\ Wanted(c) = Msg("CANCEL", t)
  BY <1>1, <1>3, AnswerFits
<1>13. Net(c)'
  <2>1. ASSUME at[c] = "wait" PROVE Answering(c, Wanted(c))'
    <3>1. Wanted(c) = Msg("CANCEL", t) /\ Quiet(c) /\ Wanted(c)' = Wanted(c)
      BY <1>3, <1>12, <2>1 DEF Heard, Wanted, Msg
    <3>2. PICK m : m = Msg("CANCEL", t)
      OBVIOUS
    <3>3. Answering(c, m)'
      BY <1>9, <3>1, <3>2
    <3> QED
      BY <3>1, <3>2, <3>3
  <2>2. link'[c] = link[c]
    BY <1>8
  <2> QED
    BY <1>3, <2>1, <2>2, AskNet
<1>14. Book(c, t)'
  <2>1. /\ tasks' = tasks /\ ~HasBox(t)' /\ t \in DOMAIN tasks
    BY <1>8 DEF Ending, HasBox, Without, Rest
  <2>2. Home(c, t)' /\ Noted(t)' /\ Marked(c, t)'
    BY <1>4, <2>1 DEF Home, Noted, Marked, Ready, Waiting
  <2>3. Answerable(c, t)'
    BY <1>3 DEF Heard, Answerable
  <2>4. Owned(c, t)' /\ Kept(c, t)'
    <3>1. /\ Questions(c)' = {} /\ at'[c] = at[c] /\ call'[c] = call[c]
          /\ at[c] \in {"wait", "closing", "gone"}
      BY <1>3 DEF Heard
    <3>2. In(c)' => Ended(c, t)' /\ Cancels(c, t)'
      BY <1>12, <3>1 DEF In, Ended, Cancels
    <3> QED
      BY <3>2 DEF Owned, Kept
  <2> QED
    BY <2>2, <2>3, <2>4 DEF Book
<1>15. ASSUME NEW u \in sub'[c] PROVE Book(c, u)'
  <2>1. u \in sub[c] /\ u \in Tasks
    BY <1>6, <1>15, Facts
  <2>2. link'[c] = link[c]
    BY <1>8
  <2> QED
    BY <2>1, <2>2, <1>3, <1>10, <1>14, AskBook
<1>16. srv' = "running"
  BY <1>6, <1>8
<1> QED
  BY <1>11, <1>13, <1>15, <1>16 DEF AllServed, Served

\* Nothing is asked on a connection nothing travels on.
LEMMA EmptyUp ==
    ASSUME NEW c, up'[c] = <<>>
    PROVE  (Alone(up[c]) => Alone(up[c])') /\ Questions(c)' \subseteq Questions(c)
BY DEF Alone, Questions, Range

\* The server stops itself, whatever it has read from c.
LEMMA StoppedServed ==
    ASSUME SInv, srv = "running", NEW why \in {"raced", "worker error"}, SystemError(why),
           UNCHANGED client, NEW c,
           \/ up' = up
           \/ up[c] # <<>> /\ up' = [up EXCEPT ![c] = Tail(@)]
           \/ up' = [up EXCEPT ![c] = <<>>]
    PROVE  AllServed
<1>0. UNCHANGED <<at, call, reply, sub, over, link>> /\ srv' = why
  BY DEF client, program, SystemError
<1>1. ASSUME NEW d \in Clients
      PROVE  (Alone(up[d]) => Alone(up[d])') /\ Questions(d)' \subseteq Questions(d)
  <2>1. CASE up'[d] = up[d]
    BY <2>1 DEF Alone, Questions, Range, Asking
  <2>2. CASE up'[d] = <<>>
    BY <2>2, EmptyUp
  <2>3. CASE d = c /\ up[c] # <<>> /\ up' = [up EXCEPT ![c] = Tail(@)]
    <3>1. Range(up[c])' \subseteq Range(up[c]) /\ (Alone(up[c]) => Alone(up[c])')
      BY <2>3, TakeUp, Facts
    <3> QED
      BY <3>1, <2>3 DEF Questions, Asking
  <2> QED
    BY <2>1, <2>2, <2>3, Facts
<1>2. ASSUME NEW d \in Clients PROVE Net(d)'
  <2>1. Net(d) /\ SameMail(d)
    BY <1>0, Facts, ErrorMail DEF SInv
  <2>2. /\ Quiet(d) <=> Quiet(d)'
        /\ \A m : Answering(d, m) <=> Answering(d, m)'
    BY <2>1, SameMailKept
  <2>3. Sends(d)'
    BY <1>0, <1>1, <2>1 DEF Net, Sends, Msg, Question, Replies
  <2>4. Hears(d)'
    <3>1. PICK m : m = Wanted(d)
      OBVIOUS
    <3>2. Wanted(d)' = m
      BY <1>0, <3>1 DEF Wanted, Msg
    <3>3. Answering(d, Wanted(d)) <=> Answering(d, Wanted(d))'
      BY <2>2, <3>1, <3>2
    <3> QED
      BY <1>0, <1>1, <2>1, <2>2, <3>3 DEF Net, Hears
  <2>5. Newcomer(d)' /\ Program(d)'
    BY <1>0, <2>1, <2>2 DEF Net, Newcomer, Program, NoCall
  <2> QED
    BY <2>3, <2>4, <2>5 DEF Net
<1> QED
  BY <1>0, <1>2 DEF AllServed, Served

\* The connection of c is closed and its tasks forgotten.
LEMMA Forgotten ==
    ASSUME SInv, srv = "running", NEW c \in Clients, link[c] = "open", Forget(c),
           Alone(up[c])', Questions(c)' \subseteq Questions(c), UNCHANGED <<client, reported>>,
           \A d \in Clients : d # c => up'[d] = up[d] /\ MailKept(d)
    PROVE  AllServed
<1>0. /\ UNCHANGED <<at, call, reply, sub, over, reported, srv>>
      /\ link' = [link EXCEPT ![c] = "closed"]
  BY DEF client, program, Forget
<1>1. Net(c)'
  <2>1. Net(c) /\ link'[c] = "closed"
    BY <1>0, Facts
  <2>2. Sends(c)'
    BY <1>0, <2>1 DEF Net, Sends, Msg, Question, Replies
  <2> QED
    BY <1>0, <2>1, <2>2 DEF Net, Hears, Newcomer, Program, NoCall
<1>2. ASSUME NEW t \in sub'[c] PROVE Book(c, t)'
  <2>1. t \in sub[c] /\ t \in Tasks /\ link'[c] = "closed"
    BY <1>0, <1>2, Facts
  <2>2. t \notin DOMAIN tasks'
    <3>1. t \in DOMAIN tasks => t \in TasksOf(c)
      BY <2>1, Owner DEF TasksOf
    <3> QED
      BY <3>1 DEF Forget, Without
  <2> QED
    BY <2>1, <2>2 DEF Book, Home, Noted, Answerable, Held, Owned, Kept, Marked, Ready, Waiting,
           HasBox
<1>3. ASSUME NEW d \in Clients, d # c PROVE Served(d)'
  <2>1. link'[d] = link[d]
    BY <1>0, <1>3, Facts
  <2>2. Stays(d)
    BY <1>0, <1>3, <2>1 DEF Stays
  <2>3. ASSUME NEW u \in sub[d] PROVE TaskSame(u)
    <3>1. u \in Tasks /\ (u \in DOMAIN tasks => tasks[u].conn # c)
      BY <1>3, <2>3, Owner, Facts
    <3> QED
      BY <1>0, <3>1, ForgetSame, BoxReached
  <2> QED
    BY <2>2, <2>3, OthersServed
<1> QED
  BY <1>0, <1>1, <1>2, <1>3 DEF AllServed, Served

\* handle_disconnect looks up the mailboxes of open tasks only.
LEMMA OpenForget ==
    ASSUME SInv, srv = "running", NEW c \in Clients, Held(c)
    PROVE  CanForget(c)
BY Facts DEF Agree, Links, OpenTasks, CanForget

\* What is left in the queue of c, when its head is taken or all is lost.
LEMMA Lost ==
    ASSUME SInv, NEW c \in Clients,
           \/ up[c] # <<>> /\ up' = [up EXCEPT ![c] = Tail(@)]
           \/ up' = [up EXCEPT ![c] = <<>>]
    PROVE  /\ Alone(up[c])' /\ Questions(c)' \subseteq Questions(c)
           /\ \A d \in Clients : d # c => up'[d] = up[d]
<1>0. Alone(up[c]) /\ up \in [Clients -> Seq(AsksOf)]
  BY Facts DEF Net, Sends
<1>1. CASE up'[c] = <<>>
  BY <1>0, <1>1 DEF Alone, Questions, Range
<1>2. CASE up[c] # <<>> /\ up' = [up EXCEPT ![c] = Tail(@)]
  <2>1. Alone(up[c])' /\ Range(up[c])' \subseteq Range(up[c])
    BY <1>0, <1>2, TakeUp
  <2> QED
    BY <1>0, <1>2, <2>1 DEF Questions, Asking
<1> QED
  BY <1>0, <1>1, <1>2

\* handle_disconnect forgets a client, or races with the thread that sends.
LEMMA LostServed ==
    ASSUME SInv, srv = "running", NEW c \in Clients, Held(c), Disconnect(c),
           UNCHANGED <<client, reported>>,
           \/ up[c] # <<>> /\ up' = [up EXCEPT ![c] = Tail(@)]
           \/ up' = [up EXCEPT ![c] = <<>>]
    PROVE  AllServed
<1>1. CASE Raced
  BY <1>1, StoppedServed DEF Raced
<1>2. CASE ~Raced
  <2>1. link[c] = "open" /\ Forget(c) /\ UNCHANGED <<outgoing, down>>
    BY <1>2, OpenForget DEF Disconnect, Held
  <2>2. \A d : SameMail(d)
    BY <2>1 DEF SameMail, Queued, Arrived, RepliesTo, Answers, client
  <2>3. \A d \in Clients : d # c => up'[d] = up[d] /\ MailKept(d)
    BY <2>2, Lost, SameMailKept
  <2> QED
    BY <2>1, <2>3, Lost, Forgotten
<1> QED
  BY <1>1, <1>2

\* A client that closes.
LEMMA DisconnectServed ==
    ASSUME SInv, NEW c \in Clients, HandleDisconnect(c)
    PROVE  AllServed
BY LostServed DEF HandleDisconnect, Read, Turn

\* A client that has left.
LEMMA EOFServed ==
    ASSUME SInv, NEW c \in Clients, HandleEOF(c)
    PROVE  AllServed
BY LostServed DEF HandleEOF, Turn

\* A message of a client that the thread that sends forgets.
LEMMA OvertakenServed ==
    ASSUME SInv, NEW c \in Clients, HandleClosed(c) \/ OvertakenAsk(c)
    PROVE  AllServed
<1>1. CASE HandleClosed(c)
  BY <1>1, StoppedServed DEF HandleClosed, Turn, Raced
<1>2. CASE OvertakenAsk(c)
  BY <1>2, StoppedServed DEF OvertakenAsk, Read, Turn, Raced
<1> QED
  BY <1>1, <1>2

\* A request for a task the server no longer has ends the connection.
LEMMA UnknownServed ==
    ASSUME SInv, NEW c \in Clients, Read(c, "REQUEST"), RequestUnknown(c)
    PROVE  AllServed
<1>1. srv = "running" /\ Held(c) /\ up[c] # <<>>
  BY DEF Read, Turn
<1>2. /\ UNCHANGED <<client, reported, reply>> /\ up' = [up EXCEPT ![c] = Tail(@)]
  BY DEF Read, Turn, client
<1>3. CASE Disconnect(c)
  BY <1>1, <1>2, <1>3, LostServed
<1>4. CASE ~Disconnect(c)
  <2>1. /\ link[c] = "open" /\ Forget(c) /\ UNCHANGED outgoing
        /\ down' = [down EXCEPT ![c] = Append(@, Msg("ERROR", None))]
    BY <1>4 DEF RequestUnknown
  <2>2. ASSUME NEW d \in Clients, d # c PROVE up'[d] = up[d] /\ MailKept(d)
    <3>1. down'[d] = down[d] /\ up'[d] = up[d]
      BY <1>2, <2>1, <2>2, Facts
    <3>2. SameMail(d)
      BY <1>2, <2>1, <3>1 DEF SameMail, Queued, Arrived, RepliesTo, Answers
    <3> QED
      BY <3>1, <3>2, SameMailKept
  <2> QED
    BY <1>1, <1>2, <2>1, <2>2, Lost, Forgotten
<1> QED
  BY <1>3, <1>4

\* A request for a result that is ready takes it out of the mailbox and sends
\* it.
LEMMA ShipServed ==
    ASSUME SInv, NEW c \in Clients, NEW t \in Tasks, Read(c, "REQUEST"),
           Head(up[c]) = Msg("REQUEST", t), t \in sub[c], Ready(t), Ship(c, t)
    PROVE  AllServed
<1>1. "REQUEST" \in Asking /\ AnswerTo["REQUEST"] = "RESULT"
  BY DEF Asking, AnswerTo
<1>3. Heard(c, Msg("REQUEST", t))
  BY <1>1, AskHeard
<1>6. /\ srv = "running" /\ Held(c)
      /\ UNCHANGED <<at, call, reply, sub, over, reported>>
  BY <1>3 DEF Heard
<1>4. HasBox(t) /\ t \in DOMAIN tasks /\ tasks[t].conn = c /\ Reached(t)
  BY <1>6, Owner DEF Ready, HasBox, Book, Noted
<1>8. Ending(t) /\ Enqueue(c, "RESULT", t) /\ UNCHANGED <<srv, link, down>>
  BY <1>4 DEF Ship, Deliver, Ending, Rest
<1>9. /\ \A d \in Clients : d # c => SameMail(d)
      /\ Quiet(c) => Answering(c, Msg("RESULT", t))'
  BY <1>6, <1>8, EnqueueMail, Facts DEF Replies
<1>10. \A u \in Tasks : u # t => TaskSame(u)
  BY <1>6, <1>8, EndingSame, BoxReached
<1>11. ASSUME NEW d \in Clients, d # c PROVE Served(d)'
  <2>1. Stays(d)
    BY <1>8, <1>9, <1>11, OthersRead, SameMailKept
  <2>2. \A u \in sub[d] : u \in Tasks /\ u # t
    BY <1>11, Facts
  <2> QED
    BY <1>6, <1>10, <2>1, <2>2, OthersServed
<1>12. at[c] = "wait" => call[c].want = "RESULT" /\ call[c].task = t /\ Wanted(c) = Msg("RESULT", t)
  BY <1>1, <1>3, AnswerFits
<1>12a. at[c] = "wait" => Answering(c, Msg("RESULT", t))'
  BY <1>3, <1>9 DEF Heard
<1>13. Net(c)'
  <2>1. ASSUME at[c] = "wait" PROVE Answering(c, Wanted(c))'
    <3>1. Wanted(c) = Msg("RESULT", t) /\ Quiet(c) /\ Wanted(c)' = Wanted(c)
      BY <1>3, <1>12, <2>1 DEF Heard, Wanted, Msg
    <3>2. PICK m : m = Msg("RESULT", t)
      OBVIOUS
    <3>3. Answering(c, m)'
      BY <1>9, <3>1, <3>2
    <3> QED
      BY <3>1, <3>2, <3>3
  <2>2. link'[c] = link[c]
    BY <1>8
  <2> QED
    BY <1>3, <2>1, <2>2, AskNet
<1>14. Book(c, t)'
  <2>1. /\ tasks' = tasks /\ ~HasBox(t)' /\ t \in DOMAIN tasks /\ Reached(t)'
    BY <1>4, <1>6, <1>8 DEF Ending, HasBox, Without, Rest, Reached
  <2>2. Home(c, t)' /\ Noted(t)' /\ Marked(c, t)'
    BY <1>4, <2>1 DEF Home, Noted, Marked, Ready, Waiting
  <2>3. Answerable(c, t)'
    BY <1>3 DEF Heard, Answerable
  <2>4. Owned(c, t)' /\ Kept(c, t)'
    <3>1. /\ Questions(c)' = {} /\ at'[c] = at[c] /\ call'[c] = call[c]
          /\ at[c] \in {"wait", "closing", "gone"}
      BY <1>3 DEF Heard
    <3>2. In(c)' => Ended(c, t)' /\ Answering(c, Msg("RESULT", t))'
      BY <1>12, <1>12a, <2>1, <3>1 DEF In, Ended
    <3> QED
      BY <3>2 DEF Owned, Kept
  <2> QED
    BY <2>2, <2>3, <2>4 DEF Book
<1>15. ASSUME NEW u \in sub'[c] PROVE Book(c, u)'
  <2>1. u \in sub[c] /\ u \in Tasks
    BY <1>6, <1>15, Facts
  <2>2. link'[c] = link[c]
    BY <1>8
  <2> QED
    BY <2>1, <2>2, <1>3, <1>10, <1>14, AskBook
<1>16. srv' = "running"
  BY <1>6, <1>8
<1> QED
  BY <1>11, <1>13, <1>15, <1>16 DEF AllServed, Served

\* A request for a result that has not come is noted.
LEMMA NoteServed ==
    ASSUME SInv, NEW c \in Clients, NEW t \in Tasks, Read(c, "REQUEST"),
           Head(up[c]) = Msg("REQUEST", t), t \in sub[c], HasBox(t), ~Ready(t),
           NoteWaiting(c, t)
    PROVE  AllServed
<1>1. "REQUEST" \in Asking /\ AnswerTo["REQUEST"] = "RESULT"
  BY DEF Asking, AnswerTo
<1>3. Heard(c, Msg("REQUEST", t))
  BY <1>1, AskHeard
<1>6. /\ srv = "running" /\ Held(c)
      /\ UNCHANGED <<at, call, reply, sub, over, reported>>
  BY <1>3 DEF Heard
<1>4. t \in DOMAIN tasks /\ tasks[t].conn = c
  BY <1>6, Owner DEF HasBox
<1>7. /\ mailboxes' = [mailboxes EXCEPT ![tasks[t].box].waiting = TRUE]
      /\ UNCHANGED <<srv, tasks, outgoing, link, down>>
  BY DEF NoteWaiting
<1>8. Marking(tasks[t].box)
  BY DEF NoteWaiting, Marking, Rest, HasBox
<1>9. \A d \in Clients : SameMail(d)
  BY <1>6, <1>7 DEF SameMail, Queued, Arrived, RepliesTo, Answers
<1>10. \A u \in Tasks : u # t => TaskSame(u)
  <2>1. PICK b : b = tasks[t].box
    OBVIOUS
  <2>2. \A u \in Tasks : u # t /\ u \in DOMAIN tasks => tasks[u].box # b
    BY <1>4, <1>6, <2>1, Owner
  <2>3. Marking(b)
    BY <1>8, <2>1
  <2> QED
    BY <1>6, <2>2, <2>3, MarkingSame, BoxReached
<1>11. ASSUME NEW d \in Clients, d # c PROVE Served(d)'
  <2>1. Stays(d)
    BY <1>7, <1>9, <1>11, OthersRead, SameMailKept
  <2>2. \A u \in sub[d] : u \in Tasks /\ u # t
    BY <1>11, Facts
  <2> QED
    BY <1>6, <1>10, <2>1, <2>2, OthersServed
<1>12. at[c] = "wait" => call[c].want = "RESULT" /\ call[c].task = t /\ Quiet(c)'
  BY <1>1, <1>3, <1>9, AnswerFits, SameMailKept DEF Heard
<1>13. Net(c)'
  <2>1. link'[c] = link[c]
    BY <1>7
  <2> QED
    BY <1>3, <1>12, <2>1, AskNet
<1>14. Book(c, t)'
  <2>1. /\ tasks' = tasks /\ HasBox(t)' /\ ~Ready(t)' /\ (Reached(t)' <=> Reached(t))
    <3> DEFINE b == tasks[t].box
    <3>1. b \in DOMAIN mailboxes /\ mailboxes[b] \in [ready : BOOLEAN, waiting : BOOLEAN]
      BY Facts DEF HasBox, BooksType
    <3>2. b \in DOMAIN mailboxes' /\ mailboxes'[b].ready = mailboxes[b].ready
      BY <1>7, <3>1
    <3> QED
      BY <1>4, <1>6, <1>7, <3>1, <3>2 DEF HasBox, Ready, Reached
  <2>2. Home(c, t)' /\ Noted(t)'
    BY <1>4, <2>1 DEF Home, Noted
  <2>3. Answerable(c, t)' /\ Owned(c, t)'
    BY <2>1 DEF Answerable, Owned
  <2>4. /\ Questions(c)' = {} /\ at'[c] = at[c] /\ call'[c] = call[c] /\ over' = over
        /\ at[c] \in {"wait", "closing", "gone"}
    BY <1>3 DEF Heard
  <2>5. Kept(c, t)'
    <3> SUFFICES ASSUME Reached(t)', In(c)', t \notin over', ~Cancels(c, t)' PROVE FALSE
      BY DEF Kept
    <3>1. Reached(t) /\ In(c) /\ t \notin over /\ ~Cancels(c, t) /\ at[c] = "wait"
      BY <2>1, <2>4 DEF In, Cancels
    <3>2. Answering(c, Msg("RESULT", t))
      BY <1>4, <1>6, <3>1, Owner DEF Book, Kept
    <3>3. Quiet(c)
      BY <1>3, <3>1 DEF Heard
    <3> QED
      BY <3>2, <3>3, QuietSilent, ResultMsg
  <2>6. Marked(c, t)'
    BY <1>12, <2>4 DEF Marked
  <2> QED
    BY <2>2, <2>3, <2>5, <2>6 DEF Book
<1>15. ASSUME NEW u \in sub'[c] PROVE Book(c, u)'
  <2>1. u \in sub[c] /\ u \in Tasks
    BY <1>6, <1>15, Facts
  <2>2. link'[c] = link[c]
    BY <1>7
  <2> QED
    BY <2>1, <2>2, <1>3, <1>10, <1>14, AskBook
<1>16. srv' = "running"
  BY <1>6, <1>7
<1> QED
  BY <1>11, <1>13, <1>15, <1>16 DEF AllServed, Served

\* handle_request, without KeyError.
LEMMA RequestServed ==
    ASSUME SInv, NEW c \in Clients, HandleRequest(c)
    PROVE  AllServed
<1>1. Read(c, "REQUEST") /\ "REQUEST" \in Asking
  BY DEF HandleRequest, Asking
<1>2. PICK t : Head(up[c]) = Msg("REQUEST", t)
  BY <1>1, AskHeard, AskingTypes
<1>3. Heard(c, Msg("REQUEST", t))
  BY <1>1, <1>2, AskHeard
<1>4. t \in sub[c] /\ t \in Tasks /\ srv = "running" /\ Held(c)
  BY <1>3, AskingTypes, Facts DEF Heard
<1>5. Asked(c) = t
  BY <1>2, AskingTypes DEF Asked
<1>6. CASE ~Known(c, t)
  BY <1>1, <1>5, <1>6, UnknownServed DEF HandleRequest
<1>7. CASE Known(c, t)
  <2>1. HasBox(t)
    BY <1>4, <1>7, Facts DEF Agree, Links, Held, OpenTasks, Known
  <2>2. CASE Ready(t)
    BY <1>1, <1>2, <1>4, <1>5, <1>7, <2>1, <2>2, ShipServed DEF HandleRequest, Ready
  <2>3. CASE ~Ready(t)
    BY <1>1, <1>2, <1>4, <1>5, <1>7, <2>1, <2>3, NoteServed DEF HandleRequest, Ready
  <2> QED
    BY <2>2, <2>3
<1> QED
  BY <1>6, <1>7

\* handle_new_comp_task gives the task a mailbox.
LEMMA SubmitServed ==
    ASSUME SInv, NEW c \in Clients, HandleSubmit(c)
    PROVE  AllServed
<1>1. /\ srv = "running" /\ Held(c) /\ up[c] # <<>> /\ Head(up[c]).type = "SUBMIT"
      /\ up' = [up EXCEPT ![c] = Tail(@)] /\ Read(c, "SUBMIT")
      /\ UNCHANGED <<at, call, reply, sub, over, reported, srv, outgoing, link, down>>
  BY DEF HandleSubmit, Read, Turn, client, program
<1>2. PICK t : Head(up[c]) = Msg("SUBMIT", t)
  BY <1>1, TakeUp, Facts, AskingTypes
<1>3. /\ Range(up[c]) = Range(up[c])' \cup {Msg("SUBMIT", t)}
      /\ Msg("SUBMIT", t) \in AsksOf /\ Alone(up[c])'
  <2>1. Alone(up[c]) /\ up \in [Clients -> Seq(AsksOf)]
    BY Facts DEF Net, Sends
  <2> QED
    BY <1>1, <1>2, <2>1, TakeUp
<1>4. t \in Tasks /\ Asked(c) = t
  BY <1>2, <1>3 DEF AsksOf, Msg, Asked
<1>5. Submitting(c, t)
  BY <1>1, <1>2, <1>4 DEF HandleSubmit, Submitting
<1>6. InQueue(c, t) /\ t \in sub[c] /\ t \notin DOMAIN tasks
  <2>1. InQueue(c, t)
    BY <1>3 DEF InQueue
  <2>2. PICK i \in DOMAIN up[c] : up[c][i] = Msg("SUBMIT", t)
    BY <2>1 DEF InQueue, Range
  <2>3. i \in Nat
    <3>1. up[c] \in Seq(AsksOf)
      BY Facts
    <3> QED
      BY <3>1, <2>2
  <2> QED
    BY <1>1, <1>4, <2>1, <2>2, <2>3, Facts DEF Agree, Drawn, Submission
<1>7. \A d \in Clients : SameMail(d)
  BY <1>1 DEF SameMail, Queued, Arrived, RepliesTo, Answers
<1>8. \A u \in Tasks : u # t => TaskSame(u)
  BY <1>1, <1>4, <1>5, SubmittingSame, BoxReached
<1>9. ASSUME NEW d \in Clients, d # c PROVE Served(d)'
  <2>1. Stays(d)
    BY <1>1, <1>7, <1>9, OthersRead, SameMailKept
  <2>2. \A u \in sub[d] : u \in Tasks /\ u # t
    BY <1>4, <1>6, <1>9, Facts
  <2> QED
    BY <1>1, <1>8, <2>1, <2>2, OthersServed
<1>10. /\ Questions(c)' = Questions(c)
       /\ \A u : u # t => (InQueue(c, u)' <=> InQueue(c, u))
  <2>1. Msg("SUBMIT", t).type \notin Asking
    BY DEF Msg, Asking
  <2>2. Questions(c)' = Questions(c)
    BY <1>3, <2>1 DEF Questions, Asking
  <2>3. \A u : u # t => Msg("SUBMIT", u) # Msg("SUBMIT", t)
    BY AskingTypes
  <2>4. ASSUME NEW u, u # t PROVE InQueue(c, u)' <=> InQueue(c, u)
    <3>1. Msg("SUBMIT", u)' = Msg("SUBMIT", u)
      BY DEF Msg
    <3> QED
      BY <1>3, <2>3, <2>4, <3>1 DEF InQueue
  <2> QED
    BY <2>2, <2>4
<1>11. Quiet(c)' <=> Quiet(c)
  BY <1>7, SameMailKept
<1>11a. \A m : Answering(c, m) <=> Answering(c, m)'
  BY <1>7, SameMailKept
<1>12. Net(c)'
  <2>0. Net(c) /\ link'[c] = link[c]
    BY <1>1, Facts
  <2>1. Sends(c)'
    BY <1>1, <1>3, <1>10, <2>0 DEF Net, Sends, Msg, Question, Replies
  <2>2. Hears(c)'
    <3>1. PICK m : m = Wanted(c)
      OBVIOUS
    <3>2. Wanted(c)' = m
      BY <1>1, <3>1 DEF Wanted, Msg
    <3>3. Answering(c, Wanted(c)) <=> Answering(c, Wanted(c))'
      BY <1>11a, <3>1, <3>2
    <3> QED
      BY <1>1, <1>10, <1>11, <2>0, <3>3 DEF Net, Hears, Held
  <2>3. Newcomer(c)' /\ Program(c)'
    BY <1>1, <2>0 DEF Net, Newcomer, Program, NoCall, Held
  <2> QED
    BY <2>1, <2>2, <2>3 DEF Net
<1>13. Book(c, t)'
  <2>1. /\ DOMAIN tasks' = DOMAIN tasks \cup {t}
        /\ tasks'[t] = [box |-> boxCounter, conn |-> c]
        /\ DOMAIN mailboxes' = DOMAIN mailboxes \cup {boxCounter}
        /\ mailboxes'[boxCounter] = [ready |-> FALSE, waiting |-> FALSE]
    BY <1>5 DEF Submitting, Put
  <2>2. HasBox(t)' /\ ~Ready(t)' /\ ~Waiting(t)'
    BY <2>1 DEF HasBox, Ready, Waiting
  <2>3. ~Reached(t)'
    <3>1. boxCounter \in Boxes
      <4>1. t \notin Handled /\ Handled \subseteq Tasks
        BY <1>6 DEF Handled
      <4>2. IsFiniteSet(Handled) /\ Cardinality(Handled) + 1 <= Cardinality(Tasks)
              /\ Cardinality(Handled) \in Nat /\ Cardinality(Tasks) \in Nat
        <5>1. IsFiniteSet(Handled) /\ IsFiniteSet(Handled \cup {t})
              /\ Handled \cup {t} \subseteq Tasks
          BY <1>4, <4>1, FiniteAssumption, FS_Subset, FS_AddElement
        <5>2. Cardinality(Handled \cup {t}) = Cardinality(Handled) + 1
          BY <4>1, <5>1, FS_AddElement
        <5> QED
          BY <5>1, <5>2, FiniteAssumption, FS_Subset, FS_CardinalityType
      <4>3. boxCounter <= Cardinality(Handled) /\ boxCounter \in Nat
        BY Facts DEF SInv, Bound, BooksType
      <4> QED
        BY <4>2, <4>3 DEF Boxes
    <3>2. reported[boxCounter] = {}
      <4>1. boxCounter >= boxCounter
        BY Facts DEF BooksType
      <4> QED
        BY <3>1, <4>1 DEF SInv, Fresh
    <3> QED
      BY <1>1, <2>1, <3>2 DEF Reached
  <2> QED
    BY <2>1, <2>2, <2>3 DEF Book, Home, Noted, Answerable, Owned, Kept, Marked
<1>14. ASSUME NEW u \in Tasks, u \in sub[c], u # t PROVE Book(c, u)'
  <2>0. /\ Book(c, u) /\ TaskSame(u) /\ Questions(c)' = Questions(c)
        /\ InQueue(c, u)' <=> InQueue(c, u)
        /\ Quiet(c)' <=> Quiet(c)
        /\ UNCHANGED <<at, call, over, link>>
    BY <1>1, <1>8, <1>10, <1>11, <1>14, Owner
  <2>1. /\ Ready(u)' <=> Ready(u)
        /\ Waiting(u)' <=> Waiting(u)
        /\ u \in DOMAIN tasks' <=> u \in DOMAIN tasks
        /\ u \in DOMAIN tasks => tasks'[u].conn = tasks[u].conn /\ (Reached(u)' <=> Reached(u))
        /\ HasBox(u)' <=> HasBox(u)
    BY <2>0, TaskSameFacts
  <2>2. Answering(c, Msg("RESULT", u)) <=> Answering(c, Msg("RESULT", u))'
    <3>1. PICK m : m = Msg("RESULT", u)
      OBVIOUS
    <3>2. Msg("RESULT", u)' = m
      BY <3>1 DEF Msg
    <3> QED
      BY <1>11a, <3>1, <3>2
  <2>3. Home(c, u)' /\ Noted(u)'
    BY <2>0, <2>1 DEF Book, Home, Noted, Ready, HasBox
  <2>4. Answerable(c, u)'
    BY <2>0, <2>1 DEF Book, Answerable, Held
  <2>5. Owned(c, u)'
    BY <2>0, <2>1, <2>2 DEF Book, Owned, Ended, In
  <2>6. Kept(c, u)'
    BY <2>0, <2>1, <2>2 DEF Book, Kept, In, Cancels
  <2>7. Marked(c, u)'
    BY <2>0, <2>1 DEF Book, Marked
  <2> QED
    BY <2>3, <2>4, <2>5, <2>6, <2>7 DEF Book
<1>15. ASSUME NEW u \in sub'[c] PROVE Book(c, u)'
  <2>1. u \in sub[c] /\ u \in Tasks
    BY <1>1, <1>15, Facts
  <2> QED
    BY <2>1, <1>13, <1>14
<1>16. srv' = "running"
  BY <1>1
<1> QED
  BY <1>9, <1>12, <1>15, <1>16 DEF AllServed, Served

\* Every message of a client.
LEMMA HandleClientServed ==
    ASSUME SInv, NEW c \in Clients, HandleClient(c)
    PROVE  AllServed
BY ConnectServed, DisconnectServed, EOFServed, SubmitServed, RequestServed, StatusServed,
   CancelServed, OvertakenServed DEF HandleClient

-----------------------------------------------------------------------------
(* Messages of the workers.                                                *)

\* The mailbox ids of the tasks are among Boxes.
LEMMA BoxReported ==
    ASSUME SInv, srv = "running"
    PROVE  \A t \in DOMAIN tasks : tasks[t].box \in Boxes
<1>1. Handled \subseteq Tasks
  BY DEF Handled
<1>2. /\ Cardinality(Handled) <= Cardinality(Tasks)
      /\ Cardinality(Handled) \in Nat /\ Cardinality(Tasks) \in Nat
  BY <1>1, FiniteAssumption, FS_Subset, FS_CardinalityType
<1>3. boxCounter <= Cardinality(Handled) /\ boxCounter \in Nat
  BY Facts DEF SInv, Bound, BooksType
<1> QED
  BY <1>2, <1>3, Owner DEF Boxes

\* A message of the workers is about one task at most.
LEMMA OthersReached ==
    ASSUME SInv, srv = "running", NEW b \in Boxes, NEW type,
           reported' = [reported EXCEPT ![b] = @ \cup {type}],
           NEW u, BoxSame(u), type # "RESULT" \/ (u \in DOMAIN tasks => tasks[u].box # b)
    PROVE  TaskSame(u)
<1>1. u \in DOMAIN tasks => /\ tasks'[u] = tasks[u]
                            /\ tasks[u].box \in Boxes
  BY BoxReported DEF BoxSame
<1>2. reported \in [Boxes -> SUBSET Reports]
  BY Facts
<1>3. u \in DOMAIN tasks => (Reached(u)' <=> Reached(u))
  BY <1>1, <1>2 DEF Reached
<1> QED
  BY <1>3 DEF TaskSame

\* A step of the server or the workers is not one of a client.
LEMMA WorkersStay ==
    ASSUME SInv, UNCHANGED <<up, client>>, NEW d \in Clients, link'[d] = link[d], MailKept(d)
    PROVE  Stays(d)
BY DEF Stays, client, program

\* handle_log and handle_error send no reply, and fail no lookup.
LEMMA ReportServed ==
    ASSUME SInv, NEW b \in Boxes, NEW type \in {"ERROR", "LOG"}, HandleReport(b, type)
    PROVE  AllServed
<1>1. /\ srv = "running" /\ UNCHANGED <<up, client>> /\ reply' = reply
      /\ reported' = [reported EXCEPT ![b] = @ \cup {type}]
  BY DEF HandleReport, Report, client
<1>2. Agree /\ BooksType
  BY <1>1, Facts
<1> SUFFICES ASSUME ~Raced PROVE AllServed
  BY <1>1, StoppedServed DEF Raced
<1>3. b \in DOMAIN boxTask => boxTask[b] \in DOMAIN tasks
  BY <1>2 DEF Agree, BoxesKnown, HandleReport
<1>4. /\ UNCHANGED <<srv, books, link, down>>
      /\ \/ UNCHANGED outgoing
         \/ b \in DOMAIN boxTask /\ Enqueue(tasks[boxTask[b]].conn, type, boxTask[b])
  BY <1>3 DEF HandleReport, books
<1>5. ASSUME NEW d \in Clients PROVE SameMail(d)
  <2>1. CASE UNCHANGED outgoing
    BY <1>1, <1>4, <2>1 DEF SameMail, Queued, Arrived, RepliesTo, Answers
  <2>2. CASE b \in DOMAIN boxTask /\ Enqueue(tasks[boxTask[b]].conn, type, boxTask[b])
    <3>1. PICK t \in Tasks : t = boxTask[b]
      BY <1>2, <2>2 DEF BooksType
    <3>2. PICK c \in Clients : c = tasks[t].conn
      BY <1>1, <1>3, <2>2, <3>1, Owner
    <3>3. Enqueue(c, type, t)
      BY <2>2, <3>1, <3>2
    <3>4. type \in Replies \cup Reports /\ type \notin Replies
      BY DEF Replies, Reports
    <3> QED
      BY <1>1, <1>4, <3>3, <3>4, EnqueueMail, Facts
  <2> QED
    BY <1>4, <2>1, <2>2
<1>6. \A u : TaskSame(u)
  <2>1. \A u : BoxSame(u)
    BY <1>4, SameBooks DEF books
  <2> QED
    BY <1>1, <2>1, OthersReached
<1>7. \A d \in Clients : Stays(d)
  BY <1>1, <1>4, <1>5, WorkersStay, SameMailKept
<1>8. \A d \in Clients : Served(d)'
  BY <1>1, <1>6, <1>7, OthersServed
<1> QED
  BY <1>1, <1>4, <1>8 DEF AllServed

\* An error of the runtime stops the server, with no KeyError.
LEMMA SystemErrorServed ==
    ASSUME SInv, HandleSystemError
    PROVE  AllServed
<1>1. /\ SystemError("worker error") /\ UNCHANGED <<up, client, reply>>
      /\ srv' = "worker error" /\ link' = link
  BY DEF HandleSystemError, SystemError, client
<1>2. \A d \in Clients : SameMail(d)
  BY <1>1, ErrorMail DEF SInv
<1>3. \A d \in Clients : Stays(d)
  BY <1>1, <1>2, WorkersStay, SameMailKept
<1>4. \A d \in Clients : Served(d)'
  BY <1>1, <1>3, OthersServed
<1> QED
  BY <1>1, <1>4 DEF AllServed

\* A result that comes first is noted;
LEMMA NotedBook ==
    ASSUME SInv, srv = "running", NEW b \in Boxes, NEW t \in Tasks, t \in DOMAIN tasks,
           tasks[t].box = b, b \in DOMAIN mailboxes, ~mailboxes[b].waiting,
           reported' = [reported EXCEPT ![b] = @ \cup {"RESULT"}],
           mailboxes' = [mailboxes EXCEPT ![b].ready = TRUE],
           UNCHANGED <<tasks, link, up, client>>,
           NEW c \in Clients, t \in sub[c]
    PROVE  Book(c, t)'
<1>1. mailboxes[b] \in [ready : BOOLEAN, waiting : BOOLEAN] /\ reported \in [Boxes -> SUBSET Reports]
  BY Facts DEF BooksType
<1>2. /\ b \in DOMAIN mailboxes' /\ mailboxes'[b].ready /\ ~mailboxes'[b].waiting
      /\ "RESULT" \in reported'[b]
  BY <1>1
<1>3. HasBox(t)' /\ Ready(t)' /\ ~Waiting(t)' /\ Reached(t)'
  BY <1>2 DEF HasBox, Ready, Waiting, Reached
<1>4. Home(c, t)'
  BY Owner DEF Home
<1> QED
  BY <1>3, <1>4 DEF Book, Noted, Answerable, Owned, Kept, Marked

\* one of a task that has ended changes nothing;
LEMMA LateBook ==
    ASSUME SInv, srv = "running", NEW b \in Boxes, NEW t \in Tasks, t \in DOMAIN tasks,
           tasks[t].box = b, b \notin DOMAIN mailboxes, "RESULT" \notin reported[b],
           reported' = [reported EXCEPT ![b] = @ \cup {"RESULT"}],
           UNCHANGED <<tasks, mailboxes, link, up, client, outgoing, down>>,
           NEW c \in Clients, t \in sub[c]
    PROVE  Book(c, t)'
<1>1. /\ Book(c, t) /\ ~HasBox(t) /\ ~Reached(t)
      /\ link[c] = "open" \/ at[c] = "gone"
  BY Owner DEF HasBox, Reached
<1>2. ~HasBox(t)' /\ ~Ready(t)' /\ ~Waiting(t)'
  BY DEF HasBox, Ready, Waiting
<1>3. ~InQueue(c, t)
  <2>1. ASSUME InQueue(c, t) PROVE FALSE
    <3>1. PICK i \in DOMAIN up[c] : up[c][i] = Msg("SUBMIT", t)
      BY <2>1 DEF InQueue, Range
    <3>2. i \in Nat
      <4>1. up[c] \in Seq(AsksOf)
        BY Facts
      <4> QED
        BY <3>1, <4>1
    <3> QED
      BY <3>1, <3>2, Facts DEF Agree, Drawn, Submission
  <2> QED
    BY <2>1
<1>4. /\ UNCHANGED <<at, call, over, reply>> /\ Questions(c)' = Questions(c)
      /\ InQueue(c, t)' <=> InQueue(c, t)
  BY DEF client, program, Questions, Asking, InQueue, Msg, Range
<1>5. In(c) /\ t \notin over => Ended(c, t)
  BY <1>1, <1>3 DEF Book, Owned, In
<1>6. In(c) /\ t \notin over => Cancels(c, t)
  BY <1>1, <1>5 DEF Ended, Cancels
<1>7. Home(c, t)' /\ Noted(t)' /\ Marked(c, t)'
  BY <1>1, <1>2 DEF Book, Home, Noted, Marked
<1>8. Answerable(c, t)'
  BY <1>1, <1>2, <1>4 DEF Book, Answerable, HasBox, Held
<1>9. Owned(c, t)'
  BY <1>4, <1>5, <1>6 DEF Owned, Ended, In, Cancels
<1>10. Kept(c, t)'
  BY <1>4, <1>6 DEF Kept, In, Cancels
<1> QED
  BY <1>7, <1>8, <1>9, <1>10 DEF Book

\* and one that is waited for is sent.
LEMMA SentServed ==
    ASSUME SInv, srv = "running", NEW b \in Boxes, NEW t \in Tasks, t \in DOMAIN tasks,
           tasks[t].box = b, b \in DOMAIN mailboxes, mailboxes[b].waiting,
           reported' = [reported EXCEPT ![b] = @ \cup {"RESULT"}],
           NEW c \in Clients, c = tasks[t].conn,
           Deliver(t, b, c), UNCHANGED <<srv, tasks, boxTask, boxCounter, link, down>>,
           UNCHANGED <<up, client>>
    PROVE  AllServed
<1>1. /\ Enqueue(c, "RESULT", t) /\ Ending(t)
      /\ UNCHANGED <<at, call, reply, sub, over>>
  BY DEF Deliver, Ending, Rest, HasBox, client, program
<1>2. t \in sub[c] /\ Book(c, t)
  BY Owner
<1>3. /\ Questions(c) = {} /\ at[c] \in {"wait", "closing", "gone"}
      /\ at[c] = "wait" => call[c].task = t /\ call[c].want = "RESULT" /\ Quiet(c)
  <2>1. Waiting(t)
    BY DEF Waiting, HasBox
  <2> QED
    BY <1>2, <2>1 DEF Book, Marked
<1>4. /\ \A d \in Clients : d # c => SameMail(d)
      /\ Quiet(c) => Answering(c, Msg("RESULT", t))'
  BY <1>1, EnqueueMail, Facts DEF Replies
<1>5. \A u \in Tasks : u # t => TaskSame(u)
  <2>1. \A u \in Tasks : u # t => BoxSame(u)
    BY <1>1, EndingSame
  <2>2. \A u \in Tasks : u # t /\ u \in DOMAIN tasks => tasks[u].box # b
    BY Owner
  <2> QED
    BY <2>1, <2>2, OthersReached
<1>6. ASSUME NEW d \in Clients, d # c PROVE Served(d)'
  <2>1. Stays(d)
    BY <1>4, <1>6, WorkersStay, SameMailKept
  <2>2. \A u \in sub[d] : u \in Tasks /\ u # t
    BY <1>2, <1>6, Facts
  <2> QED
    BY <1>5, <2>1, <2>2, OthersServed
<1>7. Questions(c)' = {} /\ \A u : InQueue(c, u)' <=> InQueue(c, u)
  BY <1>3 DEF Questions, Asking, InQueue, Msg, Range
<1>8. at[c] = "wait" => Answering(c, Msg("RESULT", t))' /\ Answering(c, Wanted(c))'
  <2>1. SUFFICES ASSUME at[c] = "wait"
                 PROVE  Answering(c, Msg("RESULT", t))' /\ Answering(c, Wanted(c))'
    OBVIOUS
  <2>2. Wanted(c)' = Msg("RESULT", t)
    BY <1>1, <1>3, <2>1 DEF Wanted, Msg
  <2>3. PICK m : m = Msg("RESULT", t)
    OBVIOUS
  <2>4. Answering(c, m)'
    BY <1>3, <1>4, <2>1, <2>3
  <2>5. Msg("RESULT", t)' = m
    BY <2>3 DEF Msg
  <2> QED
    BY <2>2, <2>3, <2>4, <2>5
<1>9. Net(c)'
  <2>0. Net(c) /\ Alone(up[c])'
    BY Facts DEF Net, Sends, Alone
  <2>1. Sends(c)'
    BY <1>1, <1>3, <1>7, <2>0 DEF Net, Sends, Replies
  <2>2. Hears(c)'
    BY <1>1, <1>3, <1>7, <1>8 DEF Hears
  <2>3. Newcomer(c)' /\ Program(c)'
    BY <1>1, <1>2, <2>0 DEF Net, Newcomer, Program, NoCall
  <2> QED
    BY <2>1, <2>2, <2>3 DEF Net
<1>10. Book(c, t)'
  <2>1. /\ ~HasBox(t)' /\ Reached(t)'
    <3>1. ~HasBox(t)'
      BY <1>1 DEF Ending, HasBox, Without
    <3>2. Reached(t)'
      BY Facts DEF Reached
    <3> QED
      BY <3>1, <3>2
  <2>2. Home(c, t)' /\ Noted(t)' /\ Marked(c, t)' /\ Answerable(c, t)'
    BY <1>7, <2>1 DEF Home, Noted, Marked, Ready, Waiting, Answerable
  <2>3. In(c)' => Ended(c, t)' /\ Answering(c, Msg("RESULT", t))'
    BY <1>1, <1>3, <1>7, <1>8, <2>1 DEF In, Ended
  <2> QED
    BY <2>2, <2>3 DEF Book, Owned, Kept
<1>11. ASSUME NEW u \in Tasks, u \in sub[c], u # t PROVE Book(c, u)'
  <2>0. Book(c, u) /\ TaskSame(u)
    BY <1>5, <1>11, Owner
  <2>1. /\ Ready(u)' <=> Ready(u)
        /\ Waiting(u)' <=> Waiting(u)
        /\ u \in DOMAIN tasks' <=> u \in DOMAIN tasks
        /\ u \in DOMAIN tasks => tasks'[u].conn = tasks[u].conn /\ (Reached(u)' <=> Reached(u))
        /\ HasBox(u)' <=> HasBox(u)
    BY <2>0, TaskSameFacts
  <2>2. Home(c, u)' /\ Noted(u)' /\ Answerable(c, u)'
    BY <1>7, <2>0, <2>1 DEF Book, Home, Noted, Ready, HasBox, Answerable, Held
  <2>3. In(c) => at[c] = "wait" /\ Quiet(c) /\ ~Ended(c, u)
    BY <1>3, <1>11 DEF In, Ended
  <2>4. Owned(c, u)'
    BY <1>1, <1>7, <2>0, <2>1, <2>3 DEF Book, Owned, In
  <2>5. Kept(c, u)'
    <3>1. In(c) => ~Answering(c, Msg("RESULT", u))
      BY <2>3, QuietSilent, ResultMsg
    <3> QED
      BY <1>1, <2>0, <2>1, <3>1 DEF Book, Kept, In, Cancels
  <2>6. Marked(c, u)'
    BY <1>1, <1>3, <1>7, <1>11, <2>0, <2>1 DEF Book, Marked
  <2> QED
    BY <2>2, <2>4, <2>5, <2>6 DEF Book
<1>12. ASSUME NEW u \in sub'[c] PROVE Book(c, u)'
  <2>1. u \in sub[c] /\ u \in Tasks
    BY <1>1, <1>12, Facts
  <2> QED
    BY <2>1, <1>10, <1>11
<1> QED
  BY <1>6, <1>9, <1>12 DEF AllServed, Served

\* handle_result stores the result, sends it to the client that waits, or
\* drops it.
LEMMA ResultServed ==
    ASSUME SInv, NEW b \in Boxes, HandleResult(b)
    PROVE  AllServed
<1>1. /\ srv = "running" /\ UNCHANGED <<up, client>> /\ reply' = reply /\ sub' = sub
      /\ reported' = [reported EXCEPT ![b] = @ \cup {"RESULT"}]
      /\ "RESULT" \notin reported[b]
  BY DEF HandleResult, Report, client, program
<1>2. Agree /\ BooksType
  BY <1>1, Facts
<1>3. \A u \in Tasks : u \in DOMAIN tasks /\ tasks[u].box = b => boxTask[b] = u
  BY <1>2 DEF Agree, TasksKnown
<1>4. ASSUME UNCHANGED <<srv, tasks, link, outgoing, down>>,
             \A u \in Tasks : (u \in DOMAIN tasks => tasks[u].box # b) => BoxSame(u),
             \A c \in Clients : \A u \in Tasks :
                u \in sub[c] /\ u \in DOMAIN tasks /\ tasks[u].box = b => Book(c, u)'
      PROVE  AllServed
  <2>1. ASSUME NEW d \in Clients PROVE Stays(d)
    <3>1. SameMail(d)
      BY <1>1, <1>4 DEF SameMail, Queued, Arrived, RepliesTo, Answers
    <3> QED
      BY <1>1, <1>4, <3>1, WorkersStay, SameMailKept
  <2>2. ASSUME NEW d \in Clients, NEW u \in sub'[d] PROVE Book(d, u)'
    <3>1. u \in sub[d] /\ u \in Tasks
      BY <1>1, <2>2, Facts
    <3>2. CASE u \in DOMAIN tasks /\ tasks[u].box = b
      BY <1>4, <3>1, <3>2
    <3>3. CASE u \in DOMAIN tasks => tasks[u].box # b
      <4>1. TaskSame(u)
        BY <1>1, <1>4, <3>1, <3>3, OthersReached
      <4>2. /\ Book(d, u)
            /\ u \in DOMAIN tasks => link[d] = "open" \/ at[d] = "gone"
        BY <1>1, <3>1, Owner
      <4> QED
        BY <2>1, <4>1, <4>2, StaysBook
    <3> QED
      BY <3>2, <3>3
  <2>3. \A d \in Clients : Net(d)'
    BY <2>1, StaysNet, Facts
  <2> QED
    BY <1>1, <1>4, <2>2, <2>3 DEF AllServed, Served
<1>5. CASE b \notin DOMAIN mailboxes
  <2>1. UNCHANGED <<srv, books, outgoing, link, down>>
    BY <1>5 DEF HandleResult
  <2>2. UNCHANGED <<srv, tasks, mailboxes, link, outgoing, down>>
    BY <2>1 DEF books
  <2>3. \A u : BoxSame(u)
    BY <2>2, SameBooks
  <2>4. ASSUME NEW c \in Clients, NEW u \in Tasks, u \in sub[c], u \in DOMAIN tasks,
               tasks[u].box = b
        PROVE  Book(c, u)'
    BY <1>1, <1>5, <2>2, <2>4, LateBook
  <2> QED
    BY <1>4, <2>2, <2>3, <2>4
<1>6. CASE b \in DOMAIN mailboxes
  <2>1. PICK t \in Tasks : t = boxTask[b]
    BY <1>2, <1>6 DEF BooksType, Agree, BoxesKnown
  <2>2. /\ b \in DOMAIN boxTask /\ t \in DOMAIN tasks /\ tasks[t].box = b /\ HasBox(t)
    BY <1>2, <1>6, <2>1 DEF Agree, BoxesKnown, HasBox
  <2>3. CASE ~mailboxes[b].waiting
    <3>1. /\ mailboxes' = [mailboxes EXCEPT ![b].ready = TRUE]
          /\ UNCHANGED <<srv, clients, tasks, boxTask, boxCounter, outgoing, link, down>>
      BY <1>6, <2>2, <2>3 DEF HandleResult
    <3>2. Marking(b)
      BY <1>6, <3>1 DEF Marking, Rest
    <3>3. \A u \in Tasks : (u \in DOMAIN tasks => tasks[u].box # b) => BoxSame(u)
      BY <1>1, <3>2, MarkingSame
    <3>4. ASSUME NEW c \in Clients, NEW u \in Tasks, u \in sub[c], u \in DOMAIN tasks,
                 tasks[u].box = b
          PROVE  Book(c, u)'
      BY <1>1, <1>6, <2>3, <3>1, <3>4, NotedBook
    <3> QED
      BY <1>4, <3>1, <3>3, <3>4
  <2>4. CASE mailboxes[b].waiting
    <3>1. PICK c \in Clients : c = tasks[t].conn
      BY <1>1, <2>2, Owner
    <3>2. c \in DOMAIN clients => t \in clients[c]
      BY <1>1, <1>2, <2>2, <3>1, Owner DEF Agree, OpenTasks, TasksOf
    <3>2a. CASE c \notin DOMAIN clients
      <4>1. c = sender.conn
        BY <1>2, <2>2, <3>1, <3>2a DEF Agree, TasksKnown, Leaver
      <4>2. Raced
        BY <1>6, <2>1, <2>2, <2>4, <3>1, <3>2a, <4>1 DEF HandleResult
      <4> QED
        BY <1>1, <4>2, StoppedServed DEF Raced
    <3> SUFFICES ASSUME c \in DOMAIN clients PROVE AllServed
      BY <3>2a
    <3>3. Deliver(t, b, c) /\ UNCHANGED <<srv, tasks, boxTask, boxCounter, link, down>>
      BY <1>6, <2>1, <2>2, <2>4, <3>1, <3>2 DEF HandleResult
    <3> QED
      BY <1>1, <1>6, <2>2, <2>4, <3>1, <3>3, SentServed
  <2> QED
    BY <2>3, <2>4
<1> QED
  BY <1>5, <1>6

\* Every message of the workers.
LEMMA WorkerMessageServed == SInv /\ WorkerMessage => AllServed
<1>1. ASSUME SInv, NEW b \in Boxes, NEW type \in Reports, OvertakenReport(b, type)
      PROVE  AllServed
  BY <1>1, StoppedServed DEF OvertakenReport, Report, Raced
<1> QED
  BY <1>1, ResultServed, ReportServed, SystemErrorServed DEF WorkerMessage

-----------------------------------------------------------------------------
(* The other steps of the server.                                          *)

\* A step that leaves the clients and the books, and keeps the replies.
LEMMA StillServed ==
    ASSUME SInv, UNCHANGED <<srv, tasks, mailboxes, link, up, client, reported>>,
           \A d \in Clients : MailKept(d)
    PROVE  AllServed
<1>1. ASSUME NEW d \in Clients PROVE Served(d)'
  <2>1. Stays(d)
    BY WorkersStay
  <2>2. \A u : TaskSame(u)
    BY SameBooks, BoxReached
  <2> QED
    BY <2>1, <2>2, OthersServed
<1> QED
  BY <1>1 DEF AllServed, SInv, NoKeyError

\* The thread that sends keeps the replies of the clients that still read.
LEMMA SenderMail ==
    ASSUME SInv, SenderStep, NEW d \in Clients
    PROVE  MailKept(d)
<1>1. reply' = reply
  BY DEF SenderStep, client
<1>2. CASE Passed
  BY <1>1, <1>2, SendMail DEF SInv
<1>3. CASE UNCHANGED <<outgoing, down>>
  <2>1. SameMail(d)
    BY <1>1, <1>3 DEF SameMail, Queued, Arrived, RepliesTo, Answers
  <2> QED
    BY <2>1, SameMailKept
<1>4. TakeNext => Passed \/ UNCHANGED <<outgoing, down>>
  BY DEF TakeNext, Passed
<1>5. SendNext => Passed
  BY DEF SendNext, Sent, Passed
<1>6. SendReset \/ SendBroken => Passed
  BY DEF SendReset, SendBroken, Sent, Passed
<1>7. Unregister \/ CloseHandle \/ PopClient \/ Collect \/ Collected \/ ForgetBox \/ Released
        => UNCHANGED <<outgoing, down>>
  BY DEF Unregister, CloseHandle, PopClient, Collect, Collected, ForgetBox, Released
<1>8. \A t \in Tasks : CancelOne(t) \/ ForgetTask(t) => UNCHANGED <<outgoing, down>>
  BY DEF CancelOne, ForgetTask
<1>9. Passed \/ UNCHANGED <<outgoing, down>>
  BY <1>4, <1>5, <1>6, <1>7, <1>8 DEF SenderStep
<1> QED
  BY <1>2, <1>3, <1>9

\* What the dictionaries hold of a client that has left may go.
Fewer ==
    /\ DOMAIN tasks' \subseteq DOMAIN tasks
    /\ \A t \in DOMAIN tasks' : tasks'[t] = tasks[t]
    /\ DOMAIN mailboxes' \subseteq DOMAIN mailboxes
    /\ \A b \in DOMAIN mailboxes' : mailboxes'[b] = mailboxes[b]

\* Nothing is promised to a client that has left.
LEMMA GoneServed ==
    ASSUME SInv, NEW c \in Clients, at[c] = "gone", Fewer,
           UNCHANGED <<srv, client, reported>>, link'[c] \in {"cut", "closed"},
           up'[c] = up[c] \/ up'[c] = <<>>,
           link'[c] = "cut" => Held(c) /\ UNCHANGED <<up, tasks, mailboxes>>
    PROVE  Served(c)'
<1>0. /\ UNCHANGED <<at, call, reply, sub, over>>
      /\ at'[c] = "gone" /\ ~In(c)'
  BY DEF client, program, In
<1>1. Net(c)
  BY Facts
<1>2. (Alone(up[c]) => Alone(up[c])') /\ Questions(c)' \subseteq Questions(c)
  BY DEF Alone, Questions, Range, Asking
<1>3. Net(c)'
  <2>1. Sends(c)'
    BY <1>0, <1>1, <1>2 DEF Net, Sends
  <2>2. Hears(c)' /\ Newcomer(c)'
    BY <1>0 DEF Hears, Newcomer
  <2>3. Program(c)'
    BY <1>0, <1>1 DEF Net, Program, NoCall
  <2> QED
    BY <2>1, <2>2, <2>3 DEF Net
<1>4. ASSUME srv' = "running", NEW t \in sub'[c] PROVE Book(c, t)'
  <2>1. t \in Tasks /\ Book(c, t)
    BY <1>0, <1>4, Owner, Facts
  <2>2. /\ t \in DOMAIN tasks' => t \in DOMAIN tasks /\ tasks'[t] = tasks[t]
        /\ HasBox(t)' => HasBox(t) /\ mailboxes'[tasks'[t].box] = mailboxes[tasks[t].box]
    BY DEF Fewer, HasBox
  <2>3. Home(c, t)'
    BY <2>1, <2>2 DEF Book, Home
  <2>4. (Ready(t)' => Ready(t)) /\ (Waiting(t)' => Waiting(t))
    BY <2>2 DEF Ready, Waiting
  <2>5. Noted(t)'
    <3>1. Ready(t)' => Ready(t) /\ tasks'[t] = tasks[t]
      BY <2>2, <2>4 DEF Ready, HasBox
    <3> QED
      BY <3>1, <2>1 DEF Book, Noted, Reached
  <2>6. Answerable(c, t)'
    <3>1. CASE link'[c] = "closed"
      BY <3>1 DEF Answerable, Held
    <3>2. CASE link'[c] = "cut"
      <4>1. /\ Questions(c)' = Questions(c) /\ (InQueue(c, t)' <=> InQueue(c, t))
            /\ HasBox(t)' <=> HasBox(t)
        BY <3>2 DEF Questions, Asking, InQueue, Msg, Range, HasBox
      <4> QED
        BY <3>2, <4>1, <2>1 DEF Book, Answerable
    <3> QED
      BY <3>1, <3>2
  <2>7. Owned(c, t)' /\ Kept(c, t)'
    BY <1>0 DEF Owned, Kept
  <2>8. Marked(c, t)'
    BY <1>0, <1>2, <2>1, <2>4 DEF Book, Marked
  <2> QED
    BY <2>3, <2>5, <2>6, <2>7, <2>8 DEF Book
<1> QED
  BY <1>3, <1>4 DEF Served

\* Nor does anybody else lose by what is taken from it.
LEMMA SeveredServed ==
    ASSUME SInv, NEW c \in Clients, at[c] = "gone", Fewer,
           UNCHANGED <<srv, client, reported>>, link'[c] \in {"cut", "closed"},
           up'[c] = up[c] \/ up'[c] = <<>>,
           link'[c] = "cut" => Held(c) /\ UNCHANGED <<up, tasks, mailboxes>>,
           \A d \in Clients \ {c} : up'[d] = up[d] /\ link'[d] = link[d] /\ MailKept(d),
           srv = "running" =>
              \A u \in Tasks : (u \in DOMAIN tasks => tasks[u].conn # c) => BoxSame(u)
    PROVE  AllServed
<1>1. Served(c)'
  BY GoneServed
<1>2. ASSUME NEW d \in Clients, d # c PROVE Served(d)'
  <2>1. Stays(d)
    BY <1>2 DEF Stays, client, program
  <2>2. ASSUME srv = "running", NEW u \in sub[d] PROVE TaskSame(u)
    <3>1. u \in Tasks /\ (u \in DOMAIN tasks => tasks[u].conn # c)
      BY <1>2, <2>2, Owner, Facts
    <3> QED
      BY <2>2, <3>1, BoxReached
  <2> QED
    BY <2>1, <2>2, OthersServed
<1> QED
  BY <1>1, <1>2 DEF AllServed, SInv, NoKeyError

\* Every statement of the thread that sends.
LEMMA SenderServed == SInv /\ SenderStep => AllServed
<1> SUFFICES ASSUME SInv, SenderStep PROVE AllServed
  OBVIOUS
<1>1. /\ srv # "down" /\ UNCHANGED <<srv, client, reported>>
      /\ \A d \in Clients : MailKept(d)
  BY SenderMail DEF SenderStep
<1>2. Links /\ Torn
  BY <1>1, Facts DEF Agree
<1>3. CASE UNCHANGED <<tasks, mailboxes, link, up>>
  BY <1>1, <1>3, StillServed
<1>4. sender.at \notin {"get", "send", "dead"} => /\ sender.conn \in Clients
                                               /\ at[sender.conn] = "gone"
  BY <1>2, Facts DEF Torn
<1>5. CASE Unregister /\ link[sender.conn] = "open"
  <2>1. /\ link' = [link EXCEPT ![sender.conn] = "cut"]
        /\ UNCHANGED <<tasks, mailboxes, up>> /\ sender.at = "unregister"
    BY <1>5 DEF Unregister, books
  <2>2. PICK c \in Clients : c = sender.conn
    BY <1>4, <2>1
  <2>3. at[c] = "gone" /\ link'[c] = "cut" /\ Held(c)
    BY <1>4, <1>5, <2>1, <2>2, Facts DEF Held
  <2>4. \A d \in Clients \ {c} : up'[d] = up[d] /\ link'[d] = link[d] /\ MailKept(d)
    BY <1>1, <2>1, <2>2, Facts
  <2>5. Fewer /\ \A u : BoxSame(u)
    BY <2>1, SameBooks DEF Fewer
  <2>6. up'[c] = up[c]
    BY <2>1
  <2> QED
    BY <1>1, <2>1, <2>3, <2>4, <2>5, <2>6, SeveredServed
<1>6. CASE CloseHandle
  <2>1. /\ link' = [link EXCEPT ![sender.conn] = "closed"]
        /\ up' = [up EXCEPT ![sender.conn] = <<>>]
        /\ UNCHANGED <<tasks, mailboxes>> /\ sender.at = "close"
    BY <1>6 DEF CloseHandle, books
  <2>2. PICK c \in Clients : c = sender.conn
    BY <1>4, <2>1
  <2>3. at[c] = "gone" /\ link'[c] = "closed" /\ up'[c] = <<>>
    BY <1>4, <2>1, <2>2, Facts
  <2>4. \A d \in Clients \ {c} : up'[d] = up[d] /\ link'[d] = link[d] /\ MailKept(d)
    BY <1>1, <2>1, <2>2, Facts
  <2>5. Fewer /\ \A u : BoxSame(u)
    BY <2>1, SameBooks DEF Fewer
  <2> QED
    BY <1>1, <2>3, <2>4, <2>5, SeveredServed
<1>7. ASSUME NEW t \in Tasks, CancelOne(t) PROVE AllServed
  <2>1. CASE ~HasBox(t)
    BY <1>3, <1>7, <2>1 DEF CancelOne
  <2>2. CASE HasBox(t)
    <3>1. /\ mailboxes' = Without(mailboxes, {tasks[t].box})
          /\ UNCHANGED <<tasks, link, up>> /\ sender.at = "cancel" /\ t \in sender.tasks
      BY <1>7, <2>2 DEF CancelOne
    <3>2. PICK c \in Clients : c = sender.conn
      BY <1>4, <3>1
    <3>3. at[c] = "gone" /\ link'[c] = "closed" /\ t \in DOMAIN tasks /\ tasks[t].conn = c
      BY <1>2, <1>4, <3>1, <3>2 DEF Links, Torn, After, TasksOf
    <3>4. \A d \in Clients \ {c} : up'[d] = up[d] /\ link'[d] = link[d] /\ MailKept(d)
      BY <1>1, <3>1
    <3>5. /\ DOMAIN mailboxes' = DOMAIN mailboxes \ {tasks[t].box}
          /\ \A b \in DOMAIN mailboxes' : mailboxes'[b] = mailboxes[b]
      BY <3>1 DEF Without
    <3>6. Fewer
      BY <3>1, <3>5 DEF Fewer
    <3>7. ASSUME srv = "running", NEW u \in Tasks, u \in DOMAIN tasks => tasks[u].conn # c
          PROVE  BoxSame(u)
      <4>1. u \in DOMAIN tasks => tasks[u].box # tasks[t].box
        BY <3>3, <3>7, Owner
      <4> QED
        BY <4>1, <3>1, <3>5 DEF BoxSame, HasBox
    <3>8. up'[c] = up[c] /\ link'[c] # "cut"
      BY <3>1, <3>3
    <3> QED
      BY <1>1, <3>3, <3>4, <3>6, <3>7, <3>8, SeveredServed
  <2> QED
    BY <2>1, <2>2
<1>8. ASSUME NEW t \in Tasks, ForgetTask(t) PROVE AllServed
  <2>1. /\ tasks' = Without(tasks, {t})
        /\ UNCHANGED <<mailboxes, link, up>> /\ sender.at = "forget" /\ t \in sender.tasks
    BY <1>8 DEF ForgetTask
  <2>2. PICK c \in Clients : c = sender.conn
    BY <1>4, <2>1
  <2>3. at[c] = "gone" /\ link'[c] = "closed" /\ t \in DOMAIN tasks /\ tasks[t].conn = c
    BY <1>2, <1>4, <2>1, <2>2 DEF Links, Torn, After, TasksOf
  <2>4. \A d \in Clients \ {c} : up'[d] = up[d] /\ link'[d] = link[d] /\ MailKept(d)
    BY <1>1, <2>1
  <2>5. /\ DOMAIN tasks' = DOMAIN tasks \ {t}
        /\ \A u \in DOMAIN tasks' : tasks'[u] = tasks[u]
    BY <2>1 DEF Without
  <2>6. Fewer
    BY <2>1, <2>5 DEF Fewer
  <2>7. ASSUME NEW u \in Tasks, u \in DOMAIN tasks => tasks[u].conn # c PROVE BoxSame(u)
    <3>1. u # t
      BY <2>3, <2>7
    <3> QED
      BY <3>1, <2>1, <2>5 DEF BoxSame, HasBox
  <2>8. up'[c] = up[c] /\ link'[c] # "cut"
    BY <2>1, <2>3
  <2> QED
    BY <1>1, <2>3, <2>4, <2>6, <2>7, <2>8, SeveredServed
<1>9. TakeNext \/ SendNext \/ SendReset \/ SendBroken => UNCHANGED <<tasks, mailboxes, link, up>>
  BY DEF TakeNext, SendNext, SendReset, SendBroken, Sent, books
<1>10. PopClient \/ Collect \/ Collected \/ ForgetBox \/ Released
         => UNCHANGED <<tasks, mailboxes, link, up>>
  BY DEF PopClient, Collect, Collected, ForgetBox, Released, books
<1>11. Unregister /\ link[sender.conn] # "open" => UNCHANGED <<tasks, mailboxes, link, up>>
  BY DEF Unregister, books
<1> QED
  BY <1>3, <1>5, <1>6, <1>7, <1>8, <1>9, <1>10, <1>11 DEF SenderStep

\* The server goes down.
LEMMA ShutdownServed == SInv /\ Shutdown => AllServed
<1> SUFFICES ASSUME SInv, Shutdown PROVE AllServed
  OBVIOUS
<1>1. /\ srv' = "down" /\ UNCHANGED <<up, down, outgoing, at, call, reply, sub, over>>
      /\ link' = [d \in Clients |-> IF link[d] = "none" THEN "none" ELSE "closed"]
  BY DEF Shutdown, client, program
<1>2. ASSUME NEW d \in Clients PROVE Served(d)'
  <2>1. Net(d) /\ (link'[d] = "closed" \/ (link'[d] = "none" /\ link[d] = "none"))
    BY <1>1, Facts
  <2>2. SameMail(d)
    BY <1>1 DEF SameMail, Queued, Arrived, RepliesTo, Answers
  <2>3. /\ Quiet(d)' <=> Quiet(d)
        /\ Questions(d)' = Questions(d) /\ (Alone(up[d])' <=> Alone(up[d]))
    BY <1>1, <2>2, SameMailKept DEF Questions, Asking, Alone, Range
  <2>4. Sends(d)' /\ Program(d)'
    BY <1>1, <2>1, <2>3 DEF Net, Sends, Program, NoCall, Msg, Question, Replies
  <2>5. Newcomer(d)'
    BY <1>1, <2>1, <2>3 DEF Net, Newcomer
  <2>6. Hears(d)'
    BY <1>1, <2>1, <2>3 DEF Net, Hears, Newcomer
  <2> QED
    BY <1>1, <2>4, <2>5, <2>6 DEF Served, Net
<1> QED
  BY <1>1, <1>2 DEF AllServed

\* listen accepts a client.
LEMMA AcceptServed ==
    ASSUME SInv, NEW c \in Clients, Accept(c)
    PROVE  AllServed
<1>1. /\ link[c] = "pending" /\ link' = [link EXCEPT ![c] = "open"]
      /\ UNCHANGED <<srv, tasks, mailboxes, outgoing, up, down, client, reported>>
      /\ UNCHANGED <<at, call, reply, sub, over>>
  BY DEF Accept, client, program
<1>2. \A u : TaskSame(u)
  BY <1>1, SameBooks, BoxReached
<1>3. \A d \in Clients : SameMail(d)
  BY <1>1 DEF SameMail, Queued, Arrived, RepliesTo, Answers
<1>4. ASSUME NEW d \in Clients, d # c PROVE Served(d)'
  <2>1. link'[d] = link[d]
    BY <1>1, <1>4, Facts
  <2>2. Stays(d)
    BY <1>1, <1>3, <2>1, WorkersStay, SameMailKept
  <2> QED
    BY <1>1, <1>2, <2>2, OthersServed
<1>5. Served(c)'
  <2>1. Net(c) /\ link'[c] = "open" /\ sub[c] = {} /\ Quiet(c) /\ at[c] \notin {"idle", "drain"}
    BY <1>1, Facts DEF Net, Newcomer
  <2>2. Quiet(c)' /\ Questions(c)' = Questions(c) /\ (Alone(up[c])' <=> Alone(up[c]))
    BY <1>1, <1>3, <2>1, SameMailKept DEF Questions, Asking, Alone, Range
  <2>3. Sends(c)' /\ Program(c)'
    BY <1>1, <2>1, <2>2 DEF Net, Sends, Program, NoCall, Msg, Question, Replies
  <2>4. Newcomer(c)' /\ Hears(c)'
    BY <2>1, <2>2 DEF Newcomer, Hears
  <2> QED
    BY <1>1, <2>1, <2>3, <2>4 DEF Served, Net
<1> QED
  BY <1>1, <1>4, <1>5 DEF AllServed, SInv, NoKeyError

-----------------------------------------------------------------------------
(* The client.                                                             *)

\* A step of c changes nothing of the other clients or of the books.
Elsewhere(c) ==
    /\ UNCHANGED <<srv, tasks, mailboxes, outgoing, reported>> /\ over \subseteq over'
    /\ \A d \in Clients \ {c} :
          /\ at'[d] = at[d] /\ call'[d] = call[d] /\ up'[d] = up[d] /\ down'[d] = down[d]
          /\ reply'[d] = reply[d] /\ sub'[d] = sub[d] /\ link'[d] = link[d]

\* A step of c that keeps c served keeps all served.
LEMMA ElsewhereServed ==
    ASSUME SInv, NEW c \in Clients, Elsewhere(c)
    PROVE  /\ Served(c)' => AllServed
           /\ \A u : TaskSame(u)
           /\ Queued(c)' = Queued(c) /\ tasks' = tasks
<1>1. \A u : TaskSame(u)
  BY SameBooks, BoxReached DEF Elsewhere
<1>2. ASSUME NEW d \in Clients, d # c PROVE Served(d)'
  <2>1. SameMail(d)
    BY <1>2 DEF Elsewhere, SameMail, Queued, Arrived, RepliesTo, Answers
  <2>2. Stays(d)
    BY <1>2, <2>1, SameMailKept DEF Elsewhere, Stays
  <2>3. srv' = srv
    BY DEF Elsewhere
  <2> QED
    BY <1>1, <2>2, <2>3, OthersServed
<1>3. srv' # "key error" /\ Queued(c)' = Queued(c) /\ tasks' = tasks
  BY DEF Elsewhere, SInv, NoKeyError, Queued, RepliesTo, Answers
<1> QED
  BY <1>1, <1>2, <1>3 DEF AllServed

\* A client that drops or closes its connection.
LEMMA DepartServed ==
    ASSUME SInv, NEW c \in Clients, Elsewhere(c), at'[c] \in {"closing", "gone"},
           call'[c] = NoCall, sub'[c] = sub[c], link'[c] = link[c],
           Questions(c)' = Questions(c), Alone(up[c])',
           \A t : InQueue(c, t) => InQueue(c, t)',
           Arrived(c) = <<>> => Arrived(c)' = <<>>, reply'[c] = None
    PROVE  AllServed
<1>1. /\ \A u : TaskSame(u)
      /\ Queued(c)' = Queued(c) /\ tasks' = tasks
  BY ElsewhereServed
<1>2. Net(c) /\ sub[c] \subseteq Tasks
  BY Facts
<1>3. Net(c)'
  <2>1. Sends(c)'
    BY <1>2 DEF Net, Sends
  <2>2. Newcomer(c)'
    BY <1>1, <1>2 DEF Net, Newcomer, Quiet
  <2>3. Hears(c)'
    BY DEF Hears
  <2>4. Program(c)'
    BY DEF Program, NoCall
  <2> QED
    BY <2>1, <2>2, <2>3, <2>4 DEF Net
<1>4. ASSUME srv' = "running", NEW t \in sub'[c] PROVE Book(c, t)'
  <2>1. t \in Tasks /\ Book(c, t) /\ ~In(c)'
    BY <1>2, <1>4, Owner DEF Elsewhere, In
  <2>2. /\ Ready(t)' <=> Ready(t)
        /\ Waiting(t)' <=> Waiting(t)
        /\ t \in DOMAIN tasks' <=> t \in DOMAIN tasks
        /\ t \in DOMAIN tasks => tasks'[t].conn = tasks[t].conn /\ (Reached(t)' <=> Reached(t))
        /\ HasBox(t)' <=> HasBox(t)
    BY <1>1, TaskSameFacts
  <2>3. Home(c, t)' /\ Noted(t)'
    BY <2>1, <2>2 DEF Book, Home, Noted, Ready, HasBox
  <2>4. Answerable(c, t)'
    BY <2>1, <2>2 DEF Book, Answerable, Held
  <2>5. Owned(c, t)' /\ Kept(c, t)'
    BY <2>1 DEF Owned, Kept
  <2>6. Marked(c, t)'
    BY <2>1, <2>2 DEF Book, Marked
  <2> QED
    BY <2>3, <2>4, <2>5, <2>6 DEF Book
<1> QED
  BY <1>3, <1>4, ElsewhereServed DEF Served

\* A client drops its connection.
LEMMA LeaveServed ==
    ASSUME SInv, NEW c \in Clients, Leave(c)
    PROVE  AllServed
<1>1. /\ UNCHANGED <<srv, tasks, mailboxes, outgoing, link, up, sub, over, reported>>
      /\ at' = [at EXCEPT ![c] = "gone"] /\ call' = [call EXCEPT ![c] = NoCall]
      /\ reply' = [reply EXCEPT ![c] = None] /\ down' = [down EXCEPT ![c] = <<>>]
  BY DEF Leave, books, program
<1>2. call \in [Clients -> [want : Replies \cup {None},
                            task : Tasks \cup {None}, drain : BOOLEAN]]
  BY DEF SInv, IInv, TypeOK, ClientType
<1>3. Elsewhere(c)
  BY <1>1, <1>2, Facts DEF Elsewhere
<1>4. at'[c] = "gone" /\ call'[c] = NoCall /\ reply'[c] = None /\ down'[c] = <<>>
  BY <1>1, <1>2, Facts
<1>5. /\ Questions(c)' = Questions(c) /\ Alone(up[c])'
      /\ \A t : InQueue(c, t) => InQueue(c, t)'
  BY <1>1, Facts DEF Questions, Asking, Net, Sends, Alone, InQueue, Msg, Range
<1>6. Arrived(c)' = <<>>
  <2>1. <<>> \in Seq(ToClient)
    OBVIOUS
  <2>2. Filtered(<<>>, Answers) = <<>>
    BY <2>1, FilteredConcat
  <2> QED
    BY <1>4, <2>2 DEF Arrived, Answers
<1> QED
  BY <1>1, <1>3, <1>4, <1>5, <1>6, DepartServed

\* Compiler.close, in or out of a call.
LEMMA CloseServed ==
    ASSUME SInv, NEW c \in Clients, Close(c)
    PROVE  AllServed
<1>1. CASE link[c] = "closed"
  BY <1>1, LeaveServed DEF Close
<1>2. CASE link[c] # "closed"
  <2>1. /\ UNCHANGED <<srv, tasks, mailboxes, outgoing, link, down, sub, over, reported>>
        /\ at' = [at EXCEPT ![c] = "closing"] /\ call' = [call EXCEPT ![c] = NoCall]
        /\ reply' = [reply EXCEPT ![c] = None]
        /\ up' = [up EXCEPT ![c] = Append(@, Msg("DISCONNECT", None))]
    BY <1>2 DEF Close, Ask, books, program
  <2>2. call \in [Clients -> [want : Replies \cup {None},
                              task : Tasks \cup {None}, drain : BOOLEAN]]
    BY DEF SInv, IInv, TypeOK, ClientType
  <2>3. Elsewhere(c)
    BY <2>1, <2>2, Facts DEF Elsewhere
  <2>4. at'[c] = "closing" /\ call'[c] = NoCall /\ reply'[c] = None
    BY <2>1, <2>2, Facts
  <2>5. Msg("DISCONNECT", None) \in AsksOf /\ Msg("DISCONNECT", None).type = "DISCONNECT"
    BY DEF Msg, AsksOf
  <2>6. Alone(up[c]) /\ up \in [Clients -> Seq(AsksOf)]
    BY Facts DEF Net, Sends
  <2>7. Range(up[c])' = Range(up[c]) \cup {Msg("DISCONNECT", None)} /\ Alone(up[c])'
    BY <2>1, <2>5, <2>6, PutUp
  <2>8. /\ Questions(c)' = Questions(c)
        /\ \A t : InQueue(c, t) => InQueue(c, t)'
    BY <2>5, <2>7 DEF Questions, Asking, InQueue, Msg
  <2>9. Arrived(c)' = Arrived(c)
    BY <2>1 DEF Arrived, Answers
  <2> QED
    BY <2>1, <2>3, <2>4, <2>7, <2>8, <2>9, DepartServed
<1> QED
  BY <1>1, <1>2

\* A client that asks about t and waits.
LEMMA AskServed ==
    ASSUME SInv, NEW c \in Clients, NEW t \in Tasks, t \in sub[c], NEW want \in Replies,
           NEW type \in {"STATUS", "REQUEST", "CANCEL"}, type = Question(want),
           NEW drain \in BOOLEAN, drain => want = "RESULT", type # "REQUEST" => t \notin over,
           at[c] = "idle", link[c] # "closed",
           Ask(c, type, t), Await(c, want, t, drain), UNCHANGED <<link, sub>>
    PROVE  AllServed
<1>1. /\ UNCHANGED <<srv, tasks, mailboxes, outgoing, link, down, reply, sub, over, reported>>
      /\ at' = [at EXCEPT ![c] = "wait"]
      /\ call' = [call EXCEPT ![c] = [want |-> want, task |-> t, drain |-> drain]]
      /\ up' = [up EXCEPT ![c] = Append(@, Msg(type, t))]
  BY DEF Ask, Await, books
<1>2. call \in [Clients -> [want : Replies \cup {None},
                            task : Tasks \cup {None}, drain : BOOLEAN]]
  BY DEF SInv, IInv, TypeOK, ClientType
<1>3. Elsewhere(c)
  BY <1>1, <1>2, Facts DEF Elsewhere
<1>4. /\ at'[c] = "wait" /\ call'[c] = [want |-> want, task |-> t, drain |-> drain]
  BY <1>1, <1>2, Facts
<1>4a. call'[c].want = want /\ call'[c].task = t /\ call'[c].drain = drain
  BY <1>4
<1>5. Msg(type, t) \in AsksOf /\ Msg(type, t).type = type /\ Msg(type, t).task = t
  BY DEF Msg, AsksOf
<1>6. /\ Net(c) /\ Questions(c) = {} /\ Quiet(c) /\ link[c] = "open"
      /\ Alone(up[c]) /\ up \in [Clients -> Seq(AsksOf)] /\ call[c] = NoCall
  <2>1. /\ Net(c) /\ up \in [Clients -> Seq(AsksOf)]
        /\ link[c] \in {"none", "pending", "open", "closed"}
    BY Facts
  <2> QED
    BY <2>1 DEF Net, Sends, Hears, Newcomer, Program
<1>7. Range(up[c])' = Range(up[c]) \cup {Msg(type, t)} /\ Alone(up[c])'
  BY <1>1, <1>5, <1>6, PutUp
<1>8. /\ Questions(c)' = {Msg(type, t)}
      /\ \A u : InQueue(c, u) <=> InQueue(c, u)'
  <2>1. \A m \in Range(up[c]) : m.type \notin Asking
    BY <1>6 DEF Questions
  <2>2. Questions(c)' = {Msg(type, t)}
    BY <1>5, <1>7, <2>1 DEF Questions, Asking
  <2>3. \A u : Msg("SUBMIT", u) # Msg(type, t)
    BY <1>5 DEF Msg
  <2> QED
    BY <1>7, <2>2, <2>3 DEF InQueue, Msg
<1>9. Quiet(c)'
  BY <1>1, <1>6 DEF Quiet, Queued, Arrived, RepliesTo, Answers
<1>10. Net(c)'
  <2>1. Sends(c)'
    <3>1. \A m \in Questions(c)' : m.type # "CONNECT" => m.task \in sub'[c]
      BY <1>1, <1>5, <1>8
    <3>2. call'[c].want \in Replies' /\ Msg(Question(call[c].want), call[c].task)' = Msg(type, t)
      BY <1>4a DEF Msg, Question, Replies
    <3> QED
      BY <1>4, <1>7, <1>8, <3>1, <3>2 DEF Sends
  <2>2. Hears(c)' /\ Newcomer(c)'
    BY <1>1, <1>4, <1>6, <1>9 DEF Hears, Newcomer
  <2>3. Program(c)'
    BY <1>4, <1>4a DEF Program
  <2> QED
    BY <2>1, <2>2, <2>3 DEF Net
<1>11. ASSUME srv' = "running", NEW u \in sub'[c] PROVE Book(c, u)'
  <2>1. u \in Tasks /\ u \in sub[c] /\ Book(c, u) /\ TaskSame(u)
    BY <1>1, <1>3, <1>11, Owner, Facts, ElsewhereServed
  <2>2. /\ Ready(u)' <=> Ready(u)
        /\ Waiting(u)' <=> Waiting(u)
        /\ u \in DOMAIN tasks' <=> u \in DOMAIN tasks
        /\ u \in DOMAIN tasks => tasks'[u].conn = tasks[u].conn /\ (Reached(u)' <=> Reached(u))
        /\ HasBox(u)' <=> HasBox(u)
    BY <2>1, TaskSameFacts
  <2>3. In(c) /\ ~Ended(c, u) /\ ~Cancels(c, u)
    <3>1. call[c].task = None /\ None \notin Tasks
      BY <1>6, NoneAssumption DEF NoCall
    <3> QED
      BY <2>1, <3>1 DEF In, Ended, Cancels
  <2>4. Home(c, u)' /\ Noted(u)'
    BY <2>1, <2>2 DEF Book, Home, Noted, Ready, HasBox
  <2>5. u \notin over => HasBox(u) \/ InQueue(c, u)
    BY <1>6, <2>1, <2>3 DEF Book, Owned
  <2>6. Answerable(c, u)'
    BY <1>5, <1>8, <2>2, <2>5 DEF Answerable
  <2>7. Owned(c, u)'
    BY <1>1, <1>8, <2>2, <2>5 DEF Owned
  <2>8. Kept(c, u)'
    <3>1. ~Answering(c, Msg("RESULT", u))
      BY <1>6, <2>1, QuietSilent, ResultMsg
    <3> QED
      BY <1>1, <2>1, <2>2, <2>3, <3>1 DEF Book, Kept
  <2>9. Marked(c, u)'
    BY <2>1, <2>2 DEF Book, Marked
  <2> QED
    BY <2>4, <2>6, <2>7, <2>8, <2>9 DEF Book
<1> QED
  BY <1>3, <1>10, <1>11, ElsewhereServed DEF Served

\* A Compiler connects.
LEMMA ConnectCallServed ==
    ASSUME SInv, NEW c \in Clients, Connect(c)
    PROVE  AllServed
<1>1. /\ UNCHANGED <<srv, tasks, mailboxes, outgoing, down, reply, sub, over, reported>>
      /\ at[c] = "off" /\ srv = "running" /\ at' = [at EXCEPT ![c] = "wait"]
      /\ call' = [call EXCEPT ![c] = [want |-> "READY", task |-> None, drain |-> FALSE]]
      /\ up' = [up EXCEPT ![c] = Append(@, Msg("CONNECT", None))]
      /\ link' = [link EXCEPT ![c] = "pending"]
  BY DEF Connect, Ask, Await, books
<1>2. call \in [Clients -> [want : Replies \cup {None},
                            task : Tasks \cup {None}, drain : BOOLEAN]]
  BY DEF SInv, IInv, TypeOK, ClientType
<1>3. Elsewhere(c)
  BY <1>1, <1>2, Facts DEF Elsewhere
<1>4. /\ at'[c] = "wait" /\ call'[c] = [want |-> "READY", task |-> None, drain |-> FALSE]
      /\ link'[c] = "pending" /\ sub'[c] = sub[c]
  BY <1>1, <1>2, Facts
<1>4a. call'[c].want = "READY" /\ call'[c].task = None /\ ~call'[c].drain
  BY <1>4
<1>5. /\ Msg("CONNECT", None) \in AsksOf /\ Msg("CONNECT", None).type = "CONNECT"
  BY DEF Msg, AsksOf
<1>6. /\ Net(c) /\ Questions(c) = {} /\ Quiet(c) /\ sub[c] = {}
      /\ Alone(up[c]) /\ up \in [Clients -> Seq(AsksOf)]
  <2>1. Net(c) /\ up \in [Clients -> Seq(AsksOf)] /\ link[c] = "none"
    BY <1>1, Facts DEF Agree, Links
  <2> QED
    BY <1>1, <2>1 DEF Net, Sends, Hears, Newcomer
<1>7. Range(up[c])' = Range(up[c]) \cup {Msg("CONNECT", None)} /\ Alone(up[c])'
  BY <1>1, <1>5, <1>6, PutUp
<1>8. Questions(c)' = {Msg("CONNECT", None)}
  <2>1. \A m \in Range(up[c]) : m.type \notin Asking
    BY <1>6 DEF Questions
  <2> QED
    BY <1>5, <1>7, <2>1 DEF Questions, Asking
<1>9. Quiet(c)'
  BY <1>1, <1>6 DEF Quiet, Queued, Arrived, RepliesTo, Answers
<1>10. Net(c)'
  <2>1. Sends(c)'
    <3>1. \A m \in Questions(c)' : m.type # "CONNECT" => m.task \in sub'[c]
      BY <1>5, <1>8
    <3>2. /\ call'[c].want \in Replies'
          /\ Msg(Question(call[c].want), call[c].task)' = Msg("CONNECT", None)
      BY <1>4a DEF Msg, Question, Replies
    <3> QED
      BY <1>4, <1>7, <1>8, <3>1, <3>2 DEF Sends
  <2>2. Hears(c)' /\ Newcomer(c)'
    BY <1>4, <1>6, <1>9 DEF Hears, Newcomer
  <2>3. Program(c)'
    BY <1>4, <1>4a DEF Program
  <2> QED
    BY <2>1, <2>2, <2>3 DEF Net
<1> QED
  BY <1>3, <1>4, <1>6, <1>10, ElsewhereServed DEF Served

\* Compiler.submit draws a new task.
LEMMA SubmitCallServed ==
    ASSUME SInv, NEW c \in Clients, NEW t \in Tasks, Submit(c, t)
    PROVE  AllServed
<1>1. /\ UNCHANGED <<srv, tasks, mailboxes, outgoing, link, down, at, call, reply, over, reported>>
      /\ at[c] = "idle" /\ link[c] # "closed" /\ \A d \in Clients : t \notin sub[d]
      /\ sub' = [sub EXCEPT ![c] = @ \cup {t}]
      /\ up' = [up EXCEPT ![c] = Append(@, Msg("SUBMIT", t))]
  BY DEF Submit, Ask, books, Empty
<1>3. Elsewhere(c)
  BY <1>1, Facts DEF Elsewhere
<1>4. sub'[c] = sub[c] \cup {t}
  BY <1>1, Facts
<1>5. Msg("SUBMIT", t) \in AsksOf /\ Msg("SUBMIT", t).type \notin Asking
  BY DEF Msg, AsksOf, Asking
<1>6. /\ Net(c) /\ Questions(c) = {} /\ Quiet(c) /\ link[c] = "open"
      /\ Alone(up[c]) /\ up \in [Clients -> Seq(AsksOf)] /\ call[c] = NoCall
  <2>1. /\ Net(c) /\ up \in [Clients -> Seq(AsksOf)]
        /\ link[c] \in {"none", "pending", "open", "closed"}
    BY <1>1, Facts
  <2> QED
    BY <1>1, <2>1 DEF Net, Sends, Hears, Newcomer, Program
<1>7. Range(up[c])' = Range(up[c]) \cup {Msg("SUBMIT", t)} /\ Alone(up[c])'
  BY <1>1, <1>5, <1>6, PutUp
<1>8. /\ Questions(c)' = {}
      /\ \A u : InQueue(c, u) => InQueue(c, u)'
      /\ InQueue(c, t)'
  BY <1>5, <1>6, <1>7 DEF Questions, Asking, InQueue, Msg
<1>9. Quiet(c)'
  BY <1>1, <1>6 DEF Quiet, Queued, Arrived, RepliesTo, Answers
<1>10. Net(c)'
  BY <1>1, <1>6, <1>7, <1>8, <1>9 DEF Net, Sends, Hears, Newcomer, Program, NoCall
<1>11. ASSUME srv' = "running" PROVE Book(c, t)'
  <2>1. t \notin DOMAIN tasks'
    <3>1. t \notin DOMAIN tasks
      BY <1>1, <1>11, Facts DEF Agree, Drawn
    <3> QED
      BY <1>1, <3>1
  <2> QED
    BY <2>1, <1>8 DEF Book, Home, Noted, Answerable, Owned, Kept, Marked, Ready, Waiting, HasBox
<1>12. ASSUME srv' = "running", NEW u \in sub[c] PROVE Book(c, u)'
  <2>1. u \in Tasks /\ Book(c, u) /\ TaskSame(u)
    BY <1>1, <1>3, <1>12, Owner, Facts, ElsewhereServed
  <2>2. /\ Ready(u)' <=> Ready(u)
        /\ Waiting(u)' <=> Waiting(u)
        /\ u \in DOMAIN tasks' <=> u \in DOMAIN tasks
        /\ u \in DOMAIN tasks => tasks'[u].conn = tasks[u].conn /\ (Reached(u)' <=> Reached(u))
        /\ HasBox(u)' <=> HasBox(u)
    BY <2>1, TaskSameFacts
  <2>3. In(c) /\ ~Ended(c, u) /\ ~Answering(c, Msg("RESULT", u))
    <3>1. ~Answering(c, Msg("RESULT", u))
      BY <1>6, <2>1, QuietSilent, ResultMsg
    <3> QED
      BY <1>1, <3>1 DEF In, Ended
  <2>4. Home(c, u)' /\ Noted(u)' /\ Answerable(c, u)'
    BY <1>8, <2>1, <2>2 DEF Book, Home, Noted, Ready, HasBox, Answerable
  <2>5. Owned(c, u)'
    BY <1>1, <1>6, <1>8, <2>1, <2>2, <2>3 DEF Book, Owned
  <2>6. Kept(c, u)'
    BY <1>1, <2>1, <2>2, <2>3 DEF Book, Kept, Cancels
  <2>7. Marked(c, u)'
    BY <1>1, <2>1, <2>2 DEF Book, Marked
  <2> QED
    BY <2>4, <2>5, <2>6, <2>7 DEF Book
<1> QED
  BY <1>3, <1>4, <1>10, <1>11, <1>12, ElsewhereServed DEF Served

\* Every call of a client.
LEMMA CallsServed ==
    ASSUME SInv, NEW c \in Clients, Calls(c)
    PROVE  AllServed
<1>1. CASE Connect(c)
  BY <1>1, ConnectCallServed
<1>2. CASE CallFails(c)
  BY <1>2, LeaveServed DEF CallFails
<1>3. CASE Close(c)
  BY <1>3, CloseServed
<1>8. CASE Die(c)
  BY <1>8, LeaveServed DEF Die
<1>4. ASSUME NEW t \in Tasks, Submit(c, t) PROVE AllServed
  BY <1>4, SubmitCallServed
<1>5. ASSUME NEW t \in Tasks, Status(c, t) PROVE AllServed
  <2>1. "STATUS" = Question("STATUS") /\ "STATUS" \in Replies
    BY DEF Question, Replies
  <2>2. Careful
    BY DEF SInv
  <2> QED
    BY <1>5, <2>1, <2>2, AskServed DEF Status, MayName, Empty
<1>6. ASSUME NEW t \in Tasks, CancelTask(c, t) PROVE AllServed
  <2>1. "CANCEL" = Question("CANCEL") /\ "CANCEL" \in Replies
    BY DEF Question, Replies
  <2>2. Careful
    BY DEF SInv
  <2> QED
    BY <1>6, <2>1, <2>2, AskServed DEF CancelTask, MayName, Empty
<1>7. ASSUME NEW t \in Tasks, NEW drain \in BOOLEAN, Result(c, t, drain) PROVE AllServed
  <2>1. "REQUEST" = Question("RESULT") /\ "RESULT" \in Replies
    BY DEF Question, Replies
  <2> QED
    BY <1>7, <2>1, AskServed DEF Result, Empty
<1> QED
  BY <1>1, <1>2, <1>3, <1>4, <1>5, <1>6, <1>7, <1>8 DEF Calls

-----------------------------------------------------------------------------
(* The client receives.                                                    *)

\* A client that waits receives a message.
LEMMA RecvServed ==
    ASSUME SInv, NEW c \in Clients, Recv(c)
    PROVE  AllServed
<1>1. CASE First(c).type = "ERROR"
  BY <1>1, LeaveServed DEF Recv
<1>2. CASE First(c).type # "ERROR"
  <2>1. UNCHANGED <<srv, tasks, mailboxes, link, up, at, call, sub, over, reported>>
    BY <1>2 DEF Recv, books, program
  <2>2. ASSUME NEW d \in Clients PROVE Served(d)'
    <3>1. MailKept(d)
      BY <1>2, RecvMail DEF SInv
    <3>2. Stays(d)
      BY <2>1, <3>1 DEF Stays
    <3>3. \A u : TaskSame(u)
      BY <2>1, SameBooks, BoxReached
    <3> QED
      BY <2>1, <3>2, <3>3, OthersServed
  <2> QED
    BY <2>1, <2>2 DEF AllServed, SInv, NoKeyError
<1> QED
  BY <1>1, <1>2

\* The call returns: the program has seen the end of the task.
LEMMA ReturnServed ==
    ASSUME SInv, NEW c \in Clients, Return(c)
    PROVE  AllServed
<1>1. /\ UNCHANGED <<srv, tasks, mailboxes, outgoing, link, up, down, sub, reported>>
      /\ at[c] = "wait" /\ reply[c] # None /\ link[c] # "closed"
      /\ over' = IF call[c].want \in {"RESULT", "CANCEL"}
                 THEN over \cup {call[c].task} ELSE over
      /\ reply' = [reply EXCEPT ![c] = None]
      /\ IF call[c].drain THEN at' = [at EXCEPT ![c] = "drain"] /\ call' = call
         ELSE at' = [at EXCEPT ![c] = "idle"] /\ call' = [call EXCEPT ![c] = NoCall]
  BY DEF Return, Idle, Empty, books
<1>2. call \in [Clients -> [want : Replies \cup {None},
                            task : Tasks \cup {None}, drain : BOOLEAN]]
  BY DEF SInv, IInv, TypeOK, ClientType
<1>3. Elsewhere(c)
  BY <1>1, <1>2, Facts DEF Elsewhere
<1>4. /\ at'[c] \in {"idle", "drain"} /\ reply'[c] = None
      /\ at'[c] = "idle" => call'[c] = NoCall
      /\ at'[c] = "drain" => call'[c] = call[c] /\ call[c].drain
      /\ sub'[c] = sub[c] /\ link'[c] = link[c]
  BY <1>1, <1>2, Facts
<1>5. /\ Net(c) /\ Questions(c) = {} /\ ~Quiet(c) /\ link[c] = "open"
      /\ Queued(c) = <<>> /\ Arrived(c) = <<>> /\ reply[c] = Wanted(c)
  <2>1. /\ Net(c) /\ ~Quiet(c)
        /\ link[c] \in {"none", "pending", "open", "closed"}
    BY <1>1, Facts DEF Quiet
  <2>2. Questions(c) = {} /\ Answering(c, Wanted(c)) /\ link[c] = "open"
    BY <1>1, <2>1 DEF Net, Hears, Newcomer
  <2> QED
    BY <1>1, <2>1, <2>2 DEF Answering
<1>6. /\ Questions(c)' = {} /\ (Alone(up[c])' <=> Alone(up[c])) /\ Quiet(c)'
      /\ \A t : InQueue(c, t)' <=> InQueue(c, t)
  BY <1>1, <1>4, <1>5 DEF Questions, Asking, Alone, Range, InQueue, Msg, Quiet, Queued,
     Arrived, RepliesTo, Answers
<1>7. Net(c)'
  <2>1. Sends(c)'
    BY <1>4, <1>5, <1>6 DEF Net, Sends
  <2>2. Hears(c)' /\ Newcomer(c)'
    BY <1>4, <1>5, <1>6 DEF Hears, Newcomer
  <2>3. Program(c)'
    BY <1>4, <1>5 DEF Net, Program, NoCall
  <2> QED
    BY <2>1, <2>2, <2>3 DEF Net
<1>8. ASSUME srv' = "running", NEW t \in sub'[c] PROVE Book(c, t)'
  <2>1. t \in Tasks /\ t \in sub[c] /\ Book(c, t) /\ TaskSame(t) /\ In(c)
    BY <1>1, <1>3, <1>8, Owner, Facts, ElsewhereServed DEF In
  <2>2. /\ Ready(t)' <=> Ready(t)
        /\ Waiting(t)' <=> Waiting(t)
        /\ t \in DOMAIN tasks' <=> t \in DOMAIN tasks
        /\ t \in DOMAIN tasks => tasks'[t].conn = tasks[t].conn /\ (Reached(t)' <=> Reached(t))
        /\ HasBox(t)' <=> HasBox(t)
    BY <2>1, TaskSameFacts
  <2>3. t \notin over' => t \notin over /\ ~Cancels(c, t)
    BY <1>1 DEF Cancels
  <2>4. t \notin over' => ~Answering(c, Msg("RESULT", t))
    <3>1. ASSUME Answering(c, Msg("RESULT", t)) PROVE Wanted(c) = Msg("RESULT", t)
      BY <1>1, <1>5, <3>1 DEF Answering
    <3>2. Wanted(c) = Msg("RESULT", t) => call[c].want = "RESULT" /\ call[c].task = t
      BY AskingTypes DEF Wanted
    <3> QED
      BY <1>1, <3>1, <3>2
  <2>5. t \notin over' => ~Ended(c, t)
    BY <2>3, <2>4 DEF Ended, Cancels
  <2>6. Home(c, t)' /\ Noted(t)' /\ Answerable(c, t)'
    BY <1>6, <2>1, <2>2 DEF Book, Home, Noted, Ready, HasBox, Answerable
  <2>7. Owned(c, t)'
    BY <1>5, <1>6, <2>1, <2>2, <2>3, <2>5 DEF Book, Owned
  <2>8. Kept(c, t)'
    BY <2>1, <2>2, <2>3, <2>4 DEF Book, Kept
  <2>9. Marked(c, t)'
    BY <1>1, <1>5, <2>1, <2>2 DEF Book, Marked
  <2> QED
    BY <2>6, <2>7, <2>8, <2>9 DEF Book
<1> QED
  BY <1>3, <1>7, <1>8, ElsewhereServed DEF Served

\* compile drains the late logs, after its result.
LEMMA DrainServed ==
    ASSUME SInv, NEW c \in Clients, at[c] = "drain", Idle(c),
           down' = down \/ (down[c] # <<>> /\ Consume(c)),
           UNCHANGED <<srv, books, outgoing, link, up, reply, sub, over, reported>>
    PROVE  AllServed
<1>1. /\ UNCHANGED <<srv, tasks, mailboxes, outgoing, link, up, reply, sub, over, reported>>
      /\ at' = [at EXCEPT ![c] = "idle"] /\ call' = [call EXCEPT ![c] = NoCall]
      /\ down' = down \/ (down[c] # <<>> /\ down' = [down EXCEPT ![c] = Tail(@)])
  BY DEF Idle, Consume, books
<1>2. call \in [Clients -> [want : Replies \cup {None},
                            task : Tasks \cup {None}, drain : BOOLEAN]]
  BY DEF SInv, IInv, TypeOK, ClientType
<1>3. Elsewhere(c)
  <2>1. \A d \in Clients \ {c} : down'[d] = down[d]
    BY <1>1, Facts
  <2> QED
    BY <1>1, <1>2, <2>1, Facts DEF Elsewhere
<1>4. /\ at'[c] = "idle" /\ call'[c] = NoCall /\ reply'[c] = reply[c]
      /\ sub'[c] = sub[c] /\ link'[c] = link[c]
  BY <1>1, <1>2, Facts
<1>5. /\ Net(c) /\ Questions(c) = {} /\ link[c] \in {"open", "closed"}
      /\ link[c] = "open" => Quiet(c)
      /\ call[c].want = "RESULT"
  <2>1. Net(c) /\ link[c] \in {"none", "pending", "open", "closed"}
    BY Facts
  <2> QED
    BY <2>1 DEF Net, Sends, Hears, Newcomer, Program
<1>6. /\ Questions(c)' = {} /\ (Alone(up[c])' <=> Alone(up[c]))
      /\ \A t : InQueue(c, t)' <=> InQueue(c, t)
  BY <1>1, <1>5 DEF Questions, Asking, Alone, Range, InQueue, Msg
<1>7. Quiet(c) => Quiet(c)'
  <2>1. Arrived(c)' = Filtered(down'[c], Answers) /\ Queued(c)' = Queued(c)
    BY <1>1 DEF Arrived, Queued, RepliesTo, Answers
  <2>2. CASE down'[c] = down[c]
    BY <1>4, <2>1, <2>2 DEF Quiet, Arrived
  <2>3. CASE down[c] # <<>> /\ down'[c] = Tail(down[c])
    <3>1. down[c] \in Seq(ToClient)
      BY Facts
    <3>2. /\ Filtered(down[c], Answers) = IF Head(down[c]) \in Answers
                THEN <<Head(down[c])>> \o Filtered(Tail(down[c]), Answers)
                ELSE Filtered(Tail(down[c]), Answers)
          /\ Filtered(Tail(down[c]), Answers) \in Seq(ToClient)
          /\ Head(down[c]) \in ToClient
      BY <2>3, <3>1, FilteredHead, HeadTail
    <3>2a. \A h \in ToClient, s \in Seq(ToClient) : <<h>> \o s # <<>>
      BY OneElement
    <3>2b. <<Head(down[c])>> \o Filtered(Tail(down[c]), Answers) # <<>>
      BY <3>2, <3>2a
    <3>3. Filtered(down[c], Answers) = <<>> => Filtered(Tail(down[c]), Answers) = <<>>
      BY <3>2, <3>2b
    <3> QED
      BY <1>4, <2>1, <2>3, <3>3 DEF Quiet, Arrived
  <2> QED
    BY <1>1, <2>2, <2>3, Facts
<1>8. Net(c)'
  <2>1. Sends(c)'
    BY <1>4, <1>5, <1>6 DEF Net, Sends
  <2>2. Hears(c)' /\ Newcomer(c)'
    BY <1>4, <1>5, <1>7 DEF Hears, Newcomer
  <2>3. Program(c)'
    BY <1>4 DEF Program, NoCall
  <2> QED
    BY <2>1, <2>2, <2>3 DEF Net
<1>9. ASSUME srv' = "running", NEW t \in sub'[c] PROVE Book(c, t)'
  <2>1. t \in Tasks /\ t \in sub[c] /\ Book(c, t) /\ TaskSame(t)
    BY <1>1, <1>3, <1>9, Owner, Facts, ElsewhereServed
  <2>1a. t \in DOMAIN tasks => link[c] = "open"
    BY <1>1, <1>9, <2>1, Owner
  <2>2. /\ Ready(t)' <=> Ready(t)
        /\ Waiting(t)' <=> Waiting(t)
        /\ t \in DOMAIN tasks' <=> t \in DOMAIN tasks
        /\ t \in DOMAIN tasks => tasks'[t].conn = tasks[t].conn /\ (Reached(t)' <=> Reached(t))
        /\ HasBox(t)' <=> HasBox(t)
    BY <2>1, TaskSameFacts
  <2>3. In(c) /\ ~Ended(c, t) /\ ~Cancels(c, t)
    BY <1>5 DEF In, Ended, Cancels
  <2>4. link[c] = "open" => ~Answering(c, Msg("RESULT", t))
    BY <1>5, <2>1, QuietSilent, ResultMsg
  <2>6. Home(c, t)' /\ Noted(t)' /\ Answerable(c, t)'
    BY <1>4, <1>6, <2>1, <2>2 DEF Book, Home, Noted, Ready, HasBox, Answerable, Held
  <2>7. Owned(c, t)'
    BY <1>1, <1>4, <1>6, <2>1, <2>2, <2>3 DEF Book, Owned
  <2>8. Kept(c, t)'
    BY <1>1, <2>1, <2>1a, <2>2, <2>3, <2>4 DEF Book, Kept
  <2>9. Marked(c, t)'
    BY <2>1, <2>2 DEF Book, Marked
  <2> QED
    BY <2>6, <2>7, <2>8, <2>9 DEF Book
<1> QED
  BY <1>3, <1>8, <1>9, ElsewhereServed DEF Served

\* Every receive of a client.
LEMMA ReceivesServed ==
    ASSUME SInv, NEW c \in Clients, Receives(c)
    PROVE  AllServed
<1>1. CASE Recv(c)
  BY <1>1, RecvServed
<1>2. CASE RecvEOF(c)
  BY <1>2, LeaveServed DEF RecvEOF
<1>3. CASE Return(c)
  BY <1>3, ReturnServed
<1>4. CASE Drained(c)
  BY <1>4, DrainServed DEF Drained, program
<1>5. CASE DrainRaises(c)
  BY <1>5, DrainServed DEF DrainRaises
<1>6. CASE Closed(c)
  BY <1>6, LeaveServed DEF Closed
<1> QED
  BY <1>1, <1>2, <1>3, <1>4, <1>5, <1>6 DEF Receives

\* Every step keeps every client served and the server without KeyError.
LEMMA NextServed == SInv /\ [Next]_vars => AllServed
<1> SUFFICES ASSUME SInv, [Next]_vars PROVE AllServed
  OBVIOUS
<1>1. CASE UNCHANGED vars
  <2>1. UNCHANGED <<srv, tasks, mailboxes, outgoing, link, up, down, client, reported>>
    BY <1>1 DEF vars, books
  <2>2. \A d \in Clients : SameMail(d)
    BY <2>1 DEF SameMail, Queued, Arrived, RepliesTo, Answers, client
  <2> QED
    BY <2>1, <2>2, SameMailKept, StillServed
<1>2. ASSUME NEW c \in Clients, Accept(c) \/ HandleClient(c) \/ Calls(c) \/ Receives(c)
      PROVE  AllServed
  BY <1>2, AcceptServed, HandleClientServed, CallsServed, ReceivesServed
<1>3. CASE WorkerMessage \/ SenderStep \/ Shutdown
  BY <1>3, WorkerMessageServed, SenderServed, ShutdownServed
<1>4. CASE Select
  <2>1. UNCHANGED <<srv, tasks, mailboxes, outgoing, link, up, down, client, reported>>
    BY <1>4 DEF Select, books
  <2>2. \A d \in Clients : SameMail(d)
    BY <2>1 DEF SameMail, Queued, Arrived, RepliesTo, Answers, client
  <2> QED
    BY <2>1, <2>2, SameMailKept, StillServed
<1> QED
  BY <1>1, <1>2, <1>3, <1>4 DEF Next

-----------------------------------------------------------------------------
(* The rest of the invariant.                                              *)

\* A submission draws a task nobody has.
LEMMA OwnStep == SInv /\ UpEffect => Own'
<1> SUFFICES ASSUME SInv, UpEffect PROVE Own'
  OBVIOUS
<1>1. CASE sub' = sub
  BY <1>1 DEF SInv, Own
<1>2. ASSUME NEW c \in Clients, NEW t \in Tasks, \A d \in Clients : t \notin sub[d],
             sub' = [sub EXCEPT ![c] = @ \cup {t}]
      PROVE  Own'
  <2>1. \A d, e \in Clients : d # e => sub[d] \cap sub[e] = {}
    BY DEF SInv, Own
  <2>2. \A d \in Clients : sub'[d] = IF d = c THEN sub[d] \cup {t} ELSE sub[d]
    BY <1>2, Facts
  <2> QED
    BY <1>2, <2>1, <2>2 DEF Own
<1> QED
  BY <1>1, <1>2 DEF UpEffect

\* A task that has been drawn and is not queued stays so.
LEMMA HandledStep == SInv /\ UpEffect => Handled \subseteq Handled'
<1> SUFFICES ASSUME SInv, UpEffect, NEW u \in Handled PROVE u \in Handled'
  OBVIOUS
<1>1. u \in Tasks /\ (\E c \in Clients : u \in sub[c]) /\ \A c \in Clients : ~InQueue(c, u)
  BY DEF Handled
<1>2. \E c \in Clients : u \in sub'[c]
  BY <1>1, Facts DEF UpEffect
<1>3. ASSUME NEW d \in Clients PROVE ~InQueue(d, u)'
  <2>1. CASE up'[d] = up[d]
    BY <2>1, <1>1 DEF InQueue, Range, Msg
  <2>2. CASE up'[d] = <<>>
    BY <2>2 DEF InQueue, Range
  <2>3. ASSUME up[d] # <<>>, up' = [up EXCEPT ![d] = Tail(@)] PROVE ~InQueue(d, u)'
    <3>1. Range(up[d]) = Range(up[d])' \cup {Head(up[d])}
      BY <2>3, Facts, TakeUp
    <3> QED
      BY <3>1, <1>1 DEF InQueue, Msg
  <2>4. ASSUME NEW m \in AsksOf, m # Msg("SUBMIT", u), up' = [up EXCEPT ![d] = Append(@, m)]
        PROVE  ~InQueue(d, u)'
    <3>1. Range(up[d])' = Range(up[d]) \cup {m}
      BY <2>4, Facts, PutUp
    <3> QED
      BY <3>1, <2>4, <1>1 DEF InQueue, Msg
  <2>5. ASSUME NEW c \in Clients, NEW t \in Tasks, \A e \in Clients : t \notin sub[e],
               up' = [up EXCEPT ![c] = Append(@, Msg("SUBMIT", t))]
        PROVE  ~InQueue(d, u)'
    <3>1. t # u /\ Msg("SUBMIT", t) # Msg("SUBMIT", u) /\ Msg("SUBMIT", t) \in AsksOf
      BY <1>1, <2>5, AskingTypes DEF Msg, AsksOf
    <3>2. c = d \/ up'[d] = up[d]
      BY <2>5, Facts
    <3> QED
      BY <2>1, <2>4, <2>5, <3>1, <3>2
  <2>6. ASSUME NEW c \in Clients, NEW m \in AsksOf, m.type # "SUBMIT",
               up' = [up EXCEPT ![c] = Append(@, m)]
        PROVE  ~InQueue(d, u)'
    <3>1. m # Msg("SUBMIT", u)
      BY <2>6, AskingTypes
    <3>2. c = d \/ up'[d] = up[d]
      BY <2>6, Facts
    <3> QED
      BY <2>1, <2>4, <2>6, <3>1, <3>2
  <2>7. ASSUME NEW c \in Clients, up[c] # <<>>, up' = [up EXCEPT ![c] = Tail(@)]
        PROVE  ~InQueue(d, u)'
    <3>1. c = d \/ up'[d] = up[d]
      BY <2>7, Facts
    <3> QED
      BY <2>1, <2>3, <2>7, <3>1
  <2>8. ASSUME NEW c \in Clients, up' = [up EXCEPT ![c] = <<>>] PROVE ~InQueue(d, u)'
    <3>1. up'[d] = <<>> \/ up'[d] = up[d]
      BY <2>8, Facts
    <3> QED
      BY <2>1, <2>2, <3>1
  <2>9. CASE UNCHANGED up
    BY <2>1, <2>9
  <2> QED
    BY <2>5, <2>6, <2>7, <2>8, <2>9 DEF UpEffect
<1> QED
  BY <1>1, <1>2, <1>3 DEF Handled

\* Only a submission gives out a mailbox id.
LEMMA CounterStep ==
    ASSUME SInv, Effect
    PROVE  \/ boxCounter' = boxCounter
           \/ \E c \in Clients, t \in Tasks : Submitting(c, t)
<1>1. CASE Stopping
  BY <1>1 DEF Stopping
<1>2. CASE MainEffect
  BY <1>2 DEF MainEffect, books, Connecting, Accepting, Leaving, Forget, Marking, Ending, Rest
<1>3. CASE SenderStep
  <2>1. \A t \in Tasks : CancelOne(t) \/ ForgetTask(t) => boxCounter' = boxCounter
    BY DEF CancelOne, ForgetTask
  <2>2. TakeNext \/ SendNext \/ SendReset \/ SendBroken \/ Unregister \/ CloseHandle
          => boxCounter' = boxCounter
    BY DEF TakeNext, SendNext, SendReset, SendBroken, Sent, Unregister, CloseHandle, books
  <2>3. PopClient \/ Collect \/ Collected \/ ForgetBox \/ Released => boxCounter' = boxCounter
    BY DEF PopClient, Collect, Collected, ForgetBox, Released, books
  <2> QED
    BY <1>3, <2>1, <2>2, <2>3 DEF SenderStep
<1> QED
  BY <1>1, <1>2, <1>3 DEF Effect

\* A mailbox id is given out for a task that leaves its queue.
LEMMA BoundStep ==
    ASSUME SInv, IInv', Effect, UpEffect
    PROVE  Bound' /\ boxCounter <= boxCounter'
<1>1. /\ Handled \subseteq Handled' /\ Handled' \subseteq Tasks /\ IsFiniteSet(Handled')
      /\ IsFiniteSet(Handled)
  BY HandledStep, FiniteAssumption, FS_Subset DEF Handled
<1>2. /\ Cardinality(Handled) <= Cardinality(Handled')
      /\ Cardinality(Handled) \in Nat /\ Cardinality(Handled') \in Nat
      /\ boxCounter \in Nat /\ boxCounter <= Cardinality(Handled)
  BY <1>1, FS_Subset, FS_CardinalityType, Facts DEF SInv, Bound, BooksType
<1>3. CASE boxCounter' = boxCounter
  BY <1>2, <1>3 DEF Bound
<1>4. ASSUME NEW c \in Clients, NEW t \in Tasks, Submitting(c, t)
      PROVE  Bound' /\ boxCounter <= boxCounter'
  <2>1. /\ srv' = "running" /\ boxCounter' = boxCounter + 1 /\ sub' = sub
        /\ up[c] # <<>> /\ Head(up[c]) = Msg("SUBMIT", t) /\ up' = [up EXCEPT ![c] = Tail(@)]
        /\ t \in DOMAIN tasks'
    BY <1>4 DEF Submitting, Put
  <2>2. InQueue(c, t)
    BY <2>1, Facts, TakeUp DEF InQueue
  <2>3. t \notin Handled
    BY <2>2 DEF Handled
  <2>4. Agree' /\ BooksType'
    BY <2>1 DEF IInv, TypeOK
  <2>5. ASSUME NEW d \in Clients PROVE ~InQueue(d, t)'
    <3>1. up'[d] \in Seq(AsksOf)
      BY DEF IInv, TypeOK, NetType
    <3>2. ASSUME NEW j \in DOMAIN up'[d] PROVE up'[d][j] # Msg("SUBMIT", t)
      <4>1. j \in Nat
        BY <3>1, LenProperties
      <4>2. ~Submission(d, j, t)'
        BY <2>1, <2>4, <4>1 DEF Agree, Drawn
      <4> QED
        BY <4>2 DEF Submission, Msg
    <3> QED
      BY <3>2 DEF InQueue, Range, Msg
  <2>6. \E d \in Clients : t \in sub'[d]
    BY <2>1, <2>4 DEF Agree, Drawn
  <2>7. Handled \cup {t} \subseteq Handled'
    BY <1>1, <2>5, <2>6 DEF Handled
  <2>8. /\ Cardinality(Handled \cup {t}) = Cardinality(Handled) + 1
        /\ Cardinality(Handled \cup {t}) <= Cardinality(Handled')
    BY <1>1, <2>3, <2>7, FS_AddElement, FS_Subset
  <2> QED
    BY <1>2, <2>1, <2>8 DEF Bound
<1> QED
  BY <1>3, <1>4, CounterStep

\* Only the workers report, for mailboxes that have been given out.
LEMMA ReportedStep ==
    ASSUME SInv, [Next]_vars
    PROVE  \/ reported' = reported
           \/ \E b \in Boxes, type \in Reports :
                 b < boxCounter /\ reported' = [reported EXCEPT ![b] = @ \cup {type}]
<1> DEFINE New == \E b \in Boxes, type \in Reports :
                     b < boxCounter /\ reported' = [reported EXCEPT ![b] = @ \cup {type}]
<1>1. ASSUME NEW b \in Boxes, HandleResult(b) PROVE New
  BY <1>1 DEF HandleResult, Report, Reports
<1>2. ASSUME NEW b \in Boxes, NEW type \in {"ERROR", "LOG"}, HandleReport(b, type) PROVE New
  BY <1>2 DEF HandleReport, Report, Reports
<1>3. ASSUME HandleSystemError PROVE reported' = reported
  BY <1>3 DEF HandleSystemError
<1>4. ASSUME NEW c \in Clients, HandleClient(c) PROVE reported' = reported
  BY <1>4 DEF HandleClient, HandleConnect, HandleDisconnect, HandleEOF, HandleSubmit,
     HandleRequest, HandleStatus, HandleCancel, HandleClosed, OvertakenAsk, Read, Turn
<1>5. ASSUME NEW c \in Clients, Calls(c) PROVE reported' = reported
  BY <1>5, CallsNet DEF Leave, Connect, Await
<1>6. ASSUME NEW c \in Clients, Receives(c) PROVE reported' = reported
  BY <1>6, ReceivesNet DEF Leave
<1>7. ASSUME NEW c \in Clients, Accept(c) PROVE reported' = reported
  BY <1>7 DEF Accept
<1>8. ASSUME Select \/ SenderStep \/ Shutdown \/ UNCHANGED vars PROVE reported' = reported
  BY <1>8 DEF Select, SenderStep, Shutdown, vars
<1>9. ASSUME NEW b \in Boxes, NEW type \in Reports, OvertakenReport(b, type) PROVE New
  BY <1>9 DEF OvertakenReport, Report, Reports
<1> HIDE DEF New
<1>10. reported' = reported \/ New
  BY <1>1, <1>2, <1>3, <1>4, <1>5, <1>6, <1>7, <1>8, <1>9 DEF Next, WorkerMessage
<1> QED
  BY <1>10 DEF New

\* The workers send nothing for an id not given out.
LEMMA FreshStep ==
    ASSUME SInv, [Next]_vars, boxCounter <= boxCounter', boxCounter' \in Nat
    PROVE  Fresh'
<1>0. /\ reported \in [Boxes -> SUBSET Reports] /\ boxCounter \in Nat
      /\ Cardinality(Tasks) \in Nat
  BY Facts, FiniteAssumption, FS_CardinalityType DEF BooksType
<1>1. ASSUME NEW b \in Boxes, b >= boxCounter' PROVE reported'[b] = {}
  <2>1. b \in Nat /\ b >= boxCounter /\ reported[b] = {}
    BY <1>0, <1>1 DEF SInv, Fresh, Boxes
  <2> QED
    BY <1>0, <2>1, ReportedStep DEF Boxes
<1> QED
  BY <1>1 DEF Fresh, Boxes

\* A client that has left has left for good.
LEMMA GoneStays ==
    ASSUME SInv, [Next]_vars, NEW d \in Clients, at[d] = "gone"
    PROVE  at'[d] = "gone"
<1>0. at \in [Clients -> {"off", "idle", "wait", "drain", "closing", "gone"}]
  BY Facts
<1>1. CASE UNCHANGED at
  BY <1>1
<1>2. ASSUME NEW c \in Clients, Leave(c) PROVE at'[d] = "gone"
  BY <1>0, <1>2 DEF Leave
<1>3. ASSUME NEW c \in Clients, c # d, NEW x, at' = [at EXCEPT ![c] = x] PROVE at'[d] = "gone"
  BY <1>0, <1>3
<1>4. ASSUME NEW c \in Clients, HandleClient(c) \/ Accept(c) PROVE UNCHANGED at
  BY <1>4 DEF HandleClient, HandleConnect, HandleDisconnect, HandleEOF, HandleSubmit,
     HandleRequest, HandleStatus, HandleCancel, HandleClosed, OvertakenAsk, Read, Turn,
     Accept, client
<1>5. WorkerMessage => UNCHANGED at
  BY DEF WorkerMessage, HandleResult, HandleReport, OvertakenReport, HandleSystemError,
     Report, client
<1>6. Select \/ SenderStep \/ Shutdown \/ UNCHANGED vars => UNCHANGED at
  BY DEF Select, SenderStep, Shutdown, vars, client
<1>7. ASSUME NEW c \in Clients, Calls(c) PROVE at'[d] = "gone"
  <2>1. CASE c = d
    BY <1>2, <1>7, <2>1 DEF Calls, Connect, CallFails, Close, Die, Submit, Status,
       CancelTask, Result
  <2>2. CASE c # d
    BY <1>1, <1>2, <1>3, <1>7, <2>2 DEF Calls, Connect, CallFails, Close, Die, Submit, Status,
       CancelTask, Result, Await
  <2> QED
    BY <2>1, <2>2
<1>8. ASSUME NEW c \in Clients, Receives(c) PROVE at'[d] = "gone"
  <2>1. CASE c = d
    BY <1>2, <1>8, <2>1 DEF Receives, Recv, RecvEOF, Return, Drained, DrainRaises, Closed
  <2>2. CASE c # d
    BY <1>1, <1>2, <1>3, <1>8, <2>2 DEF Receives, Recv, RecvEOF, Return, Drained, DrainRaises,
       Closed, Idle
  <2> QED
    BY <2>1, <2>2
<1> QED
  BY <1>1, <1>4, <1>5, <1>6, <1>7, <1>8 DEF Next

\* What the thread that sends does to its own variable.
LEMMA SenderNext ==
    ASSUME SInv, [Next]_vars
    PROVE  \/ sender'.conn \in {None, sender.conn}
           \/ sender'.conn \in Clients /\ at[sender'.conn] = "gone"
<1>0. sender \in [at : {"get", "send", "unregister", "close", "pop", "cancel",
                         "collect", "forget", "unbox", "dead"},
                   conn : Clients \cup {None}, tasks : SUBSET Tasks,
                   size : Nat, box : Nat \cup {None}]
  BY DEF SInv, IInv, TypeOK, ThreadType
<1>1. CASE UNCHANGED sender
  BY <1>1
<1>2. CASE SenderStep
  <2>0. Sending.conn = None
    BY DEF Sending
  <2>1. ASSUME NEW t \in Tasks, CancelOne(t) \/ ForgetTask(t) PROVE sender'.conn = sender.conn
    BY <1>0, <2>1 DEF CancelOne, ForgetTask
  <2>2. CASE TakeNext
    BY <1>0, <2>2 DEF TakeNext
  <2>3. CASE SendNext
    BY <2>0, <2>3 DEF SendNext, Sent
  <2>4. CASE SendReset
    <3>1. Head(outgoing) \in Addressed
      BY <2>4, Facts, HeadTail DEF SendReset, Sent
    <3>2. SendTo \in Clients
      BY <3>1 DEF Addressed, SendTo
    <3>3. sender' = [Sending EXCEPT !.at = "unregister", !.conn = SendTo] /\ at[SendTo] = "gone"
      BY <2>4 DEF SendReset, Sent
    <3>4. sender'.conn = SendTo
      BY <3>3 DEF Sending
    <3> QED
      BY <3>2, <3>3, <3>4
  <2>5. CASE SendBroken
    <3>1. sender' = [Sending EXCEPT !.at = "dead"]
      BY <2>5 DEF SendBroken, Sent
    <3> QED
      BY <3>1 DEF Sending
  <2>6. CASE Unregister
    <3>1. sender' = [sender EXCEPT !.at = "close"] \/ sender' = [Sending EXCEPT !.at = "dead"]
      BY <2>6 DEF Unregister
    <3> QED
      BY <1>0, <3>1 DEF Sending
  <2>7. CASE CloseHandle
    BY <1>0, <2>7 DEF CloseHandle
  <2>8. CASE PopClient
    <3>1. \E S : sender' = [sender EXCEPT !.at = "cancel", !.tasks = S]
      BY <2>8 DEF PopClient
    <3> QED
      BY <1>0, <3>1
  <2>9. CASE Collect
    <3>1. sender' = [sender EXCEPT !.at = "collect", !.size = Cardinality(DOMAIN tasks)]
      BY <2>9 DEF Collect
    <3> QED
      BY <1>0, <3>1
  <2>10. CASE Collected
    <3>1. \/ sender' = [sender EXCEPT !.at = "forget", !.tasks = TasksOf(sender.conn)]
          \/ sender' = [sender EXCEPT !.at = "dead"]
      BY <2>10 DEF Collected
    <3> QED
      BY <1>0, <3>1
  <2>11. CASE ForgetBox
    BY <1>0, <2>11 DEF ForgetBox
  <2>12. CASE Released
    BY <2>0, <2>12 DEF Released
  <2> QED
    BY <1>2, <2>1, <2>2, <2>3, <2>4, <2>5, <2>6, <2>7, <2>8, <2>9, <2>10, <2>11, <2>12
       DEF SenderStep
<1> QED
  BY <1>1, <1>2, NextEffect DEF SInv, Effect, Stopping

\* Once all is closed no connection changes.
LEMMA DownLinks ==
    ASSUME SInv, [Next]_vars, srv' = "down", ~Shutdown
    PROVE  link' = link
<1>1. ASSUME NEW c \in Clients, Accept(c) PROVE FALSE
  BY <1>1 DEF Accept
<1>2. ASSUME NEW c \in Clients, HandleClient(c) PROVE FALSE
  <2>1. srv = "running"
    BY <1>2 DEF HandleClient, HandleConnect, HandleDisconnect, HandleEOF, HandleSubmit,
       HandleRequest, HandleStatus, HandleCancel, HandleClosed, OvertakenAsk, Read, Turn
  <2>2. srv' = srv \/ srv' \in {"key error", "raced"}
    BY <1>2 DEF HandleClient, HandleConnect, HandleDisconnect, HandleEOF, HandleSubmit,
       HandleRequest, HandleStatus, HandleCancel, HandleClosed, OvertakenAsk, Disconnect,
       Forget, RequestUnknown, Ship, NoteWaiting, Cancel, KeyError, Raced, SystemError
  <2> QED
    BY <2>1, <2>2
<1>3. ASSUME NEW c \in Clients, Calls(c) PROVE link' = link
  BY <1>3 DEF Calls, Connect, CallFails, Close, Die, Leave, Submit, Status, CancelTask,
     Result, Await
<1>4. ASSUME NEW c \in Clients, Receives(c) PROVE link' = link
  BY <1>4 DEF Receives, Recv, RecvEOF, Return, Drained, DrainRaises, Closed, Leave
<1>5. WorkerMessage => link' = link
  BY DEF WorkerMessage, HandleResult, HandleReport, OvertakenReport, HandleSystemError,
     KeyError, Raced, SystemError
<1>6. Select \/ UNCHANGED vars => link' = link
  BY DEF Select, vars
<1>7. ~SenderStep
  BY DEF SenderStep
<1> QED
  BY <1>1, <1>2, <1>3, <1>4, <1>5, <1>6, <1>7 DEF Next

\* The thread that sends forgets only clients that have left.
LEMMA SeveredStep ==
    ASSUME SInv, [Next]_vars, IInv'
    PROVE  Severed'
<1>1. sender'.conn # None => at'[sender'.conn] = "gone"
  <2>1. sender.conn \in Clients \cup {None} /\ (sender.conn # None => at[sender.conn] = "gone")
    BY DEF SInv, IInv, TypeOK, ThreadType, Severed
  <2> QED
    BY <2>1, SenderNext, GoneStays
<1>2. ASSUME NEW c \in Clients, link'[c] = "cut" PROVE at'[c] = "gone"
  <2>1. CASE srv' # "down"
    <3>1. sender'.conn = c
      BY <1>2, <2>1 DEF IInv, Agree, Links
    <3>2. c # None
      BY NoneAssumption
    <3> QED
      BY <1>1, <3>1, <3>2
  <2>2. CASE srv' = "down"
    <3>1. CASE Shutdown
      BY <1>2, <3>1 DEF Shutdown
    <3>2. CASE ~Shutdown
      <4>1. link' = link
        BY <2>2, <3>2, DownLinks
      <4> QED
        BY <1>2, <4>1, Facts, GoneStays
    <3> QED
      BY <3>1, <3>2
  <2> QED
    BY <2>1, <2>2
<1> QED
  BY <1>1, <1>2 DEF Severed

\* The invariant holds initially,
LEMMA ServedInit == Careful /\ Init => SInv
<1> SUFFICES ASSUME Careful, Init PROVE SInv
  OBVIOUS
<1>1. IInv
  BY InitInv
<1>2. NoKeyError /\ Own /\ Fresh /\ Severed
  BY DEF Init, NoKeyError, Own, Fresh, Severed, Sending
<1>3. Bound
  <2>1. Handled \subseteq Tasks /\ IsFiniteSet(Handled)
    BY FiniteAssumption, FS_Subset DEF Handled
  <2>2. Cardinality(Handled) \in Nat /\ boxCounter = 0
    BY <2>1, FS_CardinalityType DEF Init
  <2> QED
    BY <2>2 DEF Bound
<1>4. ASSUME NEW c \in Clients PROVE Served(c)
  <2>1. /\ up[c] = <<>> /\ down[c] = <<>> /\ outgoing = <<>> /\ reply[c] = None
        /\ at[c] = "off" /\ call[c] = NoCall /\ sub[c] = {} /\ link[c] = "none"
    BY DEF Init
  <2>2. Filtered(<<>>, Answers) = <<>> /\ Filtered(<<>>, RepliesTo(c)) = <<>>
    <3>1. <<>> \in Seq(ToClient) /\ <<>> \in Seq(Addressed)
      OBVIOUS
    <3> QED
      BY <3>1, FilteredConcat
  <2>3. Quiet(c)
    BY <2>1, <2>2 DEF Quiet, Queued, Arrived
  <2>4. Questions(c) = {} /\ Alone(up[c])
    BY <2>1 DEF Questions, Alone, Range
  <2> QED
    BY <2>1, <2>3, <2>4 DEF Served, Net, Sends, Hears, Newcomer, Program, NoCall
<1> QED
  BY <1>1, <1>2, <1>3, <1>4 DEF SInv

\* and in every step.
LEMMA ServedNext == SInv /\ [Next]_vars => SInv'
<1> SUFFICES ASSUME SInv, [Next]_vars PROVE SInv'
  OBVIOUS
<1>1. IInv' /\ Effect /\ UpEffect
  BY NextInv, NextEffect, NextUpEffect DEF SInv
<1>2. Bound' /\ boxCounter <= boxCounter' /\ Own'
  BY <1>1, BoundStep, OwnStep
<1>3. Fresh' /\ Severed'
  BY <1>1, <1>2, FreshStep, SeveredStep DEF IInv, TypeOK, BooksType
<1>4. NoKeyError' /\ \A c \in Clients : Served(c)'
  BY NextServed DEF AllServed, NoKeyError
<1> QED
  BY <1>1, <1>2, <1>3, <1>4 DEF SInv

-----------------------------------------------------------------------------
(* What clients may rely on.                                               *)

\* The replies in flight to a client are none, or the one it waits for.
LEMMA FlightIs ==
    ASSUME SInv, NEW c \in Clients
    PROVE  /\ Quiet(c) => InFlight(c) = <<>>
           /\ \A m \in ToClient : Answering(c, m) => InFlight(c) = <<m>>
<1> DEFINE q == Queued(c)
           s == [i \in DOMAIN q |-> q[i].msg]
           r == IF reply[c] = None THEN <<>> ELSE <<reply[c]>>
<1>1. InFlight(c) = s \o Arrived(c) \o r
  BY DEF InFlight, Queued, Arrived
<1>2. ASSUME q = <<>> PROVE s = <<>>
  BY <1>2
<1>3. ASSUME NEW m \in ToClient, q = <<[conn |-> c, msg |-> m]>> PROVE s = <<m>>
  BY <1>3
<1>4. /\ <<>> \o <<>> = <<>>
      /\ \A m \in ToClient : <<m>> \o <<>> = <<m>> /\ <<>> \o <<m>> = <<m>>
  OBVIOUS
<1>5. Quiet(c) => q = <<>> /\ Arrived(c) = <<>> /\ r = <<>>
  BY DEF Quiet
<1>6. ASSUME NEW m \in ToClient, Answering(c, m)
      PROVE  \/ q = <<[conn |-> c, msg |-> m]>> /\ Arrived(c) = <<>> /\ r = <<>>
             \/ q = <<>> /\ Arrived(c) = <<m>> /\ r = <<>>
             \/ q = <<>> /\ Arrived(c) = <<>> /\ r = <<m>>
  BY <1>6, MessageAssumption DEF Answering
<1> HIDE DEF q, s, r
<1>7. Quiet(c) => InFlight(c) = <<>>
  BY <1>1, <1>2, <1>4, <1>5
<1>8. ASSUME NEW m \in ToClient, Answering(c, m) PROVE InFlight(c) = <<m>>
  BY <1>1, <1>2, <1>3, <1>4, <1>6, <1>8
<1> QED
  BY <1>7, <1>8

\* The invariant says what clients may rely on.
LEMMA ServedMeans == SInv => ClientsServed
<1> SUFFICES ASSUME SInv PROVE ClientsServed
  OBVIOUS
<1>1. RoundTrip
  <2> SUFFICES ASSUME NEW c \in Clients, link[c] = "open"
               PROVE  CASE at[c] = "wait" ->
                               InFlight(c) \in {<<>>, <<Msg(call[c].want, call[c].task)>>}
                        [] at[c] \in {"idle", "drain"} -> InFlight(c) = <<>>
                        [] OTHER -> TRUE
    BY DEF RoundTrip
  <2>1. Net(c)
    BY Facts
  <2>2. ASSUME at[c] \in {"idle", "drain"} PROVE InFlight(c) = <<>>
    BY <2>1, <2>2, FlightIs DEF Net, Hears
  <2>3. ASSUME at[c] = "wait"
        PROVE  InFlight(c) \in {<<>>, <<Msg(call[c].want, call[c].task)>>}
    <3>1. Wanted(c) \in ToClient
      <4>1. call[c].want \in Replies /\ call[c].task \in Tasks \cup {None}
        BY <2>1, <2>3 DEF SInv, IInv, TypeOK, ClientType, Net, Sends
      <4> QED
        BY <4>1, MsgType DEF Wanted
    <3>2. Quiet(c) \/ Answering(c, Wanted(c))
      BY <2>1, <2>3 DEF Net, Hears
    <3> QED
      BY <3>1, <3>2, FlightIs DEF Wanted
  <2> QED
    BY <2>2, <2>3
<1>2. ResultKept
  <2> SUFFICES ASSUME srv = "running", NEW t \in DOMAIN tasks, NEW c, c = tasks[t].conn,
                      Reached(t), t \notin over, In(c), ~Cancels(c, t)
               PROVE  \/ Ready(t)
                      \/ \E i \in DOMAIN InFlight(c) : InFlight(c)[i] = Msg("RESULT", t)
    BY DEF ResultKept, Reached, In, Cancels, Ready
  <2>1. t \in Tasks /\ c \in Clients /\ Book(c, t)
    BY Owner
  <2>2. Ready(t) \/ Answering(c, Msg("RESULT", t))
    BY <2>1 DEF Book, Kept
  <2>3. Answering(c, Msg("RESULT", t)) => InFlight(c) = <<Msg("RESULT", t)>>
    BY <2>1, FlightIs, ResultMsg
  <2>4. 1 \in DOMAIN <<Msg("RESULT", t)>> /\ <<Msg("RESULT", t)>>[1] = Msg("RESULT", t)
    OBVIOUS
  <2> QED
    BY <2>2, <2>3, <2>4
<1>3. WaitingClientsWait
  <2> SUFFICES ASSUME NEW b \in DOMAIN mailboxes, mailboxes[b].waiting, srv = "running",
                      NEW t, t = boxTask[b], NEW c, c = tasks[t].conn
               PROVE  \/ at[c] \in {"closing", "gone"}
                      \/ at[c] = "wait" /\ call[c].task = t /\ call[c].want = "RESULT"
                           /\ reply[c] = None
    BY DEF WaitingClientsWait
  <2>1. t \in DOMAIN tasks /\ tasks[t].box = b
    BY Facts DEF Agree, BoxesKnown
  <2>2. Book(c, t) /\ Waiting(t)
    BY <2>1, Owner DEF Waiting, HasBox
  <2> QED
    BY <2>2 DEF Book, Marked, Quiet
<1> QED
  BY <1>1, <1>2, <1>3 DEF ClientsServed, SInv

\* Whatever clients that name open tasks do, leave or are interrupted, and
\* whatever late results, errors and logs the workers send, with the statements
\* of the sending thread in between: no lookup of the server fails but one that
\* loses its entry to that thread, every call has one reply, no result that has
\* arrived is lost, and the server's note that a client waits is true.
THEOREM ClientsAlwaysServed == Careful => (Spec => []ClientsServed)
<1> SUFFICES ASSUME Careful PROVE Spec => []ClientsServed
  OBVIOUS
<1>1. Init => SInv
  BY ServedInit
<1> QED
  BY <1>1, ServedNext, ServedMeans, PTL DEF Spec
=============================================================================
