------------------------------- MODULE Server -------------------------------
(***************************************************************************)
(* A detached BQSKit server and the clients that submit compilations to it *)
(* (bqskit/runtime/detached.py, bqskit/compiler/compiler.py).              *)
(*                                                                         *)
(* A client is a synchronous program: it sends a message and, except for   *)
(* SUBMIT, waits for the reply, handling the logs and errors that arrive   *)
(* first.  Any message it does not expect makes it drop its connection.    *)
(* The server keeps four dictionaries about clients, tasks and mailboxes,  *)
(* and handles one message at a time; a lookup of a missing key stops it.  *)
(* Three of its threads appear: the one that handles messages, the one     *)
(* that sends (send_outgoing) and the one that accepts clients (listen).   *)
(* No lock protects the dictionaries.  The thread that sends forgets a     *)
(* client whose connection is reset under it, one statement at a time      *)
(* beside the thread that handles messages.  A handler is one step here;   *)
(* one that loses an entry to the sending thread between two of its        *)
(* lookups is a step of its own (Overtaken...), without what it has        *)
(* written by then: the server only shuts down after it.                   *)
(*                                                                         *)
(* The workers are reduced to what they send up for a compilation: a      *)
(* log, an error, its result, in any order, cancelled or not; MaxExtras    *)
(* bounds the logs and errors of a behaviour.  Messages to the workers are *)
(* left out (module Dispatch has them).                                    *)
(*                                                                         *)
(* A connection is a FIFO queue each way.  What is sent to a client that   *)
(* has left is lost, or resets the connection.                             *)
(*                                                                         *)
(* A definition marked "Variant" is a plausible mistake in the one after   *)
(* it, which the properties must notice.                                   *)
(***************************************************************************)
EXTENDS Lists, FiniteSets

CONSTANTS
    Clients,   \* programs with one Compiler, hence connections
    Tasks,     \* compilations; a submission draws a new one (uuid4)
    Careful,   \* clients ask for the status of, and cancel, open tasks only
    MaxExtras, \* bound: logs and errors the workers send in all
    Fragile,   \* a worker may report an error of the runtime itself
    None       \* no task, no message

ASSUME BoundAssumption == MaxExtras \in Nat
ASSUME BooleanAssumption == Careful \in BOOLEAN /\ Fragile \in BOOLEAN
ASSUME NoneAssumption == None \notin Tasks \cup Clients \cup Nat
ASSUME FiniteAssumption == IsFiniteSet(Tasks)

VARIABLES
    srv,         \* "running", the reason it is stopping, or "down"
    clients,     \* connection -> its open tasks
    tasks,       \* task -> [box, conn]
    boxTask,     \* mailbox_to_task_dict
    mailboxes,   \* mailbox -> [ready, waiting]
    boxCounter,  \* mailbox_counter
    outgoing,    \* the queue of send_outgoing; its head while it is sent
    sender,      \* the thread that sends: its place, the connection it
                 \* forgets, the tasks it has yet to visit, len(tasks) when it
                 \* began to go through them, and the mailbox id it drops next
    events,      \* connections select has returned and that are not read yet
    link,        \* each connection as the server has it; "cut" is unregistered
    up, down,    \* the messages on each connection
    at,          \* what each client is doing
    call,        \* the call it is in
    reply,       \* to_return
    sub,         \* the tasks each client submitted
    over,        \* the tasks whose result or cancel the program has seen
    dropped,     \* tasks whose result compile received but did not return
    raised,      \* tasks whose error was raised after another one's result
    reported     \* what the workers have sent for each mailbox

books    == <<clients, tasks, boxTask, mailboxes, boxCounter>>
program  == <<sub, over, dropped, raised>>
client   == <<at, call, reply, program>>
threads  == <<sender, events>>
vars     == <<srv, books, outgoing, threads, link, up, down, client, reported>>

Boxes   == 0 .. Cardinality(Tasks) - 1
Replies == {"READY", "STATUS", "RESULT", "CANCEL"}
Reports == {"LOG", "ERROR", "RESULT"}

Msg(type, t) == [type |-> type, task |-> t]
AsksOf  == [type : {"CONNECT", "DISCONNECT"}, task : {None}]
             \cup [type : {"SUBMIT", "STATUS", "REQUEST", "CANCEL"}, task : Tasks]
ToClient == [type : Replies \cup Reports, task : Tasks \cup {None}]
Addressed == [conn : Clients, msg : ToClient]
ASSUME MessageAssumption == None \notin ToClient
NoEntry == [x \in {} |-> None]   \* an empty dictionary
Sending == [at |-> "get", conn |-> None, tasks |-> {}, size |-> 0, box |-> None]
NoCall  == [want |-> None, task |-> None, drain |-> FALSE]

Init ==
    /\ srv = "running" /\ outgoing = <<>> /\ boxCounter = 0
    /\ sender = Sending /\ events = {}
    /\ clients = NoEntry /\ tasks = NoEntry /\ boxTask = NoEntry /\ mailboxes = NoEntry
    /\ link = [c \in Clients |-> "none"]
    /\ up = [c \in Clients |-> <<>>] /\ down = [c \in Clients |-> <<>>]
    /\ at = [c \in Clients |-> "off"] /\ call = [c \in Clients |-> NoCall]
    /\ reply = [c \in Clients |-> None]
    /\ sub = [c \in Clients |-> {}]
    /\ over = {} /\ dropped = {} /\ raised = {}
    /\ reported = [b \in Boxes |-> {}]

-----------------------------------------------------------------------------
(* Dictionaries.                                                           *)

Put(f, x, v)  == [y \in DOMAIN f \cup {x} |-> IF y = x THEN v ELSE f[y]]
Without(f, S) == [x \in DOMAIN f \ S |-> f[x]]

Known(c, t)  == t \in clients[c] /\ t \in DOMAIN tasks
\* tasks[t] and mailboxes[tasks[t].box] exist.
HasBox(t)    == t \in DOMAIN tasks /\ tasks[t].box \in DOMAIN mailboxes
TasksOf(c)   == {t \in DOMAIN tasks : tasks[t].conn = c}

To(c, type, t) == [conn |-> c, msg |-> Msg(type, t)]
Enqueue(c, type, t) == outgoing' = Append(outgoing, To(c, type, t))

-----------------------------------------------------------------------------
(* The server stops: the clients are told, from the thread that handles    *)
(* messages, up to the first one whose send fails because it has left;     *)
(* after a second, in which send_outgoing goes on, all closes.             *)

SystemError(why) ==
    LET gone == {c \in DOMAIN clients : at[c] = "gone"} IN
    /\ srv' = why
    /\ \E told \in SUBSET (DOMAIN clients \ gone) :
          /\ gone = {} => told = DOMAIN clients
          /\ down' = [c \in Clients |-> IF c \in told
                                        THEN Append(down[c], Msg("ERROR", None))
                                        ELSE down[c]]
    /\ UNCHANGED <<books, outgoing, link>>

KeyError == SystemError("key error")
\* The lookup fails, or the connection is closed, because the sending thread
\* forgets the client at the same time.
Raced    == SystemError("raced")

Shutdown ==
    /\ srv \in {"key error", "raced", "worker error"}
    /\ srv' = "down"
    /\ clients' = NoEntry
    /\ link' = [c \in Clients |-> IF link[c] = "none" THEN "none" ELSE "closed"]
    /\ UNCHANGED <<tasks, boxTask, mailboxes, boxCounter, outgoing, threads, up,
                   down, client, reported>>

\* Variant: the open tasks of the client are not cancelled.
Forget_NoCancel(c) ==
    /\ link' = [link EXCEPT ![c] = "closed"]
    /\ clients' = Without(clients, {c})
    /\ boxTask' = Without(boxTask, {tasks[t].box : t \in TasksOf(c)})
    /\ tasks' = Without(tasks, TasksOf(c))
    /\ UNCHANGED <<srv, mailboxes, boxCounter>>

\* Variant: the tasks of the client stay in the dictionaries.
Forget_KeepTasks(c) ==
    /\ link' = [link EXCEPT ![c] = "closed"]
    /\ mailboxes' = Without(mailboxes, {tasks[t].box : t \in clients[c]})
    /\ clients' = Without(clients, {c})
    /\ UNCHANGED <<srv, tasks, boxTask, boxCounter>>

\* What handle_disconnect does: close, cancel every open task of the client,
\* forget all its tasks.
Forget(c) ==
    /\ link' = [link EXCEPT ![c] = "closed"]
    /\ mailboxes' = Without(mailboxes, {tasks[t].box : t \in clients[c]})
    /\ clients' = Without(clients, {c})
    /\ boxTask' = Without(boxTask, {tasks[t].box : t \in TasksOf(c)})
    /\ tasks' = Without(tasks, TasksOf(c))
    /\ UNCHANGED <<srv, boxCounter>>

CanForget(c) == \A t \in clients[c] : HasBox(t)

\* handle_disconnect by the thread that handles messages.  The connection may
\* be unregistered already, and the dictionary of tasks change under the loop
\* over it.
Disconnect(c) ==
    IF link[c] = "cut" THEN Raced
    ELSE IF ~CanForget(c) THEN KeyError
    ELSE \/ Forget(c) /\ UNCHANGED <<outgoing, down>>
         \/ sender.at = "forget" /\ Raced

-----------------------------------------------------------------------------
(* Messages from a client.                                                 *)

\* The listening thread registers a client that has connected.
Accept(c) ==
    /\ srv # "down" /\ link[c] = "pending"
    /\ link' = [link EXCEPT ![c] = "open"]
    /\ clients' = Put(clients, c, {})
    /\ UNCHANGED <<srv, tasks, boxTask, mailboxes, boxCounter, outgoing, threads,
                   up, down, client, reported>>

\* select returns the connections that have something to read; each is read
\* when its turn comes.
Select ==
    LET readable == {c \in Clients : link[c] = "open"
                                     /\ (up[c] # <<>> \/ at[c] = "gone")} IN
    /\ srv = "running" /\ events = {} /\ readable # {}
    /\ events' = readable
    /\ UNCHANGED <<srv, books, outgoing, sender, link, up, down, client, reported>>

\* The handle of the connection is not closed.
Held(c) == link[c] \in {"open", "cut"}

Turn(c) == /\ srv = "running" /\ c \in events /\ events' = events \ {c}
           /\ UNCHANGED <<sender, client, reported>>

Read(c, type) ==
    /\ Turn(c) /\ Held(c)
    /\ up[c] # <<>> /\ Head(up[c]).type = type
    /\ up' = [up EXCEPT ![c] = Tail(@)]

Asked(c) == Head(up[c]).task

HandleConnect(c) ==
    /\ Read(c, "CONNECT")
    /\ Enqueue(c, "READY", None)
    /\ UNCHANGED <<srv, books, link, down>>

HandleDisconnect(c) == Read(c, "DISCONNECT") /\ Disconnect(c)

\* The client has left: the end of the stream, or a reset that overtakes
\* what the client had sent.
HandleEOF(c) ==
    /\ Turn(c) /\ Held(c) /\ at[c] = "gone"
    /\ Disconnect(c)
    /\ up' = [up EXCEPT ![c] = <<>>]

\* The sending thread has closed the connection since select returned it:
\* recv raises an OSError.
HandleClosed(c) ==
    /\ Turn(c) /\ link[c] = "closed"
    /\ Raced /\ UNCHANGED up

\* The sending thread is in handle_disconnect with c.
Forgetting(c) == sender.conn = c /\ sender.at # "dead"

\* It takes an entry between two lookups of the handler of a message of c.
OvertakenAsk(c) ==
    /\ \E type \in {"SUBMIT", "REQUEST", "STATUS", "CANCEL"} : Read(c, type)
    /\ Forgetting(c) /\ Raced

\* Variant: the mailbox id is read but not advanced.
HandleSubmit_SameBox(c) ==
    LET t == Asked(c) IN
    /\ Read(c, "SUBMIT")
    /\ tasks' = Put(tasks, t, [box |-> boxCounter, conn |-> c])
    /\ boxTask' = Put(boxTask, boxCounter, t)
    /\ mailboxes' = Put(mailboxes, boxCounter, [ready |-> FALSE, waiting |-> FALSE])
    /\ clients' = [clients EXCEPT ![c] = @ \cup {t}]
    /\ UNCHANGED <<srv, boxCounter, outgoing, link, down>>

HandleSubmit(c) ==
    LET t == Asked(c) IN
    /\ Read(c, "SUBMIT")
    /\ boxCounter' = boxCounter + 1
    /\ tasks' = Put(tasks, t, [box |-> boxCounter, conn |-> c])
    /\ boxTask' = Put(boxTask, boxCounter, t)
    /\ mailboxes' = Put(mailboxes, boxCounter, [ready |-> FALSE, waiting |-> FALSE])
    /\ clients' = [clients EXCEPT ![c] = @ \cup {t}]
    /\ UNCHANGED <<srv, outgoing, link, down>>

\* A bad client is disconnected; the ERROR it was sent arrives only if
\* send_outgoing is faster than the close.
RequestUnknown(c) ==
    \/ Disconnect(c)
    \/ /\ link[c] = "open" /\ CanForget(c) /\ Forget(c)
       /\ outgoing = <<>> /\ at[c] # "gone"
       /\ down' = [down EXCEPT ![c] = Append(@, Msg("ERROR", None))]
       /\ UNCHANGED outgoing

Deliver(t, box, c) ==
    /\ Enqueue(c, "RESULT", t)
    /\ mailboxes' = Without(mailboxes, {box})
    /\ clients' = [clients EXCEPT ![c] = @ \ {t}]

Ship(c, t) ==
    /\ Deliver(t, tasks[t].box, c)
    /\ UNCHANGED <<srv, tasks, boxTask, boxCounter, link, down>>

NoteWaiting(c, t) ==
    /\ mailboxes' = [mailboxes EXCEPT ![tasks[t].box].waiting = TRUE]
    /\ UNCHANGED <<srv, clients, tasks, boxTask, boxCounter, outgoing, link, down>>

HandleRequest(c) ==
    LET t == Asked(c) IN
    /\ Read(c, "REQUEST")
    /\ IF ~Known(c, t) THEN RequestUnknown(c)
       ELSE IF ~HasBox(t) THEN KeyError
       ELSE IF mailboxes[tasks[t].box].ready THEN Ship(c, t)
       ELSE NoteWaiting(c, t)

\* An unknown task is answered UNKNOWN, and then looked up all the same.
HandleStatus(c) ==
    LET t == Asked(c)
        unknown == IF Known(c, t) THEN <<>> ELSE <<To(c, "STATUS", t)>> IN
    /\ Read(c, "STATUS")
    /\ IF HasBox(t)
       THEN /\ outgoing' = outgoing \o unknown \o <<To(c, "STATUS", t)>>
            /\ UNCHANGED <<srv, books, link, down>>
       ELSE KeyError

Cancel(c, t) ==
    /\ mailboxes' = Without(mailboxes, {tasks[t].box})
    /\ clients' = [clients EXCEPT ![c] = @ \ {t}]
    /\ IF link[c] # "closed" THEN Enqueue(c, "CANCEL", t) ELSE UNCHANGED outgoing
    /\ UNCHANGED <<srv, tasks, boxTask, boxCounter, link, down>>

HandleCancel(c) ==
    LET t == Asked(c) IN
    /\ Read(c, "CANCEL")
    /\ IF HasBox(t) /\ (tasks[t].conn \in DOMAIN clients => t \in clients[tasks[t].conn])
       THEN Cancel(tasks[t].conn, t)
       ELSE KeyError

HandleClient(c) ==
    \/ HandleConnect(c)  \/ HandleDisconnect(c) \/ HandleEOF(c)
    \/ HandleSubmit(c)   \/ HandleRequest(c)
    \/ HandleStatus(c)   \/ HandleCancel(c)
    \/ HandleClosed(c)   \/ OvertakenAsk(c)

-----------------------------------------------------------------------------
(* Messages from the workers, about the compilation of mailbox b.          *)

Report(b, type) ==
    /\ srv = "running" /\ b < boxCounter /\ type \notin reported[b]
    /\ reported' = [reported EXCEPT ![b] = @ \cup {type}]
    /\ UNCHANGED <<threads, up, client>>

\* Variant: every result is put in the outgoing queue, asked for or not.
HandleResult_Push(b) ==
    /\ Report(b, "RESULT")
    /\ IF b \notin DOMAIN mailboxes THEN UNCHANGED <<srv, books, outgoing, link, down>>
       ELSE LET t == boxTask[b] IN
            /\ Deliver(t, b, tasks[t].conn)
            /\ UNCHANGED <<srv, tasks, boxTask, boxCounter, link, down>>

HandleResult(b) ==
    /\ Report(b, "RESULT")
    /\ IF b \notin DOMAIN mailboxes
       THEN UNCHANGED <<srv, books, outgoing, link, down>>   \* cancelled
       ELSE IF b \notin DOMAIN boxTask THEN KeyError
       ELSE LET t == boxTask[b] IN
            IF ~mailboxes[b].waiting
            THEN /\ mailboxes' = [mailboxes EXCEPT ![b].ready = TRUE]
                 /\ UNCHANGED <<srv, clients, tasks, boxTask, boxCounter,
                                outgoing, link, down>>
            ELSE IF ~(t \in DOMAIN tasks /\ tasks[t].conn \in DOMAIN clients
                        /\ t \in clients[tasks[t].conn])
            THEN IF t \in DOMAIN tasks /\ tasks[t].conn = sender.conn THEN Raced ELSE KeyError
            ELSE /\ Deliver(t, b, tasks[t].conn)
                 /\ UNCHANGED <<srv, tasks, boxTask, boxCounter, link, down>>

\* handle_error and handle_log: to the client, unless nobody knows b.
HandleReport(b, type) ==
    /\ type \in {"ERROR", "LOG"} /\ Report(b, type)
    /\ Cardinality({e \in Boxes \X {"ERROR", "LOG"} : e[2] \in reported[e[1]]}) < MaxExtras
    /\ IF b \notin DOMAIN boxTask
       THEN UNCHANGED <<srv, books, outgoing, link, down>>
       ELSE IF boxTask[b] \notin DOMAIN tasks
       THEN IF b = sender.box THEN Raced ELSE KeyError
       ELSE /\ Enqueue(tasks[boxTask[b]].conn, type, boxTask[b])
            /\ UNCHANGED <<srv, books, link, down>>

\* A message about a task of the client that the sending thread forgets: the
\* mailbox, or the task, is found first and missing a lookup later.
OvertakenReport(b, type) ==
    /\ type \in Reports /\ Report(b, type)
    /\ b \in DOMAIN boxTask /\ boxTask[b] \in DOMAIN tasks
    /\ Forgetting(tasks[boxTask[b]].conn)
    /\ type = "RESULT" => b \in DOMAIN mailboxes
    /\ Raced

\* An error with no task in it comes from the runtime itself.
HandleSystemError ==
    /\ Fragile /\ srv = "running" /\ boxCounter > 0
    /\ SystemError("worker error")
    /\ UNCHANGED <<threads, up, client, reported>>

-----------------------------------------------------------------------------
(* The thread that sends.  A message stays at the head of the queue while  *)
(* it is sent.  Only a reset of the connection is caught, and ends in      *)
(* handle_disconnect, one statement after another.  What else is raised,   *)
(* there or while sending, ends the thread; nothing is sent any more.      *)

SendTo == Head(outgoing).conn

\* What was sent to a connection closed since is dropped.
TakeNext ==
    /\ sender.at = "get" /\ outgoing # <<>>
    /\ IF link[SendTo] = "closed"
       THEN outgoing' = Tail(outgoing) /\ UNCHANGED sender
       ELSE sender' = [sender EXCEPT !.at = "send"] /\ UNCHANGED outgoing
    /\ UNCHANGED <<books, link, up, down>>

Sent(next) ==
    /\ sender.at = "send" /\ outgoing # <<>>
    /\ outgoing' = Tail(outgoing) /\ sender' = next
    /\ UNCHANGED <<books, link, up>>

SendNext ==
    /\ Sent(Sending) /\ link[SendTo] = "open"
    /\ down' = IF at[SendTo] = "gone" THEN down   \* lost
               ELSE [down EXCEPT ![SendTo] = Append(@, Head(outgoing).msg)]

SendReset ==
    /\ Sent([Sending EXCEPT !.at = "unregister", !.conn = SendTo])
    /\ link[SendTo] = "open" /\ at[SendTo] = "gone" /\ UNCHANGED down

\* A BrokenPipeError; or the handle was closed after it was looked at.
SendBroken ==
    /\ Sent([Sending EXCEPT !.at = "dead"]) /\ UNCHANGED down
    /\ link[SendTo] = "closed" \/ at[SendTo] = "gone"

Unregister ==
    /\ sender.at = "unregister"
    /\ IF link[sender.conn] = "open"
       THEN /\ link' = [link EXCEPT ![sender.conn] = "cut"]
            /\ sender' = [sender EXCEPT !.at = "close"]
       ELSE /\ sender' = [Sending EXCEPT !.at = "dead"] /\ UNCHANGED link
    /\ UNCHANGED <<books, outgoing, up, down>>

CloseHandle ==
    /\ sender.at = "close"
    /\ link' = [link EXCEPT ![sender.conn] = "closed"]
    /\ up' = [up EXCEPT ![sender.conn] = <<>>]
    /\ sender' = [sender EXCEPT !.at = "pop"]
    /\ UNCHANGED <<books, outgoing, down>>

\* The thread that handles messages may have dropped the mailbox of a task it
\* is cancelling and not come to remove the task from clients yet: the task is
\* then met again here, and its lookup fails.
Late == {t \in TasksOf(sender.conn) :
            ~HasBox(t) /\ To(sender.conn, "CANCEL", t) \in Range(outgoing)}

PopClient ==
    /\ sender.at = "pop"
    /\ clients' = Without(clients, {sender.conn})
    /\ \E more \in SUBSET Late :
          sender' = [sender EXCEPT !.at = "cancel",
                                   !.tasks = clients[sender.conn] \cup more]
    /\ UNCHANGED <<tasks, boxTask, mailboxes, boxCounter, outgoing, link, up, down>>

\* handle_cancel_comp_task, with the client out of clients and closed.
CancelOne(t) ==
    /\ sender.at = "cancel" /\ t \in sender.tasks
    /\ IF HasBox(t)
       THEN /\ mailboxes' = Without(mailboxes, {tasks[t].box})
            /\ sender' = [sender EXCEPT !.tasks = @ \ {t}]
       ELSE sender' = [sender EXCEPT !.at = "dead"] /\ UNCHANGED mailboxes
    /\ UNCHANGED <<clients, tasks, boxTask, boxCounter, outgoing, link, up, down>>

\* The loop over tasks fails when the other thread changes their number.
Collect ==
    /\ sender.at = "cancel" /\ sender.tasks = {}
    /\ sender' = [sender EXCEPT !.at = "collect", !.size = Cardinality(DOMAIN tasks)]
    /\ UNCHANGED <<books, outgoing, link, up, down>>

Collected ==
    /\ sender.at = "collect"
    /\ sender' = IF Cardinality(DOMAIN tasks) = sender.size
                 THEN [sender EXCEPT !.at = "forget", !.tasks = TasksOf(sender.conn)]
                 ELSE [sender EXCEPT !.at = "dead"]
    /\ UNCHANGED <<books, outgoing, link, up, down>>

ForgetTask(t) ==
    /\ sender.at = "forget" /\ t \in sender.tasks
    /\ tasks' = Without(tasks, {t})
    /\ sender' = [sender EXCEPT !.at = "unbox", !.tasks = @ \ {t}, !.box = tasks[t].box]
    /\ UNCHANGED <<clients, boxTask, mailboxes, boxCounter, outgoing, link, up, down>>

ForgetBox ==
    /\ sender.at = "unbox"
    /\ boxTask' = Without(boxTask, {sender.box})
    /\ sender' = [sender EXCEPT !.at = "forget", !.box = None]
    /\ UNCHANGED <<clients, tasks, mailboxes, boxCounter, outgoing, link, up, down>>

Released ==
    /\ sender.at = "forget" /\ sender.tasks = {} /\ sender' = Sending
    /\ UNCHANGED <<books, outgoing, link, up, down>>

SenderStep ==
    /\ srv # "down"
    /\ \/ TakeNext \/ SendNext \/ SendReset \/ SendBroken
       \/ Unregister \/ CloseHandle \/ PopClient
       \/ \E t \in Tasks : CancelOne(t) \/ ForgetTask(t)
       \/ Collect \/ Collected \/ ForgetBox \/ Released
    /\ UNCHANGED <<srv, events, client, reported>>

-----------------------------------------------------------------------------
(* The client.  Its program makes one call after another; every call but a *)
(* SUBMIT ends with the reply.                                             *)

Idle(c)  == at' = [at EXCEPT ![c] = "idle"] /\ call' = [call EXCEPT ![c] = NoCall]
Empty(c) == down[c] = <<>> /\ link[c] # "closed"   \* ~conn.poll()
First(c) == Head(down[c])
Consume(c) == down' = [down EXCEPT ![c] = Tail(@)]

\* The connection is dropped (self.conn = None).
Leave(c) ==
    /\ at' = [at EXCEPT ![c] = "gone"] /\ call' = [call EXCEPT ![c] = NoCall]
    /\ reply' = [reply EXCEPT ![c] = None]
    /\ down' = [down EXCEPT ![c] = <<>>]
    /\ UNCHANGED <<srv, books, outgoing, threads, link, up, program, reported>>

Ask(c, type, t) == up' = [up EXCEPT ![c] = Append(@, Msg(type, t))]
Await(c, want, t, drain) ==
    /\ at' = [at EXCEPT ![c] = "wait"]
    /\ call' = [call EXCEPT ![c] = [want |-> want, task |-> t, drain |-> drain]]
    /\ UNCHANGED <<srv, books, outgoing, threads, down, reply, over, dropped, raised, reported>>

Connect(c) ==
    /\ at[c] = "off" /\ srv = "running"
    /\ link' = [link EXCEPT ![c] = "pending"]
    /\ Ask(c, "CONNECT", None) /\ Await(c, "READY", None, FALSE)
    /\ UNCHANGED sub

\* _send and _send_recv look for logs and errors before they send; a log is
\* not unpickled there, so whatever they find ends the connection.
CallFails(c) == at[c] = "idle" /\ ~Empty(c) /\ Leave(c)

Submit(c, t) ==
    /\ at[c] = "idle" /\ Empty(c) /\ \A d \in Clients : t \notin sub[d]
    /\ sub' = [sub EXCEPT ![c] = @ \cup {t}]
    /\ Ask(c, "SUBMIT", t)
    /\ UNCHANGED <<srv, books, outgoing, threads, link, down, at, call, reply, over,
                   dropped, raised, reported>>

\* Result is Compiler.result, or with drain the end of Compiler.compile.
Result(c, t, drain) ==
    /\ at[c] = "idle" /\ Empty(c) /\ t \in sub[c]
    /\ Ask(c, "REQUEST", t) /\ Await(c, "RESULT", t, drain)
    /\ UNCHANGED <<link, sub>>

MayName(c, t) == t \in sub[c] /\ (Careful => t \notin over)

Status(c, t) ==
    /\ at[c] = "idle" /\ Empty(c) /\ MayName(c, t)
    /\ Ask(c, "STATUS", t) /\ Await(c, "STATUS", t, FALSE)
    /\ UNCHANGED <<link, sub>>

CancelTask(c, t) ==
    /\ at[c] = "idle" /\ Empty(c) /\ MayName(c, t)
    /\ Ask(c, "CANCEL", t) /\ Await(c, "CANCEL", t, FALSE)
    /\ UNCHANGED <<link, sub>>

\* _recv_handle_log_error: logs are emitted, an error ends the connection,
\* anything else is the reply.
Recv(c) ==
    /\ at[c] = "wait" /\ down[c] # <<>>
    /\ IF First(c).type = "ERROR" THEN Leave(c)
       ELSE /\ Consume(c)
            /\ reply' = IF First(c).type = "LOG" THEN reply
                        ELSE [reply EXCEPT ![c] = First(c)]
            /\ UNCHANGED <<srv, books, outgoing, threads, link, up, at, call, program, reported>>

RecvEOF(c) ==
    /\ at[c] = "wait" /\ down[c] = <<>> /\ link[c] = "closed"
    /\ Leave(c)

\* The reply has come and nothing else has arrived.
Return(c) ==
    /\ at[c] = "wait" /\ reply[c] # None /\ Empty(c)
    /\ over' = IF call[c].want \in {"RESULT", "CANCEL"}
               THEN over \cup {call[c].task} ELSE over
    /\ reply' = [reply EXCEPT ![c] = None]
    /\ IF call[c].drain THEN at' = [at EXCEPT ![c] = "drain"] /\ UNCHANGED call
                        ELSE Idle(c)
    /\ UNCHANGED <<srv, books, outgoing, threads, link, up, down, sub, dropped, raised, reported>>

\* compile then looks for late logs; the first one raises, and so does an
\* error or the end of the stream, but the connection stays.
Drained(c) ==
    /\ at[c] = "drain" /\ Empty(c) /\ Idle(c)
    /\ UNCHANGED <<srv, books, outgoing, threads, link, up, down, reply, program, reported>>

DrainRaises(c) ==
    /\ at[c] = "drain" /\ ~Empty(c) /\ Idle(c)
    /\ IF down[c] = <<>> THEN UNCHANGED <<down, dropped, raised>>
       ELSE /\ Consume(c)
            /\ dropped' = IF First(c).type = "LOG"
                          THEN dropped \cup {call[c].task} ELSE dropped
            /\ raised' = IF First(c).type = "ERROR"
                         THEN raised \cup {First(c).task} ELSE raised
    /\ UNCHANGED <<srv, books, outgoing, threads, link, up, reply, sub, over, reported>>

\* close, also from the interrupt handler in the middle of a call.
Close(c) ==
    /\ at[c] \in {"idle", "wait"}
    /\ IF link[c] = "closed" THEN Leave(c)
       ELSE /\ at' = [at EXCEPT ![c] = "closing"]
            /\ call' = [call EXCEPT ![c] = NoCall]
            /\ reply' = [reply EXCEPT ![c] = None]
            /\ Ask(c, "DISCONNECT", None)
            /\ UNCHANGED <<srv, books, outgoing, threads, link, down, program, reported>>

\* One message, or the end of the stream, is received and ignored.
Closed(c) == at[c] = "closing" /\ ~Empty(c) /\ Leave(c)

\* The program ends without a word, or is killed.
Die(c) == at[c] \in {"idle", "wait", "drain", "closing"} /\ Leave(c)

Calls(c) ==
    \/ Connect(c) \/ CallFails(c) \/ Close(c) \/ Die(c)
    \/ \E t \in Tasks : \/ Submit(c, t) \/ Status(c, t) \/ CancelTask(c, t)
                        \/ \E drain \in BOOLEAN : Result(c, t, drain)

Receives(c) == \/ Recv(c) \/ RecvEOF(c) \/ Return(c)
               \/ Drained(c) \/ DrainRaises(c) \/ Closed(c)

-----------------------------------------------------------------------------
WorkerMessage ==
    \/ \E b \in Boxes : HandleResult(b)
    \/ \E b \in Boxes, type \in {"ERROR", "LOG"} : HandleReport(b, type)
    \/ \E b \in Boxes, type \in Reports : OvertakenReport(b, type)
    \/ HandleSystemError

Next ==
    \/ Select
    \/ \E c \in Clients : Accept(c) \/ HandleClient(c) \/ Calls(c) \/ Receives(c)
    \/ WorkerMessage
    \/ SenderStep \/ Shutdown

Spec == Init /\ [][Next]_vars

\* The select loop serves every connection; the threads run; a compilation
\* that is neither cancelled nor in error ends.
Finish(b) ==
    b \in DOMAIN mailboxes /\ "ERROR" \notin reported[b] /\ HandleResult(b)

FairSpec ==
    /\ Spec
    /\ WF_vars(Select) /\ WF_vars(SenderStep) /\ WF_vars(Shutdown)
    /\ \A c \in Clients :
          WF_vars(Accept(c)) /\ WF_vars(HandleClient(c)) /\ WF_vars(Receives(c))
    /\ \A b \in Boxes : WF_vars(Finish(b))

-----------------------------------------------------------------------------
(* Properties.                                                             *)

BooksType ==
    /\ DOMAIN clients \subseteq Clients
    /\ \A c \in DOMAIN clients : clients[c] \subseteq Tasks
    /\ DOMAIN tasks \subseteq Tasks
    /\ \A t \in DOMAIN tasks : tasks[t] \in [box : Nat, conn : Clients]
    /\ boxCounter \in Nat
    /\ DOMAIN boxTask \subseteq 0 .. boxCounter - 1
    /\ \A b \in DOMAIN boxTask : boxTask[b] \in Tasks
    /\ DOMAIN mailboxes \subseteq 0 .. boxCounter - 1
    /\ \A b \in DOMAIN mailboxes : mailboxes[b] \in [ready : BOOLEAN, waiting : BOOLEAN]

NetType ==
    /\ srv \in {"running", "key error", "raced", "worker error", "down"}
    /\ link \in [Clients -> {"none", "pending", "open", "cut", "closed"}]
    /\ outgoing \in Seq(Addressed)
    /\ up \in [Clients -> Seq(AsksOf)]
    /\ down \in [Clients -> Seq(ToClient)]
    /\ reported \in [Boxes -> SUBSET Reports]

ThreadType ==
    /\ sender \in [at : {"get", "send", "unregister", "close", "pop", "cancel",
                          "collect", "forget", "unbox", "dead"},
                    conn : Clients \cup {None}, tasks : SUBSET Tasks,
                    size : Nat, box : Nat \cup {None}]
    /\ events \subseteq Clients

ClientType ==
    /\ at \in [Clients -> {"off", "idle", "wait", "drain", "closing", "gone"}]
    /\ call \in [Clients -> [want : Replies \cup {None},
                             task : Tasks \cup {None}, drain : BOOLEAN]]
    /\ reply \in [Clients -> ToClient \cup {None}]
    /\ sub \in [Clients -> SUBSET Tasks]
    /\ over \subseteq Tasks \cup {None} /\ dropped \subseteq Tasks \cup {None}
    /\ raised \subseteq Tasks \cup {None}

\* Every variable has its type; mailbox ids are below the counter.
TypeOK == BooksType /\ NetType /\ ThreadType /\ ClientType

\* No lookup fails: whatever clients that name open tasks do, leave or are
\* interrupted, and whatever late results, errors and logs the workers send,
\* the server does not stop itself (the KeyErrors of detached.py); but for a
\* lookup that loses its entry to the sending thread (ServerOutlivesClients).
NoKeyError == srv # "key error"

\* The open tasks of a client are its tasks that have a mailbox.
OpenTasks == \A c \in DOMAIN clients : clients[c] = {t \in TasksOf(c) : HasBox(t)}

\* The client that the sending thread has taken out of clients and whose tasks
\* it has yet to forget, or never will.
Leaver == IF sender.at \in {"cancel", "collect", "forget", "unbox", "dead"}
          THEN {sender.conn} ELSE {}

\* Every task has a mailbox id that leads back to it and a connected client.
TasksKnown ==
    \A t \in DOMAIN tasks :
        /\ tasks[t].conn \in DOMAIN clients \cup Leaver
        /\ tasks[t].box \in DOMAIN boxTask /\ boxTask[tasks[t].box] = t

\* Every mailbox id, hence every mailbox, leads to a task; but for the id that
\* the sending thread is about to drop.
BoxesKnown ==
    /\ \A b \in DOMAIN boxTask \ {sender.box} : /\ boxTask[b] \in DOMAIN tasks
                                 /\ tasks[boxTask[b]].box = b
    /\ DOMAIN mailboxes \subseteq DOMAIN boxTask \ {sender.box}

\* The four dictionaries agree after every message (handle_new_comp_task,
\* handle_result, handle_cancel_comp_task, handle_disconnect) and every
\* statement of the thread that sends, and a client that has left leaves
\* nothing in them.  Only the tasks of the one client that this thread is
\* forgetting, or was when it died, may be without a client.  Nothing is said
\* of a server that stops because a handler lost an entry to this thread: what
\* the handler has written until then is not in the model.
BooksAgree == srv \notin {"raced", "down"} => OpenTasks /\ TasksKnown /\ BoxesKnown

\* The replies the server has made for c and that c has not returned.
Answers      == [type : Replies, task : Tasks \cup {None}]
RepliesTo(c) == [conn : {c}, msg : Answers]

InFlight(c) ==
    LET queued == Filtered(outgoing, RepliesTo(c)) IN
    [i \in DOMAIN queued |-> queued[i].msg] \o Filtered(down[c], Answers)
        \o (IF reply[c] = None THEN <<>> ELSE <<reply[c]>>)

\* "Communication between runtime server and compiler is always round-trip"
\* (compiler.py): a client that waits has at most one reply coming, and it is
\* the one it asked for; one that does not wait has none.
RoundTrip ==
    \A c \in Clients : link[c] = "open" =>
        CASE at[c] = "wait" ->
                 InFlight(c) \in {<<>>, <<Msg(call[c].want, call[c].task)>>}
          [] at[c] \in {"idle", "drain"} -> InFlight(c) = <<>>
          [] OTHER -> TRUE

\* A result that has arrived is not lost (handle_result, handle_request): as
\* long as its client is connected, has not seen the end of the task and does
\* not cancel it, it is in the mailbox or on its way.
ResultKept ==
    srv = "running" =>
        \A t \in DOMAIN tasks :
            LET c == tasks[t].conn IN
            ("RESULT" \in reported[tasks[t].box] /\ t \notin over
                /\ at[c] \in {"idle", "wait", "drain"}
                /\ ~(call[c].want = "CANCEL" /\ call[c].task = t)) =>
            \/ HasBox(t) /\ mailboxes[tasks[t].box].ready
            \/ \E i \in DOMAIN InFlight(c) : InFlight(c)[i] = Msg("RESULT", t)

\* A client is marked as waiting (client_waiting) only while it waits for
\* that very result or is leaving.
WaitingClientsWait ==
    \A b \in DOMAIN mailboxes :
        mailboxes[b].waiting /\ srv = "running" =>
            LET c == tasks[boxTask[b]].conn IN
            \/ at[c] \in {"closing", "gone"}
            \/ at[c] = "wait" /\ call[c].task = boxTask[b] /\ call[c].want = "RESULT"
                 /\ reply[c] = None

\* What a client may rely on: the server does not stop itself on a failed
\* lookup, unless the sending thread took the entry away meanwhile; a call has
\* one reply, no result that has arrived is lost, and the server's note that a
\* client waits is true.
ClientsServed == NoKeyError /\ RoundTrip /\ ResultKept /\ WaitingClientsWait

\* Every call ends: with the reply, an error, or the loss of the connection;
\* unless the error of the task was raised by an earlier compile, or the
\* thread that sends has died.
CallsEnd ==
    \A c \in Clients :
        (at[c] = "wait" /\ call[c].task \notin raised) ~>
            (at[c] # "wait" \/ sender.at = "dead")

\* Whatever way a client leaves, the server closes its connection and, while
\* it runs, forgets its tasks; unless the thread that sends died forgetting it.
LeaversForgotten ==
    \A c \in Clients :
        at[c] = "gone" ~>
            \/ link[c] = "closed" /\ (srv = "running" => TasksOf(c) = {})
            \/ sender = [sender EXCEPT !.at = "dead", !.conn = c]

\* Whatever a client does, it gets to the end of it: a call with an answer or
\* the loss of the connection, its life with nothing left behind.
ClientsEnd == CallsEnd /\ LeaversForgotten

\* "Outgoing thread forwards messages as they are created" (send_outgoing).
SenderSurvives == sender.at # "dead"

\* "Disconnect a client connection from the runtime" (handle_disconnect): the
\* server goes on when the connection of a client is lost.
ServerOutlivesClients == srv # "raced"

\* "Ensure arrival of all log messages" (compile): late logs are handled and
\* the result that has arrived is returned.
CompileReturns == dropped = {}
=============================================================================
