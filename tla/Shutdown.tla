------------------------------ MODULE Shutdown ------------------------------
(***************************************************************************)
(* How the processes of a BQSKit runtime end (bqskit/runtime/base.py,      *)
(* attached.py, detached.py, manager.py, worker.py): an interrupt, an      *)
(* exception in a handler, the death of a process or the loss of a         *)
(* connection anywhere is to stop the whole tree.                          *)
(*                                                                         *)
(* A server or manager has a main thread, which selects among its          *)
(* connections and handles their messages, and a sending thread.  Both may *)
(* notice that a connection is lost, and both then run handle_shutdown.    *)
(* A connection is named after its lower party; of its ends, the boss's is *)
(* "near" and the other "far".  What messages say is left out but for      *)
(* those that stop something.  The listening thread is left out: the only  *)
(* thing it adds to shutdown is that it is woken and joined.               *)
(***************************************************************************)
EXTENDS Integers, Sequences, FiniteSets, SequencesExt

CONSTANTS
    Server, Managers, Workers, Client,
    Systems,      \* the trees: employees of each boss, spawned workers, mode,
                  \* and how many messages workers and the client send
    Killable,     \* the servers and managers that may be killed
    MaxFaults     \* interrupts, exceptions, deaths of a behaviour

Bosses == {Server} \cup Managers
Conns  == Managers \cup Workers \cup {Client}

SystemType ==
    [employees : [Bosses -> SUBSET (Managers \cup Workers)],
     spawned : SUBSET Workers, attached : BOOLEAN, work : Nat]

ASSUME SystemsAssumption == Systems \subseteq SystemType

\* No two processes have one name, or that of the event of terminate_hotline;
\* none is its own employee, or that of two.
ASSUME NamesAssumption ==
    /\ Workers \cap Bosses = {} /\ Server \notin Managers
    /\ Client \notin Bosses \cup Workers /\ "signal" \notin Conns
ASSUME TreeAssumption ==
    \A s \in Systems : \A n, k \in Bosses :
        /\ n \notin s.employees[n]
        /\ n # k => s.employees[n] \cap s.employees[k] = {}

VARIABLES
    system,
    at,        \* where each thread of each server and manager is
    back,      \* where handle_shutdown returns to, in each thread
    events,    \* the connections that select returned and run has not handled
    running, hotline,  \* the flag, and a byte in terminate_hotline
    members,   \* employees
    watched, selector, \* the connections registered, and whether sel is open
    outgoing,  \* the queue of the sending thread
    open,      \* open[x]: which ends of the connection are
    mail,      \* mail[x]: the messages that wait at each end
    faults, work

process == <<system, faults, work>>
node    == <<at, back, events, running, hotline, members, watched, selector, outgoing>>
vars    == <<process, node, open, mail>>

Of(n)       == system.employees[n]
Employed    == UNION {Of(n) : n \in Bosses}
Present     == {n \in Bosses : Of(n) # {}}
ConnsOf(n)  == Of(n) \cup (IF n = Server THEN {Client} ELSE {n})

\* The ends of a connection as n sees them: n is the lower party of its own.
Mine(n, x)  == IF x = n THEN "far" ELSE "near"
Theirs(n, x) == IF x = n THEN "near" ELSE "far"
Open(n, x)  == open[x][Mine(n, x)]
Hears(n, x) == open[x][Theirs(n, x)]
Inbox(n, x) == mail[x][Mine(n, x)]
Ready(n, x) == Open(n, x) /\ (Inbox(n, x) # <<>> \/ ~Hears(n, x))

\* The other end gets m, on mail q; an end that is closed gets nothing.
Delivered(q, n, x, m) ==
    IF Hears(n, x) THEN [q EXCEPT ![x][Theirs(n, x)] = Append(@, m)] ELSE q

\* n closes its ends of X; what waits there is lost.
Closing(n, X) ==
    /\ open' = [x \in Conns |-> IF x \in X THEN [open[x] EXCEPT ![Mine(n, x)] = FALSE] ELSE open[x]]
    /\ mail' = [x \in Conns |-> IF x \in X THEN [mail[x] EXCEPT ![Mine(n, x)] = <<>>] ELSE mail[x]]

Init ==
    /\ system \in Systems
    /\ at = [n \in Bosses |-> [main |-> IF n \in Present THEN "events" ELSE "over",
                               sender |-> IF n \in Present THEN "get" ELSE "dead"]]
    /\ back = [n \in Bosses |-> [main |-> "events", sender |-> "get"]]
    /\ events = [n \in Bosses |-> {}]
    /\ running = [n \in Bosses |-> TRUE] /\ hotline = [n \in Bosses |-> FALSE]
    /\ members = [n \in Bosses |-> Of(n)]
    /\ watched = [n \in Bosses |-> ConnsOf(n)] /\ selector = [n \in Bosses |-> TRUE]
    /\ outgoing = [n \in Bosses |-> <<>>]
    /\ open = [x \in Conns |-> [near |-> TRUE, far |-> TRUE]]
    /\ mail = [x \in Conns |-> [near |-> <<>>, far |-> <<>>]]
    /\ faults = 0 /\ work = 0

Goto(n, t, place) == at' = [at EXCEPT ![n][t] = place] /\ UNCHANGED back

\* A call of handle_shutdown, and an exception that nothing catches.
Enter(n, t, ret) ==
    at' = [at EXCEPT ![n][t] = "tell"] /\ back' = [back EXCEPT ![n][t] = ret]
Raise(n, t) == Goto(n, t, IF t = "main" THEN "except" ELSE "dead")

\* Nobody reads the queue of a sending thread that has ended.
Put(n, x, m) ==
    outgoing' = IF at[n].sender = "dead" THEN outgoing ELSE [outgoing EXCEPT ![n] = Append(@, <<x, m>>)]

----------------------------------------------------------------------------
(* handle_shutdown, in either thread.                                      *)

\* "Instruct employees to shutdown"
Tell(n, t) ==
    /\ at[n][t] = "tell"
    /\ running' = [running EXCEPT ![n] = FALSE]
    /\ mail' = [x \in Conns |-> IF x \in members[n] /\ Open(n, x) /\ Hears(n, x)
                  THEN [mail[x] EXCEPT !.far = Append(@, "SHUTDOWN")] ELSE mail[x]]
    /\ Goto(n, t, "part")
    /\ UNCHANGED <<process, events, hotline, members, watched, selector, outgoing, open>>

Dead(w) == ~open[w].far

\* Variant: the spawned workers are not joined.
Joined_Not(n) == TRUE

Joined(n) == \A w \in members[n] \cap system.spawned : Dead(w)

\* complete_shutdown of each; then the list is cleared and the selector closed.
\* A thread that is in select when another closes the selector stays there.
Part(n, t) ==
    /\ at[n][t] = "part" /\ Joined(n)
    /\ Closing(n, members[n])
    /\ members' = [members EXCEPT ![n] = {}]
    /\ selector' = [selector EXCEPT ![n] = FALSE]
    /\ Goto(n, t, "join")
    /\ UNCHANGED <<process, events, running, hotline, watched, outgoing>>

\* The sending thread cannot join itself.
JoinsItself(n) ==
    /\ at[n].sender = "join"
    /\ Raise(n, "sender")
    /\ UNCHANGED <<process, events, running, hotline, members, watched, selector, outgoing, open, mail>>

\* The main thread wakes it and joins it.  Then the server closes its clients,
\* and a manager tells its boss.
Leave(n) ==
    /\ at[n].main = "join" /\ at[n].sender = "dead"
    /\ LET x == IF n = Server THEN Client ELSE n IN
          /\ open' = [open EXCEPT ![x][Mine(n, x)] = FALSE]
          /\ mail' = [IF n # Server /\ Open(n, x) THEN Delivered(mail, n, x, "SHUTDOWN") ELSE mail
                        EXCEPT ![x][Mine(n, x)] = <<>>]
    /\ Goto(n, "main", back[n].main)
    /\ UNCHANGED <<process, events, running, hotline, members, watched, selector, outgoing>>

----------------------------------------------------------------------------
(* handle_disconnect, in either thread.                                    *)

\* Variant: the loss of an employee is taken for that of a client.
Disconnect_AsClient(n, t, x) ==
    /\ watched' = [watched EXCEPT ![n] = @ \ {x}]
    /\ Closing(n, {x})
    /\ Goto(n, t, IF t = "main" THEN "events" ELSE "get")

\* In attached mode any disconnect is a shutdown.  Otherwise only that of an
\* employee is; the server then looks for the employee among its clients, in
\* vain.
Disconnect(n, t, x) ==
    LET home == IF t = "main" THEN "events" ELSE "get" IN
    IF n = Server /\ system.attached
    THEN Enter(n, t, home) /\ UNCHANGED <<watched, open, mail>>
    ELSE IF x \notin watched[n] \/ ~selector[n]
    THEN Raise(n, t) /\ UNCHANGED <<watched, open, mail>>
    ELSE /\ watched' = [watched EXCEPT ![n] = @ \ {x}]
         /\ Closing(n, {x})
         /\ IF x \in Of(n) THEN Enter(n, t, IF n = Server THEN "except" ELSE home)
            ELSE Goto(n, t, home)

----------------------------------------------------------------------------
(* The main thread: run.                                                   *)

\* All events are handled.  When the node does not run any more, finally
\* calls handle_shutdown, be it for the second time.
Loop(n) ==
    /\ at[n].main = "events" /\ events[n] = {}
    /\ IF ~running[n] THEN Enter(n, "main", "over")
       ELSE IF ~selector[n] THEN Raise(n, "main")
       ELSE Goto(n, "main", "select")
    /\ UNCHANGED <<process, events, running, hotline, members, watched, selector, outgoing, open, mail>>

\* A selector that has been closed meanwhile returns no events.
Select(n) ==
    /\ at[n].main = "select"
    /\ LET ready == {x \in watched[n] : Ready(n, x)} IN
          /\ ready # {} \/ hotline[n]
          /\ IF selector[n]
             THEN events' = [events EXCEPT ![n] = ready \cup (IF hotline[n] THEN {"signal"} ELSE {})]
             ELSE UNCHANGED events
          /\ Goto(n, "main", "events")
    /\ UNCHANGED <<process, running, hotline, members, watched, selector, outgoing, open, mail>>

Take(n, x) ==
    /\ at[n].main = "events" /\ x \in events[n]
    /\ events' = [events EXCEPT ![n] = @ \ {x}]

\* The other events are not looked at.
Signalled(n) ==
    /\ at[n].main = "events" /\ "signal" \in events[n]
    /\ events' = [events EXCEPT ![n] = {}]
    /\ Enter(n, "main", "events")
    /\ UNCHANGED <<process, running, hotline, members, watched, selector, outgoing, open, mail>>

\* recv fails: the other end is closed, or a thread has closed this one.
Lost(n, x) ==
    /\ Take(n, x) /\ x \in Conns /\ Inbox(n, x) = <<>>
    /\ IF Open(n, x) THEN Disconnect(n, "main", x)
       ELSE Raise(n, "main") /\ UNCHANGED <<watched, open, mail>>
    /\ UNCHANGED <<process, running, hotline, members, selector, outgoing>>

Recv(n, x, m) ==
    /\ Take(n, x) /\ x \in Conns /\ Inbox(n, x) # <<>> /\ Head(Inbox(n, x)) = m

Read(n, x) == [mail EXCEPT ![x][Mine(n, x)] = Tail(@)]

\* Most messages make the node send another one, to an employee or to whom
\* it serves; without employees there is nobody to give a task to.
HandleWork(n, x) ==
    /\ Recv(n, x, "work")
    /\ mail' = Read(n, x)
    /\ LET others == members[n] \cup (ConnsOf(n) \ (Of(n) \cup {x})) IN
          IF others = {} THEN Raise(n, "main") /\ UNCHANGED outgoing
          ELSE (\E y \in others : Put(n, y, "work")) /\ UNCHANGED <<at, back>>
    /\ UNCHANGED <<process, running, hotline, members, watched, selector, open>>

\* SHUTDOWN of a manager's boss, or of a manager whose boss is the server; a
\* manager passes it on as it does an ERROR.
HandleShutdown(n, x) ==
    /\ Recv(n, x, "SHUTDOWN")
    /\ mail' = Read(n, x)
    /\ IF n = Server \/ x = n THEN Enter(n, "main", "events") /\ UNCHANGED outgoing
       ELSE Put(n, n, "SHUTDOWN") /\ UNCHANGED <<at, back>>
    /\ UNCHANGED <<process, running, hotline, members, watched, selector, open>>

\* handle_error of an error that belongs to no task.
HandleError(n, x) ==
    /\ Recv(n, x, "ERROR")
    /\ IF n = Server
       THEN /\ mail' = IF Open(n, Client) THEN Delivered(Read(n, x), n, Client, "ERROR") ELSE Read(n, x)
            /\ Enter(n, "main", "except") /\ UNCHANGED outgoing
       ELSE mail' = Read(n, x) /\ Put(n, n, "ERROR") /\ UNCHANGED <<at, back>>
    /\ UNCHANGED <<process, running, hotline, members, watched, selector, open>>

\* except: handle_system_error; finally: handle_shutdown.
Except(n) ==
    /\ at[n].main = "except"
    /\ LET x == IF n = Server THEN Client ELSE n IN
          mail' = IF Open(n, x) THEN Delivered(mail, n, x, "ERROR") ELSE mail
    /\ Enter(n, "main", "over")
    /\ UNCHANGED <<process, events, running, hotline, members, watched, selector, outgoing, open>>

Main(n) ==
    \/ Loop(n) \/ Select(n) \/ Signalled(n) \/ Except(n)
    \/ \E x \in Conns : Lost(n, x) \/ HandleWork(n, x) \/ HandleShutdown(n, x) \/ HandleError(n, x)
    \/ Tell(n, "main") \/ Part(n, "main") \/ Leave(n)

----------------------------------------------------------------------------
(* The sending thread: send_outgoing.                                      *)

\* It ends when it is woken and the node does not run, by the dummy value of
\* handle_shutdown if by nothing else.
Get(n) ==
    /\ at[n].sender = "get"
    /\ IF running[n]
       THEN /\ outgoing[n] # <<>>
            /\ IF Open(n, Head(outgoing[n])[1]) THEN Goto(n, "sender", "send") /\ UNCHANGED outgoing
               ELSE outgoing' = [outgoing EXCEPT ![n] = Tail(@)] /\ UNCHANGED <<at, back>>
       ELSE /\ outgoing[n] # <<>> \/ at[n].main = "join"
            /\ outgoing' = [outgoing EXCEPT ![n] = <<>>]
            /\ Goto(n, "sender", "dead")
    /\ UNCHANGED <<process, events, running, hotline, members, watched, selector, open, mail>>

\* When the other end is closed the system may take the message all the same,
\* report a reset, or a broken pipe; only the second is caught.
Send(n) ==
    /\ at[n].sender = "send"
    /\ outgoing' = [outgoing EXCEPT ![n] = Tail(@)]
    /\ LET x == Head(outgoing[n])[1]
           m == Head(outgoing[n])[2]
       IN \/ /\ Open(n, x)
             /\ mail' = Delivered(mail, n, x, m)
             /\ Goto(n, "sender", "get") /\ UNCHANGED <<watched, open>>
          \/ Open(n, x) /\ ~Hears(n, x) /\ Disconnect(n, "sender", x)
          \/ ~(Open(n, x) /\ Hears(n, x)) /\ Raise(n, "sender") /\ UNCHANGED <<watched, open, mail>>
    /\ UNCHANGED <<process, events, running, hotline, members, selector>>

Sender(n) == Get(n) \/ Send(n) \/ Tell(n, "sender") \/ Part(n, "sender") \/ JoinsItself(n)

----------------------------------------------------------------------------
(* Workers and the client.                                                 *)

Died(w, q) ==
    /\ open' = [open EXCEPT ![w].far = FALSE]
    /\ mail' = [q EXCEPT ![w].far = <<>>]

\* SHUTDOWN and the loss of the connection end a worker at once.
WorkerReads(w) ==
    /\ ~Dead(w)
    /\ IF mail[w].far = <<>> THEN ~open[w].near /\ Died(w, mail)
       ELSE IF Head(mail[w].far) = "SHUTDOWN" THEN Died(w, mail)
       ELSE mail' = [mail EXCEPT ![w].far = Tail(@)] /\ UNCHANGED open
    /\ UNCHANGED <<process, node>>

Speaks(x) ==
    /\ x \in (Workers \cap Employed) \cup {Client}
    /\ open[x].far /\ open[x].near /\ work < system.work
    /\ work' = work + 1
    /\ mail' = [mail EXCEPT ![x].near = Append(@, "work")]
    /\ UNCHANGED <<system, faults, node, open>>

ClientLeaves ==
    /\ open[Client].far
    /\ open' = [open EXCEPT ![Client].far = FALSE] /\ mail' = [mail EXCEPT ![Client].far = <<>>]
    /\ UNCHANGED <<process, node>>

----------------------------------------------------------------------------
(* Faults.                                                                 *)

Fault == faults < MaxFaults /\ faults' = faults + 1 /\ UNCHANGED <<system, work>>

\* sigint_handler
Interrupt(n) ==
    /\ Fault /\ at[n].main \notin {"over", "killed"} /\ running[n]
    /\ running' = [running EXCEPT ![n] = FALSE] /\ hotline' = [hotline EXCEPT ![n] = TRUE]
    /\ UNCHANGED <<at, back, events, members, watched, selector, outgoing, open, mail>>

\* A handler raises.
HandlerFails(n, x) ==
    /\ Fault /\ Recv(n, x, "work")
    /\ mail' = Read(n, x) /\ Raise(n, "main")
    /\ UNCHANGED <<running, hotline, members, watched, selector, outgoing, open>>

\* A worker is killed, or its loop raises: it says so and ends.
WorkerFails(w) ==
    /\ Fault /\ w \in Workers \cap Employed /\ ~Dead(w)
    /\ \/ Died(w, mail)
       \/ Died(w, IF open[w].near THEN [mail EXCEPT ![w].near = Append(@, "ERROR")] ELSE mail)
    /\ UNCHANGED node

Killed(n) ==
    /\ Fault /\ n \in Killable /\ at[n].main # "over"
    /\ at' = [at EXCEPT ![n] = [main |-> "killed", sender |-> "dead"]]
    /\ Closing(n, ConnsOf(n))
    /\ members' = [members EXCEPT ![n] = {}] /\ outgoing' = [outgoing EXCEPT ![n] = <<>>]
    /\ UNCHANGED <<back, events, running, hotline, watched, selector>>

Next ==
    \/ \E n \in Bosses : Main(n) \/ Sender(n) \/ Interrupt(n) \/ Killed(n)
                         \/ \E x \in Conns : HandlerFails(n, x)
    \/ \E w \in Workers : WorkerReads(w) \/ WorkerFails(w)
    \/ \E x \in Conns : Speaks(x)
    \/ ClientLeaves

\* Every thread keeps running; nobody need send anything, and nothing fails.
Fairness ==
    /\ \A n \in Bosses : WF_vars(Main(n)) /\ WF_vars(Sender(n))
    /\ \A w \in Workers : WF_vars(WorkerReads(w))

Spec == Init /\ [][Next]_vars /\ Fairness

----------------------------------------------------------------------------
(* Properties.                                                             *)

Gone(x) == IF x \in Bosses THEN at[x].main \in {"over", "killed"} ELSE Dead(x)
AllGone == \A x \in Present \cup Employed : Gone(x)

\* The sending thread has shut its node down and died of joining itself; the
\* main thread waits on a selector that is closed, for a client to speak.
Deaf == \E n \in Present :
    /\ at[n].main = "select" /\ ~selector[n] /\ at[n].sender = "dead"
    /\ ~hotline[n] /\ \A x \in watched[n] : ~Ready(n, x)

\* A manager has closed the connection to its boss, who was killed, or whose
\* SHUTDOWN it had not read; it goes on without.
Bereft == \E m \in Managers \cap Present : ~open[m].far /\ running[m]

\* A manager, which does not stop for the loss of its connection alone, will
\* find a SHUTDOWN, is about to stop, or has given up the connection.
Told(m) ==
    \/ "SHUTDOWN" \in Range(mail[m].far)
    \/ at[m].main \notin {"select", "events"}
    \/ ~running[m] \/ ~open[m].far

\* A server or manager that is over has left nothing behind: the workers it
\* spawned are dead and its sending thread is over.  And a manager, which does
\* not stop for the loss of the connection alone, has been told to shut down
\* when its boss closes it, or is about to stop, or has closed it as well.
NothingLeft ==
    /\ \A n \in Present : at[n].main = "over" =>
          at[n].sender = "dead" /\ \A w \in Of(n) \cap system.spawned : Dead(w)
    /\ \A n \in Present : at[n].main # "killed" =>
          \A m \in Of(n) \cap Managers : ~open[m].near => Told(m)

\* "If one of my employees crashed/shutdown/disconnected, I shutdown"
\* (base.py:556): when any process ends, all of them do, unless a node is deaf
\* or a manager bereft.
StopsAll == (\E x \in Present \cup Employed : Gone(x)) ~> AllGone \/ Deaf \/ Bereft

\* The same with one exception only.
StopsUnlessDeaf   == (\E x \in Present \cup Employed : Gone(x)) ~> AllGone \/ Deaf
StopsUnlessBereft == (\E x \in Present \cup Employed : Gone(x)) ~> AllGone \/ Bereft
=============================================================================
