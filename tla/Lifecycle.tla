----------------------------- MODULE Lifecycle ------------------------------
(***************************************************************************)
(* The server process from the moment it serves until it exits: the signal *)
(* handler and the main task of src/mongrel2.c, Server_start of            *)
(* src/server.c, the starting and stopping of handlers of                  *)
(* src/config/config.c, and the life of a Handler_task of src/handler.c.   *)
(*                                                                         *)
(* Every load of the configuration makes a generation: a Server and its    *)
(* handler (one stands for all of them).  A descriptor is a number that    *)
(* names what is open there; the smallest free number is taken first.      *)
(* Signals arrive between any two steps, since they interrupt every task.  *)
(***************************************************************************)
EXTENDS Null, Integers, FiniteSetsExt

CONSTANTS
    Conns,       \* connections
    Fds,         \* descriptors, 1..n
    MaxGens,     \* bound: loads of the configuration
    MaxSignals   \* bound: signals

Gens == 1..MaxGens
Connection == [gen : Gens, fd : Fds, other : Fds \cup {NULL}]

(* The listening socket is the first descriptor; NULL is nothing else. *)
ASSUME LifecycleAssumption ==
    /\ MaxGens \in Nat \ {0} /\ MaxSignals \in Nat
    /\ Fds \subseteq Nat /\ 1 \in Fds
    /\ "listen" \notin Conns
    /\ NULL \notin Conns \cup Fds \cup Connection \cup {"listen", "crash"}

VARIABLES
    RUNNING, RELOAD, MURDER,
    main,       \* where the main task is, and whether it waits on the idle list
    fds,        \* [Fds -> whose descriptor it is, or NULL]
    listen_fd,  \* the number in SERVER
    gen,        \* the generation of SERVER
    handler,    \* [Gens -> its handler: running, freed, and where its task is]
    conn,       \* [Conns -> generation of its server and its descriptors, or NULL]
    exit,       \* exit status or "crash", or NULL
    signals,
    asked,      \* ghost: a signal to stop has come
    stolen,     \* ghost: a connection's descriptor was closed by somebody else
    touched     \* ghost: who used a handler after it was freed

lifevars == <<RUNNING, RELOAD, MURDER, main, fds, listen_fd, gen, handler, conn, exit,
              signals, asked, stolen, touched>>

Flags == <<RUNNING, RELOAD, MURDER>>
Ghosts == <<signals, asked, touched>>

NoHandler == [running |-> FALSE, freed |-> FALSE, task |-> "none"]

LifeInit ==
    /\ RUNNING = TRUE /\ RELOAD = FALSE /\ MURDER = FALSE
    /\ main = [pc |-> "accept", idle |-> FALSE, why |-> "run"]
    /\ fds = [n \in Fds |-> IF n = 1 THEN "listen" ELSE NULL]
    /\ listen_fd = 1
    /\ gen = 1
    /\ handler = [g \in Gens |-> IF g = 1 THEN [NoHandler EXCEPT !.running = TRUE, !.task = "bind"]
                                 ELSE NoHandler]
    /\ conn = [c \in Conns |-> NULL]
    /\ exit = NULL
    /\ signals = 0 /\ asked = FALSE /\ stolen = FALSE /\ touched = {}

-----------------------------------------------------------------------------
FreeFds(f) == {n \in Fds : f[n] = NULL}

(* fdclose: whatever is open at the number is closed. *)
fdclose(n) ==
    /\ fds' = [fds EXCEPT ![n] = NULL]
    /\ stolen' = (stolen \/ fds[n] \in Conns)

(* terminate: MURDER is set anew by every signal. *)
SigHup ==
    /\ RELOAD' = TRUE /\ RUNNING' = FALSE /\ MURDER' = FALSE
    /\ UNCHANGED <<fds, stolen, asked>>

SigStop(term) ==
    /\ asked' = TRUE
    /\ IF RUNNING
       THEN RUNNING' = FALSE /\ MURDER' = term /\ fdclose(listen_fd)
       ELSE MURDER' = TRUE /\ UNCHANGED <<RUNNING, fds, stolen>>
    /\ UNCHANGED RELOAD

terminate ==
    /\ exit = NULL /\ signals < MaxSignals
    /\ signals' = signals + 1
    /\ SigHup \/ SigStop(FALSE) \/ SigStop(TRUE)
    /\ UNCHANGED <<main, listen_fd, gen, handler, conn, exit, touched>>

-----------------------------------------------------------------------------
(* mutant: the task is taken off the poll and not made ready *)
Nuked_Asleep(task) == task

(* shutdown_handler, and the taskyield after it: a task that waits for a message is      *)
(* taken off the poll, runs, finds that its handler is not running, and exits.  Tasks    *)
(* that sleep between two binds, and tasks that wait for a slow client, stay.            *)
Nuked(task) == IF task = "recv" THEN "exited" ELSE task

shutdown_handler(h) ==
    IF h.running THEN [h EXCEPT !.running = FALSE, !.task = Nuked(@)] ELSE h

(* Config_stop_handlers up to its taskdelay(100). *)
StopHandlers == handler' = [handler EXCEPT ![gen] = shutdown_handler(@)]

(* Server_start has returned: the main task begins a reload, or the shutdown. *)
reload_server ==
    /\ RELOAD
    /\ RUNNING' = TRUE
    /\ StopHandlers
    /\ main' = [pc |-> "stopping", idle |-> FALSE, why |-> "reload"]
    /\ UNCHANGED <<RELOAD, MURDER, exit>>

complete_shutdown ==
    /\ ~RELOAD
    /\ StopHandlers
    /\ main' = [pc |-> "stopping", idle |-> FALSE, why |-> "shutdown"]
    /\ UNCHANGED <<Flags, exit>>

(* netaccept: its wait is on the idle list when the hot list is full. *)
Wait == \E idle \in BOOLEAN : main' = [pc |-> "accept", idle |-> idle, why |-> "run"]

(* A client connects, with a descriptor left for it: Server_start accepts it and waits *)
(* again, or returns because RUNNING is 0.                                             *)
Accept(c) ==
    /\ main.pc = "accept" /\ exit = NULL
    /\ fds[listen_fd] = "listen" /\ conn[c] = NULL /\ FreeFds(fds) # {}
    /\ LET n == Min(FreeFds(fds)) IN
       /\ conn' = [conn EXCEPT ![c] = [gen |-> gen, fd |-> n, other |-> NULL]]
       /\ fds' = [fds EXCEPT ![n] = c]
    /\ IF RUNNING THEN Wait /\ UNCHANGED <<Flags, handler, exit>> ELSE reload_server
    /\ UNCHANGED <<listen_fd, gen, stolen, Ghosts>>

(* The accept fails: the listening socket is closed, which wakes a task on the hot list *)
(* only, or a client comes and there is no descriptor left.  Server_start returns.      *)
AcceptFails ==
    /\ main.pc = "accept" /\ exit = NULL
    /\ IF fds[listen_fd] = "listen" THEN FreeFds(fds) = {} ELSE ~main.idle
    /\ \/ reload_server /\ UNCHANGED <<fds, stolen>>
       \/ complete_shutdown /\ fdclose(listen_fd)
    /\ UNCHANGED <<listen_fd, gen, conn, Ghosts>>

(* close_handler, after the taskdelay. *)
Closed(h) == [h EXCEPT !.freed = TRUE]

(* The rest of reload_server and the turn of taskmain's loop after it: the listening *)
(* socket gets a new number, the new handler's task is started.  If a signal came    *)
(* meanwhile, Server_start returns before the task has run, and the next             *)
(* shutdown_handler finds no task in the handler: the process dies.                  *)
FreshHandler == [running |-> TRUE, freed |-> FALSE, task |-> "bind"]

DupListen ==
    LET n == Min(FreeFds(fds)) IN
    /\ listen_fd' = n
    /\ fds' = [fds EXCEPT ![n] = fds[listen_fd], ![listen_fd] = NULL]
    /\ stolen' = (stolen \/ fds[listen_fd] \in Conns)

Reloaded ==
    /\ main.pc = "stopping" /\ main.why = "reload" /\ exit = NULL
    /\ gen < MaxGens
    /\ fds[listen_fd] # NULL /\ FreeFds(fds) # {}
    /\ DupListen
    /\ handler' = [handler EXCEPT ![gen] = Closed(@), ![gen + 1] = FreshHandler]
    /\ gen' = gen + 1
    /\ RELOAD' = FALSE
    /\ IF RUNNING THEN Wait /\ UNCHANGED exit ELSE exit' = "crash" /\ UNCHANGED main
    /\ UNCHANGED <<RUNNING, MURDER, conn, Ghosts>>

(* The configuration cannot be loaded or the socket cannot be duplicated: taskmain goes *)
(* to its error label.                                                                  *)
ReloadFails ==
    /\ main.pc = "stopping" /\ main.why = "reload" /\ exit = NULL
    /\ handler' = [handler EXCEPT ![gen] = Closed(@)]
    /\ exit' = "1"
    /\ UNCHANGED <<Flags, main, fds, listen_fd, gen, conn, stolen, Ghosts>>

(* complete_shutdown after Config_stop_handlers. *)
Draining ==
    /\ main.pc = "stopping" /\ main.why = "shutdown" /\ exit = NULL
    /\ handler' = [handler EXCEPT ![gen] = Closed(@)]
    /\ main' = [main EXCEPT !.pc = "drain"]
    /\ UNCHANGED <<Flags, fds, listen_fd, gen, conn, exit, stolen, Ghosts>>

(* taskwaiting: the control port, the connections, and the handlers' sends. *)
taskwaiting ==
    1 + Cardinality({c \in Conns : conn[c] # NULL})
      + Cardinality({g \in Gens : handler[g].task = "deliver"})

(* mutant: a murder waits for the connections as well *)
Patience_Murder == taskwaiting > 1

Patience == taskwaiting > 1 /\ ~MURDER

Exit ==
    /\ main.pc = "drain" /\ exit = NULL
    /\ ~Patience
    /\ fdclose(listen_fd)
    /\ exit' = "0"
    /\ UNCHANGED <<Flags, main, listen_fd, gen, handler, conn, Ghosts>>

-----------------------------------------------------------------------------
(* A step of a task that uses the handler of generation g. *)
Uses(who, g) == touched' = IF handler[g].freed THEN touched \cup {who} ELSE touched

(* Handler_task: Handler_setup binds the sockets, again and again until it works, and then *)
(* the task waits for messages.  With the hot list full the wait is lost.                  *)
Listening(g) == \E t \in {"recv", "lost"} : handler' = [handler EXCEPT ![g].task = t]

(* The task looks at handler->running; in freed memory it may find anything. *)
LooksAtRunning(g, who) ==
    /\ Uses(who, g)
    /\ \/ (handler[g].freed \/ handler[g].running) /\ Listening(g)
       \/ (handler[g].freed \/ ~handler[g].running)
          /\ handler' = [handler EXCEPT ![g].task = "exited"]

HandlerBound(g) ==
    /\ exit = NULL /\ handler[g].task = "bind"
    /\ LooksAtRunning(g, "bind")
    /\ UNCHANGED <<Flags, main, fds, listen_fd, gen, conn, exit, signals, asked, stolen>>

HandlerReceives(g) ==
    /\ exit = NULL /\ handler[g].task = "recv"
    /\ handler' = [handler EXCEPT ![g].task = "deliver"]
    /\ UNCHANGED <<Flags, main, fds, listen_fd, gen, conn, exit, stolen, Ghosts>>

HandlerDelivered(g) ==
    /\ exit = NULL /\ handler[g].task = "deliver"
    /\ LooksAtRunning(g, "deliver")
    /\ UNCHANGED <<Flags, main, fds, listen_fd, gen, conn, exit, signals, asked, stolen>>

(* A connection: its request goes to the handler of the Server that accepted it, a proxy *)
(* or a file needs another descriptor, and at the end it closes what it has.             *)
ConnRequest(c) ==
    /\ exit = NULL /\ conn[c] # NULL
    /\ Uses("connection", conn[c].gen)
    /\ UNCHANGED <<Flags, main, fds, listen_fd, gen, handler, conn, exit, signals, asked, stolen>>

ConnOpens(c) ==
    /\ exit = NULL /\ conn[c] # NULL /\ conn[c].other = NULL /\ FreeFds(fds) # {}
    /\ LET n == Min(FreeFds(fds)) IN
       /\ fds' = [fds EXCEPT ![n] = c]
       /\ conn' = [conn EXCEPT ![c].other = n]
    /\ UNCHANGED <<Flags, main, listen_fd, gen, handler, exit, stolen, Ghosts>>

ConnEnds(c) ==
    /\ exit = NULL /\ conn[c] # NULL
    /\ LET mine == {conn[c].fd, conn[c].other} \ {NULL} IN
       /\ fds' = [n \in Fds |-> IF n \in mine THEN NULL ELSE fds[n]]
       /\ stolen' = (stolen \/ \E n \in mine : fds[n] # c)
    /\ conn' = [conn EXCEPT ![c] = NULL]
    /\ UNCHANGED <<Flags, main, listen_fd, gen, handler, exit, Ghosts>>

MainStep ==
    \/ \E c \in Conns : Accept(c)
    \/ AcceptFails \/ Reloaded \/ ReloadFails \/ Draining \/ Exit

LifeNext ==
    \/ terminate
    \/ MainStep
    \/ \E g \in Gens : HandlerBound(g) \/ HandlerReceives(g) \/ HandlerDelivered(g)
    \/ \E c \in Conns : ConnRequest(c) \/ ConnOpens(c) \/ ConnEnds(c)

LifeSpec == LifeInit /\ [][LifeNext]_lifevars

-----------------------------------------------------------------------------
(* Config_stop_handlers gives the task of a handler the time to see that it is to stop: *)
(* a task that was waiting for messages is gone when its handler is freed.  (One that   *)
(* was binding or delivering is not: it uses freed memory, and so does a connection     *)
(* that a Server of an earlier generation accepted; touched tells who did.)             *)
ReceiversExitFirst ==
    \A g \in Gens : handler[g].freed /\ handler[g].task = "recv" => touched # {}

(* load_server: through any number of reloads the main task waits on a listening socket *)
(* that is open, as long as nobody asks the server to stop.                             *)
ListenerStaysOpen ==
    main.pc = "accept" /\ exit = NULL /\ ~asked => fds[listen_fd] = "listen"

(* reload_server closes no descriptor of a connection.  (A shutdown may: terminate,     *)
(* complete_shutdown and Server_destroy each close the same number.)                    *)
ReloadClosesOnlyItsOwn == stolen => asked \/ main.why = "shutdown"

(* complete_shutdown: while MURDER stays set, no connection delays the exit. *)
MurderEnds == (main.pc = "drain" /\ MURDER) ~> (exit # NULL \/ ~MURDER)

(* terminate promises the reload for the next request: it happens, or the process ends, *)
(* once a client connects.  With every one of Conns connected no client is left.        *)
ReloadFollows ==
    (RELOAD /\ main.pc = "accept" /\ fds[listen_fd] = "listen")
        ~> (~RELOAD \/ exit # NULL \/ \A c \in Conns : conn[c] # NULL)

(***************************************************************************)
(* mongrel2.c: signals at any moment of a reload or a shutdown: a          *)
(* handler's task is gone before its handler is freed, the main task waits *)
(* on an open listener, and a reload closes no descriptor of a connection. *)
(***************************************************************************)
ReloadIsSafe ==
    /\ ReceiversExitFirst /\ ListenerStaysOpen /\ ReloadClosesOnlyItsOwn

(***************************************************************************)
(* terminate, complete_shutdown: what a signal has asked for happens: a    *)
(* murdered server exits, a reload follows.                                *)
(***************************************************************************)
SignalsAreObeyed ==
    /\ MurderEnds /\ ReloadFollows
=============================================================================
