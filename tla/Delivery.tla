------------------------------ MODULE Delivery ------------------------------
(***************************************************************************)
(* How replies, disconnects and kills find their connection: the registry  *)
(* (module Register) composed with the connection tasks, the handler tasks *)
(* of src/handler.c, the kill command of src/control.rl and the kernel's   *)
(* table of descriptors.                                                   *)
(*                                                                         *)
(* A connection task, a handler and the control port all act on descriptor *)
(* NUMBERS.  A number that one of them closes is given to the next client  *)
(* while the others may still hold it.  Steps are what a task does between *)
(* two points where it may wait; a request is read in one step.            *)
(***************************************************************************)
EXTENDS Integers, Sequences, FiniteSets, TLC

CONSTANTS
    Fds,                 \* descriptor numbers accept() may return
    MAX_REGISTERED_FDS,  \* number of ids
    ConnTypes,           \* the connection types in use
    Clients,             \* clients, each of which connects once
    Handlers,            \* the handler tasks
    MaxTargets,          \* limits.handler_targets
    None

ASSUME DeliveryAssumption ==
    /\ MAX_REGISTERED_FDS \in Nat \ {0}
    /\ Fds \subseteq 1 .. (MAX_REGISTERED_FDS - 1)
    /\ ConnTypes \subseteq {1, 2, 3}
    /\ MaxTargets \in Nat \ {0}
    /\ None \notin Clients

(* Register counts the tasks of a descriptor, so the clients can be counted. *)
ASSUME ClientsAreFinite == IsFiniteSet(Clients)

VARIABLES
    REGISTRATIONS, REG_COUNT, REG_ID_TO_FD,  \* as in Register
    sock,     \* the kernel: the client connected to each open descriptor
    conn,     \* the connection task of each client: its progress and conn->fd
    handler,  \* the handler tasks
    age, overtaken,  \* history, as in Register
    owner,    \* history: the client whose request was registered under an id
    killed    \* history: ids killed since they were registered

arrays   == <<REGISTRATIONS, REG_COUNT, REG_ID_TO_FD>>
registry == <<arrays, age, overtaken>>
named    == <<owner, killed>>
vars     == <<REGISTRATIONS, REG_COUNT, REG_ID_TO_FD, age, overtaken, sock, conn,
              handler, owner, killed>>

Ids == 0 .. (MAX_REGISTERED_FDS - 1)

(* Accepted and not yet registered, registered, or gone. *)
TaskStates == {"none", "accepted", "registered", "ended"}

Running(c) == conn[c].at \in {"accepted", "registered"}

(* The tasks that have yet to register a descriptor: Register counts them. *)
Fresh ==
    [fd \in Fds |-> Cardinality({c \in Clients : conn[c].at = "accepted"
                                                  /\ conn[c].fd = fd})]

Reg == INSTANCE Register
       WITH MaxFresh  <- Cardinality(Clients),
            MaxTime   <- 1,
            now       <- 1,
            open      <- {fd \in Fds : sock[fd] # None},
            fresh     <- Fresh

(* Register_fd_exists of what Register_fd_for_id returns; 0 is nobody. *)
ConnType(fd) == IF fd = 0 THEN 0 ELSE Reg!Register_fd_exists(fd)

Waiting == [at |-> "recv", targets |-> <<>>, empty |-> FALSE, id |-> 0, fd |-> 0]

Init ==
    /\ Reg!Register_init
    /\ sock = [fd \in Fds |-> None]
    /\ conn = [c \in Clients |-> [at |-> "none", fd |-> 0]]
    /\ handler = [h \in Handlers |-> Waiting]
    /\ age = [fd \in Fds |-> 0]
    /\ overtaken = FALSE
    /\ owner = [id \in Ids |-> None]
    /\ killed = {}

Register_disconnect_NoClear(fd) ==  \* mutant: only closes, as kill does
    /\ UNCHANGED registry
    /\ sock' = [sock EXCEPT ![fd] = None]

Register_disconnect_NoClose(fd) ==  \* mutant: leaves an unregistered one open
    IF Reg!Live(fd)
    THEN /\ Reg!RegClear(fd) /\ age' = [age EXCEPT ![fd] = 0] /\ UNCHANGED overtaken
         /\ sock' = [sock EXCEPT ![fd] = None]
    ELSE UNCHANGED <<registry, sock>>

(* Closes the descriptor in any case, and clears it if it is registered. *)
Register_disconnect(fd) ==
    /\ IF Reg!Live(fd) THEN Reg!RegClear(fd) ELSE UNCHANGED arrays
    /\ age' = [age EXCEPT ![fd] = 0] /\ UNCHANGED overtaken
    /\ sock' = [sock EXCEPT ![fd] = None]

-----------------------------------------------------------------------------
(* The accept loop and the connection tasks. *)

(* netaccept returns a number that is free now, whoever still remembers it. *)
Server_start(c, fd) ==
    /\ conn[c].at = "none"
    /\ sock[fd] = None
    /\ sock' = [sock EXCEPT ![fd] = c]
    /\ conn' = [conn EXCEPT ![c] = [at |-> "accepted", fd |-> fd]]
    /\ UNCHANGED <<registry, handler, named>>

connection_register_request_Again(c, conn_type) ==  \* mutant: every request registers
    /\ Running(c)
    /\ sock[conn[c].fd] # None
    /\ Reg!RegConnect(conn[c].fd, conn_type) /\ Reg!RecordConnect(conn[c].fd)
    /\ owner' = [owner EXCEPT ![REG_COUNT] = sock[conn[c].fd]]
    /\ killed' = killed \ {REG_COUNT}
    /\ conn' = [conn EXCEPT ![c].at = "registered"]
    /\ UNCHANGED <<sock, handler>>

(***************************************************************************)
(* The first request is read from conn->fd and registered, without a wait  *)
(* between the two.  It is the request of the client that is connected to  *)
(* the number at that time.  Later requests register nothing.              *)
(***************************************************************************)
connection_register_request(c, conn_type) ==
    /\ conn[c].at = "accepted"
    /\ sock[conn[c].fd] # None
    /\ Reg!RegConnect(conn[c].fd, conn_type) /\ Reg!RecordConnect(conn[c].fd)
    /\ owner' = [owner EXCEPT ![REG_COUNT] = sock[conn[c].fd]]
    /\ killed' = killed \ {REG_COUNT}
    /\ conn' = [conn EXCEPT ![c].at = "registered"]
    /\ UNCHANGED <<sock, handler>>

(* The client hangs up, or a read or a write fails, also on a closed number. *)
connection_close(c) ==
    /\ Running(c)
    /\ Register_disconnect(conn[c].fd)
    /\ conn' = [conn EXCEPT ![c] = [at |-> "ended", fd |-> 0]]
    /\ UNCHANGED <<handler, named>>

-----------------------------------------------------------------------------
(* Handler_task: a message for several ids, which are served one by one. *)

Serving_Past(targets, empty) ==  \* mutant: i <= target_count
    [at |-> "loop", targets |-> targets, empty |-> empty, id |-> 0, fd |-> 0]

(* In the loop with these targets left, or back to receive. *)
Serving(targets, empty) ==
    IF targets = <<>> THEN Waiting
    ELSE [at |-> "loop", targets |-> targets, empty |-> empty, id |-> 0, fd |-> 0]

(* handler_recv_parse: a message that does not parse, or has no target, is skipped. *)
handler_recv_parse(h, targets, empty) ==
    /\ handler[h].at = "recv"
    /\ handler' = [handler EXCEPT ![h] = Serving(targets, empty)]
    /\ UNCHANGED <<registry, sock, conn, named>>

NextTarget(h) ==
    handler' = [handler EXCEPT ![h] = Serving(Tail(handler[h].targets), handler[h].empty)]

Target(h) == Head(handler[h].targets)

TargetFd(h) == Reg!Register_fd_for_id(Target(h))

(* The id is no longer connected: the handler is told with a leave message. *)
Handler_notify_leave(h) ==
    /\ handler[h].at = "loop"
    /\ ConnType(TargetFd(h)) = 0
    /\ NextTarget(h)
    /\ UNCHANGED <<registry, sock, conn, named>>

(* An empty body disconnects. *)
handler_disconnect(h) ==
    /\ handler[h].at = "loop"
    /\ ConnType(TargetFd(h)) # 0
    /\ handler[h].empty
    /\ Register_disconnect(TargetFd(h))
    /\ NextTarget(h)
    /\ UNCHANGED <<conn, named>>

(***************************************************************************)
(* deliver_payload: fdsend sends everything, or waits in the middle for a  *)
(* slow client, or fails, and then the descriptor is disconnected.         *)
(***************************************************************************)
deliver_payload(h) ==
    /\ handler[h].at = "loop"
    /\ ConnType(TargetFd(h)) # 0
    /\ ~handler[h].empty
    /\ \/ /\ sock[TargetFd(h)] # None
          /\ NextTarget(h)
          /\ UNCHANGED <<registry, sock>>
       \/ /\ sock[TargetFd(h)] # None
          /\ handler' = [handler EXCEPT ![h].at = "send", ![h].id = Target(h),
                                        ![h].fd = TargetFd(h)]
          /\ UNCHANGED <<registry, sock>>
       \/ /\ Register_disconnect(TargetFd(h))
          /\ NextTarget(h)
    /\ UNCHANGED <<conn, named>>

(* fdsend after the wait: the rest goes to the same number, or fails. *)
fdsend(h) ==
    /\ handler[h].at = "send"
    /\ \/ /\ sock[handler[h].fd] # None
          /\ UNCHANGED <<registry, sock>>
       \/ Register_disconnect(handler[h].fd)
    /\ NextTarget(h)
    /\ UNCHANGED <<conn, named>>

-----------------------------------------------------------------------------
(* The kill command: closes the number and leaves the registration. *)
Control_kill(id) ==
    /\ Reg!Register_fd_for_id(id) > 0
    /\ sock' = [sock EXCEPT ![Reg!Register_fd_for_id(id)] = None]
    /\ killed' = killed \cup {id}
    /\ UNCHANGED <<registry, conn, handler, owner>>

(* The targets of a message, at most limits.handler_targets of them. *)
Targets == UNION {[1 .. n -> Ids] : n \in 1 .. MaxTargets}

Next ==
    \/ \E c \in Clients :
          \/ \E fd \in Fds : Server_start(c, fd)
          \/ \E t \in ConnTypes : connection_register_request(c, t)
          \/ connection_close(c)
    \/ \E h \in Handlers :
          \/ \E targets \in Targets, empty \in BOOLEAN :
                handler_recv_parse(h, targets, empty)
          \/ Handler_notify_leave(h)
          \/ handler_disconnect(h)
          \/ deliver_payload(h)
          \/ fdsend(h)
    \/ \E id \in Ids : Control_kill(id)

Spec == Init /\ [][Next]_vars

-----------------------------------------------------------------------------
(* For the runs: no client and no handler is special. *)
Symmetry == Permutations(Clients) \cup Permutations(Handlers)

(* What no guard reads and no property looks at: the history of ids that lead nowhere. *)
Resolved == {id \in Ids : Reg!Register_fd_for_id(id) > 0}
MCView == <<registry, sock, conn, handler, [id \in Resolved |-> owner[id]], killed \cap Resolved>>

HandlerTask ==
    [at : {"recv", "loop", "send"}, targets : Seq(Ids), empty : BOOLEAN,
     id : Ids, fd : Fds \cup {0}]

TypeOK ==
    /\ REGISTRATIONS \in [Fds -> Reg!Registration]
    /\ REG_COUNT \in Ids
    /\ REG_ID_TO_FD \in [Ids -> Fds \cup {0}]
    /\ sock \in [Fds -> Clients \cup {None}]
    /\ conn \in [Clients -> [at : TaskStates, fd : Fds \cup {0}]]
    /\ \A c \in Clients : Running(c) => conn[c].fd \in Fds
    /\ handler \in [Handlers -> HandlerTask]
    /\ \A h \in Handlers :
          /\ handler[h].at # "recv" => Len(handler[h].targets) \in 1 .. MaxTargets
          /\ handler[h].at = "send" => handler[h].fd \in Fds
    /\ age \in [Fds -> 0 .. (MAX_REGISTERED_FDS + 1)]
    /\ overtaken \in BOOLEAN
    /\ owner \in [Ids -> Clients \cup {None}]
    /\ killed \subseteq Ids

(***************************************************************************)
(* "The numbers indicate the connected browser the message is to/from":    *)
(* what Handler_task looks up for an id is nobody or the open socket of    *)
(* the client that was registered under it, until the id itself is killed. *)
(* It holds over laps of the counter, and although a task whose descriptor *)
(* was disconnected by a handler, or killed, closes the number a second    *)
(* time, under another client.                                             *)
(***************************************************************************)
NumbersIdentifyListeners ==
    \A id \in Ids : Reg!Register_fd_for_id(id) # 0 =>
        /\ owner[id] # None
        /\ id \notin killed => sock[Reg!Register_fd_for_id(id)] = owner[id]

(***************************************************************************)
(* A connected client always has its own task, and that task will close    *)
(* the client's descriptor: whoever closes whose number in between, no     *)
(* socket is left open that nobody serves.                                 *)
(***************************************************************************)
SocketHasItsTask ==
    \A fd \in Fds : sock[fd] # None =>
        Running(sock[fd]) /\ conn[sock[fd]].fd = fd

(* A registration, also one that kill left behind, has a task that will clear it. *)
RegistrationHasTask ==
    \A fd \in Fds : Reg!Live(fd) =>
        \E c \in Clients : conn[c].at = "registered" /\ conn[c].fd = fd

(***************************************************************************)
(* Connections, handlers and the control port use the registry as module   *)
(* Register says, so what is shown there of ids holds in the composition.  *)
(***************************************************************************)
ImplementsRegister == Reg!Spec

-----------------------------------------------------------------------------
(* What the manual says. *)

(***************************************************************************)
(* "The numbers indicate the connected browser the message is to": also    *)
(* the part of a message that is sent after a wait goes to the client      *)
(* that the id named when the sending began, or to nobody, unless the id   *)
(* is killed.                                                              *)
(***************************************************************************)
WholeMessageToOneListener ==
    \A h \in Handlers : handler[h].at = "send" /\ handler[h].id \notin killed =>
        sock[handler[h].fd] \in {None, owner[handler[h].id]}
=============================================================================
