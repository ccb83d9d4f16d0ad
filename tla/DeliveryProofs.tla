--------------------------- MODULE DeliveryProofs ---------------------------
(***************************************************************************)
(* Proofs about the composition of registry, connections and handlers, for *)
(* any number of descriptors, ids, clients and handlers, and any number of *)
(* laps of the counter.  They rest on DeliveryAssumption; the refinement   *)
(* of Register at the end also counts the clients, so it takes finitely    *)
(* many of them (ClientsAreFinite).                                        *)
(***************************************************************************)
EXTENDS Delivery, FiniteSetTheorems, TLAPS

(* What is looked up for an id is registered under it, and is its client. *)
Lookups ==
    \A id \in Ids : REG_ID_TO_FD[id] # 0 =>
        /\ Reg!Live(REG_ID_TO_FD[id])
        /\ REGISTRATIONS[REG_ID_TO_FD[id]].id = id
        /\ owner[id] # None
        /\ id \notin killed => sock[REG_ID_TO_FD[id]] = owner[id]

-----------------------------------------------------------------------------
(* The effect of the two operations of the registry. *)
LEMMA ConnectEffect ==
    ASSUME TypeOK, NEW fd \in Fds, NEW t \in ConnTypes, Reg!RegConnect(fd, t)
    PROVE  /\ REGISTRATIONS' \in [Fds -> Reg!Registration]
           /\ REG_COUNT' \in Ids
           /\ REG_ID_TO_FD' \in [Ids -> Fds \cup {0}]
           /\ Reg!Live(fd)' /\ REGISTRATIONS'[fd].id = REG_COUNT
           /\ \A f \in Fds \ {fd} : REGISTRATIONS'[f] = REGISTRATIONS[f]
           /\ REG_ID_TO_FD'[REG_COUNT] = fd
           /\ \A id \in Ids \ {REG_COUNT} :
                 REG_ID_TO_FD'[id] = IF Reg!Live(fd) /\ REGISTRATIONS[fd].id = id
                                     THEN 0 ELSE REG_ID_TO_FD[id]
<1> USE DeliveryAssumption
    DEF TypeOK, Reg!RegConnect, Reg!Live, Reg!Register_fd_exists, Ids, Reg!Registration,
        Reg!Ids
<1>1. REGISTRATIONS' = [REGISTRATIONS EXCEPT ![fd] =
                           [conn_type |-> t, id |-> REG_COUNT, last_ping |-> 1]]
  OBVIOUS
<1>2. REGISTRATIONS' \in [Fds -> Reg!Registration]
  BY <1>1
<1>3. REG_COUNT' \in Ids
  BY DEF Reg!NextId
<1>4. /\ REGISTRATIONS[fd].id \in Ids
      /\ Reg!MapBeforeConnect(fd) \in [Ids -> Fds \cup {0}]
      /\ \A id \in Ids : Reg!MapBeforeConnect(fd)[id] =
                            IF Reg!Live(fd) /\ REGISTRATIONS[fd].id = id
                            THEN 0 ELSE REG_ID_TO_FD[id]
  BY DEF Reg!MapBeforeConnect, Reg!ClearedMap
<1>5. REG_ID_TO_FD' = [Reg!MapBeforeConnect(fd) EXCEPT ![REG_COUNT] = fd]
  OBVIOUS
<1>6. Reg!Live(fd)' /\ REGISTRATIONS'[fd].id = REG_COUNT
  BY <1>1
<1> QED BY <1>1, <1>2, <1>3, <1>4, <1>5, <1>6

(* The ages that a registration leaves behind stay within their bound. *)
LEMMA RecordType ==
    ASSUME TypeOK, NEW fd \in Fds, Reg!RecordConnect(fd)
    PROVE  age' \in [Fds -> 0 .. (MAX_REGISTERED_FDS + 1)] /\ overtaken' \in BOOLEAN
<1>1. \A a \in 0 .. (MAX_REGISTERED_FDS + 1) : Reg!Grow(a) \in 0 .. (MAX_REGISTERED_FDS + 1)
  BY DeliveryAssumption DEF Reg!Grow
<1>2. 1 \in 0 .. (MAX_REGISTERED_FDS + 1) /\ 0 \in 0 .. (MAX_REGISTERED_FDS + 1)
  BY DeliveryAssumption
<1>3. \A f \in Fds : age[f] \in 0 .. (MAX_REGISTERED_FDS + 1)
  BY DEF TypeOK
<1>4. age' = [f \in Fds |-> IF f = fd THEN 1 ELSE IF Reg!Live(f) THEN Reg!Grow(age[f]) ELSE 0]
  BY DEF Reg!RecordConnect
<1>5. overtaken' \in BOOLEAN
  BY DEF Reg!RecordConnect, TypeOK
<1> QED BY <1>1, <1>2, <1>3, <1>4, <1>5

(* Register_disconnect closes the descriptor and forgets it and its id. *)
LEMMA DisconnectEffect ==
    ASSUME TypeOK, NEW fd \in Fds, Register_disconnect(fd)
    PROVE  /\ REGISTRATIONS' \in [Fds -> Reg!Registration]
           /\ REG_COUNT' = REG_COUNT
           /\ REG_ID_TO_FD' \in [Ids -> Fds \cup {0}]
           /\ sock' \in [Fds -> Clients \cup {None}]
           /\ age' \in [Fds -> 0 .. (MAX_REGISTERED_FDS + 1)] /\ overtaken' = overtaken
           /\ ~Reg!Live(fd)' /\ sock'[fd] = None
           /\ \A f \in Fds \ {fd} : REGISTRATIONS'[f] = REGISTRATIONS[f] /\ sock'[f] = sock[f]
           /\ \A id \in Ids : REG_ID_TO_FD'[id] =
                 IF Reg!Live(fd) /\ REGISTRATIONS[fd].id = id THEN 0 ELSE REG_ID_TO_FD[id]
<1> USE DeliveryAssumption
    DEF TypeOK, Register_disconnect, Reg!Live, Reg!Register_fd_exists, Ids,
        Reg!Registration, Reg!Ids
<1>1. sock' \in [Fds -> Clients \cup {None}] /\ sock'[fd] = None
      /\ \A f \in Fds \ {fd} : sock'[f] = sock[f]
  OBVIOUS
<1>4. age' \in [Fds -> 0 .. (MAX_REGISTERED_FDS + 1)] /\ overtaken' = overtaken
  OBVIOUS
<1>2. CASE Reg!Live(fd)
  <2>1. /\ REGISTRATIONS' = [REGISTRATIONS EXCEPT ![fd] =
               [conn_type |-> 0, id |-> REGISTRATIONS[fd].id, last_ping |-> 0]]
        /\ REG_ID_TO_FD' = [REG_ID_TO_FD EXCEPT ![REGISTRATIONS[fd].id] = 0]
        /\ REG_COUNT' = REG_COUNT
    BY <1>2 DEF Reg!RegClear, Reg!Register_clear, Reg!ClearedMap
  <2>2. REGISTRATIONS[fd].id \in Ids
    OBVIOUS
  <2>3. REGISTRATIONS' \in [Fds -> Reg!Registration] /\ ~Reg!Live(fd)'
    BY <2>1, <2>2
  <2> QED BY <1>1, <1>2, <1>4, <2>1, <2>2, <2>3
<1>3. CASE ~Reg!Live(fd)
  BY <1>1, <1>3, <1>4 DEF arrays
<1> QED BY <1>2, <1>3

-----------------------------------------------------------------------------
(* The handler tasks. *)
LEMMA MessageType ==
    ASSUME NEW targets \in Targets
    PROVE  targets \in Seq(Ids) /\ Len(targets) \in 1 .. MaxTargets
  BY DeliveryAssumption DEF Targets

HandlerOK ==
    /\ handler \in [Handlers -> HandlerTask]
    /\ \A h \in Handlers :
          /\ handler[h].at # "recv" => Len(handler[h].targets) \in 1 .. MaxTargets
          /\ handler[h].at = "send" => handler[h].fd \in Fds

(* A handler between two messages. *)
LEMMA WaitingType == Waiting \in HandlerTask /\ Waiting.at = "recv"
  BY DeliveryAssumption DEF Waiting, HandlerTask, Ids

(* Every target of a message is an id, so that its lookup is defined. *)
LEMMA TargetType ==
    ASSUME TypeOK, NEW h \in Handlers, handler[h].at # "recv"
    PROVE  /\ Target(h) \in Ids /\ TargetFd(h) \in Fds \cup {0}
           /\ ConnType(TargetFd(h)) # 0 => TargetFd(h) \in Fds
<1>1. handler[h].targets \in Seq(Ids) /\ Len(handler[h].targets) >= 1
  BY DeliveryAssumption DEF TypeOK, HandlerTask
<1>2. Target(h) \in Ids
  BY <1>1 DEF Target
<1> QED BY <1>2 DEF TypeOK, TargetFd, ConnType, Reg!Register_fd_for_id

(* A handler that serves a list of ids. *)
LEMMA ServingType ==
    ASSUME TypeOK, NEW h \in Handlers, NEW targets \in Seq(Ids), NEW empty \in BOOLEAN,
           Len(targets) <= MaxTargets,
           handler' = [handler EXCEPT ![h] = Serving(targets, empty)]
    PROVE  HandlerOK'
<1>1. 0 \in Ids
  BY DeliveryAssumption DEF Ids
<1>2. targets # <<>> => Len(targets) \in 1 .. MaxTargets
  BY DeliveryAssumption
<1>3. /\ Serving(targets, empty) \in HandlerTask
      /\ Serving(targets, empty).at \in {"recv", "loop"}
      /\ Serving(targets, empty).at = "loop" =>
            Len(Serving(targets, empty).targets) \in 1 .. MaxTargets
  BY <1>1, <1>2, WaitingType DEF Serving, HandlerTask
<1> QED BY <1>3 DEF HandlerOK, TypeOK

(* Going on to the next id keeps the type of the handler. *)
LEMMA NextTargetType ==
    ASSUME TypeOK, NEW h \in Handlers, handler[h].at # "recv", NextTarget(h)
    PROVE  HandlerOK'
<1>1. /\ handler[h].targets \in Seq(Ids) /\ handler[h].empty \in BOOLEAN
      /\ Len(handler[h].targets) \in 1 .. MaxTargets
  BY DEF TypeOK, HandlerTask
<1>2. /\ Tail(handler[h].targets) \in Seq(Ids)
      /\ Len(Tail(handler[h].targets)) <= MaxTargets
  BY <1>1, DeliveryAssumption
<1> QED BY <1>1, <1>2, ServingType DEF NextTarget

(* Sending to one target keeps the types. *)
LEMMA SendType ==
    ASSUME TypeOK, NEW h \in Handlers, handler[h].at = "loop", TargetFd(h) \in Fds,
           handler' = [handler EXCEPT ![h].at = "send", ![h].id = Target(h),
                                      ![h].fd = TargetFd(h)]
    PROVE  HandlerOK'
<1>1. handler[h] \in HandlerTask /\ Len(handler[h].targets) \in 1 .. MaxTargets
  BY DEF TypeOK
<1>2. /\ handler'[h] = [at |-> "send", targets |-> handler[h].targets,
                        empty |-> handler[h].empty, id |-> Target(h), fd |-> TargetFd(h)]
      /\ \A g \in Handlers \ {h} : handler'[g] = handler[g]
      /\ DOMAIN handler' = Handlers /\ handler' = [g \in Handlers |-> handler'[g]]
  BY <1>1 DEF TypeOK, HandlerTask
<1>3. handler'[h] \in HandlerTask
  BY <1>1, <1>2, TargetType DEF HandlerTask
<1> QED BY <1>1, <1>2, <1>3 DEF HandlerOK, TypeOK

(* Receiving a message keeps the types. *)
LEMMA ReceiveType ==
    ASSUME TypeOK, NEW h \in Handlers, NEW targets \in Targets, NEW empty \in BOOLEAN,
           handler_recv_parse(h, targets, empty)
    PROVE  HandlerOK'
<1>1. targets \in Seq(Ids) /\ Len(targets) <= MaxTargets
  BY MessageType, DeliveryAssumption
<1> QED BY <1>1, ServingType DEF handler_recv_parse

-----------------------------------------------------------------------------
(* A step of a handler keeps the handlers' types and disconnects or does nothing. *)
LEMMA HandlerStep ==
    ASSUME TypeOK, NEW h \in Handlers,
           \/ \E targets \in Targets, empty \in BOOLEAN : handler_recv_parse(h, targets, empty)
           \/ Handler_notify_leave(h)
           \/ handler_disconnect(h)
           \/ deliver_payload(h)
           \/ fdsend(h)
    PROVE  /\ HandlerOK' /\ UNCHANGED <<conn, named>>
           /\ \/ \E fd \in Fds : Register_disconnect(fd)
              \/ UNCHANGED <<registry, sock>>
<1>1. CASE \E targets \in Targets, empty \in BOOLEAN : handler_recv_parse(h, targets, empty)
  BY <1>1, ReceiveType DEF handler_recv_parse
<1>2. CASE Handler_notify_leave(h)
  BY <1>2, NextTargetType DEF Handler_notify_leave
<1>3. CASE handler_disconnect(h)
  BY <1>3, NextTargetType, TargetType DEF handler_disconnect
<1>4. CASE deliver_payload(h)
  <2>1. handler[h].at = "loop" /\ TargetFd(h) \in Fds /\ UNCHANGED <<conn, named>>
    BY <1>4, TargetType DEF deliver_payload
  <2>2. CASE NextTarget(h) /\ UNCHANGED <<registry, sock>>
    BY <2>1, <2>2, NextTargetType
  <2>3. CASE /\ handler' = [handler EXCEPT ![h].at = "send", ![h].id = Target(h),
                                           ![h].fd = TargetFd(h)]
             /\ UNCHANGED <<registry, sock>>
    BY <2>1, <2>3, SendType
  <2>4. CASE Register_disconnect(TargetFd(h)) /\ NextTarget(h)
    BY <2>1, <2>4, NextTargetType
  <2> QED BY <1>4, <2>2, <2>3, <2>4, Zenon DEF deliver_payload
<1>5. CASE fdsend(h)
  BY <1>5, NextTargetType DEF fdsend, TypeOK
<1> QED BY <1>1, <1>2, <1>3, <1>4, <1>5

(* What a step does to the registry, the sockets and the connection tasks. *)
LEMMA StepCases ==
    ASSUME TypeOK, [Next]_vars
    PROVE  \/ \E c \in Clients, fd \in Fds : Server_start(c, fd)
           \/ \E c \in Clients, t \in ConnTypes : connection_register_request(c, t)
           \/ \E c \in Clients : connection_close(c)
           \/ /\ HandlerOK' /\ UNCHANGED <<conn, named>>
              /\ \E fd \in Fds : Register_disconnect(fd)
           \/ HandlerOK' /\ UNCHANGED <<registry, sock, conn, named>>
           \/ \E id \in Ids : Control_kill(id) /\ REG_ID_TO_FD[id] \in Fds
<1>1. CASE \E h \in Handlers :
              \/ \E targets \in Targets, empty \in BOOLEAN : handler_recv_parse(h, targets, empty)
              \/ Handler_notify_leave(h) \/ handler_disconnect(h)
              \/ deliver_payload(h) \/ fdsend(h)
  BY <1>1, HandlerStep
<1>2. CASE \E id \in Ids : Control_kill(id)
  <2>1. PICK id \in Ids : Control_kill(id)
    BY <1>2
  <2>2. REG_ID_TO_FD[id] \in Fds
    BY <2>1 DEF TypeOK, Control_kill, Reg!Register_fd_for_id
  <2> QED BY <2>1, <2>2
<1>3. CASE UNCHANGED vars
  BY <1>3 DEF vars, registry, arrays, named, HandlerOK, TypeOK
<1> QED BY <1>1, <1>2, <1>3, Zenon DEF Next

-----------------------------------------------------------------------------
(***************************************************************************)
(* The registry's arrays, the sockets, the connection tasks and the        *)
(* handlers' messages keep their types; in particular a handler always     *)
(* has a target left while it is serving.                                  *)
(***************************************************************************)
THEOREM DeliveryTypeOK == Spec => []TypeOK
<1>1. Init => TypeOK
  <2> SUFFICES ASSUME Init PROVE TypeOK
    OBVIOUS
  <2>1. 0 \in Ids
    BY DeliveryAssumption DEF Ids
  <2>2. REGISTRATIONS \in [Fds -> Reg!Registration] /\ REG_COUNT \in Ids
        /\ REG_ID_TO_FD \in [Ids -> Fds \cup {0}]
    BY <2>1 DEF Init, Reg!Register_init, Reg!Registration, Reg!Ids, Ids
  <2>4. age \in [Fds -> 0 .. (MAX_REGISTERED_FDS + 1)]
    BY DeliveryAssumption DEF Init
  <2>3. /\ conn \in [Clients -> [at : TaskStates, fd : Fds \cup {0}]]
        /\ \A c \in Clients : ~Running(c)
    BY DEF Init, TaskStates, Running
  <2> QED BY <2>2, <2>3, <2>4, WaitingType DEF Init, TypeOK
<1>2. TypeOK /\ [Next]_vars => TypeOK'
  <2> SUFFICES ASSUME TypeOK, [Next]_vars PROVE TypeOK'
    OBVIOUS
  <2>1. CASE \E c \in Clients, fd \in Fds : Server_start(c, fd)
    <3>1. PICK c \in Clients, fd \in Fds : Server_start(c, fd)
      BY <2>1
    <3>2. /\ conn' \in [Clients -> [at : TaskStates, fd : Fds \cup {0}]]
          /\ \A d \in Clients : Running(d)' => conn'[d].fd \in Fds
      BY <3>1 DEF TypeOK, Server_start, TaskStates, Running
    <3> QED BY <3>1, <3>2 DEF TypeOK, Server_start, registry, arrays, named
  <2>2. CASE \E c \in Clients, t \in ConnTypes : connection_register_request(c, t)
    <3>1. PICK c \in Clients, t \in ConnTypes : connection_register_request(c, t)
      BY <2>2
    <3>2. conn[c].fd \in Fds
      BY <3>1 DEF TypeOK, connection_register_request, Running
    <3>3. /\ conn' \in [Clients -> [at : TaskStates, fd : Fds \cup {0}]]
          /\ \A d \in Clients : Running(d)' => conn'[d].fd \in Fds
      BY <3>1, <3>2 DEF TypeOK, connection_register_request, TaskStates, Running
    <3>4. owner' \in [Ids -> Clients \cup {None}]
      BY <3>1, <3>2 DEF TypeOK, connection_register_request
    <3>5. /\ REGISTRATIONS' \in [Fds -> Reg!Registration]
          /\ REG_COUNT' \in Ids
          /\ REG_ID_TO_FD' \in [Ids -> Fds \cup {0}]
      BY <3>1, <3>2, ConnectEffect DEF connection_register_request
    <3>6. /\ age' \in [Fds -> 0 .. (MAX_REGISTERED_FDS + 1)]
          /\ overtaken' \in BOOLEAN
      BY <3>1, <3>2, RecordType DEF connection_register_request
    <3> QED BY <3>1, <3>3, <3>4, <3>5, <3>6 DEF TypeOK, connection_register_request
  <2>3. CASE \E c \in Clients : connection_close(c)
    <3>1. PICK c \in Clients : connection_close(c)
      BY <2>3
    <3>2. conn[c].fd \in Fds
      BY <3>1 DEF TypeOK, connection_close
    <3>3. /\ conn' \in [Clients -> [at : TaskStates, fd : Fds \cup {0}]]
          /\ \A d \in Clients : Running(d)' => conn'[d].fd \in Fds
      BY <3>1, <3>2 DEF TypeOK, connection_close, TaskStates, Running
    <3> QED BY <3>1, <3>2, <3>3, DisconnectEffect DEF TypeOK, connection_close, named
  <2>4. CASE /\ HandlerOK' /\ UNCHANGED <<conn, named>>
             /\ \E fd \in Fds : Register_disconnect(fd)
    BY <2>4, DisconnectEffect DEF TypeOK, HandlerOK, Running, named
  <2>5. CASE HandlerOK' /\ UNCHANGED <<registry, sock, conn, named>>
    BY <2>5 DEF TypeOK, HandlerOK, registry, arrays, named, Running
  <2>6. CASE \E id \in Ids : Control_kill(id) /\ REG_ID_TO_FD[id] \in Fds
    BY <2>6 DEF Control_kill, Reg!Register_fd_for_id, TypeOK, registry, arrays, Running
  <2> QED BY <2>1, <2>2, <2>3, <2>4, <2>5, <2>6, StepCases, Zenon
<1> QED BY <1>1, <1>2, PTL DEF Spec

(* A disconnect leaves no id that leads to the descriptor, and the others alone. *)
LEMMA DisconnectLookups ==
    ASSUME TypeOK, Lookups, NEW fd \in Fds, Register_disconnect(fd), UNCHANGED <<owner, killed>>
    PROVE  Lookups'
<1> SUFFICES ASSUME NEW id \in Ids, REG_ID_TO_FD'[id] # 0
             PROVE  /\ Reg!Live(REG_ID_TO_FD[id])'
                    /\ REGISTRATIONS'[REG_ID_TO_FD'[id]].id = id
                    /\ owner'[id] # None
                    /\ id \notin killed' => sock'[REG_ID_TO_FD'[id]] = owner'[id]
  BY DEF Lookups
<1>1. REG_ID_TO_FD'[id] = REG_ID_TO_FD[id] /\ ~(Reg!Live(fd) /\ REGISTRATIONS[fd].id = id)
  BY DisconnectEffect
<1>2. REG_ID_TO_FD[id] \in Fds \ {fd}
  BY <1>1 DEF Lookups, TypeOK
<1> QED
  BY <1>1, <1>2, DisconnectEffect DEF Lookups, Reg!Live, Reg!Register_fd_exists

(***************************************************************************)
(* Until an id itself is killed, it leads Handler_task to nobody or to the *)
(* open socket of the client that was registered under it, whatever the    *)
(* connection tasks, the handlers and the control port close and accept in *)
(* between, and however often the counter has lapped.                      *)
(***************************************************************************)
THEOREM HandlersReachListeners == Spec => []NumbersIdentifyListeners
<1>1. Init => Lookups
  BY DEF Init, Reg!Register_init, Lookups, Reg!Ids, Ids
<1>2. TypeOK /\ Lookups /\ [Next]_vars => Lookups'
  <2> SUFFICES ASSUME TypeOK, Lookups, [Next]_vars PROVE Lookups'
    OBVIOUS
  <2>1. CASE \E c \in Clients, fd \in Fds : Server_start(c, fd)
    <3>1. PICK c \in Clients, fd \in Fds : Server_start(c, fd)
      BY <2>1
    <3>2. \A id \in Ids \ killed : REG_ID_TO_FD[id] # fd
      BY <3>1, DeliveryAssumption DEF Server_start, Lookups
    <3> QED
      BY <3>1, <3>2
      DEF Server_start, Lookups, registry, arrays, named, TypeOK, Reg!Live, Reg!Register_fd_exists
  <2>2. CASE \E c \in Clients, t \in ConnTypes : connection_register_request(c, t)
    <3>1. PICK c \in Clients, t \in ConnTypes : connection_register_request(c, t)
      BY <2>2
    <3> DEFINE fd == conn[c].fd
    <3>2. /\ fd \in Fds /\ sock[fd] # None /\ Reg!RegConnect(fd, t) /\ UNCHANGED sock
          /\ owner' = [owner EXCEPT ![REG_COUNT] = sock[fd]]
          /\ killed' = killed \ {REG_COUNT}
      BY <3>1 DEF TypeOK, connection_register_request, Running
    <3> HIDE DEF fd
    <3> SUFFICES ASSUME NEW id \in Ids, REG_ID_TO_FD'[id] # 0
                 PROVE  /\ Reg!Live(REG_ID_TO_FD[id])'
                        /\ REGISTRATIONS'[REG_ID_TO_FD'[id]].id = id
                        /\ owner'[id] # None
                        /\ id \notin killed' => sock'[REG_ID_TO_FD'[id]] = owner'[id]
      BY DEF Lookups
    <3>3. CASE id = REG_COUNT
      <4>1. REG_ID_TO_FD'[id] = fd /\ owner'[id] = sock[fd]
        BY <3>2, <3>3, ConnectEffect DEF TypeOK
      <4> QED
        BY <3>2, <3>3, <4>1, ConnectEffect DEF Reg!Live, Reg!Register_fd_exists
    <3>4. CASE id # REG_COUNT
      <4>1. REG_ID_TO_FD'[id] = REG_ID_TO_FD[id] /\ ~(Reg!Live(fd) /\ REGISTRATIONS[fd].id = id)
        BY <3>2, <3>4, ConnectEffect
      <4>2. REG_ID_TO_FD[id] \in Fds \ {fd}
        BY <4>1 DEF Lookups, TypeOK
      <4>3. owner'[id] = owner[id] /\ (id \in killed' <=> id \in killed)
        BY <3>2, <3>4 DEF TypeOK
      <4> QED
        BY <3>2, <4>1, <4>2, <4>3, ConnectEffect
        DEF Lookups, Reg!Live, Reg!Register_fd_exists
    <3> QED BY <3>3, <3>4
  <2>3. CASE \E c \in Clients : connection_close(c)
    BY <2>3, DisconnectLookups DEF connection_close, TypeOK, named
  <2>4. CASE /\ HandlerOK' /\ UNCHANGED <<conn, named>>
             /\ \E fd \in Fds : Register_disconnect(fd)
    BY <2>4, DisconnectLookups DEF named
  <2>5. CASE HandlerOK' /\ UNCHANGED <<registry, sock, conn, named>>
    BY <2>5 DEF Lookups, registry, arrays, named, Reg!Live, Reg!Register_fd_exists
  <2>6. CASE \E id \in Ids : Control_kill(id) /\ REG_ID_TO_FD[id] \in Fds
    <3>1. PICK k \in Ids : Control_kill(k) /\ REG_ID_TO_FD[k] \in Fds
      BY <2>6
    <3>2. \A id \in Ids \ {k} : REG_ID_TO_FD[id] # REG_ID_TO_FD[k]
      BY <3>1, DeliveryAssumption DEF Lookups
    <3> QED
      BY <3>1, <3>2 DEF Control_kill, Reg!Register_fd_for_id, Lookups, registry, arrays,
        TypeOK, Reg!Live, Reg!Register_fd_exists
  <2> QED BY <2>1, <2>2, <2>3, <2>4, <2>5, <2>6, StepCases, Zenon
<1>3. Lookups => NumbersIdentifyListeners
  BY DEF Lookups, NumbersIdentifyListeners, Reg!Register_fd_for_id
<1> QED BY <1>1, <1>2, <1>3, DeliveryTypeOK, PTL DEF Spec

(***************************************************************************)
(* A connected client always has its own connection task, which will close *)
(* its descriptor: no socket is leaked, also when numbers are closed twice *)
(* by tasks, handlers and kill.                                            *)
(***************************************************************************)
THEOREM NoSocketWithoutTask == Spec => []SocketHasItsTask
<1>1. Init => SocketHasItsTask
  BY DEF Init, SocketHasItsTask
<1>2. TypeOK /\ SocketHasItsTask /\ [Next]_vars => SocketHasItsTask'
  <2> SUFFICES ASSUME TypeOK, SocketHasItsTask, [Next]_vars PROVE SocketHasItsTask'
    OBVIOUS
  <2>1. CASE \E c \in Clients, fd \in Fds : Server_start(c, fd)
    <3>1. PICK c \in Clients, fd \in Fds : Server_start(c, fd)
      BY <2>1
    <3>2. /\ \A f \in Fds \ {fd} : sock'[f] = sock[f] /\ sock[f] # c
          /\ sock'[fd] = c
      BY <3>1, DeliveryAssumption DEF SocketHasItsTask, Server_start, TypeOK, Running
    <3>3. /\ conn'[c].at = "accepted" /\ conn'[c].fd = fd
          /\ \A d \in Clients \ {c} : conn'[d] = conn[d]
      BY <3>1 DEF Server_start, TypeOK
    <3> QED BY <3>2, <3>3 DEF SocketHasItsTask, TypeOK, Running
  <2>2. CASE \E c \in Clients, t \in ConnTypes : connection_register_request(c, t)
    BY <2>2 DEF SocketHasItsTask, connection_register_request, TypeOK, Running
  <2>3. CASE \E c \in Clients : connection_close(c)
    <3>1. PICK c \in Clients : connection_close(c)
      BY <2>3
    <3>2. conn[c].fd \in Fds
      BY <3>1 DEF TypeOK, connection_close
    <3> QED
      BY <3>1, <3>2, DisconnectEffect DEF SocketHasItsTask, connection_close, TypeOK, Running
  <2>4. CASE /\ HandlerOK' /\ UNCHANGED <<conn, named>>
             /\ \E fd \in Fds : Register_disconnect(fd)
    BY <2>4, DisconnectEffect DEF SocketHasItsTask, Running
  <2>5. CASE HandlerOK' /\ UNCHANGED <<registry, sock, conn, named>>
    BY <2>5 DEF SocketHasItsTask, Running
  <2>6. CASE \E id \in Ids : Control_kill(id) /\ REG_ID_TO_FD[id] \in Fds
    BY <2>6 DEF Control_kill, Reg!Register_fd_for_id, SocketHasItsTask, Running, TypeOK
  <2> QED BY <2>1, <2>2, <2>3, <2>4, <2>5, <2>6, StepCases, Zenon
<1> QED BY <1>1, <1>2, DeliveryTypeOK, PTL DEF Spec

(***************************************************************************)
(* Every registration, also one whose descriptor was killed, belongs to a  *)
(* connection task that is still there to clear it.                        *)
(***************************************************************************)
THEOREM NoRegistrationWithoutTask == Spec => []RegistrationHasTask
<1>1. Init => RegistrationHasTask
  BY DEF Init, Reg!Register_init, RegistrationHasTask, Reg!Live, Reg!Register_fd_exists
<1>2. TypeOK /\ RegistrationHasTask /\ [Next]_vars => RegistrationHasTask'
  <2> SUFFICES ASSUME TypeOK, RegistrationHasTask, [Next]_vars PROVE RegistrationHasTask'
    OBVIOUS
  <2> USE DEF Reg!Live, Reg!Register_fd_exists
  <2>1. CASE \E c \in Clients, fd \in Fds : Server_start(c, fd)
    BY <2>1 DEF RegistrationHasTask, Server_start, TypeOK, registry, arrays
  <2>2. CASE \E c \in Clients, t \in ConnTypes : connection_register_request(c, t)
    <3>1. PICK c \in Clients, t \in ConnTypes : connection_register_request(c, t)
      BY <2>2
    <3>2. conn[c].fd \in Fds
      BY <3>1 DEF TypeOK, connection_register_request, Running
    <3>3. \A f \in Fds \ {conn[c].fd} : REGISTRATIONS'[f] = REGISTRATIONS[f]
      BY <3>1, <3>2, ConnectEffect DEF connection_register_request
    <3> QED
      BY <3>1, <3>2, <3>3 DEF RegistrationHasTask, connection_register_request, TypeOK
  <2>3. CASE \E c \in Clients : connection_close(c)
    <3>1. PICK c \in Clients : connection_close(c)
      BY <2>3
    <3>2. conn[c].fd \in Fds
      BY <3>1 DEF TypeOK, connection_close
    <3>3. /\ REGISTRATIONS'[conn[c].fd].conn_type = 0
          /\ \A f \in Fds \ {conn[c].fd} : REGISTRATIONS'[f] = REGISTRATIONS[f]
      BY <3>1, <3>2, DisconnectEffect DEF connection_close
    <3> QED
      BY <3>1, <3>2, <3>3 DEF RegistrationHasTask, connection_close, TypeOK
  <2>4. CASE /\ HandlerOK' /\ UNCHANGED <<conn, named>>
             /\ \E fd \in Fds : Register_disconnect(fd)
    BY <2>4, DisconnectEffect DEF RegistrationHasTask
  <2>5. CASE HandlerOK' /\ UNCHANGED <<registry, sock, conn, named>>
    BY <2>5 DEF RegistrationHasTask, registry, arrays
  <2>6. CASE \E id \in Ids : Control_kill(id) /\ REG_ID_TO_FD[id] \in Fds
    BY <2>6 DEF Control_kill, Reg!Register_fd_for_id, RegistrationHasTask, registry, arrays
  <2> QED BY <2>1, <2>2, <2>3, <2>4, <2>5, <2>6, StepCases, Zenon
<1> QED BY <1>1, <1>2, DeliveryTypeOK, PTL DEF Spec

-----------------------------------------------------------------------------
(***************************************************************************)
(*            The composition implements the registry's own model          *)
(*                                                                         *)
(* The history of the registrations is kept beside the arrays, as Register *)
(* keeps it; the tasks that have yet to register are counted from conn.    *)
(***************************************************************************)
(* Those that have yet to register descriptor fd. *)
Unregistered(fd) == {c \in Clients : conn[c].at = "accepted" /\ conn[c].fd = fd}

(* Sets of clients can be counted. *)
LEMMA ClientsCounted ==
    ASSUME NEW T \in SUBSET Clients
    PROVE  /\ IsFiniteSet(T) /\ Cardinality(T) \in Nat
           /\ Cardinality(T) <= Cardinality(Clients) /\ Cardinality(Clients) \in Nat
           /\ T # Clients => Cardinality(T) < Cardinality(Clients)
<1>1. IsFiniteSet(Clients)
  BY ClientsAreFinite
<1>2. /\ IsFiniteSet(T) /\ Cardinality(T) <= Cardinality(Clients)
      /\ Cardinality(Clients) = Cardinality(T) => Clients = T
  BY <1>1, FS_Subset
<1>3. Cardinality(T) \in Nat /\ Cardinality(Clients) \in Nat
  BY <1>1, <1>2, FS_CardinalityType
<1> QED BY <1>1, <1>2, <1>3

(* One more client. *)
LEMMA OneMore ==
    ASSUME NEW T \in SUBSET Clients, NEW c, c \notin T
    PROVE  Cardinality(T \cup {c}) = Cardinality(T) + 1
  BY ClientsCounted, FS_AddElement

(* The registry's model sees a task that registers or ends leave the unregistered ones. *)
LEMMA OneFresher ==
    ASSUME TypeOK, NEW c \in Clients, NEW fd \in Fds, conn[c].at = "accepted", conn[c].fd = fd,
           NEW task, task.at # "accepted", conn' = [conn EXCEPT ![c] = task]
    PROVE  Fresh[fd] > 0 /\ Fresh' = [Fresh EXCEPT ![fd] = @ - 1]
<1>1. ASSUME NEW f \in Fds
      PROVE  Unregistered(f)' = IF f = fd THEN Unregistered(f) \ {c} ELSE Unregistered(f)
  BY DEF Unregistered, TypeOK
<1>2. c \in Unregistered(fd) /\ IsFiniteSet(Unregistered(fd)) /\ Cardinality(Unregistered(fd)) \in Nat
  BY ClientsCounted DEF Unregistered
<1>3. /\ Cardinality(Unregistered(fd) \ {c}) = Cardinality(Unregistered(fd)) - 1
      /\ Cardinality(Unregistered(fd)) # 0
  BY <1>2, FS_RemoveElement, FS_EmptySet
<1>4. Fresh = [f \in Fds |-> Cardinality(Unregistered(f))]
  BY DEF Fresh, Unregistered
<1>5. Fresh' = [f \in Fds |-> Cardinality(Unregistered(f)')]
  BY DEF Fresh, Unregistered
<1>6. Unregistered(fd)' = Unregistered(fd) \ {c}
  BY <1>1
<1>7. \A f \in Fds \ {fd} : Unregistered(f)' = Unregistered(f)
  BY <1>1
<1>8. Fresh[fd] > 0 /\ Fresh[fd] = Cardinality(Unregistered(fd))
  BY <1>2, <1>3, <1>4
<1>9. \A f \in Fds : Fresh'[f] = IF f = fd THEN Fresh[fd] - 1 ELSE Fresh[f]
  BY <1>3, <1>4, <1>5, <1>6, <1>7
<1> QED BY <1>4, <1>5, <1>8, <1>9

(* As long as no task begins or ends, they are the same. *)
LEMMA SameFresh ==
    ASSUME \A c \in Clients : conn'[c].at = "accepted" \/ conn[c].at = "accepted" => conn'[c] = conn[c]
    PROVE  Fresh' = Fresh
<1>1. \A fd \in Fds : {c \in Clients : conn'[c].at = "accepted" /\ conn'[c].fd = fd}
                       = {c \in Clients : conn[c].at = "accepted" /\ conn[c].fd = fd}
  OBVIOUS
<1> QED BY <1>1 DEF Fresh

(* A client is accepted. *)
LEMMA AcceptImplements ==
    ASSUME TypeOK, NEW c \in Clients, NEW fd \in Fds, Server_start(c, fd)
    PROVE  Reg!Accept(fd)
<1>1. /\ conn[c].at = "none" /\ sock[fd] = None /\ sock' = [sock EXCEPT ![fd] = c]
      /\ conn' = [conn EXCEPT ![c] = [at |-> "accepted", fd |-> fd]]
      /\ UNCHANGED registry
  BY DEF Server_start
<1>2. {f \in Fds : sock'[f] # None} = {f \in Fds : sock[f] # None} \cup {fd}
  BY <1>1, DeliveryAssumption DEF TypeOK
<1>3. ASSUME NEW f \in Fds
      PROVE  Unregistered(f)' = IF f = fd THEN Unregistered(f) \cup {c} ELSE Unregistered(f)
  BY <1>1 DEF Unregistered, TypeOK
<1>4. /\ c \notin Unregistered(fd) /\ Cardinality(Unregistered(fd)) \in Nat
      /\ Cardinality(Unregistered(fd)) < Cardinality(Clients)
  BY <1>1, ClientsCounted DEF Unregistered
<1>5. Cardinality(Unregistered(fd) \cup {c}) = Cardinality(Unregistered(fd)) + 1
  BY <1>4, OneMore DEF Unregistered
<1>6. /\ Fresh = [f \in Fds |-> Cardinality(Unregistered(f))]
      /\ Fresh' = [f \in Fds |-> Cardinality(Unregistered(f)')]
  BY DEF Fresh, Unregistered
<1>7. Unregistered(fd)' = Unregistered(fd) \cup {c}
  BY <1>3
<1>8. \A f \in Fds \ {fd} : Unregistered(f)' = Unregistered(f)
  BY <1>3
<1>9. \A f \in Fds : Fresh'[f] = IF f = fd THEN Fresh[fd] + 1 ELSE Fresh[f]
  BY <1>5, <1>6, <1>7, <1>8
<1>10. Fresh[fd] < Cardinality(Clients) /\ Fresh' = [Fresh EXCEPT ![fd] = @ + 1]
  BY <1>4, <1>6, <1>9
<1> QED BY <1>1, <1>2, <1>10 DEF Reg!Accept, Reg!regvars, Reg!history, registry, arrays

(* A first request is registered. *)
LEMMA RegisterImplements ==
    ASSUME TypeOK, NEW c \in Clients, NEW t \in ConnTypes,
           connection_register_request(c, t), NEW fd \in Fds, fd = conn[c].fd
    PROVE  Reg!Register_connect(fd, t)
<1>1. /\ Reg!RegConnect(fd, t) /\ Reg!RecordConnect(fd)
      /\ sock' = sock /\ conn[c].at = "accepted"
      /\ conn' = [conn EXCEPT ![c].at = "registered"]
  BY DEF connection_register_request
<1>2. conn' = [conn EXCEPT ![c] = [conn[c] EXCEPT !.at = "registered"]]
  BY <1>1 DEF TypeOK
<1>3. Fresh[fd] > 0 /\ Fresh' = [Fresh EXCEPT ![fd] = @ - 1]
  <2>1. [conn[c] EXCEPT !.at = "registered"].at # "accepted"
    BY DEF TypeOK
  <2> QED BY <1>1, <1>2, <2>1, OneFresher
<1> QED BY <1>1, <1>3 DEF Reg!Register_connect

(* A descriptor is closed, and cleared if it is registered. *)
LEMMA DisconnectImplements ==
    ASSUME TypeOK, NEW fd \in Fds, Register_disconnect(fd),
           Fresh' = Fresh \/ (Fresh[fd] > 0 /\ Fresh' = [Fresh EXCEPT ![fd] = @ - 1])
    PROVE  Reg!Register_disconnect(fd)
<1>2. age' = [age EXCEPT ![fd] = 0] /\ overtaken' = overtaken
  BY DEF Register_disconnect
<1>3. {f \in Fds : sock'[f] # None} = {f \in Fds : sock[f] # None} \ {fd}
  BY DEF TypeOK, Register_disconnect
<1>4. IF Reg!Live(fd) THEN Reg!RegClear(fd) ELSE UNCHANGED Reg!regvars
  BY DEF Register_disconnect, arrays, Reg!regvars
<1> QED BY <1>2, <1>3, <1>4 DEF Reg!Register_disconnect

(* The control port closes what an id leads to. *)
LEMMA KillImplements ==
    ASSUME TypeOK, NEW id \in Ids, Control_kill(id)
    PROVE  Reg!Control_kill(id)
<1>1. /\ UNCHANGED <<registry, conn>> /\ Reg!Register_fd_for_id(id) > 0
      /\ sock' = [sock EXCEPT ![Reg!Register_fd_for_id(id)] = None]
  BY DEF Control_kill
<1>2. {f \in Fds : sock'[f] # None} = {f \in Fds : sock[f] # None} \ {Reg!Register_fd_for_id(id)}
  BY <1>1 DEF TypeOK
<1>3. Fresh' = Fresh
  BY <1>1, SameFresh
<1> QED BY <1>1, <1>2, <1>3 DEF Reg!Control_kill, Reg!regvars, Reg!history, registry, arrays

(* Every step of the composition is one of the registry's model, or none. *)
LEMMA StepImplements ==
    ASSUME TypeOK, [Next]_vars
    PROVE  [Reg!Next]_(Reg!vars)
<1>1. ASSUME UNCHANGED <<registry, sock, conn>> PROVE UNCHANGED Reg!vars
  <2>1. Fresh' = Fresh
    BY <1>1, SameFresh
  <2> QED BY <1>1, <2>1 DEF Reg!vars, registry, arrays
<1>2. ASSUME NEW c \in Clients, NEW fd \in Fds, Server_start(c, fd) PROVE Reg!Next
  BY <1>2, AcceptImplements DEF Reg!Next
<1>3. ASSUME NEW c \in Clients, NEW t \in ConnTypes, connection_register_request(c, t) PROVE Reg!Next
  <2>1. conn[c].fd \in Fds
    BY <1>3 DEF connection_register_request, TypeOK, Running
  <2> QED BY <1>3, <2>1, RegisterImplements DEF Reg!Next
<1>4. ASSUME NEW c \in Clients, connection_close(c) PROVE Reg!Next
  <2>1. /\ Register_disconnect(conn[c].fd) /\ conn[c].at \in {"accepted", "registered"}
        /\ conn' = [conn EXCEPT ![c] = [at |-> "ended", fd |-> 0]]
    BY <1>4 DEF connection_close, Running
  <2>2. conn[c].fd \in Fds
    BY <1>4 DEF connection_close, TypeOK
  <2>3. CASE conn[c].at = "accepted"
    <3>1. Fresh[conn[c].fd] > 0 /\ Fresh' = [Fresh EXCEPT ![conn[c].fd] = @ - 1]
      BY <2>1, <2>2, <2>3, OneFresher
    <3> QED BY <2>1, <2>2, <3>1, DisconnectImplements DEF Reg!Next
  <2>4. CASE conn[c].at = "registered"
    <3>1. Fresh' = Fresh
      <4>1. \A d \in Clients : conn'[d].at = "accepted" \/ conn[d].at = "accepted" => conn'[d] = conn[d]
        BY <2>1, <2>4 DEF TypeOK
      <4> QED BY <4>1, SameFresh
    <3> QED BY <2>1, <2>2, <3>1, DisconnectImplements DEF Reg!Next
  <2> QED BY <2>1, <2>3, <2>4
<1>5. ASSUME NEW h \in Handlers,
             \/ \E targets \in Targets, empty \in BOOLEAN : handler_recv_parse(h, targets, empty)
             \/ Handler_notify_leave(h) \/ handler_disconnect(h)
             \/ deliver_payload(h) \/ fdsend(h)
      PROVE  [Reg!Next]_(Reg!vars)
  <2>1. /\ UNCHANGED conn
        /\ (\E fd \in Fds : Register_disconnect(fd)) \/ UNCHANGED <<registry, sock>>
    BY <1>5, HandlerStep
  <2>2. Fresh' = Fresh
    BY <2>1, SameFresh
  <2>3. CASE \E fd \in Fds : Register_disconnect(fd)
    BY <2>2, <2>3, DisconnectImplements DEF Reg!Next
  <2>4. CASE UNCHANGED <<registry, sock>>
    BY <1>1, <2>1, <2>4
  <2> QED BY <2>1, <2>3, <2>4
<1>6. ASSUME NEW id \in Ids, Control_kill(id) PROVE Reg!Next
  BY <1>6, KillImplements DEF Reg!Next, Reg!Ids, Ids
<1>7. CASE UNCHANGED vars
  BY <1>1, <1>7 DEF vars, registry, arrays
<1> QED BY <1>2, <1>3, <1>4, <1>5, <1>6, <1>7, Zenon DEF Next

(***************************************************************************)
(* Connection tasks, handlers and the control port together use the        *)
(* registry as module Register says, for any number of descriptors,        *)
(* clients, handlers and ids, and over any laps of the counter: so what is *)
(* proved of Register's ids holds in the composition.                      *)
(***************************************************************************)
THEOREM DeliveryImplementsRegister == Spec => ImplementsRegister
<1>1. Init => Reg!Init
  <2> SUFFICES ASSUME Init PROVE Reg!Init
    OBVIOUS
  <2>1. \A fd \in Fds : Cardinality({c \in Clients : conn[c].at = "accepted" /\ conn[c].fd = fd}) = 0
    <3>1. \A fd \in Fds : {c \in Clients : conn[c].at = "accepted" /\ conn[c].fd = fd} = {}
      BY DEF Init
    <3> QED BY <3>1, FS_EmptySet
  <2>2. Fresh = [fd \in Fds |-> 0]
    BY <2>1 DEF Fresh
  <2>4. {fd \in Fds : sock[fd] # None} = {}
    BY DEF Init
  <2> QED BY <2>2, <2>4 DEF Init, Reg!Init
<1> QED BY <1>1, StepImplements, DeliveryTypeOK, PTL
    DEF Spec, ImplementsRegister, Reg!Spec
=============================================================================
