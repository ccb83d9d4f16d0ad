------------------------------ MODULE Register ------------------------------
(***************************************************************************)
(* The connection registry of src/register.c and the two control-port      *)
(* commands that read it (src/control.rl: "status net" and "kill ID").     *)
(*                                                                         *)
(* The registry is two arrays: REGISTRATIONS, indexed by file descriptor,  *)
(* and REG_ID_TO_FD, indexed by the 16-bit id that handlers use to name a  *)
(* connection.  Ids come from REG_COUNT, a counter that wraps, so an old   *)
(* registration can still hold an id when the counter reaches it again.    *)
(*                                                                         *)
(* The descriptors themselves belong to the operating system: a number     *)
(* that has been closed may be handed out again by accept().               *)
(***************************************************************************)
EXTENDS Integers

CONSTANTS
    Fds,                 \* descriptor numbers accept() may return
    MAX_REGISTERED_FDS,  \* size of both arrays, and the modulus of REG_COUNT
    ConnTypes,           \* the connection types in use
    MaxFresh,            \* bound: unregistered connection tasks on one descriptor
    MaxTime              \* bound on the clock

CONN_TYPE_HTTP   == 1
CONN_TYPE_MSG    == 2
CONN_TYPE_SOCKET == 3

(***************************************************************************)
(* MAX_REGISTERED_FDS is 64 * 1024 in the code, which is also the range of *)
(* a uint16_t.  Register_connect asserts that every fd is below it.        *)
(***************************************************************************)
ASSUME RegisterAssumption ==
    /\ MAX_REGISTERED_FDS \in Nat \ {0}
    /\ Fds \subseteq 0 .. (MAX_REGISTERED_FDS - 1)
    /\ ConnTypes \subseteq {CONN_TYPE_HTTP, CONN_TYPE_MSG, CONN_TYPE_SOCKET}
    /\ MaxFresh \in Nat
    /\ MaxTime \in Nat \ {0}

Ids == 0 .. (MAX_REGISTERED_FDS - 1)

VARIABLES
    REGISTRATIONS,  \* [Fds -> conn_type, id, last_ping]
    REG_COUNT,      \* the next id
    REG_ID_TO_FD,   \* [Ids -> fd], 0 for "no connection"
    open,           \* descriptors that are open in the process
    fresh,          \* [Fds -> connection tasks that have yet to register it]
    now,            \* time(NULL)
    age,            \* history: registrations made since f's own, it included
    overtaken       \* history: REG_COUNT has lapped a live registration

regvars == <<REGISTRATIONS, REG_COUNT, REG_ID_TO_FD>>
history == <<age, overtaken>>
vars    == <<REGISTRATIONS, REG_COUNT, REG_ID_TO_FD, open, fresh, now, age,
             overtaken>>

Registration ==
    [conn_type : {0} \cup ConnTypes, id : Ids, last_ping : 0 .. MaxTime]

-----------------------------------------------------------------------------
(* Lookups. *)

Register_fd_exists(fd) == REGISTRATIONS[fd].conn_type

Register_fd_for_id(id) == REG_ID_TO_FD[id]

Register_id_for_fd(fd) == REGISTRATIONS[fd].id

Live(fd) == Register_fd_exists(fd) # 0

-----------------------------------------------------------------------------
Register_init ==
    /\ REGISTRATIONS = [fd \in Fds |-> [conn_type |-> 0, id |-> 0, last_ping |-> 0]]
    /\ REG_ID_TO_FD = [id \in Ids |-> 0]
    /\ REG_COUNT = 0

Init ==
    /\ Register_init
    /\ open = {}
    /\ fresh = [fd \in Fds |-> 0]
    /\ now = 1
    /\ age = [fd \in Fds |-> 0]
    /\ overtaken = FALSE

(***************************************************************************)
(* Register_clear forgets the type and the ping and drops the id's entry   *)
(* in the map; reg->id itself keeps its value.  It is part of the two      *)
(* operations below, so it is given here as the values it leaves behind.   *)
(***************************************************************************)
Register_clear(reg) == [conn_type |-> 0, id |-> reg.id, last_ping |-> 0]

ClearedMap_Forgotten(fd) == REG_ID_TO_FD  \* mutant: the entry is left behind

ClearedMap(fd) == [REG_ID_TO_FD EXCEPT ![REGISTRATIONS[fd].id] = 0]

(* A stale registration of the same descriptor is cleared first. *)
MapBeforeConnect(fd) == IF Live(fd) THEN ClearedMap(fd) ELSE REG_ID_TO_FD

NextId_NoWrap == REG_COUNT + 1  \* mutant: a counter wider than 16 bits

\* mutant: the counter stops at its limit instead of wrapping
NextId_Saturates ==
    IF REG_COUNT = MAX_REGISTERED_FDS - 1 THEN REG_COUNT ELSE REG_COUNT + 1

NextId == (REG_COUNT + 1) % MAX_REGISTERED_FDS

RegConnect(fd, conn_type) ==
    /\ REGISTRATIONS' = [REGISTRATIONS EXCEPT ![fd] =
           [conn_type |-> conn_type, id |-> REG_COUNT, last_ping |-> now]]
    /\ REG_COUNT' = NextId
    /\ REG_ID_TO_FD' = [MapBeforeConnect(fd) EXCEPT ![REG_COUNT] = fd]

RegClear(fd) ==
    /\ REGISTRATIONS' = [REGISTRATIONS EXCEPT ![fd] = Register_clear(@)]
    /\ REG_ID_TO_FD' = ClearedMap(fd)
    /\ UNCHANGED REG_COUNT

(* The history of a Register_connect: ages saturate at MAX_REGISTERED_FDS + 1. *)
Grow(a) == IF a > MAX_REGISTERED_FDS THEN a ELSE a + 1

RecordConnect(fd) ==
    /\ age' = [f \in Fds |-> IF f = fd THEN 1
                             ELSE IF Live(f) THEN Grow(age[f]) ELSE 0]
    /\ overtaken' = (overtaken \/ \E f \in Fds \ {fd} :
                                     Live(f) /\ age[f] >= MAX_REGISTERED_FDS)

-----------------------------------------------------------------------------
(***************************************************************************)
(* netaccept: the system returns a descriptor that is not in use, and the  *)
(* accept loop starts a connection task for it.                            *)
(***************************************************************************)
Accept(fd) ==
    /\ fd \notin open
    /\ fresh[fd] < MaxFresh
    /\ open' = open \cup {fd}
    /\ fresh' = [fresh EXCEPT ![fd] = @ + 1]
    /\ UNCHANGED <<regvars, now, history>>

(***************************************************************************)
(* Called once by each connection task, with its first request.  Its       *)
(* descriptor may already be closed (the control port closed it, or a      *)
(* handler), and even accepted again, so the call does not depend on open. *)
(***************************************************************************)
Register_connect(fd, conn_type) ==
    /\ fresh[fd] > 0
    /\ fresh' = [fresh EXCEPT ![fd] = @ - 1]
    /\ RegConnect(fd, conn_type)
    /\ RecordConnect(fd)
    /\ UNCHANGED <<open, now>>

(***************************************************************************)
(* Called by a connection task when it ends, registered or not, and by a   *)
(* handler.  Both outcomes close the descriptor; only a registered one is  *)
(* cleared.                                                                *)
(***************************************************************************)
Register_disconnect(fd) ==
    /\ IF Live(fd) THEN RegClear(fd) ELSE UNCHANGED regvars
    /\ open' = open \ {fd}
    /\ age' = [age EXCEPT ![fd] = 0]
    /\ \/ UNCHANGED fresh
       \/ fresh[fd] > 0 /\ fresh' = [fresh EXCEPT ![fd] = @ - 1]
    /\ UNCHANGED <<now, overtaken>>

Register_ping(fd) ==
    /\ Live(fd)
    /\ REGISTRATIONS' = [REGISTRATIONS EXCEPT ![fd].last_ping = now]
    /\ UNCHANGED <<REG_COUNT, REG_ID_TO_FD, open, fresh, now, history>>

(* "kill ID": closes the descriptor and leaves the registration in place. *)
Control_kill(id) ==
    /\ Register_fd_for_id(id) > 0
    /\ open' = open \ {Register_fd_for_id(id)}
    /\ UNCHANGED <<regvars, fresh, now, history>>

Tick ==
    /\ now < MaxTime
    /\ now' = now + 1
    /\ UNCHANGED <<regvars, open, fresh, history>>

Next ==
    \/ \E fd \in Fds :
          \/ Accept(fd)
          \/ \E t \in ConnTypes : Register_connect(fd, t)
          \/ Register_disconnect(fd)
          \/ Register_ping(fd)
    \/ \E id \in Ids : Control_kill(id)
    \/ Tick

Spec == Init /\ [][Next]_vars

-----------------------------------------------------------------------------
(* Types of the arrays, the counter and the history variables. *)
TypeOK ==
    /\ REGISTRATIONS \in [Fds -> Registration]
    /\ REG_COUNT \in Ids
    /\ REG_ID_TO_FD \in [Ids -> Fds \cup {0}]
    /\ open \subseteq Fds
    /\ fresh \in [Fds -> 0 .. MaxFresh]
    /\ now \in 1 .. MaxTime
    /\ age \in [Fds -> 0 .. (MAX_REGISTERED_FDS + 1)]
    /\ overtaken \in BOOLEAN

(***************************************************************************)
(* An id never resolves to somebody else: whatever Register_fd_for_id      *)
(* returns (other than 0, its "nobody") is registered, under that very id. *)
(* It holds even when ids collide, because a disconnect clears the entry   *)
(* of its id whoever the entry points to.                                  *)
(***************************************************************************)
IdMapSound ==
    \A id \in Ids : Register_fd_for_id(id) # 0 =>
        /\ Live(Register_fd_for_id(id))
        /\ Register_id_for_fd(Register_fd_for_id(id)) = id

(***************************************************************************)
(* As long as no registration has been outlived by MAX_REGISTERED_FDS      *)
(* later ones, every registered connection is reachable by its id, and so  *)
(* no two of them share one.  Only the collision itself can break it: a    *)
(* reconnect on the same descriptor, a kill that leaves the registration   *)
(* behind and a repeated disconnect do not.                                *)
(***************************************************************************)
LiveIsReachable ==
    ~overtaken => \A fd \in Fds :
        Live(fd) => Register_fd_for_id(Register_id_for_fd(fd)) = fd

(***************************************************************************)
(* An id never passes straight from one connection to another: between the *)
(* two it resolves to nobody, unless the counter lapped the first owner.   *)
(***************************************************************************)
NoIdTakenOver ==
    [][ \A id \in Ids :
          (REG_ID_TO_FD[id] # 0 /\ REG_ID_TO_FD'[id] # 0 /\ ~overtaken')
             => REG_ID_TO_FD'[id] = REG_ID_TO_FD[id] ]_vars
=============================================================================
