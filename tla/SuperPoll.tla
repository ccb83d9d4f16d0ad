----------------------------- MODULE SuperPoll -----------------------------
(***************************************************************************)
(* src/superpoll.c: two wait lists behind one interface.  The hot list is  *)
(* handed to zmq_poll; it has max_hot entries, one of which is the epoll   *)
(* descriptor through which the idle list is watched.  The idle list has   *)
(* max_idle slots; each armed slot is the user data of an epoll entry.     *)
(***************************************************************************)
EXTENDS Integers, FiniteSets

CONSTANTS
    Fds,       \* descriptors
    Socks,     \* 0MQ sockets
    Slots,     \* the max_idle elements of idle_data
    Owners,    \* what a caller passes as data: its task
    NULL,      \* no data, no epoll entry
    idle_fd,   \* the epoll descriptor
    max_hot    \* size of the hot list

ASSUME SuperPollAssumption ==
    /\ max_hot \in Nat \ {0}
    /\ IsFiniteSet(Owners) /\ IsFiniteSet(Fds) /\ IsFiniteSet(Socks)
    /\ IsFiniteSet(Slots)
    /\ NULL \notin Owners
    /\ NULL \notin Slots \X {"r", "w"}
    /\ idle_fd \notin Fds \cup Socks
    /\ Fds \cap Socks = {}

VARIABLES
    hot,          \* pollfd and hot_data, the first nfd_hot entries
    nfd_hot,      \* how many there are
    idle_free,    \* slots on the free list
    idle_active,  \* slots on the active list
    idle_data,    \* [Slots -> fd and data]
    epoll,        \* kernel: [Fds -> <<slot, "r" or "w">>, or NULL]
    open          \* kernel: descriptors that are open

pollvars == <<hot, nfd_hot, idle_free, idle_active, idle_data, epoll, open>>

rw == {"r", "w"}

HotEntry == [data : Owners \cup {NULL}, fd : Fds \cup Socks \cup {idle_fd}, bits : rw]

idle_entry == [data |-> NULL, fd |-> idle_fd, bits |-> "r"]

(* SuperPoll_create, setup_idle and the first arm_idle_fd. *)
SuperPoll_create ==
    /\ hot = {idle_entry}
    /\ nfd_hot = 1
    /\ idle_free = Slots
    /\ idle_active = {}
    /\ idle_data = [s \in Slots |-> [fd |-> NULL, data |-> NULL]]
    /\ epoll = [fd \in Fds |-> NULL]

-----------------------------------------------------------------------------
(* Whether the add is refused for want of room. *)
add_poll_full == nfd_hot >= max_hot

SuperPoll_add_poll(data, fd, b) ==
    /\ ~add_poll_full
    /\ hot' = hot \cup {[data |-> data, fd |-> fd, bits |-> b]}
    /\ nfd_hot' = nfd_hot + 1
    /\ UNCHANGED <<idle_free, idle_active, idle_data, epoll, open>>

add_idle_full == idle_free = {}

(* mutant: the entry asks for EPOLLIN whatever the caller waits for *)
SuperPoll_add_idle_ReadOnly(data, fd, b) ==
    \E s \in idle_free :
        /\ idle_free' = idle_free \ {s}
        /\ idle_active' = idle_active \cup {s}
        /\ idle_data' = [idle_data EXCEPT ![s] = [fd |-> fd, data |-> data]]
        /\ epoll' = IF fd \in open THEN [epoll EXCEPT ![fd] = <<s, "r">>] ELSE epoll
        /\ UNCHANGED <<hot, nfd_hot, open>>

(***************************************************************************)
(* A slot is taken off the free list and tied to the descriptor.  If the   *)
(* descriptor is in epoll already the entry is modified: it now names the  *)
(* new slot.  A descriptor that is not open is refused by epoll_ctl, after *)
(* the slot has been moved to the active list.                             *)
(***************************************************************************)
SuperPoll_add_idle(data, fd, b) ==
    \E s \in idle_free :
        /\ idle_free' = idle_free \ {s}
        /\ idle_active' = idle_active \cup {s}
        /\ idle_data' = [idle_data EXCEPT ![s] = [fd |-> fd, data |-> data]]
        /\ epoll' = IF fd \in open THEN [epoll EXCEPT ![fd] = <<s, b>>] ELSE epoll
        /\ UNCHANGED <<hot, nfd_hot, open>>

(* The data that epoll would report for fd: its waiter, if it has one. *)
Waiter(fd) == IF epoll[fd] = NULL THEN NULL ELSE idle_data[epoll[fd][1]].data

(* SuperPoll_compact_down, as tasknuke uses it. *)
SuperPoll_compact_down(e) ==
    /\ hot' = hot \ {e}
    /\ nfd_hot' = nfd_hot - 1
    /\ UNCHANGED <<idle_free, idle_active, idle_data, epoll, open>>

-----------------------------------------------------------------------------
(***************************************************************************)
(* SuperPoll_poll on the events ready: <<descriptor, e>> where e is "r",   *)
(* "w", or "x" for a hang up or an error that sets neither.  zmq_poll      *)
(* reports an exceptional condition, and a closed descriptor, to whoever   *)
(* waits on the hot list.  epoll_wait returns an exceptional condition     *)
(* too, but the loop reports a hit only if ev.revents is set; ev outlives  *)
(* the iteration, so that after a hit the stale bits report the next one.  *)
(* epoll_wait returns its events in any order: of the exceptional ones,    *)
(* any may be passed over, and all are when no other event comes first.    *)
(***************************************************************************)
HotReady(ready) ==
    {e \in hot : /\ e # idle_entry
                 /\ \/ <<e.fd, e.bits>> \in ready
                    \/ <<e.fd, "x">> \in ready
                    \/ e.fd \in Fds \ open}

EpollIO(ready) == {fd \in Fds : epoll[fd] # NULL /\ <<fd, epoll[fd][2]>> \in ready}

EpollExceptional(ready) ==
    {fd \in Fds : epoll[fd] # NULL /\ <<fd, "x">> \in ready} \ EpollIO(ready)

EpollReady(ready) == EpollIO(ready) \cup EpollExceptional(ready)

(* The epoll events are fetched when the epoll descriptor is itself a hit. *)
IdleReady(ready) == IF idle_entry \in hot THEN EpollReady(ready) ELSE {}

PassedOver(ready) ==
    IF idle_entry \notin hot THEN {{}}
    ELSE IF EpollIO(ready) = {} THEN {EpollExceptional(ready)}
    ELSE SUBSET EpollExceptional(ready)

(* The tasks in the result, when the loop passes over the descriptors in dropped. *)
HitData(ready, dropped) ==
    {e.data : e \in HotReady(ready)} \cup {Waiter(fd) : fd \in IdleReady(ready) \ dropped}

(* mutant: the epoll descriptor is not put back into the hot list *)
SuperPoll_arm_idle_fd_Forgotten(hits, hit_idle) ==
    LET left == IF hit_idle THEN hot \ (hits \cup {idle_entry}) ELSE hot \ hits IN
    /\ hot' = left
    /\ nfd_hot' = Cardinality(left)

(***************************************************************************)
(* The hits are compacted out of the hot list, the epoll descriptor too if *)
(* it was one of them, and in that case it is armed again at the end.      *)
(***************************************************************************)
SuperPoll_arm_idle_fd(hits, hit_idle) ==
    LET compacted == IF hit_idle THEN hot \ (hits \cup {idle_entry}) ELSE hot \ hits
    IN  /\ hot' = IF hit_idle THEN compacted \cup {idle_entry} ELSE compacted
        /\ nfd_hot' = nfd_hot - Cardinality(hits)

(* mutant: the descriptor stays in epoll *)
SuperPoll_add_idle_hits_NoDel(fds) ==
    LET fired == {epoll[fd][1] : fd \in fds} IN
    /\ idle_active' = idle_active \ fired
    /\ idle_free' = idle_free \cup fired
    /\ UNCHANGED epoll

(* Every descriptor that fired leaves epoll and frees its slot. *)
SuperPoll_add_idle_hits(fds) ==
    LET fired == {epoll[fd][1] : fd \in fds} IN
    /\ epoll' = [fd \in Fds |-> IF fd \in fds THEN NULL ELSE epoll[fd]]
    /\ idle_active' = idle_active \ fired
    /\ idle_free' = idle_free \cup fired

SuperPoll_poll(ready) ==
    /\ SuperPoll_arm_idle_fd(HotReady(ready), IdleReady(ready) # {})
    /\ SuperPoll_add_idle_hits(IdleReady(ready))
    /\ UNCHANGED <<idle_data, open>>

-----------------------------------------------------------------------------
(* The kernel: closing a descriptor silently removes it from epoll. *)
KernelClose(fd) ==
    /\ open' = open \ {fd}
    /\ epoll' = [epoll EXCEPT ![fd] = NULL]
    /\ UNCHANGED <<hot, nfd_hot, idle_free, idle_active, idle_data>>

KernelOpen(fd) ==
    /\ fd \notin open
    /\ open' = open \cup {fd}
    /\ UNCHANGED <<hot, nfd_hot, idle_free, idle_active, idle_data, epoll>>
=============================================================================
