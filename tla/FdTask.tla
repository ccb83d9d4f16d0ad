------------------------------- MODULE FdTask -------------------------------
(***************************************************************************)
(* src/task/fd.c on top of the scheduler (Task) and the wait lists         *)
(* (SuperPoll).  The tasks are arbitrary programs over the operations of   *)
(* task.h: connections, handlers, the acceptor and the control port are    *)
(* all instances.  fdtask itself is the action Poll: it yields until it is *)
(* the only task that can run, polls, and readies what the poll reports.   *)
(***************************************************************************)
EXTENDS Task, SuperPoll, Functions, TLC

CONSTANTS
    FirstTask,  \* taskmain
    MaxBurst,   \* bound: steps of the tasks between two polls
    MaxReady    \* bound: descriptors and conditions that are ready at a time

VARIABLES
    sleeping,  \* tasks in taskdelay
    waiting,   \* [Tasks -> what fdwait or mqwait was called with, or NULL]
    ready,     \* kernel and 0MQ: the I/O and the conditions that are there
    lost,      \* ghost: how a waiting task lost its place on the wait lists
    burst      \* steps since the last poll

vars == <<alive, taskrunning, taskrunqueue, hot, nfd_hot, idle_free, idle_active,
          idle_data, epoll, open, sleeping, waiting, ready, lost, burst>>

Losses == {"no", "full", "replaced", "closed", "dropped"}

ASSUME FdTaskAssumption ==
    /\ Owners = Tasks
    /\ FirstTask \in Tasks
    /\ MaxBurst \in Nat
    /\ MaxReady \in Nat

Init ==
    /\ TaskInit(<<FirstTask>>)
    /\ SuperPoll_create
    /\ open = Fds
    /\ sleeping = {}
    /\ waiting = [t \in Tasks |-> NULL]
    /\ ready = {}
    /\ lost = [t \in Tasks |-> "no"]
    /\ burst = 0

Running == taskrunning # Nobody

(* A step of the running task that leaves it running, or ready. *)
Busy ==
    /\ Running
    /\ burst < MaxBurst
    /\ burst' = burst + 1

-----------------------------------------------------------------------------
(* _wait on the hot list: the task is added and switches away. *)
wait_hot(what, b) ==
    /\ SuperPoll_add_poll(taskrunning, what, b)
    /\ UNCHANGED lost

(* mutant: with the hot list full the wait goes to epoll without a slot of its own *)
wait_idle_NoSlot(fd, b) ==
    /\ add_poll_full /\ ~add_idle_full
    /\ SuperPoll_add_idle(NULL, fd, b)
    /\ UNCHANGED lost

(* _wait on the idle list.  An earlier waiter on fd loses its epoll entry. *)
wait_idle(fd, b) ==
    /\ add_poll_full /\ ~add_idle_full
    /\ SuperPoll_add_idle(taskrunning, fd, b)
    /\ lost' = [t \in Tasks |->
                   IF fd \notin open THEN IF t = taskrunning THEN "closed" ELSE lost[t]
                   ELSE IF t = Waiter(fd) THEN "replaced" ELSE lost[t]]

(* _wait when SuperPoll_add fails: the error path switches away as well. *)
wait_full ==
    /\ lost' = [lost EXCEPT ![taskrunning] = "full"]
    /\ UNCHANGED pollvars

fdwait(fd, b) ==
    /\ Running
    /\ \/ wait_hot(fd, b)
       \/ wait_idle(fd, b)
       \/ add_poll_full /\ add_idle_full /\ wait_full
    /\ waiting' = [waiting EXCEPT ![taskrunning] = <<fd, b>>]
    /\ SwitchAway
    /\ UNCHANGED <<sleeping, ready, burst>>

(* A 0MQ socket is never put on the idle list. *)
mqwait(sock, b) ==
    /\ Running
    /\ \/ wait_hot(sock, b)
       \/ add_poll_full /\ wait_full
    /\ waiting' = [waiting EXCEPT ![taskrunning] = <<sock, b>>]
    /\ SwitchAway
    /\ UNCHANGED <<sleeping, ready, burst>>

taskdelay ==
    /\ Running
    /\ sleeping' = sleeping \cup {taskrunning}
    /\ SwitchAway
    /\ UNCHANGED <<pollvars, waiting, ready, lost, burst>>

taskyield ==
    /\ Busy
    /\ YieldTurn
    /\ UNCHANGED <<pollvars, sleeping, waiting, ready, lost>>

taskcreate(t) ==
    /\ Busy
    /\ Create(t)
    /\ UNCHANGED <<pollvars, sleeping, waiting, ready, lost>>

(* The last task does not exit: the scheduler would end the program. *)
taskexit ==
    /\ Running
    /\ alive # {taskrunning}
    /\ ExitTurn
    /\ UNCHANGED <<pollvars, sleeping, waiting, ready, lost, burst>>

(***************************************************************************)
(* tasknuke followed by taskready, as shutdown_handler uses them: only the *)
(* hot list is searched, and only a task found there is made ready.        *)
(***************************************************************************)
tasknuke(t) ==
    /\ Busy
    /\ \E e \in hot :
          /\ e.data = t
          /\ SuperPoll_compact_down(e)
    /\ MakeReady(t)
    /\ waiting' = [waiting EXCEPT ![t] = NULL]
    /\ UNCHANGED <<sleeping, ready, lost>>

(* recv, send, accept or zmq_recv uses up what was ready. *)
Consume(what, b) ==
    /\ Busy
    /\ <<what, b>> \in ready
    /\ b \in rw
    /\ ready' = ready \ {<<what, b>>}
    /\ UNCHANGED <<taskvars, pollvars, sleeping, waiting, lost>>

(* The running task closes fd; who holds an idle slot for it is forgotten. *)
fdclose(fd) ==
    /\ Busy
    /\ fd \in open
    /\ KernelClose(fd)
    /\ ready' = ready \ ({fd} \X {"r", "w", "x"})
    /\ lost' = [t \in Tasks |-> IF \E s \in idle_active : idle_data[s] = [fd |-> fd, data |-> t]
                                THEN "closed" ELSE lost[t]]
    /\ UNCHANGED <<taskvars, sleeping, waiting>>

(* accept, socket or open gives the running task a new descriptor. *)
fdopen(fd) ==
    /\ Busy
    /\ KernelOpen(fd)
    /\ UNCHANGED <<taskvars, sleeping, waiting, ready, lost>>

-----------------------------------------------------------------------------
(* The sleepers whose alarm is due leave the list. *)
wake_sleepers(due) ==
    /\ due \subseteq sleeping
    /\ sleeping' = sleeping \ due

Orders(S) == Bijection(1..Cardinality(S), S)

(***************************************************************************)
(* fdtask, when no other task can run.  The tasks of the result are made   *)
(* ready, then the sleepers that are due, each group in any order.         *)
(***************************************************************************)
Poll ==
    /\ OnlyFdtask
    /\ \E dropped \in PassedOver(ready), due \in SUBSET sleeping :
          LET hits == HitData(ready, dropped) IN
          /\ SuperPoll_poll(ready)
          /\ wake_sleepers(due)
          /\ \E p \in Orders(hits), q \in Orders(due) : taskrunqueue' = p \o q
          /\ waiting' = [t \in Tasks |-> IF t \in hits THEN NULL ELSE waiting[t]]
          /\ lost' = [t \in Tasks |-> IF t \in {Waiter(fd) : fd \in dropped}
                                      THEN "dropped" ELSE lost[t]]
    /\ burst' = 0
    /\ UNCHANGED <<alive, taskrunning, ready>>

taskscheduler ==
    /\ RunHead
    /\ UNCHANGED <<pollvars, sleeping, waiting, ready, lost, burst>>

(* Data arrives, buffer space appears, or the peer hangs up. *)
Arrive(what, b) ==
    /\ what \in open \cup Socks
    /\ what \in Socks => b # "x"
    /\ <<what, b>> \notin ready
    /\ Cardinality(ready) < MaxReady
    /\ ready' = ready \cup {<<what, b>>}
    /\ UNCHANGED <<taskvars, pollvars, sleeping, waiting, lost, burst>>

TaskStep ==
    \/ \E fd \in Fds, b \in rw : fdwait(fd, b)
    \/ \E sock \in Socks, b \in rw : mqwait(sock, b)
    \/ taskdelay
    \/ taskyield
    \/ taskexit
    \/ \E t \in Tasks : taskcreate(t) \/ tasknuke(t)
    \/ \E what \in Fds \cup Socks, b \in rw : Consume(what, b)
    \/ \E fd \in Fds : fdclose(fd) \/ fdopen(fd)

Next ==
    \/ taskscheduler
    \/ TaskStep
    \/ Poll
    \/ \E what \in Fds \cup Socks, b \in {"r", "w", "x"} : Arrive(what, b)

Spec == Init /\ [][Next]_vars

(***************************************************************************)
(* The scheduler, fdtask, and the running task go on; the tasks of the     *)
(* server block again after a bounded burst of work.  Nothing is assumed   *)
(* of arrivals.                                                            *)
(***************************************************************************)
FairSpec == Spec /\ WF_vars(taskscheduler) /\ WF_vars(TaskStep) /\ WF_vars(Poll)
-----------------------------------------------------------------------------
TypeOK ==
    /\ alive \subseteq Tasks
    /\ taskrunning \in Tasks \cup {Nobody}
    /\ taskrunqueue \in Seq(Tasks)
    /\ hot \subseteq HotEntry
    /\ nfd_hot \in 1..max_hot
    /\ idle_free \subseteq Slots
    /\ idle_active \subseteq Slots
    /\ idle_data \in [Slots -> [fd : Fds \cup {NULL}, data : Tasks \cup {NULL}]]
    /\ epoll \in [Fds -> (Slots \X rw) \cup {NULL}]
    /\ open \subseteq Fds
    /\ sleeping \subseteq Tasks
    /\ waiting \in [Tasks -> ((Fds \cup Socks) \X rw) \cup {NULL}]
    /\ ready \subseteq (Fds \cup Socks) \X {"r", "w", "x"}
    /\ lost \in [Tasks -> Losses]
    /\ burst \in 0..MaxBurst

(***************************************************************************)
(* Where a task can come from: it runs, it has a place in the run queue or *)
(* on a timer, an entry of the hot list or of epoll names it, or it is one *)
(* of those whose place was lost.                                          *)
(***************************************************************************)
Sources(t) ==
    {<<"running", t>> : x \in {t} \cap {taskrunning}}
    \cup {<<"queued", i>> : i \in {j \in DOMAIN taskrunqueue : taskrunqueue[j] = t}}
    \cup {<<"sleeping", x>> : x \in {t} \cap sleeping}
    \cup {<<"hot", e>> : e \in {h \in hot : h.data = t}}
    \cup {<<"idle", fd>> : fd \in {f \in Fds : Waiter(f) = t}}
    \cup {<<"lost", x>> : x \in {s \in {t} : lost[s] # "no"}}

(***************************************************************************)
(* No task can be made ready twice.  taskready links the task into the run *)
(* queue through its own next and prev fields (addtask), so that a second  *)
(* taskready, by the poll, a timer or tasknuke, of a task that is queued,  *)
(* running or exited would corrupt the queue or run freed memory.          *)
(***************************************************************************)
WokenOnce ==
    /\ \A t \in Tasks : \A a, b \in Sources(t) : a = b
    /\ \A t \in Tasks \ alive : Sources(t) = {}

(***************************************************************************)
(* No task is forgotten except in the four ways that lost records: through *)
(* all steps of _wait, tasknuke, SuperPoll_poll and close a live task      *)
(* keeps a place from which it will be made ready.                         *)
(***************************************************************************)
NeverForgotten == \A t \in alive : Sources(t) # {}

(***************************************************************************)
(* An epoll entry names an active slot that holds the same descriptor, and *)
(* no two name the same slot.  SuperPoll_add_idle_hits removes the         *)
(* descriptor of the slot from epoll and aborts the server if that fails   *)
(* ("SuperPoll failure, aborting."), and moves the slot from one list to   *)
(* the other (list_delete of a node that is not in the list corrupts it).  *)
(***************************************************************************)
EpollNamesItsSlot ==
    \A fd \in Fds : epoll[fd] # NULL =>
        /\ fd \in open
        /\ epoll[fd][1] \in idle_active
        /\ idle_data[epoll[fd][1]].fd = fd
        /\ \A g \in Fds \ {fd} : epoll[g] # NULL => epoll[g][1] # epoll[fd][1]

(***************************************************************************)
(* The hot list holds nfd_hot entries and the epoll descriptor is always   *)
(* one of them: without it every idle connection would be deaf.            *)
(***************************************************************************)
HotListIntact == idle_entry \in hot /\ nfd_hot = Cardinality(hot)

(***************************************************************************)
(* Every slot is on one list (the assertion of SuperPoll_add_idle_hits),   *)
(* and an active slot without epoll entry belonged to a task that lost its *)
(* place: only a loss leaks a slot.                                        *)
(***************************************************************************)
SlotsAccounted ==
    /\ idle_active \cup idle_free = Slots
    /\ idle_active \cap idle_free = {}
    /\ \A s \in idle_active :
          \/ \E fd \in Fds : epoll[fd] # NULL /\ epoll[fd][1] = s
          \/ lost[idle_data[s].data] \in {"replaced", "closed"}

(***************************************************************************)
(* A task that waits for I/O and kept its place runs once the I/O is       *)
(* possible (unless another task consumes it first).                       *)
(***************************************************************************)
PolledWaiterWakes ==
    \A t \in Tasks :
        (waiting[t] # NULL /\ lost[t] = "no" /\ waiting[t] \in ready)
            ~> (waiting[t] = NULL \/ lost[t] # "no" \/ waiting[t] \notin ready)

(***************************************************************************)
(* task/fd.c: every live task has exactly one place from which it can be   *)
(* made ready, or is one of the recorded losses.                           *)
(***************************************************************************)
OnePlaceEach ==
    /\ WokenOnce /\ NeverForgotten

(***************************************************************************)
(* superpoll.c: the epoll entries, the idle slots and the hot list agree   *)
(* with one another through waits, wakeups and closes.                     *)
(***************************************************************************)
WaitListsIntact ==
    /\ EpollNamesItsSlot /\ HotListIntact /\ SlotsAccounted

-----------------------------------------------------------------------------
(***************************************************************************)
(* For the safety run.  The tasks but the first, the descriptors and the   *)
(* slots are alike.  No guard reads waiting, nor the data that a slot on   *)
(* the free list still holds: states that differ only there are the same.  *)
(***************************************************************************)
MCSymmetry == Permutations(Tasks \ {FirstTask}) \cup Permutations(Fds) \cup Permutations(Slots)

MCView == <<alive, taskrunning, taskrunqueue, hot, nfd_hot, idle_free, idle_active,
            [s \in idle_active |-> idle_data[s]], epoll, open, sleeping, ready, lost, burst>>
=============================================================================
