------------------------------- MODULE Locks --------------------------------
(***************************************************************************)
(* The locks and the rendezvous of the task library (src/task/qlock.c and  *)
(* src/task/rendez.c) over the scheduler of Task: a QLock, a Rendez that   *)
(* is tied to it, an RWLock, and a Rendez without lock used as a barrier.  *)
(* Tasks only unlock what they were given, and hold one lock at a time;    *)
(* they may yield while they hold it.  A canqlock, canrlock or canwlock    *)
(* that returns 0 changes nothing and is not an action.                    *)
(***************************************************************************)
EXTENDS Task, Naturals, FiniteSets

VARIABLES
    qlock,    \* [owner, waiting]
    rwlock,   \* [readers, writer, rwaiting, wwaiting]
    rendez,   \* waiting list of the Rendez with l = qlock
    barrier,  \* waiting list of the Rendez with l = nil
    inside,   \* [Tasks -> the call in which it has switched away, or "run"]
    has,      \* ghost: [Tasks -> what a call that returned has given it]
    oops      \* ghost: a check of the library has failed and called abort

lockvars == <<taskvars, qlock, rwlock, rendez, barrier, inside, has, oops>>

Queued(queue) == {queue[i] : i \in DOMAIN queue}

LocksInit(order) ==
    /\ TaskInit(order)
    /\ qlock = [owner |-> Nobody, waiting |-> <<>>]
    /\ rwlock = [readers |-> 0, writer |-> Nobody, rwaiting |-> <<>>, wwaiting |-> <<>>]
    /\ rendez = <<>> /\ barrier = <<>>
    /\ inside = [t \in Tasks |-> "run"]
    /\ has = [t \in Tasks |-> "nothing"]
    /\ oops = FALSE

Calls(t, holding) ==
    /\ ~oops /\ taskrunning = t /\ inside[t] = "run" /\ has[t] = holding

Returns(t, what) ==
    /\ has' = [has EXCEPT ![t] = what]
    /\ inside' = [inside EXCEPT ![t] = "run"]

(* taskstate and taskswitch: the task stops inside the call. *)
Blocks(t, call) ==
    /\ inside' = [inside EXCEPT ![t] = call]
    /\ SwitchAway
    /\ UNCHANGED has

(* deltask and taskready of the first tasks of a list. *)
Wakes(woken) ==
    /\ taskrunqueue' = taskrunqueue \o woken
    /\ UNCHANGED <<alive, taskrunning>>

FirstOf(queue) == IF queue = <<>> THEN <<>> ELSE <<Head(queue)>>
RestOf(queue) == IF queue = <<>> THEN <<>> ELSE Tail(queue)
HeadTask(queue) == IF queue = <<>> THEN Nobody ELSE Head(queue)

-----------------------------------------------------------------------------
(* _qlock, with block: qlock, and canqlock when the lock is free. *)
_qlock(t) ==
    IF qlock.owner = Nobody
    THEN /\ qlock' = [qlock EXCEPT !.owner = t]
         /\ Returns(t, "qlock")
         /\ UNCHANGED taskvars
    ELSE /\ qlock' = [qlock EXCEPT !.waiting = Append(@, t)]
         /\ Blocks(t, "qlock")

QLock(t) ==
    /\ Calls(t, "nothing")
    /\ _qlock(t)
    /\ UNCHANGED <<rwlock, rendez, barrier, oops>>

(* qunlock: the first waiting task is the owner before it runs. *)
Released == [owner |-> HeadTask(qlock.waiting), waiting |-> RestOf(qlock.waiting)]

QUnlock(t) ==
    /\ Calls(t, "qlock")
    /\ qlock' = Released
    /\ Wakes(FirstOf(qlock.waiting))
    /\ Returns(t, "nothing")
    /\ UNCHANGED <<rwlock, rendez, barrier, oops>>

-----------------------------------------------------------------------------
(* mutant: readers go before the writers that wait *)
RLock_Overtakes(t) ==
    /\ Calls(t, "nothing")
    /\ IF rwlock.writer = Nobody
       THEN /\ rwlock' = [rwlock EXCEPT !.readers = @ + 1]
            /\ Returns(t, "rlock")
            /\ UNCHANGED taskvars
       ELSE /\ rwlock' = [rwlock EXCEPT !.rwaiting = Append(@, t)]
            /\ Blocks(t, "rlock")
    /\ UNCHANGED <<qlock, rendez, barrier, oops>>

(* _rlock: a reader waits for the writer and behind the writers that wait. *)
RLock(t) ==
    /\ Calls(t, "nothing")
    /\ IF rwlock.writer = Nobody /\ rwlock.wwaiting = <<>>
       THEN /\ rwlock' = [rwlock EXCEPT !.readers = @ + 1]
            /\ Returns(t, "rlock")
            /\ UNCHANGED taskvars
       ELSE /\ rwlock' = [rwlock EXCEPT !.rwaiting = Append(@, t)]
            /\ Blocks(t, "rlock")
    /\ UNCHANGED <<qlock, rendez, barrier, oops>>

(* _wlock: readers that wait do not hold it up. *)
WLock(t) ==
    /\ Calls(t, "nothing")
    /\ IF rwlock.writer = Nobody /\ rwlock.readers = 0
       THEN /\ rwlock' = [rwlock EXCEPT !.writer = t]
            /\ Returns(t, "wlock")
            /\ UNCHANGED taskvars
       ELSE /\ rwlock' = [rwlock EXCEPT !.wwaiting = Append(@, t)]
            /\ Blocks(t, "wlock")
    /\ UNCHANGED <<qlock, rendez, barrier, oops>>

(* The first writer that waits becomes the writer. *)
PassToWriter(l) ==
    [l EXCEPT !.writer = HeadTask(l.wwaiting), !.wwaiting = RestOf(@)]

(* mutant: the last reader does not look at the writers *)
RUnlock_Silent(t) ==
    /\ Calls(t, "rlock")
    /\ rwlock' = [rwlock EXCEPT !.readers = @ - 1]
    /\ Wakes(<<>>)
    /\ Returns(t, "nothing")
    /\ UNCHANGED <<qlock, rendez, barrier, oops>>

(* runlock: the last reader passes the lock on. *)
RUnlock(t) ==
    /\ Calls(t, "rlock")
    /\ LET l == [rwlock EXCEPT !.readers = @ - 1] IN
       IF l.readers = 0
       THEN rwlock' = PassToWriter(l) /\ Wakes(FirstOf(l.wwaiting))
       ELSE rwlock' = l /\ Wakes(<<>>)
    /\ Returns(t, "nothing")
    /\ UNCHANGED <<qlock, rendez, barrier, oops>>

(* wunlock: every reader that waits is let in; without any, the next writer. *)
WUnlock(t) ==
    /\ Calls(t, "wlock")
    /\ LET l == [rwlock EXCEPT !.writer = Nobody, !.readers = @ + Len(rwlock.rwaiting), !.rwaiting = <<>>] IN
       IF l.readers = 0
       THEN rwlock' = PassToWriter(l) /\ Wakes(FirstOf(l.wwaiting))
       ELSE rwlock' = l /\ Wakes(rwlock.rwaiting)
    /\ oops' = (rwlock.writer = Nobody \/ rwlock.readers # 0)
    /\ Returns(t, "nothing")
    /\ UNCHANGED <<qlock, rendez, barrier>>

-----------------------------------------------------------------------------
(* tasksleep: on the list, the lock is released, the task stops. *)
TaskSleep(t) ==
    /\ Calls(t, "qlock")
    /\ rendez' = Append(rendez, t)
    /\ qlock' = Released
    /\ taskrunqueue' = taskrunqueue \o FirstOf(qlock.waiting)
    /\ taskrunning' = Nobody
    /\ inside' = [inside EXCEPT ![t] = "sleep"]
    /\ has' = [has EXCEPT ![t] = "nothing"]
    /\ UNCHANGED <<alive, rwlock, barrier, oops>>

(* taskwakeup and taskwakeupall, with or without the lock. *)
TaskWakeup(t) ==
    /\ Calls(t, "nothing") \/ Calls(t, "qlock")
    /\ rendez # <<>>
    /\ \/ rendez' = Tail(rendez) /\ Wakes(FirstOf(rendez))
       \/ rendez' = <<>> /\ Wakes(rendez)
    /\ UNCHANGED <<qlock, rwlock, barrier, inside, has, oops>>

(* taskbarrier: wakes everybody who waits, or waits when there is nobody. *)
TaskBarrier(t) ==
    /\ Calls(t, "nothing")
    /\ IF barrier = <<>>
       THEN barrier' = <<t>> /\ Blocks(t, "barrier")
       ELSE barrier' = <<>> /\ Wakes(barrier) /\ UNCHANGED <<inside, has>>
    /\ UNCHANGED <<qlock, rwlock, rendez, oops>>

TaskYield(t) ==
    /\ \E holding \in {"nothing", "qlock", "rlock", "wlock"} : Calls(t, holding)
    /\ YieldTurn
    /\ UNCHANGED <<qlock, rwlock, rendez, barrier, inside, has, oops>>

(* taskswitch returns: _qlock checks that the lock was handed over, tasksleep takes the *)
(* lock again, the others return.                                                       *)
Resumes(t) ==
    /\ ~oops /\ taskrunning = t /\ inside[t] # "run"
    /\ \/ /\ inside[t] = "qlock"
          /\ oops' = (qlock.owner # t)
          /\ Returns(t, "qlock")
          /\ UNCHANGED <<taskvars, qlock>>
       \/ inside[t] = "sleep" /\ _qlock(t) /\ UNCHANGED oops
       \/ inside[t] \in {"rlock", "wlock"} /\ Returns(t, inside[t]) /\ UNCHANGED <<taskvars, qlock, oops>>
       \/ inside[t] = "barrier" /\ Returns(t, "nothing") /\ UNCHANGED <<taskvars, qlock, oops>>
    /\ UNCHANGED <<rwlock, rendez, barrier>>

Schedules ==
    \/ RunHead /\ UNCHANGED <<qlock, rwlock, rendez, barrier, inside, has, oops>>
    \/ \E t \in Tasks : Resumes(t)

LocksNext ==
    \/ Schedules
    \/ \E t \in Tasks :
        \/ QLock(t) \/ QUnlock(t)
        \/ RLock(t) \/ RUnlock(t)
        \/ WLock(t) \/ WUnlock(t)
        \/ TaskSleep(t) \/ TaskWakeup(t) \/ TaskBarrier(t)
        \/ TaskYield(t)

(* The tasks that taskcreate has made are on the queue once each, in any order. *)
StartingOrders == {order \in Seq(Tasks) : \A i, j \in DOMAIN order : order[i] = order[j] => i = j}

LocksSpec == (\E order \in StartingOrders : LocksInit(order)) /\ [][LocksNext]_lockvars

-----------------------------------------------------------------------------
(* qlock: the task to which it returned is the owner, and nobody else, through every *)
(* sleep and wakeup in between; the library never aborts.                            *)
QLockExcludes ==
    /\ ~oops
    /\ \A t \in Tasks : has[t] = "qlock" => qlock.owner = t

(* The readers that rlock has let in, whether they have run since or not. *)
LetIn == {t \in Tasks : has[t] = "rlock" \/ (inside[t] = "rlock" /\ t \notin Queued(rwlock.rwaiting))}

(* rlock and wlock: readers counts exactly the readers that were let in, and there is *)
(* never a writer beside them, nor a second one.                                      *)
ReadersExcludeWriters ==
    /\ rwlock.readers = Cardinality(LetIn)
    /\ rwlock.writer # Nobody => rwlock.readers = 0
    /\ \A t \in Tasks : has[t] = "wlock" => rwlock.writer = t

(* qunlock, runlock and wunlock lose no wakeup: whoever waits, waits for somebody. *)
NobodyWaitsInVain ==
    /\ qlock.waiting # <<>> => qlock.owner # Nobody
    /\ rwlock.wwaiting # <<>> => rwlock.writer # Nobody \/ rwlock.readers > 0
    /\ rwlock.rwaiting # <<>> => rwlock.writer # Nobody \/ rwlock.wwaiting # <<>>

(* Every task that waits for a lock gets it, readers and writers alike, if holders give *)
(* their locks back and running tasks yield.                                            *)
EveryLockerGetsIt ==
    \A t \in Tasks : inside[t] \in {"qlock", "rlock", "wlock"} ~> inside[t] = "run"

(***************************************************************************)
(* task/qlock.c: exclusion through every hand-over of a lock from its      *)
(* holder to a waiter, and no lost wakeup.                                 *)
(***************************************************************************)
LocksSound ==
    /\ QLockExcludes /\ ReadersExcludeWriters /\ NobodyWaitsInVain
=============================================================================
