----------------------------- MODULE TaskProofs -----------------------------
(***************************************************************************)
(* Proofs about the task library, for any set of tasks: its locks (Locks), *)
(* and the poll task with its wait lists (FdTask).                         *)
(*                                                                         *)
(* Both rest on where a task can be: it runs, or it is on the run queue,   *)
(* or in the one place where the call in which it has switched away has    *)
(* put it, once.                                                           *)
(***************************************************************************)
EXTENDS Locks, FdTask, FiniteSetTheorems, TLAPS

(* Nobody is on the list twice. *)
Distinct(queue) == \A i, j \in DOMAIN queue : queue[i] = queue[j] => i = j

-----------------------------------------------------------------------------
(* Waiting lists: addtask puts a task at the end. *)
LEMMA AppendedTask ==
    ASSUME NEW S, NEW queue \in Seq(S), NEW t \in S
    PROVE  /\ Append(queue, t) \in Seq(S)
           /\ Append(queue, t) # <<>>
           /\ Queued(Append(queue, t)) = Queued(queue) \cup {t}
           /\ Distinct(queue) /\ t \notin Queued(queue) => Distinct(Append(queue, t))
<1>1. /\ Append(queue, t) \in Seq(S)
      /\ DOMAIN queue = 1 .. Len(queue)
      /\ DOMAIN Append(queue, t) = 1 .. (Len(queue) + 1)
      /\ Len(queue) \in Nat
      /\ Append(queue, t)[Len(queue) + 1] = t
      /\ \A i \in 1 .. Len(queue) : Append(queue, t)[i] = queue[i]
  OBVIOUS
<1>2. Queued(Append(queue, t)) = Queued(queue) \cup {t}
  <2>1. ASSUME NEW x \in Queued(Append(queue, t)) PROVE x \in Queued(queue) \cup {t}
    BY <1>1, <2>1 DEF Queued
  <2>2. ASSUME NEW x \in Queued(queue) \cup {t} PROVE x \in Queued(Append(queue, t))
    BY <1>1, <2>2 DEF Queued
  <2> QED BY <2>1, <2>2
<1>3. ASSUME Distinct(queue), t \notin Queued(queue) PROVE Distinct(Append(queue, t))
  BY <1>1, <1>3 DEF Distinct, Queued
<1>4. Append(queue, t) # <<>>
  <2>1. Len(queue) + 1 \in DOMAIN Append(queue, t)
    BY <1>1
  <2> QED BY <2>1
<1> QED BY <1>1, <1>2, <1>3, <1>4

(* deltask takes the first task from a list. *)
LEMMA TakenFirst ==
    ASSUME NEW S, NEW queue \in Seq(S), queue # <<>>
    PROVE  /\ Head(queue) \in S
           /\ Tail(queue) \in Seq(S)
           /\ Queued(queue) = Queued(Tail(queue)) \cup {Head(queue)}
           /\ Distinct(queue) => Distinct(Tail(queue)) /\ Head(queue) \notin Queued(Tail(queue))
<1>1. /\ Head(queue) \in S
      /\ Head(queue) = queue[1]
      /\ Tail(queue) \in Seq(S)
      /\ Len(queue) \in Nat \ {0}
      /\ DOMAIN queue = 1 .. Len(queue)
      /\ DOMAIN Tail(queue) = 1 .. (Len(queue) - 1)
      /\ \A i \in 1 .. (Len(queue) - 1) : Tail(queue)[i] = queue[i + 1]
  OBVIOUS
<1>2. Queued(queue) = Queued(Tail(queue)) \cup {Head(queue)}
  <2>1. ASSUME NEW i \in DOMAIN queue PROVE queue[i] \in Queued(Tail(queue)) \cup {Head(queue)}
    <3>1. CASE i = 1
      BY <1>1, <3>1
    <3>2. CASE i # 1
      <4>1. i - 1 \in DOMAIN Tail(queue) /\ Tail(queue)[i - 1] = queue[i]
        BY <1>1, <3>2
      <4> QED BY <4>1 DEF Queued
    <3> QED BY <3>1, <3>2
  <2>2. ASSUME NEW i \in DOMAIN Tail(queue) PROVE Tail(queue)[i] \in Queued(queue)
    <3>1. i + 1 \in DOMAIN queue /\ Tail(queue)[i] = queue[i + 1]
      BY <1>1
    <3> QED BY <3>1 DEF Queued
  <2>3. Head(queue) \in Queued(queue)
    BY <1>1 DEF Queued
  <2> QED BY <2>1, <2>2, <2>3 DEF Queued
<1>3. ASSUME Distinct(queue)
      PROVE  Distinct(Tail(queue)) /\ Head(queue) \notin Queued(Tail(queue))
  BY <1>1, <1>3 DEF Distinct, Queued
<1> QED BY <1>1, <1>2, <1>3

(* Tasks that are made ready go behind the run queue, in their order. *)
LEMMA JoinedTasks ==
    ASSUME NEW S, NEW queue \in Seq(S), NEW more \in Seq(S)
    PROVE  /\ queue \o more \in Seq(S)
           /\ Queued(queue \o more) = Queued(queue) \cup Queued(more)
           /\ Distinct(queue) /\ Distinct(more) /\ Queued(queue) \cap Queued(more) = {}
                => Distinct(queue \o more)
<1> DEFINE n == Len(queue)
           both == queue \o more
<1>1. /\ both \in Seq(S)
      /\ n \in Nat /\ Len(more) \in Nat
      /\ DOMAIN queue = 1 .. n
      /\ DOMAIN more = 1 .. Len(more)
      /\ DOMAIN both = 1 .. (n + Len(more))
      /\ \A i \in 1 .. (n + Len(more)) : both[i] = IF i <= n THEN queue[i] ELSE more[i - n]
  OBVIOUS
<1>2. ASSUME NEW i \in DOMAIN both
      PROVE  \/ i \in DOMAIN queue /\ both[i] = queue[i]
             \/ i - n \in DOMAIN more /\ both[i] = more[i - n]
  BY <1>1
<1>3. /\ \A i \in DOMAIN queue : i \in DOMAIN both /\ both[i] = queue[i]
      /\ \A i \in DOMAIN more : i + n \in DOMAIN both /\ both[i + n] = more[i]
  BY <1>1
<1>4. Queued(both) = Queued(queue) \cup Queued(more)
  <2> HIDE DEF both, n
  <2>1. ASSUME NEW i \in DOMAIN both PROVE both[i] \in Queued(queue) \cup Queued(more)
    BY <1>2 DEF Queued
  <2>2. ASSUME NEW i \in DOMAIN queue PROVE queue[i] \in Queued(both)
    BY <1>3 DEF Queued
  <2>3. ASSUME NEW i \in DOMAIN more PROVE more[i] \in Queued(both)
    BY <1>3 DEF Queued
  <2> QED BY <2>1, <2>2, <2>3 DEF Queued
<1>5. ASSUME Distinct(queue), Distinct(more), Queued(queue) \cap Queued(more) = {}
      PROVE  Distinct(both)
  <2> SUFFICES ASSUME NEW i \in DOMAIN both, NEW j \in DOMAIN both, both[i] = both[j]
               PROVE  i = j
    BY DEF Distinct
  <2>1. CASE i \in DOMAIN queue /\ j \in DOMAIN queue
    BY <1>3, <1>5, <2>1 DEF Distinct
  <2>2. CASE i \in DOMAIN queue /\ j \notin DOMAIN queue
    <3>1. queue[i] \in Queued(queue) /\ both[i] = queue[i]
      BY <1>3, <2>2 DEF Queued
    <3>2. j - n \in DOMAIN more /\ both[j] = more[j - n]
      BY <1>2, <2>2
    <3>3. more[j - n] \in Queued(more)
      BY <3>2 DEF Queued
    <3> QED BY <1>5, <3>1, <3>2, <3>3
  <2>3. CASE i \notin DOMAIN queue /\ j \in DOMAIN queue
    <3>1. queue[j] \in Queued(queue) /\ both[j] = queue[j]
      BY <1>3, <2>3 DEF Queued
    <3>2. i - n \in DOMAIN more /\ both[i] = more[i - n]
      BY <1>2, <2>3
    <3>3. more[i - n] \in Queued(more)
      BY <3>2 DEF Queued
    <3> QED BY <1>5, <3>1, <3>2, <3>3
  <2>4. CASE i \notin DOMAIN queue /\ j \notin DOMAIN queue
    <3>1. i - n \in DOMAIN more /\ j - n \in DOMAIN more /\ more[i - n] = more[j - n]
      BY <1>2, <2>4
    <3>2. i - n = j - n
      BY <1>5, <3>1 DEF Distinct
    <3> QED BY <1>1, <3>2
  <2> QED BY <2>1, <2>2, <2>3, <2>4
<1> QED BY <1>1, <1>4, <1>5

(* The empty list. *)
LEMMA EmptyList ==
    /\ \A S : <<>> \in Seq(S)
    /\ Queued(<<>>) = {} /\ Distinct(<<>>)
    /\ \A S : \A queue \in Seq(S) : queue # <<>> => Queued(queue) # {}
<1>1. \A S : <<>> \in Seq(S)
  OBVIOUS
<1>2. Queued(<<>>) = {} /\ Distinct(<<>>)
  BY DEF Queued, Distinct
<1>3. ASSUME NEW S, NEW queue \in Seq(S), queue # <<>> PROVE Queued(queue) # {}
  <2>1. Queued(queue) = Queued(Tail(queue)) \cup {Head(queue)}
    BY <1>3, TakenFirst
  <2> QED BY <2>1
<1> QED BY <1>1, <1>2, <1>3

(* A list has as many tasks as entries. *)
LEMMA ListLength ==
    ASSUME NEW S, NEW queue \in Seq(S), Distinct(queue)
    PROVE  IsFiniteSet(Queued(queue)) /\ Cardinality(Queued(queue)) = Len(queue)
<1>1. Len(queue) \in Nat /\ DOMAIN queue = 1 .. Len(queue)
  OBVIOUS
<1>2. queue \in [1 .. Len(queue) -> Queued(queue)]
  BY <1>1 DEF Queued
<1>3. queue \in Bijection(1 .. Len(queue), Queued(queue))
  BY <1>1, <1>2 DEF Bijection, Injection, Surjection, IsInjective, Distinct, Queued
<1>4. ExistsBijection(1 .. Len(queue), Queued(queue))
  BY <1>3 DEF ExistsBijection
<1> QED BY <1>1, <1>4, FS_NatBijection, FS_CountingElements

(* A list and what deltask of its first task makes of it. *)
LEMMA FirstAndRest ==
    ASSUME NEW queue \in Seq(Tasks), Distinct(queue)
    PROVE  /\ FirstOf(queue) \in Seq(Tasks) /\ Distinct(FirstOf(queue))
           /\ RestOf(queue) \in Seq(Tasks) /\ Distinct(RestOf(queue))
           /\ HeadTask(queue) \in Tasks \cup {Nobody}
           /\ HeadTask(queue) = Nobody <=> queue = <<>>
           /\ Queued(FirstOf(queue)) = {HeadTask(queue)} \ {Nobody}
           /\ Queued(queue) = Queued(FirstOf(queue)) \cup Queued(RestOf(queue))
           /\ HeadTask(queue) \notin Queued(RestOf(queue))
           /\ RestOf(queue) # <<>> => queue # <<>>
<1>1. CASE queue = <<>>
  <2>1. FirstOf(queue) = <<>> /\ RestOf(queue) = <<>> /\ HeadTask(queue) = Nobody
    BY <1>1 DEF FirstOf, RestOf, HeadTask
  <2> QED BY <1>1, <2>1, EmptyList
<1>2. CASE queue # <<>>
  <2>1. /\ FirstOf(queue) = <<Head(queue)>>
        /\ RestOf(queue) = Tail(queue)
        /\ HeadTask(queue) = Head(queue)
    BY <1>2 DEF FirstOf, RestOf, HeadTask
  <2>2. /\ Head(queue) \in Tasks
        /\ Tail(queue) \in Seq(Tasks)
        /\ Queued(queue) = Queued(Tail(queue)) \cup {Head(queue)}
        /\ Distinct(Tail(queue)) /\ Head(queue) \notin Queued(Tail(queue))
    BY <1>2, TakenFirst
  <2>3. /\ <<Head(queue)>> \in Seq(Tasks)
        /\ Queued(<<Head(queue)>>) = {Head(queue)}
        /\ Distinct(<<Head(queue)>>)
    BY <2>2 DEF Queued, Distinct
  <2> QED BY <1>2, <2>1, <2>2, <2>3, TaskAssumption
<1> QED BY <1>1, <1>2

-----------------------------------------------------------------------------
(* The types of the variables, alive excepted, which no lock looks at. *)
LocksTypeOK ==
    /\ qlock \in [owner : Tasks \cup {Nobody}, waiting : Seq(Tasks)]
    /\ rwlock \in [readers : Nat, writer : Tasks \cup {Nobody}, rwaiting : Seq(Tasks), wwaiting : Seq(Tasks)]
    /\ rendez \in Seq(Tasks) /\ barrier \in Seq(Tasks)
    /\ taskrunqueue \in Seq(Tasks)
    /\ taskrunning \in Tasks \cup {Nobody}
    /\ inside \in [Tasks -> {"run", "qlock", "rlock", "wlock", "sleep", "barrier"}]
    /\ has \in [Tasks -> {"nothing", "qlock", "rlock", "wlock"}]
    /\ oops \in BOOLEAN

Waiting ==
    Queued(qlock.waiting) \cup Queued(rwlock.rwaiting) \cup Queued(rwlock.wwaiting)
        \cup Queued(rendez) \cup Queued(barrier)

(* A task is on the run queue, or it runs, or it is on a waiting list. *)
OnePlaceForEach ==
    /\ Distinct(taskrunqueue)
    /\ taskrunning \notin Queued(taskrunqueue)
    /\ taskrunning \notin Waiting
    /\ Queued(taskrunqueue) \cap Waiting = {}

(* A waiting list has the tasks, once each, that have switched away in its call; inside a *)
(* call a task holds no lock.                                                             *)
WaitingInTheCall ==
    /\ Distinct(qlock.waiting) /\ \A t \in Queued(qlock.waiting) : inside[t] = "qlock"
    /\ Distinct(rwlock.rwaiting) /\ \A t \in Queued(rwlock.rwaiting) : inside[t] = "rlock"
    /\ Distinct(rwlock.wwaiting) /\ \A t \in Queued(rwlock.wwaiting) : inside[t] = "wlock"
    /\ Distinct(rendez) /\ \A t \in Queued(rendez) : inside[t] = "sleep"
    /\ Distinct(barrier) /\ \A t \in Queued(barrier) : inside[t] = "barrier"
    /\ \A t \in Tasks : inside[t] # "run" => has[t] = "nothing"

(* The owner is the task that holds the lock, or the one it was handed to and that has *)
(* not run since.                                                                      *)
QLockPassedOn ==
    /\ ~oops
    /\ \A t \in Tasks :
          qlock.owner = t <=> \/ has[t] = "qlock"
                              \/ inside[t] = "qlock" /\ t \notin Queued(qlock.waiting)

(* The same of the writer, and of the readers, who are counted. *)
RWLockPassedOn ==
    /\ IsFiniteSet(LetIn) /\ rwlock.readers = Cardinality(LetIn)
    /\ rwlock.writer # Nobody => rwlock.readers = 0
    /\ \A t \in Tasks :
          rwlock.writer = t <=> \/ has[t] = "wlock"
                                \/ inside[t] = "wlock" /\ t \notin Queued(rwlock.wwaiting)

LocksInv ==
    /\ LocksTypeOK /\ OnePlaceForEach /\ WaitingInTheCall
    /\ QLockPassedOn /\ RWLockPassedOn /\ NobodyWaitsInVain

(* What the runs check follows. *)
LEMMA LocksInvImplies == LocksInv => LocksSound
  BY TaskAssumption
  DEF LocksInv, LocksSound, QLockExcludes, ReadersExcludeWriters, QLockPassedOn, RWLockPassedOn

(* Nobody holds or waits at the start. *)
LEMMA LocksInitInv ==
    ASSUME NEW order \in StartingOrders, LocksInit(order)
    PROVE  LocksInv
<1>1. /\ order \in Seq(Tasks) /\ Distinct(order)
      /\ \A i \in DOMAIN order : order[i] \in Tasks
  BY DEF StartingOrders, Distinct
<1>2. Waiting = {}
  BY EmptyList DEF LocksInit, Waiting
<1>3. LetIn = {}
  BY DEF LocksInit, LetIn
<1>4. LocksTypeOK
  BY <1>1, EmptyList DEF LocksInit, TaskInit, LocksTypeOK
<1>5. OnePlaceForEach
  BY <1>1, <1>2, TaskAssumption DEF LocksInit, TaskInit, OnePlaceForEach, Queued
<1>6. WaitingInTheCall
  BY EmptyList DEF LocksInit, WaitingInTheCall
<1>7. QLockPassedOn /\ NobodyWaitsInVain
  BY TaskAssumption DEF LocksInit, QLockPassedOn, NobodyWaitsInVain
<1>8. RWLockPassedOn
  BY <1>3, FS_EmptySet, TaskAssumption DEF LocksInit, RWLockPassedOn
<1> QED BY <1>4, <1>5, <1>6, <1>7, <1>8 DEF LocksInv

-----------------------------------------------------------------------------
(* Everybody on a list is a task. *)
LEMMA ListedTasks ==
    LocksTypeOK => /\ Waiting \subseteq Tasks /\ Queued(taskrunqueue) \subseteq Tasks
                   /\ Queued(qlock.waiting) \subseteq Tasks
                   /\ Queued(rwlock.rwaiting) \subseteq Tasks
                   /\ Queued(rwlock.wwaiting) \subseteq Tasks
<1>1. ASSUME NEW queue \in Seq(Tasks) PROVE Queued(queue) \subseteq Tasks
  <2>1. \A i \in DOMAIN queue : queue[i] \in Tasks
    OBVIOUS
  <2> QED BY <2>1 DEF Queued
<1> QED BY <1>1 DEF LocksTypeOK, Waiting

(* The same after a step. *)
LEMMA ListedTasksNext ==
    LocksTypeOK' => Waiting' \subseteq Tasks /\ Queued(taskrunqueue') \subseteq Tasks
<1>1. ASSUME NEW queue \in Seq(Tasks) PROVE Queued(queue) \subseteq Tasks
  <2>1. \A i \in DOMAIN queue : queue[i] \in Tasks
    OBVIOUS
  <2> QED BY <2>1 DEF Queued
<1> QED BY <1>1 DEF LocksTypeOK, Waiting

(* A step that gives and takes no QLock. *)
LEMMA QLockUntouched ==
    ASSUME QLockPassedOn, UNCHANGED <<qlock, oops>>,
           \A t \in Tasks : /\ has'[t] = "qlock" <=> has[t] = "qlock"
                            /\ inside'[t] = "qlock" <=> inside[t] = "qlock"
    PROVE  QLockPassedOn'
  BY DEF QLockPassedOn

(* A step that gives and takes no RWLock. *)
LEMMA RWLockUntouched ==
    ASSUME RWLockPassedOn, UNCHANGED rwlock,
           \A t \in Tasks : /\ has'[t] = "rlock" <=> has[t] = "rlock"
                            /\ has'[t] = "wlock" <=> has[t] = "wlock"
                            /\ inside'[t] = "rlock" <=> inside[t] = "rlock"
                            /\ inside'[t] = "wlock" <=> inside[t] = "wlock"
    PROVE  RWLockPassedOn'
<1>1. LetIn' = LetIn
  BY DEF LetIn
<1> QED BY <1>1 DEF RWLockPassedOn

(* Tasks that leave a waiting list are put on the run queue, where they were not. *)
LEMMA WokenTasks ==
    ASSUME LocksTypeOK, OnePlaceForEach, NEW woken \in Seq(Tasks), Distinct(woken),
           Queued(woken) \subseteq Waiting, taskrunqueue' = taskrunqueue \o woken
    PROVE  /\ taskrunqueue' \in Seq(Tasks) /\ Distinct(taskrunqueue')
           /\ Queued(taskrunqueue') = Queued(taskrunqueue) \cup Queued(woken)
           /\ taskrunning \notin Queued(taskrunqueue')
<1>1. /\ taskrunqueue \in Seq(Tasks) /\ Distinct(taskrunqueue)
      /\ Queued(taskrunqueue) \cap Queued(woken) = {}
      /\ taskrunning \notin Queued(taskrunqueue) \cup Queued(woken)
  BY DEF LocksTypeOK, OnePlaceForEach
<1> QED BY <1>1, JoinedTasks

(* _qlock, from qlock or at the end of tasksleep. *)
LEMMA AcquireInv ==
    ASSUME LocksInv, NEW t \in Tasks, taskrunning = t, has[t] = "nothing", inside[t] \in {"run", "sleep"},
           _qlock(t), UNCHANGED <<rwlock, rendez, barrier, oops>>
    PROVE  LocksInv'
<1> USE TaskAssumption DEF LocksInv
<1>0. t \notin Waiting /\ t \notin Queued(taskrunqueue)
  BY DEF OnePlaceForEach
<1>1. CASE qlock.owner = Nobody
  <2>1. /\ qlock' = [owner |-> t, waiting |-> qlock.waiting]
        /\ has' = [has EXCEPT ![t] = "qlock"] /\ inside' = [inside EXCEPT ![t] = "run"]
        /\ UNCHANGED <<taskrunning, taskrunqueue>>
    BY <1>1 DEF _qlock, Returns, taskvars, LocksTypeOK
  <2>2. LocksTypeOK'
    BY <2>1 DEF LocksTypeOK
  <2>3. Waiting' = Waiting /\ OnePlaceForEach'
    BY <2>1 DEF OnePlaceForEach, Waiting
  <2>4. WaitingInTheCall'
    BY <1>0, <2>1 DEF WaitingInTheCall, Waiting, LocksTypeOK
  <2>5. QLockPassedOn'
    BY <1>1, <2>1 DEF QLockPassedOn, LocksTypeOK
  <2>6. RWLockPassedOn'
    BY <2>1, RWLockUntouched DEF LocksTypeOK
  <2>7. NobodyWaitsInVain'
    BY <2>1 DEF NobodyWaitsInVain
  <2> QED BY <2>2, <2>3, <2>4, <2>5, <2>6, <2>7
<1>2. CASE qlock.owner # Nobody
  <2> DEFINE line == Append(qlock.waiting, t)
  <2>1. /\ qlock' = [owner |-> qlock.owner, waiting |-> line]
        /\ has' = has /\ inside' = [inside EXCEPT ![t] = "qlock"]
        /\ taskrunning' = Nobody /\ taskrunqueue' = taskrunqueue
    BY <1>2 DEF _qlock, Blocks, SwitchAway, LocksTypeOK
  <2>2. t \notin Queued(qlock.waiting) /\ qlock.waiting \in Seq(Tasks) /\ Distinct(qlock.waiting)
    BY <1>0 DEF Waiting, WaitingInTheCall, LocksTypeOK
  <2>3. /\ line \in Seq(Tasks) /\ Distinct(line)
        /\ Queued(line) = Queued(qlock.waiting) \cup {t}
    BY <2>2, AppendedTask
  <2> HIDE DEF line
  <2>4. LocksTypeOK'
    BY <2>1, <2>3 DEF LocksTypeOK
  <2>5. Waiting' = Waiting \cup {t}
    BY <2>1, <2>3 DEF Waiting
  <2>6. OnePlaceForEach'
    BY <1>0, <2>1, <2>5, ListedTasks DEF OnePlaceForEach
  <2>7. WaitingInTheCall'
    BY <1>0, <2>1, <2>3 DEF WaitingInTheCall, Waiting, LocksTypeOK
  <2>8. QLockPassedOn'
    BY <1>0, <2>1, <2>2, <2>3 DEF QLockPassedOn, LocksTypeOK
  <2>9. RWLockPassedOn'
    BY <2>1, RWLockUntouched DEF LocksTypeOK
  <2>10. NobodyWaitsInVain'
    BY <1>2, <2>1 DEF NobodyWaitsInVain
  <2> QED BY <2>4, <2>6, <2>7, <2>8, <2>9, <2>10
<1> QED BY <1>1, <1>2

(* qunlock, alone or in tasksleep: the first task that waits has the lock. *)
LEMMA ReleaseInv ==
    ASSUME LocksInv, NEW t \in Tasks, Calls(t, "qlock"), qlock' = Released,
           taskrunqueue' = taskrunqueue \o FirstOf(qlock.waiting),
           has' = [has EXCEPT ![t] = "nothing"], UNCHANGED <<rwlock, barrier, oops>>,
           \/ UNCHANGED <<taskrunning, inside, rendez>>
           \/ /\ taskrunning' = Nobody /\ inside' = [inside EXCEPT ![t] = "sleep"]
              /\ rendez' = Append(rendez, t)
    PROVE  LocksInv'
<1> USE TaskAssumption DEF LocksInv
<1> DEFINE first == FirstOf(qlock.waiting)
           next == HeadTask(qlock.waiting)
           rest == RestOf(qlock.waiting)
<1>1. /\ taskrunning = t /\ has[t] = "qlock" /\ inside[t] = "run" /\ ~oops
      /\ t \notin Waiting /\ t \notin Queued(taskrunqueue)
  BY DEF Calls, OnePlaceForEach
<1>2. /\ first \in Seq(Tasks) /\ Distinct(first)
      /\ rest \in Seq(Tasks) /\ Distinct(rest)
      /\ next \in Tasks \cup {Nobody}
      /\ Queued(first) = {next} \ {Nobody}
      /\ Queued(qlock.waiting) = Queued(first) \cup Queued(rest)
      /\ next \notin Queued(rest)
      /\ rest # <<>> => next # Nobody
  BY FirstAndRest DEF WaitingInTheCall, LocksTypeOK
<1>3. qlock' = [owner |-> next, waiting |-> rest]
  BY DEF Released
<1>4. /\ taskrunqueue' \in Seq(Tasks) /\ Distinct(taskrunqueue')
      /\ Queued(taskrunqueue') = Queued(taskrunqueue) \cup Queued(first)
      /\ taskrunning \notin Queued(taskrunqueue')
  <2>1. Queued(first) \subseteq Waiting
    BY <1>2 DEF Waiting
  <2>2. taskrunqueue' = taskrunqueue \o first
    OBVIOUS
  <2> HIDE DEF first
  <2> QED BY <1>2, <2>1, <2>2, WokenTasks
<1>5. /\ rendez' \in Seq(Tasks) /\ Distinct(rendez')
      /\ \/ Queued(rendez') = Queued(rendez) /\ UNCHANGED <<taskrunning, inside>>
         \/ /\ Queued(rendez') = Queued(rendez) \cup {t}
            /\ taskrunning' = Nobody /\ inside' = [inside EXCEPT ![t] = "sleep"]
  <2>1. rendez \in Seq(Tasks) /\ Distinct(rendez) /\ t \notin Queued(rendez)
    BY <1>1 DEF WaitingInTheCall, LocksTypeOK, Waiting
  <2>2. /\ Append(rendez, t) \in Seq(Tasks) /\ Distinct(Append(rendez, t))
        /\ Queued(Append(rendez, t)) = Queued(rendez) \cup {t}
    BY <2>1, AppendedTask
  <2>3. CASE UNCHANGED <<taskrunning, inside, rendez>>
    BY <2>1, <2>3
  <2>4. CASE taskrunning' = Nobody /\ inside' = [inside EXCEPT ![t] = "sleep"] /\ rendez' = Append(rendez, t)
    BY <2>2, <2>4
  <2> QED BY <2>3, <2>4
<1>6. \A u \in Queued(first) : u \notin Queued(rendez) /\ inside[u] = "qlock" /\ u # t
  BY <1>1, <1>2 DEF WaitingInTheCall
<1> HIDE DEF first, next, rest
<1>6a. /\ inside' \in [Tasks -> {"run", "qlock", "rlock", "wlock", "sleep", "barrier"}]
      /\ \A u \in Tasks \ {t} : inside'[u] = inside[u]
      /\ inside'[t] \in {"run", "sleep"} /\ (t \in Queued(rendez') => inside'[t] = "sleep")
      /\ taskrunning' \in Tasks \cup {Nobody}
  <2>1. t \notin Queued(rendez)
    BY <1>1 DEF Waiting
  <2>2. CASE Queued(rendez') = Queued(rendez) /\ UNCHANGED <<taskrunning, inside>>
    BY <1>1, <2>1, <2>2 DEF LocksTypeOK
  <2>3. CASE taskrunning' = Nobody /\ inside' = [inside EXCEPT ![t] = "sleep"]
    BY <2>3 DEF LocksTypeOK
  <2> QED BY <1>5, <2>2, <2>3
<1>7. LocksTypeOK'
  <2>1. qlock' \in [owner : Tasks \cup {Nobody}, waiting : Seq(Tasks)]
    BY <1>2, <1>3
  <2>2. has' \in [Tasks -> {"nothing", "qlock", "rlock", "wlock"}]
    BY DEF LocksTypeOK
  <2>3. UNCHANGED <<rwlock, barrier>>
    OBVIOUS
  <2> QED BY <1>4, <1>5, <1>6a, <2>1, <2>2, <2>3 DEF LocksTypeOK
<1>8. WaitingInTheCall'
  <2>1. \A u \in Tasks \ {t} : u \in Queued(rendez') => u \in Queued(rendez)
    BY <1>5
  <2>2. \A u \in Queued(rendez') : inside'[u] = "sleep"
    BY <1>6a, <1>7, <2>1, ListedTasksNext DEF WaitingInTheCall, Waiting
  <2>3. /\ \A u \in Queued(qlock'.waiting) : inside'[u] = "qlock"
        /\ \A u \in Queued(rwlock'.rwaiting) : inside'[u] = "rlock"
        /\ \A u \in Queued(rwlock'.wwaiting) : inside'[u] = "wlock"
        /\ \A u \in Queued(barrier') : inside'[u] = "barrier"
    BY <1>1, <1>2, <1>3, <1>6a, ListedTasks DEF WaitingInTheCall, Waiting
  <2>4. \A u \in Tasks : inside'[u] # "run" => has'[u] = "nothing"
    BY <1>6a DEF WaitingInTheCall, LocksTypeOK
  <2>5. UNCHANGED <<rwlock, barrier>> /\ Distinct(qlock'.waiting) /\ Distinct(rendez')
    BY <1>2, <1>3, <1>5
  <2> QED BY <2>2, <2>3, <2>4, <2>5 DEF WaitingInTheCall
<1>9. OnePlaceForEach'
  <2>1. Waiting' \subseteq (Waiting \ Queued(first)) \cup (Queued(rendez') \ Queued(rendez))
    BY <1>2, <1>3, <1>5, <1>6 DEF Waiting, WaitingInTheCall
  <2>2. Nobody \notin Queued(taskrunqueue') /\ Nobody \notin Waiting'
    BY <1>7, ListedTasksNext
  <2> QED BY <1>1, <1>4, <1>5, <2>1, <2>2 DEF OnePlaceForEach
<1>10. QLockPassedOn'
  BY <1>1, <1>2, <1>3, <1>5 DEF QLockPassedOn, LocksTypeOK, WaitingInTheCall
<1>11. RWLockPassedOn'
  BY <1>1, <1>5, RWLockUntouched DEF LocksTypeOK
<1>12. NobodyWaitsInVain'
  BY <1>2, <1>3 DEF NobodyWaitsInVain
<1> QED BY <1>7, <1>8, <1>9, <1>10, <1>11, <1>12

-----------------------------------------------------------------------------
(* The running task goes to the end of a waiting list of the RWLock. *)
LEMMA RWBlocksInv ==
    ASSUME LocksInv, NEW t \in Tasks, Calls(t, "nothing"), NEW call \in {"rlock", "wlock"}, Blocks(t, call),
           UNCHANGED <<qlock, rendez, barrier, oops>>,
           rwlock' = [readers |-> rwlock.readers, writer |-> rwlock.writer,
                      rwaiting |-> IF call = "rlock" THEN Append(rwlock.rwaiting, t) ELSE rwlock.rwaiting,
                      wwaiting |-> IF call = "wlock" THEN Append(rwlock.wwaiting, t) ELSE rwlock.wwaiting],
           call = "rlock" => rwlock.writer # Nobody \/ rwlock.wwaiting # <<>>,
           call = "wlock" => rwlock.writer # Nobody \/ rwlock.readers # 0
    PROVE  LocksInv'
<1> USE TaskAssumption DEF LocksInv
<1>1. /\ taskrunning = t /\ has[t] = "nothing" /\ inside[t] = "run" /\ ~oops
      /\ t \notin Waiting /\ t \notin Queued(taskrunqueue)
  BY DEF Calls, OnePlaceForEach
<1>2. /\ inside' = [inside EXCEPT ![t] = call] /\ has' = has
      /\ taskrunning' = Nobody /\ taskrunqueue' = taskrunqueue
  BY DEF Blocks, SwitchAway
<1>3. /\ rwlock.rwaiting \in Seq(Tasks) /\ Distinct(rwlock.rwaiting) /\ t \notin Queued(rwlock.rwaiting)
      /\ rwlock.wwaiting \in Seq(Tasks) /\ Distinct(rwlock.wwaiting) /\ t \notin Queued(rwlock.wwaiting)
  BY <1>1 DEF WaitingInTheCall, LocksTypeOK, Waiting
<1>4. /\ rwlock'.rwaiting \in Seq(Tasks) /\ Distinct(rwlock'.rwaiting)
      /\ Queued(rwlock'.rwaiting) = Queued(rwlock.rwaiting) \cup (IF call = "rlock" THEN {t} ELSE {})
      /\ rwlock'.wwaiting \in Seq(Tasks) /\ Distinct(rwlock'.wwaiting)
      /\ Queued(rwlock'.wwaiting) = Queued(rwlock.wwaiting) \cup (IF call = "wlock" THEN {t} ELSE {})
      /\ call = "rlock" => rwlock'.wwaiting = rwlock.wwaiting
      /\ call = "wlock" => rwlock'.rwaiting = rwlock.rwaiting /\ rwlock'.wwaiting # <<>>
  <2>1. CASE call = "rlock"
    BY <1>3, <2>1, AppendedTask
  <2>2. CASE call = "wlock"
    BY <1>3, <2>2, AppendedTask
  <2> QED BY <2>1, <2>2
<1>5. rwlock'.readers = rwlock.readers /\ rwlock'.writer = rwlock.writer
  OBVIOUS
<1>6. LocksTypeOK'
  <2>1. rwlock' \in [readers : Nat, writer : Tasks \cup {Nobody}, rwaiting : Seq(Tasks), wwaiting : Seq(Tasks)]
    BY <1>4 DEF LocksTypeOK
  <2> QED BY <1>2, <2>1 DEF LocksTypeOK
<1>7. Waiting' = Waiting \cup {t}
  BY <1>4 DEF Waiting
<1>8. OnePlaceForEach'
  BY <1>1, <1>2, <1>6, <1>7, ListedTasksNext DEF OnePlaceForEach
<1>9. WaitingInTheCall'
  BY <1>1, <1>2, <1>4 DEF WaitingInTheCall, Waiting, LocksTypeOK
<1>10. QLockPassedOn'
  BY <1>1, <1>2, QLockUntouched DEF LocksTypeOK
<1>11. RWLockPassedOn'
  <2>1. LetIn' = LetIn
    BY <1>1, <1>2, <1>3, <1>4 DEF LetIn, LocksTypeOK
  <2>2. ASSUME NEW u \in Tasks
        PROVE  (inside'[u] = "wlock" /\ u \notin Queued(rwlock'.wwaiting))
                 <=> (inside[u] = "wlock" /\ u \notin Queued(rwlock.wwaiting))
    BY <1>1, <1>2, <1>3, <1>4 DEF LocksTypeOK
  <2> QED BY <1>2, <1>5, <2>1, <2>2 DEF RWLockPassedOn
<1>12. NobodyWaitsInVain'
  BY <1>4, <1>5 DEF NobodyWaitsInVain, LocksTypeOK
<1> QED BY <1>6, <1>8, <1>9, <1>10, <1>11, <1>12

(* rlock: a reader that is let in at once is counted. *)
LEMMA RLockInv ==
    ASSUME LocksInv, NEW t \in Tasks, RLock(t)
    PROVE  LocksInv'
<1> USE TaskAssumption DEF LocksInv
<1>1. CASE ~(rwlock.writer = Nobody /\ rwlock.wwaiting = <<>>)
  <2>1. rwlock' = [readers |-> rwlock.readers, writer |-> rwlock.writer,
                   rwaiting |-> Append(rwlock.rwaiting, t), wwaiting |-> rwlock.wwaiting]
    BY <1>1 DEF RLock, LocksTypeOK
  <2> QED BY <1>1, <2>1, RWBlocksInv DEF RLock
<1>2. CASE rwlock.writer = Nobody /\ rwlock.wwaiting = <<>>
  <2>1. /\ taskrunning = t /\ has[t] = "nothing" /\ inside[t] = "run" /\ ~oops
        /\ t \notin Waiting
    BY DEF RLock, Calls, OnePlaceForEach
  <2>2. /\ rwlock' = [rwlock EXCEPT !.readers = @ + 1]
        /\ has' = [has EXCEPT ![t] = "rlock"] /\ inside' = [inside EXCEPT ![t] = "run"]
        /\ UNCHANGED <<taskrunning, taskrunqueue, qlock, rendez, barrier, oops>>
    BY <1>2 DEF RLock, Returns, taskvars
  <2>3. LocksTypeOK'
    <3>1. rwlock' \in [readers : Nat, writer : Tasks \cup {Nobody}, rwaiting : Seq(Tasks), wwaiting : Seq(Tasks)]
      BY <2>2 DEF LocksTypeOK
    <3> QED BY <2>2, <3>1 DEF LocksTypeOK
  <2>4. /\ rwlock'.writer = rwlock.writer /\ rwlock'.readers = rwlock.readers + 1
        /\ rwlock'.rwaiting = rwlock.rwaiting /\ rwlock'.wwaiting = rwlock.wwaiting
    BY <2>2 DEF LocksTypeOK
  <2>5. Waiting' = Waiting
    BY <2>2, <2>4 DEF Waiting
  <2>6. OnePlaceForEach'
    BY <2>2, <2>5 DEF OnePlaceForEach
  <2>7. WaitingInTheCall'
    BY <2>1, <2>2, <2>4 DEF WaitingInTheCall, Waiting, LocksTypeOK
  <2>8. QLockPassedOn'
    BY <2>1, <2>2, QLockUntouched DEF LocksTypeOK
  <2>9. RWLockPassedOn'
    <3>1. LetIn' = LetIn \cup {t} /\ t \notin LetIn
      BY <2>1, <2>2, <2>4 DEF LetIn, LocksTypeOK
    <3>2. IsFiniteSet(LetIn') /\ Cardinality(LetIn') = Cardinality(LetIn) + 1
      BY <3>1, FS_AddElement DEF RWLockPassedOn
    <3>3. \A u \in Tasks : /\ has'[u] = "wlock" <=> has[u] = "wlock"
                           /\ inside'[u] = "wlock" <=> inside[u] = "wlock"
      BY <2>1, <2>2 DEF LocksTypeOK
    <3> QED BY <1>2, <2>4, <3>2, <3>3 DEF RWLockPassedOn
  <2>10. NobodyWaitsInVain'
    BY <1>2, <2>2, <2>4 DEF NobodyWaitsInVain
  <2> QED BY <2>3, <2>6, <2>7, <2>8, <2>9, <2>10
<1> QED BY <1>1, <1>2

(* wlock: the lock is free, or the task waits. *)
LEMMA WLockInv ==
    ASSUME LocksInv, NEW t \in Tasks, WLock(t)
    PROVE  LocksInv'
<1> USE TaskAssumption DEF LocksInv
<1>1. CASE ~(rwlock.writer = Nobody /\ rwlock.readers = 0)
  <2>1. rwlock' = [readers |-> rwlock.readers, writer |-> rwlock.writer,
                   rwaiting |-> rwlock.rwaiting, wwaiting |-> Append(rwlock.wwaiting, t)]
    BY <1>1 DEF WLock, LocksTypeOK
  <2> QED BY <1>1, <2>1, RWBlocksInv DEF WLock
<1>2. CASE rwlock.writer = Nobody /\ rwlock.readers = 0
  <2>1. /\ taskrunning = t /\ has[t] = "nothing" /\ inside[t] = "run" /\ ~oops
        /\ t \notin Waiting
    BY DEF WLock, Calls, OnePlaceForEach
  <2>2. /\ rwlock' = [rwlock EXCEPT !.writer = t]
        /\ has' = [has EXCEPT ![t] = "wlock"] /\ inside' = [inside EXCEPT ![t] = "run"]
        /\ UNCHANGED <<taskrunning, taskrunqueue, qlock, rendez, barrier, oops>>
    BY <1>2 DEF WLock, Returns, taskvars
  <2>3. LocksTypeOK'
    BY <2>2 DEF LocksTypeOK
  <2>4. /\ rwlock'.writer = t /\ rwlock'.readers = rwlock.readers
        /\ rwlock'.rwaiting = rwlock.rwaiting /\ rwlock'.wwaiting = rwlock.wwaiting
    BY <2>2 DEF LocksTypeOK
  <2>5. Waiting' = Waiting
    BY <2>2, <2>4 DEF Waiting
  <2>6. OnePlaceForEach'
    BY <2>2, <2>5 DEF OnePlaceForEach
  <2>7. WaitingInTheCall'
    BY <2>1, <2>2, <2>4 DEF WaitingInTheCall, Waiting, LocksTypeOK
  <2>8. QLockPassedOn'
    BY <2>1, <2>2, QLockUntouched DEF LocksTypeOK
  <2>9. RWLockPassedOn'
    <3>1. LetIn' = LetIn
      BY <2>1, <2>2, <2>4 DEF LetIn, LocksTypeOK
    <3> QED BY <1>2, <2>1, <2>2, <2>4, <3>1 DEF RWLockPassedOn, LocksTypeOK
  <2>10. NobodyWaitsInVain'
    BY <1>2, <2>2, <2>4 DEF NobodyWaitsInVain
  <2> QED BY <2>3, <2>6, <2>7, <2>8, <2>9, <2>10
<1> QED BY <1>1, <1>2

-----------------------------------------------------------------------------
(* The last holder passes the lock on: to the first writer that waits, or to nobody. *)
LEMMA PassToWriterInv ==
    ASSUME LocksInv, NEW t \in Tasks, NEW held \in {"rlock", "wlock"}, Calls(t, held),
           LetIn \subseteq {t}, held = "wlock" => rwlock.rwaiting = <<>>,
           rwlock' = [readers |-> 0, writer |-> HeadTask(rwlock.wwaiting),
                      rwaiting |-> rwlock.rwaiting, wwaiting |-> RestOf(rwlock.wwaiting)],
           taskrunqueue' = taskrunqueue \o FirstOf(rwlock.wwaiting), taskrunning' = taskrunning,
           has' = [has EXCEPT ![t] = "nothing"], inside' = [inside EXCEPT ![t] = "run"],
           UNCHANGED <<qlock, rendez, barrier, oops>>
    PROVE  LocksInv'
<1> USE TaskAssumption DEF LocksInv
<1> DEFINE first == FirstOf(rwlock.wwaiting)
           next == HeadTask(rwlock.wwaiting)
           rest == RestOf(rwlock.wwaiting)
<1>1. /\ taskrunning = t /\ has[t] = held /\ inside[t] = "run" /\ ~oops
      /\ t \notin Waiting /\ t \notin Queued(taskrunqueue)
  BY DEF Calls, OnePlaceForEach
<1>2. /\ first \in Seq(Tasks) /\ Distinct(first)
      /\ rest \in Seq(Tasks) /\ Distinct(rest)
      /\ next \in Tasks \cup {Nobody}
      /\ Queued(first) = {next} \ {Nobody}
      /\ Queued(rwlock.wwaiting) = Queued(first) \cup Queued(rest)
      /\ next \notin Queued(rest)
      /\ rest # <<>> => next # Nobody
      /\ rwlock.wwaiting # <<>> => next # Nobody
  BY FirstAndRest DEF WaitingInTheCall, LocksTypeOK
<1>3. /\ rwlock'.readers = 0 /\ rwlock'.writer = next
      /\ rwlock'.rwaiting = rwlock.rwaiting /\ rwlock'.wwaiting = rest
  OBVIOUS
<1>4. /\ taskrunqueue' \in Seq(Tasks) /\ Distinct(taskrunqueue')
      /\ Queued(taskrunqueue') = Queued(taskrunqueue) \cup Queued(first)
      /\ taskrunning \notin Queued(taskrunqueue')
  <2>1. Queued(first) \subseteq Waiting
    BY <1>2 DEF Waiting
  <2>2. taskrunqueue' = taskrunqueue \o first
    OBVIOUS
  <2> HIDE DEF first
  <2> QED BY <1>2, <2>1, <2>2, WokenTasks
<1>5. \A u \in Queued(first) : inside[u] = "wlock" /\ u # t
  BY <1>1, <1>2 DEF WaitingInTheCall
<1>6. rwlock' \in [readers : Nat, writer : Tasks \cup {Nobody}, rwaiting : Seq(Tasks), wwaiting : Seq(Tasks)]
  BY <1>2 DEF LocksTypeOK
<1> HIDE DEF first, next, rest
<1>7. LocksTypeOK'
  BY <1>4, <1>6 DEF LocksTypeOK
<1>8. WaitingInTheCall'
  BY <1>1, <1>2, <1>3 DEF WaitingInTheCall, LocksTypeOK, Waiting
<1>9. OnePlaceForEach'
  <2>1. Waiting' \subseteq Waiting \ Queued(first)
    BY <1>2, <1>3, <1>5 DEF Waiting, WaitingInTheCall
  <2> QED BY <1>1, <1>4, <2>1 DEF OnePlaceForEach
<1>10. QLockPassedOn'
  BY <1>1, QLockUntouched DEF LocksTypeOK
<1>11. RWLockPassedOn'
  <2>1. LetIn' = {}
    BY <1>1, <1>3 DEF LetIn, LocksTypeOK
  <2>2. ASSUME NEW u \in Tasks
        PROVE  rwlock'.writer = u <=> \/ has'[u] = "wlock"
                                      \/ inside'[u] = "wlock" /\ u \notin Queued(rwlock'.wwaiting)
    <3>1. \A w \in Tasks : w # t => ~(has[w] = "wlock" \/ (inside[w] = "wlock" /\ w \notin Queued(rwlock.wwaiting)))
      <4>1. rwlock.writer \in {t, Nobody}
        BY <1>1, FS_EmptySet DEF RWLockPassedOn, LetIn
      <4> QED BY <4>1 DEF RWLockPassedOn
    <3>2. CASE u = t
      BY <1>1, <1>2, <1>3, <1>5, <3>2 DEF LocksTypeOK
    <3>3. CASE u # t /\ u = next
      <4>1. u \in Queued(first) /\ inside'[u] = inside[u]
        BY <1>2, <3>3 DEF LocksTypeOK
      <4> QED BY <1>2, <1>3, <1>5, <3>3, <4>1
    <3>4. CASE u # t /\ u # next
      <4>1. has'[u] = has[u] /\ inside'[u] = inside[u]
        BY <3>4 DEF LocksTypeOK
      <4>2. ~(has[u] = "wlock" \/ (inside[u] = "wlock" /\ u \notin Queued(rwlock.wwaiting)))
        BY <3>1, <3>4
      <4>3. u \notin Queued(first)
        BY <1>2, <3>4
      <4> QED BY <1>2, <1>3, <3>4, <4>1, <4>2, <4>3
    <3> QED BY <3>2, <3>3, <3>4
  <2> QED BY <1>3, <2>1, <2>2, FS_EmptySet DEF RWLockPassedOn
<1>12. NobodyWaitsInVain'
  <2>1. CASE held = "wlock"
    BY <1>2, <1>3, <2>1 DEF NobodyWaitsInVain
  <2>2. CASE held = "rlock"
    <3>1. rwlock.writer = Nobody
      BY <1>1, <2>2, FS_EmptySet DEF RWLockPassedOn, LetIn
    <3> QED BY <1>2, <1>3, <3>1 DEF NobodyWaitsInVain
  <2> QED BY <2>1, <2>2
<1> QED BY <1>7, <1>8, <1>9, <1>10, <1>11, <1>12

(* runlock: a reader fewer, and the last one passes the lock on. *)
LEMMA RUnlockInv ==
    ASSUME LocksInv, NEW t \in Tasks, RUnlock(t)
    PROVE  LocksInv'
<1> USE TaskAssumption DEF LocksInv
<1>1. /\ taskrunning = t /\ has[t] = "rlock" /\ inside[t] = "run" /\ ~oops
      /\ t \notin Waiting
  BY DEF RUnlock, Calls, OnePlaceForEach
<1>2. /\ t \in LetIn /\ IsFiniteSet(LetIn \ {t})
      /\ Cardinality(LetIn \ {t}) = rwlock.readers - 1
      /\ rwlock.readers \in Nat \ {0}
  <2>1. t \in LetIn
    BY <1>1 DEF LetIn
  <2>2. Cardinality(LetIn) # 0
    BY <2>1, FS_EmptySet DEF RWLockPassedOn
  <2> QED BY <2>1, <2>2, FS_RemoveElement DEF RWLockPassedOn, LocksTypeOK
<1>3. rwlock.writer = Nobody
  BY <1>2 DEF RWLockPassedOn
<1>4. /\ UNCHANGED <<qlock, rendez, barrier, oops, taskrunning>>
      /\ has' = [has EXCEPT ![t] = "nothing"] /\ inside' = [inside EXCEPT ![t] = "run"]
  BY DEF RUnlock, Returns, Wakes
<1>5. CASE rwlock.readers - 1 = 0
  <2>1. LetIn \subseteq {t}
    BY <1>2, <1>5, FS_EmptySet
  <2>2. rwlock' = [readers |-> 0, writer |-> HeadTask(rwlock.wwaiting),
                   rwaiting |-> rwlock.rwaiting, wwaiting |-> RestOf(rwlock.wwaiting)]
    BY <1>5 DEF RUnlock, PassToWriter, LocksTypeOK
  <2>3. taskrunqueue' = taskrunqueue \o FirstOf(rwlock.wwaiting)
    BY <1>5 DEF RUnlock, PassToWriter, LocksTypeOK, Wakes
  <2> QED BY <1>4, <2>1, <2>2, <2>3, PassToWriterInv DEF RUnlock
<1>6. CASE rwlock.readers - 1 # 0
  <2>1. /\ rwlock' = [rwlock EXCEPT !.readers = @ - 1]
        /\ taskrunqueue' = taskrunqueue
    BY <1>6 DEF RUnlock, Wakes, LocksTypeOK
  <2>2. /\ rwlock'.writer = rwlock.writer /\ rwlock'.readers = rwlock.readers - 1
        /\ rwlock'.rwaiting = rwlock.rwaiting /\ rwlock'.wwaiting = rwlock.wwaiting
    BY <2>1 DEF LocksTypeOK
  <2>3. LocksTypeOK'
    <3>1. rwlock.readers - 1 \in Nat
      BY <1>2
    <3>2. rwlock' \in [readers : Nat, writer : Tasks \cup {Nobody}, rwaiting : Seq(Tasks), wwaiting : Seq(Tasks)]
      BY <2>1, <3>1 DEF LocksTypeOK
    <3> QED BY <1>4, <2>1, <3>2 DEF LocksTypeOK
  <2>4. Waiting' = Waiting
    BY <1>4, <2>2 DEF Waiting
  <2>5. OnePlaceForEach'
    BY <1>4, <2>1, <2>4 DEF OnePlaceForEach
  <2>6. WaitingInTheCall'
    BY <1>1, <1>4, <2>2 DEF WaitingInTheCall, Waiting, LocksTypeOK
  <2>7. QLockPassedOn'
    BY <1>1, <1>4, QLockUntouched DEF LocksTypeOK
  <2>8. RWLockPassedOn'
    <3>1. LetIn' = LetIn \ {t}
      BY <1>1, <1>4, <2>2 DEF LetIn, LocksTypeOK
    <3>2. \A u \in Tasks : /\ has'[u] = "wlock" <=> has[u] = "wlock"
                           /\ inside'[u] = "wlock" <=> inside[u] = "wlock"
      BY <1>1, <1>4 DEF LocksTypeOK
    <3> QED BY <1>2, <1>3, <2>2, <3>1, <3>2 DEF RWLockPassedOn
  <2>9. NobodyWaitsInVain'
    BY <1>2, <1>3, <1>4, <1>6, <2>2 DEF NobodyWaitsInVain
  <2> QED BY <2>3, <2>5, <2>6, <2>7, <2>8, <2>9
<1> QED BY <1>5, <1>6

(* wunlock: all the readers that wait are let in, or the next writer is. *)
LEMMA WUnlockInv ==
    ASSUME LocksInv, NEW t \in Tasks, WUnlock(t)
    PROVE  LocksInv'
<1> USE TaskAssumption DEF LocksInv
<1>1. /\ taskrunning = t /\ has[t] = "wlock" /\ inside[t] = "run" /\ ~oops
      /\ t \notin Waiting /\ t \notin Queued(taskrunqueue)
  BY DEF WUnlock, Calls, OnePlaceForEach
<1>2. rwlock.writer = t /\ rwlock.readers = 0 /\ LetIn = {}
  BY <1>1, FS_EmptySet DEF RWLockPassedOn
<1>3. /\ UNCHANGED <<qlock, rendez, barrier, taskrunning, oops>>
      /\ has' = [has EXCEPT ![t] = "nothing"] /\ inside' = [inside EXCEPT ![t] = "run"]
  BY <1>1, <1>2 DEF WUnlock, Returns, Wakes, LocksTypeOK
<1>4. /\ rwlock.rwaiting \in Seq(Tasks) /\ Distinct(rwlock.rwaiting)
      /\ Len(rwlock.rwaiting) \in Nat
      /\ Len(rwlock.rwaiting) = 0 => rwlock.rwaiting = <<>>
  BY DEF LocksTypeOK, WaitingInTheCall
<1> DEFINE l == [rwlock EXCEPT !.writer = Nobody, !.readers = @ + Len(rwlock.rwaiting), !.rwaiting = <<>>]
<1>4a. l = [readers |-> Len(rwlock.rwaiting), writer |-> Nobody, rwaiting |-> <<>>, wwaiting |-> rwlock.wwaiting]
  <2>1. /\ l.readers = Len(rwlock.rwaiting) /\ l.writer = Nobody
        /\ l.rwaiting = <<>> /\ l.wwaiting = rwlock.wwaiting
    BY <1>2, <1>4 DEF LocksTypeOK
  <2>2. DOMAIN l = {"readers", "writer", "rwaiting", "wwaiting"} /\ l = [x \in DOMAIN l |-> l[x]]
    BY DEF LocksTypeOK
  <2> HIDE DEF l
  <2> QED BY <2>1, <2>2
<1>4b. /\ l.readers = 0 => rwlock' = PassToWriter(l) /\ Wakes(FirstOf(l.wwaiting))
       /\ l.readers # 0 => rwlock' = l /\ Wakes(rwlock.rwaiting)
  BY DEF WUnlock
<1> HIDE DEF l
<1>5. CASE Len(rwlock.rwaiting) = 0
  <2>1. rwlock' = [readers |-> 0, writer |-> HeadTask(rwlock.wwaiting),
                   rwaiting |-> rwlock.rwaiting, wwaiting |-> RestOf(rwlock.wwaiting)]
    BY <1>4, <1>4a, <1>4b, <1>5 DEF PassToWriter
  <2>2. taskrunqueue' = taskrunqueue \o FirstOf(rwlock.wwaiting)
    BY <1>4a, <1>4b, <1>5 DEF Wakes
  <2> QED BY <1>1, <1>2, <1>3, <1>4, <1>5, <2>1, <2>2, PassToWriterInv DEF WUnlock
<1>6. CASE Len(rwlock.rwaiting) # 0
  <2>1. /\ rwlock' = [readers |-> Len(rwlock.rwaiting), writer |-> Nobody,
                      rwaiting |-> <<>>, wwaiting |-> rwlock.wwaiting]
        /\ taskrunqueue' = taskrunqueue \o rwlock.rwaiting
    BY <1>4a, <1>4b, <1>6 DEF Wakes
  <2>2. /\ taskrunqueue' \in Seq(Tasks) /\ Distinct(taskrunqueue')
        /\ Queued(taskrunqueue') = Queued(taskrunqueue) \cup Queued(rwlock.rwaiting)
        /\ taskrunning \notin Queued(taskrunqueue')
    <3>1. Queued(rwlock.rwaiting) \subseteq Waiting
      BY DEF Waiting
    <3> QED BY <1>4, <2>1, <3>1, WokenTasks
  <2>3. LocksTypeOK'
    <3>1. rwlock' \in [readers : Nat, writer : Tasks \cup {Nobody}, rwaiting : Seq(Tasks), wwaiting : Seq(Tasks)]
      BY <1>4, <2>1, EmptyList DEF LocksTypeOK
    <3> QED BY <1>3, <2>2, <3>1 DEF LocksTypeOK
  <2>4. Waiting' \subseteq Waiting \ Queued(rwlock.rwaiting)
    BY <1>3, <2>1, EmptyList DEF Waiting, WaitingInTheCall
  <2>5. OnePlaceForEach'
    BY <1>1, <1>3, <2>2, <2>4 DEF OnePlaceForEach
  <2>6. WaitingInTheCall'
    BY <1>1, <1>3, <2>1, EmptyList DEF WaitingInTheCall, Waiting, LocksTypeOK
  <2>7. QLockPassedOn'
    BY <1>1, <1>3, QLockUntouched DEF LocksTypeOK
  <2>8. RWLockPassedOn'
    <3>1. LetIn' = Queued(rwlock.rwaiting)
      <4>1. LetIn' = {u \in Tasks : has'[u] = "rlock" \/ inside'[u] = "rlock"}
        BY <2>1, EmptyList DEF LetIn
      <4>2. Queued(rwlock.rwaiting) = {u \in Tasks : inside[u] = "rlock"}
        BY <1>2, ListedTasks DEF LetIn, WaitingInTheCall
      <4>3. \A u \in Tasks : has[u] # "rlock"
        BY <1>2 DEF LetIn
      <4> QED BY <1>1, <1>3, <4>1, <4>2, <4>3 DEF LocksTypeOK
    <3>2. \A u \in Tasks : ~(has'[u] = "wlock" \/ (inside'[u] = "wlock" /\ u \notin Queued(rwlock'.wwaiting)))
      BY <1>1, <1>2, <1>3, <2>1 DEF RWLockPassedOn, LocksTypeOK
    <3>3. IsFiniteSet(Queued(rwlock.rwaiting)) /\ Cardinality(Queued(rwlock.rwaiting)) = Len(rwlock.rwaiting)
      BY <1>4, ListLength
    <3>4. rwlock'.readers = Len(rwlock.rwaiting) /\ rwlock'.writer = Nobody
      BY <2>1
    <3>5. IsFiniteSet(LetIn') /\ rwlock'.readers = Cardinality(LetIn')
      BY <3>1, <3>3, <3>4
    <3>6. \A u \in Tasks : rwlock'.writer # u
      BY <3>4
    <3>7. \A u \in Tasks :
             rwlock'.writer = u <=> \/ has'[u] = "wlock"
                                    \/ inside'[u] = "wlock" /\ u \notin Queued(rwlock'.wwaiting)
      BY <3>2, <3>6
    <3>8. rwlock'.writer # Nobody => rwlock'.readers = 0
      BY <3>4
    <3> QED BY <3>5, <3>7, <3>8 DEF RWLockPassedOn
  <2>9. NobodyWaitsInVain'
    BY <1>3, <1>4, <1>6, <2>1 DEF NobodyWaitsInVain
  <2> QED BY <2>3, <2>5, <2>6, <2>7, <2>8, <2>9
<1> QED BY <1>5, <1>6

-----------------------------------------------------------------------------
(* Steps that leave both locks alone keep what is known of their owners. *)
LEMMA LocksUntouched ==
    ASSUME LocksInv, UNCHANGED <<qlock, rwlock, oops, has>>,
           \A t \in Tasks : \A call \in {"qlock", "rlock", "wlock"} : inside'[t] = call <=> inside[t] = call,
           LocksTypeOK', OnePlaceForEach', WaitingInTheCall'
    PROVE  LocksInv'
<1>1. QLockPassedOn'
  BY QLockUntouched DEF LocksInv
<1>2. RWLockPassedOn'
  BY RWLockUntouched DEF LocksInv
<1>3. NobodyWaitsInVain'
  BY DEF LocksInv, NobodyWaitsInVain
<1> QED BY <1>1, <1>2, <1>3 DEF LocksInv

(* taskwakeup and taskwakeupall: who is woken is still inside tasksleep. *)
LEMMA TaskWakeupInv ==
    ASSUME LocksInv, NEW t \in Tasks, TaskWakeup(t)
    PROVE  LocksInv'
<1> USE DEF LocksInv
<1>1. /\ UNCHANGED <<qlock, rwlock, barrier, inside, has, oops, taskrunning>>
      /\ taskrunning = t
  BY DEF TaskWakeup, Wakes, Calls
<1>2. PICK woken \in Seq(Tasks) :
        /\ taskrunqueue' = taskrunqueue \o woken /\ Distinct(woken)
        /\ rendez' \in Seq(Tasks) /\ Distinct(rendez')
        /\ Queued(rendez) = Queued(rendez') \cup Queued(woken)
        /\ Queued(rendez') \cap Queued(woken) = {}
  <2>1. rendez \in Seq(Tasks) /\ Distinct(rendez) /\ rendez # <<>>
    BY DEF LocksTypeOK, WaitingInTheCall, TaskWakeup
  <2>2. CASE rendez' = Tail(rendez) /\ Wakes(FirstOf(rendez))
    <3>1. /\ FirstOf(rendez) \in Seq(Tasks) /\ Distinct(FirstOf(rendez))
          /\ Queued(rendez) = Queued(FirstOf(rendez)) \cup Queued(RestOf(rendez))
          /\ Queued(FirstOf(rendez)) = {HeadTask(rendez)} \ {Nobody}
          /\ HeadTask(rendez) \notin Queued(RestOf(rendez))
          /\ RestOf(rendez) \in Seq(Tasks) /\ Distinct(RestOf(rendez))
      BY <2>1, FirstAndRest
    <3>2. rendez' = RestOf(rendez) /\ taskrunqueue' = taskrunqueue \o FirstOf(rendez)
      BY <2>1, <2>2 DEF RestOf, Wakes
    <3> QED BY <3>1, <3>2
  <2>3. CASE rendez' = <<>> /\ Wakes(rendez)
    BY <2>1, <2>3, EmptyList DEF Wakes
  <2> QED BY <2>2, <2>3 DEF TaskWakeup
<1>3. /\ taskrunqueue' \in Seq(Tasks) /\ Distinct(taskrunqueue')
      /\ Queued(taskrunqueue') = Queued(taskrunqueue) \cup Queued(woken)
      /\ taskrunning \notin Queued(taskrunqueue')
  <2>1. Queued(woken) \subseteq Waiting
    BY <1>2 DEF Waiting
  <2> QED BY <1>2, <2>1, WokenTasks
<1>4. LocksTypeOK'
  BY <1>1, <1>2, <1>3 DEF LocksTypeOK
<1>5. OnePlaceForEach'
  <2>1. Waiting' \subseteq Waiting \ Queued(woken)
    BY <1>1, <1>2 DEF Waiting, WaitingInTheCall
  <2> QED BY <1>1, <1>3, <2>1 DEF OnePlaceForEach
<1>6. WaitingInTheCall'
  BY <1>1, <1>2 DEF WaitingInTheCall
<1> QED BY <1>1, <1>4, <1>5, <1>6, LocksUntouched

(* taskbarrier: the task waits, or all who wait are woken. *)
LEMMA TaskBarrierInv ==
    ASSUME LocksInv, NEW t \in Tasks, TaskBarrier(t)
    PROVE  LocksInv'
<1> USE TaskAssumption DEF LocksInv
<1>1. /\ UNCHANGED <<qlock, rwlock, rendez, oops>>
      /\ taskrunning = t /\ inside[t] = "run" /\ has[t] = "nothing"
      /\ t \notin Waiting /\ t \notin Queued(taskrunqueue)
  BY DEF TaskBarrier, Calls, OnePlaceForEach
<1>2. CASE barrier = <<>>
  <2>1. /\ barrier' = <<t>> /\ inside' = [inside EXCEPT ![t] = "barrier"] /\ has' = has
        /\ taskrunning' = Nobody /\ taskrunqueue' = taskrunqueue
    BY <1>2 DEF TaskBarrier, Blocks, SwitchAway
  <2>2. barrier' \in Seq(Tasks) /\ Queued(barrier') = {t} /\ Distinct(barrier')
    BY <2>1 DEF Queued, Distinct
  <2>3. LocksTypeOK'
    BY <1>1, <2>1, <2>2 DEF LocksTypeOK
  <2>4. OnePlaceForEach'
    <3>1. Waiting' = Waiting \cup {t}
      BY <1>1, <1>2, <2>2, EmptyList DEF Waiting
    <3> QED BY <1>1, <2>1, <2>3, <3>1, ListedTasksNext DEF OnePlaceForEach
  <2>5. WaitingInTheCall'
    <3>1. \A u \in Waiting : inside'[u] = inside[u]
      BY <1>1, <2>1, ListedTasks DEF LocksTypeOK
    <3>2. inside'[t] = "barrier" /\ \A u \in Tasks : u # t => inside'[u] = inside[u]
      BY <2>1 DEF LocksTypeOK
    <3> QED BY <1>1, <2>1, <2>2, <3>1, <3>2 DEF WaitingInTheCall, Waiting
  <2>6. \A u \in Tasks : \A call \in {"qlock", "rlock", "wlock"} : inside'[u] = call <=> inside[u] = call
    BY <1>1, <2>1 DEF LocksTypeOK
  <2> QED BY <1>1, <2>1, <2>3, <2>4, <2>5, <2>6, LocksUntouched
<1>3. CASE barrier # <<>>
  <2>1. /\ barrier' = <<>> /\ taskrunqueue' = taskrunqueue \o barrier
        /\ UNCHANGED <<taskrunning, inside, has>>
    BY <1>3 DEF TaskBarrier, Wakes
  <2>2. /\ taskrunqueue' \in Seq(Tasks) /\ Distinct(taskrunqueue')
        /\ Queued(taskrunqueue') = Queued(taskrunqueue) \cup Queued(barrier)
        /\ taskrunning \notin Queued(taskrunqueue')
    <3>1. barrier \in Seq(Tasks) /\ Distinct(barrier) /\ Queued(barrier) \subseteq Waiting
      BY DEF LocksTypeOK, WaitingInTheCall, Waiting
    <3> QED BY <2>1, <3>1, WokenTasks
  <2>3. LocksTypeOK'
    BY <1>1, <2>1, <2>2, EmptyList DEF LocksTypeOK
  <2>4. OnePlaceForEach'
    <3>1. Waiting' \subseteq Waiting \ Queued(barrier)
      BY <1>1, <2>1, EmptyList DEF Waiting, WaitingInTheCall
    <3> QED BY <2>1, <2>2, <3>1 DEF OnePlaceForEach
  <2>5. WaitingInTheCall'
    BY <1>1, <2>1, EmptyList DEF WaitingInTheCall
  <2> QED BY <1>1, <2>1, <2>3, <2>4, <2>5, LocksUntouched
<1> QED BY <1>2, <1>3

(* taskyield, and taskscheduler: only the run queue changes. *)
LEMMA TurnsInv ==
    ASSUME LocksInv, UNCHANGED <<qlock, rwlock, rendez, barrier, inside, has, oops>>,
           RunHead \/ (taskrunning \in Tasks /\ YieldTurn)
    PROVE  LocksInv'
<1> USE TaskAssumption DEF LocksInv
<1>1. Waiting' = Waiting
  BY DEF Waiting
<1>2. CASE RunHead
  <2>1. /\ taskrunqueue \in Seq(Tasks) /\ Distinct(taskrunqueue) /\ taskrunqueue # <<>>
        /\ taskrunqueue' = Tail(taskrunqueue) /\ taskrunning' = Head(taskrunqueue)
    BY <1>2 DEF RunHead, LocksTypeOK, OnePlaceForEach
  <2>2. /\ taskrunning' \in Tasks
        /\ taskrunqueue' \in Seq(Tasks) /\ Distinct(taskrunqueue')
        /\ Queued(taskrunqueue) = Queued(taskrunqueue') \cup {taskrunning'}
        /\ taskrunning' \notin Queued(taskrunqueue')
    BY <2>1, TakenFirst
  <2>3. LocksTypeOK'
    BY <2>2 DEF LocksTypeOK
  <2>4. OnePlaceForEach'
    BY <1>1, <2>2 DEF OnePlaceForEach
  <2>5. WaitingInTheCall'
    BY DEF WaitingInTheCall
  <2> QED BY <2>3, <2>4, <2>5, LocksUntouched
<1>3. CASE taskrunning \in Tasks /\ YieldTurn
  <2>1. /\ taskrunqueue \in Seq(Tasks) /\ Distinct(taskrunqueue)
        /\ taskrunqueue' = Append(taskrunqueue, taskrunning) /\ taskrunning' = Nobody
        /\ taskrunning \notin Queued(taskrunqueue) /\ taskrunning \notin Waiting
    BY <1>3 DEF YieldTurn, LocksTypeOK, OnePlaceForEach
  <2>2. /\ taskrunqueue' \in Seq(Tasks) /\ Distinct(taskrunqueue')
        /\ Queued(taskrunqueue') = Queued(taskrunqueue) \cup {taskrunning}
    BY <1>3, <2>1, AppendedTask
  <2>3. LocksTypeOK'
    BY <2>1, <2>2 DEF LocksTypeOK
  <2>4. OnePlaceForEach'
    BY <1>1, <2>1, <2>2, <2>3, ListedTasksNext DEF OnePlaceForEach
  <2>5. WaitingInTheCall'
    BY DEF WaitingInTheCall
  <2> QED BY <2>3, <2>4, <2>5, LocksUntouched
<1> QED BY <1>2, <1>3

(* taskswitch has returned: the task leaves its call, with what it was given. *)
LEMMA ResumesInv ==
    ASSUME LocksInv, NEW t \in Tasks, Resumes(t)
    PROVE  LocksInv'
<1> USE DEF LocksInv
<1>1. /\ taskrunning = t /\ inside[t] # "run" /\ has[t] = "nothing" /\ ~oops
      /\ t \notin Waiting
      /\ UNCHANGED <<rwlock, rendez, barrier>>
  BY DEF Resumes, OnePlaceForEach, WaitingInTheCall
<1>2. CASE inside[t] = "sleep"
  BY <1>1, <1>2, AcquireInv DEF Resumes
<1>3. CASE inside[t] # "sleep"
  <2>1. PICK what \in {"nothing", "qlock", "rlock", "wlock"} :
           /\ what = IF inside[t] = "barrier" THEN "nothing" ELSE inside[t]
           /\ Returns(t, what) /\ UNCHANGED <<taskvars, qlock>>
           /\ inside[t] = "qlock" => oops' = (qlock.owner # t)
           /\ inside[t] # "qlock" => oops' = oops
    BY <1>3 DEF Resumes
  <2>2. /\ has' = [has EXCEPT ![t] = what] /\ inside' = [inside EXCEPT ![t] = "run"]
        /\ UNCHANGED <<taskrunning, taskrunqueue, qlock>>
    BY <2>1 DEF Returns, taskvars
  <2>3. inside[t] = "qlock" => qlock.owner = t
    BY <1>1 DEF QLockPassedOn, Waiting
  <2>4. UNCHANGED oops
    BY <1>1, <2>1, <2>3 DEF LocksTypeOK
  <2>5. LocksTypeOK'
    BY <1>1, <2>2, <2>4 DEF LocksTypeOK
  <2>6. OnePlaceForEach'
    <3>1. Waiting' = Waiting
      BY <1>1, <2>2 DEF Waiting
    <3> QED BY <2>2, <3>1 DEF OnePlaceForEach
  <2>7. WaitingInTheCall'
    BY <1>1, <2>2 DEF WaitingInTheCall, Waiting, LocksTypeOK
  <2>8. \A u \in Tasks : u # t => has'[u] = has[u] /\ inside'[u] = inside[u]
    BY <2>2 DEF LocksTypeOK
  <2>9. has'[t] = what /\ inside'[t] = "run"
    BY <2>2 DEF LocksTypeOK
  <2>10. QLockPassedOn'
    BY <1>1, <1>3, <2>1, <2>2, <2>4, <2>8, <2>9 DEF QLockPassedOn, Waiting
  <2>11. RWLockPassedOn'
    <3>1. LetIn' = LetIn
      BY <1>1, <1>3, <2>1, <2>8, <2>9 DEF LetIn, Waiting
    <3> QED BY <1>1, <1>3, <2>1, <2>8, <2>9, <3>1 DEF RWLockPassedOn, Waiting
  <2>12. NobodyWaitsInVain'
    BY <1>1, <2>2 DEF NobodyWaitsInVain
  <2> QED BY <2>5, <2>6, <2>7, <2>10, <2>11, <2>12
<1> QED BY <1>2, <1>3

(* Every step keeps the invariant. *)
LEMMA LocksStepInv == LocksInv /\ [LocksNext]_lockvars => LocksInv'
<1> SUFFICES ASSUME LocksInv, [LocksNext]_lockvars PROVE LocksInv'
  OBVIOUS
<1>1. ASSUME NEW t \in Tasks, QLock(t) PROVE LocksInv'
  BY <1>1, AcquireInv DEF QLock, Calls
<1>2. ASSUME NEW t \in Tasks, QUnlock(t) PROVE LocksInv'
  <2>1. inside' = inside
    BY <1>2 DEF QUnlock, Calls, Returns, LocksInv, LocksTypeOK
  <2> QED BY <1>2, <2>1, ReleaseInv DEF QUnlock, Returns, Wakes
<1>3. ASSUME NEW t \in Tasks, TaskSleep(t) PROVE LocksInv'
  BY <1>3, ReleaseInv DEF TaskSleep
<1>4. ASSUME NEW t \in Tasks, TaskYield(t) PROVE LocksInv'
  <2>1. taskrunning \in Tasks
    BY <1>4 DEF TaskYield, Calls
  <2> QED BY <1>4, <2>1, TurnsInv DEF TaskYield
<1>5. CASE Schedules
  BY <1>5, TurnsInv, ResumesInv DEF Schedules
<1>6. CASE UNCHANGED lockvars
  BY <1>6 DEF lockvars, taskvars, LocksInv, LocksTypeOK, OnePlaceForEach, Waiting, WaitingInTheCall,
      QLockPassedOn, RWLockPassedOn, LetIn, NobodyWaitsInVain
<1> QED BY <1>1, <1>2, <1>3, <1>4, <1>5, <1>6, RLockInv, RUnlockInv, WLockInv, WUnlockInv,
      TaskWakeupInv, TaskBarrierInv DEF LocksNext

(* The inductive invariant holds in every reachable state. *)
THEOREM LocksInvariant == LocksSpec => []LocksInv
<1>1. (\E order \in StartingOrders : LocksInit(order)) => LocksInv
  BY LocksInitInv
<1> QED BY <1>1, LocksStepInv, PTL DEF LocksSpec

(***************************************************************************)
(* task/qlock.c, for any number of tasks: through every hand-over, sleep   *)
(* and wakeup a QLock has the owner to which qlock returned, an RWLock has *)
(* one writer or the readers it counts, the library's assertions hold, and *)
(* nobody waits for a lock that nobody has.                                *)
(***************************************************************************)
THEOREM LocksAreSound == LocksSpec => []LocksSound
  BY LocksInvariant, LocksInvImplies, PTL

(***************************************************************************)
(*                    The poll task and its wait lists                     *)
(*                                                                         *)
(* The live tasks are divided among six places; five of them lead back to  *)
(* the run queue, and the sixth is the record of those that were lost.     *)
(***************************************************************************)
Runs      == {taskrunning} \ {Nobody}
OnQueue   == Queued(taskrunqueue)
HotTasks  == {e.data : e \in hot \ {idle_entry}}
IdleTasks == {Waiter(fd) : fd \in {f \in Fds : epoll[f] # NULL}}
LostTasks == {t \in Tasks : lost[t] # "no"}

PlacesApart ==
    /\ alive = Runs \cup OnQueue \cup sleeping \cup HotTasks \cup IdleTasks \cup LostTasks
    /\ Runs \cap (OnQueue \cup sleeping \cup HotTasks \cup IdleTasks \cup LostTasks) = {}
    /\ OnQueue \cap (sleeping \cup HotTasks \cup IdleTasks \cup LostTasks) = {}
    /\ sleeping \cap (HotTasks \cup IdleTasks \cup LostTasks) = {}
    /\ HotTasks \cap (IdleTasks \cup LostTasks) = {}
    /\ IdleTasks \cap LostTasks = {}

(* An entry of the hot list, but for the epoll descriptor's, is a task's only one. *)
HotOnce ==
    /\ HotListIntact /\ IsFiniteSet(hot)
    /\ \A e \in hot : e # idle_entry => e.data \in Tasks
    /\ \A e, f \in hot : e.data = f.data => e = f

(* So is an entry of epoll. *)
IdleOnce ==
    /\ EpollNamesItsSlot
    /\ \A s \in idle_active : idle_data[s].data \in Tasks
    /\ \A f, g \in Fds : epoll[f] # NULL /\ epoll[g] # NULL /\ Waiter(f) = Waiter(g) => f = g

FdInv ==
    /\ TypeOK /\ Distinct(taskrunqueue) /\ PlacesApart /\ HotOnce /\ IdleOnce /\ SlotsAccounted

(* What the polling of the hot list leaves of it, for entries that are hits. *)
LEMMA HotRemoved ==
    ASSUME TypeOK, HotOnce, NEW hits, hits \subseteq hot \ {idle_entry},
           hot' = hot \ hits, nfd_hot' = nfd_hot - Cardinality(hits)
    PROVE  /\ HotOnce' /\ hot' \subseteq HotEntry /\ nfd_hot' \in 1..max_hot
           /\ HotTasks' = HotTasks \ {e.data : e \in hits}
<1>1. /\ IsFiniteSet(hot) /\ idle_entry \in hot /\ nfd_hot = Cardinality(hot)
      /\ hot \subseteq HotEntry /\ nfd_hot \in 1..max_hot
  BY DEF HotOnce, HotListIntact, TypeOK
<1>2. IsFiniteSet(hot') /\ Cardinality(hot') = Cardinality(hot) - Cardinality(hits)
  <2>1. hot \cap hits = hits
    OBVIOUS
  <2> QED BY <1>1, <2>1, FS_Difference
<1>3. idle_entry \in hot' /\ hot' \subseteq hot
  BY <1>1
<1>4. Cardinality(hot') \in Nat \ {0} /\ Cardinality(hot') <= Cardinality(hot)
  BY <1>2, <1>3, <1>1, FS_CardinalityType, FS_EmptySet, FS_Subset
<1>5. nfd_hot' = Cardinality(hot') /\ nfd_hot' \in 1..max_hot
  BY <1>1, <1>2, <1>4, SuperPollAssumption
<1>6. HotOnce'
  BY <1>2, <1>3, <1>5 DEF HotOnce, HotListIntact, idle_entry
<1>7. HotTasks' = HotTasks \ {e.data : e \in hits}
  BY DEF HotTasks, HotOnce, idle_entry
<1> QED BY <1>1, <1>3, <1>5, <1>6, <1>7

(* A wait that finds room on the hot list. *)
LEMMA HotAdded ==
    ASSUME TypeOK, HotOnce, NEW t \in Tasks \ HotTasks, NEW what \in Fds \cup Socks, NEW b \in rw,
           ~add_poll_full, hot' = hot \cup {[data |-> t, fd |-> what, bits |-> b]},
           nfd_hot' = nfd_hot + 1
    PROVE  /\ HotOnce' /\ hot' \subseteq HotEntry /\ nfd_hot' \in 1..max_hot
           /\ HotTasks' = HotTasks \cup {t}
<1> DEFINE e == [data |-> t, fd |-> what, bits |-> b]
<1>1. /\ IsFiniteSet(hot) /\ idle_entry \in hot /\ nfd_hot = Cardinality(hot)
      /\ hot \subseteq HotEntry /\ nfd_hot \in 1..max_hot /\ max_hot \in Nat /\ nfd_hot < max_hot
  BY SuperPollAssumption DEF HotOnce, HotListIntact, TypeOK, add_poll_full
<1>2. e \in HotEntry /\ e.data = t /\ e # idle_entry
  BY FdTaskAssumption, SuperPollAssumption DEF HotEntry, idle_entry
<1>3. \A h \in hot : h.data # t
  BY FdTaskAssumption, SuperPollAssumption DEF HotTasks, idle_entry
<1> HIDE DEF e
<1>4. hot' = hot \cup {e} /\ e \notin hot
  BY <1>2, <1>3 DEF e
<1>5. IsFiniteSet(hot') /\ nfd_hot' = Cardinality(hot')
  BY <1>1, <1>4, FS_AddElement
<1>6. HotOnce'
  <2>1. HotListIntact'
    BY <1>1, <1>4, <1>5 DEF HotListIntact, idle_entry
  <2>2. \A g \in hot' : g # idle_entry => g.data \in Tasks
    BY <1>2, <1>4 DEF HotOnce
  <2>3. \A g, h \in hot' : g.data = h.data => g = h
    BY <1>2, <1>3, <1>4 DEF HotOnce
  <2> QED BY <1>5, <2>1, <2>2, <2>3 DEF HotOnce, idle_entry
<1>7. HotTasks' = HotTasks \cup {t}
  BY <1>2, <1>4 DEF HotTasks, idle_entry
<1> QED BY <1>1, <1>2, <1>4, <1>6, <1>7

(* A wait on the idle list of a descriptor that is open: an earlier waiter loses its entry. *)
LEMMA IdleAdded ==
    ASSUME TypeOK, IdleOnce, NEW t \in Tasks \ IdleTasks, NEW fd \in open, NEW b \in rw,
           NEW s \in Slots, s \notin idle_active,
           idle_active' = idle_active \cup {s},
           idle_data' = [idle_data EXCEPT ![s] = [fd |-> fd, data |-> t]],
           epoll' = [epoll EXCEPT ![fd] = <<s, b>>],
           open' = open
    PROVE  /\ IdleOnce'
           /\ \A f \in Fds : Waiter(f)' = IF f = fd THEN t ELSE Waiter(f)
           /\ IdleTasks' = (IdleTasks \ {Waiter(fd)}) \cup {t}
<1>1. /\ fd \in Fds
      /\ idle_data \in [Slots -> [fd : Fds \cup {NULL}, data : Tasks \cup {NULL}]]
      /\ epoll \in [Fds -> (Slots \X rw) \cup {NULL}]
      /\ idle_active \subseteq Slots
  BY DEF TypeOK
<1>2. /\ epoll'[fd] = <<s, b>> /\ epoll'[fd] # NULL /\ epoll'[fd][1] = s
      /\ \A f \in Fds \ {fd} : epoll'[f] = epoll[f]
  BY <1>1, SuperPollAssumption DEF rw
<1>3. /\ idle_data'[s] = [fd |-> fd, data |-> t]
      /\ idle_data'[s].fd = fd /\ idle_data'[s].data = t
      /\ \A r \in idle_active : idle_data'[r] = idle_data[r]
  BY <1>1
<1>4. \A f \in Fds : epoll[f] # NULL => epoll[f][1] \in idle_active
  BY DEF IdleOnce, EpollNamesItsSlot
<1>5. \A f \in Fds : Waiter(f)' = IF f = fd THEN t ELSE Waiter(f)
  BY <1>2, <1>3, <1>4 DEF Waiter
<1>6. \A f \in Fds \ {fd} : epoll[f] # NULL => Waiter(f) # t
  BY DEF IdleTasks
<1>7. EpollNamesItsSlot'
  <2> SUFFICES ASSUME NEW f \in Fds, epoll'[f] # NULL
               PROVE  /\ f \in open
                      /\ epoll'[f][1] \in idle_active'
                      /\ idle_data'[epoll'[f][1]].fd = f
                      /\ \A g \in Fds \ {f} : epoll'[g] # NULL => epoll'[g][1] # epoll'[f][1]
    BY DEF EpollNamesItsSlot
  <2>1. CASE f = fd
    BY <1>2, <1>3, <1>4, <2>1
  <2>2. CASE f # fd
    BY <1>2, <1>3, <1>4, <2>2 DEF IdleOnce, EpollNamesItsSlot
  <2> QED BY <2>1, <2>2
<1>8. IdleOnce'
  <2>1. \A r \in idle_active' : idle_data'[r].data \in Tasks
    BY <1>3 DEF IdleOnce
  <2>2. ASSUME NEW f \in Fds, NEW g \in Fds,
               epoll'[f] # NULL, epoll'[g] # NULL, Waiter(f)' = Waiter(g)'
        PROVE  f = g
    BY <1>2, <1>5, <1>6, <2>2 DEF IdleOnce
  <2> QED BY <1>7, <2>1, <2>2 DEF IdleOnce
<1>9. IdleTasks' = (IdleTasks \ {Waiter(fd)}) \cup {t}
  <2>1. ASSUME NEW f \in Fds, epoll'[f] # NULL
        PROVE  Waiter(f)' \in (IdleTasks \ {Waiter(fd)}) \cup {t}
    <3>1. CASE f = fd
      BY <1>5, <3>1
    <3>2. CASE f # fd
      <4>1. epoll[f] # NULL /\ Waiter(f)' = Waiter(f)
        BY <1>2, <1>5, <2>1, <3>2
      <4>2. epoll[fd] = NULL => Waiter(fd) = NULL
        BY DEF Waiter
      <4>3. Waiter(f) # NULL
        BY <1>4, <4>1, FdTaskAssumption, SuperPollAssumption DEF IdleOnce, Waiter
      <4>4. Waiter(f) # Waiter(fd)
        BY <1>1, <3>2, <4>1, <4>2, <4>3 DEF IdleOnce
      <4> QED BY <4>1, <4>4 DEF IdleTasks
    <3> QED BY <3>1, <3>2
  <2>2. ASSUME NEW f \in Fds, epoll[f] # NULL, Waiter(f) # Waiter(fd)
        PROVE  Waiter(f) \in IdleTasks'
    BY <1>2, <1>5, <2>2 DEF IdleTasks
  <2>3. t \in IdleTasks'
    BY <1>1, <1>2, <1>5 DEF IdleTasks
  <2> QED BY <2>1, <2>2, <2>3 DEF IdleTasks
<1> QED BY <1>5, <1>8, <1>9

(* Descriptors that leave epoll, with their slots or without. *)
LEMMA IdleRemoved ==
    ASSUME TypeOK, IdleOnce, NEW fds \in SUBSET Fds, \A f \in fds : epoll[f] # NULL,
           epoll' = [f \in Fds |-> IF f \in fds THEN NULL ELSE epoll[f]],
           \/ idle_active' = idle_active
           \/ idle_active' = idle_active \ {epoll[f][1] : f \in fds},
           idle_data' = idle_data,
           \A f \in open \ open' : f \in fds \/ epoll[f] = NULL
    PROVE  /\ IdleOnce'
           /\ \A f \in Fds : Waiter(f)' = IF f \in fds THEN NULL ELSE Waiter(f)
           /\ IdleTasks' = IdleTasks \ {Waiter(f) : f \in fds}
<1>1. /\ \A f \in fds : epoll'[f] = NULL
      /\ \A f \in Fds \ fds : epoll'[f] = epoll[f]
  OBVIOUS
<1>2. \A f \in Fds : Waiter(f)' = IF f \in fds THEN NULL ELSE Waiter(f)
  BY <1>1 DEF Waiter
<1>3. EpollNamesItsSlot'
  <2> SUFFICES ASSUME NEW f \in Fds, epoll'[f] # NULL
               PROVE  /\ f \in open'
                      /\ epoll'[f][1] \in idle_active'
                      /\ idle_data'[epoll'[f][1]].fd = f
                      /\ \A g \in Fds \ {f} : epoll'[g] # NULL => epoll'[g][1] # epoll'[f][1]
    BY DEF EpollNamesItsSlot
  <2>1. f \notin fds /\ epoll'[f] = epoll[f] /\ epoll[f] # NULL
    BY <1>1
  <2>2. /\ f \in open /\ epoll[f][1] \in idle_active /\ idle_data[epoll[f][1]].fd = f
        /\ \A g \in Fds \ {f} : epoll[g] # NULL => epoll[g][1] # epoll[f][1]
    BY <2>1 DEF IdleOnce, EpollNamesItsSlot
  <2>3. epoll[f][1] \notin {epoll[g][1] : g \in fds}
    BY <2>1, <2>2
  <2> QED BY <1>1, <2>1, <2>2, <2>3
<1>4. IdleOnce'
  BY <1>1, <1>2, <1>3 DEF IdleOnce
<1>5. IdleTasks' = IdleTasks \ {Waiter(f) : f \in fds}
  <2>1. ASSUME NEW f \in Fds, epoll'[f] # NULL
        PROVE  Waiter(f)' \in IdleTasks \ {Waiter(g) : g \in fds}
    <3>1. f \notin fds /\ epoll[f] # NULL /\ Waiter(f)' = Waiter(f)
      BY <1>1, <1>2, <2>1
    <3> QED BY <3>1 DEF IdleOnce, IdleTasks
  <2>2. ASSUME NEW f \in Fds, epoll[f] # NULL, Waiter(f) \notin {Waiter(g) : g \in fds}
        PROVE  Waiter(f) \in IdleTasks'
    BY <1>1, <1>2, <2>2 DEF IdleTasks
  <2> QED BY <2>1, <2>2 DEF IdleTasks
<1> QED BY <1>2, <1>4, <1>5

(* What a step leaves alone of the wait lists stays as it is. *)
LEMMA HotLeft ==
    ASSUME HotOnce, hot' = hot, nfd_hot' = nfd_hot
    PROVE  HotOnce' /\ HotTasks' = HotTasks
  BY DEF HotOnce, HotListIntact, HotTasks, idle_entry

(* The idle lists are as intact as before when no task on them moved. *)
LEMMA IdleLeft ==
    ASSUME IdleOnce, idle_active' = idle_active, idle_data' = idle_data, epoll' = epoll,
           open \subseteq open'
    PROVE  /\ IdleOnce' /\ IdleTasks' = IdleTasks
           /\ \A fd \in Fds : Waiter(fd)' = Waiter(fd)
<1>1. \A fd \in Fds : Waiter(fd)' = Waiter(fd)
  BY DEF Waiter
<1>2. EpollNamesItsSlot'
  BY DEF IdleOnce, EpollNamesItsSlot
<1>3. IdleOnce'
  BY <1>1, <1>2 DEF IdleOnce
<1>4. IdleTasks' = IdleTasks
  BY <1>1 DEF IdleTasks
<1> QED BY <1>1, <1>3, <1>4

(* The poll slots stay accounted for when no slot and no fd wait changes. *)
LEMMA SlotsLeft ==
    ASSUME SlotsAccounted, UNCHANGED <<idle_active, idle_free, idle_data, epoll, lost>>
    PROVE  SlotsAccounted' /\ LostTasks' = LostTasks
  BY DEF SlotsAccounted, LostTasks

(* The waiter of a descriptor that is in epoll waits there; of another there is none. *)
LEMMA WaitersWait ==
    ASSUME IdleOnce, NEW fd \in Fds
    PROVE  IF epoll[fd] = NULL THEN Waiter(fd) = NULL ELSE Waiter(fd) \in IdleTasks
  BY DEF IdleOnce, EpollNamesItsSlot, Waiter, IdleTasks

(* The places of the tasks are among the tasks. *)
LEMMA PlacesAreTasks ==
    ASSUME FdInv
    PROVE  /\ Runs \subseteq Tasks /\ OnQueue \subseteq Tasks /\ sleeping \subseteq Tasks
           /\ HotTasks \subseteq Tasks /\ IdleTasks \subseteq Tasks /\ LostTasks \subseteq Tasks
           /\ NULL \notin Tasks /\ Nobody \notin Tasks
<1>1. taskrunqueue \in Seq(Tasks) /\ alive \subseteq Tasks
  BY DEF FdInv, TypeOK
<1>2. NULL \notin Tasks /\ Nobody \notin Tasks
  BY FdTaskAssumption, SuperPollAssumption, TaskAssumption
<1> QED BY <1>1, <1>2 DEF FdInv, PlacesApart

(* taskmain is the only task, and it is ready. *)
LEMMA FdInitInv == Init => FdInv
<1> SUFFICES ASSUME Init PROVE FdInv
  OBVIOUS
<1>1. /\ taskrunqueue = <<FirstTask>> /\ FirstTask \in Tasks
      /\ DOMAIN <<FirstTask>> = {1} /\ <<FirstTask>>[1] = FirstTask
  BY FdTaskAssumption DEF Init, TaskInit
<1>2. alive = {FirstTask} /\ taskrunning = Nobody
  BY <1>1 DEF Init, TaskInit
<1>3. /\ hot = {idle_entry} /\ nfd_hot = 1 /\ idle_free = Slots /\ idle_active = {}
      /\ idle_data = [s \in Slots |-> [fd |-> NULL, data |-> NULL]]
      /\ epoll = [fd \in Fds |-> NULL]
      /\ open = Fds /\ sleeping = {} /\ ready = {} /\ burst = 0
      /\ waiting = [t \in Tasks |-> NULL] /\ lost = [t \in Tasks |-> "no"]
  BY DEF Init, SuperPoll_create
<1>4. TypeOK
  <2>1. taskrunqueue \in Seq(Tasks)
    BY <1>1
  <2>2. idle_entry \in HotEntry /\ 1 \in 1..max_hot
    BY SuperPollAssumption DEF idle_entry, HotEntry, rw
  <2>3. idle_data \in [Slots -> [fd : Fds \cup {NULL}, data : Tasks \cup {NULL}]]
    BY <1>3
  <2>4. epoll \in [Fds -> (Slots \X rw) \cup {NULL}]
    BY <1>3
  <2>5. waiting \in [Tasks -> ((Fds \cup Socks) \X rw) \cup {NULL}] /\ lost \in [Tasks -> Losses]
    BY <1>3 DEF Losses
  <2>6. burst \in 0..MaxBurst
    BY <1>3, FdTaskAssumption
  <2> QED BY <1>1, <1>2, <1>3, <2>1, <2>2, <2>3, <2>4, <2>5, <2>6 DEF TypeOK
<1>5. Distinct(taskrunqueue) /\ OnQueue = {FirstTask}
  BY <1>1 DEF Distinct, OnQueue, Queued
<1>6. PlacesApart
  <2>1. Runs = {} /\ sleeping = {} /\ HotTasks = {} /\ IdleTasks = {} /\ LostTasks = {}
    BY <1>2, <1>3 DEF Runs, HotTasks, IdleTasks, LostTasks
  <2> QED BY <1>2, <1>5, <2>1 DEF PlacesApart
<1>7. HotOnce
  BY <1>3, FS_Singleton DEF HotOnce, HotListIntact
<1>8. IdleOnce /\ SlotsAccounted
  BY <1>3 DEF IdleOnce, EpollNamesItsSlot, SlotsAccounted
<1> QED BY <1>4, <1>5, <1>6, <1>7, <1>8 DEF FdInv

(***************************************************************************)
(* A step of the scheduler or of the running task that touches neither the *)
(* wait lists nor a loss; a descriptor may be opened.                      *)
(***************************************************************************)
LEMMA TaskTurnInv ==
    ASSUME FdInv,
           UNCHANGED <<hot, nfd_hot, idle_free, idle_active, idle_data, epoll, lost, waiting>>,
           open \subseteq open', open' \subseteq Fds,
           ready' \subseteq (Fds \cup Socks) \X {"r", "w", "x"}, burst' \in 0..MaxBurst,
           taskrunning' \in Tasks \cup {Nobody},
           taskrunqueue' \in Seq(Tasks), Distinct(taskrunqueue)',
           alive' = Runs' \cup OnQueue' \cup sleeping' \cup (alive \ (Runs \cup OnQueue \cup sleeping)),
           Runs' \cap OnQueue' = {}, Runs' \cap sleeping' = {}, OnQueue' \cap sleeping' = {},
           sleeping' \subseteq Tasks,
           (Runs' \cup OnQueue' \cup sleeping') \cap (HotTasks \cup IdleTasks \cup LostTasks) = {}
    PROVE  FdInv'
<1>1. TypeOK /\ HotOnce /\ IdleOnce /\ SlotsAccounted /\ PlacesApart
  BY DEF FdInv
<1>2. HotOnce' /\ IdleOnce' /\ SlotsAccounted'
  BY <1>1, HotLeft, IdleLeft, SlotsLeft
<1>3. HotTasks' = HotTasks /\ IdleTasks' = IdleTasks /\ LostTasks' = LostTasks
  BY <1>1, HotLeft, IdleLeft, SlotsLeft
<1>4. PlacesApart'
  BY <1>1, <1>3 DEF PlacesApart
<1>5. Runs' \subseteq Tasks
  BY DEF Runs
<1>6. OnQueue' \subseteq Tasks
  BY DEF OnQueue, Queued
<1>7. alive' \subseteq Tasks
  BY <1>1, <1>5, <1>6 DEF TypeOK
<1>8. TypeOK'
  BY <1>1, <1>7 DEF TypeOK, HotEntry
<1> QED BY <1>2, <1>4, <1>8 DEF FdInv

(* What the places say of the running task. *)
LEMMA RunnerAlone ==
    ASSUME FdInv, Running
    PROVE  /\ taskrunning \in Tasks /\ Runs = {taskrunning} /\ taskrunning \in alive
           /\ taskrunning \notin OnQueue \cup sleeping \cup HotTasks \cup IdleTasks \cup LostTasks
           /\ lost[taskrunning] = "no"
<1>1. taskrunning \in Tasks /\ Runs = {taskrunning}
  BY DEF Running, FdInv, TypeOK, Runs
<1>2. /\ taskrunning \in alive
      /\ taskrunning \notin OnQueue \cup sleeping \cup HotTasks \cup IdleTasks \cup LostTasks
  BY <1>1 DEF FdInv, PlacesApart
<1>3. lost[taskrunning] = "no"
  BY <1>1, <1>2 DEF LostTasks
<1> QED BY <1>1, <1>2, <1>3

(* taskdelay: the running task goes to sleep. *)
LEMMA DelayInv == FdInv /\ taskdelay => FdInv'
<1> SUFFICES ASSUME FdInv, taskdelay PROVE FdInv'
  OBVIOUS
<1>1. /\ taskrunning' = Nobody /\ taskrunqueue' = taskrunqueue /\ alive' = alive
      /\ sleeping' = sleeping \cup {taskrunning}
      /\ UNCHANGED <<pollvars, waiting, ready, lost, burst>> /\ Running
  BY DEF taskdelay, SwitchAway
<1>2. Runs' = {} /\ OnQueue' = OnQueue
  BY <1>1 DEF Runs, OnQueue
<1>3. PlacesApart /\ TypeOK /\ Distinct(taskrunqueue)
  BY DEF FdInv
<1>4. alive' = Runs' \cup OnQueue' \cup sleeping' \cup (alive \ (Runs \cup OnQueue \cup sleeping))
  BY <1>1, <1>2, <1>3, RunnerAlone DEF PlacesApart
<1>5. /\ Runs' \cap OnQueue' = {} /\ Runs' \cap sleeping' = {} /\ OnQueue' \cap sleeping' = {}
      /\ sleeping' \subseteq Tasks
      /\ (Runs' \cup OnQueue' \cup sleeping') \cap (HotTasks \cup IdleTasks \cup LostTasks) = {}
  BY <1>1, <1>2, <1>3, RunnerAlone, PlacesAreTasks DEF PlacesApart
<1>6. /\ open \subseteq open' /\ open' \subseteq Fds
      /\ ready' \subseteq (Fds \cup Socks) \X {"r", "w", "x"} /\ burst' \in 0..MaxBurst
      /\ taskrunning' \in Tasks \cup {Nobody} /\ taskrunqueue' \in Seq(Tasks) /\ Distinct(taskrunqueue)'
  BY <1>1, <1>3 DEF TypeOK, pollvars, Distinct
<1> QED BY <1>1, <1>4, <1>5, <1>6, TaskTurnInv DEF pollvars

(* taskexit: the running task is no more. *)
LEMMA ExitInv == FdInv /\ taskexit => FdInv'
<1> SUFFICES ASSUME FdInv, taskexit PROVE FdInv'
  OBVIOUS
<1>1. /\ taskrunning' = Nobody /\ taskrunqueue' = taskrunqueue /\ alive' = alive \ {taskrunning}
      /\ UNCHANGED <<pollvars, sleeping, waiting, ready, lost, burst>> /\ Running
  BY DEF taskexit, ExitTurn
<1>2. Runs' = {} /\ OnQueue' = OnQueue
  BY <1>1 DEF Runs, OnQueue
<1>3. PlacesApart /\ TypeOK /\ Distinct(taskrunqueue)
  BY DEF FdInv
<1>4. alive' = Runs' \cup OnQueue' \cup sleeping' \cup (alive \ (Runs \cup OnQueue \cup sleeping))
  BY <1>1, <1>2, <1>3, RunnerAlone DEF PlacesApart
<1>5. /\ Runs' \cap OnQueue' = {} /\ Runs' \cap sleeping' = {} /\ OnQueue' \cap sleeping' = {}
      /\ sleeping' \subseteq Tasks
      /\ (Runs' \cup OnQueue' \cup sleeping') \cap (HotTasks \cup IdleTasks \cup LostTasks) = {}
  BY <1>1, <1>2, <1>3, PlacesAreTasks DEF PlacesApart
<1>6. /\ open \subseteq open' /\ open' \subseteq Fds
      /\ ready' \subseteq (Fds \cup Socks) \X {"r", "w", "x"} /\ burst' \in 0..MaxBurst
      /\ taskrunning' \in Tasks \cup {Nobody} /\ taskrunqueue' \in Seq(Tasks) /\ Distinct(taskrunqueue)'
  BY <1>1, <1>3 DEF TypeOK, pollvars, Distinct
<1> QED BY <1>1, <1>4, <1>5, <1>6, TaskTurnInv DEF pollvars

(* One more step of a burst. *)
LEMMA BusyStep ==
    ASSUME FdInv, Busy
    PROVE  Running /\ burst' \in 0..MaxBurst
  BY FdTaskAssumption DEF FdInv, TypeOK, Busy

(* taskyield: the running task goes behind the others. *)
LEMMA YieldInv == FdInv /\ taskyield => FdInv'
<1> SUFFICES ASSUME FdInv, taskyield PROVE FdInv'
  OBVIOUS
<1>1. /\ taskrunning' = Nobody /\ taskrunqueue' = Append(taskrunqueue, taskrunning)
      /\ alive' = alive /\ UNCHANGED <<pollvars, sleeping, waiting, ready, lost>>
      /\ Running /\ burst' \in 0..MaxBurst
  BY BusyStep DEF taskyield, YieldTurn
<1>2. PlacesApart /\ TypeOK /\ Distinct(taskrunqueue) /\ taskrunqueue \in Seq(Tasks)
  BY DEF FdInv, TypeOK
<1>3. /\ taskrunning \in Tasks /\ Runs = {taskrunning} /\ taskrunning \in alive
      /\ taskrunning \notin OnQueue \cup sleeping \cup HotTasks \cup IdleTasks \cup LostTasks
  BY <1>1, RunnerAlone
<1>4. /\ Append(taskrunqueue, taskrunning) \in Seq(Tasks)
      /\ Queued(Append(taskrunqueue, taskrunning)) = Queued(taskrunqueue) \cup {taskrunning}
      /\ Distinct(Append(taskrunqueue, taskrunning))
  BY <1>2, <1>3, AppendedTask DEF OnQueue
<1>5. Runs' = {} /\ OnQueue' = OnQueue \cup {taskrunning}
  BY <1>1, <1>4 DEF Runs, OnQueue
<1>6. alive' = Runs' \cup OnQueue' \cup sleeping' \cup (alive \ (Runs \cup OnQueue \cup sleeping))
  BY <1>1, <1>2, <1>3, <1>5 DEF PlacesApart
<1>7. /\ Runs' \cap OnQueue' = {} /\ Runs' \cap sleeping' = {} /\ OnQueue' \cap sleeping' = {}
      /\ sleeping' \subseteq Tasks
      /\ (Runs' \cup OnQueue' \cup sleeping') \cap (HotTasks \cup IdleTasks \cup LostTasks) = {}
  BY <1>1, <1>2, <1>3, <1>5, PlacesAreTasks DEF PlacesApart
<1>8. /\ open \subseteq open' /\ open' \subseteq Fds
      /\ ready' \subseteq (Fds \cup Socks) \X {"r", "w", "x"}
      /\ taskrunning' \in Tasks \cup {Nobody} /\ taskrunqueue' \in Seq(Tasks) /\ Distinct(taskrunqueue)'
  BY <1>1, <1>2, <1>4 DEF TypeOK, pollvars, Distinct
<1> QED BY <1>1, <1>6, <1>7, <1>8, TaskTurnInv DEF pollvars

(* taskcreate: the new task is ready. *)
LEMMA CreateInv == \A t \in Tasks : FdInv /\ taskcreate(t) => FdInv'
<1> SUFFICES ASSUME NEW t \in Tasks, FdInv, taskcreate(t) PROVE FdInv'
  OBVIOUS
<1>1. /\ t \notin alive /\ alive' = alive \cup {t} /\ taskrunning' = taskrunning
      /\ taskrunqueue' = Append(taskrunqueue, t)
      /\ UNCHANGED <<pollvars, sleeping, waiting, ready, lost>>
      /\ Running /\ burst' \in 0..MaxBurst
  BY BusyStep DEF taskcreate, Create
<1>2. PlacesApart /\ TypeOK /\ Distinct(taskrunqueue) /\ taskrunqueue \in Seq(Tasks)
  BY DEF FdInv, TypeOK
<1>3. t \notin Runs \cup OnQueue \cup sleeping \cup HotTasks \cup IdleTasks \cup LostTasks
  BY <1>1, <1>2 DEF PlacesApart
<1>4. /\ Append(taskrunqueue, t) \in Seq(Tasks)
      /\ Queued(Append(taskrunqueue, t)) = Queued(taskrunqueue) \cup {t}
      /\ Distinct(Append(taskrunqueue, t))
  BY <1>2, <1>3, AppendedTask DEF OnQueue
<1>5. Runs' = Runs /\ OnQueue' = OnQueue \cup {t}
  BY <1>1, <1>4 DEF Runs, OnQueue
<1>6. alive' = Runs' \cup OnQueue' \cup sleeping' \cup (alive \ (Runs \cup OnQueue \cup sleeping))
  BY <1>1, <1>2, <1>3, <1>5 DEF PlacesApart
<1>7. /\ Runs' \cap OnQueue' = {} /\ Runs' \cap sleeping' = {} /\ OnQueue' \cap sleeping' = {}
      /\ sleeping' \subseteq Tasks
      /\ (Runs' \cup OnQueue' \cup sleeping') \cap (HotTasks \cup IdleTasks \cup LostTasks) = {}
  BY <1>1, <1>2, <1>3, <1>5, PlacesAreTasks DEF PlacesApart
<1>8. /\ open \subseteq open' /\ open' \subseteq Fds
      /\ ready' \subseteq (Fds \cup Socks) \X {"r", "w", "x"}
      /\ taskrunning' \in Tasks \cup {Nobody} /\ taskrunqueue' \in Seq(Tasks) /\ Distinct(taskrunqueue)'
  BY <1>1, <1>2, <1>4 DEF TypeOK, pollvars, Distinct
<1> QED BY <1>1, <1>6, <1>7, <1>8, TaskTurnInv DEF pollvars

(* taskscheduler: the head of the run queue runs. *)
LEMMA SchedulerInv == FdInv /\ taskscheduler => FdInv'
<1> SUFFICES ASSUME FdInv, taskscheduler PROVE FdInv'
  OBVIOUS
<1>1. /\ taskrunning = Nobody /\ taskrunqueue # <<>> /\ alive' = alive
      /\ taskrunning' = Head(taskrunqueue) /\ taskrunqueue' = Tail(taskrunqueue)
      /\ UNCHANGED <<pollvars, sleeping, waiting, ready, lost, burst>>
  BY DEF taskscheduler, RunHead
<1>2. PlacesApart /\ TypeOK /\ Distinct(taskrunqueue) /\ taskrunqueue \in Seq(Tasks)
  BY DEF FdInv, TypeOK
<1>3. /\ Head(taskrunqueue) \in Tasks /\ Tail(taskrunqueue) \in Seq(Tasks)
      /\ Queued(taskrunqueue) = Queued(Tail(taskrunqueue)) \cup {Head(taskrunqueue)}
      /\ Distinct(Tail(taskrunqueue)) /\ Head(taskrunqueue) \notin Queued(Tail(taskrunqueue))
  BY <1>1, <1>2, TakenFirst
<1>4. /\ Runs = {} /\ Runs' = {taskrunning'} /\ OnQueue = OnQueue' \cup {taskrunning'}
      /\ taskrunning' \notin OnQueue'
  BY <1>1, <1>3, TaskAssumption DEF Runs, OnQueue
<1>5. alive' = Runs' \cup OnQueue' \cup sleeping' \cup (alive \ (Runs \cup OnQueue \cup sleeping))
  BY <1>1, <1>2, <1>4 DEF PlacesApart
<1>6. /\ Runs' \cap OnQueue' = {} /\ Runs' \cap sleeping' = {} /\ OnQueue' \cap sleeping' = {}
      /\ sleeping' \subseteq Tasks
      /\ (Runs' \cup OnQueue' \cup sleeping') \cap (HotTasks \cup IdleTasks \cup LostTasks) = {}
  BY <1>1, <1>2, <1>4, PlacesAreTasks DEF PlacesApart
<1>7. /\ open \subseteq open' /\ open' \subseteq Fds
      /\ ready' \subseteq (Fds \cup Socks) \X {"r", "w", "x"} /\ burst' \in 0..MaxBurst
      /\ taskrunning' \in Tasks \cup {Nobody} /\ taskrunqueue' \in Seq(Tasks) /\ Distinct(taskrunqueue)'
  BY <1>1, <1>2, <1>3 DEF TypeOK, pollvars, Distinct
<1> QED BY <1>1, <1>5, <1>6, <1>7, TaskTurnInv DEF pollvars

(* I/O that arrives or is used up, and descriptors that are opened, move no task. *)
LEMMA OutsideInv ==
    ASSUME FdInv,
           UNCHANGED <<alive, taskrunning, taskrunqueue, hot, nfd_hot, idle_free, idle_active,
                       idle_data, epoll, lost, waiting, sleeping>>,
           open \subseteq open', open' \subseteq Fds,
           ready' \subseteq (Fds \cup Socks) \X {"r", "w", "x"}, burst' \in 0..MaxBurst
    PROVE  FdInv'
<1>1. Runs' = Runs /\ OnQueue' = OnQueue
  BY DEF Runs, OnQueue
<1>2. PlacesApart /\ TypeOK /\ Distinct(taskrunqueue)
  BY DEF FdInv
<1>3. alive' = Runs' \cup OnQueue' \cup sleeping' \cup (alive \ (Runs \cup OnQueue \cup sleeping))
  BY <1>1, <1>2 DEF PlacesApart
<1>4. /\ Runs' \cap OnQueue' = {} /\ Runs' \cap sleeping' = {} /\ OnQueue' \cap sleeping' = {}
      /\ (Runs' \cup OnQueue' \cup sleeping') \cap (HotTasks \cup IdleTasks \cup LostTasks) = {}
  BY <1>1, <1>2 DEF PlacesApart
<1>5. /\ sleeping' \subseteq Tasks
      /\ taskrunning' \in Tasks \cup {Nobody} /\ taskrunqueue' \in Seq(Tasks) /\ Distinct(taskrunqueue)'
  BY <1>2 DEF TypeOK, Distinct
<1> QED BY <1>3, <1>4, <1>5, TaskTurnInv

(* A task takes what arrived for it. *)
LEMMA ConsumeInv ==
    \A what \in Fds \cup Socks, b \in rw : FdInv /\ Consume(what, b) => FdInv'
<1> SUFFICES ASSUME NEW what \in Fds \cup Socks, NEW b \in rw, FdInv, Consume(what, b) PROVE FdInv'
  OBVIOUS
<1>1. /\ burst' \in 0..MaxBurst /\ ready' \subseteq ready
      /\ UNCHANGED <<taskvars, pollvars, sleeping, waiting, lost>>
  BY BusyStep DEF Consume
<1>2. open \subseteq open' /\ open' \subseteq Fds /\ ready' \subseteq (Fds \cup Socks) \X {"r", "w", "x"}
  BY <1>1 DEF FdInv, TypeOK, pollvars
<1> QED BY <1>1, <1>2, OutsideInv DEF taskvars, pollvars

(* A new descriptor. *)
LEMMA OpenInv == \A fd \in Fds : FdInv /\ fdopen(fd) => FdInv'
<1> SUFFICES ASSUME NEW fd \in Fds, FdInv, fdopen(fd) PROVE FdInv'
  OBVIOUS
<1>1. /\ burst' \in 0..MaxBurst /\ open' = open \cup {fd}
      /\ UNCHANGED <<taskvars, hot, nfd_hot, idle_free, idle_active, idle_data, epoll,
                     sleeping, waiting, ready, lost>>
  BY BusyStep DEF fdopen, KernelOpen
<1>2. open \subseteq open' /\ open' \subseteq Fds /\ ready' \subseteq (Fds \cup Socks) \X {"r", "w", "x"}
  BY <1>1 DEF FdInv, TypeOK
<1> QED BY <1>1, <1>2, OutsideInv DEF taskvars

(* Something arrives. *)
LEMMA ArriveInv ==
    \A what \in Fds \cup Socks, b \in {"r", "w", "x"} : FdInv /\ Arrive(what, b) => FdInv'
<1> SUFFICES ASSUME NEW what \in Fds \cup Socks, NEW b \in {"r", "w", "x"}, FdInv, Arrive(what, b)
             PROVE  FdInv'
  OBVIOUS
<1>1. /\ ready' = ready \cup {<<what, b>>}
      /\ UNCHANGED <<taskvars, pollvars, sleeping, waiting, lost, burst>>
  BY DEF Arrive
<1>2. /\ open \subseteq open' /\ open' \subseteq Fds /\ burst' \in 0..MaxBurst
      /\ ready' \subseteq (Fds \cup Socks) \X {"r", "w", "x"}
  BY <1>1 DEF FdInv, TypeOK, pollvars
<1> QED BY <1>1, <1>2, OutsideInv DEF taskvars, pollvars

(* A wait: the running task switches away, and what it leaves behind says where it is. *)
LEMMA WaitTurnInv ==
    ASSUME FdInv, Running, SwitchAway, UNCHANGED <<sleeping, ready, burst, open>>,
           waiting' \in [Tasks -> ((Fds \cup Socks) \X rw) \cup {NULL}],
           lost' \in [Tasks -> Losses],
           hot' \subseteq HotEntry, nfd_hot' \in 1..max_hot,
           idle_free' \subseteq Slots, idle_active' \subseteq Slots,
           idle_data' \in [Slots -> [fd : Fds \cup {NULL}, data : Tasks \cup {NULL}]],
           epoll' \in [Fds -> (Slots \X rw) \cup {NULL}],
           HotOnce', IdleOnce', SlotsAccounted',
           HotTasks' \cup IdleTasks' \cup LostTasks'
             = HotTasks \cup IdleTasks \cup LostTasks \cup {taskrunning},
           HotTasks' \cap (IdleTasks' \cup LostTasks') = {}, IdleTasks' \cap LostTasks' = {}
    PROVE  FdInv'
<1>1. PlacesApart /\ TypeOK /\ Distinct(taskrunqueue)
  BY DEF FdInv
<1>2. /\ taskrunning' = Nobody /\ taskrunqueue' = taskrunqueue /\ alive' = alive
      /\ Runs' = {} /\ OnQueue' = OnQueue
  BY DEF SwitchAway, Runs, OnQueue
<1>3. PlacesApart'
  BY <1>1, <1>2, RunnerAlone DEF PlacesApart
<1>4. TypeOK'
  BY <1>1, <1>2 DEF TypeOK, HotEntry
<1>5. Distinct(taskrunqueue)'
  BY <1>1, <1>2 DEF Distinct
<1> QED BY <1>3, <1>4, <1>5 DEF FdInv

(* _wait on the hot list. *)
LEMMA WaitHotInv ==
    ASSUME FdInv, Running, SwitchAway, UNCHANGED <<sleeping, ready, burst>>,
           waiting' \in [Tasks -> ((Fds \cup Socks) \X rw) \cup {NULL}],
           NEW what \in Fds \cup Socks, NEW b \in rw, wait_hot(what, b)
    PROVE  FdInv'
<1>1. /\ ~add_poll_full /\ hot' = hot \cup {[data |-> taskrunning, fd |-> what, bits |-> b]}
      /\ nfd_hot' = nfd_hot + 1
      /\ UNCHANGED <<idle_free, idle_active, idle_data, epoll, open, lost>>
  BY DEF wait_hot, SuperPoll_add_poll
<1>2. TypeOK /\ HotOnce /\ IdleOnce /\ SlotsAccounted /\ PlacesApart
  BY DEF FdInv
<1>3. taskrunning \in Tasks \ HotTasks /\ taskrunning \notin IdleTasks \cup LostTasks
  BY RunnerAlone
<1>4. /\ HotOnce' /\ hot' \subseteq HotEntry /\ nfd_hot' \in 1..max_hot
      /\ HotTasks' = HotTasks \cup {taskrunning}
  BY <1>1, <1>2, <1>3, HotAdded
<1>5. IdleOnce' /\ IdleTasks' = IdleTasks
  BY <1>1, <1>2, IdleLeft
<1>6. SlotsAccounted' /\ LostTasks' = LostTasks
  BY <1>1, <1>2, SlotsLeft
<1>7. /\ HotTasks' \cup IdleTasks' \cup LostTasks'
           = HotTasks \cup IdleTasks \cup LostTasks \cup {taskrunning}
      /\ HotTasks' \cap (IdleTasks' \cup LostTasks') = {} /\ IdleTasks' \cap LostTasks' = {}
  BY <1>2, <1>3, <1>4, <1>5, <1>6 DEF PlacesApart
<1>8. /\ lost' \in [Tasks -> Losses] /\ idle_free' \subseteq Slots /\ idle_active' \subseteq Slots
      /\ idle_data' \in [Slots -> [fd : Fds \cup {NULL}, data : Tasks \cup {NULL}]]
      /\ epoll' \in [Fds -> (Slots \X rw) \cup {NULL}]
  BY <1>1, <1>2 DEF TypeOK
<1> QED BY <1>1, <1>4, <1>5, <1>6, <1>7, <1>8, WaitTurnInv

(* _wait when neither list has room: the error path switches away. *)
LEMMA WaitFullInv ==
    ASSUME FdInv, Running, SwitchAway, UNCHANGED <<sleeping, ready, burst>>,
           waiting' \in [Tasks -> ((Fds \cup Socks) \X rw) \cup {NULL}],
           wait_full
    PROVE  FdInv'
<1>1. lost' = [lost EXCEPT ![taskrunning] = "full"] /\ UNCHANGED pollvars
  BY DEF wait_full
<1>2. TypeOK /\ HotOnce /\ IdleOnce /\ SlotsAccounted /\ PlacesApart
  BY DEF FdInv
<1>3. /\ taskrunning \in Tasks /\ taskrunning \notin HotTasks \cup IdleTasks \cup LostTasks
      /\ lost[taskrunning] = "no"
  BY RunnerAlone
<1>4. HotOnce' /\ HotTasks' = HotTasks /\ IdleOnce' /\ IdleTasks' = IdleTasks
  BY <1>1, <1>2, HotLeft, IdleLeft DEF pollvars
<1>5. lost' \in [Tasks -> Losses]
  BY <1>1, <1>2 DEF TypeOK, Losses
<1>6. \A t \in Tasks : lost'[t] = IF t = taskrunning THEN "full" ELSE lost[t]
  BY <1>1, <1>2 DEF TypeOK
<1>7. LostTasks' = LostTasks \cup {taskrunning}
  BY <1>3, <1>6 DEF LostTasks
<1>8. SlotsAccounted'
  <2>1. \A s \in idle_active : lost[idle_data[s].data] \in {"replaced", "closed"}
                                 => lost'[idle_data[s].data] \in {"replaced", "closed"}
    BY <1>2, <1>3, <1>6 DEF IdleOnce
  <2> QED BY <1>1, <1>2, <2>1 DEF SlotsAccounted, pollvars
<1>9. /\ HotTasks' \cup IdleTasks' \cup LostTasks'
           = HotTasks \cup IdleTasks \cup LostTasks \cup {taskrunning}
      /\ HotTasks' \cap (IdleTasks' \cup LostTasks') = {} /\ IdleTasks' \cap LostTasks' = {}
  BY <1>2, <1>3, <1>4, <1>7 DEF PlacesApart
<1>10. /\ hot' \subseteq HotEntry /\ nfd_hot' \in 1..max_hot
       /\ idle_free' \subseteq Slots /\ idle_active' \subseteq Slots /\ open' = open
       /\ idle_data' \in [Slots -> [fd : Fds \cup {NULL}, data : Tasks \cup {NULL}]]
       /\ epoll' \in [Fds -> (Slots \X rw) \cup {NULL}]
  BY <1>1, <1>2 DEF TypeOK, pollvars
<1> QED BY <1>4, <1>5, <1>8, <1>9, <1>10, WaitTurnInv

(***************************************************************************)
(* _wait on the idle list, of a descriptor that is open: the entry of an   *)
(* earlier waiter is taken over, and that waiter is lost.                  *)
(***************************************************************************)
LEMMA WaitIdleOpenInv ==
    ASSUME FdInv, Running, SwitchAway, UNCHANGED <<sleeping, ready, burst>>,
           waiting' \in [Tasks -> ((Fds \cup Socks) \X rw) \cup {NULL}],
           NEW fd \in Fds, NEW b \in rw, wait_idle(fd, b), fd \in open
    PROVE  FdInv'
<1>1. PICK s \in idle_free :
        /\ idle_free' = idle_free \ {s}
        /\ idle_active' = idle_active \cup {s}
        /\ idle_data' = [idle_data EXCEPT ![s] = [fd |-> fd, data |-> taskrunning]]
        /\ epoll' = [epoll EXCEPT ![fd] = <<s, b>>]
        /\ UNCHANGED <<hot, nfd_hot, open>>
  BY DEF wait_idle, SuperPoll_add_idle
<1>2. lost' = [t \in Tasks |-> IF t = Waiter(fd) THEN "replaced" ELSE lost[t]]
  BY DEF wait_idle
<1>3. TypeOK /\ HotOnce /\ IdleOnce /\ SlotsAccounted /\ PlacesApart
  BY DEF FdInv
<1>4. /\ taskrunning \in Tasks \ IdleTasks /\ taskrunning \notin HotTasks \cup LostTasks
      /\ lost[taskrunning] = "no"
  BY RunnerAlone
<1>5. s \in Slots /\ s \notin idle_active
  BY <1>3 DEF TypeOK, SlotsAccounted
<1>6. /\ IdleOnce'
      /\ \A f \in Fds : Waiter(f)' = IF f = fd THEN taskrunning ELSE Waiter(f)
      /\ IdleTasks' = (IdleTasks \ {Waiter(fd)}) \cup {taskrunning}
  BY <1>1, <1>3, <1>4, <1>5, IdleAdded
<1>7. HotOnce' /\ HotTasks' = HotTasks
  BY <1>1, <1>3, HotLeft
<1>8. lost' \in [Tasks -> Losses]
  BY <1>2, <1>3 DEF TypeOK, Losses
<1>9. \A t \in Tasks : lost'[t] = IF t = Waiter(fd) THEN "replaced" ELSE lost[t]
  BY <1>2
<1>10. LostTasks' = LostTasks \cup ({Waiter(fd)} \ {NULL})
  <2>1. Waiter(fd) = NULL \/ Waiter(fd) \in Tasks
    BY <1>3, WaitersWait, PlacesAreTasks
  <2> QED BY <1>9, <2>1, PlacesAreTasks DEF LostTasks
<1>11. /\ HotTasks' \cup IdleTasks' \cup LostTasks'
            = HotTasks \cup IdleTasks \cup LostTasks \cup {taskrunning}
       /\ HotTasks' \cap (IdleTasks' \cup LostTasks') = {} /\ IdleTasks' \cap LostTasks' = {}
  <2>1. Waiter(fd) = NULL \/ Waiter(fd) \in IdleTasks
    BY <1>3, WaitersWait
  <2>2. NULL \notin IdleTasks /\ taskrunning # NULL
    BY <1>4, PlacesAreTasks
  <2> QED BY <1>3, <1>4, <1>6, <1>7, <1>10, <2>1, <2>2 DEF PlacesApart
<1>12. /\ idle_data'[s] = [fd |-> fd, data |-> taskrunning]
       /\ \A r \in idle_active : idle_data'[r] = idle_data[r]
       /\ epoll'[fd] = <<s, b>> /\ \A f \in Fds \ {fd} : epoll'[f] = epoll[f]
  BY <1>1, <1>3, <1>5 DEF TypeOK
<1>13. SlotsAccounted'
  <2>1. idle_active' \cup idle_free' = Slots /\ idle_active' \cap idle_free' = {}
    BY <1>1, <1>3, <1>5 DEF SlotsAccounted
  <2>2. ASSUME NEW r \in idle_active'
        PROVE  \/ \E f \in Fds : epoll'[f] # NULL /\ epoll'[f][1] = r
               \/ lost'[idle_data'[r].data] \in {"replaced", "closed"}
    <3>1. CASE r = s
      <4>1. epoll'[fd] # NULL /\ epoll'[fd][1] = r
        BY <1>5, <1>12, <3>1, SuperPollAssumption DEF rw
      <4> QED BY <4>1
    <3>2. CASE r # s
      <4>1. r \in idle_active /\ idle_data'[r] = idle_data[r] /\ idle_data[r].data \in Tasks
        BY <1>1, <1>3, <1>12, <2>2, <3>2 DEF IdleOnce
      <4>2. CASE lost[idle_data[r].data] \in {"replaced", "closed"}
        BY <1>9, <4>1, <4>2
      <4>3. CASE \E f \in Fds : epoll[f] # NULL /\ epoll[f][1] = r
        <5>1. PICK f \in Fds : epoll[f] # NULL /\ epoll[f][1] = r
          BY <4>3
        <5>2. CASE f = fd
          <6>1. Waiter(fd) = idle_data[r].data
            BY <5>1, <5>2 DEF Waiter
          <6> QED BY <1>9, <4>1, <6>1
        <5>3. CASE f # fd
          BY <1>12, <5>1, <5>3
        <5> QED BY <5>2, <5>3
      <4> QED BY <1>3, <4>1, <4>2, <4>3 DEF SlotsAccounted
    <3> QED BY <3>1, <3>2
  <2> QED BY <2>1, <2>2 DEF SlotsAccounted
<1>14. /\ hot' \subseteq HotEntry /\ nfd_hot' \in 1..max_hot
       /\ idle_free' \subseteq Slots /\ idle_active' \subseteq Slots
       /\ idle_data' \in [Slots -> [fd : Fds \cup {NULL}, data : Tasks \cup {NULL}]]
       /\ epoll' \in [Fds -> (Slots \X rw) \cup {NULL}]
  BY <1>1, <1>3, <1>4, <1>5 DEF TypeOK
<1> QED BY <1>1, <1>6, <1>7, <1>8, <1>11, <1>13, <1>14, WaitTurnInv

(***************************************************************************)
(* _wait on the idle list, of a descriptor that is closed: epoll_ctl has   *)
(* refused it after the slot was taken, and the task is lost.              *)
(***************************************************************************)
LEMMA WaitIdleClosedInv ==
    ASSUME FdInv, Running, SwitchAway, UNCHANGED <<sleeping, ready, burst>>,
           waiting' \in [Tasks -> ((Fds \cup Socks) \X rw) \cup {NULL}],
           NEW fd \in Fds, NEW b \in rw, wait_idle(fd, b), fd \notin open
    PROVE  FdInv'
<1>1. PICK s \in idle_free :
        /\ idle_free' = idle_free \ {s}
        /\ idle_active' = idle_active \cup {s}
        /\ idle_data' = [idle_data EXCEPT ![s] = [fd |-> fd, data |-> taskrunning]]
        /\ UNCHANGED <<epoll, hot, nfd_hot, open>>
  BY DEF wait_idle, SuperPoll_add_idle
<1>2. lost' = [t \in Tasks |-> IF t = taskrunning THEN "closed" ELSE lost[t]]
  BY DEF wait_idle
<1>3. TypeOK /\ HotOnce /\ IdleOnce /\ SlotsAccounted /\ PlacesApart
  BY DEF FdInv
<1>4. /\ taskrunning \in Tasks /\ taskrunning \notin HotTasks \cup IdleTasks \cup LostTasks
      /\ lost[taskrunning] = "no"
  BY RunnerAlone
<1>5. s \in Slots /\ s \notin idle_active
  BY <1>3 DEF TypeOK, SlotsAccounted
<1>6. /\ idle_data'[s] = [fd |-> fd, data |-> taskrunning]
      /\ \A r \in idle_active : idle_data'[r] = idle_data[r]
      /\ \A f \in Fds : epoll[f] # NULL => epoll[f][1] \in idle_active
  BY <1>1, <1>3, <1>5 DEF TypeOK, IdleOnce, EpollNamesItsSlot
<1>7. \A f \in Fds : Waiter(f)' = Waiter(f)
  BY <1>1, <1>6 DEF Waiter
<1>8. IdleOnce' /\ IdleTasks' = IdleTasks
  <2>1. EpollNamesItsSlot'
    BY <1>1, <1>3, <1>6 DEF IdleOnce, EpollNamesItsSlot
  <2>2. \A r \in idle_active' : idle_data'[r].data \in Tasks
    BY <1>1, <1>3, <1>4, <1>6 DEF IdleOnce
  <2>3. \A f, g \in Fds : epoll'[f] # NULL /\ epoll'[g] # NULL /\ Waiter(f)' = Waiter(g)' => f = g
    BY <1>1, <1>3, <1>7 DEF IdleOnce
  <2>4. IdleOnce'
    BY <2>1, <2>2, <2>3 DEF IdleOnce
  <2> QED BY <1>1, <1>7, <2>4 DEF IdleTasks
<1>9. HotOnce' /\ HotTasks' = HotTasks
  BY <1>1, <1>3, HotLeft
<1>10. lost' \in [Tasks -> Losses]
  BY <1>2, <1>3 DEF TypeOK, Losses
<1>11. LostTasks' = LostTasks \cup {taskrunning}
  BY <1>2, <1>4 DEF LostTasks
<1>12. /\ HotTasks' \cup IdleTasks' \cup LostTasks'
            = HotTasks \cup IdleTasks \cup LostTasks \cup {taskrunning}
       /\ HotTasks' \cap (IdleTasks' \cup LostTasks') = {} /\ IdleTasks' \cap LostTasks' = {}
  BY <1>3, <1>4, <1>8, <1>9, <1>11 DEF PlacesApart
<1>13. SlotsAccounted'
  <2>1. idle_active' \cup idle_free' = Slots /\ idle_active' \cap idle_free' = {}
    BY <1>1, <1>3, <1>5 DEF SlotsAccounted
  <2>2. ASSUME NEW r \in idle_active'
        PROVE  \/ \E f \in Fds : epoll'[f] # NULL /\ epoll'[f][1] = r
               \/ lost'[idle_data'[r].data] \in {"replaced", "closed"}
    <3>1. CASE r = s
      <4>1. idle_data'[r].data = taskrunning /\ lost'[taskrunning] = "closed"
        BY <1>2, <1>4, <1>6, <3>1
      <4> QED BY <4>1
    <3>2. CASE r # s
      <4>1. r \in idle_active /\ idle_data'[r] = idle_data[r] /\ idle_data[r].data \in Tasks
        BY <1>1, <1>3, <1>6, <2>2, <3>2 DEF IdleOnce
      <4>2. lost[idle_data[r].data] \in {"replaced", "closed"}
              => lost'[idle_data[r].data] \in {"replaced", "closed"}
        BY <1>2, <4>1
      <4> QED BY <1>1, <1>3, <4>1, <4>2 DEF SlotsAccounted
    <3> QED BY <3>1, <3>2
  <2> QED BY <2>1, <2>2 DEF SlotsAccounted
<1>14. /\ hot' \subseteq HotEntry /\ nfd_hot' \in 1..max_hot
       /\ idle_free' \subseteq Slots /\ idle_active' \subseteq Slots
       /\ idle_data' \in [Slots -> [fd : Fds \cup {NULL}, data : Tasks \cup {NULL}]]
       /\ epoll' \in [Fds -> (Slots \X rw) \cup {NULL}]
  BY <1>1, <1>3, <1>4, <1>5 DEF TypeOK
<1> QED BY <1>1, <1>8, <1>9, <1>10, <1>12, <1>13, <1>14, WaitTurnInv

(* fdwait and mqwait. *)
LEMMA FdwaitInv == \A fd \in Fds, b \in rw : FdInv /\ fdwait(fd, b) => FdInv'
<1> SUFFICES ASSUME NEW fd \in Fds, NEW b \in rw, FdInv, fdwait(fd, b) PROVE FdInv'
  OBVIOUS
<1>1. /\ Running /\ SwitchAway /\ UNCHANGED <<sleeping, ready, burst>>
      /\ waiting' = [waiting EXCEPT ![taskrunning] = <<fd, b>>]
  BY DEF fdwait
<1>2. waiting' \in [Tasks -> ((Fds \cup Socks) \X rw) \cup {NULL}]
  BY <1>1 DEF FdInv, TypeOK
<1>3. wait_hot(fd, b) \/ wait_idle(fd, b) \/ wait_full
  BY DEF fdwait
<1> QED BY <1>1, <1>2, <1>3, WaitHotInv, WaitIdleOpenInv, WaitIdleClosedInv, WaitFullInv

(* A task waits for a socket. *)
LEMMA MqwaitInv == \A sock \in Socks, b \in rw : FdInv /\ mqwait(sock, b) => FdInv'
<1> SUFFICES ASSUME NEW sock \in Socks, NEW b \in rw, FdInv, mqwait(sock, b) PROVE FdInv'
  OBVIOUS
<1>1. /\ Running /\ SwitchAway /\ UNCHANGED <<sleeping, ready, burst>>
      /\ waiting' = [waiting EXCEPT ![taskrunning] = <<sock, b>>]
  BY DEF mqwait
<1>2. waiting' \in [Tasks -> ((Fds \cup Socks) \X rw) \cup {NULL}]
  BY <1>1 DEF FdInv, TypeOK
<1>3. wait_hot(sock, b) \/ wait_full
  BY DEF mqwait
<1> QED BY <1>1, <1>2, <1>3, WaitHotInv, WaitFullInv

(* tasknuke and taskready: a task that is on the hot list is taken off it. *)
LEMMA NukeInv == \A t \in Tasks : FdInv /\ tasknuke(t) => FdInv'
<1> SUFFICES ASSUME NEW t \in Tasks, FdInv, tasknuke(t) PROVE FdInv'
  OBVIOUS
<1>1. PICK e \in hot :
        /\ e.data = t /\ hot' = hot \ {e} /\ nfd_hot' = nfd_hot - 1
        /\ UNCHANGED <<idle_free, idle_active, idle_data, epoll, open>>
  BY DEF tasknuke, SuperPoll_compact_down
<1>2. /\ taskrunqueue' = Append(taskrunqueue, t) /\ UNCHANGED <<alive, taskrunning>>
      /\ waiting' = [waiting EXCEPT ![t] = NULL] /\ UNCHANGED <<sleeping, ready, lost>>
      /\ burst' \in 0..MaxBurst
  BY BusyStep DEF tasknuke, MakeReady
<1>3. /\ TypeOK /\ HotOnce /\ IdleOnce /\ SlotsAccounted /\ PlacesApart
      /\ Distinct(taskrunqueue) /\ taskrunqueue \in Seq(Tasks)
  BY DEF FdInv, TypeOK
<1>4. e # idle_entry /\ t \in HotTasks
  BY <1>1, PlacesAreTasks DEF idle_entry, HotTasks
<1>5. /\ HotOnce' /\ hot' \subseteq HotEntry /\ nfd_hot' \in 1..max_hot
      /\ HotTasks' = HotTasks \ {t}
  <2>1. Cardinality({e}) = 1
    BY FS_Singleton
  <2>2. {f.data : f \in {e}} = {t} /\ {e} \subseteq hot \ {idle_entry}
    BY <1>1, <1>4
  <2>3. nfd_hot' = nfd_hot - Cardinality({e})
    BY <1>1, <2>1
  <2> QED BY <1>1, <1>3, <2>2, <2>3, HotRemoved
<1>6. IdleOnce' /\ IdleTasks' = IdleTasks /\ SlotsAccounted' /\ LostTasks' = LostTasks
  BY <1>1, <1>2, <1>3, IdleLeft, SlotsLeft
<1>7. t \notin OnQueue
  BY <1>3, <1>4 DEF PlacesApart
<1>8. /\ taskrunqueue' \in Seq(Tasks) /\ Distinct(taskrunqueue)'
      /\ Queued(taskrunqueue)' = Queued(taskrunqueue) \cup {t}
  <2>1. /\ Append(taskrunqueue, t) \in Seq(Tasks) /\ Distinct(Append(taskrunqueue, t))
        /\ Queued(Append(taskrunqueue, t)) = Queued(taskrunqueue) \cup {t}
    BY <1>3, <1>7, AppendedTask DEF OnQueue
  <2> QED BY <1>2, <2>1 DEF Distinct, Queued
<1>9. Runs' = Runs /\ OnQueue' = OnQueue \cup {t} /\ sleeping' = sleeping /\ alive' = alive
  BY <1>2, <1>8 DEF Runs, OnQueue
<1>10. PlacesApart'
  BY <1>3, <1>4, <1>5, <1>6, <1>9 DEF PlacesApart
<1>11. TypeOK'
  BY <1>1, <1>2, <1>3, <1>5, <1>8 DEF TypeOK, HotEntry
<1> QED BY <1>3, <1>5, <1>6, <1>8, <1>10, <1>11 DEF FdInv

(***************************************************************************)
(* close of a descriptor: its epoll entry goes without a trace, and the    *)
(* task that waited for it there is lost with its slot.                    *)
(***************************************************************************)
LEMMA CloseInv == \A fd \in Fds : FdInv /\ fdclose(fd) => FdInv'
<1> SUFFICES ASSUME NEW fd \in Fds, FdInv, fdclose(fd) PROVE FdInv'
  OBVIOUS
<1>1. /\ open' = open \ {fd} /\ epoll' = [epoll EXCEPT ![fd] = NULL]
      /\ UNCHANGED <<hot, nfd_hot, idle_free, idle_active, idle_data>>
      /\ ready' \subseteq ready /\ UNCHANGED <<taskvars, sleeping, waiting>>
      /\ burst' \in 0..MaxBurst
  BY BusyStep DEF fdclose, KernelClose
<1>2. lost' = [t \in Tasks |-> IF \E s \in idle_active : idle_data[s] = [fd |-> fd, data |-> t]
                               THEN "closed" ELSE lost[t]]
  BY DEF fdclose
<1>3. /\ TypeOK /\ HotOnce /\ IdleOnce /\ SlotsAccounted /\ PlacesApart
      /\ Distinct(taskrunqueue) /\ epoll \in [Fds -> (Slots \X rw) \cup {NULL}]
      /\ idle_data \in [Slots -> [fd : Fds \cup {NULL}, data : Tasks \cup {NULL}]]
      /\ idle_active \subseteq Slots /\ lost \in [Tasks -> Losses]
  BY DEF FdInv, TypeOK
<1> DEFINE left == IF epoll[fd] = NULL THEN {} ELSE {fd}
<1>4. /\ left \in SUBSET Fds /\ \A f \in left : epoll[f] # NULL
      /\ epoll' = [f \in Fds |-> IF f \in left THEN NULL ELSE epoll[f]]
  BY <1>1, <1>3
<1>5. {Waiter(f) : f \in left} = {Waiter(fd)} \ {NULL}
  BY <1>3, WaitersWait, PlacesAreTasks
<1>6. \A f \in open \ open' : f \in left \/ epoll[f] = NULL
  BY <1>1
<1> HIDE DEF left
<1>7. /\ IdleOnce'
      /\ IdleTasks' = IdleTasks \ {Waiter(f) : f \in left}
  BY <1>1, <1>3, <1>4, <1>6, IdleRemoved
<1>8. IdleTasks' = IdleTasks \ {Waiter(fd)}
  BY <1>5, <1>7, PlacesAreTasks
<1>9. HotOnce' /\ HotTasks' = HotTasks
  BY <1>1, <1>3, HotLeft
<1>10. \A s \in idle_active : LET t == idle_data[s].data IN
          /\ t \in Tasks
          /\ idle_data[s].fd = fd => lost'[t] = "closed"
          /\ \/ epoll[fd] # NULL /\ epoll[fd][1] = s /\ idle_data[s].fd = fd /\ t = Waiter(fd)
             \/ \E f \in Fds \ {fd} : epoll[f] # NULL /\ epoll[f][1] = s
             \/ lost[t] \in {"replaced", "closed"}
  <2> SUFFICES ASSUME NEW s \in idle_active
               PROVE  LET t == idle_data[s].data IN
                        /\ t \in Tasks
                        /\ idle_data[s].fd = fd => lost'[t] = "closed"
                        /\ \/ epoll[fd] # NULL /\ epoll[fd][1] = s /\ idle_data[s].fd = fd /\ t = Waiter(fd)
                           \/ \E f \in Fds \ {fd} : epoll[f] # NULL /\ epoll[f][1] = s
                           \/ lost[t] \in {"replaced", "closed"}
    OBVIOUS
  <2>1. idle_data[s].data \in Tasks
    BY <1>3 DEF IdleOnce
  <2>2. idle_data[s] = [fd |-> idle_data[s].fd, data |-> idle_data[s].data]
    BY <1>3
  <2>3. idle_data[s].fd = fd => lost'[idle_data[s].data] = "closed"
    BY <1>2, <2>1, <2>2
  <2>4. epoll[fd] # NULL /\ epoll[fd][1] = s => idle_data[s].fd = fd /\ idle_data[s].data = Waiter(fd)
    BY <1>3 DEF IdleOnce, EpollNamesItsSlot, Waiter
  <2> QED BY <1>3, <2>1, <2>3, <2>4 DEF SlotsAccounted
<1>11. LostTasks' = LostTasks \cup ({Waiter(fd)} \ {NULL})
  <2>1. ASSUME NEW t \in Tasks, lost'[t] # "no", lost[t] = "no"
        PROVE  t = Waiter(fd)
    <3>1. PICK s \in idle_active : idle_data[s] = [fd |-> fd, data |-> t]
      BY <1>2, <2>1
    <3>2. idle_data[s].fd = fd /\ idle_data[s].data = t
      BY <3>1
    <3>3. ~ \E f \in Fds \ {fd} : epoll[f] # NULL /\ epoll[f][1] = s
      BY <1>3, <3>2 DEF IdleOnce, EpollNamesItsSlot
    <3> QED BY <1>10, <2>1, <3>2, <3>3
  <2>2. ASSUME NEW t \in Tasks, lost[t] # "no" PROVE lost'[t] # "no"
    BY <1>2, <2>2
  <2>3. ASSUME epoll[fd] # NULL PROVE Waiter(fd) \in Tasks /\ lost'[Waiter(fd)] = "closed"
    <3>1. epoll[fd][1] \in idle_active /\ idle_data[epoll[fd][1]].fd = fd
          /\ Waiter(fd) = idle_data[epoll[fd][1]].data
      BY <1>3, <2>3 DEF IdleOnce, EpollNamesItsSlot, Waiter
    <3> QED BY <1>10, <3>1
  <2>4. epoll[fd] = NULL => Waiter(fd) = NULL
    BY DEF Waiter
  <2> QED BY <2>1, <2>2, <2>3, <2>4, PlacesAreTasks DEF LostTasks
<1>12. lost' \in [Tasks -> Losses]
  BY <1>2, <1>3 DEF Losses
<1>13. SlotsAccounted'
  <2>1. idle_active' \cup idle_free' = Slots /\ idle_active' \cap idle_free' = {}
    BY <1>1, <1>3 DEF SlotsAccounted
  <2>2. ASSUME NEW s \in idle_active
        PROVE  \/ \E f \in Fds : epoll'[f] # NULL /\ epoll'[f][1] = s
               \/ lost'[idle_data[s].data] \in {"replaced", "closed"}
    <3>1. lost[idle_data[s].data] \in {"replaced", "closed"}
            => lost'[idle_data[s].data] \in {"replaced", "closed"}
      BY <1>2, <1>10
    <3>2. \A f \in Fds \ {fd} : epoll'[f] = epoll[f]
      BY <1>1, <1>3
    <3> QED BY <1>10, <3>1, <3>2
  <2> QED BY <1>1, <2>1, <2>2 DEF SlotsAccounted
<1>14. Runs' = Runs /\ OnQueue' = OnQueue /\ sleeping' = sleeping /\ alive' = alive
  BY <1>1 DEF Runs, OnQueue, taskvars
<1>15. PlacesApart'
  <2>1. Waiter(fd) = NULL \/ Waiter(fd) \in IdleTasks
    BY <1>3, WaitersWait
  <2> QED BY <1>3, <1>8, <1>9, <1>11, <1>14, <2>1, PlacesAreTasks DEF PlacesApart
<1>16. TypeOK'
  <2>1. epoll' \in [Fds -> (Slots \X rw) \cup {NULL}]
    BY <1>1, <1>3
  <2> QED BY <1>1, <1>3, <1>12, <2>1 DEF TypeOK, HotEntry, taskvars
<1>17. Distinct(taskrunqueue)'
  BY <1>1, <1>3 DEF Distinct, taskvars
<1> QED BY <1>7, <1>9, <1>13, <1>15, <1>16, <1>17 DEF FdInv

(* The tasks of a result, in the order in which they are made ready. *)
LEMMA OrderedTasks ==
    ASSUME NEW S \in SUBSET Tasks, NEW p \in Orders(S)
    PROVE  p \in Seq(Tasks) /\ Distinct(p) /\ Queued(p) = S
<1>1. Cardinality(S) \in Nat
  <2>1. IsFiniteSet(Tasks)
    BY FdTaskAssumption, SuperPollAssumption
  <2> QED BY <2>1, FS_Subset, FS_CardinalityType
<1>2. /\ p \in [1..Cardinality(S) -> S]
      /\ \A i, j \in 1..Cardinality(S) : p[i] = p[j] => i = j
      /\ \A x \in S : \E i \in 1..Cardinality(S) : p[i] = x
  BY DEF Orders, Bijection, Injection, Surjection, IsInjective
<1>3. DOMAIN p = 1..Cardinality(S)
  BY <1>2
<1>4. p \in Seq(Tasks)
  BY <1>1, <1>2
<1>5. Distinct(p)
  BY <1>2, <1>3 DEF Distinct
<1>6. Queued(p) = S
  BY <1>2, <1>3 DEF Queued
<1> QED BY <1>4, <1>5, <1>6

(***************************************************************************)
(* fdtask: the tasks that are hit on either list, and the sleepers that    *)
(* are due, are ready; those that are passed over are lost.                *)
(***************************************************************************)
LEMMA PollInv == FdInv /\ Poll => FdInv'
<1> SUFFICES ASSUME FdInv, Poll PROVE FdInv'
  OBVIOUS
<1>1. PICK dropped \in PassedOver(ready), due \in SUBSET sleeping :
        /\ SuperPoll_poll(ready)
        /\ sleeping' = sleeping \ due
        /\ \E p \in Orders(HitData(ready, dropped)), q \in Orders(due) : taskrunqueue' = p \o q
        /\ waiting' = [t \in Tasks |-> IF t \in HitData(ready, dropped) THEN NULL ELSE waiting[t]]
        /\ lost' = [t \in Tasks |-> IF t \in {Waiter(fd) : fd \in dropped} THEN "dropped" ELSE lost[t]]
  BY DEF Poll, wake_sleepers
<1>2. taskrunning = Nobody /\ taskrunqueue = <<>> /\ burst' = 0 /\ UNCHANGED <<alive, taskrunning, ready>>
  BY DEF Poll, OnlyFdtask
<1>3. /\ TypeOK /\ HotOnce /\ IdleOnce /\ SlotsAccounted /\ PlacesApart /\ idle_entry \in hot
      /\ lost \in [Tasks -> Losses]
  BY DEF FdInv, TypeOK, HotOnce, HotListIntact
<1> DEFINE H   == HotReady(ready)
           fds == EpollReady(ready)
           HH  == {e.data : e \in H}
           WI  == {Waiter(fd) : fd \in fds \ dropped}
           WD  == {Waiter(fd) : fd \in dropped}
<1>4. H \subseteq hot \ {idle_entry}
  BY DEF HotReady
<1>5. IdleReady(ready) = fds
  BY <1>3 DEF IdleReady
<1>6. fds \in SUBSET Fds /\ \A fd \in fds : epoll[fd] # NULL
  BY DEF EpollReady, EpollIO, EpollExceptional
<1>7. dropped \subseteq fds
  BY <1>3 DEF PassedOver, EpollReady
<1>8. HitData(ready, dropped) = HH \cup WI
  BY <1>5 DEF HitData
<1>9. /\ hot' = hot \ H /\ nfd_hot' = nfd_hot - Cardinality(H)
      /\ epoll' = [fd \in Fds |-> IF fd \in fds THEN NULL ELSE epoll[fd]]
      /\ idle_active' = idle_active \ {epoll[fd][1] : fd \in fds}
      /\ idle_free' = idle_free \cup {epoll[fd][1] : fd \in fds}
      /\ idle_data' = idle_data /\ open' = open
  <2>1. nfd_hot' = nfd_hot - Cardinality(H)
    BY <1>1 DEF SuperPoll_poll, SuperPoll_arm_idle_fd
  <2>2. hot' = hot \ H
    BY <1>1, <1>3, <1>4 DEF SuperPoll_poll, SuperPoll_arm_idle_fd
  <2> QED BY <1>1, <1>5, <2>1, <2>2 DEF SuperPoll_poll, SuperPoll_add_idle_hits
<1> HIDE DEF H, fds
<1>10. /\ HotOnce' /\ hot' \subseteq HotEntry /\ nfd_hot' \in 1..max_hot
       /\ HotTasks' = HotTasks \ HH /\ HH \subseteq HotTasks
  <2>1. HH \subseteq HotTasks
    BY <1>4 DEF HotTasks
  <2> QED BY <1>3, <1>4, <1>9, <2>1, HotRemoved
<1>11. /\ IdleOnce'
       /\ IdleTasks' = IdleTasks \ {Waiter(fd) : fd \in fds}
  <2>1. \A fd \in open \ open' : fd \in fds \/ epoll[fd] = NULL
    BY <1>9
  <2> QED BY <1>3, <1>6, <1>9, <2>1, IdleRemoved
<1>12. IdleTasks' = IdleTasks \ (WI \cup WD)
  BY <1>7, <1>11
<1>13. WI \subseteq IdleTasks /\ WD \subseteq IdleTasks /\ WI \cap WD = {}
  <2>1. \A fd \in fds : Waiter(fd) \in IdleTasks
    BY <1>6 DEF IdleTasks
  <2>2. WI \cap WD = {}
    BY <1>3, <1>6, <1>7 DEF IdleOnce
  <2> QED BY <1>7, <2>1, <2>2
<1> HIDE DEF HH, WI, WD
<1>14. lost' = [t \in Tasks |-> IF t \in WD THEN "dropped" ELSE lost[t]]
  BY <1>1 DEF WD
<1>15. lost' \in [Tasks -> Losses]
  BY <1>3, <1>14 DEF Losses
<1>16. LostTasks' = LostTasks \cup WD
  BY <1>13, <1>14, PlacesAreTasks DEF LostTasks
<1>17. /\ taskrunqueue' \in Seq(Tasks) /\ Distinct(taskrunqueue)'
       /\ Queued(taskrunqueue)' = HH \cup WI \cup due
  <2>1. PICK p \in Orders(HH \cup WI), q \in Orders(due) : taskrunqueue' = p \o q
    BY <1>1, <1>8
  <2>2. HH \cup WI \in SUBSET Tasks /\ due \in SUBSET Tasks /\ (HH \cup WI) \cap due = {}
    BY <1>3, <1>10, <1>13, PlacesAreTasks DEF PlacesApart
  <2>3. p \in Seq(Tasks) /\ Distinct(p) /\ Queued(p) = HH \cup WI
    BY <2>2, OrderedTasks
  <2>4. q \in Seq(Tasks) /\ Distinct(q) /\ Queued(q) = due
    BY <2>2, OrderedTasks
  <2>5. p \o q \in Seq(Tasks) /\ Queued(p \o q) = Queued(p) \cup Queued(q) /\ Distinct(p \o q)
    BY <2>2, <2>3, <2>4, JoinedTasks
  <2> DEFINE both == p \o q
  <2>6. /\ taskrunqueue' = both /\ both \in Seq(Tasks)
        /\ Queued(both) = HH \cup WI \cup due /\ Distinct(both)
    BY <2>1, <2>3, <2>4, <2>5
  <2> HIDE DEF both
  <2> QED BY <2>6 DEF Distinct, Queued
<1>18. /\ Runs = {} /\ Runs' = {} /\ OnQueue = {} /\ OnQueue' = HH \cup WI \cup due
       /\ alive' = alive
  BY <1>2, <1>17, EmptyList DEF Runs, OnQueue
<1>19. PlacesApart'
  BY <1>1, <1>3, <1>10, <1>12, <1>13, <1>16, <1>18 DEF PlacesApart
<1>20. SlotsAccounted'
  <2>1. \A fd \in fds : epoll[fd][1] \in idle_active
    BY <1>3, <1>6 DEF IdleOnce, EpollNamesItsSlot
  <2>2. idle_active' \cup idle_free' = Slots /\ idle_active' \cap idle_free' = {}
    BY <1>3, <1>9, <2>1 DEF SlotsAccounted
  <2>3. ASSUME NEW s \in idle_active'
        PROVE  \/ \E f \in Fds : epoll'[f] # NULL /\ epoll'[f][1] = s
               \/ lost'[idle_data[s].data] \in {"replaced", "closed"}
    <3>1. s \in idle_active /\ idle_data[s].data \in Tasks
      BY <1>3, <1>9 DEF IdleOnce
    <3>2. CASE \E f \in Fds : epoll[f] # NULL /\ epoll[f][1] = s
      BY <1>9, <3>2
    <3>3. CASE lost[idle_data[s].data] \in {"replaced", "closed"}
      <4>1. idle_data[s].data \in LostTasks
        BY <3>1, <3>3 DEF LostTasks
      <4>2. idle_data[s].data \notin WD
        BY <1>3, <1>13, <4>1 DEF PlacesApart
      <4> QED BY <1>14, <3>1, <3>3, <4>2
    <3> QED BY <1>3, <3>1, <3>2, <3>3 DEF SlotsAccounted
  <2> QED BY <1>9, <2>2, <2>3 DEF SlotsAccounted
<1>21. TypeOK'
  <2>1. epoll' \in [Fds -> (Slots \X rw) \cup {NULL}]
    BY <1>3, <1>9 DEF TypeOK
  <2>2. waiting' \in [Tasks -> ((Fds \cup Socks) \X rw) \cup {NULL}]
    BY <1>1, <1>3 DEF TypeOK
  <2>3. idle_active' \subseteq Slots /\ idle_free' \subseteq Slots
    BY <1>20 DEF SlotsAccounted
  <2>4. burst' \in 0..MaxBurst
    BY <1>2, FdTaskAssumption
  <2> QED BY <1>1, <1>2, <1>3, <1>9, <1>10, <1>15, <1>17, <2>1, <2>2, <2>3, <2>4 DEF TypeOK, HotEntry
<1> QED BY <1>10, <1>11, <1>17, <1>19, <1>20, <1>21 DEF FdInv

(* Every step keeps the invariant. *)
LEMMA FdStepInv == FdInv /\ [Next]_vars => FdInv'
<1> SUFFICES ASSUME FdInv, [Next]_vars PROVE FdInv'
  OBVIOUS
<1>1. CASE UNCHANGED vars
  <2>1. open \subseteq open' /\ open' \subseteq Fds /\ ready' \subseteq (Fds \cup Socks) \X {"r", "w", "x"}
        /\ burst' \in 0..MaxBurst
    BY <1>1 DEF vars, FdInv, TypeOK
  <2> QED BY <1>1, <2>1, OutsideInv DEF vars
<1>2. CASE TaskStep
  BY <1>2, FdwaitInv, MqwaitInv, DelayInv, YieldInv, ExitInv, CreateInv, NukeInv, ConsumeInv,
     CloseInv, OpenInv DEF TaskStep
<1> QED BY <1>1, <1>2, SchedulerInv, PollInv, ArriveInv DEF Next

(***************************************************************************)
(* A task has as many sources as it has places, and of the two wait lists  *)
(* one entry each: so a task that is alive has one, and another has none.  *)
(***************************************************************************)
LEMMA PlacesAreSources ==
    ASSUME FdInv, NEW t \in Tasks
    PROVE  /\ t \in alive => Sources(t) # {}
           /\ t \notin alive => Sources(t) = {}
           /\ \A a, b \in Sources(t) : a = b
<1>1. /\ HotOnce /\ IdleOnce /\ PlacesApart /\ Distinct(taskrunqueue)
      /\ t # NULL /\ t # Nobody
  BY PlacesAreTasks DEF FdInv
<1> DEFINE Running1 == {<<"running", t>> : x \in {t} \cap {taskrunning}}
           Queued1   == {<<"queued", i>> : i \in {j \in DOMAIN taskrunqueue : taskrunqueue[j] = t}}
           Sleeping1 == {<<"sleeping", x>> : x \in {t} \cap sleeping}
           Hot1      == {<<"hot", e>> : e \in {h \in hot : h.data = t}}
           Idle1     == {<<"idle", fd>> : fd \in {f \in Fds : Waiter(f) = t}}
           Lost1     == {<<"lost", x>> : x \in {s \in {t} : lost[s] # "no"}}
           One(S, P) == (t \in P => \E x : S = {x}) /\ (t \notin P => S = {})
<1>2. One(Running1, Runs)
  BY <1>1 DEF Runs
<1>3. One(Queued1, OnQueue)
  <2>1. ASSUME t \in OnQueue PROVE \E x : Queued1 = {x}
    <3>1. PICK i \in DOMAIN taskrunqueue : taskrunqueue[i] = t
      BY <2>1 DEF OnQueue, Queued
    <3>2. {j \in DOMAIN taskrunqueue : taskrunqueue[j] = t} = {i}
      BY <1>1, <3>1 DEF Distinct
    <3>3. Queued1 = {<<"queued", i>>}
      BY <3>2
    <3> QED BY <3>3
  <2>2. t \notin OnQueue => Queued1 = {}
    BY DEF OnQueue, Queued
  <2> QED BY <2>1, <2>2
<1>4. One(Sleeping1, sleeping)
  OBVIOUS
<1>5. One(Hot1, HotTasks)
  <2>1. ASSUME t \in HotTasks PROVE \E x : Hot1 = {x}
    <3>1. PICK e \in hot : e.data = t
      BY <2>1 DEF HotTasks
    <3>2. {h \in hot : h.data = t} = {e}
      BY <1>1, <3>1 DEF HotOnce
    <3>3. Hot1 = {<<"hot", e>>}
      BY <3>2
    <3> QED BY <3>3
  <2>2. t \notin HotTasks => Hot1 = {}
    BY <1>1 DEF HotTasks, idle_entry
  <2> QED BY <2>1, <2>2
<1>6. One(Idle1, IdleTasks)
  <2>1. ASSUME t \in IdleTasks PROVE \E x : Idle1 = {x}
    <3>1. PICK fd \in Fds : epoll[fd] # NULL /\ Waiter(fd) = t
      BY <2>1 DEF IdleTasks
    <3>2. \A f \in Fds : Waiter(f) = t => epoll[f] # NULL
      BY <1>1 DEF Waiter
    <3>3. {f \in Fds : Waiter(f) = t} = {fd}
      BY <1>1, <3>1, <3>2 DEF IdleOnce
    <3>4. Idle1 = {<<"idle", fd>>}
      BY <3>3
    <3> QED BY <3>4
  <2>2. t \notin IdleTasks => Idle1 = {}
    BY <1>1 DEF IdleTasks, Waiter
  <2> QED BY <2>1, <2>2
<1>7. One(Lost1, LostTasks)
  BY DEF LostTasks
<1>8. Sources(t) = Running1 \cup Queued1 \cup Sleeping1 \cup Hot1 \cup Idle1 \cup Lost1
  BY DEF Sources
<1> HIDE DEF Running1, Queued1, Sleeping1, Hot1, Idle1, Lost1
<1>9. t \in alive <=> t \in Runs \cup OnQueue \cup sleeping \cup HotTasks \cup IdleTasks \cup LostTasks
  BY <1>1 DEF PlacesApart
<1>10. CASE t \in alive
  <2>1. \E x : Sources(t) = {x}
    <3>1. CASE t \in Runs
      BY <1>1, <1>2, <1>3, <1>4, <1>5, <1>6, <1>7, <1>8, <3>1 DEF PlacesApart
    <3>2. CASE t \in OnQueue
      BY <1>1, <1>2, <1>3, <1>4, <1>5, <1>6, <1>7, <1>8, <3>2 DEF PlacesApart
    <3>3. CASE t \in sleeping
      BY <1>1, <1>2, <1>3, <1>4, <1>5, <1>6, <1>7, <1>8, <3>3 DEF PlacesApart
    <3>4. CASE t \in HotTasks
      BY <1>1, <1>2, <1>3, <1>4, <1>5, <1>6, <1>7, <1>8, <3>4 DEF PlacesApart
    <3>5. CASE t \in IdleTasks
      BY <1>1, <1>2, <1>3, <1>4, <1>5, <1>6, <1>7, <1>8, <3>5 DEF PlacesApart
    <3>6. CASE t \in LostTasks
      BY <1>1, <1>2, <1>3, <1>4, <1>5, <1>6, <1>7, <1>8, <3>6 DEF PlacesApart
    <3> QED BY <1>9, <1>10, <3>1, <3>2, <3>3, <3>4, <3>5, <3>6
  <2> QED BY <1>10, <2>1
<1>11. CASE t \notin alive
  <2>1. Sources(t) = {}
    BY <1>2, <1>3, <1>4, <1>5, <1>6, <1>7, <1>8, <1>9, <1>11
  <2> QED BY <1>11, <2>1
<1> QED BY <1>10, <1>11

(* The inductive invariant gives the properties. *)
LEMMA FdInvImplies == FdInv => TypeOK /\ OnePlaceEach /\ WaitListsIntact
<1> SUFFICES ASSUME FdInv PROVE TypeOK /\ OnePlaceEach /\ WaitListsIntact
  OBVIOUS
<1>1. TypeOK /\ alive \subseteq Tasks
  BY DEF FdInv, TypeOK
<1>2. WokenOnce
  BY PlacesAreSources DEF WokenOnce
<1>3. NeverForgotten
  BY <1>1, PlacesAreSources DEF NeverForgotten
<1>4. WaitListsIntact
  BY DEF WaitListsIntact, FdInv, HotOnce, IdleOnce
<1> QED BY <1>1, <1>2, <1>3, <1>4 DEF OnePlaceEach

(* The inductive invariant holds in every reachable state. *)
THEOREM FdInvariant == Spec => []FdInv
<1> QED BY FdInitInv, FdStepInv, PTL DEF Spec

(* task/fd.c, superpoll.c: the run queue, the hot list, the idle slots and epoll keep their types. *)
THEOREM FdTypes == Spec => []TypeOK
  BY FdInvariant, FdInvImplies, PTL

(***************************************************************************)
(* task/fd.c, for any number of tasks, descriptors and slots: through      *)
(* fdwait, tasknuke, taskdelay, close and the polls of fdtask, no task can *)
(* be made ready twice, and none is forgotten that is not one of the four  *)
(* recorded losses.                                                        *)
(***************************************************************************)
THEOREM EachTaskHasOnePlace == Spec => []OnePlaceEach
  BY FdInvariant, FdInvImplies, PTL

(***************************************************************************)
(* superpoll.c: an epoll entry names an active slot that is about the same *)
(* descriptor, no two name one slot, the epoll descriptor is always on the *)
(* hot list, and a slot without an entry belonged to a lost task.          *)
(***************************************************************************)
THEOREM WaitListsStayIntact == Spec => []WaitListsIntact
  BY FdInvariant, FdInvImplies, PTL
=============================================================================
