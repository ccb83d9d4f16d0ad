-------------------------------- MODULE Task --------------------------------
(***************************************************************************)
(* The cooperative scheduler of src/task/task.c.  One task runs at a time, *)
(* until it calls taskswitch; a task that taskready has put on the run     *)
(* queue runs when the tasks before it have given up the processor.        *)
(***************************************************************************)
EXTENDS Sequences

CONSTANTS
    Tasks,  \* tasks of the server, the poll task fdtask excepted
    Nobody  \* taskrunning = nil, or hot_data = NULL

ASSUME TaskAssumption == Nobody \notin Tasks

VARIABLES
    alive,        \* tasks that taskcreate has made and that have not exited
    taskrunning,  \* the task that runs
    taskrunqueue  \* the tasks that are ready, in order

taskvars == <<alive, taskrunning, taskrunqueue>>

(* taskmain and the tasks it created are on the queue. *)
TaskInit(order) ==
    /\ taskrunqueue = order
    /\ alive = {order[i] : i \in DOMAIN order}
    /\ taskrunning = Nobody

(* taskscheduler: the head of the queue runs. *)
RunHead ==
    /\ taskrunning = Nobody
    /\ taskrunqueue # <<>>
    /\ taskrunning' = Head(taskrunqueue)
    /\ taskrunqueue' = Tail(taskrunqueue)
    /\ UNCHANGED alive

(* taskcreate: the new task is ready at once. *)
Create(t) ==
    /\ t \notin alive
    /\ alive' = alive \cup {t}
    /\ taskrunqueue' = Append(taskrunqueue, t)
    /\ UNCHANGED taskrunning

(* taskready by the running task. *)
MakeReady(t) ==
    /\ taskrunqueue' = Append(taskrunqueue, t)
    /\ UNCHANGED <<alive, taskrunning>>

(* taskswitch: the running task stops, to be made ready by somebody else. *)
SwitchAway ==
    /\ taskrunning' = Nobody
    /\ UNCHANGED <<alive, taskrunqueue>>

(* taskyield: it is ready again, behind the others. *)
YieldTurn ==
    /\ taskrunqueue' = Append(taskrunqueue, taskrunning)
    /\ taskrunning' = Nobody
    /\ UNCHANGED alive

(* taskexit, and the removal from alltask by the scheduler. *)
ExitTurn ==
    /\ alive' = alive \ {taskrunning}
    /\ taskrunning' = Nobody
    /\ UNCHANGED taskrunqueue

(* Nothing is ready but fdtask. *)
OnlyFdtask == taskrunning = Nobody /\ taskrunqueue = <<>>
=============================================================================
