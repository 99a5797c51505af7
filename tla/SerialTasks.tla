----------------------------- MODULE SerialTasks -----------------------------
(***************************************************************************)
(* What the task queue of a room promises (room_task_queue.h): the tasks    *)
(* posted to a room run in the order in which they were posted, one at a    *)
(* time; different rooms know nothing of each other.                       *)
(***************************************************************************)
EXTENDS Sequences

CONSTANTS
    Room,
    Task,
    NoTask        \* not a task

VARIABLES
    waiting,     \* [room -> sequence of tasks]
    running      \* [room -> task, or NoTask]

vars == <<waiting, running>>

Init ==
    /\ waiting = [r \in Room |-> << >>]
    /\ running = [r \in Room |-> NoTask]

Post(r, task) ==
    /\ waiting' = [waiting EXCEPT ![r] = Append(@, task)]
    /\ UNCHANGED running

Begin(r) ==
    /\ running[r] = NoTask
    /\ waiting[r] # << >>
    /\ running' = [running EXCEPT ![r] = Head(waiting[r])]
    /\ waiting' = [waiting EXCEPT ![r] = Tail(@)]

End(r) ==
    /\ running[r] # NoTask
    /\ running' = [running EXCEPT ![r] = NoTask]
    /\ UNCHANGED waiting

Next == \E r \in Room : (\E task \in Task : Post(r, task)) \/ Begin(r) \/ End(r)

Spec == Init /\ [][Next]_vars
==============================================================================
