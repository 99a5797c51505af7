---------------------------- MODULE RoomExecutor -----------------------------
(***************************************************************************)
(* The threads behind the task queues of the rooms: RoomTaskQueue and       *)
(* RoomExecutor, one action per critical section.  A post sets the flag of  *)
(* the room if it is not set and then hands the room to the executor;       *)
(* a worker that gets the room drains its queue and clears the flag when it *)
(* finds the queue empty.  The network threads and the timer thread post,   *)
(* and so do the tasks themselves.                                         *)
(*                                                                         *)
(* A task is the number of its post to its room.  A task that throws ends   *)
(* like any other.  A worker that wakes up for nothing looks at the jobs    *)
(* and sleeps again.                                                       *)
(***************************************************************************)
EXTENDS Integers, Sequences

CONSTANTS
    Room,
    Worker,       \* the threads of the executor
    Poster,       \* the threads that post from outside
    NoRoom,
    MaxPosts      \* bound on the tasks posted to a room

ASSUME ThreadsAssumption ==
    /\ Worker # {}
    /\ Worker \cap Poster = {}
    /\ NoRoom \notin Room
    /\ MaxPosts \in Nat

VARIABLES
    queue,            \* [room -> its tasks_]
    drainScheduled,   \* [room -> flag]
    posted,           \* [room -> number of tasks ever posted]
    handing,          \* [thread -> the room it is to hand to the executor]
    notifying,        \* the threads that are to notify a worker
    jobs,             \* RoomExecutor::tasks_, the rooms to be drained
    pc,               \* [worker -> where it is]
    at,               \* [worker -> the room it drains]
    task,             \* [worker -> the task it runs]
    stop              \* "no", "set" under the lock, "told" to all

queueVars == <<queue, drainScheduled, posted>>
workerVars == <<pc, at, task>>
vars == <<queueVars, handing, notifying, jobs, workerVars, stop>>

Thread == Worker \cup Poster
Task == 1..MaxPosts
NoTask == 0

Init ==
    /\ queue = [r \in Room |-> << >>]
    /\ drainScheduled = [r \in Room |-> FALSE]
    /\ posted = [r \in Room |-> 0]
    /\ handing = [t \in Thread |-> NoRoom]
    /\ notifying = {}
    /\ jobs = << >>
    /\ pc = [w \in Worker |-> "look"]
    /\ at = [w \in Worker |-> NoRoom]
    /\ task = [w \in Worker |-> NoTask]
    /\ stop = "no"

-----------------------------------------------------------------------------
(* RoomTaskQueue::post, RoomExecutor::post *)

\* A thread that may post: it is not in the middle of another post, and it is
\* a thread from outside while the executor lives, or runs a task.
CanPost(t) ==
    /\ handing[t] = NoRoom /\ t \notin notifying
    /\ \/ t \in Poster /\ stop = "no"
       \/ t \in Worker /\ pc[t] = "run"

\* Mutant: every post hands the room over.
PostAlways(t, r) ==
    /\ CanPost(t) /\ posted[r] < MaxPosts
    /\ posted' = [posted EXCEPT ![r] = @ + 1]
    /\ queue' = [queue EXCEPT ![r] = Append(@, posted'[r])]
    /\ drainScheduled' = [drainScheduled EXCEPT ![r] = TRUE]
    /\ handing' = [handing EXCEPT ![t] = r]
    /\ UNCHANGED <<notifying, jobs, workerVars, stop>>

Post(t, r) ==
    /\ CanPost(t)
    /\ posted[r] < MaxPosts
    /\ posted' = [posted EXCEPT ![r] = @ + 1]
    /\ queue' = [queue EXCEPT ![r] = Append(@, posted'[r])]
    /\ drainScheduled' = [drainScheduled EXCEPT ![r] = TRUE]
    /\ handing' = IF drainScheduled[r] THEN handing ELSE [handing EXCEPT ![t] = r]
    /\ UNCHANGED <<notifying, jobs, workerVars, stop>>

\* Mutant of HandOver: nobody is notified.
HandOverSilently(t) ==
    /\ handing[t] # NoRoom
    /\ jobs' = Append(jobs, handing[t])
    /\ handing' = [handing EXCEPT ![t] = NoRoom]
    /\ UNCHANGED <<queueVars, notifying, workerVars, stop>>

HandOver(t) ==
    /\ handing[t] # NoRoom
    /\ jobs' = Append(jobs, handing[t])
    /\ handing' = [handing EXCEPT ![t] = NoRoom]
    /\ notifying' = notifying \cup {t}
    /\ UNCHANGED <<queueVars, workerVars, stop>>

Asleep == {w \in Worker : pc[w] = "asleep"}

\* cv_.notify_one, after the lock is given up.
NotifyOne(t) ==
    /\ t \in notifying
    /\ notifying' = notifying \ {t}
    /\ IF Asleep = {} THEN UNCHANGED pc
       ELSE \E w \in Asleep : pc' = [pc EXCEPT ![w] = "look"]
    /\ UNCHANGED <<queueVars, handing, jobs, at, task, stop>>

-----------------------------------------------------------------------------
(* RoomExecutor::workerLoop *)

Sleep(w) ==
    /\ pc[w] = "look"
    /\ jobs = << >> /\ stop = "no"
    /\ pc' = [pc EXCEPT ![w] = "asleep"]
    /\ UNCHANGED <<queueVars, handing, notifying, jobs, at, task, stop>>

TakeJob(w) ==
    /\ pc[w] = "look"
    /\ jobs # << >>
    /\ at' = [at EXCEPT ![w] = Head(jobs)]
    /\ jobs' = Tail(jobs)
    /\ pc' = [pc EXCEPT ![w] = "drain"]
    /\ UNCHANGED <<queueVars, handing, notifying, task, stop>>

\* Mutant: a worker exits as soon as it is told to stop.
ExitAtOnce(w) ==
    /\ pc[w] = "look"
    /\ stop # "no"
    /\ pc' = [pc EXCEPT ![w] = "gone"]
    /\ UNCHANGED <<queueVars, handing, notifying, jobs, at, task, stop>>

Exit(w) ==
    /\ pc[w] = "look"
    /\ stop # "no" /\ jobs = << >>
    /\ pc' = [pc EXCEPT ![w] = "gone"]
    /\ UNCHANGED <<queueVars, handing, notifying, jobs, at, task, stop>>

-----------------------------------------------------------------------------
(* RoomTaskQueue::drain *)

BeginTask(w) ==
    /\ pc[w] = "drain"
    /\ queue[at[w]] # << >>
    /\ task' = [task EXCEPT ![w] = Head(queue[at[w]])]
    /\ queue' = [queue EXCEPT ![at[w]] = Tail(@)]
    /\ pc' = [pc EXCEPT ![w] = "run"]
    /\ UNCHANGED <<drainScheduled, posted, handing, notifying, jobs, at, stop>>

\* Mutant of EndTask: a drain runs one task only.
EndTaskAndLeave(w) ==
    /\ pc[w] = "run"
    /\ handing[w] = NoRoom /\ w \notin notifying
    /\ task' = [task EXCEPT ![w] = NoTask]
    /\ at' = [at EXCEPT ![w] = NoRoom]
    /\ pc' = [pc EXCEPT ![w] = "look"]
    /\ UNCHANGED <<queueVars, handing, notifying, jobs, stop>>

EndTask(w) ==
    /\ pc[w] = "run"
    /\ handing[w] = NoRoom /\ w \notin notifying
    /\ task' = [task EXCEPT ![w] = NoTask]
    /\ pc' = [pc EXCEPT ![w] = "drain"]
    /\ UNCHANGED <<queueVars, handing, notifying, jobs, at, stop>>

\* Mutant of EndDrain: the worker keeps the room it has drained.
EndDrainKeepsRoom(w) ==
    /\ pc[w] = "drain"
    /\ queue[at[w]] = << >>
    /\ drainScheduled' = [drainScheduled EXCEPT ![at[w]] = FALSE]
    /\ pc' = [pc EXCEPT ![w] = "look"]
    /\ UNCHANGED <<queue, posted, handing, notifying, jobs, at, task, stop>>

EndDrain(w) ==
    /\ pc[w] = "drain"
    /\ queue[at[w]] = << >>
    /\ drainScheduled' = [drainScheduled EXCEPT ![at[w]] = FALSE]
    /\ at' = [at EXCEPT ![w] = NoRoom]
    /\ pc' = [pc EXCEPT ![w] = "look"]
    /\ UNCHANGED <<queue, posted, handing, notifying, jobs, task, stop>>

-----------------------------------------------------------------------------
(* ~RoomExecutor, which nobody may call while a thread from outside still    *)
(* posts: main joins the timer thread and stops the network first.          *)

SetStop ==
    /\ stop = "no"
    /\ \A p \in Poster : handing[p] = NoRoom /\ p \notin notifying
    /\ stop' = "set"
    /\ UNCHANGED <<queueVars, handing, notifying, jobs, workerVars>>

NotifyAll ==
    /\ stop = "set"
    /\ stop' = "told"
    /\ pc' = [w \in Worker |-> IF w \in Asleep THEN "look" ELSE pc[w]]
    /\ UNCHANGED <<queueVars, handing, notifying, jobs, at, task>>

\* The destructor has joined all threads.
Joined == \A w \in Worker : pc[w] = "gone"

-----------------------------------------------------------------------------
PostStep(t) == HandOver(t) \/ NotifyOne(t)

WorkerStep(w) ==
    \/ Sleep(w) \/ TakeJob(w) \/ Exit(w)
    \/ BeginTask(w) \/ EndTask(w) \/ EndDrain(w)

Next ==
    \/ \E t \in Thread : PostStep(t) \/ \E r \in Room : Post(t, r)
    \/ \E w \in Worker : WorkerStep(w)
    \/ SetStop
    \/ NotifyAll
    \/ Joined /\ UNCHANGED vars

Spec == Init /\ [][Next]_vars

-----------------------------------------------------------------------------
(* Properties *)

\* A worker has a room from taking it up to clearing its flag, and a task while it
\* runs one (workerLoop, drain).
TypeOK ==
    /\ queue \in [Room -> Seq(Task)]
    /\ drainScheduled \in [Room -> BOOLEAN]
    /\ posted \in [Room -> 0..MaxPosts]
    /\ handing \in [Thread -> Room \cup {NoRoom}]
    /\ notifying \subseteq Thread
    /\ jobs \in Seq(Room)
    /\ pc \in [Worker -> {"look", "asleep", "drain", "run", "gone"}]
    /\ at \in [Worker -> Room \cup {NoRoom}]
    /\ task \in [Worker -> Task \cup {NoTask}]
    /\ stop \in {"no", "set", "told"}
    /\ \A w \in Worker :
           /\ at[w] # NoRoom <=> pc[w] \in {"drain", "run"}
           /\ task[w] # NoTask <=> pc[w] = "run"

\* Whoever is to drain a room: a thread on the way to the executor, a job, a
\* worker.
Handers(r) == {t \in Thread : handing[t] = r}
Jobs(r) == {i \in DOMAIN jobs : jobs[i] = r}
Drainers(r) == {w \in Worker : at[w] = r}

\* Exactly one of them is to drain a room whose flag is set, nobody a room whose
\* flag is not, and then the room has no tasks: however posts and drains cross,
\* no task is left behind and no room is drained twice at a time.
OneDrainer ==
    \A r \in Room :
        LET all == (Handers(r) \X {"hander"}) \cup (Jobs(r) \X {"job"}) \cup (Drainers(r) \X {"drainer"})
        IN  IF drainScheduled[r]
            THEN \E x \in all : all = {x}
            ELSE all = {} /\ queue[r] = << >>

\* The destructor does not throw posted tasks away.
ShutdownDrains == Joined => \A r \in Room : queue[r] = << >> /\ ~drainScheduled[r]

\* Every room has its tasks run one at a time, in the order of their posts.
RunningTask(r) ==
    IF \E w \in Drainers(r) : task[w] # NoTask
    THEN task[CHOOSE w \in Drainers(r) : task[w] # NoTask]
    ELSE NoTask

Serial == INSTANCE SerialTasks
              WITH waiting <- queue, running <- [r \in Room |-> RunningTask(r)]
ImplementsSerial == Serial!Spec

\* What is posted is run.
PostedTasksRun == \A r \in Room : queue[r] # << >> ~> queue[r] = << >>
==============================================================================
