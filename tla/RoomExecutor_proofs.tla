------------------------- MODULE RoomExecutor_proofs -------------------------
(***************************************************************************)
(* For any number of rooms, threads and posts: a room that has tasks has    *)
(* exactly one thread or job to drain it, and its tasks run one at a time   *)
(* in the order in which they were posted.                                 *)
(***************************************************************************)
EXTENDS RoomExecutor, FiniteSets, FiniteSetTheorems, TLAPS

\* The executor starts idle.
LEMMA TypeInit == Init => TypeOK
  BY ThreadsAssumption DEF Init, TypeOK, Thread, Task, NoTask

\* Every step keeps the types.
LEMMA TypeNext == TypeOK /\ [Next]_vars => TypeOK'
<1> SUFFICES ASSUME TypeOK, [Next]_vars
             PROVE  TypeOK'
  OBVIOUS
<1> USE ThreadsAssumption DEF TypeOK, Thread, Task, NoTask, queueVars, workerVars
<1>1. ASSUME NEW t \in Thread, NEW r \in Room, Post(t, r)
      PROVE  TypeOK'
  <2>1. posted' \in [Room -> 0..MaxPosts] /\ posted'[r] \in Task
    BY <1>1 DEF Post
  <2>2. queue' \in [Room -> Seq(Task)]
    BY <1>1, <2>1 DEF Post
  <2> QED
    BY <1>1, <2>1, <2>2 DEF Post
<1>2. ASSUME NEW t \in Thread, HandOver(t)
      PROVE  TypeOK'
  BY <1>2 DEF HandOver
<1>3. ASSUME NEW t \in Thread, NotifyOne(t)
      PROVE  TypeOK'
  BY <1>3 DEF NotifyOne, Asleep
<1>4. ASSUME NEW w \in Worker, Sleep(w)
      PROVE  TypeOK'
  BY <1>4 DEF Sleep
<1>5. ASSUME NEW w \in Worker, TakeJob(w)
      PROVE  TypeOK'
  <2>1. Head(jobs) \in Room /\ jobs' \in Seq(Room)
    BY <1>5 DEF TakeJob
  <2> QED
    BY <1>5, <2>1 DEF TakeJob
<1>6. ASSUME NEW w \in Worker, Exit(w)
      PROVE  TypeOK'
  BY <1>6 DEF Exit
<1>7. ASSUME NEW w \in Worker, BeginTask(w)
      PROVE  TypeOK'
  <2>1. at[w] \in Room
    BY <1>7 DEF BeginTask
  <2>2. Head(queue[at[w]]) \in Task /\ Tail(queue[at[w]]) \in Seq(Task)
    BY <1>7, <2>1 DEF BeginTask
  <2> QED
    BY <1>7, <2>1, <2>2 DEF BeginTask
<1>8. ASSUME NEW w \in Worker, EndTask(w)
      PROVE  TypeOK'
  BY <1>8 DEF EndTask
<1>9. ASSUME NEW w \in Worker, EndDrain(w)
      PROVE  TypeOK'
  BY <1>9 DEF EndDrain
<1>10. CASE SetStop
  BY <1>10 DEF SetStop
<1>11. CASE NotifyAll
  BY <1>11 DEF NotifyAll, Asleep
<1>12. CASE UNCHANGED vars
  BY <1>12 DEF vars
<1> QED
  BY <1>1, <1>2, <1>3, <1>4, <1>5, <1>6, <1>7, <1>8, <1>9, <1>10, <1>11, <1>12
     DEF Next, PostStep, WorkerStep

\* The threads are where the code can be and carry what they should.
THEOREM ExecutorTypeCorrect == Spec => []TypeOK
  BY TypeInit, TypeNext, PTL DEF Spec

-----------------------------------------------------------------------------
(* The flag stands for exactly one hander, job or drainer.                 *)

\* A room whose flag is not set has nobody and needs nobody.
NobodyUnlessFlag ==
    \A r \in Room :
        ~drainScheduled[r] =>
            /\ \A t \in Thread : handing[t] # r
            /\ \A i \in DOMAIN jobs : jobs[i] # r
            /\ \A w \in Worker : at[w] # r
            /\ queue[r] = << >>

\* A room whose flag is set has somebody.
SomebodyIfFlag ==
    \A r \in Room :
        drainScheduled[r] =>
            \/ \E t \in Thread : handing[t] = r
            \/ \E i \in DOMAIN jobs : jobs[i] = r
            \/ \E w \in Worker : at[w] = r

\* No two handers, jobs or drainers are for the same room.
NobodyTwice ==
    /\ \A t, u \in Thread : handing[t] # NoRoom /\ handing[t] = handing[u] => t = u
    /\ \A i, j \in DOMAIN jobs : jobs[i] = jobs[j] => i = j
    /\ \A v, w \in Worker : at[v] # NoRoom /\ at[v] = at[w] => v = w
    /\ \A t \in Thread, i \in DOMAIN jobs : handing[t] # jobs[i]
    /\ \A t \in Thread, w \in Worker : handing[t] # NoRoom => handing[t] # at[w]
    /\ \A i \in DOMAIN jobs, w \in Worker : jobs[i] # at[w]

DrainInv == TypeOK /\ NobodyUnlessFlag /\ SomebodyIfFlag /\ NobodyTwice

\* At first no flag is set and no task is queued.
LEMMA DrainInit == Init => DrainInv
<1> SUFFICES ASSUME Init
             PROVE  DrainInv
  OBVIOUS
<1>1. TypeOK
  BY TypeInit
<1>2. NobodyUnlessFlag /\ SomebodyIfFlag /\ NobodyTwice
  BY ThreadsAssumption DEF Init, NobodyUnlessFlag, SomebodyIfFlag, NobodyTwice, Thread
<1> QED
  BY <1>1, <1>2 DEF DrainInv

\* A thread that sets a flag becomes the only one for that room.
LEMMA PostDrain ==
  ASSUME DrainInv, TypeOK', NEW t \in Thread, NEW r \in Room, Post(t, r)
  PROVE  DrainInv'
<1> USE ThreadsAssumption DEF queueVars, workerVars
<1>1. NobodyUnlessFlag /\ SomebodyIfFlag /\ NobodyTwice
  BY DEF DrainInv
<1>2. handing[t] = NoRoom /\ UNCHANGED <<jobs, at>>
  BY DEF Post, CanPost
<1>3. /\ drainScheduled'[r] = TRUE
      /\ \A s \in Room : s # r => drainScheduled'[s] = drainScheduled[s] /\ queue'[s] = queue[s]
  BY DEF Post, DrainInv, TypeOK
<1>4. CASE drainScheduled[r]
  <2>1. UNCHANGED handing
    BY <1>4 DEF Post
  <2>2. NobodyUnlessFlag' /\ SomebodyIfFlag' /\ NobodyTwice'
    BY <1>1, <1>2, <1>3, <1>4, <2>1 DEF NobodyUnlessFlag, SomebodyIfFlag, NobodyTwice
  <2> QED
    BY <2>2 DEF DrainInv
<1>5. CASE ~drainScheduled[r]
  <2>1. handing'[t] = r /\ \A u \in Thread : u # t => handing'[u] = handing[u]
    BY <1>5 DEF Post, DrainInv, TypeOK
  <2>2. /\ \A u \in Thread : handing[u] # r
        /\ \A i \in DOMAIN jobs : jobs[i] # r
        /\ \A w \in Worker : at[w] # r
    BY <1>1, <1>5 DEF NobodyUnlessFlag
  <2>3. NobodyUnlessFlag'
    BY <1>1, <1>2, <1>3, <2>1 DEF NobodyUnlessFlag
  <2>4. SomebodyIfFlag'
    <3> SUFFICES ASSUME NEW s \in Room, s # r, drainScheduled'[s]
                 PROVE  \/ \E u \in Thread : handing'[u] = s
                        \/ \E i \in DOMAIN jobs' : jobs'[i] = s
                        \/ \E w \in Worker : at'[w] = s
      BY <2>1 DEF SomebodyIfFlag
    <3>1. drainScheduled[s] /\ s # NoRoom
      BY <1>3
    <3> QED
      BY <1>1, <1>2, <2>1, <3>1 DEF SomebodyIfFlag
  <2>5. NobodyTwice'
    BY <1>1, <1>2, <2>1, <2>2 DEF NobodyTwice
  <2> QED
    BY <2>3, <2>4, <2>5 DEF DrainInv
<1> QED
  BY <1>4, <1>5

\* What was the thread's becomes a job.
LEMMA HandOverDrain ==
  ASSUME DrainInv, TypeOK', NEW t \in Thread, HandOver(t)
  PROVE  DrainInv'
<1> USE ThreadsAssumption DEF queueVars, workerVars
<1> DEFINE n == Len(jobs) + 1
<1>1. NobodyUnlessFlag /\ SomebodyIfFlag /\ NobodyTwice
  BY DEF DrainInv
<1>2. /\ handing[t] \in Room /\ handing[t] # NoRoom
      /\ handing'[t] = NoRoom
      /\ \A u \in Thread : u # t => handing'[u] = handing[u]
      /\ UNCHANGED <<queue, drainScheduled, at>>
  BY DEF HandOver, DrainInv, TypeOK
<1>3. jobs \in Seq(Room) /\ jobs' = Append(jobs, handing[t])
  BY DEF HandOver, DrainInv, TypeOK
<1>4. /\ DOMAIN jobs' = DOMAIN jobs \cup {n}
      /\ n \notin DOMAIN jobs
      /\ \A i \in DOMAIN jobs : jobs'[i] = jobs[i] /\ jobs[i] \in Room
      /\ jobs'[n] = handing[t]
  BY <1>2, <1>3
<1> HIDE DEF n
<1>5. NobodyUnlessFlag'
  BY <1>1, <1>2, <1>4 DEF NobodyUnlessFlag
<1>6. SomebodyIfFlag'
  <2> SUFFICES ASSUME NEW r \in Room, drainScheduled'[r]
               PROVE  \/ \E u \in Thread : handing'[u] = r
                      \/ \E i \in DOMAIN jobs' : jobs'[i] = r
                      \/ \E w \in Worker : at'[w] = r
    BY DEF SomebodyIfFlag
  <2>1. \/ \E u \in Thread : handing[u] = r
        \/ \E i \in DOMAIN jobs : jobs[i] = r
        \/ \E w \in Worker : at[w] = r
    BY <1>1, <1>2 DEF SomebodyIfFlag
  <2> QED
    BY <1>2, <1>4, <2>1
<1>7. NobodyTwice'
  <2>1. \A u, v \in Thread : handing'[u] # NoRoom /\ handing'[u] = handing'[v] => u = v
    BY <1>1, <1>2 DEF NobodyTwice
  <2>2. \A i, j \in DOMAIN jobs' : jobs'[i] = jobs'[j] => i = j
    BY <1>1, <1>2, <1>4 DEF NobodyTwice
  <2>3. \A u \in Thread, i \in DOMAIN jobs' : handing'[u] # jobs'[i]
    BY <1>1, <1>2, <1>4 DEF NobodyTwice
  <2>4. \A i \in DOMAIN jobs', w \in Worker : jobs'[i] # at'[w]
    BY <1>1, <1>2, <1>4 DEF NobodyTwice
  <2>5. \A u \in Thread, w \in Worker : handing'[u] # NoRoom => handing'[u] # at'[w]
    BY <1>1, <1>2 DEF NobodyTwice
  <2>6. \A v, w \in Worker : at'[v] # NoRoom /\ at'[v] = at'[w] => v = w
    BY <1>1, <1>2 DEF NobodyTwice
  <2> QED
    BY <2>1, <2>2, <2>3, <2>4, <2>5, <2>6 DEF NobodyTwice
<1> QED
  BY <1>5, <1>6, <1>7 DEF DrainInv

\* The job becomes the worker's.
LEMMA TakeJobDrain ==
  ASSUME DrainInv, TypeOK', NEW w \in Worker, TakeJob(w)
  PROVE  DrainInv'
<1> USE ThreadsAssumption DEF queueVars
<1>1. NobodyUnlessFlag /\ SomebodyIfFlag /\ NobodyTwice
  BY DEF DrainInv
<1>2. jobs \in Seq(Room) /\ jobs # << >> /\ jobs' = Tail(jobs)
  BY DEF TakeJob, DrainInv, TypeOK
<1>3. /\ 1 \in DOMAIN jobs /\ DOMAIN jobs \subseteq Nat /\ DOMAIN jobs' \subseteq Nat \ {0}
      /\ \A i \in DOMAIN jobs' : i + 1 \in DOMAIN jobs /\ jobs'[i] = jobs[i + 1]
      /\ \A i \in DOMAIN jobs : jobs[i] \in Room
  BY <1>2
<1>4. \A i \in DOMAIN jobs : i # 1 => \E j \in DOMAIN jobs' : jobs'[j] = jobs[i]
  <2> SUFFICES ASSUME NEW i \in DOMAIN jobs, i # 1
               PROVE  \E j \in DOMAIN jobs' : jobs'[j] = jobs[i]
    OBVIOUS
  <2>1. i - 1 \in DOMAIN jobs' /\ jobs'[i - 1] = jobs[i]
    BY <1>2
  <2> QED
    BY <2>1
<1>5. /\ at[w] = NoRoom /\ at'[w] = jobs[1] /\ jobs[1] # NoRoom
      /\ \A v \in Worker : v # w => at'[v] = at[v]
      /\ UNCHANGED <<queue, drainScheduled, handing>>
  BY <1>3 DEF TakeJob, DrainInv, TypeOK
<1>6. NobodyUnlessFlag'
  BY <1>1, <1>3, <1>5 DEF NobodyUnlessFlag
<1>7. SomebodyIfFlag'
  <2> SUFFICES ASSUME NEW r \in Room, drainScheduled'[r]
               PROVE  \/ \E u \in Thread : handing'[u] = r
                      \/ \E i \in DOMAIN jobs' : jobs'[i] = r
                      \/ \E v \in Worker : at'[v] = r
    BY DEF SomebodyIfFlag
  <2>1. \/ \E u \in Thread : handing[u] = r
        \/ \E i \in DOMAIN jobs : jobs[i] = r
        \/ \E v \in Worker : at[v] = r
    BY <1>1, <1>5 DEF SomebodyIfFlag
  <2>2. ASSUME NEW i \in DOMAIN jobs, jobs[i] = r
        PROVE  (\E j \in DOMAIN jobs' : jobs'[j] = r) \/ at'[w] = r
    BY <1>4, <1>5, <2>2
  <2>3. ASSUME NEW v \in Worker, at[v] = r
        PROVE  at'[v] = r
    BY <1>5, <2>3
  <2> QED
    BY <1>5, <2>1, <2>2, <2>3
<1>8. NobodyTwice'
  <2>1. \A i \in DOMAIN jobs' : jobs'[i] # jobs[1]
    BY <1>1, <1>3 DEF NobodyTwice
  <2>2. \A i, j \in DOMAIN jobs' : jobs'[i] = jobs'[j] => i = j
    BY <1>1, <1>3 DEF NobodyTwice
  <2>3. \A u \in Thread, i \in DOMAIN jobs' : handing'[u] # jobs'[i]
    BY <1>1, <1>3, <1>5 DEF NobodyTwice
  <2>4. \A i \in DOMAIN jobs', v \in Worker : jobs'[i] # at'[v]
    BY <1>1, <1>3, <1>5, <2>1 DEF NobodyTwice
  <2>5. \A u \in Thread, v \in Worker : handing'[u] # NoRoom => handing'[u] # at'[v]
    BY <1>1, <1>3, <1>5 DEF NobodyTwice
  <2>6. \A u, v \in Worker : at'[u] # NoRoom /\ at'[u] = at'[v] => u = v
    BY <1>1, <1>3, <1>5 DEF NobodyTwice
  <2>7. \A u, v \in Thread : handing'[u] # NoRoom /\ handing'[u] = handing'[v] => u = v
    BY <1>1, <1>5 DEF NobodyTwice
  <2> QED
    BY <2>2, <2>3, <2>4, <2>5, <2>6, <2>7 DEF NobodyTwice
<1> QED
  BY <1>6, <1>7, <1>8 DEF DrainInv

\* The worker that clears the flag was the only one, and the queue is empty.
LEMMA EndDrainDrain ==
  ASSUME DrainInv, TypeOK', NEW w \in Worker, EndDrain(w)
  PROVE  DrainInv'
<1> USE ThreadsAssumption
<1>1. TypeOK /\ NobodyUnlessFlag /\ SomebodyIfFlag /\ NobodyTwice
  BY DEF DrainInv
<1>2. /\ at[w] \in Room /\ queue[at[w]] = << >>
      /\ drainScheduled' = [drainScheduled EXCEPT ![at[w]] = FALSE]
      /\ at' = [at EXCEPT ![w] = NoRoom]
      /\ UNCHANGED <<queue, jobs, handing>>
  BY <1>1 DEF EndDrain, TypeOK
<1>3. NobodyUnlessFlag'
  BY <1>1, <1>2 DEF NobodyUnlessFlag, NobodyTwice, TypeOK
<1>4. SomebodyIfFlag'
  <2> SUFFICES ASSUME NEW r \in Room, drainScheduled'[r]
               PROVE  \/ \E t \in Thread : handing'[t] = r
                      \/ \E i \in DOMAIN jobs' : jobs'[i] = r
                      \/ \E v \in Worker : at'[v] = r
    BY DEF SomebodyIfFlag
  <2>1. r # at[w] /\ drainScheduled[r]
    BY <1>1, <1>2 DEF TypeOK
  <2>2. \A v \in Worker : at[v] = r => at'[v] = r
    BY <1>1, <1>2, <2>1 DEF TypeOK
  <2>3. \/ \E t \in Thread : handing[t] = r
        \/ \E i \in DOMAIN jobs : jobs[i] = r
        \/ \E v \in Worker : at[v] = r
    BY <1>1, <2>1 DEF SomebodyIfFlag
  <2> QED
    BY <1>2, <2>2, <2>3
<1>5. NobodyTwice'
  BY <1>1, <1>2 DEF NobodyTwice, TypeOK
<1> QED
  BY <1>3, <1>4, <1>5 DEF DrainInv

\* The claim to drain a room passes from a post to a job and to a worker, and is never two.
LEMMA DrainNext == DrainInv /\ [Next]_vars => DrainInv'
<1> SUFFICES ASSUME DrainInv, [Next]_vars
             PROVE  DrainInv'
  OBVIOUS
<1> USE DEF queueVars, workerVars
<1>1. TypeOK'
  BY TypeNext DEF DrainInv
<1>2. ASSUME NEW w \in Worker, BeginTask(w)
      PROVE  DrainInv'
  <2>1. TypeOK /\ NobodyUnlessFlag /\ SomebodyIfFlag /\ NobodyTwice
    BY DEF DrainInv
  <2>2. /\ at[w] \in Room
        /\ \A r \in Room : r # at[w] => queue'[r] = queue[r]
        /\ UNCHANGED <<drainScheduled, handing, jobs, at>>
    BY <1>2, <2>1 DEF BeginTask, TypeOK
  <2>3. drainScheduled[at[w]]
    BY <2>1, <2>2 DEF NobodyUnlessFlag
  <2>4. NobodyUnlessFlag'
    BY <2>1, <2>2, <2>3 DEF NobodyUnlessFlag
  <2>5. SomebodyIfFlag' /\ NobodyTwice'
    BY <2>1, <2>2 DEF SomebodyIfFlag, NobodyTwice
  <2> QED
    BY <1>1, <2>4, <2>5 DEF DrainInv
<1>3. CASE UNCHANGED <<queue, drainScheduled, handing, jobs, at>>
  BY <1>1, <1>3 DEF DrainInv, NobodyUnlessFlag, SomebodyIfFlag, NobodyTwice
<1>4. ASSUME NEW t \in Thread, NotifyOne(t)
      PROVE  DrainInv'
  BY <1>3, <1>4 DEF NotifyOne
<1>5. ASSUME NEW w \in Worker, Sleep(w) \/ Exit(w) \/ EndTask(w)
      PROVE  DrainInv'
  BY <1>3, <1>5 DEF Sleep, Exit, EndTask
<1>6. CASE SetStop \/ NotifyAll \/ UNCHANGED vars
  BY <1>3, <1>6 DEF SetStop, NotifyAll, vars
<1> QED
  BY <1>1, <1>2, <1>4, <1>5, <1>6, PostDrain, HandOverDrain, TakeJobDrain, EndDrainDrain
     DEF Next, PostStep, WorkerStep

\* The flag of a room is set exactly while one thread or job is to drain it, and a
\* room without it has no tasks.
THEOREM ExecutorOneDrainer == Spec => []OneDrainer
<1>1. DrainInv => OneDrainer
  <2> SUFFICES ASSUME DrainInv, NEW r \in Room
               PROVE  LET all == (Handers(r) \X {"hander"}) \cup (Jobs(r) \X {"job"})
                                  \cup (Drainers(r) \X {"drainer"})
                      IN  IF drainScheduled[r]
                          THEN \E x \in all : all = {x}
                          ELSE all = {} /\ queue[r] = << >>
    BY DEF OneDrainer
  <2>1. NobodyUnlessFlag /\ SomebodyIfFlag /\ NobodyTwice /\ r # NoRoom
    BY ThreadsAssumption DEF DrainInv
  <2>2. CASE ~drainScheduled[r]
    <3>1. Handers(r) = {} /\ Jobs(r) = {} /\ Drainers(r) = {} /\ queue[r] = << >>
      BY <2>1, <2>2 DEF NobodyUnlessFlag, Handers, Jobs, Drainers
    <3> QED
      BY <2>2, <3>1
  <2>3. CASE drainScheduled[r]
    <3>1. \/ \E t \in Thread : Handers(r) = {t} /\ Jobs(r) = {} /\ Drainers(r) = {}
          \/ \E i \in DOMAIN jobs : Handers(r) = {} /\ Jobs(r) = {i} /\ Drainers(r) = {}
          \/ \E w \in Worker : Handers(r) = {} /\ Jobs(r) = {} /\ Drainers(r) = {w}
      BY <2>1, <2>3 DEF SomebodyIfFlag, NobodyTwice, Handers, Jobs, Drainers
    <3>2. ASSUME NEW t, Handers(r) = {t}, Jobs(r) = {}, Drainers(r) = {}
          PROVE  (Handers(r) \X {"hander"}) \cup (Jobs(r) \X {"job"}) \cup (Drainers(r) \X {"drainer"})
                 = {<<t, "hander">>}
      BY <3>2
    <3>3. ASSUME NEW i, Handers(r) = {}, Jobs(r) = {i}, Drainers(r) = {}
          PROVE  (Handers(r) \X {"hander"}) \cup (Jobs(r) \X {"job"}) \cup (Drainers(r) \X {"drainer"})
                 = {<<i, "job">>}
      BY <3>3
    <3>4. ASSUME NEW w, Handers(r) = {}, Jobs(r) = {}, Drainers(r) = {w}
          PROVE  (Handers(r) \X {"hander"}) \cup (Jobs(r) \X {"job"}) \cup (Drainers(r) \X {"drainer"})
                 = {<<w, "drainer">>}
      BY <3>4
    <3> QED
      BY <2>3, <3>1, <3>2, <3>3, <3>4
  <2> QED
    BY <2>2, <2>3
<1> QED
  BY <1>1, DrainInit, DrainNext, PTL DEF Spec

-----------------------------------------------------------------------------
(* The executor runs the tasks of a room as the abstract queue does.       *)

\* What runs in a room is the task of the worker who drains it.
RunningIsDrainers ==
    \A r \in Room :
        /\ \A w \in Worker : at[w] = r => RunningTask(r) = task[w]
        /\ (\A w \in Worker : at[w] # r) => RunningTask(r) = NoTask

\* A running task is one that the drainer of its room runs.
LEMMA RunningOK == DrainInv => RunningIsDrainers
<1> SUFFICES ASSUME DrainInv, NEW r \in Room
             PROVE  /\ \A w \in Worker : at[w] = r => RunningTask(r) = task[w]
                    /\ (\A w \in Worker : at[w] # r) => RunningTask(r) = NoTask
  BY DEF RunningIsDrainers
<1>1. ASSUME NEW w \in Worker, at[w] = r
      PROVE  RunningTask(r) = task[w]
  <2>1. Drainers(r) = {w}
    BY <1>1, ThreadsAssumption DEF DrainInv, NobodyTwice, Drainers
  <2> QED
    BY <2>1 DEF RunningTask
<1>2. ASSUME \A w \in Worker : at[w] # r
      PROVE  RunningTask(r) = NoTask
  BY <1>2 DEF RunningTask, Drainers
<1> QED
  BY <1>1, <1>2

\* A step that moves no queue and no task moves nothing in the abstract queues.
LEMMA SerialStutters ==
  ASSUME RunningIsDrainers, RunningIsDrainers', UNCHANGED <<queue, at, task>>
  PROVE  UNCHANGED Serial!vars
<1>1. ASSUME NEW r \in Room
      PROVE  RunningTask(r)' = RunningTask(r)
  BY DEF RunningIsDrainers
<1> QED
  BY <1>1 DEF Serial!vars

\* The queues of a new executor are empty serial queues.
LEMMA SerialInit == Init => Serial!Init
<1> SUFFICES ASSUME Init
             PROVE  Serial!Init
  OBVIOUS
<1>1. RunningIsDrainers
  BY DrainInit, RunningOK
<1>2. \A r \in Room : RunningTask(r) = NoTask
  BY <1>1, ThreadsAssumption DEF Init, RunningIsDrainers
<1> QED
  BY <1>2 DEF Init, Serial!Init

\* A step of the threads posts, begins or ends a task of the serial queues, or changes nothing of them.
LEMMA SerialNext ==
  ASSUME DrainInv, DrainInv', [Next]_vars
  PROVE  [Serial!Next]_(Serial!vars)
<1> USE ThreadsAssumption DEF queueVars, workerVars
<1> DEFINE running == [r \in Room |-> RunningTask(r)]
<1>1. RunningIsDrainers /\ RunningIsDrainers'
  BY RunningOK, PTL
<1>2. TypeOK /\ TypeOK' /\ NobodyUnlessFlag /\ NobodyTwice
  BY DEF DrainInv
<1>3. ASSUME NEW t \in Thread, NEW r \in Room, Post(t, r)
      PROVE  Serial!Post(r, posted'[r]) /\ posted'[r] \in Task
  <2>1. \A s \in Room : RunningTask(s)' = RunningTask(s)
    BY <1>1, <1>3 DEF Post, RunningIsDrainers
  <2>2. posted'[r] \in Task
    BY <1>2, <1>3 DEF Post, TypeOK, Task
  <2> QED
    BY <1>3, <2>1, <2>2 DEF Post, Serial!Post
<1>4. ASSUME NEW t \in Thread, PostStep(t)
      PROVE  UNCHANGED Serial!vars
  BY <1>1, <1>4, SerialStutters DEF PostStep, HandOver, NotifyOne
<1>5. ASSUME NEW w \in Worker, Sleep(w) \/ Exit(w)
      PROVE  UNCHANGED Serial!vars
  BY <1>1, <1>5, SerialStutters DEF Sleep, Exit
<1>6. ASSUME NEW w \in Worker, TakeJob(w)
      PROVE  UNCHANGED Serial!vars
  <2>1. /\ at[w] = NoRoom /\ task[w] = NoTask /\ task' = task
        /\ \A v \in Worker : v # w => at'[v] = at[v]
        /\ UNCHANGED queue
    BY <1>2, <1>6 DEF TakeJob, TypeOK
  <2>2. jobs # << >> /\ jobs[1] \in Room /\ at'[w] = jobs[1] /\ 1 \in DOMAIN jobs
    BY <1>2, <1>6 DEF TakeJob, TypeOK
  <2>3. \A v \in Worker : at[v] # jobs[1]
    BY <1>2, <2>2 DEF NobodyTwice
  <2>4. ASSUME NEW r \in Room
        PROVE  RunningTask(r)' = RunningTask(r)
    BY <1>1, <2>1, <2>2, <2>3 DEF RunningIsDrainers
  <2> QED
    BY <2>1, <2>4 DEF Serial!vars
<1>7. ASSUME NEW w \in Worker, BeginTask(w)
      PROVE  at[w] \in Room /\ Serial!Begin(at[w])
  <2>1. at[w] \in Room /\ task[w] = NoTask
    BY <1>2, <1>7 DEF BeginTask, TypeOK
  <2>2. /\ queue[at[w]] # << >>
        /\ task'[w] = Head(queue[at[w]])
        /\ queue' = [queue EXCEPT ![at[w]] = Tail(@)]
        /\ at' = at /\ \A v \in Worker : v # w => task'[v] = task[v]
    BY <1>2, <1>7 DEF BeginTask, TypeOK
  <2>3. RunningTask(at[w]) = NoTask /\ RunningTask(at[w])' = Head(queue[at[w]])
    BY <1>1, <2>1, <2>2 DEF RunningIsDrainers
  <2>4. ASSUME NEW r \in Room, r # at[w]
        PROVE  RunningTask(r)' = RunningTask(r)
    BY <1>1, <2>2, <2>4 DEF RunningIsDrainers
  <2>5. running' = [running EXCEPT ![at[w]] = Head(queue[at[w]])]
    BY <2>1, <2>2, <2>3, <2>4
  <2> QED
    BY <2>1, <2>2, <2>3, <2>5 DEF Serial!Begin
<1>8. ASSUME NEW w \in Worker, EndTask(w)
      PROVE  at[w] \in Room /\ Serial!End(at[w])
  <2>1. at[w] \in Room /\ task[w] # NoTask
    BY <1>2, <1>8 DEF EndTask, TypeOK
  <2>2. /\ task'[w] = NoTask /\ UNCHANGED <<queue, at>>
        /\ \A v \in Worker : v # w => task'[v] = task[v]
    BY <1>2, <1>8 DEF EndTask, TypeOK
  <2>3. RunningTask(at[w]) # NoTask /\ RunningTask(at[w])' = NoTask
    BY <1>1, <2>1, <2>2 DEF RunningIsDrainers
  <2>4. ASSUME NEW r \in Room, r # at[w]
        PROVE  RunningTask(r)' = RunningTask(r)
    BY <1>1, <2>2, <2>4 DEF RunningIsDrainers
  <2>5. running' = [running EXCEPT ![at[w]] = NoTask]
    BY <2>1, <2>2, <2>3, <2>4
  <2> QED
    BY <2>1, <2>2, <2>3, <2>5 DEF Serial!End
<1>9. ASSUME NEW w \in Worker, EndDrain(w)
      PROVE  UNCHANGED Serial!vars
  <2>1. /\ at[w] \in Room /\ task[w] = NoTask /\ at'[w] = NoRoom
        /\ \A v \in Worker : v # w => at'[v] = at[v]
        /\ UNCHANGED <<queue, task>>
    BY <1>2, <1>9 DEF EndDrain, TypeOK
  <2>2. \A v \in Worker : at'[v] # at[w]
    BY <1>2, <2>1 DEF NobodyTwice
  <2>3. ASSUME NEW r \in Room
        PROVE  RunningTask(r)' = RunningTask(r)
    BY <1>1, <2>1, <2>2 DEF RunningIsDrainers
  <2> QED
    BY <2>1, <2>3 DEF Serial!vars
<1>10. CASE SetStop \/ UNCHANGED vars
  BY <1>1, <1>10, SerialStutters DEF SetStop, vars
<1>11. CASE NotifyAll
  BY <1>1, <1>11, SerialStutters DEF NotifyAll
<1> QED
  BY <1>3, <1>4, <1>5, <1>6, <1>7, <1>8, <1>9, <1>10, <1>11
     DEF Next, WorkerStep, Serial!Next

\* The threads implement the serial queues: the tasks of a room run one at a time,
\* in the order in which they were posted.
THEOREM ExecutorImplementsSerial == Spec => ImplementsSerial
<1>1. Spec => []DrainInv
  BY DrainInit, DrainNext, PTL DEF Spec
<1>2. DrainInv /\ DrainInv' /\ [Next]_vars => [Serial!Next]_(Serial!vars)
  BY SerialNext
<1> QED
  BY <1>1, <1>2, SerialInit, PTL DEF Spec, ImplementsSerial, Serial!Spec

-----------------------------------------------------------------------------
(* The destructor waits for all tasks.                                     *)

\* Once it is told to stop, only running tasks still post, and a worker leaves
\* only when it sees no jobs.
ShutdownInv ==
    /\ \A p \in Poster : handing[p] # NoRoom => stop = "no"
    /\ \A w \in Worker : handing[w] # NoRoom => pc[w] = "run"
    /\ \A w \in Worker : pc[w] = "gone" => stop # "no"
    /\ Joined => jobs = << >>

\* Nothing has been stopped at the start.
LEMMA ShutdownInit == Init => ShutdownInv
  BY ThreadsAssumption DEF Init, ShutdownInv, Joined, Thread

\* After the stop the last worker leaves only when no job is left.
LEMMA ShutdownNext == TypeOK /\ ShutdownInv /\ [Next]_vars => ShutdownInv'
<1> SUFFICES ASSUME TypeOK, ShutdownInv, [Next]_vars
             PROVE  ShutdownInv'
  OBVIOUS
<1> USE ThreadsAssumption DEF ShutdownInv, TypeOK, Joined, Thread, queueVars, workerVars
<1>1. ASSUME NEW t \in Thread, NEW r \in Room, Post(t, r)
      PROVE  ShutdownInv'
  BY <1>1 DEF Post, CanPost
<1>2. ASSUME NEW t \in Thread, HandOver(t)
      PROVE  ShutdownInv'
  <2>1. ~Joined /\ UNCHANGED <<pc, stop>>
    BY <1>2 DEF HandOver
  <2> QED
    BY <1>2, <2>1 DEF HandOver
<1>3. ASSUME NEW t \in Thread, NotifyOne(t)
      PROVE  ShutdownInv'
  BY <1>3 DEF NotifyOne, Asleep
<1>4. ASSUME NEW w \in Worker, Sleep(w) \/ Exit(w) \/ EndTask(w) \/ EndDrain(w)
      PROVE  ShutdownInv'
  BY <1>4 DEF Sleep, Exit, EndTask, EndDrain
<1>5. ASSUME NEW w \in Worker, TakeJob(w) \/ BeginTask(w)
      PROVE  ShutdownInv'
  BY <1>5 DEF TakeJob, BeginTask
<1>6. CASE SetStop
  BY <1>6 DEF SetStop
<1>7. CASE NotifyAll
  BY <1>7 DEF NotifyAll, Asleep
<1>8. CASE UNCHANGED vars
  BY <1>8 DEF vars
<1> QED
  BY <1>1, <1>2, <1>3, <1>4, <1>5, <1>6, <1>7, <1>8 DEF Next, PostStep, WorkerStep

\* When all workers have left no room has a task any more.
THEOREM ExecutorShutdownDrains == Spec => []ShutdownDrains
<1>1. DrainInv /\ ShutdownInv => ShutdownDrains
  <2> SUFFICES ASSUME DrainInv, ShutdownInv, Joined, NEW r \in Room
               PROVE  queue[r] = << >> /\ ~drainScheduled[r]
    BY DEF ShutdownDrains
  <2>1. /\ \A t \in Thread : handing[t] = NoRoom
        /\ \A w \in Worker : at[w] = NoRoom
        /\ jobs = << >>
    BY ThreadsAssumption DEF ShutdownInv, Joined, DrainInv, TypeOK, Thread
  <2>2. ~drainScheduled[r]
    BY <2>1, ThreadsAssumption DEF DrainInv, SomebodyIfFlag
  <2> QED
    BY <2>2 DEF DrainInv, NobodyUnlessFlag
<1>2. DrainInv => TypeOK
  BY DEF DrainInv
<1> QED
  BY <1>1, <1>2, DrainInit, DrainNext, ShutdownInit, ShutdownNext, PTL DEF Spec

-----------------------------------------------------------------------------
(* No wake-up is lost.                                                     *)

Looking == {w \in Worker : pc[w] = "look"}

\* As long as a worker sleeps there are, for all the jobs, as many workers on their
\* way to them or threads about to wake one.
NoWakeUpLost == Asleep # {} => Len(jobs) <= Cardinality(notifying) + Cardinality(Looking)

WakeInv == IsFiniteSet(notifying) /\ NoWakeUpLost

\* A thread notifies a worker of one job before it hands the next one over.
NotifyInv == \A t \in Thread : handing[t] # NoRoom => t \notin notifying

\* A job that waits has a worker that is awake, or a thread about to wake one.
JobsAreSeen == jobs # << >> => notifying # {} \/ \E w \in Worker : pc[w] \in {"look", "drain", "run"}

\* At first nobody sleeps.
LEMMA WakeInit == Init => NotifyInv /\ WakeInv
  BY FS_EmptySet DEF Init, NotifyInv, WakeInv, NoWakeUpLost, Asleep

\* Only a thread that is done with a post begins another.
LEMMA NotifyNext == TypeOK /\ NotifyInv /\ [Next]_vars => NotifyInv'
<1> SUFFICES ASSUME TypeOK, NotifyInv, [Next]_vars PROVE NotifyInv'
  OBVIOUS
<1>1. ASSUME NEW t \in Thread, HandOver(t) PROVE NotifyInv'
  BY <1>1 DEF HandOver, NotifyInv, TypeOK
<1>2. ASSUME NEW t \in Thread, NotifyOne(t) PROVE NotifyInv'
  BY <1>2 DEF NotifyOne, NotifyInv
<1>3. ASSUME NEW t \in Thread, NEW r \in Room, Post(t, r) PROVE NotifyInv'
  BY <1>3 DEF Post, CanPost, NotifyInv, TypeOK
<1>4. ASSUME UNCHANGED <<handing, notifying>> PROVE NotifyInv'
  BY <1>4 DEF NotifyInv
<1>5. ASSUME NEW w \in Worker, WorkerStep(w) PROVE NotifyInv'
  BY <1>4, <1>5 DEF WorkerStep, Sleep, TakeJob, Exit, BeginTask, EndTask, EndDrain
<1>6. CASE SetStop \/ NotifyAll \/ UNCHANGED vars
  BY <1>4, <1>6 DEF SetStop, NotifyAll, vars
<1> QED
  BY <1>1, <1>2, <1>3, <1>5, <1>6 DEF Next, PostStep

\* Finitely many workers look for jobs.
LEMMA LookingFinite ==
  ASSUME IsFiniteSet(Worker)
  PROVE  IsFiniteSet(Looking) /\ Cardinality(Looking) \in Nat
  BY FS_Subset, FS_CardinalityType DEF Looking

\* The thread that has added a job is about to wake a worker.
LEMMA HandOverWakes ==
  ASSUME TypeOK, WakeInv, IsFiniteSet(Worker), NEW t \in Thread, t \notin notifying, HandOver(t)
  PROVE  WakeInv'
<1>1. /\ jobs \in Seq(Room) /\ handing[t] \in Room /\ jobs' = Append(jobs, handing[t])
      /\ notifying' = notifying \cup {t} /\ pc' = pc
  BY DEF TypeOK, HandOver, workerVars
<1>2. Len(jobs') = Len(jobs) + 1 /\ Len(jobs) \in Nat
  BY <1>1
<1>3. IsFiniteSet(notifying') /\ Cardinality(notifying') = Cardinality(notifying) + 1
      /\ Cardinality(notifying) \in Nat
  BY <1>1, FS_AddElement, FS_CardinalityType DEF WakeInv
<1>4. Asleep' = Asleep /\ Looking' = Looking
  BY <1>1 DEF Asleep, Looking
<1>5. Cardinality(Looking) \in Nat
  BY LookingFinite
<1> QED
  BY <1>2, <1>3, <1>4, <1>5 DEF WakeInv, NoWakeUpLost

\* A thread that wakes a worker hands the claim to the job to it; it may only do
\* without if nobody sleeps.
LEMMA NotifyWakes ==
  ASSUME TypeOK, WakeInv, IsFiniteSet(Worker), NEW t \in Thread, NotifyOne(t)
  PROVE  WakeInv'
<1>1. t \in notifying /\ notifying' = notifying \ {t} /\ UNCHANGED jobs /\ jobs \in Seq(Room)
  BY DEF NotifyOne, TypeOK
<1>2. IsFiniteSet(notifying') /\ Cardinality(notifying') = Cardinality(notifying) - 1
      /\ Cardinality(notifying) \in Nat
  BY <1>1, FS_RemoveElement, FS_CardinalityType DEF WakeInv
<1>3. CASE Asleep = {}
  <2>1. Asleep' = {}
    BY <1>3 DEF NotifyOne, Asleep
  <2> QED
    BY <1>2, <2>1 DEF WakeInv, NoWakeUpLost
<1>4. CASE Asleep # {}
  <2>1. PICK w \in Asleep : pc' = [pc EXCEPT ![w] = "look"]
    BY <1>4 DEF NotifyOne
  <2>2. Looking' = Looking \cup {w} /\ w \notin Looking
    BY <2>1 DEF Looking, Asleep, TypeOK
  <2>3. Cardinality(Looking') = Cardinality(Looking) + 1 /\ Cardinality(Looking) \in Nat
    BY <2>2, LookingFinite, FS_AddElement
  <2>4. Len(jobs) \in Nat /\ Len(jobs') = Len(jobs)
    BY <1>1
  <2> QED
    BY <1>2, <1>4, <2>3, <2>4 DEF WakeInv, NoWakeUpLost
<1> QED
  BY <1>3, <1>4

\* A worker that takes a job stops looking for one.
LEMMA TakeJobWakes ==
  ASSUME TypeOK, WakeInv, IsFiniteSet(Worker), NEW w \in Worker, TakeJob(w)
  PROVE  WakeInv'
<1>1. /\ pc[w] = "look" /\ pc' = [pc EXCEPT ![w] = "drain"]
      /\ jobs \in Seq(Room) /\ jobs # << >> /\ jobs' = Tail(jobs) /\ UNCHANGED notifying
  BY DEF TakeJob, TypeOK
<1>2. Len(jobs') = Len(jobs) - 1 /\ Len(jobs) \in Nat
  BY <1>1
<1>3. Looking' = Looking \ {w} /\ w \in Looking /\ Asleep' = Asleep
  BY <1>1 DEF Looking, Asleep, TypeOK
<1>4. Cardinality(Looking') = Cardinality(Looking) - 1 /\ Cardinality(Looking) \in Nat
  BY <1>3, LookingFinite, FS_RemoveElement
<1>5. Cardinality(notifying) \in Nat
  BY FS_CardinalityType DEF WakeInv
<1> QED
  BY <1>1, <1>2, <1>3, <1>4, <1>5 DEF WakeInv, NoWakeUpLost

\* A worker may fall asleep or leave only when there is no job, and whoever ends a
\* drain looks for the next.
LEMMA WakeNext ==
  ASSUME IsFiniteSet(Worker), TypeOK, NotifyInv, WakeInv, [Next]_vars
  PROVE  WakeInv'
<1>1. ASSUME NEW t \in Thread, HandOver(t) PROVE WakeInv'
  BY <1>1, HandOverWakes DEF NotifyInv, HandOver
<1>2. ASSUME NEW t \in Thread, NotifyOne(t) PROVE WakeInv'
  BY <1>2, NotifyWakes
<1>3. ASSUME NEW w \in Worker, TakeJob(w) PROVE WakeInv'
  BY <1>3, TakeJobWakes
<1>4. ASSUME NEW w \in Worker, Sleep(w) \/ Exit(w) PROVE WakeInv'
  <2>1. Len(jobs') = 0 /\ UNCHANGED notifying
    BY <1>4 DEF Sleep, Exit
  <2>2. IsFiniteSet(Looking')
    <3>1. Looking' \in SUBSET Worker
      BY DEF Looking
    <3> QED
      BY <3>1, FS_Subset
  <2>3. Cardinality(Looking') \in Nat /\ Cardinality(notifying) \in Nat
    BY <2>2, FS_CardinalityType DEF WakeInv
  <2> QED
    BY <2>1, <2>3 DEF WakeInv, NoWakeUpLost
<1>5. ASSUME NEW w \in Worker, EndDrain(w) PROVE WakeInv'
  <2>1. pc[w] = "drain" /\ pc' = [pc EXCEPT ![w] = "look"] /\ UNCHANGED <<notifying, jobs>>
    BY <1>5 DEF EndDrain
  <2>2. Looking' = Looking \cup {w} /\ w \notin Looking /\ Asleep' = Asleep
    BY <2>1 DEF Looking, Asleep, TypeOK
  <2>3. Cardinality(Looking') = Cardinality(Looking) + 1 /\ Cardinality(Looking) \in Nat
    BY <2>2, LookingFinite, FS_AddElement
  <2>4. Cardinality(notifying) \in Nat /\ Len(jobs) \in Nat
    BY FS_CardinalityType DEF WakeInv, TypeOK
  <2> QED
    BY <2>1, <2>2, <2>3, <2>4 DEF WakeInv, NoWakeUpLost
<1>6. CASE NotifyAll
  <2>1. Asleep' = {} /\ UNCHANGED notifying
    BY <1>6 DEF NotifyAll, Asleep
  <2> QED
    BY <2>1 DEF WakeInv, NoWakeUpLost
<1>7. ASSUME jobs' = jobs, notifying' = notifying, Looking' = Looking, Asleep' = Asleep PROVE WakeInv'
  BY <1>7 DEF WakeInv, NoWakeUpLost
<1>8. ASSUME NEW w \in Worker, BeginTask(w) \/ EndTask(w) PROVE WakeInv'
  <2>1. /\ jobs' = jobs /\ notifying' = notifying
        /\ \A v \in Worker : pc'[v] # pc[v] => {pc[v], pc'[v]} \subseteq {"drain", "run"}
    BY <1>8 DEF BeginTask, EndTask, TypeOK
  <2>2. Looking' = Looking /\ Asleep' = Asleep
    <3>1. \A v \in Worker : (pc'[v] = "look" <=> pc[v] = "look") /\ (pc'[v] = "asleep" <=> pc[v] = "asleep")
      BY <2>1
    <3> QED
      BY <3>1, Zenon DEF Looking, Asleep
  <2> QED
    BY <1>7, <2>1, <2>2
<1>9. ASSUME NEW t \in Thread, NEW r \in Room, Post(t, r) PROVE WakeInv'
  BY <1>7, <1>9 DEF Post, workerVars, Looking, Asleep
<1>10. CASE SetStop \/ UNCHANGED vars
  BY <1>7, <1>10 DEF SetStop, vars, workerVars, Looking, Asleep
<1> QED
  BY <1>1, <1>2, <1>3, <1>4, <1>5, <1>6, <1>8, <1>9, <1>10 DEF Next, PostStep, WorkerStep

\* With finitely many workers, as long as one of them sleeps there are at least as
\* many on their way to the jobs, or about to be woken, as there are jobs: between
\* the look at the jobs and the sleep no notification gets lost (workerLoop, post).
THEOREM ExecutorNoWakeUpLost ==
  ASSUME IsFiniteSet(Worker)
  PROVE  Spec => []NoWakeUpLost
<1>1. TypeOK /\ NotifyInv /\ WakeInv /\ [Next]_vars => WakeInv'
  BY WakeNext
<1>2. WakeInv => NoWakeUpLost
  BY DEF WakeInv
<1> QED
  BY <1>1, <1>2, TypeInit, TypeNext, WakeInit, NotifyNext, PTL DEF Spec

\* So a job never waits for workers that all sleep or have gone, also when the
\* executor is told to stop: what PostedTasksRun needs besides fair threads.
THEOREM ExecutorJobsAreSeen ==
  ASSUME IsFiniteSet(Worker)
  PROVE  Spec => []JobsAreSeen
<1>1. TypeOK /\ ShutdownInv /\ WakeInv => JobsAreSeen
  <2> SUFFICES ASSUME TypeOK, ShutdownInv, WakeInv, jobs # << >>, notifying = {}
               PROVE  \E w \in Worker : pc[w] \in {"look", "drain", "run"}
    BY DEF JobsAreSeen
  <2>1. CASE Asleep # {}
    <3>1. Len(jobs) \in Nat /\ Len(jobs) # 0 /\ Cardinality(notifying) = 0
      BY FS_EmptySet DEF TypeOK
    <3>2. Cardinality(Looking) # 0
      BY <2>1, <3>1, LookingFinite DEF WakeInv, NoWakeUpLost
    <3>3. Looking # {}
      BY <3>2, FS_EmptySet
    <3> QED
      BY <3>3 DEF Looking
  <2>2. CASE Asleep = {}
    <3>1. PICK w \in Worker : pc[w] # "gone"
      BY DEF ShutdownInv, Joined
    <3> QED
      BY <2>2, <3>1 DEF Asleep, TypeOK
  <2> QED
    BY <2>1, <2>2
<1>2. TypeOK /\ NotifyInv /\ WakeInv /\ [Next]_vars => WakeInv'
  BY WakeNext
<1> QED
  BY <1>1, <1>2, TypeInit, TypeNext, ShutdownInit, ShutdownNext, WakeInit, NotifyNext, PTL DEF Spec
==============================================================================
