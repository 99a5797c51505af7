------------------------------ MODULE MCThreads ------------------------------
(***************************************************************************)
(* Where threads of the server hand work to one another: the executor of the *)
(* rooms and the strand of a connection.  They share no state, so in each    *)
(* behaviour one of them moves and the other stays where it began.          *)
(***************************************************************************)
EXTENDS RoomExecutor, Outbox

VARIABLE side

MCInit == side \in {"rooms", "connection"} /\ Init /\ OutboxInit

\* A connection may be at rest; the threads of the rooms must not get stuck.
MCNext ==
    /\ UNCHANGED side
    /\ \/ side = "rooms" /\ Next /\ UNCHANGED outboxVars
       \/ side = "connection" /\ (OutboxNext \/ UNCHANGED outboxVars) /\ UNCHANGED vars

\* Threads go on with what they have begun, and tasks end.
ThreadsGoOn ==
    /\ \A t \in Thread : WF_vars(side = "rooms" /\ PostStep(t))
    /\ \A w \in Worker : WF_vars(side = "rooms" /\ WorkerStep(w))
    /\ WF_vars(side = "rooms" /\ NotifyAll)

\* What is posted to a strand is run, and a write ends, well or not: a stream that
\* makes no progress is timed out.
StrandGoesOn == WF_outboxVars(RunPosted) /\ WF_outboxVars(WriteEnds \/ WriteFails)

MCSpec == MCInit /\ [][MCNext]_<<side, vars, outboxVars>> /\ ThreadsGoOn /\ StrandGoesOn
=============================================================================
