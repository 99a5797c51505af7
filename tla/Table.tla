-------------------------------- MODULE Table --------------------------------
(***************************************************************************)
(* A room at play: the engine, the phase and the ready flags of the room    *)
(* (room.cpp), and what the dispatcher does around every request to keep    *)
(* the game going (message_dispatcher.cpp): bots move by tasks posted to    *)
(* the room's queue, timers post more of them (timer_manager.cpp).         *)
(*                                                                         *)
(* The queue runs one task at a time, in order.  The requests of human      *)
(* players come through the same queue; a request can have been posted      *)
(* ahead of any task it races with, so its handler runs here whenever its   *)
(* conditions hold, between any two tasks.                                  *)
(***************************************************************************)
EXTENDS GameEngine, Sequences

CONSTANTS
    Bots,          \* the seats filled by bots
    Owner,         \* the seat of the room's owner
    MaxStarts      \* bound on how often the owner starts the game

ASSUME BotsAssumption == Bots \subseteq Seat /\ Owner \in Seat \ Bots
ASSUME MaxStartsAssumption == MaxStarts \in Nat \ {0}

VARIABLES
    roomPhase,     \* RoomPhase
    ready,         \* the seats of the players who are ready
    tasks,         \* the room's task queue
    turnTimer,     \* the player the timer turn:<room> is set for, or NoSeat
    tributeTimer,  \* whether the timer tribute:<room> is set
    expired,       \* the tasks of the timers that the timer thread has collected
    starts

engineVars == vars
roomVars == <<roomPhase, ready, starts>>
scheduleVars == <<tasks, turnTimer, tributeTimer, expired>>
tableVars == <<vars, roomVars, scheduleVars>>

Humans == Seat \ Bots

TurnTask(s) == [kind |-> "turn", seat |-> s]
TributeTask == [kind |-> "tribute", seat |-> NoSeat]

TableInit ==
    /\ Init
    /\ roomPhase = "WAITING"
    /\ ready = Bots
    /\ tasks = << >>
    /\ turnTimer = NoSeat
    /\ tributeTimer = FALSE
    /\ expired = {}
    /\ starts = 0

-----------------------------------------------------------------------------
(* What handlers do once the engine has accepted a request; each says what   *)
(* becomes of the queue (rest is the queue the handler finds) and the timers.*)

HasPendingTribute(p) == p \in {"TRIBUTE", "RETURN_TRIBUTE"}

\* scheduleTurnTimer: a bot's turn is posted, a human's is timed.
ScheduleTurn(rest) ==
    IF current' \in Bots
    THEN tasks' = Append(rest, TurnTask(current')) /\ turnTimer' = NoSeat
    ELSE tasks' = rest /\ turnTimer' = current'

\* Mutant of ScheduleTribute: the timer is not set again.
ScheduleTributeOnce(rest) ==
    /\ tributeTimer' = FALSE
    /\ IF HasPendingTribute(phase') THEN tasks' = rest /\ UNCHANGED turnTimer
       ELSE ScheduleTurn(rest)

\* scheduleTributeTimer, or the end of the tribute.
ScheduleTribute(rest) ==
    IF HasPendingTribute(phase')
    THEN tributeTimer' = TRUE /\ tasks' = rest /\ UNCHANGED turnTimer
    ELSE tributeTimer' = FALSE /\ ScheduleTurn(rest)

\* Mutant of OnGameOver: the bots must get ready too.
OnGameOverForAll(rest) ==
    /\ tasks' = rest /\ turnTimer' = NoSeat /\ tributeTimer' = FALSE
    /\ roomPhase' = "SETTLEMENT" /\ ready' = {}
    /\ UNCHANGED starts

\* onGameOver: a won match ends the room, otherwise it is settled and everyone
\* but the bots must be ready again (so the next round never starts here).
OnGameOver(rest) ==
    /\ tasks' = rest /\ turnTimer' = NoSeat /\ tributeTimer' = FALSE
    /\ IF matchWon' THEN roomPhase' = "FINISHED" /\ UNCHANGED ready
       ELSE roomPhase' = "SETTLEMENT" /\ ready' = Bots
    /\ UNCHANGED starts

\* Mutants of AfterMove: the end of the round goes unnoticed, the turn is not
\* handed on.
AfterMoveGoesOn(rest) == ScheduleTurn(rest) /\ UNCHANGED <<roomVars, tributeTimer>>
AfterMoveStops(rest) ==
    IF phase' = "FINISHED" THEN OnGameOver(rest)
    ELSE tasks' = rest /\ turnTimer' = NoSeat /\ UNCHANGED <<roomVars, tributeTimer>>

\* After a play or a pass.
AfterMove(rest) ==
    IF phase' = "FINISHED" THEN OnGameOver(rest)
    ELSE ScheduleTurn(rest) /\ UNCHANGED <<roomVars, tributeTimer>>

-----------------------------------------------------------------------------
(* Requests of the human players *)

HandleSetRoomOptions(enabled) ==
    /\ roomPhase = "WAITING"
    /\ SetEnableTribute(enabled)
    /\ UNCHANGED <<roomVars, scheduleVars>>

\* handleStartGame, Room::startGame: everyone is ready.  The phase of the room is
\* not looked at: a running game is dealt anew, a finished match too.
HandleStartGame(d) ==
    /\ starts < MaxStarts
    /\ ready = Seat
    /\ DealGame(d)
    /\ roomPhase' = "PLAYING"
    /\ starts' = starts + 1
    /\ ScheduleTurn(tasks)
    /\ UNCHANGED <<ready, tributeTimer, expired>>

\* handleReady: in the settlement the last one starts the next round.
HandleReady(s) ==
    /\ roomPhase \in {"WAITING", "SETTLEMENT"}
    /\ ready' = ready \cup {s}
    /\ IF roomPhase = "SETTLEMENT" /\ ready' = Seat
       THEN /\ \E d \in Deals : StartNextRound(d)
            /\ roomPhase' = "PLAYING"
            /\ UNCHANGED <<starts, expired>>
            /\ IF HasPendingTribute(phase') THEN ScheduleTribute(tasks)
               ELSE ScheduleTurn(tasks) /\ UNCHANGED tributeTimer
       ELSE UNCHANGED <<engineVars, scheduleVars, roomPhase, starts>>

HandleUnready(s) ==
    /\ roomPhase \in {"WAITING", "SETTLEMENT"}
    /\ ready' = ready \ {s}
    /\ UNCHANGED <<engineVars, scheduleVars, roomPhase, starts>>

HandlePlayCards(s, request) == PlayCards(s, request) /\ AfterMove(tasks) /\ UNCHANGED expired

HandlePass(s) == Pass(s) /\ AfterMove(tasks) /\ UNCHANGED expired

HandleSubmitTribute(s) ==
    /\ SubmitTributes({s})
    /\ ScheduleTribute(tasks)
    /\ UNCHANGED <<roomVars, expired>>

HandleSubmitReturn(s, c) ==
    /\ SubmitReturn(s, c)
    /\ ScheduleTribute(tasks)
    /\ UNCHANGED <<roomVars, expired>>

-----------------------------------------------------------------------------
(* Timers and tasks *)

\* tick, first half: the timers that are due, any that are set, are taken from
\* the map under its lock.
Collect ==
    /\ expired = {}
    /\ \E due \in SUBSET {TurnTask(turnTimer), TributeTask} :
        /\ due # {}
        /\ TurnTask(turnTimer) \in due => turnTimer # NoSeat
        /\ TributeTask \in due => tributeTimer
        /\ expired' = due
        /\ turnTimer' = IF TurnTask(turnTimer) \in due THEN NoSeat ELSE turnTimer
        /\ tributeTimer' = (tributeTimer /\ TributeTask \notin due)
    /\ UNCHANGED <<engineVars, roomVars, tasks>>

\* tick, second half: their callbacks post the tasks.  Whoever cancels or replaces
\* a timer in between comes too late.
RunCallback ==
    \E task \in expired :
        /\ expired' = expired \ {task}
        /\ tasks' = Append(tasks, task)
        /\ UNCHANGED <<engineVars, roomVars, turnTimer, tributeTimer>>

NextTask(kind) == tasks # << >> /\ Head(tasks).kind = kind

IgnoreTask ==
    /\ tasks' = Tail(tasks)
    /\ UNCHANGED <<engineVars, roomVars, turnTimer, tributeTimer>>

\* executeBotTurn: the task is stale unless its player is a bot and to move.  The
\* bot plays what it chooses and passes if there is nothing to choose.
ExecuteBotTurn ==
    /\ NextTask("turn")
    /\ LET s == Head(tasks).seat
           plays == BotPlays(hand[s], lastPattern, level)
       IN  IF s \notin Bots \/ phase # "PLAYING" \/ s # current THEN IgnoreTask
           ELSE IF plays # {}
           THEN \E cards \in plays : PlayCards(s, Once(cards)) /\ AfterMove(Tail(tasks))
           ELSE Pass(s) /\ AfterMove(Tail(tasks))

\* executeBotTributeActions: pending bots pay or return; the loop runs over the
\* list that its own calls shorten, so it may miss some of them.  The timer is
\* set again while the phase lasts.  A bot's return does not finalize the phase.
ExecuteBotTribute ==
    /\ NextTask("tribute")
    /\ \/ ~HasPendingTribute(phase) /\ IgnoreTask
       \/ /\ \E payers \in SUBSET (Bots \cap tribute.pendingTributers) : SubmitTributes(payers)
          /\ ScheduleTribute(Tail(tasks))
          /\ UNCHANGED roomVars
       \/ /\ \E s \in SUBSET (Bots \cap tribute.pendingReturn) :
              \E card \in [s -> Card \ {NoCard}] :
                  /\ \A t \in s : card[t] \in BotReturnCards(hand[t], level)
                  /\ ReturnCardsOf(card)
                  /\ tribute' = [tribute EXCEPT !.pendingReturn = @ \ s]
          /\ UNCHANGED <<phase, current, roomVars>>
          /\ ScheduleTribute(Tail(tasks))
       \/ /\ HasPendingTribute(phase)
          /\ \A s \in Bots \cap tribute.pendingTributers : tribute.required[s] = NoCard
          /\ \A s \in Bots \cap tribute.pendingReturn :
                 NoCard \in BotReturnCards(hand[s], level)
          /\ UNCHANGED <<engineVars, roomVars>>
          /\ ScheduleTribute(Tail(tasks))

-----------------------------------------------------------------------------
HumanMove == \E s \in Humans :
    \/ \E cards \in SUBSET hand[s] : \E request \in [cards -> 1..MaxCopies] : HandlePlayCards(s, request)
    \/ HandlePass(s)

HumanTrade == \E s \in Humans :
    \/ HandleSubmitTribute(s)
    \/ \E c \in hand[s] : HandleSubmitReturn(s, c)

ExecuteTask == (ExecuteBotTurn \/ ExecuteBotTribute) /\ UNCHANGED expired

TableNext ==
    \/ \E enabled \in BOOLEAN : HandleSetRoomOptions(enabled)
    \/ \E d \in Deals : HandleStartGame(d)
    \/ \E s \in Humans : HandleReady(s) \/ HandleUnready(s)
    \/ HumanMove
    \/ HumanTrade
    \/ Collect
    \/ RunCallback
    \/ ExecuteTask

\* The room executor's threads run what is posted and the timer thread ticks;
\* nothing is assumed of the players.
TableSpec ==
    TableInit /\ [][TableNext]_tableVars
    /\ WF_tableVars(ExecuteTask)
    /\ WF_tableVars(Collect) /\ WF_tableVars(RunCallback)

-----------------------------------------------------------------------------
(* Properties *)

TableTypeOK ==
    /\ TypeOK
    /\ roomPhase \in {"WAITING", "PLAYING", "SETTLEMENT", "FINISHED"}
    /\ Bots \subseteq ready /\ ready \subseteq Seat
    /\ \A i \in DOMAIN tasks :
           tasks[i] \in {TurnTask(s) : s \in Seat} \cup {TributeTask}
    /\ turnTimer \in Humans \cup {NoSeat}
    /\ tributeTimer \in BOOLEAN
    /\ expired \subseteq {TurnTask(s) : s \in Humans} \cup {TributeTask}

\* The room and its engine agree on whether a game is on, although the owner can
\* start one at any time and the settlement is decided by the dispatcher.
RoomFollowsEngine ==
    /\ roomPhase = "WAITING" <=> phase = "WAITING"
    /\ roomPhase = "PLAYING" <=> phase \in {"TRIBUTE", "RETURN_TRIBUTE", "PLAYING"}
    /\ roomPhase = "SETTLEMENT" <=> phase = "FINISHED" /\ ~matchWon
    /\ roomPhase = "FINISHED" <=> phase = "FINISHED" /\ matchWon

\* Somebody always sees to the game: the task of a bot to move is in the queue,
\* whatever stale tasks are there with it; a timer for a turn is that of the
\* player to move; a phase of tribute has its timer, or what the timer posts.
GameIsAttended ==
    /\ phase = "PLAYING" /\ current \in Bots =>
           \E i \in DOMAIN tasks : tasks[i] = TurnTask(current)
    /\ turnTimer # NoSeat => phase = "PLAYING" /\ turnTimer = current
    /\ HasPendingTribute(phase) =>
           tributeTimer \/ TributeTask \in expired
               \/ \E i \in DOMAIN tasks : tasks[i] = TributeTask

\* Bots never hold up a game: their turn passes.
BotsKeepPlaying ==
    phase = "PLAYING" /\ current \in Bots ~> phase # "PLAYING" \/ current \notin Bots

\* A player who does not answer in time passes: the turn goes on without them
\* once there is something to pass on.
SilentPlayerPasses ==
    \A s \in Humans :
        phase = "PLAYING" /\ current = s /\ IsValid(lastPattern)
            ~> phase # "PLAYING" \/ current # s

\* When every card has been returned the round is played.
ReturnsDoneStartPlay ==
    phase = "RETURN_TRIBUTE" /\ tribute.pendingReturn = {} ~> phase = "PLAYING"
==============================================================================
