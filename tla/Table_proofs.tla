---------------------------- MODULE Table_proofs ----------------------------
(***************************************************************************)
(* A room at play is seen to, and agrees with its engine, for every deck,    *)
(* every number of players and every choice of the seats that bots fill,     *)
(* however requests, timers and the tasks of the room's queue are             *)
(* interleaved, and although the owner can start a game over another one.     *)
(***************************************************************************)
EXTENDS Table, GameEngine_proofs, SequenceTheorems

Task == {TurnTask(s) : s \in Seat} \cup {TributeTask}

InQueue(q, t) == \E i \in DOMAIN q : q[i] = t

RoomInv ==
    /\ roomPhase \in {"WAITING", "PLAYING", "SETTLEMENT", "FINISHED"}
    /\ Bots \subseteq ready /\ ready \subseteq Seat
    /\ RoomFollowsEngine

ScheduleInv ==
    /\ tasks \in Seq(Task)
    /\ turnTimer \in Humans \cup {NoSeat}
    /\ tributeTimer \in BOOLEAN
    /\ expired \subseteq {TurnTask(s) : s \in Humans} \cup {TributeTask}
    /\ GameIsAttended

TableInv == EngineInv /\ TypeRest /\ RoomInv /\ ScheduleInv

-----------------------------------------------------------------------------
(* The queue *)

\* The tasks of the room, one a seat and one for the tribute, are told apart.
LEMMA TaskFacts ==
  /\ TributeTask \in Task /\ \A s \in Seat : TurnTask(s) \in Task
  /\ \A s : TurnTask(s) # TributeTask /\ TurnTask(s).kind = "turn" /\ TurnTask(s).seat = s
  /\ TributeTask.kind = "tribute"
  /\ Humans \subseteq Seat /\ Bots \subseteq Seat /\ Humans \cap Bots = {}
<1>1. \A s : TurnTask(s).kind = "turn" /\ TurnTask(s).seat = s
  BY DEF TurnTask
<1>2. TributeTask.kind = "tribute"
  BY DEF TributeTask
<1>3. \A s : TurnTask(s) # TributeTask
  BY <1>1, <1>2
<1>4. Humans \subseteq Seat /\ Bots \subseteq Seat /\ Humans \cap Bots = {}
  BY BotsAssumption DEF Humans
<1> QED
  BY <1>1, <1>2, <1>3, <1>4 DEF Task

\* A task that is appended is in the queue, with all that were there.
LEMMA AppendKeepsTasks ==
  ASSUME NEW q \in Seq(Task), NEW t \in Task
  PROVE  /\ Append(q, t) \in Seq(Task) /\ InQueue(Append(q, t), t)
         /\ \A u : InQueue(q, u) => InQueue(Append(q, t), u)
<1>1. /\ Append(q, t) \in Seq(Task) /\ Len(Append(q, t)) = Len(q) + 1
      /\ \A i \in 1..Len(q) : Append(q, t)[i] = q[i]
      /\ Append(q, t)[Len(q) + 1] = t
  BY AppendProperties
<1>2. /\ Len(q) \in Nat /\ DOMAIN q = 1..Len(q)
      /\ DOMAIN Append(q, t) = 1..Len(Append(q, t))
  BY <1>1, LenProperties
<1> DEFINE all == Append(q, t)
<1> HIDE DEF all
<1>3. Len(q) + 1 \in DOMAIN all /\ \A i \in DOMAIN q : i \in DOMAIN all
  BY <1>1, <1>2 DEF all
<1>4. all \in Seq(Task) /\ InQueue(all, t) /\ \A u : InQueue(q, u) => InQueue(all, u)
  BY <1>1, <1>2, <1>3, Zenon DEF InQueue, all
<1> QED
  BY <1>4 DEF all

\* What is taken from the queue is its head, and no other task.
LEMMA TailKeepsTasks ==
  ASSUME NEW q \in Seq(Task), q # << >>
  PROVE  /\ Tail(q) \in Seq(Task) /\ Head(q) \in Task
         /\ \A u : InQueue(q, u) /\ u # Head(q) => InQueue(Tail(q), u)
<1>1. /\ Tail(q) \in Seq(Task) /\ Head(q) \in Task /\ Len(Tail(q)) = Len(q) - 1
      /\ \A i \in 1..Len(Tail(q)) : Tail(q)[i] = q[i + 1]
      /\ Head(q) = q[1]
  BY HeadTailProperties
<1>2. /\ Len(q) \in Nat /\ DOMAIN q = 1..Len(q)
      /\ DOMAIN Tail(q) = 1..Len(Tail(q))
  BY <1>1, LenProperties
<1>3. ASSUME NEW u, InQueue(q, u), u # Head(q)
      PROVE  InQueue(Tail(q), u)
  <2>1. PICK i \in DOMAIN q : q[i] = u
    BY <1>3 DEF InQueue
  <2> DEFINE tl == Tail(q)
             hd == Head(q)
             j == i - 1
  <2> HIDE DEF tl, hd
  <2>2. hd = q[1] /\ u # hd
    BY <1>1, <1>3 DEF hd
  <2>3. i # 1
    BY <2>1, <2>2
  <2>4. DOMAIN tl = 1..(Len(q) - 1) /\ \A k \in 1..(Len(q) - 1) : tl[k] = q[k + 1]
    BY <1>1, <1>2 DEF tl
  <2>5. j \in 1..(Len(q) - 1) /\ j + 1 = i
    BY <1>2, <2>3
  <2>6. j \in DOMAIN tl /\ tl[j] = u
    BY <2>1, <2>4, <2>5
  <2>7. InQueue(tl, u)
    BY <2>6 DEF InQueue
  <2> QED
    BY <2>7 DEF tl
<1> QED
  BY <1>1, <1>3

-----------------------------------------------------------------------------
(* What the handlers schedule *)

\* A game at play is attended once the turn is scheduled, whatever else is queued.
LEMMA TurnIsAttended ==
  ASSUME NEW rest \in Seq(Task), ScheduleTurn(rest), phase' = "PLAYING", current' \in Seat
  PROVE  tasks' \in Seq(Task) /\ turnTimer' \in Humans \cup {NoSeat} /\ GameIsAttended'
<1>1. ~HasPendingTribute(phase')
  BY DEF HasPendingTribute
<1>2. CASE current' \in Bots
  <2>1. tasks' = Append(rest, TurnTask(current')) /\ turnTimer' = NoSeat
    BY <1>2 DEF ScheduleTurn
  <2>2. TurnTask(current') \in Task
    BY TaskFacts
  <2>3. tasks' \in Seq(Task) /\ InQueue(tasks', TurnTask(current'))
    BY <2>1, <2>2, AppendKeepsTasks
  <2> QED
    BY <1>1, <2>1, <2>3 DEF GameIsAttended, InQueue
<1>3. CASE current' \notin Bots
  <2>1. tasks' = rest /\ turnTimer' = current' /\ current' \in Humans
    BY <1>3 DEF ScheduleTurn, Humans
  <2> QED
    BY <1>1, <1>3, <2>1 DEF GameIsAttended
<1> QED
  BY <1>2, <1>3

\* The turn has passed on, or the round is over.
LEMMA AfterMoveKeeps ==
  ASSUME TableInv, NEW s, NEW request, PlayCards(s, request) \/ Pass(s),
         NEW rest \in Seq(Task), AfterMove(rest), UNCHANGED expired, EngineInv', TypeRest'
  PROVE  RoomInv' /\ ScheduleInv'
<1>1. phase = "PLAYING" /\ phase' \in {"PLAYING", "FINISHED"}
  BY DEF PlayCards, Pass, GameOver, GoOn
<1>2. current' \in Seat /\ matchWon' \in BOOLEAN
  BY DEF EngineInv, TypeInv, TypeRest
<1>3. roomPhase = "PLAYING" /\ Bots \subseteq ready /\ ready \subseteq Seat
  BY <1>1 DEF TableInv, RoomInv, RoomFollowsEngine
<1>4. tributeTimer \in BOOLEAN /\ expired' \subseteq {TurnTask(t) : t \in Humans} \cup {TributeTask}
  BY DEF TableInv, ScheduleInv
<1>5. CASE phase' = "FINISHED"
  <2>1. /\ tasks' = rest /\ turnTimer' = NoSeat /\ tributeTimer' = FALSE
        /\ IF matchWon' THEN roomPhase' = "FINISHED" /\ UNCHANGED ready
           ELSE roomPhase' = "SETTLEMENT" /\ ready' = Bots
    BY <1>5 DEF AfterMove, OnGameOver
  <2>2. RoomInv'
    BY <1>2, <1>3, <1>5, <2>1, TaskFacts DEF RoomInv, RoomFollowsEngine
  <2>3. ScheduleInv'
    BY <1>4, <1>5, <2>1 DEF ScheduleInv, GameIsAttended, HasPendingTribute
  <2> QED
    BY <2>2, <2>3
<1>6. CASE phase' = "PLAYING"
  <2>1. ScheduleTurn(rest) /\ UNCHANGED <<roomVars, tributeTimer>>
    BY <1>6 DEF AfterMove
  <2>2. RoomInv'
    BY <1>3, <1>6, <2>1 DEF RoomInv, RoomFollowsEngine, roomVars
  <2>3. tasks' \in Seq(Task) /\ turnTimer' \in Humans \cup {NoSeat} /\ GameIsAttended'
    BY <1>2, <1>6, <2>1, TurnIsAttended
  <2>4. ScheduleInv'
    BY <1>4, <2>1, <2>3 DEF ScheduleInv
  <2> QED
    BY <2>2, <2>4
<1> QED
  BY <1>1, <1>5, <1>6

\* A phase of tribute gets its timer again, or the play begins.
LEMMA AfterTradeKeeps ==
  ASSUME TableInv, phase \in Trading, phase' \in Trading \cup {"PLAYING"}, current' \in Seat,
         NEW rest \in Seq(Task), ScheduleTribute(rest), UNCHANGED roomVars, UNCHANGED expired
  PROVE  RoomInv' /\ ScheduleInv'
<1>1. roomPhase = "PLAYING" /\ Bots \subseteq ready /\ ready \subseteq Seat /\ turnTimer = NoSeat
  BY DEF TableInv, RoomInv, RoomFollowsEngine, ScheduleInv, GameIsAttended, Trading
<1>2. RoomInv'
  BY <1>1 DEF RoomInv, RoomFollowsEngine, Trading, roomVars
<1>3. expired' \subseteq {TurnTask(t) : t \in Humans} \cup {TributeTask}
  BY DEF TableInv, ScheduleInv
<1>4. CASE phase' \in Trading
  <2>1. tributeTimer' = TRUE /\ tasks' = rest /\ turnTimer' = NoSeat
    BY <1>1, <1>4 DEF ScheduleTribute, HasPendingTribute, Trading
  <2> QED
    BY <1>2, <1>3, <1>4, <2>1 DEF ScheduleInv, GameIsAttended, Trading
<1>5. CASE phase' = "PLAYING"
  <2>1. tributeTimer' = FALSE /\ ScheduleTurn(rest)
    BY <1>5 DEF ScheduleTribute, HasPendingTribute
  <2> QED
    BY <1>2, <1>3, <1>5, <2>1, TurnIsAttended DEF ScheduleInv
<1> QED
  BY <1>4, <1>5

-----------------------------------------------------------------------------
(* The engine moves as it may *)

\* A request that lists each card once is a request.
LEMMA OnceIsRequest ==
  ASSUME NEW cards
  PROVE  DOMAIN Once(cards) = cards /\ Once(cards) \in [cards -> 1..MaxCopies]
<1>1. 1 \in 1..MaxCopies
  BY BoundsAssumption
<1> QED
  BY <1>1 DEF Once

\* A bot plays cards of its hand, since the engine takes no others, and passes in
\* its turn only.
LEMMA BotTurnIsStep ==
  ASSUME NEW s \in Seat, (\E cards : PlayCards(s, Once(cards))) \/ Pass(s)
  PROVE  Move
<1>1. ASSUME NEW cards, PlayCards(s, Once(cards))
      PROVE  Move
  <2>1. cards \in SUBSET hand[s] /\ Once(cards) \in [cards -> 1..MaxCopies]
    BY <1>1, OnceIsRequest DEF PlayCards, Playable
  <2> QED
    BY <1>1, <2>1 DEF Move
<1> QED
  BY <1>1 DEF Move

\* What the bots return in one task are cards of theirs.
LEMMA BotReturnsAreHeld ==
  ASSUME NEW s, NEW card \in [s -> Card \ {NoCard}], \A t \in s : card[t] \in BotReturnCards(hand[t], level),
         ReturnCardsOf(card), tribute' = [tribute EXCEPT !.pendingReturn = @ \ s], UNCHANGED <<phase, current>>
  PROVE  SomeReturn(card) /\ \A t \in DOMAIN card : card[t] \in hand[t]
<1>1. \A cards : BotReturnCards(cards, level) \subseteq cards
  BY DEF BotReturnCards, SmallestCards
<1>2. DOMAIN card = s
  OBVIOUS
<1> QED
  BY <1>1, <1>2 DEF SomeReturn

\* The tribute task of the bots pays, returns, or leaves the engine alone.
LEMMA BotTributeCases ==
  ASSUME ExecuteBotTribute
  PROVE  /\ NextTask("tribute")
         /\ \/ ~HasPendingTribute(phase) /\ IgnoreTask
            \/ /\ \E payers : SubmitTributes(payers)
               /\ ScheduleTribute(Tail(tasks)) /\ UNCHANGED roomVars
            \/ /\ \E card : (\A s \in DOMAIN card : card[s] \in hand[s]) /\ SomeReturn(card)
               /\ ScheduleTribute(Tail(tasks)) /\ UNCHANGED roomVars
            \/ /\ HasPendingTribute(phase) /\ UNCHANGED engineVars
               /\ ScheduleTribute(Tail(tasks)) /\ UNCHANGED roomVars
<1>1. NextTask("tribute")
  BY DEF ExecuteBotTribute
<1>2. ASSUME NEW s, NEW card \in [s -> Card \ {NoCard}],
             \A t \in s : card[t] \in BotReturnCards(hand[t], level), ReturnCardsOf(card),
             tribute' = [tribute EXCEPT !.pendingReturn = @ \ s], UNCHANGED <<phase, current>>
      PROVE  \E c : (\A t \in DOMAIN c : c[t] \in hand[t]) /\ SomeReturn(c)
  BY <1>2, BotReturnsAreHeld
<1>3. \/ ~HasPendingTribute(phase) /\ IgnoreTask
      \/ /\ \E payers : SubmitTributes(payers)
         /\ ScheduleTribute(Tail(tasks)) /\ UNCHANGED roomVars
      \/ /\ \E s : \E card \in [s -> Card \ {NoCard}] :
               /\ \A t \in s : card[t] \in BotReturnCards(hand[t], level)
               /\ ReturnCardsOf(card)
               /\ tribute' = [tribute EXCEPT !.pendingReturn = @ \ s]
               /\ UNCHANGED <<phase, current>>
         /\ ScheduleTribute(Tail(tasks)) /\ UNCHANGED roomVars
      \/ /\ HasPendingTribute(phase) /\ UNCHANGED engineVars
         /\ ScheduleTribute(Tail(tasks)) /\ UNCHANGED roomVars
  BY DEF ExecuteBotTribute
<1> QED
  BY <1>1, <1>2, <1>3

\* A turn task is ignored unless it is that of the player to move, a bot.
LEMMA BotTurnCases ==
  ASSUME ExecuteBotTurn
  PROVE  LET s == Head(tasks).seat IN
         /\ NextTask("turn")
         /\ \/ (s \notin Bots \/ phase # "PLAYING" \/ s # current) /\ IgnoreTask
            \/ /\ s \in Bots /\ (Pass(s) \/ \E cards : PlayCards(s, Once(cards)))
               /\ AfterMove(Tail(tasks))
  BY DEF ExecuteBotTurn

\* Whatever happens in a room, the engine makes a step of its own or none.
LEMMA TableStepsEngine == [TableNext]_tableVars => [EngineStep]_vars
<1> SUFFICES ASSUME [TableNext]_tableVars PROVE [EngineStep]_vars
  OBVIOUS
<1> USE DEF engineVars
<1>1. CASE \E enabled \in BOOLEAN : HandleSetRoomOptions(enabled)
  BY <1>1 DEF HandleSetRoomOptions, EngineStep
<1>2. CASE \E d \in Deals : HandleStartGame(d)
  BY <1>2 DEF HandleStartGame, EngineStep
<1>3. ASSUME NEW s \in Humans, HandleReady(s) \/ HandleUnready(s)
      PROVE  [EngineStep]_vars
  BY <1>3 DEF HandleReady, HandleUnready, EngineStep
<1>4. CASE HumanMove
  <2>1. Move
    BY <1>4, TaskFacts DEF HumanMove, HandlePlayCards, HandlePass, Move
  <2> QED
    BY <2>1 DEF EngineStep
<1>5. CASE HumanTrade
  BY <1>5, TaskFacts DEF HumanTrade, HandleSubmitTribute, HandleSubmitReturn, EngineStep
<1>6. CASE Collect \/ RunCallback
  BY <1>6 DEF Collect, RunCallback
<1>7. CASE ExecuteBotTurn
  <2>1. Move \/ UNCHANGED vars
    BY <1>7, BotTurnCases, BotTurnIsStep, TaskFacts DEF IgnoreTask
  <2> QED
    BY <2>1 DEF EngineStep
<1>8. CASE ExecuteBotTribute
  BY <1>8, BotTributeCases DEF IgnoreTask, EngineStep
<1>9. CASE UNCHANGED tableVars
  BY <1>9 DEF tableVars
<1> QED
  BY <1>1, <1>2, <1>3, <1>4, <1>5, <1>6, <1>7, <1>8, <1>9 DEF TableNext, ExecuteTask

-----------------------------------------------------------------------------
(* Every handler keeps the invariant *)

\* The room waits, with nothing scheduled.
LEMMA TableInvInit == TableInit => TableInv
<1> SUFFICES ASSUME TableInit PROVE TableInv
  OBVIOUS
<1>1. Init /\ phase = "WAITING"
  BY DEF TableInit, Init
<1>2. EngineInv /\ TypeRest
  BY <1>1, InitInv, TypeRestInit
<1>3. RoomInv
  BY <1>1, TaskFacts DEF TableInit, RoomInv, RoomFollowsEngine
<1>4. ScheduleInv
  BY <1>1, EmptySeq DEF TableInit, ScheduleInv, GameIsAttended, HasPendingTribute
<1> QED
  BY <1>2, <1>3, <1>4 DEF TableInv

\* The option of the tribute concerns neither tasks nor timers.
LEMMA SetRoomOptionsKeeps ==
  ASSUME TableInv, NEW enabled \in BOOLEAN, HandleSetRoomOptions(enabled)
  PROVE  RoomInv' /\ ScheduleInv'
<1>1. UNCHANGED phase /\ UNCHANGED matchWon /\ UNCHANGED current /\ UNCHANGED <<roomVars, scheduleVars>>
  BY DEF HandleSetRoomOptions, SetEnableTribute
<1> QED
  BY <1>1 DEF TableInv, RoomInv, RoomFollowsEngine, ScheduleInv, GameIsAttended, roomVars, scheduleVars

\* A game that is started, over another one perhaps, is scheduled.
LEMMA StartGameAttends ==
  ASSUME TableInv, NEW d \in Deals, HandleStartGame(d), EngineInv'
  PROVE  RoomInv' /\ ScheduleInv'
<1>1. /\ phase' = "PLAYING" /\ roomPhase' = "PLAYING" /\ ScheduleTurn(tasks)
      /\ UNCHANGED <<ready, tributeTimer, expired>>
  BY DEF HandleStartGame, DealGame, BeginPlaying
<1>2. current' \in Seat /\ tasks \in Seq(Task)
  BY DEF TableInv, EngineInv, TypeInv, ScheduleInv
<1>3. RoomInv'
  BY <1>1 DEF TableInv, RoomInv, RoomFollowsEngine
<1>4. ScheduleInv'
  BY <1>1, <1>2, TurnIsAttended DEF TableInv, ScheduleInv
<1> QED
  BY <1>3, <1>4

\* Whoever gets ready last deals the next round, which is scheduled.
LEMMA ReadyKeeps ==
  ASSUME TableInv, NEW s \in Humans, HandleReady(s) \/ HandleUnready(s), EngineInv'
  PROVE  RoomInv' /\ ScheduleInv'
<1>1. s \in Seat \ Bots /\ current' \in Seat /\ tasks \in Seq(Task)
  BY TaskFacts DEF TableInv, EngineInv, TypeInv, ScheduleInv
<1>2. Bots \subseteq ready' /\ ready' \subseteq Seat
  BY <1>1 DEF TableInv, RoomInv, HandleReady, HandleUnready
<1>3. CASE UNCHANGED <<engineVars, scheduleVars, roomPhase, starts>>
  <2>1. UNCHANGED phase /\ UNCHANGED matchWon /\ UNCHANGED current
    BY <1>3 DEF engineVars, vars, roundVars
  <2>2. RoomInv'
    BY <1>2, <1>3, <2>1 DEF TableInv, RoomInv, RoomFollowsEngine
  <2>3. ScheduleInv'
    BY <1>3, <2>1 DEF TableInv, ScheduleInv, GameIsAttended, scheduleVars
  <2> QED
    BY <2>2, <2>3
<1>4. CASE HandleReady(s) /\ roomPhase = "SETTLEMENT" /\ ready' = Seat
  <2>1. /\ phase = "FINISHED" /\ phase' \in {"TRIBUTE", "PLAYING"} /\ roomPhase' = "PLAYING"
        /\ UNCHANGED expired
        /\ IF HasPendingTribute(phase') THEN ScheduleTribute(tasks)
           ELSE ScheduleTurn(tasks) /\ UNCHANGED tributeTimer
    BY <1>4 DEF HandleReady, StartNextRound, BeginPlaying
  <2>2. RoomInv'
    BY <1>2, <2>1 DEF RoomInv, RoomFollowsEngine
  <2>3. CASE phase' = "PLAYING"
    <3>1. ScheduleTurn(tasks) /\ UNCHANGED tributeTimer
      BY <2>1, <2>3 DEF HasPendingTribute
    <3> QED
      BY <1>1, <2>1, <2>2, <2>3, <3>1, TurnIsAttended DEF TableInv, ScheduleInv
  <2>4. CASE phase' = "TRIBUTE"
    <3>1. turnTimer = NoSeat
      BY <2>1 DEF TableInv, ScheduleInv, GameIsAttended
    <3>2. tributeTimer' = TRUE /\ tasks' = tasks /\ turnTimer' = NoSeat
      BY <2>1, <2>4, <3>1 DEF HasPendingTribute, ScheduleTribute
    <3> QED
      BY <1>1, <2>1, <2>2, <2>4, <3>2 DEF TableInv, ScheduleInv, GameIsAttended
  <2> QED
    BY <2>1, <2>3, <2>4
<1> QED
  BY <1>3, <1>4 DEF HandleReady, HandleUnready

\* Between its two halves the tick of the timers has what it collected.
LEMMA CollectKeeps ==
  ASSUME TableInv, Collect
  PROVE  RoomInv' /\ ScheduleInv'
<1>1. UNCHANGED phase /\ UNCHANGED matchWon /\ UNCHANGED current /\ UNCHANGED roomVars /\ UNCHANGED tasks
  BY DEF Collect, engineVars, vars, roundVars
<1>2. PICK due \in SUBSET {TurnTask(turnTimer), TributeTask} :
        /\ TurnTask(turnTimer) \in due => turnTimer # NoSeat
        /\ TributeTask \in due => tributeTimer
        /\ expired' = due
        /\ turnTimer' = IF TurnTask(turnTimer) \in due THEN NoSeat ELSE turnTimer
        /\ tributeTimer' = (tributeTimer /\ TributeTask \notin due)
  BY DEF Collect
<1>3. expired = {}
  BY DEF Collect
<1>4. RoomInv'
  BY <1>1 DEF TableInv, RoomInv, RoomFollowsEngine, roomVars
<1>5. turnTimer \in Humans \cup {NoSeat} /\ tributeTimer \in BOOLEAN /\ tasks \in Seq(Task)
  BY DEF TableInv, ScheduleInv
<1>6. expired' \subseteq {TurnTask(s) : s \in Humans} \cup {TributeTask}
  BY <1>2, <1>5
<1>7. turnTimer' \in Humans \cup {NoSeat} /\ tributeTimer' \in BOOLEAN
  BY <1>2, <1>5
<1>8. GameIsAttended'
  BY <1>1, <1>2, <1>3, <1>5 DEF TableInv, ScheduleInv, GameIsAttended
<1> QED
  BY <1>1, <1>4, <1>5, <1>6, <1>7, <1>8 DEF ScheduleInv

\* A collected timer posts its task, whatever has become of the turn.
LEMMA RunCallbackKeeps ==
  ASSUME TableInv, RunCallback
  PROVE  RoomInv' /\ ScheduleInv'
<1>1. UNCHANGED phase /\ UNCHANGED matchWon /\ UNCHANGED current /\ UNCHANGED roomVars
      /\ UNCHANGED turnTimer /\ UNCHANGED tributeTimer
  BY DEF RunCallback, engineVars, vars, roundVars
<1>2. PICK task \in expired : expired' = expired \ {task} /\ tasks' = Append(tasks, task)
  BY DEF RunCallback
<1>3. /\ tasks \in Seq(Task) /\ turnTimer \in Humans \cup {NoSeat} /\ tributeTimer \in BOOLEAN
      /\ expired \subseteq {TurnTask(s) : s \in Humans} \cup {TributeTask}
  BY DEF TableInv, ScheduleInv
<1>4. task \in Task
  BY <1>3, TaskFacts
<1>5. /\ tasks' \in Seq(Task) /\ InQueue(tasks', task)
      /\ \A u : InQueue(tasks, u) => InQueue(tasks', u)
  BY <1>2, <1>3, <1>4, AppendKeepsTasks
<1>6. RoomInv'
  BY <1>1 DEF TableInv, RoomInv, RoomFollowsEngine, roomVars
<1>7. GameIsAttended'
  <2>1. phase = "PLAYING" /\ current \in Bots => InQueue(tasks', TurnTask(current))
    BY <1>5 DEF TableInv, ScheduleInv, GameIsAttended, InQueue
  <2>2. HasPendingTribute(phase) =>
            tributeTimer \/ TributeTask \in expired' \/ InQueue(tasks', TributeTask)
    BY <1>2, <1>5 DEF TableInv, ScheduleInv, GameIsAttended, InQueue
  <2>3. turnTimer # NoSeat => phase = "PLAYING" /\ turnTimer = current
    BY DEF TableInv, ScheduleInv, GameIsAttended
  <2> QED
    BY <1>1, <2>1, <2>2, <2>3 DEF GameIsAttended, InQueue
<1> QED
  BY <1>1, <1>2, <1>3, <1>5, <1>6, <1>7 DEF ScheduleInv

\* A task is ignored only when the game does not wait for it.
LEMMA IgnoredTaskKeeps ==
  ASSUME TableInv, IgnoreTask, UNCHANGED expired, tasks # << >>,
         Head(tasks) # TurnTask(current) \/ phase # "PLAYING" \/ current \notin Bots,
         Head(tasks) # TributeTask \/ ~HasPendingTribute(phase)
  PROVE  RoomInv' /\ ScheduleInv'
<1>1. UNCHANGED phase /\ UNCHANGED matchWon /\ UNCHANGED current /\ UNCHANGED roomVars
      /\ UNCHANGED turnTimer /\ UNCHANGED tributeTimer /\ tasks' = Tail(tasks)
  BY DEF IgnoreTask, engineVars, vars, roundVars
<1>2. /\ tasks \in Seq(Task) /\ turnTimer \in Humans \cup {NoSeat} /\ tributeTimer \in BOOLEAN
      /\ expired \subseteq {TurnTask(s) : s \in Humans} \cup {TributeTask}
  BY DEF TableInv, ScheduleInv
<1>3. tasks' \in Seq(Task) /\ \A u : InQueue(tasks, u) /\ u # Head(tasks) => InQueue(tasks', u)
  BY <1>1, <1>2, TailKeepsTasks
<1>4. RoomInv'
  BY <1>1 DEF TableInv, RoomInv, RoomFollowsEngine, roomVars
<1>5. GameIsAttended'
  <2>1. phase = "PLAYING" /\ current \in Bots => InQueue(tasks', TurnTask(current))
    BY <1>3 DEF TableInv, ScheduleInv, GameIsAttended, InQueue
  <2>2. HasPendingTribute(phase) =>
            tributeTimer \/ TributeTask \in expired \/ InQueue(tasks', TributeTask)
    BY <1>3 DEF TableInv, ScheduleInv, GameIsAttended, InQueue
  <2>3. turnTimer # NoSeat => phase = "PLAYING" /\ turnTimer = current
    BY DEF TableInv, ScheduleInv, GameIsAttended
  <2> QED
    BY <1>1, <2>1, <2>2, <2>3 DEF GameIsAttended, InQueue
<1> QED
  BY <1>1, <1>2, <1>3, <1>4, <1>5 DEF ScheduleInv

\* A task that is stale schedules nothing new; one that is not schedules what comes next.
LEMMA ExecuteTaskKeeps ==
  ASSUME TableInv, ExecuteTask, EngineInv', TypeRest'
  PROVE  RoomInv' /\ ScheduleInv'
<1>1. UNCHANGED expired /\ tasks # << >> /\ tasks \in Seq(Task) /\ Tail(tasks) \in Seq(Task)
  BY TailKeepsTasks DEF ExecuteTask, ExecuteBotTurn, ExecuteBotTribute, NextTask, TableInv, ScheduleInv
<1>2. CASE ExecuteBotTurn
  <2> DEFINE s == Head(tasks).seat
  <2>1. /\ Head(tasks).kind = "turn"
        /\ \/ (s \notin Bots \/ phase # "PLAYING" \/ s # current) /\ IgnoreTask
           \/ /\ s \in Bots /\ (Pass(s) \/ \E cards : PlayCards(s, Once(cards)))
              /\ AfterMove(Tail(tasks))
    BY <1>2, BotTurnCases DEF NextTask
  <2>2. CASE (s \notin Bots \/ phase # "PLAYING" \/ s # current) /\ IgnoreTask
    <3>1. Head(tasks) # TributeTask
      BY <2>1, TaskFacts
    <3>2. Head(tasks) # TurnTask(current) \/ phase # "PLAYING" \/ current \notin Bots
      BY <2>2, TaskFacts
    <3> QED
      BY <1>1, <2>2, <3>1, <3>2, IgnoredTaskKeeps
  <2>3. CASE (Pass(s) \/ \E cards : PlayCards(s, Once(cards))) /\ AfterMove(Tail(tasks))
    BY <1>1, <2>3, AfterMoveKeeps
  <2> QED
    BY <2>1, <2>2, <2>3
<1>3. CASE ExecuteBotTribute
  <2>1. Head(tasks).kind = "tribute"
    BY <1>3, BotTributeCases DEF NextTask
  <2>2. CASE ~HasPendingTribute(phase) /\ IgnoreTask
    <3>1. Head(tasks) # TurnTask(current)
      BY <2>1, TaskFacts
    <3> QED
      BY <1>1, <2>2, <3>1, IgnoredTaskKeeps
  <2>3. ASSUME ScheduleTribute(Tail(tasks)), UNCHANGED roomVars,
               phase \in Trading, phase' \in Trading
        PROVE  RoomInv' /\ ScheduleInv'
    <3>1. current' \in Seat
      BY DEF EngineInv, TypeInv
    <3> QED
      BY <1>1, <2>3, <3>1, AfterTradeKeeps
  <2>4. ASSUME NEW payers, SubmitTributes(payers)
        PROVE  phase \in Trading /\ phase' \in Trading
    BY <2>4 DEF SubmitTributes, Trading
  <2>5. ASSUME NEW card, SomeReturn(card)
        PROVE  phase \in Trading /\ phase' \in Trading
    BY <2>5 DEF SomeReturn, ReturnCardsOf, Trading
  <2>6. HasPendingTribute(phase) /\ UNCHANGED engineVars => phase \in Trading /\ phase' \in Trading
    BY DEF engineVars, vars, HasPendingTribute, Trading
  <2> QED
    BY <1>3, <2>2, <2>3, <2>4, <2>5, <2>6, BotTributeCases
<1> QED
  BY <1>2, <1>3 DEF ExecuteTask

\* After the move of a human the next player is scheduled.
LEMMA HumanMoveKeeps ==
  ASSUME TableInv, HumanMove, EngineInv', TypeRest'
  PROVE  RoomInv' /\ ScheduleInv'
<1>1. tasks \in Seq(Task)
  BY DEF TableInv, ScheduleInv
<1>2. PICK s \in Humans :
          /\ (\E request : PlayCards(s, request)) \/ Pass(s)
          /\ AfterMove(tasks) /\ UNCHANGED expired
  BY DEF HumanMove, HandlePlayCards, HandlePass
<1> QED
  BY <1>1, <1>2, AfterMoveKeeps

\* After a payment or a return of a human the trade or the play is scheduled.
LEMMA HumanTradeKeeps ==
  ASSUME TableInv, HumanTrade, EngineInv'
  PROVE  RoomInv' /\ ScheduleInv'
<1>1. tasks \in Seq(Task) /\ current' \in Seat
  BY DEF TableInv, ScheduleInv, EngineInv, TypeInv
<1>2. /\ ScheduleTribute(tasks) /\ UNCHANGED roomVars /\ UNCHANGED expired
      /\ \E s \in Humans : SubmitTributes({s}) \/ \E c \in hand[s] : SubmitReturn(s, c)
  BY DEF HumanTrade, HandleSubmitTribute, HandleSubmitReturn
<1>3. phase \in Trading /\ phase' \in Trading \cup {"PLAYING"}
  BY <1>2 DEF SubmitTributes, SubmitReturn, ReturnCardsOf, FinalizeTribute, BeginPlaying, Trading
<1> QED
  BY <1>1, <1>2, <1>3, AfterTradeKeeps

\* So every request, task and timer leaves the room attended.
LEMMA TableInvNext == TableInv /\ [TableNext]_tableVars => TableInv'
<1> SUFFICES ASSUME TableInv, [TableNext]_tableVars PROVE TableInv'
  OBVIOUS
<1>1. EngineInv' /\ TypeRest'
  <2>1. EngineInv'
    BY TableStepsEngine, EngineInvStep DEF TableInv
  <2> QED
    BY <2>1, TableStepsEngine, TypeRestStep DEF TableInv
<1>2. CASE \E enabled \in BOOLEAN : HandleSetRoomOptions(enabled)
  BY <1>1, <1>2, SetRoomOptionsKeeps DEF TableInv
<1>3. CASE \E d \in Deals : HandleStartGame(d)
  BY <1>1, <1>3, StartGameAttends DEF TableInv
<1>4. CASE \E s \in Humans : HandleReady(s) \/ HandleUnready(s)
  BY <1>1, <1>4, ReadyKeeps DEF TableInv
<1>5. CASE HumanMove
  BY <1>1, <1>5, HumanMoveKeeps DEF TableInv
<1>6. CASE HumanTrade
  BY <1>1, <1>6, HumanTradeKeeps DEF TableInv
<1>7. CASE Collect \/ RunCallback
  BY <1>1, <1>7, CollectKeeps, RunCallbackKeeps DEF TableInv
<1>8. CASE ExecuteTask
  BY <1>1, <1>8, ExecuteTaskKeeps DEF TableInv
<1>9. CASE UNCHANGED tableVars
  <2>1. UNCHANGED phase /\ UNCHANGED matchWon /\ UNCHANGED current /\ UNCHANGED <<roomVars, scheduleVars>>
    BY <1>9 DEF tableVars, vars, roundVars
  <2>2. RoomInv' /\ ScheduleInv'
    BY <2>1 DEF TableInv, RoomInv, RoomFollowsEngine, ScheduleInv, GameIsAttended, roomVars, scheduleVars
  <2> QED
    BY <1>1, <2>2 DEF TableInv
<1> QED
  BY <1>2, <1>3, <1>4, <1>5, <1>6, <1>7, <1>8, <1>9 DEF TableNext

\* The invariant of the room holds in every state.
LEMMA TableInvAlways == TableSpec => []TableInv
  BY TableInvInit, TableInvNext, PTL DEF TableSpec

-----------------------------------------------------------------------------
(* What the runs check of the table *)

\* The tasks, timers and flags of the room are always those of seats that are
\* there, bots are always ready, and only humans are timed.
THEOREM TableTypeCorrect == TableSpec => []TableTypeOK
<1>1. TableInv => TableTypeOK
  <2> SUFFICES ASSUME TableInv PROVE TableTypeOK
    OBVIOUS
  <2>1. TypeOK
    BY EngineIsTyped DEF TableInv
  <2>2. \A i \in DOMAIN tasks : tasks[i] \in Task
    BY DEF TableInv, ScheduleInv
  <2> QED
    BY <2>1, <2>2 DEF TableInv, RoomInv, ScheduleInv, TableTypeOK, Task
<1> QED
  BY <1>1, TableInvAlways, PTL

\* The phase of the room says of its engine whether a game is on, settled or won,
\* also when the owner starts a game over another one.
THEOREM TableRoomFollowsEngine == TableSpec => []RoomFollowsEngine
<1>1. TableInv => RoomFollowsEngine
  BY DEF TableInv, RoomInv
<1> QED
  BY <1>1, TableInvAlways, PTL

\* However stale tasks, late timers and requests overtake each other, the task of a
\* bot to move is queued, the timer of a turn is that of the player to move, and a
\* phase of tribute has a timer or what its timer has posted.
THEOREM TableGameIsAttended == TableSpec => []GameIsAttended
<1>1. TableInv => GameIsAttended
  BY DEF TableInv, ScheduleInv
<1> QED
  BY <1>1, TableInvAlways, PTL

-----------------------------------------------------------------------------
(* What the run of the engine checks, at a table *)

\* A room keeps its engine in order: the player to move holds cards and the places
\* are given in order, also when games are started over and bots return cards.
THEOREM TableRoundInOrder == TableSpec => []RoundInOrder
  BY RoundIsInOrder, TableInvAlways, PTL DEF TableInv

\* In a room, too, everyone answers once in a trick.
THEOREM TableTrickInOrder == TableSpec => []TrickInOrder
<1>1. TableInv => TrickInOrder
  BY DEF TableInv, EngineInv, TurnInv, TrickInOrder
<1> QED
  BY <1>1, TableInvAlways, PTL

\* Several bots may return cards in one task and a game may be dealt over another
\* one: a card is still in one hand, or has been played.
THEOREM TableCardsInOnePlace ==
  ASSUME MaxCopies = 1
  PROVE  TableSpec => []CardsInOnePlace
<1>1. TableInv => CardsInOnePlace
  BY DEF TableInv, EngineInv, HandsInv, PlayedInv, CardsInOnePlace
<1> QED
  BY <1>1, TableInvAlways, PTL

\* In a room the one whose task or timer is awaited, a bot or not, has a move that
\* the engine accepts.
THEOREM TablePlayIsPossible == TableSpec => []PlayIsPossible
  BY MoverCanPlay, TableInvAlways, PTL DEF TableInv

\* Whichever of the bots and the humans pay and return, and in whatever tasks, the
\* play starts with hands of one size.
THEOREM TableHandsEven ==
  ASSUME EvenDeals
  PROVE  TableSpec => HandsEvenWhenPlayStarts
<1>1. TableInit => CountInv
  BY DEF TableInit, Init, CountInv, Trading
<1>2. TableInv /\ CountInv /\ [TableNext]_tableVars =>
          CountInv' /\ [phase # "PLAYING" /\ phase' = "PLAYING"
                           => \A s, t \in Seat : Cardinality(hand'[s]) = Cardinality(hand'[t])]_vars
  BY TableStepsEngine, CountInvStep DEF TableInv, EvenHands
<1> QED
  BY <1>1, <1>2, TableInvAlways, PTL DEF TableSpec, HandsEvenWhenPlayStarts

\* A room with its restarts is a match: a game that is started over abandons the
\* round that is on, keeps the ladder as it is and never counts.
THEOREM TableImplementsMatch == TableSpec => ImplementsMatch
<1>1. TableInit => Ladder!Init /\ OpenInv
  BY InitIsMatchInit DEF TableInit
<1>2. TableInv /\ TableInv' /\ OpenInv /\ [TableNext]_tableVars => OpenInv' /\ [Ladder!Next]_(Ladder!vars)
  BY TableStepsEngine, OpenInvStep, StepIsMatchStep DEF TableInv
<1> QED
  BY <1>1, <1>2, TableInvAlways, PTL DEF TableSpec, ImplementsMatch, Ladder!Spec
=============================================================================
