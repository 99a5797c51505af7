# A verification project for the guandan game server

Guandan is a shedding game for four players and more in two teams. The server (`src/server`,
C++) keeps accounts and rooms, deals, checks what the players play, trades cards between
rounds and moves the teams up a ladder of levels; clients talk to it over web
sockets and HTTP, and to each other through a voice relay or a forwarding unit. This directory models
the server in TLA+, checks it with TLC and proves parts of it with TLAPS.

To check a run: `tlc -config Engine.cfg MCGameEngine` (the runs and their modules are
in `PROJECT.json`). To check the proofs: `tlapm Rooms_proofs.tla`, and likewise each `*_proofs.tla`.

## The system

| Component | State | Operations | Modelled in |
|---|---|---|---|
| Cards, patterns, comparison (`card.cpp`, `card_analyzer.cpp`, `rule_engine.cpp`) | none | `analyze`, `canBeat` | `CardRules`, checked and proved in `Readings` |
| Bot player (`bot_player.cpp`) | none | `choosePlay` | `CardRules` |
| Turn manager (`turn_manager.cpp`) | none | next player, end of a trick, lead after it | `TurnManager` |
| Ladder and settlement (`team_progress.cpp`, `settlement.cpp`, `finish_rank.cpp`) | levels, pass-A flags and failure counts, attacker, last winner | `prepareNextRound`, `applySettlement`, ranking the players left | `TeamProgress`, `Match` |
| Tribute rules (`tribute.cpp`) | none | who pays whom, with which card; which cards may be returned | `TributeRules` |
| Game engine (`game_engine.cpp`) | the phase, the hands, the trick, the places, the tribute being traded | start, next round, play, pass, pay, return, finalize | `GameEngine` |
| The room at play (`message_dispatcher.cpp`, `room.cpp`) | room phase, ready flags, queue of tasks | the handlers of game requests, the tasks of bots | `Table` |
| Timer thread (`timer_manager.cpp`) | deadlines and callbacks | `schedule`, `cancel`, `tick` | the two timers of `Table` |
| Room membership and dismissal (`room.cpp`, `room_manager.cpp`, `dismiss_vote.cpp`, their handlers) | the registry, members, seats, ready flags, votes | create, join, leave, change seats, get ready, vote, dissolve | `Rooms` |
| Room executor (`room_executor.cpp`, `room_task_queue.cpp`) | queues, the drain flag, worker threads | `post`, `drain`, shutdown | `RoomExecutor`, an implementation of `SerialTasks` |
| Sessions (`session_manager.cpp`) | which connection speaks for which player | connect, log in, resolve, close | `Sessions` |
| Accounts (`auth/`, `user/`, the account requests of `http_server.cpp`) | users, tokens, the file of users | register, log in, pictures, crash, restart | `Accounts` |
| Connections (`websocket_server_asio.cpp`) | handshake, queue of messages, the write under way | send, write, fail, close | `Outbox` |
| Voice relay (`voice/`) | clients and members of voice rooms | join, leave, audio, pruning | `VoiceRelay` |
| Forwarding unit (`webrtc-sfu/`) | peers of voice rooms, forwarded tracks | join, forward, close | `Forwarding` |
| Encoding, views, emotions, LiveKit tokens, utilities, client | | input, output and presentation | not modelled |

**How they interact.** A connection's request arrives on a network thread and finds its player in the session manager. A
request that names a room, whichever there is, or whose player is in one, is queued on that room and handled by a worker thread, one task of a room at a
time; `create_room` and requests without a room are handled at once. A client need not wait for an answer before it sends the next request. The handler finds the room its player is in by then and works on it without a lock.
In a game it calls the engine; if the engine accepts, it goes on to schedule what
comes next: it posts a task for a bot that is to move, sets the turn timer for
a human, sets the timer of the tribute phase, or settles the round and waits for everyone
to get ready. Timers fire on a thread of their own and post tasks to the room. Answers and broadcasts go to the connection of
the session that was bound to a player last, whose strand writes them one by one. Accounts are served over HTTP, a thread to a request;
the voice relay and the forwarding unit are processes of their own that share only the names of rooms and players with the server.

**What is hard.** Tasks and timers outlive the turn they were made for, and a timer that was collected cannot be taken back. The
owner can start a game over at any time, tasks pending. Bots need every step to hand over to
the next one. Payers of a tribute submit in any order and the cards move at the last
submission. The winner of a trick may be out of cards when it ends. Wild cards give
a play several readings. Failures at the top level are counted across rounds. A request waits in a queue while
its player's room changes, and is then at work on a room next to that room's own handler; a leave takes two steps, between which the room may be dissolved, or joined by those who left it; a settlement waits for people who come and go. A
connection closes, or logs in, before the requests it sent have been handled. A save fails, or is cut short, and what is left of the file is read at the next
start. Voice packets are overtaken and lost. `PROJECT.json` lists these hazards line by line with the properties that cover each.

## The modules

A player of a game is its seat, `0 .. PlayerCount - 1`; seats of the same parity are a team.
`PlayersPerTeam` and `PlayerCount` are the room's; `Face` is the deck.

* `CardRules` - the deck's numbering, the ten patterns with wild cards, the
  comparison, the bot's choice. A request is a bag of card ids, because the
  code looks up each listed id by itself and a list may repeat one. Where the result of
  the code depends on the order of a hand (the bot's choice among equally
  cheap plays), any of them may be taken.
* `TurnManager` - the players who are still in are a set of seats; the loops of
  the code that look for the next such player are the nearest seat in the order of play.
* `TeamProgress` - places, the worth of a round, the ladder and its pass-A phase.
* `Match` - the abstract specification of the engine: rounds are started and
  settled in turn, and the settlement alone moves the ladder. A running round may be
  abandoned, since the owner may start over.
* `TributeRules` - which cards are due, who gets them, which may be returned, the
  players excused because the losing side holds the big jokers, the first to play after the trade.
  Of equally good cards any may be chosen, as the order of the hand decides in the code.
* `GameEngine` - one action per request: `SetEnableTribute`, `StartGame`, `StartNextRound`,
  `SubmitTributes`, `SubmitReturn`, `PlayCards`, `Pass`. Each is the handler's
  engine calls as a whole: the last play of a round ranks the remaining players, settles
  and moves the ladder in the same step; the last return of a human opens the play. A
  rejected request changes nothing and is a stuttering step.
* `Table` - the handlers around the engine. Its actions are the requests of the humans, the two kinds of
  task, taken from the queue in order, and the two halves of the timer thread's `tick`: `Collect` takes the timers that are due from the
  map, under its lock, and `RunCallback` posts their tasks later, whatever has been cancelled or set meanwhile.
  `ScheduleTurn`, `ScheduleTribute`, `OnGameOver` are the code's `scheduleTurnTimer`, `scheduleTributeTimer`, `onGameOver`.
* `Rooms` - who is in which room. `listed` and `roomOf` are the registry's two maps, `seatOf`, `ready`, `phase` the
  rooms, `asked` and `agreed` the vote. A thread is a room's queue or a connection, `running` the request whose handler is at work there and `found` the
  room it works on. `Dispatch` puts a request on the queue of any room that it names, of the player's own room, or on its connection, however many are on their way. It then runs in two steps: `Lookup`
  (or `Join`, which looks up and joins under the registry's lock) and what the handler does to the room it has found; handlers on different threads interleave there. `Leave` and
  `RemovePlayerFromRoom` are the two halves of a leave. `GameEnds` stands for the game.
* `SerialTasks` - what a room's queue promises: its tasks run one at a time, in the order of their posts.
* `RoomExecutor` - the threads behind that promise, one action per critical section of `RoomTaskQueue` and `RoomExecutor`: a
  post that sets the flag, the job handed to the workers, the notification after the lock is released, a worker that sleeps,
  takes a job, runs tasks, clears the flag or leaves, and the destructor. A task is the number of its post; a task may post itself. A task
  that throws ends like any other; the one thing a wake-up for nothing could do is to look again.
* `Sessions` - one action per event of a connection; `BeginResolve` and `EndResolve` are the two critical sections of `resolvePlayerId` in the handler of a
  queued request: the session's player is looked for in one and a made-up player bound in the other, with log-ins and the end of the connection in between.
* `Accounts` - a step for each lock that a request takes. `Save` writes the whole file, or a part of it, or nothing, and the request is answered alike; a crash during it leaves any beginning of the file (`Torn`), and
  `Loaded` is what the parser makes of the rest, fields of later records included. `lapsed` are the answers that a stop in a save, or after one that failed, may have undone.
* `Outbox` - the strand of a connection of the Asio server: what is posted to it runs in order, the ends of writes come in between.
* `VoiceRelay` - a turn of the relay's loop is one step, the packet and then `pruneIdle` if it is time; `Tick` lets time pass. Packets may come
  in any order, any number of times or not at all, which is all UDP promises.
* `Forwarding` - an event of a socket runs up to its first `await` before the next; `CloseSocket` removes whatever entry its player has.
* `Readings` - the reference for the analyzer: the readings a request has when every wild
  card stands for any rank but a joker's, and tricks made of patterns that beat each other. Runs have the lengths that the analyzer and its tests
  give them (`Kinds`), which are not those of the guide (see below).
* `MC*` - decks, deals and small worlds for TLC; `MCRules`, `MCThreads` and `MCServices` put components that share no state into one run, in each behaviour of which one of them moves. `*_proofs` - the proofs of the module they are named after; `Clients_proofs` has those of
  `Outbox`, `Accounts` and `Sessions`, `Voice_proofs` those of `VoiceRelay` and `Forwarding`.

`GameEngine` extends `TributeRules`, which brings in the rules below it; `Table` extends
`GameEngine` with every engine action inside a handler. `GameEngine` is
shown to implement `Match` (`ImplementsMatch`, by `INSTANCE Match WITH inRound <- ...`), and so is `Table`, where games are started over one another. `RoomExecutor` implements `SerialTasks`
(`ImplementsSerial`); `Table` and `Rooms` take one task of a room at a time, the oldest first, which is what `SerialTasks` allows.

**Abstractions.** The shuffle is a choice from a set of deals. `stateVersion`, which nothing in the
server reads back, the views sent to clients and all texts are left out. The non-interactive
`resolveRound`, which tests call and the server does not, is left out. Requests of
humans pass through the same queue as tasks; since a request may have been posted before any
task it races with, `Table` lets its handler run between any two tasks instead of queueing it. Who is in the room does not change in `Table`: the owner
is the only human, the other seats are bots, as in a `solo_test_v1` room. In `Rooms` the game is its beginning and its end, which player a connection acts for is fixed, and a
handler acts on its room in one step, or two for a leave: handlers on two threads interleave between these steps, while a data race inside one is undefined and not modelled. A name in `Accounts` is one that comes out of the
file as it went in.

## The runs

Each property has a mutant in `PROJECT.json`: a plausible bug in one definition that makes the
run fail. Operators named "Mutant of ..." in the modules are those bugs and nothing else uses them.

| Run | What it explores | Bounds, and why they suffice |
|---|---|---|
| `rules` (`Rules.cfg`) | every request of up to six of thirteen cards, two of them wild, against the reference, and every trick of three plays; every ladder four players can reach | six cards reach every kind of pattern; a bomb of six uses both wild cards; three plays are what transitivity takes. The ladder has no bounds: levels, flags and failure counts of both teams, every possible worth of a round |
| `engine` (`Engine.cfg`) | every play and pass of the first round and, after every outcome of it, the trade before the second, in 24 deals of each | two cards a player, so that a player finishes in one or two plays and every order of finishing, a trick won by a player who goes out, a lead taken over by a partner, and pairs with a wild card all happen. Single and double tribute, with and without the big jokers that excuse from it, equal cards of two payers, hands without a card up to ten. No deal has card 0 or gives a player wild cards only: with those the trade may wait for ever (`tribute_card_zero`, `tribute_wild_hand`). The second round is not played: it would repeat the first |
| `table` (`Table.cfg`) | a human owner and three bots: requests, tasks and the timer thread in any order | two rounds and two starts, so that a game is restarted with tasks and collected timers of the old one pending; the queue needs no bound |
| `threads` (`Threads.cfg`) | the threads of the executor with two rooms; the strand of a connection | two workers and two posting threads, so that a post crosses a drain and a worker sleeps while another is busy; three posts to each room, from outside or from a task, so that a flag is set, cleared and set again. Four messages for the connection: one is written while others are in the queue, on the strand and not yet sent |
| `rooms` (`Rooms.cfg`) | two rooms of two seats. Three casts (`AllCasts`): two players who come, go, get ready, change seats and start games in one room, with bots and without (`Rounds`); three players who come, go and vote in one room (`Votes`); in both, a second room whose owner stays there lends its queue. Two players who come, go and vote in two rooms alike (`Moves`) | two requests on their way at a time (`MaxWaiting`), of one player or of two, on one thread or on two, so that each handler meets one of another thread at every step; three players for two seats, so that one leaves and another takes the place. Each room is created once: an id is not given twice. The casts are apart because votes and ready flags touch nothing in common; players and rooms are symmetric |
| `services` (`Services.cfg`) | accounts, sessions, the voice relay and the forwarding unit, one at a time | `Accounts`: two clients, two names, three ids, two users at a time and two tokens: a user is lost in a crash and another comes. `Sessions`: three connections, a registered user whose id is also made up for the first connection and one whose id is not made up for any; two bindings of each, one queued request of each connection. `VoiceRelay`: two users, rooms and addresses; silence is allowed for three units of time and a sweep comes every two, so that a user can be spared by one sweep and go with the next. `Forwarding`: three sockets for two players, two rooms |

What the passing runs show:

* **Rounds and turns.** Nobody waits for a player who cannot act and places are given once each, from the first (`RoundInOrder`); in a trick everyone answers
  exactly once, also when the player who is to be beaten has gone out, and there is a play to
  beat exactly when somebody has played (`TrickInOrder`); the lead stays with the winner of the trick
  or, if they are out, with their team (`LeadStaysInTeam`); a round that is dealt is settled (`RoundsEnd`).
* **Cards.** A card is in one hand or played, whatever was traded (`CardsInOnePlace`), and none is lost in the trade (`HandsEvenWhenPlayStarts`).
* **Tribute.** The higher card goes to the
  better place, there is always somebody to wait for, and payers and returners alike have a
  card to give (`TradeInOrder`); the trade ends (`TradeEnds`). Both of deals without card 0 and without hands of wild cards only, where
  `tribute_card_zero` and `tribute_wild_hand` show the opposite.
* **Ladder.** The pass-A flag agrees with the level (`LadderConsistent`), levels fall only by a third failure, reaching level A
  does not win (`LadderMoves`), a match is won at level A (`MatchWonAtLevelA`), the winner attacks (`WinnerAttacks`), and the engine moves the ladder in no other way (`ImplementsMatch`).
* **A room at play.** The room and the engine agree on what is going on although either may be changed alone
  (`RoomFollowsEngine`); a bot that is to move has its task queued, a turn timer is never that of
  somebody else, a tribute phase has a timer or a task (`GameIsAttended`); bots never hold up a game
  (`BotsKeepPlaying`), whatever a cancelled timer still posts; a game that is started over abandons its round and leaves the ladder as it is (`ImplementsMatch`).
* **Rooms.** Nobody stays mapped to a room that is gone or that they are not in, unless they are just leaving it (`MappedAreThere`), so nobody is kept out of
  every other room; members have seats of their own (`SeatsDistinct`); a settlement with everyone ready is over (`SettlementWaits`); a room is not taken from
  people who were asked and have not agreed (`DissolvedByConsent`). All of this whatever queues the requests are on. What does depend on the queues is false: that a room is worked on by one thread (`rooms_overlap`), that a member is mapped
  to the room they are in, and that an empty room goes (see the surprises below).
* **Tasks.** The flag of a room stands for exactly one thread or job that will drain it (`OneDrainer`), so tasks run in order and one at a time (`ImplementsSerial`);
  all of them run (`PostedTasksRun`), also when the executor is being destroyed (`ShutdownDrains`).
  The latter is about the executor alone: `main` destroys the dispatcher, the sessions and the rooms, which tasks use, before it (`main.cpp:73-78`), so it promises little for the end of the server.
* **Patterns.** The analyzer takes a request for one of its readings (`TakenIsAReading`), misses none and prefers bombs and straight flushes (`NoReadingMissed`), with the lengths of runs that `Kinds` lists; a trick cannot go round in circles (`TrickClimbs`).
* **Accounts.** Ids and names stay distinct after any crash (`UsersDistinct`); what was answered is kept, unless the process stopped in a save or after one that had failed (`PromisesKept`).
* **Sessions and connections.** Who logs in is reached on the connection where they did so last, whatever older connections and late requests do; only the connection whose made-up id a user has may take them over (`LogInIsReached`).
  The Asio server writes messages in the order they were sent, once each, one write at a time, and a close comes after them (`SentInOrder`), and none is left in the queue of a live connection (`SentIsWritten`).
* **Voice.** The relay's tables agree and nobody hears another room (`VoiceRoomsAgree`); silent users go (`SilentUsersGo`); the forwarding unit lists only peers that can be spoken to (`ListedPeersLive`).

**Fairness.** `engine` assumes that players go on playing or passing (`WF(Move)`) and that
they go on trading (`WF(Trade)`): it asks whether the engine always leaves them something to do. `table`
assumes nothing of the players: it is fair to the tasks, which the worker threads take
from the queue, and to both halves of the timer thread's `tick`.
`threads` assumes that threads go on with what they have begun and that tasks end, never that anybody posts, that the server's threads run what is posted to a strand, and that a write ends, well or not, because a
stream that makes no progress is timed out. `rules`, `rooms` and `services` assume nothing. `rules`, `table`, `rooms` and `services` do not check for deadlock: a room may really be at rest (a match that is over, nobody getting ready), nobody
need ask for anything, and a trick, a request or a service ends at its bound. In `engine` the end of the last trade, and in `threads` a connection at rest, is a
stuttering step, so that any other stop is reported.

### Where the code disagrees

Six runs end in a violation, each a disagreement between the code and what the repository says of it (quoted in `PROJECT.json`):

* `tribute_card_zero` - the card with id 0, the two of spades of the first deck, cannot be returned, since 0
  also means "no card". If it is the only card a player may return, the game waits for ever. The deals of `engine` leave card 0 out.
* `tribute_wild_hand` - a payer who holds wild cards only has no card that is due: `pickBestTributeCard` leaves wild cards out and yields 0, which `submitTribute` refuses (`game_engine.cpp:221`). Nobody
  calls `finalizeTributePhase` before the last return, so the trade waits for ever. The deck has two wild cards and a room may have two cards a player, as the one of `engine` has; its deals leave such hands out.
* `table_timeout` - the turn of a human player does not pass on the expiry of their timer; the task it posts is for bots only.
* `table_returns` - when the last card of a trade is returned by a bot, the play does not start and the
  tribute timer goes round for ever. This is why `table` states no liveness for the trade.
* `rooms_overlap` - a player changes rooms while another request of theirs waits in a queue; that request then runs on one room's
  thread and works on another room, next to the other room's own handler. One connection is enough, as a client need not wait for its answers.
* `avatars` - after a restart a user without a picture has that of a later user in the file.

Further disagreements and surprises that were met on the way, kept out of the runs by the assumptions named above or without a property of their own:

* A request that lists a card twice passes `Hand::contains`, is taken for a pair, and its cards stay in the hand, because `Hand::remove` gives up and its result is not read (`hand.cpp:20-39`). The runs send each card once.
* The guide gives other lengths than the analyzer: a straight of five cards or more without a 2 (`docs/game_rules.md:43`), three pairs or more, two triples or more, a straight flush of five or more (44-46). The analyzer
  takes five cards, three pairs and two triples exactly, so a flush of six is refused, and it takes A-2-3-4-5 for a straight, as its own test says (`test_analyze_straight_a2345`, `tests/test_card_analyzer.cpp:96`). `Kinds` follows the
  code and its tests: `TakenIsAReading` and `NoReadingMissed` do not compare the lengths with the guide's.
* The guide lets only bombs beat other kinds (`game_rules.md:55`) where a straight flush does so too, compares level cards by their usual rank (56) where the code puts them above the ace, and has no tribute (79).
* A wild card completes a joker to a pair, a triple or a bomb, which `docs/game_rules.md:32` excludes. `TakenIsAReading` leaves those requests out.
* In the six-player game, with three decks, two cards of one suit and three wild ones are taken for a triple with a pair although they can be a straight flush, because `analyzeTripleWithPair` is tried first
  (`card_analyzer.cpp:472-477`). The decks of the other modes hold two wild cards, as that of `rules` does, and then it cannot happen (`NoRequestIsMissed` below).
* The function that answers a queued request refers to a parameter of a handler that has returned (`main.cpp:110-113`); broadcasts do not go through it.
* A leave has two steps, and a player may leave one room twice, by requests on two queues. The first leave takes them out of the room; if they join another room before the second one comes to `removePlayerFromRoom`, that one erases the mapping to
  the new room and erases the new room only if it is empty by then (`room_manager.cpp:80-89`). The player stays a member of a room that the registry does not know them to be in, can join a third one, and is counted when the
  room's emptiness is asked for; whoever is in such a room cannot leave it, and a leave that had found the room before empties it without erasing it, so that an empty room stays listed. The comment in `room_manager.h:29` leaves
  empty rooms to the caller; the code erases them itself, when it does.
* A vote waits for everyone who was there when it began: who has left blocks it, who has come since is not asked.
* A room of bots is not erased when its owner leaves. A room keeps itself alive through its own broadcast function (`message_dispatcher.cpp:183-188`), and its tribute timer outlives it (`dissolveRoom` cancels the other one only).
* Whoever leaves during a game is still waited for by the engine, and a member who comes in `PLAYING` or `FINISHED` cannot get ready; someone who comes back may get another seat than the engine knows.
* `login` reads the phase of a room on the network thread.
* A request without a log-in gets the id 10000 + `sessionId` (`session_manager.cpp:86`), and registered users get ids from 10001 on (`user_store.cpp:93`). So a request without a log-in, or a late request of a connection that has closed, takes
  over the messages of the user with that id, and its end leaves the user without any.
* `resolvePlayerId` looks for the session's player without a lock and binds a made-up one later (`message_dispatcher.cpp:149-152`): a log-in in between is overwritten on its own connection, though the user is still reached there, and the entry stays when that connection closes.
* `save` only logs that the file could not be opened (`user_store.cpp:171-176`), and the request is answered with success: the new account or picture is gone after an ordinary restart, unless a later save succeeds.
* Of two connections of one player the older one is never reached again, also after the newer one has closed; `bindGeneration` is kept and not used.
* A connection whose handshake fails stays listed, and the end of a write that crosses `onClosed` pops an empty queue (`websocket_server_asio.cpp:132`).
* Nicknames with quotes or backslashes do not come out of the file as they went in. `revokeAllForUser` takes no lock, and nothing calls it.
* In the forwarding unit, who joins late gets no tracks of those already there, and a second join over one socket leaves the first entry behind; the client joins once.

## The proofs

TLC looks at a few players, cards and rooms; the theorems hold for all values of the constants.

**`Match_proofs`** assumes what the module does of its constants: two players per team or more (`PlayersPerTeamAssumption`). `MatchInv`, the
inductive invariant, is `LadderConsistent` with the types that it includes, `WinnerAttacks` and `MatchWonAtLevelA` together. They need each other:
that a won match was won at level A follows only because the pass-A flag, which the code tests, agrees with the level, and the
action properties need it too, because a team at level A outside the pass-A phase could climb or fall. One lemma each shows what `PrepareNextRound`, `FailPassA`,
`Climb` and `ApplySettlement` preserve; `MatchInvNext` goes through the actions. It gives `MatchTypeCorrect`, `MatchLadderConsistent`, `MatchWinnerAttacks`, `MatchWonAtA`
and the action properties `WonFromLevelA` and `LevelsFallRarely`. The latter holds for up to six players per team. Above that the worth of a round, a base
less the winners' ranks, may be nothing or less; the modes that `RoomConfig::fromModeName` knows have two or three.

**`Readings_proofs`** is about any deck, any levels and requests and tricks of any size. Its first part shows that beating is a strict order on patterns, by giving each pattern a tier (ordinary, bombs and straight flushes, joker bombs) in
which the kinds are compared: `BeatsTransitive` and `BeatsAsymmetric` hold for all ranks and lengths. `AnalyzeYieldsPatterns` goes through the kinds that the analyzer tries and shows that each yields a pattern or nothing, and `TricksClimb` lifts the order to tricks.
The second part compares the analyzer, which counts natural cards and wild ones, with the readings, in which every wild card is told what to stand for. One lemma carries it: if there are as many places as cards, and for each rank enough places
for the natural cards of that rank, then the wild cards can take the others (`PlacesAreFilled`, by injecting the natural cards of each rank into its places and counting what is left; `CountsAreReached` puts it in terms of ranks). So whatever passes the tests of
the analyzer is a reading: one lemma a kind (`JokersAreRead`, `SameRankIsRead`, `BombIsRead`, `TripleWithPairIsRead`, `RunKindIsRead`, `StraightsAreRead`) and, for cards without a joker next to a wild card, `AnalyzeReads`, from which `RequestsAreRead` states the property
of the run. In the other direction a reading counts each natural card (`CountsCover`), so the tests let it pass (`OneRankAccepted`, `TripleWithPairAccepted`, `RunFits`, `JokersAccepted`) and nothing that is tried earlier hides a bomb: `AnalyzeMissesNothing`. A straight flush
could be hidden by a bomb or by a triple with a pair. With two wild cards at most it is not, since three natural cards of a run have three ranks (`FlushIsTaken`); hence the assumption `TwoWildCards` of `NoRequestIsMissed`, which two decks meet.

**`GameEngine_proofs`** covers any deck, any deals that give everybody a card, any bags of cards in the requests and any even table of two players per team or more, from the assumptions that the modules name
(`FaceAssumption`, `DealsAssumption`, `BoundsAssumption`, `PlayersPerTeamAssumption`). None of the properties is inductive alone, and `EngineInv` adds what they rest on. `PlacesInv`: the places given are
the first ones, once each, both teams have somebody left, and a trade goes by a ranking of everybody. `TurnInv`: the one to move has no place yet and nothing has been played before the play. `PayInv`: who still
owes a tribute has the card it will be paid with. `ReturnInv`: the tributes go from different payers to different and better places. `HandsInv`: who is to return a card has another one besides
the tribute, and only a payer who is still waiting for a card may have none, so that the play starts with cards in every hand. Three arguments carry the steps. *Counting positions* (`PositionsCount`: in a finite total order the numbers of those
before each count up from nothing) gives the ranking of the players left (`RankRemainingRanks`), the receivers of tributes (`TributesAssigned`) and the existence of least elements, without induction. *Going round the table* (`DistanceOnwards`,
`PassCounts`): between a player who passes and the next to move there is nobody else with cards, and when the round would go past the last to play, everyone has answered, so the trick has ended. *Moving cards* (`TransferKeepsApart`): cards that
leave different hands neither double nor get lost. The theorems are `EngineTypeOK`, `EngineRoundInOrder`, `EngineTrickInOrder`, `EngineLeadStaysInTeam`, `EngineCardsInOnePlace` (if no request lists a card twice, `MaxCopies = 1`), `EngineTradeInOrder` (if the deck has no card 0
and no hand is dealt that has hearts of one rank only, `PayableDeals`; `tribute_card_zero` and `tribute_wild_hand` show that it needs both) and the refinement `EngineImplementsMatch`, for which `WorthOfRound` shows that the ranking of a settled round is worth no more and no less than `Match` allows.
`EngineHandsEven` assumes that the deals are even (`EvenDeals`, which `Deck::deal` sees to) and needs a count that every payment and return keeps: of the cards that a hand will have when all returns that are due from it or to it have been made (`CountWhenSettled`, `CountInv`).
The last part is about getting on. Who is to move can (`EnginePlayIsPossible`: a single card is a pattern, and leads). A round comes nearer to its end with every step (`EngineRoundsGoOn`, again with `MaxCopies = 1`, since a card listed twice stays in the hand): either cards leave the hands,
or the trick waits for one answer less of those it waits for (`Awaited`, which `EveryoneAnswersOnce` keeps between nothing and the number of the others). A trade comes nearer to its end with every card given (`EngineTradesGoOn`).
The steps are those of `EngineStep`, which allows more than the engine's own specification: a game dealt over another one, and several returns at once without the play beginning. `TradeWaits`, which those two break, is kept apart. So the same lemmas serve a room.

**`Table_proofs`** covers any seats for the bots, any deck and any even table, from the same assumptions and `BotsAssumption`. `TableStepsEngine` shows that whatever a handler or a task does to the engine is an `EngineStep`; so `EngineInv` is a part of `TableInv`, and `TableRoundInOrder`,
`TableTrickInOrder`, `TableCardsInOnePlace`, `TablePlayIsPossible`, `TableHandsEven` and the refinement `TableImplementsMatch` say of a room what was shown of its engine. The rest of `TableInv` is about the room: `RoomInv`, that its phase is what the engine's says, and `ScheduleInv`, that
the queue and the timers hold tasks of seats there are, that of the bot to move or the timer of the human to move among them. Taking a task from the queue removes one copy only, and whoever moves the turn schedules the next; what a stale task or
a collected timer does besides is to schedule what is scheduled already. This gives `TableTypeCorrect`, `TableRoomFollowsEngine` and `TableGameIsAttended`.

**`RoomExecutor_proofs`** covers any number of rooms, threads and posts, from `ThreadsAssumption` (there is a worker, workers are not the posting
threads). `DrainInv` says that a room without the flag has no tasks and nobody to drain it, that one with the flag has a hander, a job or a drainer, and never two:
the three need each other, because a worker may clear the flag only if it is the last, and a post may set it only if there is nobody. One lemma per action that moves a
claim from one to the next gives `ExecutorOneDrainer`. With it a running task is that of the one drainer, so each step is a step of the abstract queues or a stutter
(`ExecutorImplementsSerial`). `ShutdownInv` adds that after the stop only running tasks post and that the workers are never all gone while a job waits: `ExecutorShutdownDrains`.
`WakeInv` and `NotifyInv` are about the condition variable, for any finite number of workers: as long as one sleeps, those on their way to the jobs and the threads about to wake one are together as many as the jobs (`ExecutorNoWakeUpLost`).
It is inductive because a thread notifies of one job before it hands over the next, and a worker sleeps only when it has seen that there is none. With `ShutdownInv` a job always has somebody who will see it: `ExecutorJobsAreSeen`.

**`Rooms_proofs`** covers any players (finitely many), connections, rooms, capacity and requests on their way, on whatever queues. `RoomsInv` has three parts. `ThreadInv` is about the handlers: one between its steps has found a room that was
created. `MemberInv` says who is where: `WhoIsWhere` is `MappedAreThere` for one player and one room at a time, `UncreatedIsBlank` is needed because a created room must not come with members, `ReadyAreMembers` because who leaves must not be counted as
ready later. `WhoIsWhere` is inductive because a leave that takes a mapped member out of the room goes on to erase the mapping, a room is only erased from the list when it is empty or together with its members' mappings, and the mapping of a
player can be overwritten only by a join, which makes them a member. The converse, that a member is mapped, is false. `SettlementWaits` takes counting: as seats are distinct and those of a solo room but one
are taken by bots, who leaves a full room makes a seat free (`SeatsSuffice`, `LeavingMakesRoom`), so that a room that is full and ready has become so by the request of the last to get ready. The theorems are `RoomsMappedAreThere`,
`RoomsSeatsDistinct`, `RoomsSettlementWaits` and the action property `RoomsDissolvedByConsent`.

**`Clients_proofs`** is about what the server keeps of those it serves. *Connections* (`OutboxSentInOrder`, any number of messages): `WritingIsBusy`, the flag of the strand is set exactly while its queue holds something, is what a send
relies on when it leaves the next write to the end of the one before. *Accounts* (any clients, names and bounds): `StoreInv` relates the file and the memory, which agree while the server runs unless the last save failed, and says that both have distinct ids and names, that the memory has what was promised and the file what was promised and has not lapsed; `RequestInv` says of each request between its locks whose account it is about, which must be there still when it goes on. What a crash leaves of a file of distinct users is one, too (`TornIsDistinct`), and `load`, which finds fields of later records, loses no user and no picture that was promised (`LoadedCarries`). `AccountsUsersDistinct` needs nothing of the crashes, `AccountsPromisesKept` that no stop came in a save or after one that failed; the answer is given alike when a save fails. *Sessions* (`SessionsLogInIsReached`, any connections, users and bounds): `LogInIsReached` is inductive with `NoneLoggedInBefore`, that
nobody has logged in on a connection that is still to come, since an open connection is then one whose log-in came before its end. Three events write a user's entry: a log-in, which moves them; the end of a connection, which erases the entry only if it is its own; and a
late binding, whose made-up id is a user's in the excepted case only.

**`Voice_proofs`**: the relay keeps who is in a room twice, and each packet and each sweep must change both tables alike: `VoiceRoomsAlwaysAgree`. That silent
users go (`SilentUsersAlwaysGo`) is about the two periods together: a user that the last sweep spared has been silent for no longer than `MaxIdle` and the time since that sweep. In the forwarding unit
an entry stays live because a close takes the entry of the *player*, whichever socket made it: the old socket's close closes the new one's peer connection too, and what is
closed is never listed again since its socket has joined already. `ListedPeersAlwaysLive` is for any sockets, players and rooms.

**Only model-checked:** liveness (`RoundsEnd`, `TradeEnds`, `BotsKeepPlaying`, `PostedTasksRun`, `SentIsWritten`). Every invariant and every action property that a passing run checks is stated by a theorem. What is
proved is safety: fairness, `ENABLED` and what recursive definitions compute are out of the prover's reach. Of `RoundsEnd`, `TradeEnds` and `PostedTasksRun` the parts that are about single states and steps are theorems all the same,
for any number of players, cards and workers: that somebody can act, that each step comes nearer to the end, and that a waiting job has somebody to see it. What is left to TLC is the conclusion from fairness.

## Not modelled, and why

* **Parts of modelled components:** spectators and profiles of a room (they change what is shown only); snapshots of a game and views; `resolveRound`, `createSession`, `updateStats`, `revokeToken`, which the server does not call;
  the web socket server without Asio, which is the one built by default (`GUANDAN_ENABLE_BOOST` is off): it has a thread per connection and no queue, and calls `send` once, outside the lock and not in a loop (`connection_manager.cpp:65-74`), so that
  a frame may be cut short; `SentInOrder` and `SentIsWritten` say nothing of it; the order in which `main` destroys what tasks may still use; the negotiation of a peer connection, which is between it and the browser.
* **A game with people who come and go:** `Table` has one human who stays, `Rooms` has the game as its beginning and its end. The composition of the two is beyond TLC at sizes where both do something; what the code does there is in the list of surprises above.
* **The tribute timer of a dissolved room:** it reaches nothing but the room itself.
* **The function that answers queued requests** (`main.cpp:111`): what it does is undefined, and a model could only let answers go anywhere.
* **Encoding, views, emotions, LiveKit tokens, hashing, logging, configuration and the client's presentation,** which have little state of their own and none that another component depends on.
