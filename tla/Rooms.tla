-------------------------------- MODULE Rooms --------------------------------
(***************************************************************************)
(* The rooms of the server: the registry (room_manager.cpp), the members,    *)
(* seats and ready flags of each room (room.cpp), the vote to dismiss it     *)
(* (dismiss_vote.cpp), and the way a request takes to its handler            *)
(* (message_dispatcher.cpp).  A request is posted to the queue of the room   *)
(* it names, or of the room its player is in; without either its connection  *)
(* handles it at once.  Whatever the queue, the handler then looks up the    *)
(* room its player is in by then, and works on that one.                    *)
(*                                                                         *)
(* The registry's methods are atomic: they hold its lock.  A room has no     *)
(* lock; a queue runs one request at a time, and a handler has two steps, so *)
(* that handlers on different threads interleave: it looks its room up, and  *)
(* it acts on it.  What the game does to the room is GameEnds; Table has the *)
(* details.  Which player a connection acts for is fixed here (Sessions has  *)
(* how it comes about and changes).                                        *)
(*                                                                         *)
(* A room's id is drawn anew until no room has it; here an id is never used  *)
(* a second time, so a room and its id are the same.  A room that has left   *)
(* the registry stays in memory, and who has found it still acts on it.      *)
(***************************************************************************)
EXTENDS Integers, FiniteSets, Sequences

CONSTANTS
    Player,
    Session,      \* the connections
    PlayerOf,     \* [connection -> its player]
    Room,         \* bounds the rooms ever created
    Capacity,     \* RoomConfig::maxPlayers
    MaxWaiting,   \* bound on the requests on their way at a time
    NoPlayer, NoTask, NoRoom

ASSUME SessionsAssumption == PlayerOf \in [Session -> Player] /\ Room \cap Session = {}
ASSUME RoomsAssumption == NoRoom \notin Room /\ NoPlayer \notin Player
ASSUME PlayersAssumption == IsFiniteSet(Player)
ASSUME CapacityAssumption == Capacity \in Nat \ {0} /\ MaxWaiting \in Nat

VARIABLES
    listed,       \* RoomManager::rooms_
    roomOf,       \* playerRoomMap_: [player -> room]
    created,      \* the rooms there have ever been
    owner,        \* [room -> player]
    solo,         \* the rooms of mode SOLO, which bots fill
    seatOf,       \* [room -> [player -> seat]]: players_, the bots apart
    ready,        \* [room -> the players whose isReady is set]
    phase,        \* [room -> RoomPhase]
    asked,        \* [room -> the entries of its vote], empty if none is active
    agreed,       \* [room -> those who have agreed]
    queue,        \* [thread -> the requests that wait there]
    running,      \* [thread -> the request whose handler has found its room]
    found,        \* [thread -> the room that handler works on]
    unmapping     \* the threads whose handler is between the two steps of a leave

registryVars == <<listed, roomOf, created>>
roomVars == <<owner, solo, seatOf, ready, phase>>
voteVars == <<asked, agreed>>
threadVars == <<running, found, unmapping>>
vars == <<registryVars, roomVars, voteVars, queue, threadVars>>

Seat == 0..(Capacity - 1)
NoSeat == -1

Requests ==
    [kind : {"join"}, room : Room]
        \cup [kind : {"leave", "ready", "unready", "start_game", "request_dismiss"}]
        \cup [kind : {"change_seat"}, seat : Seat]
        \cup [kind : {"vote_dismiss"}, agree : BOOLEAN]
Task == [from : Session, req : Requests]

ASSUME TaskAssumption == NoTask \notin Task

\* A room's queue is worked off by one worker at a time (RoomExecutor); a
\* connection handles what reaches no queue before it reads on.
Thread == Room \cup Session

Init ==
    /\ listed = {}
    /\ roomOf = [p \in Player |-> NoRoom]
    /\ created = {}
    /\ owner = [r \in Room |-> NoPlayer]
    /\ solo = {}
    /\ seatOf = [r \in Room |-> [p \in Player |-> NoSeat]]
    /\ ready = [r \in Room |-> {}]
    /\ phase = [r \in Room |-> "WAITING"]
    /\ asked = [r \in Room |-> {}]
    /\ agreed = [r \in Room |-> {}]
    /\ queue = [t \in Thread |-> << >>]
    /\ running = [t \in Thread |-> NoTask]
    /\ found = [t \in Thread |-> NoRoom]
    /\ unmapping = {}

-----------------------------------------------------------------------------
(* A room *)

Humans(r) == {p \in Player : seatOf[r][p] # NoSeat}

\* fillBots gives the bots every seat but the owner's; they never move.
BotSeats(r) == IF r \in solo THEN Seat \ {0} ELSE {}

Taken(r) == BotSeats(r) \cup {seatOf[r][p] : p \in Humans(r)}

IsFull(r) == Cardinality(BotSeats(r)) + Cardinality(Humans(r)) >= Capacity
IsEmpty(r) == Humans(r) = {} /\ BotSeats(r) = {}

\* Mutant of IsFirstEmptySeat: the seats are taken to be filled in order.
IsSeatAfterLast(r, n) == n = Cardinality(Taken(r))

IsFirstEmptySeat(r, n) ==
    n \in Seat \ Taken(r) /\ \A m \in Seat \ Taken(r) : n <= m

AllReady(r) == IsFull(r) /\ Humans(r) \subseteq ready[r]

ReadyPhases == {"WAITING", "SETTLEMENT"}

-----------------------------------------------------------------------------
(* Requests on their way.  A client need not wait for an answer before it     *)
(* sends the next request, and may name any room.                           *)

RoomWithPlayer(p) == IF roomOf[p] \in listed THEN roomOf[p] ELSE NoRoom

IsFree(t) == queue[t] = << >> /\ running[t] = NoTask

\* The requests on their way, queued or with a handler.
Waiting ==
    {t \in Thread : running[t] # NoTask}
        \cup UNION {{<<t, i>> : i \in DOMAIN queue[t]} : t \in Thread}

\* handleCreateRoom runs at once, on the connection's thread.
HandleCreateRoom(s, mode) ==
    LET p == PlayerOf[s] IN
    /\ IsFree(s)
    /\ roomOf[p] = NoRoom
    /\ \E r \in Room :
        /\ r \notin created
        /\ created' = created \cup {r}
        /\ listed' = listed \cup {r}
        /\ roomOf' = [roomOf EXCEPT ![p] = r]
        /\ owner' = [owner EXCEPT ![r] = p]
        /\ solo' = IF mode = "solo" THEN solo \cup {r} ELSE solo
        /\ seatOf' = [seatOf EXCEPT ![r][p] = 0]
    /\ UNCHANGED <<ready, phase, voteVars, queue, threadVars>>

ResolveRoomForDispatch(p, named) ==
    IF named \in listed THEN named ELSE RoomWithPlayer(p)

\* dispatch, postRoomMessage.
Dispatch(s, q, named) ==
    LET room == ResolveRoomForDispatch(PlayerOf[s], named)
        t == IF room = NoRoom THEN s ELSE room
    IN
    /\ IsFree(s) /\ Cardinality(Waiting) < MaxWaiting
    /\ q.kind = "join" => q.room = named
    /\ queue' = [queue EXCEPT ![t] = Append(@, [from |-> s, req |-> q])]
    /\ UNCHANGED <<registryVars, roomVars, voteVars, threadVars>>

-----------------------------------------------------------------------------
(* The first step of a handler, on thread t *)

Takes(t) ==
    /\ running[t] = NoTask /\ queue[t] # << >>
    /\ queue' = [queue EXCEPT ![t] = Tail(@)]

WorksOn(t, room) ==
    /\ running' = [running EXCEPT ![t] = Head(queue[t])]
    /\ found' = [found EXCEPT ![t] = room]

\* findRoomByPlayer.
Lookup(t) ==
    /\ Takes(t)
    /\ Head(queue[t]).req.kind # "join"
    /\ LET room == RoomWithPlayer(PlayerOf[Head(queue[t]).from]) IN
           IF room = NoRoom THEN UNCHANGED <<running, found>> ELSE WorksOn(t, room)
    /\ UNCHANGED <<registryVars, roomVars, voteVars, unmapping>>

\* joinRoom: Room::join under the registry's lock.
Join(t) ==
    /\ Takes(t)
    /\ Head(queue[t]).req.kind = "join"
    /\ LET p == PlayerOf[Head(queue[t]).from]
           room == Head(queue[t]).req.room
       IN  IF roomOf[p] # NoRoom \/ room \notin listed \/ IsFull(room) \/ p \in Humans(room)
           THEN UNCHANGED <<running, found, roomOf, seatOf>>
           ELSE /\ \E n \in Seat :
                       /\ IsFirstEmptySeat(room, n)
                       /\ seatOf' = [seatOf EXCEPT ![room][p] = n]
                /\ roomOf' = [roomOf EXCEPT ![p] = room]
                /\ WorksOn(t, room)
    /\ UNCHANGED <<listed, created, owner, solo, ready, phase, voteVars, unmapping>>

-----------------------------------------------------------------------------
(* The second step: the handler acts on the room it has found *)

\* The handler on thread t, for a request of this kind.
Handles(t, kind) ==
    running[t] # NoTask /\ t \notin unmapping /\ running[t].req.kind = kind

Asker(t) == PlayerOf[running[t].from]

Return(t) ==
    /\ running' = [running EXCEPT ![t] = NoTask]
    /\ found' = [found EXCEPT ![t] = NoRoom]
    /\ UNCHANGED queue

\* The rest of handleJoinRoom tells the members of the room.
TellMembers(t) ==
    /\ Handles(t, "join")
    /\ Return(t)
    /\ UNCHANGED <<registryVars, roomVars, voteVars, unmapping>>

\* handleLeaveRoom: Room::leave, in any phase; the vote is not told.
Leave(t) ==
    /\ Handles(t, "leave")
    /\ seatOf' = [seatOf EXCEPT ![found[t]][Asker(t)] = NoSeat]
    /\ ready' = [ready EXCEPT ![found[t]] = @ \ {Asker(t)}]
    /\ unmapping' = unmapping \cup {t}
    /\ UNCHANGED <<registryVars, owner, solo, phase, voteVars, queue, running, found>>

\* removePlayerFromRoom: whatever room its player is mapped to by now, which
\* goes if nobody is in it.
RemovePlayerFromRoom(t) ==
    LET room == roomOf[Asker(t)] IN
    /\ t \in unmapping
    /\ listed' = IF room \in listed /\ IsEmpty(room) THEN listed \ {room} ELSE listed
    /\ roomOf' = [roomOf EXCEPT ![Asker(t)] = NoRoom]
    /\ unmapping' = unmapping \ {t}
    /\ Return(t)
    /\ UNCHANGED <<created, roomVars, voteVars>>

\* Mutant of HandleReady: nobody starts the next round.
HandleReadyOnly(t) ==
    LET r == found[t] IN
    /\ Handles(t, "ready")
    /\ ready' = IF phase[r] \in ReadyPhases /\ Asker(t) \in Humans(r)
                THEN [ready EXCEPT ![r] = @ \cup {Asker(t)}] ELSE ready
    /\ Return(t)
    /\ UNCHANGED <<registryVars, owner, solo, seatOf, phase, voteVars, unmapping>>

\* Room::ready and tryStartNextRound.
HandleReady(t) ==
    LET r == found[t] IN
    /\ Handles(t, "ready")
    /\ ready' = IF phase[r] \in ReadyPhases /\ Asker(t) \in Humans(r)
                THEN [ready EXCEPT ![r] = @ \cup {Asker(t)}] ELSE ready
    /\ phase' = IF phase[r] = "SETTLEMENT" /\ IsFull(r) /\ Humans(r) \subseteq ready'[r]
                THEN [phase EXCEPT ![r] = "PLAYING"] ELSE phase
    /\ Return(t)
    /\ UNCHANGED <<registryVars, owner, solo, seatOf, voteVars, unmapping>>

HandleUnready(t) ==
    LET r == found[t] IN
    /\ Handles(t, "unready")
    /\ ready' = IF phase[r] \in ReadyPhases THEN [ready EXCEPT ![r] = @ \ {Asker(t)}] ELSE ready
    /\ Return(t)
    /\ UNCHANGED <<registryVars, owner, solo, seatOf, phase, voteVars, unmapping>>

\* Room::changeSeat.
HandleChangeSeat(t) ==
    LET r == found[t]
        n == running[t].req.seat
    IN
    /\ Handles(t, "change_seat")
    /\ IF phase[r] = "WAITING" /\ Asker(t) \in Humans(r)
             /\ n \notin Taken(r) \ {seatOf[r][Asker(t)]}
       THEN /\ seatOf' = [seatOf EXCEPT ![r][Asker(t)] = n]
            /\ ready' = [ready EXCEPT ![r] = @ \ {Asker(t)}]
       ELSE UNCHANGED <<seatOf, ready>>
    /\ Return(t)
    /\ UNCHANGED <<registryVars, owner, solo, phase, voteVars, unmapping>>

\* handleStartGame, Room::startGame: the owner, in any phase.
HandleStartGame(t) ==
    LET r == found[t] IN
    /\ Handles(t, "start_game")
    /\ phase' = IF owner[r] = Asker(t) /\ AllReady(r) THEN [phase EXCEPT ![r] = "PLAYING"] ELSE phase
    /\ Return(t)
    /\ UNCHANGED <<registryVars, owner, solo, seatOf, ready, voteVars, unmapping>>

-----------------------------------------------------------------------------
(* The vote to dismiss a room *)

\* Mutant of AllAgreed: the requester's word is enough.
AnyAgreed(yes, all) == all # {} /\ yes # {}

AllAgreed(yes, all) == all # {} /\ yes = all

\* Mutant of RemoveRoom: the players keep pointing to the room.
RemoveRoomOnly(r) == listed' = listed \ {r} /\ UNCHANGED roomOf

\* removeRoom: the room, and what its players, bots apart, are mapped to.
RemoveRoom(r) ==
    IF r \in listed
    THEN /\ listed' = listed \ {r}
         /\ roomOf' = [p \in Player |-> IF p \in Humans(r) THEN NoRoom ELSE roomOf[p]]
    ELSE UNCHANGED <<listed, roomOf>>

\* The end of both handlers: the vote is this, and a room that everyone agrees
\* to dismiss goes.
Tally(r, all, yes) ==
    /\ asked' = [asked EXCEPT ![r] = all]
    /\ agreed' = [agreed EXCEPT ![r] = yes]
    /\ IF AllAgreed(yes, all) THEN RemoveRoom(r) ELSE UNCHANGED <<listed, roomOf>>

HandleRequestDismiss(t) ==
    LET r == found[t] IN
    /\ Handles(t, "request_dismiss")
    /\ IF asked[r] = {} /\ Asker(t) \in Humans(r)
       THEN Tally(r, Humans(r), {Asker(t)})
       ELSE UNCHANGED <<listed, roomOf, voteVars>>
    /\ Return(t)
    /\ UNCHANGED <<created, roomVars, unmapping>>

\* A vote against ends it.
HandleVoteDismiss(t) ==
    LET r == found[t] IN
    /\ Handles(t, "vote_dismiss")
    /\ IF Asker(t) \notin asked[r] THEN UNCHANGED <<listed, roomOf, voteVars>>
       ELSE IF running[t].req.agree THEN Tally(r, asked[r], agreed[r] \cup {Asker(t)})
       ELSE Tally(r, {}, {})
    /\ Return(t)
    /\ UNCHANGED <<created, roomVars, unmapping>>

-----------------------------------------------------------------------------
\* onGameOver, in a bot's task on the room's queue or in a request on any
\* thread: finishMatch, or enterSettlement.  A room of bots alone is never full,
\* so no round starts here.
GameEnds(r, won) ==
    /\ phase[r] = "PLAYING"
    /\ phase' = [phase EXCEPT ![r] = IF won THEN "FINISHED" ELSE "SETTLEMENT"]
    /\ ready' = IF won THEN ready ELSE [ready EXCEPT ![r] = {}]
    /\ UNCHANGED <<registryVars, owner, solo, seatOf, voteVars, queue, threadVars>>

Act(t) ==
    \/ TellMembers(t)
    \/ Leave(t)
    \/ RemovePlayerFromRoom(t)
    \/ HandleReady(t)
    \/ HandleUnready(t)
    \/ HandleChangeSeat(t)
    \/ HandleStartGame(t)
    \/ HandleRequestDismiss(t)
    \/ HandleVoteDismiss(t)

Next ==
    \/ \E s \in Session :
           \/ \E mode \in {"solo", "six"} : HandleCreateRoom(s, mode)
           \/ \E q \in Requests, named \in created \cup {NoRoom} : Dispatch(s, q, named)
    \/ \E t \in Thread : Lookup(t) \/ Join(t) \/ Act(t)
    \/ \E r \in Room : \E won \in BOOLEAN : GameEnds(r, won)

Spec == Init /\ [][Next]_vars

-----------------------------------------------------------------------------
(* Properties *)

\* No two members of a room sit on one seat, bots included, and none on a seat
\* that is not there.
SeatsDistinct ==
    \A r \in Room : \A p, t \in Humans(r) :
        seatOf[r][p] \in Seat \ BotSeats(r) /\ (seatOf[r][p] = seatOf[r][t] => p = t)

\* The player is between the two steps of a leave of this room.
Leaving(p, r) == \E t \in unmapping : found[t] = r /\ Asker(t) = p

\* Nobody is left mapped to a room that is gone or that they are no member of:
\* the registry would keep them out of every other room.  Leaves of one player
\* on several threads, votes that dissolve the room halfway through a leave and
\* joins in between may only leave a player mapped who is still leaving.
MappedAreThere ==
    \A p \in Player : roomOf[p] # NoRoom =>
        \/ roomOf[p] \in listed /\ p \in Humans(roomOf[p])
        \/ Leaving(p, roomOf[p])

\* A settlement waits for somebody who is not ready, or for a seat to be taken:
\* when the last one gets ready the round starts, whoever came and went.
SettlementWaits == \A r \in Room : phase[r] = "SETTLEMENT" => ~AllReady(r)

\* Somebody's request to dismiss the room, or their vote for it, is being handled.
Asks(t) ==
    \/ Handles(t, "request_dismiss")
    \/ Handles(t, "vote_dismiss") /\ running[t].req.agree

\* A room is taken from its players only when one of them asks for it and all
\* the others who are there and were asked have agreed, in a vote that is on.
DissolvedByConsent ==
    [][\A r \in listed \ listed' : Humans(r) # {} =>
           \E t \in Thread :
               /\ found[t] = r /\ Asks(t)
               /\ asked[r] = {} => Humans(r) = {Asker(t)}
               /\ asked[r] \cap Humans(r) \subseteq agreed[r] \cup {Asker(t)}]_vars

\* What the queues are for: no two threads are at work on one room, which has no
\* lock.  Not so: a request may be queued on one room and find another.
OneThreadPerRoom ==
    \A t1, t2 \in Thread : found[t1] # NoRoom /\ found[t1] = found[t2] => t1 = t2
==============================================================================
