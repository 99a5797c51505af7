----------------------------- MODULE Rooms_proofs ----------------------------
(***************************************************************************)
(* The rooms of the server, for any players and connections, rooms, seats    *)
(* and requests on their way, whatever room a request names and however many *)
(* its sender has sent before: seats, ready flags, settlements and the vote  *)
(* do not depend on which thread a handler runs on, and of the registry's    *)
(* map one half survives.                                                   *)
(***************************************************************************)
EXTENDS Rooms, FiniteSetTheorems, TLAPS

Phases == {"WAITING", "PLAYING", "SETTLEMENT", "FINISHED"}

RoomsTypeOK ==
    /\ listed \subseteq created /\ created \subseteq Room /\ unmapping \subseteq Thread
    /\ roomOf \in [Player -> Room \cup {NoRoom}]
    /\ seatOf \in [Room -> [Player -> Seat \cup {NoSeat}]]
    /\ ready \in [Room -> SUBSET Player]
    /\ phase \in [Room -> Phases]
    /\ queue \in [Thread -> Seq(Task)]
    /\ running \in [Thread -> Task \cup {NoTask}]
    /\ found \in [Thread -> Room \cup {NoRoom}]

\* A handler between its steps has a room to act on, if perhaps one that is gone.
HandlersHaveRooms ==
    \A t \in Thread :
        /\ running[t] # NoTask => found[t] \in created
        /\ t \in unmapping => running[t] # NoTask

\* A room that is yet to come is empty.
UncreatedIsBlank ==
    \A r \in Room \ created : Humans(r) = {} /\ phase[r] = "WAITING" /\ r \notin solo

ReadyAreMembers == \A r \in Room : ready[r] \subseteq Humans(r)

\* MappedAreThere, said of one player and one room at a time.
IsThere(p, r) == (r \in listed /\ p \in Humans(r)) \/ Leaving(p, r)
WhoIsWhere == \A p \in Player : \A r \in Room : roomOf[p] = r => IsThere(p, r)

ThreadInv == RoomsTypeOK /\ HandlersHaveRooms
MemberInv == WhoIsWhere /\ SeatsDistinct /\ UncreatedIsBlank /\ ReadyAreMembers
RoomsInv == ThreadInv /\ MemberInv /\ SettlementWaits

\* Seats are numbers from 0, and NoSeat is not one.
LEMMA SeatFacts == 0 \in Seat /\ NoSeat \notin Seat
  BY CapacityAssumption DEF Seat, NoSeat

\* What a request comes with.
LEMMA TaskFacts ==
  ASSUME NEW k \in Task
  PROVE  /\ k # NoTask /\ k.from \in Session /\ PlayerOf[k.from] \in Player /\ k.req \in Requests
         /\ k.req.kind = "change_seat" => k.req.seat \in Seat
<1>1. k.from \in Session /\ k.req \in Requests
  BY DEF Task
<1>2. k.req.kind = "change_seat" => k.req.seat \in Seat
  BY <1>1 DEF Requests
<1> QED
  BY <1>1, <1>2, TaskAssumption, SessionsAssumption

\* At first there are no rooms and no requests.
LEMMA InvInit == Init => ThreadInv /\ MemberInv /\ SettlementWaits
<1> SUFFICES ASSUME Init PROVE ThreadInv /\ MemberInv /\ SettlementWaits
  OBVIOUS
<1>1. RoomsTypeOK
  BY DEF Init, RoomsTypeOK, Phases
<1>2. HandlersHaveRooms
  BY DEF Init, HandlersHaveRooms
<1>3. \A r \in Room : Humans(r) = {}
  BY DEF Init, Humans
<1>4. MemberInv
  BY <1>3, RoomsAssumption DEF Init, MemberInv, WhoIsWhere, SeatsDistinct, UncreatedIsBlank, ReadyAreMembers
<1>5. SettlementWaits
  BY DEF Init, SettlementWaits
<1> QED
  BY <1>1, <1>2, <1>4, <1>5 DEF ThreadInv

-----------------------------------------------------------------------------
(* Requests on their way, and the first step of a handler *)

\* What is left of a queue when its first element is taken.
LEMMA TailFacts ==
  ASSUME NEW S, NEW q \in Seq(S), q # << >>
  PROVE  Head(q) \in S /\ Tail(q) \in Seq(S)
  OBVIOUS

\* Who is on their way out of a room stays so while the threads between the two
\* steps of a leave stay where they are.
LEMMA StillLeaving ==
  ASSUME unmapping \subseteq unmapping',
         \A t \in unmapping : found'[t] = found[t] /\ running'[t] = running[t]
  PROVE  \A p, r : Leaving(p, r) => Leaving(p, r)'
  BY DEF Leaving, Asker

\* Who gets ready, and what the game does, moves nobody.
LEMMA SameMembers ==
  ASSUME MemberInv, UNCHANGED <<listed, created, roomOf, solo, seatOf, unmapping>>,
         \A r \in Room : ready'[r] \subseteq Humans(r),
         \A r \in Room \ created : phase'[r] = phase[r],
         \A t \in unmapping : found'[t] = found[t] /\ running'[t] = running[t]
  PROVE  MemberInv'
<1>1. \A p, r : Leaving(p, r) => Leaving(p, r)'
  BY StillLeaving
<1>2. \A r : Humans(r)' = Humans(r) /\ BotSeats(r)' = BotSeats(r)
  BY DEF Humans, BotSeats
<1>3. WhoIsWhere'
  BY <1>1, <1>2 DEF MemberInv, WhoIsWhere, IsThere
<1>4. SeatsDistinct'
  BY <1>2 DEF MemberInv, SeatsDistinct
<1> QED
  BY <1>2, <1>3, <1>4 DEF MemberInv, UncreatedIsBlank, ReadyAreMembers

\* A new request waits somewhere; nothing else changes.
LEMMA DispatchKeeps ==
  ASSUME ThreadInv, MemberInv, NEW s \in Session, NEW q \in Requests, NEW named, Dispatch(s, q, named)
  PROVE  ThreadInv' /\ MemberInv'
<1> DEFINE room == ResolveRoomForDispatch(PlayerOf[s], named)
           t == IF room = NoRoom THEN s ELSE room
           k == [from |-> s, req |-> q]
<1>1. /\ queue' = [queue EXCEPT ![t] = Append(@, k)]
      /\ UNCHANGED <<registryVars, roomVars, voteVars, threadVars>>
  BY DEF Dispatch
<1>2. room \in Room \cup {NoRoom}
  BY DEF ResolveRoomForDispatch, RoomWithPlayer, ThreadInv, RoomsTypeOK
<1>3. t \in Thread /\ k \in Task
  BY <1>2 DEF Thread, Task
<1>4. Append(queue[t], k) \in Seq(Task)
  BY <1>3 DEF ThreadInv, RoomsTypeOK
<1>5. queue' \in [Thread -> Seq(Task)]
  BY <1>1, <1>4 DEF ThreadInv, RoomsTypeOK
<1>6. UNCHANGED <<listed, created, roomOf, solo, seatOf, ready, phase, running, found, unmapping>>
  BY <1>1 DEF registryVars, roomVars, threadVars
<1>7. ThreadInv'
  BY <1>5, <1>6 DEF ThreadInv, RoomsTypeOK, HandlersHaveRooms
<1> QED
  BY <1>6, <1>7, SameMembers DEF MemberInv, ReadyAreMembers

\* A new room has its owner in it, and nobody else.
LEMMA CreateKeeps ==
  ASSUME ThreadInv, MemberInv, NEW s \in Session, NEW mode, HandleCreateRoom(s, mode)
  PROVE  ThreadInv' /\ MemberInv'
<1> DEFINE p == PlayerOf[s]
<1>0. p \in Player
  BY SessionsAssumption
<1>1. PICK r \in Room :
        /\ r \notin created
        /\ created' = created \cup {r}
        /\ listed' = listed \cup {r}
        /\ roomOf' = [roomOf EXCEPT ![p] = r]
        /\ owner' = [owner EXCEPT ![r] = p]
        /\ solo' = IF mode = "solo" THEN solo \cup {r} ELSE solo
        /\ seatOf' = [seatOf EXCEPT ![r][p] = 0]
  BY DEF HandleCreateRoom
<1>2. UNCHANGED <<ready, phase, queue, running, found, unmapping>>
  BY DEF HandleCreateRoom, threadVars
<1>3. \A t \in Player : Humans(r) = {} /\ (seatOf'[r][t] = IF t = p THEN 0 ELSE NoSeat)
  BY <1>1 DEF MemberInv, UncreatedIsBlank, Humans, ThreadInv, RoomsTypeOK
<1>4. /\ \A q \in Room \ {r} : seatOf'[q] = seatOf[q] /\ (q \in solo' <=> q \in solo)
      /\ roomOf'[p] = r /\ \A t \in Player \ {p} : roomOf'[t] = roomOf[t]
  BY <1>0, <1>1 DEF ThreadInv, RoomsTypeOK
<1>5. Humans(r)' = {p} /\ \A q \in Room \ {r} : Humans(q)' = Humans(q)
  BY <1>0, <1>3, <1>4, SeatFacts DEF Humans
<1>6. ThreadInv'
  BY <1>0, <1>1, <1>2, SeatFacts DEF ThreadInv, RoomsTypeOK, HandlersHaveRooms
<1>7. WhoIsWhere'
  <2>1. \A t, q : Leaving(t, q) => Leaving(t, q)'
    BY <1>2, StillLeaving
  <2> SUFFICES ASSUME NEW t \in Player, NEW q \in Room, roomOf'[t] = q
               PROVE  IsThere(t, q)'
    BY DEF WhoIsWhere
  <2>2. CASE t = p
    BY <1>1, <1>4, <1>5, <2>2 DEF IsThere
  <2>3. CASE t # p
    <3>1. roomOf[t] = q /\ IsThere(t, q)
      BY <1>4, <2>3 DEF MemberInv, WhoIsWhere
    <3>2. q \in listed => q \in listed' /\ Humans(q)' = Humans(q)
      BY <1>1, <1>5 DEF ThreadInv, RoomsTypeOK
    <3> QED
      BY <2>1, <3>1, <3>2 DEF IsThere
  <2> QED
    BY <2>2, <2>3
<1>8. SeatsDistinct'
  <2>1. \A q \in Room \ {r} : BotSeats(q)' = BotSeats(q)
    BY <1>4 DEF BotSeats
  <2>2. 0 \in Seat \ BotSeats(r)'
    BY SeatFacts DEF BotSeats
  <2> QED
    BY <1>0, <1>3, <1>4, <1>5, <2>1, <2>2 DEF MemberInv, SeatsDistinct
<1>9. UncreatedIsBlank'
  BY <1>1, <1>2, <1>4, <1>5 DEF MemberInv, UncreatedIsBlank
<1>10. ReadyAreMembers'
  BY <1>0, <1>2, <1>3, <1>5 DEF MemberInv, ReadyAreMembers
<1> QED
  BY <1>6, <1>7, <1>8, <1>9, <1>10 DEF MemberInv

\* A request leaves its queue, to be answered or to work on a room.
LEMMA TakeKeeps ==
  ASSUME ThreadInv, NEW t \in Thread, Takes(t),
         \/ UNCHANGED <<running, found>>
         \/ \E room \in listed : WorksOn(t, room),
         UNCHANGED <<listed, created, ready, phase, unmapping>>,
         roomOf' \in [Player -> Room \cup {NoRoom}],
         seatOf' \in [Room -> [Player -> Seat \cup {NoSeat}]]
  PROVE  /\ ThreadInv'
         /\ \A u \in unmapping : found'[u] = found[u] /\ running'[u] = running[u]
<1>1. /\ running[t] = NoTask /\ queue[t] # << >> /\ queue[t] \in Seq(Task)
      /\ queue' = [queue EXCEPT ![t] = Tail(@)]
  BY DEF Takes, ThreadInv, RoomsTypeOK
<1>2. Head(queue[t]) \in Task /\ Tail(queue[t]) \in Seq(Task)
  BY <1>1, TailFacts
<1>3. queue' \in [Thread -> Seq(Task)]
  BY <1>1, <1>2 DEF ThreadInv, RoomsTypeOK
<1>4. t \notin unmapping
  BY <1>1 DEF ThreadInv, HandlersHaveRooms
<1>5. CASE UNCHANGED <<running, found>>
  BY <1>3, <1>5 DEF ThreadInv, RoomsTypeOK, HandlersHaveRooms
<1>6. ASSUME NEW room \in listed, WorksOn(t, room)
      PROVE  /\ ThreadInv'
             /\ \A u \in unmapping : found'[u] = found[u] /\ running'[u] = running[u]
  <2>1. /\ running' = [running EXCEPT ![t] = Head(queue[t])]
        /\ found' = [found EXCEPT ![t] = room]
        /\ room \in created /\ room \in Room
    BY <1>6 DEF WorksOn, ThreadInv, RoomsTypeOK
  <2>2. /\ running' \in [Thread -> Task \cup {NoTask}] /\ found' \in [Thread -> Room \cup {NoRoom}]
        /\ found'[t] = room /\ \A u \in Thread \ {t} : found'[u] = found[u] /\ running'[u] = running[u]
    BY <1>2, <2>1 DEF ThreadInv, RoomsTypeOK
  <2>3. RoomsTypeOK'
    BY <1>3, <2>2 DEF ThreadInv, RoomsTypeOK
  <2>4. HandlersHaveRooms'
    BY <1>4, <2>1, <2>2 DEF ThreadInv, HandlersHaveRooms
  <2> QED
    BY <1>4, <2>2, <2>3, <2>4 DEF ThreadInv, RoomsTypeOK
<1> QED
  BY <1>5, <1>6

\* Looking a room up moves nobody.
LEMMA LookupKeeps ==
  ASSUME ThreadInv, MemberInv, NEW t \in Thread, Lookup(t)
  PROVE  ThreadInv' /\ MemberInv'
<1>1. Takes(t) /\ UNCHANGED <<listed, created, roomOf, solo, seatOf, ready, phase, unmapping>>
  BY DEF Lookup, registryVars, roomVars
<1>2. \/ UNCHANGED <<running, found>>
      \/ \E room \in listed : WorksOn(t, room)
  BY RoomsAssumption DEF Lookup, RoomWithPlayer
<1>3. /\ ThreadInv'
      /\ \A u \in unmapping : found'[u] = found[u] /\ running'[u] = running[u]
  <2>1. roomOf' \in [Player -> Room \cup {NoRoom}] /\ seatOf' \in [Room -> [Player -> Seat \cup {NoSeat}]]
    BY <1>1 DEF ThreadInv, RoomsTypeOK
  <2> QED
    BY <1>1, <1>2, <2>1, TakeKeeps
<1> QED
  BY <1>1, <1>3, SameMembers DEF MemberInv, ReadyAreMembers

\* Who joins a room, and where they sit.
LEMMA JoinEffect ==
  ASSUME ThreadInv, NEW t \in Thread, Join(t), UNCHANGED <<roomOf, seatOf>> => FALSE
  PROVE  \E p \in Player, r \in listed : \E n \in Seat :
             /\ p \notin Humans(r) /\ IsFirstEmptySeat(r, n) /\ WorksOn(t, r)
             /\ seatOf' = [seatOf EXCEPT ![r][p] = n]
             /\ roomOf' = [roomOf EXCEPT ![p] = r]
<1>1. queue[t] # << >> /\ queue[t] \in Seq(Task)
  BY DEF Join, Takes, ThreadInv, RoomsTypeOK
<1>2. PlayerOf[Head(queue[t]).from] \in Player
  BY <1>1, TailFacts, TaskFacts
<1> QED
  BY <1>2 DEF Join

\* Who joins gets a seat that nobody has, and is mapped to the room.
LEMMA JoinKeeps ==
  ASSUME ThreadInv, MemberInv, NEW t \in Thread, Join(t)
  PROVE  ThreadInv' /\ MemberInv'
<1>0. Takes(t) /\ UNCHANGED <<listed, created, solo, ready, phase, unmapping>>
  BY DEF Join
<1>1. CASE UNCHANGED <<roomOf, seatOf>>
  <2>1. \/ UNCHANGED <<running, found>>
        \/ \E room \in listed : WorksOn(t, room)
    BY DEF Join
  <2>2. roomOf' \in [Player -> Room \cup {NoRoom}] /\ seatOf' \in [Room -> [Player -> Seat \cup {NoSeat}]]
    BY <1>1 DEF ThreadInv, RoomsTypeOK
  <2>3. /\ ThreadInv'
        /\ \A u \in unmapping : found'[u] = found[u] /\ running'[u] = running[u]
    BY <1>0, <2>1, <2>2, TakeKeeps
  <2> QED
    BY <1>0, <1>1, <2>3, SameMembers DEF MemberInv, ReadyAreMembers
<1>2. ASSUME NEW p \in Player, NEW r \in listed, NEW n \in Seat,
             p \notin Humans(r), IsFirstEmptySeat(r, n), WorksOn(t, r),
             seatOf' = [seatOf EXCEPT ![r][p] = n],
             roomOf' = [roomOf EXCEPT ![p] = r]
      PROVE  ThreadInv' /\ MemberInv'
  <2>0. r \in Room
    BY DEF ThreadInv, RoomsTypeOK
  <2>1. roomOf' \in [Player -> Room \cup {NoRoom}] /\ seatOf' \in [Room -> [Player -> Seat \cup {NoSeat}]]
    BY <1>2, <2>0 DEF ThreadInv, RoomsTypeOK
  <2>2. /\ ThreadInv'
        /\ \A u \in unmapping : found'[u] = found[u] /\ running'[u] = running[u]
    BY <1>0, <1>2, <2>1, TakeKeeps
  <2>3. /\ roomOf'[p] = r /\ \A u \in Player \ {p} : roomOf'[u] = roomOf[u]
        /\ \A q \in Room \ {r} : seatOf'[q] = seatOf[q]
        /\ seatOf'[r][p] = n /\ \A u \in Player \ {p} : seatOf'[r][u] = seatOf[r][u]
    BY <1>2, <2>0 DEF ThreadInv, RoomsTypeOK
  <2>4. Humans(r)' = Humans(r) \cup {p} /\ \A q \in Room \ {r} : Humans(q)' = Humans(q)
    BY <2>0, <2>3, SeatFacts DEF Humans
  <2>5. WhoIsWhere'
    <3>1. \A u, q : Leaving(u, q) => Leaving(u, q)'
      BY <1>0, <2>2, StillLeaving
    <3> SUFFICES ASSUME NEW u \in Player, NEW q \in Room, roomOf'[u] = q
                 PROVE  IsThere(u, q)'
      BY DEF WhoIsWhere
    <3>2. CASE u = p
      BY <1>0, <2>3, <2>4, <3>2 DEF IsThere
    <3>3. CASE u # p
      <4>1. IsThere(u, q)
        BY <2>3, <3>3 DEF MemberInv, WhoIsWhere
      <4>2. Humans(q) \subseteq Humans(q)'
        BY <2>4
      <4> QED
        BY <1>0, <3>1, <4>1, <4>2 DEF IsThere
    <3> QED
      BY <3>2, <3>3
  <2>6. SeatsDistinct'
    <3>1. \A q \in Room : BotSeats(q)' = BotSeats(q)
      BY <1>0 DEF BotSeats
    <3>2. n \in Seat \ BotSeats(r) /\ \A u \in Humans(r) : seatOf[r][u] # n
      BY <1>2 DEF IsFirstEmptySeat, Taken
    <3>3. \A u \in Humans(r) : u # p /\ seatOf'[r][u] = seatOf[r][u]
      BY <1>2, <2>3 DEF Humans
    <3>4. \A q \in Room \ {r} : Humans(q)' = Humans(q) /\ seatOf'[q] = seatOf[q]
      BY <2>3, <2>4
    <3>5. \A u, v \in Humans(r)' : seatOf'[r][u] \in Seat \ BotSeats(r) /\ (seatOf'[r][u] = seatOf'[r][v] => u = v)
      BY <2>0, <2>3, <2>4, <3>2, <3>3 DEF MemberInv, SeatsDistinct
    <3> SUFFICES ASSUME NEW q \in Room, NEW u \in Humans(q)', NEW v \in Humans(q)'
                 PROVE  seatOf'[q][u] \in Seat \ BotSeats(q)' /\ (seatOf'[q][u] = seatOf'[q][v] => u = v)
      BY DEF SeatsDistinct
    <3>6. CASE q = r
      BY <3>1, <3>5, <3>6
    <3>7. CASE q # r
      BY <3>1, <3>4, <3>7 DEF MemberInv, SeatsDistinct
    <3> QED
      BY <3>6, <3>7
  <2>7. UncreatedIsBlank'
    <3>1. r \in created
      BY DEF ThreadInv, RoomsTypeOK
    <3> QED
      BY <1>0, <2>4, <3>1 DEF MemberInv, UncreatedIsBlank
  <2>8. ReadyAreMembers'
    <3>1. \A q \in Room : Humans(q) \subseteq Humans(q)'
      BY <2>4
    <3> QED
      BY <1>0, <3>1 DEF MemberInv, ReadyAreMembers
  <2> QED
    BY <2>2, <2>5, <2>6, <2>7, <2>8 DEF MemberInv
<1> QED
  BY <1>1, <1>2, JoinEffect

-----------------------------------------------------------------------------
(* The second step of a handler *)

\* What a handler knows of its request and of the room it works on.
LEMMA HandlerFacts ==
  ASSUME ThreadInv, NEW t \in Thread, running[t] # NoTask
  PROVE  /\ running[t] \in Task /\ Asker(t) \in Player
         /\ found[t] \in Room /\ found[t] \in created
         /\ running[t].req.kind = "change_seat" => running[t].req.seat \in Seat
<1>1. running[t] \in Task
  BY DEF ThreadInv, RoomsTypeOK
<1>2. found[t] \in created /\ found[t] \in Room
  BY DEF ThreadInv, RoomsTypeOK, HandlersHaveRooms
<1> QED
  BY <1>1, <1>2, TaskFacts DEF Asker

\* The end of a handler, whatever it has done to the rooms.
LEMMA ReturnKeeps ==
  ASSUME ThreadInv, NEW t \in Thread, Return(t), unmapping' = unmapping \ {t},
         created' = created, listed' \subseteq listed,
         roomOf' \in [Player -> Room \cup {NoRoom}],
         seatOf' \in [Room -> [Player -> Seat \cup {NoSeat}]],
         ready' \in [Room -> SUBSET Player],
         phase' \in [Room -> Phases]
  PROVE  /\ ThreadInv'
         /\ \A u \in unmapping' : found'[u] = found[u] /\ running'[u] = running[u]
         /\ \A p, r : Leaving(p, r) /\ p # Asker(t) => Leaving(p, r)'
<1>1. /\ running' = [running EXCEPT ![t] = NoTask]
      /\ found' = [found EXCEPT ![t] = NoRoom]
      /\ queue' = queue
  BY DEF Return
<1>2. /\ running' \in [Thread -> Task \cup {NoTask}] /\ found' \in [Thread -> Room \cup {NoRoom}]
      /\ running'[t] = NoTask /\ \A u \in Thread \ {t} : found'[u] = found[u] /\ running'[u] = running[u]
  BY <1>1 DEF ThreadInv, RoomsTypeOK
<1>3. RoomsTypeOK'
  BY <1>1, <1>2 DEF ThreadInv, RoomsTypeOK
<1>4. HandlersHaveRooms'
  BY <1>2 DEF ThreadInv, HandlersHaveRooms
<1>5. \A u \in unmapping' : found'[u] = found[u] /\ running'[u] = running[u]
  BY <1>2 DEF ThreadInv, RoomsTypeOK
<1>6. ASSUME NEW p, NEW r, Leaving(p, r), p # Asker(t) PROVE Leaving(p, r)'
  <2>1. PICK u \in unmapping : found[u] = r /\ Asker(u) = p
    BY <1>6 DEF Leaving
  <2>2. u \in unmapping'
    BY <1>6, <2>1
  <2>3. found'[u] = r /\ Asker(u)' = p
    BY <1>5, <2>1, <2>2 DEF Asker
  <2> QED
    BY <2>2, <2>3 DEF Leaving
<1> QED
  BY <1>3, <1>4, <1>5, <1>6 DEF ThreadInv

\* A handler that moves nobody: it tells members, takes ready flags, starts rounds.
LEMMA QuietHandlerKeeps ==
  ASSUME ThreadInv, MemberInv, NEW t \in Thread, t \notin unmapping, Return(t),
         UNCHANGED <<listed, created, roomOf, solo, seatOf, unmapping>>,
         ready' \in [Room -> SUBSET Player], \A r \in Room : ready'[r] \subseteq Humans(r),
         phase' \in [Room -> Phases], \A r \in Room \ created : phase'[r] = phase[r]
  PROVE  ThreadInv' /\ MemberInv'
<1>1. unmapping' = unmapping \ {t} /\ unmapping' = unmapping
  OBVIOUS
<1>2. /\ ThreadInv'
      /\ \A u \in unmapping : found'[u] = found[u] /\ running'[u] = running[u]
  <2>1. roomOf' \in [Player -> Room \cup {NoRoom}] /\ seatOf' \in [Room -> [Player -> Seat \cup {NoSeat}]]
    BY DEF ThreadInv, RoomsTypeOK
  <2> QED
    BY <1>1, <2>1, ReturnKeeps
<1> QED
  BY <1>2, SameMembers

\* A broadcast changes nothing.
LEMMA TellMembersKeeps ==
  ASSUME ThreadInv, MemberInv, NEW t \in Thread, TellMembers(t)
  PROVE  ThreadInv' /\ MemberInv'
<1>1. /\ t \notin unmapping /\ Return(t)
      /\ UNCHANGED <<listed, created, roomOf, solo, seatOf, ready, phase, unmapping>>
  BY DEF TellMembers, Handles, registryVars, roomVars
<1> QED
  BY <1>1, QuietHandlerKeeps DEF ThreadInv, RoomsTypeOK, MemberInv, ReadyAreMembers

\* Getting ready concerns a member of the room.
LEMMA ReadyKeeps ==
  ASSUME ThreadInv, MemberInv, NEW t \in Thread, HandleReady(t)
  PROVE  ThreadInv' /\ MemberInv'
<1>1. /\ running[t] # NoTask /\ t \notin unmapping /\ Return(t)
      /\ UNCHANGED <<listed, created, roomOf, solo, seatOf, unmapping>>
  BY DEF HandleReady, Handles, registryVars
<1>2. found[t] \in created /\ found[t] \in Room /\ Asker(t) \in Player
  BY <1>1, HandlerFacts
<1>3. ready' \in [Room -> SUBSET Player] /\ \A r \in Room : ready'[r] \subseteq Humans(r)
  BY <1>2 DEF HandleReady, ThreadInv, RoomsTypeOK, MemberInv, ReadyAreMembers
<1>4. phase' \in [Room -> Phases] /\ \A r \in Room \ created : phase'[r] = phase[r]
  BY <1>2 DEF HandleReady, ThreadInv, RoomsTypeOK, Phases
<1> QED
  BY <1>1, <1>3, <1>4, QuietHandlerKeeps

\* So does taking it back.
LEMMA UnreadyKeeps ==
  ASSUME ThreadInv, MemberInv, NEW t \in Thread, HandleUnready(t)
  PROVE  ThreadInv' /\ MemberInv'
<1>1. /\ running[t] # NoTask /\ t \notin unmapping /\ Return(t)
      /\ UNCHANGED <<listed, created, roomOf, solo, seatOf, phase, unmapping>>
  BY DEF HandleUnready, Handles, registryVars
<1>2. ready' \in [Room -> SUBSET Player] /\ \A r \in Room : ready'[r] \subseteq Humans(r)
  BY <1>1, HandlerFacts DEF HandleUnready, ThreadInv, RoomsTypeOK, MemberInv, ReadyAreMembers
<1> QED
  BY <1>1, <1>2, QuietHandlerKeeps DEF ThreadInv, RoomsTypeOK

\* A game moves nobody.
LEMMA StartGameKeeps ==
  ASSUME ThreadInv, MemberInv, NEW t \in Thread, HandleStartGame(t)
  PROVE  ThreadInv' /\ MemberInv'
<1>1. /\ running[t] # NoTask /\ t \notin unmapping /\ Return(t)
      /\ UNCHANGED <<listed, created, roomOf, solo, seatOf, ready, unmapping>>
  BY DEF HandleStartGame, Handles, registryVars
<1>2. phase' \in [Room -> Phases] /\ \A r \in Room \ created : phase'[r] = phase[r]
  BY <1>1, HandlerFacts DEF HandleStartGame, ThreadInv, RoomsTypeOK, Phases
<1> QED
  BY <1>1, <1>2, QuietHandlerKeeps DEF ThreadInv, RoomsTypeOK, MemberInv, ReadyAreMembers

\* Nor does its end.
LEMMA GameEndsKeeps ==
  ASSUME ThreadInv, MemberInv, NEW r \in Room, NEW won \in BOOLEAN, GameEnds(r, won)
  PROVE  ThreadInv' /\ MemberInv'
<1>1. UNCHANGED <<listed, created, roomOf, solo, seatOf, queue, running, found, unmapping>>
  BY DEF GameEnds, registryVars, threadVars
<1>2. r \in created
  BY DEF GameEnds, MemberInv, UncreatedIsBlank
<1>3. /\ ready' \in [Room -> SUBSET Player] /\ \A q \in Room : ready'[q] \subseteq Humans(q)
      /\ phase' \in [Room -> Phases] /\ \A q \in Room \ created : phase'[q] = phase[q]
  BY <1>2 DEF GameEnds, ThreadInv, RoomsTypeOK, Phases, MemberInv, ReadyAreMembers
<1>4. ThreadInv'
  BY <1>1, <1>3 DEF ThreadInv, RoomsTypeOK, HandlersHaveRooms
<1> QED
  BY <1>1, <1>3, <1>4, SameMembers

\* What the first step of a leave changes.
LeavesAs(t, p, r) ==
    /\ running[t] # NoTask /\ t \notin unmapping /\ p = Asker(t) /\ r = found[t]
    /\ seatOf' \in [Room -> [Player -> Seat \cup {NoSeat}]] /\ ready' \in [Room -> SUBSET Player]
    /\ \A q \in Room \ {r} : seatOf'[q] = seatOf[q] /\ ready'[q] = ready[q]
    /\ seatOf'[r][p] = NoSeat /\ \A u \in Player \ {p} : seatOf'[r][u] = seatOf[r][u]
    /\ ready'[r] = ready[r] \ {p}
    /\ Humans(r)' = Humans(r) \ {p} /\ \A q \in Room \ {r} : Humans(q)' = Humans(q)
    /\ unmapping' = unmapping \cup {t}
    /\ UNCHANGED <<listed, roomOf, created, solo, phase, queue, running, found>>

\* Who leaves which room with the first step.
LEMMA LeaveEffect ==
  ASSUME ThreadInv, NEW t \in Thread, Leave(t)
  PROVE  \E p \in Player, r \in Room : LeavesAs(t, p, r)
<1>1. running[t] # NoTask /\ t \notin unmapping
  BY DEF Leave, Handles
<1>2. PICK p \in Player : p = Asker(t)
  BY <1>1, HandlerFacts
<1>3. PICK r \in Room : r = found[t]
  BY <1>1, HandlerFacts
<1>4. /\ seatOf' = [seatOf EXCEPT ![r][p] = NoSeat]
      /\ ready' = [ready EXCEPT ![r] = @ \ {p}]
      /\ unmapping' = unmapping \cup {t}
      /\ UNCHANGED <<listed, roomOf, created, solo, phase, queue, running, found>>
  BY <1>2, <1>3 DEF Leave, registryVars
<1>5. /\ seatOf' \in [Room -> [Player -> Seat \cup {NoSeat}]] /\ ready' \in [Room -> SUBSET Player]
      /\ \A q \in Room \ {r} : seatOf'[q] = seatOf[q] /\ ready'[q] = ready[q]
      /\ seatOf'[r][p] = NoSeat /\ \A u \in Player \ {p} : seatOf'[r][u] = seatOf[r][u]
      /\ ready'[r] = ready[r] \ {p}
  BY <1>4 DEF ThreadInv, RoomsTypeOK
<1>6. Humans(r)' = Humans(r) \ {p} /\ \A q \in Room \ {r} : Humans(q)' = Humans(q)
  BY <1>5 DEF Humans
<1> QED
  BY <1>1, <1>2, <1>3, <1>4, <1>5, <1>6 DEF LeavesAs

\* Who gets up is on the way out of the room until their entry is removed.
LEMMA LeaveKeeps ==
  ASSUME ThreadInv, MemberInv, NEW t \in Thread, Leave(t)
  PROVE  ThreadInv' /\ MemberInv'
<1>0. PICK p \in Player, r \in Room : LeavesAs(t, p, r)
  BY LeaveEffect
<1>1. /\ running[t] # NoTask /\ t \notin unmapping /\ p = Asker(t) /\ r = found[t]
      /\ seatOf' \in [Room -> [Player -> Seat \cup {NoSeat}]] /\ ready' \in [Room -> SUBSET Player]
      /\ \A q \in Room \ {r} : seatOf'[q] = seatOf[q] /\ ready'[q] = ready[q]
      /\ seatOf'[r][p] = NoSeat /\ \A u \in Player \ {p} : seatOf'[r][u] = seatOf[r][u]
      /\ ready'[r] = ready[r] \ {p}
      /\ Humans(r)' = Humans(r) \ {p} /\ \A q \in Room \ {r} : Humans(q)' = Humans(q)
      /\ unmapping' = unmapping \cup {t}
      /\ UNCHANGED <<listed, roomOf, created, solo, phase, queue, running, found>>
  BY <1>0 DEF LeavesAs
<1>2. ThreadInv'
  BY <1>1 DEF ThreadInv, RoomsTypeOK, HandlersHaveRooms
<1>3. Leaving(p, r)' /\ \A u, q : Leaving(u, q) => Leaving(u, q)'
  BY <1>1, StillLeaving DEF Leaving, Asker
<1>4. WhoIsWhere'
  <2> SUFFICES ASSUME NEW u \in Player, NEW q \in Room, roomOf[u] = q
               PROVE  IsThere(u, q)'
    BY <1>1 DEF WhoIsWhere
  <2>1. IsThere(u, q)
    BY DEF MemberInv, WhoIsWhere
  <2>2. u \in Humans(q) => u \in Humans(q)' \/ (u = p /\ q = r)
    BY <1>1
  <2> QED
    BY <1>1, <1>3, <2>1, <2>2 DEF IsThere
<1>5. SeatsDistinct'
  <2> SUFFICES ASSUME NEW q \in Room, NEW u \in Humans(q)', NEW v \in Humans(q)'
               PROVE  seatOf'[q][u] \in Seat \ BotSeats(q)' /\ (seatOf'[q][u] = seatOf'[q][v] => u = v)
    BY DEF SeatsDistinct
  <2>1. u \in Humans(q) /\ v \in Humans(q) /\ seatOf'[q][u] = seatOf[q][u] /\ seatOf'[q][v] = seatOf[q][v]
    BY <1>1 DEF Humans
  <2>2. BotSeats(q)' = BotSeats(q)
    BY <1>1 DEF BotSeats
  <2> QED
    BY <2>1, <2>2 DEF MemberInv, SeatsDistinct
<1>6. UncreatedIsBlank'
  BY <1>1 DEF MemberInv, UncreatedIsBlank
<1>7. ReadyAreMembers'
  BY <1>1 DEF MemberInv, ReadyAreMembers
<1> QED
  BY <1>2, <1>4, <1>5, <1>6, <1>7 DEF MemberInv

\* The registry forgets a room and some players at once: those who stay mapped
\* are in rooms that stay.
LEMMA UnmappedKeeps ==
  ASSUME ThreadInv, MemberInv, UNCHANGED <<created, solo, seatOf, ready, phase>>,
         \A u \in Player : roomOf'[u] # NoRoom =>
             /\ roomOf'[u] = roomOf[u]
             /\ \A q : Leaving(u, q) => Leaving(u, q)'
             /\ \A q \in listed \ listed' : u \notin Humans(q)
  PROVE  MemberInv'
<1>1. \A r : Humans(r)' = Humans(r) /\ BotSeats(r)' = BotSeats(r)
  BY DEF Humans, BotSeats
<1>2. WhoIsWhere'
  <2> SUFFICES ASSUME NEW u \in Player, NEW q \in Room, roomOf'[u] = q
               PROVE  IsThere(u, q)'
    BY DEF WhoIsWhere
  <2>1. roomOf'[u] # NoRoom
    BY RoomsAssumption
  <2>2. IsThere(u, q)
    BY <2>1 DEF MemberInv, WhoIsWhere
  <2> QED
    BY <1>1, <2>1, <2>2 DEF IsThere
<1>3. SeatsDistinct'
  BY <1>1 DEF MemberInv, SeatsDistinct
<1> QED
  BY <1>1, <1>2, <1>3 DEF MemberInv, UncreatedIsBlank, ReadyAreMembers

\* The second step of a leave unmaps its player, and takes a room without members:
\* who is still mapped to that is leaving it, on another thread.
LEMMA RemovePlayerKeeps ==
  ASSUME ThreadInv, MemberInv, NEW t \in Thread, RemovePlayerFromRoom(t)
  PROVE  ThreadInv' /\ MemberInv'
<1>0. t \in unmapping /\ running[t] # NoTask
  BY DEF RemovePlayerFromRoom, ThreadInv, HandlersHaveRooms
<1>1. PICK p \in Player : p = Asker(t)
  BY <1>0, HandlerFacts
<1>2. /\ roomOf' = [roomOf EXCEPT ![p] = NoRoom]
      /\ unmapping' = unmapping \ {t} /\ Return(t)
      /\ UNCHANGED <<created, solo, seatOf, ready, phase>>
      /\ listed' \subseteq listed /\ \A q \in listed \ listed' : Humans(q) = {}
  BY <1>1 DEF RemovePlayerFromRoom, roomVars, IsEmpty
<1>3. roomOf' \in [Player -> Room \cup {NoRoom}] /\ roomOf'[p] = NoRoom /\ \A u \in Player \ {p} : roomOf'[u] = roomOf[u]
  BY <1>2 DEF ThreadInv, RoomsTypeOK
<1>4. /\ ThreadInv'
      /\ \A u, q : Leaving(u, q) /\ u # p => Leaving(u, q)'
  <2>1. /\ seatOf' \in [Room -> [Player -> Seat \cup {NoSeat}]] /\ ready' \in [Room -> SUBSET Player]
        /\ phase' \in [Room -> Phases]
    BY <1>2 DEF ThreadInv, RoomsTypeOK
  <2> QED
    BY <1>1, <1>2, <1>3, <2>1, ReturnKeeps
<1> QED
  BY <1>2, <1>3, <1>4, UnmappedKeeps

\* A member moves to a seat that nobody else has.
LEMMA ChangeSeatKeeps ==
  ASSUME ThreadInv, MemberInv, NEW t \in Thread, HandleChangeSeat(t)
  PROVE  ThreadInv' /\ MemberInv'
<1>1. /\ running[t] # NoTask /\ t \notin unmapping /\ Return(t)
      /\ running[t].req.kind = "change_seat"
      /\ UNCHANGED <<listed, created, roomOf, solo, phase, unmapping>>
  BY DEF HandleChangeSeat, Handles, registryVars
<1>2. PICK p \in Player : p = Asker(t)
  BY <1>1, HandlerFacts
<1>3. PICK n \in Seat : n = running[t].req.seat
  BY <1>1, HandlerFacts
<1>4. PICK q \in Room : q = found[t] /\ q \in created
  BY <1>1, HandlerFacts
<1>5. CASE UNCHANGED <<seatOf, ready>>
  BY <1>1, <1>5, QuietHandlerKeeps DEF ThreadInv, RoomsTypeOK, MemberInv, ReadyAreMembers
<1>6. CASE /\ p \in Humans(q) /\ n \notin Taken(q) \ {seatOf[q][p]}
           /\ seatOf' = [seatOf EXCEPT ![q][p] = n]
           /\ ready' = [ready EXCEPT ![q] = @ \ {p}]
  <2>1. /\ \A r \in Room \ {q} : seatOf'[r] = seatOf[r] /\ ready'[r] = ready[r]
        /\ seatOf'[q][p] = n /\ \A u \in Player \ {p} : seatOf'[q][u] = seatOf[q][u]
        /\ ready'[q] = ready[q] \ {p}
    BY <1>6 DEF ThreadInv, RoomsTypeOK
  <2>2. \A r \in Room : Humans(r)' = Humans(r)
    <3>1. Humans(q)' = Humans(q)
      BY <1>6, <2>1, SeatFacts DEF Humans
    <3> QED
      BY <2>1, <3>1 DEF Humans
  <2>3. \A r \in Room : BotSeats(r)' = BotSeats(r)
    BY <1>1 DEF BotSeats
  <2>4. /\ ThreadInv'
        /\ \A u \in unmapping : found'[u] = found[u] /\ running'[u] = running[u]
    <3>1. /\ seatOf' \in [Room -> [Player -> Seat \cup {NoSeat}]] /\ ready' \in [Room -> SUBSET Player]
          /\ roomOf' \in [Player -> Room \cup {NoRoom}] /\ phase' \in [Room -> Phases]
      BY <1>1, <1>6 DEF ThreadInv, RoomsTypeOK
    <3>2. unmapping' = unmapping \ {t} /\ unmapping' = unmapping /\ listed' \subseteq listed
      BY <1>1
    <3> QED
      BY <1>1, <3>1, <3>2, ReturnKeeps
  <2>5. WhoIsWhere'
    <3>1. \A u, r : Leaving(u, r) => Leaving(u, r)'
      BY <1>1, <2>4, StillLeaving
    <3> QED
      BY <1>1, <2>2, <3>1 DEF MemberInv, WhoIsWhere, IsThere
  <2>6. SeatsDistinct'
    <3> SUFFICES ASSUME NEW r \in Room, NEW u \in Humans(r)', NEW v \in Humans(r)'
                 PROVE  seatOf'[r][u] \in Seat \ BotSeats(r)' /\ (seatOf'[r][u] = seatOf'[r][v] => u = v)
      BY DEF SeatsDistinct
    <3>1. CASE r # q
      BY <2>1, <2>2, <2>3, <3>1 DEF MemberInv, SeatsDistinct
    <3>2. CASE r = q
      <4>1. /\ \A x \in Humans(q) \ {p} : seatOf'[q][x] = seatOf[q][x] /\ seatOf[q][x] # seatOf[q][p]
            /\ seatOf[q][p] \in Seat \ BotSeats(q)
        BY <1>6, <2>1 DEF MemberInv, SeatsDistinct, Humans
      <4>2. \A x \in Humans(q) \ {p} : n # seatOf[q][x]
        BY <1>6, <4>1 DEF Taken
      <4>3. n \in Seat \ BotSeats(q)
        BY <1>6, <4>1 DEF Taken
      <4>4. u \in Humans(q) /\ v \in Humans(q) /\ BotSeats(q)' = BotSeats(q)
        BY <2>2, <2>3, <3>2
      <4> QED
        BY <2>1, <3>2, <4>1, <4>2, <4>3, <4>4 DEF MemberInv, SeatsDistinct
    <3> QED
      BY <3>1, <3>2
  <2>7. UncreatedIsBlank' /\ ReadyAreMembers'
    BY <1>1, <2>1, <2>2 DEF MemberInv, UncreatedIsBlank, ReadyAreMembers
  <2> QED
    BY <2>4, <2>5, <2>6, <2>7 DEF MemberInv
<1> QED
  BY <1>1, <1>2, <1>3, <1>4, <1>5, <1>6 DEF HandleChangeSeat

\* A vote that is not unanimous changes the vote alone; one that is takes the room
\* from the registry and unmaps its members, perhaps from another room.
LEMMA TallyKeeps ==
  ASSUME ThreadInv, MemberInv, NEW t \in Thread, t \notin unmapping, Return(t),
         UNCHANGED <<created, roomVars, unmapping>>,
         NEW r \in Room, RemoveRoom(r) \/ UNCHANGED <<listed, roomOf>>
  PROVE  ThreadInv' /\ MemberInv'
<1>1. UNCHANGED <<created, solo, seatOf, ready, phase, unmapping>>
  BY DEF roomVars
<1>2. /\ listed' \subseteq listed /\ roomOf' \in [Player -> Room \cup {NoRoom}]
      /\ \A u \in Player : roomOf'[u] # NoRoom =>
             roomOf'[u] = roomOf[u] /\ \A q \in listed \ listed' : u \notin Humans(q)
  BY DEF RemoveRoom, ThreadInv, RoomsTypeOK
<1>3. /\ ThreadInv'
      /\ \A u \in unmapping : found'[u] = found[u] /\ running'[u] = running[u]
  <2>1. /\ seatOf' \in [Room -> [Player -> Seat \cup {NoSeat}]] /\ ready' \in [Room -> SUBSET Player]
        /\ phase' \in [Room -> Phases] /\ unmapping' = unmapping \ {t} /\ unmapping' = unmapping
    BY <1>1 DEF ThreadInv, RoomsTypeOK
  <2> QED
    BY <1>1, <1>2, <2>1, ReturnKeeps
<1>4. \A u, q : Leaving(u, q) => Leaving(u, q)'
  BY <1>1, <1>3, StillLeaving
<1> QED
  BY <1>1, <1>2, <1>3, <1>4, UnmappedKeeps

\* A request to dismiss begins a vote, or dissolves the room of its only player.
LEMMA RequestDismissKeeps ==
  ASSUME ThreadInv, MemberInv, NEW t \in Thread, HandleRequestDismiss(t)
  PROVE  ThreadInv' /\ MemberInv'
<1>1. running[t] # NoTask /\ t \notin unmapping /\ Return(t) /\ UNCHANGED <<created, roomVars, unmapping>>
  BY DEF HandleRequestDismiss, Handles
<1>2. RemoveRoom(found[t]) \/ UNCHANGED <<listed, roomOf>>
  BY DEF HandleRequestDismiss, Tally
<1> QED
  BY <1>1, <1>2, HandlerFacts, TallyKeeps

\* The last vote for it dissolves a room, a vote against ends the matter.
LEMMA VoteDismissKeeps ==
  ASSUME ThreadInv, MemberInv, NEW t \in Thread, HandleVoteDismiss(t)
  PROVE  ThreadInv' /\ MemberInv'
<1>1. running[t] # NoTask /\ t \notin unmapping /\ Return(t) /\ UNCHANGED <<created, roomVars, unmapping>>
  BY DEF HandleVoteDismiss, Handles
<1>2. RemoveRoom(found[t]) \/ UNCHANGED <<listed, roomOf>>
  BY DEF HandleVoteDismiss, Tally
<1> QED
  BY <1>1, <1>2, HandlerFacts, TallyKeeps

-----------------------------------------------------------------------------
(* A settlement *)

\* The seats of a room are enough for everyone in it.
LEMMA SeatsSuffice ==
  ASSUME RoomsTypeOK, SeatsDistinct, NEW r \in Room
  PROVE  /\ IsFiniteSet(Humans(r))
         /\ Cardinality(BotSeats(r)) \in Nat /\ Cardinality(Humans(r)) \in Nat
         /\ Cardinality(BotSeats(r)) + Cardinality(Humans(r)) <= Capacity
<1> DEFINE free == Seat \ BotSeats(r)
           f == [p \in Humans(r) |-> seatOf[r][p]]
<1>1. IsFiniteSet(Seat) /\ Cardinality(Seat) = Capacity
  <2>1. 0 \in Int /\ Capacity - 1 \in Int /\ 0 <= Capacity - 1
    BY CapacityAssumption
  <2>2. IsFiniteSet(0..(Capacity - 1)) /\ Cardinality(0..(Capacity - 1)) = (Capacity - 1) - 0 + 1
    BY <2>1, FS_Interval
  <2> QED
    BY <2>2, CapacityAssumption DEF Seat
<1>2. BotSeats(r) \subseteq Seat
  BY DEF BotSeats
<1>3. IsFiniteSet(BotSeats(r)) /\ Cardinality(BotSeats(r)) \in Nat
  BY <1>1, <1>2, FS_Subset, FS_CardinalityType
<1>4. IsFiniteSet(free) /\ Cardinality(free) = Capacity - Cardinality(BotSeats(r))
  <2>1. IsFiniteSet(free) /\ Cardinality(free) = Cardinality(Seat) - Cardinality(Seat \cap BotSeats(r))
    BY <1>1, FS_Difference
  <2>2. Seat \cap BotSeats(r) = BotSeats(r)
    BY <1>2
  <2> QED
    BY <1>1, <2>1, <2>2
<1>5. IsFiniteSet(Humans(r)) /\ Cardinality(Humans(r)) \in Nat
  <2>1. Humans(r) \in SUBSET Player
    BY DEF Humans
  <2> QED
    BY <2>1, PlayersAssumption, FS_Subset, FS_CardinalityType
<1>6. f \in Injection(Humans(r), free)
  <2>1. f \in [Humans(r) -> free]
    BY DEF SeatsDistinct
  <2>2. \A a, b \in DOMAIN f : f[a] = f[b] => a = b
    BY DEF SeatsDistinct
  <2> QED
    BY <2>1, <2>2 DEF Injection, IsInjective
<1>7. Cardinality(Humans(r)) <= Cardinality(free)
  BY <1>4, <1>6, FS_Injection
<1> QED
  BY <1>3, <1>4, <1>5, <1>7, CapacityAssumption

\* Who leaves a room makes a seat free in it.
LEMMA LeavingMakesRoom ==
  ASSUME RoomsTypeOK, SeatsDistinct, NEW r \in Room, NEW p \in Humans(r),
         Humans(r)' = Humans(r) \ {p}, BotSeats(r)' = BotSeats(r)
  PROVE  ~IsFull(r)'
<1>1. Cardinality(Humans(r) \ {p}) = Cardinality(Humans(r)) - 1
  BY SeatsSuffice, FS_RemoveElement
<1>2. IsFull(r)' <=> Cardinality(BotSeats(r)) + Cardinality(Humans(r) \ {p}) >= Capacity
  BY DEF IsFull
<1> QED
  BY <1>1, <1>2, SeatsSuffice, CapacityAssumption

\* Bots alone do not fill a room: they leave the owner's seat.
LEMMA BotsAreNotFull ==
  ASSUME NEW r \in Room, Humans(r) = {}
  PROVE  ~IsFull(r)
<1>1. IsFiniteSet(Seat) /\ Cardinality(Seat) = Capacity
  <2>1. 0 \in Int /\ Capacity - 1 \in Int /\ 0 <= Capacity - 1
    BY CapacityAssumption
  <2>2. IsFiniteSet(0..(Capacity - 1)) /\ Cardinality(0..(Capacity - 1)) = (Capacity - 1) - 0 + 1
    BY <2>1, FS_Interval
  <2> QED
    BY <2>2, CapacityAssumption DEF Seat
<1>2. IsFiniteSet(Seat \ {0}) /\ Cardinality(Seat \ {0}) = Capacity - 1
  BY <1>1, SeatFacts, FS_RemoveElement
<1>3. Cardinality({}) = 0
  BY FS_EmptySet
<1> QED
  BY <1>2, <1>3, CapacityAssumption DEF IsFull, BotSeats

\* A step after which no room has come to wait, nor to be ready, for a round.
LEMMA StillWaits ==
  ASSUME SettlementWaits,
         \A r \in Room : phase'[r] = "SETTLEMENT" =>
             ~AllReady(r)' \/ (phase[r] = "SETTLEMENT" /\ (AllReady(r)' => AllReady(r)))
  PROVE  SettlementWaits'
  BY DEF SettlementWaits

\* A room whose members stay, none of them newly ready, has not become ready.
LEMMA SameReadiness ==
  ASSUME NEW r \in Room, seatOf'[r] = seatOf[r], ready'[r] \subseteq ready[r], r \in solo' <=> r \in solo
  PROVE  AllReady(r)' => AllReady(r)
<1>1. Humans(r)' = Humans(r) /\ BotSeats(r)' = BotSeats(r)
  BY DEF Humans, BotSeats
<1> QED
  BY <1>1 DEF AllReady, IsFull

\* Only the last to get ready completes a settlement, and ends it in the same step.
LEMMA SettlementWaitsNext ==
  ASSUME RoomsInv, [Next]_vars
  PROVE  SettlementWaits'
<1> USE DEF RoomsInv
<1>1. ASSUME NEW s \in Session, NEW mode, HandleCreateRoom(s, mode) PROVE SettlementWaits'
  <2>1. PICK r \in Room :
          /\ r \notin created
          /\ solo' = (IF mode = "solo" THEN solo \cup {r} ELSE solo)
          /\ seatOf' = [seatOf EXCEPT ![r][PlayerOf[s]] = 0]
    BY <1>1 DEF HandleCreateRoom
  <2>2. UNCHANGED <<ready, phase>>
    BY <1>1 DEF HandleCreateRoom
  <2>3. phase'[r] = "WAITING"
    BY <2>1, <2>2 DEF MemberInv, UncreatedIsBlank
  <2>4. \A q \in Room \ {r} : seatOf'[q] = seatOf[q] /\ (q \in solo' <=> q \in solo)
    BY <2>1 DEF ThreadInv, RoomsTypeOK
  <2>5. \A q \in Room \ {r} : AllReady(q)' => AllReady(q)
    BY <2>2, <2>4, SameReadiness
  <2> QED
    BY <2>2, <2>3, <2>5, StillWaits
<1>2. ASSUME UNCHANGED roomVars PROVE SettlementWaits'
  BY <1>2, SameReadiness, StillWaits DEF roomVars
<1>3. ASSUME NEW t \in Thread, Join(t) PROVE SettlementWaits'
  <2>1. UNCHANGED <<solo, ready, phase>>
    BY <1>3 DEF Join
  <2>2. CASE UNCHANGED seatOf
    BY <2>1, <2>2, SameReadiness, StillWaits
  <2>3. ASSUME NEW r \in listed, NEW p \in Player, NEW n \in Seat, p \notin Humans(r),
               seatOf' = [seatOf EXCEPT ![r][p] = n]
        PROVE  SettlementWaits'
    <3>1. r \in Room /\ p \in Humans(r)' /\ \A u \in Room \ {r} : seatOf'[u] = seatOf[u]
      BY <2>3, SeatFacts DEF Humans, ThreadInv, RoomsTypeOK
    <3>2. p \notin ready'[r]
      BY <2>1, <2>3, <3>1 DEF MemberInv, ReadyAreMembers
    <3>3. ~AllReady(r)'
      BY <3>1, <3>2 DEF AllReady
    <3>4. \A u \in Room \ {r} : AllReady(u)' => AllReady(u)
      BY <2>1, <3>1, SameReadiness
    <3> QED
      BY <2>1, <3>3, <3>4, StillWaits
  <2> QED
    BY <1>3, <2>2, <2>3, JoinEffect
<1>4. ASSUME NEW t \in Thread, Leave(t) PROVE SettlementWaits'
  <2>0. PICK p \in Player, r \in Room : LeavesAs(t, p, r)
    BY <1>4, LeaveEffect
  <2>1. /\ \A q \in Room \ {r} : seatOf'[q] = seatOf[q] /\ ready'[q] = ready[q]
        /\ ready'[r] = ready[r] \ {p}
        /\ Humans(r)' = Humans(r) \ {p} /\ UNCHANGED <<solo, phase>>
    BY <2>0 DEF LeavesAs
  <2>2. \A q \in Room \ {r} : AllReady(q)' => AllReady(q)
    BY <2>1, SameReadiness
  <2>3. AllReady(r)' => AllReady(r)
    <3>1. CASE p \in Humans(r)
      <4>1. BotSeats(r)' = BotSeats(r)
        BY <2>1 DEF BotSeats
      <4> QED
        BY <2>1, <3>1, <4>1, LeavingMakesRoom DEF AllReady, ThreadInv, MemberInv
    <3>2. CASE p \notin Humans(r)
      <4>1. Humans(r)' = Humans(r) /\ BotSeats(r)' = BotSeats(r) /\ ready'[r] \subseteq ready[r]
        BY <2>1, <3>2 DEF BotSeats
      <4> QED
        BY <4>1 DEF AllReady, IsFull
    <3> QED
      BY <3>1, <3>2
  <2> QED
    BY <2>1, <2>2, <2>3, StillWaits
<1>5. ASSUME NEW t \in Thread, HandleReady(t) PROVE SettlementWaits'
  <2>1. PICK r \in Room : r = found[t]
    BY <1>5, HandlerFacts DEF HandleReady, Handles
  <2>2. UNCHANGED <<solo, seatOf>>
    BY <1>5 DEF HandleReady
  <2>3. \A q \in Room : Humans(q)' = Humans(q) /\ (IsFull(q)' <=> IsFull(q))
    BY <2>2 DEF Humans, BotSeats, IsFull
  <2>4. \A q \in Room \ {r} : phase'[q] = phase[q] /\ ready'[q] = ready[q]
    BY <1>5, <2>1 DEF HandleReady, ThreadInv, RoomsTypeOK
  <2>5. phase'[r] = "SETTLEMENT" => ~AllReady(r)'
    BY <1>5, <2>1, <2>3 DEF HandleReady, AllReady, ThreadInv, RoomsTypeOK
  <2>6. \A q \in Room \ {r} : AllReady(q)' => AllReady(q)
    BY <2>2, <2>4, SameReadiness
  <2> QED
    BY <2>4, <2>5, <2>6, StillWaits
<1>6. ASSUME NEW t \in Thread, HandleUnready(t) PROVE SettlementWaits'
  <2>1. UNCHANGED <<solo, seatOf, phase>>
    BY <1>6 DEF HandleUnready
  <2>2. \A r \in Room : ready'[r] \subseteq ready[r]
    BY <1>6 DEF HandleUnready, ThreadInv, RoomsTypeOK
  <2> QED
    BY <2>1, <2>2, SameReadiness, StillWaits
<1>7. ASSUME NEW t \in Thread, HandleChangeSeat(t) PROVE SettlementWaits'
  <2>1. UNCHANGED <<solo, phase>>
    BY <1>7 DEF HandleChangeSeat
  <2>2. \A r \in Room : phase[r] = "WAITING" \/ (seatOf'[r] = seatOf[r] /\ ready'[r] = ready[r])
    BY <1>7 DEF HandleChangeSeat, ThreadInv, RoomsTypeOK
  <2> QED
    BY <2>1, <2>2, SameReadiness, StillWaits
<1>8. ASSUME NEW t \in Thread, HandleStartGame(t) PROVE SettlementWaits'
  <2>1. UNCHANGED <<solo, seatOf, ready>>
    BY <1>8 DEF HandleStartGame
  <2>2. \A r \in Room : phase'[r] = "SETTLEMENT" => phase[r] = "SETTLEMENT"
    BY <1>8 DEF HandleStartGame, ThreadInv, RoomsTypeOK
  <2> QED
    BY <2>1, <2>2, SameReadiness, StillWaits
<1>9. ASSUME NEW r \in Room, NEW won \in BOOLEAN, GameEnds(r, won) PROVE SettlementWaits'
  <2>1. UNCHANGED <<solo, seatOf>> /\ \A q \in Room \ {r} : phase'[q] = phase[q] /\ ready'[q] = ready[q]
    BY <1>9 DEF GameEnds, ThreadInv, RoomsTypeOK
  <2>2. ~won => ready'[r] = {}
    BY <1>9 DEF GameEnds, ThreadInv, RoomsTypeOK
  <2>3. won => phase'[r] = "FINISHED"
    BY <1>9 DEF GameEnds, ThreadInv, RoomsTypeOK
  <2>4. Humans(r)' = Humans(r) /\ (IsFull(r)' <=> IsFull(r))
    BY <2>1 DEF Humans, BotSeats, IsFull
  <2>5. ~won => ~AllReady(r)'
    BY <2>2, <2>4, BotsAreNotFull DEF AllReady
  <2>6. \A q \in Room \ {r} : AllReady(q)' => AllReady(q)
    BY <2>1, SameReadiness
  <2> QED
    BY <2>1, <2>3, <2>5, <2>6, StillWaits
<1>10. ASSUME NEW t \in Thread, Act(t) PROVE SettlementWaits'
  <2>1. CASE TellMembers(t)
    BY <1>2, <2>1 DEF TellMembers
  <2>2. CASE RemovePlayerFromRoom(t)
    BY <1>2, <2>2 DEF RemovePlayerFromRoom
  <2>3. CASE HandleRequestDismiss(t)
    BY <1>2, <2>3 DEF HandleRequestDismiss
  <2>4. CASE HandleVoteDismiss(t)
    BY <1>2, <2>4 DEF HandleVoteDismiss
  <2> QED
    BY <1>4, <1>5, <1>6, <1>7, <1>8, <1>10, <2>1, <2>2, <2>3, <2>4 DEF Act
<1>11. ASSUME NEW s \in Session, NEW q \in Requests, NEW named, Dispatch(s, q, named) PROVE SettlementWaits'
  BY <1>2, <1>11 DEF Dispatch
<1>12. ASSUME NEW t \in Thread, Lookup(t) PROVE SettlementWaits'
  BY <1>2, <1>12 DEF Lookup
<1>13. CASE UNCHANGED vars
  BY <1>2, <1>13 DEF vars
<1> QED
  BY <1>1, <1>3, <1>9, <1>10, <1>11, <1>12, <1>13 DEF Next

-----------------------------------------------------------------------------
\* So every step keeps requests, members and settlements in order.
LEMMA RoomsInvNext ==
  ASSUME RoomsInv, [Next]_vars
  PROVE  RoomsInv'
<1> USE DEF RoomsInv
<1>1. ASSUME NEW s \in Session, NEW mode \in {"solo", "six"}, HandleCreateRoom(s, mode)
      PROVE  ThreadInv' /\ MemberInv'
  BY <1>1, CreateKeeps
<1>2. ASSUME NEW s \in Session, NEW q \in Requests, NEW named, Dispatch(s, q, named)
      PROVE  ThreadInv' /\ MemberInv'
  BY <1>2, DispatchKeeps
<1>3. ASSUME NEW t \in Thread, Lookup(t) PROVE ThreadInv' /\ MemberInv'
  BY <1>3, LookupKeeps
<1>4. ASSUME NEW t \in Thread, Join(t) PROVE ThreadInv' /\ MemberInv'
  BY <1>4, JoinKeeps
<1>5. ASSUME NEW t \in Thread, Act(t) PROVE ThreadInv' /\ MemberInv'
  BY <1>5, TellMembersKeeps, LeaveKeeps, RemovePlayerKeeps, ReadyKeeps, UnreadyKeeps,
     ChangeSeatKeeps, StartGameKeeps, RequestDismissKeeps, VoteDismissKeeps
  DEF Act
<1>6. ASSUME NEW r \in Room, NEW won \in BOOLEAN, GameEnds(r, won) PROVE ThreadInv' /\ MemberInv'
  BY <1>6, GameEndsKeeps
<1>7. ASSUME UNCHANGED vars PROVE ThreadInv' /\ MemberInv'
  <2>1. UNCHANGED <<listed, created, roomOf, solo, seatOf, ready, phase, queue, running, found, unmapping>>
    BY <1>7 DEF vars, registryVars, roomVars, threadVars
  <2>2. ThreadInv'
    BY <2>1 DEF ThreadInv, RoomsTypeOK, HandlersHaveRooms
  <2> QED
    BY <2>1, <2>2, SameMembers DEF MemberInv, ReadyAreMembers
<1>8. ThreadInv' /\ MemberInv'
  BY <1>1, <1>2, <1>3, <1>4, <1>5, <1>6, <1>7 DEF Next
<1>9. SettlementWaits'
  BY SettlementWaitsNext
<1> QED
  BY <1>8, <1>9

\* The invariant holds in every state.
LEMMA RoomsInvAlways == Spec => []RoomsInv
<1>1. Init => RoomsInv
  BY InvInit DEF RoomsInv
<1>2. RoomsInv /\ [Next]_vars => RoomsInv'
  BY RoomsInvNext
<1> QED
  BY <1>1, <1>2, PTL DEF Spec

-----------------------------------------------------------------------------
\* removePlayerFromRoom and removeRoom (room_manager.cpp) leave nobody mapped to a
\* room that is gone or that they have left, but for a player between the steps
\* of a leave: however many leaves, joins and votes overlap, nobody is shut out.
THEOREM RoomsMappedAreThere == Spec => []MappedAreThere
<1>1. RoomsInv => MappedAreThere
  BY DEF RoomsInv, ThreadInv, RoomsTypeOK, MemberInv, WhoIsWhere, IsThere, MappedAreThere
<1> QED
  BY <1>1, RoomsInvAlways, PTL

\* Joining, changing seats and leaving keep the seats of a room distinct (room.cpp),
\* on whichever threads they are handled.
THEOREM RoomsSeatsDistinct == Spec => []SeatsDistinct
<1>1. RoomsInv => SeatsDistinct
  BY DEF RoomsInv, MemberInv
<1> QED
  BY <1>1, RoomsInvAlways, PTL

\* tryStartNextRound never leaves a full room waiting in which everyone is ready:
\* not when the one it waited for leaves, nor when another takes the seat.
THEOREM RoomsSettlementWaits == Spec => []SettlementWaits
<1>1. RoomsInv => SettlementWaits
  BY DEF RoomsInv
<1> QED
  BY <1>1, RoomsInvAlways, PTL

-----------------------------------------------------------------------------
\* The rooms that a step takes away with people in them, one of whom asked.
Consented(r) ==
    \E t \in Thread :
        /\ found[t] = r /\ Asks(t)
        /\ asked[r] = {} => Humans(r) = {Asker(t)}
        /\ asked[r] \cap Humans(r) \subseteq agreed[r] \cup {Asker(t)}

\* A tally takes no room but its own, and that one by consent only.
LEMMA TallyTakesOne ==
  ASSUME NEW r, NEW all, NEW yes, Tally(r, all, yes), NEW q \in listed \ listed'
  PROVE  q = r /\ AllAgreed(yes, all)
  BY DEF Tally, RemoveRoom

\* dismiss_vote.cpp and its two handlers, whichever threads they run on: while
\* there are people in a room it goes only when one of them asks and nobody who is
\* there and was asked has not agreed.
THEOREM RoomsDissolvedByConsent == Spec => DissolvedByConsent
<1>1. ASSUME NEW s \in Session, NEW mode \in {"solo", "six"}, HandleCreateRoom(s, mode)
      PROVE  listed \subseteq listed'
  BY <1>1 DEF HandleCreateRoom
<1>2. ASSUME NEW t \in Thread, RemovePlayerFromRoom(t), NEW r \in listed \ listed'
      PROVE  Humans(r) = {}
  BY <1>2 DEF RemovePlayerFromRoom, IsEmpty
<1>3. ASSUME NEW t \in Thread, HandleRequestDismiss(t), NEW r \in listed \ listed'
      PROVE  Consented(r)
  <2>1. asked[found[t]] = {} /\ Tally(found[t], Humans(found[t]), {Asker(t)})
    BY <1>3 DEF HandleRequestDismiss
  <2>2. r = found[t] /\ Humans(r) = {Asker(t)}
    BY <1>3, <2>1, TallyTakesOne DEF AllAgreed
  <2>3. Asks(t)
    BY <1>3 DEF HandleRequestDismiss, Asks
  <2> QED
    BY <2>1, <2>2, <2>3 DEF Consented
<1>4. ASSUME NEW t \in Thread, HandleVoteDismiss(t), NEW r \in listed \ listed'
      PROVE  Consented(r)
  <2>1. Asker(t) \in asked[found[t]]
    BY <1>4 DEF HandleVoteDismiss
  <2>2. CASE running[t].req.agree
    <3>1. Tally(found[t], asked[found[t]], agreed[found[t]] \cup {Asker(t)})
      BY <1>4, <2>1, <2>2 DEF HandleVoteDismiss
    <3>2. r = found[t] /\ agreed[r] \cup {Asker(t)} = asked[r]
      BY <1>4, <3>1, TallyTakesOne DEF AllAgreed
    <3>3. Asks(t)
      BY <1>4, <2>2 DEF HandleVoteDismiss, Asks
    <3> QED
      BY <2>1, <3>2, <3>3 DEF Consented
  <2>3. CASE ~running[t].req.agree
    <3>1. Tally(found[t], {}, {})
      BY <1>4, <2>1, <2>3 DEF HandleVoteDismiss
    <3> QED
      BY <1>4, <3>1, TallyTakesOne DEF AllAgreed
  <2> QED
    BY <2>2, <2>3
<1>5. ASSUME NEW t \in Thread, Act(t), NEW r \in listed \ listed', Humans(r) # {}
      PROVE  Consented(r)
  BY <1>2, <1>3, <1>4, <1>5
  DEF Act, TellMembers, Leave, HandleReady, HandleUnready, HandleChangeSeat, HandleStartGame, registryVars
<1>6. ASSUME NEW r \in listed \ listed', Humans(r) # {}, [Next]_vars
      PROVE  Consented(r)
  BY <1>1, <1>5, <1>6
  DEF Next, Dispatch, Lookup, Join, GameEnds, registryVars, vars
<1>7. [Next]_vars => [\A r \in listed \ listed' : Humans(r) # {} => Consented(r)]_vars
  BY <1>6
<1> QED
  BY <1>7, PTL DEF Spec, DissolvedByConsent, Consented
=============================================================================
