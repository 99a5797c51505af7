----------------------------- MODULE VoiceRelay ------------------------------
(***************************************************************************)
(* The voice relay: one thread receives packets (voice_server.cpp) and keeps *)
(* who is in which voice room (voice_room_manager.cpp).  Packets may be lost, *)
(* doubled and overtaken, so any packet may come at any time.  After a packet *)
(* it forgets those who have been silent for long, if it has not looked for  *)
(* some time.                                                               *)
(***************************************************************************)
EXTENDS Integers, FiniteSets

CONSTANTS
    Speaker,       \* users
    VoiceRoom,
    Address,
    MaxIdle,       \* for how long a user may be silent: 30 s
    PruneEvery     \* how often the silent ones are looked for: 5 s

ASSUME VoiceTimesAssumption == MaxIdle \in Nat /\ PruneEvery \in Nat

VARIABLES
    clients,       \* clients_: [user -> room and address], a function on those there
    roomMembers,   \* roomMembers_: [room -> users], on the rooms there are
    silence,       \* [user -> time since lastSeen]
    sincePrune,    \* time since lastPrune
    sincePacket,   \* time since a packet was handled
    relayed        \* who was sent the last packet: pairs of its speaker and a user

voiceVars == <<clients, roomMembers, silence, sincePrune, sincePacket, relayed>>

\* Times are told apart up to here.
Longest == MaxIdle + PruneEvery + 2
Later(t) == IF t < Longest THEN t + 1 ELSE t

Packets ==
    [type : {"join"}, user : Speaker, room : VoiceRoom, from : Address]
        \cup [type : {"leave", "heartbeat", "audio"}, user : Speaker, from : Address]

VoiceInit ==
    /\ clients = << >> /\ roomMembers = << >>
    /\ silence = [u \in Speaker |-> 0]
    /\ sincePrune = 0 /\ sincePacket = 0
    /\ relayed = {}

Tick ==
    /\ silence' = [u \in Speaker |-> IF u \in DOMAIN clients THEN Later(silence[u]) ELSE 0]
    /\ sincePrune' = Later(sincePrune)
    /\ sincePacket' = Later(sincePacket)
    /\ UNCHANGED <<clients, roomMembers, relayed>>

-----------------------------------------------------------------------------
RoomOf(u) == IF u \in DOMAIN clients THEN clients[u].room ELSE "none"

\* removeFromRoom, for each of the users: they leave the room they are known to be
\* in, which goes with the last of them.
RemoveFromRooms(rooms, users) ==
    LET leaving(r) == {u \in users : RoomOf(u) = r}
    IN  [r \in {r \in DOMAIN rooms : ~(rooms[r] \subseteq leaving(r))} |-> rooms[r] \ leaving(r)]

AddToRoom(rooms, r, u) ==
    [q \in DOMAIN rooms \cup {r} |->
        (IF q \in DOMAIN rooms THEN rooms[q] ELSE {}) \cup (IF q = r THEN {u} ELSE {})]

\* Mutant of JoinedRooms: who joins another room stays in the first.
JoinedRoomsToo(u, r) == AddToRoom(roomMembers, r, u)

\* The rooms after join.
JoinedRooms(u, r) ==
    AddToRoom(IF RoomOf(u) # r THEN RemoveFromRooms(roomMembers, {u}) ELSE roomMembers, r, u)

\* What a packet does to the clients and the rooms.
ClientsAfter(p) ==
    CASE p.type = "join" ->
            [u \in DOMAIN clients \cup {p.user} |->
                IF u = p.user THEN [room |-> p.room, from |-> p.from] ELSE clients[u]]
      [] p.type = "leave" -> [u \in DOMAIN clients \ {p.user} |-> clients[u]]
      [] OTHER -> [u \in DOMAIN clients |->
                      IF u = p.user THEN [clients[u] EXCEPT !.from = p.from] ELSE clients[u]]

RoomsAfter(p) ==
    CASE p.type = "join" -> JoinedRooms(p.user, p.room)
      [] p.type = "leave" -> RemoveFromRooms(roomMembers, {p.user})
      [] OTHER -> roomMembers

\* peersExcept, less those at the address that the packet came from.
PeersExcept(p) ==
    IF p.type = "audio" /\ p.user \in DOMAIN clients /\ RoomOf(p.user) \in DOMAIN roomMembers
    THEN {m \in roomMembers[RoomOf(p.user)] \ {p.user} :
             m \in DOMAIN clients /\ clients[m].from # p.from}
    ELSE {}

\* Mutant of Silent: they are spared for one more unit of time.
SilentLater(ages) == {u \in DOMAIN ages : ages[u] > MaxIdle + 1}

Silent(ages) == {u \in DOMAIN ages : ages[u] > MaxIdle}

\* One turn of the loop: the packet, and pruneIdle when it is time.
Receive(p) ==
    LET after == ClientsAfter(p)
        age == [u \in DOMAIN after |-> IF u = p.user THEN 0 ELSE silence[u]]
        gone == IF sincePrune > PruneEvery THEN Silent(age) ELSE {}
    IN
    /\ relayed' = {p.user} \X PeersExcept(p)
    /\ clients' = [u \in DOMAIN after \ gone |-> after[u]]
    /\ roomMembers' = RemoveFromRooms(RoomsAfter(p), gone)
    /\ silence' = [u \in Speaker |-> IF u \in DOMAIN clients' THEN age[u] ELSE 0]
    /\ sincePrune' = IF sincePrune > PruneEvery THEN 0 ELSE sincePrune
    /\ sincePacket' = 0

VoiceNext ==
    \/ Tick
    \/ \E p \in Packets : Receive(p)

VoiceSpec == VoiceInit /\ [][VoiceNext]_voiceVars

-----------------------------------------------------------------------------
(* Properties *)

\* A user is heard in one room, the one they joined last, and no room is kept for
\* nobody, in whatever order packets come; a packet goes to no other room, and not
\* back to its speaker.
VoiceRoomsAgree ==
    /\ \A r \in DOMAIN roomMembers : roomMembers[r] # {}
    /\ \A r \in VoiceRoom : {u \in DOMAIN clients : clients[u].room = r} =
           IF r \in DOMAIN roomMembers THEN roomMembers[r] ELSE {}
    /\ \A heard \in relayed :
           /\ heard[1] # heard[2]
           /\ {heard[1], heard[2]} \subseteq DOMAIN clients =>
                  clients[heard[1]].room = clients[heard[2]].room

\* The relay is rid of a silent user in time: when packets come, nobody is kept
\* who has been silent for longer than the two periods together.
SilentUsersGo ==
    \A u \in DOMAIN clients : silence[u] - sincePacket <= MaxIdle + PruneEvery
=============================================================================
