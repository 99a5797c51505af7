---------------------------- MODULE Voice_proofs -----------------------------
(***************************************************************************)
(* Who is heard where in the voice relay, and how long a silent user is       *)
(* kept, for any users, rooms, addresses and periods; who is listed in the    *)
(* rooms of the forwarding unit, and who hears whom, for any sockets, players *)
(* and rooms.                                                               *)
(***************************************************************************)
EXTENDS VoiceRelay, Forwarding, TLAPS

-----------------------------------------------------------------------------
(* The voice relay *)

Entry == [room : VoiceRoom, from : Address]

VoiceTypeOK ==
    /\ DOMAIN clients \subseteq Speaker
    /\ clients \in [DOMAIN clients -> Entry]
    /\ roomMembers = [r \in DOMAIN roomMembers |-> roomMembers[r]]
    /\ silence \in [Speaker -> Nat] /\ \A u \in Speaker : silence[u] <= Longest
    /\ sincePrune \in 0..Longest /\ sincePacket \in 0..Longest

\* The two tables c and t say the same of every user, and no room is empty.
Agree(c, t) ==
    /\ DOMAIN t \subseteq VoiceRoom
    /\ \A r \in DOMAIN t : t[r] # {}
    /\ \A u, r : (u \in DOMAIN c /\ c[u].room = r) <=> (r \in DOMAIN t /\ u \in t[r])

HeardInRoom ==
    \A heard \in relayed :
        /\ heard[1] # heard[2]
        /\ {heard[1], heard[2]} \subseteq DOMAIN clients =>
               clients[heard[1]].room = clients[heard[2]].room

\* Who was silent for too long at the last look was forgotten then.
SilentSinceLook == \A u \in DOMAIN clients : silence[u] <= MaxIdle + sincePrune

VoiceInv ==
    /\ VoiceTypeOK
    /\ Agree(clients, roomMembers)
    /\ HeardInRoom
    /\ SilentSinceLook
    /\ SilentUsersGo

\* At first nobody is in a voice room.
LEMMA VoiceInvInit == VoiceInit => VoiceInv
  BY VoiceTimesAssumption
  DEF VoiceInit, VoiceInv, VoiceTypeOK, Agree, HeardInRoom, SilentSinceLook, SilentUsersGo, Longest

-----------------------------------------------------------------------------
\* Who leaves a room leaves the table, and the last one takes the room along.
LEMMA RemoveAgrees ==
  ASSUME NEW c, NEW t, Agree(c, t), NEW users,
         \A u \in users : u \in DOMAIN c => u \in DOMAIN clients /\ clients[u].room = c[u].room
  PROVE  Agree([u \in DOMAIN c \ users |-> c[u]], RemoveFromRooms(t, users))
<1> DEFINE leaving(r) == {u \in users : RoomOf(u) = r}
           left == {r \in DOMAIN t : ~(t[r] \subseteq leaving(r))}
           new == RemoveFromRooms(t, users)
           d == [u \in DOMAIN c \ users |-> c[u]]
<1>1. DOMAIN new = left /\ \A r \in left : new[r] = t[r] \ leaving(r)
  BY DEF RemoveFromRooms
<1>2. \A r \in DOMAIN t : \A u \in t[r] : u \in leaving(r) <=> u \in users
  BY DEF Agree, RoomOf
<1>3. DOMAIN new \subseteq VoiceRoom /\ \A r \in DOMAIN new : new[r] # {}
  BY <1>1 DEF Agree
<1>4. ASSUME NEW u, NEW r, u \in DOMAIN d, d[u].room = r PROVE r \in DOMAIN new /\ u \in new[r]
  <2>1. r \in DOMAIN t /\ u \in t[r] /\ u \notin leaving(r)
    BY <1>4 DEF Agree
  <2> QED
    BY <1>1, <2>1
<1>5. ASSUME NEW u, NEW r, r \in DOMAIN new, u \in new[r] PROVE u \in DOMAIN d /\ d[u].room = r
  BY <1>1, <1>2, <1>5 DEF Agree
<1> HIDE DEF new, d
<1>6. Agree(d, new)
  BY <1>3, <1>4, <1>5 DEF Agree
<1> QED
  BY <1>6 DEF d, new

\* A user who is added to both tables makes them agree again.
LEMMA AddAgrees ==
  ASSUME NEW c, NEW t, Agree(c, t), NEW u, u \notin DOMAIN c, NEW r \in VoiceRoom,
         NEW e, DOMAIN e = DOMAIN c \cup {u}, e[u].room = r, \A v \in DOMAIN c : e[v] = c[v]
  PROVE  Agree(e, AddToRoom(t, r, u))
<1> DEFINE new == AddToRoom(t, r, u)
<1>1. /\ DOMAIN new = DOMAIN t \cup {r}
      /\ \A q \in DOMAIN t \ {r} : new[q] = t[q]
      /\ new[r] = (IF r \in DOMAIN t THEN t[r] ELSE {}) \cup {u}
  BY DEF AddToRoom
<1>2. \A q \in DOMAIN t : u \notin t[q]
  BY DEF Agree
<1> HIDE DEF new
<1>3. DOMAIN new \subseteq VoiceRoom /\ \A q \in DOMAIN new : new[q] # {}
  BY <1>1 DEF Agree
<1>4. ASSUME NEW v, NEW q PROVE (v \in DOMAIN e /\ e[v].room = q) <=> (q \in DOMAIN new /\ v \in new[q])
  <2>1. CASE v = u
    BY <1>1, <1>2, <2>1
  <2>2. CASE v # u
    BY <1>1, <2>2 DEF Agree
  <2> QED
    BY <2>1, <2>2
<1> QED
  BY <1>3, <1>4 DEF Agree, new

\* Who is known already in the room they join stays where they are.
LEMMA SameAgrees ==
  ASSUME NEW c, NEW t, Agree(c, t), NEW u, NEW r, u \in DOMAIN c, c[u].room = r,
         NEW e, DOMAIN e = DOMAIN c, e[u].room = r, \A v \in DOMAIN c \ {u} : e[v] = c[v]
  PROVE  Agree(e, AddToRoom(t, r, u))
<1> DEFINE new == AddToRoom(t, r, u)
<1>1. r \in DOMAIN t /\ u \in t[r]
  BY DEF Agree
<1>2. DOMAIN new = DOMAIN t /\ \A q \in DOMAIN t : new[q] = t[q]
  BY <1>1 DEF AddToRoom
<1> HIDE DEF new
<1> QED
  BY <1>2 DEF Agree, new

-----------------------------------------------------------------------------
\* The packet alone: the tables agree after each type of packet.
LEMMA PacketAgrees ==
  ASSUME VoiceInv, NEW p \in Packets
  PROVE  /\ Agree(ClientsAfter(p), RoomsAfter(p))
         /\ DOMAIN ClientsAfter(p) \subseteq Speaker
         /\ ClientsAfter(p) \in [DOMAIN ClientsAfter(p) -> Entry]
         /\ \A u \in DOMAIN ClientsAfter(p) \ {p.user} : u \in DOMAIN clients /\ ClientsAfter(p)[u] = clients[u]
<1> DEFINE u == p.user
           c == ClientsAfter(p)
<1>1. u \in Speaker /\ p.from \in Address
  BY DEF Packets
<1>2. CASE p.type = "join"
  <2> DEFINE r == p.room
  <2>1. r \in VoiceRoom
    BY <1>2 DEF Packets
  <2>2. c = [v \in DOMAIN clients \cup {u} |-> IF v = u THEN [room |-> r, from |-> p.from] ELSE clients[v]]
    BY <1>2 DEF ClientsAfter
  <2>3. RoomsAfter(p) = JoinedRooms(u, r)
    BY <1>2 DEF RoomsAfter
  <2>4. /\ DOMAIN c = DOMAIN clients \cup {u} /\ c[u].room = r
        /\ \A v \in DOMAIN clients \ {u} : c[v] = clients[v]
        /\ c \in [DOMAIN c -> Entry]
    BY <1>1, <2>1, <2>2 DEF VoiceInv, VoiceTypeOK, Entry
  <2> HIDE DEF c, r
  <2>5. Agree(c, JoinedRooms(u, r))
    <3>1. CASE RoomOf(u) # r
      <4> DEFINE d == [v \in DOMAIN clients \ {u} |-> clients[v]]
      <4>1. Agree(d, RemoveFromRooms(roomMembers, {u}))
        BY RemoveAgrees DEF VoiceInv
      <4>2. DOMAIN c = DOMAIN d \cup {u} /\ u \notin DOMAIN d /\ \A v \in DOMAIN d : c[v] = d[v]
        BY <2>4
      <4> HIDE DEF d, u
      <4>3. Agree(c, AddToRoom(RemoveFromRooms(roomMembers, {u}), r, u))
        BY <2>1, <2>4, <4>1, <4>2, AddAgrees
      <4> QED
        BY <3>1, <4>3 DEF JoinedRooms
    <3>2. CASE RoomOf(u) = r /\ u \in DOMAIN clients
      <4>1. clients[u].room = r /\ DOMAIN c = DOMAIN clients
        BY <2>4, <3>2 DEF RoomOf
      <4> HIDE DEF u
      <4>2. Agree(c, AddToRoom(roomMembers, r, u))
        BY <2>4, <3>2, <4>1, SameAgrees DEF VoiceInv
      <4> QED
        BY <3>2, <4>2 DEF JoinedRooms
    <3>3. CASE RoomOf(u) = r /\ u \notin DOMAIN clients
      <4>1. \A v \in DOMAIN clients : c[v] = clients[v]
        BY <2>4, <3>3
      <4> HIDE DEF u
      <4>2. Agree(c, AddToRoom(roomMembers, r, u))
        BY <2>1, <2>4, <3>3, <4>1, AddAgrees DEF VoiceInv
      <4> QED
        BY <3>3, <4>2 DEF JoinedRooms
    <3> QED
      BY <3>1, <3>2, <3>3
  <2> QED
    BY <1>1, <2>3, <2>4, <2>5 DEF c, VoiceInv, VoiceTypeOK
<1>3. CASE p.type = "leave"
  <2>1. c = [v \in DOMAIN clients \ {u} |-> clients[v]] /\ RoomsAfter(p) = RemoveFromRooms(roomMembers, {u})
    BY <1>3 DEF ClientsAfter, RoomsAfter
  <2>2. Agree(c, RoomsAfter(p))
    BY <2>1, RemoveAgrees DEF VoiceInv
  <2> QED
    BY <2>1, <2>2 DEF VoiceInv, VoiceTypeOK
<1>4. CASE p.type \in {"heartbeat", "audio"}
  <2>1. c = [v \in DOMAIN clients |-> IF v = u THEN [clients[v] EXCEPT !.from = p.from] ELSE clients[v]]
    BY <1>4 DEF ClientsAfter
  <2>2. RoomsAfter(p) = roomMembers
    BY <1>4 DEF RoomsAfter
  <2>3. DOMAIN c = DOMAIN clients /\ \A v \in DOMAIN c : c[v].room = clients[v].room /\ c[v] \in Entry
    BY <1>1, <2>1 DEF VoiceInv, VoiceTypeOK, Entry
  <2>4. Agree(c, RoomsAfter(p))
    BY <2>2, <2>3 DEF VoiceInv, Agree
  <2>5. \A v \in DOMAIN c \ {u} : c[v] = clients[v]
    BY <2>1
  <2>6. c = [v \in DOMAIN c |-> c[v]]
    BY <2>1
  <2> QED
    BY <2>3, <2>4, <2>5, <2>6 DEF VoiceInv, VoiceTypeOK
<1>5. p.type \in {"join", "leave", "heartbeat", "audio"}
  BY DEF Packets
<1> QED
  BY <1>2, <1>3, <1>4, <1>5

\* A voice packet moves nobody to another room.
LEMMA AudioKeepsRooms ==
  ASSUME NEW p \in Packets, p.type = "audio", VoiceInv
  PROVE  /\ DOMAIN ClientsAfter(p) = DOMAIN clients
         /\ \A u \in DOMAIN clients : ClientsAfter(p)[u].room = clients[u].room
<1>1. ClientsAfter(p) = [u \in DOMAIN clients |->
                            IF u = p.user THEN [clients[u] EXCEPT !.from = p.from] ELSE clients[u]]
  BY DEF ClientsAfter
<1> QED
  BY <1>1 DEF VoiceInv, VoiceTypeOK, Entry

\* Who gets the sound of a packet is in the room of its sender.
LEMMA PeersShareRoom ==
  ASSUME VoiceInv, NEW p \in Packets, NEW m \in PeersExcept(p)
  PROVE  /\ p.type = "audio" /\ m # p.user
         /\ p.user \in DOMAIN clients /\ m \in DOMAIN clients
         /\ clients[m].room = clients[p.user].room
  BY DEF PeersExcept, VoiceInv, Agree, RoomOf

\* A packet, and the sweep after it, change both tables alike.
LEMMA ReceiveKeeps ==
  ASSUME VoiceInv, NEW p \in Packets, Receive(p)
  PROVE  VoiceInv'
<1> DEFINE after == ClientsAfter(p)
           age == [u \in DOMAIN after |-> IF u = p.user THEN 0 ELSE silence[u]]
           gone == IF sincePrune > PruneEvery THEN Silent(age) ELSE {}
<1>1. /\ relayed' = {p.user} \X PeersExcept(p)
      /\ clients' = [u \in DOMAIN after \ gone |-> after[u]]
      /\ roomMembers' = RemoveFromRooms(RoomsAfter(p), gone)
      /\ silence' = [u \in Speaker |-> IF u \in DOMAIN clients' THEN age[u] ELSE 0]
      /\ sincePrune' = IF sincePrune > PruneEvery THEN 0 ELSE sincePrune
      /\ sincePacket' = 0
  BY DEF Receive
<1>2. /\ Agree(after, RoomsAfter(p))
      /\ DOMAIN after \subseteq Speaker /\ after \in [DOMAIN after -> Entry]
      /\ \A u \in DOMAIN after \ {p.user} : u \in DOMAIN clients /\ after[u] = clients[u]
  BY PacketAgrees
<1> HIDE DEF after
<1>3. /\ gone \subseteq DOMAIN after
      /\ \A u \in DOMAIN after : age[u] > MaxIdle => u # p.user
      /\ \A u \in gone : age[u] > MaxIdle
      /\ sincePrune > PruneEvery => \A u \in DOMAIN after \ gone : ~(age[u] > MaxIdle)
  BY VoiceTimesAssumption DEF Silent
<1>4. \A u \in DOMAIN after :
          /\ age[u] \in Nat /\ age[u] <= Longest
          /\ age[u] = 0 \/ (u \in DOMAIN clients /\ age[u] = silence[u])
  BY <1>2, VoiceTimesAssumption DEF VoiceInv, VoiceTypeOK, Longest
<1> HIDE DEF gone, age
<1>5. DOMAIN clients' = DOMAIN after \ gone /\ \A u \in DOMAIN clients' : clients'[u] = after[u]
  BY <1>1
<1>6. VoiceTypeOK'
  <2>1. DOMAIN clients' \subseteq Speaker /\ clients' \in [DOMAIN clients' -> Entry]
    BY <1>1, <1>2
  <2>2. roomMembers' = [r \in DOMAIN roomMembers' |-> roomMembers'[r]]
    BY <1>1 DEF RemoveFromRooms
  <2>3. silence' \in [Speaker -> Nat] /\ \A u \in Speaker : silence'[u] <= Longest
    BY <1>1, <1>4, <1>5, VoiceTimesAssumption DEF Longest
  <2>4. sincePrune' \in 0..Longest /\ sincePacket' \in 0..Longest
    BY <1>1, VoiceTimesAssumption DEF VoiceInv, VoiceTypeOK, Longest
  <2> QED
    BY <2>1, <2>2, <2>3, <2>4 DEF VoiceTypeOK
<1>7. Agree(clients, roomMembers)'
  <2>1. \A u \in gone : u \in DOMAIN after => u \in DOMAIN clients /\ clients[u].room = after[u].room
    BY <1>2, <1>3
  <2>2. Agree([u \in DOMAIN after \ gone |-> after[u]], RemoveFromRooms(RoomsAfter(p), gone))
    BY <1>2, <2>1, RemoveAgrees
  <2> QED
    BY <1>1, <2>2 DEF Agree
<1>8. HeardInRoom'
  <2> SUFFICES ASSUME NEW m \in PeersExcept(p)
               PROVE  /\ p.user # m
                      /\ {p.user, m} \subseteq DOMAIN clients' =>
                             clients'[p.user].room = clients'[m].room
    BY <1>1, SMTT(30) DEF HeardInRoom
  <2>1. /\ p.type = "audio" /\ m # p.user
        /\ p.user \in DOMAIN clients /\ m \in DOMAIN clients
        /\ clients[m].room = clients[p.user].room
    BY PeersShareRoom
  <2>2. \A u \in DOMAIN clients : after[u].room = clients[u].room
    BY <2>1, AudioKeepsRooms DEF after
  <2> QED
    BY <1>5, <2>1, <2>2
<1>9. SilentSinceLook' /\ SilentUsersGo'
  <2>1. \A u \in DOMAIN clients' : silence'[u] = age[u] /\ u \in DOMAIN after \ gone
    BY <1>1, <1>2, <1>5
  <2>2. CASE sincePrune > PruneEvery
    BY <1>1, <1>3, <1>4, <2>1, <2>2, VoiceTimesAssumption DEF SilentSinceLook, SilentUsersGo
  <2>3. CASE ~(sincePrune > PruneEvery)
    <3>1. sincePrune \in Nat /\ sincePrune' = sincePrune /\ sincePrune <= PruneEvery
      BY <1>1, <2>3, VoiceTimesAssumption DEF VoiceInv, VoiceTypeOK, Longest
    <3>2. \A u \in DOMAIN clients' : age[u] <= MaxIdle + sincePrune
      BY <1>4, <2>1, <3>1, VoiceTimesAssumption DEF VoiceInv, SilentSinceLook
    <3> QED
      BY <1>1, <1>4, <2>1, <3>1, <3>2, VoiceTimesAssumption DEF SilentSinceLook, SilentUsersGo
  <2> QED
    BY <2>2, <2>3
<1> QED
  BY <1>6, <1>7, <1>8, <1>9 DEF VoiceInv

\* Time makes everyone silent for one unit longer.
LEMMA TickKeeps ==
  ASSUME VoiceInv, Tick
  PROVE  VoiceInv'
<1>1. \A t \in 0..Longest : Later(t) \in 0..Longest /\ Later(t) >= t /\ Later(t) <= t + 1
                            /\ (Later(t) = t + 1 \/ Later(t) = Longest)
  BY VoiceTimesAssumption DEF Later, Longest
<1>2. /\ UNCHANGED <<clients, roomMembers, relayed>>
      /\ sincePrune' = Later(sincePrune) /\ sincePacket' = Later(sincePacket)
      /\ \A u \in Speaker : silence'[u] = IF u \in DOMAIN clients THEN Later(silence[u]) ELSE 0
      /\ silence' = [u \in Speaker |-> silence'[u]]
  BY DEF Tick
<1>3. /\ DOMAIN clients \subseteq Speaker
      /\ \A u \in Speaker : silence[u] \in 0..Longest
      /\ sincePrune \in 0..Longest /\ sincePacket \in 0..Longest /\ Longest \in Nat
  BY VoiceTimesAssumption DEF VoiceInv, VoiceTypeOK, Longest
<1>4. VoiceTypeOK'
  <2>1. \A u \in Speaker : silence'[u] \in Nat /\ silence'[u] <= Longest
    BY <1>1, <1>2, <1>3
  <2> QED
    BY <1>1, <1>2, <1>3, <2>1 DEF VoiceInv, VoiceTypeOK
<1>5. SilentSinceLook' /\ SilentUsersGo'
  <2> SUFFICES ASSUME NEW u \in DOMAIN clients
               PROVE  /\ silence'[u] <= MaxIdle + sincePrune'
                      /\ silence'[u] - sincePacket' <= MaxIdle + PruneEvery
    BY <1>2 DEF SilentSinceLook, SilentUsersGo
  <2>1. silence'[u] = Later(silence[u]) /\ silence[u] \in 0..Longest
    BY <1>2, <1>3
  <2>2. silence[u] <= MaxIdle + sincePrune /\ silence[u] - sincePacket <= MaxIdle + PruneEvery
    BY DEF VoiceInv, SilentSinceLook, SilentUsersGo
  <2> QED
    BY <1>1, <1>2, <1>3, <2>1, <2>2, VoiceTimesAssumption DEF Longest
<1> QED
  BY <1>2, <1>4, <1>5 DEF VoiceInv, Agree, HeardInRoom

\* So every turn of the loop keeps the tables in agreement.
LEMMA VoiceInvNext == VoiceInv /\ [VoiceNext]_voiceVars => VoiceInv'
<1> SUFFICES ASSUME VoiceInv, [VoiceNext]_voiceVars PROVE VoiceInv'
  OBVIOUS
<1>1. CASE Tick
  BY <1>1, TickKeeps
<1>2. ASSUME NEW p \in Packets, Receive(p) PROVE VoiceInv'
  BY <1>2, ReceiveKeeps
<1>3. CASE UNCHANGED voiceVars
  BY <1>3 DEF voiceVars, VoiceInv, VoiceTypeOK, Agree, HeardInRoom, SilentSinceLook, SilentUsersGo
<1> QED
  BY <1>1, <1>2, <1>3 DEF VoiceNext

\* The invariant of the relay holds in every state.
LEMMA VoiceInvAlways == VoiceSpec => []VoiceInv
  BY VoiceInvInit, VoiceInvNext, PTL DEF VoiceSpec

-----------------------------------------------------------------------------
\* The two tables of voice_room_manager.cpp agree whatever packets come, and what
\* a user says is heard in their room only.
THEOREM VoiceRoomsAlwaysAgree == VoiceSpec => []VoiceRoomsAgree
<1>1. VoiceInv => VoiceRoomsAgree
  <2> SUFFICES ASSUME VoiceInv PROVE VoiceRoomsAgree
    OBVIOUS
  <2>1. \A r \in DOMAIN roomMembers : roomMembers[r] # {}
    BY DEF VoiceInv, Agree
  <2>2. \A r \in VoiceRoom : {u \in DOMAIN clients : clients[u].room = r} =
            IF r \in DOMAIN roomMembers THEN roomMembers[r] ELSE {}
    BY DEF VoiceInv, Agree
  <2> QED
    BY <2>1, <2>2 DEF VoiceInv, HeardInRoom, VoiceRoomsAgree
<1> QED
  BY <1>1, VoiceInvAlways, PTL

\* pruneIdle runs after a packet when the last look is longer ago than its period:
\* a silent user is kept for no longer than both periods, for all periods.
THEOREM SilentUsersAlwaysGo == VoiceSpec => []SilentUsersGo
<1>1. VoiceInv => SilentUsersGo
  BY DEF VoiceInv
<1> QED
  BY <1>1, VoiceInvAlways, PTL

-----------------------------------------------------------------------------
(* The forwarding unit *)

Joined == [room : VoiceHall, player : Caller]

ForwardingTypeOK ==
    /\ socketState \in [Socket -> {"new", "open", "closed"}]
    /\ joinedAs \in [Socket -> Joined \cup {None}]
    /\ DOMAIN halls \subseteq VoiceHall
    /\ closedPeers \subseteq Socket
    /\ tracks \in [Socket -> SUBSET Socket]

\* The sockets that the entry of player p in room r may be.
Live(r, p) ==
    {s \in Socket : /\ socketState[s] = "open" /\ s \notin closedPeers
                    /\ joinedAs[s] = [room |-> r, player |-> p]}

Listed ==
    \A r \in DOMAIN halls :
        /\ DOMAIN halls[r] # {}
        /\ \A p \in DOMAIN halls[r] : halls[r][p] \in Live(r, p)

\* Only what was listed has been closed, and only those who have joined hear.
ClosedHaveJoined == \A s \in closedPeers : joinedAs[s] # None

TracksInRoom ==
    \A s \in Socket : \A t \in tracks[s] :
        /\ joinedAs[t] # None /\ joinedAs[s] # None
        /\ joinedAs[t].room = joinedAs[s].room /\ joinedAs[t].player # joinedAs[s].player

ForwardingInv == ForwardingTypeOK /\ Listed /\ ClosedHaveJoined /\ TracksInRoom

\* A join is not None.
LEMMA JoinedIsNotNone == \A j \in Joined : j # None
  BY HallsAssumption DEF Joined, None

\* At first no peer is listed.
LEMMA ForwardingInvInit == ForwardingInit => ForwardingInv
  BY DEF ForwardingInit, ForwardingInv, ForwardingTypeOK, Listed, ClosedHaveJoined, TracksInRoom

\* The new entry replaces the one there was; the others stay as they were.
LEMMA JoinKeeps ==
  ASSUME ForwardingInv, NEW s \in Socket, NEW p \in Caller, NEW r \in VoiceHall, JoinHall(s, p, r)
  PROVE  ForwardingInv'
<1> DEFINE j == [room |-> r, player |-> p]
<1>1. j \in Joined /\ j # None
  BY JoinedIsNotNone DEF Joined
<1>2. /\ socketState[s] = "open" /\ joinedAs[s] = None
      /\ joinedAs' = [joinedAs EXCEPT ![s] = j]
      /\ halls' = Put(halls, r, Put(Entries(r), p, s))
      /\ UNCHANGED <<socketState, closedPeers, tracks>>
  BY DEF JoinHall
<1>3. /\ DOMAIN halls' = DOMAIN halls \cup {r}
      /\ \A q \in DOMAIN halls \ {r} : halls'[q] = halls[q]
      /\ DOMAIN halls'[r] = DOMAIN Entries(r) \cup {p}
      /\ halls'[r][p] = s
      /\ \A x \in DOMAIN Entries(r) \ {p} : halls'[r][x] = Entries(r)[x]
  BY <1>2 DEF Put
<1>4. \A x \in DOMAIN Entries(r) : Entries(r)[x] \in Live(r, x)
  BY DEF ForwardingInv, Listed, Entries
<1>5. \A q \in VoiceHall : \A x, t : t \in Live(q, x) => t \in Live(q, x)'
  BY <1>2, HallsAssumption DEF Live, ForwardingInv, ForwardingTypeOK, None
<1>6. s \notin closedPeers
  BY <1>2 DEF ForwardingInv, ClosedHaveJoined
<1>7. s \in Live(r, p)'
  BY <1>2, <1>6 DEF Live, ForwardingInv, ForwardingTypeOK
<1>8. ForwardingTypeOK'
  BY <1>1, <1>2, <1>3 DEF ForwardingInv, ForwardingTypeOK
<1>9. Listed'
  <2>1. \A q \in DOMAIN halls \ {r} :
            DOMAIN halls'[q] # {} /\ \A x \in DOMAIN halls'[q] : halls'[q][x] \in Live(q, x)'
    BY <1>3, <1>5 DEF ForwardingInv, ForwardingTypeOK, Listed
  <2>2. \A x \in DOMAIN halls'[r] : halls'[r][x] \in Live(r, x)'
    BY <1>3, <1>4, <1>5, <1>7
  <2> QED
    BY <1>3, <2>1, <2>2 DEF Listed
<1>10. ClosedHaveJoined' /\ TracksInRoom'
  BY <1>1, <1>2 DEF ForwardingInv, ForwardingTypeOK, ClosedHaveJoined, TracksInRoom
<1> QED
  BY <1>8, <1>9, <1>10 DEF ForwardingInv

\* The listeners are listed under other names, in the room of the speaker.
LEMMA ForwardKeeps ==
  ASSUME ForwardingInv, NEW s \in Socket, ForwardTrack(s)
  PROVE  ForwardingInv'
<1> DEFINE r == joinedAs[s].room
           listeners == {Entries(r)[p] : p \in DOMAIN Entries(r) \ {joinedAs[s].player}}
<1>1. /\ joinedAs[s] # None
      /\ tracks' = [t \in Socket |->
                       IF t \in listeners \ closedPeers THEN tracks[t] \cup {s} ELSE tracks[t]]
      /\ UNCHANGED <<socketState, joinedAs, halls, closedPeers>>
  BY DEF ForwardTrack
<1>2. \A t \in listeners : joinedAs[t] # None /\ joinedAs[t].room = r
                               /\ joinedAs[t].player # joinedAs[s].player
  <2> SUFFICES ASSUME NEW p \in DOMAIN Entries(r) \ {joinedAs[s].player}
               PROVE  /\ joinedAs[Entries(r)[p]] # None
                      /\ joinedAs[Entries(r)[p]].room = r
                      /\ joinedAs[Entries(r)[p]].player # joinedAs[s].player
    OBVIOUS
  <2>1. r \in DOMAIN halls /\ Entries(r)[p] \in Live(r, p)
    BY DEF Entries, ForwardingInv, Listed
  <2> QED
    BY <2>1, HallsAssumption DEF Live, None, ForwardingInv, ForwardingTypeOK
<1> HIDE DEF listeners, r
<1>3. TracksInRoom'
  BY <1>1, <1>2 DEF r, ForwardingInv, ForwardingTypeOK, TracksInRoom
<1> QED
  BY <1>1, <1>3 DEF ForwardingInv, ForwardingTypeOK, Listed, Live, ClosedHaveJoined

\* The entry under the player's name goes, whichever socket it is of; that of the
\* closing socket is no other.
LEMMA CloseKeeps ==
  ASSUME ForwardingInv, NEW s \in Socket, CloseSocket(s)
  PROVE  ForwardingInv'
<1>1. /\ socketState' = [socketState EXCEPT ![s] = "closed"]
      /\ UNCHANGED <<joinedAs, tracks>>
  BY DEF CloseSocket
<1>2. CASE joinedAs[s] = None
  <2>1. UNCHANGED <<halls, closedPeers>>
    BY <1>2 DEF CloseSocket
  <2>2. \A r \in VoiceHall : \A p : s \notin Live(r, p)
    BY <1>2, HallsAssumption DEF Live, None
  <2>3. \A r \in VoiceHall : \A p, t : t \in Live(r, p) => t \in Live(r, p)'
    BY <1>1, <2>1, <2>2 DEF Live, ForwardingInv, ForwardingTypeOK
  <2> QED
    BY <1>1, <2>1, <2>3
    DEF ForwardingInv, ForwardingTypeOK, Listed, ClosedHaveJoined, TracksInRoom
<1>3. CASE joinedAs[s] # None
  <2>1. PICK r \in VoiceHall, p \in Caller : joinedAs[s] = [room |-> r, player |-> p]
    BY <1>3 DEF ForwardingInv, ForwardingTypeOK, Joined
  <2>2. RemovePeer(r, p)
    BY <1>3, <2>1 DEF CloseSocket
  <2>3. /\ closedPeers' = IF p \in DOMAIN Entries(r) THEN closedPeers \cup {halls[r][p]} ELSE closedPeers
        /\ DOMAIN halls' = {q \in DOMAIN halls : q # r \/ ~(DOMAIN halls[q] \subseteq {p})}
        /\ \A q \in DOMAIN halls' \ {r} : halls'[q] = halls[q]
        /\ r \in DOMAIN halls' =>
               /\ DOMAIN halls'[r] = DOMAIN halls[r] \ {p}
               /\ \A x \in DOMAIN halls'[r] : halls'[r][x] = halls[r][x]
    BY <2>2 DEF RemovePeer
  <2>4. p \in DOMAIN Entries(r) =>
            r \in DOMAIN halls /\ halls[r][p] \in Live(r, p)
    BY DEF Entries, ForwardingInv, Listed
  <2>5. \A q \in VoiceHall : \A x, t : t \in Live(q, x) /\ (q # r \/ x # p) => t \in Live(q, x)'
    BY <1>1, <2>1, <2>3, <2>4 DEF Live, ForwardingInv, ForwardingTypeOK
  <2>6. Listed'
    <3>1. \A q \in DOMAIN halls' \ {r} :
              DOMAIN halls'[q] # {} /\ \A x \in DOMAIN halls'[q] : halls'[q][x] \in Live(q, x)'
      BY <2>3, <2>5 DEF ForwardingInv, ForwardingTypeOK, Listed
    <3>2. r \in DOMAIN halls' =>
              DOMAIN halls'[r] # {} /\ \A x \in DOMAIN halls'[r] : halls'[r][x] \in Live(r, x)'
      BY <2>1, <2>3, <2>5 DEF ForwardingInv, Listed
    <3> QED
      BY <3>1, <3>2 DEF Listed
  <2>7. ClosedHaveJoined'
    BY <1>1, <2>1, <2>3, <2>4, HallsAssumption DEF ClosedHaveJoined, ForwardingInv, Live, None
  <2>8. ForwardingTypeOK'
    BY <1>1, <2>3, <2>4 DEF ForwardingInv, ForwardingTypeOK, Live
  <2>9. TracksInRoom'
    BY <1>1 DEF ForwardingInv, TracksInRoom
  <2> QED
    BY <2>6, <2>7, <2>8, <2>9 DEF ForwardingInv
<1> QED
  BY <1>2, <1>3

\* An event of a socket lists its own live peer, or takes the entries of its player away.
LEMMA ForwardingInvNext == ForwardingInv /\ [ForwardingNext]_forwardingVars => ForwardingInv'
<1> SUFFICES ASSUME ForwardingInv, [ForwardingNext]_forwardingVars PROVE ForwardingInv'
  OBVIOUS
<1>1. ASSUME NEW s \in Socket, OpenSocket(s) PROVE ForwardingInv'
  <2>1. \A r, p, t : t \in Live(r, p) => t \in Live(r, p)'
    BY <1>1 DEF OpenSocket, Live, ForwardingInv, ForwardingTypeOK
  <2> QED
    BY <1>1, <2>1 DEF OpenSocket, ForwardingInv, ForwardingTypeOK, Listed, ClosedHaveJoined, TracksInRoom
<1>2. ASSUME NEW s \in Socket, NEW p \in Caller, NEW r \in VoiceHall, JoinHall(s, p, r) PROVE ForwardingInv'
  BY <1>2, JoinKeeps
<1>3. ASSUME NEW s \in Socket, ForwardTrack(s) PROVE ForwardingInv'
  BY <1>3, ForwardKeeps
<1>4. ASSUME NEW s \in Socket, CloseSocket(s) PROVE ForwardingInv'
  BY <1>4, CloseKeeps
<1>5. CASE UNCHANGED forwardingVars
  BY <1>5
  DEF forwardingVars, ForwardingInv, ForwardingTypeOK, Listed, Live, ClosedHaveJoined, TracksInRoom
<1> QED
  BY <1>1, <1>2, <1>3, <1>4, <1>5 DEF ForwardingNext

\* A room of server.js lists open peers only, each in one room, and a track goes
\* to the others of its room only, whichever socket of a player closes first.
THEOREM ListedPeersAlwaysLive == ForwardingSpec => []ListedPeersLive
<1>1. ForwardingInv => ListedPeersLive
  BY DEF ForwardingInv, Listed, Live, TracksInRoom, ListedPeersLive
<1> QED
  BY <1>1, ForwardingInvInit, ForwardingInvNext, PTL DEF ForwardingSpec
=============================================================================
