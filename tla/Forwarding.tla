----------------------------- MODULE Forwarding ------------------------------
(***************************************************************************)
(* The selective forwarding unit (webrtc-sfu/src/server.js): clients join a  *)
(* voice room over a web socket, and the audio track of each is added to the *)
(* peer connections of the others.  An event of a socket runs up to its first *)
(* await before the next; what follows an await only talks to the peer        *)
(* connection of the socket and is left out, with the negotiation.           *)
(*                                                                         *)
(* A socket joins one room, as the client does.  A player who reconnects has *)
(* a new socket while the old one may still be open: the new entry replaces  *)
(* the old one under the player's name.                                     *)
(***************************************************************************)
EXTENDS FiniteSets

CONSTANTS
    Socket,
    Caller,        \* the players
    VoiceHall      \* the room ids

ASSUME HallsAssumption == "none" \notin VoiceHall

VARIABLES
    socketState,   \* [socket -> "new", "open" or "closed"]
    joinedAs,      \* [socket -> the roomId and playerId it keeps], None before
    halls,         \* rooms: [room -> [player -> the socket of the entry]]
    closedPeers,   \* the sockets whose peer connection is closed
    tracks         \* [socket -> the sockets whose track was added to its peer]

forwardingVars == <<socketState, joinedAs, halls, closedPeers, tracks>>

None == [room |-> "none", player |-> "none"]

ForwardingInit ==
    /\ socketState = [s \in Socket |-> "new"]
    /\ joinedAs = [s \in Socket |-> None]
    /\ halls = << >>
    /\ closedPeers = {}
    /\ tracks = [s \in Socket |-> {}]

-----------------------------------------------------------------------------
OpenSocket(s) ==
    /\ socketState[s] = "new"
    /\ socketState' = [socketState EXCEPT ![s] = "open"]
    /\ UNCHANGED <<joinedAs, halls, closedPeers, tracks>>

Entries(r) == IF r \in DOMAIN halls THEN halls[r] ELSE << >>

Put(f, k, v) == [x \in DOMAIN f \cup {k} |-> IF x = k THEN v ELSE f[x]]

\* join, with getRoom.
JoinHall(s, p, r) ==
    /\ socketState[s] = "open" /\ joinedAs[s] = None
    /\ joinedAs' = [joinedAs EXCEPT ![s] = [room |-> r, player |-> p]]
    /\ halls' = Put(halls, r, Put(Entries(r), p, s))
    /\ UNCHANGED <<socketState, closedPeers, tracks>>

\* ontrack, forwardTrackToRoom: the peers that are there get the track, those who
\* come later do not.  Adding it to a closed peer connection fails.
ForwardTrack(s) ==
    LET r == joinedAs[s].room
        listeners == {Entries(r)[p] : p \in DOMAIN Entries(r) \ {joinedAs[s].player}}
    IN
    /\ socketState[s] = "open" /\ joinedAs[s] # None
    /\ s \notin closedPeers
    /\ tracks' = [t \in Socket |->
                     IF t \in listeners \ closedPeers THEN tracks[t] \cup {s} ELSE tracks[t]]
    /\ UNCHANGED <<socketState, joinedAs, halls, closedPeers>>

\* Mutant of RemovePeer: the entry stays when it is not the last of its room.
RemovePeerOfLast(r, p) ==
    /\ closedPeers' = IF p \in DOMAIN Entries(r) THEN closedPeers \cup {halls[r][p]} ELSE closedPeers
    /\ halls' = [q \in {q \in DOMAIN halls : q # r \/ DOMAIN halls[q] # {p}} |-> halls[q]]

\* removePeer: whatever entry is under the player's name.
RemovePeer(r, p) ==
    /\ closedPeers' = IF p \in DOMAIN Entries(r) THEN closedPeers \cup {halls[r][p]} ELSE closedPeers
    /\ halls' = [q \in {q \in DOMAIN halls : q # r \/ ~(DOMAIN halls[q] \subseteq {p})} |->
                    IF q = r THEN [x \in DOMAIN halls[q] \ {p} |-> halls[q][x]] ELSE halls[q]]

\* The close event.
CloseSocket(s) ==
    /\ socketState[s] = "open"
    /\ socketState' = [socketState EXCEPT ![s] = "closed"]
    /\ IF joinedAs[s] # None THEN RemovePeer(joinedAs[s].room, joinedAs[s].player)
       ELSE UNCHANGED <<halls, closedPeers>>
    /\ UNCHANGED <<joinedAs, tracks>>

ForwardingNext ==
    \E s \in Socket :
        \/ OpenSocket(s)
        \/ \E p \in Caller : \E r \in VoiceHall : JoinHall(s, p, r)
        \/ ForwardTrack(s)
        \/ CloseSocket(s)

ForwardingSpec == ForwardingInit /\ [][ForwardingNext]_forwardingVars

-----------------------------------------------------------------------------
(* Properties *)

\* Every peer that a room lists can be spoken to: its socket and its peer
\* connection are open, whichever socket of its player closes first; nobody is
\* listed in two rooms under one socket, nor a room without anybody; and nobody
\* hears another room, or themselves over a second socket.
ListedPeersLive ==
    /\ \A r \in DOMAIN halls :
           /\ DOMAIN halls[r] # {}
           /\ \A p \in DOMAIN halls[r] :
                  /\ socketState[halls[r][p]] = "open"
                  /\ halls[r][p] \notin closedPeers
                  /\ joinedAs[halls[r][p]] = [room |-> r, player |-> p]
    /\ \A s \in Socket : \A t \in tracks[s] :
           joinedAs[t].room = joinedAs[s].room /\ joinedAs[t].player # joinedAs[s].player
=============================================================================
