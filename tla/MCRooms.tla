------------------------------- MODULE MCRooms -------------------------------
(***************************************************************************)
(* Rooms of two seats, and players with a connection each.  A behaviour has   *)
(* a cast: who takes part in it, and with which kinds of request.  Seats and *)
(* rounds, and votes, are looked at in one room that has the queue of        *)
(* another, whose owner stays there alone, beside it; who is where, in two   *)
(* rooms alike.                                                            *)
(***************************************************************************)
EXTENDS Rooms, TLC, FiniteSetsExt

CONSTANTS
    Keeper,       \* the player who may have a room of their own
    Casts         \* those of the run

OneEach == [p \in Session |-> p]

RoundKinds == {"join", "leave", "ready", "unready", "change_seat", "start_game"}
RegistryKinds == {"join", "leave", "request_dismiss", "vote_dismiss"}

\* The players but for the keeper, the keeper's rooms, the kinds of request and
\* the modes of the other rooms.
Others(n) == kSubset(n, Player \ {Keeper})
Rounds == [others : Others(2), kept : {{r} : r \in Room}, kinds : {RoundKinds}, modes : {{"solo", "six"}}]
Votes == [others : Others(3), kept : {{r} : r \in Room}, kinds : {RegistryKinds}, modes : {{"six"}}]
Moves == [others : Others(2), kept : {{}}, kinds : {RegistryKinds}, modes : {{"six"}}]
AllCasts == Rounds \cup Votes \cup Moves

VARIABLE cast

MCInit == cast \in Casts /\ Init

MCNext ==
    /\ UNCHANGED cast
    /\ \/ HandleCreateRoom(Keeper, "six") /\ created' \ created \subseteq cast.kept
       \/ \E s \in cast.others :
              \/ \E mode \in cast.modes :
                     HandleCreateRoom(s, mode) /\ created' \cap cast.kept = created \cap cast.kept
              \/ \E q \in Requests, named \in created \cup {NoRoom} :
                     /\ q.kind \in cast.kinds
                     /\ q.kind = "join" => q.room \notin cast.kept
                     /\ Dispatch(s, q, named)
       \/ \E t \in Thread : Lookup(t) \/ Join(t) \/ Act(t)
       \/ \E r \in Room : \E won \in BOOLEAN : GameEnds(r, won)

MCSpec == MCInit /\ [][MCNext]_<<cast, vars>>

Symmetric == Permutations(Player \ {Keeper}) \cup Permutations(Room)
==============================================================================
