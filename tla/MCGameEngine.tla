----------------------------- MODULE MCGameEngine ----------------------------
(***************************************************************************)
(* A small table for the game engine.  The deck is that of a solo_test_v1   *)
(* room, which deals two cards to each of four players; every seat has one  *)
(* card of its own and gets one of the others, in every way.                *)
(***************************************************************************)
EXTENDS GameEngine, Functions

CONSTANTS
    OwnCard,       \* one card per seat
    OtherCards     \* as many cards, dealt in every way

MCFace == [c \in Range(OwnCard) \cup OtherCards |-> DeckFace(c)]
MCDeals ==
    {[s \in Seat |-> {OwnCard[s + 1], f[s]}] : f \in Bijection(Seat, OtherCards)}

\* A ten, the two and the three of hearts (wild at levels 2 and 3) and a big
\* joker, with a big joker, two kings and an ace.
Own == <<8, 13, 14, 107>>
Others == {53, 24, 11, 12}

\* The same with the three of hearts of both decks, the wild cards of level 3,
\* which one player can be dealt.
WildOthers == {53, 24, 11, 68}

\* The same with the two of spades of the first deck, which is card 0.
ZeroOwn == <<8, 0, 14, 107>>

-----------------------------------------------------------------------------
\* The last round is not played: what matters is the trade that leads to it.
Traded == phase = "PLAYING" /\ round = MaxRounds

EngineNext ==
    \/ \E enabled \in BOOLEAN : SetEnableTribute(enabled)
    \/ \E d \in Deals : StartGame(d) \/ StartNextRound(d)
    \/ Trade
    \/ ~Traded /\ Move
    \/ Traded /\ UNCHANGED vars

EngineSpec == Init /\ [][EngineNext]_vars /\ WF_vars(Move) /\ WF_vars(Trade)

\* A round that is dealt is settled, the last one apart, which is not played:
\* nobody ever has nothing to play and nothing to pass on.
RoundsEnd ==
    phase \in {"TRIBUTE", "RETURN_TRIBUTE", "PLAYING"} /\ round < MaxRounds ~> phase = "FINISHED"
==============================================================================
