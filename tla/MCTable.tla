------------------------------- MODULE MCTable -------------------------------
(***************************************************************************)
(* A solo_test_v1 room: the owner and three bots, two cards each.           *)
(***************************************************************************)
EXTENDS Table, Functions

CONSTANTS
    OwnCard,       \* one card per seat
    OtherCards     \* as many cards, dealt round the table from seat 0 or seat 2

MCFace == [c \in Range(OwnCard) \cup Range(OtherCards) |-> DeckFace(c)]
MCDeals ==
    {[s \in Seat |-> {OwnCard[s + 1], OtherCards[((s + k) % PlayerCount) + 1]}] : k \in {0, 2}}

\* A ten, a five, the three of hearts and a big joker, with a six, a king, an ace
\* and a jack.
SoloOwn == <<8, 3, 14, 107>>
SoloOthers == <<4, 24, 12, 35>>
==============================================================================
