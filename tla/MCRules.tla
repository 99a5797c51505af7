------------------------------- MODULE MCRules -------------------------------
(***************************************************************************)
(* The rules of the game, apart from any game: what requests over cards of   *)
(* two decks are taken for, and the ladder.  They share no state, so in each *)
(* behaviour one of them moves and the other stays where it began.          *)
(***************************************************************************)
EXTENDS Readings, Match

CONSTANT Ids
MCFace == [c \in Ids |-> DeckFace(c)]

\* Two wild sixes of hearts; the ace, three, four and five of spades, the other
\* three fours; two jokers of each colour.
ManyIds == {17, 71, 12, 1, 2, 3, 15, 28, 41, 52, 53, 106, 107}

VARIABLE rules

MCInit == rules \in {"patterns", "ladder"} /\ ReadingsInit /\ Init

MCNext ==
    /\ UNCHANGED rules
    /\ \/ rules = "patterns" /\ ReadingsNext /\ UNCHANGED vars
       \/ rules = "ladder" /\ Next /\ UNCHANGED readingVars

MCSpec == MCInit /\ [][MCNext]_<<rules, readingVars, vars>>
==============================================================================
