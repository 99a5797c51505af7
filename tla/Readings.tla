------------------------------ MODULE Readings -------------------------------
(***************************************************************************)
(* The reference for the card analyzer: what a request may be taken for     *)
(* when every wild card stands for a card of its player's choice, and a     *)
(* trick in which requests taken that way are played on one another.       *)
(*                                                                         *)
(* A request is put together card by card; the trick then grows by any      *)
(* pattern that beats the last one, as GameEngine::playCards lets it.      *)
(***************************************************************************)
EXTENDS CardRules, Sequences

CONSTANTS
    Levels,         \* the levels to look at
    MaxCards,       \* bound on the cards of a request
    MaxTrick        \* bound on the patterns of a trick

ASSUME ReadingsAssumption == Levels \subseteq 2..14 /\ MaxCards \in Nat /\ MaxTrick \in Nat

VARIABLES level, request, trick

readingVars == <<level, request, trick>>

-----------------------------------------------------------------------------
(* A reading gives every wild card a rank other than a joker's; what is left *)
(* to look at is how many cards there are of each rank.                     *)

RanksOf(cards, wild) ==
    [r \in Ranks |-> Cardinality({c \in cards : (IF c \in DOMAIN wild THEN wild[c]
                                                 ELSE Face[c].rank) = r})]

Counts(n) == {r \in Ranks : n[r] > 0}
Only(n, copies) == \A r \in Counts(n) : n[r] = copies
Window(top, slots) == {SlotRank(i) : i \in (top - slots + 1)..top}

Same(n, size) == {r \in Counts(n) : n[r] = size}

\* The patterns, given the counts of the ranks of size cards.  Runs have the
\* lengths and the slots that the analyzer and its tests give them.  The guide
\* (docs/game_rules.md:43-46) has others: longer runs, and no straight with a two.
Kinds(n, size, lvl) ==
    {Pattern(IF size = 2 THEN "PAIR" ELSE IF size = 3 THEN "TRIPLE" ELSE "BOMB",
             PatternRank(r, lvl), size, 0) : r \in IF size >= 2 THEN Same(n, size) ELSE {}}
    \cup
    {Pattern("TRIPLE_WITH_PAIR", PatternRank(t, lvl), 5, CHOOSE p \in Counts(n) \ {t} : TRUE) :
        t \in {t \in Same(n, 3) : size = 5 /\ Cardinality(Counts(n)) = 2}}
    \cup
    (UNION {{Pattern(run[1], top, run[2], 0) :
                top \in {top \in run[2]..14 : Counts(n) = Window(top, run[2])}} :
            run \in {run \in {<<"STRAIGHT", 5, 1>>, <<"THREE_PAIRS", 3, 2>>, <<"TWO_TRIPLES", 2, 3>>} :
                        run[2] * run[3] = size /\ Only(n, run[3])}})
    \cup
    {Pattern("JOKER_BOMB", r, size, 0) :
        r \in {r \in {BigJoker} : /\ Counts(n) = {SmallJoker, BigJoker}
                                  /\ n[SmallJoker] >= 2 /\ n[BigJoker] >= 2}}

\* Every pattern that the cards may be taken for; a straight of one suit, the
\* wild cards apart, is a straight flush.
Readings(cards, lvl) ==
    LET wilds == {c \in cards : IsWild(c, lvl)}
        suits == {Face[c].suit : c \in cards \ wilds}
        counts == {RanksOf(cards, f) : f \in [wilds -> 2..14]}
        plain == UNION {Kinds(n, Cardinality(cards), lvl) : n \in counts}
    IN  {[p EXCEPT !.type = IF @ = "STRAIGHT" /\ Cardinality(suits) = 1
                            THEN "STRAIGHT_FLUSH" ELSE @] : p \in plain}

-----------------------------------------------------------------------------
Requests == {cards \in SUBSET Card : IsFiniteSet(cards) /\ Cardinality(cards) \in 1..MaxCards}

\* What the requests are taken for at each level.
Plays == {[level |-> lvl, pattern |-> Analyze(Once(cards), lvl)] : lvl \in Levels, cards \in Requests}

Last == IF trick = << >> THEN Invalid ELSE trick[Len(trick)]

ReadingsInit ==
    /\ level \in Levels
    /\ request = {}
    /\ trick = << >>

Take ==
    /\ trick = << >>
    /\ Cardinality(request) < MaxCards
    /\ \E c \in Card \ request : request' = request \cup {c}
    /\ UNCHANGED <<level, trick>>

Play ==
    /\ Len(trick) < MaxTrick
    /\ request = {}
    /\ \E play \in Plays :
           /\ play.level = level
           /\ CanBeat(play.pattern, Last)
           /\ trick' = Append(trick, play.pattern)
    /\ UNCHANGED <<level, request>>

ReadingsNext == Take \/ Play

ReadingsSpec == ReadingsInit /\ [][ReadingsNext]_readingVars

-----------------------------------------------------------------------------
(* Properties *)

Taken == Analyze(Once(request), level)
HasJoker == \E c \in request : IsJoker(c)

\* What the analyzer takes a request for is one of its readings, with its rank.
\* Single cards have no reading but their own.  Jokers next to wild cards are left
\* out: analyzePair, analyzeTriple and analyzeBomb complete the rank of a joker
\* like any other.
TakenIsAReading ==
    IsValid(Taken) =>
        /\ Taken \in Patterns
        /\ Cardinality(request) > 1 /\ ~(HasJoker /\ \E c \in request : IsWild(c, level))
               => Taken \in Readings(request, level)

\* A request that has a reading, with the lengths of Kinds, is never refused, and
\* it is taken for a bomb or a straight flush if it can be one.
NoReadingMissed ==
    LET readings == Readings(request, level)
        types == {p.type : p \in readings}
    IN  Cardinality(request) > 1 /\ readings # {} =>
            /\ IsValid(Taken)
            /\ types \cap {"BOMB", "JOKER_BOMB"} # {} => Taken.type \in {"BOMB", "JOKER_BOMB"}
            /\ "STRAIGHT_FLUSH" \in types => Taken.type = "STRAIGHT_FLUSH"

\* A trick climbs: what is played on the last pattern also beats all the earlier
\* ones, with which nobody compares it, and no earlier one beats it.
TrickClimbs ==
    \A i, j \in DOMAIN trick :
        i < j => CanBeat(trick[j], trick[i]) /\ ~CanBeat(trick[i], trick[j])
==============================================================================
