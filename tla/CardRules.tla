------------------------------ MODULE CardRules ------------------------------
(***************************************************************************)
(* What a set of cards is worth: the card analyzer (card_analyzer.cpp),    *)
(* the rule engine (rule_engine.cpp) and the bot's choice (bot_player.cpp).*)
(*                                                                         *)
(* Cards are identified by their id, as on the wire; Face gives the suit   *)
(* and the rank of an id.  A request names cards in a list; what the code  *)
(* computes from it does not depend on the order, so a request is a bag: a *)
(* function from ids to how many times the list holds them.                *)
(*                                                                         *)
(* The level of the round is the only part of RuleContext that varies:     *)
(* enableWildCard is true in every configuration the server builds.        *)
(***************************************************************************)
EXTENDS Integers, FiniteSets

CONSTANT Face           \* [card id -> [suit, rank]], the deck in play

Card == DOMAIN Face

Suits == {"SPADE", "HEART", "CLUB", "DIAMOND", "JOKER"}

\* Rank values of types.h: 2..14 for 2..A, then the two jokers.
SmallJoker == 15
BigJoker == 16
Ranks == 2..BigJoker

\* Comparison ranks of card.h.
LevelCardPatternRank == 15
SmallJokerPatternRank == 16
BigJokerPatternRank == 17

ASSUME FaceAssumption ==
    /\ Card \subseteq Nat
    /\ Face \in [Card -> [suit : Suits, rank : Ranks]]
    /\ \A c \in Card : Face[c].suit = "JOKER" <=> Face[c].rank >= SmallJoker

\* createFullDeck numbers the cards from 0, 54 to a deck and 13 to a suit.
DeckFace(id) ==
    LET k == id % 54
    IN  CASE k = 52 -> [suit |-> "JOKER", rank |-> SmallJoker]
          [] k = 53 -> [suit |-> "JOKER", rank |-> BigJoker]
          [] OTHER -> [suit |-> <<"SPADE", "HEART", "CLUB", "DIAMOND">>[(k \div 13) + 1],
                       rank |-> 2 + (k % 13)]

-----------------------------------------------------------------------------
(* Single cards *)

IsJoker(c) == Face[c].rank >= SmallJoker
IsWild(c, level) == Face[c].suit = "HEART" /\ Face[c].rank = level
IsLevelCard(c, level) == Face[c].rank = level

\* A level card outranks the ace wherever it keeps its own rank.
PatternRank(rank, level) ==
    IF rank = level THEN LevelCardPatternRank ELSE rank

SingleRank(c, level) ==
    CASE Face[c].rank = SmallJoker -> SmallJokerPatternRank
      [] Face[c].rank = BigJoker -> BigJokerPatternRank
      [] OTHER -> PatternRank(Face[c].rank, level)

-----------------------------------------------------------------------------
(* Bags of cards, grouped as groupByRank does: the wild cards apart. *)

CountIn(b, cards) == Cardinality(UNION {{c} \X (1..b[c]) : c \in cards \cap DOMAIN b})
Size(b) == CountIn(b, DOMAIN b)

Wilds(b, level) == {c \in DOMAIN b : IsWild(c, level)}
Naturals_(b, level) == DOMAIN b \ Wilds(b, level)
NaturalRanks(b, level) == {Face[c].rank : c \in Naturals_(b, level)}
RankCount(b, level, r) ==
    CountIn(b, {c \in Naturals_(b, level) : Face[c].rank = r})

PatternTypes ==
    {"SINGLE", "PAIR", "TRIPLE", "TRIPLE_WITH_PAIR", "STRAIGHT", "THREE_PAIRS",
     "TWO_TRIPLES", "STRAIGHT_FLUSH", "BOMB", "JOKER_BOMB"}

Pattern(type, primary, length, pair) ==
    [type |-> type, primaryRank |-> primary, length |-> length, pairRank |-> pair]

Patterns == [type : PatternTypes, primaryRank : Nat, length : Nat, pairRank : Nat]

Invalid == Pattern("INVALID", 0, 0, 0)
IsValid(p) == p.type # "INVALID"

-----------------------------------------------------------------------------
(* One operator per kind of pattern; each yields Invalid if b is not one. *)

JokerBomb(b) ==
    LET small == CountIn(b, {c \in Card : Face[c].rank = SmallJoker})
        big == CountIn(b, {c \in Card : Face[c].rank = BigJoker})
    IN  IF (\A c \in DOMAIN b : IsJoker(c)) /\ small >= 2 /\ big >= 2
        THEN Pattern("JOKER_BOMB", BigJoker, Size(b), 0)
        ELSE Invalid

\* Four cards or more of at most one natural rank, wild cards filling up; a
\* bomb of level cards only takes the level rank.
Bomb(b, level) ==
    LET naturals == NaturalRanks(b, level)
        rank == IF \A c \in DOMAIN b : IsLevelCard(c, level)
                THEN LevelCardPatternRank
                ELSE CHOOSE r \in naturals : TRUE
    IN  IF Size(b) >= 4 /\ Cardinality(naturals) <= 1
        THEN Pattern("BOMB", rank, Size(b), 0)
        ELSE Invalid

Single(b, level) ==
    Pattern("SINGLE", SingleRank(CHOOSE c \in DOMAIN b : TRUE, level), 1, 0)

\* Mutants of SameRank: wild cards do not help, one odd card is overlooked.
SameRankUnaided(b, level, type, n) ==
    LET naturals == NaturalRanks(b, level)
    IN  IF Wilds(b, level) = {} /\ Cardinality(naturals) = 1
        THEN Pattern(type, PatternRank(CHOOSE r \in naturals : TRUE, level), n, 0)
        ELSE Invalid
SameRankNearly(b, level, type, n) ==
    LET naturals == NaturalRanks(b, level)
        rank == IF naturals = {} THEN level ELSE CHOOSE r \in naturals : TRUE
    IN  IF Cardinality(naturals) <= 2
        THEN Pattern(type, PatternRank(rank, level), n, 0)
        ELSE Invalid

\* A pair or a triple: at most one natural rank, jokers counting as ranks.
SameRank(b, level, type, n) ==
    LET naturals == NaturalRanks(b, level)
        rank == IF naturals = {} THEN level ELSE CHOOSE r \in naturals : TRUE
    IN  IF Cardinality(naturals) <= 1
        THEN Pattern(type, PatternRank(rank, level), n, 0)
        ELSE Invalid

\* Two natural ranks; the wild cards complete one to three and the other to two.
\* The lower rank is tried as the triple first.  (With a single natural rank
\* five cards are a bomb, which analyze tries before this.)
TripleWithPair(b, level) ==
    LET naturals == NaturalRanks(b, level)
        Splits == {s \in naturals \X naturals :
                      /\ s[1] # s[2]
                      /\ RankCount(b, level, s[1]) <= 3
                      /\ RankCount(b, level, s[2]) <= 2}
        first == CHOOSE s \in Splits : \A o \in Splits : s[1] <= o[1]
    IN  IF Cardinality(naturals) = 2 /\ Splits # {}
        THEN Pattern("TRIPLE_WITH_PAIR", PatternRank(first[1], level), 5, first[2])
        ELSE Invalid

\* Slot 1 of a run is the ace below the two, slot 14 the ace above the king.
SlotRank(slot) == IF slot = 1 THEN 14 ELSE slot

\* slots consecutive slots with copies cards each: straights (5 of 1), three
\* pairs (3 of 2), two triples (2 of 3).  The lowest start that fits is taken.
Run(b, level, type, slots, copies) ==
    LET window(start) == {SlotRank(i) : i \in start..(start + slots - 1)}
        have(start) == CountIn(b, {c \in Naturals_(b, level) : Face[c].rank \in window(start)})
        Fits(start) ==
            /\ \A r \in window(start) : RankCount(b, level, r) <= copies
            /\ slots * copies - have(start) <= CountIn(b, Wilds(b, level))
        Starts == {start \in 1..(15 - slots) : Fits(start)}
        lowest == CHOOSE s \in Starts : \A o \in Starts : s <= o
    IN  IF /\ Size(b) = slots * copies
           /\ \A c \in Naturals_(b, level) : ~IsJoker(c)
           /\ Starts # {}
        THEN Pattern(type, lowest + slots - 1, slots, 0)
        ELSE Invalid

Straight(b, level) == Run(b, level, "STRAIGHT", 5, 1)

StraightFlush(b, level) ==
    IF /\ Naturals_(b, level) # {}
       /\ \A c, d \in Naturals_(b, level) : Face[c].suit = Face[d].suit
       /\ IsValid(Straight(b, level))
    THEN [Straight(b, level) EXCEPT !.type = "STRAIGHT_FLUSH"]
    ELSE Invalid

FirstValid(ps) ==
    LET valid == {i \in DOMAIN ps : IsValid(ps[i])}
    IN  IF valid = {} THEN Invalid
        ELSE ps[CHOOSE i \in valid : \A j \in valid : i <= j]

\* CardAnalyzer::analyze on a non-empty bag: the kinds in the code's order.
Analyze(b, level) ==
    LET n == Size(b)
        bombs == <<JokerBomb(b), Bomb(b, level)>>
        rest == CASE n = 1 -> <<Single(b, level)>>
                  [] n = 2 -> <<SameRank(b, level, "PAIR", 2)>>
                  [] n = 3 -> <<SameRank(b, level, "TRIPLE", 3)>>
                  [] n = 5 -> <<TripleWithPair(b, level), StraightFlush(b, level),
                                Straight(b, level)>>
                  [] n = 6 -> <<Run(b, level, "THREE_PAIRS", 3, 2),
                                Run(b, level, "TWO_TRIPLES", 2, 3)>>
                  [] OTHER -> <<>>
    IN  IF IsValid(FirstValid(bombs)) THEN FirstValid(bombs) ELSE FirstValid(rest)

-----------------------------------------------------------------------------
(* RuleEngine::canBeat *)

SameTypeBeat(cur, prev) ==
    /\ cur.type = prev.type
    /\ CASE cur.type = "TRIPLE_WITH_PAIR" ->
              \/ cur.primaryRank > prev.primaryRank
              \/ cur.primaryRank = prev.primaryRank /\ cur.pairRank > prev.pairRank
         [] cur.type = "BOMB" ->
              \/ cur.length > prev.length
              \/ cur.length = prev.length /\ cur.primaryRank > prev.primaryRank
         [] cur.type = "JOKER_BOMB" -> cur.length > prev.length
         [] OTHER -> cur.length = prev.length /\ cur.primaryRank > prev.primaryRank

\* Mutant of CanBeat: a straight flush beats every bomb.
FlushBeatsBombs(cur, prev) ==
    /\ IsValid(cur)
    /\ \/ ~IsValid(prev)
       \/ SameTypeBeat(cur, prev)
       \/ cur.type = "JOKER_BOMB" /\ prev.type # "JOKER_BOMB"
       \/ cur.type = "STRAIGHT_FLUSH" /\ prev.type = "BOMB"
       \/ cur.type = "BOMB" /\ prev.type = "STRAIGHT_FLUSH" /\ cur.length >= 6
       \/ /\ cur.type \in {"BOMB", "STRAIGHT_FLUSH"}
          /\ prev.type \notin {"BOMB", "STRAIGHT_FLUSH", "JOKER_BOMB"}

\* A straight flush ranks between the bombs of five and those of six.
CanBeat(cur, prev) ==
    /\ IsValid(cur)
    /\ \/ ~IsValid(prev)
       \/ SameTypeBeat(cur, prev)
       \/ cur.type = "JOKER_BOMB" /\ prev.type # "JOKER_BOMB"
       \/ cur.type = "STRAIGHT_FLUSH" /\ prev.type = "BOMB" /\ prev.length < 6
       \/ cur.type = "BOMB" /\ prev.type = "STRAIGHT_FLUSH" /\ cur.length >= 6
       \/ /\ cur.type \in {"BOMB", "STRAIGHT_FLUSH"}
          /\ prev.type \notin {"BOMB", "STRAIGHT_FLUSH", "JOKER_BOMB"}

-----------------------------------------------------------------------------
(* BotPlayer::choosePlay: a cheapest play that is allowed; which of several *)
(* equally cheap ones depends on the order of the hand and is left open.    *)

TypeCode == [SINGLE |-> 1, PAIR |-> 2, TRIPLE |-> 3, TRIPLE_WITH_PAIR |-> 4,
             STRAIGHT |-> 5, THREE_PAIRS |-> 6, TWO_TRIPLES |-> 7,
             STRAIGHT_FLUSH |-> 8, BOMB |-> 9, JOKER_BOMB |-> 10]

Once(cards) == [c \in cards |-> 1]

PlayScore(cards, level) ==
    LET p == Analyze(Once(cards), level)
    IN  Cardinality(cards) * 10000 + p.primaryRank * 10 + TypeCode[p.type]

BotPlays(cards, last, level) ==
    LET Allowed == {s \in SUBSET cards : s # {} /\ CanBeat(Analyze(Once(s), level), last)}
    IN  {s \in Allowed : \A o \in Allowed : PlayScore(s, level) <= PlayScore(o, level)}
=============================================================================
