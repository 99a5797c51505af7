--------------------------- MODULE Readings_proofs ---------------------------
(***************************************************************************)
(* RuleEngine::canBeat compares a play with the last one only.  That this   *)
(* is enough rests on its being a strict order of the patterns, and on the  *)
(* analyzer yielding nothing but patterns.                                 *)
(*                                                                         *)
(* CardAnalyzer::analyze takes cards for what its tests of the natural      *)
(* cards let it, counting the wild ones.  That this is one of the readings, *)
(* and that no reading is missed, are two directions of one argument: the   *)
(* wild cards can be told what to stand for exactly if there are enough     *)
(* places for the natural cards (PlacesAreFilled, CountsCover).            *)
(***************************************************************************)
EXTENDS Readings, FiniteSetTheorems, FunctionTheorems, SequenceTheorems,
        WellFoundedInduction, TLAPS

\* The bombs of both kinds, on one scale: bombs of up to five cards, straight
\* flushes, longer bombs, joker bombs.
Tier(p) ==
    CASE p.type = "JOKER_BOMB" -> 4
      [] p.type = "BOMB" /\ p.length >= 6 -> 3
      [] p.type = "STRAIGHT_FLUSH" -> 2
      [] p.type = "BOMB" /\ p.length < 6 -> 1
      [] OTHER -> 0

\* A pattern beats another of a lower tier, or one of its own type.
LEMMA BeatsByTier ==
  ASSUME NEW p \in Patterns, NEW q \in Patterns
  PROVE  CanBeat(p, q) <=> Tier(p) > Tier(q) \/ SameTypeBeat(p, q)
<1>1. p.type \in PatternTypes /\ q.type \in PatternTypes /\ p.length \in Nat /\ q.length \in Nat
  BY DEF Patterns
<1>2. IsValid(p) /\ IsValid(q)
  BY <1>1 DEF IsValid, PatternTypes
<1>3. CASE p.type = q.type
  BY <1>1, <1>2, <1>3 DEF CanBeat, Tier, SameTypeBeat
<1>4. CASE p.type # q.type
  <2>1. ~SameTypeBeat(p, q)
    BY <1>4 DEF SameTypeBeat
  <2> QED
    BY <1>1, <1>2, <1>4, <2>1 DEF CanBeat, Tier
<1> QED
  BY <1>3, <1>4

\* Patterns of one type that beat one another do not go down a tier.
LEMMA SameTypeTier ==
  ASSUME NEW p \in Patterns, NEW q \in Patterns, SameTypeBeat(p, q)
  PROVE  Tier(p) >= Tier(q)
  BY DEF Patterns, SameTypeBeat, Tier

\* There are five tiers.
LEMMA TierNat == \A p \in Patterns : Tier(p) \in 0..4
  BY DEF Patterns, Tier

\* Within a type, beating is transitive.
LEMMA SameTypeTransitive ==
  ASSUME NEW p \in Patterns, NEW q \in Patterns, NEW r \in Patterns,
         SameTypeBeat(p, q), SameTypeBeat(q, r)
  PROVE  SameTypeBeat(p, r)
  BY DEF Patterns, SameTypeBeat

\* Within a type no pattern beats itself.
LEMMA SameTypeIrreflexive ==
  ASSUME NEW p \in Patterns
  PROVE  ~SameTypeBeat(p, p)
  BY DEF Patterns, SameTypeBeat

\* RuleEngine::canBeat is a strict order: nothing beats itself, and what beats a
\* pattern beats all that the pattern beats.
THEOREM BeatsTransitive ==
  \A p, q, r \in Patterns : CanBeat(p, q) /\ CanBeat(q, r) => CanBeat(p, r)
<1> SUFFICES ASSUME NEW p \in Patterns, NEW q \in Patterns, NEW r \in Patterns,
                    CanBeat(p, q), CanBeat(q, r)
             PROVE  CanBeat(p, r)
  OBVIOUS
<1>1. Tier(p) \in Int /\ Tier(q) \in Int /\ Tier(r) \in Int
  BY TierNat
<1>2. CASE Tier(p) > Tier(r)
  BY <1>2, BeatsByTier
<1>3. CASE ~(Tier(p) > Tier(r))
  <2>1. Tier(p) >= Tier(q) /\ Tier(q) >= Tier(r)
    BY <1>1, BeatsByTier, SameTypeTier
  <2>2. SameTypeBeat(p, q) /\ SameTypeBeat(q, r)
    BY <1>1, <1>3, <2>1, BeatsByTier
  <2> QED
    BY <2>2, SameTypeTransitive, BeatsByTier
<1> QED
  BY <1>2, <1>3

\* No pattern beats itself.
LEMMA BeatsIrreflexive == \A p \in Patterns : ~CanBeat(p, p)
  BY TierNat, BeatsByTier, SameTypeIrreflexive

\* Two plays never beat each other.
THEOREM BeatsAsymmetric == \A p, q \in Patterns : CanBeat(p, q) => ~CanBeat(q, p)
  BY BeatsTransitive, BeatsIrreflexive

-----------------------------------------------------------------------------
(* What the analyzer yields *)

\* Every set of numbers that has one has a least one.
LEMMA LeastNumber ==
  ASSUME NEW S, S # {}, S \subseteq Nat
  PROVE  \E l \in S : \A n \in S : l <= n
<1> DEFINE R == OpToRel(<, Nat)
<1>1. IsWellFoundedOn(R, Nat)
  BY NatLessThanWellFounded
<1>2. \A x, y \in Nat : <<y, x>> \in R <=> y < x
  BY DEF OpToRel
<1> HIDE DEF R
<1>3. \E x \in S : \A y \in S : ~ (<<y, x>> \in R)
  BY <1>1, WFMin
<1>4. PICK l \in S : \A n \in S : ~ (<<n, l>> \in R)
  BY <1>3
<1>5. \A n \in S : ~(n < l)
  <2> TAKE n \in S
  <2>1. n \in Nat /\ l \in Nat
    OBVIOUS
  <2> QED
    BY <1>2, <1>4, <2>1, Zenon
<1> QED
  BY <1>5

\* What a set without repetitions holds of some cards is what they have in common.
LEMMA CountInOnce ==
  ASSUME NEW cards, IsFiniteSet(cards), NEW S
  PROVE  CountIn(Once(cards), S) = Cardinality(S \cap cards)
<1> DEFINE common == S \cap cards
           parts == {{c} \X (1..1) : c \in common}
<1>1. DOMAIN Once(cards) = cards /\ \A c \in cards : Once(cards)[c] = 1
  BY DEF Once
<1>2. {{c} \X (1..Once(cards)[c]) : c \in S \cap DOMAIN Once(cards)} = parts
  BY <1>1
<1>3. UNION parts = common \X {1}
  OBVIOUS
<1>4. IsFiniteSet(common)
  BY FS_Intersection
<1> HIDE DEF common
<1>5. Cardinality(common \X {1}) = Cardinality(common)
  <2> DEFINE one == {1}
  <2>1. IsFiniteSet(one) /\ Cardinality(one) = 1
    BY FS_Singleton
  <2>2. Cardinality(common) \in Nat
    BY <1>4, FS_CardinalityType
  <2> HIDE DEF one
  <2>3. Cardinality(common \X one) = Cardinality(common) * Cardinality(one)
    BY <1>4, <2>1, FS_Product
  <2>4. Cardinality(common \X one) = Cardinality(common)
    BY <2>1, <2>2, <2>3
  <2> QED
    BY <2>4 DEF one
<1> HIDE DEF parts
<1>6. CountIn(Once(cards), S) = Cardinality(UNION parts)
  BY <1>2 DEF CountIn
<1> QED
  BY <1>3, <1>5, <1>6 DEF common

\* A request that lists no card twice is as large as its set of cards.
LEMMA SizeOfOnce ==
  ASSUME NEW cards, IsFiniteSet(cards)
  PROVE  Size(Once(cards)) = Cardinality(cards) /\ Cardinality(cards) \in Nat
<1>1. DOMAIN Once(cards) = cards /\ cards \cap cards = cards
  BY DEF Once
<1>2. CountIn(Once(cards), cards) = Cardinality(cards)
  BY <1>1, CountInOnce
<1> QED
  BY <1>1, <1>2, FS_CardinalityType DEF Size

Good(p) == p = Invalid \/ p \in Patterns

\* A pattern of the rules is good.
LEMMA PatternIsGood ==
  \A type \in PatternTypes : \A primary, length, pair \in Nat : Good(Pattern(type, primary, length, pair))
  BY DEF Good, Pattern, Patterns

\* What is found first among good patterns is good.
LEMMA FirstValidIsGood ==
  ASSUME NEW ps, DOMAIN ps \subseteq Nat, \A i \in DOMAIN ps : Good(ps[i])
  PROVE  Good(FirstValid(ps))
<1> DEFINE valid == {i \in DOMAIN ps : IsValid(ps[i])}
<1>1. CASE valid = {}
  BY <1>1 DEF FirstValid, Good
<1>2. CASE valid # {}
  <2>1. \E least \in valid : \A j \in valid : least <= j
    <3>1. valid \subseteq Nat
      OBVIOUS
    <3> HIDE DEF valid
    <3> QED
      BY <1>2, <3>1, LeastNumber
  <2>2. (CHOOSE i \in valid : \A j \in valid : i <= j) \in DOMAIN ps
    BY <2>1
  <2> QED
    BY <1>2, <2>2 DEF FirstValid
<1> QED
  BY <1>1, <1>2

\* The ranks that decide between patterns of a kind are numbers, those that are
\* looked for with CHOOSE are found.
LEMMA KindsAreGood ==
  ASSUME NEW cards \in SUBSET Card, cards # {}, NEW lvl \in 2..14,
         Size(Once(cards)) \in Nat
  PROVE  LET b == Once(cards) IN
         /\ Good(JokerBomb(b)) /\ Good(Bomb(b, lvl)) /\ Good(Single(b, lvl))
         /\ Good(TripleWithPair(b, lvl))
         /\ \A type \in {"PAIR", "TRIPLE"} : \A n \in Nat : Good(SameRank(b, lvl, type, n))
<1> DEFINE b == Once(cards)
           naturals == NaturalRanks(b, lvl)
<1>1. DOMAIN b = cards
  BY DEF Once
<1>2. \A c \in cards : Face[c].rank \in Nat
  <2>1. Ranks \subseteq Nat
    BY DEF Ranks, BigJoker
  <2> QED
    BY <2>1, FaceAssumption
<1>3. naturals \subseteq Nat
  BY <1>1, <1>2 DEF NaturalRanks, Naturals_
<1>4. \A r \in Nat : PatternRank(r, lvl) \in Nat
  BY DEF PatternRank, LevelCardPatternRank
<1>5. \A c \in cards : SingleRank(c, lvl) \in Nat
  BY <1>2, <1>4 DEF SingleRank, SmallJokerPatternRank, BigJokerPatternRank
<1>6. Good(Invalid)
  BY DEF Good
<1>7. Good(JokerBomb(b))
  BY <1>6, PatternIsGood DEF JokerBomb, PatternTypes, BigJoker
<1>8. Good(Bomb(b, lvl))
  <2>1. CASE \A c \in DOMAIN b : IsLevelCard(c, lvl)
    <3>1. Good(Pattern("BOMB", LevelCardPatternRank, Size(b), 0))
      BY PatternIsGood DEF PatternTypes, LevelCardPatternRank
    <3> HIDE DEF b
    <3> QED
      BY <1>6, <2>1, <3>1 DEF Bomb
  <2>2. CASE ~\A c \in DOMAIN b : IsLevelCard(c, lvl)
    <3>1. naturals # {}
      <4>1. PICK c \in cards : Face[c].rank # lvl
        BY <1>1, <2>2 DEF IsLevelCard
      <4>2. Face[c].rank \in naturals
        BY <1>1, <4>1 DEF NaturalRanks, Naturals_, Wilds, IsWild
      <4> QED
        BY <4>2
    <3>2. (CHOOSE r \in naturals : TRUE) \in Nat
      BY <1>3, <3>1
    <3>3. Good(Pattern("BOMB", CHOOSE r \in naturals : TRUE, Size(b), 0))
      BY <3>2, PatternIsGood DEF PatternTypes
    <3> HIDE DEF b
    <3> QED
      BY <1>6, <2>2, <3>3 DEF Bomb
  <2> QED
    BY <2>1, <2>2
<1>9. Good(Single(b, lvl))
  <2>1. SingleRank(CHOOSE c \in DOMAIN b : TRUE, lvl) \in Nat
    BY <1>1, <1>5
  <2> QED
    BY <2>1, PatternIsGood DEF Single, PatternTypes
<1>10. Good(TripleWithPair(b, lvl))
  <2> DEFINE Splits == {s \in naturals \X naturals : /\ s[1] # s[2]
                                                      /\ RankCount(b, lvl, s[1]) <= 3
                                                      /\ RankCount(b, lvl, s[2]) <= 2}
             first == CHOOSE s \in Splits : \A o \in Splits : s[1] <= o[1]
  <2>1. Splits # {} => first[1] \in Nat /\ first[2] \in Nat
    <3> SUFFICES ASSUME Splits # {} PROVE first[1] \in Nat /\ first[2] \in Nat
      OBVIOUS
    <3>1. \A s \in Splits : s[1] \in Nat /\ s[2] \in Nat
      BY <1>3
    <3> HIDE DEF Splits, naturals
    <3> DEFINE lower == {s[1] : s \in Splits}
    <3>2. \E l \in lower : \A n \in lower : l <= n
      <4>1. lower # {} /\ lower \subseteq Nat
        BY <3>1
      <4> HIDE DEF lower
      <4> QED
        BY <4>1, LeastNumber
    <3>3. \E s \in Splits : \A o \in Splits : s[1] <= o[1]
      BY <3>2
    <3>4. first \in Splits
      BY <3>3
    <3> HIDE DEF first
    <3> QED
      BY <3>1, <3>4
  <2>2. Splits # {} => Good(Pattern("TRIPLE_WITH_PAIR", PatternRank(first[1], lvl), 5, first[2]))
    <3> SUFFICES ASSUME Splits # {}
                 PROVE  Good(Pattern("TRIPLE_WITH_PAIR", PatternRank(first[1], lvl), 5, first[2]))
      OBVIOUS
    <3> HIDE DEF first, Splits
    <3> QED
      BY <1>4, <2>1, PatternIsGood DEF PatternTypes
  <2>3. TripleWithPair(b, lvl) = IF Cardinality(naturals) = 2 /\ Splits # {}
                                 THEN Pattern("TRIPLE_WITH_PAIR", PatternRank(first[1], lvl), 5, first[2])
                                 ELSE Invalid
    BY DEF TripleWithPair
  <2> HIDE DEF first, Splits, naturals, b
  <2> QED
    BY <1>6, <2>2, <2>3
<1>11. ASSUME NEW type \in {"PAIR", "TRIPLE"}, NEW n \in Nat
       PROVE  Good(SameRank(b, lvl, type, n))
  <2> DEFINE rank == IF naturals = {} THEN lvl ELSE CHOOSE r \in naturals : TRUE
  <2>1. rank \in Nat
    BY <1>3
  <2>2. SameRank(b, lvl, type, n) = IF Cardinality(naturals) <= 1
                                    THEN Pattern(type, PatternRank(rank, lvl), n, 0)
                                    ELSE Invalid
    BY DEF SameRank
  <2> HIDE DEF rank, naturals, b
  <2>3. Good(Pattern(type, PatternRank(rank, lvl), n, 0))
    BY <1>4, <2>1, PatternIsGood DEF PatternTypes
  <2> QED
    BY <1>6, <2>2, <2>3
<1> QED
  BY <1>7, <1>8, <1>9, <1>10, <1>11

\* So are the runs: their last slot is a number.
LEMMA RunsAreGood ==
  ASSUME NEW b, NEW lvl, NEW type \in PatternTypes, NEW slots \in 2..5, NEW copies
  PROVE  LET run == Run(b, lvl, type, slots, copies) IN
         run = Invalid \/ \E top \in Nat : run = Pattern(type, top, slots, 0)
<1> DEFINE window(start) == {SlotRank(i) : i \in start..(start + slots - 1)}
           have(start) == CountIn(b, {c \in Naturals_(b, lvl) : Face[c].rank \in window(start)})
           Fits(start) == /\ \A r \in window(start) : RankCount(b, lvl, r) <= copies
                          /\ slots * copies - have(start) <= CountIn(b, Wilds(b, lvl))
           Starts == {start \in 1..(15 - slots) : Fits(start)}
           lowest == CHOOSE s \in Starts : \A o \in Starts : s <= o
<1>1. Starts # {} => lowest + slots - 1 \in Nat
  <2> SUFFICES ASSUME Starts # {} PROVE lowest + slots - 1 \in Nat
    OBVIOUS
  <2>1. Starts \subseteq Nat /\ \A start \in Starts : start >= 1
    OBVIOUS
  <2> HIDE DEF Starts
  <2>2. lowest \in Starts
    BY <2>1, LeastNumber
  <2> HIDE DEF lowest
  <2> QED
    BY <2>1, <2>2
<1>2. Run(b, lvl, type, slots, copies) =
          IF /\ Size(b) = slots * copies
             /\ \A c \in Naturals_(b, lvl) : ~IsJoker(c)
             /\ Starts # {}
          THEN Pattern(type, lowest + slots - 1, slots, 0)
          ELSE Invalid
  BY DEF Run
<1> HIDE DEF Starts, lowest
<1> QED
  BY <1>1, <1>2

\* What the analyzer takes a request for, if anything, is a pattern with ranks and a
\* length that can be compared; for any cards of any deck, at every level.
THEOREM AnalyzeYieldsPatterns ==
  \A cards \in SUBSET Card : \A lvl \in 2..14 :
      cards # {} /\ IsFiniteSet(cards) => Good(Analyze(Once(cards), lvl))
<1> SUFFICES ASSUME NEW cards \in SUBSET Card, NEW lvl \in 2..14, cards # {}, IsFiniteSet(cards)
             PROVE  Good(Analyze(Once(cards), lvl))
  OBVIOUS
<1> DEFINE b == Once(cards)
<1>1. Size(b) \in Nat
  BY SizeOfOnce
<1>2. /\ Good(JokerBomb(b)) /\ Good(Bomb(b, lvl)) /\ Good(Single(b, lvl))
      /\ Good(TripleWithPair(b, lvl))
      /\ \A type \in {"PAIR", "TRIPLE"} : \A n \in Nat : Good(SameRank(b, lvl, type, n))
  BY <1>1, KindsAreGood
<1> HIDE DEF b
<1>3. /\ Good(Run(b, lvl, "THREE_PAIRS", 3, 2)) /\ Good(Run(b, lvl, "TWO_TRIPLES", 2, 3))
      /\ Good(Straight(b, lvl))
  <2>1. \A type \in PatternTypes : \A top \in Nat : \A slots \in 2..5 : Good(Pattern(type, top, slots, 0))
    BY PatternIsGood
  <2>2. \A type \in PatternTypes : \A slots \in 2..5 : \A copies : Good(Run(b, lvl, type, slots, copies))
    BY <2>1, RunsAreGood DEF Good
  <2> QED
    BY <2>2 DEF Straight, PatternTypes
<1>4. Good(StraightFlush(b, lvl))
  <2>1. CASE StraightFlush(b, lvl) = Invalid
    BY <2>1 DEF Good
  <2>2. CASE StraightFlush(b, lvl) # Invalid
    <3>1. IsValid(Straight(b, lvl)) /\ StraightFlush(b, lvl) = [Straight(b, lvl) EXCEPT !.type = "STRAIGHT_FLUSH"]
      BY <2>2 DEF StraightFlush
    <3>2. Straight(b, lvl) \in Patterns
      BY <1>3, <3>1 DEF Good, IsValid, Invalid, Pattern
    <3>3. \A p \in Patterns : [p EXCEPT !.type = "STRAIGHT_FLUSH"] \in Patterns
      BY DEF Patterns, PatternTypes
    <3> QED
      BY <3>1, <3>2, <3>3 DEF Good
  <2> QED
    BY <2>1, <2>2
<1>5. /\ Good(FirstValid(<<>>))
      /\ \A p : Good(p) => Good(FirstValid(<<p>>))
      /\ \A p, q : Good(p) /\ Good(q) => Good(FirstValid(<<p, q>>))
      /\ \A p, q, r : Good(p) /\ Good(q) /\ Good(r) => Good(FirstValid(<<p, q, r>>))
  <2>1. Good(FirstValid(<<>>))
    BY FirstValidIsGood
  <2>2. ASSUME NEW p, Good(p) PROVE Good(FirstValid(<<p>>))
    BY <2>2, FirstValidIsGood
  <2>3. ASSUME NEW p, NEW q, Good(p), Good(q) PROVE Good(FirstValid(<<p, q>>))
    BY <2>3, FirstValidIsGood
  <2>4. ASSUME NEW p, NEW q, NEW r, Good(p), Good(q), Good(r) PROVE Good(FirstValid(<<p, q, r>>))
    BY <2>4, FirstValidIsGood
  <2> QED
    BY <2>1, <2>2, <2>3, <2>4
<1> DEFINE n == Size(b)
           bombs == <<JokerBomb(b), Bomb(b, lvl)>>
           rest == CASE n = 1 -> <<Single(b, lvl)>>
                     [] n = 2 -> <<SameRank(b, lvl, "PAIR", 2)>>
                     [] n = 3 -> <<SameRank(b, lvl, "TRIPLE", 3)>>
                     [] n = 5 -> <<TripleWithPair(b, lvl), StraightFlush(b, lvl), Straight(b, lvl)>>
                     [] n = 6 -> <<Run(b, lvl, "THREE_PAIRS", 3, 2), Run(b, lvl, "TWO_TRIPLES", 2, 3)>>
                     [] OTHER -> <<>>
<1>6. Good(FirstValid(bombs))
  BY <1>2, <1>5, Zenon
<1>7. Good(FirstValid(rest))
  <2> HIDE DEF n
  <2>1. CASE n = 1
    <3>1. rest = <<Single(b, lvl)>>
      BY <2>1
    <3> HIDE DEF rest
    <3> QED
      BY <1>2, <1>5, <3>1
  <2>2. CASE n = 2
    <3>1. rest = <<SameRank(b, lvl, "PAIR", 2)>> /\ Good(SameRank(b, lvl, "PAIR", 2))
      BY <1>2, <2>2
    <3> HIDE DEF rest
    <3> QED
      BY <1>5, <3>1
  <2>3. CASE n = 3
    <3>1. rest = <<SameRank(b, lvl, "TRIPLE", 3)>> /\ Good(SameRank(b, lvl, "TRIPLE", 3))
      BY <1>2, <2>3
    <3> HIDE DEF rest
    <3> QED
      BY <1>5, <3>1
  <2>4. CASE n = 5
    <3>1. rest = <<TripleWithPair(b, lvl), StraightFlush(b, lvl), Straight(b, lvl)>>
      BY <2>4
    <3> HIDE DEF rest
    <3> QED
      BY <1>2, <1>3, <1>4, <1>5, <3>1
  <2>5. CASE n = 6
    <3>1. rest = <<Run(b, lvl, "THREE_PAIRS", 3, 2), Run(b, lvl, "TWO_TRIPLES", 2, 3)>>
      BY <2>5
    <3> HIDE DEF rest
    <3> QED
      BY <1>3, <1>5, <3>1
  <2>6. CASE n \notin {1, 2, 3, 5, 6}
    <3>1. rest = <<>>
      BY <2>6
    <3> HIDE DEF rest
    <3> QED
      BY <1>5, <3>1
  <2> QED
    BY <2>1, <2>2, <2>3, <2>4, <2>5, <2>6
<1>8. Analyze(b, lvl) = IF IsValid(FirstValid(bombs)) THEN FirstValid(bombs) ELSE FirstValid(rest)
  BY DEF Analyze
<1> HIDE DEF rest, bombs
<1> QED
  BY <1>6, <1>7, <1>8 DEF b

-----------------------------------------------------------------------------
(* Tricks *)

\* What is played is a pattern of the rules.
LEMMA PlaysArePatterns == \A play \in Plays : IsValid(play.pattern) => play.pattern \in Patterns
<1> SUFFICES ASSUME NEW lvl \in Levels, NEW cards \in Requests, IsValid(Analyze(Once(cards), lvl))
             PROVE  Analyze(Once(cards), lvl) \in Patterns
  BY DEF Plays
<1>1. lvl \in 2..14
  BY ReadingsAssumption
<1>2. cards \in SUBSET Card /\ IsFiniteSet(cards) /\ cards # {}
  BY FS_EmptySet DEF Requests
<1>3. Good(Analyze(Once(cards), lvl))
  BY <1>1, <1>2, AnalyzeYieldsPatterns
<1> QED
  BY <1>3 DEF Good, IsValid, Invalid, Pattern

TrickInv == level \in Levels /\ trick \in Seq(Patterns) /\ TrickClimbs

\* A play that beats the last pattern of a climbing trick beats all of them.
LEMMA TrickInvNext == TrickInv /\ [ReadingsNext]_readingVars => TrickInv'
<1> SUFFICES ASSUME TrickInv, [ReadingsNext]_readingVars
             PROVE  TrickInv'
  OBVIOUS
<1> USE DEF TrickInv
<1>1. CASE Take \/ UNCHANGED readingVars
  BY <1>1 DEF Take, readingVars, TrickClimbs
<1>2. CASE Play
  <2>1. PICK play \in Plays : CanBeat(play.pattern, Last) /\ trick' = Append(trick, play.pattern)
    BY <1>2 DEF Play
  <2> DEFINE p == play.pattern
  <2>2. p \in Patterns
    BY <2>1, PlaysArePatterns DEF CanBeat
  <2> HIDE DEF p
  <2>3. /\ trick' \in Seq(Patterns) /\ Len(trick') = Len(trick) + 1
        /\ \A i \in 1..Len(trick) : trick'[i] = trick[i] /\ trick[i] \in Patterns
        /\ trick'[Len(trick) + 1] = p
    BY <2>1, <2>2 DEF p
  <2>4. \A i \in 1..Len(trick) : CanBeat(p, trick[i])
    <3> SUFFICES ASSUME NEW i \in 1..Len(trick)
                 PROVE  CanBeat(p, trick[i])
      OBVIOUS
    <3> DEFINE n == Len(trick)
    <3>1. n \in Nat /\ n \in 1..n /\ i \in 1..n /\ Last = trick[n] /\ trick # << >> /\ DOMAIN trick = 1..n
      BY DEF Last
    <3> HIDE DEF n
    <3>2. CanBeat(p, trick[n])
      BY <2>1, <3>1 DEF p
    <3>3. i = n \/ CanBeat(trick[n], trick[i])
      <4>1. n \in DOMAIN trick /\ i \in DOMAIN trick /\ (i = n \/ i < n)
        BY <3>1
      <4> QED
        BY <4>1 DEF TrickClimbs
    <3> QED
      BY <2>2, <2>3, <3>1, <3>2, <3>3, BeatsTransitive
  <2>5. TrickClimbs'
    <3> SUFFICES ASSUME NEW i \in DOMAIN trick', NEW j \in DOMAIN trick', i < j
                 PROVE  CanBeat(trick'[j], trick'[i]) /\ ~CanBeat(trick'[i], trick'[j])
      BY DEF TrickClimbs
    <3>1. /\ i \in 1..Len(trick) /\ j \in 1..(Len(trick) + 1)
          /\ DOMAIN trick = 1..Len(trick)
      BY <2>3
    <3>2. CanBeat(trick'[j], trick'[i])
      BY <2>3, <2>4, <3>1 DEF TrickClimbs
    <3> QED
      BY <2>2, <2>3, <3>1, <3>2, BeatsAsymmetric
  <2> QED
    BY <1>2, <2>3, <2>5 DEF Play
<1> QED
  BY <1>1, <1>2 DEF ReadingsNext

\* A trick climbs, however many plays it takes and whatever cards are dealt: a
\* play also beats everything that was beaten before.
THEOREM TricksClimb == ReadingsSpec => []TrickClimbs
<1>1. ReadingsInit => TrickInv
  BY DEF ReadingsInit, TrickInv, TrickClimbs
<1>2. TrickInv => TrickClimbs
  BY DEF TrickInv
<1> QED
  BY <1>1, <1>2, TrickInvNext, PTL DEF ReadingsSpec

-----------------------------------------------------------------------------
(* Wild cards fill the places that the natural cards leave *)

\* A smaller set fits into a larger one.
LEMMA SmallerFits ==
  ASSUME NEW S, NEW T, IsFiniteSet(S), IsFiniteSet(T), Cardinality(S) <= Cardinality(T)
  PROVE  \E e : e \in Injection(S, T)
<1>1. /\ Cardinality(S) \in Nat /\ ExistsBijection(1..Cardinality(S), S)
      /\ Cardinality(T) \in Nat /\ ExistsBijection(1..Cardinality(T), T)
  BY FS_CardinalityType
<1> DEFINE n == Cardinality(S)
           m == Cardinality(T)
<1> HIDE DEF n, m
<1>2. ExistsInjection(1..n, 1..m)
  BY <1>1, Fun_NatInjLeq DEF n, m
<1>3. ExistsInjection(S, 1..n) /\ ExistsInjection(1..m, T)
  BY <1>1, Fun_ExistsBijEquiv DEF n, m
<1>4. ExistsInjection(S, T)
  BY <1>2, <1>3, Fun_ExistsInjTransitive
<1> QED
  BY <1>4, Fun_ExistsInj

\* The arguments at which a function has a value.
Of(g, r) == {x \in DOMAIN g : g[x] = r}

\* Things of which some (N) have a kind and the others (W) may take any fit a set of
\* places of given kinds, if there are as many places and none too few of a kind.
Enough(N, W, P, R, rank, place) ==
    /\ N \cap W = {}
    /\ IsFiniteSet(N) /\ IsFiniteSet(W) /\ IsFiniteSet(P)
    /\ Cardinality(P) = Cardinality(N \cup W)
    /\ rank \in [N -> R] /\ place \in [P -> R]
    /\ \A r \in R : Cardinality(Of(rank, r)) <= Cardinality(Of(place, r))

Filling(f, W, P, R, rank, place) ==
    /\ f \in [W -> {place[p] : p \in P}]
    /\ \A r \in R : Cardinality(Of(rank, r) \cup Of(f, r)) = Cardinality(Of(place, r))

\* The natural cards take places of their rank, and the wild cards all the others.
LEMMA PlacesAreFilled ==
  ASSUME NEW N, NEW W, NEW P, NEW R, NEW rank, NEW place, Enough(N, W, P, R, rank, place)
  PROVE  \E f : Filling(f, W, P, R, rank, place)
<1> DEFINE Having(r) == {c \in N : rank[c] = r}
           Places(r) == {p \in P : place[p] = r}
           e(r) == CHOOSE g : g \in Injection(Having(r), Places(r))
           h == [c \in N |-> e(rank[c])[c]]
           Held == {h[c] : c \in N}
<1>0. /\ N \cap W = {}
      /\ IsFiniteSet(N) /\ IsFiniteSet(W) /\ IsFiniteSet(P)
      /\ Cardinality(P) = Cardinality(N \cup W)
      /\ rank \in [N -> R] /\ place \in [P -> R]
      /\ \A r \in R : Cardinality(Of(rank, r)) <= Cardinality(Of(place, r))
  BY DEF Enough
<1>a. \A r : Having(r) = Of(rank, r) /\ Places(r) = Of(place, r)
  BY <1>0 DEF Of
<1>1. \A r \in R : IsFiniteSet(Having(r)) /\ IsFiniteSet(Places(r))
  <2>1. \A r : Having(r) \in SUBSET N /\ Places(r) \in SUBSET P
    OBVIOUS
  <2> HIDE DEF Having, Places
  <2> QED
    BY <1>0, <2>1, FS_Subset
<1>2. \A r \in R : e(r) \in Injection(Having(r), Places(r))
  <2> SUFFICES ASSUME NEW r \in R PROVE e(r) \in Injection(Having(r), Places(r))
    OBVIOUS
  <2>1. IsFiniteSet(Having(r)) /\ IsFiniteSet(Places(r)) /\ Cardinality(Having(r)) <= Cardinality(Places(r))
    <3> HIDE DEF Having, Places
    <3> QED
      BY <1>0, <1>a, <1>1
  <2> HIDE DEF Having, Places
  <2>2. \E g : g \in Injection(Having(r), Places(r))
    BY <2>1, SmallerFits
  <2> QED
    BY <2>2
<1>3. ASSUME NEW r \in R, NEW c \in Having(r), NEW d \in Having(r)
      PROVE  e(r)[c] \in Places(r) /\ (e(r)[c] = e(r)[d] => c = d)
  <2> HIDE DEF Having, Places, e
  <2> QED
    BY <1>2, Fun_InjectionProperties
<1>4. \A c \in N : h[c] \in P /\ place[h[c]] = rank[c]
  <2> SUFFICES ASSUME NEW c \in N PROVE h[c] \in P /\ place[h[c]] = rank[c]
    OBVIOUS
  <2>1. rank[c] \in R /\ c \in Having(rank[c])
    BY <1>0
  <2>2. e(rank[c])[c] \in Places(rank[c])
    <3> HIDE DEF Having, Places, e
    <3> QED
      BY <1>3, <2>1
  <2>3. h[c] = e(rank[c])[c]
    <3> HIDE DEF e
    <3> QED
      OBVIOUS
  <2> QED
    BY <2>2, <2>3
<1>5. \A c, d \in N : h[c] = h[d] => c = d
  <2> SUFFICES ASSUME NEW c \in N, NEW d \in N, h[c] = h[d] PROVE c = d
    OBVIOUS
  <2>1. rank[c] = rank[d] /\ rank[c] \in R
    <3> HIDE DEF h
    <3> QED
      BY <1>0, <1>4
  <2>2. c \in Having(rank[c]) /\ d \in Having(rank[c])
    BY <2>1
  <2>3. e(rank[c])[c] = e(rank[c])[d]
    <3> HIDE DEF e
    <3>1. h[c] = e(rank[c])[c] /\ h[d] = e(rank[d])[d]
      OBVIOUS
    <3> QED
      BY <2>1, <3>1
  <2> HIDE DEF Having, e, h
  <2> QED
    BY <1>3, <2>1, <2>2, <2>3
<1>6. h \in Bijection(N, Held) /\ Held \in SUBSET P
  <2> HIDE DEF e
  <2>1. h \in [N -> Held] /\ \A t \in Held : \E c \in N : h[c] = t
    OBVIOUS
  <2>2. Held \in SUBSET P
    <3> HIDE DEF h
    <3> QED
      BY <1>4
  <2> HIDE DEF h, Held
  <2> QED
    BY <1>5, <2>1, <2>2, Fun_IsBij
<1> HIDE DEF h, e
<1>7. IsFiniteSet(Held) /\ Cardinality(Held) = Cardinality(N)
  <2> HIDE DEF Held
  <2>1. ExistsBijection(N, Held)
    BY <1>6, Fun_ExistsBij
  <2> QED
    BY <1>0, <2>1, FS_Bijection
<1>8. IsFiniteSet(P \ Held) /\ Cardinality(P \ Held) = Cardinality(W)
  <2> HIDE DEF Held
  <2>1. IsFiniteSet(P \ Held) /\ Cardinality(P \ Held) = Cardinality(P) - Cardinality(P \cap Held)
    BY <1>0, FS_Difference
  <2>2. P \cap Held = Held
    BY <1>6
  <2>3. Cardinality(N \cup W) = Cardinality(N) + Cardinality(W) - 0
    BY <1>0, FS_Union, FS_EmptySet
  <2>4. Cardinality(N) \in Nat /\ Cardinality(W) \in Nat
    BY <1>0, FS_CardinalityType
  <2>5. Cardinality(P \ Held) = Cardinality(P) - Cardinality(N)
    BY <1>7, <2>1, <2>2, Zenon
  <2>6. Cardinality(P) = Cardinality(N) + Cardinality(W)
    BY <1>0, <2>3, <2>4
  <2> QED
    BY <2>1, <2>4, <2>5, <2>6
<1>9. PICK b : b \in Bijection(W, P \ Held)
  <2> HIDE DEF Held
  <2>1. ExistsBijection(W, P \ Held)
    BY <1>0, <1>8, FS_SameCardinalityBij
  <2> QED
    BY <2>1, Fun_ExistsBij, Zenon
<1>10. /\ b \in [W -> P \ Held]
       /\ \A v, w \in W : b[v] = b[w] => v = w
       /\ \A p \in P \ Held : \E w \in W : b[w] = p
  <2> HIDE DEF Held
  <2> QED
    BY <1>9, Fun_BijectionProperties
<1> DEFINE f == [w \in W |-> place[b[w]]]
<1>11. f \in [W -> {place[p] : p \in P}]
  BY <1>0, <1>10
<1>12. ASSUME NEW r \in R
       PROVE  Cardinality(Having(r) \cup {w \in W : f[w] = r}) = Cardinality(Places(r))
  <2> DEFINE D == Having(r) \cup {w \in W : f[w] = r}
             k == [c \in D |-> IF c \in N THEN h[c] ELSE b[c]]
  <2>1. k \in [D -> Places(r)]
    BY <1>0, <1>4, <1>10
  <2>2. \A c, d \in D : k[c] = k[d] => c = d
    BY <1>0, <1>5, <1>10
  <2>3. \A p \in Places(r) : \E c \in D : k[c] = p
    <3> SUFFICES ASSUME NEW p \in Places(r) PROVE \E c \in D : k[c] = p
      OBVIOUS
    <3>1. CASE p \in Held
      <4>1. PICK c \in N : h[c] = p
        BY <3>1
      <4>2. c \in D /\ k[c] = p
        BY <1>4, <4>1
      <4> QED
        BY <4>2
    <3>2. CASE p \notin Held
      <4>1. PICK w \in W : b[w] = p
        BY <1>10, <3>2
      <4>2. w \in D /\ k[w] = p
        BY <1>0, <4>1
      <4> QED
        BY <4>2
    <3> QED
      BY <3>1, <3>2
  <2>4. IsFiniteSet(Places(r)) /\ IsFiniteSet(D)
    <3>1. D \in SUBSET (N \cup W) /\ IsFiniteSet(N \cup W)
      BY <1>0, FS_Union
    <3> HIDE DEF D
    <3> QED
      BY <1>1, <3>1, FS_Subset
  <2>5. k \in Bijection(D, Places(r))
    <3> HIDE DEF D, k, Places
    <3> QED
      BY <2>1, <2>2, <2>3, Fun_IsBij
  <2> HIDE DEF D, k, Places
  <2>6. ExistsBijection(D, Places(r))
    BY <2>5, Fun_ExistsBij
  <2>7. Cardinality(D) = Cardinality(Places(r))
    BY <2>4, <2>6, FS_Bijection
  <2> QED
    BY <2>7 DEF D
<1>13. \A r : Of(f, r) = {w \in W : f[w] = r}
  BY DEF Of
<1> HIDE DEF f, Having, Places
<1> QED
  BY <1>a, <1>11, <1>12, <1>13 DEF Filling

\* How many cards of each rank there may be, whatever the wild cards stand for.
CountsOf(cards, lvl) == {RanksOf(cards, f) : f \in [{c \in cards : IsWild(c, lvl)} -> 2..14]}

\* The counts of the ranks that a set of places has.
CountsAt(P) == [r \in Ranks |-> Cardinality({p \in P : p[1] = r})]

\* As many places as cards, none too few of a rank; wild cards take no joker's place.
Fills(cards, lvl, P) ==
    /\ IsFiniteSet(P) /\ Cardinality(P) = Cardinality(cards)
    /\ \A p \in P : p[1] \in Ranks
    /\ \A r \in Ranks : RankCount(Once(cards), lvl, r) <= Cardinality({p \in P : p[1] = r})
    /\ Wilds(Once(cards), lvl) # {} => \A p \in P : p[1] \in 2..14

\* How often a rank is counted among the natural cards of a request.
LEMMA RankCountOfOnce ==
  ASSUME NEW cards \in SUBSET Card, IsFiniteSet(cards), NEW lvl \in 2..14, NEW r
  PROVE  /\ RankCount(Once(cards), lvl, r)
              = Cardinality({c \in cards : ~IsWild(c, lvl) /\ Face[c].rank = r})
         /\ RankCount(Once(cards), lvl, r) \in Nat
<1> DEFINE N == {c \in cards : ~IsWild(c, lvl) /\ Face[c].rank = r}
<1>1. {c \in Naturals_(Once(cards), lvl) : Face[c].rank = r} \cap cards = N
  BY DEF Naturals_, Wilds, Once
<1>2. IsFiniteSet(N)
  BY FS_Subset
<1> HIDE DEF N
<1> QED
  BY <1>1, <1>2, CountInOnce, FS_CardinalityType DEF RankCount, N

\* The cards can be read so that they have just the ranks of such places.
LEMMA CountsAreReached ==
  ASSUME NEW cards \in SUBSET Card, IsFiniteSet(cards), NEW lvl \in 2..14,
         NEW P, Fills(cards, lvl, P)
  PROVE  CountsAt(P) \in CountsOf(cards, lvl)
<1> DEFINE W == {c \in cards : IsWild(c, lvl)}
           N == cards \ W
           rank == [c \in N |-> Face[c].rank]
           place == [p \in P |-> p[1]]
<1>1. IsFiniteSet(N) /\ IsFiniteSet(W) /\ N \cap W = {} /\ N \cup W = cards
  BY FS_Subset
<1>2. rank \in [N -> Ranks] /\ place \in [P -> Ranks]
  BY FaceAssumption DEF Fills
<1>3. \A r \in Ranks : Cardinality(Of(rank, r)) <= Cardinality(Of(place, r))
  <2> SUFFICES ASSUME NEW r \in Ranks
               PROVE  Cardinality(Of(rank, r)) <= Cardinality(Of(place, r))
    OBVIOUS
  <2>1. Of(rank, r) = {c \in cards : ~IsWild(c, lvl) /\ Face[c].rank = r}
    BY DEF Of
  <2>2. Of(place, r) = {p \in P : p[1] = r}
    BY DEF Of
  <2>3. RankCount(Once(cards), lvl, r) <= Cardinality({p \in P : p[1] = r})
    BY DEF Fills
  <2>4. RankCount(Once(cards), lvl, r) = Cardinality({c \in cards : ~IsWild(c, lvl) /\ Face[c].rank = r})
    BY RankCountOfOnce
  <2> HIDE DEF W, N, rank, place
  <2> QED
    BY <2>1, <2>2, <2>3, <2>4
<1>4. PICK f : Filling(f, W, P, Ranks, rank, place)
  <2>1. IsFiniteSet(P) /\ Cardinality(P) = Cardinality(N \cup W)
    BY <1>1 DEF Fills
  <2> HIDE DEF W, N, rank, place
  <2>2. Enough(N, W, P, Ranks, rank, place)
    BY <1>1, <1>2, <1>3, <2>1 DEF Enough
  <2> QED
    BY <2>2, PlacesAreFilled, Zenon
<1>5. /\ f \in [W -> {place[p] : p \in P}]
      /\ \A r \in Ranks : Cardinality(Of(rank, r) \cup Of(f, r)) = Cardinality(Of(place, r))
  BY <1>4 DEF Filling
<1>5a. f \in [W -> 2..14]
  <2>1. CASE W = {}
    BY <1>5, <2>1
  <2>2. CASE W # {}
    <3>1. \A p \in P : place[p] \in 2..14
      BY <2>2 DEF Fills, Wilds, Once
    <3> HIDE DEF W, place
    <3> QED
      BY <1>5, <3>1
  <2> QED
    BY <2>1, <2>2
<1>6. RanksOf(cards, f) = CountsAt(P)
  <2>1. ASSUME NEW r \in Ranks
        PROVE  {c \in cards : (IF c \in DOMAIN f THEN f[c] ELSE Face[c].rank) = r}
                 = Of(rank, r) \cup Of(f, r)
    BY <1>5a DEF Of
  <2>2. \A r \in Ranks : Of(place, r) = {p \in P : p[1] = r}
    BY DEF Of
  <2> HIDE DEF W, N, rank, place
  <2>3. \A r \in Ranks : Cardinality({c \in cards : (IF c \in DOMAIN f THEN f[c] ELSE Face[c].rank) = r})
                           = Cardinality({p \in P : p[1] = r})
    BY <1>5, <2>1, <2>2
  <2> QED
    BY <2>3, Zenon DEF RanksOf, CountsAt
<1> HIDE DEF N, rank, place
<1> QED
  BY <1>5a, <1>6 DEF CountsOf

\* The suits of the natural cards.
SuitsOf(cards, lvl) == {Face[c].suit : c \in cards \ {c \in cards : IsWild(c, lvl)}}

\* What the kinds of possible counts are is a reading; only straights may be more.
LEMMA KindsAreRead ==
  ASSUME NEW cards, NEW lvl, NEW n \in CountsOf(cards, lvl),
         NEW type, NEW primary, NEW length, NEW pair,
         Pattern(type, primary, length, pair) \in Kinds(n, Cardinality(cards), lvl)
  PROVE  Pattern(IF type = "STRAIGHT" /\ Cardinality(SuitsOf(cards, lvl)) = 1
                 THEN "STRAIGHT_FLUSH" ELSE type, primary, length, pair) \in Readings(cards, lvl)
<1> DEFINE p == Pattern(type, primary, length, pair)
           plain == UNION {Kinds(m, Cardinality(cards), lvl) : m \in CountsOf(cards, lvl)}
           Read(q) == [q EXCEPT !.type = IF @ = "STRAIGHT" /\ Cardinality(SuitsOf(cards, lvl)) = 1
                                         THEN "STRAIGHT_FLUSH" ELSE @]
<1>1. p \in plain
  OBVIOUS
<1>2. Readings(cards, lvl) = {Read(q) : q \in plain}
  BY DEF Readings, CountsOf, SuitsOf
<1>3. Read(p) = Pattern(IF type = "STRAIGHT" /\ Cardinality(SuitsOf(cards, lvl)) = 1
                        THEN "STRAIGHT_FLUSH" ELSE type, primary, length, pair)
  BY DEF Pattern
<1> HIDE DEF p, plain, Read
<1>4. Read(p) \in Readings(cards, lvl)
  BY <1>1, <1>2
<1> QED
  BY <1>3, <1>4

-----------------------------------------------------------------------------
(* What the analyzer takes cards for is a reading *)

\* A column of a rank is as high as the set of its places.
LEMMA ColumnSize ==
  ASSUME NEW r, NEW S, IsFiniteSet(S)
  PROVE  IsFiniteSet({r} \X S) /\ Cardinality({r} \X S) = Cardinality(S) /\ Cardinality(S) \in Nat
<1> DEFINE one == {r}
<1>1. IsFiniteSet(one) /\ Cardinality(one) = 1
  BY FS_Singleton
<1>2. Cardinality(S) \in Nat
  BY FS_CardinalityType
<1> HIDE DEF one
<1>3. IsFiniteSet(one \X S) /\ Cardinality(one \X S) = 1 * Cardinality(S)
  BY <1>1, FS_Product
<1>4. Cardinality(one \X S) = Cardinality(S)
  BY <1>2, <1>3
<1> QED
  BY <1>2, <1>3, <1>4 DEF one

\* The size of an interval of places.
LEMMA IntervalSize == \A k \in Nat : IsFiniteSet(1..k) /\ Cardinality(1..k) = k
<1> SUFFICES ASSUME NEW k \in Nat PROVE IsFiniteSet(1..k) /\ Cardinality(1..k) = k
  OBVIOUS
<1>1. IsFiniteSet(1..k) /\ Cardinality(1..k) = IF 1 > k THEN 0 ELSE k - 1 + 1
  BY FS_Interval
<1> QED
  BY <1>1

\* Two things are two.
LEMMA PairSize ==
  ASSUME NEW a, NEW b, a # b
  PROVE  Cardinality({a, b}) = 2
<1> DEFINE one == {a}
<1>1. IsFiniteSet(one) /\ Cardinality(one) = 1 /\ b \notin one
  BY FS_Singleton
<1> HIDE DEF one
<1>2. Cardinality(one \cup {b}) = 1 + 1
  BY <1>1, FS_AddElement
<1>3. one \cup {b} = {a, b}
  BY DEF one
<1> QED
  BY <1>2, <1>3

\* Sizes of disjoint sets add up.
LEMMA DisjointSize ==
  ASSUME NEW S, NEW T, IsFiniteSet(S), IsFiniteSet(T), S \cap T = {}
  PROVE  IsFiniteSet(S \cup T) /\ Cardinality(S \cup T) = Cardinality(S) + Cardinality(T)
<1>1. /\ IsFiniteSet(S \cup T)
      /\ Cardinality(S \cup T) = Cardinality(S) + Cardinality(T) - Cardinality(S \cap T)
  BY FS_Union
<1>2. Cardinality(S \cap T) = 0 /\ Cardinality(S) \in Nat /\ Cardinality(T) \in Nat
  BY FS_EmptySet, FS_CardinalityType
<1> QED
  BY <1>1, <1>2

\* Cards that are all of one rank or wild can be read as so many of that rank.
LEMMA OneRankIsRead ==
  ASSUME NEW cards \in SUBSET Card, IsFiniteSet(cards), Cardinality(cards) >= 2, NEW lvl \in 2..14,
         NEW r \in Ranks, NaturalRanks(Once(cards), lvl) \subseteq {r},
         Wilds(Once(cards), lvl) # {} => r \in 2..14
  PROVE  LET size == Cardinality(cards)
         IN  Pattern(IF size = 2 THEN "PAIR" ELSE IF size = 3 THEN "TRIPLE" ELSE "BOMB",
                     PatternRank(r, lvl), size, 0) \in Readings(cards, lvl)
<1> DEFINE P == {r} \X cards
           size == Cardinality(cards)
           type == IF size = 2 THEN "PAIR" ELSE IF size = 3 THEN "TRIPLE" ELSE "BOMB"
<1>1. IsFiniteSet(P) /\ Cardinality(P) = size /\ size \in Nat
  BY ColumnSize
<1>2. \A q \in Ranks : {p \in P : p[1] = q} = IF q = r THEN P ELSE {}
  OBVIOUS
<1>3. ASSUME NEW q \in Ranks
      PROVE  RankCount(Once(cards), lvl, q) <= Cardinality({p \in P : p[1] = q})
  <2> DEFINE of == {c \in cards : ~IsWild(c, lvl) /\ Face[c].rank = q}
  <2>1. RankCount(Once(cards), lvl, q) = Cardinality(of)
    BY RankCountOfOnce
  <2>2. CASE q = r
    <3>1. of \in SUBSET cards
      OBVIOUS
    <3> HIDE DEF of
    <3>2. Cardinality(of) <= size
      BY <3>1, FS_Subset
    <3>3. {p \in P : p[1] = q} = P
      BY <1>2, <2>2
    <3> HIDE DEF P, size
    <3> QED
      BY <1>1, <2>1, <3>2, <3>3
  <2>3. CASE q # r
    <3>1. of = {}
      BY <2>3 DEF NaturalRanks, Naturals_, Wilds, Once
    <3>2. {p \in P : p[1] = q} = {}
      BY <2>3
    <3> HIDE DEF of, P
    <3> QED
      BY <2>1, <3>1, <3>2, FS_EmptySet
  <2> QED
    BY <2>2, <2>3
<1>4. Fills(cards, lvl, P)
  <2>1. \A p \in P : p[1] = r
    OBVIOUS
  <2> HIDE DEF P
  <2> QED
    BY <1>1, <1>3, <2>1 DEF Fills
<1>5. CountsAt(P) \in CountsOf(cards, lvl)
  <2> HIDE DEF P
  <2> QED
    BY <1>4, CountsAreReached
<1>6. CountsAt(P)[r] = size
  <2>1. {p \in P : p[1] = r} = P
    OBVIOUS
  <2> HIDE DEF P, size
  <2> QED
    BY <1>1, <2>1 DEF CountsAt
<1> DEFINE n == CountsAt(P)
<1> HIDE DEF n
<1>7. r \in Same(n, size)
  BY <1>1, <1>6 DEF Same, Counts, n
<1> HIDE DEF P, size
<1>8. Pattern(type, PatternRank(r, lvl), size, 0) \in Kinds(n, size, lvl)
  BY <1>7 DEF Kinds, size
<1>9. type # "STRAIGHT"
  OBVIOUS
<1> HIDE DEF type
<1>10. Pattern(type, PatternRank(r, lvl), size, 0) \in Readings(cards, lvl)
  BY <1>5, <1>8, <1>9, KindsAreRead DEF n, size
<1> QED
  BY <1>10 DEF type, size

\* Five cards with at most three of one rank, at most two of another and otherwise
\* wild ones can be read as a triple of the first with a pair of the second.
LEMMA TwoRanksAreRead ==
  ASSUME NEW cards \in SUBSET Card, IsFiniteSet(cards), Cardinality(cards) = 5, NEW lvl \in 2..14,
         NEW t \in Ranks, NEW s \in Ranks, t # s,
         NaturalRanks(Once(cards), lvl) \subseteq {t, s},
         RankCount(Once(cards), lvl, t) <= 3, RankCount(Once(cards), lvl, s) <= 2,
         Wilds(Once(cards), lvl) # {} => t \in 2..14 /\ s \in 2..14
  PROVE  Pattern("TRIPLE_WITH_PAIR", PatternRank(t, lvl), 5, s) \in Readings(cards, lvl)
<1> DEFINE three == {t} \X (1..3)
           two == {s} \X (1..2)
           P == three \cup two
<1>1. /\ IsFiniteSet(three) /\ Cardinality(three) = 3
      /\ IsFiniteSet(two) /\ Cardinality(two) = 2
  <2>1. /\ IsFiniteSet(1..3) /\ Cardinality(1..3) = 3
        /\ IsFiniteSet(1..2) /\ Cardinality(1..2) = 2
    <3>1. 3 \in Nat /\ 2 \in Nat
      OBVIOUS
    <3> QED
      BY <3>1, IntervalSize, Zenon
  <2> QED
    BY <2>1, ColumnSize
<1>2. three \cap two = {}
  OBVIOUS
<1>3. IsFiniteSet(P) /\ Cardinality(P) = 5
  <2> HIDE DEF three, two
  <2>1. IsFiniteSet(P) /\ Cardinality(P) = 3 + 2
    BY <1>1, <1>2, DisjointSize
  <2> QED
    BY <2>1
<1>4. \A q \in Ranks : {p \in P : p[1] = q} = IF q = t THEN three ELSE IF q = s THEN two ELSE {}
  OBVIOUS
<1>5. ASSUME NEW q \in Ranks
      PROVE  /\ Cardinality({p \in P : p[1] = q}) = (IF q = t THEN 3 ELSE IF q = s THEN 2 ELSE 0)
             /\ RankCount(Once(cards), lvl, q) <= Cardinality({p \in P : p[1] = q})
  <2>1. Cardinality({p \in P : p[1] = q}) = (IF q = t THEN 3 ELSE IF q = s THEN 2 ELSE 0)
    <3>1. {p \in P : p[1] = q} = IF q = t THEN three ELSE IF q = s THEN two ELSE {}
      BY <1>4
    <3> HIDE DEF P, three, two
    <3> QED
      BY <1>1, <3>1, FS_EmptySet
  <2>2. q \notin {t, s} => RankCount(Once(cards), lvl, q) = 0
    <3> DEFINE of == {c \in cards : ~IsWild(c, lvl) /\ Face[c].rank = q}
    <3>1. q \notin {t, s} => of = {}
      BY DEF NaturalRanks, Naturals_, Wilds, Once
    <3>2. RankCount(Once(cards), lvl, q) = Cardinality(of)
      BY RankCountOfOnce
    <3> HIDE DEF of
    <3> QED
      BY <3>1, <3>2, FS_EmptySet
  <2> HIDE DEF P
  <2> QED
    BY <2>1, <2>2
<1>6. Fills(cards, lvl, P)
  <2>1. \A p \in P : p[1] \in {t, s}
    OBVIOUS
  <2> HIDE DEF P
  <2> QED
    BY <1>3, <1>5, <2>1 DEF Fills
<1> DEFINE n == CountsAt(P)
<1>7. \A q \in Ranks : n[q] = IF q = t THEN 3 ELSE IF q = s THEN 2 ELSE 0
  <2> HIDE DEF P
  <2> QED
    BY <1>5 DEF CountsAt
<1>8. n \in CountsOf(cards, lvl)
  <2> HIDE DEF P
  <2> QED
    BY <1>6, CountsAreReached
<1> HIDE DEF n, P
<1>9. Counts(n) = {t, s} /\ t \in Same(n, 3)
  BY <1>7 DEF Counts, Same
<1>10. Cardinality(Counts(n)) = 2 /\ Counts(n) \ {t} = {s}
  <2>1. Cardinality({t, s}) = 2 /\ {t, s} \ {t} = {s}
    BY PairSize
  <2> QED
    BY <1>9, <2>1
<1>11. Pattern("TRIPLE_WITH_PAIR", PatternRank(t, lvl), 5, s) \in Kinds(n, 5, lvl)
  <2>1. (CHOOSE p \in Counts(n) \ {t} : TRUE) = s
    BY <1>10
  <2>2. Pattern("TRIPLE_WITH_PAIR", PatternRank(t, lvl), 5, CHOOSE p \in Counts(n) \ {t} : TRUE) \in Kinds(n, 5, lvl)
    BY <1>9, <1>10 DEF Kinds
  <2> QED
    BY <2>1, <2>2
<1> QED
  BY <1>8, <1>11, KindsAreRead

\* The kinds of runs: their slots and the copies in each.
RunKinds == {<<"STRAIGHT", 5, 1>>, <<"THREE_PAIRS", 3, 2>>, <<"TWO_TRIPLES", 2, 3>>}

\* A window has a rank for each slot: the ace is not in one at both ends.
LEMMA WindowSize ==
  ASSUME NEW slots \in 2..5, NEW top \in slots..14
  PROVE  /\ Window(top, slots) \subseteq 2..14
         /\ IsFiniteSet(Window(top, slots)) /\ Cardinality(Window(top, slots)) = slots
<1> DEFINE low == top - slots + 1
           g == [i \in low..top |-> SlotRank(i)]
<1>1. low \in 1..13 /\ low <= top /\ top \in 2..14 /\ top - low + 1 = slots /\ top - low < 5
  OBVIOUS
<1>2. Window(top, slots) = {SlotRank(i) : i \in low..top}
  BY DEF Window
<1> HIDE DEF low
<1>3. Window(top, slots) \subseteq 2..14
  BY <1>1, <1>2 DEF SlotRank
<1>4. \A i, j \in low..top : SlotRank(i) = SlotRank(j) => i = j
  BY <1>1 DEF SlotRank
<1>5. g \in Bijection(low..top, Window(top, slots))
  <2>1. g \in [low..top -> Window(top, slots)]
    BY <1>2
  <2>2. \A i, j \in low..top : g[i] = g[j] => i = j
    BY <1>4
  <2>3. \A t \in Window(top, slots) : \E i \in low..top : g[i] = t
    BY <1>2
  <2> HIDE DEF g
  <2> QED
    BY <2>1, <2>2, <2>3, Fun_IsBij
<1> HIDE DEF g
<1>6. ExistsBijection(low..top, Window(top, slots))
  BY <1>5, Fun_ExistsBij
<1>7. IsFiniteSet(low..top) /\ Cardinality(low..top) = slots
  <2>1. low \in Int /\ top \in Int /\ ~(low > top)
    BY <1>1
  <2>2. IsFiniteSet(low..top) /\ Cardinality(low..top) = top - low + 1
    BY <2>1, FS_Interval
  <2> QED
    BY <1>1, <2>2
<1> QED
  BY <1>3, <1>6, <1>7, FS_Bijection

\* Cards that lie in a window, none of its ranks too often, can be read as a run of it.
LEMMA WindowIsRead ==
  ASSUME NEW cards \in SUBSET Card, IsFiniteSet(cards), NEW lvl \in 2..14,
         NEW run \in RunKinds, NEW top \in run[2]..14,
         Cardinality(cards) = run[2] * run[3],
         NaturalRanks(Once(cards), lvl) \subseteq Window(top, run[2]),
         \A r \in Window(top, run[2]) : RankCount(Once(cards), lvl, r) <= run[3]
  PROVE  Pattern(IF run[1] = "STRAIGHT" /\ Cardinality(SuitsOf(cards, lvl)) = 1
                 THEN "STRAIGHT_FLUSH" ELSE run[1], top, run[2], 0) \in Readings(cards, lvl)
<1> DEFINE slots == run[2]
           copies == run[3]
           window == Window(top, slots)
           column == 1..copies
           P == window \X column
<1>1. slots \in 2..5 /\ copies \in 1..3 /\ top \in slots..14
  BY DEF RunKinds
<1>2. window \subseteq 2..14 /\ IsFiniteSet(window) /\ Cardinality(window) = slots
  <2> HIDE DEF slots
  <2> QED
    BY <1>1, WindowSize
<1>3. IsFiniteSet(column) /\ Cardinality(column) = copies
  <2>1. copies \in Nat
    BY <1>1
  <2> HIDE DEF copies
  <2> QED
    BY <2>1, IntervalSize
<1>4. IsFiniteSet(P) /\ Cardinality(P) = slots * copies
  <2> HIDE DEF window, column, slots, copies
  <2>1. IsFiniteSet(window \X column) /\ Cardinality(window \X column) = Cardinality(window) * Cardinality(column)
    BY <1>2, <1>3, FS_Product
  <2> QED
    BY <1>2, <1>3, <2>1
<1>5. ASSUME NEW q \in Ranks
      PROVE  /\ Cardinality({p \in P : p[1] = q}) = (IF q \in window THEN copies ELSE 0)
             /\ RankCount(Once(cards), lvl, q) <= Cardinality({p \in P : p[1] = q})
  <2>1. Cardinality({p \in P : p[1] = q}) = (IF q \in window THEN copies ELSE 0)
    <3> HIDE DEF window, column
    <3>1. {p \in P : p[1] = q} = IF q \in window THEN {q} \X column ELSE {}
      OBVIOUS
    <3>2. Cardinality({q} \X column) = copies
      BY <1>3, ColumnSize
    <3> HIDE DEF P, copies
    <3> QED
      BY <3>1, <3>2, FS_EmptySet
  <2>2. q \notin window => RankCount(Once(cards), lvl, q) = 0
    <3> DEFINE of == {c \in cards : ~IsWild(c, lvl) /\ Face[c].rank = q}
    <3>1. q \notin window => of = {}
      <4> HIDE DEF window
      <4>1. NaturalRanks(Once(cards), lvl) \subseteq window
        BY DEF window
      <4> QED
        BY <4>1 DEF NaturalRanks, Naturals_, Wilds, Once
    <3>2. RankCount(Once(cards), lvl, q) = Cardinality(of)
      BY RankCountOfOnce
    <3> HIDE DEF of
    <3> QED
      BY <3>1, <3>2, FS_EmptySet
  <2>3. q \in window => RankCount(Once(cards), lvl, q) <= copies
    OBVIOUS
  <2> HIDE DEF P, window, copies
  <2> QED
    BY <2>1, <2>2, <2>3
<1>6. Fills(cards, lvl, P)
  <2>1. \A p \in P : p[1] \in window
    <3> HIDE DEF window, column
    <3> QED
      OBVIOUS
  <2>2. \A r \in window : r \in Ranks /\ r \in 2..14
    BY <1>2 DEF Ranks, BigJoker
  <2>3. Cardinality(cards) = slots * copies
    OBVIOUS
  <2> HIDE DEF P, window, slots, copies
  <2> QED
    BY <1>4, <1>5, <2>1, <2>2, <2>3 DEF Fills
<1> DEFINE n == CountsAt(P)
<1>7. \A q \in Ranks : n[q] = IF q \in window THEN copies ELSE 0
  <2> HIDE DEF P, window, copies
  <2> QED
    BY <1>5 DEF CountsAt
<1>8. n \in CountsOf(cards, lvl)
  <2> HIDE DEF P
  <2> QED
    BY <1>6, CountsAreReached
<1> HIDE DEF n, P
<1>9. Counts(n) = window /\ Only(n, copies)
  <2>1. \A r \in window : r \in Ranks
    BY <1>2 DEF Ranks, BigJoker
  <2> HIDE DEF window, copies
  <2> QED
    BY <1>1, <1>7, <2>1 DEF Counts, Only
<1>10. Pattern(run[1], top, run[2], 0) \in Kinds(n, run[2] * run[3], lvl)
  <2> DEFINE runs == {k \in RunKinds : k[2] * k[3] = run[2] * run[3] /\ Only(n, k[3])}
             kinds(k) == {Pattern(k[1], t, k[2], 0) : t \in {t \in k[2]..14 : Counts(n) = Window(t, k[2])}}
  <2>1. UNION {kinds(k) : k \in runs} \subseteq Kinds(n, run[2] * run[3], lvl)
    BY DEF Kinds, RunKinds
  <2>2. run \in runs
    BY <1>9
  <2>3. Pattern(run[1], top, run[2], 0) \in kinds(run)
    BY <1>9
  <2> HIDE DEF runs, kinds
  <2> QED
    BY <2>1, <2>2, <2>3
<1> QED
  BY <1>8, <1>10, KindsAreRead

\* A run that the analyzer finds has all natural cards in its window: the wild cards
\* are just enough for the rest of it.
LEMMA RunIsFound ==
  ASSUME NEW cards \in SUBSET Card, IsFiniteSet(cards), NEW lvl \in 2..14,
         NEW type, NEW slots \in 2..5, NEW copies \in 1..3,
         Run(Once(cards), lvl, type, slots, copies) # Invalid
  PROVE  /\ Cardinality(cards) = slots * copies
         /\ \E top \in slots..14 :
               /\ Run(Once(cards), lvl, type, slots, copies) = Pattern(type, top, slots, 0)
               /\ NaturalRanks(Once(cards), lvl) \subseteq Window(top, slots)
               /\ \A r \in Window(top, slots) : RankCount(Once(cards), lvl, r) <= copies
<1> DEFINE b == Once(cards)
           N == Naturals_(b, lvl)
           W == Wilds(b, lvl)
           window(start) == {SlotRank(i) : i \in start..(start + slots - 1)}
           In(start) == {c \in N : Face[c].rank \in window(start)}
           have(start) == CountIn(b, In(start))
           Fits(start) == /\ \A r \in window(start) : RankCount(b, lvl, r) <= copies
                          /\ slots * copies - have(start) <= CountIn(b, W)
           Starts == {start \in 1..(15 - slots) : Fits(start)}
           lowest == CHOOSE s \in Starts : \A o \in Starts : s <= o
<1>1. Run(b, lvl, type, slots, copies) =
          IF /\ Size(b) = slots * copies
             /\ \A c \in N : ~IsJoker(c)
             /\ Starts # {}
          THEN Pattern(type, lowest + slots - 1, slots, 0)
          ELSE Invalid
  BY DEF Run
<1>2. /\ Size(b) = slots * copies /\ Starts # {}
      /\ Run(b, lvl, type, slots, copies) = Pattern(type, lowest + slots - 1, slots, 0)
  <2> HIDE DEF Starts, lowest, N
  <2> QED
    BY <1>1
<1>3. lowest \in Starts
  <2>1. Starts \subseteq Nat
    OBVIOUS
  <2> HIDE DEF Starts
  <2> QED
    BY <1>2, <2>1, LeastNumber
<1>4. lowest \in 1..(15 - slots) /\ Fits(lowest)
  <2> DEFINE l == lowest
  <2> HIDE DEF l
  <2>1. l \in Starts
    BY <1>3 DEF l
  <2>2. l \in 1..(15 - slots) /\ Fits(l)
    <3> HIDE DEF Fits
    <3> QED
      BY <2>1
  <2> QED
    BY <2>2 DEF l
<1> DEFINE top == lowest + slots - 1
<1> HIDE DEF Starts, lowest
<1>5. top \in slots..14 /\ lowest = top - slots + 1
  BY <1>4
<1>6. window(lowest) = Window(top, slots)
  <2>1. lowest..(lowest + slots - 1) = (top - slots + 1)..top
    BY <1>5
  <2> HIDE DEF top
  <2> QED
    BY <2>1 DEF Window
<1>7. Cardinality(cards) = slots * copies
  BY <1>2, SizeOfOnce
<1>8. N \subseteq cards /\ W \subseteq cards /\ N \cap W = {} /\ N \cup W = cards
  BY DEF Naturals_, Wilds, Once
<1> HIDE DEF b, N, W
<1>9. IsFiniteSet(N) /\ IsFiniteSet(W) /\ Cardinality(N) \in Nat /\ Cardinality(W) \in Nat
  BY <1>8, FS_Subset, FS_CardinalityType
<1>10. Cardinality(N) + Cardinality(W) = slots * copies
  BY <1>7, <1>8, <1>9, DisjointSize
<1> DEFINE I == In(lowest)
<1>11. I \subseteq N /\ I \cap cards = I /\ W \cap cards = W
  <2> HIDE DEF window
  <2> QED
    BY <1>8
<1>12. CountIn(b, I) = Cardinality(I) /\ CountIn(b, W) = Cardinality(W)
  <2> HIDE DEF I
  <2> QED
    BY <1>11, CountInOnce DEF b
<1>13. slots * copies - CountIn(b, I) <= CountIn(b, W)
  <2> HIDE DEF window
  <2> QED
    BY <1>4
<1>14. I = N
  <2> HIDE DEF I
  <2>1. Cardinality(I) <= Cardinality(N) /\ IsFiniteSet(I)
    BY <1>9, <1>11, FS_Subset
  <2>2. Cardinality(I) \in Nat
    BY <2>1, FS_CardinalityType
  <2> DEFINE ci == Cardinality(I)
             cn == Cardinality(N)
             cw == Cardinality(W)
             sc == slots * copies
  <2>3. ci \in Nat /\ cn \in Nat /\ cw \in Nat /\ ci <= cn /\ cn + cw = sc /\ sc - ci <= cw /\ sc \in Int
    BY <1>9, <1>10, <1>12, <1>13, <2>1, <2>2
  <2> HIDE DEF ci, cn, cw, sc
  <2>4. ci = cn
    BY <2>3
  <2> QED
    BY <1>9, <1>11, <2>4, FS_Subset DEF ci, cn
<1>15. NaturalRanks(b, lvl) \subseteq Window(top, slots)
  <2>1. \A c \in N : Face[c].rank \in window(lowest)
    <3> HIDE DEF window
    <3> QED
      BY <1>14
  <2> HIDE DEF window, top
  <2> QED
    BY <1>6, <2>1 DEF NaturalRanks, N
<1>16. \A r \in Window(top, slots) : RankCount(b, lvl, r) <= copies
  <2> HIDE DEF window, top
  <2> QED
    BY <1>4, <1>6
<1> HIDE DEF window, I
<1>17. Run(b, lvl, type, slots, copies) = Pattern(type, top, slots, 0)
  BY <1>2
<1> HIDE DEF top
<1> QED
  BY <1>5, <1>7, <1>15, <1>16, <1>17 DEF b

\* Jokers are not put next to wild cards.
Unmixed(cards, lvl) == ~((\E c \in cards : IsJoker(c)) /\ \E c \in cards : IsWild(c, lvl))

\* Counts of two and more of either joker are those of a joker bomb.
LEMMA JokersAreAKind ==
  ASSUME NEW n, NEW size, NEW lvl, Counts(n) = {SmallJoker, BigJoker}, n[SmallJoker] >= 2, n[BigJoker] >= 2
  PROVE  Pattern("JOKER_BOMB", BigJoker, size, 0) \in Kinds(n, size, lvl)
<1> DEFINE big == {r \in {BigJoker} : /\ Counts(n) = {SmallJoker, BigJoker}
                                      /\ n[SmallJoker] >= 2 /\ n[BigJoker] >= 2}
           jokers == {Pattern("JOKER_BOMB", r, size, 0) : r \in big}
           ranks == {Pattern(IF size = 2 THEN "PAIR" ELSE IF size = 3 THEN "TRIPLE" ELSE "BOMB",
                             PatternRank(r, lvl), size, 0) : r \in IF size >= 2 THEN Same(n, size) ELSE {}}
           triples == {Pattern("TRIPLE_WITH_PAIR", PatternRank(t, lvl), 5, CHOOSE p \in Counts(n) \ {t} : TRUE) :
                          t \in {t \in Same(n, 3) : size = 5 /\ Cardinality(Counts(n)) = 2}}
           runs == UNION {{Pattern(run[1], top, run[2], 0) :
                              top \in {top \in run[2]..14 : Counts(n) = Window(top, run[2])}} :
                          run \in {run \in {<<"STRAIGHT", 5, 1>>, <<"THREE_PAIRS", 3, 2>>, <<"TWO_TRIPLES", 2, 3>>} :
                                      run[2] * run[3] = size /\ Only(n, run[3])}}
<1>1. Kinds(n, size, lvl) = ranks \cup triples \cup runs \cup jokers
  BY DEF Kinds
<1>2. BigJoker \in big
  OBVIOUS
<1> HIDE DEF big
<1>3. Pattern("JOKER_BOMB", BigJoker, size, 0) \in jokers
  BY <1>2
<1> HIDE DEF ranks, triples, runs, jokers
<1> QED
  BY <1>1, <1>3

\* Jokers that are taken for a joker bomb are one.
LEMMA JokersAreRead ==
  ASSUME NEW cards \in SUBSET Card, IsFiniteSet(cards), NEW lvl \in 2..14,
         IsValid(JokerBomb(Once(cards)))
  PROVE  JokerBomb(Once(cards)) \in Readings(cards, lvl)
<1> DEFINE b == Once(cards)
           of(r) == {c \in Card : Face[c].rank = r}
           W == {c \in cards : IsWild(c, lvl)}
<1>1. /\ \A c \in cards : IsJoker(c)
      /\ CountIn(b, of(SmallJoker)) >= 2 /\ CountIn(b, of(BigJoker)) >= 2
      /\ JokerBomb(b) = Pattern("JOKER_BOMB", BigJoker, Cardinality(cards), 0)
  <2>1. DOMAIN b = cards /\ Size(b) = Cardinality(cards)
    BY SizeOfOnce DEF Once
  <2> HIDE DEF b
  <2> QED
    BY <2>1 DEF JokerBomb, IsValid, Invalid, Pattern, b
<1>2. \A c \in cards : Face[c].rank \in {SmallJoker, BigJoker}
  BY <1>1, FaceAssumption DEF IsJoker, SmallJoker, BigJoker, Ranks
<1>3. W = {}
  BY <1>1 DEF IsWild, IsJoker, SmallJoker
<1>4. PICK f : f \in [W -> 2..14]
  <2>1. [w \in W |-> 2] \in [W -> 2..14]
    OBVIOUS
  <2> QED
    BY <2>1
<1> DEFINE n == RanksOf(cards, f)
<1>5. n \in CountsOf(cards, lvl)
  BY <1>4 DEF CountsOf
<1>6. \A r \in Ranks : n[r] = CountIn(b, of(r)) /\ n[r] \in Nat
  <2> SUFFICES ASSUME NEW r \in Ranks PROVE n[r] = CountIn(b, of(r)) /\ n[r] \in Nat
    OBVIOUS
  <2>1. CountIn(b, of(r)) = Cardinality(of(r) \cap cards)
    <3> HIDE DEF of
    <3> QED
      BY CountInOnce
  <2>2. of(r) \cap cards = {c \in cards : (IF c \in DOMAIN f THEN f[c] ELSE Face[c].rank) = r}
    BY <1>3, <1>4
  <2>3. n[r] = Cardinality(of(r) \cap cards)
    BY <2>2, Zenon DEF RanksOf
  <2>4. IsFiniteSet(of(r) \cap cards)
    BY FS_Intersection
  <2> HIDE DEF of, n
  <2> QED
    BY <2>1, <2>3, <2>4, FS_CardinalityType
<1>7. \A r \in Ranks : r \notin {SmallJoker, BigJoker} => CountIn(b, of(r)) = 0
  <2> SUFFICES ASSUME NEW r \in Ranks, r \notin {SmallJoker, BigJoker} PROVE CountIn(b, of(r)) = 0
    OBVIOUS
  <2>1. CountIn(b, of(r)) = Cardinality(of(r) \cap cards)
    <3> HIDE DEF of
    <3> QED
      BY CountInOnce
  <2>2. of(r) \cap cards = {}
    BY <1>2
  <2> HIDE DEF of
  <2> QED
    BY <2>1, <2>2, FS_EmptySet
<1> HIDE DEF n, b, of
<1>8. Counts(n) = {SmallJoker, BigJoker} /\ n[SmallJoker] >= 2 /\ n[BigJoker] >= 2
  <2>1. SmallJoker \in Ranks /\ BigJoker \in Ranks
    BY DEF Ranks, SmallJoker, BigJoker
  <2>2. n[SmallJoker] >= 2 /\ n[BigJoker] >= 2
    BY <1>1, <1>6, <2>1
  <2>3. \A r \in Ranks : r \notin {SmallJoker, BigJoker} => n[r] = 0
    BY <1>6, <1>7, Zenon
  <2> QED
    BY <1>6, <2>1, <2>2, <2>3 DEF Counts
<1>9. Pattern("JOKER_BOMB", BigJoker, Cardinality(cards), 0) \in Kinds(n, Cardinality(cards), lvl)
  BY <1>8, JokersAreAKind
<1>10. Pattern("JOKER_BOMB", BigJoker, Cardinality(cards), 0) \in Readings(cards, lvl)
  BY <1>5, <1>9, KindsAreRead
<1> QED
  BY <1>1, <1>10 DEF b

\* The ranks are finitely many.
LEMMA RanksFinite == IsFiniteSet(Ranks)
<1>1. 2 \in Int /\ 16 \in Int
  OBVIOUS
<1>2. IsFiniteSet(2..16)
  BY <1>1, FS_Interval, Zenon
<1> QED
  BY <1>2 DEF Ranks, BigJoker

\* A set of suits has one element if it is a singleton.
LEMMA OneSuitSize == \A suits \in SUBSET Suits : Cardinality(suits) = 1 <=> \E s : suits = {s}
<1>1. IsFiniteSet({"SPADE"} \cup {"HEART"} \cup {"CLUB"} \cup {"DIAMOND"} \cup {"JOKER"})
  BY FS_Singleton, FS_Union
<1>2. Suits = {"SPADE"} \cup {"HEART"} \cup {"CLUB"} \cup {"DIAMOND"} \cup {"JOKER"}
  BY DEF Suits
<1> SUFFICES ASSUME NEW suits \in SUBSET Suits PROVE Cardinality(suits) = 1 <=> \E s : suits = {s}
  OBVIOUS
<1>3. IsFiniteSet(suits)
  BY <1>1, <1>2, FS_Subset
<1> QED
  BY <1>3, FS_Singleton

\* The ranks of the natural cards, few of them and the jokers' among them.
LEMMA NaturalRanksSize ==
  ASSUME NEW cards \in SUBSET Card, NEW lvl \in 2..14
  PROVE  LET naturals == NaturalRanks(Once(cards), lvl) IN
         /\ naturals \subseteq Ranks /\ IsFiniteSet(naturals)
         /\ Cardinality(naturals) <= 1 => naturals = {} \/ \E r \in Ranks : naturals = {r}
         /\ \A r \in naturals : \E c \in cards : Face[c].rank = r /\ ~IsWild(c, lvl)
         /\ Unmixed(cards, lvl) /\ Wilds(Once(cards), lvl) # {} => naturals \subseteq 2..14
<1> DEFINE naturals == NaturalRanks(Once(cards), lvl)
<1>1. naturals = {Face[c].rank : c \in {c \in cards : ~IsWild(c, lvl)}}
  BY DEF NaturalRanks, Naturals_, Wilds, Once
<1>2. naturals \subseteq Ranks
  BY <1>1, FaceAssumption
<1>3. \A r \in naturals : \E c \in cards : Face[c].rank = r /\ ~IsWild(c, lvl)
  BY <1>1
<1>4. Unmixed(cards, lvl) /\ Wilds(Once(cards), lvl) # {} => naturals \subseteq 2..14
  <2> SUFFICES ASSUME Unmixed(cards, lvl), Wilds(Once(cards), lvl) # {}, NEW r \in naturals
               PROVE  r \in 2..14
    OBVIOUS
  <2>1. PICK c \in cards : Face[c].rank = r
    BY <1>3
  <2>2. PICK w \in cards : IsWild(w, lvl)
    BY DEF Wilds, Once
  <2>3. ~IsJoker(c)
    BY <2>2 DEF Unmixed
  <2>4. r \in Ranks
    BY <1>2
  <2> QED
    BY <2>1, <2>3, <2>4 DEF IsJoker, SmallJoker, BigJoker, Ranks
<1> HIDE DEF naturals
<1>5. IsFiniteSet(naturals)
  BY <1>2, RanksFinite, FS_Subset
<1>6. Cardinality(naturals) <= 1 => naturals = {} \/ \E r \in Ranks : naturals = {r}
  <2> SUFFICES ASSUME Cardinality(naturals) <= 1 PROVE naturals = {} \/ \E r \in Ranks : naturals = {r}
    OBVIOUS
  <2>1. Cardinality(naturals) = 0 \/ Cardinality(naturals) = 1
    BY <1>5, FS_CardinalityType
  <2>2. CASE Cardinality(naturals) = 0
    BY <1>5, <2>2, FS_EmptySet
  <2>3. CASE Cardinality(naturals) = 1
    <3>1. PICK r : naturals = {r}
      BY <1>5, <2>3, FS_Singleton
    <3> QED
      BY <1>2, <3>1
  <2> QED
    BY <2>1, <2>2, <2>3
<1> QED
  BY <1>2, <1>3, <1>4, <1>5, <1>6 DEF naturals

\* What is taken for a pair or a triple is one.
LEMMA SameRankIsRead ==
  ASSUME NEW cards \in SUBSET Card, IsFiniteSet(cards), NEW lvl \in 2..14, Unmixed(cards, lvl),
         NEW type, NEW n, <<type, n>> \in {<<"PAIR", 2>>, <<"TRIPLE", 3>>}, Cardinality(cards) = n,
         IsValid(SameRank(Once(cards), lvl, type, n))
  PROVE  SameRank(Once(cards), lvl, type, n) \in Readings(cards, lvl)
<1> DEFINE naturals == NaturalRanks(Once(cards), lvl)
           rank == IF naturals = {} THEN lvl ELSE CHOOSE r \in naturals : TRUE
<1>1. /\ Cardinality(naturals) <= 1
      /\ SameRank(Once(cards), lvl, type, n) = Pattern(type, PatternRank(rank, lvl), n, 0)
  <2>1. SameRank(Once(cards), lvl, type, n) = IF Cardinality(naturals) <= 1
                                              THEN Pattern(type, PatternRank(rank, lvl), n, 0)
                                              ELSE Invalid
    BY DEF SameRank
  <2> HIDE DEF naturals, rank
  <2> QED
    BY <2>1 DEF IsValid, Invalid, Pattern
<1>2. /\ naturals \subseteq Ranks
      /\ naturals = {} \/ \E r \in Ranks : naturals = {r}
      /\ Wilds(Once(cards), lvl) # {} => naturals \subseteq 2..14
  BY <1>1, NaturalRanksSize
<1> HIDE DEF naturals
<1>3. lvl \in Ranks
  BY DEF Ranks, BigJoker
<1>4. rank \in Ranks /\ naturals \subseteq {rank} /\ (Wilds(Once(cards), lvl) # {} => rank \in 2..14)
  BY <1>2, <1>3
<1> HIDE DEF rank
<1>5. Cardinality(cards) >= 2 /\ type = IF Cardinality(cards) = 2 THEN "PAIR" ELSE "TRIPLE"
  OBVIOUS
<1>6. Pattern(IF Cardinality(cards) = 2 THEN "PAIR" ELSE IF Cardinality(cards) = 3 THEN "TRIPLE" ELSE "BOMB",
              PatternRank(rank, lvl), Cardinality(cards), 0) \in Readings(cards, lvl)
  BY <1>4, <1>5, OneRankIsRead DEF naturals
<1>7. n \in {2, 3} /\ n = Cardinality(cards)
  OBVIOUS
<1> QED
  BY <1>1, <1>5, <1>6, <1>7

\* A bomb is one: its natural cards are of one rank.
LEMMA BombIsRead ==
  ASSUME NEW cards \in SUBSET Card, IsFiniteSet(cards), NEW lvl \in 2..14, Unmixed(cards, lvl),
         IsValid(Bomb(Once(cards), lvl))
  PROVE  Bomb(Once(cards), lvl) \in Readings(cards, lvl)
<1> DEFINE naturals == NaturalRanks(Once(cards), lvl)
           size == Cardinality(cards)
           rank == IF \A c \in cards : IsLevelCard(c, lvl) THEN lvl ELSE CHOOSE r \in naturals : TRUE
<1>1. size \in Nat /\ Size(Once(cards)) = size /\ DOMAIN Once(cards) = cards
  BY SizeOfOnce DEF Once
<1>2. /\ size >= 4 /\ Cardinality(naturals) <= 1
      /\ Bomb(Once(cards), lvl)
            = Pattern("BOMB", IF \A c \in cards : IsLevelCard(c, lvl) THEN LevelCardPatternRank
                              ELSE CHOOSE r \in naturals : TRUE, size, 0)
  <2> DEFINE there == IF \A c \in cards : IsLevelCard(c, lvl) THEN LevelCardPatternRank
                      ELSE CHOOSE r \in naturals : TRUE
  <2>1. Bomb(Once(cards), lvl) = IF size >= 4 /\ Cardinality(naturals) <= 1
                                 THEN Pattern("BOMB", there, size, 0) ELSE Invalid
    BY <1>1 DEF Bomb
  <2> HIDE DEF naturals, size, there
  <2>2. size >= 4 /\ Cardinality(naturals) <= 1 /\ Bomb(Once(cards), lvl) = Pattern("BOMB", there, size, 0)
    BY <2>1 DEF IsValid, Invalid, Pattern
  <2> QED
    BY <2>2 DEF there
<1>3. /\ naturals \subseteq Ranks
      /\ naturals = {} \/ \E r \in Ranks : naturals = {r}
      /\ Wilds(Once(cards), lvl) # {} => naturals \subseteq 2..14
      /\ \A r \in naturals : \E c \in cards : Face[c].rank = r /\ ~IsWild(c, lvl)
  BY <1>2, NaturalRanksSize
<1>4. lvl \in Ranks
  BY DEF Ranks, BigJoker
<1>5. /\ rank \in Ranks /\ naturals \subseteq {rank} /\ (Wilds(Once(cards), lvl) # {} => rank \in 2..14)
      /\ Bomb(Once(cards), lvl) = Pattern("BOMB", PatternRank(rank, lvl), size, 0)
  <2>1. CASE \A c \in cards : IsLevelCard(c, lvl)
    <3>1. rank = lvl /\ PatternRank(lvl, lvl) = LevelCardPatternRank
      BY <2>1 DEF PatternRank
    <3>2. naturals \subseteq {lvl}
      <4> HIDE DEF naturals
      <4> QED
        BY <1>3, <2>1 DEF IsLevelCard
    <3> HIDE DEF naturals, rank, size
    <3>3. Bomb(Once(cards), lvl) = Pattern("BOMB", LevelCardPatternRank, size, 0)
      BY <1>2, <2>1
    <3> QED
      BY <1>4, <3>1, <3>2, <3>3
  <2>2. CASE ~\A c \in cards : IsLevelCard(c, lvl)
    <3>1. PICK c \in cards : Face[c].rank # lvl
      BY <2>2 DEF IsLevelCard
    <3>2. Face[c].rank \in naturals
      BY <3>1 DEF NaturalRanks, Naturals_, Wilds, IsWild, Once
    <3>3. rank = CHOOSE r \in naturals : TRUE
      BY <2>2
    <3>4. Bomb(Once(cards), lvl) = Pattern("BOMB", rank, size, 0)
      <4>1. Bomb(Once(cards), lvl) = Pattern("BOMB", CHOOSE r \in naturals : TRUE, size, 0)
        <5> HIDE DEF naturals, rank, size
        <5> QED
          BY <1>2, <2>2
      <4> HIDE DEF naturals, rank, size
      <4> QED
        BY <3>3, <4>1
    <3> HIDE DEF naturals, rank, size
    <3>5. naturals = {Face[c].rank} /\ rank = Face[c].rank
      BY <1>3, <3>2, <3>3
    <3>6. PatternRank(rank, lvl) = rank
      BY <3>1, <3>5 DEF PatternRank
    <3> QED
      BY <1>3, <3>4, <3>5, <3>6
  <2> QED
    BY <2>1, <2>2
<1> HIDE DEF rank
<1>6. Pattern(IF size = 2 THEN "PAIR" ELSE IF size = 3 THEN "TRIPLE" ELSE "BOMB",
              PatternRank(rank, lvl), size, 0) \in Readings(cards, lvl)
  <2>1. Cardinality(cards) >= 2
    BY <1>1, <1>2
  <2> QED
    BY <1>5, <2>1, OneRankIsRead
<1>7. (IF size = 2 THEN "PAIR" ELSE IF size = 3 THEN "TRIPLE" ELSE "BOMB") = "BOMB"
  BY <1>1, <1>2
<1> HIDE DEF size
<1> QED
  BY <1>5, <1>6, <1>7

\* So is a triple with a pair, of the two natural ranks.
LEMMA TripleWithPairIsRead ==
  ASSUME NEW cards \in SUBSET Card, IsFiniteSet(cards), Cardinality(cards) = 5,
         NEW lvl \in 2..14, Unmixed(cards, lvl), IsValid(TripleWithPair(Once(cards), lvl))
  PROVE  TripleWithPair(Once(cards), lvl) \in Readings(cards, lvl)
<1> DEFINE b == Once(cards)
           naturals == NaturalRanks(b, lvl)
           Splits == {s \in naturals \X naturals : /\ s[1] # s[2]
                                                   /\ RankCount(b, lvl, s[1]) <= 3
                                                   /\ RankCount(b, lvl, s[2]) <= 2}
           first == CHOOSE s \in Splits : \A o \in Splits : s[1] <= o[1]
<1>1. /\ Cardinality(naturals) = 2 /\ Splits # {}
      /\ TripleWithPair(b, lvl) = Pattern("TRIPLE_WITH_PAIR", PatternRank(first[1], lvl), 5, first[2])
  <2>1. TripleWithPair(b, lvl) = IF Cardinality(naturals) = 2 /\ Splits # {}
                                 THEN Pattern("TRIPLE_WITH_PAIR", PatternRank(first[1], lvl), 5, first[2])
                                 ELSE Invalid
    BY DEF TripleWithPair
  <2>2. IsValid(TripleWithPair(b, lvl))
    OBVIOUS
  <2> HIDE DEF naturals, Splits, first, b
  <2> QED
    BY <2>1, <2>2 DEF IsValid, Invalid, Pattern
<1>2. /\ naturals \subseteq Ranks /\ IsFiniteSet(naturals)
      /\ Wilds(b, lvl) # {} => naturals \subseteq 2..14
  BY NaturalRanksSize
<1>3. naturals \subseteq Nat
  BY <1>2 DEF Ranks, BigJoker
<1> HIDE DEF naturals
<1>4. first \in Splits
  <2>1. \A s \in Splits : s[1] \in Nat
    BY <1>3
  <2> HIDE DEF Splits
  <2> DEFINE lower == {s[1] : s \in Splits}
  <2>2. lower # {} /\ lower \subseteq Nat
    BY <1>1, <2>1
  <2> HIDE DEF lower
  <2>3. \E l \in lower : \A k \in lower : l <= k
    BY <2>2, LeastNumber
  <2>4. \E s \in Splits : \A o \in Splits : s[1] <= o[1]
    BY <2>3 DEF lower
  <2> QED
    BY <2>4
<1> HIDE DEF first
<1> DEFINE t == first[1]
           s == first[2]
<1>5. /\ t \in naturals /\ s \in naturals /\ t # s
      /\ RankCount(b, lvl, t) <= 3 /\ RankCount(b, lvl, s) <= 2
  BY <1>4
<1> HIDE DEF Splits, t, s
<1>6. naturals = {t, s}
  <2>1. {t, s} \in SUBSET naturals /\ Cardinality({t, s}) = 2
    BY <1>5, PairSize
  <2> DEFINE both == {t, s}
  <2> HIDE DEF both
  <2>2. both \in SUBSET naturals /\ Cardinality(naturals) = Cardinality(both)
    BY <1>1, <2>1 DEF both
  <2>3. naturals = both
    BY <1>2, <2>2, FS_Subset
  <2> QED
    BY <2>3 DEF both
<1>7. t \in Ranks /\ s \in Ranks /\ (Wilds(b, lvl) # {} => t \in 2..14 /\ s \in 2..14)
  BY <1>2, <1>5
<1>8. Pattern("TRIPLE_WITH_PAIR", PatternRank(t, lvl), 5, s) \in Readings(cards, lvl)
  <2>1. NaturalRanks(Once(cards), lvl) \subseteq {t, s}
    BY <1>6 DEF naturals, b
  <2> QED
    BY <1>5, <1>7, <2>1, TwoRanksAreRead DEF b
<1> QED
  BY <1>1, <1>8 DEF t, s, b

\* And a run of any kind, with the window in which it was found.
LEMMA RunKindIsRead ==
  ASSUME NEW cards \in SUBSET Card, IsFiniteSet(cards), NEW lvl \in 2..14, NEW run \in RunKinds,
         IsValid(Run(Once(cards), lvl, run[1], run[2], run[3]))
  PROVE  \E top \in Nat :
            /\ Run(Once(cards), lvl, run[1], run[2], run[3]) = Pattern(run[1], top, run[2], 0)
            /\ Pattern(IF run[1] = "STRAIGHT" /\ Cardinality(SuitsOf(cards, lvl)) = 1
                       THEN "STRAIGHT_FLUSH" ELSE run[1], top, run[2], 0) \in Readings(cards, lvl)
<1>1. run[2] \in 2..5 /\ run[3] \in 1..3
  BY DEF RunKinds
<1>2. Run(Once(cards), lvl, run[1], run[2], run[3]) # Invalid
  BY DEF IsValid, Invalid, Pattern
<1>3. /\ Cardinality(cards) = run[2] * run[3]
      /\ \E top \in run[2]..14 :
            /\ Run(Once(cards), lvl, run[1], run[2], run[3]) = Pattern(run[1], top, run[2], 0)
            /\ NaturalRanks(Once(cards), lvl) \subseteq Window(top, run[2])
            /\ \A r \in Window(top, run[2]) : RankCount(Once(cards), lvl, r) <= run[3]
  <2> DEFINE type == run[1]
             slots == run[2]
             copies == run[3]
  <2>1. slots \in 2..5 /\ copies \in 1..3 /\ Run(Once(cards), lvl, type, slots, copies) # Invalid
    BY <1>1, <1>2
  <2> HIDE DEF type, slots, copies
  <2>2. /\ Cardinality(cards) = slots * copies
        /\ \E top \in slots..14 :
              /\ Run(Once(cards), lvl, type, slots, copies) = Pattern(type, top, slots, 0)
              /\ NaturalRanks(Once(cards), lvl) \subseteq Window(top, slots)
              /\ \A r \in Window(top, slots) : RankCount(Once(cards), lvl, r) <= copies
    BY <2>1, RunIsFound, ZenonT(30)
  <2> QED
    BY <2>2 DEF type, slots, copies
<1>4. PICK top \in run[2]..14 :
            /\ Run(Once(cards), lvl, run[1], run[2], run[3]) = Pattern(run[1], top, run[2], 0)
            /\ NaturalRanks(Once(cards), lvl) \subseteq Window(top, run[2])
            /\ \A r \in Window(top, run[2]) : RankCount(Once(cards), lvl, r) <= run[3]
  BY <1>3
<1>5. Pattern(IF run[1] = "STRAIGHT" /\ Cardinality(SuitsOf(cards, lvl)) = 1
              THEN "STRAIGHT_FLUSH" ELSE run[1], top, run[2], 0) \in Readings(cards, lvl)
  BY <1>3, <1>4, WindowIsRead
<1>6. top \in Nat
  BY <1>1
<1> QED
  BY <1>4, <1>5, <1>6

\* What FirstValid yields, if anything, is one of the patterns and comes after invalid ones only.
LEMMA FirstValidIsFirst ==
  ASSUME NEW ps, DOMAIN ps \subseteq Nat, IsValid(FirstValid(ps))
  PROVE  \E i \in DOMAIN ps : /\ FirstValid(ps) = ps[i] /\ IsValid(ps[i])
                              /\ \A j \in DOMAIN ps : j < i => ~IsValid(ps[j])
<1> DEFINE valid == {i \in DOMAIN ps : IsValid(ps[i])}
           first == CHOOSE i \in valid : \A j \in valid : i <= j
<1>1. FirstValid(ps) = IF valid = {} THEN Invalid ELSE ps[first]
  BY DEF FirstValid
<1>2. valid # {} /\ FirstValid(ps) = ps[first]
  <2> HIDE DEF valid, first
  <2> QED
    BY <1>1 DEF IsValid, Invalid, Pattern
<1>3. \E i \in valid : \A j \in valid : i <= j
  <2>1. valid \subseteq Nat
    OBVIOUS
  <2> HIDE DEF valid
  <2> QED
    BY <1>2, <2>1, LeastNumber
<1>4. first \in valid /\ \A j \in valid : first <= j
  <2> HIDE DEF valid
  <2> QED
    BY <1>3
<1> HIDE DEF first
<1>5. first \in DOMAIN ps /\ IsValid(ps[first]) /\ \A j \in DOMAIN ps : j < first => ~IsValid(ps[j])
  BY <1>4
<1> QED
  BY <1>2, <1>5

\* The kinds that the analyzer tries, in its order.
LEMMA AnalyzeTries ==
  ASSUME NEW cards \in SUBSET Card, IsFiniteSet(cards), NEW lvl \in 2..14,
         Cardinality(cards) # 1, IsValid(Analyze(Once(cards), lvl))
  PROVE  LET b == Once(cards)
             taken == Analyze(b, lvl)
             size == Cardinality(cards)
         IN  \/ IsValid(JokerBomb(b)) /\ taken = JokerBomb(b)
             \/ IsValid(Bomb(b, lvl)) /\ taken = Bomb(b, lvl)
             \/ size = 2 /\ taken = SameRank(b, lvl, "PAIR", 2)
             \/ size = 3 /\ taken = SameRank(b, lvl, "TRIPLE", 3)
             \/ size = 5 /\ taken = TripleWithPair(b, lvl)
             \/ size = 5 /\ taken = StraightFlush(b, lvl)
             \/ size = 5 /\ taken = Straight(b, lvl) /\ ~IsValid(StraightFlush(b, lvl))
             \/ size = 6 /\ taken = Run(b, lvl, "THREE_PAIRS", 3, 2)
             \/ size = 6 /\ taken = Run(b, lvl, "TWO_TRIPLES", 2, 3)
<1> DEFINE b == Once(cards)
           n == Size(b)
           bombs == <<JokerBomb(b), Bomb(b, lvl)>>
           rest == CASE n = 1 -> <<Single(b, lvl)>>
                     [] n = 2 -> <<SameRank(b, lvl, "PAIR", 2)>>
                     [] n = 3 -> <<SameRank(b, lvl, "TRIPLE", 3)>>
                     [] n = 5 -> <<TripleWithPair(b, lvl), StraightFlush(b, lvl), Straight(b, lvl)>>
                     [] n = 6 -> <<Run(b, lvl, "THREE_PAIRS", 3, 2), Run(b, lvl, "TWO_TRIPLES", 2, 3)>>
                     [] OTHER -> <<>>
<1>1. Analyze(b, lvl) = IF IsValid(FirstValid(bombs)) THEN FirstValid(bombs) ELSE FirstValid(rest)
  BY DEF Analyze
<1>2. n = Cardinality(cards) /\ n # 1 /\ n \in Nat
  BY SizeOfOnce
<1>3. IsValid(Analyze(b, lvl))
  OBVIOUS
<1> HIDE DEF b, n
<1>4. \A p, q : IsValid(FirstValid(<<p, q>>)) =>
                   \/ IsValid(p) /\ FirstValid(<<p, q>>) = p
                   \/ IsValid(q) /\ FirstValid(<<p, q>>) = q
  <2> TAKE p, q
  <2> DEFINE ps == <<p, q>>
  <2>1. DOMAIN ps = 1..2 /\ ps[1] = p /\ ps[2] = q
    OBVIOUS
  <2> HIDE DEF ps
  <2>2. IsValid(FirstValid(ps)) => \E i \in DOMAIN ps : FirstValid(ps) = ps[i] /\ IsValid(ps[i])
    BY <2>1, FirstValidIsFirst
  <2> QED
    BY <2>1, <2>2 DEF ps
<1>5. \A p : IsValid(FirstValid(<<p>>)) => FirstValid(<<p>>) = p
  <2> TAKE p
  <2> DEFINE ps == <<p>>
  <2>1. DOMAIN ps = 1..1 /\ ps[1] = p
    OBVIOUS
  <2> HIDE DEF ps
  <2>2. IsValid(FirstValid(ps)) => \E i \in DOMAIN ps : FirstValid(ps) = ps[i]
    BY <2>1, FirstValidIsFirst
  <2> QED
    BY <2>1, <2>2 DEF ps
<1>6. \A p, q, r : IsValid(FirstValid(<<p, q, r>>)) =>
                      \/ FirstValid(<<p, q, r>>) = p
                      \/ FirstValid(<<p, q, r>>) = q
                      \/ FirstValid(<<p, q, r>>) = r /\ ~IsValid(q)
  <2> TAKE p, q, r
  <2> DEFINE ps == <<p, q, r>>
  <2>1. DOMAIN ps = 1..3 /\ ps[1] = p /\ ps[2] = q /\ ps[3] = r
    OBVIOUS
  <2> HIDE DEF ps
  <2>2. IsValid(FirstValid(ps)) =>
            \E i \in DOMAIN ps : FirstValid(ps) = ps[i] /\ \A j \in DOMAIN ps : j < i => ~IsValid(ps[j])
    BY <2>1, FirstValidIsFirst
  <2>3. \A i \in DOMAIN ps : i = 1 \/ i = 2 \/ (i = 3 /\ 2 \in DOMAIN ps /\ 2 < i)
    BY <2>1
  <2> QED
    BY <2>1, <2>2, <2>3 DEF ps
<1>7. CASE IsValid(FirstValid(bombs))
  <2>1. Analyze(b, lvl) = FirstValid(bombs)
    <3> HIDE DEF bombs, rest
    <3> QED
      BY <1>1, <1>7
  <2>2. \/ IsValid(JokerBomb(b)) /\ FirstValid(bombs) = JokerBomb(b)
        \/ IsValid(Bomb(b, lvl)) /\ FirstValid(bombs) = Bomb(b, lvl)
    BY <1>4, <1>7, Zenon
  <2> HIDE DEF bombs, rest
  <2> QED
    BY <2>1, <2>2 DEF b
<1>8. CASE ~IsValid(FirstValid(bombs))
  <2>1. Analyze(b, lvl) = FirstValid(rest) /\ IsValid(FirstValid(rest))
    <3> HIDE DEF bombs, rest
    <3> QED
      BY <1>1, <1>3, <1>8
  <2>2. \/ n = 2 /\ rest = <<SameRank(b, lvl, "PAIR", 2)>>
        \/ n = 3 /\ rest = <<SameRank(b, lvl, "TRIPLE", 3)>>
        \/ n = 5 /\ rest = <<TripleWithPair(b, lvl), StraightFlush(b, lvl), Straight(b, lvl)>>
        \/ n = 6 /\ rest = <<Run(b, lvl, "THREE_PAIRS", 3, 2), Run(b, lvl, "TWO_TRIPLES", 2, 3)>>
        \/ rest = <<>>
    BY <1>2
  <2> HIDE DEF bombs, rest
  <2>3. rest # <<>>
    <3>1. DOMAIN <<>> = {}
      OBVIOUS
    <3> QED
      BY <2>1, <3>1, FirstValidIsFirst
  <2>4. CASE n = 2 /\ rest = <<SameRank(b, lvl, "PAIR", 2)>>
    BY <1>2, <1>5, <2>1, <2>4, Zenon DEF b
  <2>5. CASE n = 3 /\ rest = <<SameRank(b, lvl, "TRIPLE", 3)>>
    BY <1>2, <1>5, <2>1, <2>5, Zenon DEF b
  <2>6. CASE n = 5 /\ rest = <<TripleWithPair(b, lvl), StraightFlush(b, lvl), Straight(b, lvl)>>
    <3>1. \/ Analyze(b, lvl) = TripleWithPair(b, lvl)
          \/ Analyze(b, lvl) = StraightFlush(b, lvl)
          \/ Analyze(b, lvl) = Straight(b, lvl) /\ ~IsValid(StraightFlush(b, lvl))
      <4> DEFINE p == TripleWithPair(b, lvl)
                 q == StraightFlush(b, lvl)
                 r == Straight(b, lvl)
      <4>1. rest = <<p, q, r>>
        BY <2>6
      <4> HIDE DEF p, q, r
      <4>2. Analyze(b, lvl) = FirstValid(<<p, q, r>>) /\ IsValid(FirstValid(<<p, q, r>>))
        BY <2>1, <4>1
      <4>3. Analyze(b, lvl) = p \/ Analyze(b, lvl) = q \/ (Analyze(b, lvl) = r /\ ~IsValid(q))
        BY <1>6, <4>2
      <4> QED
        BY <4>3 DEF p, q, r
    <3> QED
      BY <1>2, <2>6, <3>1, Zenon DEF b
  <2>7. CASE n = 6 /\ rest = <<Run(b, lvl, "THREE_PAIRS", 3, 2), Run(b, lvl, "TWO_TRIPLES", 2, 3)>>
    BY <1>2, <1>4, <2>1, <2>7, Zenon DEF b
  <2> QED
    BY <2>2, <2>3, <2>4, <2>5, <2>6, <2>7
<1> QED
  BY <1>7, <1>8

\* A straight is taken for a straight flush exactly if its natural cards are of one suit.
LEMMA StraightsAreRead ==
  ASSUME NEW cards \in SUBSET Card, IsFiniteSet(cards), NEW lvl \in 2..14
  PROVE  LET b == Once(cards) IN
         /\ IsValid(StraightFlush(b, lvl)) => StraightFlush(b, lvl) \in Readings(cards, lvl)
         /\ IsValid(Straight(b, lvl)) /\ ~IsValid(StraightFlush(b, lvl))
               => Straight(b, lvl) \in Readings(cards, lvl)
<1> DEFINE b == Once(cards)
           N == Naturals_(b, lvl)
           OneSuit == N # {} /\ \A c, d \in N : Face[c].suit = Face[d].suit
           suits == SuitsOf(cards, lvl)
<1>1. suits = {Face[c].suit : c \in N}
  BY DEF SuitsOf, Naturals_, Wilds, Once
<1>2. StraightFlush(b, lvl) = IF OneSuit /\ IsValid(Straight(b, lvl))
                              THEN [Straight(b, lvl) EXCEPT !.type = "STRAIGHT_FLUSH"] ELSE Invalid
  BY DEF StraightFlush
<1>3. OneSuit <=> Cardinality(suits) = 1
  <2>1. suits \in SUBSET Suits
    BY <1>1, FaceAssumption DEF Naturals_, Once
  <2> HIDE DEF suits
  <2>2. Cardinality(suits) = 1 <=> \E s : suits = {s}
    BY <2>1, OneSuitSize
  <2> HIDE DEF N
  <2>3. OneSuit <=> \E s : suits = {s}
    BY <1>1
  <2> QED
    BY <2>2, <2>3
<1>4. IsValid(Straight(b, lvl)) =>
         \E top \in Nat :
            /\ Straight(b, lvl) = Pattern("STRAIGHT", top, 5, 0)
            /\ Pattern(IF Cardinality(suits) = 1 THEN "STRAIGHT_FLUSH" ELSE "STRAIGHT", top, 5, 0)
                  \in Readings(cards, lvl)
  <2> SUFFICES ASSUME IsValid(Straight(b, lvl))
               PROVE  \E top \in Nat :
                         /\ Straight(b, lvl) = Pattern("STRAIGHT", top, 5, 0)
                         /\ Pattern(IF Cardinality(suits) = 1 THEN "STRAIGHT_FLUSH" ELSE "STRAIGHT", top, 5, 0)
                               \in Readings(cards, lvl)
    OBVIOUS
  <2> DEFINE run == <<"STRAIGHT", 5, 1>>
  <2>1. run \in RunKinds /\ run[1] = "STRAIGHT" /\ run[2] = 5 /\ run[3] = 1
    BY DEF RunKinds
  <2> HIDE DEF run, suits
  <2>2. Straight(b, lvl) = Run(b, lvl, run[1], run[2], run[3])
    BY <2>1 DEF Straight
  <2>3. \E top \in Nat :
            /\ Run(b, lvl, run[1], run[2], run[3]) = Pattern(run[1], top, run[2], 0)
            /\ Pattern(IF run[1] = "STRAIGHT" /\ Cardinality(suits) = 1
                       THEN "STRAIGHT_FLUSH" ELSE run[1], top, run[2], 0) \in Readings(cards, lvl)
    BY <2>1, <2>2, RunKindIsRead DEF suits
  <2> QED
    BY <2>1, <2>2, <2>3
<1> HIDE DEF suits, OneSuit, N, b
<1>5. ASSUME IsValid(StraightFlush(b, lvl)) PROVE StraightFlush(b, lvl) \in Readings(cards, lvl)
  <2>1. OneSuit /\ IsValid(Straight(b, lvl)) /\ StraightFlush(b, lvl) = [Straight(b, lvl) EXCEPT !.type = "STRAIGHT_FLUSH"]
    BY <1>2, <1>5 DEF IsValid, Invalid, Pattern
  <2>2. PICK top \in Nat : /\ Straight(b, lvl) = Pattern("STRAIGHT", top, 5, 0)
                           /\ Pattern("STRAIGHT_FLUSH", top, 5, 0) \in Readings(cards, lvl)
    BY <1>3, <1>4, <2>1
  <2>3. [Pattern("STRAIGHT", top, 5, 0) EXCEPT !.type = "STRAIGHT_FLUSH"] = Pattern("STRAIGHT_FLUSH", top, 5, 0)
    BY DEF Pattern
  <2> QED
    BY <2>1, <2>2, <2>3
<1>6. ASSUME IsValid(Straight(b, lvl)), ~IsValid(StraightFlush(b, lvl)) PROVE Straight(b, lvl) \in Readings(cards, lvl)
  <2>1. PICK top \in Nat : /\ Straight(b, lvl) = Pattern("STRAIGHT", top, 5, 0)
                           /\ Pattern(IF Cardinality(suits) = 1 THEN "STRAIGHT_FLUSH" ELSE "STRAIGHT", top, 5, 0)
                                 \in Readings(cards, lvl)
    BY <1>4, <1>6
  <2>2. OneSuit => IsValid(StraightFlush(b, lvl))
    BY <1>2, <1>6, <2>1 DEF IsValid, Pattern
  <2> QED
    BY <1>3, <1>6, <2>1, <2>2
<1> QED
  BY <1>5, <1>6 DEF b

\* What the analyzer takes two cards or more for is what they can be read as when each
\* wild card stands for a card of some rank: for any cards of any deck, at every level.
THEOREM AnalyzeReads ==
  \A cards \in SUBSET Card : \A lvl \in 2..14 :
      /\ IsFiniteSet(cards) /\ Cardinality(cards) > 1 /\ Unmixed(cards, lvl)
      /\ IsValid(Analyze(Once(cards), lvl))
      => Analyze(Once(cards), lvl) \in Readings(cards, lvl)
<1> SUFFICES ASSUME NEW cards \in SUBSET Card, NEW lvl \in 2..14,
                    IsFiniteSet(cards), Cardinality(cards) > 1, Unmixed(cards, lvl),
                    IsValid(Analyze(Once(cards), lvl))
             PROVE  Analyze(Once(cards), lvl) \in Readings(cards, lvl)
  OBVIOUS
<1> DEFINE b == Once(cards)
           taken == Analyze(b, lvl)
           size == Cardinality(cards)
<1>1. \/ IsValid(JokerBomb(b)) /\ taken = JokerBomb(b)
      \/ IsValid(Bomb(b, lvl)) /\ taken = Bomb(b, lvl)
      \/ size = 2 /\ taken = SameRank(b, lvl, "PAIR", 2)
      \/ size = 3 /\ taken = SameRank(b, lvl, "TRIPLE", 3)
      \/ size = 5 /\ taken = TripleWithPair(b, lvl)
      \/ size = 5 /\ taken = StraightFlush(b, lvl)
      \/ size = 5 /\ taken = Straight(b, lvl) /\ ~IsValid(StraightFlush(b, lvl))
      \/ size = 6 /\ taken = Run(b, lvl, "THREE_PAIRS", 3, 2)
      \/ size = 6 /\ taken = Run(b, lvl, "TWO_TRIPLES", 2, 3)
  BY AnalyzeTries
<1>2. CASE IsValid(JokerBomb(b)) /\ taken = JokerBomb(b)
  BY <1>2, JokersAreRead
<1>3. CASE IsValid(Bomb(b, lvl)) /\ taken = Bomb(b, lvl)
  BY <1>3, BombIsRead
<1>4. CASE size = 2 /\ taken = SameRank(b, lvl, "PAIR", 2)
  BY <1>4, SameRankIsRead
<1>5. CASE size = 3 /\ taken = SameRank(b, lvl, "TRIPLE", 3)
  BY <1>5, SameRankIsRead
<1>6. CASE size = 5 /\ taken = TripleWithPair(b, lvl)
  BY <1>6, TripleWithPairIsRead
<1>7. CASE size = 5 /\ taken = StraightFlush(b, lvl)
  BY <1>7, StraightsAreRead
<1>8. CASE size = 5 /\ taken = Straight(b, lvl) /\ ~IsValid(StraightFlush(b, lvl))
  BY <1>8, StraightsAreRead
<1>9. ASSUME NEW run \in {<<"THREE_PAIRS", 3, 2>>, <<"TWO_TRIPLES", 2, 3>>},
             taken = Run(b, lvl, run[1], run[2], run[3])
      PROVE  taken \in Readings(cards, lvl)
  <2>1. run \in RunKinds /\ run[1] # "STRAIGHT"
    BY DEF RunKinds
  <2>2. \E top \in Nat :
            /\ Run(b, lvl, run[1], run[2], run[3]) = Pattern(run[1], top, run[2], 0)
            /\ Pattern(IF run[1] = "STRAIGHT" /\ Cardinality(SuitsOf(cards, lvl)) = 1
                       THEN "STRAIGHT_FLUSH" ELSE run[1], top, run[2], 0) \in Readings(cards, lvl)
    BY <1>9, <2>1, RunKindIsRead
  <2> QED
    BY <1>9, <2>1, <2>2
<1>10. CASE size = 6 /\ taken = Run(b, lvl, "THREE_PAIRS", 3, 2)
  BY <1>9, <1>10
<1>11. CASE size = 6 /\ taken = Run(b, lvl, "TWO_TRIPLES", 2, 3)
  BY <1>9, <1>11
<1> QED
  BY <1>1, <1>2, <1>3, <1>4, <1>5, <1>6, <1>7, <1>8, <1>10, <1>11

-----------------------------------------------------------------------------
(* The requests of the specification *)

\* A request is a finite set of cards, however many are taken.
RequestInv == level \in 2..14 /\ request \in SUBSET Card /\ IsFiniteSet(request)

\* Taking a card keeps it one.
LEMMA RequestInvNext == RequestInv /\ [ReadingsNext]_readingVars => RequestInv'
<1> SUFFICES ASSUME RequestInv, [ReadingsNext]_readingVars PROVE RequestInv'
  OBVIOUS
<1> USE DEF RequestInv
<1>1. CASE Play \/ UNCHANGED readingVars
  BY <1>1 DEF Play, readingVars
<1>2. CASE Take
  <2>1. PICK c \in Card \ request : request' = request \cup {c}
    BY <1>2 DEF Take
  <2>2. IsFiniteSet(request \cup {c})
    BY FS_AddElement
  <2> QED
    BY <1>2, <2>1, <2>2 DEF Take
<1> QED
  BY <1>1, <1>2 DEF ReadingsNext

\* Nothing is taken for anything when there are no cards.
LEMMA NothingIsTaken == \A lvl \in 2..14 : ~IsValid(Analyze(Once({}), lvl))
<1> SUFFICES ASSUME NEW lvl \in 2..14, IsValid(Analyze(Once({}), lvl)) PROVE FALSE
  OBVIOUS
<1> DEFINE none == {}
<1>1. IsFiniteSet(none) /\ Cardinality(none) = 0 /\ none \in SUBSET Card /\ \A S : S \cap none = none
  BY FS_EmptySet
<1>2. IsValid(Analyze(Once(none), lvl))
  OBVIOUS
<1> HIDE DEF none
<1>3. Size(Once(none)) = 0
  BY <1>1, SizeOfOnce
<1>4. \A S : CountIn(Once(none), S) = 0
  BY <1>1, CountInOnce
<1>5. ~IsValid(JokerBomb(Once(none)))
  BY <1>4 DEF JokerBomb, IsValid, Invalid, Pattern
<1>6. ~IsValid(Bomb(Once(none), lvl))
  BY <1>3 DEF Bomb, IsValid, Invalid, Pattern
<1>7. Cardinality(none) # 1 /\ Cardinality(none) \notin {2, 3, 5, 6}
  BY <1>1
<1> QED
  BY <1>1, <1>2, <1>5, <1>6, <1>7, AnalyzeTries

\* What a request is taken for is a pattern and one of the request's readings.
THEOREM RequestsAreRead == ReadingsSpec => []TakenIsAReading
<1>1. ReadingsInit => RequestInv
  BY FS_EmptySet, ReadingsAssumption DEF ReadingsInit, RequestInv
<1>2. RequestInv => TakenIsAReading
  <2> SUFFICES ASSUME RequestInv, IsValid(Taken)
               PROVE  /\ Taken \in Patterns
                      /\ Cardinality(request) > 1 /\ ~(HasJoker /\ \E c \in request : IsWild(c, level))
                            => Taken \in Readings(request, level)
    BY DEF TakenIsAReading
  <2>1. request # {}
    BY NothingIsTaken DEF Taken, RequestInv
  <2>2. Good(Taken)
    BY <2>1, AnalyzeYieldsPatterns DEF RequestInv, Taken
  <2>3. Taken \in Patterns
    BY <2>2 DEF Good, IsValid, Invalid, Pattern
  <2>4. Cardinality(request) > 1 /\ ~(HasJoker /\ \E c \in request : IsWild(c, level))
            => Taken \in Readings(request, level)
    BY AnalyzeReads DEF RequestInv, Taken, Unmixed, HasJoker
  <2> QED
    BY <2>3, <2>4
<1> QED
  BY <1>1, <1>2, RequestInvNext, PTL DEF ReadingsSpec

-----------------------------------------------------------------------------
(* No reading is missed *)

\* The kinds that counts have, and why.
KindOf(q, n, size, lvl) ==
    \/ /\ size >= 2
       /\ \E r \in Same(n, size) :
             q = Pattern(IF size = 2 THEN "PAIR" ELSE IF size = 3 THEN "TRIPLE" ELSE "BOMB",
                         PatternRank(r, lvl), size, 0)
    \/ /\ size = 5 /\ Cardinality(Counts(n)) = 2
       /\ \E t \in Same(n, 3) : \E pair : q = Pattern("TRIPLE_WITH_PAIR", PatternRank(t, lvl), 5, pair)
    \/ \E run \in RunKinds : \E top \in run[2]..14 :
          /\ run[2] * run[3] = size /\ Only(n, run[3])
          /\ Counts(n) = Window(top, run[2])
          /\ q = Pattern(run[1], top, run[2], 0)
    \/ /\ Counts(n) = {SmallJoker, BigJoker} /\ n[SmallJoker] >= 2 /\ n[BigJoker] >= 2
       /\ q = Pattern("JOKER_BOMB", BigJoker, size, 0)

\* Every kind of the rules is one of these.
LEMMA KindsAreKnown ==
  ASSUME NEW n, NEW size, NEW lvl, NEW q \in Kinds(n, size, lvl)
  PROVE  KindOf(q, n, size, lvl)
<1> DEFINE ranks == {Pattern(IF size = 2 THEN "PAIR" ELSE IF size = 3 THEN "TRIPLE" ELSE "BOMB",
                             PatternRank(r, lvl), size, 0) : r \in IF size >= 2 THEN Same(n, size) ELSE {}}
           triples == {Pattern("TRIPLE_WITH_PAIR", PatternRank(t, lvl), 5, CHOOSE p \in Counts(n) \ {t} : TRUE) :
                          t \in {t \in Same(n, 3) : size = 5 /\ Cardinality(Counts(n)) = 2}}
           runs == UNION {{Pattern(run[1], top, run[2], 0) :
                              top \in {top \in run[2]..14 : Counts(n) = Window(top, run[2])}} :
                          run \in {run \in {<<"STRAIGHT", 5, 1>>, <<"THREE_PAIRS", 3, 2>>, <<"TWO_TRIPLES", 2, 3>>} :
                                      run[2] * run[3] = size /\ Only(n, run[3])}}
           jokers == {Pattern("JOKER_BOMB", r, size, 0) :
                         r \in {r \in {BigJoker} : /\ Counts(n) = {SmallJoker, BigJoker}
                                                   /\ n[SmallJoker] >= 2 /\ n[BigJoker] >= 2}}
<1>1. Kinds(n, size, lvl) = ranks \cup triples \cup runs \cup jokers
  BY DEF Kinds
<1>2. CASE q \in ranks
  BY <1>2 DEF KindOf
<1>3. CASE q \in triples
  BY <1>3 DEF KindOf
<1>4. CASE q \in runs
  <2>1. PICK run \in RunKinds : /\ run[2] * run[3] = size /\ Only(n, run[3])
                                /\ \E top \in run[2]..14 : /\ Counts(n) = Window(top, run[2])
                                                           /\ q = Pattern(run[1], top, run[2], 0)
    BY <1>4 DEF RunKinds
  <2> QED
    BY <2>1 DEF KindOf
<1>5. CASE q \in jokers
  BY <1>5 DEF KindOf
<1> HIDE DEF ranks, triples, runs, jokers
<1> QED
  BY <1>1, <1>2, <1>3, <1>4, <1>5

\* A reading is a kind of possible counts; a straight may have become a flush.
LEMMA ReadingsAreKinds ==
  ASSUME NEW cards, NEW lvl, NEW p \in Readings(cards, lvl)
  PROVE  \E n \in CountsOf(cards, lvl) : \E q :
            /\ KindOf(q, n, Cardinality(cards), lvl)
            /\ p.type = IF q.type = "STRAIGHT" /\ Cardinality(SuitsOf(cards, lvl)) = 1
                        THEN "STRAIGHT_FLUSH" ELSE q.type
<1> DEFINE plain == UNION {Kinds(m, Cardinality(cards), lvl) : m \in CountsOf(cards, lvl)}
           Read(q) == [q EXCEPT !.type = IF @ = "STRAIGHT" /\ Cardinality(SuitsOf(cards, lvl)) = 1
                                         THEN "STRAIGHT_FLUSH" ELSE @]
<1>1. Readings(cards, lvl) = {Read(q) : q \in plain}
  BY DEF Readings, CountsOf, SuitsOf
<1>2. PICK q \in plain : p = Read(q)
  <2> HIDE DEF plain, Read
  <2> QED
    BY <1>1
<1>3. PICK n \in CountsOf(cards, lvl) : q \in Kinds(n, Cardinality(cards), lvl)
  OBVIOUS
<1> HIDE DEF plain
<1>4. KindOf(q, n, Cardinality(cards), lvl)
  BY <1>3, KindsAreKnown
<1>5. \E type, primary, length, pair : q = Pattern(type, primary, length, pair)
  BY <1>4, Zenon DEF KindOf
<1>6. p.type = IF q.type = "STRAIGHT" /\ Cardinality(SuitsOf(cards, lvl)) = 1
               THEN "STRAIGHT_FLUSH" ELSE q.type
  BY <1>2, <1>5 DEF Pattern
<1> QED
  BY <1>4, <1>6

\* Whatever the wild cards stand for, the natural cards are counted.
LEMMA CountsCover ==
  ASSUME NEW cards \in SUBSET Card, IsFiniteSet(cards), NEW lvl \in 2..14, NEW n \in CountsOf(cards, lvl)
  PROVE  \E read \in [cards -> Ranks] :
            /\ \A c \in cards : IsWild(c, lvl) => read[c] \in 2..14
            /\ \A c \in cards : ~IsWild(c, lvl) => read[c] = Face[c].rank
            /\ \A c \in cards : read[c] \in Counts(n)
            /\ \A r \in Ranks : /\ n[r] = Cardinality(Of(read, r)) /\ n[r] \in Nat
                                /\ IsFiniteSet(Of(read, r))
                                /\ RankCount(Once(cards), lvl, r) <= n[r]
<1> DEFINE W == {c \in cards : IsWild(c, lvl)}
<1>1. PICK f \in [W -> 2..14] : n = RanksOf(cards, f)
  BY DEF CountsOf
<1> DEFINE read == [c \in cards |-> IF c \in W THEN f[c] ELSE Face[c].rank]
<1>2. read \in [cards -> Ranks]
  <2>1. \A c \in W : f[c] \in Ranks
    BY DEF Ranks, BigJoker
  <2>2. \A c \in cards : Face[c].rank \in Ranks
    BY FaceAssumption
  <2> HIDE DEF W
  <2> QED
    BY <2>1, <2>2
<1>3. ASSUME NEW r \in Ranks
      PROVE  /\ n[r] = Cardinality(Of(read, r)) /\ n[r] \in Nat /\ IsFiniteSet(Of(read, r))
             /\ RankCount(Once(cards), lvl, r) <= n[r]
  <2>1. Of(read, r) = {c \in cards : (IF c \in DOMAIN f THEN f[c] ELSE Face[c].rank) = r}
    BY DEF Of
  <2>2. n[r] = Cardinality(Of(read, r))
    BY <1>1, <2>1, Zenon DEF RanksOf
  <2>3. Of(read, r) \in SUBSET cards
    BY DEF Of
  <2> DEFINE natural == {c \in cards : ~IsWild(c, lvl) /\ Face[c].rank = r}
  <2>4. natural \in SUBSET Of(read, r)
    BY DEF Of
  <2>5. RankCount(Once(cards), lvl, r) = Cardinality(natural)
    BY RankCountOfOnce
  <2> HIDE DEF read, natural
  <2>6. IsFiniteSet(Of(read, r)) /\ Cardinality(Of(read, r)) \in Nat
    BY <2>3, FS_Subset, FS_CardinalityType
  <2>7. Cardinality(natural) <= Cardinality(Of(read, r))
    BY <2>4, <2>6, FS_Subset
  <2> QED
    BY <2>2, <2>5, <2>6, <2>7
<1>4. \A c \in cards : (IsWild(c, lvl) => read[c] \in 2..14) /\ (~IsWild(c, lvl) => read[c] = Face[c].rank)
  OBVIOUS
<1> HIDE DEF read
<1>5. ASSUME NEW c \in cards PROVE read[c] \in Counts(n)
  <2> DEFINE r == read[c]
  <2>1. r \in Ranks /\ c \in Of(read, r)
    BY <1>2 DEF Of
  <2> HIDE DEF r
  <2>2. n[r] \in Nat /\ n[r] # 0
    BY <1>3, <2>1, FS_EmptySet
  <2> QED
    BY <2>1, <2>2 DEF Counts, r
<1> QED
  BY <1>2, <1>3, <1>4, <1>5

\* No natural rank is left out of the counts or counted less often than it occurs.
LEMMA NaturalRanksCounted ==
  ASSUME NEW cards \in SUBSET Card, IsFiniteSet(cards), NEW lvl \in 2..14, NEW n \in CountsOf(cards, lvl)
  PROVE  /\ NaturalRanks(Once(cards), lvl) \subseteq Counts(n)
         /\ \A r \in Ranks : n[r] \in Nat /\ RankCount(Once(cards), lvl, r) <= n[r]
         /\ \A r \in Ranks : n[r] = Cardinality(cards) => NaturalRanks(Once(cards), lvl) \subseteq {r}
<1>1. PICK read \in [cards -> Ranks] :
            /\ \A c \in cards : ~IsWild(c, lvl) => read[c] = Face[c].rank
            /\ \A c \in cards : read[c] \in Counts(n)
            /\ \A r \in Ranks : /\ n[r] = Cardinality(Of(read, r)) /\ n[r] \in Nat
                                /\ RankCount(Once(cards), lvl, r) <= n[r]
  BY CountsCover
<1>2. NaturalRanks(Once(cards), lvl) = {Face[c].rank : c \in {c \in cards : ~IsWild(c, lvl)}}
  BY DEF NaturalRanks, Naturals_, Wilds, Once
<1>3. ASSUME NEW r \in Ranks, n[r] = Cardinality(cards) PROVE NaturalRanks(Once(cards), lvl) \subseteq {r}
  <2>1. Of(read, r) \in SUBSET cards
    BY DEF Of
  <2>2. Of(read, r) = cards
    BY <1>1, <1>3, <2>1, FS_Subset
  <2>3. \A c \in cards : read[c] = r
    BY <2>2 DEF Of
  <2> QED
    BY <1>1, <1>2, <2>3
<1> QED
  BY <1>1, <1>2, <1>3

\* Natural cards of no more than one rank.
LEMMA FewRanksFit ==
  ASSUME NEW cards \in SUBSET Card, NEW lvl \in 2..14, NEW r,
         NaturalRanks(Once(cards), lvl) \subseteq {r}
  PROVE  Cardinality(NaturalRanks(Once(cards), lvl)) <= 1
<1> DEFINE naturals == NaturalRanks(Once(cards), lvl)
<1>1. naturals = {} \/ naturals = {r}
  OBVIOUS
<1> HIDE DEF naturals
<1>2. Cardinality(naturals) = 0 \/ Cardinality(naturals) = 1
  BY <1>1, FS_EmptySet, FS_Singleton
<1> QED
  BY <1>2 DEF naturals

\* FirstValid finds a valid pattern if there is one.
LEMMA FirstValidIsValid ==
  ASSUME NEW ps, DOMAIN ps \subseteq Nat, NEW k \in DOMAIN ps, IsValid(ps[k])
  PROVE  IsValid(FirstValid(ps))
<1> DEFINE valid == {i \in DOMAIN ps : IsValid(ps[i])}
<1>1. k \in valid /\ valid \subseteq Nat
  OBVIOUS
<1>2. FirstValid(ps) = IF valid = {} THEN Invalid ELSE ps[CHOOSE i \in valid : \A j \in valid : i <= j]
  BY DEF FirstValid
<1>3. \A i \in valid : IsValid(ps[i])
  OBVIOUS
<1> HIDE DEF valid
<1>4. \E i \in valid : \A j \in valid : i <= j
  BY <1>1, LeastNumber
<1> QED
  BY <1>1, <1>2, <1>3, <1>4

\* A request is not refused if one of the kinds that are tried for its size is valid.
LEMMA AnalyzeAccepts ==
  ASSUME NEW cards \in SUBSET Card, IsFiniteSet(cards), NEW lvl \in 2..14
  PROVE  LET b == Once(cards)
             size == Cardinality(cards)
         IN  /\ IsValid(JokerBomb(b)) \/ IsValid(Bomb(b, lvl))
                   => Analyze(b, lvl).type \in {"BOMB", "JOKER_BOMB"}
             /\ size = 2 /\ IsValid(SameRank(b, lvl, "PAIR", 2)) => IsValid(Analyze(b, lvl))
             /\ size = 3 /\ IsValid(SameRank(b, lvl, "TRIPLE", 3)) => IsValid(Analyze(b, lvl))
             /\ size = 5 /\ (\/ IsValid(TripleWithPair(b, lvl)) \/ IsValid(StraightFlush(b, lvl))
                             \/ IsValid(Straight(b, lvl))) => IsValid(Analyze(b, lvl))
             /\ size = 6 /\ (\/ IsValid(Run(b, lvl, "THREE_PAIRS", 3, 2))
                             \/ IsValid(Run(b, lvl, "TWO_TRIPLES", 2, 3))) => IsValid(Analyze(b, lvl))
<1> DEFINE b == Once(cards)
           n == Size(b)
           bombs == <<JokerBomb(b), Bomb(b, lvl)>>
           rest == CASE n = 1 -> <<Single(b, lvl)>>
                     [] n = 2 -> <<SameRank(b, lvl, "PAIR", 2)>>
                     [] n = 3 -> <<SameRank(b, lvl, "TRIPLE", 3)>>
                     [] n = 5 -> <<TripleWithPair(b, lvl), StraightFlush(b, lvl), Straight(b, lvl)>>
                     [] n = 6 -> <<Run(b, lvl, "THREE_PAIRS", 3, 2), Run(b, lvl, "TWO_TRIPLES", 2, 3)>>
                     [] OTHER -> <<>>
<1>1. Analyze(b, lvl) = IF IsValid(FirstValid(bombs)) THEN FirstValid(bombs) ELSE FirstValid(rest)
  BY DEF Analyze
<1>2. n = Cardinality(cards)
  BY SizeOfOnce
<1>3. /\ IsValid(JokerBomb(b)) => JokerBomb(b).type = "JOKER_BOMB"
      /\ IsValid(Bomb(b, lvl)) => Bomb(b, lvl).type = "BOMB"
  BY DEF JokerBomb, Bomb, IsValid, Invalid, Pattern
<1> HIDE DEF b, n
<1>4. \A p : IsValid(p) => IsValid(FirstValid(<<p>>))
  BY FirstValidIsValid
<1>5. \A p, q : /\ IsValid(p) \/ IsValid(q) => IsValid(FirstValid(<<p, q>>))
                /\ IsValid(FirstValid(<<p, q>>)) => \/ IsValid(p) /\ FirstValid(<<p, q>>) = p
                                                    \/ IsValid(q) /\ FirstValid(<<p, q>>) = q
  <2> TAKE p, q
  <2> DEFINE ps == <<p, q>>
  <2>1. DOMAIN ps = 1..2 /\ ps[1] = p /\ ps[2] = q
    OBVIOUS
  <2> HIDE DEF ps
  <2>2. IsValid(FirstValid(ps)) => \E i \in DOMAIN ps : FirstValid(ps) = ps[i] /\ IsValid(ps[i])
    BY <2>1, FirstValidIsFirst
  <2>3. \A i \in DOMAIN ps : IsValid(ps[i]) => IsValid(FirstValid(ps))
    BY <2>1, FirstValidIsValid
  <2> QED
    BY <2>1, <2>2, <2>3 DEF ps
<1>6. \A p, q, r : IsValid(p) \/ IsValid(q) \/ IsValid(r) => IsValid(FirstValid(<<p, q, r>>))
  <2> TAKE p, q, r
  <2> DEFINE ps == <<p, q, r>>
  <2>1. DOMAIN ps = 1..3 /\ ps[1] = p /\ ps[2] = q /\ ps[3] = r
    OBVIOUS
  <2> HIDE DEF ps
  <2>3. \A i \in DOMAIN ps : IsValid(ps[i]) => IsValid(FirstValid(ps))
    BY <2>1, FirstValidIsValid
  <2> QED
    BY <2>1, <2>3 DEF ps
<1>7. IsValid(JokerBomb(b)) \/ IsValid(Bomb(b, lvl)) => Analyze(b, lvl).type \in {"BOMB", "JOKER_BOMB"}
  <2> SUFFICES ASSUME IsValid(JokerBomb(b)) \/ IsValid(Bomb(b, lvl))
               PROVE  Analyze(b, lvl).type \in {"BOMB", "JOKER_BOMB"}
    OBVIOUS
  <2> HIDE DEF rest
  <2>1. \/ IsValid(JokerBomb(b)) /\ FirstValid(bombs) = JokerBomb(b)
        \/ IsValid(Bomb(b, lvl)) /\ FirstValid(bombs) = Bomb(b, lvl)
    BY <1>5, Zenon
  <2> HIDE DEF bombs
  <2>2. Analyze(b, lvl) = FirstValid(bombs)
    BY <1>1, <2>1
  <2> QED
    BY <1>3, <2>1, <2>2
<1>8. IsValid(FirstValid(rest)) => IsValid(Analyze(b, lvl))
  <2> HIDE DEF rest, bombs
  <2> QED
    BY <1>1
<1>9. /\ n = 2 => rest = <<SameRank(b, lvl, "PAIR", 2)>>
      /\ n = 3 => rest = <<SameRank(b, lvl, "TRIPLE", 3)>>
      /\ n = 5 => rest = <<TripleWithPair(b, lvl), StraightFlush(b, lvl), Straight(b, lvl)>>
      /\ n = 6 => rest = <<Run(b, lvl, "THREE_PAIRS", 3, 2), Run(b, lvl, "TWO_TRIPLES", 2, 3)>>
  OBVIOUS
<1> HIDE DEF rest
<1>10. n = 2 /\ IsValid(SameRank(b, lvl, "PAIR", 2)) => IsValid(Analyze(b, lvl))
  BY <1>4, <1>8, <1>9
<1>11. n = 3 /\ IsValid(SameRank(b, lvl, "TRIPLE", 3)) => IsValid(Analyze(b, lvl))
  BY <1>4, <1>8, <1>9
<1>12. n = 5 /\ (\/ IsValid(TripleWithPair(b, lvl)) \/ IsValid(StraightFlush(b, lvl))
                 \/ IsValid(Straight(b, lvl))) => IsValid(Analyze(b, lvl))
  BY <1>6, <1>8, <1>9, Zenon
<1>13. n = 6 /\ (\/ IsValid(Run(b, lvl, "THREE_PAIRS", 3, 2))
                 \/ IsValid(Run(b, lvl, "TWO_TRIPLES", 2, 3))) => IsValid(Analyze(b, lvl))
  <2> DEFINE p == Run(b, lvl, "THREE_PAIRS", 3, 2)
             q == Run(b, lvl, "TWO_TRIPLES", 2, 3)
  <2>1. n = 6 => rest = <<p, q>>
    BY <1>9
  <2> HIDE DEF p, q
  <2>2. IsValid(p) \/ IsValid(q) => IsValid(FirstValid(<<p, q>>))
    BY <1>5
  <2>3. n = 6 /\ (IsValid(p) \/ IsValid(q)) => IsValid(Analyze(b, lvl))
    BY <1>8, <2>1, <2>2
  <2> QED
    BY <2>3 DEF p, q
<1> QED
  BY <1>2, <1>7, <1>10, <1>11, <1>12, <1>13 DEF b

\* A run is found in a window that has all the natural cards, no rank too often.
LEMMA RunFits ==
  ASSUME NEW cards \in SUBSET Card, IsFiniteSet(cards), NEW lvl \in 2..14,
         NEW type, type # "INVALID", NEW slots \in 2..5, NEW copies \in 1..3,
         NEW top \in slots..14, Cardinality(cards) = slots * copies,
         NaturalRanks(Once(cards), lvl) \subseteq Window(top, slots),
         \A r \in Window(top, slots) : RankCount(Once(cards), lvl, r) <= copies
  PROVE  IsValid(Run(Once(cards), lvl, type, slots, copies))
<1> DEFINE b == Once(cards)
           N == Naturals_(b, lvl)
           W == Wilds(b, lvl)
           window(start) == {SlotRank(i) : i \in start..(start + slots - 1)}
           In(start) == {c \in N : Face[c].rank \in window(start)}
           have(start) == CountIn(b, In(start))
           Fits(start) == /\ \A r \in window(start) : RankCount(b, lvl, r) <= copies
                          /\ slots * copies - have(start) <= CountIn(b, W)
           Starts == {start \in 1..(15 - slots) : Fits(start)}
           lowest == CHOOSE s \in Starts : \A o \in Starts : s <= o
           first == top - slots + 1
<1>1. Run(b, lvl, type, slots, copies) =
          IF /\ Size(b) = slots * copies
             /\ \A c \in N : ~IsJoker(c)
             /\ Starts # {}
          THEN Pattern(type, lowest + slots - 1, slots, 0)
          ELSE Invalid
  BY DEF Run
<1>2. Size(b) = slots * copies
  BY SizeOfOnce
<1>3. window(first) = Window(top, slots)
  <2>1. first..(first + slots - 1) = first..top
    OBVIOUS
  <2> QED
    BY <2>1 DEF Window
<1>4. \A c \in N : Face[c].rank \in Window(top, slots)
  BY DEF NaturalRanks
<1>5. \A c \in N : ~IsJoker(c)
  <2>1. Window(top, slots) \subseteq 2..14
    BY WindowSize
  <2> HIDE DEF N
  <2> QED
    BY <1>4, <2>1 DEF IsJoker, SmallJoker
<1>6. N \subseteq cards /\ W \subseteq cards /\ N \cap W = {} /\ N \cup W = cards
  BY DEF Naturals_, Wilds, Once
<1>7. In(first) = N
  <2> HIDE DEF window, N
  <2> QED
    BY <1>3, <1>4
<1> HIDE DEF N, W
<1>8. IsFiniteSet(N) /\ IsFiniteSet(W) /\ Cardinality(N) \in Nat /\ Cardinality(W) \in Nat
  BY <1>6, FS_Subset, FS_CardinalityType
<1>9. Cardinality(N) + Cardinality(W) = slots * copies
  BY <1>6, <1>8, DisjointSize
<1>10. N \cap cards = N /\ W \cap cards = W
  BY <1>6
<1>11. CountIn(b, N) = Cardinality(N) /\ CountIn(b, W) = Cardinality(W)
  BY <1>10, CountInOnce
<1>12. slots * copies - CountIn(b, N) <= CountIn(b, W)
  <2> DEFINE cn == Cardinality(N)
             cw == Cardinality(W)
             sc == slots * copies
  <2>1. cn \in Nat /\ cw \in Nat /\ cn + cw = sc
    BY <1>8, <1>9
  <2> HIDE DEF cn, cw, sc
  <2>2. sc - cn <= cw
    BY <2>1
  <2> QED
    BY <1>11, <2>2 DEF cn, cw, sc
<1>13. first \in 1..(15 - slots)
  OBVIOUS
<1> HIDE DEF b, first
<1>14. \A r \in window(first) : RankCount(b, lvl, r) <= copies
  <2> HIDE DEF window
  <2> QED
    BY <1>3 DEF b
<1>15. Fits(first)
  <2> HIDE DEF window, In
  <2> QED
    BY <1>7, <1>12, <1>14
<1>16. Starts # {}
  <2> HIDE DEF Fits
  <2> QED
    BY <1>13, <1>15
<1> HIDE DEF Starts, lowest
<1> QED
  BY <1>1, <1>2, <1>5, <1>16 DEF IsValid, Pattern, b

\* One rank for all the cards: a pair, a triple or a bomb is accepted.
LEMMA OneRankAccepted ==
  ASSUME NEW cards \in SUBSET Card, IsFiniteSet(cards), NEW lvl \in 2..14, NEW r,
         Cardinality(cards) >= 2, NaturalRanks(Once(cards), lvl) \subseteq {r}
  PROVE  LET size == Cardinality(cards) IN
         /\ size = 2 => IsValid(SameRank(Once(cards), lvl, "PAIR", 2))
         /\ size = 3 => IsValid(SameRank(Once(cards), lvl, "TRIPLE", 3))
         /\ size >= 4 => IsValid(Bomb(Once(cards), lvl))
<1>1. Cardinality(NaturalRanks(Once(cards), lvl)) <= 1
  BY FewRanksFit
<1>2. Size(Once(cards)) = Cardinality(cards)
  BY SizeOfOnce
<1> QED
  BY <1>1, <1>2 DEF SameRank, Bomb, IsValid, Pattern

\* Counts of three and two: five cards that are a bomb or a triple with a pair.
LEMMA TripleWithPairAccepted ==
  ASSUME NEW cards \in SUBSET Card, IsFiniteSet(cards), NEW lvl \in 2..14,
         Cardinality(cards) = 5, NEW n \in CountsOf(cards, lvl),
         Cardinality(Counts(n)) = 2, NEW t \in Same(n, 3)
  PROVE  IsValid(Bomb(Once(cards), lvl)) \/ IsValid(TripleWithPair(Once(cards), lvl))
<1> DEFINE b == Once(cards)
           naturals == NaturalRanks(b, lvl)
<1>1. t \in Counts(n) /\ n[t] = 3 /\ Counts(n) \subseteq Ranks
  BY DEF Same, Counts
<1>2. PICK s : s # t /\ Counts(n) = {t, s}
  <2> DEFINE C == Counts(n)
             one == {t}
  <2>1. IsFiniteSet(C)
    BY <1>1, RanksFinite, FS_Subset
  <2>2. t \in C /\ Cardinality(C) = 2
    BY <1>1
  <2> HIDE DEF C
  <2>3. IsFiniteSet(C \ {t}) /\ Cardinality(C \ {t}) = 2 - 1
    BY <2>1, <2>2, FS_RemoveElement
  <2>4. Cardinality(C \ {t}) = 1
    BY <2>3
  <2>5. \E s : C \ {t} = {s}
    BY <2>3, <2>4, FS_Singleton
  <2> QED
    BY <2>2, <2>5 DEF C
<1>3. PICK read \in [cards -> Ranks] :
            /\ \A c \in cards : read[c] \in Counts(n)
            /\ \A r \in Ranks : /\ n[r] = Cardinality(Of(read, r)) /\ IsFiniteSet(Of(read, r))
                                /\ RankCount(b, lvl, r) <= n[r]
  BY CountsCover
<1>4. s \in Ranks /\ t \in Ranks
  BY <1>1, <1>2
<1>5. n[s] = 2
  <2>1. Of(read, t) \cup Of(read, s) = cards /\ Of(read, t) \cap Of(read, s) = {}
    BY <1>2, <1>3 DEF Of
  <2>2. Cardinality(cards) = Cardinality(Of(read, t)) + Cardinality(Of(read, s))
    BY <1>3, <1>4, <2>1, DisjointSize
  <2>3. Cardinality(Of(read, s)) \in Nat
    BY <1>3, <1>4, FS_CardinalityType
  <2>4. n[t] = Cardinality(Of(read, t)) /\ n[s] = Cardinality(Of(read, s))
    BY <1>3, <1>4
  <2> QED
    BY <1>1, <2>2, <2>3, <2>4
<1>6. naturals \subseteq {t, s}
  BY <1>2, NaturalRanksCounted
<1>7. RankCount(b, lvl, t) <= 3 /\ RankCount(b, lvl, s) <= 2
  BY <1>1, <1>3, <1>4, <1>5
<1>8. CASE naturals = {t, s}
  <2> DEFINE Splits == {u \in naturals \X naturals : /\ u[1] # u[2]
                                                     /\ RankCount(b, lvl, u[1]) <= 3
                                                     /\ RankCount(b, lvl, u[2]) <= 2}
             first == CHOOSE u \in Splits : \A o \in Splits : u[1] <= o[1]
  <2>1. TripleWithPair(b, lvl) = IF Cardinality(naturals) = 2 /\ Splits # {}
                                 THEN Pattern("TRIPLE_WITH_PAIR", PatternRank(first[1], lvl), 5, first[2])
                                 ELSE Invalid
    BY DEF TripleWithPair
  <2>2. <<t, s>> \in Splits
    <3> HIDE DEF naturals
    <3> QED
      BY <1>2, <1>7, <1>8
  <2>3. Cardinality(naturals) = 2
    BY <1>2, <1>8, PairSize
  <2> HIDE DEF Splits, first, naturals
  <2>4. TripleWithPair(b, lvl) = Pattern("TRIPLE_WITH_PAIR", PatternRank(first[1], lvl), 5, first[2])
    BY <2>1, <2>2, <2>3
  <2> QED
    BY <2>4 DEF IsValid, Pattern
<1>9. CASE naturals # {t, s}
  <2>1. naturals \subseteq {t} \/ naturals \subseteq {s}
    <3> HIDE DEF naturals
    <3> QED
      BY <1>6, <1>9
  <2>2. Cardinality(cards) >= 2 /\ Cardinality(cards) >= 4
    OBVIOUS
  <2>3. \A r : naturals \subseteq {r} => IsValid(Bomb(b, lvl))
    BY <2>2, OneRankAccepted
  <2> QED
    BY <2>1, <2>3
<1> QED
  BY <1>8, <1>9

\* A heap of jokers, two of each or more, is accepted for a joker bomb.
LEMMA JokersAccepted ==
  ASSUME NEW cards \in SUBSET Card, IsFiniteSet(cards), NEW lvl \in 2..14, NEW n \in CountsOf(cards, lvl),
         Counts(n) = {SmallJoker, BigJoker}, n[SmallJoker] >= 2, n[BigJoker] >= 2
  PROVE  IsValid(JokerBomb(Once(cards)))
<1> DEFINE b == Once(cards)
           of(r) == {c \in Card : Face[c].rank = r}
<1>1. PICK read \in [cards -> Ranks] :
            /\ \A c \in cards : IsWild(c, lvl) => read[c] \in 2..14
            /\ \A c \in cards : ~IsWild(c, lvl) => read[c] = Face[c].rank
            /\ \A c \in cards : read[c] \in Counts(n)
            /\ \A r \in Ranks : n[r] = Cardinality(Of(read, r))
  BY CountsCover
<1>2. \A c \in cards : Face[c].rank = read[c] /\ read[c] \in {SmallJoker, BigJoker}
  BY <1>1 DEF SmallJoker, BigJoker
<1>3. \A c \in DOMAIN b : IsJoker(c)
  BY <1>2 DEF IsJoker, SmallJoker, BigJoker, Once
<1>4. ASSUME NEW r \in {SmallJoker, BigJoker} PROVE CountIn(b, of(r)) = n[r]
  <2>1. of(r) \cap cards = Of(read, r)
    BY <1>2 DEF Of
  <2>2. r \in Ranks
    BY DEF Ranks, SmallJoker, BigJoker
  <2> HIDE DEF of
  <2>3. CountIn(b, of(r)) = Cardinality(of(r) \cap cards)
    BY CountInOnce
  <2> QED
    BY <1>1, <2>1, <2>2, <2>3
<1>5. CountIn(b, of(SmallJoker)) >= 2 /\ CountIn(b, of(BigJoker)) >= 2
  <2> HIDE DEF of, b
  <2> QED
    BY <1>4
<1> HIDE DEF b
<1>6. JokerBomb(b) = Pattern("JOKER_BOMB", BigJoker, Size(b), 0)
  BY <1>3, <1>5, Zenon DEF JokerBomb
<1> QED
  BY <1>6 DEF IsValid, Pattern, b

\* In particular a straight.
LEMMA StraightIsFound ==
  ASSUME NEW cards \in SUBSET Card, IsFiniteSet(cards), NEW lvl \in 2..14,
         Run(Once(cards), lvl, "STRAIGHT", 5, 1) # Invalid
  PROVE  \E last : Run(Once(cards), lvl, "STRAIGHT", 5, 1) = Pattern("STRAIGHT", last, 5, 0)
<1> DEFINE type == "STRAIGHT"
           slots == 5
           copies == 1
<1>1. slots \in 2..5 /\ copies \in 1..3 /\ Run(Once(cards), lvl, type, slots, copies) # Invalid
  OBVIOUS
<1> HIDE DEF type, slots, copies
<1>2. /\ Cardinality(cards) = slots * copies
      /\ \E top \in slots..14 :
            /\ Run(Once(cards), lvl, type, slots, copies) = Pattern(type, top, slots, 0)
            /\ NaturalRanks(Once(cards), lvl) \subseteq Window(top, slots)
            /\ \A r \in Window(top, slots) : RankCount(Once(cards), lvl, r) <= copies
  BY <1>1, RunIsFound, Zenon
<1> QED
  BY <1>2 DEF type, slots, copies

\* With two wild cards or fewer, a straight has three natural ranks or more: it is no
\* bomb and no triple with a pair, and one of a single suit is taken for a flush.
LEMMA FlushIsTaken ==
  ASSUME NEW cards \in SUBSET Card, IsFiniteSet(cards), NEW lvl \in 2..14,
         Cardinality(cards) = 5, Cardinality(Wilds(Once(cards), lvl)) <= 2,
         Cardinality(SuitsOf(cards, lvl)) = 1, NEW top \in 5..14,
         NaturalRanks(Once(cards), lvl) \subseteq Window(top, 5),
         \A r \in Window(top, 5) : RankCount(Once(cards), lvl, r) <= 1
  PROVE  Analyze(Once(cards), lvl).type = "STRAIGHT_FLUSH"
<1> DEFINE b == Once(cards)
           N == Naturals_(b, lvl)
           W == Wilds(b, lvl)
           naturals == NaturalRanks(b, lvl)
           OneSuit == N # {} /\ \A c, d \in N : Face[c].suit = Face[d].suit
           suits == SuitsOf(cards, lvl)
<1>1. /\ N = {c \in cards : ~IsWild(c, lvl)} /\ W = {c \in cards : IsWild(c, lvl)}
      /\ naturals = {Face[c].rank : c \in N} /\ suits = {Face[c].suit : c \in N}
      /\ DOMAIN b = cards
  BY DEF SuitsOf, NaturalRanks, Naturals_, Wilds, Once
<1>2. IsValid(Straight(b, lvl)) /\ \E last : Straight(b, lvl) = Pattern("STRAIGHT", last, 5, 0)
  <2> DEFINE type == "STRAIGHT"
  <2>1. type # "INVALID" /\ 5 \in 2..5 /\ 1 \in 1..3 /\ Cardinality(cards) = 5 * 1
    OBVIOUS
  <2> HIDE DEF type
  <2>2. IsValid(Run(b, lvl, type, 5, 1))
    BY <2>1, RunFits
  <2>3. Run(b, lvl, type, 5, 1) # Invalid
    BY <2>2 DEF IsValid, Invalid, Pattern
  <2>4. \E last : Run(b, lvl, type, 5, 1) = Pattern(type, last, 5, 0)
    <3>1. Run(Once(cards), lvl, "STRAIGHT", 5, 1) # Invalid
      BY <2>3 DEF b, type
    <3> HIDE DEF b
    <3>2. \E last : Run(Once(cards), lvl, "STRAIGHT", 5, 1) = Pattern("STRAIGHT", last, 5, 0)
      BY <3>1, StraightIsFound, Zenon
    <3> QED
      BY <3>2 DEF b, type
  <2> QED
    BY <2>2, <2>4 DEF Straight, type
<1>3. IsFiniteSet(N) /\ Cardinality(N) \in Nat /\ Cardinality(N) >= 3
  <2> HIDE DEF b, N, W, naturals, suits
  <2>1. N \in SUBSET cards /\ W \in SUBSET cards /\ N \cap W = {} /\ N \cup W = cards
    BY <1>1
  <2>2. IsFiniteSet(N) /\ IsFiniteSet(W) /\ Cardinality(N) \in Nat /\ Cardinality(W) \in Nat
    BY <2>1, FS_Subset, FS_CardinalityType
  <2>3. Cardinality(N) + Cardinality(W) = 5
    BY <2>1, <2>2, DisjointSize
  <2>4. Cardinality(W) <= 2
    BY DEF W, b
  <2> QED
    BY <2>2, <2>3, <2>4
<1>4. Window(top, 5) \subseteq 2..14
  BY WindowSize, SMTT(30)
<1>5. N # {}
  BY <1>3, FS_EmptySet
<1>6. OneSuit
  <2>1. \E s : suits = {s}
    <3>1. suits \in SUBSET Suits
      BY <1>1, FaceAssumption
    <3>2. Cardinality(suits) = 1
      OBVIOUS
    <3> HIDE DEF suits
    <3> QED
      BY <3>1, <3>2, OneSuitSize
  <2> HIDE DEF N, suits
  <2> QED
    BY <1>1, <1>5, <2>1, SMTT(30)
<1>7. IsValid(StraightFlush(b, lvl)) /\ StraightFlush(b, lvl).type = "STRAIGHT_FLUSH"
  <2>1. StraightFlush(b, lvl) = IF OneSuit /\ IsValid(Straight(b, lvl))
                                THEN [Straight(b, lvl) EXCEPT !.type = "STRAIGHT_FLUSH"] ELSE Invalid
    BY DEF StraightFlush
  <2> HIDE DEF OneSuit, b
  <2>2. StraightFlush(b, lvl) = [Straight(b, lvl) EXCEPT !.type = "STRAIGHT_FLUSH"]
    BY <1>2, <1>6, <2>1
  <2> QED
    BY <1>2, <2>2 DEF IsValid, Pattern
<1>8. ~IsValid(JokerBomb(b))
  <2>1. PICK c \in N : TRUE
    BY <1>5
  <2>2. c \in DOMAIN b /\ Face[c].rank \in 2..14
    BY <1>1, <1>4
  <2>3. ~IsJoker(c)
    BY <2>2 DEF IsJoker, SmallJoker
  <2> HIDE DEF b
  <2>4. JokerBomb(b) = Invalid
    BY <2>2, <2>3, Zenon DEF JokerBomb
  <2> QED
    BY <2>4 DEF IsValid, Invalid, Pattern
<1>9. Cardinality(naturals) >= 3 /\ Cardinality(naturals) \in Nat
  <2>1. ASSUME NEW c \in N, NEW d \in N, Face[c].rank = Face[d].rank PROVE c = d
    <3> DEFINE r == Face[c].rank
               same == {x \in cards : ~IsWild(x, lvl) /\ Face[x].rank = r}
    <3>1. r \in Window(top, 5)
      BY <1>1
    <3>2. {c, d} \in SUBSET same /\ same \in SUBSET cards
      BY <1>1, <2>1
    <3> HIDE DEF r
    <3>3. Cardinality(same) <= 1
      BY <3>1, RankCountOfOnce
    <3> HIDE DEF same
    <3>4. IsFiniteSet(same) /\ Cardinality(same) \in Nat
      BY <3>2, FS_Subset, FS_CardinalityType
    <3>5. Cardinality({c, d}) <= Cardinality(same)
      BY <3>2, <3>4, FS_Subset
    <3>6. c # d => Cardinality({c, d}) = 2
      BY PairSize
    <3> QED
      BY <3>3, <3>4, <3>5, <3>6
  <2> DEFINE rank == [c \in N |-> Face[c].rank]
  <2> HIDE DEF N, naturals
  <2>2. rank \in Injection(N, naturals)
    BY <1>1, <2>1 DEF Injection, IsInjective
  <2>3. IsFiniteSet(naturals)
    BY NaturalRanksSize DEF naturals, b
  <2>4. Cardinality(N) <= Cardinality(naturals)
    BY <2>2, <2>3, FS_Injection
  <2>5. Cardinality(naturals) \in Nat
    BY <2>3, FS_CardinalityType
  <2> QED
    BY <1>3, <2>4, <2>5
<1>10. ~IsValid(Bomb(b, lvl)) /\ ~IsValid(TripleWithPair(b, lvl))
  <2>1. ~(Cardinality(naturals) <= 1) /\ Cardinality(naturals) # 2
    <3> HIDE DEF naturals
    <3> QED
      BY <1>9
  <2> HIDE DEF b
  <2>2. Bomb(b, lvl) = Invalid
    BY <2>1, Zenon DEF Bomb
  <2>3. TripleWithPair(b, lvl) = Invalid
    BY <2>1, Zenon DEF TripleWithPair
  <2> QED
    BY <2>2, <2>3 DEF IsValid, Invalid, Pattern
<1>11. IsValid(Analyze(b, lvl))
  BY <1>7, AnalyzeAccepts
<1>12. Cardinality(cards) # 1 /\ Cardinality(cards) \notin {2, 3, 6}
  OBVIOUS
<1>13. Analyze(b, lvl) = TripleWithPair(b, lvl) \/ Analyze(b, lvl) = StraightFlush(b, lvl)
  BY <1>7, <1>8, <1>10, <1>11, <1>12, AnalyzeTries
<1> HIDE DEF b
<1> QED
  BY <1>7, <1>10, <1>11, <1>13 DEF b

\* A request with a reading is accepted, for a bomb if that is the reading, and with
\* two wild cards or fewer for a straight flush if that is the reading.
LEMMA ReadingIsTaken ==
  ASSUME NEW cards \in SUBSET Card, IsFiniteSet(cards), NEW lvl \in 2..14, Cardinality(cards) > 1,
         NEW p \in Readings(cards, lvl)
  PROVE  LET taken == Analyze(Once(cards), lvl) IN
         /\ IsValid(taken)
         /\ p.type \in {"BOMB", "JOKER_BOMB"} => taken.type \in {"BOMB", "JOKER_BOMB"}
         /\ p.type = "STRAIGHT_FLUSH" /\ Cardinality(Wilds(Once(cards), lvl)) <= 2
               => taken.type = "STRAIGHT_FLUSH"
<1> DEFINE b == Once(cards)
           size == Cardinality(cards)
           taken == Analyze(b, lvl)
           Goal == /\ IsValid(taken)
                   /\ p.type \in {"BOMB", "JOKER_BOMB"} => taken.type \in {"BOMB", "JOKER_BOMB"}
                   /\ p.type = "STRAIGHT_FLUSH" /\ Cardinality(Wilds(b, lvl)) <= 2
                         => taken.type = "STRAIGHT_FLUSH"
<1> DEFINE ReadAs(n, q) == /\ KindOf(q, n, size, lvl)
                           /\ p.type = IF q.type = "STRAIGHT" /\ Cardinality(SuitsOf(cards, lvl)) = 1
                                       THEN "STRAIGHT_FLUSH" ELSE q.type
<1>0. PICK n \in CountsOf(cards, lvl) : \E q : ReadAs(n, q)
  BY ReadingsAreKinds
<1>1. PICK q : ReadAs(n, q)
  BY <1>0
<1>2. /\ NaturalRanks(b, lvl) \subseteq Counts(n)
      /\ \A r \in Ranks : n[r] \in Nat /\ RankCount(b, lvl, r) <= n[r]
      /\ \A r \in Ranks : n[r] = size => NaturalRanks(b, lvl) \subseteq {r}
  BY NaturalRanksCounted
<1>3. /\ IsValid(JokerBomb(b)) \/ IsValid(Bomb(b, lvl)) => taken.type \in {"BOMB", "JOKER_BOMB"}
      /\ size = 2 /\ IsValid(SameRank(b, lvl, "PAIR", 2)) => IsValid(taken)
      /\ size = 3 /\ IsValid(SameRank(b, lvl, "TRIPLE", 3)) => IsValid(taken)
      /\ size = 5 /\ (IsValid(TripleWithPair(b, lvl)) \/ IsValid(Straight(b, lvl))) => IsValid(taken)
      /\ size = 6 /\ (\/ IsValid(Run(b, lvl, "THREE_PAIRS", 3, 2))
                      \/ IsValid(Run(b, lvl, "TWO_TRIPLES", 2, 3))) => IsValid(taken)
  BY AnalyzeAccepts
<1>4. taken.type \in {"BOMB", "JOKER_BOMB"} => IsValid(taken)
  BY DEF IsValid
<1>5. size \in Nat /\ size > 1
  BY FS_CardinalityType
<1>6. ASSUME size >= 2,
             NEW r \in Same(n, size),
             q = Pattern(IF size = 2 THEN "PAIR" ELSE IF size = 3 THEN "TRIPLE" ELSE "BOMB",
                         PatternRank(r, lvl), size, 0)
      PROVE  Goal
  <2>1. r \in Ranks /\ n[r] = size
    BY DEF Same, Counts
  <2>2. NaturalRanks(b, lvl) \subseteq {r}
    BY <1>2, <2>1
  <2>3. /\ size = 2 => IsValid(SameRank(b, lvl, "PAIR", 2))
        /\ size = 3 => IsValid(SameRank(b, lvl, "TRIPLE", 3))
        /\ size >= 4 => IsValid(Bomb(b, lvl))
    BY <1>6, <2>2, OneRankAccepted
  <2>4. q.type \in {"PAIR", "TRIPLE", "BOMB"} /\ (q.type = "BOMB" => size # 2 /\ size # 3)
    BY <1>6 DEF Pattern
  <2>5. p.type = q.type
    BY <1>1, <2>4
  <2> HIDE DEF b, size, taken
  <2> QED
    BY <1>3, <1>4, <1>5, <2>3, <2>4, <2>5
<1>7. ASSUME size = 5, Cardinality(Counts(n)) = 2, NEW t \in Same(n, 3), NEW pair,
             q = Pattern("TRIPLE_WITH_PAIR", PatternRank(t, lvl), 5, pair)
      PROVE  Goal
  <2>1. IsValid(Bomb(b, lvl)) \/ IsValid(TripleWithPair(b, lvl))
    BY <1>7, TripleWithPairAccepted
  <2>2. p.type = "TRIPLE_WITH_PAIR"
    BY <1>1, <1>7 DEF Pattern
  <2> HIDE DEF b, size, taken
  <2> QED
    BY <1>3, <1>4, <1>7, <2>1, <2>2
<1>8. ASSUME NEW run \in RunKinds, NEW top \in run[2]..14, run[2] * run[3] = size, Only(n, run[3]),
             Counts(n) = Window(top, run[2]), q = Pattern(run[1], top, run[2], 0)
      PROVE  Goal
  <2>1. run[1] # "INVALID" /\ run[2] \in 2..5 /\ run[3] \in 1..3
    BY DEF RunKinds
  <2>2. Window(top, run[2]) \subseteq Ranks
    BY <1>8 DEF Counts
  <2>3. NaturalRanks(b, lvl) \subseteq Window(top, run[2])
    BY <1>2, <1>8
  <2>4. \A r \in Window(top, run[2]) : RankCount(b, lvl, r) <= run[3]
    BY <1>2, <1>8, <2>2 DEF Only
  <2>5. IsValid(Run(b, lvl, run[1], run[2], run[3]))
    BY <1>8, <2>1, <2>3, <2>4, RunFits
  <2>6. \/ run[1] = "STRAIGHT" /\ run[2] = 5 /\ run[3] = 1 /\ size = 5
        \/ run[1] = "THREE_PAIRS" /\ run[2] = 3 /\ run[3] = 2 /\ size = 6
        \/ run[1] = "TWO_TRIPLES" /\ run[2] = 2 /\ run[3] = 3 /\ size = 6
    BY <1>8 DEF RunKinds
  <2>7. q.type = run[1]
    BY <1>8 DEF Pattern
  <2>8. CASE run[1] = "STRAIGHT" /\ run[2] = 5 /\ run[3] = 1 /\ size = 5
    <3>1. IsValid(Straight(b, lvl))
      BY <2>5, <2>8 DEF Straight
    <3>2. IsValid(taken)
      <4> HIDE DEF b, size, taken
      <4> QED
        BY <1>3, <2>8, <3>1
    <3>3. p.type = IF Cardinality(SuitsOf(cards, lvl)) = 1 THEN "STRAIGHT_FLUSH" ELSE "STRAIGHT"
      BY <1>1, <2>7, <2>8
    <3>4. Cardinality(SuitsOf(cards, lvl)) = 1 /\ Cardinality(Wilds(b, lvl)) <= 2
              => taken.type = "STRAIGHT_FLUSH"
      BY <1>8, <2>3, <2>4, <2>8, FlushIsTaken
    <3> HIDE DEF b, taken
    <3> QED
      BY <3>2, <3>3, <3>4
  <2>9. CASE run[1] \in {"THREE_PAIRS", "TWO_TRIPLES"} /\ size = 6
    <3>1. p.type \in {"THREE_PAIRS", "TWO_TRIPLES"}
      BY <1>1, <2>7, <2>9
    <3> HIDE DEF b, size, taken
    <3>2. IsValid(taken)
      BY <1>3, <2>5, <2>6, <2>9
    <3> QED
      BY <3>1, <3>2
  <2> HIDE DEF Goal, b, size
  <2> QED
    BY <2>6, <2>8, <2>9
<1>9. ASSUME Counts(n) = {SmallJoker, BigJoker}, n[SmallJoker] >= 2, n[BigJoker] >= 2,
             q = Pattern("JOKER_BOMB", BigJoker, size, 0)
      PROVE  Goal
  <2>1. IsValid(JokerBomb(b))
    BY <1>9, JokersAccepted
  <2>2. p.type = "JOKER_BOMB"
    BY <1>1, <1>9 DEF Pattern
  <2> HIDE DEF b, taken
  <2> QED
    BY <1>3, <1>4, <2>1, <2>2
<1> HIDE DEF Goal, size
<1>10. Goal
  BY <1>1, <1>6, <1>7, <1>8, <1>9 DEF KindOf
<1> QED
  BY <1>10 DEF Goal

\* For any cards of any deck, at every level: two cards or more that have a reading are
\* never refused, and never taken for less than the bomb or, with two wild cards at
\* most, the straight flush that they can be.
THEOREM AnalyzeMissesNothing ==
  \A cards \in SUBSET Card : \A lvl \in 2..14 :
      LET taken == Analyze(Once(cards), lvl)
          types == {p.type : p \in Readings(cards, lvl)}
      IN  IsFiniteSet(cards) /\ Cardinality(cards) > 1 /\ Readings(cards, lvl) # {} =>
             /\ IsValid(taken)
             /\ types \cap {"BOMB", "JOKER_BOMB"} # {} => taken.type \in {"BOMB", "JOKER_BOMB"}
             /\ "STRAIGHT_FLUSH" \in types /\ Cardinality(Wilds(Once(cards), lvl)) <= 2
                   => taken.type = "STRAIGHT_FLUSH"
<1> SUFFICES ASSUME NEW cards \in SUBSET Card, NEW lvl \in 2..14,
                    IsFiniteSet(cards), Cardinality(cards) > 1, Readings(cards, lvl) # {}
             PROVE  LET taken == Analyze(Once(cards), lvl)
                        types == {p.type : p \in Readings(cards, lvl)}
                    IN  /\ IsValid(taken)
                        /\ types \cap {"BOMB", "JOKER_BOMB"} # {} => taken.type \in {"BOMB", "JOKER_BOMB"}
                        /\ "STRAIGHT_FLUSH" \in types /\ Cardinality(Wilds(Once(cards), lvl)) <= 2
                              => taken.type = "STRAIGHT_FLUSH"
  OBVIOUS
<1> DEFINE taken == Analyze(Once(cards), lvl)
           few == Cardinality(Wilds(Once(cards), lvl)) <= 2
<1>1. \A p \in Readings(cards, lvl) :
         /\ IsValid(taken)
         /\ p.type \in {"BOMB", "JOKER_BOMB"} => taken.type \in {"BOMB", "JOKER_BOMB"}
         /\ p.type = "STRAIGHT_FLUSH" /\ few => taken.type = "STRAIGHT_FLUSH"
  BY ReadingIsTaken
<1> HIDE DEF taken, few
<1> QED
  BY <1>1 DEF taken, few

\* What the two decks of four players hold.
TwoWildCards == \A lvl \in Levels : LET wilds == {c \in Card : IsWild(c, lvl)}
                                    IN  IsFiniteSet(wilds) /\ Cardinality(wilds) <= 2

\* With two wild cards in the deck no request is ever refused that has a reading, and
\* none is taken for less than it can be.
THEOREM NoRequestIsMissed ==
  ASSUME TwoWildCards
  PROVE  ReadingsSpec => []NoReadingMissed
<1> DEFINE Inv == RequestInv /\ level \in Levels
<1>1. ReadingsInit => Inv
  BY FS_EmptySet, ReadingsAssumption DEF ReadingsInit, RequestInv
<1>2. Inv /\ [ReadingsNext]_readingVars => Inv'
  <2>1. level \in Levels /\ [ReadingsNext]_readingVars => level' \in Levels
    BY DEF ReadingsNext, Take, Play, readingVars
  <2> QED
    BY <2>1, RequestInvNext
<1>3. Inv => NoReadingMissed
  <2> SUFFICES ASSUME Inv PROVE NoReadingMissed
    OBVIOUS
  <2> DEFINE wilds == {c \in Card : IsWild(c, level)}
             W == Wilds(Once(request), level)
  <2>1. IsFiniteSet(wilds) /\ Cardinality(wilds) <= 2
    BY TwoWildCards DEF TwoWildCards
  <2>2. W \in SUBSET wilds
    BY DEF Wilds, Once, RequestInv
  <2> HIDE DEF wilds, W
  <2>3. Cardinality(W) <= Cardinality(wilds) /\ Cardinality(W) \in Nat /\ Cardinality(wilds) \in Nat
    BY <2>1, <2>2, FS_Subset, FS_CardinalityType
  <2>4. Cardinality(W) <= 2
    BY <2>1, <2>3
  <2>5. Cardinality(request) > 1 /\ Readings(request, level) # {} =>
           LET types == {p.type : p \in Readings(request, level)}
           IN  /\ IsValid(Taken)
               /\ types \cap {"BOMB", "JOKER_BOMB"} # {} => Taken.type \in {"BOMB", "JOKER_BOMB"}
               /\ "STRAIGHT_FLUSH" \in types => Taken.type = "STRAIGHT_FLUSH"
    BY <2>4, AnalyzeMissesNothing DEF RequestInv, Taken, W
  <2> QED
    BY <2>5 DEF NoReadingMissed
<1> QED
  BY <1>1, <1>2, <1>3, PTL DEF ReadingsSpec
==============================================================================
