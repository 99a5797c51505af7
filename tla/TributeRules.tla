----------------------------- MODULE TributeRules ----------------------------
(***************************************************************************)
(* Who pays tribute to whom, with which card, and who plays first after it  *)
(* (tribute.cpp).  The ranks of the round before decide who pays; the hands *)
(* just dealt decide with what.                                            *)
(***************************************************************************)
EXTENDS CardRules, TeamProgress

\* The tribute code uses id 0 for "no card", although the two of spades of the
\* first deck has it.
NoCard == 0

-----------------------------------------------------------------------------
(* planRound *)

HeadSeat(ranks) == SeatOfRank(ranks, 1)

\* One team took the first PlayersPerTeam ranks.
AllDown(ranks) ==
    \A r \in 1..PlayersPerTeam : Team(SeatOfRank(ranks, r)) = Team(HeadSeat(ranks))

Tributers(ranks) ==
    IF AllDown(ranks) THEN {s \in Seat : ranks[s] > PlayersPerTeam}
    ELSE {SeatOfRank(ranks, PlayerCount)}

\* Anti-tribute: the payers hold a big joker of every deck between them.  (One
\* deck per player of a team: the code's separate conditions for four and for
\* six players come to this.)
AntiTribute(ranks, hands) ==
    LET held == UNION {hands[s] : s \in Tributers(ranks)}
    IN  Cardinality({c \in held : Face[c].rank = BigJoker}) >= PlayersPerTeam

\* The cards that may be the highest one to give: level cards count for their
\* own rank here, the wild card is never given.  Which of several the code
\* insists on depends on the order of the hand.
HighestCards(cards, level) ==
    LET giveable == {c \in cards : ~IsWild(c, level)}
    IN  {c \in giveable : \A o \in giveable : Face[c].rank >= Face[o].rank}

\* requiredTributeCard, one outcome for each order the hands can have.
RequiredCards(ranks, hands, level) ==
    {f \in [Tributers(ranks) -> Card \cup {NoCard}] :
        \A s \in Tributers(ranks) :
            f[s] \in (IF HighestCards(hands[s], level) = {} THEN {NoCard}
                      ELSE HighestCards(hands[s], level))}

-----------------------------------------------------------------------------
(* assignTributes *)

\* Mutant of PaysBefore: the lower card goes first.
LowerPaysBefore(required, head, s, t) ==
    LET rank(seat) == Face[required[seat]].rank
    IN  \/ rank(s) < rank(t)
        \/ rank(s) = rank(t) /\ Distance(head, s) < Distance(head, t)

\* compareTributeCards: the higher card first, then the seat nearer to the head.
PaysBefore(required, head, s, t) ==
    LET rank(seat) == Face[required[seat]].rank
    IN  \/ rank(s) > rank(t)
        \/ rank(s) = rank(t) /\ Distance(head, s) < Distance(head, t)

\* The best tribute goes to the head, the next one to the second player, ...
AssignTributes(ranks, required) ==
    LET payers == DOMAIN required
        position(s) == 1 + Cardinality(
                           {t \in payers : PaysBefore(required, HeadSeat(ranks), t, s)})
    IN  {[from |-> s, to |-> SeatOfRank(ranks, position(s)), card |-> required[s]] :
             s \in payers}

\* Mutant of Transfer: the cards stay where they were, too.
TransferCopies(hands, moves) ==
    [s \in Seat |-> hands[s] \cup {m.card : m \in {m \in moves : m.to = s}}]

\* transferCard, for several cards that each leave a different hand.
Transfer(hands, moves) ==
    [s \in Seat |->
        (hands[s] \ {m.card : m \in {m \in moves : m.from = s}})
            \cup {m.card : m \in {m \in moves : m.to = s}}]

\* computeFirstPlayerSeat: who paid the single highest tribute, or else the last
\* of the round before.
FirstPlayer(ranks, tributes) ==
    LET best == {m \in tributes : \A o \in tributes : Face[m.card].rank >= Face[o.card].rank}
    IN  IF Cardinality(best) = 1 THEN (CHOOSE m \in best : TRUE).from
        ELSE SeatOfRank(ranks, PlayerCount)

-----------------------------------------------------------------------------
(* Returning a card *)

IsReturnCard(c, level) ==
    ~IsLevelCard(c, level) /\ ~IsJoker(c) /\ Face[c].rank <= 10

SmallestCards(cards, level) ==
    {c \in cards : \A o \in cards : SingleRank(c, level) <= SingleRank(o, level)}

\* Mutant of ReturnCards: no card in place of a missing low one.
LowReturnCards(cards, level) == {c \in cards : IsReturnCard(c, level)} \ {NoCard}

\* validReturnCardIds, and what isValidReturnSubmission accepts of them.
ReturnCards(cards, level) ==
    LET primary == {c \in cards : IsReturnCard(c, level)}
    IN  (IF primary # {} THEN primary ELSE SmallestCards(cards, level)) \ {NoCard}

\* pickReturnCard: a lowest card it may return, or else a smallest card of the
\* hand; NoCard stands for the bot finding none.
BotReturnCards(cards, level) ==
    LET primary == {c \in cards : IsReturnCard(c, level)}
        lowest == {c \in primary : \A o \in primary : Face[c].rank <= Face[o].rank}
    IN  IF lowest # {} THEN lowest ELSE SmallestCards(cards, level)
==============================================================================
