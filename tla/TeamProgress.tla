----------------------------- MODULE TeamProgress ----------------------------
(***************************************************************************)
(* The ladder the two teams climb over the rounds of a match: what a round  *)
(* is worth (settlement.cpp, finish_rank.cpp) and what it does to the       *)
(* levels (team_progress.cpp).                                              *)
(***************************************************************************)
EXTENDS TurnManager

CONSTANT PlayersPerTeam

ASSUME PlayersPerTeamAssumption ==
    PlayersPerTeam \in Nat \ {0, 1} /\ PlayerCount = 2 * PlayersPerTeam

LevelA == 14
PassAFailLimit == 3
NoTeam == -1

-----------------------------------------------------------------------------
(* From the order in which the players finished to the worth of the round.  *)
(* finishRank is 0 for a player who has not finished.                       *)

Finished(finishRank) == {s \in Seat : finishRank[s] > 0}

\* assignFinishRank: one more than the players who finished before.
FinishNext(finishRank, s) ==
    [finishRank EXCEPT ![s] = Cardinality(Finished(finishRank)) + 1]

TeamOut(finishRank) ==
    \E t \in Teams :
        Cardinality({s \in Finished(finishRank) : Team(s) = t}) >= PlayersPerTeam

\* assignRemainingFinishRanks: the others take the next ranks, going round from
\* the seat that finished last.
RankRemaining(finishRank) ==
    LET done == Finished(finishRank)
        count == Cardinality(done)
        last == CHOOSE s \in done : \A t \in done : finishRank[s] >= finishRank[t]
    IN  [s \in Seat |->
            IF s \in done THEN finishRank[s]
            ELSE finishRank[last] + 1
                 + Cardinality({t \in Seat \ done : Distance(last, t) < Distance(last, s)})]

SeatOfRank(ranks, r) == CHOOSE s \in Seat : ranks[s] = r

WinningTeam(ranks) == Team(SeatOfRank(ranks, 1))

\* Settlement::calculate: the ranks of the winners' two best players are taken
\* from a base.
UpgradeBase == IF PlayersPerTeam >= 3 THEN 10 ELSE 6

\* Mutant: the best player of the winners is counted twice.
LevelUpgradeOfFirst(ranks) == UpgradeBase - 2

LevelUpgrade(ranks) ==
    LET first == SeatOfRank(ranks, 1)
        mates == {s \in Seat \ {first} : Team(s) = Team(first)}
        second == CHOOSE s \in mates : \A t \in mates : ranks[s] <= ranks[t]
    IN  UpgradeBase - (ranks[first] + ranks[second])

-----------------------------------------------------------------------------
(* TeamProgress, a record kept for the whole life of the room.              *)

Progress ==
    [levels : [Teams -> 2..LevelA],
     inPassA : [Teams -> BOOLEAN],
     fails : [Teams -> 0..(PassAFailLimit - 1)],
     attacking : Teams,
     lastWinner : Teams \cup {NoTeam}]

InitialProgress ==
    [levels |-> [t \in Teams |-> 2],
     inPassA |-> [t \in Teams |-> FALSE],
     fails |-> [t \in Teams |-> 0],
     attacking |-> 0,
     lastWinner |-> NoTeam]

RoundLevel(p) == p.levels[p.attacking]
IsPassARound(p) == p.inPassA[p.attacking] /\ p.levels[p.attacking] >= LevelA

PrepareNextRound(p) ==
    IF p.lastWinner # NoTeam THEN [p EXCEPT !.attacking = p.lastWinner] ELSE p

\* Mutant of WinsMatch: a win at any level.
WinsAnyRound(p, winner, upgrade) == winner = p.attacking /\ upgrade > 0

\* The attackers, at level A, must win the round to win the match.
WinsMatch(p, winner, upgrade) ==
    IsPassARound(p) /\ winner = p.attacking /\ upgrade > 0

\* Mutants of FailPassA: the fourth failure counts, the phase is not left.
FailPassALate(p) ==
    LET team == p.attacking
    IN  IF p.fails[team] + 1 > PassAFailLimit
        THEN [p EXCEPT !.levels[team] = 2, !.inPassA[team] = FALSE, !.fails[team] = 0]
        ELSE [p EXCEPT !.fails[team] = @ + 1]
FailPassAStays(p) ==
    LET team == p.attacking
    IN  IF p.fails[team] + 1 >= PassAFailLimit
        THEN [p EXCEPT !.levels[team] = 2, !.fails[team] = 0]
        ELSE [p EXCEPT !.fails[team] = @ + 1]

\* A lost attempt at level A counts; the third one sends the team back to two.
FailPassA(p) ==
    LET team == p.attacking
    IN  IF p.fails[team] + 1 >= PassAFailLimit
        THEN [p EXCEPT !.levels[team] = 2, !.inPassA[team] = FALSE, !.fails[team] = 0]
        ELSE [p EXCEPT !.fails[team] = @ + 1]

Climb(p, winner, upgrade) ==
    LET upgraded == p.levels[winner] + upgrade
    IN  IF upgraded >= LevelA
        THEN [p EXCEPT !.levels[winner] = LevelA, !.inPassA[winner] = TRUE]
        ELSE [p EXCEPT !.levels[winner] = upgraded]

\* Mutant: the attack does not change hands.
SettlementKeepsAttack(p, winner, upgrade) ==
    IF IsPassARound(p)
    THEN [FailPassA(p) EXCEPT !.lastWinner = winner]
    ELSE [Climb(p, winner, upgrade) EXCEPT !.lastWinner = winner]

ApplySettlement(p, winner, upgrade) ==
    LET settled == IF IsPassARound(p)
                   THEN IF WinsMatch(p, winner, upgrade) THEN p ELSE FailPassA(p)
                   ELSE IF upgrade > 0 THEN Climb(p, winner, upgrade) ELSE p
    IN  [settled EXCEPT !.lastWinner = winner, !.attacking = winner]
==============================================================================
