-------------------------------- MODULE Match --------------------------------
(***************************************************************************)
(* What the game engine promises about a match, round by round: rounds are  *)
(* started and settled in turn, and only the settlement moves the ladder.   *)
(* How a round is dealt, traded and played is GameEngine's business, which  *)
(* implements this specification.                                          *)
(***************************************************************************)
EXTENDS TeamProgress

VARIABLES
    progress,    \* GameEngine::progress_
    inRound,     \* a round has been dealt and is not settled
    matchWon     \* what the last settlement said

vars == <<progress, inRound, matchWon>>

\* The winners' best two ranks are 1 and one of 2 .. PlayersPerTeam + 2, the
\* second being the latest when all the losers but none of the winners finish
\* before it.
Upgrades == (UpgradeBase - PlayersPerTeam - 3) .. (UpgradeBase - 3)

Init ==
    /\ progress = InitialProgress
    /\ inRound = FALSE
    /\ matchWon = FALSE

\* The first deal of a game and the deals that follow.
StartRound ==
    /\ ~inRound
    /\ inRound' = TRUE
    /\ matchWon' = FALSE
    /\ progress' = PrepareNextRound(progress)

\* The owner may start the game again in the middle of a round, which is then
\* never settled.
AbandonRound ==
    /\ inRound
    /\ progress' = PrepareNextRound(progress)
    /\ UNCHANGED <<inRound, matchWon>>

SettleRound(winner, upgrade) ==
    /\ inRound
    /\ inRound' = FALSE
    /\ matchWon' = WinsMatch(progress, winner, upgrade)
    /\ progress' = ApplySettlement(progress, winner, upgrade)

Next ==
    \/ StartRound
    \/ AbandonRound
    \/ \E winner \in Teams, upgrade \in Upgrades : SettleRound(winner, upgrade)

Spec == Init /\ [][Next]_vars

-----------------------------------------------------------------------------
(* Properties *)

TypeOK ==
    /\ progress \in Progress
    /\ inRound \in BOOLEAN
    /\ matchWon \in BOOLEAN

\* The flag of the pass-A phase, which the engine keeps apart from the level,
\* agrees with it, and failed attempts, fewer than three, are only remembered at
\* level A.
Consistent(p) ==
    \A t \in Teams :
        /\ p.inPassA[t] <=> p.levels[t] = LevelA
        /\ p.fails[t] > 0 => p.inPassA[t]

LadderConsistent == TypeOK /\ Consistent(progress)

\* The team that won the last round attacks, and plays its own level.
WinnerAttacks ==
    progress.lastWinner # NoTeam => progress.attacking = progress.lastWinner

\* A won match was won at level A, by the team that is now on the attack.
MatchWonAtLevelA ==
    matchWon => /\ progress.lastWinner # NoTeam
                /\ progress.levels[progress.lastWinner] = LevelA
                /\ progress.inPassA[progress.lastWinner]

\* A team only ever loses levels by losing a round it played at level A, for
\* the third time, and then it goes back to two with a clean record.
ThirdFailure(t) ==
    /\ progress.attacking = t
    /\ progress'.lastWinner # t
    /\ progress.fails[t] = PassAFailLimit - 1
    /\ progress'.levels[t] = 2
    /\ progress'.fails[t] = 0

Falls == \A t \in Teams : progress'.levels[t] < progress.levels[t] => ThirdFailure(t)

FallsOnlyOnThirdFailure == [][Falls]_vars

\* The match is won by a team that was at level A before the round was dealt: a
\* climb onto level A never wins by itself, whatever the round was worth.
Wins ==
    matchWon' /\ ~matchWon =>
        /\ progress.levels[progress'.lastWinner] = LevelA
        /\ progress'.levels = progress.levels

NoWinOnArrival == [][Wins]_vars

\* What a settled round may do to the ladder: both of these.
LadderMoves == FallsOnlyOnThirdFailure /\ NoWinOnArrival
==============================================================================
