---------------------------- MODULE Match_proofs -----------------------------
(***************************************************************************)
(* The match keeps its ladder consistent, for every number of players.     *)
(***************************************************************************)
EXTENDS Match, TLAPS

\* Both teams start at the lowest level, outside the pass-A phase.
LEMMA InitialProgressOK == InitialProgress \in Progress /\ Consistent(InitialProgress)
<1>1. InitialProgress \in Progress
  BY DEF InitialProgress, Progress, Teams, NoTeam, LevelA, PassAFailLimit
<1>2. Consistent(InitialProgress)
  BY DEF InitialProgress, Consistent, Teams, LevelA
<1> QED
  BY <1>1, <1>2

\* Preparing the next round only moves the attack.
LEMMA PrepareOK ==
  ASSUME NEW p \in Progress, Consistent(p)
  PROVE  /\ PrepareNextRound(p) \in Progress
         /\ Consistent(PrepareNextRound(p))
         /\ PrepareNextRound(p).levels = p.levels
         /\ PrepareNextRound(p).inPassA = p.inPassA
         /\ PrepareNextRound(p).lastWinner = p.lastWinner
         /\ p.lastWinner # NoTeam => PrepareNextRound(p).attacking = p.lastWinner
  BY DEF PrepareNextRound, Progress, Consistent, Teams, NoTeam

\* A lost attempt at level A either is counted or takes the level, the phase and
\* the count away together.
LEMMA FailOK ==
  ASSUME NEW p \in Progress, Consistent(p), IsPassARound(p)
  PROVE  FailPassA(p) \in Progress /\ Consistent(FailPassA(p))
<1> DEFINE team == p.attacking
<1>1. team \in Teams /\ p.inPassA[team] /\ p.fails[team] \in 0..2
  BY DEF Progress, IsPassARound, PassAFailLimit
<1>2. CASE p.fails[team] + 1 >= PassAFailLimit
  <2> DEFINE q == FailPassA(p)
  <2>1. q = [levels |-> [p.levels EXCEPT ![team] = 2],
             inPassA |-> [p.inPassA EXCEPT ![team] = FALSE],
             fails |-> [p.fails EXCEPT ![team] = 0],
             attacking |-> p.attacking, lastWinner |-> p.lastWinner]
    BY <1>2 DEF FailPassA, Progress
  <2> HIDE DEF q
  <2>2. q \in Progress
    BY <1>1, <2>1 DEF Progress, LevelA, PassAFailLimit
  <2>3. Consistent(q)
    BY <1>1, <2>1 DEF Progress, Consistent, LevelA
  <2> QED
    BY <2>2, <2>3 DEF q
<1>3. CASE ~(p.fails[team] + 1 >= PassAFailLimit)
  BY <1>1, <1>3, SMTT(30) DEF FailPassA, Progress, Consistent, LevelA, PassAFailLimit
<1> QED
  BY <1>2, <1>3

\* A climb ends at level A at most, where the pass-A phase begins.
LEMMA ClimbOK ==
  ASSUME NEW p \in Progress, Consistent(p), NEW w \in Teams, NEW u \in Int, u > 0
  PROVE  Climb(p, w, u) \in Progress /\ Consistent(Climb(p, w, u))
<1>1. p.levels[w] \in 2..LevelA
  BY DEF Progress
<1>2. CASE p.levels[w] + u >= LevelA
  <2> DEFINE q == Climb(p, w, u)
  <2>1. q = [levels |-> [p.levels EXCEPT ![w] = LevelA],
             inPassA |-> [p.inPassA EXCEPT ![w] = TRUE],
             fails |-> p.fails, attacking |-> p.attacking, lastWinner |-> p.lastWinner]
    BY <1>2 DEF Climb, Progress
  <2> HIDE DEF q
  <2>2. q \in Progress
    BY <1>1, <2>1 DEF Progress, LevelA
  <2>3. Consistent(q)
    BY <1>1, <2>1 DEF Progress, Consistent, LevelA
  <2> QED
    BY <2>2, <2>3 DEF q
<1>3. CASE ~(p.levels[w] + u >= LevelA)
  BY <1>1, <1>3 DEF Climb, Progress, Consistent, LevelA
<1> QED
  BY <1>2, <1>3

\* Whatever the outcome of a round, settling it keeps the ladder consistent and
\* puts the winner on the attack.
LEMMA SettlementOK ==
  ASSUME NEW p \in Progress, Consistent(p), NEW w \in Teams, NEW u \in Int
  PROVE  /\ ApplySettlement(p, w, u) \in Progress
         /\ Consistent(ApplySettlement(p, w, u))
         /\ ApplySettlement(p, w, u).lastWinner = w
         /\ ApplySettlement(p, w, u).attacking = w
<1> DEFINE settled == IF IsPassARound(p)
                      THEN IF WinsMatch(p, w, u) THEN p ELSE FailPassA(p)
                      ELSE IF u > 0 THEN Climb(p, w, u) ELSE p
           q == ApplySettlement(p, w, u)
<1>1. settled \in Progress /\ Consistent(settled)
  BY FailOK, ClimbOK
<1>2. q = [settled EXCEPT !.lastWinner = w, !.attacking = w]
  BY DEF ApplySettlement
<1> HIDE DEF settled, q
<1>3. /\ q \in Progress
      /\ q.levels = settled.levels /\ q.inPassA = settled.inPassA /\ q.fails = settled.fails
      /\ q.lastWinner = w /\ q.attacking = w
  BY <1>1, <1>2 DEF Progress
<1>4. Consistent(q)
  BY <1>1, <1>3 DEF Consistent
<1> QED
  BY <1>3, <1>4 DEF q

\* A match is only won at level A, by the team on the attack.
LEMMA WinOK ==
  ASSUME NEW p \in Progress, Consistent(p), NEW w \in Teams, NEW u \in Int, WinsMatch(p, w, u)
  PROVE  /\ p.levels[w] = LevelA /\ p.inPassA[w]
         /\ ApplySettlement(p, w, u).levels = p.levels
         /\ ApplySettlement(p, w, u).inPassA = p.inPassA
<1>1. p.levels[w] = LevelA /\ p.inPassA[w]
  BY DEF WinsMatch, IsPassARound, Consistent
<1>2. ApplySettlement(p, w, u) = [p EXCEPT !.lastWinner = w, !.attacking = w]
  BY DEF ApplySettlement, WinsMatch
<1> QED
  BY <1>1, <1>2 DEF Progress

-----------------------------------------------------------------------------
\* The invariants of the run are inductive together: a level is at A exactly in
\* the pass-A phase, so a settlement that leaves the one leaves the other.
MatchInv == TypeOK /\ LadderConsistent /\ WinnerAttacks /\ MatchWonAtLevelA

\* What a round is worth is a number.
LEMMA UpgradesInt == Upgrades \subseteq Int
  BY PlayersPerTeamAssumption DEF Upgrades, UpgradeBase

\* With seven players or more in a team a round may be worth nothing.
LEMMA UpgradesPositive ==
  ASSUME PlayersPerTeam <= 6, NEW u \in Upgrades
  PROVE  u > 0
  BY PlayersPerTeamAssumption DEF Upgrades, UpgradeBase

\* The match begins consistently.
LEMMA MatchInvInit == Init => MatchInv
<1> SUFFICES ASSUME Init
             PROVE  MatchInv
  OBVIOUS
<1>1. progress = InitialProgress /\ inRound = FALSE /\ matchWon = FALSE
  BY DEF Init
<1>2. TypeOK /\ LadderConsistent
  BY <1>1, InitialProgressOK DEF TypeOK, LadderConsistent
<1>3. progress.lastWinner = NoTeam
  BY <1>1 DEF InitialProgress
<1>4. WinnerAttacks /\ MatchWonAtLevelA
  BY <1>1, <1>3 DEF WinnerAttacks, MatchWonAtLevelA
<1> QED
  BY <1>2, <1>4 DEF MatchInv

\* Starting, settling or abandoning a round keeps it so.
LEMMA MatchInvNext == MatchInv /\ [Next]_vars => MatchInv'
<1> SUFFICES ASSUME MatchInv, [Next]_vars
             PROVE  MatchInv'
  OBVIOUS
<1> USE DEF MatchInv, TypeOK, LadderConsistent
<1>1. CASE StartRound
  BY <1>1, PrepareOK DEF StartRound, WinnerAttacks, MatchWonAtLevelA
<1>2. CASE AbandonRound
  BY <1>2, PrepareOK DEF AbandonRound, WinnerAttacks, MatchWonAtLevelA
<1>3. ASSUME NEW w \in Teams, NEW u \in Upgrades, SettleRound(w, u)
      PROVE  MatchInv'
  <2>1. u \in Int
    BY UpgradesInt
  <2>2. /\ progress' \in Progress /\ Consistent(progress')
        /\ progress'.lastWinner = w /\ progress'.attacking = w
    BY <1>3, <2>1, SettlementOK DEF SettleRound
  <2>3. inRound' \in BOOLEAN /\ matchWon' \in BOOLEAN
    BY <1>3 DEF SettleRound, WinsMatch
  <2>4. MatchWonAtLevelA'
    <3> SUFFICES ASSUME matchWon'
                 PROVE  /\ w # NoTeam
                        /\ progress'.levels[w] = LevelA
                        /\ progress'.inPassA[w]
      BY <2>2 DEF MatchWonAtLevelA
    <3>1. WinsMatch(progress, w, u)
      BY <1>3 DEF SettleRound
    <3> QED
      BY <1>3, <2>1, <3>1, WinOK DEF SettleRound, Teams, NoTeam
  <2> QED
    BY <2>2, <2>3, <2>4 DEF WinnerAttacks
<1>4. CASE UNCHANGED vars
  BY <1>4 DEF vars, WinnerAttacks, MatchWonAtLevelA
<1> QED
  BY <1>1, <1>2, <1>3, <1>4 DEF Next

\* The types of the ladder, for any number of players and any outcomes.
THEOREM MatchTypeCorrect == Spec => []TypeOK
<1>1. MatchInv => TypeOK
  BY DEF MatchInv
<1> QED
  BY MatchInvInit, MatchInvNext, <1>1, PTL DEF Spec

\* The flag of the pass-A phase agrees with the level, failures with the flag.
THEOREM MatchLadderConsistent == Spec => []LadderConsistent
<1>1. MatchInv => LadderConsistent
  BY DEF MatchInv
<1> QED
  BY MatchInvInit, MatchInvNext, <1>1, PTL DEF Spec

\* The last winner attacks.
THEOREM MatchWinnerAttacks == Spec => []WinnerAttacks
<1>1. MatchInv => WinnerAttacks
  BY DEF MatchInv
<1> QED
  BY MatchInvInit, MatchInvNext, <1>1, PTL DEF Spec

\* A match that is won was won at level A.
THEOREM MatchWonAtA == Spec => []MatchWonAtLevelA
<1>1. MatchInv => MatchWonAtLevelA
  BY DEF MatchInv
<1> QED
  BY MatchInvInit, MatchInvNext, <1>1, PTL DEF Spec

-----------------------------------------------------------------------------
\* Only a third failure takes levels away.
LEMMA SettlementFalls ==
  ASSUME NEW p \in Progress, Consistent(p), NEW w \in Teams, NEW u \in Int, NEW t \in Teams,
         ApplySettlement(p, w, u).levels[t] < p.levels[t], ~WinsMatch(p, w, u)
  PROVE  /\ IsPassARound(p) /\ p.attacking = t
         /\ p.fails[t] = PassAFailLimit - 1
         /\ ApplySettlement(p, w, u).levels[t] = 2
         /\ ApplySettlement(p, w, u).fails[t] = 0
<1> DEFINE q == ApplySettlement(p, w, u)
<1>1. p.levels[t] \in 2..LevelA /\ p.levels[w] \in 2..LevelA /\ p.attacking \in Teams
  BY DEF Progress
<1>2. CASE ~IsPassARound(p) /\ u <= 0
  BY <1>1, <1>2 DEF ApplySettlement, Progress, LevelA
<1>3. CASE ~IsPassARound(p) /\ u > 0
  <2>1. q.levels = Climb(p, w, u).levels
    BY <1>3, ClimbOK DEF ApplySettlement, Progress
  <2>2. \/ Climb(p, w, u).levels = [p.levels EXCEPT ![w] = LevelA]
        \/ Climb(p, w, u).levels = [p.levels EXCEPT ![w] = p.levels[w] + u]
    BY DEF Climb, Progress
  <2>3. p.levels \in [Teams -> 2..LevelA]
    BY DEF Progress
  <2> DEFINE l == Climb(p, w, u).levels
  <2>4. q.levels[t] = l[t]
    BY <2>1
  <2> HIDE DEF l, q
  <2>5. l[t] \in Int /\ l[t] >= p.levels[t]
    BY <1>1, <1>3, <2>2, <2>3 DEF LevelA, l
  <2>6. q.levels[t] < p.levels[t]
    BY DEF q
  <2> QED
    BY <1>1, <2>4, <2>5, <2>6 DEF LevelA
<1>4. CASE IsPassARound(p)
  <2> DEFINE team == p.attacking
             f == FailPassA(p)
  <2>1. q = [f EXCEPT !.lastWinner = w, !.attacking = w]
    BY <1>4 DEF ApplySettlement
  <2>2. f \in Progress
    BY <1>4, FailOK
  <2>3. q.levels = f.levels /\ q.fails = f.fails
    BY <2>1, <2>2 DEF Progress
  <2>4. p.fails[team] \in 0..2
    BY <1>1 DEF Progress, PassAFailLimit
  <2>5. CASE p.fails[team] + 1 >= PassAFailLimit
    <3>1. f.levels = [p.levels EXCEPT ![team] = 2] /\ f.fails = [p.fails EXCEPT ![team] = 0]
      BY <2>5 DEF FailPassA, Progress
    <3>2. team = t
      BY <1>1, <2>3, <3>1 DEF Progress, LevelA
    <3> QED
      BY <1>1, <1>4, <2>3, <2>4, <2>5, <3>1, <3>2 DEF Progress, PassAFailLimit
  <2>6. CASE ~(p.fails[team] + 1 >= PassAFailLimit)
    <3>1. f.levels = p.levels
      BY <2>6 DEF FailPassA, Progress
    <3> QED
      BY <1>1, <2>3, <3>1 DEF LevelA
  <2> QED
    BY <2>5, <2>6
<1> QED
  BY <1>2, <1>3, <1>4

\* A level falls by a third failure only.
LEMMA FallsStep == PlayersPerTeam <= 6 /\ MatchInv /\ [Next]_vars => [Falls]_vars
<1> SUFFICES ASSUME PlayersPerTeam <= 6, MatchInv, Next, NEW t \in Teams,
                    progress'.levels[t] < progress.levels[t]
             PROVE  ThirdFailure(t)
  BY DEF Falls
<1> USE DEF MatchInv, TypeOK, LadderConsistent
<1>0. progress.levels[t] \in 2..LevelA
  BY DEF Progress
<1>1. CASE StartRound \/ AbandonRound
  BY <1>0, <1>1, PrepareOK DEF StartRound, AbandonRound, LevelA
<1>2. ASSUME NEW w \in Teams, NEW u \in Upgrades, SettleRound(w, u)
      PROVE  ThirdFailure(t)
  <2>1. u \in Int
    BY UpgradesInt
  <2>2. progress' = ApplySettlement(progress, w, u)
    BY <1>2 DEF SettleRound
  <2>3. ~WinsMatch(progress, w, u)
    BY <1>0, <2>1, <2>2, WinOK DEF LevelA
  <2>4. /\ IsPassARound(progress) /\ progress.attacking = t
        /\ progress.fails[t] = PassAFailLimit - 1
        /\ progress'.levels[t] = 2 /\ progress'.fails[t] = 0
    BY <2>1, <2>2, <2>3, SettlementFalls
  <2>5. progress'.lastWinner = w
    BY <2>1, <2>2, SettlementOK
  <2>6. w # t
    <3> SUFFICES ASSUME w = t
                 PROVE  FALSE
      OBVIOUS
    <3>1. u <= 0
      BY <2>1, <2>3, <2>4 DEF WinsMatch
    <3> QED
      BY <2>1, <3>1, UpgradesPositive
  <2> QED
    BY <2>4, <2>5, <2>6 DEF ThirdFailure
<1> QED
  BY <1>1, <1>2 DEF Next

\* In rooms of up to six players a team, levels are lost only by the third failed
\* attempt at level A (TeamProgress::applySettlement).
THEOREM LevelsFallRarely == PlayersPerTeam <= 6 => (Spec => FallsOnlyOnThirdFailure)
<1> SUFFICES ASSUME PlayersPerTeam <= 6
             PROVE  Spec => FallsOnlyOnThirdFailure
  OBVIOUS
<1>1. MatchInv /\ [Next]_vars => [Falls]_vars
  BY FallsStep
<1> QED
  BY MatchInvInit, MatchInvNext, <1>1, PTL DEF Spec, FallsOnlyOnThirdFailure

\* Reaching level A wins nothing.
LEMMA WinsStep == MatchInv /\ [Next]_vars => [Wins]_vars
<1> SUFFICES ASSUME MatchInv, Next, matchWon', ~matchWon
             PROVE  /\ progress.levels[progress'.lastWinner] = LevelA
                    /\ progress'.levels = progress.levels
  BY DEF Wins
<1>1. PICK w \in Teams, u \in Upgrades : SettleRound(w, u)
  BY DEF Next, StartRound, AbandonRound
<1>2. WinsMatch(progress, w, u) /\ progress' = ApplySettlement(progress, w, u)
  BY <1>1 DEF SettleRound
<1>3. progress \in Progress /\ Consistent(progress) /\ u \in Int
  BY UpgradesInt DEF MatchInv, TypeOK, LadderConsistent
<1> QED
  BY <1>2, <1>3, WinOK, SettlementOK

\* The match is won from level A, never on the round that reaches it.
THEOREM WonFromLevelA == Spec => NoWinOnArrival
<1>1. MatchInv /\ [Next]_vars => [Wins]_vars
  BY WinsStep
<1> QED
  BY MatchInvInit, MatchInvNext, <1>1, PTL DEF Spec, NoWinOnArrival

\* Both, in rooms of up to six players a team: levels are lost and matches won in
\* no other way (TeamProgress::applySettlement).
THEOREM LadderMovesRight == PlayersPerTeam <= 6 => (Spec => LadderMoves)
  BY LevelsFallRarely, WonFromLevelA DEF LadderMoves
==============================================================================
