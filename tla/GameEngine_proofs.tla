-------------------------- MODULE GameEngine_proofs --------------------------
(***************************************************************************)
(* Proofs about GameEngine, for every deck, every choice of deals and every *)
(* number of players per team.                                             *)
(***************************************************************************)
EXTENDS GameEngine, FiniteSetTheorems, TLAPS

-----------------------------------------------------------------------------
(* Positions in an order, least numbers *)

\* The members of a finite set that an order puts before each one count up from
\* nothing, one by one.
LEMMA PositionsCount ==
  ASSUME NEW S, IsFiniteSet(S),
         NEW before \in [S -> SUBSET S],
         \A x \in S : x \notin before[x],
         \A x, y \in S : y \in before[x] => before[y] \subseteq before[x],
         \A x, y \in S : x # y => x \in before[y] \/ y \in before[x]
  PROVE  /\ \A x \in S : IsFiniteSet(before[x]) /\ Cardinality(before[x]) \in 0..(Cardinality(S) - 1)
         /\ \A x, y \in S : y \in before[x] => Cardinality(before[y]) < Cardinality(before[x])
         /\ \A x, y \in S : Cardinality(before[x]) = Cardinality(before[y]) => x = y
         /\ \A k \in 0..(Cardinality(S) - 1) : \E x \in S : Cardinality(before[x]) = k
<1>1. Cardinality(S) \in Nat
  BY FS_CardinalityType
<1>2. ASSUME NEW x \in S
      PROVE  IsFiniteSet(before[x]) /\ Cardinality(before[x]) \in 0..(Cardinality(S) - 1)
  <2>1. IsFiniteSet(S \ {x}) /\ Cardinality(S \ {x}) = Cardinality(S) - 1
    BY FS_RemoveElement
  <2>2. before[x] \in SUBSET (S \ {x})
    OBVIOUS
  <2>3. IsFiniteSet(before[x]) /\ Cardinality(before[x]) <= Cardinality(S) - 1
    BY <2>1, <2>2, FS_Subset
  <2> QED
    BY <1>1, <2>3, FS_CardinalityType
<1>3. ASSUME NEW x \in S, NEW y \in S, y \in before[x]
      PROVE  Cardinality(before[y]) < Cardinality(before[x])
  <2>1. before[y] \in SUBSET before[x] /\ before[y] # before[x]
    BY <1>3
  <2>2. Cardinality(before[y]) <= Cardinality(before[x]) /\ Cardinality(before[x]) # Cardinality(before[y])
    BY <1>2, <2>1, FS_Subset
  <2> QED
    BY <1>2, <2>2
<1>4. ASSUME NEW x \in S, NEW y \in S, Cardinality(before[x]) = Cardinality(before[y])
      PROVE  x = y
  BY <1>2, <1>3, <1>4
<1>5. ASSUME NEW k \in 0..(Cardinality(S) - 1)
      PROVE  \E x \in S : Cardinality(before[x]) = k
  <2> DEFINE K == 0..(Cardinality(S) - 1)
             f == [x \in S |-> Cardinality(before[x])]
  <2>1. f \in Injection(S, K)
    <3>1. f \in [S -> K]
      BY <1>2
    <3>2. \A x, y \in S : f[x] = f[y] => x = y
      BY <1>4
    <3> QED
      BY <3>1, <3>2 DEF Injection, IsInjective
  <2>2. IsFiniteSet(K) /\ Cardinality(K) = Cardinality(S)
    BY <1>1, FS_Interval
  <2>3. f \in Surjection(S, K)
    BY <2>1, <2>2, FS_Injection
  <2>4. \E x \in S : f[x] = k
    BY <2>3 DEF Surjection
  <2> QED
    BY <2>4
<1> QED
  BY <1>2, <1>3, <1>4, <1>5

\* Every set of numbers that has one has a least one.
LEMMA LeastExists ==
  ASSUME NEW S \in SUBSET Nat, S # {}
  PROVE  \E m \in S : \A n \in S : m <= n
<1>1. PICK b \in S : TRUE
  OBVIOUS
<1> DEFINE F == {n \in S : n <= b}
           before == [x \in F |-> {y \in F : y < x}]
<1>2. IsFiniteSet(F)
  BY <1>1, FS_BoundedSetOfNaturals
<1>3. 0 \in 0..(Cardinality(F) - 1)
  BY <1>1, <1>2, FS_EmptySet, FS_CardinalityType
<1>4. before \in [F -> SUBSET F]
  OBVIOUS
<1>5. \A x, y \in F : x \in Nat /\ y \in Nat /\ (y \in before[x] <=> y < x)
  OBVIOUS
<1> HIDE DEF F, before
<1>6. \A x \in F : x \notin before[x]
  BY <1>5
<1>7. \A x, y \in F : y \in before[x] => before[y] \subseteq before[x]
  BY <1>4, <1>5
<1>8. \A x, y \in F : x # y => x \in before[y] \/ y \in before[x]
  BY <1>5
<1>9. PICK m \in F : IsFiniteSet(before[m]) /\ Cardinality(before[m]) = 0
  BY <1>2, <1>3, <1>4, <1>6, <1>7, <1>8, PositionsCount
<1>10. before[m] = {}
  BY <1>9, FS_EmptySet
<1>11. \A n \in F : m <= n
  BY <1>5, <1>10
<1> QED
  BY <1>1, <1>11 DEF F

-----------------------------------------------------------------------------
(* Seats *)

\* There are as many seats as players, an even number of them.
LEMMA SeatFacts ==
  /\ PlayerCount \in Nat \ {0} /\ PlayersPerTeam \in Nat \ {0, 1} /\ PlayerCount = 2 * PlayersPerTeam
  /\ IsFiniteSet(Seat) /\ Cardinality(Seat) = PlayerCount
  /\ NoSeat \notin Seat /\ 0 \in Seat
<1>1. PlayerCount \in Nat \ {0} /\ PlayersPerTeam \in Nat \ {0, 1} /\ PlayerCount = 2 * PlayersPerTeam
  BY PlayerCountAssumption, PlayersPerTeamAssumption
<1>2. IsFiniteSet(0..(PlayerCount - 1)) /\ Cardinality(0..(PlayerCount - 1)) = (PlayerCount - 1) - 0 + 1
  BY <1>1, FS_Interval
<1> QED
  BY <1>1, <1>2 DEF Seat, NoSeat

\* Every seat has its own distance from a seat, the seat itself the largest.
LEMMA DistanceFacts ==
  /\ \A s, t \in Seat : Distance(s, t) \in 1..PlayerCount
  /\ \A s, t, u \in Seat : Distance(s, t) = Distance(s, u) => t = u
  /\ \A s, t \in Seat : Distance(s, t) = PlayerCount <=> s = t
  BY SeatFacts DEF Seat, Distance

\* There is a nearest seat of any seats.
LEMMA NearestIs ==
  ASSUME NEW s \in Seat, NEW A \in SUBSET Seat, A # {}
  PROVE  /\ Nearest(s, A) \in A
         /\ \A u \in A : Distance(s, Nearest(s, A)) <= Distance(s, u)
<1> DEFINE D == {Distance(s, t) : t \in A}
<1>1. D \in SUBSET Nat /\ D # {}
  BY DistanceFacts, SeatFacts
<1>2. PICK m \in D : \A n \in D : m <= n
  BY <1>1, LeastExists
<1>3. \E t \in A : \A u \in A : Distance(s, t) <= Distance(s, u)
  BY <1>2
<1> QED
  BY <1>3 DEF Nearest

\* A team has half of the players.
LEMMA TeamSize ==
  ASSUME NEW t \in Teams
  PROVE  /\ IsFiniteSet({s \in Seat : Team(s) = t})
         /\ Cardinality({s \in Seat : Team(s) = t}) = PlayersPerTeam
<1> DEFINE S == {s \in Seat : Team(s) = t}
           f == [i \in 1..PlayersPerTeam |-> 2 * (i - 1) + t]
<1>1. PlayersPerTeam \in Nat /\ PlayerCount = 2 * PlayersPerTeam /\ t \in {0, 1}
  BY SeatFacts DEF Teams
<1>2. ASSUME NEW i \in 1..PlayersPerTeam PROVE f[i] \in S
  <2>1. f[i] \in Seat
    BY <1>1 DEF Seat
  <2>2. (2 * (i - 1) + t) % 2 = t
    BY <1>1
  <2> QED
    BY <2>1, <2>2 DEF Team
<1>3. \A i, j \in 1..PlayersPerTeam : f[i] = f[j] => i = j
  BY <1>1
<1>4. ASSUME NEW s \in S PROVE \E i \in 1..PlayersPerTeam : f[i] = s
  <2>1. s \in Int /\ 0 <= s /\ s < 2 * PlayersPerTeam /\ s % 2 = t
    BY <1>1 DEF Seat, Team
  <2> DEFINE i == (s - t) \div 2 + 1
  <2>2. i \in 1..PlayersPerTeam /\ 2 * (i - 1) + t = s
    BY <1>1, <2>1
  <2> QED
    BY <2>2
<1>5. f \in Bijection(1..PlayersPerTeam, S)
  <2>1. f \in [1..PlayersPerTeam -> S]
    BY <1>2
  <2> QED
    BY <1>3, <1>4, <2>1 DEF Bijection, Injection, IsInjective, Surjection
<1>6. ExistsBijection(1..PlayersPerTeam, S)
  BY <1>5 DEF ExistsBijection
<1>7. IsFiniteSet(S)
  BY SeatFacts, FS_Subset
<1> QED
  BY <1>1, <1>6, <1>7, FS_CountingElements

-----------------------------------------------------------------------------
(* Places *)

\* The places given so far are the first ones, each to one player.
Placed(ranks) ==
    /\ ranks \in [Seat -> 0..PlayerCount]
    /\ \A s \in Finished(ranks) : ranks[s] <= Cardinality(Finished(ranks))
    /\ \A s, t \in Finished(ranks) : ranks[s] = ranks[t] => s = t

IsRanking(ranks) ==
    /\ ranks \in [Seat -> 1..PlayerCount]
    /\ \A s, t \in Seat : ranks[s] = ranks[t] => s = t

\* No more players than there are have finished.
LEMMA FinishedFinite ==
  ASSUME NEW ranks
  PROVE  IsFiniteSet(Finished(ranks)) /\ Cardinality(Finished(ranks)) \in 0..PlayerCount
<1>1. Finished(ranks) \in SUBSET Seat
  BY DEF Finished
<1> QED
  BY <1>1, SeatFacts, FS_Subset, FS_CardinalityType

\* The places that are given are the first ones.
LEMMA PlacesInOrder ==
  ASSUME NEW ranks, Placed(ranks)
  PROVE  {ranks[s] : s \in Finished(ranks)} = 1..Cardinality(Finished(ranks))
<1> DEFINE done == Finished(ranks)
           n == Cardinality(done)
           f == [s \in done |-> ranks[s]]
<1>1. n \in Nat /\ IsFiniteSet(done)
  BY FinishedFinite
<1>2. \A s \in done : ranks[s] \in 1..n
  BY <1>1 DEF Placed, Finished
<1>3. f \in Injection(done, 1..n)
  BY <1>2 DEF Placed, Injection, IsInjective
<1>4. IsFiniteSet(1..n) /\ Cardinality(1..n) = n
  BY <1>1, FS_Interval
<1>5. f \in Surjection(done, 1..n)
  BY <1>3, <1>4, FS_Injection
<1>6. \A k \in 1..n : \E s \in done : ranks[s] = k
  BY <1>5 DEF Surjection
<1> QED
  BY <1>2, <1>6

\* In a ranking every place has its player and every player a place.
LEMMA SeatOfRankIs ==
  ASSUME NEW ranks, IsRanking(ranks)
  PROVE  /\ \A r \in 1..PlayerCount : SeatOfRank(ranks, r) \in Seat /\ ranks[SeatOfRank(ranks, r)] = r
         /\ \A s \in Seat : SeatOfRank(ranks, ranks[s]) = s
<1>1. IsFiniteSet(1..PlayerCount) /\ Cardinality(1..PlayerCount) = PlayerCount
  BY SeatFacts, FS_Interval
<1>2. ranks \in Injection(Seat, 1..PlayerCount)
  BY DEF IsRanking, Injection, IsInjective
<1>3. ranks \in Surjection(Seat, 1..PlayerCount)
  BY <1>1, <1>2, SeatFacts, FS_Injection
<1>4. \A r \in 1..PlayerCount : \E s \in Seat : ranks[s] = r
  BY <1>3 DEF Surjection
<1>5. \A r \in 1..PlayerCount : SeatOfRank(ranks, r) \in Seat /\ ranks[SeatOfRank(ranks, r)] = r
  BY <1>4 DEF SeatOfRank
<1> QED
  BY <1>5 DEF IsRanking

\* The next to finish gets the next place.
LEMMA FinishNextPlaces ==
  ASSUME NEW ranks, Placed(ranks), NEW s \in Seat, ranks[s] = 0
  PROVE  /\ Placed(FinishNext(ranks, s))
         /\ Finished(FinishNext(ranks, s)) = Finished(ranks) \cup {s}
<1> DEFINE n == Cardinality(Finished(ranks))
           next == FinishNext(ranks, s)
<1>1. n \in 0..PlayerCount /\ IsFiniteSet(Finished(ranks))
  BY FinishedFinite
<1>2. s \notin Finished(ranks) /\ Finished(ranks) \cup {s} \in SUBSET Seat
  BY DEF Finished
<1>3. Cardinality(Finished(ranks) \cup {s}) = n + 1
  BY <1>1, <1>2, FS_AddElement
<1>4. n + 1 <= PlayerCount
  BY <1>2, <1>3, SeatFacts, FS_Subset
<1>5. next = [ranks EXCEPT ![s] = n + 1] /\ next \in [Seat -> 0..PlayerCount]
  BY <1>1, <1>4, SeatFacts DEF FinishNext, Placed
<1>6. next[s] = n + 1 /\ \A t \in Seat \ {s} : next[t] = ranks[t]
  BY <1>5 DEF Placed
<1> HIDE DEF next
<1>7. Finished(next) = Finished(ranks) \cup {s}
  BY <1>1, <1>6 DEF Finished
<1>8. \A t \in Finished(ranks) : t # s /\ next[t] = ranks[t] /\ ranks[t] \in 0..n
  BY <1>1, <1>2, <1>6 DEF Finished, Placed
<1>9. \A t \in Finished(next) : next[t] <= Cardinality(Finished(next))
  BY <1>1, <1>3, <1>6, <1>7, <1>8
<1>10. \A t, u \in Finished(next) : next[t] = next[u] => t = u
  BY <1>1, <1>6, <1>7, <1>8 DEF Placed
<1> QED
  BY <1>5, <1>7, <1>9, <1>10 DEF Placed, next

\* assignRemainingFinishRanks ranks everyone.
LEMMA RankRemainingRanks ==
  ASSUME NEW ranks, Placed(ranks), Finished(ranks) # {}
  PROVE  /\ IsRanking(RankRemaining(ranks))
         /\ \A s \in Finished(ranks) : RankRemaining(ranks)[s] = ranks[s]
<1> DEFINE done == Finished(ranks)
           n == Cardinality(done)
           rest == Seat \ done
           last == CHOOSE s \in done : \A t \in done : ranks[s] >= ranks[t]
           all == RankRemaining(ranks)
           before == [s \in rest |-> {t \in rest : Distance(last, t) < Distance(last, s)}]
<1>1. n \in 1..PlayerCount /\ IsFiniteSet(done) /\ done \in SUBSET Seat
  <2>1. n # 0
    BY FinishedFinite, FS_EmptySet
  <2> QED
    BY <2>1, FinishedFinite DEF Finished
<1>2. PICK x \in done : ranks[x] = n
  <2>1. n \in {ranks[s] : s \in done}
    BY <1>1, PlacesInOrder
  <2> QED
    BY <2>1
<1>3. last \in done /\ ranks[last] = n
  <2>1. \A t \in done : ranks[x] >= ranks[t]
    BY <1>1, <1>2 DEF Placed
  <2>2. last \in done /\ \A t \in done : ranks[last] >= ranks[t]
    BY <2>1
  <2>3. ranks[last] >= n /\ ranks[last] <= n /\ ranks[last] \in Int
    BY <1>1, <1>2, <2>2 DEF Placed
  <2> QED
    BY <1>1, <2>2, <2>3
<1>4. \A s \in Seat : all[s] = IF s \in done THEN ranks[s]
                               ELSE ranks[last] + 1 + Cardinality({t \in rest : Distance(last, t) < Distance(last, s)})
  BY DEF RankRemaining
<1> HIDE DEF last
<1>5. IsFiniteSet(rest) /\ Cardinality(rest) = PlayerCount - n
  <2>1. Seat \cap done = done
    BY <1>1
  <2> QED
    BY <2>1, SeatFacts, FS_Difference
<1>6. \A s, t \in rest : t \in before[s] <=> Distance(last, t) < Distance(last, s)
  OBVIOUS
<1>7. \A s \in Seat : all[s] = IF s \in done THEN ranks[s] ELSE n + 1 + Cardinality(before[s])
  BY <1>3, <1>4
<1>8. before \in [rest -> SUBSET rest]
  OBVIOUS
<1> HIDE DEF before, all
<1>9. \A s \in rest : Distance(last, s) \in Int
  BY <1>1, <1>3, DistanceFacts, SeatFacts
<1>10. \A s \in rest : s \notin before[s]
  BY <1>6, <1>9
<1>11. \A s, t \in rest : t \in before[s] => before[t] \subseteq before[s]
  BY <1>6, <1>8, <1>9
<1>12. \A s, t \in rest : s # t => s \in before[t] \/ t \in before[s]
  BY <1>1, <1>3, <1>6, <1>9, DistanceFacts
<1>13. /\ \A s \in rest : Cardinality(before[s]) \in 0..(PlayerCount - n - 1)
       /\ \A s, t \in rest : Cardinality(before[s]) = Cardinality(before[t]) => s = t
  <2> HIDE DEF rest
  <2> QED
    BY <1>5, <1>8, <1>10, <1>11, <1>12, PositionsCount
<1>14. \A s \in done : all[s] = ranks[s] /\ all[s] \in 1..n
  BY <1>1, <1>7, SMTT(30) DEF Placed, Finished
<1>15. \A s \in rest : all[s] = n + 1 + Cardinality(before[s]) /\ all[s] \in (n + 1)..PlayerCount
  BY <1>1, <1>7, <1>13, SeatFacts
<1>16. all \in [Seat -> 1..PlayerCount]
  <2>1. \A s \in Seat : all[s] \in 1..PlayerCount
    <3> SUFFICES ASSUME NEW s \in Seat PROVE all[s] \in 1..PlayerCount
      OBVIOUS
    <3>1. CASE s \in done
      BY <1>1, <1>14, <3>1, SeatFacts
    <3>2. CASE s \in rest
      BY <1>1, <1>15, <3>2, SeatFacts
    <3> QED
      BY <3>1, <3>2
  <2> QED
    BY <2>1 DEF RankRemaining, all
<1>17. \A s, t \in Seat : all[s] = all[t] => s = t
  <2> SUFFICES ASSUME NEW s \in Seat, NEW t \in Seat, all[s] = all[t]
               PROVE  s = t
    OBVIOUS
  <2>1. CASE s \in done /\ t \in done
    BY <1>14, <2>1 DEF Placed
  <2>2. CASE s \in rest /\ t \in rest
    BY <1>1, <1>13, <1>15, <2>2
  <2>3. CASE (s \in done /\ t \in rest) \/ (s \in rest /\ t \in done)
    BY <1>1, <1>14, <1>15, <2>3
  <2> QED
    BY <2>1, <2>2, <2>3
<1> QED
  BY <1>14, <1>16, <1>17 DEF IsRanking, all

\* What the winners' two best players have is no less than the first two places
\* and no more than the first and the one after all the losers.
LEMMA WorthOfRound ==
  ASSUME NEW ranks, IsRanking(ranks)
  PROVE  WinningTeam(ranks) \in Teams /\ LevelUpgrade(ranks) \in Ladder!Upgrades
<1> DEFINE first == SeatOfRank(ranks, 1)
           mates == {s \in Seat \ {first} : Team(s) = Team(first)}
           second == CHOOSE s \in mates : \A t \in mates : ranks[s] <= ranks[t]
           others == {s \in Seat : Team(s) = 1 - Team(first)}
<1>1. first \in Seat /\ ranks[first] = 1
  BY SeatFacts, SeatOfRankIs
<1>2. \A s \in Seat : Team(s) \in Teams
  BY SeatFacts DEF Seat, Team, Teams
<1>3. Team(first) \in Teams /\ 1 - Team(first) \in Teams
  BY <1>1, <1>2 DEF Teams
<1>4. IsFiniteSet(others) /\ Cardinality(others) = PlayersPerTeam
  BY <1>3, TeamSize
<1>5. mates # {}
  <2> DEFINE team == {s \in Seat : Team(s) = Team(first)}
  <2>1. mates = team \ {first} /\ first \in team
    BY <1>1
  <2>2. IsFiniteSet(team) /\ Cardinality(team) = PlayersPerTeam
    BY <1>3, TeamSize
  <2>3. IsFiniteSet(mates) /\ Cardinality(mates) = PlayersPerTeam - 1
    <3> HIDE DEF team, mates
    <3> QED
      BY <2>1, <2>2, FS_RemoveElement
  <2> QED
    BY <2>3, SeatFacts, FS_EmptySet
<1>6. second \in mates /\ \A t \in mates : ranks[second] <= ranks[t]
  <2> DEFINE R == {ranks[s] : s \in mates}
  <2>1. R \in SUBSET Nat /\ R # {}
    BY <1>5 DEF IsRanking
  <2>2. PICK m \in R : \A n \in R : m <= n
    BY <2>1, LeastExists
  <2>3. \E s \in mates : \A t \in mates : ranks[s] <= ranks[t]
    BY <2>2
  <2> QED
    BY <2>3
<1>7. second \in Seat /\ second # first /\ ranks[second] \in 2..PlayerCount
  BY <1>1, <1>6 DEF IsRanking
<1>8. LevelUpgrade(ranks) = UpgradeBase - (1 + ranks[second])
  BY <1>1 DEF LevelUpgrade
<1> HIDE DEF second
<1>9. ranks[second] <= PlayersPerTeam + 2
  <2> DEFINE better == {s \in Seat : ranks[s] < ranks[second]}
             f == [r \in 1..(ranks[second] - 1) |-> SeatOfRank(ranks, r)]
             all == others \cup {first}
  <2>1. IsFiniteSet(all) /\ Cardinality(all) <= PlayersPerTeam + 1
    <3>1. /\ IsFiniteSet(all)
          /\ Cardinality(all) = IF first \in others THEN Cardinality(others) ELSE Cardinality(others) + 1
      <4> HIDE DEF others, first
      <4> QED
        BY <1>4, FS_AddElement
    <3> QED
      BY <1>4, <3>1, SeatFacts
  <2>2. better \subseteq all
    <3> SUFFICES ASSUME NEW s \in better, s # first PROVE s \in others
      OBVIOUS
    <3>1. s \notin mates
      BY <1>6, <1>7 DEF IsRanking
    <3> QED
      BY <1>2, <1>3, <3>1 DEF Teams
  <2>3. \A r \in 1..(ranks[second] - 1) : r \in 1..PlayerCount /\ f[r] \in better /\ ranks[f[r]] = r
    BY <1>7, SeatFacts, SeatOfRankIs
  <2>4. f \in Injection(1..(ranks[second] - 1), all)
    <3>1. f \in [1..(ranks[second] - 1) -> all]
      BY <2>2, <2>3
    <3>2. \A a, b \in 1..(ranks[second] - 1) : f[a] = f[b] => a = b
      BY <2>3
    <3> QED
      BY <3>1, <3>2 DEF Injection, IsInjective
  <2>5. Cardinality(1..(ranks[second] - 1)) <= Cardinality(all)
    BY <2>1, <2>4, FS_Injection
  <2>6. Cardinality(1..(ranks[second] - 1)) = ranks[second] - 1
    <3>1. 1 \in Int /\ ranks[second] - 1 \in Int /\ ~(1 > ranks[second] - 1)
      BY <1>7, SeatFacts
    <3>2. Cardinality(1..(ranks[second] - 1)) = (ranks[second] - 1) - 1 + 1
      BY <3>1, FS_Interval
    <3> QED
      BY <3>1, <3>2
  <2> QED
    BY <1>7, <2>1, <2>5, <2>6, SeatFacts, FS_CardinalityType
<1>10. UpgradeBase \in Int
  BY DEF UpgradeBase
<1>11. LevelUpgrade(ranks) \in (UpgradeBase - PlayersPerTeam - 3)..(UpgradeBase - 3)
  BY <1>7, <1>8, <1>9, <1>10, SeatFacts
<1> QED
  BY <1>3, <1>11 DEF WinningTeam, Ladder!Upgrades, Ladder!UpgradeBase, UpgradeBase

-----------------------------------------------------------------------------
(* The invariant *)

BeforePlay == {"WAITING", "TRIBUTE", "RETURN_TRIBUTE"}
Trading == {"TRIBUTE", "RETURN_TRIBUTE"}

TypeInv ==
    /\ phase \in Phases /\ current \in Seat /\ lastPlayed \in Seat \cup {NoSeat}
    /\ hand \in [Seat -> SUBSET Card]
    /\ tribute = [required |-> tribute.required, pendingTributers |-> tribute.pendingTributers,
                  tributes |-> tribute.tributes, pendingReturn |-> tribute.pendingReturn]

\* Places: nobody has one before the play, no team has all of its own during it,
\* everyone has one after it; the ranking that a trade goes by is a whole one.
PlacesInv ==
    /\ Placed(finishRank)
    /\ phase \in BeforePlay => Finished(finishRank) = {}
    /\ phase = "PLAYING" => \A t \in Teams : \E s \in Active : Team(s) = t
    /\ phase = "FINISHED" => IsRanking(finishRank) /\ previous = finishRank
    /\ phase \in Trading => IsRanking(previous)

TurnInv ==
    /\ phase = "PLAYING" => finishRank[current] = 0
    /\ phase \in BeforePlay => lastPlayed = NoSeat
    /\ TrickConsistent

\* A phase of tribute: who has paid has a card to pay with, which is still in
\* their hand.
PayInv ==
    phase = "TRIBUTE" =>
        /\ tribute.required \in [Tributers(previous) -> Card \cup {NoCard}]
        /\ \A s \in Tributers(previous) :
               \/ tribute.required[s] \in hand[s]
               \/ tribute.required[s] = NoCard /\ s \in tribute.pendingTributers
        /\ tribute.pendingTributers # {} /\ tribute.pendingTributers \subseteq Tributers(previous)

\* A phase of returns: one tribute went from each payer to a better player.
ReturnInv ==
    phase = "RETURN_TRIBUTE" =>
        /\ tribute.tributes \subseteq [from : Seat, to : Seat, card : Card] /\ IsFiniteSet(tribute.tributes)
        /\ TributeOrdered
        /\ \A m, o \in tribute.tributes : m.to = o.to => m = o
        /\ \A s \in tribute.pendingReturn : \E m \in tribute.tributes : m.to = s

\* Hands: only a payer who is still to get a card back may have none in a phase of
\* returns, and who is to return one has another besides the one they got.
HandsInv ==
    /\ HandsDisjoint
    /\ phase \in BeforePlay => DOMAIN lastCards = {}
    /\ phase = "TRIBUTE" => \A s \in Seat : hand[s] # {}
    /\ phase = "RETURN_TRIBUTE" =>
           /\ \A s \in Seat : hand[s] = {} =>
                  \E m \in tribute.tributes : m.from = s /\ m.to \in tribute.pendingReturn
           /\ \A m \in tribute.tributes : m.to \in tribute.pendingReturn =>
                  m.card \in hand[m.to] /\ hand[m.to] \ {m.card} # {}
    /\ phase = "PLAYING" => \A s \in Seat : finishRank[s] = 0 <=> hand[s] # {}

PlayedInv == MaxCopies = 1 => PlayedCardsGone

\* What every handler of the dispatcher keeps.
EngineInv ==
    /\ TypeInv /\ PlacesInv /\ TurnInv /\ EveryoneAnswersOnce
    /\ PayInv /\ ReturnInv /\ HandsInv /\ PlayedInv

\* What holds as long as a game is started once and the last return ends the trade.
TradeWaits ==
    /\ phase # "RETURN_TRIBUTE" => tribute.tributes = {}
    /\ phase = "RETURN_TRIBUTE" => tribute.pendingReturn # {}

\* Several return a card, and the play does not begin.
SomeReturn(card) ==
    /\ ReturnCardsOf(card)
    /\ tribute' = [tribute EXCEPT !.pendingReturn = @ \ DOMAIN card]
    /\ UNCHANGED <<phase, current>>

\* All that the engine is asked to do, also a new game while one is being played.
EngineStep ==
    \/ \E enabled \in BOOLEAN : SetEnableTribute(enabled)
    \/ \E d \in Deals : DealGame(d) \/ StartNextRound(d)
    \/ \E payers : SubmitTributes(payers)
    \/ \E s \in Seat : \E c \in hand[s] : SubmitReturn(s, c)
    \/ \E card : (\A s \in DOMAIN card : card[s] \in hand[s]) /\ SomeReturn(card)
    \/ Move

-----------------------------------------------------------------------------
(* Dealing *)

\* The invalid pattern is not valid.
LEMMA InvalidIsNot == ~IsValid(Invalid)
  BY DEF IsValid, Invalid, Pattern

\* A trick without cards has none.
LEMMA NoCardsIsEmpty == DOMAIN NoCards = {}
  BY DEF NoCards, Once

\* Before anybody has finished no place is given, and both teams are in.
LEMMA NoPlaces ==
  /\ Placed(NoRanks) /\ Finished(NoRanks) = {}
  /\ \A t \in Teams : \E s \in Seat : Team(s) = t
<1>1. NoRanks \in [Seat -> 0..PlayerCount] /\ Finished(NoRanks) = {}
  BY SeatFacts DEF NoRanks, Finished
<1>2. ASSUME NEW t \in Teams PROVE \E s \in Seat : Team(s) = t
  <2>1. {s \in Seat : Team(s) = t} # {}
    BY TeamSize, SeatFacts, FS_EmptySet
  <2> QED
    BY <2>1
<1> QED
  BY <1>1, <1>2 DEF Placed

\* The engine starts in order.
LEMMA InitInv == Init => EngineInv /\ TradeWaits
<1> SUFFICES ASSUME Init PROVE EngineInv /\ TradeWaits
  OBVIOUS
<1> USE DEF Init
<1>1. TypeInv
  BY SeatFacts DEF TypeInv, Phases, NoTribute
<1>2. PlacesInv
  BY NoPlaces DEF PlacesInv, BeforePlay, Trading
<1>3. TurnInv /\ EveryoneAnswersOnce
  BY InvalidIsNot DEF TurnInv, TrickConsistent, EveryoneAnswersOnce
<1>4. PayInv /\ ReturnInv
  BY FS_EmptySet DEF PayInv, ReturnInv, TributeOrdered, NoTribute
<1>5. HandsInv /\ PlayedInv
  BY NoCardsIsEmpty DEF HandsInv, HandsDisjoint, PlayedInv, PlayedCardsGone
<1>6. TradeWaits
  BY DEF TradeWaits, NoTribute
<1> QED
  BY <1>1, <1>2, <1>3, <1>4, <1>5, <1>6 DEF EngineInv

\* A deal gives everybody cards, and nobody has finished or played.
LEMMA DealFacts ==
  ASSUME NEW d \in Deals, NEW n, Deal(d, n)
  PROVE  /\ hand' = d /\ hand' \in [Seat -> SUBSET Card] /\ HandsDisjoint'
         /\ \A s \in Seat : hand'[s] # {}
         /\ finishRank' = NoRanks /\ Placed(finishRank') /\ Finished(finishRank') = {}
         /\ \A t \in Teams : \E s \in Active' : Team(s) = t
         /\ \A s \in Seat : finishRank'[s] = 0
         /\ lastPlayed' = NoSeat /\ DOMAIN lastCards' = {}
         /\ TrickConsistent' /\ EveryoneAnswersOnce' /\ PlayedInv'
<1>1. hand' = d /\ finishRank' = NoRanks /\ lastPlayed' = NoSeat /\ lastCards' = NoCards
      /\ lastPattern' = Invalid /\ passCount' = 0
  BY DEF Deal, ClearTrick
<1>2. hand' \in [Seat -> SUBSET Card] /\ HandsDisjoint' /\ \A s \in Seat : hand'[s] # {}
  BY <1>1, DealsAssumption DEF HandsDisjoint
<1>3. Placed(finishRank') /\ Finished(finishRank') = {}
  BY <1>1, NoPlaces
<1>4. \A t \in Teams : \E s \in Active' : Team(s) = t
  BY <1>3, NoPlaces DEF Active
<1>5. \A s \in Seat : finishRank'[s] = 0
  BY <1>1 DEF NoRanks
<1>6. TrickConsistent' /\ EveryoneAnswersOnce'
  BY <1>1, InvalidIsNot DEF TrickConsistent, EveryoneAnswersOnce
<1>7. DOMAIN lastCards' = {} /\ PlayedInv'
  BY <1>1, NoCardsIsEmpty DEF PlayedInv, PlayedCardsGone
<1> QED
  BY <1>1, <1>2, <1>3, <1>4, <1>5, <1>6, <1>7

\* The option of the tribute is read at the next deal.
LEMMA SetEnableTributeKeeps ==
  ASSUME EngineInv, NEW enabled \in BOOLEAN, SetEnableTribute(enabled)
  PROVE  EngineInv'
<1> USE DEF EngineInv, SetEnableTribute, trickVars
<1>1. TypeInv'
  BY DEF TypeInv
<1>2. PlacesInv'
  BY DEF PlacesInv, Active
<1>3. TurnInv' /\ EveryoneAnswersOnce'
  BY DEF TurnInv, TrickConsistent, EveryoneAnswersOnce
<1>4. PayInv' /\ ReturnInv'
  BY DEF PayInv, ReturnInv, TributeOrdered
<1>5. HandsInv' /\ PlayedInv'
  BY DEF HandsInv, HandsDisjoint, PlayedInv, PlayedCardsGone
<1> QED
  BY <1>1, <1>2, <1>3, <1>4, <1>5

\* A deal that goes straight to the play.
LEMMA PlayFromDeal ==
  ASSUME NEW d \in Deals, NEW n, Deal(d, n), NEW first \in Seat, BeginPlaying(first),
         TypeInv'
  PROVE  EngineInv'
<1>1. phase' = "PLAYING" /\ current' = first
  BY DEF BeginPlaying
<1>2. PlacesInv'
  BY <1>1, DealFacts DEF PlacesInv, BeforePlay, Trading
<1>3. TurnInv'
  BY <1>1, DealFacts DEF TurnInv, BeforePlay
<1>4. PayInv' /\ ReturnInv'
  BY <1>1, FS_EmptySet DEF PayInv, ReturnInv, TributeOrdered
<1>5. HandsInv'
  BY <1>1, DealFacts DEF HandsInv, BeforePlay
<1> QED
  BY <1>2, <1>3, <1>4, <1>5, DealFacts DEF EngineInv

\* The first deal of a game starts a round in order, whatever was before.
LEMMA DealGameKeeps ==
  ASSUME EngineInv, NEW d \in Deals, DealGame(d)
  PROVE  EngineInv'
<1>1. Deal(d, 1) /\ BeginPlaying(0) /\ UNCHANGED tribute
  BY DEF DealGame
<1>2. TypeInv'
  BY <1>1, SeatFacts, DealFacts DEF TypeInv, BeginPlaying, Phases, EngineInv
<1> QED
  BY <1>1, <1>2, SeatFacts, PlayFromDeal

\* The payers are not among the first half of the players.
LEMMA TributersAre ==
  ASSUME NEW ranks, IsRanking(ranks)
  PROVE  /\ Tributers(ranks) \in SUBSET Seat /\ Tributers(ranks) # {}
         /\ IsFiniteSet(Tributers(ranks)) /\ Cardinality(Tributers(ranks)) \in 1..PlayersPerTeam
         /\ \A s \in Tributers(ranks) : ranks[s] > PlayersPerTeam
<1>1. PlayersPerTeam + 1 \in 1..PlayerCount /\ PlayerCount \in 1..PlayerCount /\ PlayerCount > PlayersPerTeam
  BY SeatFacts
<1>2. CASE AllDown(ranks)
  <2> DEFINE T == {s \in Seat : ranks[s] > PlayersPerTeam}
             f == [s \in T |-> ranks[s]]
  <2>1. Tributers(ranks) = T
    BY <1>2 DEF Tributers
  <2>2. SeatOfRank(ranks, PlayersPerTeam + 1) \in T
    BY <1>1, SeatOfRankIs, SeatFacts
  <2>3. f \in Injection(T, (PlayersPerTeam + 1)..PlayerCount)
    <3>1. \A s \in T : ranks[s] \in (PlayersPerTeam + 1)..PlayerCount
      BY SeatFacts DEF IsRanking
    <3> QED
      BY <3>1 DEF IsRanking, Injection, IsInjective
  <2>4. /\ IsFiniteSet((PlayersPerTeam + 1)..PlayerCount)
        /\ Cardinality((PlayersPerTeam + 1)..PlayerCount) = PlayersPerTeam
    <3>1. PlayersPerTeam + 1 \in Int /\ PlayerCount \in Int /\ ~(PlayersPerTeam + 1 > PlayerCount)
          /\ PlayerCount - (PlayersPerTeam + 1) + 1 = PlayersPerTeam
      BY SeatFacts
    <3> QED
      BY <3>1, FS_Interval
  <2>5. IsFiniteSet(T) /\ Cardinality(T) <= PlayersPerTeam
    BY <2>3, <2>4, FS_Injection
  <2>6. Cardinality(T) \in Nat /\ Cardinality(T) # 0
    BY <2>2, <2>5, FS_CardinalityType, FS_EmptySet
  <2> HIDE DEF T
  <2>7. Cardinality(T) \in 1..PlayersPerTeam
    BY <2>5, <2>6, SeatFacts
  <2> QED
    BY <2>1, <2>2, <2>5, <2>7 DEF T
<1>3. CASE ~AllDown(ranks)
  <2>1. Tributers(ranks) = {SeatOfRank(ranks, PlayerCount)}
    BY <1>3 DEF Tributers
  <2>2. SeatOfRank(ranks, PlayerCount) \in Seat /\ ranks[SeatOfRank(ranks, PlayerCount)] = PlayerCount
    BY <1>1, SeatOfRankIs
  <2>3. IsFiniteSet(Tributers(ranks)) /\ Cardinality(Tributers(ranks)) = 1
    BY <2>1, FS_Singleton
  <2>4. 1 \in 1..PlayersPerTeam
    BY SeatFacts
  <2> QED
    BY <1>1, <2>1, <2>2, <2>3, <2>4
<1> QED
  BY <1>2, <1>3

\* The next deal starts a trade by a whole ranking, or the play.
LEMMA StartNextRoundKeeps ==
  ASSUME EngineInv, NEW d \in Deals, StartNextRound(d)
  PROVE  EngineInv'
<1>1. phase = "FINISHED" /\ Deal(d, round + 1) /\ IsRanking(previous) /\ UNCHANGED previous
  BY DEF StartNextRound, EngineInv, PlacesInv
<1>2. CASE enableTribute /\ ~AntiTribute(previous, d)
  <2>1. PICK required \in RequiredCards(previous, d, level') :
             tribute' = [NoTribute EXCEPT !.required = required, !.pendingTributers = Tributers(previous)]
    BY <1>2 DEF StartNextRound
  <2>2. phase' = "TRIBUTE" /\ current' = current
    BY <1>2 DEF StartNextRound
  <2>3. tribute' = [required |-> required, pendingTributers |-> Tributers(previous),
                    tributes |-> {}, pendingReturn |-> {}]
    BY <2>1 DEF NoTribute
  <2>4. TypeInv'
    BY <2>2, <2>3, <1>1, DealFacts DEF TypeInv, Phases, EngineInv
  <2>5. PlacesInv'
    BY <1>1, <2>2, DealFacts DEF PlacesInv, BeforePlay, Trading
  <2>6. TurnInv'
    BY <1>1, <2>2, DealFacts DEF TurnInv
  <2>7. PayInv'
    <3>1. required \in [Tributers(previous) -> Card \cup {NoCard}]
      BY DEF RequiredCards
    <3>2. \A s \in Tributers(previous) : required[s] \in d[s] \/ required[s] = NoCard
      BY DEF RequiredCards, HighestCards
    <3>3. tribute'.pendingTributers = Tributers(previous) /\ Tributers(previous) # {}
          /\ tribute'.required = required
      BY <1>1, <2>3, TributersAre
    <3>4. Tributers(previous)' = Tributers(previous) /\ hand' = d
      BY <1>1, DealFacts DEF Tributers, AllDown, HeadSeat, SeatOfRank
    <3> QED
      BY <3>1, <3>2, <3>3, <3>4 DEF PayInv
  <2>8. ReturnInv'
    BY <2>2, <2>3, FS_EmptySet DEF ReturnInv, TributeOrdered
  <2>9. HandsInv'
    BY <1>1, <2>2, DealFacts DEF HandsInv, BeforePlay
  <2> QED
    BY <1>1, <2>4, <2>5, <2>6, <2>7, <2>8, <2>9, DealFacts DEF EngineInv
<1>3. CASE ~(enableTribute /\ ~AntiTribute(previous, d))
  <2>1. BeginPlaying(HeadSeat(previous)) /\ tribute' = NoTribute
    BY <1>3 DEF StartNextRound
  <2>2. HeadSeat(previous) \in Seat
    BY <1>1, SeatFacts, SeatOfRankIs DEF HeadSeat
  <2>3. TypeInv'
    BY <1>1, <2>1, <2>2, SeatFacts, DealFacts DEF TypeInv, BeginPlaying, Phases, NoTribute
  <2> QED
    BY <1>1, <2>1, <2>2, <2>3, PlayFromDeal
<1> QED
  BY <1>2, <1>3

-----------------------------------------------------------------------------
(* Paying tribute *)

\* The ranks of cards are numbers.
LEMMA CardHasRank == \A c \in Card : Face[c].rank \in Nat
<1>1. ASSUME NEW c \in Card PROVE Face[c].rank \in Ranks
  BY FaceAssumption
<1>2. Ranks \subseteq Nat
  BY DEF Ranks, BigJoker
<1> QED
  BY <1>1, <1>2

\* assignTributes: the order of payment is total, so each payer has a receiver of
\* their own among the best, the better the higher the card.
LEMMA TributesAssigned ==
  ASSUME NEW ranks, IsRanking(ranks),
         NEW required, DOMAIN required = Tributers(ranks),
         \A s \in Tributers(ranks) : required[s] \in Card
  PROVE  LET moves == AssignTributes(ranks, required) IN
         /\ moves \subseteq [from : Seat, to : Seat, card : Card] /\ IsFiniteSet(moves) /\ moves # {}
         /\ \A m \in moves : /\ m.from \in Tributers(ranks) /\ m.card = required[m.from]
                             /\ ranks[m.to] <= PlayersPerTeam /\ m.to \notin Tributers(ranks)
                             /\ ranks[m.to] < ranks[m.from]
         /\ \A s \in Tributers(ranks) : \E m \in moves : m.from = s
         /\ \A m, o \in moves : m.from = o.from => m = o
         /\ \A m, o \in moves : m.to = o.to => m = o
         /\ \A m, o \in moves : Face[m.card].rank > Face[o.card].rank => ranks[m.to] < ranks[o.to]
<1> DEFINE payers == Tributers(ranks)
           head == HeadSeat(ranks)
           worth(s) == Face[required[s]].rank
           before == [s \in payers |-> {t \in payers : PaysBefore(required, head, t, s)}]
           position(s) == 1 + Cardinality(before[s])
           move(s) == [from |-> s, to |-> SeatOfRank(ranks, position(s)), card |-> required[s]]
           moves == AssignTributes(ranks, required)
<1>1. payers \in SUBSET Seat /\ payers # {} /\ IsFiniteSet(payers) /\ Cardinality(payers) \in 1..PlayersPerTeam
      /\ \A s \in payers : ranks[s] > PlayersPerTeam
  BY TributersAre
<1>2. head \in Seat
  BY SeatFacts, SeatOfRankIs DEF HeadSeat
<1>3. \A s \in payers : worth(s) \in Int
  BY CardHasRank
<1> HIDE DEF payers, head
<1>4. \A s \in payers : Distance(head, s) \in Int
  BY <1>1, <1>2, DistanceFacts
<1>5. \A s, t \in payers : Distance(head, s) = Distance(head, t) => s = t
  BY <1>1, <1>2, DistanceFacts
<1> USE DEF payers, head
<1>6. \A s, t \in payers : t \in before[s] <=>
          \/ worth(t) > worth(s)
          \/ worth(t) = worth(s) /\ Distance(head, t) < Distance(head, s)
  BY DEF PaysBefore
<1>7. moves = {move(s) : s \in payers}
  BY DEF AssignTributes
<1>8. before \in [payers -> SUBSET payers]
  OBVIOUS
<1> HIDE DEF payers, head, worth, before
<1>9. \A s \in payers : s \notin before[s]
  BY <1>3, <1>4, <1>6
<1>10. \A s, t \in payers : t \in before[s] => before[t] \subseteq before[s]
  <2> SUFFICES ASSUME NEW s \in payers, NEW t \in payers, t \in before[s], NEW u \in before[t]
               PROVE  u \in before[s]
    OBVIOUS
  <2>1. u \in payers
    BY <1>8
  <2> QED
    BY <2>1, <1>3, <1>4, <1>6
<1>11. \A s, t \in payers : s # t => s \in before[t] \/ t \in before[s]
  BY <1>3, <1>4, <1>5, <1>6
<1>12. /\ \A s \in payers : Cardinality(before[s]) \in 0..(Cardinality(payers) - 1)
       /\ \A s, t \in payers : t \in before[s] => Cardinality(before[t]) < Cardinality(before[s])
       /\ \A s, t \in payers : Cardinality(before[s]) = Cardinality(before[t]) => s = t
  BY <1>1, <1>8, <1>9, <1>10, <1>11, PositionsCount
<1>13. \A s \in payers : position(s) \in 1..PlayersPerTeam /\ position(s) \in 1..PlayerCount
  BY <1>1, <1>12, SeatFacts
<1>14. \A s \in payers : move(s).to \in Seat /\ ranks[move(s).to] = position(s)
  BY <1>13, SeatOfRankIs
<1> HIDE DEF position
<1>15. \A s, t \in payers : (move(s).to = move(t).to => s = t) /\ (t \in before[s] => position(t) < position(s))
  BY <1>12, <1>14 DEF position
<1> DEFINE pays(m, s) == m.from = s /\ m.to = move(s).to /\ m.card = required[s] /\ m = move(s)
<1>16. \A m \in moves : \E s \in payers : pays(m, s)
  BY <1>7
<1>17. \A s \in payers : move(s) \in moves
  BY <1>7
<1>18. IsFiniteSet(moves)
  <2> DEFINE f == [s \in payers |-> move(s)]
  <2>1. f \in Surjection(payers, moves)
    BY <1>7 DEF Surjection
  <2> QED
    BY <1>1, <2>1, FS_Surjection
<1> HIDE DEF moves
<1>19. \A m \in moves : m.from \in payers /\ pays(m, m.from)
  BY <1>16
<1>20. moves # {} /\ moves \subseteq [from : Seat, to : Seat, card : Card]
  <2>1. \A s \in payers : move(s) \in [from : Seat, to : Seat, card : Card]
    BY <1>1, <1>14 DEF payers
  <2> QED
    BY <1>1, <1>17, <1>19, <2>1
<1>21. \A m \in moves : ranks[m.to] \in 1..PlayersPerTeam /\ ranks[m.to] = position(m.from)
  BY <1>13, <1>14, <1>19
<1>22. \A m \in moves : /\ m.from \in payers /\ m.card = required[m.from]
                        /\ ranks[m.to] <= PlayersPerTeam /\ m.to \notin payers
                        /\ ranks[m.to] < ranks[m.from]
  <2> SUFFICES ASSUME NEW m \in moves
               PROVE  /\ m.from \in payers /\ m.card = required[m.from]
                      /\ ranks[m.to] <= PlayersPerTeam /\ m.to \notin payers
                      /\ ranks[m.to] < ranks[m.from]
    OBVIOUS
  <2>1. m.from \in payers /\ m.card = required[m.from] /\ ranks[m.to] \in 1..PlayersPerTeam
    BY <1>19, <1>21
  <2>2. ranks[m.from] > PlayersPerTeam /\ ranks[m.from] \in Int /\ PlayersPerTeam \in Int
    BY <1>1, <2>1, SeatFacts DEF IsRanking
  <2> QED
    BY <1>1, <2>1, <2>2
<1>23. \A s \in payers : \E m \in moves : m.from = s
  BY <1>17
<1>24. \A m, o \in moves : (m.from = o.from => m = o) /\ (m.to = o.to => m = o)
  BY <1>15, <1>19
<1>25. \A m, o \in moves : Face[m.card].rank > Face[o.card].rank => ranks[m.to] < ranks[o.to]
  <2> SUFFICES ASSUME NEW m \in moves, NEW o \in moves, Face[m.card].rank > Face[o.card].rank
               PROVE  ranks[m.to] < ranks[o.to]
    OBVIOUS
  <2>1. m.from \in payers /\ o.from \in payers /\ m.card = required[m.from] /\ o.card = required[o.from]
    BY <1>19
  <2>2. m.from \in before[o.from]
    BY <1>6, <2>1 DEF worth
  <2> QED
    BY <1>15, <1>21, <2>1, <2>2
<1> QED
  BY <1>18, <1>20, <1>22, <1>23, <1>24, <1>25 DEF payers, moves

\* Moving cards, each out of the hand it is in, neither copies nor loses one.
LEMMA TransferKeepsApart ==
  ASSUME TypeInv, HandsDisjoint,
         NEW moves \in SUBSET [from : Seat, to : Seat, card : Card],
         \A m \in moves : m.card \in hand[m.from],
         \A m, o \in moves : m.card = o.card => m.to = o.to
  PROVE  /\ Transfer(hand, moves) \in [Seat -> SUBSET Card]
         /\ \A s, t \in Seat : s # t => Transfer(hand, moves)[s] \cap Transfer(hand, moves)[t] = {}
         /\ \A s \in Seat : \A c \in Transfer(hand, moves)[s] :
                (c \in hand[s] /\ \A m \in moves : m.from = s => m.card # c)
                    \/ \E m \in moves : m.to = s /\ m.card = c
         /\ \A m \in moves : m.card \in Transfer(hand, moves)[m.to]
         /\ \A s \in Seat : \A c \in hand[s] :
                (\A m \in moves : m.from = s => m.card # c) => c \in Transfer(hand, moves)[s]
<1> DEFINE after == Transfer(hand, moves)
           in(s, c) == \/ c \in hand[s] /\ \A m \in moves : m.from = s => m.card # c
                       \/ \E m \in moves : m.to = s /\ m.card = c
<1>1. \A s \in Seat : \A c : c \in after[s] <=> in(s, c)
  BY DEF Transfer
<1>2. after \in [Seat -> SUBSET Card]
  <2>1. \A s \in Seat : \A c \in after[s] : c \in Card
    BY <1>1 DEF TypeInv
  <2> QED
    BY <2>1 DEF Transfer
<1>3. \A s, t \in Seat : \A c : in(s, c) /\ in(t, c) => s = t
  BY DEF HandsDisjoint
<1> HIDE DEF after
<1>4. \A s, t \in Seat : s # t => after[s] \cap after[t] = {}
  BY <1>1, <1>3
<1> QED
  BY <1>1, <1>2, <1>4 DEF after

\* When all have paid, each tribute has its own receiver, who then has a card to return.
LEMMA SubmitTributesKeeps ==
  ASSUME EngineInv, NEW payers, SubmitTributes(payers)
  PROVE  EngineInv'
<1> USE DEF EngineInv
<1>1. phase = "TRIBUTE" /\ payers # {} /\ payers \subseteq tribute.pendingTributers
      /\ \A s \in payers : tribute.required[s] # NoCard
  BY DEF SubmitTributes
<1>2. UNCHANGED finishRank /\ UNCHANGED current /\ UNCHANGED trickVars /\ UNCHANGED previous
      /\ phase' \in Trading
  BY <1>1 DEF SubmitTributes, roundVars, Trading
<1>3. IsRanking(previous)
  BY <1>1 DEF PlacesInv, Trading
<1>4. PlacesInv'
  BY <1>1, <1>2 DEF PlacesInv, Active, BeforePlay, Trading
<1>5. TurnInv' /\ EveryoneAnswersOnce'
  BY <1>1, <1>2 DEF TurnInv, TrickConsistent, EveryoneAnswersOnce, trickVars, Trading, BeforePlay
<1>6. DOMAIN lastCards = {} /\ UNCHANGED lastCards
  BY <1>1, <1>2 DEF HandsInv, BeforePlay, trickVars
<1>7. PlayedInv'
  BY <1>6 DEF PlayedInv, PlayedCardsGone
<1>8. CASE payers # tribute.pendingTributers
  <2>1. UNCHANGED <<phase, hand>> /\ tribute' = [tribute EXCEPT !.pendingTributers = @ \ payers]
    BY <1>8 DEF SubmitTributes
  <2>2. tribute' = [required |-> tribute.required, pendingTributers |-> tribute.pendingTributers \ payers,
                    tributes |-> tribute.tributes, pendingReturn |-> tribute.pendingReturn]
    BY <2>1 DEF TypeInv
  <2>3. TypeInv'
    BY <1>2, <2>1, <2>2 DEF TypeInv, trickVars
  <2>4. PayInv'
    <3>1. Tributers(previous)' = Tributers(previous)
      BY <1>2 DEF Tributers, AllDown, HeadSeat, SeatOfRank
    <3>2. tribute'.required = tribute.required /\ tribute'.pendingTributers = tribute.pendingTributers \ payers
      BY <2>2
    <3>3. tribute'.pendingTributers # {}
      BY <1>1, <1>8, <3>2
    <3> QED
      BY <1>1, <2>1, <3>1, <3>2, <3>3 DEF PayInv
  <2>5. ReturnInv'
    BY <1>1, <1>2, <2>1, <2>2 DEF ReturnInv, TributeOrdered
  <2>6. HandsInv'
    BY <1>1, <1>6, <2>1 DEF HandsInv, HandsDisjoint
  <2> QED
    BY <1>4, <1>5, <1>7, <2>3, <2>4, <2>5, <2>6
<1>9. CASE payers = tribute.pendingTributers
  <2> DEFINE moves == AssignTributes(previous, tribute.required)
  <2>1. /\ hand' = Transfer(hand, moves) /\ phase' = "RETURN_TRIBUTE"
        /\ tribute' = [tribute EXCEPT !.pendingTributers = {}, !.tributes = moves,
                                      !.pendingReturn = {m.to : m \in moves}]
    BY <1>9 DEF SubmitTributes
  <2>2. tribute' = [required |-> tribute.required, pendingTributers |-> {},
                    tributes |-> moves, pendingReturn |-> {m.to : m \in moves}]
    BY <2>1 DEF TypeInv
  <2>3. \A s \in Tributers(previous) : tribute.required[s] \in hand[s] /\ tribute.required[s] \in Card
    <3>1. Tributers(previous) \in SUBSET Seat
      BY <1>3, TributersAre
    <3> QED
      BY <1>1, <1>9, <3>1 DEF PayInv, TypeInv
  <2>4. DOMAIN tribute.required = Tributers(previous)
    BY <1>1 DEF PayInv
  <2>5. /\ moves \subseteq [from : Seat, to : Seat, card : Card] /\ IsFiniteSet(moves) /\ moves # {}
        /\ \A m \in moves : /\ m.from \in Tributers(previous) /\ m.card = tribute.required[m.from]
                            /\ m.to \notin Tributers(previous) /\ previous[m.to] < previous[m.from]
        /\ \A m, o \in moves : m.from = o.from => m = o
        /\ \A m, o \in moves : m.to = o.to => m = o
        /\ \A m, o \in moves : Face[m.card].rank > Face[o.card].rank => previous[m.to] < previous[o.to]
    BY <1>3, <2>3, <2>4, TributesAssigned
  <2> HIDE DEF moves
  <2>6. \A m \in moves : m.from \in Seat /\ m.to \in Seat /\ m.card \in Card /\ m.card \in hand[m.from]
    BY <2>3, <2>5
  <2>7. \A m, o \in moves : m.card = o.card => m = o
    BY <2>5, <2>6 DEF HandsInv, HandsDisjoint
  <2>8. /\ hand' \in [Seat -> SUBSET Card]
        /\ \A s, t \in Seat : s # t => hand'[s] \cap hand'[t] = {}
        /\ \A m \in moves : m.card \in hand'[m.to]
        /\ \A s \in Seat : \A c \in hand[s] : (\A m \in moves : m.from = s => m.card # c) => c \in hand'[s]
    BY <2>1, <2>5, <2>6, <2>7, TransferKeepsApart DEF HandsInv
  <2>9. TypeInv'
    BY <1>2, <2>1, <2>2, <2>8 DEF TypeInv, trickVars, Phases
  <2>10. PayInv'
    BY <2>1 DEF PayInv
  <2>11. tribute'.tributes = moves /\ tribute'.pendingReturn = {m.to : m \in moves}
    BY <2>2
  <2>12. ReturnInv'
    <3>1. TributeOrdered'
      BY <1>2, <2>5, <2>11 DEF TributeOrdered
    <3> QED
      BY <2>1, <2>5, <2>11, <3>1 DEF ReturnInv
  <2>13. \A s \in Seat : hand[s] # {}
    BY <1>1 DEF HandsInv
  <2>14. HandsInv'
    <3>1. ASSUME NEW s \in Seat, hand'[s] = {}
          PROVE  \E m \in moves : m.from = s
      BY <2>8, <2>13, <3>1
    <3>2. ASSUME NEW m \in moves
          PROVE  m.card \in hand'[m.to] /\ hand'[m.to] \ {m.card} # {}
      <4>1. m.to \in Seat /\ m.from \in Seat /\ m.to # m.from /\ \A o \in moves : o.from # m.to
        BY <2>5, <2>6
      <4>2. PICK c \in hand[m.to] : TRUE
        BY <2>13, <4>1
      <4>3. c \in hand'[m.to] /\ c # m.card
        BY <2>6, <2>8, <4>1, <4>2 DEF HandsInv, HandsDisjoint
      <4> QED
        BY <2>8, <4>3
    <3>3. HandsDisjoint'
      BY <2>8 DEF HandsDisjoint
    <3> QED
      BY <1>6, <2>1, <2>11, <3>1, <3>2, <3>3 DEF HandsInv
  <2> QED
    BY <1>4, <1>5, <1>7, <2>9, <2>10, <2>12, <2>14
<1> QED
  BY <1>8, <1>9

-----------------------------------------------------------------------------
(* Returning a card *)

\* Who plays first after a trade has a seat.
LEMMA FirstPlayerSits ==
  ASSUME NEW ranks, IsRanking(ranks),
         NEW tributes, tributes \subseteq [from : Seat, to : Seat, card : Card], IsFiniteSet(tributes)
  PROVE  FirstPlayer(ranks, tributes) \in Seat
<1> DEFINE best == {m \in tributes : \A o \in tributes : Face[m.card].rank >= Face[o.card].rank}
<1>1. CASE Cardinality(best) = 1
  <2>1. best # {}
    <3>1. Cardinality({}) # 1
      BY FS_EmptySet
    <3> HIDE DEF best
    <3> QED
      BY <1>1, <3>1
  <2>2. (CHOOSE m \in best : TRUE) \in tributes
    BY <2>1
  <2>3. (CHOOSE m \in best : TRUE).from \in Seat
    BY <2>2
  <2> QED
    BY <1>1, <2>3 DEF FirstPlayer
<1>2. CASE Cardinality(best) # 1
  <2>1. SeatOfRank(ranks, PlayerCount) \in Seat
    BY SeatFacts, SeatOfRankIs
  <2> QED
    BY <1>2, <2>1 DEF FirstPlayer
<1> QED
  BY <1>1, <1>2

\* Those who return a card have another one, and those who get it have paid them.
LEMMA ReturnFacts ==
  ASSUME EngineInv, NEW card, \A s \in DOMAIN card : card[s] \in hand[s], ReturnCardsOf(card)
  PROVE  /\ phase = "RETURN_TRIBUTE"
         /\ DOMAIN card \subseteq tribute.pendingReturn
         /\ hand' \in [Seat -> SUBSET Card] /\ HandsDisjoint'
         /\ \A t \in Seat \ DOMAIN card : hand[t] \subseteq hand'[t]
         /\ \A t \in Seat : hand'[t] = {} =>
                \E m \in tribute.tributes : m.from = t /\ m.to \in tribute.pendingReturn \ DOMAIN card
<1> USE DEF EngineInv
<1> DEFINE from == {m \in tribute.tributes : m.to \in DOMAIN card}
           moves == {[from |-> m.to, to |-> m.from, card |-> card[m.to]] : m \in from}
<1>1. /\ phase = "RETURN_TRIBUTE" /\ DOMAIN card \subseteq tribute.pendingReturn
      /\ hand' = Transfer(hand, moves)
  BY DEF ReturnCardsOf
<1>2. /\ \A s \in tribute.pendingReturn : s \in Seat /\ \E m \in tribute.tributes : m.to = s
      /\ \A m \in tribute.tributes : m.to \in Seat /\ m.from \in Seat
      /\ \A m, o \in tribute.tributes : m.to = o.to => m = o
  BY <1>1 DEF ReturnInv
<1>3. moves \in SUBSET [from : Seat, to : Seat, card : Card]
  <2>1. \A m \in from : card[m.to] \in Card
    BY <1>2 DEF TypeInv
  <2> QED
    BY <1>2, <2>1
<1>4. \A m \in moves : m.card \in hand[m.from] /\ m.from \in DOMAIN card /\ m.card = card[m.from]
  <2> TAKE m \in moves
  <2>1. PICK o \in from : m = [from |-> o.to, to |-> o.from, card |-> card[o.to]]
    OBVIOUS
  <2>2. m.from = o.to /\ m.card = card[o.to] /\ o.to \in DOMAIN card
    BY <2>1
  <2> QED
    BY <2>2
<1>5. \A m, o \in moves : m.card = o.card => m.to = o.to
  <2> SUFFICES ASSUME NEW m \in from, NEW o \in from, card[m.to] = card[o.to]
               PROVE  m.from = o.from
    OBVIOUS
  <2>1. card[m.to] \in hand[m.to] /\ card[m.to] \in hand[o.to] /\ m.to \in Seat /\ o.to \in Seat
    BY <1>2
  <2>2. m.to = o.to
    BY <2>1 DEF HandsInv, HandsDisjoint
  <2> QED
    BY <1>2, <2>2
<1>6. \A m \in from : [from |-> m.to, to |-> m.from, card |-> card[m.to]] \in moves
  OBVIOUS
<1> HIDE DEF moves
<1>7. /\ hand' \in [Seat -> SUBSET Card]
      /\ \A t, u \in Seat : t # u => hand'[t] \cap hand'[u] = {}
      /\ \A m \in moves : m.card \in hand'[m.to]
      /\ \A t \in Seat : \A d \in hand[t] : (\A m \in moves : m.from = t => m.card # d) => d \in hand'[t]
  BY <1>1, <1>3, <1>4, <1>5, TransferKeepsApart DEF HandsInv
<1>8. ASSUME NEW m \in from PROVE hand'[m.from] # {}
  <2> DEFINE back == [from |-> m.to, to |-> m.from, card |-> card[m.to]]
  <2>1. back \in moves /\ back.to = m.from
    BY <1>6
  <2> HIDE DEF back
  <2> QED
    BY <1>7, <2>1
<1>9. \A t \in Seat \ DOMAIN card : hand[t] \subseteq hand'[t]
  BY <1>4, <1>7
<1>10. \A t \in DOMAIN card : hand'[t] # {}
  <2> TAKE t \in DOMAIN card
  <2>1. PICK m \in tribute.tributes : m.to = t
    BY <1>1, <1>2
  <2>2. t \in Seat /\ m.card \in hand[t] /\ hand[t] \ {m.card} # {}
    BY <1>1, <1>2, <2>1 DEF HandsInv
  <2>3. PICK d \in hand[t] : d # card[t]
    BY <2>2
  <2>4. d \in hand'[t]
    BY <1>4, <1>7, <2>2, <2>3
  <2> QED
    BY <2>4
<1>11. ASSUME NEW t \in Seat, hand'[t] = {}
       PROVE  \E m \in tribute.tributes : m.from = t /\ m.to \in tribute.pendingReturn \ DOMAIN card
  <2>1. hand[t] = {}
    BY <1>9, <1>10, <1>11
  <2>2. PICK m \in tribute.tributes : m.from = t /\ m.to \in tribute.pendingReturn
    BY <1>1, <2>1 DEF HandsInv
  <2> QED
    BY <1>8, <1>11, <2>2
<1> QED
  BY <1>1, <1>7, <1>9, <1>11 DEF HandsDisjoint

\* Nobody has a place in a phase of returns, and no card has been played.
LEMMA ReturnLeaves ==
  ASSUME EngineInv, NEW card, ReturnCardsOf(card)
  PROVE  /\ UNCHANGED finishRank /\ UNCHANGED previous /\ IsRanking(previous) /\ Finished(finishRank) = {}
         /\ DOMAIN lastCards' = {} /\ PlayedInv' /\ TrickConsistent'
         /\ lastPlayed = NoSeat /\ lastPlayed' = NoSeat
<1> USE DEF EngineInv
<1>1. phase = "RETURN_TRIBUTE" /\ UNCHANGED finishRank /\ UNCHANGED trickVars /\ UNCHANGED previous
  BY DEF ReturnCardsOf, roundVars
<1>2. IsRanking(previous) /\ Finished(finishRank) = {}
  BY <1>1 DEF PlacesInv, Trading, BeforePlay
<1>3. DOMAIN lastCards' = {}
  BY <1>1 DEF HandsInv, BeforePlay, trickVars
<1>4. PlayedInv'
  BY <1>3 DEF PlayedInv, PlayedCardsGone
<1>5. TrickConsistent'
  BY <1>1 DEF TurnInv, TrickConsistent, trickVars
<1>6. lastPlayed = NoSeat /\ lastPlayed' = NoSeat
  BY <1>1 DEF TurnInv, BeforePlay, trickVars
<1> QED
  BY <1>1, <1>2, <1>3, <1>4, <1>5, <1>6

\* Whoever returns a card has another one left.
LEMMA SomeReturnKeeps ==
  ASSUME EngineInv, NEW card, \A s \in DOMAIN card : card[s] \in hand[s], SomeReturn(card)
  PROVE  EngineInv'
<1> USE DEF EngineInv
<1>1. /\ ReturnCardsOf(card) /\ UNCHANGED phase /\ UNCHANGED current
      /\ tribute' = [tribute EXCEPT !.pendingReturn = @ \ DOMAIN card]
  BY DEF SomeReturn
<1>2. /\ phase = "RETURN_TRIBUTE" /\ DOMAIN card \subseteq tribute.pendingReturn
      /\ hand' \in [Seat -> SUBSET Card] /\ HandsDisjoint'
      /\ \A t \in Seat \ DOMAIN card : hand[t] \subseteq hand'[t]
      /\ \A t \in Seat : hand'[t] = {} =>
             \E m \in tribute.tributes : m.from = t /\ m.to \in tribute.pendingReturn \ DOMAIN card
  BY <1>1, ReturnFacts
<1>3. /\ UNCHANGED finishRank /\ UNCHANGED previous
      /\ DOMAIN lastCards' = {} /\ PlayedInv' /\ TrickConsistent'
      /\ lastPlayed = NoSeat /\ lastPlayed' = NoSeat
  BY <1>1, ReturnLeaves
<1>4. tribute' = [required |-> tribute.required, pendingTributers |-> tribute.pendingTributers,
                  tributes |-> tribute.tributes, pendingReturn |-> tribute.pendingReturn \ DOMAIN card]
  BY <1>1 DEF TypeInv
<1>5. tribute'.tributes = tribute.tributes /\ tribute'.pendingReturn = tribute.pendingReturn \ DOMAIN card
  BY <1>4
<1>6. TypeInv'
  BY <1>1, <1>2, <1>3, <1>4 DEF TypeInv
<1>7. PlacesInv'
  BY <1>1, <1>2, <1>3 DEF PlacesInv, Active
<1>8. TurnInv' /\ EveryoneAnswersOnce'
  BY <1>1, <1>2, <1>3 DEF TurnInv, EveryoneAnswersOnce
<1>9. PayInv'
  BY <1>1, <1>2 DEF PayInv
<1>10. ReturnInv'
  BY <1>1, <1>2, <1>3, <1>5 DEF ReturnInv, TributeOrdered
<1>11. \A m \in tribute.tributes : m.to \in tribute'.pendingReturn =>
           m.card \in hand'[m.to] /\ hand'[m.to] \ {m.card} # {}
  <2> SUFFICES ASSUME NEW m \in tribute.tributes, m.to \in tribute'.pendingReturn
               PROVE  m.card \in hand'[m.to] /\ hand'[m.to] \ {m.card} # {}
    OBVIOUS
  <2>1. m.to \in Seat \ DOMAIN card /\ m.to \in tribute.pendingReturn
    BY <1>2, <1>5 DEF ReturnInv
  <2>2. m.card \in hand[m.to] /\ hand[m.to] \ {m.card} # {}
    BY <1>2, <2>1 DEF HandsInv
  <2>3. hand[m.to] \subseteq hand'[m.to]
    BY <1>2, <2>1
  <2> QED
    BY <2>2, <2>3
<1>12. HandsInv'
  BY <1>1, <1>2, <1>3, <1>5, <1>11 DEF HandsInv
<1> QED
  BY <1>3, <1>6, <1>7, <1>8, <1>9, <1>10, <1>12

\* The last return opens the play with cards in every hand.
LEMMA SubmitReturnKeeps ==
  ASSUME EngineInv, NEW s \in Seat, NEW c \in hand[s], SubmitReturn(s, c)
  PROVE  EngineInv'
<1> USE DEF EngineInv
<1> DEFINE card == [t \in {s} |-> c]
<1>1. ReturnCardsOf(card) /\ DOMAIN card = {s} /\ \A t \in DOMAIN card : card[t] \in hand[t]
  BY DEF SubmitReturn
<1> HIDE DEF card
<1>2. CASE tribute.pendingReturn # {s}
  <2>1. SomeReturn(card)
    BY <1>1, <1>2 DEF SubmitReturn, SomeReturn
  <2> QED
    BY <1>1, <2>1, SomeReturnKeeps
<1>3. CASE tribute.pendingReturn = {s}
  <2>1. phase' = "PLAYING" /\ current' = FirstPlayer(previous, tribute.tributes) /\ tribute' = NoTribute
    BY <1>3 DEF SubmitReturn, FinalizeTribute, BeginPlaying
  <2>2. /\ phase = "RETURN_TRIBUTE" /\ hand' \in [Seat -> SUBSET Card] /\ HandsDisjoint'
        /\ \A t \in Seat : hand'[t] # {}
    BY <1>1, <1>3, ReturnFacts
  <2>3. /\ UNCHANGED finishRank /\ UNCHANGED previous /\ IsRanking(previous) /\ Finished(finishRank) = {}
        /\ PlayedInv' /\ TrickConsistent' /\ lastPlayed' = NoSeat
    BY <1>1, ReturnLeaves
  <2>4. current' \in Seat
    BY <2>1, <2>2, <2>3, FirstPlayerSits DEF ReturnInv
  <2>5. TypeInv'
    BY <2>1, <2>2, <2>3, <2>4 DEF TypeInv, Phases, NoTribute
  <2>6. PlacesInv'
    BY <2>1, <2>3, NoPlaces DEF PlacesInv, Active, BeforePlay, Trading
  <2>7. \A t \in Seat : finishRank'[t] = 0
    BY <2>3 DEF Finished, PlacesInv, Placed
  <2>8. TurnInv' /\ EveryoneAnswersOnce'
    BY <2>3, <2>4, <2>7 DEF TurnInv, EveryoneAnswersOnce
  <2>9. PayInv' /\ ReturnInv'
    BY <2>1 DEF PayInv, ReturnInv
  <2>10. HandsInv'
    BY <2>1, <2>2, <2>7 DEF HandsInv, BeforePlay
  <2> QED
    BY <2>3, <2>5, <2>6, <2>8, <2>9, <2>10
<1> QED
  BY <1>2, <1>3

-----------------------------------------------------------------------------
(* Playing *)

\* A ranking gives every place once, from the first.
LEMMA RankingPlaces ==
  ASSUME NEW ranks, IsRanking(ranks)
  PROVE  Placed(ranks) /\ Finished(ranks) = Seat
<1>1. Finished(ranks) = Seat
  BY SeatFacts DEF IsRanking, Finished
<1>2. ranks \in [Seat -> 0..PlayerCount] /\ \A s \in Seat : ranks[s] <= PlayerCount
  BY SeatFacts DEF IsRanking
<1> QED
  BY <1>1, <1>2, SeatFacts DEF Placed, IsRanking

\* While no team is out, each has a player who goes on.
LEMMA NoTeamOut ==
  ASSUME NEW ranks, ~TeamOut(ranks), NEW t \in Teams
  PROVE  \E s \in Seat \ Finished(ranks) : Team(s) = t
<1> DEFINE team == {s \in Seat : Team(s) = t}
           out == {s \in Finished(ranks) : Team(s) = t}
<1>1. Cardinality(team) = PlayersPerTeam /\ PlayersPerTeam \in Nat
  BY TeamSize, SeatFacts
<1>2. ~(Cardinality(out) >= PlayersPerTeam)
  BY DEF TeamOut
<1>3. team # out
  <2> HIDE DEF team, out
  <2> QED
    BY <1>1, <1>2
<1>4. out \subseteq team
  BY DEF Finished
<1> QED
  BY <1>3, <1>4

\* The lead after a trick is with its winner, or goes on to the nearest of the team who is in.
LEMMA LeadFacts ==
  ASSUME NEW w \in Seat, NEW A \in SUBSET Seat, A # {}
  PROVE  /\ NextActive(w, A) = Nearest(w, A) /\ NextActive(w, A) \in A
         /\ RoundLead(w, A) \in A
         /\ w \in A => RoundLead(w, A) = w
         /\ (\E t \in A : Team(t) = Team(w)) => Team(RoundLead(w, A)) = Team(w)
<1> DEFINE partners == {t \in A : Team(t) = Team(w)}
<1>1. NextActive(w, A) = Nearest(w, A) /\ NextActive(w, A) \in A
  BY NearestIs DEF NextActive
<1>2. partners # {} => Nearest(w, partners) \in partners
  BY NearestIs
<1>3. WindPartner(w, A) \in A /\ (partners # {} => Team(WindPartner(w, A)) = Team(w))
  BY <1>1, <1>2 DEF WindPartner
<1> QED
  BY <1>1, <1>3 DEF RoundLead

\* Distances from a second seat, going round from the first.
LEMMA DistanceOnwards ==
  ASSUME NEW l \in Seat, NEW s \in Seat, s # l, NEW x \in Seat
  PROVE  Distance(s, x) = IF Distance(l, x) > Distance(l, s)
                          THEN Distance(l, x) - Distance(l, s)
                          ELSE Distance(l, x) - Distance(l, s) + PlayerCount
  BY SeatFacts DEF Seat, Distance

\* The players who are in are those without a place.
LEMMA ActiveFacts ==
  ASSUME EngineInv
  PROVE  Active \in SUBSET Seat /\ \A s \in Seat : s \in Active <=> finishRank[s] = 0
<1>1. \A s \in Seat : finishRank[s] \in Nat
  BY SeatFacts DEF EngineInv, PlacesInv, Placed
<1> QED
  BY <1>1 DEF Active, Finished

\* Nobody but the next to move comes between them and the one who passes.
LEMMA PassCounts ==
  ASSUME NEW l \in Seat, NEW s \in Seat, s # l, NEW A \in SUBSET Seat, s \in A,
         NEW n, n = Cardinality({x \in A : Distance(l, x) < Distance(l, s)}),
         ~TrickEnds(s, A, l, n + 1)
  PROVE  LET next == NextActive(s, A)
         IN  /\ next \in A /\ next # l
             /\ n + 1 = Cardinality({x \in A : Distance(l, x) < Distance(l, next)})
<1> DEFINE before == {x \in A : Distance(l, x) < Distance(l, s)}
           next == Nearest(s, A)
           to == {x \in A : Distance(l, x) < Distance(l, next)}
<1>1. \A x \in A : Distance(l, x) \in 1..PlayerCount /\ Distance(s, x) \in 1..PlayerCount
  BY DistanceFacts
<1>2. next = NextActive(s, A) /\ next \in A /\ \A x \in A : Distance(s, next) <= Distance(s, x)
  BY NearestIs, LeadFacts
<1>3. next # l
  BY <1>2 DEF TrickEnds
<1>4. \A x \in A : Distance(s, x) = IF Distance(l, x) > Distance(l, s)
                                    THEN Distance(l, x) - Distance(l, s)
                                    ELSE Distance(l, x) - Distance(l, s) + PlayerCount
  BY DistanceOnwards
<1>5. IsFiniteSet(before) /\ s \notin before /\ before \cup {s} \in SUBSET A
  <2>1. before \in SUBSET Seat
    OBVIOUS
  <2> QED
    BY <1>1, <2>1, SeatFacts, FS_Subset
<1>6. Cardinality(before \cup {s}) = n + 1 /\ n \in Nat
  <2> HIDE DEF before
  <2> QED
    BY <1>5, FS_AddElement, FS_CardinalityType DEF before
<1> HIDE DEF next
<1>7. \E x \in A : Distance(l, x) > Distance(l, s)
  <2> SUFFICES ASSUME \A x \in A : ~(Distance(l, x) > Distance(l, s))
               PROVE  FALSE
    OBVIOUS
  <2>1. \A x \in A : x # s => Distance(l, x) # Distance(l, s)
    BY DistanceFacts
  <2>2. A = before \cup {s}
    BY <1>1, <2>1
  <2>3. l \notin A
    <3>1. Distance(l, l) = PlayerCount /\ Distance(l, s) # PlayerCount /\ Distance(l, s) \in 1..PlayerCount
      BY DistanceFacts
    <3> QED
      BY <3>1, SeatFacts
  <2>4. Cardinality(A \ {l}) = n + 1
    BY <1>6, <2>2, <2>3
  <2>5. AllOthersPassed(A, l, n + 1)
    BY <1>6, <2>4 DEF AllOthersPassed
  <2> QED
    BY <2>5 DEF TrickEnds
<1>8. Distance(l, next) > Distance(l, s)
  BY <1>1, <1>2, <1>4, <1>7, SeatFacts
<1>9. \A x \in A : Distance(l, x) > Distance(l, s) => ~(Distance(l, x) < Distance(l, next))
  BY <1>1, <1>2, <1>4, <1>8, SeatFacts
<1>10. \A x \in A : Distance(l, x) = Distance(l, s) => x = s
  BY DistanceFacts
<1>11. to = before \cup {s}
  BY <1>1, <1>2, <1>8, <1>9, <1>10
<1> QED
  BY <1>2, <1>3, <1>6, <1>11

\* A pass goes on to the next player, or ends the trick when everyone has answered.
LEMMA PassKeeps ==
  ASSUME EngineInv, NEW s \in Seat, Pass(s)
  PROVE  EngineInv'
<1> USE DEF EngineInv
<1>1. phase = "PLAYING" /\ s = current /\ IsValid(lastPattern)
      /\ UNCHANGED phase /\ UNCHANGED hand /\ UNCHANGED finishRank /\ UNCHANGED tribute /\ UNCHANGED previous
  BY DEF Pass, roundVars
<1>2. lastPlayed \in Seat /\ lastPlayed # NoSeat
  BY <1>1 DEF TurnInv, TrickConsistent, TypeInv
<1>3. s \in Active /\ Active \in SUBSET Seat /\ \A t \in Active : finishRank[t] = 0
  BY <1>1, ActiveFacts DEF TurnInv
<1>4. PlacesInv'
  BY <1>1 DEF PlacesInv, Active
<1>5. PayInv' /\ ReturnInv'
  BY <1>1 DEF PayInv, ReturnInv, TributeOrdered
<1>6. HandsInv'
  BY <1>1 DEF HandsInv, HandsDisjoint, BeforePlay
<1>7. CASE TrickEnds(s, Active, lastPlayed, passCount + 1)
  <2>1. current' = RoundLead(lastPlayed, Active) /\ ClearTrick
    BY <1>7 DEF Pass
  <2>2. current' \in Active
    BY <1>2, <1>3, <2>1, LeadFacts
  <2>3. TypeInv'
    BY <1>1, <1>3, <2>1, <2>2 DEF TypeInv, ClearTrick
  <2>4. TurnInv' /\ EveryoneAnswersOnce'
    BY <1>1, <1>3, <2>1, <2>2, InvalidIsNot
       DEF TurnInv, TrickConsistent, EveryoneAnswersOnce, ClearTrick, BeforePlay
  <2>5. PlayedInv'
    BY <2>1, NoCardsIsEmpty DEF PlayedInv, PlayedCardsGone, ClearTrick
  <2> QED
    BY <1>4, <1>5, <1>6, <2>3, <2>4, <2>5
<1>8. CASE ~TrickEnds(s, Active, lastPlayed, passCount + 1)
  <2>1. passCount' = passCount + 1 /\ current' = NextActive(s, Active)
        /\ UNCHANGED lastPlayed /\ UNCHANGED lastCards /\ UNCHANGED lastPattern
    BY <1>1, <1>8 DEF Pass, AdvanceTurn
  <2>2. s # lastPlayed
        /\ passCount = Cardinality({x \in Active : Distance(lastPlayed, x) < Distance(lastPlayed, s)})
    BY <1>1, <1>2 DEF EveryoneAnswersOnce
  <2>3. /\ current' \in Active /\ current' # lastPlayed
        /\ passCount' = Cardinality({x \in Active : Distance(lastPlayed, x) < Distance(lastPlayed, current')})
    BY <1>2, <1>3, <1>8, <2>1, <2>2, PassCounts
  <2>4. TypeInv'
    BY <1>1, <1>3, <2>1, <2>3 DEF TypeInv
  <2>5. Active' = Active
    BY <1>1 DEF Active
  <2>6. EveryoneAnswersOnce'
    BY <2>1, <2>3, <2>5 DEF EveryoneAnswersOnce
  <2>7. TurnInv'
    BY <1>1, <1>2, <1>3, <2>1, <2>3 DEF TurnInv, TrickConsistent, BeforePlay
  <2>8. PlayedInv'
    BY <1>1, <2>1 DEF PlayedInv, PlayedCardsGone
  <2> QED
    BY <1>4, <1>5, <1>6, <2>4, <2>6, <2>7, <2>8
<1> QED
  BY <1>7, <1>8

\* What a play does to the hands and to the trick.
LEMMA PlayFacts ==
  ASSUME EngineInv, NEW s \in Seat, NEW cards \in SUBSET hand[s],
         NEW request \in [cards -> 1..MaxCopies], PlayCards(s, request)
  PROVE  /\ hand' \in [Seat -> SUBSET Card]
         /\ hand'[s] \subseteq hand[s] /\ \A t \in Seat \ {s} : hand'[t] = hand[t]
         /\ HandsDisjoint' /\ PlayedInv' /\ TrickConsistent' /\ lastPlayed' = s /\ passCount' = 0
<1> USE DEF EngineInv
<1>1. /\ hand' = [hand EXCEPT ![s] = RemoveCards(@, request)]
      /\ lastCards' = request /\ lastPattern' = Analyze(request, level)
      /\ lastPlayed' = s /\ passCount' = 0
      /\ DOMAIN request \subseteq hand[s] /\ CanBeat(Analyze(request, level), lastPattern)
  BY DEF PlayCards, Playable
<1>2. hand \in [Seat -> SUBSET Card]
  BY DEF TypeInv
<1>3. RemoveCards(hand[s], request) \subseteq hand[s]
  BY DEF RemoveCards
<1>4. hand'[s] = RemoveCards(hand[s], request) /\ \A t \in Seat \ {s} : hand'[t] = hand[t]
  BY <1>1, <1>2
<1>5. hand' \in [Seat -> SUBSET Card]
  BY <1>1, <1>2, <1>3
<1>6. HandsDisjoint'
  <2>1. \A t \in Seat : hand'[t] \subseteq hand[t]
    BY <1>3, <1>4
  <2> QED
    BY <2>1 DEF HandsInv, HandsDisjoint
<1>7. PlayedInv'
  <2> SUFFICES ASSUME MaxCopies = 1 PROVE PlayedCardsGone'
    BY DEF PlayedInv
  <2>1. \A c \in DOMAIN request : request[c] = 1
    OBVIOUS
  <2>2. hand'[s] = hand[s] \ DOMAIN request
    BY <1>4, <2>1 DEF RemoveCards
  <2>3. \A t \in Seat \ {s} : hand'[t] \cap DOMAIN request = {}
    BY <1>1, <1>4 DEF HandsInv, HandsDisjoint
  <2> QED
    BY <1>1, <2>2, <2>3 DEF PlayedCardsGone
<1>8. TrickConsistent'
  BY <1>1, SeatFacts DEF TrickConsistent, CanBeat
<1> QED
  BY <1>1, <1>3, <1>4, <1>5, <1>6, <1>7, <1>8

\* A play may empty a hand, give a place, end the trick and settle the round.
LEMMA PlayCardsKeeps ==
  ASSUME EngineInv, NEW s \in Seat, NEW cards \in SUBSET hand[s],
         NEW request \in [cards -> 1..MaxCopies], PlayCards(s, request)
  PROVE  EngineInv'
<1> USE DEF EngineInv
<1> DEFINE ranks == IF hand'[s] = {} THEN FinishNext(finishRank, s) ELSE finishRank
<1>1. phase = "PLAYING" /\ s = current /\ finishRank[s] = 0 /\ UNCHANGED tribute
      /\ IF hand'[s] = {} /\ TeamOut(ranks) THEN GameOver(ranks) ELSE GoOn(ranks)
  BY DEF PlayCards
<1>2. /\ hand' \in [Seat -> SUBSET Card]
      /\ hand'[s] \subseteq hand[s] /\ \A t \in Seat \ {s} : hand'[t] = hand[t]
      /\ HandsDisjoint' /\ PlayedInv' /\ TrickConsistent' /\ lastPlayed' = s /\ passCount' = 0
  BY PlayFacts
<1>3. /\ Placed(ranks)
      /\ Finished(ranks) = IF hand'[s] = {} THEN Finished(finishRank) \cup {s} ELSE Finished(finishRank)
  <2>1. Placed(finishRank)
    BY DEF PlacesInv
  <2> QED
    BY <1>1, <2>1, FinishNextPlaces
<1> HIDE DEF ranks
<1>4. phase' # "RETURN_TRIBUTE" /\ phase' # "TRIBUTE" /\ phase' # "WAITING" /\ phase' \in Phases
  BY <1>1 DEF GameOver, GoOn, Phases
<1>5. PayInv' /\ ReturnInv'
  BY <1>4 DEF PayInv, ReturnInv
<1>6. CASE hand'[s] = {} /\ TeamOut(ranks)
  <2>1. phase' = "FINISHED" /\ finishRank' = RankRemaining(ranks) /\ previous' = finishRank' /\ UNCHANGED current
    BY <1>1, <1>6 DEF GameOver
  <2>2. IsRanking(finishRank')
    BY <1>3, <1>6, <2>1, RankRemainingRanks
  <2>3. TypeInv'
    BY <1>1, <1>2, <1>4, <2>1 DEF TypeInv
  <2>4. PlacesInv'
    BY <2>1, <2>2, RankingPlaces DEF PlacesInv, BeforePlay, Trading
  <2>5. TurnInv' /\ EveryoneAnswersOnce' /\ HandsInv'
    BY <1>2, <2>1 DEF TurnInv, EveryoneAnswersOnce, HandsInv, BeforePlay
  <2> QED
    BY <1>2, <1>5, <2>3, <2>4, <2>5
<1>7. CASE ~(hand'[s] = {} /\ TeamOut(ranks))
  <2>1. UNCHANGED phase /\ UNCHANGED previous /\ finishRank' = ranks
        /\ current' = NextActive(s, Seat \ Finished(ranks))
    BY <1>1, <1>7 DEF GoOn, AdvanceTurn
  <2>2. Active' = Seat \ Finished(ranks) /\ Active' \in SUBSET Seat
    BY <2>1 DEF Active
  <2>3. \A t \in Teams : \E u \in Active' : Team(u) = t
    <3>1. CASE hand'[s] = {}
      BY <1>7, <2>2, <3>1, NoTeamOut
    <3>2. CASE hand'[s] # {}
      BY <1>1, <1>3, <2>2, <3>2 DEF PlacesInv, Active
    <3> QED
      BY <3>1, <3>2
  <2>4. PICK o \in Active' : o # s
    <3>1. Team(s) \in Teams /\ 1 - Team(s) \in Teams /\ 1 - Team(s) # Team(s)
      BY SeatFacts DEF Seat, Team, Teams
    <3>2. PICK u \in Active' : Team(u) = 1 - Team(s)
      BY <2>3, <3>1
    <3> QED
      BY <3>1, <3>2
  <2>5. current' \in Active' /\ \A u \in Active' : Distance(s, current') <= Distance(s, u)
    <3>1. current' = Nearest(s, Active') /\ current' \in Active'
      <4> DEFINE left == Seat \ Finished(ranks)
      <4>1. left \in SUBSET Seat /\ left # {} /\ Active' = left /\ current' = NextActive(s, left)
        BY <2>1, <2>2, <2>4
      <4> HIDE DEF left
      <4>2. NextActive(s, left) = Nearest(s, left) /\ NextActive(s, left) \in left
        BY <4>1, LeadFacts, Zenon
      <4> QED
        BY <4>1, <4>2, Zenon
    <3> QED
      BY <2>2, <2>4, <3>1, NearestIs
  <2>6. current' \in Seat /\ current' # s
    <3>1. Distance(s, o) \in 1..PlayerCount /\ Distance(s, o) # PlayerCount /\ Distance(s, s) = PlayerCount
      BY <2>2, <2>4, DistanceFacts
    <3> QED
      BY <2>2, <2>4, <2>5, <3>1, SeatFacts
  <2>7. \A u \in Active' : Distance(s, u) \in Int /\ Distance(s, current') \in Int
    BY <2>2, <2>6, DistanceFacts
  <2>8. {u \in Active' : Distance(s, u) < Distance(s, current')} = {}
    BY <2>5, <2>7
  <2>9. \A t \in Seat : finishRank'[t] \in Nat /\ (t \in Active' <=> finishRank'[t] = 0)
    BY <1>3, <2>1, <2>2, SeatFacts DEF Placed, Finished
  <2>10. TypeInv'
    BY <1>1, <1>2, <1>4, <2>6 DEF TypeInv
  <2>11. PlacesInv'
    BY <1>1, <1>3, <2>1, <2>3 DEF PlacesInv, BeforePlay, Trading
  <2>12. TurnInv'
    BY <1>1, <1>2, <2>1, <2>5, <2>6, <2>9 DEF TurnInv, BeforePlay
  <2>13. EveryoneAnswersOnce'
    BY <1>2, <2>6, <2>8, FS_EmptySet DEF EveryoneAnswersOnce
  <2>14. \A t \in Seat : finishRank'[t] = 0 <=> hand'[t] # {}
    <3> SUFFICES ASSUME NEW t \in Seat PROVE finishRank'[t] = 0 <=> hand'[t] # {}
      OBVIOUS
    <3>1. (finishRank[t] = 0 <=> hand[t] # {}) /\ (t \in Finished(finishRank) <=> finishRank[t] # 0)
      BY <1>1, SeatFacts DEF HandsInv, PlacesInv, Placed, Finished
    <3>2. t \in Active' <=> ~(t \in Finished(ranks))
      BY <2>2
    <3>3. CASE t = s
      BY <1>1, <1>3, <2>9, <3>1, <3>2, <3>3
    <3>4. CASE t # s
      BY <1>2, <1>3, <2>9, <3>1, <3>2, <3>4
    <3> QED
      BY <3>3, <3>4
  <2>15. HandsInv'
    BY <1>1, <1>2, <2>1, <2>14 DEF HandsInv, BeforePlay
  <2> QED
    BY <1>2, <1>5, <2>10, <2>11, <2>12, <2>13, <2>15
<1> QED
  BY <1>6, <1>7

-----------------------------------------------------------------------------
(* The invariant holds *)

\* So every step keeps the round, the trick, the trade and the cards in order.
LEMMA EngineInvStep == EngineInv /\ [EngineStep]_vars => EngineInv'
<1> SUFFICES ASSUME EngineInv, [EngineStep]_vars PROVE EngineInv'
  OBVIOUS
<1>1. CASE \E enabled \in BOOLEAN : SetEnableTribute(enabled)
  BY <1>1, SetEnableTributeKeeps
<1>2. CASE \E d \in Deals : DealGame(d) \/ StartNextRound(d)
  BY <1>2, DealGameKeeps, StartNextRoundKeeps
<1>3. CASE \/ \E payers : SubmitTributes(payers)
           \/ \E s \in Seat : \E c \in hand[s] : SubmitReturn(s, c)
           \/ \E card : (\A s \in DOMAIN card : card[s] \in hand[s]) /\ SomeReturn(card)
  BY <1>3, SubmitTributesKeeps, SubmitReturnKeeps, SomeReturnKeeps
<1>4. CASE Move
  BY <1>4, PlayCardsKeeps, PassKeeps DEF Move
<1>5. CASE UNCHANGED vars
  <2> USE <1>5 DEF EngineInv, vars, trickVars, roundVars
  <2>1. TypeInv'
    BY DEF TypeInv
  <2>2. PlacesInv'
    BY DEF PlacesInv, Active
  <2>3. TurnInv' /\ EveryoneAnswersOnce'
    BY DEF TurnInv, TrickConsistent, EveryoneAnswersOnce, Active
  <2>4. PayInv'
    BY DEF PayInv, Tributers, AllDown, HeadSeat, SeatOfRank
  <2>5. ReturnInv'
    BY DEF ReturnInv, TributeOrdered
  <2>6. HandsInv' /\ PlayedInv'
    BY DEF HandsInv, HandsDisjoint, PlayedInv, PlayedCardsGone
  <2> QED
    BY <2>1, <2>2, <2>3, <2>4, <2>5, <2>6
<1> QED
  BY <1>1, <1>2, <1>3, <1>4, <1>5 DEF EngineStep

\* What the engine does by itself is among these steps.
LEMMA NextIsStep == [Next]_vars => [EngineStep]_vars
<1> SUFFICES ASSUME Next PROVE EngineStep
  OBVIOUS
<1>1. \A d : StartGame(d) => DealGame(d)
  BY DEF StartGame
<1>2. Trade => \/ \E payers : SubmitTributes(payers)
               \/ \E s \in Seat : \E c \in hand[s] : SubmitReturn(s, c)
  BY DEF Trade
<1> QED
  BY <1>1, <1>2 DEF Next, EngineStep

\* By itself the engine ends a trade with the last return.
LEMMA TradeWaitsNext == EngineInv /\ TradeWaits /\ [Next]_vars => TradeWaits'
<1> SUFFICES ASSUME EngineInv, TradeWaits, [Next]_vars PROVE TradeWaits'
  OBVIOUS
<1> USE DEF TradeWaits
<1>1. CASE \E enabled \in BOOLEAN : SetEnableTribute(enabled)
  BY <1>1 DEF SetEnableTribute
<1>2. ASSUME NEW d \in Deals, StartGame(d)
      PROVE  TradeWaits'
  BY <1>2 DEF StartGame, DealGame, BeginPlaying
<1>3. ASSUME NEW d \in Deals, StartNextRound(d)
      PROVE  TradeWaits'
  <2>1. phase' \in {"TRIBUTE", "PLAYING"}
    BY <1>3 DEF StartNextRound, BeginPlaying
  <2>2. tribute'.tributes = {}
    <3>1. \A required, payers :
              [NoTribute EXCEPT !.required = required, !.pendingTributers = payers].tributes = {}
      BY DEF NoTribute
    <3>2. NoTribute.tributes = {}
      BY DEF NoTribute
    <3>3. \/ tribute' = NoTribute
          \/ \E required : tribute' = [NoTribute EXCEPT !.required = required,
                                                        !.pendingTributers = Tributers(previous)]
      BY <1>3 DEF StartNextRound
    <3> QED
      BY <3>1, <3>2, <3>3, Zenon
  <2> QED
    BY <2>1, <2>2
<1>4. ASSUME NEW s \in Seat, SubmitTributes({s})
      PROVE  TradeWaits'
  <2>1. phase = "TRIBUTE" /\ tribute.tributes = {}
    BY <1>4 DEF SubmitTributes
  <2>2. CASE {s} # tribute.pendingTributers
    BY <1>4, <2>1, <2>2 DEF SubmitTributes, EngineInv, TypeInv
  <2>3. CASE {s} = tribute.pendingTributers
    <3> DEFINE moves == AssignTributes(previous, tribute.required)
    <3>1. phase' = "RETURN_TRIBUTE"
          /\ tribute' = [tribute EXCEPT !.pendingTributers = {}, !.tributes = moves,
                                        !.pendingReturn = {m.to : m \in moves}]
      BY <1>4, <2>3 DEF SubmitTributes
    <3>2. moves # {}
      <4>1. Tributers(previous) # {} /\ DOMAIN tribute.required = Tributers(previous)
        BY <2>1, TributersAre DEF EngineInv, PlacesInv, PayInv, Trading
      <4> QED
        BY <4>1 DEF AssignTributes
    <3> HIDE DEF moves
    <3>3. tribute'.pendingReturn = {m.to : m \in moves}
      BY <3>1 DEF EngineInv, TypeInv
    <3> QED
      BY <3>1, <3>2, <3>3
  <2> QED
    BY <2>2, <2>3
<1>5. ASSUME NEW s \in Seat, NEW c \in hand[s], SubmitReturn(s, c)
      PROVE  TradeWaits'
  <2>1. CASE tribute.pendingReturn = {s}
    BY <1>5, <2>1 DEF SubmitReturn, FinalizeTribute, BeginPlaying, NoTribute
  <2>2. CASE tribute.pendingReturn # {s}
    <3>1. phase = "RETURN_TRIBUTE" /\ UNCHANGED phase /\ tribute' = [tribute EXCEPT !.pendingReturn = @ \ {s}]
      BY <1>5, <2>2 DEF SubmitReturn, ReturnCardsOf
    <3>2. tribute'.pendingReturn = tribute.pendingReturn \ {s} /\ tribute.pendingReturn # {}
      BY <3>1 DEF EngineInv, TypeInv
    <3> QED
      BY <2>2, <3>1, <3>2
  <2> QED
    BY <2>1, <2>2
<1>6. ASSUME NEW s \in Seat, NEW request, PlayCards(s, request)
      PROVE  TradeWaits'
  <2>1. phase = "PLAYING" /\ UNCHANGED tribute /\ phase' \in {"PLAYING", "FINISHED"}
    BY <1>6 DEF PlayCards, GameOver, GoOn
  <2> QED
    BY <2>1
<1>7. ASSUME NEW s \in Seat, Pass(s)
      PROVE  TradeWaits'
  BY <1>7 DEF Pass
<1>8. CASE UNCHANGED vars
  BY <1>8 DEF vars
<1> QED
  BY <1>1, <1>2, <1>3, <1>4, <1>5, <1>6, <1>7, <1>8 DEF Next, Trade, Move

\* The invariant of the engine holds in every state.
LEMMA EngineInvAlways == Spec => [](EngineInv /\ TradeWaits)
  BY InitInv, EngineInvStep, NextIsStep, TradeWaitsNext, PTL DEF Spec

-----------------------------------------------------------------------------
(* What the runs check of the engine *)

\* It says what the run checks of the order of a round.
LEMMA RoundIsInOrder == EngineInv => RoundInOrder
<1> SUFFICES ASSUME EngineInv PROVE RoundInOrder
  OBVIOUS
<1> USE DEF EngineInv
<1>1. CurrentCanAct
  BY DEF CurrentCanAct, TurnInv, HandsInv
<1>2. {finishRank[s] : s \in Finished(finishRank)} = 1..Cardinality(Finished(finishRank))
  BY PlacesInOrder DEF PlacesInv
<1>3. phase = "FINISHED" => Finished(finishRank) = Seat
  BY RankingPlaces DEF PlacesInv
<1>4. RanksInOrder
  BY <1>2, <1>3 DEF RanksInOrder, PlacesInv
<1> QED
  BY <1>1, <1>4 DEF RoundInOrder

\* The player to move still holds cards, as do exactly those without a place;
\* the places given are the first ones, both teams stay in the round until it is
\* settled, and then everyone has a place.
THEOREM EngineRoundInOrder == Spec => []RoundInOrder
  BY RoundIsInOrder, EngineInvAlways, PTL

\* The passes counted are those of the players between the last to play and the
\* one to move, whoever has finished meanwhile, and there is a card to beat
\* exactly when somebody has played.
THEOREM EngineTrickInOrder == Spec => []TrickInOrder
<1>1. EngineInv => TrickInOrder
  BY DEF EngineInv, TurnInv, TrickInOrder
<1> QED
  BY <1>1, EngineInvAlways, PTL

\* A trick is followed by one that its winner leads or, when the winner has no
\* cards left, one of the winner's team.
THEOREM EngineLeadStaysInTeam == Spec => LeadStaysInTeam
<1> DEFINE Lead ==
      phase = "PLAYING" /\ phase' = "PLAYING" /\ lastPlayed # NoSeat /\ lastPlayed' = NoSeat
          => /\ Team(current') = Team(lastPlayed)
             /\ finishRank[lastPlayed] = 0 => current' = lastPlayed
<1>1. EngineInv /\ [Next]_vars => [Lead]_vars
  <2> SUFFICES ASSUME EngineInv, Next, phase = "PLAYING", lastPlayed # NoSeat, lastPlayed' = NoSeat
               PROVE  /\ Team(current') = Team(lastPlayed)
                      /\ finishRank[lastPlayed] = 0 => current' = lastPlayed
    OBVIOUS
  <2>1. PICK s \in Seat : Pass(s)
    <3>1. ~(\E enabled \in BOOLEAN : SetEnableTribute(enabled)) /\ ~(\E d \in Deals : StartGame(d) \/ StartNextRound(d))
      BY DEF SetEnableTribute, StartGame, StartNextRound
    <3>2. ~Trade
      BY DEF Trade, SubmitTributes, SubmitReturn, ReturnCardsOf
    <3>3. \A s \in Seat : \A request : ~PlayCards(s, request)
      BY SeatFacts DEF PlayCards
    <3> QED
      BY <3>1, <3>2, <3>3 DEF Next, Move
  <2>2. current' = RoundLead(lastPlayed, Active) /\ s = current
    BY <2>1 DEF Pass
  <2>3. lastPlayed \in Seat /\ Active \in SUBSET Seat /\ current \in Active
        /\ (lastPlayed \in Active <=> finishRank[lastPlayed] = 0)
    BY ActiveFacts DEF EngineInv, TypeInv, TurnInv
  <2>4. \E t \in Active : Team(t) = Team(lastPlayed)
    <3>1. Team(lastPlayed) \in Teams
      BY <2>3, SeatFacts DEF Seat, Team, Teams
    <3> QED
      BY <3>1 DEF EngineInv, PlacesInv
  <2>5. (lastPlayed \in Active => RoundLead(lastPlayed, Active) = lastPlayed)
        /\ Team(RoundLead(lastPlayed, Active)) = Team(lastPlayed)
    BY <2>3, <2>4, LeadFacts
  <2> QED
    BY <2>2, <2>3, <2>5
<1>2. EngineInv /\ [Next]_vars => [phase = "PLAYING" /\ phase' = "PLAYING" /\ lastPlayed # NoSeat /\ lastPlayed' = NoSeat
          => /\ Team(current') = Team(lastPlayed)
             /\ finishRank[lastPlayed] = 0 => current' = lastPlayed]_vars
  BY <1>1
<1> QED
  BY <1>2, EngineInvAlways, PTL DEF Spec, LeadStaysInTeam

\* Unless a request may list a card twice, no card is in two hands or comes back
\* after it has been played.
THEOREM EngineCardsInOnePlace ==
  ASSUME MaxCopies = 1
  PROVE  Spec => []CardsInOnePlace
<1>1. EngineInv => CardsInOnePlace
  BY DEF EngineInv, HandsInv, PlayedInv, CardsInOnePlace
<1> QED
  BY <1>1, EngineInvAlways, PTL

\* No hand has only hearts of one rank, which are wild cards at one of the levels.
PayableDeals ==
    \A d \in Deals : \A s \in Seat :
        \E c, o \in d[s] : Face[c].suit # "HEART" \/ Face[c].rank # Face[o].rank

\* Cards of which one is not wild have a highest one to give.
LEMMA HighestExists ==
  ASSUME NEW cards \in SUBSET Card, NEW l, NEW g \in cards, ~IsWild(g, l)
  PROVE  HighestCards(cards, l) # {}
<1> DEFINE giveable == {c \in cards : ~IsWild(c, l)}
           gaps == {BigJoker - Face[c].rank : c \in giveable}
<1>1. \A c \in giveable : Face[c].rank \in 2..BigJoker
  BY FaceAssumption DEF Ranks
<1>2. gaps \in SUBSET Nat /\ gaps # {}
  BY <1>1 DEF BigJoker
<1>3. PICK m \in gaps : \A n \in gaps : m <= n
  BY <1>2, LeastExists
<1>4. PICK c \in giveable : m = BigJoker - Face[c].rank
  BY <1>3
<1>5. ASSUME NEW o \in giveable PROVE Face[c].rank >= Face[o].rank
  <2>1. BigJoker - Face[o].rank \in gaps
    OBVIOUS
  <2>2. BigJoker - Face[c].rank <= BigJoker - Face[o].rank
    BY <1>3, <1>4, <2>1
  <2>3. Face[c].rank \in Int /\ Face[o].rank \in Int
    BY <1>1, <1>4
  <2> HIDE DEF giveable, gaps
  <2> QED
    BY <2>2, <2>3 DEF BigJoker
<1>6. c \in HighestCards(cards, l)
  BY <1>4, <1>5 DEF HighestCards
<1> QED
  BY <1>6

\* Whoever is to pay is required to pay with a card of theirs, and nobody is
\* asked for another one later.
LEMMA PaymentPossibleNext ==
  ASSUME NoCard \notin Card, PayableDeals
  PROVE  EngineInv /\ PaymentPossible /\ [Next]_vars => PaymentPossible'
<1> SUFFICES ASSUME EngineInv, PaymentPossible, [Next]_vars, phase' = "TRIBUTE"
             PROVE  \A s \in tribute'.pendingTributers : tribute'.required[s] # NoCard
  BY DEF PaymentPossible
<1>1. ASSUME NEW d \in Deals, StartNextRound(d)
      PROVE  \A s \in tribute'.pendingTributers : tribute'.required[s] # NoCard
  <2>1. enableTribute /\ ~AntiTribute(previous, d) /\ IsRanking(previous)
    BY <1>1 DEF StartNextRound, BeginPlaying, EngineInv, PlacesInv
  <2>2. PICK required \in RequiredCards(previous, d, level') :
             tribute' = [NoTribute EXCEPT !.required = required,
                                          !.pendingTributers = Tributers(previous)]
    BY <1>1, <2>1 DEF StartNextRound
  <2>3. tribute'.required = required /\ tribute'.pendingTributers = Tributers(previous)
    BY <2>2 DEF NoTribute
  <2>4. ASSUME NEW s \in Tributers(previous)
        PROVE  required[s] # NoCard
    <3>1. s \in Seat /\ d[s] \in SUBSET Card
      BY <2>1, TributersAre, DealsAssumption
    <3>2. PICK g \in d[s] : ~IsWild(g, level')
      BY <3>1 DEF PayableDeals, IsWild
    <3>3. HighestCards(d[s], level') # {}
      BY <3>1, <3>2, HighestExists
    <3>4. HighestCards(d[s], level') \subseteq d[s]
      BY DEF HighestCards
    <3>5. required[s] \in HighestCards(d[s], level')
      BY <3>3 DEF RequiredCards
    <3> QED
      BY <3>1, <3>4, <3>5
  <2> QED
    BY <2>3, <2>4
<1>2. ASSUME NEW s \in Seat, SubmitTributes({s})
      PROVE  \A t \in tribute'.pendingTributers : tribute'.required[t] # NoCard
  <2>1. phase = "TRIBUTE" /\ tribute' = [tribute EXCEPT !.pendingTributers = @ \ {s}]
    BY <1>2 DEF SubmitTributes
  <2>2. tribute'.pendingTributers \subseteq tribute.pendingTributers /\ tribute'.required = tribute.required
    BY <2>1 DEF EngineInv, TypeInv
  <2> QED
    BY <2>1, <2>2 DEF PaymentPossible
<1>3. CASE UNCHANGED <<phase, tribute>>
  BY <1>3 DEF PaymentPossible
<1>4. \A enabled \in BOOLEAN : SetEnableTribute(enabled) => UNCHANGED <<phase, tribute>>
  BY DEF SetEnableTribute
<1>5. \A d \in Deals : ~StartGame(d)
  BY DEF StartGame, DealGame, BeginPlaying
<1>6. \A s \in Seat : \A c \in hand[s] : ~SubmitReturn(s, c)
  BY DEF SubmitReturn, ReturnCardsOf, FinalizeTribute, BeginPlaying
<1>7. \A s \in Seat : \A request : ~PlayCards(s, request)
  BY DEF PlayCards, GameOver, GoOn
<1>8. \A s \in Seat : ~Pass(s)
  BY DEF Pass
<1>9. CASE UNCHANGED vars
  BY <1>3, <1>9 DEF vars
<1> QED
  BY <1>1, <1>2, <1>3, <1>4, <1>5, <1>6, <1>7, <1>8, <1>9 DEF Next, Trade, Move

\* In a deck without the card of number 0, dealt so that no hand has only hearts
\* of one rank, a trade has somebody to wait for who has a card that the engine
\* takes, and the higher of two tributes goes to the better place.
THEOREM EngineTradeInOrder ==
  ASSUME NoCard \notin Card, PayableDeals
  PROVE  Spec => []TradeInOrder
<1>1. EngineInv /\ TradeWaits /\ PaymentPossible => TradeInOrder
  <2> SUFFICES ASSUME EngineInv, TradeWaits, PaymentPossible PROVE TradeInOrder
    OBVIOUS
  <2> USE DEF EngineInv
  <2>1. TributeWaitsForSomeone /\ TributeOrdered
    BY DEF TributeWaitsForSomeone, PayInv, ReturnInv, TradeWaits, TributeOrdered
  <2>2. ReturnPossible
    <3> SUFFICES ASSUME phase = "RETURN_TRIBUTE", NEW s \in tribute.pendingReturn
                 PROVE  ReturnCards(hand[s], level) # {}
      BY DEF ReturnPossible
    <3>1. s \in Seat /\ hand[s] # {} /\ hand[s] \subseteq Card
      <4>1. PICK m \in tribute.tributes : m.to = s
        BY DEF ReturnInv
      <4> QED
        BY <4>1 DEF ReturnInv, HandsInv, TypeInv
    <3> DEFINE R == {SingleRank(c, level) : c \in hand[s]}
    <3>2. \A c \in hand[s] : SingleRank(c, level) \in Nat
      <4>1. \A c \in hand[s] : Face[c].rank \in Nat
        BY <3>1, CardHasRank
      <4> QED
        BY <4>1 DEF SingleRank, PatternRank, SmallJokerPatternRank, BigJokerPatternRank, LevelCardPatternRank
    <3>3. PICK r \in R : \A n \in R : r <= n
      BY <3>1, <3>2, LeastExists
    <3>4. SmallestCards(hand[s], level) # {} /\ SmallestCards(hand[s], level) \subseteq hand[s]
      BY <3>3 DEF SmallestCards
    <3> QED
      BY <3>1, <3>4 DEF ReturnCards
  <2> QED
    BY <2>1, <2>2 DEF TradeInOrder
<1>2. Init => PaymentPossible
  BY DEF Init, PaymentPossible
<1>3. EngineInv /\ PaymentPossible /\ [Next]_vars => PaymentPossible'
  BY PaymentPossibleNext
<1> QED
  BY <1>1, <1>2, <1>3, EngineInvAlways, PTL DEF Spec

-----------------------------------------------------------------------------
(* Trading leaves the hands even *)

\* deal gives every player as many cards, or throws.
EvenDeals == \A d \in Deals : \A s, t \in Seat : Cardinality(d[s]) = Cardinality(d[t])

FiniteHands == \A s \in Seat : IsFiniteSet(hand[s])
EvenHands == \A s, t \in Seat : Cardinality(hand[s]) = Cardinality(hand[t])

\* The cards of a hand, had the returns been made that are still due to or from it.
CountWhenSettled(s) ==
    Cardinality(hand[s])
        - (IF s \in tribute.pendingReturn THEN 1 ELSE 0)
        + (IF \E m \in tribute.tributes : m.from = s /\ m.to \in tribute.pendingReturn THEN 1 ELSE 0)

CountInv ==
    /\ phase \in Trading => FiniteHands
    /\ phase = "TRIBUTE" => EvenHands
    /\ phase = "RETURN_TRIBUTE" => \A s, t \in Seat : CountWhenSettled(s) = CountWhenSettled(t)

\* A card that moves makes one hand smaller and one larger.
LEMMA TransferCounts ==
  ASSUME HandsDisjoint, FiniteHands,
         NEW moves, \A m \in moves : m.from \in Seat /\ m.to \in Seat /\ m.card \in hand[m.from],
         \A m, o \in moves : m.from = o.from => m = o,
         \A m, o \in moves : m.to = o.to => m = o,
         NEW s \in Seat
  PROVE  /\ IsFiniteSet(Transfer(hand, moves)[s])
         /\ Cardinality(Transfer(hand, moves)[s]) =
                Cardinality(hand[s]) - (IF \E m \in moves : m.from = s THEN 1 ELSE 0)
                                     + (IF \E m \in moves : m.to = s THEN 1 ELSE 0)
<1> DEFINE out == {m.card : m \in {m \in moves : m.from = s}}
           in == {m.card : m \in {m \in moves : m.to = s}}
           left == hand[s] \ out
<1>1. Transfer(hand, moves)[s] = left \cup in
  BY DEF Transfer
<1>2. IsFiniteSet(hand[s]) /\ Cardinality(hand[s]) \in Int
  BY FS_CardinalityType DEF FiniteHands
<1>3. /\ IsFiniteSet(left)
      /\ Cardinality(left) = Cardinality(hand[s]) - (IF \E m \in moves : m.from = s THEN 1 ELSE 0)
  <2>1. CASE \E m \in moves : m.from = s
    <3>1. PICK m \in moves : m.from = s
      BY <2>1
    <3>2. out = {m.card} /\ m.card \in hand[s]
      BY <3>1
    <3>3. left = hand[s] \ {m.card}
      BY <3>2
    <3> HIDE DEF left
    <3>4. IsFiniteSet(left) /\ Cardinality(left) = Cardinality(hand[s]) - 1
      BY <1>2, <3>2, <3>3, FS_RemoveElement
    <3> QED
      BY <2>1, <3>4
  <2>2. CASE ~\E m \in moves : m.from = s
    <3>1. left = hand[s]
      BY <2>2
    <3> HIDE DEF left
    <3> QED
      BY <1>2, <2>2, <3>1
  <2> QED
    BY <2>1, <2>2
<1>4. Cardinality(left) \in Int
  BY <1>3, FS_CardinalityType
<1>5. CASE \E m \in moves : m.to = s
  <2>1. PICK m \in moves : m.to = s
    BY <1>5
  <2>2. in = {m.card}
    BY <2>1
  <2>3. m.card \notin left
    <3>1. CASE m.from = s
      BY <3>1
    <3>2. CASE m.from # s
      BY <2>1, <3>2 DEF HandsDisjoint
    <3> QED
      BY <3>1, <3>2
  <2>4. left \cup in = left \cup {m.card}
    BY <2>2
  <2> HIDE DEF left, in
  <2>5. IsFiniteSet(left \cup in) /\ Cardinality(left \cup in) = Cardinality(left) + 1
    BY <1>3, <2>3, <2>4, FS_AddElement
  <2> QED
    BY <1>1, <1>2, <1>3, <1>4, <1>5, <2>5
<1>6. CASE ~\E m \in moves : m.to = s
  <2>1. Transfer(hand, moves)[s] = left
    BY <1>1, <1>6
  <2> HIDE DEF left, in
  <2>2. Cardinality(left) = Cardinality(left) + 0
    BY <1>4
  <2> QED
    BY <1>3, <1>6, <2>1, <2>2
<1> QED
  BY <1>5, <1>6

\* Whoever has paid has one card less until they get one back, and whoever was
\* paid has one more.
LEMMA PaymentsCount ==
  ASSUME EngineInv, CountInv, NEW payers, SubmitTributes(payers)
  PROVE  CountInv'
<1> USE DEF EngineInv
<1>1. phase = "TRIBUTE" /\ payers \subseteq tribute.pendingTributers
      /\ \A s \in payers : tribute.required[s] # NoCard
  BY DEF SubmitTributes
<1>2. FiniteHands /\ EvenHands
  BY <1>1 DEF CountInv, Trading
<1>3. CASE payers # tribute.pendingTributers
  <2>1. UNCHANGED <<phase, hand>>
    BY <1>3 DEF SubmitTributes
  <2> QED
    BY <1>1, <1>2, <2>1 DEF CountInv, FiniteHands, EvenHands
<1>4. CASE payers = tribute.pendingTributers
  <2> DEFINE moves == AssignTributes(previous, tribute.required)
  <2>1. /\ hand' = Transfer(hand, moves) /\ phase' = "RETURN_TRIBUTE"
        /\ tribute' = [tribute EXCEPT !.pendingTributers = {}, !.tributes = moves,
                                      !.pendingReturn = {m.to : m \in moves}]
    BY <1>4 DEF SubmitTributes
  <2>2. tribute'.tributes = moves /\ tribute'.pendingReturn = {m.to : m \in moves}
    BY <2>1 DEF TypeInv
  <2>3. IsRanking(previous) /\ Tributers(previous) \in SUBSET Seat
    BY <1>1, TributersAre DEF PlacesInv, Trading
  <2>4. \A s \in Tributers(previous) : tribute.required[s] \in hand[s] /\ tribute.required[s] \in Card
    BY <1>1, <1>4, <2>3 DEF PayInv, TypeInv
  <2>5. DOMAIN tribute.required = Tributers(previous)
    BY <1>1 DEF PayInv
  <2>6. /\ moves \subseteq [from : Seat, to : Seat, card : Card]
        /\ \A m \in moves : m.from \in Tributers(previous) /\ m.card = tribute.required[m.from]
        /\ \A m, o \in moves : m.from = o.from => m = o
        /\ \A m, o \in moves : m.to = o.to => m = o
    BY <2>3, <2>4, <2>5, TributesAssigned
  <2> HIDE DEF moves
  <2>7. \A m \in moves : m.from \in Seat /\ m.to \in Seat /\ m.card \in hand[m.from]
    BY <2>4, <2>6
  <2>8. \A s \in Seat :
            /\ IsFiniteSet(hand'[s])
            /\ Cardinality(hand'[s]) =
                   Cardinality(hand[s]) - (IF \E m \in moves : m.from = s THEN 1 ELSE 0)
                                        + (IF \E m \in moves : m.to = s THEN 1 ELSE 0)
    BY <1>2, <2>1, <2>6, <2>7, TransferCounts DEF HandsInv
  <2>9. \A s \in Seat : Cardinality(hand[s]) \in Int /\ Cardinality(hand'[s]) \in Int
    BY <1>2, <2>8, FS_CardinalityType DEF FiniteHands
  <2>10. \A s \in Seat : CountWhenSettled(s)' = Cardinality(hand[s])
    <3> TAKE s \in Seat
    <3>1. s \in tribute'.pendingReturn <=> \E m \in moves : m.to = s
      BY <2>2
    <3>2. (\E m \in tribute'.tributes : m.from = s /\ m.to \in tribute'.pendingReturn)
              <=> \E m \in moves : m.from = s
      BY <2>2
    <3> QED
      BY <2>8, <2>9, <3>1, <3>2 DEF CountWhenSettled
  <2> QED
    BY <1>2, <2>1, <2>8, <2>10 DEF CountInv, FiniteHands, EvenHands
<1> QED
  BY <1>3, <1>4

\* Returns settle what they are about and leave the other debts alone.
LEMMA ReturnsCount ==
  ASSUME EngineInv, CountInv, NEW card, \A s \in DOMAIN card : card[s] \in hand[s], ReturnCardsOf(card)
  PROVE  LET due == tribute.pendingReturn \ DOMAIN card IN
         /\ FiniteHands'
         /\ \A s \in Seat :
                Cardinality(hand'[s])
                    - (IF s \in due THEN 1 ELSE 0)
                    + (IF \E m \in tribute.tributes : m.from = s /\ m.to \in due THEN 1 ELSE 0)
                = CountWhenSettled(s)
<1> USE DEF EngineInv
<1> DEFINE due == tribute.pendingReturn \ DOMAIN card
           made == {m \in tribute.tributes : m.to \in DOMAIN card}
           back(m) == [from |-> m.to, to |-> m.from, card |-> card[m.to]]
           moves == {back(m) : m \in made}
<1>1. /\ phase = "RETURN_TRIBUTE" /\ DOMAIN card \subseteq tribute.pendingReturn
      /\ hand' = Transfer(hand, moves)
  BY DEF ReturnCardsOf
<1>2. /\ \A s \in tribute.pendingReturn : s \in Seat /\ \E m \in tribute.tributes : m.to = s
      /\ \A m \in tribute.tributes : m.to \in Seat /\ m.from \in Seat
      /\ \A m, o \in tribute.tributes : (m.to = o.to => m = o) /\ (m.from = o.from => m = o)
  BY <1>1 DEF ReturnInv, TributeOrdered
<1>3. \A m : back(m).from = m.to /\ back(m).to = m.from /\ back(m).card = card[m.to]
  OBVIOUS
<1> HIDE DEF back
<1>4. \A m \in moves : m.from \in Seat /\ m.to \in Seat /\ m.card \in hand[m.from]
  BY <1>2, <1>3
<1>5. \A m, o \in moves : (m.from = o.from => m = o) /\ (m.to = o.to => m = o)
  BY <1>2, <1>3
<1>6. \A s \in Seat : (\E m \in moves : m.from = s) <=> s \in DOMAIN card
  BY <1>1, <1>2, <1>3
<1>7. \A s \in Seat : (\E m \in moves : m.to = s) <=> \E m \in tribute.tributes : m.from = s /\ m.to \in DOMAIN card
  BY <1>2, <1>3
<1> HIDE DEF moves
<1>8. FiniteHands
  BY <1>1 DEF CountInv, Trading
<1>9. \A s \in Seat :
          /\ IsFiniteSet(hand'[s])
          /\ Cardinality(hand'[s]) =
                 Cardinality(hand[s]) - (IF \E m \in moves : m.from = s THEN 1 ELSE 0)
                                      + (IF \E m \in moves : m.to = s THEN 1 ELSE 0)
  BY <1>1, <1>4, <1>5, <1>8, TransferCounts DEF HandsInv
<1>10. \A s \in Seat : Cardinality(hand[s]) \in Int /\ Cardinality(hand'[s]) \in Int
  BY <1>8, <1>9, FS_CardinalityType DEF FiniteHands
<1>11. ASSUME NEW s \in Seat
       PROVE  Cardinality(hand'[s])
                  - (IF s \in due THEN 1 ELSE 0)
                  + (IF \E m \in tribute.tributes : m.from = s /\ m.to \in due THEN 1 ELSE 0)
              = CountWhenSettled(s)
  <2> DEFINE returns == s \in DOMAIN card
             owes == s \in tribute.pendingReturn
             owesStill == s \in due
             gets == \E m \in tribute.tributes : m.from = s /\ m.to \in DOMAIN card
             waits == \E m \in tribute.tributes : m.from = s /\ m.to \in tribute.pendingReturn
             waitsStill == \E m \in tribute.tributes : m.from = s /\ m.to \in due
  <2>1. Cardinality(hand'[s]) =
            Cardinality(hand[s]) - (IF returns THEN 1 ELSE 0) + (IF gets THEN 1 ELSE 0)
    BY <1>6, <1>7, <1>9
  <2>2. (owes <=> returns \/ owesStill) /\ ~(returns /\ owesStill)
    BY <1>1
  <2>3. (waits <=> gets \/ waitsStill) /\ ~(gets /\ waitsStill)
    BY <1>1, <1>2
  <2>4. CountWhenSettled(s) =
            Cardinality(hand[s]) - (IF owes THEN 1 ELSE 0) + (IF waits THEN 1 ELSE 0)
    BY DEF CountWhenSettled
  <2> HIDE DEF returns, owes, owesStill, gets, waits, waitsStill
  <2>5. Cardinality(hand'[s]) - (IF owesStill THEN 1 ELSE 0) + (IF waitsStill THEN 1 ELSE 0)
            = CountWhenSettled(s)
    BY <1>10, <2>1, <2>2, <2>3, <2>4
  <2> QED
    BY <2>5 DEF owesStill, waitsStill
<1> QED
  BY <1>9, <1>11 DEF FiniteHands

\* Payments and returns keep the hands even, once all returns are counted.
LEMMA CountInvStep ==
  ASSUME EvenDeals, EngineInv, CountInv, [EngineStep]_vars
  PROVE  CountInv' /\ (phase # "PLAYING" /\ phase' = "PLAYING" => EvenHands')
<1>1. CASE \E enabled \in BOOLEAN : SetEnableTribute(enabled)
  BY <1>1 DEF SetEnableTribute, CountInv, Trading
<1>2. ASSUME NEW d \in Deals, DealGame(d) \/ StartNextRound(d)
      PROVE  FiniteHands' /\ EvenHands' /\ phase' # "RETURN_TRIBUTE"
  <2>1. \A n : Deal(d, n) => hand' = d
    BY DEF Deal
  <2>2. DealGame(d) => hand' = d /\ phase' = "PLAYING"
    BY <2>1 DEF DealGame, BeginPlaying
  <2>3. ASSUME StartNextRound(d)
        PROVE  hand' = d /\ phase' \in {"TRIBUTE", "PLAYING"}
    <3>1. Deal(d, round + 1)
      BY <2>3 DEF StartNextRound
    <3>2. phase' \in {"TRIBUTE", "PLAYING"}
      BY <2>3 DEF StartNextRound, BeginPlaying
    <3> QED
      BY <2>1, <3>1, <3>2
  <2>4. hand' = d /\ phase' # "RETURN_TRIBUTE"
    BY <1>2, <2>2, <2>3
  <2> QED
    BY <2>4, DealsAssumption DEF EvenDeals, FiniteHands, EvenHands
<1>3. ASSUME NEW payers, SubmitTributes(payers)
      PROVE  CountInv' /\ phase' # "PLAYING"
  <2>1. phase' # "PLAYING"
    BY <1>3 DEF SubmitTributes
  <2> QED
    BY <1>3, <2>1, PaymentsCount
<1>4. ASSUME NEW card, \A s \in DOMAIN card : card[s] \in hand[s], SomeReturn(card)
      PROVE  CountInv' /\ phase' = phase
  <2>1. ReturnCardsOf(card) /\ UNCHANGED phase /\ phase = "RETURN_TRIBUTE"
    BY <1>4 DEF SomeReturn, ReturnCardsOf
  <2>2. tribute'.tributes = tribute.tributes
        /\ tribute'.pendingReturn = tribute.pendingReturn \ DOMAIN card
    BY <1>4 DEF SomeReturn, EngineInv, TypeInv
  <2>3. FiniteHands' /\ \A s \in Seat : CountWhenSettled(s)' = CountWhenSettled(s)
    BY <1>4, <2>1, <2>2, ReturnsCount DEF CountWhenSettled
  <2> QED
    BY <2>1, <2>3 DEF CountInv
<1>5. ASSUME NEW s \in Seat, NEW c \in hand[s], SubmitReturn(s, c)
      PROVE  CountInv' /\ (phase' = "PLAYING" => EvenHands')
  <2> DEFINE card == [t \in {s} |-> c]
  <2>1. ReturnCardsOf(card) /\ DOMAIN card = {s} /\ \A t \in DOMAIN card : card[t] \in hand[t]
    BY <1>5 DEF SubmitReturn
  <2> HIDE DEF card
  <2>2. CASE tribute.pendingReturn # {s}
    <3>1. SomeReturn(card)
      BY <1>5, <2>1, <2>2 DEF SubmitReturn, SomeReturn
    <3>2. phase = "RETURN_TRIBUTE"
      BY <2>1 DEF ReturnCardsOf
    <3> QED
      BY <1>4, <2>1, <3>1, <3>2
  <2>3. CASE tribute.pendingReturn = {s}
    <3>1. phase = "RETURN_TRIBUTE" /\ phase' = "PLAYING"
      BY <1>5, <2>1, <2>3 DEF SubmitReturn, ReturnCardsOf, FinalizeTribute, BeginPlaying
    <3>2. FiniteHands' /\ \A t \in Seat : Cardinality(hand'[t]) = CountWhenSettled(t)
      <4>1. tribute.pendingReturn \ DOMAIN card = {}
        BY <2>1, <2>3
      <4>2. FiniteHands' /\ \A t \in Seat : Cardinality(hand'[t]) - 0 + 0 = CountWhenSettled(t)
        BY <2>1, <4>1, ReturnsCount
      <4>3. \A t \in Seat : Cardinality(hand'[t]) \in Int
        BY <4>2, FS_CardinalityType DEF FiniteHands
      <4> QED
        BY <4>2, <4>3
    <3> QED
      BY <3>1, <3>2 DEF CountInv, EvenHands, Trading
  <2> QED
    BY <2>2, <2>3
<1>6. CASE Move
  <2>1. phase = "PLAYING" /\ phase' \notin Trading
    BY <1>6 DEF Move, PlayCards, GameOver, GoOn, Pass, Trading
  <2> QED
    BY <2>1 DEF CountInv, Trading
<1>7. CASE UNCHANGED vars
  <2>1. UNCHANGED phase /\ UNCHANGED hand /\ UNCHANGED tribute
    BY <1>7 DEF vars
  <2> QED
    BY <2>1 DEF CountInv, FiniteHands, EvenHands, CountWhenSettled
<1> QED
  <2>1. ASSUME NEW d \in Deals, DealGame(d) \/ StartNextRound(d)
        PROVE  CountInv' /\ EvenHands'
    BY <1>2, <2>1 DEF CountInv
  <2>2. CASE EngineStep
    BY <1>1, <1>3, <1>4, <1>5, <1>6, <2>1, <2>2 DEF EngineStep, SetEnableTribute
  <2> QED
    BY <1>7, <2>2 DEF vars

\* If the cards are dealt evenly, everybody starts to play with as many cards as
\* everybody else, whatever was paid and returned before.
THEOREM EngineHandsEven ==
  ASSUME EvenDeals
  PROVE  Spec => HandsEvenWhenPlayStarts
<1>1. Init => CountInv
  BY DEF Init, CountInv, Trading
<1>2. EngineInv /\ CountInv /\ [Next]_vars =>
          CountInv' /\ [phase # "PLAYING" /\ phase' = "PLAYING"
                           => \A s, t \in Seat : Cardinality(hand'[s]) = Cardinality(hand'[t])]_vars
  BY NextIsStep, CountInvStep DEF EvenHands
<1> QED
  BY <1>1, <1>2, EngineInvAlways, PTL DEF Spec, HandsEvenWhenPlayStarts

-----------------------------------------------------------------------------
(* The engine implements the match *)

InRound == phase \in {"TRIBUTE", "RETURN_TRIBUTE", "PLAYING"}

\* A deal starts a round of the match.
LEMMA DealStartsRound ==
  ASSUME NEW d, NEW n, Deal(d, n), ~InRound, InRound'
  PROVE  Ladder!StartRound
<1>1. matchWon' = FALSE /\ progress' = PrepareNextRound(progress)
  BY DEF Deal
<1> QED
  BY <1>1 DEF Ladder!StartRound, Ladder!PrepareNextRound, PrepareNextRound, Ladder!NoTeam, NoTeam, InRound

\* The end of a round settles it, for what the ranking is worth.
LEMMA GameOverSettles ==
  ASSUME NEW ranks, GameOver(ranks), IsRanking(finishRank'), phase = "PLAYING"
  PROVE  \E winner \in Teams, upgrade \in Ladder!Upgrades : Ladder!SettleRound(winner, upgrade)
<1> DEFINE winner == WinningTeam(finishRank')
           upgrade == LevelUpgrade(finishRank')
<1>1. /\ phase' = "FINISHED"
      /\ progress' = ApplySettlement(progress, winner, upgrade)
      /\ matchWon' = WinsMatch(progress, winner, upgrade)
  BY DEF GameOver
<1>2. winner \in Teams /\ upgrade \in Ladder!Upgrades
  BY WorthOfRound
<1>3. Ladder!SettleRound(winner, upgrade)
  <2> HIDE DEF winner, upgrade
  <2>1. Ladder!IsPassARound(progress) = IsPassARound(progress)
    BY DEF Ladder!IsPassARound, IsPassARound, Ladder!LevelA, LevelA
  <2>2. Ladder!WinsMatch(progress, winner, upgrade) = WinsMatch(progress, winner, upgrade)
    BY <2>1 DEF Ladder!WinsMatch, WinsMatch
  <2>3. Ladder!FailPassA(progress) = FailPassA(progress)
    BY DEF Ladder!FailPassA, FailPassA, Ladder!PassAFailLimit, PassAFailLimit
  <2>4. Ladder!Climb(progress, winner, upgrade) = Climb(progress, winner, upgrade)
    BY DEF Ladder!Climb, Climb, Ladder!LevelA, LevelA
  <2>5. Ladder!ApplySettlement(progress, winner, upgrade) = ApplySettlement(progress, winner, upgrade)
    BY <2>1, <2>2, <2>3, <2>4 DEF Ladder!ApplySettlement, ApplySettlement
  <2> QED
    BY <1>1, <2>2, <2>5 DEF Ladder!SettleRound
<1> QED
  BY <1>2, <1>3

\* Nothing has been won while a round is on.
OpenInv == InRound => matchWon = FALSE

\* No round is on when the match is won.
LEMMA OpenInvStep == OpenInv /\ [EngineStep]_vars => OpenInv'
<1> SUFFICES ASSUME OpenInv, [EngineStep]_vars PROVE OpenInv'
  OBVIOUS
<1> USE DEF OpenInv, InRound
<1>1. CASE \E enabled \in BOOLEAN : SetEnableTribute(enabled)
  BY <1>1 DEF SetEnableTribute
<1>2. ASSUME NEW d \in Deals, DealGame(d) \/ StartNextRound(d)
      PROVE  OpenInv'
  BY <1>2 DEF DealGame, StartNextRound, Deal
<1>3. ASSUME \/ \E payers : SubmitTributes(payers)
             \/ \E s \in Seat : \E c \in hand[s] : SubmitReturn(s, c)
             \/ \E card : SomeReturn(card)
      PROVE  InRound /\ UNCHANGED matchWon
  BY <1>3 DEF SubmitTributes, SubmitReturn, SomeReturn, ReturnCardsOf, roundVars
<1>4. CASE Move
  BY <1>4 DEF Move, PlayCards, GameOver, GoOn, Pass, roundVars
<1>5. CASE UNCHANGED vars
  BY <1>5 DEF vars, roundVars
<1> QED
  BY <1>1, <1>2, <1>3, <1>4, <1>5 DEF EngineStep

\* A deal while a round is on abandons it, any other begins one.
LEMMA DealIsMatchStep ==
  ASSUME OpenInv, NEW d \in Deals, NEW n, Deal(d, n), InRound'
  PROVE  Ladder!Next
<1>1. CASE ~InRound
  BY <1>1, DealStartsRound DEF Ladder!Next
<1>2. CASE InRound
  <2>1. progress' = Ladder!PrepareNextRound(progress)
    BY DEF Deal, Ladder!PrepareNextRound, PrepareNextRound, Ladder!NoTeam, NoTeam
  <2>2. UNCHANGED matchWon /\ UNCHANGED InRound
    BY <1>2 DEF OpenInv, Deal, InRound
  <2>3. Ladder!AbandonRound
    BY <1>2, <2>1, <2>2 DEF Ladder!AbandonRound, InRound
  <2> QED
    BY <2>3 DEF Ladder!Next
<1> QED
  BY <1>1, <1>2

\* Every step of the engine is one of the match or leaves it alone.
LEMMA StepIsMatchStep ==
  ASSUME EngineInv, EngineInv', OpenInv, [EngineStep]_vars
  PROVE  [Ladder!Next]_(Ladder!vars)
<1> USE DEF InRound
<1>1. CASE \E enabled \in BOOLEAN : SetEnableTribute(enabled)
  BY <1>1 DEF SetEnableTribute, Ladder!vars
<1>2. ASSUME NEW d \in Deals, DealGame(d)
      PROVE  Ladder!Next
  BY <1>2, DealIsMatchStep DEF DealGame, BeginPlaying
<1>3. ASSUME NEW d \in Deals, StartNextRound(d)
      PROVE  Ladder!Next
  <2>1. Deal(d, round + 1) /\ InRound'
    BY <1>3 DEF StartNextRound, BeginPlaying
  <2> QED
    BY <2>1, DealIsMatchStep
<1>4. ASSUME NEW payers, SubmitTributes(payers)
      PROVE  UNCHANGED Ladder!vars
  BY <1>4 DEF SubmitTributes, roundVars, Ladder!vars
<1>5. ASSUME NEW s \in Seat, NEW c \in hand[s], SubmitReturn(s, c)
      PROVE  UNCHANGED Ladder!vars
  BY <1>5 DEF SubmitReturn, ReturnCardsOf, FinalizeTribute, BeginPlaying, roundVars, Ladder!vars
<1>6. ASSUME NEW card, SomeReturn(card)
      PROVE  UNCHANGED Ladder!vars
  BY <1>6 DEF SomeReturn, ReturnCardsOf, roundVars, Ladder!vars
<1>7. ASSUME NEW s \in Seat, Pass(s)
      PROVE  UNCHANGED Ladder!vars
  BY <1>7 DEF Pass, roundVars, Ladder!vars
<1>8. ASSUME NEW s \in Seat, NEW request, PlayCards(s, request)
      PROVE  Ladder!Next \/ UNCHANGED Ladder!vars
  <2> DEFINE ranks == IF hand'[s] = {} THEN FinishNext(finishRank, s) ELSE finishRank
  <2>1. phase = "PLAYING" /\ (GameOver(ranks) \/ GoOn(ranks))
    BY <1>8 DEF PlayCards
  <2> HIDE DEF ranks
  <2>2. CASE GameOver(ranks)
    <3>1. IsRanking(finishRank')
      BY <2>2 DEF GameOver, EngineInv, PlacesInv
    <3> QED
      BY <2>1, <2>2, <3>1, GameOverSettles DEF Ladder!Next, Ladder!Teams, Teams
  <2>3. CASE GoOn(ranks)
    BY <2>3 DEF GoOn, Ladder!vars
  <2> QED
    BY <2>1, <2>2, <2>3
<1>9. CASE UNCHANGED vars
  BY <1>9 DEF vars, roundVars, Ladder!vars
<1>10. CASE Move
  BY <1>7, <1>8, <1>10 DEF Move
<1> QED
  BY <1>1, <1>2, <1>3, <1>4, <1>5, <1>6, <1>9, <1>10 DEF EngineStep

\* The engine starts a match.
LEMMA InitIsMatchInit == Init => Ladder!Init /\ OpenInv
  BY DEF Init, OpenInv, InRound, Ladder!Init, Ladder!InitialProgress, InitialProgress,
         Ladder!Teams, Teams, Ladder!NoTeam, NoTeam

\* The engine starts and settles rounds as Match allows: only the settlement of a
\* whole ranking moves the ladder, by what such a ranking can be worth.
THEOREM EngineImplementsMatch == Spec => ImplementsMatch
  BY InitIsMatchInit, EngineInvAlways, NextIsStep, OpenInvStep, StepIsMatchStep, PTL
     DEF Spec, ImplementsMatch, Ladder!Spec

-----------------------------------------------------------------------------
(* Types *)

\* What TypeOK says of the variables that EngineInv leaves open.
TypeRest ==
    /\ enableTribute \in BOOLEAN
    /\ round \in 0..MaxRounds
    /\ DOMAIN lastCards \subseteq Card
    /\ lastPattern.type \in PatternTypes \cup {"INVALID"}
    /\ passCount \in 0..PlayerCount
    /\ turnId \in Nat
    /\ level \in 2..LevelA
    /\ tribute.pendingTributers \subseteq Seat /\ tribute.pendingReturn \subseteq Seat
    /\ previous \in [Seat -> 0..PlayerCount]
    /\ progress \in Progress
    /\ matchWon \in BOOLEAN

\* Whether a round counts for the pass-A phase and wins the match is decided.
LEMMA WinsIsBoolean == \A p, w, u : IsPassARound(p) \in BOOLEAN /\ WinsMatch(p, w, u) \in BOOLEAN
  BY DEF IsPassARound, WinsMatch

\* The next round is prepared with a level of the ladder.
LEMMA PreparedProgress ==
  ASSUME NEW p \in Progress
  PROVE  PrepareNextRound(p) \in Progress /\ RoundLevel(PrepareNextRound(p)) \in 2..LevelA
<1>1. PrepareNextRound(p) \in Progress
  BY DEF PrepareNextRound, Progress
<1>2. \A q \in Progress : RoundLevel(q) \in 2..LevelA
  BY DEF RoundLevel, Progress
<1> QED
  BY <1>1, <1>2

\* A settlement leaves the levels on the ladder.
LEMMA SettledProgress ==
  ASSUME NEW p \in Progress, NEW w \in Teams, NEW u \in Int
  PROVE  ApplySettlement(p, w, u) \in Progress
<1> DEFINE settled == IF IsPassARound(p)
                      THEN IF WinsMatch(p, w, u) THEN p ELSE FailPassA(p)
                      ELSE IF u > 0 THEN Climb(p, w, u) ELSE p
<1>1. FailPassA(p) \in Progress
  <2>1. p.attacking \in Teams /\ p.fails[p.attacking] \in 0..2
    BY DEF Progress, PassAFailLimit
  <2>2. CASE p.fails[p.attacking] + 1 >= PassAFailLimit
    <3>1. FailPassA(p) = [levels |-> [p.levels EXCEPT ![p.attacking] = 2],
                          inPassA |-> [p.inPassA EXCEPT ![p.attacking] = FALSE],
                          fails |-> [p.fails EXCEPT ![p.attacking] = 0],
                          attacking |-> p.attacking, lastWinner |-> p.lastWinner]
      BY <2>2 DEF FailPassA, Progress
    <3> QED
      BY <2>1, <3>1 DEF Progress, LevelA, PassAFailLimit
  <2>3. CASE ~(p.fails[p.attacking] + 1 >= PassAFailLimit)
    BY <2>1, <2>3 DEF FailPassA, Progress, PassAFailLimit
  <2> QED
    BY <2>2, <2>3
<1>2. u > 0 => Climb(p, w, u) \in Progress
  <2>1. p.levels[w] \in 2..LevelA
    BY DEF Progress
  <2>2. CASE p.levels[w] + u >= LevelA
    <3>1. Climb(p, w, u) = [levels |-> [p.levels EXCEPT ![w] = LevelA],
                            inPassA |-> [p.inPassA EXCEPT ![w] = TRUE],
                            fails |-> p.fails, attacking |-> p.attacking, lastWinner |-> p.lastWinner]
      BY <2>2 DEF Climb, Progress
    <3> QED
      BY <2>1, <3>1 DEF Progress, LevelA
  <2>3. CASE ~(p.levels[w] + u >= LevelA)
    BY <2>1, <2>3 DEF Climb, Progress, LevelA
  <2> QED
    BY <2>2, <2>3
<1>3. settled \in Progress
  BY <1>1, <1>2
<1>4. ApplySettlement(p, w, u) = [settled EXCEPT !.lastWinner = w, !.attacking = w]
  BY DEF ApplySettlement
<1> HIDE DEF settled
<1> QED
  BY <1>3, <1>4 DEF Progress

\* The analyzer knows no other kinds of pattern.
LEMMA AnalyzedType == \A b, l : Analyze(b, l).type \in PatternTypes \cup {"INVALID"}
<1> DEFINE Kinds == PatternTypes \cup {"INVALID"}
           Known(p) == p.type \in Kinds
<1>1. \A t \in Kinds : \A r, n, q : Known(Pattern(t, r, n, q))
  BY DEF Pattern
<1>2. Known(Invalid)
  BY DEF Invalid, Pattern
<1>3. ASSUME NEW ps, DOMAIN ps \subseteq Nat, \A i \in DOMAIN ps : Known(ps[i])
      PROVE  Known(FirstValid(ps))
  <2> DEFINE valid == {i \in DOMAIN ps : IsValid(ps[i])}
  <2>1. CASE valid = {}
    BY <1>2, <2>1 DEF FirstValid
  <2>2. CASE valid # {}
    <3>1. PICK least \in valid : \A j \in valid : least <= j
      BY <1>3, <2>2, LeastExists
    <3>2. (CHOOSE i \in valid : \A j \in valid : i <= j) \in DOMAIN ps
      BY <3>1
    <3> QED
      BY <1>3, <2>2, <3>2 DEF FirstValid
  <2> QED
    BY <2>1, <2>2
<1>4. \A b, l : Known(JokerBomb(b)) /\ Known(Bomb(b, l)) /\ Known(Single(b, l)) /\ Known(TripleWithPair(b, l))
  <2>0. /\ "JOKER_BOMB" \in Kinds /\ "BOMB" \in Kinds
        /\ "SINGLE" \in Kinds /\ "TRIPLE_WITH_PAIR" \in Kinds
    BY DEF PatternTypes
  <2> HIDE DEF Known, Kinds
  <2>1. \A b : Known(JokerBomb(b))
    BY <1>1, <1>2, <2>0, Zenon DEF JokerBomb
  <2>2. \A b, l : Known(Bomb(b, l))
    BY <1>1, <1>2, <2>0, Zenon DEF Bomb
  <2>3. \A b, l : Known(Single(b, l))
    BY <1>1, <1>2, <2>0, Zenon DEF Single
  <2>4. \A b, l : Known(TripleWithPair(b, l))
    BY <1>1, <1>2, <2>0, Zenon DEF TripleWithPair
  <2> QED
    BY <2>1, <2>2, <2>3, <2>4
<1>5. \A b, l, n : \A t \in Kinds : Known(SameRank(b, l, t, n))
  BY <1>1, <1>2 DEF SameRank
<1>6. \A b, l, n, m : \A t \in Kinds : Known(Run(b, l, t, n, m))
  BY <1>1, <1>2 DEF Run
<1>7. \A b, l : Known(Straight(b, l))
  BY <1>6 DEF Straight, PatternTypes
<1>8. \A b, l : Known(StraightFlush(b, l))
  <2> SUFFICES ASSUME NEW b, NEW l PROVE Known(StraightFlush(b, l))
    OBVIOUS
  <2>1. \A r, n, q : [Pattern("STRAIGHT", r, n, q) EXCEPT !.type = "STRAIGHT_FLUSH"].type = "STRAIGHT_FLUSH"
    BY DEF Pattern
  <2>2. IsValid(Straight(b, l)) => \E r, n, q : Straight(b, l) = Pattern("STRAIGHT", r, n, q)
    BY InvalidIsNot DEF Straight, Run
  <2>3. CASE StraightFlush(b, l) = Invalid
    BY <1>2, <2>3
  <2>4. CASE StraightFlush(b, l) # Invalid
    <3>1. IsValid(Straight(b, l)) /\ StraightFlush(b, l) = [Straight(b, l) EXCEPT !.type = "STRAIGHT_FLUSH"]
      BY <2>4 DEF StraightFlush
    <3>2. StraightFlush(b, l).type = "STRAIGHT_FLUSH"
      BY <2>1, <2>2, <3>1
    <3> QED
      BY <3>2 DEF PatternTypes
  <2> QED
    BY <2>3, <2>4
<1> HIDE DEF Known
<1> SUFFICES ASSUME NEW b, NEW l PROVE Known(Analyze(b, l))
  BY DEF Known
<1> DEFINE n == Size(b)
           bombs == <<JokerBomb(b), Bomb(b, l)>>
           rest == CASE n = 1 -> <<Single(b, l)>>
                     [] n = 2 -> <<SameRank(b, l, "PAIR", 2)>>
                     [] n = 3 -> <<SameRank(b, l, "TRIPLE", 3)>>
                     [] n = 5 -> <<TripleWithPair(b, l), StraightFlush(b, l), Straight(b, l)>>
                     [] n = 6 -> <<Run(b, l, "THREE_PAIRS", 3, 2), Run(b, l, "TWO_TRIPLES", 2, 3)>>
                     [] OTHER -> <<>>
<1>9. Known(FirstValid(bombs))
  BY <1>3, <1>4
<1>10. /\ \A p : Known(p) => Known(FirstValid(<<p>>))
       /\ \A p, q : Known(p) /\ Known(q) => Known(FirstValid(<<p, q>>))
       /\ \A p, q, s : Known(p) /\ Known(q) /\ Known(s) => Known(FirstValid(<<p, q, s>>))
  <2>1. ASSUME NEW p, Known(p) PROVE Known(FirstValid(<<p>>))
    BY <1>3, <2>1
  <2>2. ASSUME NEW p, NEW q, Known(p), Known(q) PROVE Known(FirstValid(<<p, q>>))
    BY <1>3, <2>2
  <2>3. ASSUME NEW p, NEW q, NEW s, Known(p), Known(q), Known(s) PROVE Known(FirstValid(<<p, q, s>>))
    BY <1>3, <2>3
  <2> QED
    BY <2>1, <2>2, <2>3
<1>11. Known(FirstValid(<<>>))
  BY <1>3
<1>12. Known(FirstValid(rest))
  <2>1. {"PAIR", "TRIPLE", "THREE_PAIRS", "TWO_TRIPLES"} \subseteq Kinds
    BY DEF PatternTypes
  <2> HIDE DEF n, Kinds
  <2>2. CASE n = 1
    <3>1. rest = <<Single(b, l)>>
      BY <2>2
    <3>2. Known(FirstValid(<<Single(b, l)>>))
      BY <1>4, <1>10
    <3> QED
      BY <3>1, <3>2, Zenon
  <2>3. CASE n = 2
    <3>1. rest = <<SameRank(b, l, "PAIR", 2)>>
      BY <2>3
    <3>2. Known(FirstValid(<<SameRank(b, l, "PAIR", 2)>>))
      BY <1>5, <2>1, <1>10
    <3> QED
      BY <3>1, <3>2, Zenon
  <2>4. CASE n = 3
    <3>1. rest = <<SameRank(b, l, "TRIPLE", 3)>>
      BY <2>4
    <3>2. Known(FirstValid(<<SameRank(b, l, "TRIPLE", 3)>>))
      BY <1>5, <2>1, <1>10
    <3> QED
      BY <3>1, <3>2, Zenon
  <2>5. CASE n = 5
    <3>1. rest = <<TripleWithPair(b, l), StraightFlush(b, l), Straight(b, l)>>
      BY <2>5
    <3>2. Known(FirstValid(<<TripleWithPair(b, l), StraightFlush(b, l), Straight(b, l)>>))
      BY <1>4, <1>7, <1>8, <1>10
    <3> QED
      BY <3>1, <3>2, Zenon
  <2>6. CASE n = 6
    <3>1. rest = <<Run(b, l, "THREE_PAIRS", 3, 2), Run(b, l, "TWO_TRIPLES", 2, 3)>>
      BY <2>6
    <3>2. Known(FirstValid(<<Run(b, l, "THREE_PAIRS", 3, 2), Run(b, l, "TWO_TRIPLES", 2, 3)>>))
      BY <1>6, <2>1, <1>10
    <3> QED
      BY <3>1, <3>2, Zenon
  <2>7. CASE n \notin {1, 2, 3, 5, 6}
    BY <1>11, <2>7
  <2> QED
    BY <2>2, <2>3, <2>4, <2>5, <2>6, <2>7
<1>13. Analyze(b, l) = IF IsValid(FirstValid(bombs)) THEN FirstValid(bombs) ELSE FirstValid(rest)
  BY DEF Analyze
<1> HIDE DEF rest, bombs
<1> QED
  BY <1>9, <1>12, <1>13

\* The remaining variables start with their types.
LEMMA TypeRestInit == Init => TypeRest
<1>1. InitialProgress \in Progress
  BY DEF InitialProgress, Progress, Teams, NoTeam, LevelA, PassAFailLimit
<1>2. NoRanks \in [Seat -> 0..PlayerCount] /\ 0 \in 0..PlayerCount /\ 0 \in 0..MaxRounds
  BY SeatFacts, BoundsAssumption DEF NoRanks
<1>3. NoTribute.pendingTributers = {} /\ NoTribute.pendingReturn = {} /\ Invalid.type = "INVALID"
      /\ 2 \in 2..LevelA /\ DOMAIN NoCards \subseteq Card
  BY NoCardsIsEmpty DEF NoTribute, Invalid, Pattern, LevelA
<1> SUFFICES ASSUME Init PROVE TypeRest
  OBVIOUS
<1>4. lastPattern.type \in PatternTypes \cup {"INVALID"} /\ DOMAIN lastCards \subseteq Card
  BY <1>3 DEF Init
<1>5. tribute.pendingTributers \subseteq Seat /\ tribute.pendingReturn \subseteq Seat
  BY <1>3 DEF Init
<1>6. enableTribute \in BOOLEAN /\ matchWon \in BOOLEAN /\ turnId \in Nat /\ level \in 2..LevelA
      /\ progress \in Progress /\ previous \in [Seat -> 0..PlayerCount]
      /\ passCount \in 0..PlayerCount /\ round \in 0..MaxRounds
  BY <1>1, <1>2, <1>3 DEF Init
<1> QED
  BY <1>4, <1>5, <1>6 DEF TypeRest

\* Every step keeps them.
LEMMA TypeRestStep == EngineInv /\ EngineInv' /\ TypeRest /\ [EngineStep]_vars => TypeRest'
<1> SUFFICES ASSUME EngineInv, EngineInv', TypeRest, [EngineStep]_vars PROVE TypeRest'
  OBVIOUS
<1> USE DEF TypeRest
<1>1. CASE \E enabled \in BOOLEAN : SetEnableTribute(enabled)
  BY <1>1 DEF SetEnableTribute, trickVars
<1>2. ASSUME NEW d \in Deals, NEW n \in 0..MaxRounds, Deal(d, n)
      PROVE  /\ round' \in 0..MaxRounds /\ DOMAIN lastCards' \subseteq Card
             /\ lastPattern'.type \in PatternTypes \cup {"INVALID"}
             /\ passCount' \in 0..PlayerCount /\ turnId' \in Nat /\ level' \in 2..LevelA
             /\ progress' \in Progress /\ matchWon' \in BOOLEAN
  <2>1. progress' = PrepareNextRound(progress) /\ level' = RoundLevel(progress') /\ round' = n
        /\ turnId' = 1 /\ matchWon' = FALSE /\ passCount' = 0 /\ lastPattern' = Invalid
    BY <1>2 DEF Deal, ClearTrick
  <2>2. progress' \in Progress /\ level' \in 2..LevelA
    BY <2>1, PreparedProgress
  <2>3. DOMAIN lastCards' \subseteq Card
    BY <1>2, DealFacts
  <2>4. lastPattern'.type \in PatternTypes \cup {"INVALID"}
    BY <2>1 DEF Invalid, Pattern
  <2>5. round' \in 0..MaxRounds /\ matchWon' \in BOOLEAN
    BY <2>1
  <2>6. turnId' \in Nat /\ passCount' \in 0..PlayerCount
    BY <2>1, SeatFacts
  <2> QED
    BY <2>2, <2>3, <2>4, <2>5, <2>6
<1>3. ASSUME NEW d \in Deals, DealGame(d)
      PROVE  TypeRest'
  <2>1. Deal(d, 1) /\ 1 \in 0..MaxRounds /\ previous' = NoRanks /\ UNCHANGED enableTribute /\ UNCHANGED tribute
    BY <1>3, BoundsAssumption DEF DealGame
  <2>2. previous' \in [Seat -> 0..PlayerCount]
    BY <2>1, SeatFacts DEF NoRanks
  <2> QED
    BY <1>2, <2>1, <2>2
<1>4. ASSUME NEW d \in Deals, StartNextRound(d)
      PROVE  TypeRest'
  <2>1. Deal(d, round + 1) /\ round + 1 \in 0..MaxRounds /\ UNCHANGED enableTribute /\ UNCHANGED previous
        /\ phase = "FINISHED"
    <3>1. Deal(d, round + 1) /\ round < MaxRounds /\ UNCHANGED <<enableTribute, previous>> /\ phase = "FINISHED"
      BY <1>4 DEF StartNextRound
    <3>2. round + 1 \in 0..MaxRounds
      BY <3>1, BoundsAssumption
    <3> QED
      BY <3>1, <3>2
  <2>2. tribute'.pendingReturn = {} /\ tribute'.pendingTributers \in {{}, Tributers(previous)}
    <3>1. CASE enableTribute /\ ~AntiTribute(previous, d)
      <4>1. PICK required \in RequiredCards(previous, d, level') :
                 tribute' = [NoTribute EXCEPT !.required = required, !.pendingTributers = Tributers(previous)]
        BY <1>4, <3>1 DEF StartNextRound
      <4> QED
        BY <4>1 DEF NoTribute
    <3>2. CASE ~(enableTribute /\ ~AntiTribute(previous, d))
      <4>1. tribute' = NoTribute
        BY <1>4, <3>2 DEF StartNextRound
      <4> QED
        BY <4>1 DEF NoTribute
    <3> QED
      BY <3>1, <3>2
  <2>3. Tributers(previous) \subseteq Seat
    BY <2>1, TributersAre DEF EngineInv, PlacesInv
  <2> QED
    BY <1>2, <2>1, <2>2, <2>3
<1>5. CASE \/ \E payers : SubmitTributes(payers)
           \/ \E s \in Seat : \E c \in hand[s] : SubmitReturn(s, c)
           \/ \E card : (\A s \in DOMAIN card : card[s] \in hand[s]) /\ SomeReturn(card)
  <2>1. UNCHANGED <<turnId, trickVars, roundVars>>
    BY <1>5 DEF SubmitTributes, SubmitReturn, SomeReturn, ReturnCardsOf
  <2>2. tribute'.pendingTributers \subseteq Seat /\ tribute'.pendingReturn \subseteq Seat
    <3>1. ASSUME NEW payers, SubmitTributes(payers)
          PROVE  tribute'.pendingTributers \subseteq Seat /\ tribute'.pendingReturn \subseteq Seat
      <4>1. CASE payers # tribute.pendingTributers
        <5>1. tribute' = [tribute EXCEPT !.pendingTributers = @ \ payers]
          BY <3>1, <4>1 DEF SubmitTributes
        <5>2. tribute' = [required |-> tribute.required, pendingTributers |-> tribute.pendingTributers \ payers,
                          tributes |-> tribute.tributes, pendingReturn |-> tribute.pendingReturn]
          BY <5>1 DEF EngineInv, TypeInv
        <5> QED
          BY <5>2
      <4>2. CASE payers = tribute.pendingTributers
        <5> DEFINE moves == AssignTributes(previous, tribute.required)
        <5>1. phase' = "RETURN_TRIBUTE"
              /\ tribute' = [tribute EXCEPT !.pendingTributers = {}, !.tributes = moves,
                                            !.pendingReturn = {m.to : m \in moves}]
          BY <3>1, <4>2 DEF SubmitTributes
        <5>2. tribute' = [required |-> tribute.required, pendingTributers |-> {},
                          tributes |-> moves, pendingReturn |-> {m.to : m \in moves}]
          BY <5>1 DEF EngineInv, TypeInv
        <5>3. \A m \in tribute'.tributes : m.to \in Seat
          BY <5>1 DEF EngineInv, ReturnInv
        <5> QED
          BY <5>2, <5>3
      <4> QED
        BY <4>1, <4>2
    <3>2. ASSUME NEW S, tribute' = [tribute EXCEPT !.pendingReturn = @ \ S]
          PROVE  tribute'.pendingTributers \subseteq Seat /\ tribute'.pendingReturn \subseteq Seat
      <4>1. tribute' = [required |-> tribute.required, pendingTributers |-> tribute.pendingTributers,
                        tributes |-> tribute.tributes, pendingReturn |-> tribute.pendingReturn \ S]
        BY <3>2 DEF EngineInv, TypeInv
      <4> QED
        BY <4>1
    <3>3. ASSUME NEW s \in Seat, NEW c \in hand[s], SubmitReturn(s, c)
          PROVE  tribute'.pendingTributers \subseteq Seat /\ tribute'.pendingReturn \subseteq Seat
      <4>1. CASE tribute.pendingReturn = {s}
        BY <3>3, <4>1 DEF SubmitReturn, FinalizeTribute, NoTribute
      <4>2. CASE tribute.pendingReturn # {s}
        BY <3>2, <3>3, <4>2 DEF SubmitReturn
      <4> QED
        BY <4>1, <4>2
    <3>4. ASSUME NEW card, SomeReturn(card)
          PROVE  tribute'.pendingTributers \subseteq Seat /\ tribute'.pendingReturn \subseteq Seat
      BY <3>2, <3>4 DEF SomeReturn
    <3> QED
      BY <1>5, <3>1, <3>3, <3>4
  <2> QED
    BY <2>1, <2>2 DEF trickVars, roundVars
<1>6. ASSUME NEW s \in Seat, NEW cards \in SUBSET hand[s], NEW request \in [cards -> 1..MaxCopies],
             PlayCards(s, request)
      PROVE  TypeRest'
  <2>1. UNCHANGED <<enableTribute, round, level, tribute>> /\ lastCards' = request
        /\ lastPattern' = Analyze(request, level) /\ passCount' = 0
    BY <1>6 DEF PlayCards
  <2>2. DOMAIN request \subseteq Card /\ passCount' \in 0..PlayerCount
    BY <2>1, SeatFacts DEF EngineInv, TypeInv
  <2>3. lastPattern'.type \in PatternTypes \cup {"INVALID"}
    BY <2>1, AnalyzedType
  <2> DEFINE ranks == IF hand'[s] = {} THEN FinishNext(finishRank, s) ELSE finishRank
  <2>4. GameOver(ranks) \/ GoOn(ranks)
    BY <1>6 DEF PlayCards
  <2> HIDE DEF ranks
  <2>5. turnId' \in Nat /\ previous' \in [Seat -> 0..PlayerCount] /\ progress' \in Progress /\ matchWon' \in BOOLEAN
    <3>1. CASE GoOn(ranks)
      BY <3>1 DEF GoOn, AdvanceTurn
    <3>2. CASE GameOver(ranks)
      <4> DEFINE winner == WinningTeam(finishRank')
                 upgrade == LevelUpgrade(finishRank')
      <4>1. /\ UNCHANGED turnId /\ previous' = finishRank' /\ phase' = "FINISHED"
            /\ progress' = ApplySettlement(progress, winner, upgrade)
            /\ matchWon' = WinsMatch(progress, winner, upgrade)
        BY <3>2 DEF GameOver
      <4>2. IsRanking(finishRank') /\ previous' \in [Seat -> 0..PlayerCount]
        BY <4>1 DEF EngineInv, PlacesInv, Placed
      <4>3. winner \in Teams /\ upgrade \in Int
        BY <4>2, WorthOfRound DEF Ladder!Upgrades
      <4> HIDE DEF winner, upgrade
      <4> QED
        BY <4>1, <4>2, <4>3, SettledProgress, WinsIsBoolean
    <3> QED
      BY <2>4, <3>1, <3>2
  <2> QED
    BY <2>1, <2>2, <2>3, <2>5
<1>7. ASSUME NEW s \in Seat, Pass(s)
      PROVE  TypeRest'
  <2>1. UNCHANGED <<tribute, roundVars>> /\ phase' = "PLAYING"
    BY <1>7 DEF Pass
  <2>2. CASE TrickEnds(s, Active, lastPlayed, passCount + 1)
    <3>1. ClearTrick /\ turnId' = turnId + 1
      BY <1>7, <2>2 DEF Pass
    <3> QED
      BY <2>1, <3>1, NoCardsIsEmpty, SeatFacts DEF ClearTrick, roundVars, Invalid, Pattern
  <2>3. CASE ~TrickEnds(s, Active, lastPlayed, passCount + 1)
    <3>1. UNCHANGED <<lastPlayed, lastCards, lastPattern>> /\ turnId' = turnId + 1 /\ IsValid(lastPattern)
      BY <1>7, <2>3 DEF Pass, AdvanceTurn
    <3>2. lastPlayed' # NoSeat
      BY <3>1 DEF EngineInv, TurnInv, TrickConsistent
    <3>3. passCount' = Cardinality({t \in Active' : Distance(lastPlayed', t) < Distance(lastPlayed', current')})
      BY <2>1, <3>2 DEF EngineInv, EveryoneAnswersOnce
    <3> DEFINE S == {t \in Active' : Distance(lastPlayed', t) < Distance(lastPlayed', current')}
    <3>4. S \in SUBSET Seat
      BY DEF Active
    <3>5. Cardinality(S) \in 0..PlayerCount
      <4> HIDE DEF S
      <4> QED
        BY <3>4, SeatFacts, FS_Subset, FS_CardinalityType
    <3> QED
      BY <2>1, <3>1, <3>3, <3>5 DEF roundVars
  <2> QED
    BY <2>2, <2>3
<1>8. CASE UNCHANGED vars
  BY <1>8 DEF vars, trickVars, roundVars
<1> QED
  BY <1>1, <1>3, <1>4, <1>5, <1>6, <1>7, <1>8 DEF EngineStep, Move

\* Both together are the types that the runs check.
LEMMA EngineIsTyped == EngineInv /\ TypeRest => TypeOK
  BY DEF EngineInv, TypeInv, PlacesInv, Placed, TypeRest, TypeOK

\* Whatever is requested, the state stays one of the program's: levels and places
\* in their ranges, patterns of the known kinds, no more passes than players.
THEOREM EngineTypeOK == Spec => []TypeOK
  BY TypeRestInit, EngineIsTyped, EngineInvAlways, TypeRestStep, NextIsStep, PTL DEF Spec

-----------------------------------------------------------------------------
(* Rounds come to an end: somebody can always act, and what they do brings the *)
(* end nearer                                                                *)

\* How many players a trick still waits for.
Awaited == IF lastPlayed = NoSeat THEN 0 ELSE Cardinality(Active \ {lastPlayed}) - passCount

\* The player to move has something to pass on or a card to lead with.
PlayIsPossible ==
    phase = "PLAYING" => IsValid(lastPattern) \/ \E c \in hand[current] : Playable(current, Once({c}))

\* While a round is played cards leave the hands and none come back; without a
\* card played, fewer answers are awaited than before.
PlayGoesOn ==
    phase = "PLAYING" /\ phase' # "FINISHED" =>
        /\ phase' = "PLAYING"
        /\ \A s \in Seat : hand'[s] \subseteq hand[s]
        /\ Awaited \in 0..(PlayerCount - 1) /\ Awaited' \in 0..(PlayerCount - 1)
        /\ hand' # hand \/ Awaited' < Awaited

\* During a trade fewer and fewer owe a card, and then the next phase begins.
TradeGoesOn ==
    /\ phase = "TRIBUTE" =>
           \/ phase' = "RETURN_TRIBUTE"
           \/ phase' = "TRIBUTE" /\ tribute'.pendingTributers \subseteq tribute.pendingTributers
                                 /\ tribute'.pendingTributers # tribute.pendingTributers
    /\ phase = "RETURN_TRIBUTE" =>
           \/ phase' = "PLAYING"
           \/ phase' = "RETURN_TRIBUTE" /\ tribute'.pendingReturn \subseteq tribute.pendingReturn
                                        /\ tribute'.pendingReturn # tribute.pendingReturn

\* One card is a pattern.
LEMMA OneCardIsValid ==
  ASSUME NEW c, NEW l
  PROVE  IsValid(Analyze(Once({c}), l))
<1> DEFINE b == Once({c})
<1>1. DOMAIN b = {c} /\ b[c] = 1
  BY DEF Once
<1>2. Size(b) = 1
  <2>1. UNION {{d} \X (1..b[d]) : d \in {c} \cap {c}} = {<<c, 1>>}
    BY <1>1
  <2>2. Cardinality({<<c, 1>>}) = 1
    BY FS_Singleton
  <2> HIDE DEF b
  <2> QED
    BY <1>1, <2>1, <2>2 DEF Size, CountIn
<1>3. IsValid(Single(b, l))
  BY DEF Single, IsValid, Pattern
<1> HIDE DEF b
<1>4. IsValid(FirstValid(<<Single(b, l)>>))
  <2> DEFINE ps == <<Single(b, l)>>
             valid == {i \in DOMAIN ps : IsValid(ps[i])}
  <2>1. DOMAIN ps = {1} /\ IsValid(ps[1])
    BY <1>3
  <2>2. valid = {1}
    BY <2>1
  <2> HIDE DEF ps, valid
  <2>3. FirstValid(ps) = ps[CHOOSE i \in valid : \A j \in valid : i <= j]
    BY <2>2 DEF FirstValid, valid
  <2>4. (CHOOSE i \in valid : \A j \in valid : i <= j) = 1
    BY <2>2
  <2> QED
    BY <2>1, <2>3, <2>4 DEF ps
<1>5. Analyze(b, l) = IF IsValid(FirstValid(<<JokerBomb(b), Bomb(b, l)>>))
                      THEN FirstValid(<<JokerBomb(b), Bomb(b, l)>>)
                      ELSE FirstValid(<<Single(b, l)>>)
  BY <1>2 DEF Analyze
<1> QED
  BY <1>4, <1>5 DEF b

\* Who is to move has cards, and may lead with any of them.
LEMMA MoverCanPlay == EngineInv => PlayIsPossible
<1> SUFFICES ASSUME EngineInv, phase = "PLAYING", ~IsValid(lastPattern)
             PROVE  \E c \in hand[current] : Playable(current, Once({c}))
  BY DEF PlayIsPossible
<1>1. hand[current] # {}
  BY DEF EngineInv, TypeInv, TurnInv, HandsInv
<1>2. PICK c : c \in hand[current]
  BY <1>1
<1>3. CanBeat(Analyze(Once({c}), level), lastPattern)
  BY OneCardIsValid DEF CanBeat
<1>4. DOMAIN Once({c}) = {c}
  BY DEF Once
<1> QED
  BY <1>2, <1>3, <1>4 DEF Playable

\* While somebody is to answer, one player at least is awaited, and never all.
LEMMA AwaitedBounds ==
  EngineInv /\ phase = "PLAYING" =>
      /\ Awaited \in 0..(PlayerCount - 1)
      /\ lastPlayed # NoSeat => /\ Awaited \in 1..(PlayerCount - 1)
                                /\ passCount \in Nat /\ Cardinality(Active \ {lastPlayed}) \in Nat
<1> SUFFICES ASSUME EngineInv, phase = "PLAYING"
             PROVE  /\ Awaited \in 0..(PlayerCount - 1)
                    /\ lastPlayed # NoSeat => /\ Awaited \in 1..(PlayerCount - 1)
                                              /\ passCount \in Nat
                                              /\ Cardinality(Active \ {lastPlayed}) \in Nat
  OBVIOUS
<1>1. PlayerCount - 1 \in Nat /\ IsFiniteSet(Seat) /\ Cardinality(Seat) = PlayerCount
  BY SeatFacts
<1>2. CASE lastPlayed = NoSeat
  BY <1>1, <1>2 DEF Awaited
<1>3. CASE lastPlayed # NoSeat
  <2> DEFINE A == Active
             others == A \ {lastPlayed}
             passed == {s \in A : Distance(lastPlayed, s) < Distance(lastPlayed, current)}
  <2>1. lastPlayed \in Seat /\ current \in Seat /\ A \in SUBSET Seat /\ current \in A
    BY <1>3, ActiveFacts DEF EngineInv, TypeInv, TurnInv
  <2>2. current # lastPlayed /\ passCount = Cardinality(passed)
    BY <1>3 DEF EngineInv, EveryoneAnswersOnce
  <2> HIDE DEF A
  <2>3. current \notin passed /\ lastPlayed \notin passed
    BY <2>1, DistanceFacts
  <2>4. passed \in SUBSET (others \ {current}) /\ current \in others /\ others \in SUBSET (Seat \ {lastPlayed})
    BY <2>1, <2>2, <2>3
  <2> HIDE DEF others, passed
  <2>5. IsFiniteSet(Seat \ {lastPlayed}) /\ Cardinality(Seat \ {lastPlayed}) = PlayerCount - 1
    BY <1>1, <2>1, FS_RemoveElement
  <2>6. IsFiniteSet(others) /\ Cardinality(others) <= PlayerCount - 1 /\ Cardinality(others) \in Nat
    BY <2>4, <2>5, FS_Subset, FS_CardinalityType
  <2>7. IsFiniteSet(others \ {current}) /\ Cardinality(others \ {current}) = Cardinality(others) - 1
    BY <2>4, <2>6, FS_RemoveElement
  <2>8. Cardinality(passed) <= Cardinality(others) - 1 /\ Cardinality(passed) \in Nat
    BY <2>4, <2>7, FS_Subset, FS_CardinalityType
  <2>9. Awaited = Cardinality(others) - Cardinality(passed)
    BY <1>3, <2>2 DEF Awaited, others, A
  <2>10. Cardinality(others) - Cardinality(passed) \in 1..(PlayerCount - 1)
    BY <1>1, <2>6, <2>8
  <2> QED
    BY <1>1, <2>2, <2>6, <2>8, <2>9, <2>10 DEF others, A
<1> QED
  BY <1>2, <1>3

\* A round has an end: whoever plays gives up cards, and without a card played
\* each pass brings the trick nearer to its end.
LEMMA PassComesNearer ==
  ASSUME EngineInv, EngineInv', NEW s \in Seat, Pass(s)
  PROVE  phase' = "PLAYING" /\ hand' = hand /\ Awaited' < Awaited
<1>1. phase = "PLAYING" /\ phase' = phase /\ hand' = hand /\ finishRank' = finishRank
  BY DEF Pass
<1>2. lastPlayed # NoSeat
  BY DEF Pass, EngineInv, TurnInv, TrickConsistent
<1>3. Awaited \in 1..(PlayerCount - 1) /\ passCount \in Nat /\ Cardinality(Active \ {lastPlayed}) \in Nat
  BY <1>1, <1>2, AwaitedBounds
<1>4. CASE lastPlayed' = NoSeat
  <2>1. Awaited' = 0
    BY <1>4 DEF Awaited
  <2> QED
    BY <1>1, <1>3, <2>1
<1>5. CASE lastPlayed' # NoSeat
  <2>1. lastPlayed' = lastPlayed /\ passCount' = passCount + 1
    BY <1>5 DEF Pass, ClearTrick
  <2>2. Active' = Active
    BY <1>1 DEF Active
  <2>3. Awaited' = Awaited - 1
    BY <1>2, <1>3, <2>1, <2>2 DEF Awaited
  <2> QED
    BY <1>1, <1>3, <2>3
<1> QED
  BY <1>4, <1>5

\* A card played leaves its hand and comes into no other.
LEMMA PlayTakesCards ==
  ASSUME EngineInv, MaxCopies = 1, NEW s \in Seat, NEW cards \in SUBSET hand[s],
         NEW request \in [cards -> 1..MaxCopies], PlayCards(s, request)
  PROVE  /\ phase' = "FINISHED" \/ phase' = "PLAYING"
         /\ \A t \in Seat : hand'[t] \subseteq hand[t]
         /\ hand' # hand
<1>1. phase' = "FINISHED" \/ phase' = "PLAYING"
  BY DEF PlayCards, GameOver, GoOn
<1>2. DOMAIN request = cards /\ cards # {} /\ \A c \in cards : request[c] = 1
  BY DEF PlayCards, Playable
<1>3. RemoveCards(hand[s], request) = hand[s] \ cards
  BY <1>2 DEF RemoveCards
<1>4. hand' = [hand EXCEPT ![s] = hand[s] \ cards]
  BY <1>3 DEF PlayCards
<1>5. DOMAIN hand = Seat
  BY DEF EngineInv, TypeInv
<1>6. hand'[s] = hand[s] \ cards /\ \A t \in Seat : t # s => hand'[t] = hand[t]
  BY <1>4, <1>5
<1> QED
  BY <1>1, <1>2, <1>6

\* The player to move always has a move, whatever was played and whoever has
\* finished.
THEOREM EnginePlayIsPossible == Spec => []PlayIsPossible
  BY MoverCanPlay, EngineInvAlways, PTL

\* A round cannot go on for ever, unless a request may list a card twice.
THEOREM EngineRoundsGoOn ==
  ASSUME MaxCopies = 1
  PROVE  Spec => [][PlayGoesOn]_vars
<1>1. EngineInv /\ EngineInv' /\ [Next]_vars => [PlayGoesOn]_vars
  <2> SUFFICES ASSUME EngineInv, EngineInv', Next, phase = "PLAYING", phase' # "FINISHED"
               PROVE  /\ phase' = "PLAYING"
                      /\ \A s \in Seat : hand'[s] \subseteq hand[s]
                      /\ Awaited \in 0..(PlayerCount - 1) /\ Awaited' \in 0..(PlayerCount - 1)
                      /\ hand' # hand \/ Awaited' < Awaited
    BY DEF PlayGoesOn
  <2>1. Move
    <3>1. ~(\E enabled \in BOOLEAN : SetEnableTribute(enabled)) /\ ~(\E d \in Deals : StartGame(d) \/ StartNextRound(d))
      BY DEF SetEnableTribute, StartGame, StartNextRound
    <3>2. ~Trade
      BY DEF Trade, SubmitTributes, SubmitReturn, ReturnCardsOf
    <3> QED
      BY <3>1, <3>2 DEF Next
  <2>2. /\ phase' = "PLAYING"
        /\ \A s \in Seat : hand'[s] \subseteq hand[s]
        /\ hand' # hand \/ Awaited' < Awaited
    <3>1. ASSUME NEW s \in Seat, Pass(s)
          PROVE  phase' = "PLAYING" /\ hand' = hand /\ Awaited' < Awaited
      BY <3>1, PassComesNearer
    <3>2. ASSUME NEW s \in Seat, NEW cards \in SUBSET hand[s], NEW request \in [cards -> 1..MaxCopies],
                 PlayCards(s, request)
          PROVE  /\ phase' = "FINISHED" \/ phase' = "PLAYING"
                 /\ \A t \in Seat : hand'[t] \subseteq hand[t]
                 /\ hand' # hand
      BY <3>2, PlayTakesCards
    <3> QED
      BY <2>1, <3>1, <3>2 DEF Move
  <2>3. Awaited \in 0..(PlayerCount - 1)
    BY AwaitedBounds
  <2>4. (EngineInv /\ phase = "PLAYING" => Awaited \in 0..(PlayerCount - 1))'
    BY AwaitedBounds, PTL
  <2> QED
    BY <2>2, <2>3, <2>4
<1>2. EngineInv /\ TradeWaits /\ [Next]_vars => EngineInv'
  BY EngineInvStep, NextIsStep
<1> QED
  BY <1>1, EngineInvAlways, PTL DEF Spec

\* A trade cannot go on for ever: each card given leaves one player less to wait
\* for, and the last one opens the returns or the play.
THEOREM EngineTradesGoOn == Spec => [][TradeGoesOn]_vars
<1>1. EngineInv /\ [Next]_vars => [TradeGoesOn]_vars
  <2> SUFFICES ASSUME EngineInv, Next PROVE TradeGoesOn
    OBVIOUS
  <2>1. CASE phase = "TRIBUTE"
    <3>1. PICK s \in Seat : SubmitTributes({s})
      BY <2>1 DEF Next, SetEnableTribute, StartGame, StartNextRound, Trade, SubmitReturn, ReturnCardsOf,
                  Move, PlayCards, Pass
    <3>2. s \in tribute.pendingTributers
      BY <3>1 DEF SubmitTributes
    <3>3. CASE {s} = tribute.pendingTributers
      BY <2>1, <3>1, <3>3 DEF SubmitTributes, TradeGoesOn
    <3>4. CASE {s} # tribute.pendingTributers
      <4>1. tribute' = [tribute EXCEPT !.pendingTributers = tribute.pendingTributers \ {s}] /\ phase' = phase
        BY <3>1, <3>4 DEF SubmitTributes
      <4>2. tribute'.pendingTributers = tribute.pendingTributers \ {s}
        BY <4>1 DEF EngineInv, TypeInv
      <4> QED
        BY <2>1, <3>2, <4>1, <4>2 DEF TradeGoesOn
    <3> QED
      BY <3>3, <3>4
  <2>2. CASE phase = "RETURN_TRIBUTE"
    <3>1. PICK s \in Seat : \E c \in hand[s] : SubmitReturn(s, c)
      BY <2>2 DEF Next, SetEnableTribute, StartGame, StartNextRound, Trade, SubmitTributes,
                  Move, PlayCards, Pass
    <3>2. PICK c \in hand[s] : SubmitReturn(s, c)
      BY <3>1
    <3>3. s \in tribute.pendingReturn
      BY <3>2 DEF SubmitReturn, ReturnCardsOf
    <3>4. CASE tribute.pendingReturn = {s}
      BY <2>2, <3>2, <3>4 DEF SubmitReturn, FinalizeTribute, BeginPlaying, TradeGoesOn
    <3>5. CASE tribute.pendingReturn # {s}
      <4>1. tribute' = [tribute EXCEPT !.pendingReturn = tribute.pendingReturn \ {s}] /\ phase' = phase
        BY <3>2, <3>5 DEF SubmitReturn
      <4>2. tribute'.pendingReturn = tribute.pendingReturn \ {s}
        BY <4>1 DEF EngineInv, TypeInv
      <4> QED
        BY <2>2, <3>3, <4>1, <4>2 DEF TradeGoesOn
    <3> QED
      BY <3>4, <3>5
  <2> QED
    BY <2>1, <2>2 DEF TradeGoesOn
<1> QED
  BY <1>1, EngineInvAlways, PTL DEF Spec
=============================================================================
