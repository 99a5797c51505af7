----------------------------- MODULE TurnManager -----------------------------
(***************************************************************************)
(* Whose turn it is (turn_manager.cpp), over the set of seats that have not *)
(* finished yet.  Seats are the indices of GameState::players and play goes *)
(* round in increasing order; the two teams alternate.                     *)
(***************************************************************************)
EXTENDS Integers, FiniteSets

CONSTANT PlayerCount

ASSUME PlayerCountAssumption == PlayerCount \in Nat \ {0}

Seat == 0..(PlayerCount - 1)
NoSeat == -1

Teams == {0, 1}
Team(s) == s % 2

\* Steps from s to t in the order of play; a full turn from s back to s.
Distance(s, t) == IF t > s THEN t - s ELSE t - s + PlayerCount

\* The first of the seats after s, s itself coming last.
Nearest(s, seats) == CHOOSE t \in seats : \A u \in seats : Distance(s, t) <= Distance(s, u)

\* Mutant: finished players are not skipped.
NextSeatAtAll(s, active) == (s + 1) % PlayerCount

NextActive(s, active) == IF active = {} THEN s ELSE Nearest(s, active)

\* Mutant of WindPartner: the lead goes to whoever is next.
WindNext(s, active) == NextActive(s, active)

\* Who leads after a trick won by a seat that has finished: the next partner
\* still playing, or the next player at all.
WindPartner(s, active) ==
    LET partners == {t \in active : Team(t) = Team(s)}
    IN  IF partners # {} THEN Nearest(s, partners) ELSE NextActive(s, active)

\* Mutant: the winner leads even without cards.
WinnerLeads(winner, active) == winner

RoundLead(winner, active) ==
    IF winner \in active THEN winner ELSE WindPartner(winner, active)

\* Mutant: one pass too many is waited for.
MoreThanAllPassed(active, lastPlayed, passCount) ==
    passCount > Cardinality(active \ {lastPlayed})

AllOthersPassed(active, lastPlayed, passCount) ==
    LET responders == Cardinality(active \ {lastPlayed})
    IN  responders > 0 /\ passCount >= responders

\* The trick ends when every other player has passed, or when the player after
\* the one who passes is the one who played last.
TrickEnds(s, active, lastPlayed, passCount) ==
    \/ NextActive(s, active) = lastPlayed
    \/ AllOthersPassed(active, lastPlayed, passCount)
==============================================================================
