------------------------------ MODULE GameEngine -----------------------------
(***************************************************************************)
(* The engine of one room (game_engine.cpp): rounds are dealt, tribute is   *)
(* paid and returned, cards are played until a team is out, and the round   *)
(* is settled.  A player is its seat.  One action is one request as the     *)
(* dispatcher's handler carries it out; a rejected request changes nothing  *)
(* and is the stuttering step.                                             *)
(*                                                                         *)
(* GameState::hasFinished and finishRank are always written together: the   *)
(* players who have finished are those with a finish rank.  stateVersion,   *)
(* which nothing in the server reads back, is left out.                     *)
(***************************************************************************)
EXTENDS TributeRules

CONSTANTS
    Deals,          \* [seat -> set of cards]: what the shuffled deck can give
    MaxCopies,      \* how often a request may list the same card
    MaxRounds       \* bound on the rounds of a game

ASSUME DealsAssumption ==
    /\ Deals \subseteq [Seat -> SUBSET Card]
    /\ \A d \in Deals : \A s, t \in Seat :
           /\ d[s] # {} /\ IsFiniteSet(d[s])
           /\ s # t => d[s] \cap d[t] = {}

ASSUME BoundsAssumption == MaxCopies \in Nat \ {0} /\ MaxRounds \in Nat \ {0}

VARIABLES
    phase,          \* GamePhase, of which these are used: see Phases
    enableTribute,  \* the room's option
    round,
    hand,           \* [seat -> set of cards]
    finishRank,     \* [seat -> place], 0 while playing
    current,        \* currentPlayerIndex
    lastPlayed,     \* lastPlayedPlayerIndex
    lastCards,      \* the request that was played last, a bag
    lastPattern,
    passCount,
    turnId,
    level,          \* currentLevel
    tribute,        \* tributeState_ and the tributes of lastTribute_
    previous,       \* previousRound_: the finish ranks, NoRanks before a round
    progress,       \* progress_
    matchWon        \* the last settlement's

trickVars == <<lastPlayed, lastCards, lastPattern, passCount>>
roundVars == <<enableTribute, round, level, previous, progress, matchWon>>
vars == <<phase, hand, finishRank, current, turnId, tribute, trickVars, roundVars>>

Phases == {"WAITING", "TRIBUTE", "RETURN_TRIBUTE", "PLAYING", "FINISHED"}

NoRanks == [s \in Seat |-> 0]
NoCards == Once({})

\* tributeState_ between the tribute phases.
NoTribute == [required |-> << >>, pendingTributers |-> {}, tributes |-> {}, pendingReturn |-> {}]

Active == Seat \ Finished(finishRank)

-----------------------------------------------------------------------------
Init ==
    /\ phase = "WAITING"
    /\ enableTribute = TRUE
    /\ round = 0
    /\ hand = [s \in Seat |-> {}]
    /\ finishRank = NoRanks
    /\ current = 0
    /\ lastPlayed = NoSeat /\ lastCards = NoCards /\ lastPattern = Invalid /\ passCount = 0
    /\ turnId = 0
    /\ level = 2
    /\ tribute = NoTribute
    /\ previous = NoRanks
    /\ progress = InitialProgress
    /\ matchWon = FALSE

\* Room::setEnableTribute through updateConfig.
SetEnableTribute(enabled) ==
    /\ phase = "WAITING"
    /\ enableTribute' = enabled
    /\ UNCHANGED <<phase, hand, finishRank, current, turnId, tribute, trickVars,
                   round, level, previous, progress, matchWon>>

-----------------------------------------------------------------------------
(* Dealing *)

ClearTrick ==
    /\ lastPlayed' = NoSeat
    /\ lastCards' = NoCards
    /\ lastPattern' = Invalid
    /\ passCount' = 0

\* The part of dealAndStartPlaying that comes before tribute is considered.
Deal(d, nextRound) ==
    /\ hand' = d
    /\ finishRank' = NoRanks
    /\ progress' = PrepareNextRound(progress)
    /\ level' = RoundLevel(progress')
    /\ round' = nextRound
    /\ ClearTrick
    /\ turnId' = 1
    /\ matchWon' = FALSE

BeginPlaying(first) == phase' = "PLAYING" /\ current' = first

\* Mutant of DealGame: with the game the ladder starts over.
DealGameAfresh(d) ==
    /\ hand' = d /\ finishRank' = NoRanks /\ ClearTrick
    /\ round' = 1 /\ turnId' = 1 /\ matchWon' = FALSE
    /\ progress' = InitialProgress /\ level' = RoundLevel(InitialProgress)
    /\ previous' = NoRanks
    /\ BeginPlaying(0)
    /\ UNCHANGED <<enableTribute, tribute>>

\* startGame, on a freshly initialised state: no round to take tribute from, and
\* seat 0 plays first.
DealGame(d) ==
    /\ Deal(d, 1)
    /\ previous' = NoRanks
    /\ BeginPlaying(0)
    /\ UNCHANGED <<enableTribute, tribute>>

StartGame(d) == phase = "WAITING" /\ DealGame(d)

\* startNextRound: no tribute, a tribute the payers are excused from, or a
\* tribute phase, whose required cards are now in the hands.
StartNextRound(d) ==
    /\ phase = "FINISHED"
    /\ round < MaxRounds
    /\ Deal(d, round + 1)
    /\ IF enableTribute /\ ~AntiTribute(previous, d)
       THEN /\ phase' = "TRIBUTE"
            /\ \E required \in RequiredCards(previous, d, level') :
                   tribute' = [NoTribute EXCEPT !.required = required,
                                                !.pendingTributers = Tributers(previous)]
            /\ current' = current
       ELSE /\ BeginPlaying(HeadSeat(previous))
            /\ tribute' = NoTribute
    /\ UNCHANGED <<enableTribute, previous>>

-----------------------------------------------------------------------------
(* Tribute *)

\* submitTribute by some of the payers, one after the other; the last of all
\* the payers moves the cards and opens the phase of returns.
SubmitTributes(payers) ==
    /\ phase = "TRIBUTE"
    /\ payers # {} /\ payers \subseteq tribute.pendingTributers
    /\ \A s \in payers : tribute.required[s] # NoCard
    /\ IF payers # tribute.pendingTributers
       THEN /\ tribute' = [tribute EXCEPT !.pendingTributers = @ \ payers]
            /\ UNCHANGED <<phase, hand>>
       ELSE LET moves == AssignTributes(previous, tribute.required)
            IN  /\ tribute' = [tribute EXCEPT !.pendingTributers = {},
                                              !.tributes = moves,
                                              !.pendingReturn = {m.to : m \in moves}]
                /\ hand' = Transfer(hand, moves)
                /\ phase' = "RETURN_TRIBUTE"
    /\ UNCHANGED <<finishRank, current, turnId, trickVars, roundVars>>

\* submitReturn by the seats in the domain of card, one after the other.  When
\* nobody is left to return a card, the caller is told so: finalizeTributePhase
\* is another call.
ReturnCardsOf(card) ==
    /\ phase = "RETURN_TRIBUTE"
    /\ DOMAIN card # {} /\ DOMAIN card \subseteq tribute.pendingReturn
    /\ hand' = Transfer(hand, {[from |-> m.to, to |-> m.from, card |-> card[m.to]] :
                                   m \in {m \in tribute.tributes : m.to \in DOMAIN card}})
    /\ UNCHANGED <<finishRank, turnId, trickVars, roundVars>>

FinalizeTribute ==
    /\ BeginPlaying(FirstPlayer(previous, tribute.tributes))
    /\ tribute' = NoTribute

\* Mutant of SubmitReturn: the first return starts the play.
SubmitFirstReturn(s, c) ==
    /\ c \in ReturnCards(hand[s], level)
    /\ ReturnCardsOf([t \in {s} |-> c])
    /\ FinalizeTribute

\* handleSubmitReturn: the last return starts the play.
SubmitReturn(s, c) ==
    /\ c \in ReturnCards(hand[s], level)
    /\ ReturnCardsOf([t \in {s} |-> c])
    /\ IF tribute.pendingReturn = {s}
       THEN FinalizeTribute
       ELSE /\ tribute' = [tribute EXCEPT !.pendingReturn = @ \ {s}]
            /\ UNCHANGED <<phase, current>>

-----------------------------------------------------------------------------
(* Playing *)

\* Hand::remove gives up, and the engine does not look, when the request lists a
\* card more often than the hand has it.
RemoveCards(cards, request) ==
    IF \A c \in DOMAIN request : request[c] = 1 THEN cards \ DOMAIN request ELSE cards

AdvanceTurn(active) ==
    /\ current' = NextActive(current, active)
    /\ turnId' = turnId + 1

\* The end of a round: everyone is ranked, the ladder is moved.
GameOver(ranks) ==
    /\ finishRank' = RankRemaining(ranks)
    /\ previous' = finishRank'
    /\ LET winner == WinningTeam(finishRank')
           upgrade == LevelUpgrade(finishRank')
       IN  /\ progress' = ApplySettlement(progress, winner, upgrade)
           /\ matchWon' = WinsMatch(progress, winner, upgrade)
    /\ phase' = "FINISHED"
    /\ UNCHANGED <<current, turnId>>

\* A finished player is never current: the loop of playCards that skips finished
\* players after advanceTurn finds nothing to skip.
GoOn(ranks) ==
    /\ finishRank' = ranks
    /\ AdvanceTurn(Seat \ Finished(ranks))
    /\ UNCHANGED <<phase, previous, progress, matchWon>>

Playable(s, request) ==
    /\ DOMAIN request # {} /\ DOMAIN request \subseteq hand[s]
    /\ CanBeat(Analyze(request, level), lastPattern)

PlayCards(s, request) ==
    /\ phase = "PLAYING"
    /\ s = current
    /\ finishRank[s] = 0
    /\ Playable(s, request)
    /\ hand' = [hand EXCEPT ![s] = RemoveCards(@, request)]
    /\ lastCards' = request
    /\ lastPattern' = Analyze(request, level)
    /\ lastPlayed' = s
    /\ passCount' = 0
    /\ LET ranks == IF hand'[s] = {} THEN FinishNext(finishRank, s) ELSE finishRank
       IN  IF hand'[s] = {} /\ TeamOut(ranks) THEN GameOver(ranks) ELSE GoOn(ranks)
    /\ UNCHANGED <<enableTribute, round, level, tribute>>

Pass(s) ==
    /\ phase = "PLAYING"
    /\ s = current
    /\ IsValid(lastPattern)
    /\ IF TrickEnds(s, Active, lastPlayed, passCount + 1)
       THEN /\ ClearTrick
            /\ current' = RoundLead(lastPlayed, Active)
            /\ turnId' = turnId + 1
       ELSE /\ passCount' = passCount + 1
            /\ AdvanceTurn(Active)
            /\ UNCHANGED <<lastPlayed, lastCards, lastPattern>>
    /\ UNCHANGED <<phase, hand, finishRank, tribute, roundVars>>

-----------------------------------------------------------------------------
Move == \E s \in Seat :
    \/ \E cards \in SUBSET hand[s] : \E request \in [cards -> 1..MaxCopies] : PlayCards(s, request)
    \/ Pass(s)

Trade == \E s \in Seat :
    \/ SubmitTributes({s})
    \/ \E c \in hand[s] : SubmitReturn(s, c)

Next ==
    \/ \E enabled \in BOOLEAN : SetEnableTribute(enabled)
    \/ \E d \in Deals : StartGame(d) \/ StartNextRound(d)
    \/ Trade
    \/ Move

Spec == Init /\ [][Next]_vars

-----------------------------------------------------------------------------
(* Properties *)

Requests == UNION {[C -> 1..MaxCopies] : C \in SUBSET Card}

TypeOK ==
    /\ phase \in Phases
    /\ enableTribute \in BOOLEAN
    /\ round \in 0..MaxRounds
    /\ hand \in [Seat -> SUBSET Card]
    /\ finishRank \in [Seat -> 0..PlayerCount]
    /\ current \in Seat
    /\ lastPlayed \in Seat \cup {NoSeat}
    /\ DOMAIN lastCards \subseteq Card
    /\ lastPattern.type \in PatternTypes \cup {"INVALID"}
    /\ passCount \in 0..PlayerCount
    /\ turnId \in Nat
    /\ level \in 2..LevelA
    /\ tribute.pendingTributers \subseteq Seat /\ tribute.pendingReturn \subseteq Seat
    /\ previous \in [Seat -> 0..PlayerCount]
    /\ progress \in Progress
    /\ matchWon \in BOOLEAN

\* Nobody waits for a player who cannot act: the player to move is still in the
\* round, and the players still in are those with cards.
CurrentCanAct ==
    phase = "PLAYING" =>
        /\ finishRank[current] = 0
        /\ \A s \in Seat : finishRank[s] = 0 <=> hand[s] # {}

\* Within a trick everyone answers exactly once: the passes counted are those of
\* the players who still hold cards between the last to play and the one to
\* move, also when the last to play has just finished.
EveryoneAnswersOnce ==
    phase = "PLAYING" /\ lastPlayed # NoSeat =>
        /\ current # lastPlayed
        /\ passCount = Cardinality({s \in Active :
                            Distance(lastPlayed, s) < Distance(lastPlayed, current)})

\* A trick has a card to beat exactly when somebody has played in it.
TrickConsistent ==
    /\ IsValid(lastPattern) <=> lastPlayed # NoSeat
    /\ lastPlayed = NoSeat => passCount = 0

\* The places given so far are the first ones, each to one player, and both
\* teams are still in; a settled round has ranked everyone.
RanksInOrder ==
    LET done == Finished(finishRank)
    IN  /\ {finishRank[s] : s \in done} = 1..Cardinality(done)
        /\ phase = "PLAYING" => \A t \in Teams : \E s \in Active : Team(s) = t
        /\ phase = "FINISHED" => done = Seat

\* No card is in two hands, whatever was traded.
HandsDisjoint == \A s, t \in Seat : s # t => hand[s] \cap hand[t] = {}

\* A card that has been played is gone from the hands: a request that the engine
\* accepts takes its cards out of the hand.
PlayedCardsGone == \A s \in Seat : hand[s] \cap DOMAIN lastCards = {}

\* A phase of tribute or of returns has somebody to wait for.
TributeWaitsForSomeone ==
    /\ phase = "TRIBUTE" => tribute.pendingTributers # {}
    /\ phase = "RETURN_TRIBUTE" => tribute.pendingReturn # {}

\* Every payer pays a player of another rank group, no two the same one, and a
\* higher card goes to a better place.
TributeOrdered ==
    \A m, o \in tribute.tributes :
        /\ previous[m.to] < previous[m.from]
        /\ m.to = o.to <=> m.from = o.from
        /\ Face[m.card].rank > Face[o.card].rank => previous[m.to] < previous[o.to]

\* Whoever is to pay has a card to pay with.  It fails for a hand of wild cards
\* only: no card of it is required, and none is accepted.
PaymentPossible ==
    phase = "TRIBUTE" => \A s \in tribute.pendingTributers : tribute.required[s] # NoCard

\* Whoever owes a card has one that the engine takes: all its cards up to ten
\* that are not level cards or, without any, its smallest.
ReturnPossible ==
    phase = "RETURN_TRIBUTE" =>
        \A s \in tribute.pendingReturn : ReturnCards(hand[s], level) # {}

\* The four that follow are what the runs check of a round, of a trick, of the
\* cards and of a phase of tribute.
\* The places and the turn agree with the hands.
RoundInOrder == CurrentCanAct /\ RanksInOrder

\* Passes and answers are counted right, and a trick has a card to beat.
TrickInOrder == EveryoneAnswersOnce /\ TrickConsistent

\* A card is in one hand or has been played.
CardsInOnePlace == HandsDisjoint /\ PlayedCardsGone

\* A trade waits for somebody who can pay or return a card, and each tribute goes
\* to the right player.
TradeInOrder == TributeWaitsForSomeone /\ PaymentPossible /\ ReturnPossible /\ TributeOrdered

\* The winner of a trick leads the next one or, having finished, leaves the lead
\* to its team, never to the opponents.
LeadStaysInTeam ==
    [][phase = "PLAYING" /\ phase' = "PLAYING" /\ lastPlayed # NoSeat /\ lastPlayed' = NoSeat
          => /\ Team(current') = Team(lastPlayed)
             /\ finishRank[lastPlayed] = 0 => current' = lastPlayed]_vars

\* Trading leaves everyone with as many cards as were dealt to them.
HandsEvenWhenPlayStarts ==
    [][phase # "PLAYING" /\ phase' = "PLAYING"
          => \A s, t \in Seat : Cardinality(hand'[s]) = Cardinality(hand'[t])]_vars

\* The engine implements the match.
Ladder == INSTANCE Match
              WITH inRound <- phase \in {"TRIBUTE", "RETURN_TRIBUTE", "PLAYING"}
ImplementsMatch == Ladder!Spec

\* Once everyone trades what they owe the round is played, when everyone has a
\* card to trade: see PaymentPossible and ReturnPossible.
TradeEnds == phase \in {"TRIBUTE", "RETURN_TRIBUTE"} ~> phase = "PLAYING"
==============================================================================
