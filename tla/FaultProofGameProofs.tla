------------------------ MODULE FaultProofGameProofs ------------------------
(***************************************************************************)
(* The two contracts together, for every number of games, every chain of   *)
(* batches, bond, timeout and dispute window: the game contract keeps the  *)
(* registry's protocol, and the registry's theorems hold of both.          *)
(* CallersNameOpenedGames is assumed: claimTimeout on an id never opened   *)
(* does settle a game that nobody opened.                                  *)
(*                                                                         *)
(* A settlement is a call the registry expects only if the record is still *)
(* the one the game was opened on, disputed and bonded; that holds because *)
(* nothing else lets go of a disputed record and because no two games      *)
(* share one; and that, in turn, is the single-game lock with the          *)
(* registry's own invariant.                                               *)
(***************************************************************************)
EXTENDS FaultProofGame, StateRootRegistryProofs

GamesTyped ==
    /\ games \in [GameId -> Game]
    /\ nextGameId \in 0 .. MaxGames
    /\ activeGameForLogIndex \in [LogIndex -> 0 .. MaxGames]

UnopenedEmpty == \A g \in GameId : ~ Opened(g) => games[g] = EmptyGame

MidpointInside ==
    \A g \in GameId : InProgress(g) /\ games[g].pendingMidpoint # NoClaim =>
        /\ games[g].low.idx < games[g].pendingMidpoint.idx
        /\ games[g].pendingMidpoint.idx < games[g].high.idx

GameInv ==
    GamesTyped /\ UnopenedEmpty /\ MidpointInside /\ GameStandsOnItsRecord /\ NoLeakedLock

SystemInv == RegistryInv /\ GameInv

-----------------------------------------------------------------------------
\* The records the games are made of.

LEMMA ClaimTyped ==
    ASSUME NEW c \in Claim
    PROVE  c.idx \in LogIndex /\ c.idx \in Nat
BY RegistryConstants DEF Claim, LogIndex

LEMMA EmptyGameTyped == EmptyGame \in Game
<1>1. 0 \in LogIndex /\ ZeroClaim \in Claim
  BY RegistryConstants DEF LogIndex, ZeroClaim, Claim, AnyCommit
<1>2. ZeroAddress \in Account /\ 0 \in 0 .. MaxDepth /\ ZeroActions \in AnyActions
  BY GameConfig DEF Account, AnyActions
<1> QED
  BY <1>1, <1>2 DEF EmptyGame, Game, TurnSide

LEMMA PassTurnShape ==
    ASSUME NEW game \in Game, block \in Nat
    PROVE  LET new == PassTurn(game)
           IN  /\ new \in Game
               /\ new.low = game.low /\ new.high = game.high
               /\ new.pendingMidpoint = game.pendingMidpoint /\ new.depth = game.depth
               /\ new.turn = Flip(game.turn) /\ new.status = game.status
               /\ new.disputedLogIndex = game.disputedLogIndex
               /\ new.actionsRoot = game.actionsRoot
<1>1. Flip(game.turn) \in TurnSide /\ block + ResponseTimeout \in Nat
  BY GameConfig DEF Flip, TurnSide
<1> QED
  BY <1>1, Zenon DEF PassTurn, Game

LEMMA MidpointShape ==
    ASSUME NEW game \in Game, NEW m \in Claim
    PROVE  LET new == [game EXCEPT !.pendingMidpoint = m]
           IN  /\ new \in Game
               /\ new.low = game.low /\ new.high = game.high
               /\ new.pendingMidpoint = m /\ new.depth = game.depth
               /\ new.turn = game.turn /\ new.status = game.status
               /\ new.disputedLogIndex = game.disputedLogIndex
               /\ new.actionsRoot = game.actionsRoot
BY Zenon DEF Game

-----------------------------------------------------------------------------
\* What the invariant says of one game and one record.

LEMMA GameFacts ==
    ASSUME GamesTyped, NEW g \in GameId
    PROVE  /\ games[g] \in Game
           /\ games[g].low \in Claim /\ games[g].high \in Claim
           /\ games[g].low.idx \in Nat /\ games[g].high.idx \in Nat
           /\ games[g].pendingMidpoint \in Claim \cup {NoClaim}
           /\ games[g].depth \in 0 .. MaxDepth
           /\ games[g].disputedLogIndex \in LogIndex
           /\ g \in Nat \ {0} /\ nextGameId \in Nat
<1>1. games[g] \in Game
  BY DEF GamesTyped
<1>2. /\ games[g].low \in Claim /\ games[g].high \in Claim
      /\ games[g].pendingMidpoint \in Claim \cup {NoClaim}
      /\ games[g].depth \in 0 .. MaxDepth
      /\ games[g].disputedLogIndex \in LogIndex
  BY <1>1 DEF Game
<1>3. g \in Nat \ {0} /\ nextGameId \in Nat
  BY GameConfig DEF GamesTyped, GameId
<1> QED
  BY <1>1, <1>2, <1>3, ClaimTyped

\* GameStandsOnItsRecord for one game, the holder of its lock and its record.
Stands(g, game, holder, record) ==
    /\ holder = g
    /\ record.disputed /\ ~ record.finalised /\ record.bond = Bond
    /\ record.actionsRoot = game.actionsRoot
    /\ record.prevEndIndex <= game.low.idx /\ game.high.idx <= game.disputedLogIndex

LEMMA GamesStand ==
    GameStandsOnItsRecord <=>
        \A g \in GameId : InProgress(g) =>
            Stands(g, games[g], activeGameForLogIndex[games[g].disputedLogIndex],
                   roots[games[g].disputedLogIndex])
BY Zenon DEF GameStandsOnItsRecord, Stands

LEMMA GamesStandNext ==
    GameStandsOnItsRecord' <=>
        \A g \in GameId : InProgress(g)' =>
            Stands(g, games'[g], activeGameForLogIndex'[games'[g].disputedLogIndex],
                   roots'[games'[g].disputedLogIndex])
BY Zenon DEF GameStandsOnItsRecord, Stands

\* The record of an open game can be slashed or cleared.
LEMMA RecordOfOpenGame ==
    ASSUME SystemInv, NEW g \in GameId, InProgress(g)
    PROVE  LET k == games[g].disputedLogIndex
           IN  /\ k \in LogIndex
               /\ roots[k].disputed /\ roots[k].bond = Bond /\ roots[k].bond # 0
               /\ Submitted(k) /\ Slashable(k)
               /\ activeGameForLogIndex[k] = g
               /\ roots[k].actionsRoot = games[g].actionsRoot
<1> DEFINE k == games[g].disputedLogIndex
<1>1. k \in LogIndex
  BY GameFacts DEF SystemInv, GameInv
<1>2. /\ roots[k].disputed /\ roots[k].bond = Bond /\ ~ roots[k].finalised
      /\ activeGameForLogIndex[k] = g /\ roots[k].actionsRoot = games[g].actionsRoot
  BY DEF SystemInv, GameInv, GameStandsOnItsRecord
<1>3. roots[k].bond # 0
  BY <1>2, RegistryConstants
<1>4. Submitted(k)
  BY <1>1, <1>3 DEF SystemInv, RegistryInv, TipInv, RecordsBounded
<1> QED
  BY <1>1, <1>2, <1>3, <1>4, Zenon DEF Slashable

\* A game that settles was opened and is in progress.
LEMMA OnlyOpenGamesSettle ==
    ASSUME CallersNameOpenedGames, SystemInv, NEW g \in GameId,
           TerminateOnSingleStep(g) \/ ClaimTimeout(g)
    PROVE  InProgress(g) /\ \E s \in Settled : Settle(g, s)
<1>1. CASE TerminateOnSingleStep(g)
  <2>1. ReadyToTerminate(games[g])
    BY <1>1, Zenon DEF TerminateOnSingleStep
  <2>2. Opened(g)
    <3> SUFFICES ASSUME ~ Opened(g) PROVE FALSE
      OBVIOUS
    <3>1. games[g] = EmptyGame
      BY DEF SystemInv, GameInv, UnopenedEmpty
    <3>2. EmptyGame.high.idx = 0 /\ EmptyGame.low.idx = 0
      BY Zenon DEF EmptyGame, ZeroClaim
    <3> QED
      BY <2>1, <3>1, <3>2 DEF ReadyToTerminate
  <2>3. \E s \in Settled : Settle(g, s)
    BY <1>1, Zenon DEF TerminateOnSingleStep, Settled
  <2> QED
    BY <2>1, <2>2, <2>3, Zenon DEF ReadyToTerminate, InProgress
<1>2. CASE ClaimTimeout(g)
  BY <1>2 DEF ClaimTimeout, Nameable, InProgress, Settled
<1> QED
  BY <1>1, <1>2, Zenon

\* Nor can a game that was never opened be moved in: its deadline is block 0.
LEMMA OnlyOpenGamesMove ==
    ASSUME SystemInv, NEW g \in GameId, MayMove(g)
    PROVE  InProgress(g)
<1> SUFFICES ASSUME ~ Opened(g) PROVE FALSE
  BY DEF MayMove, InProgress
<1>1. games[g].turnDeadline = 0
  BY DEF SystemInv, GameInv, UnopenedEmpty, EmptyGame
<1>2. block \in Nat \ {0}
  BY DEF SystemInv, RegistryInv, TypeOK
<1> QED
  BY <1>1, <1>2 DEF MayMove

-----------------------------------------------------------------------------
\* The registry's part of a step.

\* A settlement clears the dispute or loses it: the catch arm of _settle is not
\* taken.
LEMMA SettleIsGameCall ==
    ASSUME SystemInv, NEW g \in GameId, InProgress(g), NEW s \in Settled, Settle(g, s)
    PROVE  LET k == games[g].disputedLogIndex
           IN  ClearDisputed(k) \/ LoseDispute(k)
<1> DEFINE k == games[g].disputedLogIndex
<1>1. Slashable(k)
  BY RecordOfOpenGame, Zenon
<1>2. SettleRegistry(k, ChallengerWins(s))
  BY DEF Settle
<1> HIDE DEF k
<1>3. ClearDisputed(k) \/ LoseDispute(k)
  BY <1>1, <1>2 DEF SettleRegistry, LoseDispute
<1> QED
  BY <1>3, Zenon DEF k

LEMMA RegistryLeg ==
    ASSUME CallersNameOpenedGames, SystemInv, [SystemNext]_systemVars
    PROVE  [Next]_registryVars
<1>1. CASE UNCHANGED systemVars
  BY <1>1 DEF systemVars
<1>2. CASE RegistryStep
  BY <1>2, Zenon DEF RegistryStep, Next
<1>3. ASSUME NEW who \in Challengers, NEW k \in LogIndex, NEW c \in StateCommit,
             InitiateChallenge(who, k, c)
      PROVE  Next
  BY <1>3 DEF InitiateChallenge, Next, GameCall
<1>4. ASSUME NEW g \in GameId, GameStep(g)
      PROVE  [Next]_registryVars
  <2>1. CASE \E c \in StateCommit : SubmitMidpoint(g, c)
    BY <2>1 DEF SubmitMidpoint
  <2>2. CASE \E agree \in BOOLEAN : RespondToMidpoint(g, agree)
    BY <2>2, Zenon DEF RespondToMidpoint
  <2>3. CASE TerminateOnSingleStep(g) \/ ClaimTimeout(g)
    <3> DEFINE k == games[g].disputedLogIndex
    <3>1. InProgress(g) /\ \E s \in Settled : Settle(g, s)
      BY <2>3, OnlyOpenGamesSettle, Zenon
    <3>2. k \in LogIndex /\ roots[k].disputed /\ roots[k].bond # 0
      BY <3>1, RecordOfOpenGame
    <3>3. ClearDisputed(k) \/ LoseDispute(k)
      BY <3>1, SettleIsGameCall
    <3> QED
      BY <3>2, <3>3 DEF Next, GameCall
  <2> QED
    BY <1>4, <2>1, <2>2, <2>3, Zenon DEF GameStep
<1>5. ASSUME NEW who \in Account, Withdraw(who)
      PROVE  UNCHANGED registryVars
  BY <1>5 DEF Withdraw
<1> QED
  BY <1>1, <1>2, <1>3, <1>4, <1>5, Zenon DEF SystemNext

-----------------------------------------------------------------------------
\* The games' part of the invariant, action by action.

\* The sequencer, the breaker and the clock never touch a disputed record that
\* carries its bond, and never make one.
LEMMA RegistryStepKeepsDisputed ==
    ASSUME RegistryInv, RegistryStep, NEW k \in LogIndex
    PROVE  /\ roots[k].disputed /\ roots[k].bond # 0 => roots'[k] = roots[k]
           /\ roots'[k].disputed /\ roots'[k].bond # 0 => roots'[k] = roots[k]
<1>1. roots \in [LogIndex -> SubmittedRoot]
  BY DEF RegistryInv, TypeOK
<1>2. CASE UNCHANGED roots
  BY <1>2
<1>3. ASSUME NEW j \in LogIndex, NEW c \in StateCommit, NEW a \in ActionsRoot,
             SubmitStateRoot(j, c, a)
      PROVE  /\ roots[k].disputed /\ roots[k].bond # 0 => roots'[k] = roots[k]
             /\ roots'[k].disputed /\ roots'[k].bond # 0 => roots'[k] = roots[k]
  <2>1. CASE k # j
    BY <1>1, <1>3, <2>1 DEF SubmitStateRoot
  <2>2. CASE k = j
    <3>1. roots'[k].disputed = FALSE
      BY <1>1, <1>3, <2>2 DEF SubmitStateRoot
    <3>2. ~ Submitted(k) \/ roots[k].bond = 0
      BY <1>3, <2>2 DEF SubmitStateRoot, KeyFree
    <3>3. roots[k].bond # 0 => Submitted(k)
      BY DEF RegistryInv, TipInv, RecordsBounded
    <3> QED
      BY <3>1, <3>2, <3>3
  <2> QED
    BY <2>1, <2>2
<1>4. ASSUME NEW j \in LogIndex, FinaliseStateRoot(j) \/ ReclaimRevertedBond(j)
      PROVE  /\ roots[k].disputed /\ roots[k].bond # 0 => roots'[k] = roots[k]
             /\ roots'[k].disputed /\ roots'[k].bond # 0 => roots'[k] = roots[k]
  <2>1. ~ roots[j].disputed
    BY <1>4 DEF FinaliseStateRoot, Finalisable, ReclaimRevertedBond
  <2>2. CASE k # j
    BY <1>1, <1>4, <2>2 DEF FinaliseStateRoot, ReclaimRevertedBond
  <2>3. CASE k = j
    <3>1. roots'[k].bond = 0
      BY <1>1, <1>4, <2>3 DEF FinaliseStateRoot, ReclaimRevertedBond, SubmittedRoot
    <3> QED
      BY <2>1, <2>3, <3>1
  <2> QED
    BY <2>2, <2>3
<1> QED
  BY <1>2, <1>3, <1>4 DEF RegistryStep, Tick, HaltSubmissions, ResumeSubmissions

LEMMA RegistryStepKeepsGames ==
    ASSUME SystemInv, RegistryStep
    PROVE  GameInv'
<1> USE DEF SystemInv, GameInv
<1>1. UNCHANGED <<games, nextGameId, activeGameForLogIndex>>
  BY DEF RegistryStep, gameContractVars
<1>2. \A g \in GameId : InProgress(g)' <=> InProgress(g)
  BY <1>1 DEF InProgress, Opened
<1>3. GamesTyped' /\ UnopenedEmpty' /\ MidpointInside'
  BY <1>1, <1>2, SMTT(20) DEF GamesTyped, UnopenedEmpty, MidpointInside, Opened
<1>4. GameStandsOnItsRecord'
  <2> SUFFICES ASSUME NEW g \in GameId, InProgress(g)
               PROVE  Stands(g, games[g], activeGameForLogIndex[games[g].disputedLogIndex],
                             roots'[games[g].disputedLogIndex])
    BY <1>1, <1>2, GamesStandNext, Zenon
  <2>1. roots'[games[g].disputedLogIndex] = roots[games[g].disputedLogIndex]
    BY RecordOfOpenGame, RegistryStepKeepsDisputed
  <2> QED
    BY <2>1, GamesStand, Zenon
<1>5. NoLeakedLock'
  <2> SUFFICES ASSUME NEW k \in LogIndex
               PROVE  /\ activeGameForLogIndex[k] # 0 =>
                             /\ InProgress(activeGameForLogIndex[k])
                             /\ games[activeGameForLogIndex[k]].disputedLogIndex = k
                      /\ roots'[k].disputed /\ roots'[k].bond # 0 =>
                             activeGameForLogIndex[k] # 0
    BY <1>1 DEF NoLeakedLock, InProgress, Opened
  <2>1. roots'[k].disputed /\ roots'[k].bond # 0 => roots[k].disputed /\ roots[k].bond # 0
    BY RegistryStepKeepsDisputed
  <2> QED
    BY <2>1 DEF NoLeakedLock
<1> QED
  BY <1>3, <1>4, <1>5

\* A move replaces the state of one open game: it stays open on its record, the
\* range only narrows and a midpoint lies inside it.
LEMMA MoveKeepsGames ==
    ASSUME SystemInv, NEW g \in GameId, InProgress(g), NEW new \in Game,
           games' = [games EXCEPT ![g] = new],
           UNCHANGED <<roots, nextGameId, activeGameForLogIndex>>,
           new.status = games[g].status,
           new.disputedLogIndex = games[g].disputedLogIndex,
           new.actionsRoot = games[g].actionsRoot,
           games[g].low.idx <= new.low.idx, new.high.idx <= games[g].high.idx,
           new.pendingMidpoint # NoClaim =>
               new.low.idx < new.pendingMidpoint.idx /\ new.pendingMidpoint.idx < new.high.idx
    PROVE  GameInv'
<1> USE DEF SystemInv, GameInv
<1>1. \A h \in GameId : games'[h] = IF h = g THEN new ELSE games[h]
  BY DEF GamesTyped
<1>2. \A h \in GameId : games'[h].status = games[h].status
                       /\ games'[h].disputedLogIndex = games[h].disputedLogIndex
                       /\ games'[h].actionsRoot = games[h].actionsRoot
  BY <1>1
<1>3. \A h \in GameId : InProgress(h)' <=> InProgress(h)
  BY <1>2 DEF InProgress, Opened
<1>4. GamesTyped'
  BY DEF GamesTyped
<1>5. UnopenedEmpty'
  BY <1>1 DEF UnopenedEmpty, Opened, InProgress
<1>6. MidpointInside'
  BY <1>1, <1>3, Zenon DEF MidpointInside
<1>7. GameStandsOnItsRecord'
  <2> SUFFICES ASSUME NEW h \in GameId, InProgress(h)
               PROVE  Stands(h, games'[h], activeGameForLogIndex[games[h].disputedLogIndex],
                             roots[games[h].disputedLogIndex])
    BY <1>2, <1>3, GamesStandNext, Zenon
  <2> DEFINE k == games[h].disputedLogIndex
  <2>1. Stands(h, games[h], activeGameForLogIndex[k], roots[k])
    BY GamesStand, Zenon
  <2>2. CASE h # g
    <3>1. games'[h] = games[h]
      BY <1>1, <2>2, Zenon
    <3> QED
      BY <2>1, <3>1, Zenon
  <2>3. CASE h = g
    <3>1. games'[h] = new /\ games[h] = games[g]
      BY <1>1, <2>3, Zenon
    <3>2. /\ games[g].low.idx \in Nat /\ games[g].high.idx \in Nat
          /\ k \in Nat /\ roots[k].prevEndIndex \in Nat
      BY SMTT(30), GameFacts, TypeFacts DEF RegistryInv
    <3>3. new.low.idx \in Nat /\ new.high.idx \in Nat
      BY Zenon, ClaimTyped DEF Game
    <3>4. roots[k].prevEndIndex <= games[g].low.idx /\ games[g].high.idx <= k
      BY <2>1, <3>1, Zenon DEF Stands
    <3> HIDE DEF k
    <3>5. roots[k].prevEndIndex <= new.low.idx /\ new.high.idx <= k
      BY SMTT(30), <3>2, <3>3, <3>4
    <3>6. Stands(h, new, activeGameForLogIndex[k], roots[k])
      BY <2>1, <2>3, <3>1, <3>5, Zenon DEF Stands, k
    <3> QED
      BY <3>1, <3>6, Zenon DEF k
  <2> QED
    BY <2>2, <2>3, Zenon
<1>8. NoLeakedLock'
  <2> SUFFICES ASSUME NEW k \in LogIndex, activeGameForLogIndex[k] # 0
               PROVE  /\ InProgress(activeGameForLogIndex[k])'
                      /\ games'[activeGameForLogIndex[k]].disputedLogIndex = k
    BY SMTT(30) DEF NoLeakedLock
  <2>1. activeGameForLogIndex[k] \in GameId
    BY GameConfig DEF GamesTyped, GameId
  <2> QED
    BY <1>2, <1>3, <2>1, SMTT(20) DEF NoLeakedLock, InProgress, Opened
<1> QED
  BY <1>4, <1>5, <1>6, <1>7, <1>8

LEMMA SubmitMidpointKeepsGames ==
    ASSUME SystemInv, NEW g \in GameId, NEW c \in StateCommit, SubmitMidpoint(g, c)
    PROVE  GameInv'
<1> DEFINE game == games[g]
           m == [idx |-> MidpointIdx(game), commit |-> c]
           mid == [game EXCEPT !.pendingMidpoint = m]
<1>1. InProgress(g)
  BY OnlyOpenGamesMove DEF SubmitMidpoint
<1>2. /\ games' = [games EXCEPT ![g] = PassTurn(mid)]
      /\ UNCHANGED <<registryVars, nextGameId, activeGameForLogIndex>>
      /\ game.low.idx < MidpointIdx(game) /\ MidpointIdx(game) < game.high.idx
  BY DEF SubmitMidpoint
<1>3. /\ game \in Game /\ game.low.idx \in Nat /\ game.high.idx \in Nat
      /\ game.high.idx \in LogIndex
  BY GameFacts, ClaimTyped DEF SystemInv, GameInv
<1>4. block \in Nat
  BY DEF SystemInv, RegistryInv, TypeOK
<1> HIDE DEF game
<1>5. MidpointIdx(game) \in Nat
  BY <1>3 DEF MidpointIdx
<1>6. m \in Claim
  <2>1. MidpointIdx(game) \in LogIndex
    BY <1>2, <1>3, <1>5, RegistryConstants DEF LogIndex
  <2> QED
    BY <2>1 DEF Claim, AnyCommit
<1>7. /\ mid \in Game /\ mid.low = game.low /\ mid.high = game.high
      /\ mid.pendingMidpoint = m /\ mid.status = game.status
      /\ mid.disputedLogIndex = game.disputedLogIndex
      /\ mid.actionsRoot = game.actionsRoot
  BY <1>3, <1>6, MidpointShape
<1>8. m.idx = MidpointIdx(game)
  OBVIOUS
<1> HIDE DEF mid, m
<1>9. LET new == PassTurn(mid)
      IN  /\ new \in Game /\ new.low = game.low /\ new.high = game.high
          /\ new.pendingMidpoint = m /\ new.status = game.status
          /\ new.disputedLogIndex = game.disputedLogIndex
          /\ new.actionsRoot = game.actionsRoot
  BY <1>4, <1>7, PassTurnShape
<1>10. game.low.idx <= game.low.idx /\ game.high.idx <= game.high.idx
  BY <1>3
<1>11. UNCHANGED roots
  BY SMTT(30), <1>2 DEF registryVars
<1> QED
  BY <1>1, <1>2, <1>8, <1>9, <1>10, <1>11, MoveKeepsGames, Zenon DEF game

LEMMA RespondKeepsGames ==
    ASSUME SystemInv, NEW g \in GameId, NEW agree \in BOOLEAN, RespondToMidpoint(g, agree)
    PROVE  GameInv'
<1> DEFINE game == games[g]
           m == game.pendingMidpoint
           lo == IF agree THEN m ELSE game.low
           hi == IF agree THEN game.high ELSE m
           d == game.depth + 1
           next == [game EXCEPT !.low = lo, !.high = hi,
                                !.pendingMidpoint = NoClaim, !.depth = d]
<1>1. InProgress(g)
  BY OnlyOpenGamesMove DEF RespondToMidpoint
<1>2. /\ games' = [games EXCEPT ![g] = PassTurn(next)]
      /\ UNCHANGED <<registryVars, nextGameId, activeGameForLogIndex>>
      /\ m # NoClaim /\ game.depth + 1 <= MaxDepth
  BY DEF RespondToMidpoint
<1>3. /\ game \in Game /\ game.low \in Claim /\ game.high \in Claim /\ m \in Claim
      /\ game.low.idx \in Nat /\ game.high.idx \in Nat /\ m.idx \in Nat
      /\ game.depth \in 0 .. MaxDepth
  BY <1>2, GameFacts, ClaimTyped DEF SystemInv, GameInv
<1>4. game.low.idx < m.idx /\ m.idx < game.high.idx
  BY <1>1, <1>2 DEF SystemInv, GameInv, MidpointInside
<1>5. block \in Nat
  BY DEF SystemInv, RegistryInv, TypeOK
<1>6. d \in 0 .. MaxDepth
  BY SMTT(20), <1>2, <1>3, GameConfig
<1>7. lo \in Claim /\ hi \in Claim /\ game.low.idx <= lo.idx /\ hi.idx <= game.high.idx
  BY SMTT(30), <1>3, <1>4
<1> HIDE DEF game, m, lo, hi, d
<1>8. /\ next \in Game /\ next.low = lo /\ next.high = hi
      /\ next.pendingMidpoint = NoClaim /\ next.status = game.status
      /\ next.disputedLogIndex = game.disputedLogIndex
      /\ next.actionsRoot = game.actionsRoot
  BY <1>3, <1>6, <1>7, Zenon DEF Game
<1> HIDE DEF next
<1>9. LET new == PassTurn(next)
      IN  /\ new \in Game /\ new.low = lo /\ new.high = hi
          /\ new.pendingMidpoint = NoClaim /\ new.status = game.status
          /\ new.disputedLogIndex = game.disputedLogIndex
          /\ new.actionsRoot = game.actionsRoot
  BY <1>5, <1>8, PassTurnShape
<1>10. UNCHANGED roots
  BY <1>2 DEF registryVars
<1> QED
  BY <1>1, <1>2, <1>7, <1>9, <1>10, MoveKeepsGames, Zenon DEF game

-----------------------------------------------------------------------------
\* Opening and settling.

\* A challenge opens the next game on a record that no open game has.
LEMMA ChallengeKeepsGames ==
    ASSUME SystemInv, NEW who \in Challengers, NEW k \in LogIndex, NEW c \in StateCommit,
           InitiateChallenge(who, k, c)
    PROVE  GameInv'
<1> USE DEF SystemInv, GameInv
<1>0. PICK g \in GameId : g = nextGameId + 1
  BY Zenon DEF InitiateChallenge
<1> DEFINE lo == [idx |-> roots[k].prevEndIndex, commit |-> roots[roots[k].prevEndIndex].stateCommit]
           hi == [idx |-> k, commit |-> roots[k].stateCommit]
           new == [challenger |-> who, low |-> lo, high |-> hi, pendingMidpoint |-> NoClaim,
                   depth |-> 0, turn |-> "sequencer", turnDeadline |-> block + ResponseTimeout,
                   lastStepBlock |-> block, sequencerBond |-> 0,
                   challengerBond |-> ChallengeBond, status |-> "inProgress",
                   disputedLogIndex |-> k, actionsRoot |-> roots[k].actionsRoot]
<1>1. /\ activeGameForLogIndex[k] = 0 /\ roots[k].prevEndIndex < k
      /\ nextGameId' = g /\ games' = [games EXCEPT ![g] = new]
      /\ activeGameForLogIndex' = [activeGameForLogIndex EXCEPT ![k] = g]
      /\ MarkDisputed(k)
  BY Zenon, <1>0 DEF InitiateChallenge
<1>2. nextGameId \in Nat /\ g \in Nat \ {0} /\ g \in 0 .. MaxGames
  BY <1>0, GameConfig DEF GamesTyped, GameId
<1>3. /\ roots \in [LogIndex -> SubmittedRoot] /\ block \in Nat
      /\ k \in Nat /\ roots[k].prevEndIndex \in LogIndex /\ roots[k].prevEndIndex \in Nat
  BY TypeFacts DEF RegistryInv, TypeOK
<1>4. /\ roots[k] \in SubmittedRoot /\ roots[roots[k].prevEndIndex] \in SubmittedRoot
  BY <1>3
<1>5. lo \in Claim /\ hi \in Claim /\ roots[k].actionsRoot \in AnyActions
  BY <1>3, <1>4 DEF SubmittedRoot, Claim, AnyCommit, AnyActions
<1>6. new \in Game
  <2>1. block + ResponseTimeout \in Nat /\ 0 \in 0 .. MaxDepth /\ ChallengeBond \in Nat
    BY <1>3, GameConfig
  <2>2. who \in Account
    BY DEF Account
  <2> HIDE DEF lo, hi
  <2> QED
    BY <1>3, <1>5, <2>1, <2>2 DEF Game, TurnSide
<1>7. /\ new.status = "inProgress" /\ new.disputedLogIndex = k
      /\ new.actionsRoot = roots[k].actionsRoot /\ new.pendingMidpoint = NoClaim
      /\ new.low.idx = roots[k].prevEndIndex /\ new.high.idx = k
  BY Zenon
<1>8. /\ ~ roots[k].finalised /\ Submitted(k) /\ ~ IsRecordReverted(k)
      /\ roots' = [roots EXCEPT ![k].disputed = TRUE]
  BY <1>1 DEF MarkDisputed
<1>9. roots[k].bond = Bond
  <2>1. roots[k].bond # 0
    BY <1>8 DEF RegistryInv, TipInv, LiveRecordsBonded
  <2> QED
    BY <1>4, <2>1 DEF SubmittedRoot
<1>10. /\ \A j \in LogIndex : j # k => roots'[j] = roots[j]
       /\ roots'[k].disputed /\ roots'[k].bond = roots[k].bond
       /\ roots'[k].finalised = roots[k].finalised
       /\ roots'[k].actionsRoot = roots[k].actionsRoot
       /\ roots'[k].prevEndIndex = roots[k].prevEndIndex
  BY <1>3, <1>4, <1>8 DEF SubmittedRoot
<1> HIDE DEF new, lo, hi
<1>11. \A h \in GameId : games'[h] = IF h = g THEN new ELSE games[h]
  BY SMTT(30), <1>1, <1>6 DEF GamesTyped
<1>12. \A h \in GameId : h # g => (Opened(h)' <=> Opened(h)) /\ (InProgress(h)' <=> InProgress(h))
  BY <1>0, <1>1, <1>2, <1>11, GameConfig DEF InProgress, Opened, GameId
<1>13. Opened(g)' /\ InProgress(g)' /\ ~ Opened(g)
  BY SMTT(30), <1>0, <1>1, <1>2, <1>7, <1>11 DEF InProgress, Opened
<1>14. \A j \in LogIndex : activeGameForLogIndex'[j] = IF j = k THEN g ELSE activeGameForLogIndex[j]
  BY <1>1 DEF GamesTyped
<1>15. GamesTyped'
  BY <1>1, <1>2, <1>6 DEF GamesTyped
<1>16. UnopenedEmpty'
  BY Zenon, <1>11, <1>12, <1>13 DEF UnopenedEmpty
<1>17. MidpointInside'
  BY Zenon, <1>7, <1>11, <1>12 DEF MidpointInside
<1>18. GameStandsOnItsRecord'
  <2> SUFFICES ASSUME NEW h \in GameId, InProgress(h)'
               PROVE  Stands(h, games'[h], activeGameForLogIndex'[games'[h].disputedLogIndex],
                             roots'[games'[h].disputedLogIndex])
    BY GamesStandNext, Zenon
  <2>1. CASE h = g
    <3>1. games'[h] = new
      BY <1>11, <2>1, Zenon
    <3>2. roots[k].prevEndIndex <= roots[k].prevEndIndex /\ k <= k
      BY <1>3
    <3>3. activeGameForLogIndex'[k] = g
      BY <1>14, Zenon
    <3>4. Stands(g, new, activeGameForLogIndex'[k], roots'[k])
      BY <1>7, <1>8, <1>9, <1>10, <3>2, <3>3, Zenon DEF Stands
    <3> QED
      BY <1>7, <2>1, <3>1, <3>4, Zenon
  <2>2. CASE h # g
    <3>1. games'[h] = games[h] /\ InProgress(h)
      BY <1>11, <1>12, <2>2, Zenon
    <3>2. games[h].disputedLogIndex \in LogIndex /\ h # 0
      BY GameFacts
    <3>s. Stands(h, games[h], activeGameForLogIndex[games[h].disputedLogIndex],
                 roots[games[h].disputedLogIndex])
      BY <3>1, GamesStand, Zenon
    <3>4. games[h].disputedLogIndex # k
      BY <1>1, <3>2, <3>s, Zenon DEF Stands
    <3>5. /\ activeGameForLogIndex'[games[h].disputedLogIndex] =
              activeGameForLogIndex[games[h].disputedLogIndex]
          /\ roots'[games[h].disputedLogIndex] = roots[games[h].disputedLogIndex]
      BY <1>10, <1>14, <3>2, <3>4, Zenon
    <3> QED
      BY <3>1, <3>5, <3>s, Zenon
  <2> QED
    BY Zenon, <2>1, <2>2
<1>19. NoLeakedLock'
  <2> SUFFICES ASSUME NEW j \in LogIndex
               PROVE  /\ activeGameForLogIndex'[j] # 0 =>
                             /\ InProgress(activeGameForLogIndex[j])'
                             /\ games'[activeGameForLogIndex'[j]].disputedLogIndex = j
                      /\ roots'[j].disputed /\ roots'[j].bond # 0 => activeGameForLogIndex'[j] # 0
    BY DEF NoLeakedLock
  <2>1. CASE j = k
    BY Zenon, <1>1, <1>2, <1>7, <1>11, <1>13, <1>14, <2>1
  <2>2. CASE j # k
    <3>1. activeGameForLogIndex'[j] = activeGameForLogIndex[j] /\ roots'[j] = roots[j]
      BY Zenon, <1>10, <1>14, <2>2
    <3>2. CASE activeGameForLogIndex[j] = 0
      BY <3>1, <3>2, Zenon DEF NoLeakedLock
    <3>3. CASE activeGameForLogIndex[j] # 0
      <4>1. activeGameForLogIndex[j] \in GameId
        BY <3>3, GameConfig DEF GamesTyped, GameId
      <4>2. InProgress(activeGameForLogIndex[j])
        BY Zenon, <3>3 DEF NoLeakedLock
      <4>3. activeGameForLogIndex[j] # g
        BY <1>13, <4>2 DEF InProgress
      <4>4. games[activeGameForLogIndex[j]].disputedLogIndex = j
        BY <3>3, Zenon DEF NoLeakedLock
      <4>5. games'[activeGameForLogIndex[j]] = games[activeGameForLogIndex[j]]
        BY <1>11, <4>1, <4>3, Zenon
      <4>6. \A h \in GameId : h # g /\ InProgress(h) => InProgress(h)'
        BY <1>12, Zenon
      <4>7. InProgress(activeGameForLogIndex[j])'
        <5>1. PICK h \in GameId : h = activeGameForLogIndex[j]
          BY <4>1, Zenon
        <5>2. InProgress(h)' /\ activeGameForLogIndex'[j] = h
          BY <3>1, <4>2, <4>3, <4>6, <5>1, Zenon
        <5> QED
          BY <5>2, Zenon
      <4> QED
        BY <3>1, <3>3, <4>4, <4>5, <4>7, Zenon
    <3> QED
      BY Zenon, <3>2, <3>3
  <2> QED
    BY <2>1, <2>2
<1> QED
  BY <1>15, <1>16, <1>17, <1>18, <1>19

\* A settlement closes one game and lets go of its lock and its record; no other
\* open game has that record.
LEMMA SettleKeepsGames ==
    ASSUME SystemInv, NEW g \in GameId, InProgress(g), NEW s \in Settled, Settle(g, s)
    PROVE  GameInv'
<1> USE DEF SystemInv, GameInv
<1>0. PICK k \in LogIndex : k = games[g].disputedLogIndex
  BY SMTT(20), GameFacts
<1>1. /\ roots \in [LogIndex -> SubmittedRoot] /\ roots[k] \in SubmittedRoot
      /\ activeGameForLogIndex[k] = g /\ Slashable(k)
      /\ games[g] \in Game /\ g \in Nat \ {0}
  <2>1. roots \in [LogIndex -> SubmittedRoot]
    BY DEF RegistryInv, TypeOK
  <2>2. roots[k] \in SubmittedRoot
    BY <2>1, Zenon
  <2>3. activeGameForLogIndex[k] = g /\ Slashable(k)
    BY <1>0, RecordOfOpenGame, Zenon
  <2>4. games[g] \in Game /\ g \in Nat \ {0}
    BY GameFacts, Zenon
  <2> QED
    BY <2>1, <2>2, <2>3, <2>4, Zenon
<1> DEFINE b == games[g].sequencerBond
                  + (IF ChallengerWins(s) /\ Slashable(k) THEN roots[k].bond ELSE 0)
           new == [games[g] EXCEPT !.status = s, !.sequencerBond = b]
<1>2. b \in Nat
  <2>1. games[g].sequencerBond \in Nat
    BY <1>1, Zenon DEF Game
  <2>2. roots[k].bond \in Nat
    <3>1. roots[k].bond \in {0, Bond}
      BY <1>1, Zenon DEF SubmittedRoot
    <3> QED
      BY <3>1, RegistryConstants
  <2> QED
    BY <2>1, <2>2
<1>3. /\ games' = [games EXCEPT ![g].status = s, ![g].sequencerBond = b]
      /\ activeGameForLogIndex' = [activeGameForLogIndex EXCEPT ![k] = 0]
      /\ nextGameId' = nextGameId
  BY <1>0 DEF Settle, LockKey
<1> HIDE DEF b
<1>4. games' = [games EXCEPT ![g] = new]
  BY <1>3, <1>1, Zenon DEF GamesTyped
<1>5. /\ new \in Game /\ new.status = s
      /\ new.disputedLogIndex = games[g].disputedLogIndex
  BY <1>1, <1>2, Zenon DEF Game
<1>6. s # "inProgress"
  BY DEF Settled
<1> HIDE DEF new
<1>7. \A h \in GameId : games'[h] = IF h = g THEN new ELSE games[h]
  BY <1>4 DEF GamesTyped
<1>8. /\ \A h \in GameId : Opened(h)' <=> Opened(h)
      /\ \A h \in GameId : InProgress(h)' <=> (InProgress(h) /\ h # g)
  BY <1>3, <1>5, <1>6, <1>7, Zenon DEF InProgress, Opened
<1>9. \A j \in LogIndex : activeGameForLogIndex'[j] = IF j = k THEN 0 ELSE activeGameForLogIndex[j]
  BY <1>3 DEF GamesTyped
<1>10. /\ \A j \in LogIndex : j # k => roots'[j] = roots[j]
       /\ ~ (roots'[k].disputed /\ roots'[k].bond # 0)
  <2>1. ClearDisputed(k) \/ LoseDispute(k)
    BY <1>0, SettleIsGameCall
  <2>2. CASE ClearDisputed(k)
    BY <1>1, <2>2 DEF ClearDisputed, SubmittedRoot
  <2>3. CASE LoseDispute(k)
    BY <1>1, <2>3 DEF LoseDispute, SlashSequencerBond, SubmittedRoot
  <2> QED
    BY <2>1, <2>2, <2>3
<1>11. GamesTyped'
  <2>1. games' \in [GameId -> Game]
    BY <1>4, <1>5 DEF GamesTyped
  <2>2. activeGameForLogIndex' \in [LogIndex -> 0 .. MaxGames]
    BY <1>3, GameConfig DEF GamesTyped
  <2> QED
    BY <1>3, <2>1, <2>2 DEF GamesTyped
<1>12. UnopenedEmpty'
  BY <1>7, <1>8 DEF UnopenedEmpty, InProgress
<1>13. MidpointInside'
  BY <1>7, <1>8, Zenon DEF MidpointInside
<1>14. GameStandsOnItsRecord'
  <2> SUFFICES ASSUME NEW h \in GameId, InProgress(h)'
               PROVE  Stands(h, games'[h], activeGameForLogIndex'[games'[h].disputedLogIndex],
                             roots'[games'[h].disputedLogIndex])
    BY GamesStandNext, Zenon
  <2>1. games'[h] = games[h] /\ InProgress(h) /\ h # g
    BY <1>7, <1>8, Zenon
  <2>2. games[h].disputedLogIndex \in LogIndex
    BY Zenon, GameFacts
  <2>3. Stands(h, games[h], activeGameForLogIndex[games[h].disputedLogIndex],
               roots[games[h].disputedLogIndex])
    BY <2>1, GamesStand, Zenon
  <2>4. games[h].disputedLogIndex # k
    BY <1>1, <2>1, <2>3, Zenon DEF Stands
  <2>5. /\ activeGameForLogIndex'[games[h].disputedLogIndex] =
            activeGameForLogIndex[games[h].disputedLogIndex]
        /\ roots'[games[h].disputedLogIndex] = roots[games[h].disputedLogIndex]
    BY <1>9, <1>10, <2>2, <2>4, Zenon
  <2> QED
    BY <2>1, <2>3, <2>5, Zenon
<1>15. NoLeakedLock'
  <2> SUFFICES ASSUME NEW j \in LogIndex
               PROVE  /\ activeGameForLogIndex'[j] # 0 =>
                             /\ InProgress(activeGameForLogIndex[j])'
                             /\ games'[activeGameForLogIndex'[j]].disputedLogIndex = j
                      /\ roots'[j].disputed /\ roots'[j].bond # 0 => activeGameForLogIndex'[j] # 0
    BY Zenon DEF NoLeakedLock
  <2>1. CASE j = k
    BY <1>9, <1>10, <2>1
  <2>2. CASE j # k
    <3>1. activeGameForLogIndex'[j] = activeGameForLogIndex[j] /\ roots'[j] = roots[j]
      BY <1>9, <1>10, <2>2
    <3>2. CASE activeGameForLogIndex[j] = 0
      BY Zenon, <3>1, <3>2 DEF NoLeakedLock
    <3>3. CASE activeGameForLogIndex[j] # 0
      <4>1. activeGameForLogIndex[j] \in GameId
        BY <3>3, GameConfig DEF GamesTyped, GameId
      <4>2. /\ InProgress(activeGameForLogIndex[j])
            /\ games[activeGameForLogIndex[j]].disputedLogIndex = j
        BY <3>3 DEF NoLeakedLock
      <4>3. activeGameForLogIndex[j] # g
        BY <1>0, <2>2, <4>2
      <4> QED
        BY Zenon, <1>7, <1>8, <3>1, <3>3, <4>1, <4>2, <4>3 DEF NoLeakedLock
    <3> QED
      BY SMTT(30), <3>2, <3>3
  <2> QED
    BY <2>1, <2>2
<1> QED
  BY <1>11, <1>12, <1>13, <1>14, <1>15

-----------------------------------------------------------------------------
\* The invariant is inductive.

LEMMA SystemInvInit == SystemInit => SystemInv
<1> SUFFICES ASSUME SystemInit PROVE SystemInv
  OBVIOUS
<1>1. RegistryInv
  BY InitRegistryInv DEF SystemInit
<1>2. /\ games = [g \in GameId |-> EmptyGame] /\ nextGameId = 0
      /\ activeGameForLogIndex = [k \in LogIndex |-> 0]
  BY DEF SystemInit
<1>3. \A g \in GameId : ~ Opened(g) /\ ~ InProgress(g)
  BY <1>2, GameConfig DEF Opened, InProgress, GameId
<1>4. \A k \in LogIndex : ~ (roots[k].disputed /\ roots[k].bond # 0)
  BY Zenon DEF SystemInit, Init, GenesisRecord, EmptySlot
<1>5. GamesTyped
  BY <1>2, EmptyGameTyped, GameConfig DEF GamesTyped
<1>6. UnopenedEmpty /\ MidpointInside /\ GameStandsOnItsRecord
  BY Zenon, <1>2, <1>3 DEF UnopenedEmpty, MidpointInside, GameStandsOnItsRecord
<1>7. NoLeakedLock
  BY <1>2, <1>4 DEF NoLeakedLock
<1> QED
  BY <1>1, <1>5, <1>6, <1>7 DEF SystemInv, GameInv

LEMMA SystemInvStep ==
    ASSUME CallersNameOpenedGames, SystemInv, [SystemNext]_systemVars
    PROVE  SystemInv'
<1>1. RegistryInv'
  BY RegistryLeg, RegistryInvInductive DEF SystemInv
<1>2. GameInv'
  <2>1. CASE RegistryStep
    BY <2>1, RegistryStepKeepsGames
  <2>2. ASSUME NEW who \in Challengers, NEW k \in LogIndex, NEW c \in StateCommit,
               InitiateChallenge(who, k, c)
        PROVE  GameInv'
    BY <2>2, ChallengeKeepsGames
  <2>3. ASSUME NEW g \in GameId, NEW c \in StateCommit, SubmitMidpoint(g, c)
        PROVE  GameInv'
    BY <2>3, SubmitMidpointKeepsGames
  <2>4. ASSUME NEW g \in GameId, NEW agree \in BOOLEAN, RespondToMidpoint(g, agree)
        PROVE  GameInv'
    BY <2>4, RespondKeepsGames
  <2>5. ASSUME NEW g \in GameId, TerminateOnSingleStep(g) \/ ClaimTimeout(g)
        PROVE  GameInv'
    BY <2>5, OnlyOpenGamesSettle, SettleKeepsGames
  <2>6. ASSUME UNCHANGED <<roots, games, nextGameId, activeGameForLogIndex>>
        PROVE  GameInv'
    BY <2>6, Zenon DEF SystemInv, GameInv, GamesTyped, UnopenedEmpty, MidpointInside,
                GameStandsOnItsRecord, NoLeakedLock, InProgress, Opened
  <2>7. ASSUME NEW who \in Account, Withdraw(who)
        PROVE  GameInv'
    BY <2>6, <2>7 DEF Withdraw, registryVars
  <2>8. CASE UNCHANGED systemVars
    BY <2>6, <2>8 DEF systemVars, registryVars, gameContractVars
  <2> QED
    BY <2>1, <2>2, <2>3, <2>4, <2>5, <2>7, <2>8 DEF SystemNext, GameStep
<1> QED
  BY <1>1, <1>2 DEF SystemInv

-----------------------------------------------------------------------------
LEMMA SystemInvariant ==
    ASSUME CallersNameOpenedGames
    PROVE  SystemSpec => []SystemInv
<1>1. SystemInv /\ [SystemNext]_systemVars => SystemInv'
  BY SystemInvStep
<1> QED
  BY <1>1, SystemInvInit, PTL DEF SystemSpec

\* Whatever the parties, the clock and the other games do, an open game's record
\* stays the one terminateOnSingleStep and _settle rely on: same actions root,
\* still bonded, disputed, not finalised, and locked by that game alone.
THEOREM GamesStandOnTheirRecords ==
    ASSUME CallersNameOpenedGames
    PROVE  SystemSpec => []GameStandsOnItsRecord
<1>1. SystemInv => GameStandsOnItsRecord
  BY DEF SystemInv, GameInv
<1> QED
  BY <1>1, SystemInvariant, PTL

\* _settle never leaks a lock or a disputed flag: an index is locked, and a
\* bonded record flagged, only while a game on exactly that index is open.
THEOREM LocksNeverLeak ==
    ASSUME CallersNameOpenedGames
    PROVE  SystemSpec => []NoLeakedLock
<1>1. SystemInv => NoLeakedLock
  BY DEF SystemInv, GameInv
<1> QED
  BY <1>1, SystemInvariant, PTL

\* The game contract refines the registry's specification: every call it makes
\* is one the registry is analysed under, so each registry theorem (backed
\* bonds, permanent reverts, ...) holds of the two contracts together.
THEOREM GameKeepsRegistryProtocol ==
    ASSUME CallersNameOpenedGames
    PROVE  SystemSpec => ImplementsRegistry
<1>1. SystemInit => Init
  BY DEF SystemInit
<1>2. SystemInv /\ [SystemNext]_systemVars => [Next]_registryVars
  BY RegistryLeg
<1> QED
  BY <1>1, <1>2, SystemInvariant, PTL DEF SystemSpec, ImplementsRegistry, Spec

\* The registry holds one bond per bonded record, with the games running.
THEOREM BondsBackedUnderGames ==
    ASSUME CallersNameOpenedGames
    PROVE  SystemSpec => []BondsBacked
BY GameKeepsRegistryProtocol, BondsAlwaysBacked, PTL DEF ImplementsRegistry
=============================================================================
