-------------------------- MODULE KernelGameProofs --------------------------
(***************************************************************************)
(* Each game of the contract is the kernel's game: the refinement          *)
(* AbstractGame of FaultProofGame, for every value of the constants.  The  *)
(* delicate step is the verdict, which opens the action against the        *)
(* registry's record as it is when the game ends.                          *)
(***************************************************************************)
EXTENDS FaultProofGameProofs

LEMMA SameGameStutters ==
    ASSUME NEW h \in GameId, games'[h] = games[h], Opened(h)' <=> Opened(h)
    PROVE  UNCHANGED AbstractGame(h)!gameVars
BY DEF AbstractGame!gameVars

LEMMA MidpointIsKernels ==
    ASSUME SystemInv, NEW g \in GameId, NEW c \in StateCommit, SubmitMidpoint(g, c)
    PROVE  AbstractGame(g)!Next
<1> DEFINE game == games[g]
           m == [idx |-> MidpointIdx(game), commit |-> c]
           mid == [game EXCEPT !.pendingMidpoint = m]
<1>1. Opened(g) /\ game.status = "inProgress"
  BY OnlyOpenGamesMove DEF SubmitMidpoint, InProgress
<1>2. /\ games' = [games EXCEPT ![g] = PassTurn(mid)] /\ nextGameId' = nextGameId
      /\ game.pendingMidpoint = NoClaim /\ game.depth < MaxDepth
      /\ game.low.idx < MidpointIdx(game) /\ MidpointIdx(game) < game.high.idx
  BY DEF SubmitMidpoint
<1>3. game \in Game /\ games \in [GameId -> Game]
  BY DEF SystemInv, GameInv, GamesTyped
<1>4. games'[g] = PassTurn(mid) /\ Opened(g)'
  BY <1>1, <1>2, <1>3 DEF Opened
<1> HIDE DEF game, m
<1>5. /\ PassTurn(mid).low = game.low /\ PassTurn(mid).high = game.high
      /\ PassTurn(mid).pendingMidpoint = m /\ PassTurn(mid).depth = game.depth
      /\ PassTurn(mid).turn = Flip(game.turn) /\ PassTurn(mid).status = game.status
      /\ PassTurn(mid).actionsRoot = game.actionsRoot
  BY <1>3, Zenon DEF PassTurn, Game
<1> HIDE DEF mid
<1>6. AbstractGame(g)!SubmitMidpoint(c)
  BY Zenon, <1>1, <1>2, <1>4, <1>5
     DEF AbstractGame!SubmitMidpoint, AbstractGame!MidpointIdx, AbstractGame!Flip,
         MidpointIdx, Flip, game, m
<1> QED
  BY <1>6 DEF AbstractGame!Next, AnyCommit

LEMMA ResponseIsKernels ==
    ASSUME SystemInv, NEW g \in GameId, NEW agree \in BOOLEAN, RespondToMidpoint(g, agree)
    PROVE  AbstractGame(g)!Next
<1> DEFINE game == games[g]
           m == game.pendingMidpoint
           lo == IF agree THEN m ELSE game.low
           hi == IF agree THEN game.high ELSE m
           d == game.depth + 1
           next == [game EXCEPT !.low = lo, !.high = hi,
                                !.pendingMidpoint = NoClaim, !.depth = d]
<1>1. Opened(g) /\ game.status = "inProgress"
  BY OnlyOpenGamesMove DEF RespondToMidpoint, InProgress
<1>2. /\ games' = [games EXCEPT ![g] = PassTurn(next)] /\ nextGameId' = nextGameId
      /\ m # NoClaim /\ game.depth + 1 <= MaxDepth
  BY DEF RespondToMidpoint
<1>3. game \in Game /\ games \in [GameId -> Game] /\ game.depth \in 0 .. MaxDepth
  BY GameFacts DEF SystemInv, GameInv, GamesTyped
<1>4. games'[g] = PassTurn(next) /\ Opened(g)'
  BY <1>1, <1>2, <1>3 DEF Opened
<1>5. game.depth < MaxDepth
  BY <1>2, <1>3, GameConfig
<1> HIDE DEF game, m, lo, hi, d
<1>6. /\ PassTurn(next).low = lo /\ PassTurn(next).high = hi
      /\ PassTurn(next).pendingMidpoint = NoClaim /\ PassTurn(next).depth = d
      /\ PassTurn(next).turn = Flip(game.turn) /\ PassTurn(next).status = game.status
      /\ PassTurn(next).actionsRoot = game.actionsRoot
  BY <1>3, Zenon DEF PassTurn, Game
<1> HIDE DEF next
<1>7. CASE agree
  <2>1. AbstractGame(g)!RespondAgree
    BY <1>1, <1>2, <1>4, <1>5, <1>6, <1>7
       DEF AbstractGame!RespondAgree, AbstractGame!Flip, Flip, game, m, lo, hi, d
  <2> QED
    BY <2>1 DEF AbstractGame!Next
<1>8. CASE ~ agree
  <2>1. AbstractGame(g)!RespondDisagree
    BY <1>1, <1>2, <1>4, <1>5, <1>6, <1>8
       DEF AbstractGame!RespondDisagree, AbstractGame!Flip, Flip, game, m, lo, hi, d
  <2> QED
    BY <2>1 DEF AbstractGame!Next
<1> QED
  BY <1>7, <1>8

\* What a settlement leaves of the game.
LEMMA SettledFields ==
    ASSUME SystemInv, NEW g \in GameId, InProgress(g), NEW s \in Settled, Settle(g, s)
    PROVE  /\ Opened(g) /\ Opened(g)' /\ games'[g].status = s
           /\ games'[g].low = games[g].low /\ games'[g].high = games[g].high
           /\ games'[g].pendingMidpoint = games[g].pendingMidpoint
           /\ games'[g].depth = games[g].depth /\ games'[g].turn = games[g].turn
           /\ games'[g].actionsRoot = games[g].actionsRoot
           /\ nextGameId' = nextGameId
           /\ \A h \in GameId : h # g => games'[h] = games[h]
<1>1. PICK b : games' = [games EXCEPT ![g].status = s, ![g].sequencerBond = b]
  BY Zenon DEF Settle
<1>2. nextGameId' = nextGameId
  BY DEF Settle
<1>3. games \in [GameId -> Game] /\ games[g] \in Game
  BY DEF SystemInv, GameInv, GamesTyped
<1>4. games' = [games EXCEPT ![g] = [games[g] EXCEPT !.status = s, !.sequencerBond = b]]
  BY Zenon, <1>1, <1>3
<1>5. games'[g] = [games[g] EXCEPT !.status = s, !.sequencerBond = b]
  BY <1>3, <1>4
<1>6. \A h \in GameId : h # g => games'[h] = games[h]
  BY <1>3, <1>4
<1>7. /\ games'[g].status = s
      /\ games'[g].low = games[g].low /\ games'[g].high = games[g].high
      /\ games'[g].pendingMidpoint = games[g].pendingMidpoint
      /\ games'[g].depth = games[g].depth /\ games'[g].turn = games[g].turn
      /\ games'[g].actionsRoot = games[g].actionsRoot
  BY <1>3, <1>5, ZenonT(30) DEF Game
<1> QED
  BY <1>2, <1>6, <1>7 DEF InProgress, Opened

\* The verdict reads the registry again, but finds the root the game opened on.
LEMMA TerminationIsKernels ==
    ASSUME CallersNameOpenedGames, SystemInv, NEW g \in GameId, TerminateOnSingleStep(g)
    PROVE  /\ AbstractGame(g)!Next
           /\ nextGameId' = nextGameId
           /\ \A h \in GameId : h # g => games'[h] = games[h]
<1> DEFINE game == games[g]
           computed == Step[game.actionsRoot][game.low.idx][game.low.commit]
           winner == IF computed = game.high.commit THEN game.turn ELSE Flip(game.turn)
           s == IF winner = "sequencer" THEN "sequencerWon" ELSE "challengerWon"
<1>1. InProgress(g)
  BY OnlyOpenGamesSettle
<1>2. roots[game.disputedLogIndex].actionsRoot = game.actionsRoot
  BY <1>1, RecordOfOpenGame
<1>3. ReadyToTerminate(game) /\ computed # NoStep /\ Settle(g, s)
  BY <1>2, Zenon DEF TerminateOnSingleStep
<1>4. s \in Settled
  BY DEF Settled
<1>5. game.low.idx \in Nat /\ game.high.idx \in Nat
  BY GameFacts DEF SystemInv, GameInv
<1>6. game.high.idx = game.low.idx + 1
  <2>1. game.high.idx - game.low.idx = 1
    BY <1>3, Zenon DEF ReadyToTerminate
  <2> QED
    BY <1>5, <2>1
<1>7. s = AbstractGame(g)!Verdict(game.actionsRoot, game.low, game.high, game.turn)
  BY Zenon DEF AbstractGame!Verdict, AbstractGame!WonBy, AbstractGame!Flip, Flip
<1>8. computed # NoStep
  BY ZenonT(30), <1>3
<1> HIDE DEF s
<1>9. /\ Opened(g) /\ Opened(g)' /\ games'[g].status = s
      /\ games'[g].low = game.low /\ games'[g].high = game.high
      /\ games'[g].pendingMidpoint = game.pendingMidpoint
      /\ games'[g].depth = game.depth /\ games'[g].turn = game.turn
      /\ games'[g].actionsRoot = game.actionsRoot
  BY Zenon, <1>1, <1>3, <1>4, SettledFields
<1>10. AbstractGame(g)!TerminateOnSingleStep
  BY Zenon, <1>3, <1>6, <1>7, <1>8, <1>9
     DEF AbstractGame!TerminateOnSingleStep, AbstractGame!ReadyToTerminate,
         AbstractGame!IsSingleStep, ReadyToTerminate
<1> QED
  BY Zenon, <1>1, <1>3, <1>4, <1>10, SettledFields DEF AbstractGame!Next

LEMMA TimeoutIsKernels ==
    ASSUME CallersNameOpenedGames, SystemInv, NEW g \in GameId, ClaimTimeout(g)
    PROVE  /\ AbstractGame(g)!Next
           /\ nextGameId' = nextGameId
           /\ \A h \in GameId : h # g => games'[h] = games[h]
<1> DEFINE s == IF games[g].turn = "sequencer"
                THEN "timedOutSequencer" ELSE "timedOutChallenger"
<1>1. InProgress(g)
  BY OnlyOpenGamesSettle
<1>2. Settle(g, s) /\ games[g].status = "inProgress"
  BY DEF ClaimTimeout
<1>3. s \in Settled
  BY DEF Settled
<1>4. s = AbstractGame(g)!TimeoutStatus(games[g].turn)
  BY DEF AbstractGame!TimeoutStatus
<1> HIDE DEF s
<1>5. AbstractGame(g)!TimeoutLoss
  BY <1>1, <1>2, <1>3, <1>4, SettledFields DEF AbstractGame!TimeoutLoss
<1> QED
  BY <1>1, <1>2, <1>3, <1>5, SettledFields DEF AbstractGame!Next

LEMMA ChallengeIsKernels ==
    ASSUME SystemInv, NEW who \in Challengers, NEW k \in LogIndex, NEW c \in StateCommit,
           InitiateChallenge(who, k, c)
    PROVE  \E g \in GameId :
               /\ AbstractGame(g)!Next
               /\ \A h \in GameId : h # g => games'[h] = games[h] /\ (Opened(h)' <=> Opened(h))
<1> USE DEF SystemInv, GameInv
<1>0. PICK g \in GameId : g = nextGameId + 1
  BY SMTT(30) DEF InitiateChallenge
<1>1. PICK lo, hi, root, new :
          /\ lo = [idx |-> roots[k].prevEndIndex, commit |-> roots[roots[k].prevEndIndex].stateCommit]
          /\ hi = [idx |-> k, commit |-> roots[k].stateCommit]
          /\ root = roots[k].actionsRoot
          /\ new.low = lo /\ new.high = hi /\ new.pendingMidpoint = NoClaim
          /\ new.depth = 0 /\ new.turn = "sequencer" /\ new.status = "inProgress"
          /\ new.actionsRoot = root
          /\ games' = [games EXCEPT ![g] = new]
  BY <1>0, Zenon DEF InitiateChallenge
<1>2. nextGameId' = g /\ roots[k].prevEndIndex < k
  BY <1>0 DEF InitiateChallenge
<1>3. /\ roots \in [LogIndex -> SubmittedRoot] /\ roots[k].prevEndIndex \in LogIndex
  BY TypeFacts DEF RegistryInv, TypeOK
<1>4. roots[k] \in SubmittedRoot /\ roots[roots[k].prevEndIndex] \in SubmittedRoot
  BY <1>3
<1>5. lo \in AbstractGame(g)!Claim /\ hi \in AbstractGame(g)!Claim /\ root \in AnyActions
  BY <1>1, <1>3, <1>4
     DEF SubmittedRoot, AbstractGame!Claim, AbstractGame!LogIndex, LogIndex, AnyCommit, AnyActions
<1>6. lo.idx < hi.idx
  BY <1>1, <1>2
<1>7. nextGameId \in Nat /\ \A h \in GameId : h \in Nat
  BY GameConfig DEF GamesTyped, GameId
<1>8. ~ Opened(g) /\ Opened(g)' /\ games'[g] = new
  BY <1>0, <1>1, <1>2, <1>7, SMTT(20) DEF Opened, GamesTyped
<1>9. AbstractGame(g)!Open(lo, hi, root)
  BY Zenon, <1>1, <1>6, <1>8 DEF AbstractGame!Open
<1>10. AbstractGame(g)!Next
  BY <1>5, <1>9, SMTT(20) DEF AbstractGame!Next
<1>11. \A h \in GameId : h # g => games'[h] = games[h] /\ (Opened(h)' <=> Opened(h))
  BY SMTT(30), <1>0, <1>1, <1>2, <1>7 DEF Opened, GamesTyped
<1> QED
  BY <1>10, <1>11

LEMMA EveryStepIsKernels ==
    ASSUME CallersNameOpenedGames, SystemInv, [SystemNext]_systemVars, NEW h \in GameId
    PROVE  UNCHANGED AbstractGame(h)!gameVars \/ AbstractGame(h)!Next
<1>1. ASSUME UNCHANGED <<games, nextGameId>>
      PROVE  UNCHANGED AbstractGame(h)!gameVars
  BY <1>1, SameGameStutters DEF Opened
<1>2. CASE RegistryStep \/ UNCHANGED systemVars
  BY <1>1, <1>2 DEF RegistryStep, systemVars, gameContractVars
<1>3. ASSUME NEW who \in Account, Withdraw(who)
      PROVE  UNCHANGED AbstractGame(h)!gameVars
  BY <1>1, <1>3 DEF Withdraw
<1>4. ASSUME NEW who \in Challengers, NEW k \in LogIndex, NEW c \in StateCommit,
             InitiateChallenge(who, k, c)
      PROVE  UNCHANGED AbstractGame(h)!gameVars \/ AbstractGame(h)!Next
  BY <1>4, ChallengeIsKernels, SameGameStutters
<1>5. ASSUME NEW g \in GameId, GameStep(g)
      PROVE  UNCHANGED AbstractGame(h)!gameVars \/ AbstractGame(h)!Next
  <2>1. ASSUME nextGameId' = nextGameId, \A j \in GameId : j # g => games'[j] = games[j],
               AbstractGame(g)!Next
        PROVE  UNCHANGED AbstractGame(h)!gameVars \/ AbstractGame(h)!Next
    BY <2>1, SameGameStutters DEF Opened
  <2>2. games \in [GameId -> Game]
    BY DEF SystemInv, GameInv, GamesTyped
  <2>3. ASSUME NEW c \in StateCommit, SubmitMidpoint(g, c)
        PROVE  UNCHANGED AbstractGame(h)!gameVars \/ AbstractGame(h)!Next
    <3>1. nextGameId' = nextGameId /\ \A j \in GameId : j # g => games'[j] = games[j]
      BY <2>2, <2>3 DEF SubmitMidpoint
    <3> QED
      BY <2>1, <2>3, <3>1, MidpointIsKernels
  <2>4. ASSUME NEW agree \in BOOLEAN, RespondToMidpoint(g, agree)
        PROVE  UNCHANGED AbstractGame(h)!gameVars \/ AbstractGame(h)!Next
    <3>1. nextGameId' = nextGameId /\ \A j \in GameId : j # g => games'[j] = games[j]
      BY <2>2, <2>4 DEF RespondToMidpoint
    <3> QED
      BY <2>1, <2>4, <3>1, ResponseIsKernels
  <2>5. CASE TerminateOnSingleStep(g) \/ ClaimTimeout(g)
    BY <2>1, <2>5, TerminationIsKernels, TimeoutIsKernels
  <2> QED
    BY <1>5, <2>3, <2>4, <2>5 DEF GameStep
<1> QED
  BY <1>2, <1>3, <1>4, <1>5 DEF SystemNext

LEMMA KernelGamesInit ==
    ASSUME SystemInit
    PROVE  \A g \in GameId : AbstractGame(g)!Init
<1> SUFFICES ASSUME NEW g \in GameId PROVE AbstractGame(g)!Init
  OBVIOUS
<1>1. games[g] = EmptyGame /\ ~ Opened(g)
  BY GameConfig DEF SystemInit, Opened, GameId
<1> QED
  BY <1>1 DEF AbstractGame!Init, EmptyGame, ZeroClaim

\* The contract implements Game.lean's game, for every game id at once: each
\* call on a game is one of applyTransition's transitions of that game and
\* leaves the others alone, and what happens to the registry and the clock in
\* between is invisible to it.
THEOREM ContractImplementsKernelGame ==
    ASSUME CallersNameOpenedGames
    PROVE  SystemSpec => ImplementsKernelGame
<1>1. SystemInit => \A g \in GameId : AbstractGame(g)!Init
  BY KernelGamesInit
<1>2. SystemInv /\ [SystemNext]_systemVars =>
          [\A g \in GameId :
              UNCHANGED AbstractGame(g)!gameVars \/ AbstractGame(g)!Next]_systemVars
  BY EveryStepIsKernels
<1> QED
  BY <1>1, <1>2, SystemInvariant, PTL DEF SystemSpec, ImplementsKernelGame

-----------------------------------------------------------------------------
\* The side to move can always move: the kernel's argument about the depth cap,
\* carried over to the contract's storage, with the contract's deadlines.

\* What an open game needs for that.  It is a predicate of the stored record
\* alone: only a call on the game itself can disturb it.
RoundsLeft(game) ==
    /\ game.lastStepBlock + StepInterval < game.turnDeadline
    /\ game.low.idx < game.high.idx
    /\ game.high.idx - game.low.idx <= RangeWithin(MaxDepth - game.depth)
    /\ game.pendingMidpoint # NoClaim =>
           game.depth < MaxDepth /\ game.pendingMidpoint.idx = MidpointIdx(game)

MoverInv == \A g \in GameId : InProgress(g) => RoundsLeft(games[g])

\* The middle of a range halves any even bound on its width.
LEMMA MiddleHalves ==
    ASSUME NEW l \in Nat, NEW h \in Nat, NEW w \in Nat, h - l <= 2 * w
    PROVE  /\ ((l + h) \div 2) - l <= w
           /\ h - ((l + h) \div 2) <= w
OBVIOUS

\* A handover leaves the other side more than the minimum step interval.
LEMMA HandoverLeavesABlock ==
    ASSUME NEW game \in Game, block \in Nat
    PROVE  LET new == PassTurn(game)
           IN  new.lastStepBlock + StepInterval < new.turnDeadline
<1>1. PassTurn(game).lastStepBlock = block
  BY Zenon DEF PassTurn, Game
<1>2. PassTurn(game).turnDeadline = block + ResponseTimeout
  BY Zenon DEF PassTurn, Game
<1> QED
  BY <1>1, <1>2, GameConfig

LEMMA MidpointKeepsRounds ==
    ASSUME SystemInv, MoverInv, NEW g \in GameId, NEW c \in StateCommit, SubmitMidpoint(g, c)
    PROVE  RoundsLeft(games'[g])
<1> DEFINE game == games[g]
           m == [idx |-> MidpointIdx(game), commit |-> c]
           mid == [game EXCEPT !.pendingMidpoint = m]
           new == PassTurn(mid)
<1>1. InProgress(g) /\ RoundsLeft(game)
  BY OnlyOpenGamesMove DEF SubmitMidpoint, MoverInv
<1>2. /\ games' = [games EXCEPT ![g] = new] /\ game.depth < MaxDepth
      /\ game.low.idx < MidpointIdx(game) /\ MidpointIdx(game) < game.high.idx
  BY DEF SubmitMidpoint
<1>3. /\ game \in Game /\ games \in [GameId -> Game] /\ block \in Nat
      /\ game.low \in Claim /\ game.high \in Claim
  BY GameFacts, TypeFacts DEF SystemInv, GameInv, GamesTyped, RegistryInv
<1>4. games'[g] = new
  BY <1>2, <1>3
<1>5. m \in Claim /\ m.idx = MidpointIdx(game)
  <2>1. game.low.idx \in LogIndex /\ game.high.idx \in LogIndex
    BY <1>3, ClaimTyped
  <2>2. MidpointIdx(game) \in LogIndex
    BY <1>2, <2>1, RegistryConstants DEF MidpointIdx, LogIndex
  <2> QED
    BY <2>2 DEF Claim, AnyCommit
<1> HIDE DEF game, m
<1>6. /\ mid \in Game /\ mid.low = game.low /\ mid.high = game.high
      /\ mid.pendingMidpoint = m /\ mid.depth = game.depth
  BY <1>3, <1>5, MidpointShape
<1> HIDE DEF mid
<1>7. /\ new.low = game.low /\ new.high = game.high
      /\ new.pendingMidpoint = m /\ new.depth = game.depth
      /\ new.lastStepBlock + StepInterval < new.turnDeadline
  BY <1>3, <1>6, PassTurnShape, HandoverLeavesABlock
<1> HIDE DEF new
<1> QED
  BY <1>1, <1>2, <1>4, <1>5, <1>7 DEF RoundsLeft, MidpointIdx

LEMMA ResponseKeepsRounds ==
    ASSUME SystemInv, MoverInv, NEW g \in GameId, NEW agree \in BOOLEAN,
           RespondToMidpoint(g, agree)
    PROVE  RoundsLeft(games'[g])
<1> DEFINE game == games[g]
           m == game.pendingMidpoint
           lo == IF agree THEN m ELSE game.low
           hi == IF agree THEN game.high ELSE m
           next == [game EXCEPT !.low = lo, !.high = hi,
                                !.pendingMidpoint = NoClaim, !.depth = game.depth + 1]
           new == PassTurn(next)
           d == MaxDepth - (game.depth + 1)
           w == RangeWithin(d)
<1>1. InProgress(g) /\ RoundsLeft(game)
  BY OnlyOpenGamesMove DEF RespondToMidpoint, MoverInv
<1>2. games' = [games EXCEPT ![g] = new] /\ m # NoClaim
  BY DEF RespondToMidpoint
<1>3. /\ game \in Game /\ games \in [GameId -> Game] /\ block \in Nat
      /\ game.low \in Claim /\ game.high \in Claim /\ m \in Claim
      /\ game.depth \in 0 .. MaxDepth
  BY <1>2, GameFacts, TypeFacts DEF SystemInv, GameInv, GamesTyped, RegistryInv
<1>4. games'[g] = new
  BY <1>2, <1>3
<1>5. /\ game.low.idx \in Nat /\ game.high.idx \in Nat
      /\ game.low.idx < m.idx /\ m.idx < game.high.idx
  BY <1>1, <1>2, <1>3, ClaimTyped DEF SystemInv, GameInv, MidpointInside
<1>6. /\ game.depth < MaxDepth /\ m.idx = (game.low.idx + game.high.idx) \div 2
      /\ game.high.idx - game.low.idx <= RangeWithin(MaxDepth - game.depth)
  BY <1>1, <1>2 DEF RoundsLeft, MidpointIdx
<1> HIDE DEF game, m
<1>7. /\ d \in 0 .. MaxDepth /\ d < MaxDepth /\ d + 1 = MaxDepth - game.depth
      /\ game.depth + 1 \in 0 .. MaxDepth
  BY <1>3, <1>6, GameConfig
<1> HIDE DEF d
<1>8. w \in Nat /\ RangeWithin(MaxDepth - game.depth) = 2 * w
  BY <1>7, DepthCoversRange
<1> HIDE DEF w
<1>9. m.idx - game.low.idx <= w /\ game.high.idx - m.idx <= w
  BY <1>5, <1>6, <1>8, MiddleHalves
<1>10. lo.idx < hi.idx /\ hi.idx - lo.idx <= w /\ lo \in Claim /\ hi \in Claim
  BY <1>3, <1>5, <1>9
<1> HIDE DEF lo, hi
<1>11. /\ next \in Game /\ next.low = lo /\ next.high = hi
       /\ next.pendingMidpoint = NoClaim /\ next.depth = game.depth + 1
  <2>1. NoClaim \in Claim \cup {NoClaim}
    OBVIOUS
  <2> QED
    BY <1>3, <1>7, <1>10, <2>1, Zenon DEF Game
<1> HIDE DEF next
<1>12. /\ new.low = lo /\ new.high = hi /\ new.pendingMidpoint = NoClaim
       /\ new.depth = game.depth + 1
       /\ new.lastStepBlock + StepInterval < new.turnDeadline
  BY <1>3, <1>11, PassTurnShape, HandoverLeavesABlock
<1> HIDE DEF new
<1> QED
  BY <1>4, <1>10, <1>12 DEF RoundsLeft, w, d

LEMMA ChallengeHasRounds ==
    ASSUME SystemInv, MoverInv, NEW who \in Challengers, NEW k \in LogIndex,
           NEW c \in StateCommit, InitiateChallenge(who, k, c)
    PROVE  MoverInv'
<1> USE DEF SystemInv, GameInv
<1>0. PICK g \in GameId : g = nextGameId + 1
  BY Zenon DEF InitiateChallenge
<1>1. PICK new :
          /\ new.low.idx = roots[k].prevEndIndex /\ new.high.idx = k
          /\ new.pendingMidpoint = NoClaim /\ new.depth = 0
          /\ new.turnDeadline = block + ResponseTimeout /\ new.lastStepBlock = block
          /\ games' = [games EXCEPT ![g] = new]
  BY <1>0, Zenon DEF InitiateChallenge
<1>2. nextGameId' = g /\ roots[k].prevEndIndex < k
  BY Zenon, <1>0 DEF InitiateChallenge
<1>3. roots[k].prevEndIndex \in Nat /\ block \in Nat /\ k \in 0 .. LastIndex
  BY TypeFacts DEF RegistryInv, LogIndex
<1>4. k - roots[k].prevEndIndex <= RangeWithin(MaxDepth)
  <2>1. MaxDepth \in 0 .. MaxDepth /\ RangeWithin(MaxDepth) \in Nat
    BY DepthCoversRange, GameConfig
  <2> QED
    BY <1>2, <1>3, <2>1, DepthCoversRange, RegistryConstants
<1>5. RoundsLeft(new)
  <2>1. new.lastStepBlock + StepInterval < new.turnDeadline
    BY <1>1, <1>3, GameConfig
  <2>2. MaxDepth - new.depth = MaxDepth
    BY <1>1, GameConfig
  <2> QED
    BY <1>1, <1>2, <1>4, <2>1, <2>2 DEF RoundsLeft
<1>6. games \in [GameId -> Game] /\ nextGameId \in Nat /\ \A h \in GameId : h \in Nat
  BY GameConfig DEF GamesTyped, GameId
<1>7. games'[g] = new
  BY <1>1, <1>6
<1>8. \A h \in GameId : h # g => games'[h] = games[h] /\ (Opened(h)' <=> Opened(h))
  BY <1>0, <1>1, <1>2, <1>6 DEF Opened
<1> QED
  BY <1>5, <1>7, <1>8 DEF MoverInv, InProgress

\* A call on one open game keeps the others' rounds.
LEMMA OthersKeepRounds ==
    ASSUME MoverInv, NEW g \in GameId, nextGameId' = nextGameId,
           \A h \in GameId : h # g => games'[h] = games[h],
           games'[g].status = "inProgress" => RoundsLeft(games'[g])
    PROVE  MoverInv'
BY DEF MoverInv, InProgress, Opened

LEMMA MoverInvStep ==
    ASSUME CallersNameOpenedGames, SystemInv, MoverInv, [SystemNext]_systemVars
    PROVE  MoverInv'
<1>1. ASSUME UNCHANGED <<games, nextGameId>>
      PROVE  MoverInv'
  BY <1>1 DEF MoverInv, InProgress, Opened
<1>2. CASE RegistryStep \/ UNCHANGED systemVars
  BY <1>1, <1>2 DEF RegistryStep, systemVars, gameContractVars
<1>3. ASSUME NEW who \in Account, Withdraw(who)
      PROVE  MoverInv'
  BY <1>1, <1>3 DEF Withdraw
<1>4. ASSUME NEW who \in Challengers, NEW k \in LogIndex, NEW c \in StateCommit,
             InitiateChallenge(who, k, c)
      PROVE  MoverInv'
  BY <1>4, ChallengeHasRounds
<1>5. ASSUME NEW g \in GameId, GameStep(g)
      PROVE  MoverInv'
  <2>1. games \in [GameId -> Game]
    BY DEF SystemInv, GameInv, GamesTyped
  <2>2. ASSUME NEW c \in StateCommit, SubmitMidpoint(g, c)
        PROVE  MoverInv'
    <3>1. nextGameId' = nextGameId /\ \A h \in GameId : h # g => games'[h] = games[h]
      BY <2>1, <2>2 DEF SubmitMidpoint
    <3> QED
      BY <2>2, <3>1, MidpointKeepsRounds, OthersKeepRounds
  <2>3. ASSUME NEW agree \in BOOLEAN, RespondToMidpoint(g, agree)
        PROVE  MoverInv'
    <3>1. nextGameId' = nextGameId /\ \A h \in GameId : h # g => games'[h] = games[h]
      BY <2>1, <2>3 DEF RespondToMidpoint
    <3> QED
      BY <2>3, <3>1, ResponseKeepsRounds, OthersKeepRounds
  <2>4. CASE TerminateOnSingleStep(g) \/ ClaimTimeout(g)
    <3>1. PICK s \in Settled : InProgress(g) /\ Settle(g, s)
      BY <2>4, OnlyOpenGamesSettle
    <3>2. games'[g].status # "inProgress"
      BY <3>1, SettledFields DEF Settled
    <3> QED
      BY SMTT(30), <3>1, <3>2, SettledFields, OthersKeepRounds
  <2> QED
    BY <1>5, <2>2, <2>3, <2>4 DEF GameStep
<1> QED
  BY <1>2, <1>3, <1>4, <1>5 DEF SystemNext

\* An open game with rounds left has its move: answer, terminate or bisect.
LEMMA RoundsLeftIsAMove ==
    ASSUME SystemInv, MoverInv
    PROVE  MoverHasABlock
<1> SUFFICES ASSUME NEW g \in GameId, InProgress(g), games[g].pendingMidpoint = NoClaim,
                    ~ ReadyToTerminate(games[g])
             PROVE  /\ games[g].depth < MaxDepth
                    /\ games[g].low.idx < MidpointIdx(games[g])
                    /\ MidpointIdx(games[g]) < games[g].high.idx
  BY Zenon DEF MoverHasABlock, MoverInv, RoundsLeft
<1> DEFINE l == games[g].low.idx
           h == games[g].high.idx
<1>1. /\ l \in Nat /\ h \in Nat /\ games[g].depth \in 0 .. MaxDepth
      /\ l < h /\ h - l <= RangeWithin(MaxDepth - games[g].depth)
  BY Zenon, GameFacts DEF SystemInv, GameInv, MoverInv, RoundsLeft
<1>2. h - l # 1
  BY DEF ReadyToTerminate, InProgress
<1>3. games[g].depth < MaxDepth
  <2> SUFFICES ASSUME ~(games[g].depth < MaxDepth) PROVE FALSE
    OBVIOUS
  <2>1. MaxDepth - games[g].depth = 0
    BY <1>1, GameConfig
  <2> QED
    BY SMTT(30), <1>1, <1>2, <2>1, DepthCoversRange
<1> HIDE DEF l, h
<1>4. l < (l + h) \div 2 /\ (l + h) \div 2 < h
  BY <1>1, <1>2
<1> QED
  BY <1>3, <1>4 DEF MidpointIdx, l, h

\* In every open game, however the calls of its parties and of the other games
\* interleave, the side to move has a move the depth cap allows and a block to
\* make it in: no party is timed out of a game it could not have moved in.
THEOREM MoverAlwaysHasABlock ==
    ASSUME CallersNameOpenedGames
    PROVE  SystemSpec => []MoverHasABlock
<1>1. SystemInit => MoverInv
  BY GameConfig DEF SystemInit, MoverInv, InProgress, Opened, GameId
<1>2. SystemInv /\ MoverInv /\ [SystemNext]_systemVars => MoverInv'
  BY MoverInvStep
<1>3. SystemInv /\ MoverInv => MoverHasABlock
  BY RoundsLeftIsAMove
<1> QED
  BY <1>1, <1>2, <1>3, SystemInvariant, PTL DEF SystemSpec

=============================================================================
