--------------------------- MODULE FaultProofGame ---------------------------
(***************************************************************************)
(* KnomosisFaultProofGame on top of the state-root registry: challenges,   *)
(* bisection moves with deadlines, timeouts, settlement and the bonds.     *)
(* Every external call is one step and includes the registry calls it      *)
(* makes.  The deployment modelled leaves `disputeVerifier` zero, so       *)
(* settlement makes no bridge call.                                        *)
(***************************************************************************)
EXTENDS StateRootRegistry, FiniteSetsExt

CONSTANTS
    MaxDepth,            \* MAX_BISECTION_DEPTH
    Step,                \* the adjudicated step, as in BisectionGame
    NoStep,
    NoClaim,             \* hasPendingMidpoint = false
    MaxGames,            \* bound: game ids of the instance
    Challengers,         \* accounts that open challenges
    Sequencer,
    Treasury,
    ZeroAddress,
    ChallengeBond,       \* MIN_CHALLENGE_BOND
    ResponseTimeout,     \* BISECTION_RESPONSE_TIMEOUT
    StepInterval,        \* MIN_BISECTION_STEP_INTERVAL_BLOCKS
    CallersNameOpenedGames   \* environment: nobody calls on an id never opened

GameId == 1 .. MaxGames
Account == Challengers \cup {Sequencer, Treasury, ZeroAddress}
AnyCommit == StateCommit \cup {ZeroCommit}
AnyActions == ActionsRoot \cup {ZeroActions}
Claim == [idx : LogIndex, commit : AnyCommit]

ASSUME GameConfig ==
    /\ MaxDepth \in Nat
    /\ MaxGames \in Nat
    /\ ChallengeBond \in Nat \ {0}
    /\ ResponseTimeout \in Nat
    /\ StepInterval \in Nat
    /\ StepInterval < ResponseTimeout    \* InvalidTimeoutConfig
    /\ NoClaim \notin Claim
    /\ NoStep \notin AnyCommit
    /\ Step \in [AnyActions -> [LogIndex -> [AnyCommit -> AnyCommit \cup {NoStep}]]]
    /\ CallersNameOpenedGames \in BOOLEAN

\* The widest range d bisection rounds narrow to a single step.
RangeWithin(d) == 2 ^ d

\* Indices are uint64 and MAX_BISECTION_DEPTH is 64, so the cap covers every
\* range.  The rest is the arithmetic of powers of two.
ASSUME DepthCoversRange ==
    /\ LastIndex <= RangeWithin(MaxDepth)
    /\ RangeWithin(0) = 1
    /\ \A d \in 0 .. MaxDepth :
           /\ RangeWithin(d) \in Nat
           /\ d < MaxDepth => RangeWithin(d + 1) = 2 * RangeWithin(d)

VARIABLES
    games,                   \* mapping(uint256 => Game)
    nextGameId,
    activeGameForLogIndex,   \* 0 when no game is active
    pendingWithdrawals,
    gameEth                  \* the contract's balance

gameContractVars == <<games, nextGameId, activeGameForLogIndex,
                      pendingWithdrawals, gameEth>>
systemVars == <<registryVars, gameContractVars>>

TurnSide == {"sequencer", "challenger"}
Settled == {"sequencerWon", "challengerWon",
            "timedOutSequencer", "timedOutChallenger"}
Flip(side) == IF side = "sequencer" THEN "challenger" ELSE "sequencer"

\* actionsRoot is a history field: the root the batch had when the game opened.
\* The contract itself reads the registry again when the game terminates.
Game ==
    [challenger : Account,
     low : Claim,
     high : Claim,
     pendingMidpoint : Claim \cup {NoClaim},
     depth : 0 .. MaxDepth,
     turn : TurnSide,
     turnDeadline : Nat,
     lastStepBlock : Nat,
     sequencerBond : Nat,
     challengerBond : Nat,
     status : Settled \cup {"inProgress"},
     disputedLogIndex : LogIndex,
     actionsRoot : AnyActions]

ZeroClaim == [idx |-> 0, commit |-> ZeroCommit]

\* The value an unwritten mapping slot reads as; InProgress is enum value 0.
EmptyGame ==
    [challenger |-> ZeroAddress, low |-> ZeroClaim, high |-> ZeroClaim,
     pendingMidpoint |-> NoClaim, depth |-> 0, turn |-> "sequencer",
     turnDeadline |-> 0, lastStepBlock |-> 0, sequencerBond |-> 0,
     challengerBond |-> 0, status |-> "inProgress", disputedLogIndex |-> 0,
     actionsRoot |-> ZeroActions]

SystemInit ==
    /\ Init
    /\ games = [g \in GameId |-> EmptyGame]
    /\ nextGameId = 0
    /\ activeGameForLogIndex = [k \in LogIndex |-> 0]
    /\ pendingWithdrawals = [a \in Account |-> 0]
    /\ gameEth = 0

Opened(g) == g <= nextGameId
Nameable(g) == CallersNameOpenedGames => Opened(g)

InitiateChallenge(who, k, challengerCommit) ==
    LET g == nextGameId + 1
        r == roots[k]
        lo == roots[r.prevEndIndex]
    IN  /\ block <= LastActiveBlock
        /\ g \in GameId
        /\ activeGameForLogIndex[k] = 0
        /\ r.prevEndIndex < k
        /\ challengerCommit # r.stateCommit
        /\ lo.submittedAtBlock # 0
        /\ nextGameId' = g
        /\ games' = [games EXCEPT ![g] =
               [challenger |-> who,
                low |-> [idx |-> r.prevEndIndex, commit |-> lo.stateCommit],
                high |-> [idx |-> k, commit |-> r.stateCommit],
                pendingMidpoint |-> NoClaim,
                depth |-> 0,
                turn |-> "sequencer",
                turnDeadline |-> block + ResponseTimeout,
                lastStepBlock |-> block,
                sequencerBond |-> 0,
                challengerBond |-> ChallengeBond,
                status |-> "inProgress",
                disputedLogIndex |-> k,
                actionsRoot |-> r.actionsRoot]]
        /\ activeGameForLogIndex' = [activeGameForLogIndex EXCEPT ![k] = g]
        /\ gameEth' = gameEth + ChallengeBond
        /\ MarkDisputed(k)   \* refuses a missing, finalised or reverted record
        /\ UNCHANGED pendingWithdrawals

\* The guards submitMidpoint and respondToMidpoint share; the caller is the
\* responsible party.
MayMove(g) ==
    /\ games[g].status = "inProgress"
    /\ block <= games[g].turnDeadline
    /\ block >= games[g].lastStepBlock + StepInterval

\* Fault: the deadline of the other side is not restarted.
PassTurnSameDeadline(game) ==
    [game EXCEPT !.turn = Flip(game.turn), !.lastStepBlock = block]

\* The turn handover both end with.
PassTurn(game) ==
    [game EXCEPT !.turn = Flip(game.turn),
                 !.turnDeadline = block + ResponseTimeout,
                 !.lastStepBlock = block]

MidpointIdx(game) == (game.low.idx + game.high.idx) \div 2

\* Fault: a pending midpoint does not hold back another.
SubmitMidpointAgain(g, midpointCommit) ==
    LET game == games[g]
        mpIdx == MidpointIdx(game)
    IN  /\ MayMove(g)
        /\ game.depth < MaxDepth
        /\ game.low.idx < mpIdx
        /\ mpIdx < game.high.idx
        /\ games' = [games EXCEPT ![g] = PassTurn(
               [game EXCEPT !.pendingMidpoint =
                                [idx |-> mpIdx, commit |-> midpointCommit]])]
        /\ UNCHANGED <<registryVars, nextGameId, activeGameForLogIndex,
                       pendingWithdrawals, gameEth>>

SubmitMidpoint(g, midpointCommit) ==
    LET game == games[g]
        mpIdx == MidpointIdx(game)
    IN  /\ MayMove(g)
        /\ game.pendingMidpoint = NoClaim
        /\ game.depth < MaxDepth
        /\ game.low.idx < mpIdx
        /\ mpIdx < game.high.idx
        /\ games' = [games EXCEPT ![g] = PassTurn(
               [game EXCEPT !.pendingMidpoint =
                                [idx |-> mpIdx, commit |-> midpointCommit]])]
        /\ UNCHANGED <<registryVars, nextGameId, activeGameForLogIndex,
                       pendingWithdrawals, gameEth>>

RespondToMidpoint(g, agree) ==
    LET game == games[g]
        mid == game.pendingMidpoint
    IN  /\ MayMove(g)
        /\ mid # NoClaim
        /\ game.depth + 1 <= MaxDepth
        /\ games' = [games EXCEPT ![g] = PassTurn(
               [game EXCEPT !.low = IF agree THEN mid ELSE game.low,
                            !.high = IF agree THEN game.high ELSE mid,
                            !.pendingMidpoint = NoClaim,
                            !.depth = game.depth + 1])]
        /\ UNCHANGED <<registryVars, nextGameId, activeGameForLogIndex,
                       pendingWithdrawals, gameEth>>

-----------------------------------------------------------------------------
ChallengerWins(finalStatus) == finalStatus \in {"challengerWon", "timedOutSequencer"}

WinnerPayout(total) == (total * 95) \div 100

\* Fault: both shares are rounded down.
TreasuryPayoutRounded(total) == (total * 5) \div 100

TreasuryPayout(total) == total - WinnerPayout(total)

\* Fault: the lock is cleared under the narrowed range's high index.
LockKeyNarrowed(game) == game.high.idx

\* The key of the single-game lock, set when the game was opened.
LockKey(game) == game.disputedLogIndex

\* Fault: a sequencer's win leaves the record flagged.
SettleWithoutClearing(k, challengerWins) ==
    \/ /\ challengerWins
       /\ SlashSequencerBond(k)
       /\ RevertStateRootsFrom(k)
       /\ UNCHANGED <<block, submitVars, submissionsHalted>>
    \/ ~challengerWins /\ UNCHANGED registryVars

\* _settle's registry leg.  A slash that fails is caught; the revert is made
\* whether or not the slash succeeded.
SettleRegistry(k, challengerWins) ==
    \/ /\ challengerWins
       /\ \/ SlashSequencerBond(k)
          \/ ~Slashable(k) /\ UNCHANGED <<roots, bondVars>>
       /\ RevertStateRootsFrom(k)
       /\ UNCHANGED <<block, submitVars, submissionsHalted>>
    \/ ~challengerWins /\ ClearDisputed(k)

Settle(g, finalStatus) ==
    LET game == games[g]
        k == game.disputedLogIndex
        challengerWins == ChallengerWins(finalStatus)
        winner == IF challengerWins THEN game.challenger ELSE Sequencer
        slashed == IF challengerWins /\ Slashable(k) THEN roots[k].bond ELSE 0
        total == game.sequencerBond + slashed + game.challengerBond
    IN  /\ games' = [games EXCEPT ![g].status = finalStatus,
                                  ![g].sequencerBond = game.sequencerBond + slashed]
        /\ activeGameForLogIndex' = [activeGameForLogIndex EXCEPT ![LockKey(game)] = 0]
        /\ SettleRegistry(k, challengerWins)
        /\ pendingWithdrawals' =
               [a \in Account |->
                   pendingWithdrawals[a]
                   + (IF a = winner THEN WinnerPayout(total) ELSE 0)
                   + (IF a = Treasury THEN TreasuryPayout(total) ELSE 0)]
        /\ gameEth' = gameEth + slashed
        /\ UNCHANGED nextGameId

\* Fault: a settled game can be terminated again.
ReadyToTerminateTwice(game) ==
    /\ game.high.idx - game.low.idx = 1
    /\ game.pendingMidpoint = NoClaim

ReadyToTerminate(game) ==
    /\ game.status = "inProgress"
    /\ game.high.idx - game.low.idx = 1
    /\ game.pendingMidpoint = NoClaim

\* No deadline check: the responsible party may terminate late, until someone
\* claims the timeout.  The action opens against the registry's actions root.
TerminateOnSingleStep(g) ==
    LET game == games[g]
        computed == Step[roots[game.disputedLogIndex].actionsRoot]
                        [game.low.idx][game.low.commit]
        winner == IF computed = game.high.commit THEN game.turn ELSE Flip(game.turn)
    IN  /\ ReadyToTerminate(game)
        /\ computed # NoStep
        /\ Settle(g, IF winner = "sequencer" THEN "sequencerWon" ELSE "challengerWon")

\* Fault: only the sequencer's silence can be claimed.
ClaimTimeoutSequencerOnly(g) ==
    LET game == games[g]
    IN  /\ Nameable(g)
        /\ game.status = "inProgress"
        /\ game.turn = "sequencer"
        /\ block > game.turnDeadline
        /\ Settle(g, "timedOutSequencer")

\* There is no check that the game was ever opened.
ClaimTimeout(g) ==
    LET game == games[g]
    IN  /\ Nameable(g)
        /\ game.status = "inProgress"
        /\ block > game.turnDeadline
        /\ Settle(g, IF game.turn = "sequencer"
                     THEN "timedOutSequencer" ELSE "timedOutChallenger")

Withdraw(who) ==
    /\ pendingWithdrawals[who] # 0
    /\ pendingWithdrawals' = [pendingWithdrawals EXCEPT ![who] = 0]
    /\ gameEth' = gameEth - pendingWithdrawals[who]
    /\ UNCHANGED <<registryVars, games, nextGameId, activeGameForLogIndex>>

-----------------------------------------------------------------------------
RegistryStep ==
    /\ \/ Tick
       \/ HaltSubmissions
       \/ ResumeSubmissions
       \/ \E k \in LogIndex :
             \/ \E c \in StateCommit, a \in ActionsRoot : SubmitStateRoot(k, c, a)
             \/ FinaliseStateRoot(k)
             \/ ReclaimRevertedBond(k)
    /\ UNCHANGED gameContractVars

GameStep(g) ==
    \/ \E c \in StateCommit : SubmitMidpoint(g, c)
    \/ \E agree \in BOOLEAN : RespondToMidpoint(g, agree)
    \/ TerminateOnSingleStep(g)
    \/ ClaimTimeout(g)

SystemNext ==
    \/ RegistryStep
    \/ \E who \in Challengers, k \in LogIndex, c \in StateCommit :
           InitiateChallenge(who, k, c)
    \/ \E g \in GameId : GameStep(g)
    \/ \E who \in Account \ {ZeroAddress} : Withdraw(who)

SystemSpec == SystemInit /\ [][SystemNext]_systemVars

\* Blocks keep coming, and whoever notices may claim an expired turn, finalise a
\* record or reclaim a reverted bond: all three calls are permissionless.
Liveness ==
    /\ WF_systemVars(Tick /\ UNCHANGED gameContractVars)
    /\ \A g \in GameId : WF_systemVars(ClaimTimeout(g))
    /\ \A k \in LogIndex :
          /\ WF_systemVars(FinaliseStateRoot(k) /\ UNCHANGED gameContractVars)
          /\ WF_systemVars(ReclaimRevertedBond(k) /\ UNCHANGED gameContractVars)

FairSystemSpec == SystemSpec /\ Liveness

-----------------------------------------------------------------------------
\* The storage of both contracts keeps its types: no balance or count goes
\* below zero, no game id passes nextGameId's bound.
SystemTypeOK ==
    /\ TypeOK
    /\ games \in [GameId -> Game]
    /\ nextGameId \in 0 .. MaxGames
    /\ activeGameForLogIndex \in [LogIndex -> 0 .. MaxGames]
    /\ pendingWithdrawals \in [Account -> Nat]
    /\ gameEth \in Nat

InProgress(g) == Opened(g) /\ games[g].status = "inProgress"

\* While a game is open its record is the one it was opened on: same actions
\* root and parent, still bonded, disputed and not finalised, and it holds the
\* single-game lock of its index.  terminateOnSingleStep reads the record again
\* relying on this, and settlement relies on the bond being there to slash.
GameStandsOnItsRecord ==
    \A g \in GameId : InProgress(g) =>
        LET k == games[g].disputedLogIndex
        IN  /\ activeGameForLogIndex[k] = g
            /\ roots[k].disputed
            /\ ~roots[k].finalised
            /\ roots[k].bond = Bond
            /\ roots[k].actionsRoot = games[g].actionsRoot
            /\ roots[k].prevEndIndex <= games[g].low.idx
            /\ games[g].high.idx <= k

\* No lock outlives its game: an index is locked, and a bonded record marked
\* disputed, only while a game on exactly that index is open.  _settle clears
\* the lock under disputedLogIndex although high.idx has moved since.
NoLeakedLock ==
    \A k \in LogIndex :
        /\ activeGameForLogIndex[k] # 0 =>
               /\ InProgress(activeGameForLogIndex[k])
               /\ games[activeGameForLogIndex[k]].disputedLogIndex = k
        /\ roots[k].disputed /\ roots[k].bond # 0 => activeGameForLogIndex[k] # 0

\* The game contract holds exactly what it owes: the credits not yet withdrawn
\* and the bonds of open games; the 95/5 split loses no wei to rounding.
GameEthBacked ==
    gameEth = MapThenSumSet(LAMBDA a : pendingWithdrawals[a], Account)
              + ChallengeBond * Cardinality({g \in GameId : InProgress(g)})

\* The side to move always has a move and a block to make it in: its window
\* outlasts the minimum step interval, the depth cap leaves room for the move
\* it owes, and a range that cannot be bisected is a single step.
MoverHasABlock ==
    \A g \in GameId : InProgress(g) =>
        LET game == games[g]
        IN  /\ game.lastStepBlock + StepInterval < game.turnDeadline
            /\ IF game.pendingMidpoint # NoClaim
               THEN game.depth < MaxDepth
               ELSE \/ ReadyToTerminate(game)
                    \/ /\ game.depth < MaxDepth
                       /\ game.low.idx < MidpointIdx(game)
                       /\ MidpointIdx(game) < game.high.idx

\* The kernel's game, read off the contract's state.
AbstractGame(g) == INSTANCE BisectionGame WITH
    StateCommit <- AnyCommit,
    ActionsRoot <- AnyActions,
    status <- IF Opened(g) THEN games[g].status ELSE "unopened",
    actionsRoot <- games[g].actionsRoot,
    low <- games[g].low,
    high <- games[g].high,
    pendingMidpoint <- games[g].pendingMidpoint,
    depth <- games[g].depth,
    turn <- games[g].turn

\* The contract implements Game.lean's game for every game id: whatever happens
\* to the registry, the clock and the other games between two moves of a game,
\* its moves are exactly the kernel's and its verdict uses the actions root the
\* game was opened on.
ImplementsKernelGame ==
    /\ \A g \in GameId : AbstractGame(g)!Init
    /\ [][\A g \in GameId :
              UNCHANGED AbstractGame(g)!gameVars \/ AbstractGame(g)!Next]_systemVars

\* The game contract keeps the protocol the registry is analysed under: it
\* clears or loses only disputes it opened, each once, and never settles a
\* challenger's win without a bond to slash.
ImplementsRegistry == Spec

\* Every game that is opened settles, however the parties play or stop playing.
EveryGameSettles ==
    \A g \in GameId : InProgress(g) ~> Opened(g) /\ games[g].status \in Settled

\* No bond is locked for ever: once challenges stop, each bonded record's bond
\* leaves the registry, by finalisation, slashing or reclaim.
EveryBondLeaves ==
    \A k \in LogIndex : (roots[k].bond # 0) ~> (roots[k].bond = 0)

-----------------------------------------------------------------------------
\* What the contracts' comments and the plan say, and the code does not keep.
\* TLC refutes each of them; the first three are stated for the record.

Live(k) == Submitted(k) /\ ~IsRecordReverted(k)

\* KnomosisStateRootSubmission.lastRevertAtBlock: post-revert resubmissions are
\* not misread as reverted.  A record reads canonical right after its submission.
FreshRootReadsCanonical ==
    [][\A k \in LogIndex, c \in StateCommit, a \in ActionsRoot :
          SubmitStateRoot(k, c, a) => ~IsRecordReverted(k)']_systemVars

\* revertStateRootsFrom: the range is reverted "from fromIdx onwards".  A live
\* record becomes reverted only by losing a dispute at or below its own index.
RevertsOnlyOnwards ==
    [][\A k \in LogIndex :
          Live(k) /\ IsRecordReverted(k)' =>
              \E g \in GameId :
                  /\ InProgress(g)
                  /\ games'[g].status # "inProgress"
                  /\ games[g].disputedLogIndex <= k]_systemVars

\* revertStateRootsFrom lowers the tip to "the last good parent": the tip is
\* never a record that lost its own game (still flagged, its bond slashed).
TipIsGood == ~(roots[canonicalTip].disputed /\ roots[canonicalTip].bond = 0)

\* finaliseStateRoot "marks the state root as canonical": a finalised record
\* never becomes reverted.
FinalisedStaysCanonical ==
    \A k \in LogIndex : roots[k].finalised => ~IsRecordReverted(k)

\* claimTimeout looks up the game and verifies that it is in progress: only a
\* game that was opened settles.
OnlyOpenedGamesSettle ==
    \A g \in GameId : games[g].status \in Settled => Opened(g)
=============================================================================
