-------------------------- MODULE HonestPlayProofs --------------------------
(***************************************************************************)
(* Proofs about the kernel's dispute game and the observer's strategy, for *)
(* every range, every depth cap that covers it, every step function and    *)
(* every opponent: the game stays well formed and strands nobody, and the  *)
(* strategy never loses a game it was right to play.                       *)
(***************************************************************************)
EXTENDS HonestPlay, TLAPS

-----------------------------------------------------------------------------
\* The kernel's game.


\* The rounds left always suffice to narrow the open range to one step, because
\* a pending midpoint is the middle of the range and a response keeps one half.
RoundsSuffice ==
    status = "inProgress" =>
        /\ pendingMidpoint # NoClaim =>
               depth < MaxDepth /\ pendingMidpoint.idx = MidpointIdx
        /\ high.idx - low.idx <= RangeWithin(MaxDepth - depth)

GameInv == TypeOK /\ WellFormed /\ RoundsSuffice

\* The midpoint of a range wider than one step splits it into two parts that
\* each fit in half of any even bound on its width.
LEMMA MidpointHalves ==
    ASSUME NEW l \in Nat, NEW h \in Nat, NEW w \in Nat, h - l <= 2 * w
    PROVE  /\ ((l + h) \div 2) - l <= w
           /\ h - ((l + h) \div 2) <= w
           /\ (l + h) \div 2 \in Nat
  OBVIOUS

\* A claim is a log index, hence a natural number, and a commitment.
LEMMA ClaimFields ==
    ASSUME NEW c \in Claim
    PROVE  c.idx \in 0 .. LastIndex /\ c.idx \in Nat /\ c.commit \in StateCommit
  BY GameConstants DEF Claim, LogIndex

\* A game that was never opened satisfies the invariant.
LEMMA InitGameInv == Init => GameInv
  BY GameConstants DEF Init, GameInv, TypeOK, WellFormed, RoundsSuffice,
     GameStatus, TurnSide, Claim, LogIndex

\* initiateChallenge opens a non-empty range no wider than the cap can bisect.
LEMMA OpenKeepsInv ==
    ASSUME GameInv, NEW lo \in Claim, NEW hi \in Claim, NEW root \in ActionsRoot,
           Open(lo, hi, root)
    PROVE  GameInv'
  <1>1. TypeOK' /\ WellFormed'
    BY GameConstants DEF GameInv, TypeOK, WellFormed, Open, GameStatus, TurnSide
  <1>2. hi.idx - lo.idx <= RangeWithin(MaxDepth)
    BY ClaimFields, DepthCoversRange, GameConstants
  <1>3. RoundsSuffice'
    BY <1>2, GameConstants DEF RoundsSuffice, Open
  <1> QED BY <1>1, <1>3 DEF GameInv

\* submitMidpoint places the middle of a range of two or more steps, strictly
\* inside it, and passes the turn.
LEMMA SubmitKeepsInv ==
    ASSUME GameInv, NEW commit \in StateCommit, SubmitMidpoint(commit)
    PROVE  GameInv'
  <1> USE DEF GameInv
  <1>1. /\ low.idx \in 0 .. LastIndex /\ high.idx \in 0 .. LastIndex
        /\ low.idx < MidpointIdx /\ MidpointIdx < high.idx
    BY ClaimFields DEF TypeOK, SubmitMidpoint
  <1>2. MidpointIdx \in LogIndex
    BY <1>1, GameConstants DEF MidpointIdx, LogIndex
  <1>3. pendingMidpoint' \in Claim
    BY <1>2 DEF SubmitMidpoint, Claim
  <1>4. TypeOK'
    BY <1>3 DEF TypeOK, SubmitMidpoint, TurnSide, Flip
  <1>5. pendingMidpoint' # NoClaim
    BY <1>3, GameConstants
  <1>6. turn = "sequencer" /\ turn' = "challenger"
    BY DEF WellFormed, SubmitMidpoint, Flip
  <1>7. WellFormed'
    BY <1>1, <1>5, <1>6 DEF WellFormed, SubmitMidpoint
  <1>8. RoundsSuffice'
    BY DEF RoundsSuffice, SubmitMidpoint, MidpointIdx
  <1> QED BY <1>4, <1>7, <1>8

\* What both responses share: a round is left, the pending midpoint is a claim
\* inside the range, and each half fits in what the remaining rounds cover.
LEMMA ResponseHalves ==
    ASSUME GameInv, status = "inProgress", pendingMidpoint # NoClaim
    PROVE  /\ pendingMidpoint \in Claim
           /\ low.idx < pendingMidpoint.idx /\ pendingMidpoint.idx < high.idx
           /\ turn = "challenger"
           /\ depth + 1 \in 0 .. MaxDepth
           /\ pendingMidpoint.idx - low.idx <= RangeWithin(MaxDepth - (depth + 1))
           /\ high.idx - pendingMidpoint.idx <= RangeWithin(MaxDepth - (depth + 1))
  <1>1. /\ pendingMidpoint \in Claim
        /\ low.idx < pendingMidpoint.idx /\ pendingMidpoint.idx < high.idx
        /\ turn = "challenger"
    BY DEF GameInv, TypeOK, WellFormed, TurnSide
  <1>2. depth \in Nat /\ depth + 1 \in 0 .. MaxDepth
    BY GameConstants DEF GameInv, TypeOK, RoundsSuffice
  <1> DEFINE d == MaxDepth - (depth + 1)
             w == RangeWithin(d)
  <1>3. d \in 0 .. MaxDepth /\ d < MaxDepth /\ d + 1 = MaxDepth - depth
    BY <1>2, GameConstants
  <1>4. w \in Nat /\ RangeWithin(d + 1) = 2 * w
    BY <1>3, DepthCoversRange
  <1>5. high.idx - low.idx <= 2 * w
    BY <1>3, <1>4 DEF GameInv, RoundsSuffice
  <1>6. low.idx \in Nat /\ high.idx \in Nat
    BY ClaimFields DEF GameInv, TypeOK
  <1>7. pendingMidpoint.idx = (low.idx + high.idx) \div 2
    BY DEF GameInv, RoundsSuffice, MidpointIdx
  <1> HIDE DEF w
  <1>8. pendingMidpoint.idx - low.idx <= w /\ high.idx - pendingMidpoint.idx <= w
    BY <1>4, <1>5, <1>6, <1>7, MidpointHalves
  <1> QED BY <1>1, <1>2, <1>8 DEF w

\* respondToMidpoint spends a round and keeps one half of the range.
LEMMA RespondKeepsInv ==
    ASSUME GameInv, RespondAgree \/ RespondDisagree
    PROVE  GameInv'
  <1>1. /\ status = "inProgress" /\ pendingMidpoint # NoClaim
        /\ status' = status /\ actionsRoot' = actionsRoot
        /\ pendingMidpoint' = NoClaim
        /\ depth' = depth + 1 /\ turn' = Flip(turn)
        /\ \/ low' = pendingMidpoint /\ high' = high
           \/ high' = pendingMidpoint /\ low' = low
    BY DEF RespondAgree, RespondDisagree
  <1>2. TypeOK'
    BY <1>1, ResponseHalves DEF GameInv, TypeOK, Flip, TurnSide
  <1>3. WellFormed'
    BY <1>1, ResponseHalves DEF WellFormed, Flip
  <1>4. RoundsSuffice'
    BY <1>1, ResponseHalves DEF RoundsSuffice
  <1> QED BY <1>2, <1>3, <1>4 DEF GameInv

\* Terminating or timing out changes only the status.
LEMMA SettleKeepsInv ==
    ASSUME GameInv, TerminateOnSingleStep \/ TerminateOnBadStep \/ TimeoutLoss
    PROVE  GameInv'
  <1>1. /\ status # "unopened" /\ status' \in Settled
        /\ UNCHANGED <<actionsRoot, low, high, pendingMidpoint, depth, turn>>
    BY DEF TerminateOnSingleStep, TerminateOnBadStep, ReadyToTerminate, TimeoutLoss,
       Verdict, WonBy, TimeoutStatus, Settled
  <1> QED
    BY <1>1 DEF GameInv, TypeOK, WellFormed, RoundsSuffice, GameStatus, Settled

\* Every transition of Game.lean's applyTransition preserves the invariant.
LEMMA GameInvInductive == GameInv /\ [Next]_gameVars => GameInv'
  <1> SUFFICES ASSUME GameInv, [Next]_gameVars PROVE GameInv'
    OBVIOUS
  <1>1. CASE \E lo, hi \in Claim, root \in ActionsRoot : Open(lo, hi, root)
    BY <1>1, OpenKeepsInv
  <1>2. CASE \E commit \in StateCommit : SubmitMidpoint(commit)
    BY <1>2, SubmitKeepsInv
  <1>3. CASE RespondAgree \/ RespondDisagree
    BY <1>3, RespondKeepsInv
  <1>4. CASE TerminateOnSingleStep \/ TerminateOnBadStep \/ TimeoutLoss
    BY <1>4, SettleKeepsInv
  <1>5. CASE UNCHANGED gameVars
    BY <1>5 DEF gameVars, GameInv, TypeOK, WellFormed, RoundsSuffice, MidpointIdx
  <1> QED BY <1>1, <1>2, <1>3, <1>4, <1>5 DEF Next

\* The inductive invariant holds of every reachable game.
THEOREM GameInvariant == Spec => []GameInv
  BY InitGameInv, GameInvInductive, PTL DEF Spec

\* Every reachable state of the kernel's game has its type.
THEOREM GameTyped == Spec => []TypeOK
  <1>1. GameInv => TypeOK
    BY DEF GameInv
  <1> QED BY <1>1, GameInvariant, PTL

\* Game.lean's `gameWellFormed` and `turnAlignedWithPending` hold of every
\* reachable game, not only of one transition from a well-formed one.
THEOREM GameWellFormed == Spec => []WellFormed
  <1>1. GameInv => WellFormed
    BY DEF GameInv
  <1> QED BY <1>1, GameInvariant, PTL

\* The depth cap never takes the last legal move from the side to move, for
\* every index width and cap with LastIndex <= 2^MaxDepth.
THEOREM DepthCapSafe == Spec => []DepthCapNeverStrands
  <1>1. GameInv => DepthCapNeverStrands
    <2> SUFFICES ASSUME GameInv, status = "inProgress", ~(depth < MaxDepth)
                 PROVE  IsSingleStep /\ pendingMidpoint = NoClaim
      BY DEF DepthCapNeverStrands
    <2>1. MaxDepth - depth = 0
      BY GameConstants DEF GameInv, TypeOK
    <2>2. high.idx - low.idx <= 1 /\ pendingMidpoint = NoClaim
      BY <2>1, DepthCoversRange DEF GameInv, RoundsSuffice
    <2>3. low.idx < high.idx /\ low.idx \in Nat /\ high.idx \in Nat
      BY ClaimFields DEF GameInv, TypeOK, WellFormed
    <2> QED BY <2>2, <2>3 DEF IsSingleStep
  <1> QED BY <1>1, GameInvariant, PTL

-----------------------------------------------------------------------------
\* The observer's side.


\* A midpoint the observer submitted as sequencer carries the replayed commit.
OwnMidpointTrue ==
    me = "sequencer" /\ status = "inProgress" /\ pendingMidpoint # NoClaim
        => IsTrue(pendingMidpoint)

\* The disputed batch commits the replayed log, perhaps with gaps.
BatchOfLog ==
    status = "inProgress" => actionsRoot = Log \/ OmitsOnly(actionsRoot)

\* Inductive strengthening of HonestNeverLoses.
HonestInv ==
    /\ GameInv
    /\ me \in TurnSide
    /\ RangeKeepsVerdict
    /\ OwnMidpointTrue
    /\ BatchOfLog
    /\ HonestNeverLoses

\* The replayed commit of every index is a commitment.
LEMMA TrueClaim == ASSUME NEW i \in LogIndex PROVE Truth[i] \in StateCommit
  BY TruthIsReplay

\* Every step of a played game is a step of the kernel's game.
LEMMA PlayIsGameStep ==
    ASSUME GameInv, PlayNext
    PROVE  Next
  <1>1. CASE \E lo, hi \in Claim, root \in ActionsRoot : OpenWinnable(lo, hi, root)
    BY <1>1 DEF OpenWinnable, Next
  <1>2. CASE pendingMidpoint = NoClaim /\ SubmitMidpoint(Truth[MidpointIdx])
    <2>1. low.idx \in 0 .. LastIndex /\ high.idx \in 0 .. LastIndex
      BY ClaimFields DEF GameInv, TypeOK
    <2>2. MidpointIdx \in LogIndex
      BY <2>1, GameConstants DEF MidpointIdx, LogIndex
    <2> QED BY <1>2, <2>2, TrueClaim DEF Next
  <1>3. CASE ComputeNextMove
    BY <1>2, <1>3 DEF ComputeNextMove, Next
  <1>4. CASE OpponentMove
    BY <1>4 DEF OpponentMove, Next
  <1> QED BY <1>1, <1>3, <1>4 DEF PlayNext

\* Terminating a range that keeps its verdict never goes against the observer:
\* the one step left is faulty when it challenges and sound when it defends.
LEMMA TerminalStepIsJust ==
    ASSUME HonestInv, TerminateOnSingleStep, me' = me
    PROVE  HonestNeverLoses'
  <1>1. turn = "sequencer" /\ low \in Claim /\ high \in Claim
    BY DEF HonestInv, GameInv, TypeOK, WellFormed, TerminateOnSingleStep,
       ReadyToTerminate
  <1>2. low.idx \in LogIndex /\ low.idx + 1 \in LogIndex /\ high.idx = low.idx + 1
    BY <1>1, ClaimFields DEF TerminateOnSingleStep, ReadyToTerminate, IsSingleStep,
       LogIndex
  <1>3. Step[actionsRoot][low.idx][low.commit] = Step[Log][low.idx][low.commit]
    BY <1>1, <1>2, ClaimFields DEF HonestInv, BatchOfLog, OmitsOnly,
       TerminateOnSingleStep, ReadyToTerminate
  <1>4. low.commit = Truth[low.idx]
    BY DEF HonestInv, RangeKeepsVerdict, IsTrue, TerminateOnSingleStep,
       ReadyToTerminate
  <1>5. Step[actionsRoot][low.idx][low.commit] = Truth[high.idx]
    BY <1>2, <1>3, <1>4, TruthIsReplay
  <1>6. (Step[actionsRoot][low.idx][low.commit] = high.commit) <=> (me = "sequencer")
    BY <1>5 DEF HonestInv, RangeKeepsVerdict, IsTrue, TerminateOnSingleStep,
       ReadyToTerminate
  <1>7. status' = IF me = "sequencer" THEN "sequencerWon" ELSE "challengerWon"
    BY <1>1, <1>6 DEF TerminateOnSingleStep, Verdict, WonBy, Flip
  <1> QED BY <1>7 DEF HonestNeverLoses, LosingStatus, HonestInv, TurnSide

\* Before a game is opened there is nothing to lose.
LEMMA InitHonest == PlayInit => HonestInv
  BY InitGameInv DEF PlayInit, Init, HonestInv, RangeKeepsVerdict, OwnMidpointTrue,
     BatchOfLog, OmitsOnly, HonestNeverLoses, LosingStatus

\* A game the observer is right to play opens on a true low endpoint and on a
\* high one that is true exactly when the observer defends it.
LEMMA OpenKeepsHonest ==
    ASSUME HonestInv, NEW lo \in Claim, NEW hi \in Claim, NEW root \in ActionsRoot,
           OpenWinnable(lo, hi, root), me' = me
    PROVE  RangeKeepsVerdict' /\ OwnMidpointTrue' /\ BatchOfLog' /\ HonestNeverLoses'
  BY DEF OpenWinnable, Open, IsTrue, RangeKeepsVerdict, OwnMidpointTrue,
     BatchOfLog, OmitsOnly, HonestNeverLoses, LosingStatus

\* No move of compute_next_move gives the range's verdict away.
LEMMA ObserverKeepsHonest ==
    ASSUME HonestInv, ComputeNextMove, me' = me
    PROVE  RangeKeepsVerdict' /\ OwnMidpointTrue' /\ BatchOfLog' /\ HonestNeverLoses'
  <1>1. CASE TerminateOnSingleStep
    <2>1. RangeKeepsVerdict' /\ OwnMidpointTrue' /\ BatchOfLog'
      BY <1>1 DEF TerminateOnSingleStep, ReadyToTerminate, HonestInv,
         RangeKeepsVerdict, IsTrue, OwnMidpointTrue, BatchOfLog, Verdict, WonBy
    <2> QED BY <1>1, <2>1, TerminalStepIsJust DEF HonestNeverLoses
  <1>2. CASE SubmitMidpoint(Truth[MidpointIdx])
    BY <1>2 DEF SubmitMidpoint, HonestInv, RangeKeepsVerdict, IsTrue,
       OwnMidpointTrue, BatchOfLog, OmitsOnly, HonestNeverLoses, LosingStatus
  <1>3. CASE RespondAgree /\ IsTrue(pendingMidpoint)
    BY <1>3 DEF RespondAgree, HonestInv, RangeKeepsVerdict, IsTrue,
       OwnMidpointTrue, BatchOfLog, OmitsOnly, HonestNeverLoses, LosingStatus
  <1>4. CASE RespondDisagree /\ ~IsTrue(pendingMidpoint) /\ turn = me
    <2>1. me = "challenger"
      BY <1>4 DEF HonestInv, GameInv, WellFormed, RespondDisagree, TypeOK, TurnSide
    <2> QED
      BY <1>4, <2>1 DEF RespondDisagree, HonestInv, RangeKeepsVerdict, IsTrue,
         OwnMidpointTrue, BatchOfLog, OmitsOnly, HonestNeverLoses, LosingStatus
  <1> QED BY <1>1, <1>2, <1>3, <1>4 DEF ComputeNextMove

\* No move of the other side takes it: a false midpoint only reaches the range
\* when the observer agrees to it.
LEMMA OpponentKeepsHonest ==
    ASSUME HonestInv, OpponentMove, me' = me
    PROVE  RangeKeepsVerdict' /\ OwnMidpointTrue' /\ BatchOfLog' /\ HonestNeverLoses'
  <1>1. turn = Flip(me) /\ me \in TurnSide
    BY DEF OpponentMove, HonestInv
  <1>2. CASE TerminateOnSingleStep
    <2>1. RangeKeepsVerdict' /\ OwnMidpointTrue' /\ BatchOfLog'
      BY <1>2 DEF TerminateOnSingleStep, ReadyToTerminate, HonestInv,
         RangeKeepsVerdict, IsTrue, OwnMidpointTrue, BatchOfLog, Verdict, WonBy
    <2> QED BY <1>2, <2>1, TerminalStepIsJust DEF HonestNeverLoses
  <1>3. CASE \E commit \in StateCommit : SubmitMidpoint(commit)
    <2>1. me = "challenger"
      BY <1>1, <1>3 DEF HonestInv, GameInv, WellFormed, SubmitMidpoint, Flip, TurnSide
    <2> QED
      BY <1>3, <2>1 DEF SubmitMidpoint, HonestInv, RangeKeepsVerdict, IsTrue,
         OwnMidpointTrue, BatchOfLog, OmitsOnly, HonestNeverLoses, LosingStatus
  <1>4. CASE RespondAgree \/ RespondDisagree
    <2>1. me = "sequencer" /\ IsTrue(pendingMidpoint)
      BY <1>1, <1>4 DEF HonestInv, GameInv, WellFormed, OwnMidpointTrue,
         RespondAgree, RespondDisagree, Flip, TurnSide
    <2> QED
      BY <1>4, <2>1 DEF RespondAgree, RespondDisagree, HonestInv,
         RangeKeepsVerdict, IsTrue, OwnMidpointTrue, BatchOfLog, OmitsOnly, HonestNeverLoses, LosingStatus
  <1>5. CASE TimeoutLoss
    BY <1>1, <1>5 DEF TimeoutLoss, TimeoutStatus, HonestInv, RangeKeepsVerdict,
       IsTrue, OwnMidpointTrue, BatchOfLog, HonestNeverLoses, LosingStatus, Flip, TurnSide
  <1>6. CASE TerminateOnBadStep
    BY <1>1, <1>6 DEF TerminateOnBadStep, ReadyToTerminate, WonBy, HonestInv,
       RangeKeepsVerdict, IsTrue, OwnMidpointTrue, BatchOfLog, HonestNeverLoses,
       LosingStatus, Flip, TurnSide
  <1> QED BY <1>2, <1>3, <1>4, <1>5, <1>6 DEF OpponentMove

\* Every step of a played game preserves the strengthened invariant.
LEMMA HonestInductive == HonestInv /\ [PlayNext]_playVars => HonestInv'
  <1> SUFFICES ASSUME HonestInv, [PlayNext]_playVars PROVE HonestInv'
    OBVIOUS
  <1>1. CASE PlayNext
    <2>1. GameInv'
      BY <1>1, PlayIsGameStep, GameInvInductive DEF HonestInv
    <2> QED
      BY <1>1, <2>1, OpenKeepsHonest, ObserverKeepsHonest, OpponentKeepsHonest
         DEF PlayNext, HonestInv
  <1>2. CASE UNCHANGED playVars
    <2>1. GameInv'
      BY <1>2, GameInvInductive DEF HonestInv, playVars
    <2> QED
      BY <1>2, <2>1 DEF gameVars, playVars, HonestInv, RangeKeepsVerdict, IsTrue,
         OwnMidpointTrue, BatchOfLog, OmitsOnly, HonestNeverLoses, LosingStatus
  <1> QED BY <1>1, <1>2

\* The strengthened invariant holds of every played game.
THEOREM HonestInvariant == PlaySpec => []HonestInv
  BY InitHonest, HonestInductive, PTL DEF PlaySpec

\* An observer that plays compute_next_move never loses a game it was right to
\* play: a challenger beats every false root, a sequencer keeps every true one.
THEOREM HonestSideNeverLoses == PlaySpec => []HonestNeverLoses
  <1>1. HonestInv => HonestNeverLoses
    BY DEF HonestInv
  <1> QED BY <1>1, HonestInvariant, PTL

\* The open range keeps a true low endpoint and the verdict of its high one.
THEOREM HonestRange == PlaySpec => []RangeKeepsVerdict
  <1>1. HonestInv => RangeKeepsVerdict
    BY DEF HonestInv
  <1> QED BY <1>1, HonestInvariant, PTL
=============================================================================
