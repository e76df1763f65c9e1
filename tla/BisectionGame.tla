---------------------------- MODULE BisectionGame ----------------------------
(***************************************************************************)
(* One dispute game as the verified kernel defines it: the state machine   *)
(* `applyTransition` of LegalKernel/FaultProof/Game.lean, without time,    *)
(* bonds or callers.  The L1 contract (FaultProofGame) is shown to         *)
(* implement it.                                                           *)
(*                                                                         *)
(* The inclusion proof, the step VM and the signature gate together give   *)
(* one adjudicated post-commit for the action an actions root commits at a *)
(* log index, run from a pre-commit: Step[a][i][c].  It is NoStep where    *)
(* no action opens there, so that no terminating call is accepted.         *)
(***************************************************************************)
EXTENDS Integers

CONSTANTS
    StateCommit,   \* the commitments a party can claim
    ActionsRoot,   \* the actions roots a batch can anchor
    LastIndex,     \* the largest log index of the instance
    MaxDepth,      \* MAX_BISECTION_DEPTH
    Step,          \* Step[a][i][c]: the adjudicated root of action i on root c
    NoStep,        \* no action opens at that index
    ZeroCommit,    \* the commitment an unwritten slot reads as
    ZeroActions,   \* the actions root an unwritten slot reads as
    NoClaim        \* `none` of Option Claim

LogIndex == 0 .. LastIndex
Claim == [idx : LogIndex, commit : StateCommit]

ASSUME GameConstants ==
    /\ LastIndex \in Nat
    /\ MaxDepth \in Nat
    /\ ZeroCommit \in StateCommit
    /\ ZeroActions \in ActionsRoot
    /\ Step \in [ActionsRoot -> [LogIndex -> [StateCommit -> StateCommit \cup {NoStep}]]]
    /\ NoStep \notin StateCommit
    /\ NoClaim \notin Claim

\* The widest range d bisection rounds narrow to a single step.
RangeWithin(d) == 2 ^ d

\* Indices are uint64 and the cap is 64, so the cap covers every range.  The
\* second conjunct is the arithmetic of powers of two.
ASSUME DepthCoversRange ==
    /\ LastIndex <= RangeWithin(MaxDepth)
    /\ RangeWithin(0) = 1
    /\ \A d \in 0 .. MaxDepth :
           /\ RangeWithin(d) \in Nat
           /\ d < MaxDepth => RangeWithin(d + 1) = 2 * RangeWithin(d)

VARIABLES
    status,            \* "unopened" until initiateChallenge, then a GameStatus
    actionsRoot,       \* the disputed batch's actions root
    low, high,         \* the disputed range
    pendingMidpoint,   \* a Claim or NoClaim
    depth,             \* completed bisection rounds
    turn               \* the side that must move

gameVars == <<status, actionsRoot, low, high, pendingMidpoint, depth, turn>>

TurnSide == {"sequencer", "challenger"}
Settled == {"sequencerWon", "challengerWon",
            "timedOutSequencer", "timedOutChallenger"}
GameStatus == {"unopened", "inProgress"} \cup Settled

Flip(side) == IF side = "sequencer" THEN "challenger" ELSE "sequencer"

MidpointIdx == (low.idx + high.idx) \div 2
IsSingleStep == high.idx = low.idx + 1

Init ==
    /\ status = "unopened"
    /\ actionsRoot = ZeroActions
    /\ low = [idx |-> 0, commit |-> ZeroCommit]
    /\ high = [idx |-> 0, commit |-> ZeroCommit]
    /\ pendingMidpoint = NoClaim
    /\ depth = 0
    /\ turn = "sequencer"

\* The starting state `initiateChallenge` writes.
Open(lo, hi, root) ==
    /\ status = "unopened"
    /\ lo.idx < hi.idx
    /\ status' = "inProgress"
    /\ actionsRoot' = root
    /\ low' = lo
    /\ high' = hi
    /\ pendingMidpoint' = NoClaim
    /\ depth' = 0
    /\ turn' = "sequencer"

SubmitMidpoint(commit) ==
    /\ status = "inProgress"
    /\ pendingMidpoint = NoClaim
    /\ depth < MaxDepth
    /\ low.idx < MidpointIdx
    /\ MidpointIdx < high.idx
    /\ pendingMidpoint' = [idx |-> MidpointIdx, commit |-> commit]
    /\ turn' = Flip(turn)
    /\ UNCHANGED <<status, actionsRoot, low, high, depth>>

\* Fault: the midpoint and its response are counted as two rounds.
RespondAgreeCountsTwice ==
    /\ status = "inProgress"
    /\ depth < MaxDepth
    /\ pendingMidpoint # NoClaim
    /\ low' = pendingMidpoint
    /\ pendingMidpoint' = NoClaim
    /\ depth' = depth + 2
    /\ turn' = Flip(turn)
    /\ UNCHANGED <<status, actionsRoot, high>>

RespondAgree ==
    /\ status = "inProgress"
    /\ depth < MaxDepth
    /\ pendingMidpoint # NoClaim
    /\ low' = pendingMidpoint
    /\ pendingMidpoint' = NoClaim
    /\ depth' = depth + 1
    /\ turn' = Flip(turn)
    /\ UNCHANGED <<status, actionsRoot, high>>

RespondDisagree ==
    /\ status = "inProgress"
    /\ depth < MaxDepth
    /\ pendingMidpoint # NoClaim
    /\ high' = pendingMidpoint
    /\ pendingMidpoint' = NoClaim
    /\ depth' = depth + 1
    /\ turn' = Flip(turn)
    /\ UNCHANGED <<status, actionsRoot, low>>

WonBy(side) == IF side = "sequencer" THEN "sequencerWon" ELSE "challengerWon"

\* The verdict when the side to move terminates: its position is the high
\* endpoint, upheld exactly when re-execution reproduces it.
Verdict(root, lo, hi, side) ==
    IF Step[root][lo.idx][lo.commit] = hi.commit
    THEN WonBy(side) ELSE WonBy(Flip(side))

ReadyToTerminate ==
    /\ status = "inProgress"
    /\ IsSingleStep
    /\ pendingMidpoint = NoClaim
    /\ Step[actionsRoot][low.idx][low.commit] # NoStep

TerminateOnSingleStep ==
    /\ ReadyToTerminate
    /\ status' = Verdict(actionsRoot, low, high, turn)
    /\ UNCHANGED <<actionsRoot, low, high, pendingMidpoint, depth, turn>>

\* A terminating call whose step names another pre-state or log index, or whose
\* cell proofs fail, loses the caller the game (the contract reverts instead).
TerminateOnBadStep ==
    /\ ReadyToTerminate
    /\ status' = WonBy(Flip(turn))
    /\ UNCHANGED <<actionsRoot, low, high, pendingMidpoint, depth, turn>>

TimeoutStatus(side) ==
    IF side = "sequencer" THEN "timedOutSequencer" ELSE "timedOutChallenger"

TimeoutLoss ==
    /\ status = "inProgress"
    /\ status' = TimeoutStatus(turn)
    /\ UNCHANGED <<actionsRoot, low, high, pendingMidpoint, depth, turn>>

Next ==
    \/ \E lo, hi \in Claim, root \in ActionsRoot : Open(lo, hi, root)
    \/ \E commit \in StateCommit : SubmitMidpoint(commit)
    \/ RespondAgree
    \/ RespondDisagree
    \/ TerminateOnSingleStep
    \/ TerminateOnBadStep
    \/ TimeoutLoss

Spec == Init /\ [][Next]_gameVars

\* Game.lean's GameState: endpoints and midpoint are claims about log indices,
\* and the depth never passes the cap.
TypeOK ==
    /\ status \in GameStatus
    /\ actionsRoot \in ActionsRoot
    /\ low \in Claim
    /\ high \in Claim
    /\ pendingMidpoint \in Claim \cup {NoClaim}
    /\ depth \in 0 .. MaxDepth
    /\ turn \in TurnSide

\* `gameWellFormed` and `turnAlignedWithPending`: an opened game always has a
\* non-empty range with any pending midpoint strictly inside it, and a midpoint
\* is pending exactly on the challenger's turn, so that only the sequencer ever
\* owes a midpoint or the terminal step and the challenger only ever a response.
WellFormed ==
    status # "unopened" =>
        /\ low.idx < high.idx
        /\ pendingMidpoint # NoClaim =>
               low.idx < pendingMidpoint.idx /\ pendingMidpoint.idx < high.idx
        /\ (pendingMidpoint = NoClaim) <=> (turn = "sequencer")

\* The depth cap never leaves an open game without a legal move: a game that has
\* used all its rounds has a single-step range and no pending midpoint, so the
\* DepthCapExceeded reverts of submitMidpoint and respondToMidpoint never cost
\* the side to move its turn.
DepthCapNeverStrands ==
    status = "inProgress" =>
        \/ depth < MaxDepth
        \/ IsSingleStep /\ pendingMidpoint = NoClaim
=============================================================================
