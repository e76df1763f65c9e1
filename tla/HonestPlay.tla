----------------------------- MODULE HonestPlay -----------------------------
(***************************************************************************)
(* One side of a dispute game played by the observer daemon.  Its strategy *)
(* is `compute_next_move` (knomosis-faultproof-observer/src/strategy.rs):  *)
(* it compares claims with a truth oracle that replays the L2 log.  The    *)
(* other side makes any move the contract accepts.                         *)
(***************************************************************************)
EXTENDS BisectionGame

CONSTANTS
    Log,     \* the actions root of the log the observer replays
    Truth    \* TruthOracle::commit_at: the replayed commit at each index

VARIABLE me  \* `play_as`: the side the observer plays

\* Replaying action i of the log is executing it from the replayed state.
ASSUME TruthIsReplay ==
    /\ Log \in ActionsRoot
    /\ Truth \in [LogIndex -> StateCommit]
    /\ \A i \in LogIndex :
           i + 1 \in LogIndex => Truth[i + 1] = Step[Log][i][Truth[i]]

IsTrue(claim) == claim.commit = Truth[claim.idx]

\* The batch commits the replayed log, except that some action may not open.
OmitsOnly(root) ==
    \A i \in LogIndex, c \in StateCommit :
        Step[root][i][c] \in {Step[Log][i][c], NoStep}

\* Games the observer has a winning position in: the parent commit is true; a
\* challenger disputes a false root of its log, a sequencer defends its own.
OpenWinnable(lo, hi, root) ==
    /\ Open(lo, hi, root)
    /\ IsTrue(lo)
    /\ IsTrue(hi) <=> (me = "sequencer")
    /\ IF me = "sequencer" THEN root = Log ELSE OmitsOnly(root)

\* `compute_next_move` and its submission.  A missed oracle or a NoMove is a
\* step not taken.
ComputeNextMove ==
    /\ turn = me
    /\ \/ /\ pendingMidpoint = NoClaim
          /\ IsSingleStep
          /\ TerminateOnSingleStep
       \/ /\ pendingMidpoint = NoClaim
          /\ ~IsSingleStep
          /\ SubmitMidpoint(Truth[MidpointIdx])
       \/ /\ pendingMidpoint # NoClaim
          /\ IsTrue(pendingMidpoint)
          /\ RespondAgree
       \/ /\ pendingMidpoint # NoClaim
          /\ ~IsTrue(pendingMidpoint)
          /\ RespondDisagree

\* Everything the contract accepts from the other side, its silence included.
\* The observer itself moves before its deadline: the contract's timing leaves
\* it a block to do so (MoverHasABlock of FaultProofGame).
OpponentMove ==
    /\ turn = Flip(me)
    /\ \/ \E commit \in StateCommit : SubmitMidpoint(commit)
       \/ RespondAgree
       \/ RespondDisagree
       \/ TerminateOnSingleStep
       \/ TerminateOnBadStep
       \/ TimeoutLoss

playVars == <<gameVars, me>>

PlayInit == Init /\ me \in TurnSide

PlayNext ==
    /\ \/ \E lo, hi \in Claim, root \in ActionsRoot : OpenWinnable(lo, hi, root)
       \/ ComputeNextMove
       \/ OpponentMove
    /\ UNCHANGED me

PlaySpec == PlayInit /\ [][PlayNext]_playVars

LosingStatus ==
    IF me = "sequencer" THEN {"challengerWon", "timedOutSequencer"}
                        ELSE {"sequencerWon", "timedOutChallenger"}

\* A side that follows the observer's strategy never loses a game it was right
\* to play, whatever the other side claims: an honest challenger beats every
\* false root and an honest sequencer keeps every true one.
HonestNeverLoses == status \notin LosingStatus

\* Why the strategy wins: the low endpoint of the open range stays true
\* whoever moved last, and the high endpoint keeps the truth value it was
\* opened with, so a challenger's range always brackets a faulty step and a
\* sequencer's never does.
RangeKeepsVerdict ==
    status # "unopened" =>
        /\ IsTrue(low)
        /\ IsTrue(high) <=> (me = "sequencer")
=============================================================================
