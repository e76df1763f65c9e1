-------------------------- MODULE StateRootRegistry --------------------------
(***************************************************************************)
(* KnomosisStateRootSubmission: the L1 registry of batch state roots, its  *)
(* bonds, the canonical tip, the dispute flag and the reverted range.      *)
(*                                                                         *)
(* Each call is one atomic step.  The chain hashes are left out: nothing   *)
(* in the contracts reads them back.  The fault-proof game's calls come    *)
(* from an environment that follows the game's protocol: it clears or      *)
(* loses only a dispute it opened.  FaultProofGame discharges that.        *)
(***************************************************************************)
EXTENDS Integers, FiniteSets

CONSTANTS
    LastIndex,            \* largest log index of the instance
    StateCommit,          \* state commitments a batch can publish
    ActionsRoot,          \* actions roots a batch can publish
    GenesisCommit,        \* _genesisStateCommit
    ZeroCommit,           \* bytes32(0) in a state-commit slot
    ZeroActions,          \* bytes32(0) in an actions-root slot
    Bond,                 \* STATE_ROOT_SUBMISSION_BOND
    DisputeWindow,        \* FAULT_PROOF_DISPUTE_WINDOW
    SubmissionInterval,   \* MIN_SUBMISSION_INTERVAL_BLOCKS
    MaxOutstanding,       \* MAX_OUTSTANDING_ROOTS_PER_SEQUENCER
    MaxActionsPerBatch,   \* MAX_ACTIONS_PER_BATCH
    LastBlock,            \* bound: the last L1 block of the instance
    LastActiveBlock,      \* bound: no batch or challenge after this block
    LastHaltBlock         \* bound: the breaker halts no later than this block

LogIndex == 0 .. LastIndex
NoRevertedFloor == LastIndex + 1   \* type(uint64).max

ASSUME RegistryConstants ==
    /\ LastIndex \in Nat
    /\ GenesisCommit \in StateCommit
    /\ Bond \in Nat \ {0}
    /\ DisputeWindow \in Nat \ {0}
    /\ SubmissionInterval \in Nat \ {0}
    /\ MaxOutstanding \in Nat \ {0}
    /\ MaxActionsPerBatch \in Nat \ {0}
    /\ LastBlock \in Nat
    /\ LastActiveBlock \in Nat
    /\ LastHaltBlock \in Nat

VARIABLES
    block,                     \* block.number
    roots,                     \* mapping(uint64 => SubmittedRoot)
    canonicalTip,
    lastRevertAtBlock,
    lastSubmissionBlock,       \* of the one registered sequencer
    outstandingRootsCount,     \* of the one registered sequencer
    lowestRevertedLogIndex,
    highestRevertedLogIndex,
    latestSubmittedLogIndex,
    submissionsHalted,
    registryEth                \* the contract's balance

revertVars == <<lastRevertAtBlock, lowestRevertedLogIndex, highestRevertedLogIndex>>
submitVars == <<lastSubmissionBlock, latestSubmittedLogIndex>>
bondVars == <<outstandingRootsCount, registryEth>>
registryVars == <<block, roots, canonicalTip, revertVars, submitVars, bondVars,
                  submissionsHalted>>

SubmittedRoot ==
    [stateCommit : StateCommit \cup {ZeroCommit},
     actionsRoot : ActionsRoot \cup {ZeroActions},
     prevEndIndex : LogIndex,
     bond : {0, Bond},
     submittedAtBlock : Nat,
     finalised : BOOLEAN,
     disputed : BOOLEAN]

\* The value an unwritten mapping slot reads as.
EmptySlot ==
    [stateCommit |-> ZeroCommit, actionsRoot |-> ZeroActions, prevEndIndex |-> 0,
     bond |-> 0, submittedAtBlock |-> 0, finalised |-> FALSE, disputed |-> FALSE]

\* The constructor's genesis anchor at key 0, mined in block 1.
GenesisRecord ==
    [stateCommit |-> GenesisCommit, actionsRoot |-> ZeroActions, prevEndIndex |-> 0,
     bond |-> 0, submittedAtBlock |-> 1, finalised |-> TRUE, disputed |-> FALSE]

Submitted(k) == roots[k].submittedAtBlock # 0

IsRecordReverted(k) ==
    /\ k >= lowestRevertedLogIndex
    /\ k <= highestRevertedLogIndex
    /\ roots[k].submittedAtBlock <= lastRevertAtBlock

Init ==
    /\ block = 1
    /\ roots = [k \in LogIndex |-> IF k = 0 THEN GenesisRecord ELSE EmptySlot]
    /\ canonicalTip = 0
    /\ lastRevertAtBlock = 0
    /\ lastSubmissionBlock = 0
    /\ outstandingRootsCount = 0
    /\ lowestRevertedLogIndex = NoRevertedFloor
    /\ highestRevertedLogIndex = 0
    /\ latestSubmittedLogIndex = 0
    /\ submissionsHalted = FALSE
    /\ registryEth = 0

Tick ==
    /\ block < LastBlock
    /\ block' = block + 1
    /\ UNCHANGED <<roots, canonicalTip, revertVars, submitVars, bondVars,
                   submissionsHalted>>

\* Fault: a reverted record is overwritten while its bond is still in.
KeyFreeWithBond(k) == Submitted(k) => IsRecordReverted(k)

\* The occupied-key rule: a live record is never overwritten, a reverted one
\* only once its bond is out.
KeyFree(k) == Submitted(k) => IsRecordReverted(k) /\ roots[k].bond = 0

\* submitStateRoot, called by the sequencer with the bond attached.  The parent
\* argument prevEndIndex must be the canonical tip, so it is not a parameter.
SubmitStateRoot(endIndex, stateCommit, actionsRoot) ==
    /\ block <= LastActiveBlock
    /\ ~submissionsHalted
    /\ endIndex > canonicalTip
    /\ endIndex - canonicalTip <= MaxActionsPerBatch
    /\ KeyFree(endIndex)
    /\ block >= lastSubmissionBlock + SubmissionInterval
    /\ outstandingRootsCount < MaxOutstanding
    /\ roots' = [roots EXCEPT ![endIndex] =
                   [stateCommit |-> stateCommit,
                    actionsRoot |-> actionsRoot,
                    prevEndIndex |-> canonicalTip,
                    bond |-> Bond,
                    submittedAtBlock |-> block,
                    finalised |-> FALSE,
                    disputed |-> FALSE]]
    /\ registryEth' = registryEth + Bond
    /\ lastSubmissionBlock' = block
    /\ outstandingRootsCount' = outstandingRootsCount + 1
    /\ canonicalTip' = endIndex
    /\ latestSubmittedLogIndex' =
           IF endIndex > latestSubmittedLogIndex THEN endIndex
                                                 ELSE latestSubmittedLogIndex
    /\ UNCHANGED <<block, revertVars, submissionsHalted>>

\* What releasing the bond of record k does to the count and the balance.  The
\* decrement is the contract's saturating one.
ReleaseBond(k) ==
    /\ outstandingRootsCount' =
           IF outstandingRootsCount > 0 THEN outstandingRootsCount - 1 ELSE 0
    /\ registryEth' = registryEth - roots[k].bond

\* Fault: an open dispute does not hold finalisation back.
FinalisableWhileDisputed(k) ==
    /\ Submitted(k)
    /\ ~IsRecordReverted(k)
    /\ ~roots[k].finalised
    /\ block >= roots[k].submittedAtBlock + DisputeWindow

Finalisable(k) ==
    /\ Submitted(k)
    /\ ~IsRecordReverted(k)
    /\ ~roots[k].finalised
    /\ ~roots[k].disputed
    /\ block >= roots[k].submittedAtBlock + DisputeWindow

FinaliseStateRoot(k) ==
    /\ Finalisable(k)
    /\ roots' = [roots EXCEPT ![k].finalised = TRUE, ![k].bond = 0]
    /\ ReleaseBond(k)
    /\ UNCHANGED <<block, canonicalTip, revertVars, submitVars, submissionsHalted>>

ReclaimRevertedBond(k) ==
    /\ Submitted(k)
    /\ IsRecordReverted(k)
    /\ ~roots[k].finalised
    /\ ~roots[k].disputed
    /\ roots[k].bond # 0
    /\ roots' = [roots EXCEPT ![k].bond = 0]
    /\ ReleaseBond(k)
    /\ UNCHANGED <<block, canonicalTip, revertVars, submitVars, submissionsHalted>>

HaltSubmissions ==
    /\ block <= LastHaltBlock
    /\ ~submissionsHalted
    /\ submissionsHalted' = TRUE
    /\ UNCHANGED <<block, roots, canonicalTip, revertVars, submitVars, bondVars>>

ResumeSubmissions ==
    /\ submissionsHalted
    /\ submissionsHalted' = FALSE
    /\ UNCHANGED <<block, roots, canonicalTip, revertVars, submitVars, bondVars>>

-----------------------------------------------------------------------------
\* The calls only the fault-proof game may make.

MarkDisputed(k) ==
    /\ Submitted(k)
    /\ ~IsRecordReverted(k)
    /\ ~roots[k].finalised
    /\ ~roots[k].disputed
    /\ roots' = [roots EXCEPT ![k].disputed = TRUE]
    /\ UNCHANGED <<block, canonicalTip, revertVars, submitVars, bondVars,
                   submissionsHalted>>

ClearDisputed(k) ==
    /\ Submitted(k)
    /\ roots' = [roots EXCEPT ![k].disputed = FALSE]
    /\ UNCHANGED <<block, canonicalTip, revertVars, submitVars, bondVars,
                   submissionsHalted>>

\* The guards and effect of slashSequencerBond, which pays the game contract.
Slashable(k) == Submitted(k) /\ ~roots[k].finalised /\ roots[k].bond # 0

SlashSequencerBond(k) ==
    /\ Slashable(k)
    /\ roots' = [roots EXCEPT ![k].bond = 0]
    /\ ReleaseBond(k)

\* The tip drops to the disputed record's parent, and never rises.
LowerTip(fromIdx) ==
    canonicalTip' = IF roots[fromIdx].prevEndIndex < canonicalTip
                    THEN roots[fromIdx].prevEndIndex ELSE canonicalTip

\* Fault: the ceiling rises to the disputed index only, not to its descendants.
RevertSingleIndex(fromIdx) ==
    /\ lowestRevertedLogIndex' =
           IF fromIdx < lowestRevertedLogIndex THEN fromIdx ELSE lowestRevertedLogIndex
    /\ highestRevertedLogIndex' =
           IF fromIdx > highestRevertedLogIndex THEN fromIdx ELSE highestRevertedLogIndex
    /\ lastRevertAtBlock' = block
    /\ LowerTip(fromIdx)

\* Fault: a later revert moves the floor up.
RevertMovesFloor(fromIdx) ==
    /\ lowestRevertedLogIndex' = fromIdx
    /\ highestRevertedLogIndex' = latestSubmittedLogIndex
    /\ lastRevertAtBlock' = block
    /\ LowerTip(fromIdx)

RevertStateRootsFrom(fromIdx) ==
    LET ceiling == IF latestSubmittedLogIndex < fromIdx
                   THEN fromIdx ELSE latestSubmittedLogIndex
    IN  /\ lowestRevertedLogIndex' =
               IF fromIdx < lowestRevertedLogIndex
               THEN fromIdx ELSE lowestRevertedLogIndex
        /\ highestRevertedLogIndex' =
               IF ceiling > highestRevertedLogIndex
               THEN ceiling ELSE highestRevertedLogIndex
        /\ lastRevertAtBlock' = block
        /\ LowerTip(fromIdx)

\* The registry's part of a challenger's win.
LoseDispute(k) ==
    /\ SlashSequencerBond(k)
    /\ RevertStateRootsFrom(k)
    /\ UNCHANGED <<block, submitVars, submissionsHalted>>

GameCall(k) ==
    \/ MarkDisputed(k)
    \/ roots[k].disputed /\ roots[k].bond # 0 /\ (ClearDisputed(k) \/ LoseDispute(k))

Next ==
    \/ Tick
    \/ HaltSubmissions
    \/ ResumeSubmissions
    \/ \E k \in LogIndex :
          \/ \E c \in StateCommit, a \in ActionsRoot : SubmitStateRoot(k, c, a)
          \/ FinaliseStateRoot(k)
          \/ ReclaimRevertedBond(k)
          \/ GameCall(k)

Spec == Init /\ [][Next]_registryVars

-----------------------------------------------------------------------------
\* The storage of the registry keeps its types: neither the bonds held nor the
\* count of outstanding roots goes below zero, and the tip is a log index.
TypeOK ==
    /\ block \in Nat \ {0}
    /\ roots \in [LogIndex -> SubmittedRoot]
    /\ canonicalTip \in LogIndex
    /\ lastRevertAtBlock \in Nat
    /\ lastSubmissionBlock \in Nat
    /\ outstandingRootsCount \in Nat
    /\ lowestRevertedLogIndex \in 0 .. NoRevertedFloor
    /\ highestRevertedLogIndex \in LogIndex
    /\ latestSubmittedLogIndex \in LogIndex
    /\ submissionsHalted \in BOOLEAN
    /\ registryEth \in Nat

Bonded == {k \in LogIndex : roots[k].bond # 0}

\* The registry holds exactly the bonds of the records that still carry one, and
\* the rate-limit count is exactly their number: across submission, finalise,
\* slash, reclaim and overwrite, no bond is paid twice or orphaned and the
\* saturating decrement never hides a missing increment.
BondsBacked ==
    /\ outstandingRootsCount = Cardinality(Bonded)
    /\ registryEth = Bond * Cardinality(Bonded)

\* A record that is neither finalised nor reverted still carries its bond, so a
\* challenger's win always finds a bond to slash (the catch arm of _settle is
\* never taken) and finalising always pays the sequencer.
LiveRecordsBonded ==
    \A k \in LogIndex :
        Submitted(k) /\ ~roots[k].finalised /\ ~IsRecordReverted(k)
            => roots[k].bond # 0

\* The tip invariant the occupied-key rule of submitStateRoot rests on: every
\* live record lies at or below the canonical tip, so a submission, which lies
\* above it, can only ever land on a reverted key.
LiveAtOrBelowTip ==
    \A k \in LogIndex :
        Submitted(k) /\ ~IsRecordReverted(k) => k <= canonicalTip

\* Once reverted, a record stays reverted until a resubmission replaces it: no
\* later revert, finalise or reclaim can bring back a root a game threw out.
RevertIsPermanent ==
    [][\A k \in LogIndex :
          /\ IsRecordReverted(k)
          /\ roots'[k].submittedAtBlock = roots[k].submittedAtBlock
          => IsRecordReverted(k)']_registryVars
=============================================================================
