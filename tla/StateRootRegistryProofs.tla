---------------------- MODULE StateRootRegistryProofs ----------------------
(***************************************************************************)
(* The registry's invariants, proved for every set of log indices, every   *)
(* bond, window and rate limit.                                            *)
(*                                                                         *)
(* LiveAtOrBelowTip is not inductive: a revert lowers the tip to the       *)
(* parent of the disputed record, so a live record between the two would   *)
(* be left above it.  ParentsSkipNothing says that there is none below the *)
(* reverted range, and the two Crossing conjuncts say why resubmissions    *)
(* below the range keep that true: a bonded record whose parent lies below *)
(* the range and itself in it is unique, and gone once the tip is below.   *)
(***************************************************************************)
EXTENDS StateRootRegistry, FiniteSetTheorems, TLAPS

\* No record is from the future, none lies above the latest index, and a slot
\* that was never written carries no bond.
RecordsBounded ==
    /\ lastRevertAtBlock <= block
    /\ \A k \in LogIndex :
          /\ roots[k].submittedAtBlock <= block
          /\ Submitted(k) => k <= latestSubmittedLogIndex
          /\ roots[k].bond # 0 => Submitted(k)

\* Below the reverted range, a bonded record's parent skips no record.
ParentsSkipNothing ==
    \A j, k \in LogIndex :
        Submitted(j) /\ roots[k].bond # 0 /\ j < lowestRevertedLogIndex /\ j < k
            => j <= roots[k].prevEndIndex

\* A bonded record inside the range whose parent is below it.
Crossing(k) ==
    /\ roots[k].bond # 0
    /\ roots[k].prevEndIndex < lowestRevertedLogIndex
    /\ lowestRevertedLogIndex <= k

NoCrossingAboveTip ==
    canonicalTip < lowestRevertedLogIndex => \A k \in LogIndex : ~Crossing(k)

OneCrossing ==
    \A j, k \in LogIndex : Crossing(j) /\ Crossing(k) => j = k

TipInv ==
    /\ RecordsBounded
    /\ LiveRecordsBonded
    /\ LiveAtOrBelowTip
    /\ ParentsSkipNothing
    /\ NoCrossingAboveTip
    /\ OneCrossing

RegistryInv == TypeOK /\ BondsBacked /\ TipInv

-----------------------------------------------------------------------------
\* The bonded records are a finite set.
LEMMA BondedFinite == IsFiniteSet(Bonded) /\ Cardinality(Bonded) \in Nat
<1>1. IsFiniteSet(LogIndex)
  BY FS_Interval, RegistryConstants DEF LogIndex
<1>2. Bonded \subseteq LogIndex
  BY DEF Bonded
<1> QED
  BY <1>1, <1>2, FS_Subset, FS_CardinalityType

\* Releasing the bond of a bonded record keeps the accounting exact, and the
\* balance covers it.
LEMMA ReleaseKeepsBonds ==
    ASSUME TypeOK, BondsBacked,
           NEW k \in LogIndex, roots[k].bond # 0, ReleaseBond(k),
           \A j \in LogIndex : roots'[j].bond = IF j = k THEN 0 ELSE roots[j].bond
    PROVE  BondsBacked' /\ registryEth' \in Nat /\ outstandingRootsCount' \in Nat
<1> DEFINE n == Cardinality(Bonded)
<1>1. n \in Nat /\ IsFiniteSet(Bonded)
  BY BondedFinite
<1>2. k \in Bonded /\ Bonded' = Bonded \ {k}
  BY DEF Bonded
<1>3. Cardinality(Bonded') = n - 1 /\ n - 1 \in Nat
  <2>1. Cardinality(Bonded \ {k}) = n - 1 /\ Cardinality(Bonded \ {k}) \in Nat
    BY <1>1, <1>2, FS_RemoveElement, FS_CardinalityType
  <2> QED
    BY <1>2, <2>1
<1>4. roots[k].bond = Bond
  BY DEF TypeOK, SubmittedRoot
<1>5. Bond \in Nat /\ Bond * n = Bond * (n - 1) + Bond
  BY <1>1, RegistryConstants
<1>6. Bond * (n - 1) \in Nat
  BY <1>3, <1>5
<1>7. outstandingRootsCount' = n - 1
  BY <1>1, <1>3 DEF BondsBacked, ReleaseBond
<1>8. registryEth' = Bond * (n - 1)
  BY <1>1, <1>4, <1>5, <1>6 DEF BondsBacked, ReleaseBond
<1> QED
  BY <1>3, <1>6, <1>7, <1>8 DEF BondsBacked

\* A submission on a key without a bond keeps the accounting exact.
LEMMA SubmitKeepsBonds ==
    ASSUME TypeOK, BondsBacked,
           NEW k \in LogIndex, roots[k].bond = 0,
           \A j \in LogIndex : roots'[j].bond = IF j = k THEN Bond ELSE roots[j].bond,
           registryEth' = registryEth + Bond,
           outstandingRootsCount' = outstandingRootsCount + 1
    PROVE  BondsBacked' /\ registryEth' \in Nat /\ outstandingRootsCount' \in Nat
<1> DEFINE n == Cardinality(Bonded)
<1>1. n \in Nat /\ IsFiniteSet(Bonded)
  BY BondedFinite
<1>2. k \notin Bonded /\ Bonded' = Bonded \cup {k}
  BY RegistryConstants DEF Bonded
<1>3. Cardinality(Bonded') = n + 1
  <2>1. Cardinality(Bonded \cup {k}) = n + 1
    BY Zenon, <1>1, <1>2, FS_AddElement
  <2> QED
    BY <1>2, <2>1
<1>4. Bond \in Nat /\ Bond * (n + 1) = Bond * n + Bond
  BY <1>1, RegistryConstants
<1> QED
  BY <1>1, <1>3, <1>4 DEF BondsBacked, TypeOK

\* The arithmetic content of the type invariant.
LEMMA TypeFacts ==
    ASSUME TypeOK
    PROVE  /\ \A j \in LogIndex :
                 /\ j \in Nat
                 /\ roots[j].prevEndIndex \in LogIndex /\ roots[j].prevEndIndex \in Nat
                 /\ roots[j].submittedAtBlock \in Nat
           /\ canonicalTip \in LogIndex /\ canonicalTip \in Nat
           /\ block \in Nat \ {0} /\ lastRevertAtBlock \in Nat
           /\ lowestRevertedLogIndex \in Nat
           /\ highestRevertedLogIndex \in LogIndex /\ highestRevertedLogIndex \in Nat
           /\ latestSubmittedLogIndex \in LogIndex /\ latestSubmittedLogIndex \in Nat
<1>1. \A j \in LogIndex : j \in Nat
  BY RegistryConstants DEF LogIndex
<1>2. \A j \in LogIndex : /\ roots[j].prevEndIndex \in LogIndex
                          /\ roots[j].submittedAtBlock \in Nat
  BY DEF TypeOK, SubmittedRoot
<1>3. lowestRevertedLogIndex \in Nat
  BY RegistryConstants DEF TypeOK, NoRevertedFloor
<1> QED
  BY <1>1, <1>2, <1>3 DEF TypeOK

\* The constructor establishes the invariant.
LEMMA InitRegistryInv == Init => RegistryInv
<1> SUFFICES ASSUME Init PROVE RegistryInv
  OBVIOUS
<1> USE RegistryConstants DEF LogIndex, NoRevertedFloor
<1>1. TypeOK
  <2>1. GenesisRecord \in SubmittedRoot /\ EmptySlot \in SubmittedRoot
    BY DEF GenesisRecord, EmptySlot, SubmittedRoot
  <2>2. roots \in [LogIndex -> SubmittedRoot]
    BY <2>1 DEF Init
  <2>3. /\ canonicalTip \in LogIndex /\ highestRevertedLogIndex \in LogIndex
        /\ latestSubmittedLogIndex \in LogIndex
        /\ lowestRevertedLogIndex \in 0 .. NoRevertedFloor
    BY DEF Init
  <2> QED
    <3>1. block \in Nat \ {0} /\ registryEth \in Nat /\ outstandingRootsCount \in Nat
          /\ lastRevertAtBlock \in Nat /\ lastSubmissionBlock \in Nat
      BY DEF Init
    <3>2. submissionsHalted \in BOOLEAN
      BY Zenon DEF Init
    <3> QED
      BY <2>2, <2>3, <3>1, <3>2 DEF TypeOK
<1>2. \A k \in LogIndex : roots[k].bond = 0
  BY DEF Init, GenesisRecord, EmptySlot
<1>3. BondsBacked
  <2>1. Bonded = {}
    BY <1>2 DEF Bonded
  <2>2. Cardinality(Bonded) = 0
    BY <2>1, FS_EmptySet
  <2> QED
    BY <2>2 DEF BondsBacked, Init
<1>4. RecordsBounded
  BY DEF RecordsBounded, Submitted, Init, GenesisRecord, EmptySlot
<1>5. LiveRecordsBonded /\ LiveAtOrBelowTip
  BY DEF LiveRecordsBonded, LiveAtOrBelowTip, Submitted, Init, GenesisRecord, EmptySlot
<1>6. ParentsSkipNothing /\ NoCrossingAboveTip /\ OneCrossing
  BY <1>2 DEF ParentsSkipNothing, NoCrossingAboveTip, OneCrossing, Crossing
<1> QED
  BY <1>1, <1>3, <1>4, <1>5, <1>6 DEF RegistryInv, TipInv

-----------------------------------------------------------------------------
\* A step that leaves the records and the reverted range alone, and only moves
\* the clock forward, keeps the invariant.
LEMMA ClockKeepsInv ==
    ASSUME RegistryInv,
           UNCHANGED <<roots, canonicalTip, revertVars, submitVars, bondVars>>,
           block' \in Nat \ {0}, block <= block', submissionsHalted' \in BOOLEAN
    PROVE  RegistryInv'
<1> USE DEF RegistryInv, TipInv, revertVars, submitVars, bondVars
<1>1. TypeOK'
  BY DEF TypeOK
<1>2. BondsBacked'
  <2>1. Bonded' = Bonded
    BY DEF Bonded
  <2> QED
    BY <2>1 DEF BondsBacked
<1>3. RecordsBounded'
  <2>1. \A k \in LogIndex : roots[k].submittedAtBlock <= block'
    BY TypeFacts DEF RecordsBounded
  <2>2. lastRevertAtBlock <= block'
    BY TypeFacts DEF RecordsBounded
  <2> QED
    BY <2>1, <2>2 DEF RecordsBounded, Submitted
<1>4. LiveRecordsBonded' /\ LiveAtOrBelowTip'
  BY DEF LiveRecordsBonded, LiveAtOrBelowTip, Submitted, IsRecordReverted
<1>5. ParentsSkipNothing' /\ NoCrossingAboveTip' /\ OneCrossing'
  BY DEF ParentsSkipNothing, NoCrossingAboveTip, OneCrossing, Crossing, Submitted
<1> QED
  BY <1>1, <1>2, <1>3, <1>4, <1>5

\* A record's bond goes without a revert: finalisation, and the reclaim of a
\* record that is already reverted.
LEMMA DropBondKeepsInv ==
    ASSUME RegistryInv, NEW k \in LogIndex, NEW f \in BOOLEAN,
           roots[k].bond # 0,
           f \/ IsRecordReverted(k),
           roots' = [roots EXCEPT ![k].finalised = f, ![k].bond = 0],
           ReleaseBond(k),
           UNCHANGED <<block, canonicalTip, revertVars, submitVars, submissionsHalted>>
    PROVE  RegistryInv'
<1> USE DEF RegistryInv, TipInv, revertVars, submitVars
<1>1. /\ roots' \in [LogIndex -> SubmittedRoot]
      /\ \A j \in LogIndex :
            /\ roots'[j].bond = IF j = k THEN 0 ELSE roots[j].bond
            /\ roots'[j].finalised = IF j = k THEN f ELSE roots[j].finalised
            /\ roots'[j].submittedAtBlock = roots[j].submittedAtBlock
            /\ roots'[j].prevEndIndex = roots[j].prevEndIndex
  BY DEF TypeOK, SubmittedRoot
<1>2. BondsBacked' /\ registryEth' \in Nat /\ outstandingRootsCount' \in Nat
  BY <1>1, ReleaseKeepsBonds
<1>3. TypeOK'
  BY <1>1, <1>2 DEF TypeOK
<1>4. RecordsBounded'
  BY <1>1 DEF RecordsBounded, Submitted
<1>5. LiveRecordsBonded'
  BY <1>1 DEF LiveRecordsBonded, Submitted, IsRecordReverted
<1>6. LiveAtOrBelowTip'
  BY <1>1 DEF LiveAtOrBelowTip, Submitted, IsRecordReverted
<1>7. ParentsSkipNothing' /\ NoCrossingAboveTip' /\ OneCrossing'
  BY <1>1 DEF ParentsSkipNothing, NoCrossingAboveTip, OneCrossing, Crossing, Submitted
<1> QED
  BY <1>2, <1>3, <1>4, <1>5, <1>6, <1>7

\* Flagging or unflagging a record as disputed touches no other field.
LEMMA FlagKeepsInv ==
    ASSUME RegistryInv, NEW k \in LogIndex, NEW d \in BOOLEAN,
           roots' = [roots EXCEPT ![k].disputed = d],
           UNCHANGED <<block, canonicalTip, revertVars, submitVars, bondVars,
                       submissionsHalted>>
    PROVE  RegistryInv'
<1> USE DEF RegistryInv, TipInv, revertVars, submitVars, bondVars
<1>1. /\ roots' \in [LogIndex -> SubmittedRoot]
      /\ \A j \in LogIndex :
            /\ roots'[j].bond = roots[j].bond
            /\ roots'[j].finalised = roots[j].finalised
            /\ roots'[j].submittedAtBlock = roots[j].submittedAtBlock
            /\ roots'[j].prevEndIndex = roots[j].prevEndIndex
  BY DEF TypeOK, SubmittedRoot
<1>2. TypeOK'
  BY <1>1 DEF TypeOK
<1>3. BondsBacked'
  <2>1. Bonded' = Bonded
    BY <1>1 DEF Bonded
  <2> QED
    BY <2>1 DEF BondsBacked
<1>4. RecordsBounded'
  BY <1>1 DEF RecordsBounded, Submitted
<1>5. LiveRecordsBonded' /\ LiveAtOrBelowTip'
  BY <1>1 DEF LiveRecordsBonded, LiveAtOrBelowTip, Submitted, IsRecordReverted
<1>6. ParentsSkipNothing' /\ NoCrossingAboveTip' /\ OneCrossing'
  BY <1>1 DEF ParentsSkipNothing, NoCrossingAboveTip, OneCrossing, Crossing, Submitted
<1> QED
  BY <1>2, <1>3, <1>4, <1>5, <1>6

\* A submission keeps the invariant.  The new record's parent is the tip, and
\* every record below the reverted range is live, hence at or below the tip.
LEMMA SubmitKeepsInv ==
    ASSUME RegistryInv, NEW k \in LogIndex, NEW c \in StateCommit, NEW a \in ActionsRoot,
           SubmitStateRoot(k, c, a)
    PROVE  RegistryInv'
<1> USE DEF RegistryInv, TipInv, revertVars
<1> DEFINE r == [stateCommit |-> c, actionsRoot |-> a, prevEndIndex |-> canonicalTip,
                 bond |-> Bond, submittedAtBlock |-> block, finalised |-> FALSE,
                 disputed |-> FALSE]
<1>a. /\ \A j \in LogIndex : j \in Nat /\ roots[j].prevEndIndex \in Nat
      /\ canonicalTip \in LogIndex /\ canonicalTip \in Nat /\ block \in Nat \ {0}
      /\ lowestRevertedLogIndex \in Nat /\ latestSubmittedLogIndex \in Nat
  BY TypeFacts
<1>b. k > canonicalTip
  BY DEF SubmitStateRoot
<1>1. /\ roots' \in [LogIndex -> SubmittedRoot]
      /\ \A j \in LogIndex : roots'[j] = IF j = k THEN r ELSE roots[j]
  <2>1. r \in SubmittedRoot
    BY <1>a DEF SubmittedRoot
  <2>2. roots \in [LogIndex -> SubmittedRoot] /\ roots' = [roots EXCEPT ![k] = r]
    BY DEF TypeOK, SubmitStateRoot
  <2> HIDE DEF r
  <2> QED
    BY <2>1, <2>2
<1>2. \A j \in LogIndex :
         /\ roots'[j].bond = IF j = k THEN Bond ELSE roots[j].bond
         /\ roots'[j].submittedAtBlock = IF j = k THEN block ELSE roots[j].submittedAtBlock
         /\ roots'[j].prevEndIndex = IF j = k THEN canonicalTip ELSE roots[j].prevEndIndex
         /\ roots'[j].finalised = IF j = k THEN FALSE ELSE roots[j].finalised
  <2>1. roots'[k] = r
    BY <1>1
  <2>2. \A j \in LogIndex : j # k => roots'[j] = roots[j]
    BY <1>1
  <2>3. /\ roots'[k].bond = Bond /\ roots'[k].submittedAtBlock = block
        /\ roots'[k].prevEndIndex = canonicalTip /\ roots'[k].finalised = FALSE
    BY <2>1
  <2> QED
    BY Zenon, <2>2, <2>3
<1>3. roots[k].bond = 0
  BY DEF SubmitStateRoot, KeyFree, RecordsBounded
<1>4. BondsBacked' /\ registryEth' \in Nat /\ outstandingRootsCount' \in Nat
  BY <1>2, <1>3, SubmitKeepsBonds, Zenon DEF SubmitStateRoot
<1>5. TypeOK'
  BY <1>1, <1>4 DEF TypeOK, SubmitStateRoot
<1>6. RecordsBounded'
  <2>1. latestSubmittedLogIndex \in Nat /\ latestSubmittedLogIndex <= latestSubmittedLogIndex'
        /\ k <= latestSubmittedLogIndex'
    BY <1>a, RegistryConstants DEF SubmitStateRoot, TypeOK, LogIndex
  <2>2. block' = block /\ lastRevertAtBlock' = lastRevertAtBlock
    BY DEF SubmitStateRoot
  <2>3. latestSubmittedLogIndex' \in Nat
    BY <1>a, <1>5, RegistryConstants DEF TypeOK, LogIndex
  <2> QED
    <3>1. \A j \in LogIndex : roots'[j].submittedAtBlock <= block
      <4>1. \A j \in LogIndex : j # k => roots'[j].submittedAtBlock <= block
        BY <1>2, Zenon DEF RecordsBounded
      <4>2. roots'[k].submittedAtBlock = block
        BY Zenon, <1>2
      <4>3. block <= block
        BY <1>a
      <4> QED
        BY <4>1, <4>2, <4>3
    <3>2. \A j \in LogIndex : Submitted(j)' => j <= latestSubmittedLogIndex'
      <4>1. \A j \in LogIndex : j # k /\ Submitted(j)' => j <= latestSubmittedLogIndex
        BY <1>2, Zenon DEF RecordsBounded, Submitted
      <4> QED
        BY <1>a, <2>1, <2>3, <4>1, RegistryConstants DEF LogIndex
    <3>3. \A j \in LogIndex : roots'[j].bond # 0 => Submitted(j)'
      BY <1>a, <1>2, Zenon DEF RecordsBounded, Submitted
    <3> QED
      BY <2>2, <3>1, <3>2, <3>3 DEF RecordsBounded
<1>7. LiveRecordsBonded'
  BY <1>2, RegistryConstants
  DEF LiveRecordsBonded, Submitted, IsRecordReverted, SubmitStateRoot
<1>8. LiveAtOrBelowTip'
  BY <1>a, <1>b, <1>2 DEF LiveAtOrBelowTip, Submitted, IsRecordReverted, SubmitStateRoot
<1>c. canonicalTip' = k /\ lowestRevertedLogIndex' = lowestRevertedLogIndex
  BY DEF SubmitStateRoot
<1>d. \A j \in LogIndex : Submitted(j) /\ j < lowestRevertedLogIndex => j <= canonicalTip
  BY <1>a DEF LiveAtOrBelowTip, IsRecordReverted
<1>9. ParentsSkipNothing'
  <2> SUFFICES ASSUME NEW i \in LogIndex, NEW j \in LogIndex, Submitted(i)',
                      roots'[j].bond # 0, i < lowestRevertedLogIndex, i < j
               PROVE  i <= roots'[j].prevEndIndex
    BY <1>c DEF ParentsSkipNothing
  <2>1. CASE j = k
    <3>1. i # k /\ Submitted(i) /\ roots'[j].prevEndIndex = canonicalTip
      <4>1. i # k
        BY <2>1, RegistryConstants DEF LogIndex
      <4> QED
        BY <1>2, <2>1, <4>1, Zenon DEF Submitted
    <3> QED
      BY <1>d, <3>1
  <2>2. CASE j # k /\ i # k
    BY <1>2, <2>2, Zenon DEF ParentsSkipNothing, Submitted
  <2>3. CASE j # k /\ i = k
    <3>1. roots[j].bond # 0 /\ Submitted(j)
      BY <1>2, <2>3, Zenon DEF RecordsBounded
    <3>2. ~(j <= canonicalTip)
      BY <1>a, <1>b, <2>3, RegistryConstants DEF LogIndex
    <3>3. lowestRevertedLogIndex <= j
      BY <1>a, <1>d, <3>1, <3>2, RegistryConstants DEF LogIndex
    <3>4. ~Crossing(j)
      <4>1. canonicalTip < lowestRevertedLogIndex
        BY <1>a, <1>b, <2>3, RegistryConstants DEF LogIndex
      <4> QED
        BY <4>1 DEF NoCrossingAboveTip
    <3> QED
      <4>1. ~(roots[j].prevEndIndex < lowestRevertedLogIndex)
        BY <3>1, <3>3, <3>4 DEF Crossing
      <4>2. roots'[j].prevEndIndex = roots[j].prevEndIndex
        BY Zenon, <1>2, <2>3
      <4>3. i \in Nat /\ roots[j].prevEndIndex \in Nat /\ lowestRevertedLogIndex \in Nat
        BY <1>a
      <4> QED
        BY <4>1, <4>2, <4>3
  <2> QED
    BY <2>1, <2>2, <2>3
<1>10. NoCrossingAboveTip' /\ OneCrossing'
  <2>1. \A j \in LogIndex : j # k => (Crossing(j)' <=> Crossing(j))
    BY <1>2, <1>c, Zenon DEF Crossing
  <2>2. Crossing(k)' =>
           canonicalTip < lowestRevertedLogIndex /\ lowestRevertedLogIndex <= k
    BY <1>2, <1>c, Zenon DEF Crossing
  <2> QED
    <3>1. Crossing(k)' => \A j \in LogIndex : ~Crossing(j)
      BY <2>2 DEF NoCrossingAboveTip
    <3>2. OneCrossing'
      BY <2>1, <3>1 DEF OneCrossing
    <3>3. k < lowestRevertedLogIndex => ~Crossing(k)'
      BY <1>a, <2>2, RegistryConstants DEF LogIndex
    <3>4. k < lowestRevertedLogIndex => canonicalTip < lowestRevertedLogIndex
      BY <1>a, <1>b, RegistryConstants DEF LogIndex
    <3>5. NoCrossingAboveTip'
      BY <1>c, <2>1, <3>3, <3>4 DEF NoCrossingAboveTip
    <3> QED
      BY <3>2, <3>5
<1> QED
  BY <1>4, <1>5, <1>6, <1>7, <1>8, <1>9, <1>10

\* A lost dispute keeps the invariant: the range and the tip move together.
LEMMA LoseKeepsInv ==
    ASSUME RegistryInv, NEW k \in LogIndex, LoseDispute(k)
    PROVE  RegistryInv'
<1> USE DEF RegistryInv, TipInv, submitVars
<1>a. /\ \A j \in LogIndex : /\ j \in Nat
                             /\ roots[j].prevEndIndex \in LogIndex
                             /\ roots[j].prevEndIndex \in Nat
                             /\ roots[j].submittedAtBlock \in Nat
      /\ canonicalTip \in LogIndex /\ canonicalTip \in Nat
      /\ block \in Nat \ {0} /\ lastRevertAtBlock \in Nat
      /\ lowestRevertedLogIndex \in Nat
      /\ highestRevertedLogIndex \in LogIndex /\ highestRevertedLogIndex \in Nat
      /\ latestSubmittedLogIndex \in LogIndex /\ latestSubmittedLogIndex \in Nat
  BY TypeFacts
<1>b. Submitted(k) /\ roots[k].bond # 0 /\ ~roots[k].finalised
  BY DEF LoseDispute, SlashSequencerBond, Slashable
<1>1. /\ roots' \in [LogIndex -> SubmittedRoot]
      /\ \A j \in LogIndex :
            /\ roots'[j].bond = IF j = k THEN 0 ELSE roots[j].bond
            /\ roots'[j].finalised = roots[j].finalised
            /\ roots'[j].submittedAtBlock = roots[j].submittedAtBlock
            /\ roots'[j].prevEndIndex = roots[j].prevEndIndex
  BY DEF TypeOK, SubmittedRoot, LoseDispute, SlashSequencerBond
<1>2. BondsBacked' /\ registryEth' \in Nat /\ outstandingRootsCount' \in Nat
  BY <1>b, <1>1, ReleaseKeepsBonds DEF LoseDispute, SlashSequencerBond
<1>3. /\ lowestRevertedLogIndex' =
            IF k < lowestRevertedLogIndex THEN k ELSE lowestRevertedLogIndex
      /\ highestRevertedLogIndex <= highestRevertedLogIndex'
      /\ latestSubmittedLogIndex <= highestRevertedLogIndex'
      /\ highestRevertedLogIndex' \in LogIndex
      /\ lastRevertAtBlock' = block
      /\ canonicalTip' = IF roots[k].prevEndIndex < canonicalTip
                         THEN roots[k].prevEndIndex ELSE canonicalTip
      /\ UNCHANGED <<block, lastSubmissionBlock, latestSubmittedLogIndex,
                     submissionsHalted>>
  BY <1>a DEF LoseDispute, RevertStateRootsFrom, LowerTip
<1>4. TypeOK'
  BY <1>a, <1>1, <1>2, <1>3, RegistryConstants DEF TypeOK, LogIndex, NoRevertedFloor
<1>5. RecordsBounded'
  <2>1. \A j \in LogIndex : roots'[j].submittedAtBlock <= block
    BY <1>1 DEF RecordsBounded
  <2>2. \A j \in LogIndex : Submitted(j)' => j <= latestSubmittedLogIndex
    BY <1>1 DEF RecordsBounded, Submitted
  <2>3. \A j \in LogIndex : roots'[j].bond # 0 => Submitted(j)'
    BY <1>1 DEF RecordsBounded, Submitted
  <2>4. lastRevertAtBlock' <= block'
    BY <1>a, <1>3
  <2> QED
    BY <1>3, <2>1, <2>2, <2>3, <2>4 DEF RecordsBounded
<1>c. lowestRevertedLogIndex' \in Nat /\ lowestRevertedLogIndex' <= k
      /\ lowestRevertedLogIndex' <= lowestRevertedLogIndex
  BY <1>a, <1>3
<1>6. \A j \in LogIndex :
         Submitted(j) /\ lowestRevertedLogIndex' <= j => IsRecordReverted(j)'
  <2> SUFFICES ASSUME NEW j \in LogIndex, Submitted(j), lowestRevertedLogIndex' <= j
               PROVE  IsRecordReverted(j)'
    OBVIOUS
  <2>1. j <= latestSubmittedLogIndex /\ roots[j].submittedAtBlock <= block
    BY DEF RecordsBounded
  <2>2. j \in Nat /\ highestRevertedLogIndex' \in Nat
    BY <1>a, <1>3
  <2>3. j <= highestRevertedLogIndex'
    BY <1>a, <1>3, <2>1, <2>2
  <2>4. roots'[j].submittedAtBlock <= lastRevertAtBlock'
    BY <1>1, <1>3, <2>1
  <2> QED
    BY <2>2, <2>3, <2>4, <1>c DEF IsRecordReverted
<1>7. \A j \in LogIndex : Submitted(j)' <=> Submitted(j)
  BY <1>1 DEF Submitted
<1>8. LiveRecordsBonded'
  <2> SUFFICES ASSUME NEW j \in LogIndex, Submitted(j)', ~roots'[j].finalised,
                      ~IsRecordReverted(j)'
               PROVE  roots'[j].bond # 0
    BY DEF LiveRecordsBonded
  <2>1. j < lowestRevertedLogIndex' /\ j # k
    <3>1. ~(lowestRevertedLogIndex' <= j)
      BY <1>6, <1>7
    <3>2. j \in Nat /\ k \in Nat
      BY <1>a
    <3> QED
      BY <1>c, <3>1, <3>2
  <2>2. ~(j >= lowestRevertedLogIndex)
    <3>1. j \in Nat /\ lowestRevertedLogIndex \in Nat
      BY <1>a
    <3> QED
      BY <1>c, <2>1, <3>1
  <2>3. ~IsRecordReverted(j)
    BY <2>2 DEF IsRecordReverted
  <2> QED
    BY <1>1, <1>7, <2>1, <2>3 DEF LiveRecordsBonded
<1>9. LiveAtOrBelowTip'
  <2> SUFFICES ASSUME NEW j \in LogIndex, Submitted(j)', ~IsRecordReverted(j)'
               PROVE  j <= canonicalTip'
    BY DEF LiveAtOrBelowTip
  <2>1. j < lowestRevertedLogIndex /\ j < k
    <3>1. ~(lowestRevertedLogIndex' <= j)
      BY <1>6, <1>7
    <3>2. j \in Nat /\ k \in Nat
      BY <1>a
    <3> QED
      BY <1>a, <1>c, <3>1, <3>2
  <2>2. j <= canonicalTip
    <3>1. ~(j >= lowestRevertedLogIndex)
      <4>1. j \in Nat /\ lowestRevertedLogIndex \in Nat
        BY Zenon, <1>a
      <4> QED
        BY <2>1, <4>1
    <3>2. ~IsRecordReverted(j)
      BY <3>1 DEF IsRecordReverted
    <3> QED
      BY <1>7, <3>2 DEF LiveAtOrBelowTip
  <2>3. j <= roots[k].prevEndIndex
    BY <1>b, <1>7, <2>1 DEF ParentsSkipNothing
  <2> QED
    BY <1>3, <2>2, <2>3
<1>10. ParentsSkipNothing'
  <2> SUFFICES ASSUME NEW i \in LogIndex, NEW j \in LogIndex, Submitted(i)',
                      roots'[j].bond # 0, i < lowestRevertedLogIndex', i < j
               PROVE  i <= roots'[j].prevEndIndex
    BY DEF ParentsSkipNothing
  <2>1. i < lowestRevertedLogIndex
    <3>1. i \in Nat /\ lowestRevertedLogIndex \in Nat
      BY <1>a
    <3> QED
      BY <1>c, <3>1
  <2>2. roots[j].bond # 0 /\ roots'[j].prevEndIndex = roots[j].prevEndIndex
    BY <1>1
  <2> QED
    BY <1>7, <2>1, <2>2 DEF ParentsSkipNothing
<1>11. CASE k < lowestRevertedLogIndex
  <2>1. \A j \in LogIndex : ~Crossing(j)'
    <3> SUFFICES ASSUME NEW j \in LogIndex, Crossing(j)' PROVE FALSE
      OBVIOUS
    <3>1. roots[j].bond # 0 /\ k < j /\ roots[j].prevEndIndex < k
      <4>1. lowestRevertedLogIndex' = k
        BY <1>3, <1>11
      <4>2. j # k /\ roots[j].bond # 0
        BY <1>1 DEF Crossing
      <4>3. roots[j].prevEndIndex < k /\ k <= j
        BY <1>1, <4>1 DEF Crossing
      <4> QED
        BY <4>2, <4>3, RegistryConstants DEF LogIndex
    <3>2. k <= roots[j].prevEndIndex
      BY <1>b, <1>11, <3>1 DEF ParentsSkipNothing
    <3>3. roots[j].prevEndIndex \in LogIndex
      BY <1>a
    <3> QED
      BY <3>1, <3>2, <3>3, RegistryConstants DEF LogIndex
  <2>2. NoCrossingAboveTip' /\ OneCrossing'
    BY <2>1 DEF NoCrossingAboveTip, OneCrossing
  <2> QED
    BY <1>2, <1>4, <1>5, <1>8, <1>9, <1>10, <2>2
<1>12. CASE ~(k < lowestRevertedLogIndex)
  <2>1. \A j \in LogIndex : Crossing(j)' => Crossing(j) /\ j # k
    BY <1>1, <1>3, <1>12 DEF Crossing
  <2>2. OneCrossing'
    BY <2>1 DEF OneCrossing
  <2>3. canonicalTip' < lowestRevertedLogIndex' =>
           canonicalTip < lowestRevertedLogIndex \/ Crossing(k)
    BY <1>a, <1>b, <1>3, <1>12, RegistryConstants DEF Crossing, LogIndex
  <2>4. NoCrossingAboveTip'
    BY <2>1, <2>3 DEF NoCrossingAboveTip, OneCrossing
  <2> QED
    BY <1>2, <1>4, <1>5, <1>8, <1>9, <1>10, <2>2, <2>4
<1> QED
  BY <1>11, <1>12

-----------------------------------------------------------------------------
\* Every step of the registry keeps the invariant.
LEMMA RegistryInvInductive == RegistryInv /\ [Next]_registryVars => RegistryInv'
<1> SUFFICES ASSUME RegistryInv, [Next]_registryVars PROVE RegistryInv'
  OBVIOUS
<1>0. block \in Nat \ {0} /\ submissionsHalted \in BOOLEAN
  BY DEF RegistryInv, TypeOK
<1>1. CASE Tick
  BY <1>0, <1>1, ClockKeepsInv DEF Tick
<1>2. CASE HaltSubmissions \/ ResumeSubmissions
  <2>1. /\ submissionsHalted' \in BOOLEAN /\ block' = block
        /\ UNCHANGED <<roots, canonicalTip, revertVars, submitVars, bondVars>>
    BY <1>2, Zenon DEF HaltSubmissions, ResumeSubmissions
  <2>2. block' \in Nat \ {0} /\ block <= block'
    BY <1>0, <2>1
  <2> QED
    BY <2>1, <2>2, ClockKeepsInv
<1>3. CASE UNCHANGED registryVars
  BY <1>0, <1>3, ClockKeepsInv DEF registryVars
<1>4. ASSUME NEW k \in LogIndex, NEW c \in StateCommit, NEW a \in ActionsRoot,
             SubmitStateRoot(k, c, a)
      PROVE  RegistryInv'
  BY <1>4, SubmitKeepsInv
<1>5. ASSUME NEW k \in LogIndex, FinaliseStateRoot(k) PROVE RegistryInv'
  <2>1. roots[k].bond # 0
    BY <1>5 DEF FinaliseStateRoot, Finalisable, RegistryInv, TipInv, LiveRecordsBonded
  <2>2. /\ roots' = [roots EXCEPT ![k].finalised = TRUE, ![k].bond = 0]
        /\ ReleaseBond(k)
        /\ UNCHANGED <<block, canonicalTip, revertVars, submitVars, submissionsHalted>>
    BY <1>5 DEF FinaliseStateRoot
  <2> QED
    BY Zenon, <2>1, <2>2, DropBondKeepsInv
<1>6. ASSUME NEW k \in LogIndex, ReclaimRevertedBond(k) PROVE RegistryInv'
  <2>1. roots' = [roots EXCEPT ![k].finalised = FALSE, ![k].bond = 0]
    <3>1. roots' = [roots EXCEPT ![k].bond = 0]
      BY <1>6 DEF ReclaimRevertedBond
    <3>2. roots \in [LogIndex -> SubmittedRoot] /\ roots[k].finalised = FALSE
      BY <1>6 DEF ReclaimRevertedBond, RegistryInv, TypeOK, SubmittedRoot
    <3> QED
      BY <3>1, <3>2, Zenon DEF SubmittedRoot
  <2>2. /\ roots[k].bond # 0 /\ IsRecordReverted(k) /\ ReleaseBond(k)
        /\ UNCHANGED <<block, canonicalTip, revertVars, submitVars, submissionsHalted>>
    BY <1>6 DEF ReclaimRevertedBond
  <2> QED
    BY Zenon, <2>1, <2>2, DropBondKeepsInv
<1>7. ASSUME NEW k \in LogIndex, GameCall(k) PROVE RegistryInv'
  <2>1. CASE MarkDisputed(k) \/ ClearDisputed(k)
    BY <2>1, FlagKeepsInv, Zenon DEF MarkDisputed, ClearDisputed
  <2>2. CASE LoseDispute(k)
    BY <2>2, LoseKeepsInv
  <2> QED
    BY <1>7, <2>1, <2>2 DEF GameCall
<1> QED
  BY <1>1, <1>2, <1>3, <1>4, <1>5, <1>6, <1>7 DEF Next

\* The strengthened invariant holds in every reachable state of the registry.
THEOREM RegistryInvariant == Spec => []RegistryInv
<1> QED
  BY InitRegistryInv, RegistryInvInductive, PTL DEF Spec

\* Every field keeps its type; in particular the contract's balance covers each
\* bond it pays out.
THEOREM RegistryTyped == Spec => []TypeOK
<1>1. RegistryInv => TypeOK
  BY DEF RegistryInv
<1> QED
  BY <1>1, RegistryInvariant, PTL

\* The balance and the rate-limit count are exactly those of the bonded records,
\* whatever the order of submissions, finalisations, slashes and reclaims.
THEOREM BondsAlwaysBacked == Spec => []BondsBacked
<1>1. RegistryInv => BondsBacked
  BY DEF RegistryInv
<1> QED
  BY <1>1, RegistryInvariant, PTL

\* A record neither finalised nor reverted always has a bond to slash or return.
THEOREM LiveAlwaysBonded == Spec => []LiveRecordsBonded
<1>1. RegistryInv => LiveRecordsBonded
  BY DEF RegistryInv, TipInv
<1> QED
  BY <1>1, RegistryInvariant, PTL

\* No live record lies above the canonical tip, so a submission never lands on
\* one: the premise of submitStateRoot's occupied-key rule.
THEOREM LiveNeverAboveTip == Spec => []LiveAtOrBelowTip
<1>1. RegistryInv => LiveAtOrBelowTip
  BY DEF RegistryInv, TipInv
<1> QED
  BY <1>1, RegistryInvariant, PTL

\* A step moves the floor of the reverted range only down, its ceiling and its
\* block only up.
LEMMA RangeOnlyGrows ==
    ASSUME RegistryInv, [Next]_registryVars
    PROVE  /\ lowestRevertedLogIndex' <= lowestRevertedLogIndex
           /\ highestRevertedLogIndex <= highestRevertedLogIndex'
           /\ lastRevertAtBlock <= lastRevertAtBlock'
<1>1. /\ lowestRevertedLogIndex \in Nat /\ highestRevertedLogIndex \in Nat
      /\ lastRevertAtBlock \in Nat /\ block \in Nat /\ lastRevertAtBlock <= block
      /\ latestSubmittedLogIndex \in Nat
  BY TypeFacts DEF RegistryInv, TipInv, RecordsBounded
<1>2. ASSUME UNCHANGED revertVars
      PROVE  /\ lowestRevertedLogIndex' <= lowestRevertedLogIndex
             /\ highestRevertedLogIndex <= highestRevertedLogIndex'
             /\ lastRevertAtBlock <= lastRevertAtBlock'
  BY <1>1, <1>2 DEF revertVars
<1>3. ASSUME NEW k \in LogIndex, LoseDispute(k)
      PROVE  /\ lowestRevertedLogIndex' <= lowestRevertedLogIndex
             /\ highestRevertedLogIndex <= highestRevertedLogIndex'
             /\ lastRevertAtBlock <= lastRevertAtBlock'
  BY <1>1, <1>3, RegistryConstants DEF LoseDispute, RevertStateRootsFrom, LogIndex
<1>4. UNCHANGED revertVars \/ \E k \in LogIndex : LoseDispute(k)
  BY Zenon DEF Next, GameCall, Tick, HaltSubmissions, ResumeSubmissions, SubmitStateRoot,
         FinaliseStateRoot, ReclaimRevertedBond, MarkDisputed, ClearDisputed, registryVars
<1> QED
  BY <1>2, <1>3, <1>4

\* No step brings a reverted record back: only a resubmission replaces it.
THEOREM RevertsArePermanent == Spec => RevertIsPermanent
<1>1. ASSUME RegistryInv, RegistryInv', [Next]_registryVars, NEW k \in LogIndex,
             IsRecordReverted(k),
             roots'[k].submittedAtBlock = roots[k].submittedAtBlock
      PROVE  IsRecordReverted(k)'
  <2>1. /\ lowestRevertedLogIndex' <= lowestRevertedLogIndex
        /\ highestRevertedLogIndex <= highestRevertedLogIndex'
        /\ lastRevertAtBlock <= lastRevertAtBlock'
    BY <1>1, RangeOnlyGrows
  <2>2. /\ lowestRevertedLogIndex \in Nat /\ highestRevertedLogIndex \in Nat
        /\ lastRevertAtBlock \in Nat /\ roots[k].submittedAtBlock \in Nat
    BY <1>1, TypeFacts DEF RegistryInv
  <2>3. /\ lowestRevertedLogIndex' \in Nat /\ highestRevertedLogIndex' \in Nat
        /\ lastRevertAtBlock' \in Nat
    <3>1. TypeOK'
      BY <1>1 DEF RegistryInv
    <3> QED
      BY <3>1, RegistryConstants DEF TypeOK, NoRevertedFloor, LogIndex
  <2> QED
    BY <1>1, <2>1, <2>2, <2>3, RegistryConstants DEF IsRecordReverted, LogIndex
<1>2. RegistryInv /\ RegistryInv' /\ [Next]_registryVars =>
        [\A k \in LogIndex :
            /\ IsRecordReverted(k)
            /\ roots'[k].submittedAtBlock = roots[k].submittedAtBlock
            => IsRecordReverted(k)']_registryVars
  BY <1>1
<1> QED
  BY <1>2, RegistryInvariant, PTL DEF Spec, RevertIsPermanent
=============================================================================
