--------------------------- MODULE L1IngestProofs ---------------------------
(***************************************************************************)
(* The watcher and the host agree on who is who, for every confirmation    *)
(* depth, window, batch size and set of events, whatever re-orgs, kills,   *)
(* hard crashes and lost responses happen.                                 *)
(*                                                                         *)
(* What the watcher knows is always what some number of the host's         *)
(* admitted actions say: the first nextNonce of them while it runs, and    *)
(* the first k, for some k, whatever prefix of the state file a crash      *)
(* leaves.  An action is admitted only when nothing is missing, because    *)
(* only then do the nonces agree.                                          *)
(***************************************************************************)
EXTENDS L1Ingest, FiniteSetTheorems, TLAPS

Admission == [event : Event, kind : {"register", "replaceKey", "deposit", "revoke"},
              actor : Nat]
Block == [fork : Nat, log : Seq(Event)]
Header == [number : Nat, fork : Nat, parent : Nat]
EventKey == [number : Nat, fork : Nat, event : Event]

Forwarded == [kind : {"forwarded"}, key : EventKey]
Submitted == [kind : {"submitted"}, key : EventKey, nextNonce : Nat,
              assigned : SUBSET (Address \X Nat)]
Confirmed == [kind : {"confirmed"}, block : Nat]

IngestTypeOK ==
    /\ world \in Worlds
    /\ chain \in Seq(Block) /\ fork \in Nat
    /\ admitted \in Seq(Admission)
    /\ disk \in Seq(Forwarded \cup Submitted \cup Confirmed)
    /\ header \in Header
    /\ pc \in {"logs", "event", "submit", "record"} => cur \in Nat
    /\ queue \in Seq(Event)
    /\ pc \in {"submit", "record"} => queue # <<>>

\* The address an admitted action is about, and its actor id.
Pair(w, a) == <<w.addressOf[a.event], a.actor>>
Pairs(w, actions, k) == {Pair(w, actions[i]) : i \in 1 .. k}

\* The host: the nonce counts the admitted actions, ids and addresses go
\* together, and no deposit is there twice.
HostInv ==
    /\ hostNonce = Len(admitted)
    /\ \A i, j \in DOMAIN admitted :
          Pair(world, admitted[i])[1] = Pair(world, admitted[j])[1]
              <=> admitted[i].actor = admitted[j].actor
    /\ \A i \in DOMAIN admitted :
          /\ admitted[i].actor >= FirstActorId
          /\ admitted[i].kind = "deposit" <=> Kind[admitted[i].event] = "deposit"
    /\ DepositCreditedOnce

\* The first n records of the state file say what the first k admissions do.
SubmittedIn(d, n) == {d[i] : i \in {j \in 1 .. n : d[j].kind = "submitted"}}
Nonces(d, n) == {r.nextNonce : r \in SubmittedIn(d, n)}
Assigned(d, n) == UNION {r.assigned : r \in SubmittedIn(d, n)}
Tells(w, actions, d, n, k) ==
    Nonces(d, n) = 1 .. k /\ Assigned(d, n) = Pairs(w, actions, k)

DiskInv ==
    \A n \in 0 .. Len(disk) :
        \E k \in 0 .. Len(admitted) : Tells(world, admitted, disk, n, k)

\* The address book of a running watcher, as of the first k admissions.
BookOf(w, actions, k, b) ==
    /\ IsFiniteSet(DOMAIN b)
    /\ b \in [DOMAIN b -> Nat]
    /\ {<<a, b[a]>> : a \in DOMAIN b} = Pairs(w, actions, k)
    /\ \A a \in DOMAIN b : b[a] < FirstActorId + Cardinality(DOMAIN b)

MemoryInv ==
    /\ pc = "down" => book = <<>>
    /\ pc # "down" =>
          /\ nextNonce \in 0 .. Len(admitted)
          /\ Tells(world, admitted, disk, Len(disk), nextNonce)
          /\ BookOf(world, admitted, nextNonce, book)
    /\ pc = "record" =>
          /\ Len(admitted) = nextNonce + 1
          /\ admitted[nextNonce + 1].event = Head(queue)
          /\ admitted[nextNonce + 1].actor = ActorFor(Head(queue))

IngestInv == IngestTypeOK /\ HostInv /\ DiskInv /\ MemoryInv

-----------------------------------------------------------------------------
\* The events, the records and the state file.

LEMMA WorldTyped ==
    ASSUME world \in Worlds
    PROVE  /\ Kind \in [Event -> {"register", "deposit", "revoke"}]
           /\ AddressOf \in [Event -> Address]
BY IngestConstants DEF Kind, AddressOf

LEMMA BlockFields ==
    ASSUME NEW blocks \in Seq(Block), NEW n \in DOMAIN blocks
    PROVE  n \in 1 .. Len(blocks) /\ blocks[n].fork \in Nat /\ blocks[n].log \in Seq(Event)
<1>1. n \in 1 .. Len(blocks) /\ blocks[n] \in Block
  OBVIOUS
<1> QED
  BY <1>1 DEF Block

LEMMA HeadOfQueue ==
    ASSUME NEW q \in Seq(Event), q # <<>>
    PROVE  Head(q) \in Event /\ Tail(q) \in Seq(Event)
OBVIOUS

LEMMA LaterAdmission ==
    ASSUME NEW w, NEW actions \in Seq(Admission), NEW a \in Admission,
           NEW k \in 0 .. Len(actions)
    PROVE  Pairs(w, Append(actions, a), k) = Pairs(w, actions, k)
<1>1. \A i \in 1 .. k : Append(actions, a)[i] = actions[i]
  OBVIOUS
<1> QED
  BY <1>1 DEF Pairs

\* A record appended to the file leaves what the earlier ones say.
LEMMA LaterRecord ==
    ASSUME NEW R, NEW d \in Seq(R), NEW r \in R, NEW n \in 0 .. Len(d)
    PROVE  SubmittedIn(Append(d, r), n) = SubmittedIn(d, n)
<1>1. \A i \in 1 .. n : Append(d, r)[i] = d[i]
  OBVIOUS
<1> QED
  BY <1>1 DEF SubmittedIn

LEMMA LastRecord ==
    ASSUME NEW R, NEW d \in Seq(R), NEW r \in R
    PROVE  SubmittedIn(Append(d, r), Len(d) + 1) =
               SubmittedIn(d, Len(d)) \cup (IF r.kind = "submitted" THEN {r} ELSE {})
<1>1. \A i \in 1 .. Len(d) + 1 :
          Append(d, r)[i] = IF i = Len(d) + 1 THEN r ELSE d[i]
  OBVIOUS
<1>2. 1 .. Len(d) + 1 = (1 .. Len(d)) \cup {Len(d) + 1} /\ Len(d) \in Nat
  OBVIOUS
<1> QED
  BY <1>1, <1>2 DEF SubmittedIn

LEMMA KeptRecords ==
    ASSUME NEW R, NEW d \in Seq(R), NEW kept \in 0 .. Len(d), NEW n \in 0 .. kept
    PROVE  /\ SubSeq(d, 1, kept) \in Seq(R) /\ Len(SubSeq(d, 1, kept)) = kept
           /\ SubmittedIn(SubSeq(d, 1, kept), n) = SubmittedIn(d, n)
<1>1. /\ SubSeq(d, 1, kept) \in Seq(R) /\ Len(SubSeq(d, 1, kept)) = kept
      /\ \A i \in 1 .. n : SubSeq(d, 1, kept)[i] = d[i]
  OBVIOUS
<1> QED
  BY <1>1 DEF SubmittedIn

\* A record of another kind changes nothing that is told.
LEMMA OtherRecordTells ==
    ASSUME NEW w, NEW actions, NEW R, NEW d \in Seq(R), NEW r \in R,
           r.kind # "submitted", NEW k, NEW n \in 0 .. Len(d) + 1,
           Tells(w, actions, d, IF n = Len(d) + 1 THEN Len(d) ELSE n, k)
    PROVE  Tells(w, actions, Append(d, r), n, k)
<1>1. CASE n = Len(d) + 1
  <2>1. SubmittedIn(Append(d, r), n) = SubmittedIn(d, Len(d))
    BY <1>1, LastRecord, Zenon
  <2> QED
    BY <1>1, <2>1 DEF Tells, Nonces, Assigned
<1>2. CASE n # Len(d) + 1
  <2>1. n \in 0 .. Len(d)
    BY <1>2
  <2>2. SubmittedIn(Append(d, r), n) = SubmittedIn(d, n)
    BY <2>1, LaterRecord
  <2> QED
    BY <1>2, <2>2 DEF Tells, Nonces, Assigned
<1> QED
  BY <1>1, <1>2

-----------------------------------------------------------------------------
\* What is left alone stays true.

LEMMA HostAndDiskKept ==
    ASSUME HostInv, DiskInv, UNCHANGED <<world, hostNonce, admitted, disk>>
    PROVE  HostInv' /\ DiskInv'
BY DEF HostInv, DiskInv, DepositCreditedOnce, Kind

LEMMA MemoryKept ==
    ASSUME MemoryInv, pc # "down", pc' \notin {"down", "record"},
           UNCHANGED <<world, admitted, disk, nextNonce, book>>
    PROVE  MemoryInv'
BY DEF MemoryInv

\* A process that ends forgets.
LEMMA ExitForgets ==
    ASSUME NEW code, Exit(code)
    PROVE  /\ MemoryInv'
           /\ header' \in Header /\ queue' \in Seq(Event)
           /\ pc' = "down"
<1>1. header' \in Header
  BY DEF Exit, NoHeader, Header
<1> QED
  BY <1>1 DEF Exit, MemoryInv

LEMMA QuietStep ==
    ASSUME IngestInv, IngestTypeOK', pc # "down", pc' \notin {"down", "record"},
           UNCHANGED <<world, hostNonce, admitted, disk, nextNonce, book>>
    PROVE  IngestInv'
BY HostAndDiskKept, MemoryKept DEF IngestInv

LEMMA ExitStep ==
    ASSUME IngestInv, NEW code, Exit(code), world' = world, chain' = chain, fork' = fork,
           hostNonce' = hostNonce, admitted' = admitted, disk' = disk
    PROVE  IngestInv'
<1>1. IngestTypeOK'
  BY ExitForgets DEF IngestInv, IngestTypeOK
<1> QED
  BY <1>1, ExitForgets, HostAndDiskKept DEF IngestInv

\* The chain moves under the watcher.
LEMMA ChainStep ==
    ASSUME IngestInv, Mining \/ \E n \in 0 .. Len(chain) : Reorg(n)
    PROVE  IngestInv'
<1>1. chain' \in Seq(Block) /\ fork' \in Nat
  <2>1. chain \in Seq(Block) /\ fork \in Nat
    BY DEF IngestInv, IngestTypeOK
  <2>2. ASSUME NEW log \in BlockLogs, Mine(log)
        PROVE  chain' \in Seq(Block) /\ fork' \in Nat
    <3>1. log \in Seq(Event)
      <4>1. PICK n \in 0 .. 2 : log \in [1 .. n -> Event \ OnChain]
        BY DEF BlockLogs
      <4>2. log \in [1 .. n -> Event] /\ n \in Nat
        BY <4>1
      <4> QED
        BY <4>2
    <3>2. chain' = Append(chain, [fork |-> fork, log |-> log]) /\ fork' = fork
      BY <2>2 DEF Mine
    <3>3. [fork |-> fork, log |-> log] \in Block
      BY <2>1, <3>1 DEF Block
    <3> QED
      BY <2>1, <3>2, <3>3
  <2>3. ASSUME NEW n \in 0 .. Len(chain), Reorg(n)
        PROVE  chain' \in Seq(Block) /\ fork' \in Nat
    <3>1. chain' = SubSeq(chain, 1, n) /\ fork' = fork + 1
      BY <2>3 DEF Reorg
    <3> QED
      BY <2>1, <3>1
  <2> QED
    BY <2>2, <2>3 DEF Mining
<1>2. UNCHANGED <<world, hostNonce, admitted, disk, nextNonce, book, pc, queue, cur, header>>
  BY Zenon DEF Mining, Mine, Reorg, hostVars, diskVars, memVars, scanVars
<1>3. IngestTypeOK'
  BY <1>1, <1>2 DEF IngestInv, IngestTypeOK
<1>4. MemoryInv'
  BY <1>2 DEF IngestInv, MemoryInv, ActorFor, AddressOf, NextActorId
<1> QED
  BY <1>2, <1>3, <1>4, HostAndDiskKept DEF IngestInv

-----------------------------------------------------------------------------
\* The steps of an iteration that neither submit nor record.

LEMMA StartIterationKeeps ==
    ASSUME IngestInv, StartIteration
    PROVE  IngestInv'
<1>1. /\ UNCHANGED <<world, chain, fork, hostNonce, admitted, disk, nextNonce, book,
                     header, queue>>
      /\ pc = "idle" /\ pc' = "header"
  BY DEF StartIteration, l1Vars, hostVars, diskVars, memVars
<1>2. IngestTypeOK'
  BY <1>1 DEF IngestInv, IngestTypeOK
<1> QED
  BY <1>1, <1>2, QuietStep

LEMMA FetchHeaderKeeps ==
    ASSUME IngestInv, FetchHeader
    PROVE  IngestInv'
<1>1. UNCHANGED <<world, chain, fork, hostNonce, admitted, disk>>
  BY DEF FetchHeader, l1Vars, hostVars, diskVars
<1>2. ASSUME NEW code, Exit(code) PROVE IngestInv'
  BY <1>1, <1>2, ExitStep
<1>3. ASSUME cur \in DOMAIN chain, header' = HeaderOf(cur), pc = "header", pc' = "logs",
             UNCHANGED <<memVars, cur, endBlock, queue, retries, lastExit>>
      PROVE  IngestInv'
  <2>1. chain \in Seq(Block)
    BY DEF IngestInv, IngestTypeOK
  <2>2. cur \in Nat /\ cur \in 1 .. Len(chain)
    BY <1>3, <2>1
  <2>3. chain[cur].fork \in Nat /\ (cur # 1 => chain[cur - 1].fork \in Nat)
    <3>1. cur # 1 => cur - 1 \in DOMAIN chain
      BY <2>1, <2>2
    <3> QED
      BY <1>3, <2>1, <3>1, BlockFields
  <2>4. HeaderOf(cur) \in Header
    BY <2>2, <2>3 DEF HeaderOf, Header
  <2>5. IngestTypeOK'
    BY <1>1, <1>3, <2>2, <2>4 DEF IngestInv, IngestTypeOK
  <2> QED
    BY <1>1, <1>3, <2>5, QuietStep DEF memVars
<1> QED
  BY <1>2, <1>3 DEF FetchHeader

LEMMA FetchLogsKeeps ==
    ASSUME IngestInv, FetchLogs
    PROVE  IngestInv'
<1>1. UNCHANGED <<world, chain, fork, hostNonce, admitted, disk>>
  BY DEF FetchLogs, l1Vars, hostVars, diskVars
<1>2. ASSUME NEW code, Exit(code) PROVE IngestInv'
  BY <1>1, <1>2, ExitStep
<1>3. ASSUME cur \in DOMAIN chain, queue' = Log(cur), pc = "logs", pc' = "event",
             UNCHANGED <<memVars, cur, header>>
      PROVE  IngestInv'
  <2>1. chain \in Seq(Block) /\ cur \in Nat
    BY <1>3 DEF IngestInv, IngestTypeOK
  <2>2. Log(cur) \in Seq(Event)
    BY <1>3, <2>1, BlockFields DEF Log
  <2>3. IngestTypeOK'
    BY <1>1, <1>3, <2>1, <2>2 DEF IngestInv, IngestTypeOK
  <2> QED
    BY <1>1, <1>3, <2>3, QuietStep DEF memVars
<1> QED
  BY <1>2, <1>3 DEF FetchLogs

LEMMA SkipOrBeginKeeps ==
    ASSUME IngestInv, SkipForwarded \/ BeginSubmit
    PROVE  IngestInv'
<1>1. /\ UNCHANGED <<world, chain, fork, hostNonce, admitted, disk, nextNonce, book,
                     header, cur>>
      /\ pc = "event" /\ queue # <<>>
      /\ \/ queue' = Tail(queue) /\ pc' = pc
         \/ queue' = queue /\ pc' = "submit"
  BY DEF SkipForwarded, BeginSubmit, l1Vars, hostVars, diskVars, memVars
<1>2. queue' \in Seq(Event)
  BY Zenon, <1>1, HeadOfQueue DEF IngestInv, IngestTypeOK
<1>3. IngestTypeOK'
  BY <1>1, <1>2 DEF IngestInv, IngestTypeOK
<1> QED
  BY <1>1, <1>3, QuietStep

\* A record that is not of a submission.
LEMMA RecordStep ==
    ASSUME IngestInv, NEW r \in Forwarded \cup Confirmed, disk' = Append(disk, r),
           UNCHANGED <<world, hostNonce, admitted, nextNonce, book>>,
           IngestTypeOK', pc # "down", pc' \notin {"down", "record"}
    PROVE  IngestInv'
<1> DEFINE R == Forwarded \cup Submitted \cup Confirmed
<1>1. disk \in Seq(R) /\ r \in R /\ r.kind # "submitted"
  BY DEF IngestInv, IngestTypeOK, Forwarded, Confirmed
<1> HIDE DEF R
<1>2. Len(disk') = Len(disk) + 1 /\ Len(disk) \in Nat
  BY <1>1
<1>3. DiskInv'
  <2> SUFFICES ASSUME NEW n \in 0 .. Len(disk) + 1
               PROVE  \E k \in 0 .. Len(admitted) :
                          Tells(world, admitted, Append(disk, r), n, k)
    BY <1>2 DEF DiskInv
  <2> DEFINE m == IF n = Len(disk) + 1 THEN Len(disk) ELSE n
  <2>1. m \in 0 .. Len(disk)
    BY <1>2
  <2>2. PICK k \in 0 .. Len(admitted) : Tells(world, admitted, disk, m, k)
    BY <2>1 DEF IngestInv, DiskInv
  <2> QED
    BY <1>1, <2>2, OtherRecordTells
<1>4. MemoryInv'
  <2>1. Tells(world, admitted, disk, Len(disk), nextNonce)
    BY DEF IngestInv, MemoryInv
  <2>2. Tells(world, admitted, Append(disk, r), Len(disk) + 1, nextNonce)
    BY <1>1, <1>2, <2>1, OtherRecordTells
  <2>3. Tells(world, admitted, disk, Len(disk), nextNonce)'
    BY <1>2, <2>2
  <2> QED
    BY <2>3 DEF IngestInv, MemoryInv
<1>5. HostInv'
  BY DEF IngestInv, HostInv, DepositCreditedOnce, Kind
<1> QED
  BY <1>3, <1>4, <1>5 DEF IngestInv

LEMMA KeyTyped ==
    ASSUME IngestTypeOK, NEW e \in Event
    PROVE  KeyOf(e) \in EventKey
BY DEF IngestTypeOK, Header, EventKey, KeyOf

LEMMA RecordNoActionKeeps ==
    ASSUME IngestInv, RecordNoAction
    PROVE  IngestInv'
<1> DEFINE r == [kind |-> "forwarded", key |-> KeyOf(Head(queue))]
<1>1. /\ UNCHANGED <<world, chain, fork, hostNonce, admitted, nextNonce, book,
                     header, cur, pc>>
      /\ pc = "event" /\ queue # <<>> /\ queue' = Tail(queue)
      /\ disk' = Append(disk, r)
  BY DEF RecordNoAction, l1Vars, hostVars
<1>2. Head(queue) \in Event /\ queue' \in Seq(Event)
  BY <1>1, HeadOfQueue DEF IngestInv, IngestTypeOK
<1>3. r \in Forwarded
  BY <1>2, KeyTyped DEF IngestInv, Forwarded
<1> HIDE DEF r
<1>4. disk' \in Seq(Forwarded \cup Submitted \cup Confirmed)
  BY <1>1, <1>3 DEF IngestInv, IngestTypeOK
<1>5. IngestTypeOK'
  BY <1>1, <1>2, <1>4 DEF IngestInv, IngestTypeOK
<1> QED
  BY <1>1, <1>3, <1>5, RecordStep

LEMMA ConfirmBlockKeeps ==
    ASSUME IngestInv, ConfirmBlock
    PROVE  IngestInv'
<1> DEFINE r == [kind |-> "confirmed", block |-> cur]
<1>1. /\ UNCHANGED <<world, chain, fork, hostNonce, admitted, nextNonce, book,
                     header, queue>>
      /\ pc = "event" /\ pc' \in {"idle", "header"}
      /\ disk' = Append(disk, r)
  BY DEF ConfirmBlock, l1Vars, hostVars
<1>2. r \in Confirmed
  BY <1>1 DEF IngestInv, IngestTypeOK, Confirmed
<1> HIDE DEF r
<1>3. disk' \in Seq(Forwarded \cup Submitted \cup Confirmed)
  BY <1>1, <1>2 DEF IngestInv, IngestTypeOK
<1>4. IngestTypeOK'
  BY <1>1, <1>3 DEF IngestInv, IngestTypeOK
<1> QED
  BY <1>1, <1>2, <1>4, RecordStep

-----------------------------------------------------------------------------
\* The ways the process ends.

LEMMA EndsKeep ==
    ASSUME IngestInv, SourceFails \/ SubmitRejected \/ Kill
    PROVE  IngestInv'
<1>1. PICK code \in {"transient", "operator", "kill"} : Exit(code)
  BY DEF SourceFails, SubmitRejected, Kill
<1>2. UNCHANGED <<world, chain, fork, hostNonce, admitted, disk>>
  BY DEF SourceFails, SubmitRejected, Kill, l1Vars, hostVars, diskVars
<1> QED
  BY <1>1, <1>2, ExitStep

LEMMA SubmitBusyKeeps ==
    ASSUME IngestInv, SubmitBusy
    PROVE  IngestInv'
<1>1. UNCHANGED <<world, chain, fork, hostNonce, admitted, disk>> /\ pc = "submit"
  BY DEF SubmitBusy, l1Vars, hostVars, diskVars
<1>2. CASE Exit("transient")
  BY <1>1, <1>2, ExitStep
<1>3. CASE UNCHANGED <<memVars, window, cur, endBlock, header, queue, pc, lastExit>>
  <2>1. IngestTypeOK'
    BY <1>1, <1>3 DEF IngestInv, IngestTypeOK
  <2> QED
    BY <1>1, <1>3, <2>1, QuietStep DEF memVars
<1> QED
  BY <1>2, <1>3 DEF SubmitBusy

\* Every prefix of the state file is one the watcher can start from.
LEMMA HardCrashKeeps ==
    ASSUME IngestInv, NEW kept \in 0 .. Len(disk), HardCrash(kept)
    PROVE  IngestInv'
<1> DEFINE R == Forwarded \cup Submitted \cup Confirmed
<1>1. /\ UNCHANGED <<world, chain, fork, hostNonce, admitted>>
      /\ disk' = SubSeq(disk, 1, kept) /\ Exit("kill")
  BY DEF HardCrash, l1Vars, hostVars
<1>2. disk \in Seq(R)
  BY DEF IngestInv, IngestTypeOK
<1> HIDE DEF R
<1>3. kept \in Nat /\ Len(disk) \in Nat
  BY <1>2
<1>4. disk' \in Seq(R) /\ Len(disk') = kept
  BY <1>1, <1>2, <1>3, KeptRecords
<1>5. IngestTypeOK'
  BY <1>1, <1>4, ExitForgets DEF IngestInv, IngestTypeOK, R
<1>6. DiskInv'
  <2> SUFFICES ASSUME NEW n \in 0 .. kept
               PROVE  \E k \in 0 .. Len(admitted) : Tells(world, admitted, disk', n, k)
    BY <1>1, <1>4 DEF DiskInv
  <2>1. n \in 0 .. Len(disk)
    BY <1>3
  <2>2. PICK k \in 0 .. Len(admitted) : Tells(world, admitted, disk, n, k)
    BY <2>1 DEF IngestInv, DiskInv
  <2>3. SubmittedIn(disk', n) = SubmittedIn(disk, n)
    BY <1>1, <1>2, KeptRecords
  <2> QED
    BY <2>2, <2>3 DEF Tells, Nonces, Assigned
<1>7. HostInv'
  BY <1>1 DEF IngestInv, HostInv, DepositCreditedOnce, Kind
<1> QED
  BY <1>1, <1>5, <1>6, <1>7, ExitForgets DEF IngestInv

LEMMA RepairKeeps ==
    ASSUME IngestInv, RepairStateFile
    PROVE  IngestInv'
<1>1. /\ UNCHANGED <<world, chain, fork, hostNonce, admitted, disk, nextNonce, book,
                     header, queue, cur, pc>>
      /\ pc = "down"
  BY DEF RepairStateFile, l1Vars, hostVars, memVars, scanVars
<1>2. IngestTypeOK' /\ MemoryInv'
  BY <1>1 DEF IngestInv, IngestTypeOK, MemoryInv
<1> QED
  BY <1>1, <1>2, HostAndDiskKept DEF IngestInv

-----------------------------------------------------------------------------
\* Submission.

\* An action is admitted only from a watcher that has recorded every earlier one.
LEMMA AdmittedInStep ==
    ASSUME IngestInv, pc = "submit", HostAdmits(Head(queue))
    PROVE  /\ nextNonce = Len(admitted)
           /\ BookOf(world, admitted, Len(admitted), book)
BY Zenon DEF IngestInv, MemoryInv, HostInv, HostAdmits

\* The id offered for an address is the one it has, or one nobody has.
LEMMA OfferedActor ==
    ASSUME IngestInv, BookOf(world, admitted, Len(admitted), book), NEW e \in Event
    PROVE  /\ ActorFor(e) \in Nat /\ ActorFor(e) >= FirstActorId
           /\ \A i \in DOMAIN admitted :
                 Pair(world, admitted[i])[1] = AddressOf[e]
                     <=> admitted[i].actor = ActorFor(e)
<1> DEFINE A == AddressOf[e]
           n == Cardinality(DOMAIN book)
<1>1. admitted \in Seq(Admission) /\ DOMAIN admitted = 1 .. Len(admitted)
  BY DEF IngestInv, IngestTypeOK
<1>2. n \in Nat /\ FirstActorId \in Nat
  BY FS_CardinalityType, IngestConstants DEF BookOf
<1>3. \A i \in DOMAIN admitted :
          /\ admitted[i].actor \in Nat /\ admitted[i].actor >= FirstActorId
          /\ Pair(world, admitted[i]) \in {<<a, book[a]>> : a \in DOMAIN book}
  <2>1. \A i \in DOMAIN admitted : admitted[i] \in Admission
    BY <1>1
  <2> QED
    BY <1>1, <2>1 DEF BookOf, Pairs, IngestInv, HostInv, Admission
<1>4. \A i \in DOMAIN admitted :
          LET a == Pair(world, admitted[i])[1]
          IN  a \in DOMAIN book /\ admitted[i].actor = book[a] /\ book[a] < FirstActorId + n
  BY <1>3 DEF BookOf, Pair
<1>5. CASE A \in DOMAIN book
  <2>1. PICK j \in DOMAIN admitted : Pair(world, admitted[j]) = <<A, book[A]>>
    BY <1>1, <1>5, Zenon DEF BookOf, Pairs
  <2>2. Pair(world, admitted[j])[1] = A /\ admitted[j].actor = book[A]
    BY <2>1 DEF Pair
  <2>3. ActorFor(e) = admitted[j].actor
    BY <1>5, <2>2 DEF ActorFor
  <2> QED
    BY Zenon, <1>3, <2>2, <2>3 DEF IngestInv, HostInv
<1>6. CASE A \notin DOMAIN book
  <2>1. ActorFor(e) = FirstActorId + n
    BY <1>6 DEF ActorFor, NextActorId
  <2> HIDE DEF A, n
  <2>2. \A i \in DOMAIN admitted :
            /\ Pair(world, admitted[i])[1] # A
            /\ admitted[i].actor # FirstActorId + n
    BY <1>2, <1>3, <1>4, <1>6
  <2> QED
    BY <1>2, <2>1, <2>2 DEF A
<1> QED
  BY <1>5, <1>6

LEMMA HostApplyKeeps ==
    ASSUME IngestInv, pc = "submit", HostAdmits(Head(queue)), HostApply(Head(queue)),
           world' = world, disk' = disk
    PROVE  /\ admitted' \in Seq(Admission) /\ HostInv' /\ DiskInv'
           /\ nextNonce = Len(admitted) /\ Len(admitted') = Len(admitted) + 1
           /\ \A k \in 0 .. Len(admitted) : Pairs(world, admitted', k) = Pairs(world, admitted, k)
           /\ admitted'[Len(admitted) + 1].event = Head(queue)
           /\ admitted'[Len(admitted) + 1].actor = ActorFor(Head(queue))
<1> DEFINE e == Head(queue)
           new == [event |-> e, kind |-> ActionKind(e), actor |-> ActorFor(e)]
           N == Len(admitted) + 1
<1>1. /\ e \in Event /\ admitted \in Seq(Admission) /\ Len(admitted) \in Nat
      /\ DOMAIN admitted = 1 .. Len(admitted)
  BY HeadOfQueue DEF IngestInv, IngestTypeOK
<1>2. nextNonce = Len(admitted) /\ BookOf(world, admitted, Len(admitted), book)
  BY AdmittedInStep
<1>3. /\ ActorFor(e) \in Nat /\ ActorFor(e) >= FirstActorId
      /\ \A i \in DOMAIN admitted :
            Pair(world, admitted[i])[1] = AddressOf[e] <=> admitted[i].actor = ActorFor(e)
  BY SMTT(30), <1>1, <1>2, OfferedActor
<1>4. /\ Kind[e] \in {"register", "deposit", "revoke"}
      /\ ActionKind(e) \in {"register", "replaceKey", "deposit", "revoke"}
      /\ ActionKind(e) = "deposit" <=> Kind[e] = "deposit"
  BY <1>1, WorldTyped DEF IngestInv, IngestTypeOK, ActionKind
<1>5. admitted' = Append(admitted, new) /\ hostNonce' = hostNonce + 1
  BY DEF HostApply
<1>6. ActionKind(e) = "deposit" =>
          \A i \in DOMAIN admitted : admitted[i].kind = "deposit" => admitted[i].event # e
  <2>1. \A i \in DOMAIN admitted : admitted[i] \in ToSet(admitted)
    BY DEF ToSet
  <2> QED
    BY <2>1 DEF HostAdmits
<1>7. /\ new \in Admission /\ new.event = e /\ new.kind = ActionKind(e)
      /\ new.actor = ActorFor(e) /\ Pair(world, new)[1] = AddressOf[e]
  BY Zenon, <1>1, <1>3, <1>4 DEF Admission, Pair, AddressOf
<1> HIDE DEF new, e
<1>8. /\ admitted' \in Seq(Admission) /\ Len(admitted') = N /\ DOMAIN admitted' = 1 .. N
      /\ admitted'[N] = new /\ \A i \in DOMAIN admitted : admitted'[i] = admitted[i]
  BY <1>1, <1>5, <1>7
<1>9. \A i \in DOMAIN admitted' : i = N \/ i \in DOMAIN admitted
  BY <1>1, <1>8
<1>10. N \notin DOMAIN admitted
  BY <1>1
<1> HIDE DEF N
<1>11. \A k \in 0 .. Len(admitted) : Pairs(world, admitted', k) = Pairs(world, admitted, k)
  BY <1>1, <1>5, <1>7, LaterAdmission
<1>12. DiskInv'
  <2> SUFFICES ASSUME NEW n \in 0 .. Len(disk)
               PROVE  \E k \in 0 .. Len(admitted') : Tells(world, admitted', disk, n, k)
    BY DEF DiskInv
  <2>1. PICK k \in 0 .. Len(admitted) : Tells(world, admitted, disk, n, k)
    BY DEF IngestInv, DiskInv
  <2>2. k \in 0 .. Len(admitted')
    BY <1>1, <1>8 DEF N
  <2> QED
    BY <1>11, <2>1, <2>2 DEF Tells
<1>13. HostInv'
  <2>1. hostNonce' = Len(admitted')
    BY Zenon, <1>1, <1>5, <1>8 DEF IngestInv, HostInv, N
  <2>2. \A i, j \in DOMAIN admitted' :
            Pair(world, admitted'[i])[1] = Pair(world, admitted'[j])[1]
                <=> admitted'[i].actor = admitted'[j].actor
    BY SMTT(30), <1>3, <1>7, <1>8, <1>9 DEF IngestInv, HostInv
  <2>3. \A i \in DOMAIN admitted' :
            /\ admitted'[i].actor >= FirstActorId
            /\ admitted'[i].kind = "deposit" <=> Kind[admitted'[i].event] = "deposit"
    BY <1>3, <1>4, <1>7, <1>8, <1>9 DEF IngestInv, HostInv
  <2>4. \A i, j \in DOMAIN admitted' :
            admitted'[i].kind = "deposit" /\ admitted'[i].event = admitted'[j].event => i = j
    <3>1. \A i, j \in DOMAIN admitted :
              admitted[i].kind = "deposit" /\ admitted[i].event = admitted[j].event => i = j
      BY DEF IngestInv, HostInv, DepositCreditedOnce
    <3>2. \A i \in DOMAIN admitted :
              admitted[i].event = e => ActionKind(e) # "deposit" /\ admitted[i].kind # "deposit"
      BY <1>4, <1>6 DEF IngestInv, HostInv
    <3> QED
      BY <1>7, <1>8, <1>9, <3>1, <3>2
  <2> QED
    BY <2>1, <2>2, <2>3, <2>4 DEF HostInv, DepositCreditedOnce, Kind
<1> QED
  BY <1>2, <1>7, <1>8, <1>11, <1>12, <1>13 DEF N, e

LEMMA SubmitOkKeeps ==
    ASSUME IngestInv, SubmitOk
    PROVE  IngestInv'
<1>1. /\ UNCHANGED <<world, chain, fork, disk, nextNonce, book, header, queue, cur>>
      /\ pc = "submit" /\ pc' = "record"
      /\ HostAdmits(Head(queue)) /\ HostApply(Head(queue))
  BY DEF SubmitOk, l1Vars, diskVars, memVars, scanVars
<1>2. /\ admitted' \in Seq(Admission) /\ HostInv' /\ DiskInv'
      /\ nextNonce = Len(admitted) /\ Len(admitted') = Len(admitted) + 1
      /\ \A k \in 0 .. Len(admitted) : Pairs(world, admitted', k) = Pairs(world, admitted, k)
      /\ admitted'[Len(admitted) + 1].event = Head(queue)
      /\ admitted'[Len(admitted) + 1].actor = ActorFor(Head(queue))
  BY <1>1, HostApplyKeeps
<1>3. IngestTypeOK'
  BY <1>1, <1>2 DEF IngestInv, IngestTypeOK
<1>4. /\ nextNonce \in 0 .. Len(admitted) /\ Len(admitted) \in Nat
      /\ Tells(world, admitted, disk, Len(disk), nextNonce)
      /\ BookOf(world, admitted, nextNonce, book)
  BY <1>1 DEF IngestInv, MemoryInv, IngestTypeOK
<1>5. /\ nextNonce \in 0 .. Len(admitted')
      /\ Tells(world, admitted', disk, Len(disk), nextNonce)
      /\ BookOf(world, admitted', nextNonce, book)
  BY <1>2, <1>4 DEF Tells, BookOf
<1>6. ActorFor(Head(queue))' = ActorFor(Head(queue))
  BY <1>1 DEF ActorFor, AddressOf, NextActorId
<1>7. MemoryInv'
  BY <1>1, <1>2, <1>5, <1>6 DEF MemoryInv
<1> QED
  BY <1>2, <1>3, <1>7 DEF IngestInv

LEMMA SubmitLostKeeps ==
    ASSUME IngestInv, SubmitLost
    PROVE  IngestInv'
<1>1. /\ UNCHANGED <<world, chain, fork, disk>> /\ pc = "submit" /\ Exit("transient")
      /\ \/ HostAdmits(Head(queue)) /\ HostApply(Head(queue))
         \/ UNCHANGED hostVars
  BY DEF SubmitLost, l1Vars, diskVars
<1>2. CASE UNCHANGED hostVars
  BY <1>1, <1>2, ExitStep DEF hostVars
<1>3. CASE HostAdmits(Head(queue)) /\ HostApply(Head(queue))
  <2>1. admitted' \in Seq(Admission) /\ HostInv' /\ DiskInv'
    BY <1>1, <1>3, HostApplyKeeps
  <2>2. IngestTypeOK'
    BY <1>1, <2>1, ExitForgets DEF IngestInv, IngestTypeOK
  <2> QED
    BY <1>1, <2>1, <2>2, ExitForgets DEF IngestInv
<1> QED
  BY <1>1, <1>2, <1>3

\* The Submitted record and the book take in the admitted action together.
LEMMA RecordSubmittedKeeps ==
    ASSUME IngestInv, RecordSubmitted
    PROVE  IngestInv'
<1> DEFINE R == Forwarded \cup Submitted \cup Confirmed
           e == Head(queue)
           A == AddressOf[e]
           id == ActorFor(e)
           fresh == {A} \ DOMAIN book
           given == {<<a, id>> : a \in fresh}
           N == nextNonce + 1
           r == [kind |-> "submitted", key |-> KeyOf(e), nextNonce |-> N, assigned |-> given]
           newBook == [a \in DOMAIN book \cup fresh |->
                          IF a \in DOMAIN book THEN book[a] ELSE id]
<1>1. /\ UNCHANGED <<world, chain, fork, hostNonce, admitted, header, cur>>
      /\ pc = "record" /\ pc' = "event" /\ nextNonce' = N /\ queue' = Tail(queue)
      /\ disk' = Append(disk, r) /\ book' = newBook
  BY Zenon DEF RecordSubmitted, l1Vars, hostVars
<1>2. /\ e \in Event /\ Tail(queue) \in Seq(Event) /\ disk \in Seq(R)
      /\ admitted \in Seq(Admission) /\ A \in Address /\ world \in Worlds
  BY Zenon, <1>1, HeadOfQueue, WorldTyped DEF IngestInv, IngestTypeOK
<1>3. /\ nextNonce \in Nat /\ Len(admitted) = N /\ N \in Nat
      /\ Tells(world, admitted, disk, Len(disk), nextNonce)
      /\ BookOf(world, admitted, nextNonce, book)
      /\ admitted[N].event = e /\ admitted[N].actor = id
  BY <1>1 DEF IngestInv, MemoryInv
<1>4. Pair(world, admitted[N]) = <<A, id>> /\ id \in Nat
  <2>1. admitted[N] \in Admission
    BY <1>2, <1>3
  <2> QED
    BY <1>3, <2>1 DEF Pair, AddressOf, Admission
<1>5. KeyOf(e) \in EventKey
  BY <1>2, KeyTyped DEF IngestInv
<1>6. /\ r \in Submitted /\ r.kind = "submitted" /\ r.nextNonce = N /\ r.assigned = given
  <2>1. given \in SUBSET (Address \X Nat)
    BY <1>2, <1>4
  <2> QED
    BY Zenon, <1>3, <1>5, <2>1 DEF Submitted
<1>7. A \in DOMAIN book => id = book[A]
  BY DEF ActorFor
<1>8. A \notin DOMAIN book => id = FirstActorId + Cardinality(DOMAIN book)
  BY DEF ActorFor, NextActorId
<1> HIDE DEF R, e, A, id, r
<1>9. Pairs(world, admitted, N) = Pairs(world, admitted, nextNonce) \cup {<<A, id>>}
  <2>1. 1 .. N = (1 .. nextNonce) \cup {N}
    BY <1>3
  <2> QED
    BY <1>4, <2>1 DEF Pairs
<1>10. Pairs(world, admitted, N) = Pairs(world, admitted, nextNonce) \cup given
  <2>1. CASE A \in DOMAIN book
    <3>1. <<A, id>> \in Pairs(world, admitted, nextNonce) /\ given = {}
      BY <1>3, <1>7, <2>1 DEF BookOf
    <3> QED
      BY <1>9, <3>1
  <2>2. CASE A \notin DOMAIN book
    BY <1>9, <2>2
  <2> QED
    BY SMTT(30), <2>1, <2>2
<1>11. /\ disk' \in Seq(R) /\ Len(disk') = Len(disk) + 1 /\ Len(disk) \in Nat
  BY <1>1, <1>2, <1>6 DEF R
<1>12. IngestTypeOK'
  BY <1>1, <1>2, <1>11 DEF IngestInv, IngestTypeOK, R
<1>13. Tells(world, admitted, disk', Len(disk) + 1, N)
  <2>1. SubmittedIn(disk', Len(disk) + 1) = SubmittedIn(disk, Len(disk)) \cup {r}
    <3>1. r \in R /\ disk \in Seq(R)
      BY <1>2, <1>6, Zenon DEF R
    <3>2. SubmittedIn(Append(disk, r), Len(disk) + 1) =
              SubmittedIn(disk, Len(disk)) \cup (IF r.kind = "submitted" THEN {r} ELSE {})
      BY <3>1, LastRecord, Zenon
    <3> QED
      BY <1>1, <1>6, <3>2, Zenon
  <2>2. Nonces(disk', Len(disk) + 1) = Nonces(disk, Len(disk)) \cup {N}
    BY <1>6, <2>1 DEF Nonces
  <2>3. Assigned(disk', Len(disk) + 1) = Assigned(disk, Len(disk)) \cup given
    BY <1>6, <2>1 DEF Assigned
  <2>4. 1 .. N = (1 .. nextNonce) \cup {N}
    BY <1>3
  <2> QED
    BY <1>3, <1>10, <2>2, <2>3, <2>4, Zenon DEF Tells
<1>14. DiskInv'
  <2> SUFFICES ASSUME NEW n \in 0 .. Len(disk) + 1
               PROVE  \E k \in 0 .. Len(admitted) : Tells(world, admitted, disk', n, k)
    BY <1>1, <1>11 DEF DiskInv
  <2>1. CASE n = Len(disk) + 1
    BY <1>3, <1>13, <2>1
  <2>2. CASE n # Len(disk) + 1
    <3>1. n \in 0 .. Len(disk)
      BY <1>11, <2>2
    <3>2. PICK k \in 0 .. Len(admitted) : Tells(world, admitted, disk, n, k)
      BY <3>1 DEF IngestInv, DiskInv
    <3>3. r \in R
      BY <1>6 DEF R
    <3>4. SubmittedIn(disk', n) = SubmittedIn(disk, n)
      BY <1>1, <1>2, <3>1, <3>3, LaterRecord
    <3> QED
      BY <3>2, <3>4 DEF Tells, Nonces, Assigned
  <2> QED
    BY <2>1, <2>2
<1>15. BookOf(world, admitted, N, newBook)
  <2>1. IsFiniteSet(DOMAIN book) /\ book \in [DOMAIN book -> Nat]
    BY <1>3 DEF BookOf
  <2>2. CASE A \in DOMAIN book
    <3>1. fresh = {} /\ newBook = book
      BY <2>1, <2>2
    <3>2. Pairs(world, admitted, N) = Pairs(world, admitted, nextNonce)
      BY <1>10, <3>1
    <3>3. BookOf(world, admitted, N, book)
      BY <1>3, <3>2, Zenon DEF BookOf
    <3> HIDE DEF newBook, N
    <3> QED
      BY <3>1, <3>3, Zenon
  <2>3. CASE A \notin DOMAIN book
    <3> DEFINE D == DOMAIN book
               c == Cardinality(D)
    <3>1. DOMAIN newBook = D \cup {A}
      BY <2>3
    <3>2. IsFiniteSet(D \cup {A}) /\ Cardinality(D \cup {A}) = c + 1 /\ c \in Nat
      BY <2>1, <2>3, FS_AddElement, FS_CardinalityType
    <3>3. newBook \in [D \cup {A} -> Nat]
      BY <1>4, <2>1, <2>3
    <3>4. /\ newBook[A] = id /\ \A a \in D : newBook[a] = book[a] /\ book[a] \in Nat
      BY <2>1, <2>3
    <3>5. \A a \in D : book[a] < FirstActorId + c
      BY <1>3 DEF BookOf
    <3>6. id = FirstActorId + c /\ FirstActorId \in Nat
      BY <1>8, <2>3, IngestConstants
    <3>7. {<<a, book[a]>> : a \in D} = Pairs(world, admitted, nextNonce)
      BY <1>3 DEF BookOf
    <3> HIDE DEF D, c, newBook
    <3>8. {<<a, newBook[a]>> : a \in D \cup {A}} = Pairs(world, admitted, N)
      BY <1>9, <3>4, <3>7
    <3>9. \A a \in D \cup {A} : newBook[a] < FirstActorId + (c + 1)
      BY <3>2, <3>4, <3>5, <3>6
    <3> QED
      BY SMTT(30), <3>1, <3>2, <3>3, <3>8, <3>9 DEF BookOf
  <2> QED
    BY <2>2, <2>3
<1> HIDE DEF newBook, N
<1>16. MemoryInv'
  <2>1. N \in 0 .. Len(admitted)
    BY <1>3 DEF N
  <2> QED
    BY <1>1, <1>11, <1>13, <1>15, <2>1 DEF MemoryInv
<1>17. HostInv'
  BY SMTT(30), <1>1 DEF IngestInv, HostInv, DepositCreditedOnce, Kind
<1> QED
  BY <1>12, <1>14, <1>16, <1>17 DEF IngestInv

-----------------------------------------------------------------------------
\* Restart.

LEMMA MaxUpTo ==
    ASSUME NEW k \in Nat
    PROVE  Max({0} \cup 1 .. k) = k
<1>1. \A x \in {0} \cup 1 .. k : k >= x
  OBVIOUS
<1>2. k \in {0} \cup 1 .. k /\ \A x \in {0} \cup 1 .. k : x >= k => x = k
  OBVIOUS
<1> QED
  BY <1>1, <1>2 DEF Max

\* What replay reads off the file is what its records tell.
LEMMA ReplayReads ==
    ASSUME IngestTypeOK, NEW k \in Nat, Tells(world, admitted, disk, Len(disk), k)
    PROVE  ReplayNonce = k /\ Assignments = Pairs(world, admitted, k)
<1>1. DOMAIN disk = 1 .. Len(disk)
  BY DEF IngestTypeOK
<1>2. Replayed({"submitted"}) = SubmittedIn(disk, Len(disk))
  BY <1>1 DEF Replayed, SubmittedIn
<1>3. {r.nextNonce : r \in Replayed({"submitted"})} = 1 .. k
  BY <1>2 DEF Tells, Nonces
<1>4. Assignments = Pairs(world, admitted, k)
  BY <1>2 DEF Tells, Assigned, Assignments
<1> QED
  BY Zenon, <1>3, <1>4, MaxUpTo DEF ReplayNonce

\* StateStore::replay rebuilds the book of the actions it has records of.
LEMMA ReplayedBook ==
    ASSUME IngestInv, ~ Malformed, NEW k \in 0 .. Len(admitted),
           Assignments = Pairs(world, admitted, k)
    PROVE  BookOf(world, admitted, k, ReplayBook)
<1> DEFINE P == Pairs(world, admitted, k)
           D == {p[1] : p \in P}
           b == [a \in D |-> (CHOOSE p \in P : p[1] = a)[2]]
<1>1. /\ admitted \in Seq(Admission) /\ 1 .. k \subseteq DOMAIN admitted
      /\ k \in Nat /\ world \in Worlds
  BY DEF IngestInv, IngestTypeOK
<1>2. ReplayBook = b
  BY DEF ReplayBook
<1>3. \A i \in 1 .. k : admitted[i].actor \in Nat
  <2>1. \A i \in 1 .. k : admitted[i] \in Admission
    BY <1>1
  <2> QED
    BY <2>1 DEF Admission
<1>4. \A p \in P : p = <<p[1], p[2]>> /\ p[2] \in Nat
  BY <1>3 DEF Pairs, Pair
<1>5. \A p, q \in P : p[1] = q[1] => p[2] = q[2]
  BY SMTT(30), <1>1 DEF IngestInv, HostInv, Pairs, Pair
<1>6. IsFiniteSet(D)
  <2> DEFINE f == [i \in 1 .. k |-> Pair(world, admitted[i])[1]]
  <2>1. IsFiniteSet(1 .. k)
    BY <1>1, FS_Interval
  <2>2. f \in Surjection(1 .. k, D)
    BY DEF Surjection, Pairs
  <2> HIDE DEF f, D
  <2> QED
    BY <2>1, <2>2, FS_Surjection
<1>7. {p[2] : p \in P} = FirstActorId .. FirstActorId + Cardinality(D) - 1
  BY Zenon DEF Malformed
<1> HIDE DEF P
<1>8. \A a \in D : \E p \in P : p[1] = a /\ b[a] = p[2]
  BY Zenon
<1>9. DOMAIN b = D
  OBVIOUS
<1> HIDE DEF b, D
<1>10. \A a \in D : <<a, b[a]>> \in P /\ b[a] \in Nat
  BY <1>4, <1>8
<1>11. P \subseteq {<<a, b[a]>> : a \in D}
  <2> SUFFICES ASSUME NEW p \in P PROVE p \in {<<a, b[a]>> : a \in D}
    OBVIOUS
  <2>1. p[1] \in D
    BY DEF D
  <2>2. b[p[1]] = p[2]
    BY <1>5, <1>8, <2>1
  <2> QED
    BY <1>4, <2>1, <2>2
<1>12. {<<a, b[a]>> : a \in D} = P
  BY <1>10, <1>11
<1>13. \A a \in D : b[a] < FirstActorId + Cardinality(D)
  <2>1. Cardinality(D) \in Nat /\ FirstActorId \in Nat
    BY <1>6, FS_CardinalityType, IngestConstants
  <2>2. \A a \in D : b[a] \in FirstActorId .. FirstActorId + Cardinality(D) - 1
    BY <1>7, <1>8
  <2> QED
    BY <2>1, <2>2
<1>14. b \in [D -> Nat]
  BY <1>10, Zenon DEF b
<1>15. BookOf(world, admitted, k, b)
  BY <1>6, <1>9, <1>12, <1>13, <1>14, Zenon DEF BookOf, P
<1> QED
  BY <1>2, <1>15

LEMMA RestartKeeps ==
    ASSUME IngestInv, Restart
    PROVE  IngestInv'
<1>1. /\ UNCHANGED <<world, chain, fork, hostNonce, admitted, disk, header, queue, cur>>
      /\ pc = "down" /\ pc' = "idle" /\ ~ Malformed
      /\ nextNonce' = ReplayNonce /\ book' = ReplayBook
  BY DEF Restart, l1Vars, hostVars, diskVars, scanVars
<1>2. IngestTypeOK'
  BY <1>1 DEF IngestInv, IngestTypeOK
<1>3. Len(disk) \in 0 .. Len(disk) /\ Len(admitted) \in Nat
  BY DEF IngestInv, IngestTypeOK
<1>4. PICK k \in 0 .. Len(admitted) : Tells(world, admitted, disk, Len(disk), k)
  BY <1>3 DEF IngestInv, DiskInv
<1>5. ReplayNonce = k /\ Assignments = Pairs(world, admitted, k)
  BY <1>3, <1>4, ReplayReads DEF IngestInv
<1>6. BookOf(world, admitted, k, ReplayBook)
  BY <1>1, <1>5, ReplayedBook
<1>7. MemoryInv'
  BY <1>1, <1>4, <1>5, <1>6 DEF MemoryInv
<1> QED
  BY <1>1, <1>2, <1>7, HostAndDiskKept DEF IngestInv

-----------------------------------------------------------------------------
LEMMA IngestInit == Init => IngestInv
<1> SUFFICES ASSUME Init PROVE IngestInv
  OBVIOUS
<1>1. IngestTypeOK
  <2>1. NoHeader \in Header
    BY DEF NoHeader, Header
  <2> QED
    BY <2>1 DEF Init, IngestTypeOK
<1>2. /\ admitted = <<>> /\ disk = <<>> /\ Len(admitted) = 0 /\ Len(disk) = 0
      /\ DOMAIN admitted = {} /\ book = <<>> /\ DOMAIN book = {}
      /\ pc = "idle" /\ nextNonce = 0 /\ hostNonce = 0
  BY DEF Init
<1>3. HostInv
  BY <1>2 DEF HostInv, DepositCreditedOnce
<1>4. Tells(world, admitted, disk, 0, 0)
  <2>1. SubmittedIn(disk, 0) = {} /\ 1 .. 0 = {}
    BY DEF SubmittedIn
  <2> QED
    BY <2>1 DEF Tells, Nonces, Assigned, Pairs
<1>5. DiskInv
  BY <1>2, <1>4 DEF DiskInv
<1>6. BookOf(world, admitted, 0, book)
  <2>1. IsFiniteSet({}) /\ Pairs(world, admitted, 0) = {}
    BY FS_EmptySet DEF Pairs
  <2> QED
    BY <1>2, <2>1 DEF BookOf
<1>7. MemoryInv
  BY <1>2, <1>4, <1>6 DEF MemoryInv
<1> QED
  BY <1>1, <1>3, <1>5, <1>7 DEF IngestInv

LEMMA IngestStep == IngestInv /\ [Next]_vars => IngestInv'
<1> SUFFICES ASSUME IngestInv, [Next]_vars PROVE IngestInv'
  OBVIOUS
<1>1. CASE UNCHANGED vars
  <2>1. UNCHANGED <<world, chain, fork, hostNonce, admitted, disk, nextNonce, book,
                    header, queue, cur, pc>>
    BY <1>1 DEF vars, l1Vars, hostVars, diskVars, memVars, scanVars
  <2>2. IngestTypeOK'
    BY <2>1 DEF IngestInv, IngestTypeOK
  <2>3. MemoryInv'
    BY <2>1 DEF IngestInv, MemoryInv, ActorFor, AddressOf, NextActorId
  <2> QED
    BY <2>1, <2>2, <2>3, HostAndDiskKept DEF IngestInv
<1>2. CASE WatcherStep
  BY <1>2, StartIterationKeeps, FetchHeaderKeeps, FetchLogsKeeps, SkipOrBeginKeeps,
     RecordNoActionKeeps, EndsKeep, RecordSubmittedKeeps, ConfirmBlockKeeps, RestartKeeps
     DEF WatcherStep
<1> QED
  BY <1>1, <1>2, ChainStep, SubmitOkKeeps, SubmitBusyKeeps, SubmitLostKeeps, EndsKeep,
     HardCrashKeeps, RepairKeeps DEF Next

\* Every prefix of the state file and the memory of a running watcher say what
\* the host has admitted, up to some number of actions.
THEOREM IngestInvariant == Spec => []IngestInv
BY IngestInit, IngestStep, PTL DEF Spec

\* One address, one actor id, on the host and in the watcher's book, whatever
\* is killed, lost or replayed (preview / commit_assignment and StateStore::replay).
THEOREM IdsAreStable == Spec => []OneIdPerAddress
<1>1. IngestInv => OneIdPerAddress
  <2> SUFFICES ASSUME IngestInv PROVE OneIdPerAddress
    OBVIOUS
  <2> DEFINE H == {<<AddressOf[a.event], a.actor>> : a \in ToSet(admitted)}
             B == {<<a, book[a]>> : a \in DOMAIN book}
  <2>1. \A p \in H : \E i \in DOMAIN admitted : p = Pair(world, admitted[i])
    BY DEF ToSet, Pair, AddressOf
  <2>2. B \subseteq H
    <3>1. CASE pc = "down"
      <4>1. book = <<>>
        BY <3>1, Zenon DEF IngestInv, MemoryInv
      <4>2. DOMAIN book = {}
        BY <4>1
      <4> QED
        BY <4>2, Zenon
    <3>2. CASE pc # "down"
      <4>1. B = Pairs(world, admitted, nextNonce) /\ 1 .. nextNonce \subseteq DOMAIN admitted
        BY <3>2 DEF IngestInv, MemoryInv, BookOf, IngestTypeOK
      <4> QED
        BY Zenon, <4>1 DEF Pairs, Pair, ToSet, AddressOf
    <3> QED
      BY <3>1, <3>2
  <2> HIDE DEF H, B
  <2>3. \A p, q \in H : p[2] >= FirstActorId /\ (p[1] = q[1] <=> p[2] = q[2])
    BY SMTT(30), <2>1 DEF IngestInv, HostInv, Pair
  <2>4. \A p, q \in H \cup B : p[2] >= FirstActorId /\ (p[1] = q[1] <=> p[2] = q[2])
    BY <2>2, <2>3
  <2> QED
    BY Zenon, <2>4 DEF OneIdPerAddress, H, B
<1> QED
  BY <1>1, IngestInvariant, PTL

\* No deposit is credited twice, even when a re-org deeper than the confirmation
\* depth and a restart make the watcher forward it again (BridgeAdmissibleWith).
THEOREM DepositsAreCreditedOnce == Spec => []DepositCreditedOnce
<1>1. IngestInv => DepositCreditedOnce
  BY Zenon DEF IngestInv, HostInv
<1> QED
  BY <1>1, IngestInvariant, PTL

=============================================================================
