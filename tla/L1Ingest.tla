------------------------------ MODULE L1Ingest ------------------------------
(***************************************************************************)
(* knomosis-l1-ingest: the watcher that follows the L1 chain at a          *)
(* confirmation depth and forwards bridge and identity events to the host  *)
(* as signed actions, its re-org window and its JSONL state file.          *)
(*                                                                         *)
(* A step of the watcher ends at each call to the outside (RPC, submit,    *)
(* append), so the chain, the host and a crash come in between.  Blocks    *)
(* are numbered from 1 and 0 stands for `None`.  A block's hash is its     *)
(* number and the fork it was mined on.                                    *)
(***************************************************************************)
EXTENDS Integers, SequencesExt, FiniteSetsExt

CONSTANTS
    Event,                \* L1 log entries, named by (tx_hash, log_index)
    Address,
    ConfirmationDepth,    \* confirmation_depth
    WindowCapacity,       \* reorg_window_capacity
    BlocksPerIteration,   \* blocks_per_iteration
    MaterialiseDeposits,  \* materialise_deposits
    FirstActorId,         \* INITIAL_NEXT_ACTOR_ID
    Worlds,               \* the environments a behaviour may be in: see world
    MaxReorgs,            \* bound: number of re-orgs
    OperatorRestarts      \* environment: an operator-action exit is restarted

ASSUME IngestConstants ==
    /\ Event \subseteq Nat
    /\ ConfirmationDepth \in Nat
    /\ WindowCapacity \in Nat \ {0}
    /\ BlocksPerIteration \in Nat \ {0}
    /\ FirstActorId \in Nat
    /\ \A w \in Worlds :
         /\ w.kind \in [Event -> {"register", "deposit", "revoke"}]
         /\ w.addressOf \in [Event -> Address]
         /\ w.faults \subseteq {"kill", "hardCrash", "lostResponse", "source"}
         /\ w.maxFaults \in Nat /\ w.maxRetries \in Nat
         /\ w.maxHeight \in Nat /\ w.shallow \in BOOLEAN

VARIABLES
    world,            \* the events, max_retries, and what may go wrong; never changes
    \* the L1 chain (external)
    chain,            \* sequence of [fork, log], log a sequence of events
    fork,             \* the fork new blocks are mined on
    floor,            \* the highest block ever buried by ConfirmationDepth
    \* the host (LegalKernel's admission)
    hostNonce,        \* expectsNonce of the bridge actor
    admitted,         \* the admitted actions, in order
    \* the state file
    disk,             \* the records, in order
    torn,             \* the last line is truncated
    \* the watcher's memory
    pc,
    lastConfirmed,    \* last_confirmed_block
    nextNonce,        \* next_nonce
    forwarded,        \* forwarded-key set
    book,             \* address_book: [assigned addresses -> actor id]
    window,           \* reorg_window
    cur, endBlock,    \* the block range of the iteration
    header,           \* the header fetched for cur
    queue,            \* logs of cur still to be processed
    retries,
    lastExit,         \* how the process last ended
    faults

l1Vars == <<world, chain, fork, floor>>
hostVars == <<hostNonce, admitted>>
diskVars == <<disk, torn>>
memVars == <<lastConfirmed, nextNonce, forwarded, book>>
scanVars == <<cur, endBlock, header, queue, retries>>
vars == <<l1Vars, hostVars, diskVars, memVars, window, scanVars, pc, lastExit, faults>>

Kind == world.kind
AddressOf == world.addressOf
MaxRetries == world.maxRetries
Faults == world.faults              \* the kinds of fault that happen
MaxFaults == world.maxFaults        \* bound on their number
MaxHeight == world.maxHeight        \* bound on the length of the chain
ShallowReorgsOnly == world.shallow  \* no re-org below a confirmed block

NoHeader == [number |-> 0, fork |-> 0, parent |-> 0]

-----------------------------------------------------------------------------
\* The chain.

Log(n) == chain[n].log
OnChain == UNION {ToSet(Log(n)) : n \in DOMAIN chain}

\* What a new block may carry: at most two events, by log index.
BlockLogs ==
    {log \in UNION {[1 .. n -> Event \ OnChain] : n \in 0 .. 2} :
        \A i, j \in DOMAIN log : i < j => log[i] < log[j]}

Mine(log) ==
    /\ Len(chain) < MaxHeight
    /\ chain' = Append(chain, [fork |-> fork, log |-> log])
    /\ floor' = Max({floor, Len(chain') - ConfirmationDepth})
    /\ UNCHANGED <<world, fork, hostVars, diskVars, memVars, window, scanVars, pc,
                   lastExit, faults>>

Reorg(n) ==
    /\ fork < MaxReorgs
    /\ n < Len(chain)
    /\ ShallowReorgsOnly => n >= floor
    /\ chain' = SubSeq(chain, 1, n)
    /\ fork' = fork + 1
    /\ UNCHANGED <<world, floor, hostVars, diskVars, memVars, window, scanVars, pc,
                   lastExit, faults>>

HeaderOf(n) ==
    [number |-> n, fork |-> chain[n].fork,
     parent |-> IF n = 1 THEN 0 ELSE chain[n - 1].fork]

-----------------------------------------------------------------------------
\* reorg.rs: the window of recent headers.

\* The positions holding the parent of h.
Parents(w, h) ==
    {i \in DOMAIN w : w[i].number + 1 = h.number /\ w[i].fork = h.parent}

\* advance() returns Ok: a gap, an unknown parent and a block at or below the
\* floor of the window are errors.
Advances(w, h) ==
    w # <<>> => h.number > w[1].number /\ Parents(w, h) # {}

\* A linear extension when the parent is the head; otherwise a shallow re-org,
\* which drops the headers after the parent.
Advance(w, h) ==
    IF w = <<>> THEN <<h>>
    ELSE LET kept == Append(SubSeq(w, 1, Max(Parents(w, h))), h)
         IN  IF Len(kept) > WindowCapacity THEN Tail(kept) ELSE kept

-----------------------------------------------------------------------------
\* translation.rs and the state file.

Emits(e) == Kind[e] = "register" \/ (Kind[e] = "deposit" /\ MaterialiseDeposits)

NextActorId == FirstActorId + Cardinality(DOMAIN book)

\* preview_ingest and preview_ingest_materialising: a known address keeps its
\* id, a new one is offered the next id without committing it.
ActorFor(e) ==
    IF AddressOf[e] \in DOMAIN book THEN book[AddressOf[e]] ELSE NextActorId

ActionKind(e) ==
    IF Kind[e] = "register" /\ AddressOf[e] \in DOMAIN book THEN "replaceKey" ELSE Kind[e]

KeyOf(e) == [number |-> header.number, fork |-> header.fork, event |-> e]

Replayed(kinds) == {disk[i] : i \in {j \in DOMAIN disk : disk[j].kind \in kinds}}
ReplayForwarded == {r.key : r \in Replayed({"forwarded", "submitted"})}

\* Fault: the nonce is the number of forwarded keys.
ReplayNonceFromForwarded == Cardinality(ReplayForwarded)

ReplayNonce == Max({0} \cup {r.nextNonce : r \in Replayed({"submitted"})})
ReplayConfirmed ==
    LET marks == {i \in DOMAIN disk : disk[i].kind = "confirmed"}
    IN  IF marks = {} THEN 0 ELSE disk[Max(marks)].block
Assignments == UNION {r.assigned : r \in Replayed({"submitted"})}
ReplayBook ==
    [a \in {p[1] : p \in Assignments} |-> (CHOOSE p \in Assignments : p[1] = a)[2]]

\* StateStore::replay fails: a truncated line, one id for two addresses, or ids
\* that are not the ones a fresh book would hand out in order.
Malformed ==
    \/ torn
    \/ \E p, q \in Assignments : p[2] = q[2] /\ p # q
    \/ {p[2] : p \in Assignments}
         # FirstActorId .. FirstActorId + Cardinality({p[1] : p \in Assignments}) - 1

-----------------------------------------------------------------------------
\* The host: LegalKernel's AdmissibleWith (the nonce) and BridgeAdmissibleWith
\* (deposit ids, first registrations) for the bridge actor.

\* Fault: deposit ids are not checked against the consumed set.
HostAdmitsAnyDeposit(e) ==
    /\ nextNonce = hostNonce
    /\ ActionKind(e) = "register"
         => \A a \in ToSet(admitted) : a.kind # "deposit" => a.actor # ActorFor(e)

HostAdmits(e) ==
    LET past == ToSet(admitted)
    IN  /\ nextNonce = hostNonce
        /\ ActionKind(e) = "deposit"
             => \A a \in past : a.kind = "deposit" => a.event # e
        /\ ActionKind(e) = "register"
             => \A a \in past : a.kind # "deposit" => a.actor # ActorFor(e)

HostApply(e) ==
    /\ hostNonce' = hostNonce + 1
    /\ admitted' = Append(admitted,
                          [event |-> e, kind |-> ActionKind(e), actor |-> ActorFor(e)])

-----------------------------------------------------------------------------
\* The process ends: memory is lost.  classify_error names the exit code.

Exit(code) ==
    /\ pc' = "down"
    /\ lastExit' = code
    /\ lastConfirmed' = 0 /\ nextNonce' = 0 /\ forwarded' = {} /\ book' = <<>>
    /\ window' = <<>>
    /\ cur' = 0 /\ endBlock' = 0 /\ header' = NoHeader /\ queue' = <<>> /\ retries' = 0

Fault(kind) ==
    /\ kind \in Faults
    /\ faults < MaxFaults
    /\ faults' = faults + 1

-----------------------------------------------------------------------------
\* watcher.rs.

\* Fault: forwards from a block one short of the confirmation depth.
ConfirmedHeadEarly == Len(chain) - ConfirmationDepth + 1

ConfirmedHead == Len(chain) - ConfirmationDepth

\* run_iteration up to the loop; when there is nothing to do it only sleeps.
StartIteration ==
    /\ pc = "idle"
    /\ lastConfirmed < ConfirmedHead
    /\ cur' = lastConfirmed + 1
    /\ endBlock' = Min({ConfirmedHead, lastConfirmed + BlocksPerIteration})
    /\ pc' = "header"
    /\ UNCHANGED <<l1Vars, hostVars, diskVars, memVars, window, header, queue,
                   retries, lastExit, faults>>

\* process_block, step 1: an error of the source is transient, a header the
\* window refuses needs the operator.
FetchHeader ==
    /\ pc = "header"
    /\ \/ /\ cur \in DOMAIN chain
          /\ Advances(window, HeaderOf(cur))
          /\ window' = Advance(window, HeaderOf(cur))
          /\ header' = HeaderOf(cur)
          /\ pc' = "logs"
          /\ UNCHANGED <<memVars, cur, endBlock, queue, retries, lastExit>>
       \/ /\ cur \in DOMAIN chain
          /\ ~ Advances(window, HeaderOf(cur))
          /\ Exit("operator")
       \/ /\ cur \notin DOMAIN chain
          /\ Exit("transient")
    /\ UNCHANGED <<l1Vars, hostVars, diskVars, faults>>

\* Step 2: the logs are asked for by hash, so a block that is no longer on the
\* chain is an error.
FetchLogs ==
    /\ pc = "logs"
    /\ IF cur \in DOMAIN chain /\ HeaderOf(cur) = header
       THEN /\ queue' = Log(cur)
            /\ pc' = "event"
            /\ UNCHANGED <<memVars, window, cur, endBlock, header, retries, lastExit>>
       ELSE Exit("transient")
    /\ UNCHANGED <<l1Vars, hostVars, diskVars, faults>>

SourceFails ==
    /\ pc \in {"header", "logs"}
    /\ Fault("source")
    /\ Exit("transient")
    /\ UNCHANGED <<l1Vars, hostVars, diskVars>>

\* process_event, the early return for a key already forwarded.
SkipForwarded ==
    /\ pc = "event"
    /\ queue # <<>>
    /\ KeyOf(Head(queue)) \in forwarded
    /\ queue' = Tail(queue)
    /\ UNCHANGED <<l1Vars, hostVars, diskVars, memVars, window, cur, endBlock,
                   header, retries, pc, lastExit, faults>>

\* process_event, Translated::NoAction.
RecordNoAction ==
    /\ pc = "event"
    /\ queue # <<>>
    /\ LET key == KeyOf(Head(queue))
       IN  /\ key \notin forwarded
           /\ ~ Emits(Head(queue))
           /\ forwarded' = forwarded \cup {key}
           /\ disk' = Append(disk, [kind |-> "forwarded", key |-> key])
    /\ queue' = Tail(queue)
    /\ UNCHANGED <<l1Vars, hostVars, torn, lastConfirmed, nextNonce, book, window,
                   cur, endBlock, header, retries, pc, lastExit, faults>>

\* process_event, an action to sign and submit.
BeginSubmit ==
    /\ pc = "event"
    /\ queue # <<>>
    /\ KeyOf(Head(queue)) \notin forwarded
    /\ Emits(Head(queue))
    /\ pc' = "submit"
    /\ retries' = 0
    /\ UNCHANGED <<l1Vars, hostVars, diskVars, memVars, window, cur, endBlock,
                   header, queue, lastExit, faults>>

SubmitOk ==
    /\ pc = "submit"
    /\ HostAdmits(Head(queue))
    /\ HostApply(Head(queue))
    /\ pc' = "record"
    /\ UNCHANGED <<l1Vars, diskVars, memVars, window, scanVars, lastExit, faults>>

SubmitRejected ==
    /\ pc = "submit"
    /\ ~ HostAdmits(Head(queue))
    /\ Exit("operator")
    /\ UNCHANGED <<l1Vars, hostVars, diskVars, faults>>

\* Verdict::Busy: the host did not look at the action; retry up to the budget.
SubmitBusy ==
    /\ pc = "submit"
    /\ \/ /\ retries < MaxRetries
          /\ retries' = retries + 1
          /\ UNCHANGED <<memVars, window, cur, endBlock, header, queue, pc, lastExit>>
       \/ /\ retries = MaxRetries
          /\ Exit("transient")
    /\ UNCHANGED <<l1Vars, hostVars, diskVars, faults>>

\* SubmitError::Transport: the connection fails before or after the host has
\* applied the action.
SubmitLost ==
    /\ pc = "submit"
    /\ Fault("lostResponse")
    /\ \/ HostAdmits(Head(queue)) /\ HostApply(Head(queue))
       \/ UNCHANGED hostVars
    /\ Exit("transient")
    /\ UNCHANGED <<l1Vars, diskVars>>

\* Fault: the record does not carry the address assignment.
RecordWithoutAssignment ==
    /\ pc = "record"
    /\ LET e == Head(queue)
       IN  /\ disk' = Append(disk, [kind |-> "submitted", key |-> KeyOf(e),
                                    nextNonce |-> nextNonce + 1, assigned |-> {}])
           /\ book' = [a \in DOMAIN book \cup {AddressOf[e]} |->
                          IF a \in DOMAIN book THEN book[a] ELSE ActorFor(e)]
           /\ forwarded' = forwarded \cup {KeyOf(e)}
    /\ nextNonce' = nextNonce + 1
    /\ queue' = Tail(queue)
    /\ pc' = "event"
    /\ UNCHANGED <<l1Vars, hostVars, torn, lastConfirmed, window, cur, endBlock,
                   header, retries, lastExit, faults>>

\* After Verdict::Ok: one Submitted record, then the same effects in memory.
RecordSubmitted ==
    /\ pc = "record"
    /\ LET e == Head(queue)
           fresh == {AddressOf[e]} \ DOMAIN book
       IN  /\ disk' = Append(disk, [kind |-> "submitted", key |-> KeyOf(e),
                                    nextNonce |-> nextNonce + 1,
                                    assigned |-> {<<a, ActorFor(e)>> : a \in fresh}])
           /\ book' = [a \in DOMAIN book \cup fresh |->
                          IF a \in DOMAIN book THEN book[a] ELSE ActorFor(e)]
           /\ forwarded' = forwarded \cup {KeyOf(e)}
    /\ nextNonce' = nextNonce + 1
    /\ queue' = Tail(queue)
    /\ pc' = "event"
    /\ UNCHANGED <<l1Vars, hostVars, torn, lastConfirmed, window, cur, endBlock,
                   header, retries, lastExit, faults>>

\* run_iteration, after process_block returned.
ConfirmBlock ==
    /\ pc = "event"
    /\ queue = <<>>
    /\ disk' = Append(disk, [kind |-> "confirmed", block |-> cur])
    /\ lastConfirmed' = cur
    /\ IF cur = endBlock
       THEN pc' = "idle" /\ UNCHANGED cur
       ELSE pc' = "header" /\ cur' = cur + 1
    /\ UNCHANGED <<l1Vars, hostVars, torn, nextNonce, forwarded, book, window,
                   endBlock, header, queue, retries, lastExit, faults>>

-----------------------------------------------------------------------------
\* Crashes and restarts.

\* The process is killed; what it wrote stays in the page cache.
Kill ==
    /\ pc # "down"
    /\ Fault("kill")
    /\ Exit("kill")
    /\ UNCHANGED <<l1Vars, hostVars, diskVars>>

\* The machine stops: append flushes without fsync, so a suffix of the records
\* is lost and the first lost line may be left truncated.
HardCrash(kept) ==
    /\ pc # "down"
    /\ Fault("hardCrash")
    /\ disk' = SubSeq(disk, 1, kept)
    /\ torn' \in (IF kept < Len(disk) THEN BOOLEAN ELSE {FALSE})
    /\ Exit("kill")
    /\ UNCHANGED <<l1Vars, hostVars>>

\* WatcherLoop::new.  The re-org window starts empty.
Restart ==
    /\ pc = "down"
    /\ lastExit = "operator" => OperatorRestarts
    /\ ~ Malformed
    /\ pc' = "idle"
    /\ lastConfirmed' = ReplayConfirmed
    /\ nextNonce' = ReplayNonce
    /\ forwarded' = ReplayForwarded
    /\ book' = ReplayBook
    /\ UNCHANGED <<l1Vars, hostVars, diskVars, window, scanVars, lastExit, faults>>

\* External: the operator removes the truncated line replay refuses.
RepairStateFile ==
    /\ pc = "down"
    /\ torn
    /\ torn' = FALSE
    /\ UNCHANGED <<l1Vars, hostVars, disk, memVars, window, scanVars, pc, lastExit,
                   faults>>

-----------------------------------------------------------------------------
Init ==
    /\ world \in Worlds
    /\ chain = <<>> /\ fork = 0 /\ floor = 0
    /\ hostNonce = 0 /\ admitted = <<>>
    /\ disk = <<>> /\ torn = FALSE
    /\ pc = "idle" /\ lastExit = "none" /\ faults = 0
    /\ lastConfirmed = 0 /\ nextNonce = 0 /\ forwarded = {} /\ book = <<>>
    /\ window = <<>>
    /\ cur = 0 /\ endBlock = 0 /\ header = NoHeader /\ queue = <<>> /\ retries = 0

Mining == \E log \in BlockLogs : Mine(log)

WatcherStep ==
    \/ StartIteration \/ FetchHeader \/ FetchLogs
    \/ SkipForwarded \/ RecordNoAction \/ BeginSubmit
    \/ SubmitRejected \/ RecordSubmitted \/ ConfirmBlock
    \/ Restart

Next ==
    \/ Mining
    \/ \E n \in 0 .. Len(chain) : Reorg(n)
    \/ WatcherStep
    \/ SubmitOk \/ SubmitBusy \/ SubmitLost \/ SourceFails
    \/ Kill
    \/ \E kept \in 0 .. Len(disk) : HardCrash(kept)
    \/ RepairStateFile

Spec == Init /\ [][Next]_vars

\* The chain keeps growing, the process keeps running and is restarted, and the
\* host does not answer Busy for ever.
FairSpec ==
    /\ Spec
    /\ WF_vars(Mining)
    /\ WF_vars(WatcherStep)
    /\ SF_vars(SubmitOk)

-----------------------------------------------------------------------------
\* The events of the first n blocks that become actions, in chain order.
ActionEvents(n) ==
    SelectSeq(FlattenSeq([i \in 1 .. n |-> Log(i)]), Emits)

AdmittedEvents == [i \in DOMAIN admitted |-> admitted[i].event]

\* While re-orgs stay above the confirmation depth, what the host has admitted
\* is a prefix of the chain's events in chain order, whatever kills, lost
\* responses, lost records and Busy verdicts happen: no event is forwarded
\* twice, out of order, or before an earlier one, and a block the state file
\* marks as confirmed, after which a restart resumes, has all its actions
\* admitted (process_event's nonce and Submitted record, run_iteration's
\* Confirmed record).
AdmittedIsPrefix ==
    ShallowReorgsOnly =>
        /\ IsPrefix(AdmittedEvents, ActionEvents(Len(chain)))
        /\ ReplayConfirmed <= Len(chain)
        /\ ToSet(ActionEvents(ReplayConfirmed)) \subseteq ToSet(AdmittedEvents)

\* One address, one actor id: no two admitted actions give one address two ids
\* or two addresses one id, none gets a reserved id, and the book the watcher
\* works with agrees with the host (preview / commit_assignment, replay).
OneIdPerAddress ==
    LET pairs == {<<AddressOf[a.event], a.actor>> : a \in ToSet(admitted)}
                   \cup {<<a, book[a]>> : a \in DOMAIN book}
    IN  \A p, q \in pairs : p[2] >= FirstActorId /\ (p[1] = q[1] <=> p[2] = q[2])

\* A deposit is credited once, even when a re-org below the confirmation depth
\* and a restart make the watcher forward it again under a new block hash: the
\* content-derived deposit id and the host's consumed set refuse it.
DepositCreditedOnce ==
    \A i, j \in DOMAIN admitted :
        admitted[i].kind = "deposit" /\ admitted[i].event = admitted[j].event => i = j

\* No L1 event becomes an admitted action twice (the forwarded-event ledger).
\* TLC refutes it: a key rotation is forwarded again after a deep re-org.
EventForwardedOnce ==
    \A i, j \in DOMAIN admitted : admitted[i].event = admitted[j].event => i = j

Buried(e) == \E n \in 1 .. Min({floor, Len(chain)}) : e \in ToSet(Log(n))

\* Every buried event that translates to an action has been admitted by the host.
CaughtUp == \A e \in Event : Emits(e) /\ Buried(e) => e \in ToSet(AdmittedEvents)

\* Every event buried by the confirmation depth that translates to an action is
\* eventually admitted by the host (a buried event stays buried and an admitted
\* one admitted, so catching up again and again leaves none behind).
BuriedEventsForwarded == []<>CaughtUp

\* The same, where nothing but requests to the L1 node fails: the retries and the
\* restarts of run_iteration lose no event and never stay behind for ever.
ForwardedWhenSourceFails == []<>(world.faults \subseteq {"source"} => CaughtUp)

=============================================================================
