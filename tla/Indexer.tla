------------------------------ MODULE Indexer ------------------------------
(***************************************************************************)
(* knomosis-indexer: a daemon that subscribes to the event stream, gathers *)
(* the events of one seq into a batch, and applies the batch to its views  *)
(* in one SQLite transaction whose last write is the cursor.               *)
(*                                                                         *)
(* It is composed with the server of EventSubscribe: the stream it reads   *)
(* is what the server has written to the connection Link, and it           *)
(* subscribes with its own cursor.  A batch is known to be complete only   *)
(* when an event of a later seq arrives.                                   *)
(*                                                                         *)
(* In a behaviour whose consumer is "any", Link belongs to the arbitrary   *)
(* client of EventSubscribe and the indexer does not run.                  *)
(***************************************************************************)
EXTENDS EventSubscribe

CONSTANTS
    Consumers,        \* a subset of {"any", "indexer"}
    Link,
    Account,          \* the (actor, resource) cells
    EventOf,          \* [Events -> event]: the payload of each event
    MaxBatchEvents,   \* INDEXER_MAX_BATCH_EVENTS
    PoolActor,        \* the pool of the deployment's gas events
    DrainsPool,       \* --gas-pool-actor is given, and is PoolActor
    EpochLength,      \* --epoch-length, 0: epochs are disabled
    BaseEpoch,        \* the kernel's epoch at the start of the log
    FreeTier,         \* the deployment's free tier, as query-budget is given it
    AmountMax,        \* the largest Amount
    MaxReconnects,    \* --max-reconnects, 0: no limit
    MaxStarts,        \* bound: starts of the daemon
    MaxMishaps        \* bound: crashes, failed links and commits, other writers

EventKind == {"set", "credit", "debit", "grant", "claim", "consume", "other"}

ASSUME IndexerConstants ==
    /\ Consumers \subseteq {"any", "indexer"} /\ Link \in Client
    /\ EventOf \in [Events -> [kind : EventKind, actor : Account, amount : Nat, pool : Nat]]
    /\ MaxBatchEvents \in Nat \ {0} /\ PoolActor \in Account /\ DrainsPool \in BOOLEAN
    /\ EpochLength \in Nat /\ BaseEpoch \in Nat \ {0} /\ FreeTier \in Nat /\ AmountMax \in Nat
    /\ MaxReconnects \in Nat

VARIABLES
    consumer,   \* who uses Link; never changes
    db,         \* the SQLite file: cursor, views, and (history) the batches
                \* applied and whether a second daemon wrote
    ix,         \* the daemon process
    starts,
    mishaps

daemonVars == <<consumer, db, ix, starts, mishaps>>
allVars == <<vars, daemonVars>>

-----------------------------------------------------------------------------
\* The views, and what a batch does to them.  ok turns FALSE when an update
\* overflows or underflows, which rolls the transaction back.

Zero == [a \in Account |-> 0]
NoViews == [ok |-> TRUE, epoch |-> 0, balance |-> Zero, budget |-> Zero, grants |-> Zero,
            consumed |-> Zero, pool |-> Zero]

Credit(v, table, a, n) ==
    IF v[table][a] + n <= AmountMax THEN [v EXCEPT ![table][a] = @ + n]
                                    ELSE [v EXCEPT !.ok = FALSE]
Debit(v, table, a, n) ==
    IF n <= v[table][a] THEN [v EXCEPT ![table][a] = @ - n] ELSE [v EXCEPT !.ok = FALSE]

\* The kernel's logIndex is seq - 1.
EpochForSeq(s) == IF EpochLength = 0 THEN 0 ELSE (s - 1) \div EpochLength

\* Fault: the grants are not reset.
CrossEpochKeepingGrants(v, s) ==
    IF EpochForSeq(s) = v.epoch THEN v
    ELSE [v EXCEPT !.epoch = EpochForSeq(s), !.consumed = Zero]

\* dispatch_epoch_if_crossed
CrossEpoch(v, s) ==
    IF EpochForSeq(s) = v.epoch THEN v
    ELSE [v EXCEPT !.epoch = EpochForSeq(s), !.grants = Zero, !.consumed = Zero]

\* The cells an authoritative BalanceChanged of the batch covers.
Covered(events) == {e.actor : e \in {x \in Range(events) : x.kind = "set"}}

Semantic(v, e, covered) ==
    CASE e.kind = "credit" /\ e.actor \notin covered -> Credit(v, "balance", e.actor, e.amount)
      [] e.kind = "debit" /\ e.actor \notin covered -> Debit(v, "balance", e.actor, e.amount)
      [] OTHER -> v

Authoritative(v, e) ==
    IF e.kind = "set" THEN [v EXCEPT !.balance[e.actor] = e.amount] ELSE v

\* dispatch_event: a grant also flows into the pool, a claim drains it.
DispatchEvent(v, e) ==
    CASE e.kind = "grant" ->
            Credit(Credit(Credit(v, "budget", e.actor, e.amount), "grants", e.actor, e.amount),
                   "pool", PoolActor, e.pool)
      [] e.kind = "claim" /\ DrainsPool -> Debit(v, "pool", PoolActor, e.amount)
      [] e.kind = "consume" -> Credit(v, "consumed", e.actor, e.amount)
      [] OTHER -> v

\* The passes of apply_batch, in their order.
ApplyTo(v, s, batch) ==
    LET events == [i \in DOMAIN batch |-> EventOf[batch[i]]]
        semantic == FoldLeft(LAMBDA w, e : Semantic(w, e, Covered(events)),
                             CrossEpoch(v, s), events)
    IN  FoldLeft(DispatchEvent, FoldLeft(Authoritative, semantic, events), events)

-----------------------------------------------------------------------------
\* The process.

Down(why) ==
    [pc |-> "down", cursor |-> 0, read |-> 0, batch |-> <<>>, reconnects |-> 0, why |-> why]

Reconnecting(cursor, n) ==
    [pc |-> "connect", cursor |-> cursor, read |-> 0, batch |-> <<>>, reconnects |-> n,
     why |-> "none"]

\* The daemon closes its end; the connection's thread can then only write into
\* the void, and is taken to leave at once.
DropLink ==
    /\ sub' = [sub EXCEPT ![Link] = Offline]
    /\ slots' = IF Link \in Registered THEN [slots EXCEPT ![Link] = @ - 1] ELSE slots
    /\ UNCHANGED <<logLen, serverVars, seen, restarts>>

Mishap == mishaps < MaxMishaps /\ mishaps' = mishaps + 1

\* Indexer::open_with_config reads the cursor of the database.
Start ==
    /\ ix.pc = "down" /\ starts < MaxStarts
    /\ starts' = starts + 1
    /\ ix' = Reconnecting(db.cursor, 0)
    /\ UNCHANGED <<vars, consumer, db, mishaps>>

\* The first test of run_daemon's loop.
TooManyReconnects == MaxReconnects # 0 /\ ix.reconnects >= MaxReconnects

GiveUp ==
    /\ ix.pc = "connect" /\ TooManyReconnects
    /\ ix' = Down("transient")
    /\ UNCHANGED <<vars, consumer, db, starts, mishaps>>

Connect ==
    /\ ix.pc = "connect" /\ ~ TooManyReconnects
    /\ Accept(Link)
    /\ ix' = [ix EXCEPT !.pc = "read", !.reconnects = 0]
    /\ UNCHANGED <<consumer, db, starts, mishaps>>

\* The server has stopped, or the network fails.
ConnectFails ==
    /\ ix.pc = "connect" /\ ~ TooManyReconnects
    /\ IF stop THEN UNCHANGED mishaps ELSE Mishap
    /\ ix' = Reconnecting(ix.cursor, ix.reconnects + 1)
    /\ UNCHANGED <<vars, consumer, db, starts>>

\* The server reads the handshake the daemon sent when it connected.
SendCursor == Subscribe(Link, ix.cursor) /\ UNCHANGED daemonVars

-----------------------------------------------------------------------------
\* consume_stream and consume_batched.

Reading == ix.pc = "read" /\ ix.read < Len(sub[Link].received)
Event == sub[Link].received[ix.read + 1]
Seq0 == ix.batch[1][1]
CompletesBatch == Reading /\ ix.batch # <<>> /\ Event[1] > Seq0

\* An event starts a batch or joins it, unless the batch is full or the seqs go
\* back.
TakeEvent ==
    /\ Reading /\ ~ CompletesBatch
    /\ IF ix.batch = <<>> \/ (Event[1] = Seq0 /\ Len(ix.batch) < MaxBatchEvents)
       THEN /\ ix' = [ix EXCEPT !.batch = Append(@, Event), !.read = @ + 1]
            /\ UNCHANGED vars
       ELSE ix' = Down("protocol") /\ DropLink
    /\ UNCHANGED <<consumer, db, starts, mishaps>>

\* Fault: the cursor may be written again with the value on disk, as
\* advance_cursor_in_tx allows.
CursorRefusesBackwards(s) == s < Max({db.cursor, ix.cursor})

\* advance_cursor_via_combined: another process may have moved the cursor.
CursorRefuses(s) == s <= Max({db.cursor, ix.cursor})

Committed(s, batch) ==
    [cursor |-> s, views |-> ApplyTo(db.views, s, batch),
     applied |-> Append(db.applied, <<s, batch>>), shared |-> db.shared]

\* Why apply_batch rolls back, "none" when it goes on to commit.
Refusal(s, batch) ==
    CASE s <= ix.cursor -> "stale"
      [] s > ix.cursor /\ ~ ApplyTo(db.views, s, batch).ok -> "view"
      [] s > ix.cursor /\ ApplyTo(db.views, s, batch).ok /\ CursorRefuses(s) -> "cursor"
      [] OTHER -> "none"

CommitBatch ==
    /\ CompletesBatch
    /\ Refusal(Seq0, ix.batch) = "none"
    /\ db' = Committed(Seq0, ix.batch)
    /\ ix' = [ix EXCEPT !.cursor = Seq0, !.batch = <<Event>>, !.read = @ + 1]
    /\ UNCHANGED <<vars, consumer, starts, mishaps>>

\* An IndexerError ends the daemon.
RefuseBatch ==
    /\ CompletesBatch
    /\ Refusal(Seq0, ix.batch) # "none"
    /\ ix' = Down(Refusal(Seq0, ix.batch))
    /\ DropLink
    /\ UNCHANGED <<consumer, db, starts, mishaps>>

\* COMMIT reports an error, whether or not it took effect.  The cursor is read
\* back: a commit that took effect is ambiguous and the daemon reconnects; one
\* that did not, or a cursor that cannot be read, ends it.
CommitFails ==
    /\ CompletesBatch
    /\ Refusal(Seq0, ix.batch) = "none"
    /\ Mishap
    /\ \E tookEffect, readable \in BOOLEAN :
         /\ db' = IF tookEffect THEN Committed(Seq0, ix.batch) ELSE db
         /\ ix' = IF tookEffect /\ readable THEN Reconnecting(Seq0, ix.reconnects)
                  ELSE Down(IF readable THEN "storage" ELSE "poisoned")
    /\ DropLink
    /\ UNCHANGED <<consumer, starts>>

\* The server closed the connection, with a last frame or without: the batch in
\* flight is discarded.
StreamEnds ==
    /\ ix.pc = "read" /\ sub[Link].pc \in {"closed", "off"} /\ ~ Reading
    /\ ix' = IF sub[Link].frame.kind \in {"truncated", "invalid"} THEN Down("operator")
             ELSE Reconnecting(ix.cursor, ix.reconnects)
    /\ DropLink
    /\ UNCHANGED <<consumer, db, starts, mishaps>>

\* A read fails.
ReadFails ==
    /\ ix.pc = "read" /\ Mishap
    /\ ix' = Reconnecting(ix.cursor, ix.reconnects + 1)
    /\ DropLink
    /\ UNCHANGED <<consumer, db, starts>>

Kill ==
    /\ ix.pc # "down" /\ Mishap
    /\ ix' = Down("killed")
    /\ DropLink
    /\ UNCHANGED <<consumer, db, starts>>

\* The first frame with events after seq (0 when the log never has one).
FrameAfter(seq) ==
    LET later == {s \in DOMAIN BatchSize : s > seq /\ BatchSize[s] > 0}
    IN  IF later = {} THEN 0 ELSE Min(later)

\* External: a second daemon on the same database, reading from the same
\* server, applies the next batch.
OtherWriter ==
    LET s == FrameAfter(db.cursor)
    IN  /\ s # 0 /\ FrameAfter(s) \in 1 .. nextSeq - 1 /\ lock = 0
        /\ Committed(s, Batch(s)).views.ok
        /\ Mishap
        /\ db' = [Committed(s, Batch(s)) EXCEPT !.shared = TRUE]
        /\ UNCHANGED <<vars, consumer, ix, starts>>

-----------------------------------------------------------------------------
IndexerInit ==
    /\ Init
    /\ consumer \in Consumers
    /\ db = [cursor |-> 0, views |-> NoViews, applied |-> <<>>, shared |-> FALSE]
    /\ ix = Down("none")
    /\ starts = 0
    /\ mishaps = 0

IndexerSteps ==
    \/ Connect \/ GiveUp \/ SendCursor
    \/ TakeEvent \/ CommitBatch \/ RefuseBatch \/ StreamEnds

IndexerMishaps == ReadFails \/ Kill \/ CommitFails \/ OtherWriter

\* The server's side of the stream the daemon reads.
ServerSteps ==
    /\ AppendFrame \/ PushBatch \/ Broadcast \/ SetStop \/ AnnounceShutdown \/ Dispatch(Link)
    /\ UNCHANGED daemonVars

ServerMishaps ==
    /\ LinkFails(Link) \/ HandshakeFails(Link) \/ HaltExtractor \/ Restart
    /\ Mishap
    /\ UNCHANGED <<consumer, db, ix, starts>>

IndexerNext ==
    \/ consumer = "any" /\ Next /\ UNCHANGED daemonVars
    \/ consumer = "indexer" /\ ServerSteps
    \/ consumer = "indexer" /\ ServerMishaps
    \/ consumer = "indexer" /\ IndexerSteps
    \/ consumer = "indexer" /\ IndexerMishaps
    \/ consumer = "indexer" /\ Start
    \/ consumer = "indexer" /\ ConnectFails

IndexerSpec == IndexerInit /\ [][IndexerNext]_allVars

\* Every thread the server starts and the daemon keep running; nobody owes a
\* connection, an append to the log, a restart or a mishap.
FairIndexerSpec ==
    /\ IndexerSpec
    /\ WF_vars(PushBatch) /\ WF_vars(Broadcast) /\ WF_vars(SetStop)
    /\ WF_vars(AnnounceShutdown)
    /\ WF_vars(Dispatch(Link) \/ (consumer = "any" /\ Greet(Link)))
    /\ WF_allVars(consumer = "indexer" /\ IndexerSteps)

-----------------------------------------------------------------------------
\* Properties.

AppliedSeqs == [i \in DOMAIN db.applied |-> db.applied[i][1]]
Replay(applied) == FoldLeft(LAMBDA v, b : ApplyTo(v, b[1], b[2]), NoViews, applied)

\* The views are what the batches up to the cursor make of an empty database,
\* each applied once, whole and in seq order, through killed daemons, lost
\* connections, commits that report failure, repeated deliveries and a second
\* daemon on the same file (apply_batch's single transaction,
\* advance_cursor_via_combined, consume_batched's wait for a later seq).
ViewsMatchCursor ==
    /\ db.views = Replay(db.applied)
    /\ \A i \in DOMAIN db.applied : db.applied[i][2] = Batch(AppliedSeqs[i])
    /\ \A i \in 1 .. Len(db.applied) - 1 : AppliedSeqs[i] < AppliedSeqs[i + 1]
    /\ db.cursor = IF db.applied = <<>> THEN 0 ELSE Last(AppliedSeqs)

\* From the first batch it has committed, a lone daemon misses none: the server
\* resumes it from its cursor, truncates or disconnects it.  (With
\* MaxLag = 0; see NoGaps for what a tolerated lag does.)
NothingSkipped ==
    ~ db.shared => \A i \in 1 .. Len(db.applied) - 1 : AppliedSeqs[i + 1] = FrameAfter(AppliedSeqs[i])

\* External: the kernel's own account of an actor's budget
\* (EpochBudgetState: normalise, then top up or consume).
KernelEpoch(s) == BaseEpoch + (IF EpochLength = 0 THEN 0 ELSE (s - 1) \div EpochLength)

Normalised(b, epoch) ==
    [seen |-> Max({b.seen, epoch}),
     left |-> IF b.seen < epoch THEN Max({b.left, FreeTier}) ELSE b.left]

KernelEvent(b, e, epoch, a) ==
    CASE e.kind = "grant" /\ e.actor = a ->
            [Normalised(b, epoch) EXCEPT !.left = @ + e.amount]
      [] e.kind = "consume" /\ e.actor = a ->
            [Normalised(b, epoch) EXCEPT !.left = @ - e.amount]
      [] OTHER -> b

\* currentBudget after the first n frames of the log.
KernelBudget(a, n) ==
    LET frame(b, s) == FoldLeft(LAMBDA c, e : KernelEvent(c, EventOf[e], KernelEpoch(s), a),
                                b, Batch(s))
    IN  Normalised(FoldLeft(frame, [seen |-> 0, left |-> 0], [s \in 1 .. n |-> s]),
                   KernelEpoch(n)).left

\* remaining_this_epoch
Remaining(a) == Max({0, FreeTier + db.views.grants[a] - db.views.consumed[a]})

IndexedFromStart == db.applied # <<>> /\ Head(AppliedSeqs) = FrameAfter(0)

\* What query-budget reports as remaining in this epoch is at most the kernel's
\* budget: the per-epoch tables are reset on the kernel's own epoch boundaries,
\* and no grant is counted twice or consumption lost when part of the log is
\* delivered again.
RemainingIsLowerBound ==
    IndexedFromStart => \A a \in Account : Remaining(a) <= KernelBudget(a, db.cursor)

\* The daemon has a cursor to resume from, and two more frames to read: the one
\* to apply, and the one that completes it.  (A place of the registry leaked by
\* TruncateWriteFails can keep it out for ever: EntriesAreServed.)
Behind ==
    /\ consumer = "indexer" /\ ix.pc # "down" /\ ~ halting /\ ~ stop
    /\ db.cursor > 0 /\ ~ db.shared /\ EntriesAreServed
    /\ FrameAfter(db.cursor) # 0 /\ FrameAfter(FrameAfter(db.cursor)) \in 1 .. logLen

\* A running daemon is not behind for ever: every frame followed by another one
\* is applied, through lost connections, lag disconnections and restarts of
\* either side, unless the daemon ends or the server's extractor halts.
IndexerCatchesUp == []<>(~ Behind)

=============================================================================
