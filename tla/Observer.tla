------------------------------ MODULE Observer ------------------------------
(***************************************************************************)
(* knomosis-faultproof-observer: the daemon that plays one side of the     *)
(* dispute games it sees on L1.  Every iteration of its single thread      *)
(* re-sends the signed transactions a crash kept from being sent, reads    *)
(* the state of new games, applies the confirmed events, signs the moves   *)
(* it owes, commits, and then broadcasts.                                  *)
(*                                                                         *)
(* BisectionGame's variables are the game on L1 at the head of the chain;  *)
(* the daemon has a view of its own, behind the head when it comes from    *)
(* events and ahead of them when it comes from a read.  Block b carries at *)
(* most one event.  A call carries the move but not the round it answers.  *)
(***************************************************************************)
EXTENDS HonestPlay, SequencesExt, FiniteSetsExt

CONSTANTS
    Disputes,             \* the games that may be opened: <<low, high, root>>
    LastOpenBlock,        \* bound: the last block in which one is
    ResponseTimeout,      \* BISECTION_RESPONSE_TIMEOUT
    ConfirmationDepth,
    BlocksPerIteration,
    MaxAttempts,          \* max_broadcast_attempts
    FaultPlans,           \* bound: how many faults of each kind a behaviour may have
    None

FaultKind == {"crash", "read", "send", "record"}

ASSUME ObserverConstants ==
    /\ ResponseTimeout \in Nat \ {0}
    /\ ConfirmationDepth \in Nat \ {0}
    /\ BlocksPerIteration \in Nat \ {0}
    /\ MaxAttempts \in Nat \ {0}
    /\ FaultPlans \subseteq [FaultKind -> Nat]

VARIABLES
    chain,         \* per block, the event it carries and the game after it
    turnDeadline,  \* the contract's deadline for the side to move
    mempool,       \* the daemon's transactions the node holds, by nonce
    mined,         \* the daemon's transactions in blocks, by nonce
    db,            \* Persistence
    mem,           \* the fields of Observer
    pc,            \* the phase of the iteration
    faults         \* how many faults of each kind may still happen

l1Vars == <<gameVars, chain, turnDeadline, mined>>
daemonVars == <<db, mem, pc, faults>>
vars == <<l1Vars, me, mempool, daemonVars>>

\* GameState, as the contract's getter returns it.
L1View == [status |-> status, low |-> low, high |-> high, pending |-> pendingMidpoint,
           depth |-> depth, turn |-> turn]

NoEvent == [kind |-> "none"]
NoGame == [known |-> FALSE, status |-> "unopened"]

\* GameRecord.  Until the contract has been read only the status of the
\* skeleton is used.
Skeleton(s) == [known |-> FALSE, status |-> s]
Known(view, deadline) == [known |-> TRUE, view |-> view, deadline |-> deadline]

-----------------------------------------------------------------------------
\* External: the chain, with the contract of BisectionGame on it.

\* The event the contract emits on this step.
Emitted ==
    CASE status = "unopened" /\ status' # "unopened" -> [kind |-> "opened"]
      [] status = "inProgress" /\ status' # "inProgress" ->
            [kind |-> "settled", status |-> status']
      [] pendingMidpoint = NoClaim /\ pendingMidpoint' # NoClaim ->
            [kind |-> "midpoint", claim |-> pendingMidpoint']
      [] pendingMidpoint # NoClaim /\ pendingMidpoint' = NoClaim ->
            [kind |-> "response", agree |-> low' # low]
      [] OTHER -> NoEvent

AddBlock ==
    /\ chain' = Append(chain, [event |-> Emitted, game |-> L1View'])
    /\ turnDeadline' = IF Emitted.kind \in {"opened", "midpoint", "response"}
                       THEN Len(chain) + 1 + ResponseTimeout ELSE turnDeadline
    /\ UNCHANGED <<me, daemonVars>>

OpenGame ==
    /\ Len(chain) < LastOpenBlock
    /\ \E d \in Disputes : OpenWinnable(d[1], d[2], d[3])
    /\ AddBlock
    /\ UNCHANGED <<mempool, mined>>

InTime == Len(chain) < turnDeadline

OpponentPlays ==
    /\ turn = Flip(me)
    /\ InTime
    /\ \/ \E commit \in StateCommit : SubmitMidpoint(commit)
       \/ RespondAgree
       \/ RespondDisagree
       \/ TerminateOnSingleStep
    /\ AddBlock
    /\ UNCHANGED <<mempool, mined>>

\* claimTimeout is open to anyone.
SomeoneClaims ==
    /\ turn = Flip(me)
    /\ ~InTime
    /\ TimeoutLoss
    /\ AddBlock
    /\ UNCHANGED <<mempool, mined>>

\* A block without events.  The observer's own window is never let to lapse:
\* how soon the daemon must be back is the operator's matter.
EmptyBlock ==
    /\ CASE status = "unopened" -> Len(chain) + 1 < LastOpenBlock
         [] status = "inProgress" /\ turn = me -> Len(chain) + 1 < turnDeadline
         [] status = "inProgress" /\ turn # me ->
               Len(chain) <= turnDeadline + ConfirmationDepth
         [] OTHER -> chain[Len(chain) - ConfirmationDepth].game.status = "inProgress"
    /\ UNCHANGED gameVars
    /\ AddBlock
    /\ UNCHANGED <<mempool, mined>>

Accepted(tx) ==
    /\ status = "inProgress"
    /\ tx.kind = "timeout" => ~InTime
    /\ tx.kind # "timeout" => turn = me /\ InTime
    /\ tx.kind = "submit" => pendingMidpoint = NoClaim /\ ~IsSingleStep
    /\ tx.kind = "respond" => pendingMidpoint # NoClaim
    /\ tx.kind = "terminate" => ReadyToTerminate

\* The call is executed on the game as it is now, or reverts.
Execute(tx) ==
    \/ Accepted(tx) /\ tx.kind = "submit" /\ SubmitMidpoint(tx.arg)
    \/ Accepted(tx) /\ tx.kind = "respond" /\ tx.arg /\ RespondAgree
    \/ Accepted(tx) /\ tx.kind = "respond" /\ ~tx.arg /\ RespondDisagree
    \/ Accepted(tx) /\ tx.kind = "terminate" /\ TerminateOnSingleStep
    \/ Accepted(tx) /\ tx.kind = "timeout" /\ TimeoutLoss
    \/ ~Accepted(tx) /\ UNCHANGED gameVars

MineOurs ==
    /\ mempool # <<>>
    /\ Execute(Head(mempool))
    /\ mempool' = Tail(mempool)
    /\ mined' = Append(mined, Head(mempool))
    /\ AddBlock

-----------------------------------------------------------------------------
\* game.rs and strategy.rs on the daemon's view.

MidOf(v) == (v.low.idx + v.high.idx) \div 2

\* Fault: a midpoint is taken while another is pending.
ApplySubmitMidpointAgain(v, commit) ==
    IF v.status = "inProgress" /\ v.depth < MaxDepth
       /\ v.low.idx < MidOf(v) /\ MidOf(v) < v.high.idx
    THEN [v EXCEPT !.pending = [idx |-> MidOf(v), commit |-> commit], !.turn = Flip(@)]
    ELSE v

ApplySubmitMidpoint(v, commit) ==
    IF v.status = "inProgress" /\ v.pending = NoClaim /\ v.depth < MaxDepth
       /\ v.low.idx < MidOf(v) /\ MidOf(v) < v.high.idx
    THEN [v EXCEPT !.pending = [idx |-> MidOf(v), commit |-> commit], !.turn = Flip(@)]
    ELSE v

ApplyRespond(v, agree) ==
    IF v.status = "inProgress" /\ v.depth < MaxDepth /\ v.pending # NoClaim
    THEN [v EXCEPT !.low = IF agree THEN v.pending ELSE @,
                   !.high = IF agree THEN @ ELSE v.pending,
                   !.pending = NoClaim, !.depth = @ + 1, !.turn = Flip(@)]
    ELSE v

\* Fault: the answers are swapped.
HonestMoveSwapped(v) ==
    CASE v.pending # NoClaim ->
            [kind |-> "respond", pivot |-> v.pending.idx, arg |-> ~IsTrue(v.pending)]
      [] v.pending = NoClaim /\ v.high.idx = v.low.idx + 1 ->
            [kind |-> "terminate", pivot |-> v.high.idx, arg |-> Truth[v.high.idx]]
      [] OTHER -> [kind |-> "submit", pivot |-> MidOf(v), arg |-> Truth[MidOf(v)]]

\* compute_next_move when it is the daemon's turn, with the pivot it is known by.
HonestMove(v) ==
    CASE v.pending # NoClaim ->
            [kind |-> "respond", pivot |-> v.pending.idx, arg |-> IsTrue(v.pending)]
      [] v.pending = NoClaim /\ v.high.idx = v.low.idx + 1 ->
            [kind |-> "terminate", pivot |-> v.high.idx, arg |-> Truth[v.high.idx]]
      [] OTHER -> [kind |-> "submit", pivot |-> MidOf(v), arg |-> Truth[MidOf(v)]]

ClaimCall == [kind |-> "timeout", pivot |-> None, arg |-> None]

Key(tx) == <<tx.kind, tx.pivot>>

-----------------------------------------------------------------------------
\* Persistence and startup.

WithStatus(d, s) == {tx \in DOMAIN d.responses : d.responses[tx] \in s}
Live(d) == WithStatus(d, {"intent", "pending"})

\* Fault: a record not yet known to be sent does not reserve its move.
ReservedPendingOnly(d) == {Key(tx) : tx \in WithStatus(d, {"pending"})}

\* The moves that must not be made again.
Reserved(d) == {Key(tx) : tx \in Live(d)}

\* Observer::new.
Loaded(d) ==
    [cursor |-> d.cursor, game |-> d.game, batch |-> d.batch,
     pivots |-> Reserved(d),
     failures |-> [k \in {Key(tx) : tx \in WithStatus(d, {"failed"})} \ Reserved(d) |->
                     Cardinality({tx \in WithStatus(d, {"failed"}) : Key(tx) = k})],
     queue |-> <<>>, outcome |-> None]

Adopted(g) == g # NoGame

\* What an iteration does first once the intents have been re-sent.
AfterRecover(g) == IF Adopted(g) /\ ~g.known THEN "hydrate" ELSE "fetch"

\* recover_intent_records collects the intents the store holds.
NewIteration(d, m) ==
    LET intents == WithStatus(d, {"intent"})
    IN  /\ mem' = [m EXCEPT !.queue = SetToSeq(intents), !.outcome = None]
        /\ pc' = IF intents # {} THEN "recover" ELSE AfterRecover(m.game)

Fault(kind) == faults[kind] > 0 /\ faults' = [faults EXCEPT ![kind] = @ - 1]

\* The process dies, or leaves its loop on a storage error, and is started again.
Crash ==
    /\ Fault("crash")
    /\ NewIteration(db, Loaded(db))
    /\ UNCHANGED <<l1Vars, me, mempool, db>>

-----------------------------------------------------------------------------
\* broadcast_and_update_status, on the first transaction of the queue.

Sending == pc \in {"recover", "drain"} /\ mem.queue # <<>> /\ mem.outcome = None

\* External: the node knows the transaction, or it has the next nonce.
Takes(tx) ==
    \/ tx \in Range(mempool) \cup Range(mined)
    \/ tx.nonce = Len(mined) + Len(mempool) + 1

Taken(tx) == IF tx.nonce = Len(mined) + Len(mempool) + 1 THEN Append(mempool, tx)
                                                         ELSE mempool

SendOk ==
    /\ Sending
    /\ Takes(Head(mem.queue))
    /\ mempool' = Taken(Head(mem.queue))
    /\ mem' = [mem EXCEPT !.outcome = "pending"]
    /\ UNCHANGED <<l1Vars, me, db, pc, faults>>

Failures(k) == IF k \in DOMAIN mem.failures THEN mem.failures[k] ELSE 0

\* Fault: the pivot stays reserved after the first failure.
ReleasedNever(tx) ==
    [mem EXCEPT
       !.failures = (Key(tx) :> Failures(Key(tx)) + 1) @@ @,
       !.outcome = "failed"]

\* release_pivot_after_broadcast_failure.
Released(tx) ==
    [mem EXCEPT
       !.failures = (Key(tx) :> Failures(Key(tx)) + 1) @@ @,
       !.pivots = IF Failures(Key(tx)) + 1 >= MaxAttempts THEN @ ELSE @ \ {Key(tx)},
       !.outcome = "failed"]

SendFails ==
    /\ Sending
    /\ Fault("send")
    /\ mem' = Released(Head(mem.queue))
    /\ UNCHANGED <<l1Vars, me, mempool, db, pc>>

\* The loop over the queue goes on, or the iteration does, or the next begins.
Advance(d) ==
    LET m == [mem EXCEPT !.queue = Tail(@), !.outcome = None]
    IN  IF m.queue = <<>> /\ pc = "drain" THEN NewIteration(d, m)
        ELSE /\ mem' = m
             /\ pc' = IF m.queue = <<>> THEN AfterRecover(m.game) ELSE pc

RecordStatus ==
    /\ mem.outcome # None
    /\ db' = [db EXCEPT !.responses[Head(mem.queue)] = mem.outcome]
    /\ Advance(db')
    /\ UNCHANGED <<l1Vars, me, mempool, faults>>

\* recover_intent_records goes on when the status cannot be written.
RecordFails ==
    /\ mem.outcome # None /\ pc = "recover"
    /\ Fault("record")
    /\ Advance(db)
    /\ UNCHANGED <<l1Vars, me, mempool, db>>

-----------------------------------------------------------------------------
\* hydrate_cold_start_games: the contract is read at the head of the chain, and
\* mark_state_known commits what it says at once.
Hydrate ==
    /\ pc = "hydrate"
    /\ mem' = [mem EXCEPT !.game = Known(L1View, turnDeadline)]
    /\ db' = [db EXCEPT !.game = mem'.game]
    /\ pc' = "fetch"
    /\ UNCHANGED <<l1Vars, me, mempool, faults>>

HydrateFails ==
    /\ pc = "hydrate"
    /\ Fault("read")
    /\ pc' = "fetch"
    /\ UNCHANGED <<l1Vars, me, mempool, db, mem>>

\* queue_l1_call: sign with the next nonce and reserve the move.
Queue(m, call) ==
    [m EXCEPT !.queue = Append(@, call @@ [nonce |-> Len(mined) + Len(mempool) + Len(@) + 1]),
              !.pivots = @ \cup {Key(call)}]

\* maybe_play_move.
MaybePlayMove(m) ==
    IF /\ m.game.known
       /\ m.game.view.status = "inProgress"
       /\ m.game.view.turn = me
       /\ HonestMove(m.game.view).kind = "terminate" => m.batch
       /\ Key(HonestMove(m.game.view)) \notin m.pivots
    THEN Queue(m, HonestMove(m.game.view)) ELSE m

\* handle_midpoint_submitted, handle_response_submitted and handle_game_settled
\* on a known game.
EventView(v, e) ==
    CASE e.kind = "midpoint" -> IF e.claim.idx = MidOf(v)
                                THEN ApplySubmitMidpoint(v, e.claim.commit) ELSE v
      [] e.kind = "response" -> ApplyRespond(v, e.agree)
      [] e.kind = "settled" -> IF v.status = "inProgress"
                               THEN [v EXCEPT !.status = e.status] ELSE v
      [] OTHER -> v

\* handle_event.  A transition that is refused leaves the record alone; one that
\* is applied drops the deadline, which the contract has moved.
HandleEvent(m, e, deferred) ==
    CASE e.kind = "batch" -> [m EXCEPT !.batch = TRUE]
      [] e.kind = "opened" -> IF Adopted(m.game) THEN m
                              ELSE [m EXCEPT !.game = Skeleton("inProgress")]
      [] e.kind \in {"midpoint", "response", "settled"} /\ m.game.known ->
            LET v == EventView(m.game.view, e)
                moved == [m EXCEPT !.game = Known(v, None)]
            IN  IF v = m.game.view THEN m
                ELSE IF deferred THEN moved ELSE MaybePlayMove(moved)
      [] e.kind = "settled" /\ m.game = Skeleton("inProgress") ->
            [m EXCEPT !.game = Skeleton(e.status)]
      [] OTHER -> m

Confirmed == Len(chain) - ConfirmationDepth

\* Watcher::run_iteration.  The first run starts at the confirmed head.
FetchRange ==
    LET from == IF mem.cursor = None THEN Confirmed ELSE mem.cursor + 1
    IN  from .. Min({Confirmed, from + BlocksPerIteration - 1})

Now(m) == IF m.cursor = None THEN 0 ELSE m.cursor

ClaimCandidate(m) ==
    /\ m.game.known
    /\ m.game.view.status = "inProgress"
    /\ m.game.view.turn # me
    /\ m.game.deadline # None => Now(m) > m.game.deadline
    /\ Key(ClaimCall) \notin m.pivots

\* Fault: the signed calls are not part of the batch.
CommitBatchWithoutIntents(m) ==
    /\ db' = [db EXCEPT !.cursor = m.cursor, !.game = m.game, !.batch = m.batch]
    /\ IF m.queue = <<>> THEN NewIteration(db', m) ELSE mem' = m /\ pc' = "drain"

\* The batch of the iteration: the game, the cursor and the signed calls.
CommitBatch(m) ==
    /\ db' = [cursor |-> m.cursor, game |-> m.game, batch |-> m.batch,
              responses |-> [tx \in Range(m.queue) |-> "intent"] @@ db.responses]
    /\ IF m.queue = <<>> THEN NewIteration(db', m) ELSE mem' = m /\ pc' = "drain"

\* The confirmed blocks not yet seen.
NewBlocks == IF Confirmed < 0 THEN {} ELSE FetchRange

NewEvents == [i \in 1..Cardinality(NewBlocks) |->
                LET b == Min(NewBlocks) + i - 1
                IN  IF b = 0 THEN NoEvent ELSE chain[b].event]

\* The singleton of what memory is after the events, in order.
HandleEvents(events, deferred) ==
    FoldLeft(LAMBDA S, e : {HandleEvent(m, e, deferred) : m \in S}, {mem}, events)

\* An iteration that finds nothing to do changes nothing, and is not a step.
Idle ==
    /\ NewBlocks = {}
    /\ MaybePlayMove(mem) = mem
    /\ ~ClaimCandidate(mem)
    /\ WithStatus(db, {"intent"}) = {}
    /\ AfterRecover(mem.game) = "fetch"

\* The event loop and sweep_owed_moves.  With "deferred" the oracle has not
\* caught up or signing fails, and the iteration queues no move.  Without a
\* claim to look into, the commit follows at once.
Fetch ==
    /\ pc = "fetch"
    /\ ~Idle
    /\ \E deferred \in BOOLEAN :
          /\ IF deferred THEN Fault("read") ELSE UNCHANGED faults
          /\ \E seen \in HandleEvents(NewEvents, deferred) :
             \E m \in {[(IF deferred THEN seen ELSE MaybePlayMove(seen)) EXCEPT
                          !.cursor = IF NewBlocks = {} THEN @ ELSE Max(NewBlocks)]} :
                IF ClaimCandidate(m) THEN mem' = m /\ pc' = "sweep" /\ UNCHANGED db
                                     ELSE CommitBatch(m)
    /\ UNCHANGED <<l1Vars, me, mempool>>

Claimable == status = "inProgress" /\ turn # me /\ Now(mem) > turnDeadline

\* sweep_timeout_claims: a read at the head, the claim it allows, and the commit.
Sweep ==
    /\ pc = "sweep"
    /\ LET read == [mem EXCEPT !.game = Known(L1View, turnDeadline)]
       IN  \E m \in {IF Claimable THEN Queue(read, ClaimCall) ELSE read} : CommitBatch(m)
    /\ UNCHANGED <<l1Vars, me, mempool, faults>>

SweepReadFails ==
    /\ pc = "sweep"
    /\ Fault("read")
    /\ CommitBatch(mem)
    /\ UNCHANGED <<l1Vars, me, mempool>>

-----------------------------------------------------------------------------
ObserverInit ==
    /\ PlayInit
    /\ chain = <<[event |-> [kind |-> "batch"], game |-> L1View]>>
    /\ turnDeadline = 0
    /\ mempool = <<>> /\ mined = <<>>
    /\ db = [cursor |-> None, game |-> NoGame, batch |-> FALSE, responses |-> <<>>]
    /\ mem = Loaded(db)
    /\ pc = "fetch"
    /\ faults \in FaultPlans

BlockSteps == EmptyBlock \/ MineOurs
DaemonSteps == \/ SendOk \/ RecordStatus \/ Hydrate \/ Fetch \/ Sweep
Mishaps == \/ Crash \/ SendFails \/ RecordFails \/ HydrateFails
           \/ SweepReadFails
ObserverNext == OpenGame \/ OpponentPlays \/ SomeoneClaims \/ BlockSteps
                \/ DaemonSteps \/ Mishaps

\* Blocks are produced, with a transaction the node holds in one of them, and the
\* daemon's thread runs.  The opponent owes nothing.  One condition is enough:
\* the bounds let only finitely many blocks be empty.
ObserverSpec == ObserverInit /\ [][ObserverNext]_vars
                /\ WF_vars(BlockSteps \/ DaemonSteps)

-----------------------------------------------------------------------------

\* The three-phase discipline of queue_l1_call: whatever the node has ever been
\* given is in the store, so that no crash leaves a call nobody remembers.
IntentFirst ==
    /\ Range(mempool) \cup Range(mined) \subseteq DOMAIN db.responses
    /\ pc \in {"recover", "drain"} => Range(mem.queue) \subseteq DOMAIN db.responses

\* "the dedup set exists to stop double-submission": the node never gets two
\* calls for one move, across crashes, retries and re-reads.
OneCallPerMove ==
    LET given == mined \o mempool
    IN  \A i, j \in DOMAIN given : Key(given[i]) = Key(given[j]) => i = j

\* Reads at the head and events behind it never mix: what the daemon believes of
\* a known game, in memory and in the store, is what the contract said at some
\* block from its cursor on.
ViewIsReal ==
    \A s \in {mem, db} :
       s.game.known =>
         \E b \in DOMAIN chain : /\ s.cursor # None => b >= s.cursor
                                  /\ chain[b].game = s.game.view

\* Whatever the daemon and its faults do, the game on L1 is a play of
\* HonestPlay: each call is mined in the state it was computed for.
PlaysHonestly == PlaySpec

GaveUp == \E k \in DOMAIN mem.failures : mem.failures[k] >= MaxAttempts

\* A game the daemon follows is waiting for it: for its move, or for somebody to
\* claim the turn the opponent has let lapse.
Stalled ==
    /\ status = "inProgress" /\ Adopted(db.game)
    /\ IF turn = me THEN ReadyToTerminate => db.batch ELSE ~InTime

\* "it is our turn until we move or time out, so no further event will arrive"
\* and "until somebody calls it ... BOTH bonds stay locked": no game waits for
\* the daemon for ever, unless it gave a call up after max_broadcast_attempts.
NoGameStalls == []<>(Stalled => GaveUp)

=============================================================================
