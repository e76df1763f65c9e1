--------------------------- MODULE EventSubscribe ---------------------------
(***************************************************************************)
(* knomosis-event-subscribe: one extractor thread tails the transition     *)
(* log, pushes each frame's events into a bounded cache and hands them to  *)
(* the bounded queue of every registered subscriber; one thread per        *)
(* connection backfills from the cache, drops what the queue repeats and   *)
(* then streams live.                                                      *)
(*                                                                         *)
(* The extractor holds the cache lock from the first push to the end of    *)
(* the broadcast; registration takes only the registry lock, so it falls   *)
(* in between.  An event is <<seq, index>>: the frame and the position in  *)
(* its batch.  A queue slot is a frame's seq, or Sentinel.                 *)
(***************************************************************************)
EXTENDS Integers, SequencesExt, FiniteSetsExt

CONSTANTS
    Client,
    BatchSize,        \* the number of events of each log frame
    CacheCapacity,    \* --keep-history
    QueueDepth,       \* --send-queue-depth
    MaxLag,           \* --max-subscriber-lag
    MaxSubscribers,   \* --max-subscribers
    ExtractorFails,   \* environment: the extractor may fail on a frame
    MaxRestarts       \* bound: restarts of the server

ASSUME StreamConstants ==
    /\ BatchSize \in Seq(Nat)
    /\ CacheCapacity \in Nat \ {0}
    /\ QueueDepth \in Nat \ {0}
    /\ MaxLag \in Nat
    /\ MaxSubscribers \in Nat \ {0}

VARIABLES
    logLen,       \* frames of the log on disk
    nextSeq,      \* TailReader::next_seq
    cache,        \* EventCache::buffer
    lastEvicted,  \* last_evicted_seq, 0 for None
    lock,         \* the frame being broadcast under the cache lock, 0 if free
    halting,      \* halt_extractor has notified but not yet set stop
    stop,         \* the stop flag
    announced,    \* Server::run has broadcast the shutdown
    slots,        \* the registry's entries made for each client
    sub,          \* the connection of each client
    seen,         \* the last seq each client received on earlier connections
    restarts

serverVars == <<nextSeq, cache, lastEvicted, lock, halting, stop, announced>>
vars == <<logLen, serverVars, slots, sub, seen, restarts>>

Sentinel == 0
FromOldest == Len(BatchSize) + 100   \* stands for u64::MAX
NoFrame == [kind |-> "none", seq |-> 0]

\* Subscriber, and the dispatch thread's local state.
Offline ==
    [pc |-> "off", resume |-> 0, queue |-> <<>>, pending |-> <<>>, lag |-> 0,
     delivered |-> 0, disconnected |-> FALSE, shutdown |-> FALSE,
     toWrite |-> <<>>, received |-> <<>>, frame |-> NoFrame]

Registered == {c \in Client : sub[c].pc \in {"registered", "backfill", "drain", "live", "recv"}}

Events == UNION {{<<s, i>> : i \in 1 .. BatchSize[s]} : s \in DOMAIN BatchSize}
Batch(s) == [i \in 1 .. BatchSize[s] |-> <<s, i>>]

-----------------------------------------------------------------------------
\* event_cache.rs.

\* Fault: a partial batch left at the front by an eviction is not remembered.
EvictedByForgetting(pushed) ==
    IF Len(pushed) > CacheCapacity THEN 0 ELSE lastEvicted

\* The events pushed out by appending a batch end with the last one evicted.
EvictedBy(pushed) ==
    IF Len(pushed) > CacheCapacity
    THEN pushed[Len(pushed) - CacheCapacity][1]
    ELSE lastEvicted

Retained(pushed) ==
    SubSeq(pushed, Max({1, Len(pushed) - CacheCapacity + 1}), Len(pushed))

HasPartialFront == cache # <<>> /\ lastEvicted = cache[1][1]

After(s) == SelectSeq(cache, LAMBDA e : e[1] > s)

AtLiveTail(from) ==
    \/ cache = <<>>
    \/ from # FromOldest /\ (from = 0 \/ from >= Last(cache)[1])

\* Fault: the window is taken to start one seq earlier.
OutOfWindowLoose(from) ==
    /\ ~ AtLiveTail(from)
    /\ from # FromOldest
    /\ \/ from + 2 < cache[1][1]
       \/ HasPartialFront /\ from < cache[1][1]

OutOfWindow(from) ==
    /\ ~ AtLiveTail(from)
    /\ from # FromOldest
    /\ \/ from + 1 < cache[1][1]
       \/ HasPartialFront /\ from < cache[1][1]

\* range(): the events to write before going live.
Backfill(from) ==
    CASE AtLiveTail(from) -> <<>>
      [] ~ AtLiveTail(from) /\ from = FromOldest ->
            After(IF HasPartialFront THEN cache[1][1] ELSE cache[1][1] - 1)
      [] OTHER -> After(from)

-----------------------------------------------------------------------------
\* subscription.rs.

\* Fault: the lag is compared before it is counted.
EnqueueLagOffByOne(s, seq) ==
    CASE s.disconnected -> s
      [] ~ s.disconnected /\ Len(s.queue) < QueueDepth ->
            [s EXCEPT !.queue = Append(@, seq), !.lag = 0]
      [] OTHER -> [s EXCEPT !.lag = @ + 1, !.disconnected = s.lag > MaxLag]

Enqueue(s, seq) ==
    CASE s.disconnected -> s
      [] ~ s.disconnected /\ Len(s.queue) < QueueDepth ->
            [s EXCEPT !.queue = Append(@, seq), !.lag = 0]
      [] OTHER -> [s EXCEPT !.lag = @ + 1, !.disconnected = s.lag + 1 > MaxLag]

RequestShutdown(s) ==
    CASE s.disconnected -> s
      [] ~ s.disconnected /\ Len(s.queue) < QueueDepth ->
            [s EXCEPT !.shutdown = TRUE, !.queue = Append(@, Sentinel)]
      [] OTHER -> [s EXCEPT !.shutdown = TRUE]

BroadcastShutdown ==
    sub' = [c \in Client |-> IF c \in Registered THEN RequestShutdown(sub[c]) ELSE sub[c]]

-----------------------------------------------------------------------------
\* External: the kernel appends a frame to the log.
AppendFrame ==
    /\ logLen < Len(BatchSize)
    /\ logLen' = logLen + 1
    /\ UNCHANGED <<serverVars, slots, sub, seen, restarts>>

ExtractorRuns == ~ stop /\ ~ halting /\ lock = 0

\* extractor_loop, phase A: poll, extract and push the whole batch.  A frame
\* without events is not broadcast.
PushBatch ==
    /\ ExtractorRuns
    /\ nextSeq <= logLen
    /\ LET pushed == cache \o Batch(nextSeq)
       IN  /\ cache' = Retained(pushed)
           /\ lastEvicted' = EvictedBy(pushed)
    /\ lock' = IF BatchSize[nextSeq] > 0 THEN nextSeq ELSE 0
    /\ nextSeq' = nextSeq + 1
    /\ UNCHANGED <<logLen, halting, stop, announced, slots, sub, seen, restarts>>

\* Phase B: snapshot the registry, enqueue the batch, release the lock.
Broadcast ==
    /\ lock # 0
    /\ sub' = [c \in Client |-> IF c \in Registered THEN Enqueue(sub[c], lock) ELSE sub[c]]
    /\ lock' = 0
    /\ UNCHANGED <<logLen, nextSeq, cache, lastEvicted, halting, stop, announced, slots,
                   seen, restarts>>

\* halt_extractor: the subscribers are notified, then stop is set.
HaltExtractor ==
    /\ ExtractorFails
    /\ ExtractorRuns
    /\ nextSeq <= logLen
    /\ halting' = TRUE
    /\ BroadcastShutdown
    /\ UNCHANGED <<logLen, nextSeq, cache, lastEvicted, lock, stop, announced, slots,
                   seen, restarts>>

SetStop ==
    /\ halting /\ ~ stop
    /\ stop' = TRUE
    /\ UNCHANGED <<logLen, nextSeq, cache, lastEvicted, lock, halting, announced, slots,
                   sub, seen, restarts>>

\* Server::run, step 3: the acceptor has left its loop.
AnnounceShutdown ==
    /\ stop /\ ~ announced
    /\ announced' = TRUE
    /\ BroadcastShutdown
    /\ UNCHANGED <<logLen, nextSeq, cache, lastEvicted, lock, halting, stop, slots, seen,
                   restarts>>

-----------------------------------------------------------------------------
\* handle_connection.

\* The acceptor takes a connection and starts its thread.
Accept(c) ==
    /\ sub[c].pc = "off" /\ ~ stop
    /\ sub' = [sub EXCEPT ![c] = [Offline EXCEPT !.pc = "accepted"]]
    /\ UNCHANGED <<logLen, serverVars, slots, seen, restarts>>

\* The handshake is read.
Subscribe(c, resume) ==
    /\ sub[c].pc = "accepted"
    /\ sub' = [sub EXCEPT ![c].pc = "open", ![c].resume = resume]
    /\ UNCHANGED <<logLen, serverVars, slots, seen, restarts>>

\* It asks for the live tail, for everything retained, or to resume from the
\* last seq the client received.
Handshake(c) == \E resume \in {0, FromOldest, seen[c]} : Subscribe(c, resume)

\* The handshake is malformed or does not come in time.
HandshakeFails(c) ==
    /\ sub[c].pc = "accepted"
    /\ sub' = [sub EXCEPT ![c].pc = "closed", ![c].frame = [kind |-> "invalid", seq |-> 0]]
    /\ UNCHANGED <<logLen, serverVars, slots, seen, restarts>>

\* SubscriberRegistry::register, or the capacity rejection.
Register(c) ==
    /\ sub[c].pc = "open"
    /\ IF MapThenSumSet(LAMBDA d : slots[d], Client) < MaxSubscribers
       THEN /\ sub' = [sub EXCEPT ![c].pc = "registered"]
            /\ slots' = [slots EXCEPT ![c] = @ + 1]
       ELSE /\ sub' = [sub EXCEPT ![c].pc = "closed", ![c].frame = [kind |-> "full", seq |-> 0]]
            /\ UNCHANGED slots
    /\ UNCHANGED <<logLen, serverVars, seen, restarts>>

\* The connection ends with a frame (or none) and leaves the registry.
Close(c, kind, seq) ==
    /\ sub' = [sub EXCEPT ![c].pc = "closed", ![c].queue = <<>>, ![c].pending = <<>>,
                          ![c].toWrite = <<>>, ![c].frame = [kind |-> kind, seq |-> seq]]
    /\ slots' = [slots EXCEPT ![c] = @ - 1]

\* range() under the cache lock, answered in the window or at the live tail.
TakeRange(c) ==
    /\ sub[c].pc = "registered" /\ lock = 0
    /\ ~ OutOfWindow(sub[c].resume)
    /\ sub' = [sub EXCEPT ![c].pc = "backfill", ![c].toWrite = Backfill(sub[c].resume)]
    /\ UNCHANGED <<logLen, serverVars, slots, seen, restarts>>

\* The carried seq: the partial front moves it only when it is what excludes
\* the request.
TruncatedSeq(from) == IF from + 1 < cache[1][1] THEN cache[1][1] ELSE cache[1][1] + 1

Truncate(c) ==
    /\ sub[c].pc = "registered" /\ lock = 0
    /\ OutOfWindow(sub[c].resume)
    /\ Close(c, "truncated", TruncatedSeq(sub[c].resume))
    /\ UNCHANGED <<logLen, serverVars, seen, restarts>>

\* The write of the Truncated frame fails: the ? returns before unregister.
TruncateWriteFails(c) ==
    /\ sub[c].pc = "registered" /\ lock = 0
    /\ OutOfWindow(sub[c].resume)
    /\ sub' = [sub EXCEPT ![c].pc = "closed", ![c].queue = <<>>]
    /\ UNCHANGED <<logLen, serverVars, slots, seen, restarts>>

\* One backfilled event is written and recorded.
WriteBackfill(c) ==
    /\ sub[c].pc = "backfill" /\ sub[c].toWrite # <<>>
    /\ sub' = [sub EXCEPT ![c].toWrite = Tail(@),
                          ![c].received = Append(@, Head(sub[c].toWrite)),
                          ![c].delivered = Head(sub[c].toWrite)[1]]
    /\ UNCHANGED <<logLen, serverVars, slots, seen, restarts>>

\* Fault: the race-window check of the stop flag is missing.
EndBackfillUnchecked(c) ==
    /\ sub[c].pc = "backfill" /\ sub[c].toWrite = <<>>
    /\ sub' = [sub EXCEPT ![c].pc = IF sub[c].delivered > 0 THEN "drain" ELSE "live"]
    /\ UNCHANGED <<logLen, serverVars, slots, seen, restarts>>

\* Step 3.5 and the start of dispatch_live.
EndBackfill(c) ==
    /\ sub[c].pc = "backfill" /\ sub[c].toWrite = <<>>
    /\ LET s == IF stop /\ ~ sub[c].shutdown THEN RequestShutdown(sub[c]) ELSE sub[c]
       IN  sub' = [sub EXCEPT ![c] =
                     [s EXCEPT !.pc = IF s.delivered > 0 THEN "drain" ELSE "live"]]
    /\ UNCHANGED <<logLen, serverVars, slots, seen, restarts>>

-----------------------------------------------------------------------------
\* dispatch_live.

\* Step 1: one message of the queue is dropped as a duplicate or kept.
Drain(c) ==
    /\ sub[c].pc = "drain" /\ sub[c].queue # <<>>
    /\ LET m == Head(sub[c].queue)
       IN  sub' = [sub EXCEPT ![c].queue = Tail(@),
                              ![c].pending = IF m = Sentinel \/ m > sub[c].delivered
                                             THEN Append(@, m) ELSE @]
    /\ UNCHANGED <<logLen, serverVars, slots, seen, restarts>>

EndDrain(c) ==
    /\ sub[c].pc = "drain" /\ sub[c].queue = <<>>
    /\ sub' = [sub EXCEPT ![c].pc = "live"]
    /\ UNCHANGED <<logLen, serverVars, slots, seen, restarts>>

AtLoopTop(c) == sub[c].pc = "live" /\ sub[c].toWrite = <<>>

SendServerShutdown(c) ==
    /\ AtLoopTop(c) /\ sub[c].shutdown
    /\ Close(c, "shutdown", sub[c].delivered)
    /\ UNCHANGED <<logLen, serverVars, seen, restarts>>

SendLagExceeded(c) ==
    /\ AtLoopTop(c) /\ ~ sub[c].shutdown /\ sub[c].disconnected
    /\ Close(c, "lag", sub[c].delivered)
    /\ UNCHANGED <<logLen, serverVars, seen, restarts>>

\* Both flags were clear: the thread goes on to wait for a message.
FlagsClear(c) ==
    /\ AtLoopTop(c) /\ ~ sub[c].shutdown /\ ~ sub[c].disconnected
    /\ sub' = [sub EXCEPT ![c].pc = "recv"]
    /\ UNCHANGED <<logLen, serverVars, slots, seen, restarts>>

\* Fault: what the drain kept is forgotten.
WaitingQueueOnly(c) == sub[c].queue

\* What the drain kept comes first, then the queue.
Waiting(c) == sub[c].pending \o sub[c].queue

NextBatch(c) ==
    /\ sub[c].pc = "recv"
    /\ Waiting(c) # <<>> /\ Head(Waiting(c)) # Sentinel
    /\ sub' = [sub EXCEPT
                 ![c].pc = "live",
                 ![c].pending = IF @ = <<>> THEN @ ELSE Tail(@),
                 ![c].queue = IF sub[c].pending = <<>> THEN Tail(@) ELSE @,
                 ![c].toWrite = Batch(Head(Waiting(c)))]
    /\ UNCHANGED <<logLen, serverVars, slots, seen, restarts>>

NextSentinel(c) ==
    /\ sub[c].pc = "recv"
    /\ Waiting(c) # <<>> /\ Head(Waiting(c)) = Sentinel
    /\ Close(c, "shutdown", sub[c].delivered)
    /\ UNCHANGED <<logLen, serverVars, seen, restarts>>

RecvTimeout(c) ==
    /\ sub[c].pc = "recv" /\ Waiting(c) = <<>>
    /\ sub' = [sub EXCEPT ![c].pc = "live"]
    /\ UNCHANGED <<logLen, serverVars, slots, seen, restarts>>

\* One event of a live batch is written; the last one records the seq.
WriteLive(c) ==
    /\ sub[c].pc = "live" /\ sub[c].toWrite # <<>>
    /\ sub' = [sub EXCEPT ![c].toWrite = Tail(@),
                          ![c].received = Append(@, Head(sub[c].toWrite)),
                          ![c].delivered = IF Len(sub[c].toWrite) = 1
                                           THEN Head(sub[c].toWrite)[1] ELSE @]
    /\ UNCHANGED <<logLen, serverVars, slots, seen, restarts>>

\* A write fails or times out: the connection ends without a frame.
WriteFails(c) ==
    /\ sub[c].pc \in {"backfill", "live"} /\ sub[c].toWrite # <<>>
    /\ Close(c, "none", 0)
    /\ UNCHANGED <<logLen, serverVars, seen, restarts>>

\* An idle wait finds the socket closed by the peer.
PeerClosed(c) ==
    /\ sub[c].pc = "recv" /\ Waiting(c) = <<>>
    /\ Close(c, "none", 0)
    /\ UNCHANGED <<logLen, serverVars, seen, restarts>>

-----------------------------------------------------------------------------
\* External: the client notes the last seq of the connection and may dial
\* again.  A batch cut off by a failed write does not count.
LastWhole(r) ==
    Max({0} \union {r[i][1] : i \in {j \in DOMAIN r : r[j][2] = BatchSize[r[j][1]]}})

Noted(c) == Max({seen[c], LastWhole(sub[c].received)})

HangUp(c) ==
    /\ sub[c].pc = "closed"
    /\ sub' = [sub EXCEPT ![c] = Offline]
    /\ seen' = [seen EXCEPT ![c] = Noted(c)]
    /\ UNCHANGED <<logLen, serverVars, slots, restarts>>

FreshServer ==
    /\ nextSeq' = 1
    /\ cache' = <<>>
    /\ lastEvicted' = 0
    /\ lock' = 0
    /\ halting' = FALSE
    /\ stop' = FALSE
    /\ announced' = FALSE
    /\ slots' = [c \in Client |-> 0]

\* The process ends, at any point, and is started again: the tail is opened
\* at the start of the log and the cache is empty.
Restart ==
    /\ restarts < MaxRestarts
    /\ restarts' = restarts + 1
    /\ FreshServer
    /\ sub' = [c \in Client |-> Offline]
    /\ seen' = [c \in Client |-> Noted(c)]
    /\ UNCHANGED logLen

-----------------------------------------------------------------------------
Init ==
    /\ logLen = 0
    /\ nextSeq = 1
    /\ cache = <<>>
    /\ lastEvicted = 0
    /\ lock = 0
    /\ halting = FALSE
    /\ stop = FALSE
    /\ announced = FALSE
    /\ slots = [c \in Client |-> 0]
    /\ sub = [c \in Client |-> Offline]
    /\ seen = [c \in Client |-> 0]
    /\ restarts = 0

Extractor == PushBatch \/ Broadcast \/ HaltExtractor \/ SetStop

\* The steps a connection's thread owes, once the handshake is answered or has
\* timed out.
Dispatch(c) ==
    \/ Register(c) \/ TakeRange(c) \/ Truncate(c)
    \/ WriteBackfill(c) \/ EndBackfill(c)
    \/ Drain(c) \/ EndDrain(c)
    \/ SendServerShutdown(c) \/ SendLagExceeded(c) \/ FlagsClear(c)
    \/ NextBatch(c) \/ NextSentinel(c) \/ RecvTimeout(c)
    \/ WriteLive(c)

Greet(c) == Handshake(c) \/ HandshakeFails(c)

LinkFails(c) == TruncateWriteFails(c) \/ WriteFails(c) \/ PeerClosed(c)

Next ==
    \/ AppendFrame
    \/ Extractor
    \/ AnnounceShutdown
    \/ \E c \in Client :
         Greet(c) \/ Dispatch(c) \/ LinkFails(c) \/ Accept(c) \/ HangUp(c)
    \/ Restart

Spec == Init /\ [][Next]_vars

-----------------------------------------------------------------------------
\* Properties.

\* No event reaches a subscriber twice, seqs never go back, and a later seq
\* comes only after the whole batch of the earlier one (abi.md 11.4): the
\* drain of dispatch_live, range's care for a partial front and the one-slot
\* batches together.
WholeBatchesInOrder ==
    \A c \in Client :
        LET r == sub[c].received
        IN  /\ r # <<>> => r[1][2] = 1
            /\ \A i \in 1 .. Len(r) - 1 :
                 \/ r[i+1] = <<r[i][1], r[i][2] + 1>>
                 \/ /\ r[i+1][1] > r[i][1] /\ r[i+1][2] = 1
                    /\ r[i][2] = BatchSize[r[i][1]]

\* The first frame with events after seq.
NextFrame(seq) == Min({s \in DOMAIN BatchSize : s > seq /\ BatchSize[s] > 0})

\* The stream has no gap in its seqs (abi.md 11.4): two frames received one
\* after the other are consecutive frames with events.
NoGaps ==
    \A c \in Client : \A i \in 1 .. Len(sub[c].received) - 1 :
        LET a == sub[c].received[i][1]
            b == sub[c].received[i+1][1]
        IN  a # b => b = NextFrame(a)

Ended(c) == sub[c].pc \in {"off", "closed"}

\* Once the server stops, every connection is told or dropped: none is left
\* waiting, whenever it registered relative to the two broadcasts.
StopEndsAll == []<>(stop => \A c \in Client : Ended(c))

-----------------------------------------------------------------------------
\* What abi.md and subscription.rs say, and the code does not keep: TLC refutes
\* each of them.

\* After LAG_EXCEEDED or SERVER_SHUTDOWN the client resumes from the carried
\* seq (abi.md 11.6, 11.6.1): for a client that had itself resumed, that is
\* never before the point it had resumed from.
FrameKeepsResumePoint ==
    \A c \in Client :
        sub[c].frame.kind \in {"lag", "shutdown"} /\ sub[c].resume # FromOldest =>
            sub[c].frame.seq >= sub[c].resume

\* The seq carried by TRUNCATED is the smallest the client could resume from
\* (abi.md 11.3): one less would still be out of the window.
TruncatedSeqIsSmallest ==
    [][\A c \in Client :
         sub[c].pc = "registered" /\ sub'[c].frame.kind = "truncated" =>
             OutOfWindow(sub'[c].frame.seq - 1)]_vars

\* The registry's entries are the connections being served: a finished
\* connection takes none of the --max-subscribers places (unregister,
\* "called by the dispatch thread when it finishes").
EntriesAreServed ==
    \A c \in Client : slots[c] = IF c \in Registered THEN 1 ELSE 0

=============================================================================
