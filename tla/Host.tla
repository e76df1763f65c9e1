-------------------------------- MODULE Host --------------------------------
(***************************************************************************)
(* knomosis-host: listeners accept connections under a slot limit, one     *)
(* handler per connection reads frames and submits them to a bounded queue *)
(* (FIFO channel or fair scheduler), one worker thread dispatches them to  *)
(* the kernel, and the handler writes one verdict per request, in order.   *)
(* A stop flag starts the shutdown.                                        *)
(*                                                                         *)
(* A request is named <<conn, frame number>>.  What a client sends is part *)
(* of the scenario: 4-byte words, of which a body is one opaque word.      *)
(* Timeouts are not timed: a bounded wait may end whenever it has begun.   *)
(***************************************************************************)
EXTENDS Integers, SequencesExt, FairQueue, BudgetGate

CONSTANTS
    Conn,
    Scenario      \* named scenarios: what the clients send, and the host's settings

VARIABLES
    sc,          \* the scenario's name, fixed at the start
    stop,        \* the stop flag
    server,      \* Server::run: "running", "draining", "joining", "stopped"
    slots,       \* connection_counter
    conn,        \* each connection's handler
    fifo,        \* the channel's buffer, under the FIFO scheduler
    drr,         \* DrrState::outer, under the fair scheduler
    closed,      \* DrrState::closed; FIFO: the receiver has been dropped
    worker,      \* the worker thread
    reply,       \* the capacity-1 reply channel of each request
    applied,     \* history: the requests the kernel admitted
    dispatched,  \* history: the requests handed to the kernel, in order
    passed       \* history: <<g, f>>: flow f was served since flow g waits

queueVars == <<fifo, drr, closed>>
kernelVars == <<applied, dispatched, passed, gateVars>>
vars == <<sc, stop, server, slots, conn, queueVars, worker, reply, kernelVars>>

Host == Scenario[sc]
Fair == Host.scheduler = "drr"
Client(c) == Host.client[c]
Frame(r) == Client(r[1]).frames[r[2]]
RequestIn == [s \in DOMAIN Scenario |->
    UNION {{<<c, i>> : i \in 1 .. Len(Scenario[s].client[c].frames)} : c \in Conn}]
Request == RequestIn[sc]

-----------------------------------------------------------------------------
\* frame.rs.  The words a client puts on the wire (encode_frame and
\* encode_hinted_frame): the preamble once on a hinted connection, two words of
\* hint per frame there, a length, a body.  The last "cut" words never arrive.

Word(kind, n) == [kind |-> kind, n |-> n]
FrameWords(client, i) ==
    LET f == client.frames[i]
    IN  (IF client.hinted THEN <<Word("hint", f.hint), Word("hint", f.hint)>> ELSE <<>>)
        \o <<Word(f.length, i), Word("body", i)>>
Words(client) ==
    LET frames == FlattenSeq([i \in 1 .. Len(client.frames) |-> FrameWords(client, i)])
        all    == IF client.hinted THEN <<Word("KNH2", 0)>> \o frames ELSE frames
    IN  SubSeq(all, 1, Len(all) - client.cut)
SentIn == [s \in DOMAIN Scenario |-> [c \in Conn |-> Words(Scenario[s].client[c])]]
Sent(c) == SentIn[sc][c]

LEGACY_SIGNER_HINT == 0

ReadError(res) == [res |-> res, i |-> 0, hint |-> 0, pos |-> 0]

\* The words have run out: the peer closed, stays silent, or trickles bytes.
\* "begun" says whether part of this request was already read.
ReadEnd(c, begun) ==
    ReadError(CASE Client(c).end = "eof"     -> IF begun THEN "fatal" ELSE "closed"
                [] Client(c).end = "stall"   -> "timeout"
                [] Client(c).end = "trickle" -> IF begun THEN "fatal" ELSE "timeout")

\* read_frame_bounded (hintWords = 0) and read_hinted_frame_bounded (2), with
\* read_payload: a zero or oversize length is fatal before any body is read.
ReadFrame(c, start, hintWords) ==
    LET w == Sent(c)
        h == start + hintWords
    IN  IF Len(w) < start THEN ReadEnd(c, FALSE)
        ELSE IF Len(w) < h THEN ReadEnd(c, TRUE)
        ELSE IF w[h].kind # "length" THEN ReadError("fatal")
        ELSE IF Len(w) = h THEN ReadEnd(c, TRUE)
        ELSE [res |-> "ok", i |-> w[h + 1].n, pos |-> h + 2,
              hint |-> IF hintWords = 0 THEN LEGACY_SIGNER_HINT ELSE w[start].n]

\* negotiate_connection: the magic peek on the first word.
Negotiated(c) == Sent(c) # <<>> /\ Sent(c)[1].kind = "KNH2"

\* ConnReader::read_next: negotiated once, then read per that classification.
ReadNext(c, pos) ==
    IF Negotiated(c) THEN ReadFrame(c, IF pos = 1 THEN 2 ELSE pos, 2)
    ELSE ReadFrame(c, pos, 0)

-----------------------------------------------------------------------------
\* queue.rs.

\* FairQueue::try_submit and BoundedQueue::try_submit: Busy when a cap is hit or
\* the queue is closed (FIFO: disconnected).
Accepts(c, hint, r) ==
    /\ ~closed
    /\ IF Fair THEN Enqueue(drr, c, hint, r, Host.caps).ok ELSE Len(fifo) < Host.caps.global

Enqueues(c, hint, r) ==
    /\ IF Fair
       THEN drr' = Enqueue(drr, c, hint, r, Host.caps).store /\ UNCHANGED fifo
       ELSE fifo' = Append(fifo, r) /\ UNCHANGED drr
    /\ reply' = [reply EXCEPT ![r] = "pending"]
    /\ UNCHANGED closed

\* QueueHandle::pipeline_capacity, and run_persistent's max(1).
PipelineCapacity ==
    LET cap == IF Fair THEN Host.caps.connBacklog ELSE Host.caps.global
    IN  IF cap = 0 THEN 1 ELSE cap

QueueEmpty == IF Fair THEN drr.depth = 0 ELSE fifo = <<>>
NextRequest == IF Fair THEN Pick(drr).req ELSE Head(fifo)

\* The flows the next pick serves, one of each tier.
ServedFlows ==
    LET c == Head(drr.active) IN {<<c>>, <<c, Head(drr.flows[c].active)>>}

\* The flows of those two tiers that keep waiting.
WaitingFlows(f) ==
    IF Len(f) = 1 THEN {<<d>> : d \in Keys(drr) \ {f[1]}}
    ELSE {<<f[1], g>> : g \in Keys(drr.flows[f[1]]) \ {f[2]}}

Dequeues ==
    IF Fair
    THEN /\ drr' = Pick(drr).tier
         /\ passed' = {p \in passed : p[1] \notin ServedFlows}
                        \cup UNION {WaitingFlows(f) \X {f} : f \in ServedFlows}
         /\ UNCHANGED fifo
    ELSE fifo' = Tail(fifo) /\ UNCHANGED <<drr, passed>>

-----------------------------------------------------------------------------
\* listener.rs: accepting.

NoPending == [r |-> <<>>, v |-> "none"]
Await(r) == [r |-> r, v |-> "await"]
Immediate(v) == [r |-> <<>>, v |-> v]

NewConn == [pc |-> "new", mode |-> "none", pos |-> 1, held |-> NoPending,
            pipe |-> <<>>, dead |-> FALSE, out |-> <<>>]

Closed(k, answers) ==
    [k EXCEPT !.pc = "closed", !.out = k.out \o answers,
              !.held = NoPending, !.pipe = <<>>]

\* ConnectionSlot::drop, when a handler ends.
Release == slots' = slots - 1

\* ConnectionSlot::try_acquire.
TryAcquire == slots < Host.maxConns

\* A TLS connection is always one-shot; a plaintext one is persistent when so
\* configured, unless its socket cannot be cloned.
Modes(c) ==
    IF ~Host.persistent \/ Client(c).proto = "tls" THEN {"one-shot"}
    ELSE IF Host.spawnFails THEN {"persistent", "one-shot"} ELSE {"persistent"}

\* run_persistent reads the flags before each frame: a flag set later is seen
\* one frame later.
NextRead(k) == IF stop \/ k.dead THEN "drop" ELSE "read"

\* accept_loop of the three listeners, which may have read the stop flag before
\* it was set.
Accept(c) ==
    /\ server = "running" /\ conn[c].pc = "new"
    /\ TryAcquire
    /\ \E m \in Modes(c) :
         conn' = [conn EXCEPT ![c].mode = m,
                              ![c].pc = IF m = "persistent" THEN NextRead(NewConn) ELSE "read"]
    /\ slots' = slots + 1
    /\ UNCHANGED <<sc, stop, server, queueVars, worker, reply, kernelVars>>

\* At the limit, or when no thread can be spawned, the connection is answered
\* Busy (TLS, and a persistent connection without its writer: just closed) and
\* keeps no slot.
Refuse(c) ==
    /\ server = "running" /\ conn[c].pc = "new"
    /\ TryAcquire => Host.spawnFails
    /\ \E answers \in {<<"Busy">>, <<>>} :
         /\ answers = <<>> => Client(c).proto = "tls" \/ (Host.persistent /\ TryAcquire)
         /\ Client(c).proto = "tls" => answers = <<>>
         /\ conn' = [conn EXCEPT ![c] = Closed(@, answers)]
    /\ UNCHANGED <<sc, stop, server, slots, queueVars, worker, reply, kernelVars>>

-----------------------------------------------------------------------------
\* handle_connection: the one-shot cycle.

OneShotReading(c) == conn[c].pc = "read" /\ conn[c].mode = "one-shot" /\ server # "stopped"

\* No request: a clean close owes nothing, any other read error a ParseError.
OneShotReadFails(c) ==
    LET res == ReadNext(c, 1).res
    IN  /\ OneShotReading(c) /\ res # "ok"
        /\ conn' = [conn EXCEPT ![c] = Closed(@, IF res = "closed" THEN <<>> ELSE <<"ParseError">>)]
        /\ Release
        /\ UNCHANGED <<sc, stop, server, queueVars, worker, reply, kernelVars>>

OneShotSubmit(c) ==
    LET read == ReadNext(c, 1)
        r    == <<c, read.i>>
    IN  /\ OneShotReading(c) /\ read.res = "ok"
        /\ IF Accepts(c, read.hint, r)
           THEN /\ Enqueues(c, read.hint, r)
                /\ conn' = [conn EXCEPT ![c].pc = "await", ![c].held = Await(r)]
                /\ UNCHANGED slots
           ELSE /\ conn' = [conn EXCEPT ![c] = Closed(@, <<"Busy">>)]
                /\ Release
                /\ UNCHANGED <<queueVars, reply>>
        /\ UNCHANGED <<sc, stop, server, worker, kernelVars>>

\* What recv_timeout on a reply channel may yield: the verdict, or on a timeout
\* or a dropped sender the stand-in for a kernel that did not answer.
Resolved(r, v) ==
    \/ reply[r] \notin {"pending", "lost"} /\ v = reply[r] /\ UNCHANGED reply
    \/ reply[r] = "lost" /\ v = "NotAdmissible" /\ UNCHANGED reply
    \/ /\ reply[r] = "pending" /\ Host.timeouts
       /\ v = "NotAdmissible"
       /\ reply' = [reply EXCEPT ![r] = "abandoned"]

OneShotReply(c) ==
    /\ conn[c].pc = "await" /\ server # "stopped"
    /\ \E v \in {"Ok", "NotAdmissible", "ParseError"} :
         /\ Resolved(conn[c].held.r, v)
         /\ conn' = [conn EXCEPT ![c] = Closed(@, <<v>>)]
    /\ Release
    /\ UNCHANGED <<sc, stop, server, queueVars, worker, kernelVars>>

-----------------------------------------------------------------------------
\* run_persistent: the reader thread.

\* Fault: the answer is handed to the writer before the queue's are.
HandOffFirst(k) == <<k.held>> \o k.pipe

\* The hand-off channel is ordered.
HandOff(k) == Append(k.pipe, k.held)

PersistentReading(c) == conn[c].pc = "read" /\ conn[c].mode = "persistent" /\ server # "stopped"

\* End of requests: a clean close or an idle timeout; a framing error first
\* queues one ParseError.
ReaderEnds(c) ==
    LET res == ReadNext(c, conn[c].pos).res
    IN  /\ PersistentReading(c) /\ res # "ok"
        /\ conn' = [conn EXCEPT ![c].pc = IF res = "fatal" THEN "sendlast" ELSE "drop",
                                ![c].held = IF res = "fatal" THEN Immediate("ParseError") ELSE @]
        /\ UNCHANGED <<sc, stop, server, slots, queueVars, worker, reply, kernelVars>>

ReaderSubmits(c) ==
    LET read == ReadNext(c, conn[c].pos)
        r    == <<c, read.i>>
        Holding(p) == [conn EXCEPT ![c].pc = "send", ![c].pos = read.pos, ![c].held = p]
    IN  /\ PersistentReading(c) /\ read.res = "ok"
        /\ IF Accepts(c, read.hint, r)
           THEN Enqueues(c, read.hint, r) /\ conn' = Holding(Await(r))
           ELSE conn' = Holding(Immediate("Busy")) /\ UNCHANGED <<queueVars, reply>>
        /\ UNCHANGED <<sc, stop, server, slots, worker, kernelVars>>

\* resp_tx.send blocks while the channel is full, and fails when the writer has
\* gone and dropped its end.  The head of "pipe" is the one the writer resolves.
CanSend(k) == ~k.dead => Len(k.pipe) <= PipelineCapacity

ReaderSends(c) ==
    LET k == conn[c]
    IN  /\ k.pc \in {"send", "sendlast"} /\ server # "stopped"
        /\ CanSend(k)
        /\ conn' = [conn EXCEPT ![c] =
              [k EXCEPT !.pc   = IF k.pc = "sendlast" THEN "drop" ELSE NextRead(k),
                        !.pipe = IF k.dead THEN <<>> ELSE HandOff(k),
                        !.held = NoPending]]
        /\ UNCHANGED <<sc, stop, server, slots, queueVars, worker, reply, kernelVars>>

\* The writer has drained the channel, or died; the handler joins it and ends.
HandlerJoins(c) ==
    /\ conn[c].pc = "drop" /\ server # "stopped"
    /\ ~conn[c].dead => conn[c].pipe = <<>>
    /\ conn' = [conn EXCEPT ![c] = Closed(@, <<>>)]
    /\ Release
    /\ UNCHANGED <<sc, stop, server, queueVars, worker, reply, kernelVars>>

\* persistent_writer_loop: the next verdict is resolved and written, or the
\* client is found to be gone.
WriterWrites(c) ==
    LET k == conn[c]
        p == Head(k.pipe)
    IN  /\ k.pipe # <<>> /\ ~k.dead /\ server # "stopped"
        /\ \E v \in {"Ok", "NotAdmissible", "ParseError", "Busy"} :
             /\ IF p.v = "await" THEN Resolved(p.r, v) ELSE v = p.v /\ UNCHANGED reply
             /\ \/ conn' = [conn EXCEPT ![c].pipe = Tail(@), ![c].out = Append(@, v)]
                \/ Client(c).leaves /\ conn' = [conn EXCEPT ![c].dead = TRUE]
        /\ UNCHANGED <<sc, stop, server, slots, queueVars, worker, kernelVars>>

-----------------------------------------------------------------------------
\* server.rs: the worker thread.

Worker(pc, r) == worker' = [pc |-> pc, req |-> r]

\* Fault: the fair worker drains without closing the queue first.
ClosesOnStopNot == UNCHANGED closed

\* fair_worker_loop closes the queue, under its lock, before it drains.
ClosesOnStop == closed' = Fair

\* The stop flag, read after each dispatch and each poll timeout.  (FIFO: the
\* channel is disconnected only later in the shutdown.)
Checked == IF stop THEN Worker("drain", <<>>) /\ ClosesOnStop
           ELSE Worker("recv", <<>>) /\ UNCHANGED closed

WorkerIdles ==
    /\ worker.pc = "recv" /\ QueueEmpty /\ stop
    /\ Checked
    /\ UNCHANGED <<sc, stop, server, slots, conn, fifo, drr, reply, kernelVars>>

\* FairQueue::next / drain_one, and try_next / try_drain_one while draining.
WorkerTakes ==
    /\ worker.pc \in {"recv", "drain"} /\ ~QueueEmpty /\ server # "stopped"
    /\ Dequeues
    /\ Worker(IF worker.pc = "recv" THEN "busy" ELSE "drainbusy", NextRequest)
    /\ UNCHANGED <<sc, stop, server, slots, conn, closed, reply, applied, dispatched, gateVars>>

WorkerDrained ==
    /\ worker.pc = "drain" /\ QueueEmpty /\ server # "stopped"
    /\ Worker(IF Fair THEN "exited" ELSE "leave", <<>>)
    /\ UNCHANGED <<sc, stop, server, slots, conn, queueVars, reply, kernelVars>>

\* The FIFO worker returns: its receiver is dropped, and with it whatever was
\* enqueued since the last look at the channel, reply senders included.
WorkerLeaves ==
    /\ worker.pc = "leave" /\ server # "stopped"
    /\ Worker("exited", <<>>)
    /\ closed' = TRUE
    /\ fifo' = <<>>
    /\ reply' = [r \in Request |-> IF \E i \in DOMAIN fifo : fifo[i] = r THEN "lost" ELSE reply[r]]
    /\ UNCHANGED <<sc, stop, server, slots, conn, drr, kernelVars>>

\* CommandKernel::submit: the subprocess admits and exits 0; or it refuses, or
\* cannot be run; or it is killed on the timeout, before or after its log write.
CommandSubmit(r, v) ==
    /\ \/ v = "Ok" /\ applied' = applied \cup {r}
       \/ v = "NotAdmissible" /\ UNCHANGED applied
       \/ v = "NotAdmissible" /\ Host.timeouts /\ applied' = applied \cup {r}
    /\ UNCHANGED gateVars

\* MockKernel::submit, with the budget gate.
MockSubmit(r, v) ==
    /\ v = Verdict(Frame(r).payload)
    /\ Submit(Frame(r).payload)
    /\ applied' = IF v = "Ok" THEN applied \cup {r} ELSE applied

\* The kernel call and the reply, which is dropped if the handler gave up.
WorkerDispatches ==
    LET r == worker.req
    IN  /\ worker.pc \in {"busy", "drainbusy"} /\ server # "stopped"
        /\ \E v \in {"Ok", "NotAdmissible", "ParseError"} :
             /\ IF Host.kernel = "mock" THEN MockSubmit(r, v) ELSE CommandSubmit(r, v)
             /\ reply' = [reply EXCEPT ![r] = IF @ = "pending" THEN v ELSE @]
        /\ dispatched' = Append(dispatched, r)
        /\ IF worker.pc = "busy" THEN Checked ELSE Worker("drain", <<>>) /\ UNCHANGED closed
        /\ UNCHANGED <<sc, stop, server, slots, conn, fifo, drr, passed>>

-----------------------------------------------------------------------------
\* Server::run: the shutdown phases.

SetStop ==
    /\ ~stop /\ Host.stops
    /\ stop' = TRUE
    /\ UNCHANGED <<sc, server, slots, conn, queueVars, worker, reply, kernelVars>>

ListenersExit ==
    /\ server = "running" /\ stop
    /\ server' = "draining"
    /\ UNCHANGED <<sc, stop, slots, conn, queueVars, worker, reply, kernelVars>>

\* wait_for_handlers_drain: no handler is left, or the drain deadline passed.
HandlersDrained ==
    /\ server = "draining" /\ (slots # 0 => Host.timeouts)
    /\ server' = "joining"
    /\ UNCHANGED <<sc, stop, slots, conn, queueVars, worker, reply, kernelVars>>

WorkerJoined ==
    /\ server = "joining" /\ worker.pc = "exited"
    /\ server' = "stopped"
    /\ UNCHANGED <<sc, stop, slots, conn, queueVars, worker, reply, kernelVars>>

-----------------------------------------------------------------------------
Init ==
    /\ sc \in DOMAIN Scenario
    /\ stop = FALSE /\ server = "running" /\ slots = 0
    /\ conn = [c \in Conn |-> NewConn]
    /\ fifo = <<>> /\ drr = EmptyTier /\ closed = FALSE
    /\ worker = [pc |-> "recv", req |-> <<>>]
    /\ reply = [r \in Request |-> "none"]
    /\ applied = {} /\ dispatched = <<>> /\ passed = {}
    /\ GateInit

WorkerSteps == WorkerIdles \/ WorkerTakes \/ WorkerDrained \/ WorkerLeaves \/ WorkerDispatches
ServerSteps == ListenersExit \/ HandlersDrained \/ WorkerJoined
HandlerSteps(c) ==
    \/ Accept(c) \/ Refuse(c)
    \/ OneShotReadFails(c) \/ OneShotSubmit(c) \/ OneShotReply(c)
    \/ ReaderEnds(c) \/ ReaderSubmits(c) \/ ReaderSends(c) \/ HandlerJoins(c)
    \/ WriterWrites(c)
ThreadSteps == WorkerSteps \/ ServerSteps \/ \E c \in Conn : HandlerSteps(c)

Next == ThreadSteps \/ SetStop

Spec == Init /\ [][Next]_vars

\* Some thread with work to do keeps being scheduled: no step of a thread can be
\* repeated for ever, so this is as good as fairness to each thread.
FairSpec == Spec /\ WF_vars(ThreadSteps)

-----------------------------------------------------------------------------

\* The i-th answer on a connection (persistent_writer_loop, handle_connection)
\* is about its i-th request, however the verdicts and the immediate Busy answers
\* overtook each other: Ok only if the kernel admitted that request, and Busy
\* (try_submit at a cap or closed) only if it was not and will not be run.
AnswersAreTrue ==
    \A c \in Conn : \A i \in DOMAIN conn[c].out :
        /\ conn[c].out[i] = "Ok" => <<c, i>> \in applied
        /\ conn[c].out[i] = "Busy" =>
             /\ <<c, i>> \notin Range(dispatched) /\ worker.req # <<c, i>>
             /\ <<c, i>> \in Request => reply[<<c, i>>] = "none"

\* Round-robin at both tiers (Tier::pick): a flow is not served a second time
\* while another flow of its tier, waiting since the first time, is passed over.
RoundRobin ==
    [][Fair /\ drr'.depth < drr.depth =>
         \A f \in ServedFlows : \A p \in passed : p[2] # f]_vars

\* "queued requests complete on shutdown" (Server::run): the stop flag leads to
\* the end of run, where listeners, handlers and the worker never wait on each
\* other for ever, and what the fair queue accepted is dispatched first.
ShutdownCompletes ==
    LET owed == {r \in Request : reply[r] # "none" /\ r \notin Range(dispatched)}
    IN  /\ stop ~> server = "stopped"
        /\ (Fair /\ owed # {}) ~> owed = {}
=============================================================================
