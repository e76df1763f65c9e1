------------------------------ MODULE Gateway ------------------------------
(***************************************************************************)
(* knomosis-gateway, the request path: one thread per HTTP connection      *)
(* reads requests, runs the credential and rate gates before the body,     *)
(* and forwards a submitted action to the host over a pool of persistent   *)
(* connections, behind an idempotency cache.                               *)
(*                                                                         *)
(* A request is <<c, i>>, its head being token i of client c's stream; a   *)
(* declared body is the next token.  The host is external: it answers a    *)
(* frame when it likes, and may close a connection.  A deadline may fire   *)
(* whenever the wait it bounds has begun.                                  *)
(***************************************************************************)
EXTENDS Integers, Sequences, FiniteSets, Functions

CONSTANTS
    Client,
    Scenario     \* named scenarios: what the clients send, and the settings

VARIABLES
    sc,          \* the scenario's name, fixed at the start
    down,        \* the shutdown flag
    serving,     \* serve() has not returned
    active,      \* active_connections (and the listener's cap counter)
    thread,      \* each connection's thread
    clock,       \* time, in refill intervals of the rate limiter
    bucket,      \* RateLimiter::buckets, of the credentials seen
    charged,     \* history: when each credential's requests were let through
    cache,       \* IdempotencyCache::entries, by scoped key
    tick,        \* IdempotencyCache::tick
    inflight,    \* HostPool::in_flight
    idle,        \* HostPool::idle
    link,        \* the connections opened to the host
    framed,      \* history: the requests whose whole frame was written, in order
    admitted,    \* the host: actions admitted
    said         \* the host: <<action, verdict>> it has answered

frontVars == <<down, serving, active>>
rateVars == <<clock, bucket, charged>>
cacheVars == <<cache, tick>>
poolVars == <<inflight, idle, link, framed>>
hostVars == <<admitted, said>>
vars == <<sc, frontVars, thread, rateVars, cacheVars, poolVars, hostVars>>

\* The statuses read_head rejects a malformed head with.
RejectStatus == {"400", "413", "414", "417", "431", "501", "505"}

\* What a client's stream is made of: request heads, each with the body it
\* announces, and bodies.
Token ==
    [kind : {"body"}] \cup
    [kind : {"head"}, method : STRING, path : STRING, auth : STRING, key : STRING, body : STRING,
     length : Nat, keep : BOOLEAN, type : STRING, reject : RejectStatus \cup {"none"}]

ASSUME GatewayConstants ==
    /\ IsFiniteSet(Client)
    /\ \A s \in DOMAIN Scenario :
         /\ Scenario[s].stream \in [Client -> Seq(Token)]
         /\ Scenario[s].burst \in Nat
         /\ Scenario[s].maxInflight \in Nat /\ Scenario[s].poolSize \in Nat
         /\ Scenario[s].hostPersists \in BOOLEAN

Conf == Scenario[sc]
Stream(c) == Conf.stream[c]
Req(c) == Stream(c)[thread[c].at]

-----------------------------------------------------------------------------
\* Connection threads.

NewThread == [pc |-> "new", at |-> 1, start |-> 0, bodyRead |-> FALSE,
              failed |-> FALSE, link |-> 0, fresh |-> FALSE,
              answer |-> <<>>, out |-> <<>>]

Answer(status, verdict) == [status |-> status, verdict |-> verdict]
Problem(status) == Answer(status, "none")

Running(c, pc) == thread[c].pc = pc /\ serving

Goes(c, pc) == thread' = [thread EXCEPT ![c].pc = pc]
Answers(c, pc, a) == thread' = [thread EXCEPT ![c].pc = pc, ![c].answer = a]

\* ConnGuard::drop, when the thread ends.
Ended(t) == [t EXCEPT !.pc = "closed"]
Closes(c, t) == thread' = [thread EXCEPT ![c] = Ended(t)] /\ active' = active - 1

\* run_connection's loop head: the shutdown flag, a fresh read deadline.
LoopHead(t, at) ==
    [t EXCEPT !.pc = "head", !.at = at, !.start = clock, !.bodyRead = FALSE,
              !.failed = FALSE, !.link = 0, !.fresh = FALSE, !.answer = <<>>]

\* accept_loop: past the cap, or without a thread, the socket is just closed.
Accept(c) ==
    /\ Running(c, "new") /\ ~down
    /\ \/ /\ active < Conf.maxConnections
          /\ thread' = [thread EXCEPT ![c] = LoopHead(@, 1)]
          /\ active' = active + 1
       \/ /\ active < Conf.maxConnections => Conf.spawnFails
          /\ thread' = [thread EXCEPT ![c] = Ended(@)]
          /\ UNCHANGED active
    /\ UNCHANGED <<sc, down, serving, rateVars, cacheVars, poolVars, hostVars>>

\* serve_parsed: a body left unread, or cut short, ends the connection.
MustClose(c, t) == t.failed \/ (~t.bodyRead /\ Req(c).length > 0)

Keeps(c, t) == Req(c).keep /\ ~MustClose(c, t)

\* The position of the next unread token.
Rest(c, t) ==
    t.at + IF t.bodyRead /\ ~t.failed /\ Req(c).length > 0 THEN 2 ELSE 1

\* write_response, then the next loop iteration or the close (with its
\* lingering drain).  A client that has left gets no answer.
Responds(c, t, a) ==
    LET told == [t EXCEPT !.out = Append(@, <<t.at, a>>)]
    IN  \/ /\ Keeps(c, t) /\ ~down
           /\ thread' = [thread EXCEPT ![c] = LoopHead(told, Rest(c, t))]
           /\ UNCHANGED active
        \/ (Keeps(c, t) => down) /\ Closes(c, told)
        \/ Conf.leaves /\ Closes(c, t)

-----------------------------------------------------------------------------
\* read_head: a clean end, an error or the deadline closes quietly; a head that
\* is malformed, oversized, or carries a body its method has not, is answered
\* once and closed.

Bodiless == {"GET", "HEAD", "OPTIONS"}

Reject(h) ==
    IF h.kind # "head" THEN "400"
    ELSE IF h.reject # "none" THEN h.reject
    ELSE IF h.length > Conf.maxFrame THEN "413"
    ELSE IF h.length > 0 /\ h.method \in Bodiless THEN "400"
    ELSE "none"

ReadHead(c) ==
    /\ Running(c, "head")
    /\ IF thread[c].at > Len(Stream(c)) THEN Closes(c, thread[c])
       ELSE IF Reject(Req(c)) # "none"
       THEN Closes(c, [thread[c] EXCEPT !.out = Append(@, <<thread[c].at, Problem(Reject(Req(c)))>>)])
       ELSE Goes(c, "gate") /\ UNCHANGED active
    /\ UNCHANGED <<sc, down, serving, rateVars, cacheVars, poolVars, hostVars>>

-----------------------------------------------------------------------------
\* The gates of handler::handle, before any body is read.

Exempt(h) == h.path = "exempt"
Credential(h) == h.auth
Authorised(h) == Exempt(h) \/ h.auth \in Conf.tokens

\* Fault: the clock was read when the request arrived, before the lock.
SampledAtArrival(c) == thread[c].start

\* RateLimiter::check samples the clock inside its lock.
Sampled(c) == clock

Lesser(a, b) == IF a < b THEN a ELSE b
Greater(a, b) == IF a < b THEN b ELSE a

\* The refilled bucket of a credential; a new one is full.
Refilled(cred, now) ==
    IF cred \notin DOMAIN bucket THEN [tokens |-> Conf.burst, last |-> now]
    ELSE [tokens |-> Lesser(bucket[cred].tokens + Greater(now - bucket[cred].last, 0), Conf.burst),
          last   |-> now]

Unthrottled(h) == Exempt(h) \/ Conf.burst = 0

\* A request that is let through goes on to its body, unless it is a live event
\* stream, which takes the connection over (a HEAD on it is answered).
Passes(c) ==
    IF Req(c).path = "stream"
    THEN IF Req(c).method = "HEAD" THEN Responds(c, thread[c], Problem("200"))
         ELSE Closes(c, [thread[c] EXCEPT !.out = Append(@, <<thread[c].at, Problem("200")>>)])
    ELSE Goes(c, "body") /\ UNCHANGED active

\* A CORS preflight is answered before the gates.
Preflight(c) ==
    /\ Running(c, "gate") /\ Req(c).method = "OPTIONS" /\ Conf.cors
    /\ Responds(c, thread[c], Problem("204"))
    /\ UNCHANGED <<sc, down, serving, rateVars, cacheVars, poolVars, hostVars>>

Gated(c) == Running(c, "gate") /\ (Req(c).method = "OPTIONS" => ~Conf.cors)

\* auth::gate: no bearer credential, or one that is not accepted.
Denied(c) ==
    /\ Gated(c) /\ ~Authorised(Req(c))
    /\ Responds(c, thread[c], Problem(IF Req(c).auth = "none" THEN "401" ELSE "403"))
    /\ UNCHANGED <<sc, down, serving, rateVars, cacheVars, poolVars, hostVars>>

\* rate_limit_check.
RateChecked(c) ==
    LET h    == Req(c)
        cred == Credential(h)
        b    == Refilled(cred, Sampled(c))
        Stored(n) == bucket' = [k \in DOMAIN bucket \cup {cred} |->
                                  IF k = cred THEN [b EXCEPT !.tokens = n] ELSE bucket[k]]
    IN  /\ Gated(c) /\ Authorised(h)
        /\ IF Unthrottled(h) THEN Passes(c) /\ UNCHANGED <<bucket, charged>>
           ELSE IF b.tokens >= 1
           THEN /\ Passes(c) /\ Stored(b.tokens - 1)
                /\ charged' = [charged EXCEPT ![cred] = Append(@, clock)]
           ELSE Responds(c, thread[c], Problem("429")) /\ Stored(b.tokens) /\ UNCHANGED charged
        /\ UNCHANGED <<sc, down, serving, clock, cacheVars, poolVars, hostVars>>

\* The gated body reader; a body cut short is a 400.  Other routes than submit
\* only read, and are answered from here.
ReadBody(c) ==
    LET whole == Req(c).length > 0 => thread[c].at < Len(Stream(c))
        t == [thread[c] EXCEPT !.bodyRead = TRUE, !.failed = ~whole]
    IN  /\ Running(c, "body")
        /\ IF ~whole THEN Responds(c, t, Problem("400"))
           ELSE IF Req(c).path = "submit"
           THEN thread' = [thread EXCEPT ![c] = [t EXCEPT !.pc = "lookup"]] /\ UNCHANGED active
           ELSE Responds(c, t, Problem("other"))
        /\ UNCHANGED <<sc, down, serving, rateVars, cacheVars, poolVars, hostVars>>

-----------------------------------------------------------------------------
\* idempotency.rs.  An entry is found by the credential and the client's key.

Scoped(h) == <<Credential(h), h.key>>
CacheOn(h) == Conf.cacheSize > 0 /\ h.key # "none"

\* Fault: a key is enough.
SameRequestByKey(e, h) == TRUE

\* The fingerprint is over the raw body bytes.
SameRequest(e, h) == e.body = h.body

\* handle after a miss: no host configured, decode_body, the empty action; then
\* the frame's own size limit, which is an outcome of the pool and so cached.
Missed(c) ==
    LET h == Req(c)
        refusal == CASE ~Conf.hasHost                  -> "503"
                     [] h.type = "other"               -> "415"
                     [] h.body \in {"empty", "garbled"} -> "400"
                     [] OTHER                          -> "none"
    IN  IF refusal # "none" THEN Responds(c, thread[c], Problem(refusal))
        ELSE /\ IF h.body = "huge" THEN Answers(c, "store", Problem("413")) ELSE Goes(c, "permit")
             /\ UNCHANGED active

Without(entries, keys) == Restrict(entries, DOMAIN entries \ keys)

\* get: a live entry of the same bytes is a hit and becomes the most recent; one
\* of other bytes is a conflict; an expired one is removed.
Lookup(c) ==
    LET h   == Req(c)
        key == Scoped(h)
        e   == cache[key]
    IN  /\ Running(c, "lookup")
        /\ IF CacheOn(h) /\ key \in DOMAIN cache
           THEN IF e.expired THEN cache' = Without(cache, {key}) /\ Missed(c)
                ELSE IF SameRequest(e, h)
                THEN /\ cache' = [cache EXCEPT ![key].used = tick]
                     /\ Responds(c, thread[c], e.answer)
                ELSE Responds(c, thread[c], Problem("422")) /\ UNCHANGED cache
           ELSE Missed(c) /\ UNCHANGED cache
        /\ tick' = IF CacheOn(h) THEN tick + 1 ELSE tick
        /\ UNCHANGED <<sc, down, serving, rateVars, poolVars, hostVars>>

Cacheable(a) == a.status \in {"200", "400", "413"}

\* The keys given up for a new entry: the expired ones and, when the rest fill
\* the cache and lack the key, the least recently used.
Evicted(key) ==
    LET expired == {k \in DOMAIN cache : cache[k].expired}
        live    == DOMAIN cache \ expired
        full    == Cardinality(live) >= Conf.cacheSize /\ key \notin live
    IN  expired \cup {k \in live : full /\ \A j \in live : cache[k].used <= cache[j].used}

\* put: the new outcome takes the key.
Put(c) ==
    LET h    == Req(c)
        key  == Scoped(h)
        kept == Without(cache, Evicted(key))
    IN  /\ Running(c, "store")
        /\ IF CacheOn(h) /\ Cacheable(thread[c].answer)
           THEN /\ cache' = [k \in DOMAIN kept \cup {key} |->
                              IF k # key THEN kept[k]
                              ELSE [body |-> h.body, answer |-> thread[c].answer,
                                    expired |-> FALSE, used |-> tick]]
                /\ tick' = tick + 1
           ELSE UNCHANGED cacheVars
        /\ Responds(c, thread[c], thread[c].answer)
        /\ UNCHANGED <<sc, down, serving, rateVars, poolVars, hostVars>>

\* The time to live of an entry runs out.
Expire ==
    /\ Conf.expires
    /\ \E k \in DOMAIN cache :
         ~cache[k].expired /\ cache' = [cache EXCEPT ![k].expired = TRUE]
    /\ UNCHANGED <<sc, frontVars, thread, rateVars, tick, poolVars, hostVars>>

-----------------------------------------------------------------------------
\* pool.rs.

MaxInflight == Greater(Lesser(Conf.maxInflight, Conf.poolSize), 1)

\* Fault: one permit too many.
GrantsOneMore(prev) == prev <= MaxInflight

Grants(prev) == prev < MaxInflight

\* acquire_permit counts first and rolls back past the cap.
AcquirePermit(c) ==
    /\ Running(c, "permit")
    /\ inflight' = inflight + 1
    /\ Goes(c, IF Grants(inflight) THEN "pop" ELSE "rollback")
    /\ UNCHANGED <<sc, frontVars, rateVars, cacheVars, idle, link, framed, hostVars>>

Rollback(c) ==
    /\ Running(c, "rollback")
    /\ inflight' = inflight - 1
    /\ Answers(c, "store", Problem("503"))
    /\ UNCHANGED <<sc, frontVars, rateVars, cacheVars, idle, link, framed, hostVars>>

PopIdle(c) ==
    /\ Running(c, "pop")
    /\ IF idle = <<>> THEN Goes(c, "connect") /\ UNCHANGED idle
       ELSE /\ thread' = [thread EXCEPT ![c].pc = "write", ![c].link = idle[Len(idle)]]
            /\ idle' = SubSeq(idle, 1, Len(idle) - 1)
    /\ UNCHANGED <<sc, frontVars, rateVars, cacheVars, inflight, link, framed, hostVars>>

MapError(e) == Problem(IF e = "timeout" THEN "504" ELSE "502")

MapVerdict(v) ==
    Answer(CASE v = "ParseError" -> "400" [] v = "Busy" -> "503" [] OTHER -> "200", v)

\* A fresh connection, or a refused or timed out connect.
Connect(c) ==
    /\ Running(c, "connect")
    /\ \/ /\ Len(link) < Conf.maxLinks
          /\ link' = Append(link, [open |-> TRUE, sent |-> <<>>, got |-> <<>>])
          /\ thread' = [thread EXCEPT ![c].pc = "write", ![c].link = Len(link) + 1, ![c].fresh = TRUE]
       \/ /\ Conf.hostFails \/ Len(link) = Conf.maxLinks
          /\ \E e \in {"timeout", "refused"} : Answers(c, "release", MapError(e))
          /\ UNCHANGED link
    /\ UNCHANGED <<sc, frontVars, rateVars, cacheVars, inflight, idle, framed, hostVars>>

\* Fault: whatever went wrong on an idle connection is retried.
RetriesAlways(c, e) == ~thread[c].fresh

\* submit: only a failed write on an idle connection is tried again, once.
Retries(c, e) == ~thread[c].fresh /\ e = "broken"

\* round_trip returns the connection only after a whole verdict.
ReturnsConn(e) == e = "none"

\* return_conn
Returned(c, e) ==
    IF ReturnsConn(e) /\ Len(idle) < Conf.poolSize THEN Append(idle, thread[c].link) ELSE idle

\* The end of one round trip with error e.
Fails(c, e) ==
    /\ IF Retries(c, e)
       THEN thread' = [thread EXCEPT ![c].pc = "connect", ![c].link = 0]
       ELSE thread' = [thread EXCEPT ![c].pc = "release", ![c].link = 0, ![c].answer = MapError(e)]
    /\ idle' = Returned(c, e)

\* The write phase.  On a connection the host has closed the bytes are lost or
\* the write breaks; a write that times out has not delivered the whole frame.
Write(c) ==
    LET k == thread[c].link
    IN  /\ Running(c, "write")
        /\ \/ /\ link' = IF link[k].open THEN [link EXCEPT ![k].sent = Append(@, <<c, thread[c].at>>)]
                         ELSE link
              /\ framed' = IF link[k].open THEN Append(framed, <<c, thread[c].at>>) ELSE framed
              /\ Goes(c, "read") /\ UNCHANGED idle
           \/ ~link[k].open /\ Fails(c, "broken") /\ UNCHANGED <<link, framed>>
           \/ Conf.hostFails /\ Fails(c, "timeout") /\ UNCHANGED <<link, framed>>
        /\ UNCHANGED <<sc, frontVars, rateVars, cacheVars, inflight, hostVars>>

\* The read phase: a verdict, the deadline, or the end of the connection.
ReadVerdict(c) ==
    LET k == thread[c].link
    IN  /\ Running(c, "read")
        /\ \/ /\ link[k].got # <<>>
              /\ link' = [link EXCEPT ![k].got = Tail(@)]
              /\ thread' = [thread EXCEPT ![c].pc = "release", ![c].link = 0,
                                          ![c].answer = MapVerdict(Head(link[k].got))]
              /\ idle' = Returned(c, "none")
           \/ link[k].got = <<>> /\ ~link[k].open /\ Fails(c, "truncated") /\ UNCHANGED link
           \/ link[k].got = <<>> /\ Conf.hostFails /\ Fails(c, "timeout") /\ UNCHANGED link
        /\ UNCHANGED <<sc, frontVars, rateVars, cacheVars, inflight, framed, hostVars>>

\* Permit::drop
Released(c) == inflight - 1

Release(c) ==
    /\ Running(c, "release")
    /\ inflight' = Released(c)
    /\ Goes(c, "store")
    /\ UNCHANGED <<sc, frontVars, rateVars, cacheVars, idle, link, framed, hostVars>>

-----------------------------------------------------------------------------
\* The host, as the pool sees it.  An action's nonce is used once.

HostVerdict(action, v) ==
    \/ action = "junk" /\ v = "ParseError"
    \/ action # "junk" /\ v = IF action \in admitted THEN "NotAdmissible" ELSE "Ok"
    \/ Conf.hostBusy /\ v = "Busy"

\* It serves the next frame of a connection, also when the gateway has stopped
\* listening to it; a one-shot host then closes.
HostServes(k) ==
    LET r == Head(link[k].sent)
        a == Stream(r[1])[r[2]].body
    IN  /\ link[k].open /\ link[k].sent # <<>>
        /\ \E v \in {"Ok", "NotAdmissible", "ParseError", "Busy"} :
             /\ HostVerdict(a, v)
             /\ link' = [link EXCEPT ![k] = [open |-> Conf.hostPersists, sent |-> Tail(@.sent),
                                             got  |-> Append(@.got, v)]]
             /\ said' = said \cup {<<a, v>>}
             /\ admitted' = IF v = "Ok" THEN admitted \cup {a} ELSE admitted
        /\ UNCHANGED <<sc, frontVars, thread, rateVars, cacheVars, inflight, idle, framed>>

\* It closes a connection: idle for too long, or restarting.
HostCloses(k) ==
    /\ Conf.hostFails /\ link[k].open
    /\ link' = [link EXCEPT ![k].open = FALSE, ![k].sent = <<>>]
    /\ UNCHANGED <<sc, frontVars, thread, rateVars, cacheVars, inflight, idle, framed, hostVars>>

-----------------------------------------------------------------------------
Tick ==
    /\ clock < Conf.maxClock
    /\ clock' = clock + 1
    /\ UNCHANGED <<sc, frontVars, thread, bucket, charged, cacheVars, poolVars, hostVars>>

Shutdown ==
    /\ ~down /\ Conf.stops
    /\ down' = TRUE
    /\ UNCHANGED <<sc, serving, active, thread, rateVars, cacheVars, poolVars, hostVars>>

\* serve: the drain ends with the last connection, or at its deadline.
ServeReturns ==
    /\ down /\ serving
    /\ active > 0 => Conf.drainExpires
    /\ serving' = FALSE
    /\ UNCHANGED <<sc, down, active, thread, rateVars, cacheVars, poolVars, hostVars>>

Init ==
    /\ sc \in DOMAIN Scenario
    /\ down = FALSE /\ serving = TRUE /\ active = 0
    /\ thread = [c \in Client |-> NewThread]
    /\ clock = 0 /\ bucket = <<>>
    /\ charged = [k \in Conf.tokens |-> <<>>]
    /\ cache = <<>> /\ tick = 0
    /\ inflight = 0 /\ idle = <<>> /\ link = <<>> /\ framed = <<>>
    /\ admitted = {} /\ said = {}

HttpSteps(c) ==
    \/ Accept(c) \/ ReadHead(c) \/ Preflight(c) \/ Denied(c) \/ RateChecked(c)
    \/ ReadBody(c)
SubmitSteps(c) ==
    \/ Lookup(c) \/ AcquirePermit(c) \/ Rollback(c) \/ PopIdle(c)
    \/ Connect(c) \/ Write(c) \/ ReadVerdict(c) \/ Release(c) \/ Put(c)
HostSteps == \E k \in DOMAIN link : HostServes(k) \/ HostCloses(k)
ThreadSteps == \E c \in Client : HttpSteps(c) \/ SubmitSteps(c)

Next == ThreadSteps \/ HostSteps \/ Expire \/ Tick \/ Shutdown \/ ServeReturns

Spec == Init /\ [][Next]_vars

\* The threads keep being scheduled, and every wait on the host ends: by its
\* answer, its closing, or the round-trip deadline.
FairSpec == Spec /\ WF_vars(ThreadSteps) /\ WF_vars(HostSteps)

-----------------------------------------------------------------------------
\* The answers given so far: <<c, position, answer>>.
Answered == UNION {{<<c, thread[c].out[i][1], thread[c].out[i][2]>> : i \in DOMAIN thread[c].out} : c \in Client}

Holding == {c \in Client : thread[c].pc \in {"pop", "connect", "write", "read", "release"}}

\* A verdict answered to a request, be it read off a pooled connection or
\* replayed from the cache (round_trip, get), is one the host gave to that
\* request's own action.
VerdictIsOwn ==
    \A a \in Answered :
        a[3].verdict # "none" => <<Stream(a[1])[a[2]].body, a[3].verdict>> \in said

\* However stale its first connection was, a submit writes at most one whole
\* frame to the host (HostPool::submit: "no double-submit"), and a request the
\* gateway itself refuses, the pool's cap included, none: only 502 and 504
\* leave open whether it was sent.
OneFramePerSubmit ==
    /\ IsInjective(framed)
    /\ \A a \in Answered :
         a[3].verdict = "none" /\ a[3].status \notin {"502", "504"}
             => \A i \in DOMAIN framed : framed[i] # <<a[1], a[2]>>

\* At most max_inflight permits are held, and the idle connections together
\* with those still owed by a permit holder stay within that cap, so that
\* return_conn never has to drop one ("which cannot happen").
PoolBounded ==
    /\ Cardinality(Holding) <= MaxInflight
    /\ inflight = Cardinality(Holding) + Cardinality({c \in Client : thread[c].pc = "rollback"})
    /\ LET owing == {c \in Client : thread[c].pc \in {"connect", "write", "read"}}
       IN  Len(idle) + Cardinality(owing) <= MaxInflight

\* Each host connection has one user at a time: it is idle once, or in the
\* hands of one thread (pop_idle, return_conn), and an idle one owes no reply.
OneUserPerConnection ==
    /\ IsInjective(idle)
    /\ \A c, d \in Client : thread[c].link # 0 /\ thread[c].link = thread[d].link => c = d
    /\ \A i \in DOMAIN idle :
         /\ \A c \in Client : thread[c].link # idle[i]
         /\ link[idle[i]].sent = <<>> /\ link[idle[i]].got = <<>>

\* Over any window a credential is let through at most burst plus refill times,
\* whatever the order in which its threads reach the limiter (RateLimiter::check).
RateWindow ==
    \A k \in DOMAIN charged : \A i, j \in DOMAIN charged[k] :
        i <= j => j - i + 1 <= Conf.burst + charged[k][j] - charged[k][i]

=============================================================================
