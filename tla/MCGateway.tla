----------------------------- MODULE MCGateway -----------------------------
(***************************************************************************)
(* Small instances of the gateway: two connections, up to two requests     *)
(* each, with the settings that make each path bind.                       *)
(***************************************************************************)
EXTENDS Gateway, TLC

H(method, path, auth, key, body, length, keep) ==
    [kind |-> "head", method |-> method, path |-> path, auth |-> auth, key |-> key,
     body |-> body, length |-> length, keep |-> keep, type |-> "octet", reject |-> "none"]
Body == [kind |-> "body"]

Post(auth, key, body) == <<H("POST", "submit", auth, key, body, 1, TRUE), Body>>
Get(path, auth) == <<H("GET", path, auth, "none", "none", 0, TRUE)>>

Base == [maxConnections |-> 2, spawnFails |-> FALSE, leaves |-> FALSE, maxFrame |-> 1,
         tokens |-> {"t1", "t2"}, burst |-> 0, cors |-> TRUE, cacheSize |-> 2, expires |-> FALSE,
         hasHost |-> TRUE, maxInflight |-> 2, poolSize |-> 2, maxLinks |-> 3, hostFails |-> FALSE,
         hostBusy |-> FALSE, hostPersists |-> TRUE, maxClock |-> 0, stops |-> FALSE,
         drainExpires |-> FALSE, stream |-> <<>>]

\* Retries against a host that closes connections and times out.
Retrying == [Base EXCEPT !.hostFails = TRUE, !.maxLinks = 2,
    !.stream = (1 :> Post("t1", "k", "a") \o Post("t1", "none", "a")) @@
               (2 :> Post("t1", "k", "a"))]

\* Replays, a reused key, another credential's key, eviction and expiry.
Replaying == [Base EXCEPT !.cacheSize = 1, !.expires = TRUE,
    !.stream = (1 :> Post("t1", "k", "a") \o Post("t1", "k", "a")) @@
               (2 :> Post("t1", "k", "b") \o Post("t2", "k", "c"))]

\* One permit, a one-shot host, an answer of Busy.
Saturated == [Base EXCEPT !.maxInflight = 1, !.poolSize = 1, !.hostBusy = TRUE, !.hostPersists = FALSE,
    !.maxLinks = 4,
    !.stream = (1 :> Post("t1", "k", "a") \o Post("t2", "k", "b")) @@
               (2 :> Post("t1", "none", "junk") \o Post("t1", "j", "huge"))]

\* The rate limit, over three requests of one credential.
Limited == [Base EXCEPT !.burst = 1, !.maxClock = 2, !.hasHost = FALSE,
    !.stream = (1 :> Get("read", "t1") \o Get("exempt", "none")) @@
               (2 :> Get("read", "t1") \o Post("t1", "none", "a"))]

\* Heads that are refused with their bodies unread, and cut bodies.
Refused == [Base EXCEPT !.maxConnections = 1, !.spawnFails = TRUE, !.leaves = TRUE, !.stops = TRUE,
    !.drainExpires = TRUE,
    !.stream = (1 :> Post("none", "k", "a") \o Post("t1", "k", "a")) @@
               (2 :> Get("stream", "t1"))]

Wrong(h) == <<h, Body>>
Odd == [Base EXCEPT !.stops = TRUE,
    !.stream = (1 :> <<H("OPTIONS", "submit", "none", "none", "none", 0, TRUE),
                       H("HEAD", "stream", "t1", "none", "none", 0, TRUE),
                       [H("POST", "submit", "t1", "k", "a", 1, TRUE) EXCEPT !.type = "other"], Body,
                       H("POST", "submit", "t1", "k", "empty", 0, TRUE),
                       H("POST", "submit", "t1", "k", "a", 1, TRUE)>>) @@
               (2 :> <<H("POST", "submit", "t3", "k", "a", 0, TRUE),
                       H("GET", "read", "t1", "none", "none", 0, TRUE),
                       H("GET", "read", "t1", "none", "none", 1, TRUE), Body>>)]
Oversize == [Base EXCEPT
    !.stream = (1 :> Wrong(H("POST", "submit", "t1", "k", "a", 2, TRUE))) @@
               (2 :> Post("t1", "k", "garbled") \o
                     <<[H("POST", "submit", "t1", "k", "a", 0, TRUE) EXCEPT !.reject = "501"]>>)]

MCScenario == [Retrying |-> Retrying, Replaying |-> Replaying, Saturated |-> Saturated,
               Limited |-> Limited, Refused |-> Refused, Odd |-> Odd, Oversize |-> Oversize]
=============================================================================
