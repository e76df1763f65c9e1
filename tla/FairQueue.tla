------------------------------ MODULE FairQueue ------------------------------
(***************************************************************************)
(* The two-tier deficit-round-robin scheduler of knomosis-host             *)
(* (fair/drr.rs): connections are served round-robin, and within one       *)
(* connection its signer hints are.  Quantum and cost are both 1, so the   *)
(* deficit is 0 between turns and the discipline is strict round-robin;    *)
(* the deficit field is therefore not part of the state.                   *)
(*                                                                         *)
(* A tier is a record: "flows" maps each present key to its store, "active" *)
(* is the service order, "depth" the cached number of buffered requests.   *)
(* A store is a sequence of requests at a leaf, a tier at the outer level. *)
(***************************************************************************)
EXTENDS Naturals, Sequences, FiniteSets, TLC

\* Tier::new
EmptyTier == [flows |-> <<>>, active |-> <<>>, depth |-> 0]

Keys(t) == DOMAIN t.flows

\* A push that succeeded with the store it produced, or failed on a cap.
Pushed(store) == [ok |-> TRUE, store |-> store, reason |-> "none"]
Rejected(reason) == [ok |-> FALSE, store |-> <<>>, reason |-> reason]

\* RequestFifo::push: the leaf's own cap.
PushLeaf(fifo, req, perFlow) ==
    IF Len(fifo) >= perFlow THEN Rejected("PerFlow") ELSE Pushed(Append(fifo, req))

\* The store a key routes to: its own, or a fresh one.
StoreOf(t, key, fresh) == IF key \in Keys(t) THEN t.flows[key] ELSE fresh

\* Tier::enqueue_routed: a new key is capped first and joins the service order
\* once; a rejected push inserts nothing.  "res" is the push into the key's store.
EnqueueRouted(t, key, maxKeys, reason, res) ==
    LET known == key \in Keys(t)
    IN  IF ~known /\ Cardinality(Keys(t)) >= maxKeys THEN Rejected(reason)
        ELSE IF ~res.ok THEN res
        ELSE Pushed([flows  |-> (key :> res.store) @@ t.flows,
                     active |-> IF known THEN t.active ELSE Append(t.active, key),
                     depth  |-> t.depth + 1])

\* ConnBucket::enqueue_signer: leaf cap, then the connection's aggregate cap,
\* then the distinct-hint cap of the leaf tier.
EnqueueSigner(bucket, signer, req, caps) ==
    IF signer \in Keys(bucket) /\ Len(bucket.flows[signer]) >= caps.perFlow
    THEN Rejected("PerFlow")
    ELSE IF bucket.depth >= caps.connBacklog THEN Rejected("ConnBacklog")
    ELSE EnqueueRouted(bucket, signer, caps.maxSigners, "MaxSigners",
                       PushLeaf(StoreOf(bucket, signer, <<>>), req, caps.perFlow))

\* DrrState::enqueue: the global cap, then the two routed tiers.
Enqueue(outer, conn, signer, req, caps) ==
    IF outer.depth >= caps.global THEN Rejected("Global")
    ELSE EnqueueRouted(outer, conn, caps.maxFlows, "MaxFlows",
                       EnqueueSigner(StoreOf(outer, conn, EmptyTier), signer, req, caps))

\* Fault: the flow just served stays at the front.
AfterServeUnrotated(t, store, drained) ==
    LET key == Head(t.active)
    IN  [flows  |-> IF drained THEN [k \in Keys(t) \ {key} |-> t.flows[k]]
                    ELSE [t.flows EXCEPT ![key] = store],
         active |-> IF drained THEN Tail(t.active) ELSE t.active,
         depth  |-> t.depth - 1]

\* Tier::pick after its front flow served one request: a drained flow leaves
\* both maps, any other goes to the back of the round.
AfterServe(t, store, drained) ==
    LET key == Head(t.active)
    IN  [flows  |-> IF drained THEN [k \in Keys(t) \ {key} |-> t.flows[k]]
                    ELSE [t.flows EXCEPT ![key] = store],
         active |-> IF drained THEN Tail(t.active) ELSE Append(Tail(t.active), key),
         depth  |-> t.depth - 1]

\* Tier::pick at the leaf tier (a connection's signer hints).
PickLeaf(bucket) ==
    LET fifo == bucket.flows[Head(bucket.active)]
    IN  [req  |-> Head(fifo),
         tier |-> AfterServe(bucket, Tail(fifo), Len(fifo) = 1)]

\* DrrState::pick; "outer" is not empty.
Pick(outer) ==
    LET served == PickLeaf(outer.flows[Head(outer.active)])
    IN  [req  |-> served.req,
         tier |-> AfterServe(outer, served.tier, served.tier.depth = 0)]
=============================================================================
