----------------------------- MODULE MCIndexer -----------------------------
(***************************************************************************)
(* Instances of Indexer, and through it of EventSubscribe, for TLC: one    *)
(* connection, used by an arbitrary client or by the indexer.              *)
(***************************************************************************)
EXTENDS Indexer

CONSTANTS c1, alice, pool

OneClient == {c1}
Accounts == {alice, pool}
Either == {"any", "indexer"}

\* Frames with several events, one and none.
Frames12201 == <<1, 2, 2, 0, 1>>

Ev(kind, a, n, p) == [kind |-> kind, actor |-> a, amount |-> n, pool |-> p]

\* alice tops up her budget, and the pool's share with it; she acts (one unit of
\* budget) and the pool's operator claims that share, which needs the first
\* frame; alice's balance is set and the pool's is credited.
EventOf12201 ==
    (<<1, 1>> :> Ev("grant", alice, 2, 1)) @@
    (<<2, 1>> :> Ev("consume", alice, 1, 0)) @@ (<<2, 2>> :> Ev("claim", pool, 1, 0)) @@
    (<<3, 1>> :> Ev("set", alice, 3, 0)) @@ (<<3, 2>> :> Ev("credit", pool, 1, 0)) @@
    (<<5, 1>> :> Ev("debit", alice, 2, 0))

=============================================================================
