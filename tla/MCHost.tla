------------------------------- MODULE MCHost -------------------------------
(***************************************************************************)
(* Small instances of the host: two connections, at most three frames each.*)
(* Actor 0 is the bridge, 1 the gas pool, 2 and 3 are users.               *)
(***************************************************************************)
EXTENDS Host

\* Signed actions: the tag, the fields by layout, the signer, a nonce, a
\* signature.
Item(t, v) == [t |-> t, v |-> v]
Signed(tag, fields, signer) ==
    <<Item("u", tag)>> \o [i \in DOMAIN fields |-> Item(Layout[tag][i], fields[i])]
        \o <<Item("u", signer), Item("u", 0), Item("b", 0)>>

Freeze(signer)          == Signed(3, <<0>>, signer)
TopUpOwn(signer, n)     == Signed(20, <<0, 1, n, GAS_POOL_ACTOR>>, signer)
TopUpOther(a, signer)   == Signed(21, <<a, 1, 1, 1, GAS_POOL_ACTOR>>, signer)
Deposit(a, signer)      == Signed(19, <<0, a, 0, 1, 1, 2, 0, 1>>, signer)
Refund(signer)          == Signed(22, <<0, 1, 1, GAS_POOL_ACTOR>>, signer)
Garbage                 == <<Item("b", 0)>>
Rollup                  == <<Item("u", 8)>>

F(hint, payload) == [hint |-> hint, length |-> "length", payload |-> payload]
Bad(kind)        == [hint |-> 0, length |-> kind, payload |-> Garbage]

C(proto, hinted, frames, cut, end, leaves) ==
    [proto |-> proto, hinted |-> hinted, frames |-> frames,
     cut |-> cut, end |-> end, leaves |-> leaves]

Caps(perFlow, maxFlows, maxSigners, connBacklog, global) ==
    [perFlow |-> perFlow, maxFlows |-> maxFlows, maxSigners |-> maxSigners,
     connBacklog |-> connBacklog, global |-> global]

Roomy == Caps(2, 2, 2, 3, 4)
Tight == Caps(1, 1, 1, 1, 2)

S(scheduler, persistent, kernel, caps, maxConns, spawnFails, timeouts, stops, a, b) ==
    [scheduler |-> scheduler, persistent |-> persistent, kernel |-> kernel,
     caps |-> caps, maxConns |-> maxConns, spawnFails |-> spawnFails,
     timeouts |-> timeouts, stops |-> stops, client |-> (1 :> a @@ 2 :> b)]

\* Two signers pipelined on one hinted connection, beside a legacy one.
Pipelined == S("drr", TRUE, "mock", Roomy, 2, FALSE, FALSE, TRUE,
    C("tcp", TRUE, <<F(2, TopUpOwn(2, 2)), F(2, Freeze(2)), F(3, Refund(3))>>, 0, "eof", FALSE),
    C("unix", FALSE, <<F(0, TopUpOther(3, 2))>>, 0, "eof", FALSE))

\* Caps that bind, a client that leaves, a connection cut in mid-frame.
Pressed == S("drr", TRUE, "mock", Tight, 2, FALSE, TRUE, FALSE,
    C("tcp", TRUE, <<F(2, Deposit(2, 0)), F(3, Deposit(3, 3)), F(2, Freeze(2))>>, 0, "stall", TRUE),
    C("tcp", FALSE, <<F(0, Rollup)>>, 1, "eof", FALSE))

\* Framing errors, and a slot limit of one.
Malformed == S("drr", TRUE, "mock", Roomy, 1, TRUE, FALSE, TRUE,
    C("tcp", FALSE, <<F(0, Garbage), Bad("oversize")>>, 0, "eof", FALSE),
    C("tcp", TRUE, <<F(2, Freeze(2)), Bad("zero")>>, 0, "trickle", FALSE))

\* The FIFO channel, a TLS and a truncated plaintext connection, the command
\* kernel.
OneShot == S("fifo", FALSE, "command", Caps(1, 1, 1, 1, 1), 2, TRUE, TRUE, TRUE,
    C("tls", FALSE, <<F(0, Freeze(2))>>, 0, "eof", FALSE),
    C("tcp", TRUE, <<F(2, Freeze(3))>>, 1, "eof", FALSE))

\* The FIFO channel under pipelining; the second client sends half a header.
FifoPiped == S("fifo", TRUE, "command", Caps(1, 1, 1, 1, 2), 2, FALSE, FALSE, TRUE,
    C("unix", FALSE, <<F(0, Freeze(2)), F(0, Freeze(2)), F(0, Freeze(2))>>, 0, "stall", FALSE),
    C("tcp", FALSE, <<F(0, Freeze(3))>>, 2, "trickle", FALSE))

MCScenario == [Pipelined |-> Pipelined, Pressed |-> Pressed, Malformed |-> Malformed,
               OneShot |-> OneShot, FifoPiped |-> FifoPiped]
MCBalance == [ra \in {0, 1} \X {0, 1, 2, 3} |-> 1]
MCConsent == {<<3, 2>>}
=============================================================================
