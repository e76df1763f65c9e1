----------------------------- MODULE BudgetGate -----------------------------
(***************************************************************************)
(* The action-budget gate of knomosis-host (budget.rs), as the in-memory   *)
(* kernel runs it (kernel.rs): a payload is decoded to the fields the gate *)
(* reads, refused by the first failing safety condition, charged to its    *)
(* signer, and its grant credited.                                         *)
(*                                                                         *)
(* A payload is a sequence of CBE items [t, v]: "u" an unsigned integer,   *)
(* "a" an amount, "b" a byte string, whose content is abstracted.  The     *)
(* variables "spent" and "granted" are history: what each actor's          *)
(* admitted actions have cost it, and what admitted grants gave it.        *)
(***************************************************************************)
EXTENDS Naturals, Sequences

CONSTANTS
    Actor,
    FreeTier,        \* BudgetPolicy::free_tier
    ActionCost,      \* the configured cost, before mk_bounded's clamp
    StartEpoch,      \* BudgetPolicy::current_epoch
    EpochLength,     \* admitted actions per epoch, 0 to disable
    MaxTopUp,        \* MAX_TOPUP_BUDGET_PER_ACTION
    U64Max,          \* the largest budget value
    Strict,          \* with_strict_checks
    Balance,         \* the strict-mode oracle: (resource, actor) -> amount
    Consent          \* the strict-mode oracle: (recipient, signer) pairs

ASSUME GateConstants ==
    /\ {FreeTier, ActionCost, StartEpoch, EpochLength, MaxTopUp, U64Max} \subseteq Nat
    /\ {0, 1} \subseteq Actor /\ Actor \subseteq Nat
    /\ FreeTier <= U64Max
    /\ Strict \in BOOLEAN
    /\ Balance \in [{0, 1} \X Actor -> Nat]
    /\ Consent \subseteq Actor \X Actor

VARIABLES ledger, admitted, spent, granted

gateVars == <<ledger, admitted, spent, granted>>

BRIDGE_ACTOR == 0
GAS_POOL_ACTOR == 1

Lesser(a, b) == IF a < b THEN a ELSE b
Greater(a, b) == IF a < b THEN b ELSE a

-----------------------------------------------------------------------------
\* decode_budget_view: each constructor tag's field layout, after which come
\* the signer, the nonce and the signature, and nothing else.

Unsupported == {8, 10, 15}

Supported == (0 .. 7) \cup {9} \cup (11 .. 14) \cup (16 .. 22) \cup {24, 25}

Layout ==
    [tag \in Supported |->
        CASE tag = 0                -> <<"u", "u", "u", "a">>
          [] tag = 13               -> <<"u", "u", "a", "u">>
          [] tag \in {1, 2, 5, 6, 7} -> <<"u", "u", "a">>
          [] tag \in {3, 9, 11}     -> <<"u">>
          [] tag \in {4, 12}        -> <<"u", "b">>
          [] tag = 14               -> <<"u", "u", "a", "b">>
          [] tag = 16               -> <<>>
          [] tag = 17               -> <<"b", "u", "u", "b">>
          [] tag = 18               -> <<"b", "u", "u", "u">>
          [] tag = 19               -> <<"u", "u", "u", "a", "a", "u", "u", "a">>
          [] tag = 20               -> <<"u", "a", "u", "u">>
          [] tag = 21               -> <<"u", "u", "a", "u", "u">>
          [] tag = 22               -> <<"u", "u", "a", "u">>
          [] tag = 24               -> <<"u", "a", "u", "u">>
          [] tag = 25               -> <<"u", "u", "u", "a", "a", "u">>]

Body(tag) == Layout[tag] \o <<"u", "u", "b">>

WellFormed(p) ==
    /\ p # <<>> /\ p[1].t = "u" /\ p[1].v \in DOMAIN Layout
    /\ Len(p) = Len(Body(p[1].v)) + 1
    /\ \A i \in 1 .. Len(Body(p[1].v)) : p[i + 1].t = Body(p[1].v)[i]

\* SignedActionBudgetView: the tag, the signer and the decoded fields.
View(p) == [tag    |-> p[1].v,
            signer |-> p[Len(p) - 2].v,
            field  |-> [i \in 1 .. Len(p) - 4 |-> p[i + 1].v]]

-----------------------------------------------------------------------------
\* BudgetGate::effective_epoch and the ActorBudget cell operations.

Cost == Greater(ActionCost, 1)

EpochAt(n) == StartEpoch + (IF EpochLength = 0 THEN 0 ELSE n \div EpochLength)
Now == EpochAt(admitted)

\* Fault: the floor is applied again within the same epoch.
NormaliseAlways(cell, now) ==
    [seen |-> now, bal |-> Greater(cell.bal, FreeTier)]

Normalise(cell, now) ==
    IF cell.seen < now
    THEN [seen |-> now, bal |-> Greater(cell.bal, FreeTier)]
    ELSE cell

Covers(cell, now, cost) == cost <= Normalise(cell, now).bal

Consume(cell, now, cost) ==
    [Normalise(cell, now) EXCEPT !.bal = @ - cost]

TopUp(cell, now, amount) ==
    [Normalise(cell, now) EXCEPT !.bal = Lesser(@ + amount, U64Max)]

-----------------------------------------------------------------------------
\* BudgetGate::evaluate.

\* The conditions shared by topUpActionBudget and topUpActionBudgetFor.
TopUpRefused(signer, resource, gas, increment, pool) ==
    \/ signer = BRIDGE_ACTOR
    \/ signer = pool
    \/ pool # GAS_POOL_ACTOR
    \/ resource \notin {0, 1}
    \/ increment > MaxTopUp
    \/ gas = 0
    \/ Strict /\ Balance[resource, signer] < gas

RefundRefused(signer, resource, units, rate, pool) ==
    \/ signer = BRIDGE_ACTOR
    \/ signer = pool
    \/ resource \notin {0, 1}
    \/ rate = 0
    \/ units = 0
    \/ Strict /\ Balance[resource, pool] < units * rate

Refused(v) ==
    CASE v.tag = 19 -> v.signer # BRIDGE_ACTOR
      [] v.tag = 20 -> TopUpRefused(v.signer, v.field[1], v.field[2], v.field[3], v.field[4])
      [] v.tag = 21 ->
            \/ TopUpRefused(v.signer, v.field[2], v.field[3], v.field[4], v.field[5])
            \/ v.field[1] = v.signer
            \/ Strict /\ <<v.field[1], v.signer>> \notin Consent
      [] v.tag = 22 -> RefundRefused(v.signer, v.field[1], v.field[2], v.field[3], v.field[4])
      [] OTHER -> FALSE

\* What the signer pays: nothing for the bridge actor, and a refund also
\* retires the units it pays out.
Charge(v) ==
    IF v.signer = BRIDGE_ACTOR THEN 0
    ELSE IF v.tag = 22 THEN Lesser(Cost + v.field[2], U64Max) ELSE Cost

\* The grant arm: who is credited, and how much.
Recipient(v) == IF v.tag \in {19, 21} THEN (IF v.tag = 19 THEN v.field[2] ELSE v.field[1])
                ELSE v.signer
Grant(v) == CASE v.tag = 19 -> v.field[6]
              [] v.tag = 20 -> v.field[3]
              [] v.tag = 21 -> v.field[4]
              [] OTHER -> 0
Grants(v) == v.tag \in {19, 20, 21}

Affordable(v) ==
    v.signer # BRIDGE_ACTOR => Covers(ledger[v.signer], Now, Charge(v))

\* The ledger after the consume step and then the grant step.
Charged(v) ==
    IF v.signer = BRIDGE_ACTOR THEN ledger
    ELSE [ledger EXCEPT ![v.signer] = Consume(@, Now, Charge(v))]

Evaluate(v) ==
    IF Grants(v)
    THEN [Charged(v) EXCEPT ![Recipient(v)] = TopUp(@, Now, Grant(v))]
    ELSE Charged(v)

\* MockKernel::submit with a gate and no scripted responses.
Verdict(p) ==
    IF p # <<>> /\ p[1].t = "u" /\ p[1].v \in Unsupported THEN "NotAdmissible"
    ELSE IF ~WellFormed(p) THEN "ParseError"
    ELSE IF Refused(View(p)) \/ ~Affordable(View(p)) THEN "NotAdmissible"
    ELSE "Ok"

\* BudgetGate::admit on a payload whose verdict is Ok.
Admit(v) ==
    /\ ledger' = Evaluate(v)
    /\ admitted' = admitted + 1
    /\ spent' = [spent EXCEPT ![v.signer] = @ + Charge(v)]
    /\ granted' = [granted EXCEPT ![Recipient(v)] = @ + Grant(v)]

Submit(p) ==
    \/ Verdict(p) = "Ok" /\ Admit(View(p))
    \/ Verdict(p) # "Ok" /\ UNCHANGED gateVars

GateInit ==
    /\ ledger = [a \in Actor |-> [seen |-> 0, bal |-> 0]]
    /\ admitted = 0
    /\ spent = [a \in Actor |-> 0]
    /\ granted = [a \in Actor |-> 0]

\* Any payload that names actors of the model may be submitted.
CbeItem == [t : {"u", "a", "b"}, v : Nat]
Payload == Seq(CbeItem)
NamesActors(p) == WellFormed(p) => {View(p).signer, Recipient(View(p))} \subseteq Actor

GateNext == \E p \in Payload : NamesActors(p) /\ Submit(p)

GateSpec == GateInit /\ [][GateNext]_gateVars

-----------------------------------------------------------------------------
\* The budget promise (budget.rs, evaluate): an actor's admitted actions never
\* cost it more than the grants it received and one free tier for each epoch
\* up to the current one, whatever order charges, grants, refunds and epoch
\* boundaries come in.
BudgetBacked ==
    \A a \in Actor : spent[a] + ledger[a].bal <= granted[a] + FreeTier * Now
=============================================================================
