-------------------------- MODULE BudgetGateProofs --------------------------
(***************************************************************************)
(* The budget promise of the gate, proved for every policy (free tier,     *)
(* action cost, epoch length, start epoch, limits), every set of actors    *)
(* and every sequence of payloads.                                         *)
(*                                                                         *)
(* BudgetBacked is not inductive: an actor that has been silent for some   *)
(* epochs is owed free tiers its cell does not show yet.  CellsBacked      *)
(* measures each cell at the epoch it was last normalised in, which no     *)
(* cell has beyond the current one.                                        *)
(***************************************************************************)
EXTENDS BudgetGate, TLAPS

Cell == [seen : Nat, bal : Nat]

\* A cell with this history is backed at the epoch it has seen.
Backed(cell, s, g) == s + cell.bal <= g + FreeTier * cell.seen

GateTypeOK ==
    /\ ledger \in [Actor -> Cell]
    /\ admitted \in Nat
    /\ spent \in [Actor -> Nat]
    /\ granted \in [Actor -> Nat]

CellsBacked ==
    \A a \in Actor : ledger[a].seen <= Now /\ Backed(ledger[a], spent[a], granted[a])

GateInv == GateTypeOK /\ CellsBacked

-----------------------------------------------------------------------------
\* Arithmetic.

LEMMA TimesMonotone ==
    ASSUME NEW f \in Nat, NEW m \in Nat, NEW n \in Nat, m <= n
    PROVE  f * m <= f * n /\ f * m \in Nat /\ f * n \in Nat
<1>1. n - m \in Nat /\ n = m + (n - m)
  OBVIOUS
<1>2. f * (n - m) \in Nat /\ f * m \in Nat
  BY <1>1
<1>3. f * (m + (n - m)) = f * m + f * (n - m)
  BY <1>1
<1> QED
  BY <1>1, <1>2, <1>3

LEMMA TimesSuccessor ==
    ASSUME NEW f \in Nat, NEW m \in Nat, NEW n \in Nat, m < n
    PROVE  f * m + f <= f * n
<1>1. m + 1 \in Nat /\ m + 1 <= n
  OBVIOUS
<1>2. f * (m + 1) <= f * n
  BY <1>1, TimesMonotone
<1>3. f * (m + 1) = f * m + f
  OBVIOUS
<1> QED
  BY <1>2, <1>3

LEMMA QuotientMonotone ==
    ASSUME NEW k \in Nat \ {0}, NEW n \in Nat
    PROVE  n \div k \in Nat /\ n \div k <= (n + 1) \div k
OBVIOUS

LEMMA EpochMonotone ==
    ASSUME NEW n \in Nat
    PROVE  EpochAt(n) \in Nat /\ EpochAt(n) <= EpochAt(n + 1)
<1>1. CASE EpochLength = 0
  BY <1>1, GateConstants DEF EpochAt
<1>2. CASE EpochLength # 0
  BY <1>2, GateConstants, QuotientMonotone DEF EpochAt
<1> QED
  BY <1>1, <1>2

-----------------------------------------------------------------------------
\* The operations on one cell.

LEMMA CostPositive == Cost \in Nat \ {0}
BY GateConstants DEF Cost, Greater

\* The floor is paid for by the epochs the cell skips.
LEMMA NormaliseKeepsBacked ==
    ASSUME NEW c \in Cell, NEW now \in Nat, c.seen <= now,
           NEW s \in Nat, NEW g \in Nat, Backed(c, s, g)
    PROVE  /\ Normalise(c, now) \in Cell
           /\ Normalise(c, now).seen = now
           /\ Backed(Normalise(c, now), s, g)
<1>1. FreeTier \in Nat /\ c.seen \in Nat /\ c.bal \in Nat
  BY GateConstants DEF Cell
<1>2. CASE c.seen < now
  <2>1. Normalise(c, now) = [seen |-> now, bal |-> Greater(c.bal, FreeTier)]
    BY <1>2 DEF Normalise
  <2>2. Greater(c.bal, FreeTier) \in Nat /\ Greater(c.bal, FreeTier) <= c.bal + FreeTier
    BY <1>1 DEF Greater
  <2>3. FreeTier * c.seen + FreeTier <= FreeTier * now
    BY <1>1, <1>2, TimesSuccessor
  <2>4. FreeTier * c.seen \in Nat /\ FreeTier * now \in Nat
    BY <1>1
  <2>5. s + c.bal <= g + FreeTier * c.seen
    BY DEF Backed
  <2>6. s + Greater(c.bal, FreeTier) <= g + FreeTier * now
    BY <1>1, <2>2, <2>3, <2>4, <2>5
  <2> QED
    BY <2>1, <2>2, <2>6 DEF Cell, Backed
<1>3. CASE ~ (c.seen < now)
  BY <1>1, <1>3 DEF Normalise, Cell
<1> QED
  BY <1>2, <1>3

LEMMA ConsumeKeepsBacked ==
    ASSUME NEW c \in Cell, NEW now \in Nat, c.seen <= now,
           NEW s \in Nat, NEW g \in Nat, Backed(c, s, g),
           NEW cost \in Nat, Covers(c, now, cost)
    PROVE  /\ Consume(c, now, cost) \in Cell
           /\ Consume(c, now, cost).seen = now
           /\ Backed(Consume(c, now, cost), s + cost, g)
<1> DEFINE n == Normalise(c, now)
<1>1. n \in Cell /\ n.seen = now /\ Backed(n, s, g)
  BY NormaliseKeepsBacked
<1>2. cost <= n.bal
  BY DEF Covers
<1>3. Consume(c, now, cost) = [n EXCEPT !.bal = @ - cost]
  BY DEF Consume
<1> HIDE DEF n
<1>4. n.seen \in Nat /\ n.bal \in Nat /\ n.bal - cost \in Nat
  BY <1>1, <1>2 DEF Cell
<1>5. /\ [n EXCEPT !.bal = @ - cost] \in Cell
      /\ [n EXCEPT !.bal = @ - cost].seen = n.seen
      /\ [n EXCEPT !.bal = @ - cost].bal = n.bal - cost
  BY <1>1, <1>4 DEF Cell
<1>6. FreeTier * n.seen \in Nat
  BY <1>4, GateConstants
<1>7. s + cost + (n.bal - cost) <= g + FreeTier * n.seen
  BY <1>1, <1>4, <1>6 DEF Backed
<1> QED
  BY <1>1, <1>3, <1>5, <1>7 DEF Backed

LEMMA TopUpKeepsBacked ==
    ASSUME NEW c \in Cell, NEW now \in Nat, c.seen <= now,
           NEW s \in Nat, NEW g \in Nat, Backed(c, s, g),
           NEW amount \in Nat
    PROVE  /\ TopUp(c, now, amount) \in Cell
           /\ TopUp(c, now, amount).seen = now
           /\ Backed(TopUp(c, now, amount), s, g + amount)
<1> DEFINE n == Normalise(c, now)
           b == Lesser(n.bal + amount, U64Max)
<1>1. n \in Cell /\ n.seen = now /\ Backed(n, s, g)
  BY NormaliseKeepsBacked
<1>2. TopUp(c, now, amount) = [n EXCEPT !.bal = b]
  BY DEF TopUp
<1> HIDE DEF n
<1>3. n.seen \in Nat /\ n.bal \in Nat
  BY <1>1 DEF Cell
<1>4. b \in Nat /\ b <= n.bal + amount
  BY <1>3, GateConstants DEF Lesser
<1> HIDE DEF b
<1>5. /\ [n EXCEPT !.bal = b] \in Cell
      /\ [n EXCEPT !.bal = b].seen = n.seen
      /\ [n EXCEPT !.bal = b].bal = b
  BY <1>1, <1>4 DEF Cell
<1>6. FreeTier * n.seen \in Nat
  BY <1>3, GateConstants
<1>7. s + b <= g + amount + FreeTier * n.seen
  BY <1>1, <1>3, <1>4, <1>6 DEF Backed
<1> QED
  BY <1>1, <1>2, <1>5, <1>7 DEF Backed

-----------------------------------------------------------------------------
\* What a well-formed payload gives the gate.

LEMMA LayoutLengths ==
    Len(Body(19)) = 11 /\ Len(Body(20)) = 7 /\ Len(Body(21)) = 8 /\ Len(Body(22)) = 7
<1>1. {19, 20, 21, 22} \subseteq Supported
  BY DEF Supported
<1>2. Layout[19] = <<"u", "u", "u", "a", "a", "u", "u", "a">>
  BY <1>1 DEF Layout
<1>3. Layout[20] = <<"u", "a", "u", "u">>
  BY <1>1 DEF Layout
<1>4. Layout[21] = <<"u", "u", "a", "u", "u">>
  BY <1>1 DEF Layout
<1>5. Layout[22] = <<"u", "u", "a", "u">>
  BY <1>1 DEF Layout
<1> QED
  BY <1>1, <1>2, <1>3, <1>4, <1>5 DEF Body

LEMMA FieldInRange ==
    ASSUME NEW l, NEW b \in Nat, l = b + 1
    PROVE  \A i \in 1 .. b - 3 : i \in 1 .. l - 4
OBVIOUS

LEMMA GrantByTag ==
    ASSUME NEW v
    PROVE  /\ v.tag = 19 => Grants(v) /\ Grant(v) = v.field[6]
           /\ v.tag = 20 => Grants(v) /\ Grant(v) = v.field[3]
           /\ v.tag = 21 => Grants(v) /\ Grant(v) = v.field[4]
           /\ v.tag \notin {19, 20, 21} => ~ Grants(v) /\ Grant(v) = 0
BY DEF Grants, Grant

LEMMA ViewTyped ==
    ASSUME NEW p \in Payload, WellFormed(p)
    PROVE  /\ View(p).tag = 22 => View(p).field[2] \in Nat
           /\ Grants(View(p)) => Grant(View(p)) \in Nat
           /\ ~ Grants(View(p)) => Grant(View(p)) = 0
<1>1. View(p).tag = p[1].v /\ View(p).field = [i \in 1 .. Len(p) - 4 |-> p[i + 1].v]
  BY DEF View
<1>2. Len(p) = Len(Body(p[1].v)) + 1
  BY DEF WellFormed
<1>3. ASSUME NEW i \in 1 .. Len(p) - 4
      PROVE  View(p).field[i] \in Nat
  <2>1. Len(p) \in Nat /\ i + 1 \in 1 .. Len(p)
    BY DEF Payload
  <2>2. p[i + 1] \in CbeItem
    BY <2>1 DEF Payload
  <2>3. p[i + 1].v \in Nat
    BY <2>2 DEF CbeItem
  <2> QED
    BY <1>1, <2>3
<1>4. CASE p[1].v = 19
  <2>1. Len(Body(p[1].v)) = 11
    BY <1>4, LayoutLengths
  <2>2. 6 \in 1 .. Len(Body(p[1].v)) - 3
    BY <2>1
  <2>3. 6 \in 1 .. Len(p) - 4
    BY <1>2, <2>1, <2>2, FieldInRange, Zenon
  <2>4. View(p).field[6] \in Nat
    BY <1>3, <2>3
  <2>5. View(p).tag = 19
    BY <1>1, <1>4
  <2> QED
    BY <2>4, <2>5, GrantByTag
<1>5. CASE p[1].v = 20
  <2>1. Len(Body(p[1].v)) = 7
    BY <1>5, LayoutLengths
  <2>2. 3 \in 1 .. Len(Body(p[1].v)) - 3
    BY <2>1
  <2>3. 3 \in 1 .. Len(p) - 4
    BY <1>2, <2>1, <2>2, FieldInRange, Zenon
  <2>4. View(p).field[3] \in Nat
    BY <1>3, <2>3
  <2>5. View(p).tag = 20
    BY <1>1, <1>5
  <2> QED
    BY <2>4, <2>5, GrantByTag
<1>6. CASE p[1].v = 21
  <2>1. Len(Body(p[1].v)) = 8
    BY <1>6, LayoutLengths
  <2>2. 4 \in 1 .. Len(Body(p[1].v)) - 3
    BY <2>1
  <2>3. 4 \in 1 .. Len(p) - 4
    BY <1>2, <2>1, <2>2, FieldInRange, Zenon
  <2>4. View(p).field[4] \in Nat
    BY <1>3, <2>3
  <2>5. View(p).tag = 21
    BY <1>1, <1>6
  <2> QED
    BY <2>4, <2>5, GrantByTag
<1>7. CASE p[1].v = 22
  <2>1. Len(Body(p[1].v)) = 7
    BY <1>7, LayoutLengths
  <2>2. 2 \in 1 .. Len(Body(p[1].v)) - 3
    BY <2>1
  <2>3. 2 \in 1 .. Len(p) - 4
    BY <1>2, <2>1, <2>2, FieldInRange, Zenon
  <2>4. View(p).field[2] \in Nat
    BY <1>3, <2>3
  <2>5. View(p).tag = 22
    BY <1>1, <1>7
  <2> QED
    BY <2>4, <2>5, GrantByTag
<1>8. CASE p[1].v \notin {19, 20, 21, 22}
  BY <1>1, <1>8, GrantByTag
<1> QED
  BY <1>4, <1>5, <1>6, <1>7, <1>8

LEMMA ChargeTyped ==
    ASSUME NEW p \in Payload, WellFormed(p)
    PROVE  Charge(View(p)) \in Nat /\ (View(p).signer = BRIDGE_ACTOR => Charge(View(p)) = 0)
BY ViewTyped, CostPositive, GateConstants DEF Charge, Lesser

-----------------------------------------------------------------------------
\* An admitted action: the signer's cell is charged, then the recipient's is
\* credited, which may be the same one.

LEMMA AdmitKeepsInv ==
    ASSUME GateInv, NEW p \in Payload, NamesActors(p), WellFormed(p),
           Affordable(View(p)), Admit(View(p))
    PROVE  GateInv'
<1> DEFINE v == View(p)
           paid == [spent EXCEPT ![v.signer] = @ + Charge(v)]
           given == [granted EXCEPT ![Recipient(v)] = @ + Grant(v)]
<1>1. v.signer \in Actor /\ Recipient(v) \in Actor
  BY DEF NamesActors
<1>2. Charge(v) \in Nat /\ (v.signer = BRIDGE_ACTOR => Charge(v) = 0)
  BY ChargeTyped
<1>3. Grant(v) \in Nat /\ (~ Grants(v) => Grant(v) = 0)
  BY ViewTyped
<1>4. Now \in Nat /\ Now <= EpochAt(admitted + 1)
  BY EpochMonotone DEF GateInv, GateTypeOK, Now
<1>5. /\ ledger' = Evaluate(v) /\ admitted' = admitted + 1
      /\ spent' = paid /\ granted' = given
  BY DEF Admit
<1> HIDE DEF v
<1>6. paid \in [Actor -> Nat] /\ given \in [Actor -> Nat]
  BY <1>1, <1>2, <1>3 DEF GateInv, GateTypeOK
<1>7. /\ Charged(v) \in [Actor -> Cell]
      /\ \A a \in Actor :
            Charged(v)[a].seen <= Now /\ Backed(Charged(v)[a], paid[a], granted[a])
  <2>1. CASE v.signer = BRIDGE_ACTOR
    <3>1. Charged(v) = ledger /\ paid = spent
      BY <1>1, <1>2, <2>1 DEF Charged, GateInv, GateTypeOK
    <3> QED
      BY <3>1 DEF GateInv, GateTypeOK, CellsBacked
  <2>2. CASE v.signer # BRIDGE_ACTOR
    <3> DEFINE new == Consume(ledger[v.signer], Now, Charge(v))
    <3>1. Charged(v) = [ledger EXCEPT ![v.signer] = new]
      BY <2>2 DEF Charged
    <3>2. Covers(ledger[v.signer], Now, Charge(v))
      BY <2>2 DEF Affordable, v
    <3>3. /\ ledger[v.signer] \in Cell /\ ledger[v.signer].seen <= Now
          /\ spent[v.signer] \in Nat /\ granted[v.signer] \in Nat
          /\ Backed(ledger[v.signer], spent[v.signer], granted[v.signer])
      BY <1>1 DEF GateInv, GateTypeOK, CellsBacked
    <3>4. /\ new \in Cell /\ new.seen = Now
          /\ Backed(new, spent[v.signer] + Charge(v), granted[v.signer])
      BY <1>2, <1>4, <3>2, <3>3, ConsumeKeepsBacked
    <3> HIDE DEF new
    <3>5. /\ Charged(v) \in [Actor -> Cell]
          /\ \A a \in Actor : Charged(v)[a] = IF a = v.signer THEN new ELSE ledger[a]
      BY <1>1, <3>1, <3>4 DEF GateInv, GateTypeOK
    <3>6. \A a \in Actor :
             paid[a] = IF a = v.signer THEN spent[v.signer] + Charge(v) ELSE spent[a]
      BY <1>1 DEF GateInv, GateTypeOK
    <3> HIDE DEF paid
    <3> QED
      BY <1>4, <3>4, <3>5, <3>6 DEF GateInv, CellsBacked
  <2> QED
    BY <2>1, <2>2
<1>8. /\ Evaluate(v) \in [Actor -> Cell]
      /\ \A a \in Actor :
            Evaluate(v)[a].seen <= Now /\ Backed(Evaluate(v)[a], paid[a], given[a])
  <2>1. CASE ~ Grants(v)
    <3>1. Evaluate(v) = Charged(v) /\ given = granted
      BY <1>1, <1>3, <2>1 DEF Evaluate, GateInv, GateTypeOK
    <3> HIDE DEF paid, given
    <3> QED
      BY <1>7, <3>1
  <2>2. CASE Grants(v)
    <3> DEFINE r == Recipient(v)
               new == TopUp(Charged(v)[r], Now, Grant(v))
    <3>1. Evaluate(v) = [Charged(v) EXCEPT ![r] = new]
      BY <2>2 DEF Evaluate
    <3>2. paid[r] \in Nat /\ granted[r] \in Nat
      BY <1>1, <1>6 DEF GateInv, GateTypeOK
    <3>3. /\ \A a \in Actor : given[a] = IF a = r THEN granted[r] + Grant(v) ELSE granted[a]
      BY <1>1 DEF GateInv, GateTypeOK
    <3> HIDE DEF paid, given
    <3>4. /\ Charged(v)[r] \in Cell /\ Charged(v)[r].seen <= Now
          /\ Backed(Charged(v)[r], paid[r], granted[r])
      BY <1>1, <1>7
    <3>5. new \in Cell /\ new.seen = Now /\ Backed(new, paid[r], granted[r] + Grant(v))
      BY <1>3, <1>4, <3>2, <3>4, TopUpKeepsBacked
    <3> HIDE DEF new, r
    <3>6. /\ Evaluate(v) \in [Actor -> Cell]
          /\ \A a \in Actor : Evaluate(v)[a] = IF a = r THEN new ELSE Charged(v)[a]
      BY <1>7, <3>1, <3>5, Zenon
    <3> QED
      BY <1>4, <1>7, <3>3, <3>5, <3>6
  <2> QED
    BY <2>1, <2>2
<1>9. GateTypeOK'
  BY <1>5, <1>6, <1>8 DEF GateInv, GateTypeOK
<1>10. CellsBacked'
  <2>1. Now' = EpochAt(admitted + 1) /\ Now' \in Nat
    BY <1>5, EpochMonotone DEF Now, GateInv, GateTypeOK
  <2> HIDE DEF paid, given
  <2> SUFFICES ASSUME NEW a \in Actor
               PROVE  ledger'[a].seen <= Now' /\ Backed(ledger'[a], spent'[a], granted'[a])
    BY DEF CellsBacked, Backed
  <2>2. ledger'[a].seen <= Now /\ Backed(ledger'[a], spent'[a], granted'[a])
    BY <1>5, <1>8
  <2>3. ledger'[a].seen \in Nat
    BY <1>5, <1>8 DEF Cell
  <2> QED
    BY <1>4, <2>1, <2>2, <2>3
<1> QED
  BY <1>9, <1>10 DEF GateInv

LEMMA GateInvInit == GateInit => GateInv
<1> SUFFICES ASSUME GateInit PROVE GateInv
  OBVIOUS
<1>1. GateTypeOK
  BY DEF GateInit, GateTypeOK, Cell
<1>2. Now \in Nat
  BY <1>1, EpochMonotone DEF GateTypeOK, Now
<1>3. FreeTier * 0 = 0
  BY GateConstants
<1>4. \A a \in Actor :
         ledger[a].seen = 0 /\ ledger[a].bal = 0 /\ spent[a] = 0 /\ granted[a] = 0
  BY Zenon DEF GateInit
<1>5. CellsBacked
  <2> SUFFICES ASSUME NEW a \in Actor
               PROVE  ledger[a].seen <= Now /\ Backed(ledger[a], spent[a], granted[a])
    BY Zenon DEF CellsBacked
  <2>1. FreeTier * ledger[a].seen = 0
    BY <1>3, <1>4
  <2>2. spent[a] + ledger[a].bal <= granted[a] + FreeTier * ledger[a].seen
    BY <1>4, <2>1
  <2> QED
    BY <1>2, <1>4, <2>2 DEF Backed
<1> QED
  BY <1>1, <1>5 DEF GateInv

LEMMA GateInvStep == GateInv /\ [GateNext]_gateVars => GateInv'
<1> SUFFICES ASSUME GateInv, [GateNext]_gateVars PROVE GateInv'
  OBVIOUS
<1>1. CASE UNCHANGED gateVars
  BY <1>1 DEF gateVars, GateInv, GateTypeOK, CellsBacked, Backed, Now
<1>2. CASE GateNext
  <2>1. PICK p \in Payload : NamesActors(p) /\ Submit(p)
    BY <1>2 DEF GateNext
  <2>2. CASE Verdict(p) = "Ok" /\ Admit(View(p))
    <3>1. WellFormed(p) /\ Affordable(View(p))
      BY <2>2 DEF Verdict
    <3> QED
      BY <2>1, <2>2, <3>1, AdmitKeepsInv
  <2>3. CASE UNCHANGED gateVars
    BY <2>3, <1>1
  <2> QED
    BY <2>1, <2>2, <2>3 DEF Submit
<1> QED
  BY <1>1, <1>2

\* The budget promise of the gate (budget.rs, evaluate and admit), whatever the
\* policy, the actors and the payloads submitted: what an actor's admitted
\* actions cost it, with what its cell still holds, is covered by the grants it
\* received and one free tier for each epoch.
THEOREM BudgetAlwaysBacked == GateSpec => []BudgetBacked
<1>1. GateInit => GateInv
  BY GateInvInit
<1>2. GateInv /\ [GateNext]_gateVars => GateInv'
  BY GateInvStep
<1>3. GateInv => BudgetBacked
  <2> SUFFICES ASSUME GateInv, NEW a \in Actor
               PROVE  spent[a] + ledger[a].bal <= granted[a] + FreeTier * Now
    BY Zenon DEF BudgetBacked
  <2>1. ledger[a].seen \in Nat /\ ledger[a].bal \in Nat /\ spent[a] \in Nat /\ granted[a] \in Nat
    BY DEF GateInv, GateTypeOK, Cell
  <2>2. ledger[a].seen <= Now /\ spent[a] + ledger[a].bal <= granted[a] + FreeTier * ledger[a].seen
    BY DEF GateInv, CellsBacked, Backed
  <2>3. Now \in Nat
    BY EpochMonotone DEF GateInv, GateTypeOK, Now
  <2>4. /\ FreeTier * ledger[a].seen <= FreeTier * Now
        /\ FreeTier * ledger[a].seen \in Nat /\ FreeTier * Now \in Nat
    BY <2>1, <2>2, <2>3, TimesMonotone, GateConstants
  <2> QED
    BY <2>1, <2>2, <2>4
<1> QED
  BY <1>1, <1>2, <1>3, PTL DEF GateSpec
=============================================================================
