--------------------------- MODULE GatewayProofs ---------------------------
(***************************************************************************)
(* The gateway's promises, proved for every finite set of connections, all *)
(* request streams and all settings: VerdictIsOwn, OneFramePerSubmit,      *)
(* PoolBounded and RateWindow.                                             *)
(*                                                                         *)
(* None of them is inductive; they follow from GatewayInv, which every     *)
(* action keeps.                                                           *)
(***************************************************************************)
EXTENDS GatewayStepProofs, FiniteSetTheorems

-----------------------------------------------------------------------------
\* The permits, counted by the phases of the threads.

InPhase(th, P) == {d \in Client : th[d].pc \in P}

LEMMA PhaseCount ==
    ASSUME NEW c \in Client, NEW pc, NEW k, NEW a, Moved(c, pc, k, a), NEW P
    PROVE  /\ IsFiniteSet(InPhase(thread, P)) /\ Cardinality(InPhase(thread, P)) \in Nat
           /\ Cardinality(InPhase(thread', P)) =
                Cardinality(InPhase(thread, P)) + (IF pc \in P THEN 1 ELSE 0)
                                        - (IF thread[c].pc \in P THEN 1 ELSE 0)
<1> DEFINE S == InPhase(thread, P)
           T == InPhase(thread', P)
<1>1. IsFiniteSet(S) /\ Cardinality(S) \in Nat
  BY GatewayConstants, FS_Subset, FS_CardinalityType DEF InPhase
<1>2. CASE pc \in P /\ thread[c].pc \in P
  <2>1. T = S
    BY <1>2 DEF Moved, InPhase
  <2> QED
    BY <1>1, <1>2, <2>1
<1>3. CASE pc \notin P /\ thread[c].pc \notin P
  <2>1. T = S
    BY <1>3 DEF Moved, InPhase
  <2> QED
    BY <1>1, <1>3, <2>1
<1>4. CASE pc \in P /\ thread[c].pc \notin P
  <2>1. T = S \cup {c} /\ c \notin S
    BY <1>4 DEF Moved, InPhase
  <2>2. Cardinality(S \cup {c}) = Cardinality(S) + 1
    <3> HIDE DEF S, T
    <3> QED
      BY <1>1, <2>1, FS_AddElement
  <2> QED
    BY <1>1, <1>4, <2>1, <2>2
<1>5. CASE pc \notin P /\ thread[c].pc \in P
  <2>1. T = S \ {c} /\ c \in S
    BY <1>5 DEF Moved, InPhase
  <2>2. Cardinality(S \ {c}) = Cardinality(S) - 1
    <3> HIDE DEF S, T
    <3> QED
      BY <1>1, <2>1, FS_RemoveElement
  <2> QED
    BY <1>1, <1>5, <2>1, <2>2
<1> QED
  BY <1>2, <1>3, <1>4, <1>5

\* PoolBounded over InPhase, which PhaseCount counts.
LEMMA PoolCounted ==
    LET Counted(th, n, conns, max) ==
          LET held == Cardinality(InPhase(th, {"pop", "connect", "write", "read", "release"}))
          IN  /\ held <= max
              /\ n = held + Cardinality(InPhase(th, {"rollback"}))
              /\ Len(conns) + Cardinality(InPhase(th, {"connect", "write", "read"})) <= max
    IN  /\ PoolBounded <=> Counted(thread, inflight, idle, MaxInflight)
        /\ PoolBounded' <=> Counted(thread', inflight', idle', MaxInflight')
<1>1. /\ Holding = InPhase(thread, {"pop", "connect", "write", "read", "release"})
      /\ Holding' = InPhase(thread', {"pop", "connect", "write", "read", "release"})
  BY DEF Holding, InPhase
<1>2. /\ {c \in Client : thread[c].pc = "rollback"} = InPhase(thread, {"rollback"})
      /\ {c \in Client : thread'[c].pc = "rollback"} = InPhase(thread', {"rollback"})
  BY DEF InPhase
<1>3. /\ {c \in Client : thread[c].pc \in {"connect", "write", "read"}} = InPhase(thread, {"connect", "write", "read"})
      /\ {c \in Client : thread'[c].pc \in {"connect", "write", "read"}} = InPhase(thread', {"connect", "write", "read"})
  BY DEF InPhase
<1> QED
  BY Zenon, <1>1, <1>2, <1>3 DEF PoolBounded

LEMMA MaxInflightTyped ==
    ASSUME GatewayTypeOK
    PROVE  MaxInflight \in Nat /\ (sc' = sc => MaxInflight' = MaxInflight)
BY GatewayConstants DEF GatewayTypeOK, MaxInflight, Conf, Greater, Lesser

\* What a move of one thread from one phase to another does to the three counts.
Balanced(old, pc) ==
    LET held  == {"pop", "connect", "write", "read", "release"}
        owing == {"connect", "write", "read"}
    IN  /\ pc \in held /\ old \notin held => inflight < MaxInflight
        /\ inflight' = inflight + (IF pc \in held \cup {"rollback"} THEN 1 ELSE 0)
                                - (IF old \in held \cup {"rollback"} THEN 1 ELSE 0)
        /\ \/ Len(idle') + (IF pc \in owing THEN 1 ELSE 0) <= Len(idle) + (IF old \in owing THEN 1 ELSE 0)
           \/ idle' = <<>> /\ pc \in held

LEMMA MovedKeepsPool ==
    ASSUME GatewayTypeOK, PoolBounded, NEW c \in Client, NEW pc, NEW k, NEW a, Moved(c, pc, k, a),
           sc' = sc, Len(idle') \in Nat, Balanced(thread[c].pc, pc)
    PROVE  PoolBounded'
<1> DEFINE held == {"pop", "connect", "write", "read", "release"}
           owing == {"connect", "write", "read"}
           h == Cardinality(InPhase(thread, held))
           hh == Cardinality(InPhase(thread', held))
           r == Cardinality(InPhase(thread, {"rollback"}))
           rr == Cardinality(InPhase(thread', {"rollback"}))
           o == Cardinality(InPhase(thread, owing))
           oo == Cardinality(InPhase(thread', owing))
<1>1. ASSUME NEW P
      PROVE  /\ Cardinality(InPhase(thread, P)) \in Nat
             /\ Cardinality(InPhase(thread', P)) = Cardinality(InPhase(thread, P))
                    + (IF pc \in P THEN 1 ELSE 0) - (IF thread[c].pc \in P THEN 1 ELSE 0)
  BY PhaseCount
<1>h. h \in Nat /\ hh = h + (IF pc \in held THEN 1 ELSE 0) - (IF thread[c].pc \in held THEN 1 ELSE 0)
  BY <1>1
<1>r. r \in Nat /\ rr = r + (IF pc = "rollback" THEN 1 ELSE 0) - (IF thread[c].pc = "rollback" THEN 1 ELSE 0)
  BY <1>1
<1>o. o \in Nat /\ oo = o + (IF pc \in owing THEN 1 ELSE 0) - (IF thread[c].pc \in owing THEN 1 ELSE 0)
  BY <1>1
<1>2. h <= MaxInflight /\ inflight = h + r /\ Len(idle) + o <= MaxInflight
  BY PoolCounted
<1>3. MaxInflight \in Nat /\ MaxInflight' = MaxInflight
  BY MaxInflightTyped
<1>i. Len(idle) \in Nat
  BY DEF GatewayTypeOK
<1>4. oo <= hh
  <2>1. IsFiniteSet(InPhase(thread', held)) /\ InPhase(thread', owing) \subseteq InPhase(thread', held)
    BY GatewayConstants, FS_Subset DEF InPhase
  <2> QED
    BY <2>1, FS_Subset
<1> HIDE DEF h, hh, r, rr, o, oo
<1>5. hh <= MaxInflight
  BY <1>h, <1>r, <1>2, <1>3 DEF Balanced
<1>6. inflight' = hh + rr
  <2>1. ASSUME NEW p
        PROVE  (IF p \in held \cup {"rollback"} THEN 1 ELSE 0)
                 = (IF p \in held THEN 1 ELSE 0) + (IF p = "rollback" THEN 1 ELSE 0)
    OBVIOUS
  <2>2. inflight' = inflight + (IF pc \in held \cup {"rollback"} THEN 1 ELSE 0)
                             - (IF thread[c].pc \in held \cup {"rollback"} THEN 1 ELSE 0)
    BY DEF Balanced
  <2> HIDE DEF held
  <2> QED
    BY <1>h, <1>r, <1>2, <2>1, <2>2
<1>7. Len(idle') + oo <= MaxInflight
  <2>1. CASE idle' = <<>> /\ pc \in held
    <3>1. Len(idle') = 0
      BY <2>1
    <3>2. hh \in Int /\ oo \in Int
      BY <1>h, <1>o
    <3> QED
      BY <1>3, <1>4, <1>5, <3>1, <3>2
  <2>2. CASE Len(idle') + (IF pc \in owing THEN 1 ELSE 0) <= Len(idle) + (IF thread[c].pc \in owing THEN 1 ELSE 0)
    BY <1>i, <1>h, <1>o, <1>2, <1>3, <2>2
  <2> QED
    BY <2>1, <2>2 DEF Balanced
<1>8. hh <= MaxInflight' /\ inflight' = hh + rr /\ Len(idle)' + oo <= MaxInflight'
  BY <1>3, <1>5, <1>6, <1>7
<1> QED
  BY <1>8, PoolCounted DEF hh, rr, oo

-----------------------------------------------------------------------------
\* Each step within the pool.

\* A thread that holds no connection after its step, and hands none back.
LEMMA MovedOffKeeps ==
    ASSUME RequestsInv, NEW c \in Client, NEW pc, pc \notin {"new", "closed", "write", "read"}, NEW a,
           Moved(c, pc, 0, a), thread[c].pc # "closed",
           pc \in {"release", "store"} => a \in AnswerSet /\ Given(BodyOf(c, thread[c].at), a),
           Framed(c, thread[c].at) => pc \in {"read", "release", "store"},
           pc \in {"release", "store"} /\ Refusal(a) => ~Framed(c, thread[c].at),
           inflight' \in Int, PoolBounded', UNCHANGED <<sc, clock, idle, link, framed, said>>
    PROVE  RequestsInv'
<1> USE DEF RequestsInv
<1>1. GatewayTypeOK'
  BY DEF GatewayTypeOK, Moved
<1>2. LinksOwned' /\ QueuesOwned'
  BY MovedOff
<1>3. VerdictsGiven'
  BY MovedKeepsVerdicts
<1>4. FramesPlaced' /\ FramesOnce'
  BY MovedKeepsFrames
<1> QED
  BY <1>1, <1>2, <1>3, <1>4

LEMMA IdleTyped ==
    ASSUME GatewayTypeOK
    PROVE  Len(idle) \in Nat
BY DEF GatewayTypeOK

LEMMA AcquirePermitKeeps ==
    ASSUME RequestsInv, NEW c \in Client, AcquirePermit(c)
    PROVE  RequestsInv'
<1> DEFINE pc == IF Grants(inflight) THEN "pop" ELSE "rollback"
<1>1. /\ thread[c].pc = "permit" /\ inflight' = inflight + 1 /\ Goes(c, pc)
      /\ UNCHANGED <<sc, clock, idle, link, framed, said>>
  BY DEF AcquirePermit, Running, rateVars, hostVars
<1>2. GatewayTypeOK /\ LinksOwned /\ PoolBounded /\ FramesPlaced /\ thread[c].link = 0
  BY <1>1, PooledEntry DEF RequestsInv
<1>3. pc \in Pooled /\ pc \in {"pop", "rollback"} /\ (pc = "pop" => inflight < MaxInflight)
  BY DEF Pooled, Grants
<1> HIDE DEF pc
<1>4. Moved(c, pc, 0, thread[c].answer)
  BY <1>1, <1>2, <1>3, GoesMoves
<1>5. inflight' \in Int
  BY <1>1, <1>2 DEF GatewayTypeOK
<1>6. PoolBounded'
  <2>1. Balanced(thread[c].pc, pc)
    BY <1>1, <1>2, <1>3, <1>4, IdleTyped DEF Balanced, GatewayTypeOK
  <2>2. Len(idle') \in Nat
    BY <1>1, <1>2, IdleTyped
  <2> QED
    BY <1>1, <1>2, <1>3, <1>4, <2>1, <2>2, MovedKeepsPool
<1>7. ~Framed(c, thread[c].at)
  BY <1>1, <1>2, NothingFramedYet
<1> QED
  BY <1>1, <1>3, <1>4, <1>5, <1>6, <1>7, MovedOffKeeps

LEMMA RollbackKeeps ==
    ASSUME RequestsInv, NEW c \in Client, Rollback(c)
    PROVE  RequestsInv'
<1>1. /\ thread[c].pc = "rollback" /\ inflight' = inflight - 1 /\ Answers(c, "store", Problem("503"))
      /\ UNCHANGED <<sc, clock, idle, link, framed, said>>
  BY DEF Rollback, Running, rateVars, hostVars
<1>2. GatewayTypeOK /\ LinksOwned /\ PoolBounded /\ FramesPlaced /\ thread[c] \in Thread /\ thread[c].link = 0
  BY <1>1, PooledEntry DEF RequestsInv
<1>3. Problem("503") \in AnswerSet /\ Problem("503").verdict = "none"
  BY ProblemTyped DEF Status
<1>4. Moved(c, "store", 0, Problem("503"))
  <2> DEFINE u == [thread[c] EXCEPT !.pc = "store", !.answer = Problem("503")]
  <2>1. u \in Thread /\ u.pc = "store" /\ u.link = 0 /\ u.answer = Problem("503")
        /\ u.at = thread[c].at /\ u.out = thread[c].out
    BY Zenon, <1>2, <1>3 DEF Thread, Outer
  <2>2. thread' = [thread EXCEPT ![c] = u]
    BY Zenon, <1>1 DEF Answers
  <2> HIDE DEF u
  <2> QED
    BY <1>2, <2>1, <2>2 DEF Moved, GatewayTypeOK
<1>5. inflight' \in Int
  BY <1>1, <1>2 DEF GatewayTypeOK
<1>6. PoolBounded'
  <2>1. Balanced(thread[c].pc, "store")
    BY <1>1, <1>2, <1>4, IdleTyped DEF Balanced, GatewayTypeOK
  <2>2. Len(idle') \in Nat
    BY <1>1, <1>2, IdleTyped
  <2> QED
    BY <1>1, <1>2, <1>4, <2>1, <2>2, MovedKeepsPool
<1>7. ~Framed(c, thread[c].at)
  BY <1>1, <1>2, NothingFramedYet
<1>8. Given(BodyOf(c, thread[c].at), Problem("503"))
  BY <1>3 DEF Given
<1> QED
  BY <1>1, <1>3, <1>4, <1>5, <1>6, <1>7, <1>8, MovedOffKeeps

LEMMA ReleaseKeeps ==
    ASSUME RequestsInv, NEW c \in Client, Release(c)
    PROVE  RequestsInv'
<1>1. /\ thread[c].pc = "release" /\ inflight' = inflight - 1 /\ Goes(c, "store")
      /\ UNCHANGED <<sc, clock, idle, link, framed, said>>
  BY DEF Release, Released, Running, rateVars, hostVars
<1>2. GatewayTypeOK /\ LinksOwned /\ PoolBounded /\ VerdictsGiven /\ FramesOnce /\ thread[c].link = 0
  BY <1>1, PooledEntry DEF RequestsInv
<1>3. Moved(c, "store", 0, thread[c].answer)
  BY <1>1, <1>2, GoesMoves DEF Outer
<1>4. inflight' \in Int
  BY <1>1, <1>2 DEF GatewayTypeOK
<1>5. PoolBounded'
  <2>1. Balanced(thread[c].pc, "store")
    BY <1>1, <1>2, <1>3, IdleTyped DEF Balanced, GatewayTypeOK
  <2>2. Len(idle') \in Nat
    BY <1>1, <1>2, IdleTyped
  <2> QED
    BY <1>1, <1>2, <1>3, <2>1, <2>2, MovedKeepsPool
<1>6. /\ thread[c].answer \in AnswerSet /\ Given(BodyOf(c, thread[c].at), thread[c].answer)
      /\ Refusal(thread[c].answer) => ~Framed(c, thread[c].at)
  BY <1>1, <1>2 DEF VerdictsGiven, FramesOnce
<1> QED
  BY <1>1, <1>3, <1>4, <1>5, <1>6, MovedOffKeeps

\* A round trip that fails: a retry only where nothing was framed, else a 502
\* or 504.
LEMMA FailsKeeps ==
    ASSUME RequestsInv, NEW c \in Client, NEW e, e # "none", Fails(c, e),
           thread[c].pc \in {"write", "read"}, e = "broken" => thread[c].pc = "write",
           UNCHANGED <<sc, clock, inflight, link, framed, said>>
    PROVE  RequestsInv'
<1>1. GatewayTypeOK /\ PoolBounded /\ FramesPlaced
  BY DEF RequestsInv
<1>2. /\ idle' = idle
      /\ \/ Moved(c, "connect", 0, thread[c].answer) /\ e = "broken"
         \/ Moved(c, "release", 0, MapError(e))
  BY <1>1, FailsMoves
<1>3. inflight' \in Int
  BY <1>1 DEF GatewayTypeOK
<1>4. CASE Moved(c, "connect", 0, thread[c].answer) /\ e = "broken"
  <2>1. ~Framed(c, thread[c].at)
    BY <1>1, <1>4, NothingFramedYet
  <2>2. PoolBounded'
    <3>1. Balanced(thread[c].pc, "connect")
      BY <1>1, <1>2, <1>4, IdleTyped DEF Balanced, GatewayTypeOK
    <3>2. Len(idle') \in Nat
      BY <1>1, <1>2, IdleTyped
    <3> QED
      BY <1>1, <1>2, <1>4, <3>1, <3>2, MovedKeepsPool
  <2> QED
    BY <1>2, <1>3, <1>4, <2>1, <2>2, MovedOffKeeps
<1>5. CASE Moved(c, "release", 0, MapError(e))
  <2>1. /\ MapError(e) \in AnswerSet /\ ~Refusal(MapError(e))
        /\ Given(BodyOf(c, thread[c].at), MapError(e))
    BY MappedTyped DEF Given
  <2>2. PoolBounded'
    <3>1. Balanced(thread[c].pc, "release")
      BY <1>1, <1>2, <1>5, IdleTyped DEF Balanced, GatewayTypeOK
    <3>2. Len(idle') \in Nat
      BY <1>1, <1>2, IdleTyped
    <3> QED
      BY <1>1, <1>2, <1>5, <3>1, <3>2, MovedKeepsPool
  <2> QED
    BY <1>2, <1>3, <1>5, <2>1, <2>2, MovedOffKeeps
<1> QED
  BY <1>2, <1>4, <1>5

LEMMA PopIdleKeeps ==
    ASSUME RequestsInv, NEW c \in Client, PopIdle(c)
    PROVE  RequestsInv'
<1>1. /\ thread[c].pc = "pop"
      /\ UNCHANGED <<sc, clock, inflight, link, framed, said>>
  BY DEF PopIdle, Running, rateVars, hostVars
<1>2. /\ GatewayTypeOK /\ LinksOwned /\ QueuesOwned /\ VerdictsGiven /\ PoolBounded
      /\ FramesPlaced /\ FramesOnce /\ thread[c] \in Thread /\ thread[c].link = 0
  BY <1>1, PooledEntry DEF RequestsInv
<1>3. inflight' \in Int /\ ~Framed(c, thread[c].at)
  BY <1>1, <1>2, NothingFramedYet DEF GatewayTypeOK
<1>4. CASE idle = <<>>
  <2>1. Goes(c, "connect") /\ idle' = idle
    BY <1>4 DEF PopIdle
  <2>2. Moved(c, "connect", 0, thread[c].answer)
    BY <1>2, <2>1, GoesMoves DEF Pooled
  <2>3. PoolBounded'
    <3>1. Balanced(thread[c].pc, "connect")
      BY <1>1, <1>2, <1>4, <2>1, IdleTyped DEF Balanced, GatewayTypeOK
    <3> QED
      BY <1>1, <1>2, <2>1, <2>2, <3>1, IdleTyped, MovedKeepsPool
  <2> QED
    BY <1>1, <1>3, <2>1, <2>2, <2>3, MovedOffKeeps
<1>5. CASE idle # <<>>
  <2> DEFINE k == idle[Len(idle)]
  <2>1. /\ Len(idle) \in Nat \ {0} /\ Len(idle') = Len(idle) - 1 /\ idle' \in Seq(Nat)
        /\ \A i \in DOMAIN idle' : i \in DOMAIN idle /\ i # Len(idle) /\ idle'[i] = idle[i]
        /\ Len(idle) \in DOMAIN idle /\ k \in Nat
    <3>1. idle \in Seq(Nat) /\ idle' = SubSeq(idle, 1, Len(idle) - 1)
      BY <1>2, <1>5 DEF PopIdle, GatewayTypeOK
    <3>2. Len(idle) \in Nat \ {0} /\ DOMAIN idle = 1..Len(idle) /\ \A i \in 1..Len(idle) : idle[i] \in Nat
      BY <1>5, <3>1
    <3>3. 1 \in Int /\ Len(idle) - 1 \in Int /\ \A i \in 1..Len(idle) - 1 : idle[i] \in Nat
      BY <3>2
    <3>4. /\ idle' \in Seq(Nat) /\ Len(idle') = Len(idle) - 1
          /\ \A i \in 1..Len(idle) - 1 : idle'[i] = idle[i]
      BY <3>1, <3>2, <3>3
    <3>5. DOMAIN idle' = 1..Len(idle) - 1
      BY <3>4
    <3> QED
      BY <3>2, <3>4, <3>5
  <2>2. Moved(c, "write", k, thread[c].answer)
    <3> DEFINE u == [thread[c] EXCEPT !.pc = "write", !.link = k]
    <3>1. u \in Thread /\ u.pc = "write" /\ u.link = k /\ u.answer = thread[c].answer
          /\ u.at = thread[c].at /\ u.out = thread[c].out
      BY Zenon, <1>2, <2>1 DEF Thread, Pooled
    <3>2. thread' = [thread EXCEPT ![c] = u]
      BY Zenon, <1>5, <2>1 DEF PopIdle
    <3> HIDE DEF u
    <3> QED
      BY <1>2, <3>1, <3>2 DEF Moved, GatewayTypeOK
  <2>3. PoolBounded'
    <3>1. Balanced(thread[c].pc, "write")
      BY <1>1, <1>2, <2>1 DEF Balanced, GatewayTypeOK
    <3> QED
      BY <1>1, <1>2, <2>1, <2>2, <3>1, MovedKeepsPool
  <2>4. GatewayTypeOK'
    BY <1>1, <1>2, <2>1, <2>2 DEF GatewayTypeOK, Moved
  <2>5. /\ k \in DOMAIN link /\ Blank(link[k]) /\ \A d \in Client : thread[d].link # k
        /\ \A i \in DOMAIN idle' : idle'[i] # k
    BY <1>2, <2>1 DEF LinksOwned, QueuesOwned
  <2> HIDE DEF k
  <2>6. k # 0
    BY <1>2, <2>5 DEF GatewayTypeOK
  <2>7. LinksOwned' /\ QueuesOwned'
    BY <1>1, <1>2, <2>1, <2>2, <2>5, <2>6, LinkTaken
  <2>8. VerdictsGiven'
    BY <1>1, <1>2, <2>2, MovedKeepsVerdicts
  <2>9. FramesPlaced' /\ FramesOnce'
    BY <1>1, <1>2, <1>3, <2>2, MovedKeepsFrames
  <2> QED
    BY <2>3, <2>4, <2>7, <2>8, <2>9 DEF RequestsInv
<1> QED
  BY <1>4, <1>5

LEMMA ConnectKeeps ==
    ASSUME RequestsInv, NEW c \in Client, Connect(c)
    PROVE  RequestsInv'
<1>1. /\ thread[c].pc = "connect"
      /\ UNCHANGED <<sc, clock, inflight, idle, framed, said>>
  BY DEF Connect, Running, rateVars, hostVars
<1>2. /\ GatewayTypeOK /\ LinksOwned /\ QueuesOwned /\ VerdictsGiven /\ PoolBounded
      /\ FramesPlaced /\ FramesOnce /\ thread[c] \in Thread /\ thread[c].link = 0
  BY <1>1, PooledEntry DEF RequestsInv
<1>3. inflight' \in Int /\ ~Framed(c, thread[c].at) /\ Len(idle') \in Nat
  BY Zenon, <1>1, <1>2, NothingFramedYet, IdleTyped DEF GatewayTypeOK
<1>4. ASSUME NEW e, Answers(c, "release", MapError(e)), link' = link PROVE RequestsInv'
  <2>1. /\ MapError(e) \in AnswerSet /\ ~Refusal(MapError(e))
        /\ Given(BodyOf(c, thread[c].at), MapError(e))
    BY MappedTyped DEF Given
  <2>2. Moved(c, "release", 0, MapError(e))
    <3> DEFINE u == [thread[c] EXCEPT !.pc = "release", !.answer = MapError(e)]
    <3>1. u \in Thread /\ u.pc = "release" /\ u.link = 0 /\ u.answer = MapError(e)
          /\ u.at = thread[c].at /\ u.out = thread[c].out
      BY Zenon, <1>2, <2>1 DEF Thread, Pooled
    <3>2. thread' = [thread EXCEPT ![c] = u]
      BY Zenon, <1>4 DEF Answers
    <3> HIDE DEF u
    <3> QED
      BY <1>2, <3>1, <3>2 DEF Moved, GatewayTypeOK
  <2>3. PoolBounded'
    <3>1. Balanced(thread[c].pc, "release")
      BY <1>1, <1>2, IdleTyped DEF Balanced, GatewayTypeOK
    <3> QED
      BY <1>1, <1>2, <1>3, <2>2, <3>1, MovedKeepsPool
  <2> QED
    BY SMTT(30), <1>1, <1>3, <1>4, <2>1, <2>2, <2>3, MovedOffKeeps
<1>5. CASE /\ link' = Append(link, [open |-> TRUE, sent |-> <<>>, got |-> <<>>])
           /\ thread' = [thread EXCEPT ![c].pc = "write", ![c].link = Len(link) + 1, ![c].fresh = TRUE]
  <2> DEFINE k == Len(link) + 1
             l == [open |-> TRUE, sent |-> <<>>, got |-> <<>>]
  <2>1. link \in Seq(HostLink) /\ l \in HostLink /\ Blank(l) /\ k \in Nat \ {0}
    BY <1>2 DEF GatewayTypeOK, HostLink, Blank
  <2>2. Moved(c, "write", k, thread[c].answer)
    <3>1. thread' = [thread EXCEPT ![c] = [@ EXCEPT !.pc = "write", !.link = k, !.fresh = TRUE]]
      BY Zenon, <1>5
    <3> QED
      BY Zenon, <1>2, <2>1, <3>1, TakesMoves DEF Pooled
  <2> HIDE DEF l
  <2>3. /\ link' \in Seq(HostLink) /\ k \in DOMAIN link' /\ link'[k] = l /\ k \notin DOMAIN link
        /\ \A j \in DOMAIN link : j \in DOMAIN link' /\ link'[j] = link[j]
    BY <1>5, <2>1 DEF l
  <2> HIDE DEF k
  <2>4. GatewayTypeOK'
    BY <1>1, <1>2, <1>3, <2>2, <2>3 DEF GatewayTypeOK, Moved
  <2>5. /\ \A d \in Client : thread[d].link # k
        /\ \A i \in DOMAIN idle' : i \in DOMAIN idle /\ idle'[i] = idle[i] /\ idle'[i] # k
    BY <1>1, <1>2, <2>1, <2>3 DEF LinksOwned
  <2>6. LinksOwned' /\ QueuesOwned'
    BY <1>1, <1>2, <2>1, <2>2, <2>3, <2>5, LinkTaken
  <2>7. VerdictsGiven'
    BY Zenon, <1>1, <1>2, <2>2, MovedKeepsVerdicts
  <2>8. FramesPlaced' /\ FramesOnce'
    BY <1>1, <1>2, <1>3, <2>2, MovedKeepsFrames
  <2>9. PoolBounded'
    <3>1. Balanced(thread[c].pc, "write")
      BY <1>1, <1>2, IdleTyped DEF Balanced, GatewayTypeOK
    <3> QED
      BY <1>1, <1>2, <1>3, <2>2, <3>1, MovedKeepsPool
  <2> QED
    BY <2>4, <2>6, <2>7, <2>8, <2>9 DEF RequestsInv
<1> QED
  BY <1>4, <1>5 DEF Connect

LEMMA WriteKeeps ==
    ASSUME RequestsInv, NEW c \in Client, Write(c)
    PROVE  RequestsInv'
<1> DEFINE k == thread[c].link
           r == <<c, thread[c].at>>
<1>1. /\ thread[c].pc = "write"
      /\ UNCHANGED <<sc, clock, inflight, said>>
  BY Zenon DEF Write, Running, rateVars, hostVars
<1>2. /\ GatewayTypeOK /\ LinksOwned /\ QueuesOwned /\ VerdictsGiven /\ PoolBounded
      /\ FramesPlaced /\ FramesOnce /\ thread[c] \in Thread /\ k \in DOMAIN link /\ Blank(link[k])
  BY <1>1, PooledEntry DEF RequestsInv, QueuesOwned
<1>3. CASE Fails(c, "broken") /\ UNCHANGED <<link, framed>>
  BY <1>1, <1>3, FailsKeeps
<1>4. CASE Fails(c, "timeout") /\ UNCHANGED <<link, framed>>
  BY <1>1, <1>4, FailsKeeps
<1>5. CASE /\ link' = IF link[k].open THEN [link EXCEPT ![k].sent = Append(@, r)] ELSE link
           /\ framed' = IF link[k].open THEN Append(framed, r) ELSE framed
           /\ Goes(c, "read") /\ UNCHANGED idle
  <2>1. Moved(c, "read", k, thread[c].answer)
    BY <1>2, <1>5, GoesMoves DEF Pooled
  <2>2. r \in Client \X Nat /\ link \in Seq(HostLink) /\ link[k] \in HostLink /\ framed \in Seq(Client \X Nat)
    BY <1>2 DEF GatewayTypeOK, Thread
  <2> HIDE DEF k
  <2>3. PICK l \in HostLink :
           /\ link' = [link EXCEPT ![k] = l]
           /\ l.got = <<>> /\ (l.sent = <<>> \/ l.sent = <<r>>)
    <3>1. CASE link[k].open
      <4> DEFINE l == [link[k] EXCEPT !.sent = Append(@, r)]
      <4>1. Append(link[k].sent, r) = <<r>> /\ <<r>> \in Seq(Client \X Nat) /\ link[k].got = <<>>
        BY <1>2, <2>2 DEF Blank
      <4>2. l = [link[k] EXCEPT !.sent = <<r>>]
        BY Zenon, <4>1
      <4>3. l \in HostLink /\ l.got = <<>> /\ l.sent = <<r>>
        <5> HIDE DEF r, l
        <5> QED
          BY Zenon, <2>2, <4>1, <4>2 DEF HostLink
      <4>4. link' = [link EXCEPT ![k] = l]
        BY <1>5, <3>1
      <4> QED
        BY Zenon, <4>3, <4>4
    <3>2. CASE ~link[k].open
      <4>1. link' = [link EXCEPT ![k] = link[k]]
        BY <1>2, <1>5, <2>2, <3>2
      <4> QED
        BY Zenon, <1>2, <2>2, <4>1 DEF Blank
    <3> QED
      BY <3>1, <3>2
  <2>4. link' \in Seq(HostLink) /\ DOMAIN link' = DOMAIN link /\ link'[k] = l
        /\ \A j \in DOMAIN link : j # k => link'[j] = link[j]
    BY <1>2, <2>2, <2>3
  <2>5. GatewayTypeOK'
    <3>1. framed' \in Seq(Client \X Nat)
      BY <1>5, <2>2
    <3> QED
      BY <1>1, <1>2, <1>5, <2>1, <2>4, <3>1 DEF GatewayTypeOK, Moved
  <2>6. LinksOwned' /\ QueuesOwned'
    <3>1. Waiting(link'[k], <<c, thread[c].at>>, BodyOf(c, thread[c].at), said)
      BY <2>3, <2>4 DEF Waiting, Blank
    <3> QED
      BY Zenon, <1>1, <1>2, <1>5, <2>1, <2>4, <3>1, LinkWritten DEF k
  <2>7. VerdictsGiven'
    BY <1>1, <1>2, <2>1, MovedKeepsVerdicts
  <2>8. FramesPlaced' /\ FramesOnce'
    <3>1. CASE framed' = Append(framed, r)
      BY <1>1, <1>2, <2>1, <3>1, FrameAdded
    <3>2. CASE framed' = framed
      BY SMTT(30), <1>1, <1>2, <2>1, <3>2, MovedKeepsFrames
    <3> QED
      BY <1>5, <3>1, <3>2
  <2>9. PoolBounded'
    <3>1. Balanced(thread[c].pc, "read") /\ Len(idle') \in Nat
      BY <1>1, <1>2, <1>5, IdleTyped DEF Balanced, GatewayTypeOK
    <3> QED
      BY <1>1, <1>2, <2>1, <3>1, MovedKeepsPool
  <2> QED
    BY <2>5, <2>6, <2>7, <2>8, <2>9 DEF RequestsInv
<1> QED
  BY Zenon, <1>3, <1>4, <1>5 DEF Write

LEMMA ReadVerdictKeeps ==
    ASSUME RequestsInv, NEW c \in Client, ReadVerdict(c)
    PROVE  RequestsInv'
<1> DEFINE k == thread[c].link
<1>1. /\ thread[c].pc = "read"
      /\ UNCHANGED <<sc, clock, inflight, framed, said>>
  BY Zenon DEF ReadVerdict, Running, rateVars, hostVars
<1>2. /\ GatewayTypeOK /\ LinksOwned /\ QueuesOwned /\ VerdictsGiven /\ PoolBounded
      /\ FramesPlaced /\ FramesOnce /\ thread[c] \in Thread /\ k \in DOMAIN link /\ Awaits(c)
  BY SMTT(30), <1>1, PooledEntry DEF RequestsInv, QueuesOwned
<1>3. CASE Fails(c, "truncated") /\ UNCHANGED link
  BY <1>1, <1>3, FailsKeeps
<1>4. CASE Fails(c, "timeout") /\ UNCHANGED link
  BY <1>1, <1>4, FailsKeeps
<1>5. CASE /\ link[k].got # <<>>
           /\ link' = [link EXCEPT ![k].got = Tail(@)]
           /\ thread' = [thread EXCEPT ![c].pc = "release", ![c].link = 0,
                                       ![c].answer = MapVerdict(Head(link[k].got))]
           /\ idle' = Returned(c, "none")
  <2>1. link \in Seq(HostLink) /\ link[k] \in HostLink /\ k \in Nat /\ idle \in Seq(Nat) /\ Len(idle) \in Nat
    BY <1>2 DEF GatewayTypeOK
  <2>2. PICK v \in HostVerdicts :
           link[k].sent = <<>> /\ link[k].got = <<v>> /\ <<BodyOf(c, thread[c].at), v>> \in said
    BY Zenon, <1>2, <1>5 DEF Awaits, Waiting, Blank
  <2>3. /\ MapVerdict(v) \in AnswerSet /\ ~Refusal(MapVerdict(v))
        /\ Given(BodyOf(c, thread[c].at), MapVerdict(v))
    BY <2>2, MappedTyped DEF Given, Refusal
  <2>4. Moved(c, "release", 0, MapVerdict(v))
    <3>1. Head(link[k].got) = v
      BY <2>2
    <3>2. thread' = [thread EXCEPT ![c] = [@ EXCEPT !.pc = "release", !.link = 0, !.answer = MapVerdict(v)]]
      BY Zenon, <1>5, <3>1
    <3> QED
      BY Zenon, <1>2, <2>3, <3>2, AnswersMoves DEF Pooled
  <2>5. idle' = idle \/ idle' = Append(idle, k)
    BY <1>5 DEF Returned
  <2> HIDE DEF k
  <2>6. PICK l \in HostLink : link' = [link EXCEPT ![k] = l] /\ Blank(l)
    <3> DEFINE l == [link[k] EXCEPT !.got = Tail(@)]
    <3>1. l = [link[k] EXCEPT !.got = <<>>] /\ <<>> \in Seq(HostVerdicts)
      BY <2>2
    <3>2. l \in HostLink /\ Blank(l)
      <4> HIDE DEF l
      <4> QED
        BY Zenon, <2>1, <2>2, <3>1 DEF HostLink, Blank
    <3>3. link' = [link EXCEPT ![k] = l]
      BY <1>5
    <3> QED
      BY Zenon, <3>2, <3>3
  <2>7. link' \in Seq(HostLink) /\ DOMAIN link' = DOMAIN link /\ link'[k] = l
        /\ \A j \in DOMAIN link : j # k => link'[j] = link[j]
    BY <1>2, <2>1, <2>6
  <2>8. GatewayTypeOK'
    <3>1. idle' \in Seq(Nat)
      <4>1. idle \in Seq(Nat) /\ k \in Nat
        BY <1>2, <2>1 DEF GatewayTypeOK
      <4>2. Append(idle, k) \in Seq(Nat)
        BY <4>1
      <4> QED
        BY <2>5, <4>1, <4>2, Zenon
    <3> QED
      BY <1>1, <1>2, <2>4, <2>7, <3>1 DEF GatewayTypeOK, Moved
  <2>9. LinksOwned' /\ QueuesOwned'
    BY Zenon, <1>1, <1>2, <2>4, <2>5, <2>6, <2>7, LinkReturned DEF k
  <2>10. VerdictsGiven'
    BY Zenon, <1>1, <1>2, <2>3, <2>4, MovedKeepsVerdicts
  <2>11. FramesPlaced' /\ FramesOnce'
    BY Zenon, <1>1, <1>2, <2>3, <2>4, MovedKeepsFrames
  <2>12. PoolBounded'
    <3>1. Len(idle') \in Nat /\ Len(idle') <= Len(idle) + 1
      BY <2>1, <2>5
    <3>2. Balanced(thread[c].pc, "release")
      BY <1>1, <1>2, <2>1, <3>1 DEF Balanced, GatewayTypeOK
    <3> QED
      BY <1>1, <1>2, <2>4, <3>1, <3>2, MovedKeepsPool
  <2> QED
    BY <2>8, <2>9, <2>10, <2>11, <2>12 DEF RequestsInv
<1> QED
  BY Zenon, <1>3, <1>4, <1>5 DEF ReadVerdict

-----------------------------------------------------------------------------
\* The whole inductive invariant.

LEMMA OuterKeeps ==
    ASSUME RequestsInv, NEW c \in Client, OuterStep(c),
           UNCHANGED <<sc, clock, inflight, idle, link, framed, said>>
    PROVE  RequestsInv'
<1>1. GatewayTypeOK' /\ PoolBounded'
  BY OuterTyped, OuterKeepsPool DEF RequestsInv, GatewayTypeOK
<1>2. LinksOwned' /\ QueuesOwned' /\ VerdictsGiven'
  BY OuterKeepsLinks, OuterKeepsVerdicts DEF RequestsInv
<1>3. FramesPlaced' /\ FramesOnce'
  BY OuterKeepsFrames DEF RequestsInv
<1> QED
  BY <1>1, <1>2, <1>3 DEF RequestsInv

LEMMA HttpKeeps ==
    ASSUME GatewayInv, NEW c \in Client, HttpSteps(c)
    PROVE  GatewayInv'
<1>1. RequestsInv /\ CacheGiven /\ RateInv /\ GatewayTypeOK /\ LinksOwned /\ FramesPlaced /\ clock \in Nat
  BY DEF GatewayInv, RequestsInv, GatewayTypeOK
<1>2. OuterStep(c)
  BY <1>1, AcceptOuter, ReadHeadOuter, GateOuter, ReadBodyOuter DEF HttpSteps
<1>3. UNCHANGED <<sc, clock, cacheVars, inflight, idle, link, framed, said>>
  BY DEF HttpSteps, Accept, ReadHead, Preflight, Denied, RateChecked, ReadBody, rateVars, poolVars, hostVars
<1>4. RequestsInv'
  BY <1>1, <1>2, <1>3, OuterKeeps
<1>5. CacheGiven'
  BY <1>1, <1>3, CacheKept
<1>6. RateInv'
  <2>1. RateChecked(c) \/ UNCHANGED <<bucket, charged>>
    BY DEF HttpSteps, Accept, ReadHead, Preflight, Denied, ReadBody, rateVars
  <2> QED
    BY <1>1, <1>3, <2>1, RateCheckedKeeps, RateKept
<1> QED
  BY <1>4, <1>5, <1>6 DEF GatewayInv

LEMMA SubmitKeeps ==
    ASSUME GatewayInv, NEW c \in Client, SubmitSteps(c)
    PROVE  GatewayInv'
<1>1. /\ RequestsInv /\ CacheGiven /\ RateInv /\ GatewayTypeOK /\ LinksOwned /\ FramesPlaced
      /\ FramesOnce /\ VerdictsGiven /\ clock \in Nat
  BY DEF GatewayInv, RequestsInv, GatewayTypeOK
<1>2. UNCHANGED <<sc, clock, bucket, charged, said>>
  BY Zenon DEF SubmitSteps, Lookup, AcquirePermit, Rollback, PopIdle, Connect, Write, ReadVerdict, Release, Put,
         rateVars, hostVars
<1>3. CASE Lookup(c) \/ Put(c)
  <2>1. OuterStep(c)
    BY <1>1, <1>3, LookupOuter, PutOuter
  <2>2. UNCHANGED <<inflight, idle, link, framed>>
    BY <1>3 DEF Lookup, Put, poolVars
  <2> QED
    BY <1>1, <1>2, <1>3, <2>1, <2>2, OuterKeeps, LookupCache, PutCache, RateKept DEF GatewayInv
<1>4. CASE \/ AcquirePermit(c) \/ Rollback(c) \/ PopIdle(c) \/ Connect(c) \/ Write(c)
           \/ ReadVerdict(c) \/ Release(c)
  <2>1. RequestsInv'
    BY <1>1, <1>4, AcquirePermitKeeps, RollbackKeeps, PopIdleKeeps, ConnectKeeps, WriteKeeps,
       ReadVerdictKeeps, ReleaseKeeps
  <2>2. UNCHANGED cacheVars
    BY Zenon, <1>4 DEF AcquirePermit, Rollback, PopIdle, Connect, Write, ReadVerdict, Release
  <2> QED
    BY <1>1, <1>2, <2>1, <2>2, CacheKept, RateKept DEF GatewayInv
<1> QED
  BY <1>3, <1>4 DEF SubmitSteps

LEMMA OthersKeep ==
    ASSUME GatewayInv, HostSteps \/ Expire \/ Tick \/ Shutdown \/ ServeReturns \/ UNCHANGED vars
    PROVE  GatewayInv'
<1>1. RequestsInv /\ CacheGiven /\ RateInv /\ GatewayTypeOK /\ clock \in Nat
  BY DEF GatewayInv, RequestsInv, GatewayTypeOK
<1>2. CASE HostSteps
  <2>1. UNCHANGED <<sc, clock, bucket, charged, cacheVars>>
    BY Zenon, <1>2 DEF HostSteps, HostServes, HostCloses, rateVars
  <2>2. RequestsInv' /\ said \subseteq said'
    BY <1>1, <1>2, HostServesKeeps, HostClosesKeeps DEF HostSteps
  <2> QED
    BY <1>1, <2>1, <2>2, CacheKept, RateKept DEF GatewayInv
<1>3. ASSUME UNCHANGED <<sc, thread, inflight, idle, link, framed, said>>, clock' \in Nat PROVE RequestsInv'
  <2>1. GatewayTypeOK' /\ LinksOwned'
    BY <1>1, <1>3 DEF RequestsInv, GatewayTypeOK, LinksOwned
  <2>2. QueuesOwned' /\ VerdictsGiven'
    BY Zenon, <1>1, <1>3 DEF RequestsInv, QueuesOwned, Awaits, VerdictsGiven, Given, BodyOf, Stream, Conf
  <2>3. FramesPlaced' /\ FramesOnce'
    BY Zenon, <1>1, <1>3 DEF RequestsInv, FramesPlaced, FramesOnce, Framed, Refusal
  <2>4. PoolBounded'
    BY SMTT(30), <1>1, <1>3 DEF RequestsInv, PoolBounded, Holding, MaxInflight, Conf
  <2> QED
    BY <2>1, <2>2, <2>3, <2>4 DEF RequestsInv
<1>4. CASE Expire
  <2>1. UNCHANGED <<sc, thread, inflight, idle, link, framed, said, clock, bucket, charged>>
    BY <1>4 DEF Expire, rateVars, poolVars, hostVars
  <2> QED
    BY <1>1, <1>3, <1>4, <2>1, ExpireCache, RateKept DEF GatewayInv
<1>5. CASE Tick \/ Shutdown \/ ServeReturns \/ UNCHANGED vars
  <2>1. /\ UNCHANGED <<sc, thread, inflight, idle, link, framed, said, cacheVars, bucket, charged>>
        /\ clock' = clock \/ clock' = clock + 1
    BY Zenon, <1>5 DEF Tick, Shutdown, ServeReturns, vars, rateVars, poolVars, hostVars
  <2>2. clock' \in Nat /\ clock <= clock'
    BY <1>1, <2>1
  <2> QED
    BY <1>1, <1>3, <2>1, <2>2, CacheKept, RateKept DEF GatewayInv
<1> QED
  BY <1>2, <1>4, <1>5

LEMMA GatewayStarts ==
    ASSUME Init
    PROVE  GatewayInv
<1>1. NewThread \in Thread /\ NewThread.pc = "new" /\ NewThread.link = 0 /\ NewThread.at = 1
      /\ NewThread.out = <<>>
  BY SMTT(30) DEF NewThread, Thread, Outer
<1>2. \A c \in Client : thread[c] = NewThread
  BY DEF Init
<1>3. GatewayTypeOK
  BY <1>1 DEF Init, GatewayTypeOK
<1>4. LinksOwned /\ QueuesOwned /\ VerdictsGiven
  BY SMTT(30), <1>1, <1>2 DEF Init, LinksOwned, QueuesOwned, VerdictsGiven
<1>5. FramesPlaced /\ FramesOnce
  BY SMTT(30), <1>1, <1>2 DEF Init, FramesPlaced, FramesOnce
<1>6. PoolBounded
  <2>1. Holding = {} /\ {c \in Client : thread[c].pc = "rollback"} = {}
        /\ {c \in Client : thread[c].pc \in {"connect", "write", "read"}} = {}
    BY <1>1, <1>2 DEF Holding
  <2>2. Cardinality({}) = 0
    BY FS_EmptySet
  <2>3. 0 <= MaxInflight /\ inflight = 0 + 0 /\ Len(idle) + 0 <= MaxInflight
    BY <1>3, MaxInflightTyped DEF Init
  <2> HIDE DEF MaxInflight
  <2> QED
    BY <2>1, <2>2, <2>3, Zenon DEF PoolBounded
<1>7. CacheGiven
  BY DEF Init, CacheGiven
<1>8. RateInv
  BY DEF Init, RateInv, RateWindow
<1> QED
  BY <1>3, <1>4, <1>5, <1>6, <1>7, <1>8 DEF GatewayInv, RequestsInv

\* The inductive invariant holds in every reachable state.
THEOREM Inductive ==
    Spec => []GatewayInv
<1>1. Init => GatewayInv
  BY GatewayStarts
<1>2. GatewayInv /\ [Next]_vars => GatewayInv'
  <2> SUFFICES ASSUME GatewayInv, [Next]_vars PROVE GatewayInv'
    OBVIOUS
  <2>1. CASE ThreadSteps
    BY <2>1, HttpKeeps, SubmitKeeps DEF ThreadSteps
  <2> QED
    BY <2>1, OthersKeep DEF Next
<1> QED
  BY <1>1, <1>2, PTL DEF Spec

\* Whatever the clients send and in whatever order threads, host and deadlines
\* interleave, a verdict answered to a request is one the host gave to the
\* bytes of that request (round_trip, IdempotencyCache::get).
THEOREM VerdictsAreOwn ==
    Spec => []VerdictIsOwn
<1>1. GatewayInv => VerdictIsOwn
  <2> SUFFICES ASSUME GatewayInv, NEW a \in Answered, a[3].verdict # "none"
               PROVE  <<Stream(a[1])[a[2]].body, a[3].verdict>> \in said
    BY DEF VerdictIsOwn
  <2>1. PICK c \in Client : \E i \in DOMAIN thread[c].out : a = <<c, thread[c].out[i][1], thread[c].out[i][2]>>
    BY DEF Answered
  <2>2. PICK i \in DOMAIN thread[c].out : a = <<c, thread[c].out[i][1], thread[c].out[i][2]>>
    BY SMTT(30), <2>1
  <2>3. Given(BodyOf(c, thread[c].out[i][1]), thread[c].out[i][2])
    BY DEF GatewayInv, RequestsInv, VerdictsGiven
  <2> QED
    BY Zenon, <2>2, <2>3 DEF Given, BodyOf
<1> QED
  BY <1>1, Inductive, PTL

\* A submit is framed to the host at most once, retries included, and not at
\* all when the gateway refuses the request itself (HostPool::submit).
THEOREM SubmitsFrameOnce ==
    Spec => []OneFramePerSubmit
<1>1. GatewayInv => OneFramePerSubmit
  <2> SUFFICES ASSUME GatewayInv PROVE OneFramePerSubmit
    OBVIOUS
  <2>1. FramesOnce
    BY DEF GatewayInv, RequestsInv
  <2>2. IsInjective(framed)
    BY <2>1 DEF FramesOnce, IsInjective
  <2>3. ASSUME NEW a \in Answered, a[3].verdict = "none", a[3].status \notin {"502", "504"},
               NEW j \in DOMAIN framed
        PROVE  framed[j] # <<a[1], a[2]>>
    <3>1. PICK c \in Client : \E i \in DOMAIN thread[c].out : a = <<c, thread[c].out[i][1], thread[c].out[i][2]>>
      BY <2>3 DEF Answered
    <3>2. PICK i \in DOMAIN thread[c].out : a = <<c, thread[c].out[i][1], thread[c].out[i][2]>>
      BY <3>1
    <3>3. a[1] = c /\ a[2] = thread[c].out[i][1] /\ a[3] = thread[c].out[i][2]
      BY <3>2
    <3> QED
      BY SMTT(30), <2>1, <2>3, <3>3 DEF FramesOnce, Refusal, Framed
  <2> QED
    BY <2>2, <2>3 DEF OneFramePerSubmit
<1> QED
  BY <1>1, Inductive, PTL

\* The permits held stay within max_inflight, in_flight counts them exactly
\* (with those being rolled back), and the idle connections never outgrow what
\* return_conn has room for.
THEOREM PoolIsBounded ==
    Spec => []PoolBounded
<1>1. GatewayInv => PoolBounded
  BY DEF GatewayInv, RequestsInv
<1> QED
  BY <1>1, Inductive, PTL

\* A host connection has one user at a time, and an idle one owes no reply
\* (HostPool::pop_idle, return_conn).
THEOREM ConnectionsAreOwned ==
    Spec => []OneUserPerConnection
<1>1. GatewayInv => OneUserPerConnection
  BY Zenon DEF GatewayInv, RequestsInv, LinksOwned, QueuesOwned, Blank, OneUserPerConnection, IsInjective
<1> QED
  BY <1>1, Inductive, PTL

\* Over any window a credential is let through at most burst plus refill times
\* (RateLimiter::check), for any number of threads sharing it.
THEOREM RateIsBounded ==
    Spec => []RateWindow
<1>1. GatewayInv => RateWindow
  BY DEF GatewayInv, RateInv
<1> QED
  BY <1>1, Inductive, PTL

=============================================================================
