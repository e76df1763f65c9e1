-------------------------- MODULE GatewayStepProofs --------------------------
(***************************************************************************)
(* The inductive invariant of the gateway (GatewayInv), and what the steps *)
(* of a thread, of the host, of the idempotency cache and of the rate      *)
(* limiter do to its parts.  GatewayProofs counts the permits and puts the *)
(* parts together.                                                         *)
(*                                                                         *)
(* A verdict is a request's own because each pooled connection has one     *)
(* user (LinksOwned) and carries at most that user's frame and its answer  *)
(* (QueuesOwned); a submit writes one frame because a thread's position    *)
(* only grows and no frame is written at a position before its write phase *)
(* (FramesPlaced).                                                         *)
(***************************************************************************)
EXTENDS Gateway, TLAPS

Outer == {"new", "head", "gate", "body", "lookup", "permit", "store", "closed"}
Pooled == {"rollback", "pop", "connect", "write", "read", "release"}

HostVerdicts == {"Ok", "NotAdmissible", "ParseError", "Busy"}
Status ==
    RejectStatus \cup {"200", "204", "401", "403", "415", "422", "429", "502", "503", "504", "other"}
AnswerSet == [status : Status, verdict : HostVerdicts \cup {"none"}]

Thread ==
    [pc : Outer \cup Pooled, at : Nat \ {0}, start : Nat, bodyRead : BOOLEAN, failed : BOOLEAN,
     link : Nat, fresh : BOOLEAN, answer : AnswerSet \cup {<<>>}, out : Seq(Nat \X AnswerSet)]

HostLink == [open : BOOLEAN, sent : Seq(Client \X Nat), got : Seq(HostVerdicts)]

GatewayTypeOK ==
    /\ sc \in DOMAIN Scenario
    /\ thread \in [Client -> Thread]
    /\ clock \in Nat
    /\ inflight \in Int
    /\ idle \in Seq(Nat)
    /\ link \in Seq(HostLink)
    /\ framed \in Seq(Client \X Nat)

\* A connection has one user, and an idle one is in no thread's hands.
LinksOwned ==
    /\ \A c \in Client : IF thread[c].pc \in {"write", "read"}
                         THEN thread[c].link \in DOMAIN link ELSE thread[c].link = 0
    /\ \A c, d \in Client : thread[c].link # 0 /\ thread[c].link = thread[d].link => c = d
    /\ \A i, j \in DOMAIN idle : idle[i] = idle[j] => i = j
    /\ \A i \in DOMAIN idle : idle[i] \in DOMAIN link
    /\ \A i \in DOMAIN idle : \A c \in Client : thread[c].link # idle[i]

Blank(l) == l.sent = <<>> /\ l.got = <<>>

BodyOf(c, i) == Stream(c)[i].body

\* What the connection l of a thread that waits for the answer to its request
\* may hold.
Waiting(l, request, bytes, answers) ==
    \/ Blank(l)
    \/ l.sent = <<request>> /\ l.got = <<>>
    \/ l.sent = <<>> /\ \E v \in HostVerdicts : l.got = <<v>> /\ <<bytes, v>> \in answers

Awaits(c) == Waiting(link[thread[c].link], <<c, thread[c].at>>, BodyOf(c, thread[c].at), said)

QueuesOwned ==
    /\ \A i \in DOMAIN idle : Blank(link[idle[i]])
    /\ \A c \in Client : thread[c].pc = "write" => Blank(link[thread[c].link])
    /\ \A c \in Client : thread[c].pc = "read" => Awaits(c)

\* The answer is one the host gave to these bytes, or no verdict.
Given(bytes, a) == a.verdict # "none" => <<bytes, a.verdict>> \in said

VerdictsGiven ==
    /\ \A c \in Client : thread[c].pc \in {"release", "store"} =>
         thread[c].answer \in AnswerSet /\ Given(BodyOf(c, thread[c].at), thread[c].answer)
    /\ \A c \in Client : \A i \in DOMAIN thread[c].out :
         Given(BodyOf(c, thread[c].out[i][1]), thread[c].out[i][2])

Entry(bytes) == [body : {bytes}, answer : AnswerSet, expired : BOOLEAN, used : Nat]

CacheGiven ==
    /\ tick \in Nat
    /\ \A k \in DOMAIN cache : cache[k] \in Entry(cache[k].body) /\ Given(cache[k].body, cache[k].answer)

Framed(c, i) == \E j \in DOMAIN framed : framed[j] = <<c, i>>
Refusal(a) == a.verdict = "none" /\ a.status \notin {"502", "504"}

\* Where a thread may have written frames and given answers.
FramesPlaced ==
    /\ \A j \in DOMAIN framed :
         LET t == thread[framed[j][1]]
         IN  \/ framed[j][2] < t.at
             \/ framed[j][2] = t.at /\ t.pc \in {"read", "release", "store", "closed"}
    /\ \A c \in Client : \A i \in DOMAIN thread[c].out :
         thread[c].out[i][1] < thread[c].at \/ (thread[c].out[i][1] = thread[c].at /\ thread[c].pc = "closed")
    /\ \A c \in Client : thread[c].pc = "new" => thread[c].at = 1

FramesOnce ==
    /\ \A i, j \in DOMAIN framed : framed[i] = framed[j] => i = j
    /\ \A c \in Client : thread[c].pc \in {"release", "store"} /\ Refusal(thread[c].answer)
         => ~Framed(c, thread[c].at)
    /\ \A c \in Client : \A i \in DOMAIN thread[c].out :
         Refusal(thread[c].out[i][2]) => ~Framed(c, thread[c].out[i][1])

\* What RateLimiter::check keeps for a credential: its tokens and what it has
\* let through in any window fit the burst and the refill since.
BucketOK(b, times, burst, now) ==
    /\ b \in [tokens : Nat, last : Nat] /\ b.tokens <= burst /\ b.last <= now
    /\ \A i \in DOMAIN times : Len(times) - i + 1 + b.tokens <= burst + b.last - times[i]

RateInv ==
    /\ charged \in [Conf.tokens -> Seq(Nat)]
    /\ DOMAIN bucket \subseteq Conf.tokens
    /\ \A k \in Conf.tokens : k \notin DOMAIN bucket => charged[k] = <<>>
    /\ \A k \in DOMAIN bucket : BucketOK(bucket[k], charged[k], Conf.burst, clock)
    /\ RateWindow

RequestsInv ==
    /\ GatewayTypeOK /\ LinksOwned /\ QueuesOwned /\ VerdictsGiven
    /\ FramesPlaced /\ FramesOnce /\ PoolBounded

GatewayInv == RequestsInv /\ CacheGiven /\ RateInv

-----------------------------------------------------------------------------
\* What the steps of a thread do to it.

\* The thread of c becomes u.
Becomes(c, u) == thread' = [thread EXCEPT ![c] = u]

\* The answer a may be given to the request c is at.
Answerable(c, a) ==
    /\ a \in AnswerSet /\ Given(BodyOf(c, thread[c].at), a)
    /\ Refusal(a) => ~Framed(c, thread[c].at)

\* Outside the pool a thread works on the request it is at, or is done with it.
Continues(c, u) ==
    /\ u.at = thread[c].at /\ u.out = thread[c].out
    /\ thread[c].pc \notin {"store", "closed"} /\ u.pc # "new"
    /\ u.pc = "store" => u.answer \in AnswerSet /\ u.answer.verdict = "none"
Finishes(c, u) ==
    /\ (u.pc = "closed" /\ u.at = thread[c].at) \/ (u.pc = "head" /\ u.at > thread[c].at)
    /\ \/ u.out = thread[c].out
       \/ \E a : Answerable(c, a) /\ u.out = Append(thread[c].out, <<thread[c].at, a>>)

OuterStep(c) ==
    /\ thread[c].pc \in Outer \ {"closed"}
    /\ \E u \in Thread : /\ Becomes(c, u) /\ u.pc \in Outer /\ u.link = 0
                         /\ Continues(c, u) \/ Finishes(c, u)

LEMMA ProblemTyped ==
    ASSUME NEW status \in Status
    PROVE  Problem(status) \in AnswerSet /\ Problem(status).verdict = "none"
BY DEF Problem, Answer, AnswerSet

LEMMA AnsweredThread ==
    ASSUME GatewayTypeOK, NEW c \in Client, NEW t \in Thread, NEW a \in AnswerSet
    PROVE  LET told == [t EXCEPT !.out = Append(@, <<t.at, a>>)]
           IN  /\ told \in Thread /\ told.out = Append(t.out, <<t.at, a>>)
               /\ told.at = t.at /\ told.link = t.link /\ told.pc = t.pc
<1> DEFINE o == Append(t.out, <<t.at, a>>)
<1>1. o \in Seq(Nat \X AnswerSet)
  BY DEF Thread
<1> QED
  BY Zenon, <1>1 DEF Thread

LEMMA LoopHeadTyped ==
    ASSUME GatewayTypeOK, NEW t \in Thread, NEW n \in Nat \ {0}
    PROVE  LET u == LoopHead(t, n)
           IN  u \in Thread /\ u.pc = "head" /\ u.at = n /\ u.out = t.out /\ u.link = 0
<1> DEFINE any == AnswerSet \cup {<<>>}
<1>1. clock \in Nat /\ "head" \in Outer \cup Pooled /\ <<>> \in any
  BY DEF GatewayTypeOK, Outer
<1> QED
  BY Zenon, <1>1 DEF LoopHead, Thread

LEMMA RespondsFinishes ==
    ASSUME GatewayTypeOK, NEW c \in Client, thread[c].pc \in Outer \ {"closed"},
           NEW t \in Thread, t.at = thread[c].at, t.out = thread[c].out, t.link = 0,
           NEW a, Answerable(c, a), Responds(c, t, a)
    PROVE  OuterStep(c)
<1> DEFINE told == [t EXCEPT !.out = Append(@, <<t.at, a>>)]
<1>1. told \in Thread /\ told.out = Append(t.out, <<t.at, a>>) /\ told.at = t.at /\ told.link = 0
  BY AnsweredThread DEF Answerable
<1> HIDE DEF told
<1>2. CASE thread' = [thread EXCEPT ![c] = LoopHead(told, Rest(c, t))]
  <2> DEFINE u == LoopHead(told, Rest(c, t))
  <2>1. Rest(c, t) \in Nat \ {0} /\ Rest(c, t) > t.at
    BY DEF Rest, Thread
  <2>2. u \in Thread /\ u.pc = "head" /\ u.at = Rest(c, t) /\ u.out = told.out /\ u.link = 0
    BY Zenon, <1>1, <2>1, LoopHeadTyped
  <2> HIDE DEF u
  <2>3. Finishes(c, u)
    BY Zenon, <1>1, <2>1, <2>2 DEF Finishes
  <2>4. Becomes(c, u) /\ u.pc \in Outer
    BY <1>2, <2>2 DEF Becomes, Outer, u
  <2> QED
    BY <2>2, <2>3, <2>4 DEF OuterStep
<1>3. ASSUME NEW w \in {t, told}, Closes(c, w) PROVE OuterStep(c)
  <2>1. w \in Thread /\ w.at = t.at /\ w.link = 0
    BY <1>1
  <2>2. Ended(w) \in Thread /\ Ended(w).pc = "closed" /\ Ended(w).at = t.at
        /\ Ended(w).out = w.out /\ Ended(w).link = 0
    BY Zenon, <2>1 DEF Ended, Thread, Outer
  <2>3. w.out = t.out \/ w.out = Append(t.out, <<t.at, a>>)
    BY <1>1
  <2>4. Finishes(c, Ended(w))
    BY SMTT(30), <2>2, <2>3 DEF Finishes
  <2>5. Becomes(c, Ended(w)) /\ Ended(w).pc \in Outer
    BY <1>3, <2>2 DEF Becomes, Outer, Closes
  <2> QED
    BY <2>2, <2>4, <2>5 DEF OuterStep
<1> QED
  BY <1>2, <1>3 DEF Responds, told

LEMMA OuterEntry ==
    ASSUME GatewayTypeOK, LinksOwned, NEW c \in Client, thread[c].pc \in Outer
    PROVE  thread[c] \in Thread /\ thread[c].link = 0
BY DEF GatewayTypeOK, LinksOwned, Outer

\* A thread that is not past its write phase has framed nothing for its request.
LEMMA NothingFramedYet ==
    ASSUME GatewayTypeOK, FramesPlaced, NEW c \in Client,
           thread[c].pc \notin {"read", "release", "store", "closed"}
    PROVE  ~Framed(c, thread[c].at)
<1> SUFFICES ASSUME NEW j \in DOMAIN framed, framed[j] = <<c, thread[c].at>> PROVE FALSE
  BY DEF Framed
<1>1. framed[j][1] = c /\ framed[j][2] = thread[c].at /\ thread[c].at \in Nat
  BY DEF GatewayTypeOK, Thread
<1> QED
  BY <1>1 DEF FramesPlaced

LEMMA ProblemAnswerable ==
    ASSUME GatewayTypeOK, FramesPlaced, NEW c \in Client, NEW status \in Status,
           thread[c].pc \notin {"read", "release", "store", "closed"}
    PROVE  Answerable(c, Problem(status))
BY ProblemTyped, NothingFramedYet DEF Answerable, Given

LEMMA RespondsProblem ==
    ASSUME GatewayTypeOK, LinksOwned, FramesPlaced, NEW c \in Client,
           thread[c].pc \in Outer \ {"store", "closed"}, NEW status \in Status,
           Responds(c, thread[c], Problem(status))
    PROVE  OuterStep(c)
<1>1. Answerable(c, Problem(status))
  BY ProblemAnswerable DEF Outer
<1> QED
  BY <1>1, OuterEntry, RespondsFinishes

LEMMA GoesOn ==
    ASSUME GatewayTypeOK, LinksOwned, NEW c \in Client, NEW pc \in Outer \ {"new", "store"},
           thread[c].pc \in Outer \ {"store", "closed"}, Goes(c, pc)
    PROVE  OuterStep(c)
<1> DEFINE u == [thread[c] EXCEPT !.pc = pc]
<1>1. u \in Thread /\ u.pc = pc /\ u.at = thread[c].at /\ u.out = thread[c].out /\ u.link = 0
  BY Zenon, OuterEntry DEF Thread
<1>2. Becomes(c, u)
  BY DEF Becomes, Goes
<1> QED
  BY Zenon, <1>1, <1>2 DEF OuterStep, Continues

LEMMA ClosesProblem ==
    ASSUME GatewayTypeOK, LinksOwned, FramesPlaced, NEW c \in Client,
           thread[c].pc \in Outer \ {"store", "closed"}, NEW status \in Status,
           Closes(c, [thread[c] EXCEPT !.out = Append(@, <<thread[c].at, Problem(status)>>)])
    PROVE  OuterStep(c)
<1> DEFINE t == thread[c]
           told == [t EXCEPT !.out = Append(@, <<t.at, Problem(status)>>)]
           u == Ended(told)
<1>1. Answerable(c, Problem(status))
  BY ProblemAnswerable DEF Outer
<1>2. told \in Thread /\ told.out = Append(t.out, <<t.at, Problem(status)>>)
      /\ told.at = t.at /\ told.link = 0
  BY Zenon, <1>1, OuterEntry, AnsweredThread DEF Answerable
<1>3. u \in Thread /\ u.pc = "closed" /\ u.at = t.at /\ u.out = told.out /\ u.link = 0
  BY Zenon, <1>2 DEF Ended, Thread, Outer
<1>4. Becomes(c, u)
  BY DEF Becomes, Closes
<1> QED
  BY Zenon, <1>1, <1>2, <1>3, <1>4 DEF OuterStep, Finishes, Outer

LEMMA AcceptOuter ==
    ASSUME GatewayTypeOK, LinksOwned, FramesPlaced, NEW c \in Client, Accept(c)
    PROVE  OuterStep(c)
<1> DEFINE t == thread[c]
<1>1. t.pc = "new" /\ t \in Thread /\ t.link = 0 /\ t.at = 1
  BY OuterEntry DEF Accept, Running, Outer, FramesPlaced
<1>2. CASE thread' = [thread EXCEPT ![c] = LoopHead(@, 1)]
  <2> DEFINE u == LoopHead(t, 1)
  <2>1. u \in Thread /\ u.pc = "head" /\ u.at = 1 /\ u.out = t.out /\ u.link = 0
    BY <1>1, LoopHeadTyped
  <2>2. Becomes(c, u)
    BY <1>2 DEF Becomes
  <2> QED
    BY <1>1, <2>1, <2>2 DEF OuterStep, Continues, Outer
<1>3. CASE thread' = [thread EXCEPT ![c] = Ended(@)]
  <2> DEFINE u == Ended(t)
  <2>1. u \in Thread /\ u.pc = "closed" /\ u.at = 1 /\ u.out = t.out /\ u.link = 0
    BY <1>1 DEF Ended, Thread, Outer
  <2>2. Becomes(c, u)
    BY <1>3 DEF Becomes
  <2> QED
    BY <1>1, <2>1, <2>2 DEF OuterStep, Continues, Outer
<1> QED
  BY <1>2, <1>3 DEF Accept

LEMMA RequestTyped ==
    ASSUME GatewayTypeOK, NEW c \in Client, thread[c].at \in 1..Len(Stream(c))
    PROVE  Req(c) \in Token
BY GatewayConstants DEF Req, Stream, Conf, GatewayTypeOK

LEMMA RejectTyped ==
    ASSUME NEW h \in Token
    PROVE  Reject(h) \in Status \cup {"none"}
<1>1. h.kind = "head" => h.reject \in RejectStatus \cup {"none"}
  BY DEF Token
<1>2. \/ Reject(h) \in {"400", "413", "none"}
      \/ h.kind = "head" /\ Reject(h) = h.reject
  BY DEF Reject
<1> QED
  BY <1>1, <1>2 DEF Status, RejectStatus

LEMMA ReadHeadOuter ==
    ASSUME GatewayTypeOK, LinksOwned, FramesPlaced, NEW c \in Client, ReadHead(c)
    PROVE  OuterStep(c)
<1> DEFINE t == thread[c]
<1>1. t.pc = "head" /\ t \in Thread /\ t.link = 0
  BY OuterEntry DEF ReadHead, Running, Outer
<1>2. CASE t.at > Len(Stream(c))
  <2>1. Closes(c, t)
    BY <1>2 DEF ReadHead
  <2>2. Ended(t) \in Thread /\ Ended(t).pc = "closed" /\ Ended(t).at = t.at
        /\ Ended(t).out = t.out /\ Ended(t).link = 0
    BY Zenon, <1>1 DEF Ended, Thread, Outer
  <2> QED
    BY Zenon, <1>1, <2>1, <2>2 DEF OuterStep, Finishes, Becomes, Closes, Outer
<1>3. CASE ~(t.at > Len(Stream(c)))
  <2>1. Len(Stream(c)) \in Nat
    BY GatewayConstants DEF Stream, Conf, GatewayTypeOK
  <2>2. Reject(Req(c)) \in Status \cup {"none"}
    BY <1>1, <1>3, <2>1, RequestTyped, RejectTyped DEF Thread
  <2>3. CASE Goes(c, "gate")
    BY <1>1, <2>3, GoesOn DEF Outer
  <2>4. CASE Reject(Req(c)) # "none" /\ Closes(c, [thread[c] EXCEPT !.out = Append(@, <<thread[c].at, Problem(Reject(Req(c)))>>)])
    BY <1>1, <2>2, <2>4, ClosesProblem DEF Outer
  <2> QED
    BY <1>3, <2>3, <2>4 DEF ReadHead
<1> QED
  BY <1>2, <1>3

LEMMA GateOuter ==
    ASSUME GatewayTypeOK, LinksOwned, FramesPlaced, NEW c \in Client,
           Preflight(c) \/ Denied(c) \/ RateChecked(c)
    PROVE  OuterStep(c)
<1>1. thread[c].pc \in Outer \ {"store", "closed"}
  BY DEF Preflight, Denied, RateChecked, Gated, Running, Outer
<1>2. ASSUME Passes(c) PROVE OuterStep(c)
  BY Zenon, <1>1, <1>2, RespondsProblem, ClosesProblem, GoesOn DEF Passes, Outer, Status, RejectStatus
<1>3. CASE Preflight(c)
  BY <1>1, <1>3, RespondsProblem DEF Preflight, Status
<1>4. CASE Denied(c)
  <2> DEFINE status == IF Req(c).auth = "none" THEN "401" ELSE "403"
  <2>1. status \in Status /\ Responds(c, thread[c], Problem(status))
    BY <1>4 DEF Denied, Status
  <2> QED
    BY <1>1, <2>1, RespondsProblem
<1>5. CASE RateChecked(c)
  <2>1. Passes(c) \/ Responds(c, thread[c], Problem("429"))
    BY <1>5 DEF RateChecked
  <2> QED
    BY <1>1, <1>2, <2>1, RespondsProblem DEF Status
<1> QED
  BY <1>3, <1>4, <1>5

LEMMA ReadBodyOuter ==
    ASSUME GatewayTypeOK, LinksOwned, FramesPlaced, NEW c \in Client, ReadBody(c)
    PROVE  OuterStep(c)
<1> DEFINE whole == Req(c).length > 0 => thread[c].at < Len(Stream(c))
           t == [thread[c] EXCEPT !.bodyRead = TRUE, !.failed = ~whole]
           u == [t EXCEPT !.pc = "lookup"]
<1>1. thread[c].pc = "body" /\ thread[c] \in Thread /\ thread[c].link = 0
  BY OuterEntry DEF ReadBody, Running, Outer
<1>2. (~whole) \in BOOLEAN
  OBVIOUS
<1>3. t \in Thread /\ t.at = thread[c].at /\ t.out = thread[c].out /\ t.link = 0
  <2> HIDE DEF whole
  <2> QED
    BY Zenon, <1>1, <1>2 DEF Thread
<1>4. Answerable(c, Problem("400")) /\ Answerable(c, Problem("other"))
  BY <1>1, ProblemAnswerable DEF Status, RejectStatus
<1>5. CASE Responds(c, t, Problem("400")) \/ Responds(c, t, Problem("other"))
  <2> HIDE DEF t
  <2> QED
    BY <1>1, <1>3, <1>4, <1>5, RespondsFinishes DEF Outer
<1>6. CASE thread' = [thread EXCEPT ![c] = u]
  <2> HIDE DEF t
  <2>1. u \in Thread /\ u.pc = "lookup" /\ u.at = t.at /\ u.out = t.out /\ u.link = 0
    BY Zenon, <1>3 DEF Thread, Outer
  <2> QED
    BY Zenon, <1>1, <1>3, <1>6, <2>1 DEF OuterStep, Continues, Becomes, Outer
<1> QED
  BY <1>5, <1>6 DEF ReadBody

LEMMA LookupOuter ==
    ASSUME GatewayTypeOK, LinksOwned, FramesPlaced, CacheGiven, NEW c \in Client, Lookup(c)
    PROVE  OuterStep(c)
<1> DEFINE t == thread[c]
           h == Req(c)
           e == cache[Scoped(h)]
<1>1. t.pc = "lookup" /\ t \in Thread /\ t.link = 0
  BY OuterEntry DEF Lookup, Running, Outer
<1>2. CASE Missed(c)
  <2>1. CASE Goes(c, "permit")
    BY <1>1, <2>1, GoesOn DEF Outer
  <2>2. CASE Answers(c, "store", Problem("413"))
    <3> DEFINE u == [t EXCEPT !.pc = "store", !.answer = Problem("413")]
    <3>1. u \in Thread /\ u.pc = "store" /\ u.at = t.at /\ u.out = t.out /\ u.link = 0
          /\ u.answer = Problem("413")
      BY Zenon, <1>1, ProblemTyped DEF Thread, Outer, Status, RejectStatus
    <3>2. Becomes(c, u)
      BY Zenon, <2>2 DEF Becomes, Answers
    <3>3. u.answer \in AnswerSet /\ u.answer.verdict = "none"
      BY <3>1, ProblemTyped DEF Status, RejectStatus
    <3> HIDE DEF u
    <3> QED
      BY <1>1, <3>1, <3>2, <3>3 DEF OuterStep, Continues, Outer
  <2>3. ASSUME NEW status \in {"503", "415", "400"}, Responds(c, t, Problem(status)) PROVE OuterStep(c)
    BY <1>1, <2>3, RespondsProblem DEF Outer, Status, RejectStatus
  <2> QED
    BY <1>2, <2>1, <2>2, <2>3, Zenon DEF Missed
<1>3. CASE Responds(c, t, Problem("422"))
  BY <1>1, <1>3, RespondsProblem DEF Outer, Status
<1>4. CASE Scoped(h) \in DOMAIN cache /\ SameRequest(e, h) /\ Responds(c, t, e.answer)
  <2>1. e \in Entry(e.body) /\ Given(e.body, e.answer) /\ e.body = BodyOf(c, t.at)
    BY <1>4 DEF CacheGiven, SameRequest, BodyOf, Req
  <2>2. Answerable(c, e.answer)
    BY <1>1, <2>1, NothingFramedYet DEF Answerable, Entry
  <2> QED
    BY <1>1, <1>4, <2>2, RespondsFinishes DEF Outer
<1> QED
  BY <1>2, <1>3, <1>4 DEF Lookup

LEMMA PutOuter ==
    ASSUME GatewayTypeOK, LinksOwned, VerdictsGiven, FramesOnce, NEW c \in Client, Put(c)
    PROVE  OuterStep(c)
<1>1. thread[c].pc = "store" /\ thread[c] \in Thread /\ thread[c].link = 0
  BY OuterEntry DEF Put, Running, Outer
<1>2. Answerable(c, thread[c].answer)
  BY <1>1 DEF Answerable, VerdictsGiven, FramesOnce
<1>3. Responds(c, thread[c], thread[c].answer)
  BY DEF Put
<1> QED
  BY <1>1, <1>2, <1>3, RespondsFinishes DEF Outer

-----------------------------------------------------------------------------
\* Steps outside the pool keep what is known of the pool and of the answers.

LEMMA OuterTyped ==
    ASSUME GatewayTypeOK, NEW c \in Client, OuterStep(c)
    PROVE  \E u \in Thread :
              /\ thread' \in [Client -> Thread]
              /\ \A d \in Client : thread'[d] = IF d = c THEN u ELSE thread[d]
              /\ thread[c].pc \in Outer \ {"closed"} /\ u.pc \in Outer /\ u.link = 0
              /\ Continues(c, u) \/ Finishes(c, u)
<1>1. PICK u \in Thread : /\ Becomes(c, u) /\ u.pc \in Outer /\ u.link = 0
                          /\ Continues(c, u) \/ Finishes(c, u)
  BY DEF OuterStep
<1>2. thread' \in [Client -> Thread] /\ \A d \in Client : thread'[d] = IF d = c THEN u ELSE thread[d]
  BY <1>1 DEF Becomes, GatewayTypeOK
<1> QED
  BY <1>1, <1>2 DEF OuterStep

\* The connection of a thread that does not step still holds what it may.
LEMMA AwaitsKept ==
    ASSUME NEW d \in Client, Awaits(d), thread'[d] = thread[d],
           link'[thread[d].link] = link[thread[d].link], sc' = sc, said \subseteq said'
    PROVE  Awaits(d)'
<1>1. BodyOf(d, thread[d].at)' = BodyOf(d, thread[d].at)
  BY DEF BodyOf, Stream, Conf
<1> QED
  BY Zenon, <1>1 DEF Awaits, Waiting

LEMMA OuterKeepsLinks ==
    ASSUME GatewayTypeOK, LinksOwned, QueuesOwned, NEW c \in Client, OuterStep(c),
           UNCHANGED <<sc, idle, link, said>>
    PROVE  LinksOwned' /\ QueuesOwned'
<1>1. PICK u \in Thread :
         /\ \A d \in Client : thread'[d] = IF d = c THEN u ELSE thread[d]
         /\ u.pc \in Outer /\ u.link = 0
  BY OuterTyped
<1>2. u.pc \notin {"write", "read"}
  BY <1>1 DEF Outer
<1>3. LinksOwned'
  <2>1. idle' = idle /\ link' = link
    OBVIOUS
  <2>2. \A d \in Client : IF thread'[d].pc \in {"write", "read"}
                          THEN thread'[d].link \in DOMAIN link ELSE thread'[d].link = 0
    BY <1>1, <1>2 DEF LinksOwned
  <2>3. \A d, e \in Client : thread'[d].link # 0 /\ thread'[d].link = thread'[e].link => d = e
    BY <1>1 DEF LinksOwned
  <2>4. \A i \in DOMAIN idle : idle[i] \in DOMAIN link /\ idle[i] # 0
    BY DEF LinksOwned, GatewayTypeOK
  <2>5. \A i \in DOMAIN idle : \A d \in Client : thread'[d].link # idle[i]
    BY <1>1, <2>4 DEF LinksOwned
  <2> QED
    BY <2>1, <2>2, <2>3, <2>4, <2>5 DEF LinksOwned
<1>4. ASSUME NEW d \in Client, thread'[d].pc = "read" PROVE Awaits(d)'
  BY <1>1, <1>2, <1>4, AwaitsKept DEF QueuesOwned
<1>5. QueuesOwned'
  BY <1>1, <1>2, <1>4 DEF QueuesOwned
<1> QED
  BY <1>3, <1>5

LEMMA OuterKeepsVerdicts ==
    ASSUME GatewayTypeOK, VerdictsGiven, NEW c \in Client, OuterStep(c), UNCHANGED <<sc, said>>
    PROVE  VerdictsGiven'
<1>1. PICK u \in Thread :
         /\ \A d \in Client : thread'[d] = IF d = c THEN u ELSE thread[d]
         /\ u.pc \in Outer
         /\ Continues(c, u) \/ Finishes(c, u)
  BY OuterTyped
<1>2. ASSUME NEW d, NEW i, NEW a PROVE Given(BodyOf(d, i), a)' <=> Given(BodyOf(d, i), a)
  BY DEF Given, BodyOf, Stream, Conf
<1>3. u.pc \in {"release", "store"} => u.answer \in AnswerSet /\ Given(BodyOf(c, u.at), u.answer)
  BY Zenon, <1>1 DEF Continues, Finishes, Outer, Given
<1>4. ASSUME NEW i \in DOMAIN u.out PROVE Given(BodyOf(c, u.out[i][1]), u.out[i][2])
  <2>1. CASE u.out = thread[c].out
    BY <1>4, <2>1 DEF VerdictsGiven
  <2>2. CASE \E a : Answerable(c, a) /\ u.out = Append(thread[c].out, <<thread[c].at, a>>)
    <3>1. PICK a : Answerable(c, a) /\ u.out = Append(thread[c].out, <<thread[c].at, a>>)
      BY <2>2
    <3>2. thread[c].out \in Seq(Nat \X AnswerSet) /\ <<thread[c].at, a>> \in Nat \X AnswerSet
      BY <3>1 DEF GatewayTypeOK, Thread, Answerable
    <3>3. CASE i = Len(thread[c].out) + 1
      BY <3>1, <3>2, <3>3 DEF Answerable
    <3>4. CASE i \in DOMAIN thread[c].out
      BY <3>1, <3>2, <3>4 DEF VerdictsGiven
    <3> QED
      BY <1>4, <3>1, <3>2, <3>3, <3>4
  <2> QED
    BY Zenon, <1>1, <2>1, <2>2 DEF Continues, Finishes
<1>5. ASSUME NEW d \in Client PROVE
         /\ thread'[d].pc \in {"release", "store"} =>
               thread'[d].answer \in AnswerSet /\ Given(BodyOf(d, thread'[d].at), thread'[d].answer)
         /\ \A i \in DOMAIN thread'[d].out : Given(BodyOf(d, thread'[d].out[i][1]), thread'[d].out[i][2])
  <2>1. CASE d = c
    BY <1>1, <1>3, <1>4, <2>1
  <2>2. CASE d # c
    BY <1>1, <2>2 DEF VerdictsGiven
  <2> QED
    BY <2>1, <2>2
<1> QED
  BY <1>2, <1>5 DEF VerdictsGiven

LEMMA OuterKeepsFrames ==
    ASSUME GatewayTypeOK, FramesPlaced, FramesOnce, NEW c \in Client, OuterStep(c), UNCHANGED framed
    PROVE  FramesPlaced' /\ FramesOnce'
<1>1. PICK u \in Thread :
         /\ \A d \in Client : thread'[d] = IF d = c THEN u ELSE thread[d]
         /\ u.pc \in Outer /\ thread[c].pc \in Outer \ {"closed"}
         /\ Continues(c, u) \/ Finishes(c, u)
  BY OuterTyped
<1> DEFINE t == thread[c]
<1>2. t \in Thread /\ t.at \in Nat /\ u.at \in Nat /\ t.out \in Seq(Nat \X AnswerSet)
  BY DEF GatewayTypeOK, Thread
<1>3. ASSUME NEW j \in DOMAIN framed, framed[j][1] = c
      PROVE  framed[j][2] < u.at \/ (framed[j][2] = u.at /\ u.pc \in {"read", "release", "store", "closed"})
  <2>1. framed[j][2] \in Nat
    BY DEF GatewayTypeOK
  <2>2. framed[j][2] < t.at \/ (framed[j][2] = t.at /\ t.pc \in {"read", "release", "store", "closed"})
    BY <1>3 DEF FramesPlaced
  <2>3. CASE Continues(c, u)
    BY <1>1, <2>2, <2>3 DEF Continues, Outer
  <2>4. CASE Finishes(c, u)
    BY SMTT(30), <1>2, <2>1, <2>2, <2>4 DEF Finishes
  <2> QED
    BY <1>1, <2>3, <2>4
<1>4. ASSUME NEW j \in DOMAIN framed PROVE framed[j] \in Client \X Nat
  BY DEF GatewayTypeOK
<1>5. ASSUME NEW i \in DOMAIN u.out
      PROVE  /\ u.out[i][1] < u.at \/ (u.out[i][1] = u.at /\ u.pc = "closed")
             /\ Refusal(u.out[i][2]) => ~Framed(c, u.out[i][1])
  <2>1. ASSUME i \in DOMAIN t.out, u.out[i] = t.out[i]
        PROVE  /\ u.out[i][1] < t.at
               /\ Refusal(u.out[i][2]) => ~Framed(c, u.out[i][1])
    BY <1>1, <2>1 DEF FramesPlaced, FramesOnce
  <2>2. u.at = t.at \/ u.at > t.at
    BY <1>1 DEF Continues, Finishes
  <2>3. CASE u.out = t.out
    <3>1. t.out[i][1] \in Nat
      BY <1>2, <1>5, <2>3
    <3> QED
      BY <1>2, <1>5, <2>1, <2>2, <2>3, <3>1
  <2>4. CASE Finishes(c, u) /\ \E a : Answerable(c, a) /\ u.out = Append(t.out, <<t.at, a>>)
    <3>1. PICK a : Answerable(c, a) /\ u.out = Append(t.out, <<t.at, a>>)
      BY <2>4
    <3>2. <<t.at, a>> \in Nat \X AnswerSet
      BY <1>2, <3>1 DEF Answerable
    <3>3. CASE i = Len(t.out) + 1
      <4>1. u.out[i] = <<t.at, a>>
        BY <1>2, <3>1, <3>2, <3>3
      <4>2. u.out[i][1] = t.at /\ u.out[i][2] = a
        BY <4>1
      <4>3. (u.pc = "closed" /\ u.at = t.at) \/ t.at < u.at
        BY Zenon, <1>2, <2>4 DEF Finishes
      <4>4. Refusal(a) => ~Framed(c, t.at)
        BY <3>1 DEF Answerable
      <4> QED
        BY <4>2, <4>3, <4>4
    <3>4. CASE i \in DOMAIN t.out
      <4>1. u.out[i] = t.out[i] /\ t.out[i][1] \in Nat
        BY <1>2, <3>1, <3>2, <3>4
      <4> QED
        BY <1>2, <2>1, <2>2, <3>4, <4>1
    <3> QED
      BY SMTT(30), <1>2, <1>5, <3>1, <3>2, <3>3, <3>4
  <2> QED
    BY Zenon, <1>1, <2>3, <2>4 DEF Continues, Finishes
<1>6. u.pc = "store" /\ Refusal(u.answer) => ~Framed(c, u.at)
  BY <1>1, NothingFramedYet DEF Continues, Finishes, Outer
<1>7. ASSUME NEW d, NEW i PROVE Framed(d, i)' <=> Framed(d, i)
  BY DEF Framed
<1>8. FramesPlaced'
  <2>1. \A d \in Client : thread'[d].pc = "new" => thread'[d].at = 1
    BY Zenon, <1>1 DEF FramesPlaced, Continues, Finishes
  <2>2. ASSUME NEW d \in Client, NEW i \in DOMAIN thread'[d].out
        PROVE  thread'[d].out[i][1] < thread'[d].at \/ (thread'[d].out[i][1] = thread'[d].at /\ thread'[d].pc = "closed")
    BY <1>1, <1>5, <2>2 DEF FramesPlaced
  <2>3. ASSUME NEW j \in DOMAIN framed
        PROVE  LET w == thread'[framed[j][1]]
               IN  framed[j][2] < w.at \/ (framed[j][2] = w.at /\ w.pc \in {"read", "release", "store", "closed"})
    BY <1>1, <1>3, <1>4 DEF FramesPlaced
  <2> QED
    BY <2>1, <2>2, <2>3 DEF FramesPlaced
<1>9. FramesOnce'
  <2>1. ASSUME NEW d \in Client, thread'[d].pc \in {"release", "store"}, Refusal(thread'[d].answer)
        PROVE  ~Framed(d, thread'[d].at)
    BY <1>1, <1>6, <2>1 DEF FramesOnce, Outer
  <2>2. ASSUME NEW d \in Client, NEW i \in DOMAIN thread'[d].out, Refusal(thread'[d].out[i][2])
        PROVE  ~Framed(d, thread'[d].out[i][1])
    BY <1>1, <1>5, <2>2 DEF FramesOnce
  <2> QED
    BY Zenon, <1>7, <2>1, <2>2 DEF FramesOnce, Refusal
<1> QED
  BY <1>8, <1>9

LEMMA OuterKeepsPool ==
    ASSUME GatewayTypeOK, PoolBounded, NEW c \in Client, OuterStep(c), UNCHANGED <<sc, inflight, idle>>
    PROVE  PoolBounded'
<1>1. PICK u \in Thread :
         /\ \A d \in Client : thread'[d] = IF d = c THEN u ELSE thread[d]
         /\ u.pc \in Outer /\ thread[c].pc \in Outer
  BY OuterTyped
<1>2. \A d \in Client : thread'[d].pc = thread[d].pc \/ (thread'[d].pc \in Outer /\ thread[d].pc \in Outer)
  BY <1>1
<1>3. Holding' = Holding
  BY <1>2 DEF Holding, Outer
<1>4. {d \in Client : thread'[d].pc = "rollback"} = {d \in Client : thread[d].pc = "rollback"}
  BY <1>2 DEF Outer
<1>5. {d \in Client : thread'[d].pc \in {"connect", "write", "read"}}
        = {d \in Client : thread[d].pc \in {"connect", "write", "read"}}
  BY <1>2 DEF Outer
<1>6. MaxInflight' = MaxInflight /\ idle' = idle /\ inflight' = inflight
  BY DEF MaxInflight, Conf
<1> QED
  BY Zenon, <1>3, <1>4, <1>5, <1>6 DEF PoolBounded

-----------------------------------------------------------------------------
\* The steps of a thread within the pool: it stays at its request.

Moved(c, pc, k, a) ==
    /\ thread' \in [Client -> Thread]
    /\ \A d \in Client : d # c => thread'[d] = thread[d]
    /\ thread'[c].pc = pc /\ thread'[c].link = k /\ thread'[c].answer = a
    /\ thread'[c].at = thread[c].at /\ thread'[c].out = thread[c].out

LEMMA PooledEntry ==
    ASSUME GatewayTypeOK, LinksOwned, NEW c \in Client
    PROVE  /\ thread[c] \in Thread
           /\ thread[c].pc \notin {"write", "read"} => thread[c].link = 0
           /\ thread[c].pc \in {"write", "read"} => thread[c].link \in DOMAIN link
BY DEF GatewayTypeOK, LinksOwned

LEMMA GoesMoves ==
    ASSUME GatewayTypeOK, NEW c \in Client, NEW pc \in Outer \cup Pooled, Goes(c, pc)
    PROVE  Moved(c, pc, thread[c].link, thread[c].answer)
<1> DEFINE u == [thread[c] EXCEPT !.pc = pc]
<1>1. thread[c] \in Thread
  BY DEF GatewayTypeOK
<1>2. u \in Thread /\ u.pc = pc /\ u.link = thread[c].link /\ u.answer = thread[c].answer
      /\ u.at = thread[c].at /\ u.out = thread[c].out
  BY Zenon, <1>1 DEF Thread
<1>3. thread' = [thread EXCEPT ![c] = u]
  BY DEF Goes
<1> HIDE DEF u
<1> QED
  BY <1>2, <1>3 DEF Moved, GatewayTypeOK

LEMMA AnswersMoves ==
    ASSUME GatewayTypeOK, NEW c \in Client, NEW pc \in Outer \cup Pooled, NEW a \in AnswerSet,
           NEW k \in Nat,
           thread' = [thread EXCEPT ![c] = [@ EXCEPT !.pc = pc, !.link = k, !.answer = a]]
    PROVE  Moved(c, pc, k, a)
<1> DEFINE u == [thread[c] EXCEPT !.pc = pc, !.link = k, !.answer = a]
<1>1. thread[c] \in Thread
  BY DEF GatewayTypeOK
<1>2. u \in Thread /\ u.pc = pc /\ u.link = k /\ u.answer = a
      /\ u.at = thread[c].at /\ u.out = thread[c].out
  BY Zenon, <1>1 DEF Thread
<1>3. thread' = [thread EXCEPT ![c] = u]
  OBVIOUS
<1> HIDE DEF u
<1> QED
  BY <1>2, <1>3 DEF Moved, GatewayTypeOK

LEMMA TakesMoves ==
    ASSUME GatewayTypeOK, NEW c \in Client, NEW pc \in Outer \cup Pooled, NEW k \in Nat, NEW f \in BOOLEAN,
           thread' = [thread EXCEPT ![c] = [@ EXCEPT !.pc = pc, !.link = k, !.fresh = f]]
    PROVE  Moved(c, pc, k, thread[c].answer)
<1> DEFINE u == [thread[c] EXCEPT !.pc = pc, !.link = k, !.fresh = f]
<1>1. thread[c] \in Thread
  BY DEF GatewayTypeOK
<1>2. u \in Thread /\ u.pc = pc /\ u.link = k /\ u.answer = thread[c].answer
      /\ u.at = thread[c].at /\ u.out = thread[c].out
  BY Zenon, <1>1 DEF Thread
<1>3. thread' = [thread EXCEPT ![c] = u]
  OBVIOUS
<1> HIDE DEF u
<1> QED
  BY <1>2, <1>3 DEF Moved, GatewayTypeOK

LEMMA MappedTyped ==
    /\ \A e : MapError(e) \in AnswerSet /\ ~Refusal(MapError(e)) /\ MapError(e).verdict = "none"
    /\ \A v \in HostVerdicts : MapVerdict(v) \in AnswerSet /\ MapVerdict(v).verdict = v
    /\ "none" \notin HostVerdicts
BY DEF MapError, MapVerdict, Problem, Answer, AnswerSet, Refusal, HostVerdicts, Status, RejectStatus

LEMMA FailsMoves ==
    ASSUME GatewayTypeOK, NEW c \in Client, NEW e, e # "none", Fails(c, e)
    PROVE  /\ idle' = idle
           /\ \/ Moved(c, "connect", 0, thread[c].answer) /\ e = "broken"
              \/ Moved(c, "release", 0, MapError(e))
<1>1. idle' = idle
  BY DEF Fails, Returned, ReturnsConn
<1>2. CASE Retries(c, e)
  <2>1. thread[c] \in Thread /\ thread[c].fresh \in BOOLEAN
    BY DEF GatewayTypeOK, Thread
  <2>2. thread' = [thread EXCEPT ![c] = [@ EXCEPT !.pc = "connect", !.link = 0]]
    BY Zenon, <1>2 DEF Fails
  <2> DEFINE u == [thread[c] EXCEPT !.pc = "connect", !.link = 0]
  <2>3. u \in Thread /\ u.pc = "connect" /\ u.link = 0 /\ u.answer = thread[c].answer
        /\ u.at = thread[c].at /\ u.out = thread[c].out
    BY Zenon, <2>1 DEF Thread, Pooled
  <2>4. thread' = [thread EXCEPT ![c] = u]
    BY <2>2
  <2> HIDE DEF u
  <2>5. Moved(c, "connect", 0, thread[c].answer)
    BY <2>3, <2>4 DEF Moved, GatewayTypeOK
  <2> QED
    BY <1>1, <1>2, <2>5 DEF Retries
<1>3. CASE ~Retries(c, e)
  <2>1. thread' = [thread EXCEPT ![c] = [@ EXCEPT !.pc = "release", !.link = 0, !.answer = MapError(e)]]
    BY Zenon, <1>3 DEF Fails
  <2>2. Moved(c, "release", 0, MapError(e))
    BY Zenon, <2>1, MappedTyped, AnswersMoves DEF Pooled
  <2> QED
    BY <1>1, <2>2
<1> QED
  BY <1>2, <1>3

LEMMA MovedKeepsVerdicts ==
    ASSUME GatewayTypeOK, VerdictsGiven, NEW c \in Client, NEW pc, NEW k, NEW a, Moved(c, pc, k, a),
           pc \in {"release", "store"} => a \in AnswerSet /\ Given(BodyOf(c, thread[c].at), a),
           UNCHANGED <<sc, said>>
    PROVE  VerdictsGiven'
<1>1. ASSUME NEW d, NEW i, NEW b PROVE Given(BodyOf(d, i), b)' <=> Given(BodyOf(d, i), b)
  BY DEF Given, BodyOf, Stream, Conf
<1>2. ASSUME NEW d \in Client PROVE
         /\ thread'[d].pc \in {"release", "store"} =>
               thread'[d].answer \in AnswerSet /\ Given(BodyOf(d, thread'[d].at), thread'[d].answer)
         /\ \A i \in DOMAIN thread'[d].out : Given(BodyOf(d, thread'[d].out[i][1]), thread'[d].out[i][2])
  <2>1. CASE d = c
    BY <2>1 DEF Moved, VerdictsGiven
  <2>2. CASE d # c
    BY <2>2 DEF Moved, VerdictsGiven
  <2> QED
    BY SMTT(30), <2>1, <2>2
<1> QED
  BY SMTT(30), <1>1, <1>2 DEF VerdictsGiven

LEMMA MovedKeepsFrames ==
    ASSUME GatewayTypeOK, FramesPlaced, FramesOnce,
           NEW c \in Client, NEW pc, pc \notin {"new", "closed"}, NEW k, NEW a, Moved(c, pc, k, a),
           thread[c].pc # "closed",
           Framed(c, thread[c].at) => pc \in {"read", "release", "store"},
           pc \in {"release", "store"} /\ Refusal(a) => ~Framed(c, thread[c].at),
           UNCHANGED framed
    PROVE  FramesPlaced' /\ FramesOnce'
<1>1. ASSUME NEW d, NEW i PROVE Framed(d, i)' <=> Framed(d, i)
  BY DEF Framed
<1>2. FramesPlaced'
  <2>1. \A d \in Client : thread'[d].pc = "new" => thread'[d].at = 1
    BY SMTT(30) DEF Moved, FramesPlaced
  <2>2. ASSUME NEW d \in Client, NEW i \in DOMAIN thread'[d].out
        PROVE  thread'[d].out[i][1] < thread'[d].at \/ (thread'[d].out[i][1] = thread'[d].at /\ thread'[d].pc = "closed")
    <3>1. CASE d = c
      BY Zenon, <2>2, <3>1 DEF Moved, FramesPlaced
    <3>2. CASE d # c
      BY <2>2, <3>2 DEF Moved, FramesPlaced
    <3> QED
      BY Zenon, <3>1, <3>2
  <2>3. ASSUME NEW j \in DOMAIN framed
        PROVE  LET w == thread'[framed[j][1]]
               IN  framed[j][2] < w.at \/ (framed[j][2] = w.at /\ w.pc \in {"read", "release", "store", "closed"})
    <3>1. framed[j] \in Client \X Nat /\ framed[j] = <<framed[j][1], framed[j][2]>>
      BY DEF GatewayTypeOK
    <3>2. CASE framed[j][1] = c
      <4>1. framed[j][2] < thread[c].at \/ framed[j][2] = thread[c].at
        BY Zenon, <3>2 DEF FramesPlaced
      <4>2. CASE framed[j][2] = thread[c].at
        <5>1. Framed(c, thread[c].at)
          BY <3>1, <3>2, <4>2 DEF Framed
        <5> QED
          BY <3>2, <4>2, <5>1 DEF Moved
      <4> QED
        BY <3>2, <4>1, <4>2 DEF Moved
    <3>3. CASE framed[j][1] # c
      BY Zenon, <3>1, <3>3 DEF Moved, FramesPlaced
    <3> QED
      BY Zenon, <3>2, <3>3
  <2> QED
    BY Zenon, <2>1, <2>2, <2>3 DEF FramesPlaced
<1>3. FramesOnce'
  <2>1. ASSUME NEW d \in Client, thread'[d].pc \in {"release", "store"}, Refusal(thread'[d].answer)
        PROVE  ~Framed(d, thread'[d].at)
    <3>1. CASE d = c
      BY <2>1, <3>1 DEF Moved
    <3>2. CASE d # c
      BY <2>1, <3>2 DEF Moved, FramesOnce
    <3> QED
      BY <3>1, <3>2
  <2>2. ASSUME NEW d \in Client, NEW i \in DOMAIN thread'[d].out, Refusal(thread'[d].out[i][2])
        PROVE  ~Framed(d, thread'[d].out[i][1])
    <3>1. thread'[d].out = thread[d].out
      BY DEF Moved
    <3> QED
      BY <2>2, <3>1 DEF FramesOnce
  <2> QED
    BY Zenon, <1>1, <2>1, <2>2 DEF FramesOnce, Refusal
<1> QED
  BY <1>2, <1>3

\* A thread without a connection of its own, or that gives its own up.
LEMMA MovedOff ==
    ASSUME GatewayTypeOK, LinksOwned, QueuesOwned,
           NEW c \in Client, NEW pc, pc \notin {"write", "read"}, NEW a, Moved(c, pc, 0, a),
           UNCHANGED <<sc, idle, link, said>>
    PROVE  LinksOwned' /\ QueuesOwned'
<1>1. idle' = idle /\ link' = link
  OBVIOUS
<1>2. LinksOwned'
  <2>1. \A d \in Client : IF thread'[d].pc \in {"write", "read"}
                          THEN thread'[d].link \in DOMAIN link ELSE thread'[d].link = 0
    BY DEF LinksOwned, Moved
  <2>2. \A d, e \in Client : thread'[d].link # 0 /\ thread'[d].link = thread'[e].link => d = e
    BY DEF LinksOwned, Moved
  <2>3. \A i \in DOMAIN idle : idle[i] \in DOMAIN link /\ idle[i] # 0
    BY DEF LinksOwned, GatewayTypeOK
  <2>4. \A i \in DOMAIN idle : \A d \in Client : thread'[d].link # idle[i]
    BY <2>3 DEF LinksOwned, Moved
  <2> QED
    BY Zenon, <1>1, <2>1, <2>2, <2>3, <2>4 DEF LinksOwned
<1>3. ASSUME NEW d \in Client, thread'[d].pc = "read" PROVE Awaits(d)'
  <2>1. d # c /\ thread'[d] = thread[d]
    BY <1>3 DEF Moved
  <2> QED
    BY Zenon, <1>3, <2>1, AwaitsKept DEF QueuesOwned
<1>4. \A d \in Client : thread'[d].pc = "write" => thread'[d] = thread[d]
  BY DEF Moved
<1>5. QueuesOwned'
  BY <1>1, <1>3, <1>4 DEF QueuesOwned
<1> QED
  BY <1>2, <1>5

-----------------------------------------------------------------------------
\* The connection a thread takes, writes to and hands back.

\* A thread takes a connection nobody else holds, left blank by the last user.
LEMMA LinkTaken ==
    ASSUME GatewayTypeOK, LinksOwned, QueuesOwned, NEW c \in Client, NEW k \in Nat \ {0}, NEW a,
           Moved(c, "write", k, a), UNCHANGED <<sc, said>>,
           \A j \in DOMAIN link : j \in DOMAIN link' /\ link'[j] = link[j],
           k \in DOMAIN link', Blank(link'[k]), \A d \in Client : thread[d].link # k,
           \A i \in DOMAIN idle' : i \in DOMAIN idle /\ idle'[i] = idle[i] /\ idle'[i] # k
    PROVE  LinksOwned' /\ QueuesOwned'
<1>1. LinksOwned'
  <2>1. \A d \in Client : IF thread'[d].pc \in {"write", "read"}
                          THEN thread'[d].link \in DOMAIN link' ELSE thread'[d].link = 0
    BY DEF LinksOwned, Moved
  <2>2. \A d, e \in Client : thread'[d].link # 0 /\ thread'[d].link = thread'[e].link => d = e
    BY SMTT(30) DEF LinksOwned, Moved
  <2>3. \A i, j \in DOMAIN idle' : idle'[i] = idle'[j] => i = j
    BY Zenon DEF LinksOwned
  <2>4. \A i \in DOMAIN idle' : idle'[i] \in DOMAIN link'
    BY DEF LinksOwned
  <2>5. \A i \in DOMAIN idle' : \A d \in Client : thread'[d].link # idle'[i]
    BY DEF LinksOwned, Moved
  <2> QED
    BY <2>1, <2>2, <2>3, <2>4, <2>5 DEF LinksOwned
<1>2. \A i \in DOMAIN idle' : Blank(link'[idle'[i]])
  BY Zenon DEF LinksOwned, QueuesOwned
<1>3. \A d \in Client : thread'[d].pc = "write" => Blank(link'[thread'[d].link])
  <2> SUFFICES ASSUME NEW d \in Client, d # c, thread[d].pc = "write" PROVE Blank(link'[thread[d].link])
    BY DEF Moved
  <2> QED
    BY DEF LinksOwned, QueuesOwned
<1>4. ASSUME NEW d \in Client, thread'[d].pc = "read" PROVE Awaits(d)'
  <2>1. d # c /\ thread'[d] = thread[d]
    BY <1>4 DEF Moved
  <2>2. Awaits(d) /\ link'[thread[d].link] = link[thread[d].link]
    BY Zenon, <1>4, <2>1 DEF QueuesOwned, LinksOwned
  <2> QED
    BY <2>1, <2>2, AwaitsKept
<1>5. QueuesOwned'
  BY Zenon, <1>2, <1>3, <1>4 DEF QueuesOwned
<1> QED
  BY <1>1, <1>5

\* A frame goes out on the thread's own connection.
LEMMA LinkWritten ==
    ASSUME GatewayTypeOK, LinksOwned, QueuesOwned, NEW c \in Client, thread[c].pc = "write", NEW k, NEW a,
           k = thread[c].link, Moved(c, "read", k, a), UNCHANGED <<sc, idle, said>>,
           DOMAIN link' = DOMAIN link, \A j \in DOMAIN link : j # k => link'[j] = link[j],
           Waiting(link'[k], <<c, thread[c].at>>, BodyOf(c, thread[c].at), said)
    PROVE  LinksOwned' /\ QueuesOwned'
<1>1. LinksOwned'
  <2>1. \A d \in Client : IF thread'[d].pc \in {"write", "read"}
                          THEN thread'[d].link \in DOMAIN link' ELSE thread'[d].link = 0
    BY SMTT(30) DEF LinksOwned, Moved
  <2>2. \A d \in Client : thread'[d].link = thread[d].link
    BY DEF Moved
  <2> QED
    BY SMTT(30), <2>1, <2>2 DEF LinksOwned
<1>2. \A i \in DOMAIN idle' : Blank(link'[idle'[i]])
  BY Zenon DEF LinksOwned, QueuesOwned
<1>3. ASSUME NEW d \in Client, d # c, thread[d].pc \in {"write", "read"}
      PROVE  link'[thread[d].link] = link[thread[d].link]
  <2>1. thread[d].link \in DOMAIN link /\ thread[d].link # 0
    BY SMTT(30), <1>3 DEF LinksOwned, GatewayTypeOK
  <2> QED
    BY Zenon, <1>3, <2>1 DEF LinksOwned
<1>4. \A d \in Client : thread'[d].pc = "write" => Blank(link'[thread'[d].link])
  <2> SUFFICES ASSUME NEW d \in Client, d # c, thread[d].pc = "write" PROVE Blank(link'[thread[d].link])
    BY Zenon DEF Moved
  <2> QED
    BY Zenon, <1>3 DEF QueuesOwned
<1>5. ASSUME NEW d \in Client, thread'[d].pc = "read" PROVE Awaits(d)'
  <2>1. CASE d = c
    <3>1. thread'[c].link = k /\ thread'[c].at = thread[c].at
      BY DEF Moved
    <3>2. BodyOf(c, thread[c].at)' = BodyOf(c, thread[c].at)
      BY Zenon, <3>1 DEF BodyOf, Stream, Conf
    <3> QED
      BY Zenon, <2>1, <3>1, <3>2 DEF Awaits
  <2>2. CASE d # c
    <3>1. thread'[d] = thread[d]
      BY SMTT(30), <2>2 DEF Moved
    <3>2. Awaits(d) /\ link'[thread[d].link] = link[thread[d].link]
      BY Zenon, <1>3, <1>5, <2>2, <3>1 DEF QueuesOwned
    <3> QED
      BY Zenon, <3>1, <3>2, AwaitsKept
  <2> QED
    BY <2>1, <2>2
<1>6. QueuesOwned'
  BY Zenon, <1>2, <1>4, <1>5 DEF QueuesOwned
<1> QED
  BY <1>1, <1>6

\* The first frame of a request.
LEMMA FrameAdded ==
    ASSUME GatewayTypeOK, FramesPlaced, FramesOnce, NEW c \in Client, thread[c].pc = "write",
           NEW k, NEW a, Moved(c, "read", k, a), framed' = Append(framed, <<c, thread[c].at>>)
    PROVE  FramesPlaced' /\ FramesOnce'
<1> DEFINE r == <<c, thread[c].at>>
           n == Len(framed) + 1
<1>1. r \in Client \X Nat /\ thread[c].at \in Nat /\ framed \in Seq(Client \X Nat) /\ ~Framed(c, thread[c].at)
  BY Zenon, NothingFramedYet DEF GatewayTypeOK, Thread
<1>2. /\ DOMAIN framed' = DOMAIN framed \cup {n} /\ n \notin DOMAIN framed /\ framed'[n] = r
      /\ \A j \in DOMAIN framed : framed'[j] = framed[j]
  BY <1>1
<1>3. r[1] = c /\ r[2] = thread[c].at
  OBVIOUS
<1>4. \A j \in DOMAIN framed : framed[j] # r
  BY <1>1 DEF Framed
<1>5. ASSUME NEW d, NEW i, ~Framed(d, i), <<d, i>> # r PROVE \A j \in DOMAIN framed' : framed'[j] # <<d, i>>
  BY <1>2, <1>5 DEF Framed
<1> HIDE DEF r, n
<1>6. \A d \in Client : thread'[d].out = thread[d].out /\ thread'[d].at = thread[d].at
  BY DEF Moved
<1>7. FramesPlaced'
  <2>1. \A d \in Client : thread'[d].pc = "new" => thread'[d].at = 1
    BY Zenon DEF Moved, FramesPlaced
  <2>2. ASSUME NEW d \in Client, NEW i \in DOMAIN thread'[d].out
        PROVE  thread'[d].out[i][1] < thread'[d].at \/ (thread'[d].out[i][1] = thread'[d].at /\ thread'[d].pc = "closed")
    <3>1. thread[d].pc = "closed" => thread'[d].pc = "closed"
      BY DEF Moved
    <3> QED
      BY SMTT(30), <1>6, <2>2, <3>1 DEF FramesPlaced
  <2>3. ASSUME NEW j \in DOMAIN framed'
        PROVE  LET w == thread'[framed'[j][1]]
               IN  framed'[j][2] < w.at \/ (framed'[j][2] = w.at /\ w.pc \in {"read", "release", "store", "closed"})
    <3>1. CASE j = n
      BY Zenon, <1>2, <1>3, <1>6, <3>1 DEF Moved
    <3>2. CASE j \in DOMAIN framed
      <4>1. framed'[j] = framed[j] /\ framed[j][1] \in Client
        BY SMTT(30), <1>1, <1>2, <3>2
      <4>2. CASE framed[j][1] = c
        BY Zenon, <1>6, <3>2, <4>1, <4>2 DEF FramesPlaced, Moved
      <4>3. CASE framed[j][1] # c
        BY Zenon, <3>2, <4>1, <4>3 DEF FramesPlaced, Moved
      <4> QED
        BY Zenon, <4>2, <4>3
    <3> QED
      BY Zenon, <1>2, <3>1, <3>2
  <2> QED
    BY Zenon, <2>1, <2>2, <2>3 DEF FramesPlaced
<1>8. FramesOnce'
  <2>1. ASSUME NEW d \in Client, thread'[d].pc \in {"release", "store"}, Refusal(thread'[d].answer)
        PROVE  \A j \in DOMAIN framed' : framed'[j] # <<d, thread'[d].at>>
    <3>1. d # c /\ thread'[d] = thread[d]
      BY <2>1 DEF Moved
    <3>2. ~Framed(d, thread[d].at) /\ <<d, thread[d].at>> # r
      BY Zenon, <2>1, <3>1 DEF FramesOnce, r
    <3> QED
      BY Zenon, <1>5, <3>1, <3>2
  <2>2. ASSUME NEW d \in Client, NEW i \in DOMAIN thread'[d].out, Refusal(thread'[d].out[i][2])
        PROVE  \A j \in DOMAIN framed' : framed'[j] # <<d, thread'[d].out[i][1]>>
    <3>1. ~Framed(d, thread[d].out[i][1])
      BY Zenon, <1>6, <2>2 DEF FramesOnce
    <3>2. d = c => thread[d].out[i][1] # thread[c].at
      <4>1. i \in DOMAIN thread[d].out
        BY <1>6, <2>2
      <4>2. thread[d].out[i][1] < thread[d].at \/ thread[d].pc = "closed"
        BY SMTT(30), <4>1 DEF FramesPlaced
      <4> QED
        BY <1>1, <4>2
    <3> QED
      BY SMTT(30), <1>5, <1>6, <3>1, <3>2 DEF r
  <2>3. \A i, j \in DOMAIN framed' : framed'[i] = framed'[j] => i = j
    BY SMTT(30), <1>2, <1>4 DEF FramesOnce
  <2> QED
    BY Zenon, <2>1, <2>2, <2>3 DEF FramesOnce, Framed, Refusal
<1> QED
  BY <1>7, <1>8

\* The reply is read and the connection handed back, or dropped.
LEMMA LinkReturned ==
    ASSUME GatewayTypeOK, LinksOwned, QueuesOwned, NEW c \in Client, thread[c].pc = "read", NEW k, NEW a,
           k = thread[c].link, Moved(c, "release", 0, a), UNCHANGED <<sc, said>>,
           DOMAIN link' = DOMAIN link, \A j \in DOMAIN link : j # k => link'[j] = link[j],
           Blank(link'[k]), idle' = idle \/ idle' = Append(idle, k)
    PROVE  LinksOwned' /\ QueuesOwned'
<1>1. k \in DOMAIN link /\ k \in Nat \ {0} /\ idle \in Seq(Nat)
  BY SMTT(30) DEF LinksOwned, GatewayTypeOK
<1>2. PICK n : n \notin DOMAIN idle /\ \A i \in DOMAIN idle' :
         \/ i = n /\ idle'[i] = k
         \/ i \in DOMAIN idle /\ idle'[i] = idle[i] /\ idle'[i] # k /\ idle[i] \in DOMAIN link
  <2>1. \A i \in DOMAIN idle : idle[i] # k /\ idle[i] \in DOMAIN link
    BY DEF LinksOwned
  <2>2. Len(idle) + 1 \notin DOMAIN idle
    BY <1>1
  <2>3. \A i \in DOMAIN idle' : \/ i = Len(idle) + 1 /\ idle'[i] = k
                                \/ i \in DOMAIN idle /\ idle'[i] = idle[i]
    BY <1>1
  <2> QED
    BY Zenon, <2>1, <2>2, <2>3
<1>3. \A d \in Client : thread'[d].link # k /\ (d # c => thread[d].link # k)
  BY SMTT(30), <1>1 DEF LinksOwned, Moved
<1>4. LinksOwned'
  <2>1. \A d \in Client : IF thread'[d].pc \in {"write", "read"}
                          THEN thread'[d].link \in DOMAIN link' ELSE thread'[d].link = 0
    BY SMTT(30) DEF LinksOwned, Moved
  <2>2. \A d, e \in Client : thread'[d].link # 0 /\ thread'[d].link = thread'[e].link => d = e
    BY SMTT(30) DEF LinksOwned, Moved
  <2>3. \A i, j \in DOMAIN idle' : idle'[i] = idle'[j] => i = j
    BY Zenon, <1>2 DEF LinksOwned
  <2>4. \A i \in DOMAIN idle' : idle'[i] \in DOMAIN link'
    BY SMTT(30), <1>1, <1>2
  <2>5. \A i \in DOMAIN idle' : \A d \in Client : thread'[d].link # idle'[i]
    <3>1. 0 \notin DOMAIN link
      BY DEF GatewayTypeOK
    <3>2. \A d \in Client : thread'[d].link = thread[d].link \/ thread'[d].link = 0
      BY SMTT(30) DEF Moved
    <3> QED
      BY SMTT(30), <1>2, <1>3, <3>1, <3>2 DEF LinksOwned
  <2> QED
    BY Zenon, <2>1, <2>2, <2>3, <2>4, <2>5 DEF LinksOwned
<1>5. \A i \in DOMAIN idle' : Blank(link'[idle'[i]])
  BY SMTT(30), <1>2 DEF QueuesOwned
<1>6. \A d \in Client : thread'[d].pc = "write" => Blank(link'[thread'[d].link])
  <2> SUFFICES ASSUME NEW d \in Client, d # c, thread[d].pc = "write" PROVE Blank(link'[thread[d].link])
    BY Zenon DEF Moved
  <2> QED
    BY Zenon, <1>3 DEF LinksOwned, QueuesOwned
<1>7. ASSUME NEW d \in Client, thread'[d].pc = "read" PROVE Awaits(d)'
  <2>1. d # c /\ thread'[d] = thread[d]
    BY <1>7 DEF Moved
  <2>2. Awaits(d) /\ link'[thread[d].link] = link[thread[d].link]
    BY Zenon, <1>3, <1>7, <2>1 DEF QueuesOwned, LinksOwned
  <2> QED
    BY <2>1, <2>2, AwaitsKept
<1>8. QueuesOwned'
  BY Zenon, <1>5, <1>6, <1>7 DEF QueuesOwned
<1> QED
  BY <1>4, <1>8

-----------------------------------------------------------------------------
\* The steps of the host: the threads stay where they are, and what it has
\* answered only grows.

LEMMA HostKeeps ==
    ASSUME RequestsInv, NEW k \in DOMAIN link, NEW l \in HostLink, link' = [link EXCEPT ![k] = l],
           said \subseteq said', UNCHANGED <<sc, thread, clock, inflight, idle, framed>>,
           Blank(link[k]) => Blank(l),
           \A c \in Client : thread[c].pc = "read" /\ thread[c].link = k =>
               Waiting(l, <<c, thread[c].at>>, BodyOf(c, thread[c].at), said')
    PROVE  RequestsInv'
<1>1. /\ GatewayTypeOK /\ LinksOwned /\ QueuesOwned /\ VerdictsGiven /\ PoolBounded
      /\ FramesPlaced /\ FramesOnce
  BY DEF RequestsInv
<1>2. /\ link' \in Seq(HostLink) /\ DOMAIN link' = DOMAIN link /\ link'[k] = l
      /\ \A j \in DOMAIN link : j # k => link'[j] = link[j]
  BY <1>1 DEF GatewayTypeOK
<1>3. GatewayTypeOK' /\ LinksOwned'
  BY <1>1, <1>2 DEF GatewayTypeOK, LinksOwned
<1>4. QueuesOwned'
  <2>1. ASSUME NEW j \in DOMAIN link, Blank(link[j]) PROVE Blank(link'[j])
    BY <1>2, <2>1
  <2>2. \A i \in DOMAIN idle' : Blank(link'[idle'[i]])
    BY <1>1, <2>1 DEF LinksOwned, QueuesOwned
  <2>3. \A c \in Client : thread'[c].pc = "write" => Blank(link'[thread'[c].link])
    BY <1>1, <2>1 DEF LinksOwned, QueuesOwned
  <2>4. ASSUME NEW c \in Client, thread'[c].pc = "read" PROVE Awaits(c)'
    <3>1. CASE thread[c].link = k
      <4>1. BodyOf(c, thread[c].at)' = BodyOf(c, thread[c].at)
        BY DEF BodyOf, Stream, Conf
      <4>2. Waiting(l, <<c, thread[c].at>>, BodyOf(c, thread[c].at), said')
        BY <2>4, <3>1
      <4> QED
        BY <1>2, <3>1, <4>1, <4>2 DEF Awaits
    <3>2. CASE thread[c].link # k
      <4>1. Awaits(c) /\ link'[thread[c].link] = link[thread[c].link]
        BY SMTT(30), <1>1, <1>2, <2>4, <3>2 DEF LinksOwned, QueuesOwned
      <4> QED
        BY <4>1, AwaitsKept
    <3> QED
      BY <3>1, <3>2
  <2> QED
    BY <2>2, <2>3, <2>4 DEF QueuesOwned
<1>5. VerdictsGiven'
  BY Zenon, <1>1 DEF VerdictsGiven, Given, BodyOf, Stream, Conf
<1>6. FramesPlaced' /\ FramesOnce'
  BY Zenon, <1>1 DEF FramesPlaced, FramesOnce, Framed, Refusal
<1>7. PoolBounded'
  BY SMTT(30), <1>1 DEF PoolBounded, Holding, MaxInflight, Conf
<1> QED
  BY <1>3, <1>4, <1>5, <1>6, <1>7 DEF RequestsInv

LEMMA OneQueued ==
    ASSUME NEW c, NEW n, NEW v
    PROVE  /\ Head(<<<<c, n>>>>) = <<c, n>> /\ Tail(<<<<c, n>>>>) = <<>>
           /\ Append(<<>>, v) = <<v>> /\ <<c, n>>[1] = c /\ <<c, n>>[2] = n
  OBVIOUS

LEMMA HostServesKeeps ==
    ASSUME RequestsInv, NEW k \in DOMAIN link, HostServes(k)
    PROVE  RequestsInv' /\ said \subseteq said'
<1> DEFINE r == Head(link[k].sent)
           a == Stream(r[1])[r[2]].body
<1>1. PICK v \in HostVerdicts :
         /\ link' = [link EXCEPT ![k] = [open |-> Conf.hostPersists, sent |-> Tail(@.sent), got |-> Append(@.got, v)]]
         /\ said' = said \cup {<<a, v>>}
  BY Zenon DEF HostServes, HostVerdicts
<1> DEFINE l == [open |-> Conf.hostPersists, sent |-> Tail(link[k].sent), got |-> Append(link[k].got, v)]
<1>2. /\ link[k].sent # <<>>
      /\ UNCHANGED <<sc, thread, clock, inflight, idle, framed>>
  BY Zenon DEF HostServes, rateVars
<1>3. GatewayTypeOK /\ LinksOwned /\ QueuesOwned /\ link[k] \in HostLink
  BY DEF RequestsInv, GatewayTypeOK
<1>4. /\ Conf.hostPersists \in BOOLEAN
      /\ link[k].sent \in Seq(Client \X Nat) /\ link[k].got \in Seq(HostVerdicts)
  BY <1>3, GatewayConstants DEF GatewayTypeOK, HostLink, Conf
<1>5. Tail(link[k].sent) \in Seq(Client \X Nat) /\ Append(link[k].got, v) \in Seq(HostVerdicts)
  BY <1>2, <1>4
<1>6. l \in HostLink /\ link' = [link EXCEPT ![k] = l]
  BY <1>1, <1>4, <1>5 DEF HostLink
<1>7. ~Blank(link[k])
  BY <1>2 DEF Blank
<1>8. ASSUME NEW c \in Client, thread[c].pc = "read", thread[c].link = k
      PROVE  Waiting(l, <<c, thread[c].at>>, BodyOf(c, thread[c].at), said')
  <2>1. link[k].sent = <<<<c, thread[c].at>>>> /\ link[k].got = <<>>
    BY Zenon, <1>2, <1>3, <1>8 DEF QueuesOwned, Awaits, Waiting, Blank
  <2>q. /\ Head(<<<<c, thread[c].at>>>>) = <<c, thread[c].at>>
        /\ Tail(<<<<c, thread[c].at>>>>) = <<>> /\ Append(<<>>, v) = <<v>>
        /\ <<c, thread[c].at>>[1] = c /\ <<c, thread[c].at>>[2] = thread[c].at
    BY Zenon, OneQueued
  <2>2. r = <<c, thread[c].at>> /\ l.sent = <<>> /\ l.got = <<v>>
    BY <2>1, <2>q, Zenon
  <2>3. a = BodyOf(c, thread[c].at)
    BY <2>2, <2>q, Zenon DEF BodyOf
  <2> HIDE DEF a, l
  <2> QED
    BY <1>1, <2>2, <2>3 DEF Waiting
<1> HIDE DEF l
<1> QED
  BY Zenon, <1>1, <1>2, <1>6, <1>7, <1>8, HostKeeps

LEMMA HostClosesKeeps ==
    ASSUME RequestsInv, NEW k \in DOMAIN link, HostCloses(k)
    PROVE  RequestsInv' /\ said' = said
<1> DEFINE l == [link[k] EXCEPT !.open = FALSE, !.sent = <<>>]
<1>1. /\ link' = [link EXCEPT ![k] = l]
      /\ UNCHANGED <<sc, thread, clock, inflight, idle, framed, said>>
  BY Zenon DEF HostCloses, rateVars, hostVars
<1>2. GatewayTypeOK /\ LinksOwned /\ QueuesOwned /\ link[k] \in HostLink
  BY DEF RequestsInv, GatewayTypeOK
<1>3. l \in HostLink /\ l.sent = <<>> /\ l.got = link[k].got
  <2>1. <<>> \in Seq(Client \X Nat)
    OBVIOUS
  <2> QED
    BY Zenon, <1>2, <2>1 DEF HostLink
<1> HIDE DEF l
<1>4. Blank(link[k]) => Blank(l)
  BY <1>3 DEF Blank
<1>5. ASSUME NEW c \in Client, thread[c].pc = "read", thread[c].link = k
      PROVE  Waiting(l, <<c, thread[c].at>>, BodyOf(c, thread[c].at), said')
  BY Zenon, <1>1, <1>2, <1>3, <1>5 DEF QueuesOwned, Awaits, Waiting, Blank
<1> QED
  BY Zenon, <1>1, <1>3, <1>4, <1>5, HostKeeps

-----------------------------------------------------------------------------
\* The idempotency cache: every entry answers its own bytes.

LEMMA CacheKept ==
    ASSUME CacheGiven, UNCHANGED cacheVars, said \subseteq said'
    PROVE  CacheGiven'
BY DEF CacheGiven, cacheVars, Entry, Given

LEMMA LookupCache ==
    ASSUME CacheGiven, NEW c \in Client, Lookup(c)
    PROVE  CacheGiven'
<1> DEFINE key == Scoped(Req(c))
<1>1. tick \in Nat /\ tick' \in Nat /\ said' = said
  BY DEF Lookup, CacheGiven, hostVars
<1>2. CASE cache' = cache
  BY <1>1, <1>2 DEF CacheGiven, Given, Entry
<1>3. CASE cache' = Without(cache, {key})
  <2>1. \A k \in DOMAIN cache' : k \in DOMAIN cache /\ cache'[k] = cache[k]
    BY <1>3 DEF Without, Restrict
  <2> QED
    BY <1>1, <2>1 DEF CacheGiven, Given, Entry
<1>4. CASE key \in DOMAIN cache /\ cache' = [cache EXCEPT ![key].used = tick]
  <2> DEFINE e == [cache[key] EXCEPT !.used = tick]
  <2>1. cache[key] \in Entry(cache[key].body) /\ Given(cache[key].body, cache[key].answer)
    BY <1>4 DEF CacheGiven
  <2>2. e.body = cache[key].body /\ e.answer = cache[key].answer /\ e \in Entry(e.body)
    BY <1>1, <2>1 DEF Entry
  <2>3. cache' = [cache EXCEPT ![key] = e]
    BY <1>4
  <2> HIDE DEF key, e
  <2>4. ASSUME NEW k \in DOMAIN cache' PROVE cache'[k] \in Entry(cache'[k].body) /\ Given(cache'[k].body, cache'[k].answer)
    <3>1. CASE k = key
      BY <2>1, <2>2, <2>3, <3>1
    <3>2. CASE k # key
      BY <2>3, <3>2 DEF CacheGiven
    <3> QED
      BY <3>1, <3>2
  <2> QED
    BY Zenon, <1>1, <2>4 DEF CacheGiven, Given, Entry
<1> QED
  BY <1>2, <1>3, <1>4 DEF Lookup

LEMMA PutCache ==
    ASSUME CacheGiven, VerdictsGiven, NEW c \in Client, Put(c)
    PROVE  CacheGiven'
<1> DEFINE h == Req(c)
           key == Scoped(h)
           kept == Without(cache, Evicted(key))
           e == [body |-> h.body, answer |-> thread[c].answer, expired |-> FALSE, used |-> tick]
<1>1. tick \in Nat /\ said' = said /\ thread[c].pc = "store"
  BY Zenon DEF Put, CacheGiven, hostVars, Running
<1>2. CASE UNCHANGED cacheVars
  BY <1>1, <1>2, CacheKept
<1>3. CASE /\ cache' = [k \in DOMAIN kept \cup {key} |-> IF k # key THEN kept[k] ELSE e]
           /\ tick' = tick + 1
  <2>1. thread[c].answer \in AnswerSet /\ Given(h.body, thread[c].answer)
    BY SMTT(30), <1>1 DEF VerdictsGiven, BodyOf, Req
  <2>2. e \in Entry(e.body) /\ Given(e.body, e.answer)
    BY Zenon, <1>1, <2>1 DEF Entry
  <2>3. \A k \in DOMAIN kept : k \in DOMAIN cache /\ kept[k] = cache[k]
    BY DEF Without, Restrict
  <2> HIDE DEF kept, key, e
  <2>4. ASSUME NEW k \in DOMAIN cache' PROVE cache'[k] \in Entry(cache'[k].body) /\ Given(cache'[k].body, cache'[k].answer)
    <3>1. CASE k = key
      BY <1>3, <2>2, <3>1
    <3>2. CASE k # key
      <4>1. k \in DOMAIN cache /\ cache'[k] = cache[k]
        BY <1>3, <2>3, <2>4, <3>2
      <4> QED
        BY <4>1 DEF CacheGiven
    <3> QED
      BY <3>1, <3>2
  <2>5. tick' \in Nat
    BY <1>1, <1>3
  <2> QED
    BY Zenon, <1>1, <2>4, <2>5 DEF CacheGiven, Given, Entry
<1> QED
  BY Zenon, <1>2, <1>3 DEF Put

LEMMA ExpireCache ==
    ASSUME CacheGiven, Expire
    PROVE  CacheGiven'
<1>1. PICK key \in DOMAIN cache : cache' = [cache EXCEPT ![key].expired = TRUE]
  BY Zenon DEF Expire
<1>2. tick' = tick /\ tick \in Nat /\ said' = said
  BY DEF Expire, CacheGiven, hostVars
<1> DEFINE e == [cache[key] EXCEPT !.expired = TRUE]
<1>3. cache[key] \in Entry(cache[key].body) /\ Given(cache[key].body, cache[key].answer)
  BY DEF CacheGiven
<1>4. e.body = cache[key].body /\ e.answer = cache[key].answer /\ e \in Entry(e.body)
  BY Zenon, <1>3 DEF Entry
<1>5. cache' = [cache EXCEPT ![key] = e]
  BY <1>1
<1> HIDE DEF e
<1>6. ASSUME NEW k \in DOMAIN cache' PROVE cache'[k] \in Entry(cache'[k].body) /\ Given(cache'[k].body, cache'[k].answer)
  <2>1. CASE k = key
    BY <1>3, <1>4, <1>5, <2>1
  <2>2. CASE k # key
    BY <1>5, <2>2 DEF CacheGiven
  <2> QED
    BY <2>1, <2>2
<1> QED
  BY <1>2, <1>6 DEF CacheGiven, Given, Entry

-----------------------------------------------------------------------------
\* The rate limiter.

LEMMA BurstTyped ==
    ASSUME GatewayTypeOK
    PROVE  Conf.burst \in Nat /\ clock \in Nat
BY GatewayConstants DEF GatewayTypeOK, Conf

\* Refilling loses nothing of what the bucket knows.
LEMMA RefilledOK ==
    ASSUME GatewayTypeOK, RateInv, NEW k \in Conf.tokens
    PROVE  BucketOK(Refilled(k, clock), charged[k], Conf.burst, clock) /\ Refilled(k, clock).last = clock
<1> DEFINE b == Refilled(k, clock)
<1>1. Conf.burst \in Nat /\ clock \in Nat /\ charged[k] \in Seq(Nat)
  BY BurstTyped DEF RateInv
<1>2. CASE k \notin DOMAIN bucket
  <2>1. b = [tokens |-> Conf.burst, last |-> clock] /\ charged[k] = <<>>
    BY Zenon, <1>2 DEF Refilled, RateInv
  <2> QED
    BY <1>1, <2>1 DEF BucketOK
<1>3. CASE k \in DOMAIN bucket
  <2> DEFINE t == bucket[k].tokens
             l == bucket[k].last
             n == Lesser(t + Greater(clock - l, 0), Conf.burst)
  <2>1. BucketOK(bucket[k], charged[k], Conf.burst, clock)
    BY <1>3 DEF RateInv
  <2>2. t \in Nat /\ l \in Nat /\ l <= clock
    BY <2>1 DEF BucketOK
  <2>3. b = [tokens |-> n, last |-> clock]
    BY <1>3 DEF Refilled
  <2>4. \A i \in DOMAIN charged[k] : Len(charged[k]) - i + 1 + t <= Conf.burst + l - charged[k][i]
    BY <2>1 DEF BucketOK
  <2> HIDE DEF t, l
  <2>5. n \in Nat /\ n <= Conf.burst /\ n <= t + clock - l
    BY <1>1, <2>2 DEF Lesser, Greater
  <2> HIDE DEF n, b
  <2>6. ASSUME NEW i \in DOMAIN charged[k]
        PROVE  Len(charged[k]) - i + 1 + n <= Conf.burst + clock - charged[k][i]
    <3> DEFINE m == Len(charged[k])
               q == charged[k][i]
               burst == Conf.burst
    <3>1. i \in Nat /\ q \in Nat /\ m \in Nat /\ burst \in Nat /\ n <= t + clock - l
      BY <1>1, <2>5
    <3>2. m - i + 1 + t <= burst + l - q
      BY <2>4
    <3> HIDE DEF m, q, burst
    <3>3. m - i + 1 + n <= burst + clock - q
      BY SMTT(30), <1>1, <2>2, <2>5, <3>1, <3>2
    <3> QED
      BY <3>3 DEF m, q, burst
  <2>7. b.tokens = n /\ b.last = clock /\ b \in [tokens : Nat, last : Nat]
    BY <1>1, <2>3, <2>5
  <2>8. BucketOK(b, charged[k], Conf.burst, clock)
    BY <1>1, <2>5, <2>6, <2>7 DEF BucketOK
  <2> QED
    BY <2>7, <2>8 DEF b
<1> QED
  BY SMTT(30), <1>2, <1>3

Window(times, burst) ==
    \A i, j \in DOMAIN times : i <= j => j - i + 1 <= burst + times[j] - times[i]

\* One more request let through, out of a bucket that has a token.
LEMMA ChargedOK ==
    ASSUME NEW times \in Seq(Nat), NEW burst \in Nat, NEW now \in Nat, NEW b, NEW bb,
           BucketOK(b, times, burst, now), b.last = now, b.tokens >= 1, Window(times, burst),
           bb = [b EXCEPT !.tokens = b.tokens - 1]
    PROVE  BucketOK(bb, Append(times, now), burst, now) /\ Window(Append(times, now), burst)
<1> DEFINE more == Append(times, now)
           n == Len(times) + 1
           t == b.tokens
<1>1. t \in Nat /\ t >= 1 /\ t <= burst /\ Len(times) \in Nat
      /\ bb.tokens = t - 1 /\ bb.last = now /\ bb \in [tokens : Nat, last : Nat]
  BY DEF BucketOK
<1>2. /\ Len(more) = n /\ DOMAIN more = 1..n /\ more[n] = now
      /\ \A i \in 1..n : i # n => i \in DOMAIN times /\ more[i] = times[i] /\ times[i] \in Nat
  OBVIOUS
<1>3. ASSUME NEW i \in DOMAIN times PROVE Len(times) - i + 1 + t <= burst + now - times[i]
  BY DEF BucketOK
<1> HIDE DEF more, t
<1>4. ASSUME NEW i \in 1..n PROVE n - i + 1 + (t - 1) <= burst + now - more[i]
  <2>1. CASE i = n
    BY <1>1, <1>2, <2>1
  <2>2. CASE i # n
    <3>1. i \in DOMAIN times /\ more[i] = times[i] /\ times[i] \in Nat
      BY <1>2, <2>2
    <3>2. Len(times) - i + 1 + t <= burst + now - times[i]
      BY <1>3, <3>1
    <3> QED
      BY <1>1, <3>1, <3>2
  <2> QED
    BY <2>1, <2>2
<1>5. BucketOK(bb, more, burst, now)
  BY <1>1, <1>2, <1>4 DEF BucketOK
<1>6. ASSUME NEW i \in 1..n, NEW j \in 1..n, i <= j PROVE j - i + 1 <= burst + more[j] - more[i]
  <2>1. CASE j = n
    <3>1. more[i] \in Nat
      BY <1>2
    <3> QED
      BY <1>1, <1>2, <1>4, <2>1, <3>1
  <2>2. CASE j # n
    <3>1. i # n
      BY <1>1, <1>6, <2>2
    <3> QED
      BY <1>2, <1>6, <2>2, <3>1 DEF Window
  <2> QED
    BY <2>1, <2>2
<1>7. Window(more, burst)
  BY <1>2, <1>6 DEF Window
<1> QED
  BY <1>5, <1>7 DEF more

LEMMA RateKept ==
    ASSUME GatewayTypeOK, RateInv, UNCHANGED <<sc, bucket, charged>>, clock' \in Nat, clock <= clock'
    PROVE  RateInv'
<1>1. Conf' = Conf /\ clock \in Nat /\ bucket' = bucket /\ charged' = charged
  BY DEF Conf, GatewayTypeOK
<1>2. \A k \in DOMAIN bucket : BucketOK(bucket[k], charged[k], Conf.burst, clock')
  <2> SUFFICES ASSUME NEW k \in DOMAIN bucket PROVE BucketOK(bucket[k], charged[k], Conf.burst, clock')
    OBVIOUS
  <2>1. BucketOK(bucket[k], charged[k], Conf.burst, clock)
    BY DEF RateInv
  <2>2. bucket[k].last \in Nat /\ bucket[k].last <= clock'
    BY SMTT(30), <1>1, <2>1 DEF BucketOK
  <2> QED
    BY SMTT(30), <2>1, <2>2 DEF BucketOK
<1> QED
  BY Zenon, <1>1, <1>2 DEF RateInv, RateWindow

\* What is stored for one credential leaves the others alone.
LEMMA BucketStored ==
    ASSUME GatewayTypeOK, RateInv, NEW cred \in Conf.tokens, NEW b, NEW times \in Seq(Nat),
           bucket' = [k \in DOMAIN bucket \cup {cred} |-> IF k = cred THEN b ELSE bucket[k]],
           charged' = [charged EXCEPT ![cred] = times], UNCHANGED <<sc, clock>>,
           BucketOK(b, times, Conf.burst, clock), Window(times, Conf.burst)
    PROVE  RateInv'
<1>1. Conf' = Conf
  BY Zenon DEF Conf
<1>2. /\ charged' \in [Conf.tokens -> Seq(Nat)] /\ charged'[cred] = times
      /\ \A k \in Conf.tokens : k # cred => charged'[k] = charged[k]
  BY Zenon DEF RateInv
<1>3. /\ DOMAIN bucket' = DOMAIN bucket \cup {cred} /\ bucket'[cred] = b
      /\ \A k \in DOMAIN bucket : k # cred => bucket'[k] = bucket[k]
  BY Zenon
<1>4. \A k \in DOMAIN bucket' : BucketOK(bucket'[k], charged'[k], Conf.burst, clock)
  BY Zenon, <1>2, <1>3 DEF RateInv
<1>5. \A k \in Conf.tokens : Window(charged'[k], Conf.burst)
  <2>1. ASSUME NEW k \in Conf.tokens PROVE Window(charged[k], Conf.burst)
    BY Zenon DEF RateInv, RateWindow, Window
  <2> QED
    BY Zenon, <1>2, <2>1
<1>6. RateWindow'
  <2>1. DOMAIN charged' = Conf.tokens
    BY Zenon, <1>2
  <2>2. \A k \in DOMAIN charged' : Window(charged'[k], Conf'.burst)
    BY Zenon, <1>1, <1>5, <2>1
  <2> QED
    BY Zenon, <2>2 DEF RateWindow, Window
<1> QED
  BY Zenon, <1>1, <1>2, <1>3, <1>4, <1>6 DEF RateInv

LEMMA RateCheckedKeeps ==
    ASSUME GatewayTypeOK, RateInv, NEW c \in Client, RateChecked(c)
    PROVE  RateInv'
<1> DEFINE cred == Credential(Req(c))
           b == Refilled(cred, clock)
           Stores(n) == bucket' = [k \in DOMAIN bucket \cup {cred} |->
                                     IF k = cred THEN [b EXCEPT !.tokens = n] ELSE bucket[k]]
<1>1. UNCHANGED <<sc, clock>> /\ Authorised(Req(c)) /\ clock \in Nat /\ Conf.burst \in Nat
  BY BurstTyped DEF RateChecked
<1>2. CASE UNCHANGED <<bucket, charged>>
  BY <1>1, <1>2, RateKept
<1>3. ASSUME ~Unthrottled(Req(c))
      PROVE  /\ cred \in Conf.tokens /\ charged[cred] \in Seq(Nat)
             /\ BucketOK(b, charged[cred], Conf.burst, clock) /\ b.last = clock
             /\ Window(charged[cred], Conf.burst)
  <2>1. cred \in Conf.tokens
    BY Zenon, <1>1, <1>3 DEF Unthrottled, Authorised, Credential
  <2>2. charged[cred] \in Seq(Nat) /\ Window(charged[cred], Conf.burst)
    BY Zenon, <2>1 DEF RateInv, RateWindow, Window
  <2> QED
    BY Zenon, <2>1, <2>2, RefilledOK
<1>4. CASE /\ ~Unthrottled(Req(c)) /\ b.tokens >= 1 /\ Stores(b.tokens - 1)
           /\ charged' = [charged EXCEPT ![cred] = Append(@, clock)]
  <2> HIDE DEF cred, b
  <2> DEFINE times == Append(charged[cred], clock)
             bb == [b EXCEPT !.tokens = b.tokens - 1]
  <2>1. BucketOK(bb, times, Conf.burst, clock) /\ Window(times, Conf.burst)
    BY <1>1, <1>3, <1>4, ChargedOK
  <2>2. times \in Seq(Nat) /\ charged' = [charged EXCEPT ![cred] = times]
    BY <1>1, <1>3, <1>4
  <2>3. bucket' = [k \in DOMAIN bucket \cup {cred} |-> IF k = cred THEN bb ELSE bucket[k]]
    BY <1>4
  <2> HIDE DEF times, bb
  <2> QED
    BY Zenon, <1>1, <1>3, <1>4, <2>1, <2>2, <2>3, BucketStored
<1>5. CASE ~Unthrottled(Req(c)) /\ Stores(b.tokens) /\ UNCHANGED charged
  <2> HIDE DEF cred, b
  <2>1. b = [b EXCEPT !.tokens = b.tokens]
    BY <1>3, <1>5 DEF BucketOK
  <2>2. bucket' = [k \in DOMAIN bucket \cup {cred} |-> IF k = cred THEN b ELSE bucket[k]]
    BY <1>5, <2>1
  <2>3. charged' = [charged EXCEPT ![cred] = charged[cred]]
    BY <1>3, <1>5 DEF RateInv
  <2> QED
    BY Zenon, <1>1, <1>3, <1>5, <2>2, <2>3, BucketStored
<1> QED
  BY <1>2, <1>4, <1>5 DEF RateChecked, Sampled
==============================================================================
