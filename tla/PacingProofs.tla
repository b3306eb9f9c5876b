---------------------------- MODULE PacingProofs ----------------------------
(***************************************************************************)
(* The retry stays in its budget and heeds the server, for every budget,   *)
(* every advice and every pair of first delays; the validators' requests   *)
(* are paced and the verdicts drawn from the answers, for every set of     *)
(* validations, rules, selectors, limits, endpoints, retries and timeouts; *)
(* and the scan of a repository is made of the two and of the enumeration  *)
(* of its history.                                                         *)
(***************************************************************************)
EXTENDS Pacing, GitHistoryProofs

-----------------------------------------------------------------------------
(* The request to the API of GitHub.                                       *)

\* Of the headers' advice one is the largest.
LEMMA LargestAdvice ==
  ASSUME NEW r \in Response, NEW skew \in 0 .. 1, AdviceOf(r, skew) # {}
  PROVE  \E m \in AdviceOf(r, skew) : \A e \in AdviceOf(r, skew) : e \leq m
<1> USE RetryAssumption
<1> DEFINE given == AdviceOf(r, skew)
           a == r.after
           b == r.reset + skew
<1>1. /\ r.after \in Nat \cup {NoAdvice} /\ r.reset \in Nat \cup {NoAdvice}
      /\ r.exhausted \in BOOLEAN
  BY DEF Response
<1>2. given \in {{a}, {b}, {a, b}} /\ given \subseteq Nat
  BY <1>1 DEF AdviceOf
<1>3. CASE given = {a} \/ given = {b}
  BY <1>2, <1>3
<1>4. CASE given = {a, b}
  <2>1. a \in Nat /\ b \in Nat
    BY <1>2, <1>4
  <2>2. a \leq b \/ b \leq a
    BY <2>1
  <2>3. \A m \in given : m = a \/ m = b
    BY <1>4
  <2>4. a \in given /\ b \in given
    BY <1>4
  <2>5. CASE a \leq b
    BY <2>1, <2>3, <2>4, <2>5
  <2>6. CASE b \leq a
    BY <2>1, <2>3, <2>4, <2>6
  <2>7. QED
    BY <2>2, <2>5, <2>6
<1>5. QED
  BY <1>2, <1>3, <1>4

\* retry_delay returns natural numbers, and never less than the time for which
\* the server refuses by its own clock.
LEMMA DelayHeedsTheServer ==
  ASSUME NEW r \in Response, NEW n \in 0 .. MaxRetries, NEW skew \in 0 .. 1,
         NEW d \in retry_delay(r, n)
  PROVE  d \in Nat /\ Refuses(r, skew) \in Nat /\ Refuses(r, skew) \leq d
<1> USE RetryAssumption
<1> DEFINE given == AdviceOf(r, skew)
<1>1. /\ r.after \in Nat \cup {NoAdvice} /\ r.reset \in Nat \cup {NoAdvice}
      /\ r.exhausted \in BOOLEAN
  BY DEF Response
<1>2. rate_limited(r) \/ r.status = "server_error"
  BY DEF retry_delay
<1>3. CASE Advised(r) = {}
  <2>1. given = {}
    BY <1>1, <1>3 DEF Advised, AdviceOf
  <2>2. Refuses(r, skew) = IF rate_limited(r) THEN RateBase ELSE 0
    BY <1>2, <2>1 DEF Refuses
  <2> DEFINE base == Doubled(IF rate_limited(r) THEN RateBase ELSE ErrorBase, n)
  <2>3. base \in Nat /\ (rate_limited(r) => RateBase \leq base)
    BY DEF Doubled
  <2>4. d \in base .. base + base \div 4
    BY <1>2, <1>3 DEF retry_delay
  <2> HIDE DEF base
  <2>5. base \div 4 \in Nat
    BY <2>3
  <2>6. QED
    BY <2>2, <2>3, <2>4, <2>5
<1>4. CASE Advised(r) # {}
  <2>1. d \in Advised(r) /\ \A e \in Advised(r) : e \leq d
    BY <1>2, <1>4 DEF retry_delay
  <2>2. d \in Nat /\ given \subseteq Nat
    BY <1>1, <2>1 DEF Advised, AdviceOf
  <2>3. given # {}
    BY <1>1, <1>4 DEF Advised, AdviceOf
  <2>4. \A e \in given : e \leq d
    BY <1>1, <2>1 DEF Advised, AdviceOf
  <2>5. \E m \in given : \A e \in given : e \leq m
    BY <2>3, LargestAdvice
  <2>6. Refuses(r, skew) = CHOOSE m \in given : \A e \in given : e \leq m
    BY <1>2, <2>3 DEF Refuses
  <2>7. Refuses(r, skew) \in given
    BY <2>5, <2>6
  <2>8. QED
    BY <2>2, <2>4, <2>7
<1>5. QED
  BY <1>3, <1>4

\* How long a server refuses is a natural number.
LEMMA RefusesIsNat ==
  ASSUME NEW r \in Response, NEW skew \in 0 .. 1
  PROVE  Refuses(r, skew) \in Nat
<1> USE RetryAssumption
<1> DEFINE given == AdviceOf(r, skew)
<1>1. /\ r.after \in Nat \cup {NoAdvice} /\ r.reset \in Nat \cup {NoAdvice}
      /\ r.exhausted \in BOOLEAN
  BY DEF Response
<1>2. given \subseteq Nat
  BY <1>1 DEF AdviceOf
<1>3. CASE given = {}
  BY <1>3 DEF Refuses
<1>4. CASE given # {}
  <2>1. \E m \in given : \A e \in given : e \leq m
    BY <1>4, LargestAdvice
  <2>2. (CHOOSE m \in given : \A e \in given : e \leq m) \in Nat
    BY <1>2, <2>1
  <2>3. QED
    BY <1>4, <2>2 DEF Refuses
<1>5. QED
  BY <1>3, <1>4

\* What the loop keeps: the budget covers what has been waited and what is still
\* to be slept; the server's refusal is the one of the answer at hand, and the
\* sleep outlasts it.
RetryInv ==
  /\ GithubTypeOK
  /\ WaitsStayInBudget
  /\ stage # "sleep" => nap = 0
  /\ stage = "judge" => \E skew \in 0 .. 1 : cooldown = Refuses(answer, skew)
  /\ stage = "sleep" =>
       cooldown \leq nap /\ (rate_limited(answer) \/ answer.status = "server_error")

LEMMA NoAnswerIsAResponse == NoAnswer \in Response
  BY DEF NoAnswer, Response

LEMMA RetryInvInit == GithubInit => RetryInv
  BY RetryAssumption, NoAnswerIsAResponse
     DEF GithubInit, RetryInv, GithubTypeOK, WaitsStayInBudget, MaxRetries

LEMMA RetryInvNext == RetryInv /\ [GithubNext]_githubVars => RetryInv'
<1> SUFFICES ASSUME RetryInv, [GithubNext]_githubVars PROVE RetryInv'
  OBVIOUS
<1> USE RetryAssumption DEF RetryInv, GithubTypeOK, WaitsStayInBudget, MaxRetries
<1>1. CASE Request
  <2>1. PICK r \in Response, skew \in 0 .. 1 : answer' = r /\ cooldown' = Refuses(r, skew)
    BY <1>1 DEF Request
  <2>2. Refuses(r, skew) \in Nat
    BY RefusesIsNat
  <2>3. QED
    BY <1>1, <2>1, <2>2 DEF Request
<1>2. CASE RequestFails
  BY <1>2, NoAnswerIsAResponse DEF RequestFails, Return
<1>3. CASE GiveUp
  BY <1>3, NoAnswerIsAResponse DEF GiveUp, Return
<1>4. CASE Sleep
  <2>1. PICK d \in retry_delay(answer, retries) : Fits(d) /\ nap' = d
    BY <1>4 DEF Sleep
  <2>2. PICK skew \in 0 .. 1 : cooldown = Refuses(answer, skew)
    BY <1>4 DEF Sleep
  <2>3. d \in Nat /\ cooldown \leq d
    BY <2>1, <2>2, DelayHeedsTheServer
  <2>4. waited + d \leq max_retry_wait
    BY <2>1, <2>3 DEF Fits
  <2>5. rate_limited(answer) \/ answer.status = "server_error"
    BY <2>1 DEF retry_delay
  <2>6. rate_limited(answer)' = rate_limited(answer)
    BY <1>4 DEF Sleep, rate_limited, has_rate_limit_headers
  <2>7. QED
    BY <1>4, <2>1, <2>3, <2>4, <2>5, <2>6 DEF Sleep
<1>5. CASE GithubTick
  <2>1. rate_limited(answer)' = rate_limited(answer)
    BY <1>5 DEF GithubTick, rate_limited, has_rate_limit_headers
  <2>2. QED
    BY <1>5, <2>1 DEF GithubTick
<1>6. CASE Resend
  BY <1>6 DEF Resend
<1>7. CASE UNCHANGED githubVars
  <2>1. \A skew : Refuses(answer, skew)' = Refuses(answer, skew)
    BY <1>7 DEF githubVars, Refuses, rate_limited, has_rate_limit_headers, AdviceOf
  <2>2. rate_limited(answer)' = rate_limited(answer)
    BY <1>7 DEF githubVars, rate_limited, has_rate_limit_headers
  <2>3. QED
    BY <1>7, <2>1, <2>2 DEF githubVars
<1>8. QED
  BY <1>1, <1>2, <1>3, <1>4, <1>5, <1>6, <1>7 DEF GithubNext

\* The types of send_with_sleep's state, and at most MAX_RETRIES retries.
THEOREM GithubTypes == GithubSpec => []GithubTypeOK
<1>1. RetryInv => GithubTypeOK
  BY DEF RetryInv
<1>2. QED
  BY <1>1, RetryInvInit, RetryInvNext, PTL DEF GithubSpec

\* The sleeps of a request together never exceed its budget.
THEOREM Budget == GithubSpec => []WaitsStayInBudget
<1>1. RetryInv => WaitsStayInBudget
  BY DEF RetryInv
<1>2. QED
  BY <1>1, RetryInvInit, RetryInvNext, PTL DEF GithubSpec

\* A request is repeated only when the server no longer refuses it, and only
\* after an answer that calls for it.
THEOREM ServerIsHeeded == GithubSpec => RetriesHeedTheServer
<1>1. RetryInv /\ [GithubNext]_githubVars =>
        [stage = "sleep" /\ stage' = "send" => cooldown = 0
           /\ (rate_limited(answer) \/ answer.status = "server_error")]_githubVars
  <2> SUFFICES ASSUME RetryInv, GithubNext, stage = "sleep", stage' = "send"
               PROVE  cooldown = 0 /\ (rate_limited(answer) \/ answer.status = "server_error")
    OBVIOUS
  <2>1. Resend
    BY DEF GithubNext, Request, RequestFails, GiveUp, Sleep, GithubTick, Return
  <2>2. QED
    BY <2>1 DEF Resend, RetryInv, GithubTypeOK
<1>2. QED
  BY <1>1, RetryInvInit, RetryInvNext, PTL DEF GithubSpec, RetriesHeedTheServer

-----------------------------------------------------------------------------
(* The requests of the validators.                                         *)

\* A validation taken out of a queue leaves a queue.
LEMMA WithoutIsSeq ==
  ASSUME NEW q \in Seq(Task), NEW t
  PROVE  Without(q, t) \in Seq(Task)
<1>1. CASE \E k \in DOMAIN q : q[k] = t
  <2> DEFINE p == CHOOSE k \in DOMAIN q : q[k] = t
             rest == [k \in 1 .. Len(q) - 1 |-> IF k < p THEN q[k] ELSE q[k + 1]]
  <2>1. Len(q) \in Nat /\ DOMAIN q = 1 .. Len(q) /\ Len(q) # 0
    BY <1>1
  <2>2. \A k \in 1 .. Len(q) - 1 : q[k] \in Task /\ q[k + 1] \in Task
    BY <2>1
  <2>3. rest \in [1 .. Len(q) - 1 -> Task]
    BY <2>2
  <2>4. rest \in Seq(Task)
    BY <2>1, <2>3, IsASeq
  <2>5. QED
    BY <1>1, <2>4 DEF Without
<1>2. CASE ~ \E k \in DOMAIN q : q[k] = t
  BY <1>2 DEF Without
<1>3. QED
  BY <1>1, <1>2

\* Only a rule with a limit is queued for.
QueuedAreLimited == \A t \in Task : at[t] = "queued" => RuleOf[t] \in Limited

LEMMA LimitedNext ==
  HttpTypeOK /\ QueuedAreLimited /\ [HttpNext]_httpVars => QueuedAreLimited'
<1> SUFFICES ASSUME HttpTypeOK, QueuedAreLimited, [HttpNext]_httpVars, NEW u \in Task,
                    at'[u] = "queued"
             PROVE  RuleOf[u] \in Limited
  BY DEF QueuedAreLimited
<1> USE DEF HttpTypeOK, QueuedAreLimited
<1>1. CASE Tick
  BY <1>1 DEF Tick
<1>2. ASSUME NEW t \in Task, Begin(t) \/ Pass(t) \/ Queue(t) \/ Grant(t) \/ Resume(t)
      PROVE  RuleOf[u] \in Limited
  BY <1>2 DEF Begin, Pass, Queue, Grant, Resume, Send
<1>3. ASSUME NEW t \in Task, Expire(t) \/ Proceed(t) PROVE RuleOf[u] \in Limited
  BY <1>3 DEF Expire, Finish, Proceed
<1>4. ASSUME NEW t \in Task, NEW a, Respond(t, a) \/ Unprepared(t, a)
      PROVE  RuleOf[u] \in Limited
  BY <1>4 DEF Respond, Unprepared, EndpointOver, Backoff, Finish
<1>5. CASE UNCHANGED httpVars
  BY <1>5 DEF httpVars
<1>6. QED
  BY <1>1, <1>2, <1>3, <1>4, <1>5 DEF HttpNext, Step, Own

LEMMA TypesInit == Init => HttpTypeOK
  BY PacingAssumption, EmptySeq
     DEF Init, HttpTypeOK

LEMMA FinishTypes ==
  ASSUME HttpTypeOK, NEW t \in Task, NEW v \in {"active", "inactive", "unavailable"},
         Finish(t, v)
  PROVE  /\ at' \in [Task -> {"idle", "ready", "queued", "sent", "backoff", "done"}]
         /\ verdict' \in [Task -> {"none", "active", "inactive", "unavailable"}]
         /\ endpoint' \in [Task -> Nat] /\ attempt' \in [Task -> Nat]
         /\ \A u \in Task : endpoint'[u] \in 1 .. Endpoints[RuleOf[u]] /\ attempt'[u] \leq Retries[RuleOf[u]]
         /\ inactive' \in [Task -> BOOLEAN] /\ inconclusive' \in [Task -> BOOLEAN]
         /\ wake' \in [Task -> Nat] /\ deadline' \in [Task -> Nat]
<1> USE PacingAssumption DEF HttpTypeOK, Finish
<1>1. at' \in [Task -> {"idle", "ready", "queued", "sent", "backoff", "done"}]
  OBVIOUS
<1>2. verdict' \in [Task -> {"none", "active", "inactive", "unavailable"}]
  OBVIOUS
<1>3. /\ endpoint' \in [Task -> Nat] /\ attempt' \in [Task -> Nat]
      /\ wake' \in [Task -> Nat] /\ deadline' \in [Task -> Nat]
  OBVIOUS
<1>4. inactive' \in [Task -> BOOLEAN] /\ inconclusive' \in [Task -> BOOLEAN]
  OBVIOUS
<1>5. ASSUME NEW u \in Task
      PROVE  endpoint'[u] \in 1 .. Endpoints[RuleOf[u]] /\ attempt'[u] \leq Retries[RuleOf[u]]
  <2>1. Endpoints[RuleOf[u]] \in Nat \ {0} /\ Retries[RuleOf[u]] \in Nat
    OBVIOUS
  <2>2. CASE u = t
    BY <2>1, <2>2
  <2>3. CASE u # t
    BY <2>3
  <2>4. QED
    BY <2>2, <2>3
<1>6. QED
  BY <1>1, <1>2, <1>3, <1>4, <1>5

LEMMA EndpointOverTypes ==
  ASSUME HttpTypeOK, NEW t \in Task, NEW a \in Answers, EndpointOver(t, a),
         UNCHANGED <<timeout, limiterVars>>
  PROVE  HttpTypeOK'
<1> DEFINE rejected == inactive[t] \/ a = "inactive"
           unsure == inconclusive[t] \/ a \notin {"inactive", "active"}
           v == IF a = "active" THEN "active" ELSE Judged(t, rejected, unsure)
<1>1. v \in {"active", "inactive", "unavailable"}
  BY DEF Judged
<1>2. said' \in [Task -> Seq(Answers)]
  BY DEF HttpTypeOK, EndpointOver
<1>3. CASE Finish(t, v)
  BY <1>1, <1>2, <1>3, FinishTypes DEF HttpTypeOK, limiterVars
<1>4. CASE /\ endpoint[t] # Endpoints[RuleOf[t]]
           /\ at' = [at EXCEPT ![t] = "ready"]
           /\ endpoint' = [endpoint EXCEPT ![t] = @ + 1]
           /\ attempt' = [attempt EXCEPT ![t] = 0]
           /\ inactive' = [inactive EXCEPT ![t] = rejected]
           /\ inconclusive' = [inconclusive EXCEPT ![t] = unsure]
           /\ UNCHANGED <<wake, deadline, verdict>>
  <2>1. rejected \in BOOLEAN /\ unsure \in BOOLEAN
    BY DEF HttpTypeOK
  <2>2. /\ at' \in [Task -> {"idle", "ready", "queued", "sent", "backoff", "done"}]
        /\ endpoint' \in [Task -> Nat] /\ attempt' \in [Task -> Nat]
    BY <1>4 DEF HttpTypeOK
  <2>3. inactive' \in [Task -> BOOLEAN] /\ inconclusive' \in [Task -> BOOLEAN]
    BY <1>4, <2>1 DEF HttpTypeOK
  <2>4. ASSUME NEW u \in Task
        PROVE  endpoint'[u] \in 1 .. Endpoints[RuleOf[u]] /\ attempt'[u] \leq Retries[RuleOf[u]]
    <3>1. Endpoints[RuleOf[u]] \in Nat \ {0} /\ Retries[RuleOf[u]] \in Nat
      BY PacingAssumption
    <3>2. CASE u = t
      BY <1>4, <3>1, <3>2 DEF HttpTypeOK
    <3>3. CASE u # t
      BY <1>4, <3>3 DEF HttpTypeOK
    <3>4. QED
      BY <3>2, <3>3
  <2>5. QED
    BY <1>2, <1>4, <2>2, <2>3, <2>4 DEF HttpTypeOK, limiterVars
<1>5. QED
  BY <1>3, <1>4 DEF EndpointOver

LEMMA BackoffTypes ==
  ASSUME HttpTypeOK, NEW t \in Task, MayRetry(t), Backoff(t), UNCHANGED <<timeout, limiterVars>>
  PROVE  HttpTypeOK'
<1>1. /\ at' \in [Task -> {"idle", "ready", "queued", "sent", "backoff", "done"}]
      /\ attempt' \in [Task -> Nat]
  BY DEF HttpTypeOK, Backoff
<1>2. wake' \in [Task -> Nat]
  BY DEF HttpTypeOK, Backoff, Delay
<1>3. ASSUME NEW u \in Task PROVE attempt'[u] \leq Retries[RuleOf[u]]
  <2>1. Retries[RuleOf[u]] \in Nat
    BY PacingAssumption
  <2>2. QED
    BY <2>1 DEF HttpTypeOK, Backoff, MayRetry
<1>4. QED
  BY <1>1, <1>2, <1>3 DEF HttpTypeOK, Backoff, limiterVars

LEMMA TypesNext == HttpTypeOK /\ QueuedAreLimited /\ [HttpNext]_httpVars => HttpTypeOK'
<1> SUFFICES ASSUME HttpTypeOK, QueuedAreLimited, [HttpNext]_httpVars PROVE HttpTypeOK'
  OBVIOUS
<1> USE PacingAssumption, LimitAssumption DEF HttpTypeOK, taskVars, limiterVars
<1>1. CASE Tick
  BY <1>1 DEF Tick, Less, Older
<1>2. ASSUME NEW t \in Task, Begin(t) PROVE HttpTypeOK'
  BY <1>2 DEF Begin
<1>3. ASSUME NEW t \in Task, Pass(t) PROVE HttpTypeOK'
  BY <1>3 DEF Pass, Send
<1>4. ASSUME NEW t \in Task, Queue(t) PROVE HttpTypeOK'
  <2> DEFINE b == BucketOf[RuleOf[t]]
  <2>1. b \in Bucket
    BY <1>4 DEF Queue
  <2>2. Append(gate[b], t) \in Seq(Task)
    BY <2>1
  <2>3. gate' \in [Bucket -> Seq(Task)]
    BY <1>4, <2>1, <2>2 DEF Queue
  <2>4. at' \in [Task -> {"idle", "ready", "queued", "sent", "backoff", "done"}]
    BY <1>4 DEF Queue
  <2>5. QED
    BY <1>4, <2>3, <2>4 DEF Queue
<1>5. ASSUME NEW t \in Task, Grant(t) PROVE HttpTypeOK'
  <2> DEFINE b == BucketOf[RuleOf[t]]
  <2>1. b \in Bucket /\ IntervalOf[RuleOf[t]] \in Nat
    BY <1>5 DEF QueuedAreLimited, Grant
  <2>2. Tail(gate[b]) \in Seq(Task)
    BY <1>5, <2>1, HeadTailProperties DEF Grant
  <2>3. gate' \in [Bucket -> Seq(Task)]
    BY <1>5, <2>2 DEF Grant
  <2>4. next_allowed' \in [Bucket -> Nat] /\ since' \in [Bucket -> 0 .. Horizon]
    <3>1. next_allowed' = [next_allowed EXCEPT ![b] = IntervalOf[RuleOf[t]]]
      BY <1>5 DEF Grant
    <3>2. since' = [since EXCEPT ![b] = 0]
      BY <1>5 DEF Grant
    <3>3. next_allowed' \in [Bucket -> Nat]
      BY <2>1, <3>1
    <3>4. 0 \in 0 .. Horizon
      OBVIOUS
    <3>5. since' \in [Bucket -> 0 .. Horizon]
      BY <3>2, <3>4
    <3>6. QED
      BY <3>3, <3>5
  <2>5. at' \in [Task -> {"idle", "ready", "queued", "sent", "backoff", "done"}]
    BY <1>5 DEF Grant, Send
  <2>6. QED
    BY <1>5, <2>3, <2>4, <2>5 DEF Grant
<1>6. ASSUME NEW t \in Task, Resume(t) PROVE HttpTypeOK'
  BY <1>6 DEF Resume
<1>7. ASSUME NEW t \in Task, Expire(t) PROVE HttpTypeOK'
  BY <1>7, WithoutIsSeq, FinishTypes DEF Expire
<1>8. ASSUME NEW t \in Task, NEW a \in Answers, Respond(t, a) PROVE HttpTypeOK'
  BY <1>8, EndpointOverTypes, BackoffTypes DEF Respond
<1>9. ASSUME NEW t \in Task, NEW a \in {"unclear", "failed"}, Unprepared(t, a)
      PROVE  HttpTypeOK'
  BY <1>9, EndpointOverTypes, BackoffTypes DEF Unprepared, Answers
<1>10. ASSUME NEW t \in Task, Proceed(t) PROVE HttpTypeOK'
  <2>1. endpoint' \in [Task -> Nat] /\ attempt' \in [Task -> Nat]
    BY <1>10 DEF Proceed
  <2>2. ASSUME NEW u \in Task
        PROVE  endpoint'[u] \in 1 .. Endpoints[RuleOf[u]] /\ attempt'[u] \leq Retries[RuleOf[u]]
    <3>1. Endpoints[RuleOf[u]] \in Nat \ {0} /\ Retries[RuleOf[u]] \in Nat
      OBVIOUS
    <3>2. CASE u = t
      BY <1>10, <3>1, <3>2 DEF Proceed
    <3>3. CASE u # t
      BY <1>10, <3>3 DEF Proceed
    <3>4. QED
      BY <3>2, <3>3
  <2>3. QED
    BY <1>10, <2>1, <2>2 DEF Proceed
<1>11. CASE UNCHANGED httpVars
  BY <1>11 DEF httpVars
<1>12. QED
  BY <1>1, <1>2, <1>3, <1>4, <1>5, <1>6, <1>7, <1>8, <1>9, <1>10, <1>11 DEF HttpNext, Step, Own

\* The state of the validations and of the limiter keeps its types, and the two
\* loops of the engine their limits.
THEOREM HttpTypes == HttpSpec => []HttpTypeOK
<1>1. Init => QueuedAreLimited
  BY DEF Init, QueuedAreLimited
<1>2. QED
  BY <1>1, TypesInit, TypesNext, LimitedNext, PTL DEF HttpSpec

-----------------------------------------------------------------------------
(* The pace of a bucket.                                                   *)

LEMMA SlotsInit == Init => SlotsMatchRequests
<1> SUFFICES ASSUME Init, NEW id \in Limited
             PROVE  next_allowed[BucketOf[id]] =
                      IF since[BucketOf[id]] \geq IntervalOf[id] THEN 0
                      ELSE IntervalOf[id] - since[BucketOf[id]]
  BY DEF SlotsMatchRequests
<1>1. BucketOf[id] \in Bucket /\ IntervalOf[id] \in 1 .. Horizon
  BY LimitAssumption
<1>2. next_allowed[BucketOf[id]] = 0 /\ since[BucketOf[id]] = Horizon
  BY <1>1 DEF Init
<1>3. QED
  BY <1>1, <1>2, PacingAssumption

\* Only a grant and the passage of time touch a slot: a grant closes it for the
\* interval of every rule of the bucket, a tick ages it and its request alike,
\* and a validation that is dropped leaves it alone.
LEMMA SlotsNext ==
  HttpTypeOK /\ QueuedAreLimited /\ SlotsMatchRequests /\ [HttpNext]_httpVars
    => SlotsMatchRequests'
<1> SUFFICES ASSUME HttpTypeOK, QueuedAreLimited, SlotsMatchRequests, [HttpNext]_httpVars,
                    NEW id \in Limited
             PROVE  next_allowed'[BucketOf[id]] =
                      IF since'[BucketOf[id]] \geq IntervalOf[id] THEN 0
                      ELSE IntervalOf[id] - since'[BucketOf[id]]
  BY DEF SlotsMatchRequests
<1> DEFINE c == BucketOf[id]
<1>1. c \in Bucket /\ IntervalOf[id] \in 1 .. Horizon
  BY LimitAssumption
<1>2. next_allowed[c] = IF since[c] \geq IntervalOf[id] THEN 0 ELSE IntervalOf[id] - since[c]
  BY DEF SlotsMatchRequests
<1>3. next_allowed[c] \in Nat /\ since[c] \in 0 .. Horizon /\ Horizon \in Nat
  BY <1>1, PacingAssumption DEF HttpTypeOK
<1>4. CASE UNCHANGED <<next_allowed, since>>
  BY <1>2, <1>4
<1>5. CASE Tick
  <2>1. next_allowed'[c] = Less(next_allowed[c]) /\ since'[c] = Older(since[c])
    BY <1>1, <1>5 DEF Tick
  <2>2. QED
    BY <1>1, <1>2, <1>3, <2>1 DEF Less, Older
<1>6. ASSUME NEW t \in Task, Grant(t)
      PROVE  next_allowed'[c] =
               IF since'[c] \geq IntervalOf[id] THEN 0 ELSE IntervalOf[id] - since'[c]
  <2> DEFINE b == BucketOf[RuleOf[t]]
  <2>1. RuleOf[t] \in Limited
    BY <1>6 DEF QueuedAreLimited, Grant
  <2>2. CASE b = c
    <3>1. IntervalOf[RuleOf[t]] = IntervalOf[id]
      BY <2>1, <2>2, LimitAssumption
    <3>2. next_allowed'[c] = IntervalOf[id] /\ since'[c] = 0
      BY <1>1, <1>6, <2>2, <3>1 DEF Grant, HttpTypeOK
    <3>3. QED
      BY <1>1, <3>2
  <2>3. CASE b # c
    <3>1. next_allowed'[c] = next_allowed[c] /\ since'[c] = since[c]
      BY <1>1, <1>6, <2>3 DEF Grant, HttpTypeOK
    <3>2. QED
      BY <1>2, <3>1
  <2>4. QED
    BY <2>2, <2>3
<1>7. ASSUME NEW t \in Task,
             Begin(t) \/ Pass(t) \/ Queue(t) \/ Resume(t) \/ Expire(t) \/ Proceed(t)
      PROVE  UNCHANGED <<next_allowed, since>>
  BY <1>7 DEF Begin, Pass, Queue, Resume, Expire, Proceed, limiterVars
<1>8. ASSUME NEW t \in Task, NEW a, Respond(t, a) \/ Unprepared(t, a)
      PROVE  UNCHANGED <<next_allowed, since>>
  BY <1>8 DEF Respond, Unprepared, limiterVars
<1>9. CASE UNCHANGED httpVars
  BY <1>4, <1>9 DEF httpVars, limiterVars
<1>10. QED
  BY <1>4, <1>5, <1>6, <1>7, <1>8, <1>9 DEF HttpNext, Step, Own

\* The slot of every bucket tells how long ago a request of the bucket was sent,
\* whatever was cancelled in its queue or asleep with its lock.
THEOREM Slots == HttpSpec => []SlotsMatchRequests
<1>1. Init => QueuedAreLimited
  BY DEF Init, QueuedAreLimited
<1>2. QED
  BY <1>1, TypesInit, TypesNext, LimitedNext, SlotsInit, SlotsNext, PTL DEF HttpSpec

\* Whoever backs off has made an attempt.
BackoffsAreRetries == \A t \in Task : at[t] = "backoff" => attempt[t] > 0

LEMMA BackoffsNext ==
  HttpTypeOK /\ BackoffsAreRetries /\ [HttpNext]_httpVars => BackoffsAreRetries'
<1> SUFFICES ASSUME HttpTypeOK, BackoffsAreRetries, [HttpNext]_httpVars, NEW u \in Task,
                    at'[u] = "backoff"
             PROVE  attempt'[u] > 0
  BY DEF BackoffsAreRetries
<1> USE DEF HttpTypeOK, BackoffsAreRetries
<1>1. CASE Tick \/ UNCHANGED httpVars
  BY <1>1 DEF Tick, httpVars, taskVars
<1>2. ASSUME NEW t \in Task,
             Begin(t) \/ Pass(t) \/ Queue(t) \/ Grant(t) \/ Resume(t) \/ Proceed(t)
      PROVE  attempt'[u] > 0
  BY <1>2 DEF Begin, Pass, Queue, Grant, Resume, Proceed, Send, taskVars
<1>3. ASSUME NEW t \in Task, Expire(t) PROVE attempt'[u] > 0
  BY <1>3 DEF Expire, Finish
<1>4. ASSUME NEW t \in Task, NEW a, EndpointOver(t, a) PROVE attempt'[u] > 0
  BY <1>4 DEF EndpointOver, Finish
<1>5. ASSUME NEW t \in Task, Backoff(t) PROVE attempt'[u] > 0
  BY <1>5 DEF Backoff
<1>6. ASSUME NEW t \in Task, NEW a, Respond(t, a) \/ Unprepared(t, a) PROVE attempt'[u] > 0
  BY <1>4, <1>5, <1>6 DEF Respond, Unprepared
<1>7. QED
  BY <1>1, <1>2, <1>3, <1>6 DEF HttpNext, Step, Own

\* Two requests that a bucket has to admit are sent at least an interval apart: such
\* a request is sent by a grant, which finds the slot open.  What is sent otherwise,
\* in Proceed and Resume, follows up the admitted request of another validator.
THEOREM Spacing == HttpSpec => RequestsAreSpaced
<1>1. HttpTypeOK /\ QueuedAreLimited /\ SlotsMatchRequests /\ BackoffsAreRetries
        /\ [HttpNext]_httpVars
        => [\A t \in Task : Sends(t) /\ RuleOf[t] \in Limited /\ ~FollowsUp(t)
              => since[BucketOf[RuleOf[t]]] \geq IntervalOf[RuleOf[t]]]_httpVars
  <2> SUFFICES ASSUME HttpTypeOK, QueuedAreLimited, SlotsMatchRequests, BackoffsAreRetries,
                      HttpNext, NEW u \in Task, Sends(u), RuleOf[u] \in Limited, ~FollowsUp(u)
               PROVE  since[BucketOf[RuleOf[u]]] \geq IntervalOf[RuleOf[u]]
    OBVIOUS
  <2> DEFINE c == BucketOf[RuleOf[u]]
  <2>1. c \in Bucket /\ IntervalOf[RuleOf[u]] \in 1 .. Horizon /\ Horizon \in Nat
    BY LimitAssumption, PacingAssumption
  <2>2. /\ next_allowed[c] = IF since[c] \geq IntervalOf[RuleOf[u]] THEN 0
                             ELSE IntervalOf[RuleOf[u]] - since[c]
        /\ since[c] \in 0 .. Horizon
    BY <2>1 DEF SlotsMatchRequests, HttpTypeOK
  <2>3. ASSUME NEW t \in Task, Grant(t)
        PROVE  next_allowed[c] = 0
    <3>1. u = t
      BY <2>3 DEF Grant, Send, HttpTypeOK, Sends, taskVars
    <3>2. QED
      BY <2>3, <3>1 DEF Grant
  <2>4. ASSUME NEW t \in Task, Begin(t) \/ Pass(t) \/ Queue(t)
        PROVE  FALSE
    BY <2>4 DEF Begin, Pass, Queue, Send, HttpTypeOK, Sends, taskVars
  <2>5. ASSUME NEW t \in Task, Resume(t)
        PROVE  FALSE
    <3>1. u = t /\ RuleOf[u] \notin Http /\ attempt'[u] = attempt[u] /\ attempt[u] > 0
      BY <2>5 DEF Resume, HttpTypeOK, Sends, taskVars, BackoffsAreRetries
    <3>2. QED
      BY <3>1 DEF FollowsUp
  <2>6. ASSUME NEW t \in Task, Proceed(t)
        PROVE  FALSE
    <3>1. u = t /\ RuleOf[u] \notin Http /\ endpoint'[u] > 1
      BY <2>6, PacingAssumption DEF Proceed, HttpTypeOK, Sends
    <3>2. QED
      BY <3>1 DEF FollowsUp
  <2>7. ASSUME NEW t \in Task, Expire(t)
        PROVE  FALSE
    BY <2>7 DEF Expire, Finish, HttpTypeOK, Sends
  <2>8. ASSUME NEW t \in Task, NEW a, Respond(t, a) \/ Unprepared(t, a)
        PROVE  FALSE
    BY <2>8 DEF Respond, Unprepared, EndpointOver, Backoff, Finish, HttpTypeOK, Sends
  <2>9. CASE Tick
    BY <2>9 DEF Tick, Sends
  <2>10. CASE next_allowed[c] = 0
    BY <2>1, <2>2, <2>10
  <2>11. QED
    BY <2>3, <2>4, <2>5, <2>6, <2>7, <2>8, <2>9, <2>10 DEF HttpNext, Step, Own
<1>2. Init => QueuedAreLimited /\ BackoffsAreRetries
  BY DEF Init, QueuedAreLimited, BackoffsAreRetries
<1>3. QED
  BY <1>1, <1>2, TypesInit, TypesNext, LimitedNext, SlotsInit, SlotsNext, BackoffsNext, PTL
     DEF HttpSpec, RequestsAreSpaced

-----------------------------------------------------------------------------
(* The verdict.                                                            *)

\* While a validation is under way it has no verdict, every endpoint of an HTTP rule
\* before the present one has given its last answer, and each of these was a
\* rejection unless the validation is marked inconclusive.
UnderWay(t) ==
  at[t] # "done" =>
    /\ verdict[t] = "none"
    /\ Len(said[t]) = IF RuleOf[t] \in Http THEN endpoint[t] - 1 ELSE 0
    /\ ~inconclusive[t] => \A e \in DOMAIN said[t] : said[t][e] = "inactive"

Unanimous(t) ==
  /\ verdict[t] = "inactive" =>
       /\ Len(said[t]) = IF RuleOf[t] \in Http THEN Endpoints[RuleOf[t]] ELSE 1
       /\ \A e \in DOMAIN said[t] : said[t][e] = "inactive"
  /\ verdict[t] = "active" => \E e \in DOMAIN said[t] : said[t][e] = "active"

VerdictInv == \A t \in Task : UnderWay(t) /\ Unanimous(t)

\* The answer that ends an endpoint joins the answers of the others.
LEMMA EndpointOverVerdict ==
  ASSUME HttpTypeOK, VerdictInv, NEW t \in Task, at[t] # "done", NEW a \in Answers,
         EndpointOver(t, a)
  PROVE  UnderWay(t)' /\ Unanimous(t)'
<1> DEFINE rejected == inactive[t] \/ a = "inactive"
           unsure == inconclusive[t] \/ a \notin {"inactive", "active"}
           v == IF a = "active" THEN "active" ELSE Judged(t, rejected, unsure)
           n == IF RuleOf[t] \in Http THEN endpoint[t] ELSE 1
<1>1. /\ said[t] \in Seq(Answers) /\ verdict[t] = "none" /\ Len(said[t]) = n - 1
      /\ ~inconclusive[t] => \A e \in DOMAIN said[t] : said[t][e] = "inactive"
      /\ endpoint[t] \in Nat /\ n \in Nat /\ n \geq 1
  BY PacingAssumption DEF HttpTypeOK, VerdictInv, UnderWay
<1>2. said'[t] = Append(said[t], a)
  BY DEF EndpointOver, HttpTypeOK
<1>3. /\ Len(said'[t]) = n /\ DOMAIN said'[t] = 1 .. n
      /\ said'[t][n] = a
      /\ \A e \in 1 .. n - 1 : e \in DOMAIN said[t] /\ said'[t][e] = said[t][e]
  <2> HIDE DEF n
  <2>1. QED
    BY <1>1, <1>2
<1>4. ~unsure /\ a # "active" => \A e \in DOMAIN said'[t] : said'[t][e] = "inactive"
  <2> HIDE DEF n
  <2> SUFFICES ASSUME ~unsure, a # "active", NEW e \in 1 .. n
               PROVE  said'[t][e] = "inactive"
    BY <1>3
  <2>1. a = "inactive" /\ ~inconclusive[t]
    OBVIOUS
  <2>2. CASE e = n
    BY <1>3, <2>1, <2>2
  <2>3. CASE e # n
    <3>1. e \in 1 .. n - 1
      BY <1>1, <2>3
    <3>2. QED
      BY <1>1, <1>3, <2>1, <3>1
  <2>4. QED
    BY <2>2, <2>3
<1>5. CASE /\ Finish(t, v)
           /\ a = "active" \/ RuleOf[t] \notin Http \/ endpoint[t] = Endpoints[RuleOf[t]]
  <2>1. at'[t] = "done" /\ verdict'[t] = v
    BY <1>5 DEF Finish, HttpTypeOK
  <2>2. CASE a = "active"
    <3>1. n \in DOMAIN said'[t] /\ said'[t][n] = "active"
      BY <1>1, <1>3, <2>2
    <3>2. QED
      BY <2>1, <2>2, <3>1 DEF UnderWay, Unanimous
  <2>3. CASE a # "active" /\ v = "inactive"
    <3>1. ~unsure
      BY <2>3 DEF Judged
    <3>2. QED
      BY <1>3, <1>4, <1>5, <2>1, <2>3, <3>1 DEF UnderWay, Unanimous
  <2>4. CASE a # "active" /\ v # "inactive"
    BY <2>1, <2>4 DEF UnderWay, Unanimous, Judged
  <2>5. QED
    BY <2>2, <2>3, <2>4
<1>6. CASE /\ a # "active" /\ RuleOf[t] \in Http
           /\ endpoint' = [endpoint EXCEPT ![t] = @ + 1]
           /\ inconclusive' = [inconclusive EXCEPT ![t] = unsure]
           /\ UNCHANGED verdict
  <2>1. endpoint'[t] = endpoint[t] + 1 /\ inconclusive'[t] = unsure /\ verdict'[t] = "none"
    BY <1>1, <1>6 DEF HttpTypeOK
  <2>2. Len(said'[t]) = endpoint'[t] - 1
    BY <1>1, <1>3, <1>6, <2>1
  <2>3. QED
    BY <1>4, <1>6, <2>1, <2>2 DEF UnderWay, Unanimous
<1>7. QED
  BY <1>5, <1>6 DEF EndpointOver

LEMMA VerdictNext == HttpTypeOK /\ VerdictInv /\ [HttpNext]_httpVars => VerdictInv'
<1> SUFFICES ASSUME HttpTypeOK, VerdictInv, [HttpNext]_httpVars, NEW u \in Task
             PROVE  UnderWay(u)' /\ Unanimous(u)'
  BY DEF VerdictInv
<1> DEFINE Kept == /\ verdict'[u] = verdict[u] /\ said'[u] = said[u]
                   /\ RuleOf[u] \in Http => endpoint'[u] = endpoint[u]
                   /\ inconclusive'[u] = inconclusive[u]
                   /\ at[u] = "done" => at'[u] = "done"
<1>1. UnderWay(u) /\ Unanimous(u)
  BY DEF VerdictInv
<1>2. CASE Kept
  BY <1>1, <1>2 DEF UnderWay, Unanimous
<1>3. CASE Tick \/ UNCHANGED httpVars
  BY <1>2, <1>3 DEF Tick, httpVars, taskVars
<1>4. ASSUME NEW t \in Task,
             Begin(t) \/ Pass(t) \/ Queue(t) \/ Grant(t) \/ Resume(t) \/ Proceed(t)
      PROVE  Kept
  BY <1>4 DEF Begin, Pass, Queue, Grant, Resume, Proceed, Send, taskVars, HttpTypeOK
<1>5. ASSUME NEW t \in Task, Expire(t) PROVE UnderWay(u)' /\ Unanimous(u)'
  <2>1. CASE u = t
    <3>1. at'[u] = "done" /\ verdict'[u] = "unavailable"
      BY <1>5, <2>1 DEF Expire, Finish, HttpTypeOK
    <3>2. QED
      BY <3>1 DEF UnderWay, Unanimous
  <2>2. CASE u # t
    BY <1>2, <1>5, <2>2 DEF Expire, Finish, HttpTypeOK
  <2>3. QED
    BY <2>1, <2>2
<1>6. ASSUME NEW t \in Task, NEW a \in Answers, at[t] # "done",
             EndpointOver(t, a) \/ Backoff(t)
      PROVE  UnderWay(u)' /\ Unanimous(u)'
  <2>1. CASE Backoff(t)
    BY <1>2, <1>6, <2>1 DEF Backoff, HttpTypeOK
  <2>2. CASE EndpointOver(t, a) /\ u = t
    BY <1>6, <2>2, EndpointOverVerdict
  <2>3. CASE EndpointOver(t, a) /\ u # t
    BY <1>2, <2>3 DEF EndpointOver, Finish, HttpTypeOK
  <2>4. QED
    BY <1>6, <2>1, <2>2, <2>3
<1>7. ASSUME NEW t \in Task, NEW a \in Answers, Respond(t, a) \/ Unprepared(t, a)
      PROVE  UnderWay(u)' /\ Unanimous(u)'
  BY <1>6, <1>7 DEF Respond, Unprepared
<1>8. QED
  BY <1>2, <1>3, <1>4, <1>5, <1>7 DEF HttpNext, Step, Own, Answers

\* A credential is called inactive only when every endpoint has rejected it, and
\* active only when one has accepted it.
THEOREM Verdicts == HttpSpec => []RejectionsAreUnanimous
<1>1. Init => QueuedAreLimited
  BY DEF Init, QueuedAreLimited
<1>2. Init => VerdictInv
  BY EmptySeq DEF Init, VerdictInv, UnderWay, Unanimous
<1>3. VerdictInv => RejectionsAreUnanimous
  BY DEF VerdictInv, Unanimous, RejectionsAreUnanimous
<1>4. QED
  BY <1>1, <1>2, <1>3, TypesInit, TypesNext, LimitedNext, VerdictNext, PTL DEF HttpSpec

-----------------------------------------------------------------------------
(* The queues.                                                             *)

Members(q) == {q[k] : k \in DOMAIN q}
Waiting(b) == {t \in Task : at[t] = "queued" /\ BucketOf[RuleOf[t]] = b}
Distinct(q) == \A j, k \in DOMAIN q : q[j] = q[k] => j = k

LEMMA WithoutRemoves ==
  ASSUME NEW q \in Seq(Task), NEW t, Distinct(q)
  PROVE  Members(Without(q, t)) = Members(q) \ {t} /\ Distinct(Without(q, t))
<1>1. CASE \E k \in DOMAIN q : q[k] = t
  <2> DEFINE p == CHOOSE k \in DOMAIN q : q[k] = t
             rest == [k \in 1 .. Len(q) - 1 |-> IF k < p THEN q[k] ELSE q[k + 1]]
  <2> HIDE DEF p
  <2>1. Len(q) \in Nat /\ DOMAIN q = 1 .. Len(q)
    OBVIOUS
  <2>2. p \in 1 .. Len(q) /\ q[p] = t
    BY <1>1, <2>1 DEF p
  <2>3. Without(q, t) = rest
    BY <1>1 DEF Without, p
  <2>4. DOMAIN rest = 1 .. Len(q) - 1
    OBVIOUS
  <2>5. ASSUME NEW k \in 1 .. Len(q) - 1
        PROVE  rest[k] \in Members(q) \ {t}
    <3>1. CASE k < p
      <4>1. k \in DOMAIN q /\ k # p /\ rest[k] = q[k]
        BY <2>1, <2>2, <3>1
      <4>2. QED
        BY <2>1, <2>2, <4>1 DEF Members, Distinct
    <3>2. CASE ~(k < p)
      <4>1. k + 1 \in DOMAIN q /\ k + 1 # p /\ rest[k] = q[k + 1]
        BY <2>1, <2>2, <3>2
      <4>2. QED
        BY <2>1, <2>2, <4>1 DEF Members, Distinct
    <3>3. QED
      BY <3>1, <3>2
  <2>6. ASSUME NEW j \in DOMAIN q, q[j] # t
        PROVE  \E k \in 1 .. Len(q) - 1 : rest[k] = q[j]
    <3>1. CASE j < p
      <4>1. j \in 1 .. Len(q) - 1 /\ rest[j] = q[j]
        BY <2>1, <2>2, <3>1
      <4>2. QED
        BY <4>1
    <3>2. CASE j > p
      <4>1. /\ j - 1 \in 1 .. Len(q) - 1 /\ ~(j - 1 < p) /\ (j - 1) + 1 = j
        BY <2>1, <2>2, <3>2
      <4>2. rest[j - 1] = q[j]
        BY <4>1
      <4>3. QED
        BY <4>1, <4>2
    <3>3. QED
      BY <2>1, <2>2, <2>6, <3>1, <3>2
  <2>7. Members(rest) = Members(q) \ {t}
    <3>1. \A x \in Members(rest) : x \in Members(q) \ {t}
      BY <2>4, <2>5, Zenon DEF Members
    <3>2. \A x \in Members(q) \ {t} : x \in Members(rest)
      BY <2>4, <2>6, Zenon DEF Members
    <3>3. QED
      BY <3>1, <3>2
  <2>8. ASSUME NEW j \in 1 .. Len(q) - 1, NEW k \in 1 .. Len(q) - 1, rest[j] = rest[k]
        PROVE  j = k
    <3> DEFINE From(m) == IF m < p THEN m ELSE m + 1
    <3>1. ASSUME NEW m \in 1 .. Len(q) - 1
          PROVE  From(m) \in DOMAIN q /\ rest[m] = q[From(m)]
      BY <2>1, <2>2
    <3>2. From(j) = From(k)
      BY <2>8, <3>1 DEF Distinct
    <3>3. QED
      BY <2>1, <2>2, <3>2
  <2>9. QED
    BY <2>3, <2>4, <2>7, <2>8 DEF Distinct
<1>2. CASE ~ \E k \in DOMAIN q : q[k] = t
  BY <1>2 DEF Without, Members, Distinct
<1>3. QED
  BY <1>1, <1>2

LEMMA AppendAdds ==
  ASSUME NEW q \in Seq(Task), NEW t \in Task, Distinct(q), t \notin Members(q)
  PROVE  Members(Append(q, t)) = Members(q) \cup {t} /\ Distinct(Append(q, t))
<1>1. /\ Len(q) \in Nat /\ DOMAIN q = 1 .. Len(q) /\ DOMAIN Append(q, t) = 1 .. Len(q) + 1
      /\ Append(q, t)[Len(q) + 1] = t
      /\ \A k \in 1 .. Len(q) : Append(q, t)[k] = q[k]
  OBVIOUS
<1>2. \A k \in 1 .. Len(q) + 1 : k \in 1 .. Len(q) \/ k = Len(q) + 1
  BY <1>1
<1>3. \A k \in 1 .. Len(q) : k \in 1 .. Len(q) + 1
  BY <1>1
<1>4. Len(q) + 1 \in 1 .. Len(q) + 1
  BY <1>1
<1>5. Members(Append(q, t)) = Members(q) \cup {t}
  BY <1>1, <1>2, <1>3, <1>4, Zenon DEF Members
<1>6. Distinct(Append(q, t))
  BY <1>1, <1>2 DEF Members, Distinct
<1>7. QED
  BY <1>5, <1>6

LEMMA TailRemoves ==
  ASSUME NEW q \in Seq(Task), q # <<>>, Distinct(q)
  PROVE  Members(Tail(q)) = Members(q) \ {Head(q)} /\ Distinct(Tail(q))
<1>1. /\ Len(q) \in Nat /\ Len(q) # 0 /\ DOMAIN q = 1 .. Len(q)
      /\ Head(q) = q[1] /\ Tail(q) \in Seq(Task) /\ Len(Tail(q)) = Len(q) - 1
      /\ DOMAIN Tail(q) = 1 .. Len(q) - 1
      /\ \A k \in 1 .. Len(q) - 1 : Tail(q)[k] = q[k + 1]
  BY HeadTailProperties
<1>2. ASSUME NEW k \in 1 .. Len(q) - 1
      PROVE  Tail(q)[k] \in Members(q) \ {Head(q)}
  <2>1. k + 1 \in DOMAIN q /\ 1 \in DOMAIN q /\ k + 1 # 1
    BY <1>1
  <2>2. QED
    BY <1>1, <2>1 DEF Members, Distinct
<1>3. ASSUME NEW j \in DOMAIN q, q[j] # Head(q)
      PROVE  \E k \in 1 .. Len(q) - 1 : Tail(q)[k] = q[j]
  <2>1. j - 1 \in 1 .. Len(q) - 1 /\ (j - 1) + 1 = j
    BY <1>1, <1>3
  <2>2. QED
    BY <1>1, <2>1
<1>4. Members(Tail(q)) = Members(q) \ {Head(q)}
  <2>1. \A x \in Members(Tail(q)) : x \in Members(q) \ {Head(q)}
    BY <1>1, <1>2, Zenon DEF Members
  <2>2. \A x \in Members(q) \ {Head(q)} : x \in Members(Tail(q))
    <3>1. DOMAIN Tail(q) = 1 .. Len(q) - 1
      BY <1>1
    <3>2. QED
      BY <1>3, <3>1, Zenon DEF Members
  <2>3. QED
    BY <2>1, <2>2
<1>5. Distinct(Tail(q))
  <2> SUFFICES ASSUME NEW j \in 1 .. Len(q) - 1, NEW k \in 1 .. Len(q) - 1,
                      Tail(q)[j] = Tail(q)[k]
               PROVE  j = k
    BY <1>1 DEF Distinct
  <2>1. j + 1 \in DOMAIN q /\ k + 1 \in DOMAIN q
    BY <1>1
  <2>2. j + 1 = k + 1
    BY <1>1, <2>1 DEF Distinct
  <2>3. QED
    BY <2>2
<1>6. QED
  BY <1>4, <1>5

QueueInv == \A b \in Bucket : Members(gate[b]) = Waiting(b) /\ Distinct(gate[b])

LEMMA QueueNext ==
  HttpTypeOK /\ QueuedAreLimited /\ QueueInv /\ [HttpNext]_httpVars => QueueInv'
<1> SUFFICES ASSUME HttpTypeOK, QueuedAreLimited, QueueInv, [HttpNext]_httpVars,
                    NEW b \in Bucket
             PROVE  Members(gate'[b]) = Waiting(b)' /\ Distinct(gate'[b])
  BY DEF QueueInv, Members, Distinct
<1>1. gate[b] \in Seq(Task) /\ Members(gate[b]) = Waiting(b) /\ Distinct(gate[b])
  BY DEF HttpTypeOK, QueueInv
<1>2. CASE UNCHANGED gate /\ \A u \in Task : at[u] = "queued" <=> at'[u] = "queued"
  BY <1>1, <1>2 DEF Waiting
<1>3. CASE Tick \/ UNCHANGED httpVars
  BY <1>2, <1>3 DEF Tick, httpVars, limiterVars
<1>4. ASSUME NEW t \in Task, Begin(t) \/ Pass(t) \/ Resume(t) \/ Proceed(t)
      PROVE  UNCHANGED gate /\ \A u \in Task : at[u] = "queued" <=> at'[u] = "queued"
  BY <1>4 DEF Begin, Pass, Resume, Proceed, Send, limiterVars, HttpTypeOK
<1>5. ASSUME NEW t \in Task, NEW a, Respond(t, a) \/ Unprepared(t, a)
      PROVE  UNCHANGED gate /\ \A u \in Task : at[u] = "queued" <=> at'[u] = "queued"
  BY <1>5 DEF Respond, Unprepared, EndpointOver, Backoff, Finish, limiterVars, HttpTypeOK
<1>6. ASSUME NEW t \in Task, Queue(t)
      PROVE  Members(gate'[b]) = Waiting(b)' /\ Distinct(gate'[b])
  <2> DEFINE c == BucketOf[RuleOf[t]]
  <2>1. at[t] = "ready" /\ at' = [at EXCEPT ![t] = "queued"]
    BY <1>6 DEF Queue
  <2>2. CASE b = c
    <3>1. gate'[b] = Append(gate[b], t)
      BY <1>6, <2>2 DEF Queue, HttpTypeOK
    <3>2. t \notin Members(gate[b])
      BY <1>1, <2>1 DEF Waiting
    <3>3. Waiting(b)' = Waiting(b) \cup {t}
      BY <2>1, <2>2 DEF Waiting, HttpTypeOK
    <3>4. QED
      BY <1>1, <3>1, <3>2, <3>3, AppendAdds
  <2>3. CASE b # c
    <3>1. gate'[b] = gate[b]
      BY <1>6, <2>3 DEF Queue, HttpTypeOK
    <3>2. Waiting(b)' = Waiting(b)
      BY <2>1, <2>3 DEF Waiting, HttpTypeOK
    <3>3. QED
      BY <1>1, <3>1, <3>2
  <2>4. QED
    BY <2>2, <2>3
<1>7. ASSUME NEW t \in Task, Grant(t)
      PROVE  Members(gate'[b]) = Waiting(b)' /\ Distinct(gate'[b])
  <2> DEFINE c == BucketOf[RuleOf[t]]
  <2>1. at[t] = "queued" /\ at' = [at EXCEPT ![t] = "sent"]
    BY <1>7 DEF Grant, Send
  <2>2. CASE b = c
    <3>1. gate'[b] = Tail(gate[b]) /\ gate[b] # <<>> /\ Head(gate[b]) = t
      BY <1>7, <2>2 DEF Grant, HttpTypeOK
    <3>2. Waiting(b)' = Waiting(b) \ {t}
      BY <2>1, <2>2 DEF Waiting, HttpTypeOK
    <3>3. QED
      BY <1>1, <3>1, <3>2, TailRemoves
  <2>3. CASE b # c
    <3>1. gate'[b] = gate[b]
      BY <1>7, <2>3 DEF Grant, HttpTypeOK
    <3>2. Waiting(b)' = Waiting(b)
      BY <2>1, <2>3 DEF Waiting, HttpTypeOK
    <3>3. QED
      BY <1>1, <3>1, <3>2
  <2>4. QED
    BY <2>2, <2>3
<1>8. ASSUME NEW t \in Task, Expire(t)
      PROVE  Members(gate'[b]) = Waiting(b)' /\ Distinct(gate'[b])
  <2>1. gate'[b] = Without(gate[b], t)
    BY <1>8 DEF Expire
  <2>2. at' = [at EXCEPT ![t] = "done"]
    BY <1>8 DEF Expire, Finish
  <2>3. Waiting(b)' = Waiting(b) \ {t}
    BY <2>2 DEF Waiting, HttpTypeOK
  <2>4. QED
    BY <1>1, <2>1, <2>3, WithoutRemoves
<1>9. QED
  BY <1>2, <1>3, <1>4, <1>5, <1>6, <1>7, <1>8 DEF HttpNext, Step, Own

\* The queue of a bucket holds exactly the validations that wait for it, each
\* once: a future that was dropped keeps neither the lock nor a place.
THEOREM Queues == HttpSpec => []QueuesAreExact
<1>1. Init => QueuedAreLimited
  BY DEF Init, QueuedAreLimited
<1>2. Init => QueueInv
  BY EmptySeq DEF Init, QueueInv, Members, Waiting, Distinct
<1>3. QueueInv => QueuesAreExact
  BY DEF QueueInv, QueuesAreExact, Members, Waiting, Distinct
<1>4. QED
  BY <1>1, <1>2, <1>3, TypesInit, TypesNext, LimitedNext, QueueNext, PTL DEF HttpSpec

-----------------------------------------------------------------------------
(* The scan of a repository.                                               *)

\* The scan takes the steps of its three parts: each sees the others as pauses.
THEOREM PacingParts == PacingSpec => GithubSpec /\ HistorySpec /\ HttpSpec
<1>1. PacingInit => GithubInit /\ HistoryInit /\ Init
  BY DEF PacingInit
<1>2. ASSUME [PacingNext]_pacingVars
      PROVE  [GithubNext]_githubVars /\ [HistoryNext]_historyVars /\ [HttpNext]_httpVars
  <2>1. CASE List
    BY <2>1 DEF List
  <2>2. CASE Enumerate
    BY <2>2 DEF Enumerate
  <2>3. CASE Validate(HttpNext)
    BY <2>3 DEF Validate
  <2>4. CASE UNCHANGED pacingVars
    BY <2>4 DEF pacingVars
  <2>5. QED
    BY <1>2, <2>1, <2>2, <2>3, <2>4 DEF PacingNext
<1>3. QED
  BY <1>1, <1>2, PTL DEF PacingSpec, GithubSpec, HistorySpec, HttpSpec

\* What the parts promise holds of the scan: the waits stay in the budget, blobs are
\* attributed and histories complete, slots and queues exact, rejections unanimous,
\* the server is heeded and requests are spaced.
THEOREM PacingIsSafe ==
  PacingSpec => [](/\ WaitsStayInBudget /\ FirstSeenIsExact /\ BranchHistoryIsComplete
                   /\ SlotsMatchRequests /\ QueuesAreExact /\ RejectionsAreUnanimous)
                /\ RetriesHeedTheServer /\ RequestsAreSpaced
  BY PacingParts, Budget, ServerIsHeeded, FirstSeenExactly, BranchHistory, Slots, Queues, Verdicts,
     Spacing, PTL
=============================================================================
