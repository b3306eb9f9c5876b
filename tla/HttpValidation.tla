--------------------------- MODULE HttpValidation ---------------------------
(***************************************************************************)
(* The requests of the validators and their pacing: the attempts and       *)
(* fallback endpoints of ValidationEngine::http, the ValidationRateLimiter *)
(* that admits each attempt, and the timeout of validate_resolved_match    *)
(* that drops the future wherever it stands.                               *)
(*                                                                         *)
(* A validator of another kind is admitted once, before it begins: its     *)
(* further requests (a credential URI's challenge is followed by the       *)
(* authenticated request) and its retries pass the limiter by.             *)
(*                                                                         *)
(* A bucket of the limiter is a tokio Mutex around the next free slot.     *)
(* The mutex is fair, so a bucket is a queue whose head holds the lock,    *)
(* and it is held across sleep_until.                                      *)
(*                                                                         *)
(* Time is discrete, one tick for the 500 ms of the shortest backoff, and  *)
(* counted down: a timer says how long is left.  A timer that has run out  *)
(* may fire late.                                                          *)
(***************************************************************************)
EXTENDS Naturals, Sequences, FiniteSets

CONSTANTS
  Task,           \* the validations of a scan
  Rule,           \* rule ids, each a sequence of segments
  RuleOf,         \* [Task -> Rule]
  PerRule,        \* --validation-rps-rule: a sequence of selectors with limits
  Default,        \* --validation-rps: an interval, or NoLimit
  NoLimit,
  DefaultBucket,
  Http,           \* the rules with an HTTP validator
  Endpoints,      \* [Rule -> Nat]: an HTTP rule's request and its fallbacks, or the
                  \* requests another validator sends one after the other
  Retries,        \* [Rule -> Nat]: --validation-retries, or what the validator has
  Timeouts,       \* --validation-timeout: zero is none
  Horizon         \* how far back the history of a bucket reaches

Namespace == {"betterleaks", "kingfisher"}

ASSUME PacingAssumption ==
  /\ RuleOf \in [Task -> Rule] /\ Http \subseteq Rule
  /\ \A k \in DOMAIN PerRule : PerRule[k].interval \in 1 .. Horizon /\ PerRule[k].len \in Nat
  /\ Default = NoLimit \/ Default \in 1 .. Horizon
  /\ Horizon \in Nat \ {0}
  /\ Endpoints \in [Rule -> Nat \ {0}]
  /\ Retries \in [Rule -> Nat] /\ Timeouts \subseteq Nat

VARIABLES
  timeout,       \* the option
  at,            \* where each validation is
  endpoint, attempt,
  inactive, inconclusive,   \* what the endpoints so far have said
  wake,          \* how long the backoff lasts
  deadline,      \* how long the validation may last
  verdict,
  next_allowed,  \* for each bucket, how long until the next slot
  gate,          \* for each bucket, who holds and awaits its mutex
  since,         \* history: for each bucket, how long ago it admitted a request
  said           \* history: the last answer of each endpoint

taskVars == <<endpoint, attempt, inactive, inconclusive, wake, deadline, verdict>>
limiterVars == <<next_allowed, gate, since>>
httpVars == <<timeout, at, taskVars, limiterVars, said>>

-----------------------------------------------------------------------------
(* ValidationRateLimiter.                                                  *)

IsPrefixOf(s, id) == Len(s) \leq Len(id) /\ \A k \in DOMAIN s : s[k] = id[k]

\* A selector without a namespace is tried without the rule's as well.
selector_matches(id, s) ==
  \/ IsPrefixOf(s, id)
  \/ /\ ~(Len(s) > 1 /\ s[1] \in Namespace)
     /\ id # <<>> /\ id[1] \in Namespace /\ IsPrefixOf(s, Tail(id))

Matching(id) == {k \in DOMAIN PerRule : selector_matches(id, PerRule[k].selector)}

\* The longest selector that matches; of several the first.
Best(id) ==
  CHOOSE k \in Matching(id) : \A j \in Matching(id) \ {k} :
    PerRule[j].len < PerRule[k].len \/ (PerRule[j].len = PerRule[k].len /\ k < j)

Bucket == {PerRule[k].selector : k \in DOMAIN PerRule} \cup {DefaultBucket}

\* effective_limit: the rules with a limit, their buckets and intervals.
Limited == {id \in Rule : Matching(id) # {} \/ Default # NoLimit}
BucketOf == [id \in Limited |->
  IF Matching(id) # {} THEN PerRule[Best(id)].selector ELSE DefaultBucket]
IntervalOf == [id \in Limited |->
  IF Matching(id) # {} THEN PerRule[Best(id)].interval ELSE Default]

\* What the search of effective_limit amounts to: every rule with a limit has a
\* bucket and an interval, and rules of one bucket have one interval.
ASSUME LimitAssumption ==
  /\ BucketOf \in [Limited -> Bucket] /\ IntervalOf \in [Limited -> 1 .. Horizon]
  /\ \A i, j \in Limited : BucketOf[i] = BucketOf[j] => IntervalOf[i] = IntervalOf[j]

\* An entry of next_allowed is made with the present time: its slot is free.
Init ==
  /\ timeout \in Timeouts
  /\ at = [t \in Task |-> "idle"]
  /\ endpoint = [t \in Task |-> 1] /\ attempt = [t \in Task |-> 0]
  /\ inactive = [t \in Task |-> FALSE] /\ inconclusive = [t \in Task |-> FALSE]
  /\ wake = [t \in Task |-> 0] /\ deadline = [t \in Task |-> 0]
  /\ verdict = [t \in Task |-> "none"]
  /\ next_allowed = [b \in Bucket |-> 0] /\ gate = [b \in Bucket |-> <<>>]
  /\ since = [b \in Bucket |-> Horizon]
  /\ said = [t \in Task |-> <<>>]

-----------------------------------------------------------------------------
(* A validation.                                                           *)

Begin(t) ==
  /\ at[t] = "idle"
  /\ at' = [at EXCEPT ![t] = "ready"]
  /\ deadline' = [deadline EXCEPT ![t] = timeout]
  /\ UNCHANGED <<timeout, endpoint, attempt, inactive, inconclusive, wake, verdict, limiterVars,
                 said>>

Send(t) == at' = [at EXCEPT ![t] = "sent"]

\* wait_for_rule returns at once for a rule without a limit ...
Pass(t) ==
  /\ at[t] = "ready" /\ RuleOf[t] \notin Limited
  /\ Send(t)
  /\ UNCHANGED <<timeout, taskVars, limiterVars, said>>

\* ... and queues for the mutex of the bucket for the others.
Queue(t) ==
  /\ at[t] = "ready" /\ RuleOf[t] \in Limited
  /\ at' = [at EXCEPT ![t] = "queued"]
  /\ gate' = [gate EXCEPT ![BucketOf[RuleOf[t]]] = Append(@, t)]
  /\ UNCHANGED <<timeout, taskVars, next_allowed, since, said>>

\* Fault: the guard outlives the wait.
GrantUnreleased(t) ==
  LET b == BucketOf[RuleOf[t]]
  IN /\ at[t] = "queued" /\ gate[b] # <<>> /\ Head(gate[b]) = t /\ next_allowed[b] = 0
     /\ Send(t)
     /\ next_allowed' = [next_allowed EXCEPT ![b] = IntervalOf[RuleOf[t]]]
     /\ since' = [since EXCEPT ![b] = 0]
     /\ UNCHANGED <<timeout, taskVars, gate, said>>

\* The holder of the lock has slept until the slot: it takes the slot, lets the
\* lock go and sends the request.
Grant(t) ==
  LET b == BucketOf[RuleOf[t]]
  IN /\ at[t] = "queued" /\ gate[b] # <<>> /\ Head(gate[b]) = t /\ next_allowed[b] = 0
     /\ Send(t)
     /\ next_allowed' = [next_allowed EXCEPT ![b] = IntervalOf[RuleOf[t]]]
     /\ gate' = [gate EXCEPT ![b] = Tail(@)]
     /\ since' = [since EXCEPT ![b] = 0]
     /\ UNCHANGED <<timeout, taskVars, said>>

\* The validation returns, and its locals are gone.
Finish(t, v) ==
  /\ at' = [at EXCEPT ![t] = "done"]
  /\ verdict' = [verdict EXCEPT ![t] = v]
  /\ endpoint' = [endpoint EXCEPT ![t] = 1] /\ attempt' = [attempt EXCEPT ![t] = 0]
  /\ inactive' = [inactive EXCEPT ![t] = FALSE]
  /\ inconclusive' = [inconclusive EXCEPT ![t] = FALSE]
  /\ wake' = [wake EXCEPT ![t] = 0] /\ deadline' = [deadline EXCEPT ![t] = 0]

\* Fault: a rejection counts more than an endpoint that could not be checked.
JudgedHarshly(t, rejected, unsure) == IF rejected THEN "inactive" ELSE "unavailable"

\* A rejection counts only if every endpoint was checked; "unavailable" stands
\* for every outcome that decides nothing.
Judged(t, rejected, unsure) == IF unsure \/ ~rejected THEN "unavailable" ELSE "inactive"

\* The endpoint has given its last answer, or another validator has returned.
EndpointOver(t, answer) ==
  LET rejected == inactive[t] \/ answer = "inactive"
      unsure   == inconclusive[t] \/ answer \notin {"inactive", "active"}
      last     == RuleOf[t] \notin Http \/ endpoint[t] = Endpoints[RuleOf[t]]
  IN /\ said' = [said EXCEPT ![t] = Append(@, answer)]
     /\ IF answer = "active" \/ last
          THEN Finish(t, IF answer = "active" THEN "active" ELSE Judged(t, rejected, unsure))
          ELSE /\ at' = [at EXCEPT ![t] = "ready"]
               /\ endpoint' = [endpoint EXCEPT ![t] = @ + 1]
               /\ attempt' = [attempt EXCEPT ![t] = 0]
               /\ inactive' = [inactive EXCEPT ![t] = rejected]
               /\ inconclusive' = [inconclusive EXCEPT ![t] = unsure]
               /\ UNCHANGED <<wake, deadline, verdict>>

MayRetry(t) == attempt[t] < Retries[RuleOf[t]]

\* An HTTP rule waits for 500 ms, a second, then two seconds; retry_with_backoff
\* begins with a second.
Delay(t) ==
  LET n == IF RuleOf[t] \in Http THEN attempt[t] ELSE attempt[t] + 1
  IN IF n \geq 2 THEN 4 ELSE n + 1

Backoff(t) ==
  /\ at' = [at EXCEPT ![t] = "backoff"]
  /\ wake' = [wake EXCEPT ![t] = Delay(t)]
  /\ attempt' = [attempt EXCEPT ![t] = @ + 1]
  /\ UNCHANGED <<endpoint, inactive, inconclusive, deadline, verdict, said>>

\* The service accepts or rejects the credential, answers something else, or
\* fails in a way that may be retried: no answer, 408, 429, 502, 503, 504.
Answers == {"active", "inactive", "unclear", "failed"}

\* The last request of a validator says whether the credential is accepted; the
\* ones before it can only end in nothing, or in Proceed.
Respond(t, answer) ==
  /\ at[t] = "sent"
  /\ answer \in {"active", "inactive"} =>
       RuleOf[t] \in Http \/ endpoint[t] = Endpoints[RuleOf[t]]
  /\ IF answer = "failed" /\ MayRetry(t) THEN Backoff(t) ELSE EndpointOver(t, answer)
  /\ UNCHANGED <<timeout, limiterVars>>

\* The answer to a request that comes before others, the Basic challenge: the next
\* one is sent, without a wait on the limiter.
Proceed(t) ==
  /\ at[t] = "sent" /\ RuleOf[t] \notin Http /\ endpoint[t] < Endpoints[RuleOf[t]]
  /\ endpoint' = [endpoint EXCEPT ![t] = @ + 1] /\ attempt' = [attempt EXCEPT ![t] = 0]
  /\ UNCHANGED <<timeout, at, inactive, inconclusive, wake, deadline, verdict, limiterVars, said>>

\* The request cannot be prepared (a missing variable, a refused target), or its
\* host is not resolved, before the limiter is asked.
Unprepared(t, answer) ==
  /\ at[t] = "ready"
  /\ IF answer = "failed" /\ RuleOf[t] \in Http /\ MayRetry(t)
       THEN Backoff(t) ELSE EndpointOver(t, answer)
  /\ UNCHANGED <<timeout, limiterVars>>

\* The retry of an HTTP rule is prepared and admitted anew, any other is sent.
Resume(t) ==
  /\ at[t] = "backoff" /\ wake[t] = 0
  /\ at' = [at EXCEPT ![t] = IF RuleOf[t] \in Http THEN "ready" ELSE "sent"]
  /\ UNCHANGED <<timeout, taskVars, limiterVars, said>>

\* A queue without a validation, the others in their order.
Without(q, t) ==
  IF \E k \in DOMAIN q : q[k] = t
    THEN LET p == CHOOSE k \in DOMAIN q : q[k] = t
         IN [k \in 1 .. Len(q) - 1 |-> IF k < p THEN q[k] ELSE q[k + 1]]
    ELSE q

\* Fault: a holder that is dropped gives its slot back.
ExpireFreesSlot(t) ==
  /\ timeout > 0 /\ deadline[t] = 0 /\ at[t] \notin {"idle", "done"}
  /\ Finish(t, "unavailable")
  /\ gate' = [b \in Bucket |-> Without(gate[b], t)]
  /\ next_allowed' = [b \in Bucket |->
       IF gate[b] # <<>> /\ Head(gate[b]) = t THEN 0 ELSE next_allowed[b]]
  /\ UNCHANGED <<timeout, since, said>>

\* The timeout drops the future: it leaves the queue, or lets the lock go, and
\* the slot stays as it was.
Expire(t) ==
  /\ timeout > 0 /\ deadline[t] = 0 /\ at[t] \notin {"idle", "done"}
  /\ Finish(t, "unavailable")
  /\ gate' = [b \in Bucket |-> Without(gate[b], t)]
  /\ UNCHANGED <<timeout, next_allowed, since, said>>

Less(n) == IF n = 0 THEN 0 ELSE n - 1
Older(n) == IF n = Horizon THEN n ELSE n + 1

Tick ==
  /\ next_allowed' = [b \in Bucket |-> Less(next_allowed[b])]
  /\ wake' = [t \in Task |-> Less(wake[t])]
  /\ deadline' = [t \in Task |-> Less(deadline[t])]
  /\ since' = [b \in Bucket |-> Older(since[b])]
  /\ UNCHANGED <<timeout, at, endpoint, attempt, inactive, inconclusive, verdict, gate, said>>

\* What the program does by itself, and what a service makes it do.
Own(t) == Begin(t) \/ Pass(t) \/ Queue(t) \/ Grant(t) \/ Resume(t) \/ Expire(t)
Step(t) ==
  \/ Own(t) \/ Proceed(t)
  \/ \E answer \in Answers : Respond(t, answer)
  \/ \E answer \in {"unclear", "failed"} : Unprepared(t, answer)

HttpNext == Tick \/ \E t \in Task : Step(t)

HttpSpec == Init /\ [][HttpNext]_httpVars

-----------------------------------------------------------------------------
(* What the validations and the limiter guarantee.                         *)

\* The types of the variables, and the limits of the two loops.
HttpTypeOK ==
  /\ timeout \in Timeouts
  /\ at \in [Task -> {"idle", "ready", "queued", "sent", "backoff", "done"}]
  /\ endpoint \in [Task -> Nat] /\ attempt \in [Task -> Nat]
  /\ \A t \in Task : /\ endpoint[t] \in 1 .. Endpoints[RuleOf[t]]
                      /\ attempt[t] \leq Retries[RuleOf[t]]
  /\ inactive \in [Task -> BOOLEAN] /\ inconclusive \in [Task -> BOOLEAN]
  /\ wake \in [Task -> Nat] /\ deadline \in [Task -> Nat]
  /\ verdict \in [Task -> {"none", "active", "inactive", "unavailable"}]
  /\ next_allowed \in [Bucket -> Nat] /\ gate \in [Bucket -> Seq(Task)]
  /\ since \in [Bucket -> 0 .. Horizon]
  /\ said \in [Task -> Seq(Answers)]

\* The slot of a bucket tells how long ago it has really admitted a request: it is
\* closed for the rest of the interval, whatever was cancelled in the queue or
\* asleep, and open otherwise.  (wait_for_rule)
SlotsMatchRequests ==
  \A id \in Limited :
    LET b == BucketOf[id]
    IN next_allowed[b] = IF since[b] \geq IntervalOf[id] THEN 0 ELSE IntervalOf[id] - since[b]

\* A request is sent in this step: the first one, a retry, or the next endpoint.
Sends(t) == at'[t] = "sent" /\ (at[t] # "sent" \/ endpoint'[t] # endpoint[t])

\* The requests an admitted validator that is not an HTTP rule sends after its
\* first, and its retries.
FollowsUp(t) == RuleOf[t] \notin Http /\ (endpoint'[t] > 1 \/ attempt'[t] > 0)

\* A request of a rule with a limit is sent no less than an interval after the
\* last one its bucket has admitted: of different validations, retries and
\* endpoints, and across timeouts.  Only what an admitted validation of another
\* kind than HTTP sends after its first request is not held back.
RequestsAreSpaced ==
  [][\A t \in Task : Sends(t) /\ RuleOf[t] \in Limited /\ ~FollowsUp(t)
       => since[BucketOf[RuleOf[t]]] \geq IntervalOf[RuleOf[t]]]_httpVars

\* The queue of a bucket holds the validations that wait for it, each once: a
\* future that was dropped holds no lock and no place.
QueuesAreExact ==
  \A b \in Bucket :
    /\ {gate[b][k] : k \in DOMAIN gate[b]}
         = {t \in Task : at[t] = "queued" /\ BucketOf[RuleOf[t]] = b}
    /\ \A j, k \in DOMAIN gate[b] : gate[b][j] = gate[b][k] => j = k

\* A credential is called inactive only when every endpoint has rejected it, of
\* another validator its last request, and active only when one has accepted it,
\* through retries and timeouts.
RejectionsAreUnanimous ==
  \A t \in Task :
    /\ verdict[t] = "inactive" =>
         /\ Len(said[t]) = IF RuleOf[t] \in Http THEN Endpoints[RuleOf[t]] ELSE 1
         /\ \A e \in DOMAIN said[t] : said[t][e] = "inactive"
    /\ verdict[t] = "active" => \E e \in DOMAIN said[t] : said[t][e] = "active"

\* A validation with a timeout returns, whether it is answered or not; and with or
\* without one nobody waits for the limiter forever, also when others are dropped
\* while they hold the lock, or are never answered.  (Without a timeout a request
\* may take as long as the service likes.)
EveryValidationEnds ==
  \A t \in Task :
    at[t] = "queued" \/ (timeout > 0 /\ at[t] = "ready")
      ~> at[t] = "done" \/ (timeout = 0 /\ at[t] # "queued")
=============================================================================
