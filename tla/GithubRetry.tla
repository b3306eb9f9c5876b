---------------------------- MODULE GithubRetry ----------------------------
(***************************************************************************)
(* One replayable request to the GitHub API: send_with_sleep and its       *)
(* blocking twin.  The answers are those the retry distinguishes; what     *)
(* time they advise is counted in ticks, and the server keeps its own      *)
(* count of how long it will refuse (cooldown), with a clock that is up to *)
(* a second behind.                                                        *)
(***************************************************************************)
EXTENDS Naturals

CONSTANTS
  Budgets,        \* DEFAULT_MAX_RETRY_WAIT or KF_GITHUB_MAX_RETRY_WAIT_SECS
  RateBase,       \* the first delay for a rate limit without advice
  ErrorBase,      \* the first delay for a server error without advice
  Advice,         \* the delays a header may ask for
  NoAdvice

ASSUME RetryAssumption ==
  /\ RateBase \in Nat /\ ErrorBase \in Nat
  /\ Budgets \subseteq Nat /\ Advice \subseteq Nat /\ NoAdvice \notin Nat

MaxRetries == 3   \* MAX_RETRIES

VARIABLES
  max_retry_wait,
  stage,          \* send, judge, sleep, or the result: response or error
  retries, waited,
  answer,         \* the response at hand
  nap,            \* how long the sleep still lasts
  cooldown        \* how long the server still refuses

githubVars == <<max_retry_wait, stage, retries, waited, answer, nap, cooldown>>

\* status, Retry-After, x-ratelimit-remaining = 0, x-ratelimit-reset less the
\* present time, and a JSON message that names the limit, where they are read.
Response ==
  {r \in [status : {"ok", "refused", "forbidden", "too_many", "server_error"},
          after : Advice \cup {NoAdvice}, exhausted : BOOLEAN,
          reset : Advice \cup {NoAdvice}, message : BOOLEAN] :
     (r.reset # NoAdvice => r.exhausted) /\ (r.message => r.status = "forbidden")}

has_rate_limit_headers(r) == r.after # NoAdvice \/ r.exhausted
rate_limited(r) ==
  \/ r.status = "too_many"
  \/ r.status = "forbidden" /\ (has_rate_limit_headers(r) \/ r.message)

\* base << min(n, MAX_RETRIES)
Doubled(base, n) == base * (IF n = 0 THEN 1 ELSE IF n = 1 THEN 2 ELSE IF n = 2 THEN 4 ELSE 8)

\* What the headers ask for, with a margin after the second of the reset.
AdviceOf(r, margin) ==
  (IF r.after # NoAdvice THEN {r.after} ELSE {})
    \cup (IF r.exhausted /\ r.reset # NoAdvice THEN {r.reset + margin} ELSE {})

\* Fault: the sleep ends with the second of the reset.
AdvisedEarly(r) == AdviceOf(r, 0)

\* A reset is waited for past its second.
Advised(r) == AdviceOf(r, 1)

\* retry_delay: none for an answer that is final; the longest advice, or else
\* an exponential delay with a jitter of a quarter.
retry_delay(r, n) ==
  IF ~rate_limited(r) /\ r.status # "server_error" THEN {}
  ELSE IF Advised(r) # {} THEN {d \in Advised(r) : \A e \in Advised(r) : e \leq d}
  ELSE LET base == Doubled(IF rate_limited(r) THEN RateBase ELSE ErrorBase, n)
       IN base .. base + base \div 4

\* How long the server refuses: what it has said, by its own clock, and the
\* first delay of a secondary limit about which it says nothing.
Refuses(r, skew) ==
  LET said == AdviceOf(r, skew)
  IN IF ~rate_limited(r) /\ r.status # "server_error" THEN 0
     ELSE IF said = {} THEN IF rate_limited(r) THEN RateBase ELSE 0
     ELSE CHOOSE d \in said : \A e \in said : e \leq d

NoAnswer == [status |-> "ok", after |-> NoAdvice, exhausted |-> FALSE, reset |-> NoAdvice,
             message |-> FALSE]

GithubInit ==
  /\ max_retry_wait \in Budgets
  /\ stage = "send" /\ retries = 0 /\ waited = 0
  /\ answer = NoAnswer /\ nap = 0 /\ cooldown = 0

\* The function returns, and its parameters and locals are gone.
Return(result) ==
  /\ stage' = result
  /\ max_retry_wait' = 0 /\ retries' = 0 /\ waited' = 0
  /\ answer' = NoAnswer /\ nap' = 0 /\ cooldown' = 0

\* A response arrives.
Request ==
  /\ stage = "send"
  /\ \E r \in Response, skew \in 0 .. 1 :
       answer' = r /\ cooldown' = Refuses(r, skew)
  /\ stage' = "judge"
  /\ UNCHANGED <<max_retry_wait, retries, waited, nap>>

\* The request fails, or the body of a 403 without headers cannot be read.
RequestFails ==
  /\ \/ stage = "send"
     \/ stage = "judge" /\ answer.status = "forbidden" /\ ~has_rate_limit_headers(answer)
  /\ Return("error")

\* Fault: a delay is compared with the whole budget.
FitsAlone(delay) == delay \leq max_retry_wait

Fits(delay) == delay \leq max_retry_wait - waited

\* The answer is final, or there are no retries or no time left.
GiveUp ==
  /\ stage = "judge"
  /\ \/ retry_delay(answer, retries) = {}
     \/ retries = MaxRetries
     \/ \E delay \in retry_delay(answer, retries) : ~Fits(delay)
  /\ Return("response")

\* Fault: the retry is not counted.
SleepUncounted ==
  /\ stage = "judge" /\ retries < MaxRetries
  /\ \E delay \in retry_delay(answer, retries) : Fits(delay) /\ nap' = delay
  /\ stage' = "sleep"
  /\ UNCHANGED <<max_retry_wait, retries, waited, answer, cooldown>>

\* The response is dropped and the delay slept.
Sleep ==
  /\ stage = "judge" /\ retries < MaxRetries
  /\ \E delay \in retry_delay(answer, retries) : Fits(delay) /\ nap' = delay
  /\ stage' = "sleep"
  /\ retries' = retries + 1
  /\ UNCHANGED <<max_retry_wait, waited, answer, cooldown>>

GithubTick ==
  /\ stage = "sleep" /\ nap > 0
  /\ nap' = nap - 1
  /\ waited' = waited + 1
  /\ cooldown' = IF cooldown = 0 THEN 0 ELSE cooldown - 1
  /\ UNCHANGED <<max_retry_wait, stage, retries, answer>>

Resend ==
  /\ stage = "sleep" /\ nap = 0
  /\ stage' = "send"
  /\ UNCHANGED <<max_retry_wait, retries, waited, answer, nap, cooldown>>

GithubNext == Request \/ RequestFails \/ GiveUp \/ Sleep \/ GithubTick \/ Resend

GithubSpec == GithubInit /\ [][GithubNext]_githubVars

-----------------------------------------------------------------------------
(* What the retry guarantees.                                              *)

\* The types of the variables.
GithubTypeOK ==
  /\ max_retry_wait \in Budgets \cup {0}
  /\ stage \in {"send", "judge", "sleep", "response", "error"}
  /\ retries \in 0 .. MaxRetries /\ waited \in Nat
  /\ answer \in Response /\ nap \in Nat /\ cooldown \in Nat

\* The sleeps of all retries together never exceed the budget, whatever mix of
\* advice and backoff the answers call for.
WaitsStayInBudget == waited + nap \leq max_retry_wait

\* The request is not repeated while the server still refuses it by its own
\* clock, and never after an answer that is final.
RetriesHeedTheServer ==
  [][stage = "sleep" /\ stage' = "send"
       => cooldown = 0 /\ (rate_limited(answer) \/ answer.status = "server_error")]_githubVars

\* The retry loop ends, also when every answer advises to try again at once.
EveryRequestReturns == <>(stage \in {"response", "error"})
=============================================================================
