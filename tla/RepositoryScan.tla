--------------------------- MODULE RepositoryScan ---------------------------
(***************************************************************************)
(* The scan of one repository, as run_parallel_scan and                    *)
(* run_sequential_scan perform it:                                         *)
(*                                                                         *)
(*   enumerate_filesystem_inputs   an enumerator thread feeds a bounded    *)
(*       channel; rayon workers match the contents and send every match    *)
(*       into a second bounded channel; the writer thread records the      *)
(*       matches in the repository's FindingsStore in batches;             *)
(*   deduplicate_new_matches       replaces the rows of the store;         *)
(*   run_secret_validation         validates one representative per        *)
(*       credential and writes the outcomes back into the rows, first for  *)
(*       the blobs without dependent rules, then, in chunks of blobs and   *)
(*       with caches of its own, for the others.                           *)
(*                                                                         *)
(* What a match is: a rule, the secret, the span in the content, and the   *)
(* value of the component the rule depends on ("context"), which the       *)
(* matcher has resolved inside the content.  The request a validator sends *)
(* is determined by rule, secret and context.                              *)
(*                                                                         *)
(* The order of the rows in the store is a HashMap's (deduplicate_matches) *)
(* and no step depends on it: the store is a set of rows.                  *)
(***************************************************************************)
EXTENDS Naturals, Sequences, FiniteSets

CONSTANTS
  Input,          \* what the enumerator finds: a path with a content
  BlobOf,         \* [Input -> Nat]: the id of the content
  MatchesOf,      \* [Input -> Seq(Match)]: what the matcher finds in it
  Git,            \* the inputs that come from git history, not from a file
  Rule,
  Dependent,      \* the rules with depends_on_rule
  Helper,         \* hidden rules that others depend on
  Authoritative,  \* the rules with a validator that may run
  Secret, Context, Span,
  NoContext,      \* no component was found
  Ambiguous,      \* several different components were found
  Worker,         \* the threads of the pool
  InputCap, StoreCap, BatchSize,   \* channels and batches
  Concurrency,    \* num_jobs
  ChunkSize,      \* blobs of a chunk of dependent validations
  Elsewhere,      \* keys that repositories scanned at the same time have as well
  Nothing,        \* a worker without an input
  Args            \* the command lines, [no_dedup : BOOLEAN]

Match == [rule : Rule, secret : Secret, span : Span,
          context : Context \cup {NoContext, Ambiguous}]
Blob == {BlobOf[i] : i \in Input}

ASSUME ScanAssumption ==
  /\ BlobOf \in [Input -> Nat] /\ MatchesOf \in [Input -> Seq(Match)]
  /\ Dependent \subseteq Rule /\ Helper \subseteq Rule /\ Authoritative \subseteq Rule
  /\ {InputCap, StoreCap, BatchSize, Concurrency, ChunkSize} \subseteq Nat \ {0}
  /\ Elsewhere \subseteq Authoritative \X Secret \X (Context \cup {NoContext})
  /\ Git \subseteq Input /\ Nothing \notin Input /\ Args \subseteq [no_dedup : BOOLEAN]
  \* Components are attached for the rules in depends_on_rule (matcher/mod.rs:965).
  /\ \A i \in Input : \A k \in DOMAIN MatchesOf[i] :
       MatchesOf[i][k].rule \notin Dependent => MatchesOf[i][k].context = NoContext

VARIABLES
  args,
  phase,        \* scan, partition, simple, dependent, done or failed
  unsent,       \* inputs the enumerator has still to find
  enum,         \* the enumerator thread: running, done or failed
  input,        \* the channel of inputs
  work,         \* what each worker is at
  seen_blobs,   \* the contents some worker has claimed
  had_errors,   \* the scan is reported as partial
  ds,           \* the channel of matches
  batch,        \* what the writer has received and not recorded
  writer,       \* the writer thread: running or done
  dedup_exact,  \* the digests of the store
  outcome,      \* the store: the outcome of each row
  left,         \* blobs of the chunks to come
  at, result,   \* the validations of the phase or chunk and their outcomes
  in_flight,    \* their keys that are being validated
  val_cache,    \* their keys that have been
  answers,      \* the process-wide validation cache
  overwritten   \* history: the keys whose answer another one has replaced

enumVars == <<unsent, enum, input>>
storeVars == <<ds, batch, writer, dedup_exact>>
scanVars == <<enumVars, work, seen_blobs, had_errors, storeVars>>
taskVars == <<left, at, result, in_flight, val_cache, answers, overwritten>>
vars == <<args, phase, scanVars, outcome, taskVars>>

-----------------------------------------------------------------------------
(* Rows, digests and keys.                                                 *)

Row == [origins : SUBSET Input, blob : Blob, match : Match]

\* What a digest of record is taken of: rule and secret, the blob for a helper,
\* the resolved components for a rule that has any.
Digest(row) ==
  [rule    |-> row.match.rule,
   secret  |-> row.match.secret,
   blob    |-> IF row.match.rule \in Helper THEN {row.blob} ELSE {},
   context |-> IF row.match.rule \in Dependent THEN {row.match.context} ELSE {}]

\* Rows that deduplicate_matches takes for one: same value, span, rule and
\* components; the blob is not compared.
SameFinding(r1, r2) == r1.match = r2.match

\* The content of a validation request.
Request == [rule : Rule, secret : Secret, context : Context \cup {NoContext, Ambiguous}]
RequestOf(m) == [rule |-> m.rule, secret |-> m.secret, context |-> m.context]

\* A key has all of the request, so that the one determines the other.
RequestFor(k) == [rule |-> k[1], secret |-> k[2], context |-> k[3]]
KeyFor(request) == <<request.rule, request.secret, request.context>>

\* Fault: the key is the rule and the secret.
KeyWithoutContext(m) == <<m.rule, m.secret>>

\* build_cache_key and the key of the process-wide cache; for a rule without
\* dependencies also validation_group_key.
KeyOf(m) == <<m.rule, m.secret, m.context>>

\* An outcome is a status with the request it answers.
Status == {"not_attempted", "skipped", "unavailable", "inactive", "active"}
Outcome == [request : Request, status : Status]
Untried(row) == [request |-> RequestOf(row.match), status |-> "not_attempted"]

Rows == DOMAIN outcome
NoRows == [r \in {} |-> {}]
Put(f, k, v) == [e \in DOMAIN f \cup {k} |-> IF e = k THEN v ELSE f[e]]

Init ==
  /\ args \in Args
  /\ phase = "scan"
  /\ unsent = Input /\ enum = "running" /\ input = <<>>
  /\ work = [w \in Worker |-> [input |-> Nothing, todo |-> <<>>]]
  /\ seen_blobs = {} /\ had_errors = FALSE
  /\ ds = <<>> /\ batch = <<>> /\ writer = "running" /\ dedup_exact = {}
  /\ outcome = NoRows
  /\ left = {} /\ at = NoRows /\ result = NoRows
  /\ in_flight = {} /\ val_cache = NoRows /\ answers = NoRows /\ overwritten = {}

-----------------------------------------------------------------------------
(* Enumeration.                                                            *)

\* The enumerator sends an input; the channel blocks it when it is full.
Enumerate(i) ==
  /\ enum = "running" /\ i \in unsent /\ Len(input) < InputCap
  /\ unsent' = unsent \ {i}
  /\ input' = Append(input, i)
  /\ UNCHANGED <<args, phase, enum, work, seen_blobs, had_errors, storeVars, outcome, taskVars>>

\* The walk is over, or has failed; the channel is disconnected.
EnumeratorEnds(verdict) ==
  /\ enum = "running" /\ (verdict = "done" => unsent = {})
  /\ enum' = verdict
  /\ UNCHANGED <<args, phase, unsent, input, work, seen_blobs, had_errors, storeVars,
                 outcome, taskVars>>

-----------------------------------------------------------------------------
(* The workers.                                                            *)

Idle == [input |-> Nothing, todo |-> <<>>]

\* An input is pulled out of the channel.
Take(w) ==
  /\ work[w].input = Nothing /\ input # <<>>
  /\ work' = [work EXCEPT ![w] = [input |-> Head(input), todo |-> <<>>]]
  /\ input' = Tail(input)
  /\ UNCHANGED <<args, phase, unsent, enum, seen_blobs, had_errors, storeVars, outcome, taskVars>>

Fresh(w) == work[w].input # Nothing /\ work[w].todo = <<>>

\* Fault: the content is claimed before it has been read.
UnreadableClaimed(w) ==
  /\ Fresh(w)
  /\ had_errors' = TRUE
  /\ seen_blobs' = seen_blobs \cup {BlobOf[work[w].input]}
  /\ work' = [work EXCEPT ![w] = Idle]
  /\ UNCHANGED <<args, phase, enumVars, storeVars, outcome, taskVars>>

\* The input cannot be opened, expanded or matched: it is counted and passed over.
Unreadable(w) ==
  /\ Fresh(w)
  /\ had_errors' = TRUE
  /\ work' = [work EXCEPT ![w] = Idle]
  /\ UNCHANGED <<args, phase, enumVars, seen_blobs, storeVars, outcome, taskVars>>

\* scan_blob: the content is matched, then claimed.  A content without matches
\* is not claimed.  If another worker has claimed it before, there is nothing
\* to send, not even the path.
ScanBlob(w) ==
  /\ Fresh(w)
  /\ LET i == work[w].input
         known == ~args.no_dedup /\ BlobOf[i] \in seen_blobs
     IN IF MatchesOf[i] = <<>> \/ known
          THEN work' = [work EXCEPT ![w] = Idle] /\ UNCHANGED seen_blobs
          ELSE /\ work' = [work EXCEPT ![w].todo = MatchesOf[i]]
               /\ seen_blobs' = IF args.no_dedup THEN seen_blobs
                                ELSE seen_blobs \cup {BlobOf[i]}
  /\ UNCHANGED <<args, phase, enumVars, had_errors, storeVars, outcome, taskVars>>

\* A match is sent to the writer; the channel blocks the worker when it is full.
Send(w) ==
  /\ work[w].todo # <<>> /\ Len(ds) < StoreCap
  /\ LET i == work[w].input
         rest == Tail(work[w].todo)
     IN /\ ds' = Append(ds, [origins |-> {i}, blob |-> BlobOf[i], match |-> Head(work[w].todo)])
        /\ work' = [work EXCEPT ![w] = IF rest = <<>> THEN Idle ELSE [@ EXCEPT !.todo = rest]]
  /\ UNCHANGED <<args, phase, enumVars, seen_blobs, had_errors, batch, writer, dedup_exact,
                 outcome, taskVars>>

\* Fault: a walk that has failed leaves its channel connected.
ScanOverIfDone ==
  /\ enum = "done" /\ input = <<>>
  /\ \A w \in Worker : work[w].input = Nothing

\* try_for_each_init has returned, and with it the last sender is gone.
ScanOver ==
  /\ enum # "running" /\ input = <<>>
  /\ \A w \in Worker : work[w].input = Nothing

-----------------------------------------------------------------------------
(* The writer thread.                                                      *)

\* Fault: rows of one batch are compared with the store only.
RecordedCarelessly(rows) ==
  {rows[j] : j \in {k \in DOMAIN rows :
     args.no_dedup \/ Digest(rows[k]) \notin dedup_exact}}

\* record: of the rows with one digest the first is kept.
Recorded(rows) ==
  {rows[j] : j \in {k \in DOMAIN rows :
     \/ args.no_dedup
     \/ /\ Digest(rows[k]) \notin dedup_exact
        /\ \A n \in 1 .. k - 1 : Digest(rows[n]) # Digest(rows[k])}}

Commit ==
  /\ outcome' = [r \in Rows \cup Recorded(batch) |->
                   IF r \in Rows THEN outcome[r] ELSE Untried(r)]
  /\ dedup_exact' = IF args.no_dedup THEN dedup_exact
                    ELSE dedup_exact \cup {Digest(batch[j]) : j \in DOMAIN batch}
  /\ batch' = <<>>

\* try_recv finds a message.
Receive ==
  /\ writer = "running" /\ Len(batch) < BatchSize /\ ds # <<>>
  /\ batch' = Append(batch, Head(ds)) /\ ds' = Tail(ds)
  /\ UNCHANGED <<args, phase, enumVars, work, seen_blobs, had_errors, writer, dedup_exact,
                 outcome, taskVars>>

\* The batch is full, or the channel is empty and two seconds have gone by.
Flush ==
  /\ writer = "running" /\ batch # <<>>
  /\ Len(batch) = BatchSize \/ (ds = <<>> /\ ~ScanOver)
  /\ Commit
  /\ UNCHANGED <<args, phase, enumVars, work, seen_blobs, had_errors, ds, writer, taskVars>>

\* Fault: the thread leaves its loop without the last flush.
WriterDrops ==
  /\ writer = "running" /\ Len(batch) < BatchSize /\ ds = <<>> /\ ScanOver
  /\ writer' = "done"
  /\ UNCHANGED <<args, phase, enumVars, work, seen_blobs, had_errors, ds, batch, dedup_exact,
                 outcome, taskVars>>

\* The channel is empty and disconnected: the rest is recorded.
WriterEnds ==
  /\ writer = "running" /\ Len(batch) < BatchSize /\ ds = <<>> /\ ScanOver
  /\ Commit
  /\ writer' = "done"
  /\ UNCHANGED <<args, phase, enumVars, work, seen_blobs, had_errors, ds, taskVars>>

-----------------------------------------------------------------------------
(* Between the scan and the validation.                                    *)

\* The enumerator is joined first: if it has failed the scan returns, and leaves
\* the writer to itself.
ScanFails ==
  /\ phase = "scan" /\ ScanOver /\ enum = "failed"
  /\ phase' = "failed"
  /\ UNCHANGED <<args, scanVars, outcome, taskVars>>

\* merge_origins_for_dedup: the origins of the rows taken for one, those in git
\* if there are any.
MergedOrigins(rows, r) ==
  LET origins == UNION {q.origins : q \in {p \in rows : SameFinding(p, r)}}
  IN IF origins \cap Git = {} THEN origins ELSE origins \cap Git

\* Of the rows taken for one any may be kept that has one of these origins.
Merges(rows, kept) ==
  /\ \A r \in rows : \E q \in kept : SameFinding(q, r)
  /\ \A q, r \in kept : SameFinding(q, r) => q = r
  /\ \A q \in kept : q.origins \cap MergedOrigins(rows, q) # {}

\* deduplicate_new_matches
Deduplicate ==
  /\ phase = "scan" /\ ScanOver /\ enum = "done" /\ writer = "done"
  /\ \E kept \in SUBSET Rows :
       /\ IF args.no_dedup THEN kept = Rows ELSE Merges(Rows, kept)
       /\ outcome' = [r \in {IF args.no_dedup THEN q
                             ELSE [q EXCEPT !.origins = MergedOrigins(Rows, q)] : q \in kept}
                        |-> Untried(r)]
  /\ phase' = "partition"
  /\ UNCHANGED <<args, scanVars, taskVars>>

-----------------------------------------------------------------------------
(* Validation.  A unit is one representative of the rows with one key:     *)
(* in the whole simple part of the store, then in one blob of a chunk.     *)
(* All units are futures of one task: a step runs from await to await.     *)

RowsIn(blobs) == {r \in Rows : r.blob \in blobs}
Unit == [blobs : SUBSET Blob, key : {KeyOf(m) : m \in Match}]
UnitsOf(blobs) == {[blobs |-> blobs, key |-> KeyOf(r.match)] : r \in RowsIn(blobs)}
Group(u) == {r \in RowsIn(u.blobs) : KeyOf(r.match) = u.key}

Untouched(units) == [u \in units |-> CHOOSE o \in {Untried(r) : r \in Group(u)} : TRUE]

Begin(units) ==
  /\ at' = [u \in units |-> "todo"]
  /\ result' = Untouched(units)

\* The blobs with a match of a dependent rule are put off to the second phase.
DependentBlobs == {r.blob : r \in {q \in Rows : q.match.rule \in Dependent}}

Partition ==
  /\ phase = "partition"
  /\ left' = DependentBlobs
  /\ Begin(UnitsOf({r.blob : r \in Rows} \ DependentBlobs))
  /\ phase' = "simple"
  /\ UNCHANGED <<args, scanVars, outcome, in_flight, val_cache, answers, overwritten>>

Active(u) == at[u] \in {"asking", "waiting"}
Open(blobs) == /\ \E u \in DOMAIN at : u.blobs = blobs /\ at[u] # "todo"
               /\ \E u \in DOMAIN at : u.blobs = blobs /\ at[u] # "done"

\* for_each_concurrent and buffer_unordered admit the unit.
Admitted(u) ==
  /\ at[u] = "todo"
  /\ Cardinality({v \in DOMAIN at : v.blobs = u.blobs /\ Active(v)}) < Concurrency
  /\ Cardinality({v.blobs : v \in {w \in DOMAIN at : Open(w.blobs)}} \ {u.blobs}) < Concurrency

RuleOf(u) == u.key[1]
Finish(u, o) == at' = [at EXCEPT ![u] = "done"] /\ result' = [result EXCEPT ![u] = o]
Refused(u) == RuleOf(u) \notin Authoritative \/ \E r \in Group(u) : r.match.context = Ambiguous

\* No validator may run, or the components are ambiguous.
Skip(u) ==
  /\ Admitted(u) /\ Refused(u)
  /\ \E r \in Group(u) :
       Finish(u, [request |-> RequestOf(r.match),
                  status  |-> IF RuleOf(u) \in Authoritative THEN "skipped" ELSE "not_attempted"])
  /\ UNCHANGED <<args, phase, scanVars, outcome, left, in_flight, val_cache, answers, overwritten>>

\* The outcome is in the cache of the phase.
Hit(u) ==
  /\ Admitted(u) /\ ~Refused(u) /\ u.key \in DOMAIN val_cache
  /\ Finish(u, val_cache[u.key])
  /\ UNCHANGED <<args, phase, scanVars, outcome, left, in_flight, val_cache, answers, overwritten>>

\* Fault: the key is looked up in in_flight and inserted without its entry.
ClaimAlways(u) ==
  /\ Admitted(u) /\ ~Refused(u) /\ u.key \notin DOMAIN val_cache
  /\ at' = [at EXCEPT ![u] = "asking"]
  /\ in_flight' = in_flight \cup {u.key}
  /\ UNCHANGED <<args, phase, scanVars, outcome, left, result, val_cache, answers, overwritten>>

\* The entry of in_flight decides who asks and who waits.
Claim(u) ==
  /\ Admitted(u) /\ ~Refused(u) /\ u.key \notin DOMAIN val_cache
  /\ at' = [at EXCEPT ![u] = IF u.key \in in_flight THEN "waiting" ELSE "asking"]
  /\ in_flight' = in_flight \cup {u.key}
  /\ UNCHANGED <<args, phase, scanVars, outcome, left, result, val_cache, answers, overwritten>>

\* What a validation that ran may end with: without its components, or with what
\* the validator, its panic or its timeout says.
Replies(request) ==
  {[request |-> request, status |-> s] :
     s \in IF request.rule \in Dependent /\ request.context = NoContext
             THEN {"skipped"} ELSE {"unavailable", "inactive", "active"}}

\* The wait for the task of another repository has timed out: nothing is published.
GivenUp(request) == {[request |-> request, status |-> "unavailable"]}

\* Fault: the process-wide cache is not asked.
VerdictAsked(r, published) ==
  IF published THEN Replies(RequestOf(r.match)) ELSE GivenUp(RequestOf(r.match))

\* validate_single_match has returned: with the answer the process-wide cache has
\* for the key, or with a reply of its own, which it publishes.
Verdict(r, published) ==
  IF KeyOf(r.match) \in DOMAIN answers THEN {answers[KeyOf(r.match)]}
  ELSE IF published THEN Replies(RequestOf(r.match)) ELSE GivenUp(RequestOf(r.match))

\* The owner leaves its outcome in the cache of the phase and gives the key back.
Answer(u) ==
  /\ at[u] = "asking"
  /\ \E r \in Group(u), published \in BOOLEAN : \E o \in Verdict(r, published) :
       /\ Finish(u, o)
       /\ val_cache' = Put(val_cache, u.key, o)
       /\ answers' = IF published THEN Put(answers, u.key, o) ELSE answers
  /\ in_flight' = in_flight \ {u.key}
  /\ UNCHANGED <<args, phase, scanVars, outcome, left, overwritten>>

\* The owner of a task in another repository, on another thread, publishes.  It may
\* have missed the key in the cache before it was there and claimed it after it was
\* given back: the insert replaces the answer.  (An owner of this scan that was
\* overtaken so publishes over the other's answer and returns its own, which is
\* this step followed by Answer.)
Republish(k) ==
  /\ phase \in {"simple", "dependent"}
  /\ \E o \in Replies(RequestFor(k)) : answers' = Put(answers, k, o)
  /\ overwritten' = IF k \in DOMAIN answers THEN overwritten \cup {k} ELSE overwritten
  /\ UNCHANGED <<args, phase, scanVars, outcome, left, at, result, in_flight, val_cache>>

\* The owner has completed: its outcome is in the cache.
Wake(u) ==
  /\ at[u] = "waiting" /\ u.key \notin in_flight
  /\ Finish(u, IF u.key \in DOMAIN val_cache THEN val_cache[u.key] ELSE result[u])
  /\ UNCHANGED <<args, phase, scanVars, outcome, left, in_flight, val_cache, answers, overwritten>>

AllDone == \A u \in DOMAIN at : at[u] = "done"
ResultsFor(r) == {result[u] : u \in {v \in DOMAIN at : v.key = KeyOf(r.match)}}

\* The next chunk of dependent blobs, in the order of their ids.
Chunk == {b \in left : Cardinality({x \in left : x < b}) < ChunkSize}

\* Fault: the loop over the chunks ends with the last one that is full.
BeginFullChunk ==
  /\ left' = left \ Chunk
  /\ Begin(UNION {UnitsOf({b}) : b \in Chunk})
  /\ phase' = IF Cardinality(left) < ChunkSize THEN "done" ELSE "dependent"

BeginChunk ==
  /\ left' = left \ Chunk
  /\ Begin(UNION {UnitsOf({b}) : b \in Chunk})
  /\ phase' = IF left = {} THEN "done" ELSE "dependent"

\* The outcomes of the first phase go to every row of a simple rule with the
\* key, the ones in dependent blobs included.  The second phase has caches of
\* its own.
EndSimple ==
  /\ phase = "simple" /\ AllDone
  /\ outcome' = [r \in Rows |->
       IF r.match.rule \in Dependent \/ ResultsFor(r) = {} THEN outcome[r]
                                                         ELSE CHOOSE o \in ResultsFor(r) : TRUE]
  /\ BeginChunk
  /\ val_cache' = NoRows /\ in_flight' = {}
  /\ UNCHANGED <<args, scanVars, answers, overwritten>>

\* The rows dep_updates does not tell apart.
SamePlace(r1, r2) == /\ r1.blob = r2.blob
                     /\ r1.match.span = r2.match.span /\ r1.match.rule = r2.match.rule

\* The outcomes of the chunk go back by blob, span and rule: of the rows that
\* share them the last one inserted decides.
EndChunk ==
  /\ phase = "dependent" /\ AllDone
  /\ LET chunk == RowsIn(UNION {u.blobs : u \in DOMAIN at})
         own(r) == result[[blobs |-> {r.blob}, key |-> KeyOf(r.match)]]
     IN \E last \in SUBSET chunk :
          /\ \A r \in chunk : \E q \in last : SamePlace(q, r)
          /\ \A q, r \in last : SamePlace(q, r) => q = r
          /\ outcome' = [r \in Rows |->
               IF r \in chunk THEN own(CHOOSE q \in last : SamePlace(q, r)) ELSE outcome[r]]
  /\ BeginChunk
  /\ UNCHANGED <<args, scanVars, in_flight, val_cache, answers, overwritten>>

-----------------------------------------------------------------------------
ScanNext ==
  \/ \E i \in Input : Enumerate(i)
  \/ \E verdict \in {"done", "failed"} : EnumeratorEnds(verdict)
  \/ \E w \in Worker : Take(w) \/ Unreadable(w) \/ ScanBlob(w) \/ Send(w)
  \/ Receive \/ Flush \/ WriterEnds
  \/ ScanFails \/ Deduplicate

ValidateNext ==
  \/ Partition
  \/ \E u \in DOMAIN at : Skip(u) \/ Hit(u) \/ Claim(u) \/ Answer(u) \/ Wake(u)
  \/ EndSimple \/ EndChunk

Next == ScanNext \/ ValidateNext \/ \E k \in Elsewhere : Republish(k)

Spec == Init /\ [][Next]_vars

\* What the steps of this scan change, every one of them something; what other
\* repositories publish is not among it.
ownVars == <<args, phase, scanVars, outcome, left, at, result, in_flight, val_cache>>

\* The threads of this scan run, and every validation is bounded by its timeout.
FairSpec == Spec /\ WF_ownVars(Next)

-----------------------------------------------------------------------------
(* What the scan guarantees.                                               *)

Found(i) == {MatchesOf[i][k] : k \in DOMAIN MatchesOf[i]}
InStore(m) == \E r \in Rows : RequestOf(r.match) = RequestOf(m)

\* A content that a worker has claimed is not matched again, wherever else it
\* occurs: so what was found in it is in the store, or on its way there, in a
\* worker's hands, the channel or the writer's batch.  (scan_blob, seen_blobs)
ClaimedContentIsOnItsWay ==
  \A b \in seen_blobs : \E i \in Input :
    /\ BlobOf[i] = b
    /\ \A m \in Found(i) :
         \/ InStore(m)
         \/ \E k \in DOMAIN ds : RequestOf(ds[k].match) = RequestOf(m)
         \/ \E k \in DOMAIN batch : RequestOf(batch[k].match) = RequestOf(m)
         \/ \E w \in Worker : /\ work[w].input # Nothing /\ BlobOf[work[w].input] = b
                              /\ \E k \in DOMAIN work[w].todo : work[w].todo[k] = m

Scanned == phase \notin {"scan", "failed"}

\* A scan that does not report itself as partial has kept, for every content,
\* what the matcher found under one of its paths, and with --no-dedup every
\* match under every path: the last batch, a full channel or an input that
\* could not be read never loses a finding silently.
CompleteScansMissNothing ==
  Scanned /\ ~had_errors =>
    IF args.no_dedup
      THEN \A i \in Input : \A m \in Found(i) :
             [origins |-> {i}, blob |-> BlobOf[i], match |-> m] \in Rows
      ELSE \A b \in Blob : \E i \in Input :
             BlobOf[i] = b /\ \A m \in Found(i) : InStore(m)

\* Without --no-dedup a request is in the store once, and a helper once for
\* each blob until the rows are merged, once for each span afterwards; and no
\* merge gives a finding the path of another.  (record, deduplicate_matches)
StoreIsExact ==
  /\ ~args.no_dedup =>
       \A r, q \in Rows :
         /\ RequestOf(r.match) = RequestOf(q.match)
         /\ r.match.rule \in Helper => IF Scanned THEN r.match = q.match ELSE r.blob = q.blob
         => r = q
  /\ \A r \in Rows : \A i \in r.origins : r.match \in Found(i)

\* The outcome of a row answers the request for this very credential with
\* these very components, whatever was shared on the way: groups, the caches of
\* the two phases, the chunks, the process-wide cache.  The exception is a
\* match at the same place of the same content, under the same rule, from
\* which the write-back does not tell it apart.
OutcomesAnswerTheirRequest ==
  \A r \in Rows : \E q \in Rows :
    SamePlace(q, r) /\ outcome[r].request = RequestOf(q.match)

\* What a phase finds out about a credential is the same in all its blobs and
\* chunks, whatever other repositories put into the process-wide cache meanwhile;
\* and the two phases, which both validate the simple rules of dependent blobs,
\* call a credential active and inactive only if an owner of another repository
\* has replaced the answer in between.  (cache_validation_result, run_secret_validation)
VerdictsAgree ==
  \A r, q \in Rows : outcome[r].request = outcome[q].request =>
    /\ phase = "done" /\ (r.blob \in DependentBlobs <=> q.blob \in DependentBlobs)
         => outcome[r] = outcome[q]
    /\ {outcome[r].status, outcome[q].status} = {"active", "inactive"}
         => KeyFor(outcome[r].request) \in overwritten

\* When the scan is over every row with a validator has an outcome, the ones of
\* the last chunk and the ones whose future waited for another included.
EveryRowIsAnswered ==
  phase = "done" =>
    \A r \in Rows : r.match.rule \in Authoritative => outcome[r].status # "not_attempted"

\* A request is never sent by two futures at a time, nor again once its outcome
\* is in the cache of the phase.
RequestsAreShared ==
  \A u, v \in DOMAIN at :
    /\ at[u] = "asking" /\ at[v] = "asking" /\ u.key = v.key => u = v
    /\ at[u] = "asking" => u.key \notin DOMAIN val_cache

\* The threads of the scan do not wait for each other in a circle, through two
\* bounded channels and the joins, and the futures do not wait for an owner that
\* is gone: the scan comes to an end.
EveryScanEnds == <>(phase \in {"done", "failed"})
=============================================================================
