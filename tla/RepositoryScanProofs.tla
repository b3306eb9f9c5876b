------------------------ MODULE RepositoryScanProofs ------------------------
(***************************************************************************)
(* The scan of a repository, for every set of inputs, rules, workers and   *)
(* bounds: what its validation shares and where the outcomes go, that      *)
(* every row is answered, and that what the workers find reaches the store *)
(* once and with its own paths.                                            *)
(***************************************************************************)
EXTENDS RepositoryScan, FiniteSetTheorems, WellFoundedInduction, NaturalsInduction, TLAPS

\* What happens: a step of the scan, a step of the validation, or something that
\* changes no more than the process-wide cache.
LEMMA StepKinds == [Next]_vars => ScanNext \/ ValidateNext \/ UNCHANGED ownVars
  BY DEF Next, Republish, vars, ownVars, taskVars

-----------------------------------------------------------------------------
(* One request at a time.                                                  *)

\* The key of a future that asks is in in_flight, it asks alone, and the key has
\* no outcome in the cache of the phase.
AskingInv ==
  \A u, v \in DOMAIN at :
    /\ at[u] = "asking" => u.key \in in_flight /\ u.key \notin DOMAIN val_cache
    /\ at[u] = "asking" /\ at[v] = "asking" /\ u.key = v.key => u = v

\* The units of a phase or chunk begin without asking.
LEMMA BeginAsksNothing ==
  ASSUME NEW units, Begin(units)
  PROVE  AskingInv'
  BY DEF Begin, AskingInv

\* Every step keeps the asking futures apart.
LEMMA AskingNext == AskingInv /\ [Next]_vars => AskingInv'
<1> SUFFICES ASSUME AskingInv, [Next]_vars PROVE AskingInv'
  OBVIOUS
<1>1. CASE ScanNext \/ UNCHANGED ownVars
  <2>1. UNCHANGED <<at, in_flight, val_cache>>
    BY <1>1 DEF ScanNext, ownVars, taskVars, Enumerate, EnumeratorEnds, Take, Unreadable, ScanBlob, Send,
                Receive, Flush, WriterEnds, ScanFails, Deduplicate
  <2>2. QED
    BY <2>1 DEF AskingInv
<1>2. CASE Partition
  BY <1>2, BeginAsksNothing DEF Partition
<1>3. CASE EndSimple \/ EndChunk
  BY <1>3, BeginAsksNothing DEF EndSimple, EndChunk, BeginChunk
<1>4. ASSUME NEW u \in DOMAIN at, Skip(u) \/ Hit(u) \/ Wake(u) PROVE AskingInv'
  BY <1>4 DEF Skip, Hit, Wake, Finish, AskingInv
<1>5. ASSUME NEW u \in DOMAIN at, Claim(u) PROVE AskingInv'
  BY <1>5 DEF Claim, AskingInv
<1>6. ASSUME NEW u \in DOMAIN at, Answer(u) PROVE AskingInv'
  <2>1. at[u] = "asking" /\ at' = [at EXCEPT ![u] = "done"] /\ in_flight' = in_flight \ {u.key}
    BY <1>6 DEF Answer, Finish
  <2>2. DOMAIN val_cache' = DOMAIN val_cache \cup {u.key}
    BY <1>6 DEF Answer, Put
  <2>3. QED
    BY <2>1, <2>2 DEF AskingInv
<1>7. QED
  BY <1>1, <1>2, <1>3, <1>4, <1>5, <1>6, StepKinds DEF ValidateNext

\* A request is never sent by two futures at a time, nor again once its outcome
\* is in the cache of the phase.
THEOREM Sharing == Spec => []RequestsAreShared
<1>1. Init => AskingInv
  BY DEF Init, NoRows, AskingInv
<1>2. AskingInv => RequestsAreShared
  BY DEF AskingInv, RequestsAreShared
<1>3. QED
  BY <1>1, <1>2, AskingNext, PTL DEF Spec

-----------------------------------------------------------------------------
(* Every outcome answers the request of its row.                           *)

\* A key determines the request, and a request the key.
LEMMA KeysAreRequests == \A m : RequestOf(m) = RequestFor(KeyOf(m))
  BY DEF RequestOf, RequestFor, KeyOf

LEMMA SameRequestSameKey == \A m, n : RequestOf(m) = RequestOf(n) => KeyOf(m) = KeyOf(n)
<1> SUFFICES ASSUME NEW m, NEW n, RequestOf(m) = RequestOf(n) PROVE KeyOf(m) = KeyOf(n)
  OBVIOUS
<1>1. m.rule = n.rule /\ m.secret = n.secret /\ m.context = n.context
  BY DEF RequestOf
<1>2. QED
  BY <1>1 DEF KeyOf

\* An outcome under a key answers the request the key stands for, and a verdict
\* is the one the process-wide cache holds, unless another one has replaced it.
Sound(o, k, cache, replaced) ==
  /\ o.request = RequestFor(k)
  /\ o.status \in {"active", "inactive"} => k \in replaced \/ (k \in DOMAIN cache /\ cache[k] = o)

AnswersInv == \A k \in DOMAIN answers : Sound(answers[k], k, answers, overwritten)
CacheInv == \A k \in DOMAIN val_cache : Sound(val_cache[k], k, answers, overwritten)
ResultInv ==
  /\ DOMAIN result = DOMAIN at
  /\ \A u \in DOMAIN at : Sound(result[u], u.key, answers, overwritten)
StoreInv ==
  \A r \in Rows : \E q \in Rows :
    SamePlace(q, r) /\ Sound(outcome[r], KeyOf(q.match), answers, overwritten)

\* The store is complete before the first validation, and the units of a chunk
\* cover its rows.
PhaseInv ==
  /\ phase \notin {"scan", "failed"} => writer = "done"
  /\ phase \in {"scan", "failed", "partition"} => DOMAIN at = {}
  /\ phase = "dependent" =>
       \A u \in DOMAIN at : \A r \in RowsIn(u.blobs) :
         [blobs |-> {r.blob}, key |-> KeyOf(r.match)] \in DOMAIN at

OutcomeInv == AnswersInv /\ CacheInv /\ ResultInv /\ StoreInv /\ PhaseInv

\* A row that has not been validated has a sound outcome.
LEMMA UntriedIsSound == \A r, cache, replaced : Sound(Untried(r), KeyOf(r.match), cache, replaced)
  BY KeysAreRequests DEF Sound, Untried

\* A row is in its own place.
LEMMA SamePlaceItself == \A r : SamePlace(r, r)
  BY DEF SamePlace

\* The phases follow one another.
LEMMA PhaseNext == PhaseInv /\ [Next]_vars => PhaseInv'
<1> SUFFICES ASSUME PhaseInv, [Next]_vars PROVE PhaseInv'
  OBVIOUS
<1>1. CASE UNCHANGED <<phase, at, writer>> /\ DOMAIN outcome' = DOMAIN outcome
  BY <1>1 DEF PhaseInv, RowsIn, Rows
<1>2. CASE writer = "running" /\ UNCHANGED <<phase, at>>
  BY <1>2 DEF PhaseInv
<1>3. CASE ScanNext
  <2>1. ASSUME NEW i, Enumerate(i) PROVE UNCHANGED <<phase, at, writer, outcome>>
    BY <2>1 DEF Enumerate, storeVars, taskVars
  <2>2. ASSUME NEW v, EnumeratorEnds(v) PROVE UNCHANGED <<phase, at, writer, outcome>>
    BY <2>2 DEF EnumeratorEnds, storeVars, taskVars
  <2>3. ASSUME NEW w, Take(w) \/ Unreadable(w) \/ ScanBlob(w) \/ Send(w)
        PROVE  UNCHANGED <<phase, at, writer, outcome>>
    BY <2>3 DEF Take, Unreadable, ScanBlob, Send, storeVars, taskVars
  <2>4. CASE Receive \/ Flush \/ WriterEnds
    BY <1>2, <2>4 DEF Receive, Flush, WriterEnds, taskVars
  <2>5. CASE ScanFails \/ Deduplicate
    BY <2>5 DEF ScanFails, Deduplicate, PhaseInv, scanVars, storeVars, taskVars
  <2>6. QED
    BY <1>1, <1>3, <2>1, <2>2, <2>3, <2>4, <2>5 DEF ScanNext
<1>4. CASE Partition
  BY <1>4 DEF Partition, PhaseInv, scanVars, storeVars
<1>5. CASE EndSimple \/ EndChunk
  <2>1. /\ BeginChunk /\ phase \in {"simple", "dependent"} /\ writer' = writer
        /\ DOMAIN outcome' = Rows
    BY <1>5 DEF EndSimple, EndChunk, scanVars, storeVars
  <2>2. phase' \in {"done", "dependent"} /\ writer' = "done"
    BY <2>1 DEF PhaseInv, BeginChunk
  <2>3. ASSUME NEW u \in DOMAIN at', NEW r \in RowsIn(u.blobs)'
        PROVE  [blobs |-> {r.blob}, key |-> KeyOf(r.match)] \in DOMAIN at'
    <3> DEFINE units == UNION {UnitsOf({b}) : b \in Chunk}
    <3>1. DOMAIN at' = units
      BY <2>1 DEF BeginChunk, Begin
    <3>2. PICK b \in Chunk : u \in UnitsOf({b})
      BY <3>1
    <3>3. r \in Rows /\ r.blob = b
      BY <2>1, <3>2 DEF UnitsOf, RowsIn, Rows
    <3>4. [blobs |-> {r.blob}, key |-> KeyOf(r.match)] \in UnitsOf({b})
      BY <3>3 DEF UnitsOf, RowsIn
    <3>5. QED
      BY <3>1, <3>4
  <2>4. QED
    BY <2>2, <2>3 DEF PhaseInv
<1>6. ASSUME NEW u \in DOMAIN at, Skip(u) \/ Hit(u) \/ Claim(u) \/ Answer(u) \/ Wake(u)
      PROVE  PhaseInv'
  <2>1. UNCHANGED <<phase, writer, outcome>> /\ DOMAIN at' = DOMAIN at
    BY <1>6 DEF Skip, Hit, Claim, Answer, Wake, Finish, scanVars, storeVars
  <2>2. QED
    BY <2>1 DEF PhaseInv, RowsIn, Rows
<1>7. CASE UNCHANGED ownVars
  BY <1>1, <1>7 DEF ownVars, scanVars, storeVars
<1>8. QED
  BY <1>3, <1>4, <1>5, <1>6, <1>7, StepKinds DEF ValidateNext

\* The process-wide cache keeps its entries, but for those it notes as replaced.
CacheGrows ==
  /\ overwritten \subseteq overwritten'
  /\ \A n \in DOMAIN answers :
       n \in overwritten' \/ (n \in DOMAIN answers' /\ answers'[n] = answers[n])

\* Verdicts stay sound meanwhile.
LEMMA SoundStays ==
  ASSUME NEW o, NEW k, Sound(o, k, answers, overwritten), CacheGrows
  PROVE  Sound(o, k, answers', overwritten')
  BY DEF Sound, CacheGrows

\* The outcomes the units begin with are those of untried rows.
LEMMA BeginIsSound ==
  ASSUME NEW units, Begin(units),
         \A u \in units : Group(u) # {}
  PROVE  ResultInv'
<1>1. DOMAIN at' = units /\ DOMAIN result' = units
  BY DEF Begin, Untouched
<1>2. ASSUME NEW u \in units
      PROVE  Sound(result'[u], u.key, answers', overwritten')
  <2> DEFINE S == {Untried(r) : r \in Group(u)}
  <2>1. result'[u] = CHOOSE o \in S : TRUE
    BY DEF Begin, Untouched
  <2>2. \E o \in S : TRUE
    OBVIOUS
  <2>3. PICK r \in Group(u) : result'[u] = Untried(r)
    BY <2>1, <2>2
  <2>4. KeyOf(r.match) = u.key
    BY DEF Group
  <2>5. result'[u].request = RequestFor(u.key) /\ result'[u].status = "not_attempted"
    BY <2>3, <2>4, KeysAreRequests DEF Untried
  <2>6. QED
    BY <2>5 DEF Sound
<1>3. QED
  BY <1>1, <1>2 DEF ResultInv

\* A unit has rows.
LEMMA UnitsHaveRows ==
  ASSUME NEW blobs, NEW u \in UnitsOf(blobs)
  PROVE  Group(u) # {}
  BY DEF UnitsOf, Group, RowsIn

\* The units of a chunk begin with sound results.
LEMMA ChunkIsSound ==
  ASSUME BeginChunk
  PROVE  ResultInv'
<1>1. \A u \in UNION {UnitsOf({b}) : b \in Chunk} : Group(u) # {}
  BY UnitsHaveRows
<1>2. QED
  BY <1>1, BeginIsSound DEF BeginChunk

\* A step of the scan leaves the validation alone, and gives its rows no verdict.
LEMMA ScanKeepsOutcomes ==
  ASSUME OutcomeInv, ScanNext
  PROVE  AnswersInv' /\ CacheInv' /\ ResultInv' /\ StoreInv'
<1>1. UNCHANGED taskVars
  BY DEF ScanNext, Enumerate, EnumeratorEnds, Take, Unreadable, ScanBlob, Send,
         Receive, Flush, WriterEnds, ScanFails, Deduplicate
<1>2. AnswersInv' /\ CacheInv' /\ ResultInv'
  BY <1>1 DEF OutcomeInv, AnswersInv, CacheInv, ResultInv, Sound, taskVars
<1>3. ASSUME NEW r \in DOMAIN outcome', outcome'[r] = Untried(r)
      PROVE  \E q \in DOMAIN outcome' :
          SamePlace(q, r) /\ Sound(outcome'[r], KeyOf(q.match), answers', overwritten')
  BY <1>3, UntriedIsSound, SamePlaceItself
<1>4. CASE UNCHANGED outcome
  BY <1>1, <1>2, <1>4 DEF OutcomeInv, StoreInv, Rows, taskVars
<1>5. CASE Commit
  <2>1. outcome' = [r \in Rows \cup Recorded(batch) |->
                     IF r \in Rows THEN outcome[r] ELSE Untried(r)]
    BY <1>5 DEF Commit
  <2>2. ASSUME NEW r \in DOMAIN outcome'
        PROVE  \E q \in DOMAIN outcome' :
          SamePlace(q, r) /\ Sound(outcome'[r], KeyOf(q.match), answers', overwritten')
    <3>1. CASE r \in Rows
      BY <1>1, <2>1, <3>1 DEF OutcomeInv, StoreInv, taskVars
    <3>2. CASE r \notin Rows
      BY <1>3, <2>1, <3>2
    <3>3. QED
      BY <3>1, <3>2
  <2>3. QED
    BY <1>1, <1>2, <2>2 DEF StoreInv, Rows, taskVars
<1>6. CASE Deduplicate
  <2>1. \A r \in DOMAIN outcome' : outcome'[r] = Untried(r)
    BY <1>6 DEF Deduplicate
  <2>2. QED
    BY <1>1, <1>2, <1>3, <2>1 DEF StoreInv, Rows, taskVars
<1>7. UNCHANGED outcome \/ Commit \/ Deduplicate
  BY DEF ScanNext, Enumerate, EnumeratorEnds, Take, Unreadable, ScanBlob, Send,
         Receive, Flush, WriterEnds, ScanFails
<1>8. QED
  BY <1>2, <1>4, <1>5, <1>6, <1>7

\* A unit that ends with a sound outcome leaves the others theirs.
LEMMA FinishIsSound ==
  ASSUME ResultInv, NEW u \in DOMAIN at, NEW o, Finish(u, o),
         Sound(o, u.key, answers', overwritten'), CacheGrows
  PROVE  ResultInv'
<1>1. DOMAIN at' = DOMAIN at /\ DOMAIN result' = DOMAIN result
  BY DEF Finish
<1>2. ASSUME NEW v \in DOMAIN at
      PROVE  Sound(result'[v], v.key, answers', overwritten')
  <2>1. CASE v = u
    BY <2>1 DEF Finish, ResultInv
  <2>2. CASE v # u
    <3>1. result'[v] = result[v]
      BY <2>2 DEF Finish, ResultInv
    <3>2. Sound(result[v], v.key, answers, overwritten)
      BY DEF ResultInv
    <3>3. QED
      BY <3>1, <3>2, SoundStays
  <2>3. QED
    BY <2>1, <2>2
<1>3. QED
  BY <1>1, <1>2 DEF ResultInv

\* validate_single_match returns the answer of the process-wide cache or a new
\* one, and a verdict only if it is published.
LEMMA VerdictIsSound ==
  ASSUME AnswersInv, NEW r, NEW published \in BOOLEAN, NEW o \in Verdict(r, published),
         overwritten' = overwritten,
         answers' = IF published THEN Put(answers, KeyOf(r.match), o) ELSE answers
  PROVE  /\ Sound(o, KeyOf(r.match), answers', overwritten') /\ AnswersInv'
         /\ CacheGrows
<1> DEFINE k == KeyOf(r.match)
<1>1. CASE k \in DOMAIN answers
  <2>1. o = answers[k]
    BY <1>1 DEF Verdict
  <2>2. /\ DOMAIN answers' = DOMAIN answers
        /\ \A n \in DOMAIN answers : answers'[n] = answers[n]
    BY <1>1, <2>1 DEF Put
  <2>3. QED
    BY <1>1, <2>1, <2>2 DEF AnswersInv, Sound, CacheGrows
<1>2. CASE k \notin DOMAIN answers
  <2>1. /\ o.request = RequestOf(r.match)
        /\ ~published => o.status = "unavailable"
    BY <1>2 DEF Verdict, Replies, GivenUp
  <2>2. o.request = RequestFor(k)
    BY <2>1, KeysAreRequests
  <2>3. CASE published
    <3>1. /\ DOMAIN answers' = DOMAIN answers \cup {k} /\ answers'[k] = o
          /\ \A n \in DOMAIN answers : answers'[n] = answers[n]
      BY <1>2, <2>3 DEF Put
    <3>2. QED
      BY <1>2, <2>2, <3>1 DEF AnswersInv, Sound, CacheGrows
  <2>4. CASE ~published
    BY <2>1, <2>2, <2>4 DEF AnswersInv, Sound, CacheGrows
  <2>5. QED
    BY <2>3, <2>4
<1>3. QED
  BY <1>1, <1>2

\* What another repository publishes answers the key, and is noted if it replaces.
LEMMA RepublishIsSound ==
  ASSUME AnswersInv, NEW k \in Elsewhere, Republish(k)
  PROVE  AnswersInv' /\ CacheGrows
<1>1. PICK o \in Replies(RequestFor(k)) : answers' = Put(answers, k, o)
  BY DEF Republish
<1>2. overwritten' = IF k \in DOMAIN answers THEN overwritten \cup {k} ELSE overwritten
  BY DEF Republish
<1>3. o.request = RequestFor(k)
  BY DEF Replies
<1>4. /\ DOMAIN answers' = DOMAIN answers \cup {k} /\ answers'[k] = o
      /\ \A n \in DOMAIN answers : n # k => answers'[n] = answers[n]
  BY <1>1 DEF Put
<1>5. CacheGrows
  BY <1>2, <1>4 DEF CacheGrows
<1>6. ASSUME NEW n \in DOMAIN answers' PROVE Sound(answers'[n], n, answers', overwritten')
  <2>1. CASE n = k
    BY <1>3, <1>4, <2>1 DEF Sound
  <2>2. CASE n # k
    <3>1. n \in DOMAIN answers /\ answers'[n] = answers[n]
      BY <1>4, <2>2
    <3>2. Sound(answers[n], n, answers, overwritten)
      BY <3>1 DEF AnswersInv
    <3>3. QED
      BY <1>5, <3>1, <3>2, SoundStays
  <2>3. QED
    BY <2>1, <2>2
<1>7. QED
  BY <1>5, <1>6 DEF AnswersInv

\* Where the outcomes are written back: to the rows of the key in the first
\* phase, to the rows of the place in the second.
LEMMA WriteBackIsSound ==
  ASSUME OutcomeInv, EndSimple \/ EndChunk
  PROVE  StoreInv'
<1>1. UNCHANGED <<answers, overwritten>> /\ DOMAIN outcome' = Rows
  BY DEF EndSimple, EndChunk
<1>2. SUFFICES ASSUME NEW r \in Rows
               PROVE  \E q \in Rows :
                        SamePlace(q, r) /\ Sound(outcome'[r], KeyOf(q.match), answers, overwritten)
  BY <1>1 DEF StoreInv, Rows
<1>3. CASE outcome'[r] = outcome[r]
  BY <1>3 DEF OutcomeInv, StoreInv
<1>4. CASE EndSimple /\ outcome'[r] # outcome[r]
  <2>1. ResultsFor(r) # {} /\ outcome'[r] = CHOOSE o \in ResultsFor(r) : TRUE
    BY <1>4 DEF EndSimple
  <2>2. PICK u \in DOMAIN at : u.key = KeyOf(r.match) /\ outcome'[r] = result[u]
    BY <2>1 DEF ResultsFor
  <2>3. Sound(outcome'[r], KeyOf(r.match), answers, overwritten)
    BY <2>2 DEF OutcomeInv, ResultInv
  <2>4. QED
    BY <2>3, SamePlaceItself
<1>5. CASE EndChunk /\ outcome'[r] # outcome[r]
  <2> DEFINE chunk == RowsIn(UNION {u.blobs : u \in DOMAIN at})
             own(q) == result[[blobs |-> {q.blob}, key |-> KeyOf(q.match)]]
  <2>1. PICK last \in SUBSET chunk :
          /\ \A p \in chunk : \E q \in last : SamePlace(q, p)
          /\ \A p \in Rows : outcome'[p] =
               IF p \in chunk THEN own(CHOOSE q \in last : SamePlace(q, p)) ELSE outcome[p]
    BY <1>5 DEF EndChunk
  <2> DEFINE q == CHOOSE p \in last : SamePlace(p, r)
  <2>2. r \in chunk
    BY <1>5, <2>1
  <2>3. q \in last /\ SamePlace(q, r)
    BY <2>1, <2>2
  <2>4. q \in Rows /\ [blobs |-> {q.blob}, key |-> KeyOf(q.match)] \in DOMAIN at
    BY <1>5, <2>3 DEF OutcomeInv, PhaseInv, RowsIn, EndChunk
  <2>5. outcome'[r] = own(q)
    BY <2>1, <2>2
  <2>6. Sound(outcome'[r], KeyOf(q.match), answers, overwritten)
    BY <2>4, <2>5 DEF OutcomeInv, ResultInv
  <2>7. QED
    BY <2>3, <2>4, <2>6
<1>6. QED
  BY <1>3, <1>4, <1>5

\* Every step keeps the outcomes sound.
LEMMA OutcomeNext == OutcomeInv /\ [Next]_vars => OutcomeInv'
<1> SUFFICES ASSUME OutcomeInv, [Next]_vars PROVE OutcomeInv'
  OBVIOUS
<1>1. PhaseInv'
  BY PhaseNext DEF OutcomeInv
<1>2. CASE ScanNext
  BY <1>1, <1>2, ScanKeepsOutcomes DEF OutcomeInv
<1>3. CASE UNCHANGED vars
  BY <1>1, <1>3
     DEF vars, taskVars, OutcomeInv, AnswersInv, CacheInv, ResultInv, StoreInv, Rows
<1>4. CASE Partition
  <2>1. UNCHANGED <<answers, overwritten, val_cache, outcome>>
    BY <1>4 DEF Partition
  <2>2. ResultInv'
    BY <1>4, UnitsHaveRows, BeginIsSound DEF Partition
  <2>3. QED
    BY <1>1, <2>1, <2>2 DEF OutcomeInv, AnswersInv, CacheInv, StoreInv, Rows
<1>5. CASE EndSimple \/ EndChunk
  <2>1. ResultInv' /\ StoreInv'
    BY <1>5, ChunkIsSound, WriteBackIsSound DEF EndSimple, EndChunk
  <2>2. UNCHANGED <<answers, overwritten>> /\ (val_cache' = val_cache \/ val_cache' = NoRows)
    BY <1>5 DEF EndSimple, EndChunk
  <2>3. QED
    BY <1>1, <2>1, <2>2 DEF OutcomeInv, AnswersInv, CacheInv, NoRows
<1>6. ASSUME NEW u \in DOMAIN at, Skip(u) PROVE OutcomeInv'
  <2>1. UNCHANGED <<answers, overwritten, val_cache, outcome>>
    BY <1>6 DEF Skip
  <2>2. PICK r \in Group(u) :
          Finish(u, [request |-> RequestOf(r.match),
                     status |-> IF RuleOf(u) \in Authoritative THEN "skipped"
                                ELSE "not_attempted"])
    BY <1>6 DEF Skip
  <2>3. Sound([request |-> RequestOf(r.match),
               status |-> IF RuleOf(u) \in Authoritative THEN "skipped" ELSE "not_attempted"],
              u.key, answers, overwritten)
    BY KeysAreRequests DEF Sound, Group
  <2>4. ResultInv'
    BY <2>1, <2>2, <2>3, FinishIsSound DEF OutcomeInv, CacheGrows
  <2>5. QED
    BY <1>1, <2>1, <2>4 DEF OutcomeInv, AnswersInv, CacheInv, StoreInv, Rows
<1>7. ASSUME NEW u \in DOMAIN at, Hit(u) \/ Wake(u) PROVE OutcomeInv'
  <2>1. UNCHANGED <<answers, overwritten, val_cache, outcome>>
    BY <1>7 DEF Hit, Wake
  <2>2. PICK o : Finish(u, o) /\ Sound(o, u.key, answers, overwritten)
    BY <1>7 DEF Hit, Wake, OutcomeInv, CacheInv, ResultInv
  <2>3. ResultInv'
    BY <2>1, <2>2, FinishIsSound DEF OutcomeInv, CacheGrows
  <2>4. QED
    BY <1>1, <2>1, <2>3 DEF OutcomeInv, AnswersInv, CacheInv, StoreInv, Rows
<1>8. ASSUME NEW u \in DOMAIN at, Claim(u) PROVE OutcomeInv'
  <2>1. UNCHANGED <<answers, overwritten, val_cache, outcome, result>> /\ DOMAIN at' = DOMAIN at
    BY <1>8 DEF Claim
  <2>2. QED
    BY <1>1, <2>1 DEF OutcomeInv, AnswersInv, CacheInv, ResultInv, StoreInv, Rows
<1>9. ASSUME NEW u \in DOMAIN at, Answer(u) PROVE OutcomeInv'
  <2>1. PICK r \in Group(u), published \in BOOLEAN : \E o \in Verdict(r, published) :
          /\ Finish(u, o)
          /\ val_cache' = Put(val_cache, u.key, o)
          /\ answers' = IF published THEN Put(answers, u.key, o) ELSE answers
    BY <1>9 DEF Answer
  <2>2. PICK o \in Verdict(r, published) :
          /\ Finish(u, o)
          /\ val_cache' = Put(val_cache, u.key, o)
          /\ answers' = IF published THEN Put(answers, u.key, o) ELSE answers
    BY <2>1
  <2>3. KeyOf(r.match) = u.key
    BY DEF Group
  <2>4. /\ Sound(o, u.key, answers', overwritten') /\ AnswersInv'
        /\ CacheGrows
    BY <1>9, <2>2, <2>3, VerdictIsSound DEF OutcomeInv, Answer
  <2>5. ResultInv'
    BY <2>2, <2>4, FinishIsSound DEF OutcomeInv, CacheGrows
  <2>6. CacheInv'
    <3>1. ASSUME NEW n \in DOMAIN val_cache' PROVE Sound(val_cache'[n], n, answers', overwritten')
      <4>1. CASE n = u.key
        BY <2>2, <2>4, <4>1 DEF Put
      <4>2. CASE n # u.key
        <5>1. n \in DOMAIN val_cache /\ val_cache'[n] = val_cache[n]
          BY <2>2, <4>2 DEF Put
        <5>2. Sound(val_cache[n], n, answers, overwritten)
          BY <5>1 DEF OutcomeInv, CacheInv
        <5>3. QED
          BY <2>4, <5>1, <5>2, SoundStays
      <4>3. QED
        BY <4>1, <4>2
    <3>2. QED
      BY <3>1 DEF CacheInv
  <2>7. outcome' = outcome
    BY <1>9 DEF Answer
  <2>8. StoreInv'
    <3>1. ASSUME NEW p \in Rows
          PROVE  \E q \in Rows :
                   SamePlace(q, p) /\ Sound(outcome[p], KeyOf(q.match), answers', overwritten')
      <4>1. PICK q \in Rows :
              SamePlace(q, p) /\ Sound(outcome[p], KeyOf(q.match), answers, overwritten)
        BY DEF OutcomeInv, StoreInv
      <4>2. QED
        BY <2>4, <4>1, SoundStays
    <3>2. QED
      BY <2>7, <3>1 DEF StoreInv, Rows
  <2>9. QED
    BY <1>1, <2>4, <2>5, <2>6, <2>8 DEF OutcomeInv
<1>10. ASSUME NEW k \in Elsewhere, Republish(k) PROVE OutcomeInv'
  <2>1. UNCHANGED <<at, result, val_cache, outcome>>
    BY <1>10 DEF Republish
  <2>2. AnswersInv' /\ CacheGrows
    BY <1>10, RepublishIsSound DEF OutcomeInv
  <2>3. ResultInv' /\ CacheInv'
    BY <2>1, <2>2, SoundStays DEF OutcomeInv, ResultInv, CacheInv
  <2>4. ASSUME NEW p \in Rows
        PROVE  \E q \in Rows :
                 SamePlace(q, p) /\ Sound(outcome[p], KeyOf(q.match), answers', overwritten')
    <3>1. PICK q \in Rows :
            SamePlace(q, p) /\ Sound(outcome[p], KeyOf(q.match), answers, overwritten)
      BY DEF OutcomeInv, StoreInv
    <3>2. QED
      BY <2>2, <3>1, SoundStays
  <2>5. QED
    BY <1>1, <2>1, <2>2, <2>3, <2>4 DEF OutcomeInv, StoreInv, Rows
<1>11. QED
  BY <1>2, <1>3, <1>4, <1>5, <1>6, <1>7, <1>8, <1>9, <1>10 DEF Next, ValidateNext

\* The scan begins without outcomes.
LEMMA OutcomeInit == Init => OutcomeInv
  BY DEF Init, NoRows, OutcomeInv, AnswersInv, CacheInv, ResultInv, StoreInv, PhaseInv, Rows

\* The outcome of a row answers the request for its credential and components,
\* whatever was shared on the way, but for matches at one place under one rule.
THEOREM Answering == Spec => []OutcomesAnswerTheirRequest
<1>1. OutcomeInv => OutcomesAnswerTheirRequest
  BY KeysAreRequests DEF OutcomeInv, StoreInv, Sound, OutcomesAnswerTheirRequest
<1>2. QED
  BY <1>1, OutcomeInit, OutcomeNext, PTL DEF Spec

-----------------------------------------------------------------------------
(* Every row is answered.                                                  *)

\* Who waits has an owner or an outcome; who is done has been answered, and so
\* have the rows of the blobs that are behind.
Answered(o) == o.status # "not_attempted"
AnsweredInv ==
  /\ \A k \in DOMAIN val_cache : Answered(val_cache[k])
  /\ \A k \in DOMAIN answers : Answered(answers[k])
  /\ \A u \in DOMAIN at :
       /\ at[u] = "waiting" => u.key \in in_flight \cup DOMAIN val_cache
       /\ at[u] = "done" /\ RuleOf(u) \in Authoritative => Answered(result[u])
  /\ phase = "simple" =>
       \A r \in Rows : \/ r.blob \in left
                       \/ /\ r.match.rule \notin Dependent
                          /\ \E u \in DOMAIN at : u.key = KeyOf(r.match)
  /\ phase = "dependent" =>
       \A r \in Rows : r.match.rule \in Authoritative =>
         \/ r.blob \in left \/ Answered(outcome[r])
         \/ \E u \in DOMAIN at : r.blob \in u.blobs
  /\ EveryRowIsAnswered

\* The units of a chunk begin without an outcome, and cover its rows.
LEMMA ChunkCovers ==
  ASSUME BeginChunk, DOMAIN outcome' = Rows, NEW r \in Rows, r.blob \in left
  PROVE  r.blob \in left' \/ \E u \in DOMAIN at' : r.blob \in u.blobs
<1>1. left' = left \ Chunk /\ DOMAIN at' = UNION {UnitsOf({b}) : b \in Chunk}
  BY DEF BeginChunk, Begin
<1>2. CASE r.blob \in Chunk
  <2> DEFINE u == [blobs |-> {r.blob}, key |-> KeyOf(r.match)]
  <2>1. u \in UnitsOf({r.blob})
    BY DEF UnitsOf, RowsIn
  <2>2. u \in DOMAIN at' /\ r.blob \in u.blobs
    BY <1>1, <1>2, <2>1
  <2>3. QED
    BY <2>2
<1>3. QED
  BY <1>1, <1>2

\* A unit that ends has been answered, if its rule has a validator.
LEMMA FinishAnswers ==
  ASSUME ResultInv, AnsweredInv, NEW u \in DOMAIN at, NEW o, Finish(u, o),
         RuleOf(u) \in Authoritative => Answered(o),
         \A k \in DOMAIN val_cache' : Answered(val_cache'[k]),
         \A k \in DOMAIN answers' : Answered(answers'[k]),
         in_flight \cup DOMAIN val_cache \subseteq in_flight' \cup DOMAIN val_cache',
         UNCHANGED <<phase, outcome, left>>
  PROVE  AnsweredInv'
<1>1. DOMAIN at' = DOMAIN at
  BY DEF Finish
<1>2. ASSUME NEW v \in DOMAIN at
      PROVE  /\ at'[v] = "waiting" => v.key \in in_flight' \cup DOMAIN val_cache'
             /\ at'[v] = "done" /\ RuleOf(v) \in Authoritative => Answered(result'[v])
  <2>1. CASE v = u
    BY <2>1 DEF Finish, ResultInv
  <2>2. CASE v # u
    BY <2>2 DEF Finish, ResultInv, AnsweredInv
  <2>3. QED
    BY <2>1, <2>2
<1>3. QED
  BY <1>1, <1>2 DEF AnsweredInv, EveryRowIsAnswered, Rows

\* validate_single_match always has an outcome.
LEMMA VerdictAnswers ==
  ASSUME AnsweredInv, NEW r, NEW published \in BOOLEAN, NEW o \in Verdict(r, published)
  PROVE  Answered(o)
<1>1. CASE KeyOf(r.match) \in DOMAIN answers
  BY <1>1 DEF Verdict, AnsweredInv
<1>2. CASE KeyOf(r.match) \notin DOMAIN answers
  BY <1>2 DEF Verdict, Replies, GivenUp, Answered
<1>3. QED
  BY <1>1, <1>2

\* The write-back of the first phase answers the rows of the blobs it was for,
\* that of a chunk the rows of the chunk.
LEMMA WriteBackAnswers ==
  ASSUME OutcomeInv, AnsweredInv, EndSimple \/ EndChunk,
         NEW r \in Rows, r.match.rule \in Authoritative, r.blob \notin left
  PROVE  Answered(outcome'[r])
<1>1. CASE EndSimple
  <2>1. r.match.rule \notin Dependent /\ \E u \in DOMAIN at : u.key = KeyOf(r.match)
    BY <1>1 DEF EndSimple, AnsweredInv
  <2>2. ResultsFor(r) # {}
    BY <2>1 DEF ResultsFor
  <2>3. outcome'[r] = CHOOSE o \in ResultsFor(r) : TRUE
    BY <1>1, <2>1, <2>2 DEF EndSimple
  <2>4. PICK u \in DOMAIN at : u.key = KeyOf(r.match) /\ outcome'[r] = result[u]
    BY <2>2, <2>3 DEF ResultsFor
  <2>5. at[u] = "done" /\ RuleOf(u) = r.match.rule
    BY <1>1, <2>4 DEF EndSimple, AllDone, RuleOf, KeyOf
  <2>6. QED
    BY <2>4, <2>5 DEF AnsweredInv
<1>2. CASE EndChunk
  <2> DEFINE chunk == RowsIn(UNION {u.blobs : u \in DOMAIN at})
             own(q) == result[[blobs |-> {q.blob}, key |-> KeyOf(q.match)]]
  <2>1. PICK last \in SUBSET chunk :
          /\ \A p \in chunk : \E q \in last : SamePlace(q, p)
          /\ \A p \in Rows : outcome'[p] =
               IF p \in chunk THEN own(CHOOSE q \in last : SamePlace(q, p)) ELSE outcome[p]
    BY <1>2 DEF EndChunk
  <2>2. CASE r \notin chunk
    <3>1. ~ \E u \in DOMAIN at : r.blob \in u.blobs
      BY <2>2 DEF RowsIn
    <3>2. Answered(outcome[r])
      BY <1>2, <3>1 DEF EndChunk, AnsweredInv
    <3>3. QED
      BY <2>1, <2>2, <3>2
  <2>3. CASE r \in chunk
    <3> DEFINE q == CHOOSE p \in last : SamePlace(p, r)
    <3>1. q \in last /\ SamePlace(q, r)
      BY <2>1, <2>3
    <3> DEFINE u == [blobs |-> {q.blob}, key |-> KeyOf(q.match)]
    <3>2. q \in Rows /\ u \in DOMAIN at
      BY <1>2, <3>1 DEF OutcomeInv, PhaseInv, RowsIn, EndChunk
    <3>3. outcome'[r] = result[u]
      BY <2>1, <2>3
    <3>4. q.match.rule = r.match.rule
      BY <3>1 DEF SamePlace
    <3>5. at[u] = "done" /\ RuleOf(u) = q.match.rule
      BY <1>2, <3>2 DEF EndChunk, AllDone, RuleOf, KeyOf
    <3>6. QED
      BY <3>2, <3>3, <3>4, <3>5 DEF AnsweredInv
  <2>4. QED
    BY <2>2, <2>3
<1>3. QED
  BY <1>1, <1>2

\* Every step keeps what is answered, and answers what it ends.
LEMMA AnsweredNext == OutcomeInv /\ AnsweredInv /\ [Next]_vars => AnsweredInv'
<1> SUFFICES ASSUME OutcomeInv, AnsweredInv, [Next]_vars PROVE AnsweredInv'
  OBVIOUS
<1>1. CASE ScanNext
  <2>1. UNCHANGED taskVars
    BY <1>1 DEF ScanNext, Enumerate, EnumeratorEnds, Take, Unreadable, ScanBlob, Send,
                Receive, Flush, WriterEnds, ScanFails, Deduplicate
  <2>2. UNCHANGED <<phase, outcome>> \/ phase' \notin {"simple", "dependent", "done"}
    BY <1>1 DEF ScanNext, Enumerate, EnumeratorEnds, Take, Unreadable, ScanBlob, Send,
                Receive, Flush, WriterEnds, ScanFails, Deduplicate, OutcomeInv, PhaseInv
  <2>3. QED
    BY <2>1, <2>2 DEF taskVars, AnsweredInv, EveryRowIsAnswered, Rows
<1>2. CASE UNCHANGED vars
  BY <1>2 DEF vars, taskVars, AnsweredInv, EveryRowIsAnswered, Rows
<1>3. CASE Partition
  <2>1. \A u \in DOMAIN at' : at'[u] = "todo"
    BY <1>3 DEF Partition, Begin
  <2>2. ASSUME NEW r \in Rows
        PROVE  \/ r.blob \in left'
               \/ r.match.rule \notin Dependent /\ \E u \in DOMAIN at' : u.key = KeyOf(r.match)
    <3> DEFINE blobs == {q.blob : q \in Rows} \ DependentBlobs
    <3>1. left' = DependentBlobs /\ DOMAIN at' = UnitsOf(blobs)
      BY <1>3 DEF Partition, Begin
    <3>2. CASE r.blob \notin DependentBlobs
      <4>1. r \in RowsIn(blobs) /\ r.match.rule \notin Dependent
        BY <3>2 DEF RowsIn, DependentBlobs
      <4>2. [blobs |-> blobs, key |-> KeyOf(r.match)] \in UnitsOf(blobs)
        BY <4>1 DEF UnitsOf
      <4>3. \E u \in UnitsOf(blobs) : u.key = KeyOf(r.match)
        BY <4>2
      <4>4. QED
        BY <3>1, <4>1, <4>3
    <3>3. QED
      BY <3>1, <3>2
  <2>3. phase' = "simple" /\ UNCHANGED <<outcome, in_flight, val_cache, answers>>
    BY <1>3 DEF Partition
  <2>4. QED
    BY <2>1, <2>2, <2>3 DEF AnsweredInv, EveryRowIsAnswered, Rows
<1>4. CASE EndSimple \/ EndChunk
  <2>1. /\ DOMAIN outcome' = Rows /\ BeginChunk /\ answers' = answers
        /\ val_cache' = val_cache \/ val_cache' = NoRows
    BY <1>4 DEF EndSimple, EndChunk
  <2>2. \A u \in DOMAIN at' : at'[u] = "todo"
    BY <2>1 DEF BeginChunk, Begin
  <2>3. phase' = IF left = {} THEN "done" ELSE "dependent"
    BY <2>1 DEF BeginChunk
  <2>4. \A k \in DOMAIN val_cache' : Answered(val_cache'[k])
    BY <2>1 DEF AnsweredInv, NoRows
  <2>5. QED
    BY <1>4, <2>1, <2>2, <2>3, <2>4, ChunkCovers, WriteBackAnswers
       DEF AnsweredInv, EveryRowIsAnswered, Rows, Answered
<1>5. ASSUME NEW u \in DOMAIN at, Skip(u) PROVE AnsweredInv'
  <2>1. UNCHANGED <<answers, val_cache, in_flight, phase, outcome, left>>
    BY <1>5 DEF Skip
  <2>2. PICK r \in Group(u) :
          Finish(u, [request |-> RequestOf(r.match),
                     status |-> IF RuleOf(u) \in Authoritative THEN "skipped"
                                ELSE "not_attempted"])
    BY <1>5 DEF Skip
  <2>3. RuleOf(u) \in Authoritative =>
          Answered([request |-> RequestOf(r.match),
                    status |-> IF RuleOf(u) \in Authoritative THEN "skipped" ELSE "not_attempted"])
    BY DEF Answered
  <2>4. \A k \in DOMAIN val_cache' : Answered(val_cache'[k])
    BY <2>1 DEF AnsweredInv
  <2>5. \A k \in DOMAIN answers' : Answered(answers'[k])
    BY <2>1 DEF AnsweredInv
  <2>6. ResultInv
    BY DEF OutcomeInv
  <2>7. QED
    BY <2>1, <2>2, <2>3, <2>4, <2>5, <2>6, FinishAnswers
<1>6. ASSUME NEW u \in DOMAIN at, Hit(u) \/ Wake(u) PROVE AnsweredInv'
  <2>1. UNCHANGED <<answers, val_cache, in_flight, phase, outcome, left>>
    BY <1>6 DEF Hit, Wake
  <2>2. u.key \in DOMAIN val_cache
    BY <1>6 DEF Hit, Wake, AnsweredInv
  <2>3. Finish(u, val_cache[u.key]) /\ Answered(val_cache[u.key])
    BY <1>6, <2>2 DEF Hit, Wake, AnsweredInv
  <2>4. \A k \in DOMAIN val_cache' : Answered(val_cache'[k])
    BY <2>1 DEF AnsweredInv
  <2>5. \A k \in DOMAIN answers' : Answered(answers'[k])
    BY <2>1 DEF AnsweredInv
  <2>6. ResultInv
    BY DEF OutcomeInv
  <2>7. QED
    BY <2>1, <2>3, <2>4, <2>5, <2>6, FinishAnswers
<1>7. ASSUME NEW u \in DOMAIN at, Claim(u) PROVE AnsweredInv'
  <2>1. /\ UNCHANGED <<answers, val_cache, result, phase, outcome, left>>
        /\ in_flight' = in_flight \cup {u.key}
        /\ at' = [at EXCEPT ![u] = IF u.key \in in_flight THEN "waiting" ELSE "asking"]
    BY <1>7 DEF Claim
  <2>2. QED
    BY <2>1 DEF AnsweredInv, EveryRowIsAnswered, Rows
<1>8. ASSUME NEW u \in DOMAIN at, Answer(u) PROVE AnsweredInv'
  <2>1. PICK r \in Group(u), published \in BOOLEAN : \E o \in Verdict(r, published) :
          /\ Finish(u, o)
          /\ val_cache' = Put(val_cache, u.key, o)
          /\ answers' = IF published THEN Put(answers, u.key, o) ELSE answers
    BY <1>8 DEF Answer
  <2>2. PICK o \in Verdict(r, published) :
          /\ Finish(u, o)
          /\ val_cache' = Put(val_cache, u.key, o)
          /\ answers' = IF published THEN Put(answers, u.key, o) ELSE answers
    BY <2>1
  <2>3. Answered(o)
    BY VerdictAnswers
  <2>4. \A k \in DOMAIN val_cache' : Answered(val_cache'[k])
    BY <2>2, <2>3 DEF AnsweredInv, Put
  <2>5. \A k \in DOMAIN answers' : Answered(answers'[k])
    BY <2>2, <2>3 DEF AnsweredInv, Put
  <2>6. /\ UNCHANGED <<phase, outcome, left>>
        /\ in_flight \cup DOMAIN val_cache \subseteq in_flight' \cup DOMAIN val_cache'
    BY <1>8, <2>2 DEF Answer, Put
  <2>7. ResultInv
    BY DEF OutcomeInv
  <2>8. QED
    BY <2>2, <2>3, <2>4, <2>5, <2>6, <2>7, FinishAnswers
<1>9. ASSUME NEW k \in Elsewhere, Republish(k) PROVE AnsweredInv'
  <2>1. PICK o \in Replies(RequestFor(k)) : answers' = Put(answers, k, o)
    BY <1>9 DEF Republish
  <2>2. UNCHANGED <<val_cache, at, result, in_flight, phase, outcome, left>>
    BY <1>9 DEF Republish
  <2>3. Answered(o)
    BY DEF Replies, Answered
  <2>4. \A n \in DOMAIN answers' : Answered(answers'[n])
    BY <2>1, <2>3 DEF AnsweredInv, Put
  <2>5. QED
    BY <2>2, <2>4 DEF AnsweredInv, EveryRowIsAnswered, Rows
<1>10. QED
  BY <1>1, <1>2, <1>3, <1>4, <1>5, <1>6, <1>7, <1>8, <1>9 DEF Next, ValidateNext

\* A scan that is done has an outcome for every row with a validator: nobody
\* waits for an owner that is gone, and no blob is left between the chunks.
THEOREM Answers == Spec => []EveryRowIsAnswered
<1>1. Init => AnsweredInv
  BY DEF Init, NoRows, AnsweredInv, EveryRowIsAnswered, Rows
<1>2. AnsweredInv => EveryRowIsAnswered
  BY DEF AnsweredInv
<1>3. QED
  BY <1>1, <1>2, OutcomeInit, OutcomeNext, AnsweredNext, PTL DEF Spec

-----------------------------------------------------------------------------
(* A phase says one thing about a credential.                              *)

\* A key no validator is asked about, and what its units end with.
Refusable(k) == k[1] \notin Authoritative \/ k[3] = Ambiguous
Refusal(k) == [request |-> RequestFor(k),
               status  |-> IF k[1] \in Authoritative THEN "skipped" ELSE "not_attempted"]

\* o is what the phase has found out about k.
IsValue(o, k, cache) ==
  IF Refusable(k) THEN o = Refusal(k) ELSE k \in DOMAIN cache /\ o = cache[k]

\* The row has an outcome of the second phase.
Valued(r) == \E q \in Rows : SamePlace(q, r) /\ IsValue(outcome[r], KeyOf(q.match), val_cache)

UnitInv ==
  \A u \in DOMAIN at :
    /\ Group(u) # {}
    /\ at[u] \in {"asking", "waiting"} => ~Refusable(u.key)
    /\ at[u] = "done" => IsValue(result[u], u.key, val_cache)

\* What is left, and what the current units are of, when a phase is on.
LeftInv ==
  /\ phase = "simple" => left = DependentBlobs
  /\ phase = "dependent" => left \subseteq DependentBlobs
                            /\ \A u \in DOMAIN at : u.blobs \subseteq DependentBlobs
  /\ phase = "done" => left = {} /\ DOMAIN at = {}

\* The rows the second phase is not for have the outcome of their key, the others
\* have theirs once their chunk is over.
UniformInv ==
  phase \in {"dependent", "done"} =>
    /\ \A r, q \in Rows :
         r.blob \notin DependentBlobs /\ q.blob \notin DependentBlobs
           /\ KeyOf(r.match) = KeyOf(q.match) => outcome[r] = outcome[q]
    /\ \A r \in Rows : r.blob \notin DependentBlobs => outcome[r].request = RequestOf(r.match)
    /\ \A r \in Rows : r.blob \in DependentBlobs =>
         r.blob \in left \/ (\E u \in DOMAIN at : r.blob \in u.blobs) \/ Valued(r)

PhasesInv == UnitInv /\ LeftInv /\ UniformInv

\* Every row of a unit has its key, so the unit is refused by its key.
LEMMA RefusedByKey ==
  ASSUME NEW u, Group(u) # {}
  PROVE  Refused(u) <=> Refusable(u.key)
<1>1. \A r \in Group(u) : r.match.context = u.key[3]
  BY DEF Group, KeyOf
<1>2. QED
  BY <1>1 DEF Refused, Refusable, RuleOf

\* The cache of the phase keeps what it has: nobody asks for a key that is there.
LEMMA ValuesStay ==
  ASSUME AskingInv, NEW u \in DOMAIN at, Skip(u) \/ Hit(u) \/ Claim(u) \/ Answer(u) \/ Wake(u),
         NEW o, NEW k, IsValue(o, k, val_cache)
  PROVE  IsValue(o, k, val_cache')
<1>1. CASE val_cache' = val_cache
  BY <1>1
<1>2. CASE Answer(u)
  <2>1. u.key \notin DOMAIN val_cache
    BY <1>2 DEF Answer, AskingInv
  <2>2. \A n \in DOMAIN val_cache : n \in DOMAIN val_cache' /\ val_cache'[n] = val_cache[n]
    BY <1>2, <2>1 DEF Answer, Put
  <2>3. QED
    BY <2>2 DEF IsValue
<1>3. QED
  BY <1>1, <1>2 DEF Skip, Hit, Claim, Wake

\* A unit that ends does so with the value of its key.
LEMMA UnitEndsWithValue ==
  ASSUME AnsweredInv, UnitInv, ResultInv,
         NEW u \in DOMAIN at, Skip(u) \/ Hit(u) \/ Answer(u) \/ Wake(u)
  PROVE  /\ at' = [at EXCEPT ![u] = "done"]
         /\ \E o : result' = [result EXCEPT ![u] = o] /\ IsValue(o, u.key, val_cache')
<1>1. Group(u) # {} /\ (Refused(u) <=> Refusable(u.key))
  BY RefusedByKey DEF UnitInv
<1>2. CASE Skip(u)
  <2>1. PICK r \in Group(u) :
          Finish(u, [request |-> RequestOf(r.match),
                     status |-> IF RuleOf(u) \in Authoritative THEN "skipped"
                                ELSE "not_attempted"])
    BY <1>2 DEF Skip
  <2>2. RequestOf(r.match) = RequestFor(u.key)
    BY KeysAreRequests DEF Group
  <2>3. Finish(u, Refusal(u.key)) /\ Refusable(u.key)
    BY <1>1, <1>2, <2>1, <2>2 DEF Skip, Refusal, RuleOf
  <2>4. QED
    BY <2>3 DEF Finish, IsValue
<1>3. CASE Hit(u)
  BY <1>1, <1>3 DEF Hit, Finish, IsValue
<1>4. CASE Wake(u)
  <2>1. u.key \in DOMAIN val_cache /\ ~Refusable(u.key)
    BY <1>4 DEF Wake, AnsweredInv, UnitInv
  <2>2. QED
    BY <1>4, <2>1 DEF Wake, Finish, IsValue
<1>5. CASE Answer(u)
  <2>1. ~Refusable(u.key)
    BY <1>5 DEF Answer, UnitInv
  <2>2. PICK o : Finish(u, o) /\ val_cache' = Put(val_cache, u.key, o)
    BY <1>5 DEF Answer
  <2>3. u.key \in DOMAIN val_cache' /\ val_cache'[u.key] = o
    BY <2>2 DEF Put
  <2>4. QED
    BY <2>1, <2>2, <2>3 DEF Finish, IsValue
<1>6. QED
  BY <1>2, <1>3, <1>4, <1>5

\* A step of a unit.
LEMMA UnitStep ==
  ASSUME AskingInv, AnsweredInv, ResultInv, PhasesInv,
         NEW u \in DOMAIN at, Skip(u) \/ Hit(u) \/ Claim(u) \/ Answer(u) \/ Wake(u)
  PROVE  PhasesInv'
<1>1. UNCHANGED <<phase, outcome, left>> /\ DOMAIN at' = DOMAIN at
  BY DEF Skip, Hit, Claim, Answer, Wake, Finish
<1>2. Rows' = Rows /\ DependentBlobs' = DependentBlobs
  BY <1>1 DEF Rows, DependentBlobs
<1>3. \A v : Group(v)' = Group(v)
  BY <1>1 DEF Group, RowsIn, Rows
<1>4. \A r : Valued(r) => Valued(r)'
  BY <1>1, <1>2, ValuesStay DEF Valued
<1>5. LeftInv' /\ UniformInv'
  BY <1>1, <1>2, <1>4 DEF PhasesInv, LeftInv, UniformInv
<1>6. ASSUME NEW v \in DOMAIN at
      PROVE  /\ at'[v] \in {"asking", "waiting"} => ~Refusable(v.key)
             /\ at'[v] = "done" => IsValue(result'[v], v.key, val_cache')
  <2>1. CASE v # u
    <3>1. at'[v] = at[v] /\ result'[v] = result[v]
      BY <2>1 DEF Skip, Hit, Claim, Answer, Wake, Finish, ResultInv
    <3>2. QED
      BY <3>1, ValuesStay DEF PhasesInv, UnitInv
  <2>2. CASE v = u /\ Claim(u)
    <3>1. ~Refusable(u.key)
      BY <2>2, RefusedByKey DEF Claim, PhasesInv, UnitInv
    <3>2. at'[u] \in {"asking", "waiting"}
      BY <2>2 DEF Claim
    <3>3. QED
      BY <2>2, <3>1, <3>2
  <2>3. CASE v = u /\ ~Claim(u)
    <3>1. UnitInv
      BY DEF PhasesInv
    <3>2. /\ at' = [at EXCEPT ![u] = "done"]
          /\ \E o : result' = [result EXCEPT ![u] = o] /\ IsValue(o, u.key, val_cache')
      BY <2>3, <3>1, UnitEndsWithValue
    <3>3. at'[u] = "done" /\ IsValue(result'[u], u.key, val_cache')
      BY <3>2 DEF ResultInv
    <3>4. QED
      BY <2>3, <3>3
  <2>4. QED
    BY <2>1, <2>2, <2>3
<1>7. UnitInv'
  BY <1>1, <1>3, <1>6 DEF PhasesInv, UnitInv
<1>8. QED
  BY <1>5, <1>7 DEF PhasesInv

\* The next units are of blobs that were left.
LEMMA ChunkUnits ==
  ASSUME BeginChunk
  PROVE  /\ \A u \in DOMAIN at' : u.blobs \subseteq left /\ at'[u] = "todo" /\ Group(u) # {}
         /\ left' \subseteq left
         /\ left = {} => DOMAIN at' = {}
<1>1. DOMAIN at' = UNION {UnitsOf({b}) : b \in Chunk} /\ left' = left \ Chunk
  BY DEF BeginChunk, Begin
<1>2. Chunk \subseteq left
  BY DEF Chunk
<1>3. ASSUME NEW u \in DOMAIN at' PROVE u.blobs \subseteq left /\ at'[u] = "todo" /\ Group(u) # {}
  <2>1. PICK b \in Chunk : u \in UnitsOf({b})
    BY <1>1
  <2>2. u.blobs = {b}
    BY <2>1 DEF UnitsOf
  <2>3. Group(u) # {}
    BY <2>1, UnitsHaveRows
  <2>4. at'[u] = "todo"
    BY DEF BeginChunk, Begin
  <2>5. QED
    BY <1>2, <2>2, <2>3, <2>4
<1>4. QED
  BY <1>1, <1>2, <1>3

\* The end of the first phase gives all rows of a key the same outcome.
LEMMA SimpleEnds ==
  ASSUME OutcomeInv, AnsweredInv, PhasesInv, EndSimple
  PROVE  UniformInv'
<1>1. DOMAIN outcome' = Rows /\ BeginChunk /\ phase = "simple"
  BY DEF EndSimple
<1>2. Rows' = Rows /\ DependentBlobs' = DependentBlobs /\ left = DependentBlobs
  BY <1>1 DEF Rows, DependentBlobs, PhasesInv, LeftInv
<1>3. ASSUME NEW r \in Rows, r.blob \notin DependentBlobs
      PROVE  /\ outcome'[r] = CHOOSE o \in ResultsFor(r) : TRUE
             /\ outcome'[r].request = RequestOf(r.match)
  <2>1. r.match.rule \notin Dependent
    BY <1>3 DEF DependentBlobs
  <2>2. ResultsFor(r) # {}
    BY <1>1, <1>2, <1>3 DEF AnsweredInv, ResultsFor
  <2>3. outcome'[r] = CHOOSE o \in ResultsFor(r) : TRUE
    BY <2>1, <2>2 DEF EndSimple
  <2>4. PICK u \in DOMAIN at : u.key = KeyOf(r.match) /\ outcome'[r] = result[u]
    BY <2>2, <2>3 DEF ResultsFor
  <2>5. outcome'[r].request = RequestFor(KeyOf(r.match))
    BY <2>4 DEF OutcomeInv, ResultInv, Sound
  <2>6. QED
    BY <2>3, <2>5, KeysAreRequests
<1>4. ASSUME NEW r \in Rows, NEW q \in Rows, r.blob \notin DependentBlobs,
             q.blob \notin DependentBlobs, KeyOf(r.match) = KeyOf(q.match)
      PROVE  outcome'[r] = outcome'[q]
  <2>1. ResultsFor(r) = ResultsFor(q)
    BY <1>4 DEF ResultsFor
  <2>2. QED
    BY <1>3, <1>4, <2>1
<1>5. ASSUME NEW r \in Rows, r.blob \in DependentBlobs
      PROVE  r.blob \in left' \/ \E u \in DOMAIN at' : r.blob \in u.blobs
  BY <1>1, <1>2, <1>5, ChunkCovers
<1>6. QED
  BY <1>2, <1>3, <1>4, <1>5 DEF UniformInv

\* The end of a chunk gives its rows the values of the phase.
LEMMA ChunkEnds ==
  ASSUME OutcomeInv, PhasesInv, EndChunk
  PROVE  UniformInv'
<1>1. /\ DOMAIN outcome' = Rows /\ BeginChunk /\ phase = "dependent" /\ AllDone
      /\ val_cache' = val_cache
  BY DEF EndChunk
<1>2. Rows' = Rows /\ DependentBlobs' = DependentBlobs
  BY <1>1 DEF Rows, DependentBlobs
<1> DEFINE chunk == RowsIn(UNION {u.blobs : u \in DOMAIN at})
           own(q) == result[[blobs |-> {q.blob}, key |-> KeyOf(q.match)]]
<1>3. PICK last \in SUBSET chunk :
        /\ \A p \in chunk : \E q \in last : SamePlace(q, p)
        /\ \A p \in Rows : outcome'[p] =
             IF p \in chunk THEN own(CHOOSE q \in last : SamePlace(q, p)) ELSE outcome[p]
  BY DEF EndChunk
<1>4. ASSUME NEW r \in Rows, r.blob \notin DependentBlobs PROVE outcome'[r] = outcome[r]
  <2>1. r \notin chunk
    BY <1>1, <1>4 DEF RowsIn, PhasesInv, LeftInv
  <2>2. QED
    BY <1>3, <2>1
<1>5. ASSUME NEW r \in Rows, r.blob \in DependentBlobs
      PROVE  r.blob \in left' \/ (\E u \in DOMAIN at' : r.blob \in u.blobs) \/ Valued(r)'
  <2>1. CASE r.blob \in left
    BY <1>1, <2>1, ChunkCovers
  <2>2. CASE r \in chunk
    <3> DEFINE q == CHOOSE p \in last : SamePlace(p, r)
    <3>1. q \in last /\ SamePlace(q, r)
      BY <1>3, <2>2
    <3> DEFINE u == [blobs |-> {q.blob}, key |-> KeyOf(q.match)]
    <3>2. q \in Rows /\ u \in DOMAIN at
      BY <1>1, <3>1 DEF OutcomeInv, PhaseInv, RowsIn
    <3>3. outcome'[r] = result[u]
      BY <1>3, <2>2
    <3>4. IsValue(result[u], u.key, val_cache)
      BY <1>1, <3>2 DEF AllDone, PhasesInv, UnitInv
    <3>5. IsValue(outcome'[r], KeyOf(q.match), val_cache')
      BY <1>1, <3>3, <3>4
    <3>6. QED
      BY <1>2, <3>1, <3>2, <3>5 DEF Valued
  <2>3. CASE r.blob \notin left /\ r \notin chunk
    <3>1. Valued(r)
      BY <1>1, <1>5, <2>3 DEF PhasesInv, UniformInv, RowsIn
    <3>2. outcome'[r] = outcome[r]
      BY <1>3, <2>3
    <3>3. QED
      BY <1>1, <1>2, <3>1, <3>2 DEF Valued
  <2>4. QED
    BY <2>1, <2>2, <2>3
<1>6. QED
  BY <1>1, <1>2, <1>4, <1>5 DEF PhasesInv, UniformInv

\* Every step keeps the phases uniform.
LEMMA PhasesNext ==
  AskingInv /\ OutcomeInv /\ AnsweredInv /\ PhasesInv /\ [Next]_vars => PhasesInv'
<1> SUFFICES ASSUME AskingInv, OutcomeInv, AnsweredInv, PhasesInv, [Next]_vars PROVE PhasesInv'
  OBVIOUS
<1>1. CASE ScanNext
  <2>1. UNCHANGED <<at, left, result, val_cache>>
    BY <1>1 DEF ScanNext, Enumerate, EnumeratorEnds, Take, Unreadable, ScanBlob, Send,
                Receive, Flush, WriterEnds, ScanFails, Deduplicate, taskVars
  <2>2. \/ UNCHANGED <<phase, outcome>>
        \/ phase' \notin {"simple", "dependent", "done"} /\ DOMAIN at = {}
    BY <1>1 DEF ScanNext, Enumerate, EnumeratorEnds, Take, Unreadable, ScanBlob, Send,
                Receive, Flush, WriterEnds, ScanFails, Deduplicate, OutcomeInv, PhaseInv
  <2>3. CASE UNCHANGED <<phase, outcome>>
    BY <2>1, <2>3 DEF PhasesInv, UnitInv, LeftInv, UniformInv, Valued, Group, RowsIn, Rows,
                      DependentBlobs
  <2>4. QED
    BY <2>1, <2>2, <2>3 DEF PhasesInv, UnitInv, LeftInv, UniformInv
<1>2. CASE UNCHANGED ownVars
  BY <1>2 DEF ownVars, PhasesInv, UnitInv, LeftInv, UniformInv, Valued, Group, RowsIn, Rows,
              DependentBlobs
<1>3. CASE Partition
  <2> DEFINE units == UnitsOf({r.blob : r \in Rows} \ DependentBlobs)
  <2>1. /\ outcome' = outcome /\ phase' = "simple" /\ left' = DependentBlobs
        /\ at' = [u \in units |-> "todo"]
    BY <1>3 DEF Partition, Begin
  <2>2. \A u \in units : Group(u)' # {}
    BY <2>1, UnitsHaveRows DEF Group, RowsIn, Rows
  <2>3. DependentBlobs' = DependentBlobs
    BY <2>1 DEF DependentBlobs, Rows
  <2>4. QED
    BY <2>1, <2>2, <2>3 DEF PhasesInv, UnitInv, LeftInv, UniformInv
<1>4. CASE EndSimple \/ EndChunk
  <2>1. BeginChunk /\ DOMAIN outcome' = Rows /\ phase \in {"simple", "dependent"}
    BY <1>4 DEF EndSimple, EndChunk
  <2>2. phase' = (IF left = {} THEN "done" ELSE "dependent") /\ left \subseteq DependentBlobs
    BY <2>1 DEF BeginChunk, PhasesInv, LeftInv
  <2>3. DependentBlobs' = DependentBlobs /\ \A u : Group(u)' = Group(u)
    BY <2>1 DEF DependentBlobs, Rows, Group, RowsIn
  <2>4. UnitInv' /\ LeftInv'
    BY <2>1, <2>2, <2>3, ChunkUnits DEF UnitInv, LeftInv
  <2>5. UniformInv'
    BY <1>4, SimpleEnds, ChunkEnds
  <2>6. QED
    BY <2>4, <2>5 DEF PhasesInv
<1>5. ASSUME NEW u \in DOMAIN at, Skip(u) \/ Hit(u) \/ Claim(u) \/ Answer(u) \/ Wake(u)
      PROVE  PhasesInv'
  BY <1>5, UnitStep DEF OutcomeInv
<1>6. QED
  BY <1>1, <1>2, <1>3, <1>4, <1>5, StepKinds DEF ValidateNext

\* What a phase finds out about a credential is the same in all its blobs and
\* chunks; and active in one row stands beside inactive in another only if an
\* owner of another repository has replaced the answer in the process-wide cache.
THEOREM Agreement == Spec => []VerdictsAgree
<1>1. Init => AskingInv /\ OutcomeInv /\ AnsweredInv /\ PhasesInv
  <2>1. Init => AskingInv /\ AnsweredInv /\ PhasesInv
    BY DEF Init, NoRows, AskingInv, AnsweredInv, EveryRowIsAnswered, PhasesInv, UnitInv,
           LeftInv, UniformInv, Rows
  <2>2. QED
    BY <2>1, OutcomeInit
<1>2. OutcomeInv /\ PhasesInv => VerdictsAgree
  <2> SUFFICES ASSUME OutcomeInv, PhasesInv, NEW r \in Rows, NEW q \in Rows,
                      outcome[r].request = outcome[q].request
               PROVE  /\ phase = "done" /\ (r.blob \in DependentBlobs <=> q.blob \in DependentBlobs)
                           => outcome[r] = outcome[q]
                      /\ {outcome[r].status, outcome[q].status} = {"active", "inactive"}
                           => KeyFor(outcome[r].request) \in overwritten
    BY DEF VerdictsAgree
  <2>1. ASSUME phase = "done", r.blob \notin DependentBlobs, q.blob \notin DependentBlobs
        PROVE  outcome[r] = outcome[q]
    <3>1. RequestOf(r.match) = RequestOf(q.match)
      BY <2>1 DEF PhasesInv, UniformInv
    <3>2. QED
      BY <2>1, <3>1, SameRequestSameKey DEF PhasesInv, UniformInv
  <2>2. ASSUME phase = "done", r.blob \in DependentBlobs, q.blob \in DependentBlobs
        PROVE  outcome[r] = outcome[q]
    <3>1. Valued(r) /\ Valued(q)
      BY <2>2 DEF PhasesInv, UniformInv, LeftInv
    <3>2. PICK m \in Rows : IsValue(outcome[r], KeyOf(m.match), val_cache)
      BY <3>1 DEF Valued
    <3>3. PICK n \in Rows : IsValue(outcome[q], KeyOf(n.match), val_cache)
      BY <3>1 DEF Valued
    <3>4. ASSUME NEW o, NEW k, IsValue(o, k, val_cache) PROVE o.request = RequestFor(k)
      BY <3>4 DEF IsValue, Refusal, OutcomeInv, CacheInv, Sound
    <3>5. KeyOf(m.match) = KeyOf(n.match)
      BY <3>2, <3>3, <3>4, KeysAreRequests, SameRequestSameKey
    <3>6. QED
      BY <3>2, <3>3, <3>5 DEF IsValue
  <2>3. ASSUME {outcome[r].status, outcome[q].status} = {"active", "inactive"}
        PROVE  KeyFor(outcome[r].request) \in overwritten
    <3>1. PICK m \in Rows : Sound(outcome[r], KeyOf(m.match), answers, overwritten)
      BY DEF OutcomeInv, StoreInv
    <3>2. PICK n \in Rows : Sound(outcome[q], KeyOf(n.match), answers, overwritten)
      BY DEF OutcomeInv, StoreInv
    <3>3. KeyOf(m.match) = KeyOf(n.match)
      BY <3>1, <3>2, KeysAreRequests, SameRequestSameKey DEF Sound
    <3>4. KeyFor(outcome[r].request) = KeyOf(m.match)
      BY <3>1 DEF Sound, KeyFor, RequestFor, KeyOf
    <3>5. outcome[r] # outcome[q]
      BY <2>3
    <3>6. QED
      BY <2>3, <3>1, <3>2, <3>3, <3>4, <3>5 DEF Sound
  <2>4. QED
    BY <2>1, <2>2, <2>3
<1>3. QED
  BY <1>1, <1>2, AskingNext, OutcomeNext, AnsweredNext, PhasesNext, PTL DEF Spec

-----------------------------------------------------------------------------
(* From the contents to the store.                                         *)

\* What a worker sends of a match.
Message(i, m) == [origins |-> {i}, blob |-> BlobOf[i], match |-> m]
Messages == UNION {{Message(i, m) : m \in Found(i)} : i \in Input}

\* What a worker is at.
WorkOf(x) ==
  /\ x.input = Nothing => x.todo = <<>>
  /\ \A k \in DOMAIN x.todo : x.todo[k] \in Found(x.input)

\* The state of the threads.
ThreadTypes ==
  /\ args \in [no_dedup : BOOLEAN]
  /\ unsent \subseteq Input /\ input \in Seq(Input)
  /\ ds \in Seq(Messages) /\ batch \in Seq(Messages)
  /\ work \in [Worker -> [input : Input \cup {Nothing}, todo : Seq(Match)]]
  /\ \A w \in Worker : WorkOf(work[w])
  /\ enum = "done" => unsent = {}
  /\ writer \in {"running", "done"}
  /\ writer = "done" => ds = <<>> /\ batch = <<>> /\ ScanOver
  /\ Scanned => enum = "done" /\ writer = "done"

\* The rows before the merge: those of the messages with different digests.
\* Afterwards a row has the paths of its own finding.
RowInv ==
  /\ \A r \in Rows : \A i \in r.origins : r.match \in Found(i)
  /\ ~Scanned => Rows \subseteq Messages
  /\ ~Scanned /\ ~args.no_dedup =>
       /\ dedup_exact = {Digest(r) : r \in Rows}
       /\ \A r, q \in Rows : Digest(r) = Digest(q) => r = q
  /\ Scanned /\ ~args.no_dedup =>
       \A r, q \in Rows :
         /\ RequestOf(r.match) = RequestOf(q.match)
         /\ r.match.rule \in Helper => r.match = q.match
         => r = q

\* A match is in the hands of a worker that has its content.
InHand(i, m) ==
  \E w \in Worker : work[w].input = i /\ \E k \in DOMAIN work[w].todo : work[w].todo[k] = m

\* Of what was found under i every request is in the store or on its way, and
\* with --no-dedup every match.
RequestIsSafe(i, m) ==
  \/ InStore(m) \/ InHand(i, m)
  \/ \E k \in DOMAIN ds : RequestOf(ds[k].match) = RequestOf(m)
  \/ \E k \in DOMAIN batch : RequestOf(batch[k].match) = RequestOf(m)
MatchIsSafe(i, m) ==
  \/ Message(i, m) \in Rows \/ InHand(i, m)
  \/ \E k \in DOMAIN ds : ds[k] = Message(i, m)
  \/ \E k \in DOMAIN batch : batch[k] = Message(i, m)

ClaimInv ==
  /\ \A b \in seen_blobs : \E i \in Input : BlobOf[i] = b /\ \A m \in Found(i) : RequestIsSafe(i, m)
  /\ args.no_dedup => seen_blobs = {}

\* Every input is still to come, or was matched.
InputInv ==
  had_errors \/ \A i \in Input :
    \/ i \in unsent
    \/ \E k \in DOMAIN input : input[k] = i
    \/ \E w \in Worker : work[w].input = i /\ work[w].todo = <<>>
    \/ IF args.no_dedup THEN \A m \in Found(i) : MatchIsSafe(i, m)
       ELSE MatchesOf[i] = <<>> \/ BlobOf[i] \in seen_blobs

ScanInv == ThreadTypes /\ RowInv /\ ClaimInv /\ InputInv


\* Every set of positions has a first one.
LEMMA FirstPosition ==
  ASSUME NEW S \in SUBSET Nat, S # {}
  PROVE  \E x \in S : \A y \in S : x <= y
<1>1. PICK x \in S : \A y \in S : ~(<<y, x>> \in OpToRel(<, Nat))
  BY NatLessThanWellFounded, WFMin
<1>2. \A a \in Nat, b \in Nat : b < a => <<b, a>> \in OpToRel(<, Nat)
  BY DEF OpToRel
<1>3. ASSUME NEW y \in S PROVE x <= y
  <2>1. ~(y < x)
    BY <1>1, <1>2, Zenon
  <2>2. QED
    BY <2>1
<1>4. QED
  BY <1>3

\* e is an element of the sequence.
Has(s, e) == \E k \in DOMAIN s : s[k] = e

\* Sequences: what is taken off the front, and what is put at the end.
LEMMA TailKeeps ==
  ASSUME NEW T, NEW s \in Seq(T), s # <<>>
  PROVE  /\ Head(s) \in T /\ Tail(s) \in Seq(T)
         /\ \A k \in DOMAIN s : s[k] = Head(s) \/ \E j \in DOMAIN Tail(s) : Tail(s)[j] = s[k]
         /\ \A j \in DOMAIN Tail(s) : \E k \in DOMAIN s : Tail(s)[j] = s[k]
<1>1. Head(s) = s[1] /\ Head(s) \in T /\ Tail(s) \in Seq(T) /\ Len(s) \in Nat /\ DOMAIN s = 1 .. Len(s)
      /\ Len(Tail(s)) = Len(s) - 1 /\ DOMAIN Tail(s) = 1 .. Len(s) - 1
  OBVIOUS
<1>2. \A j \in 1 .. Len(s) - 1 : Tail(s)[j] = s[j + 1]
  OBVIOUS
<1>3. ASSUME NEW k \in DOMAIN s, k # 1
      PROVE  \E j \in DOMAIN Tail(s) : Tail(s)[j] = s[k]
  <2>1. k - 1 \in 1 .. Len(s) - 1 /\ (k - 1) + 1 = k
    BY <1>1, <1>3
  <2>2. Tail(s)[k - 1] = s[k]
    BY <1>2, <2>1
  <2>3. QED
    BY <1>1, <2>1, <2>2
<1>4. ASSUME NEW j \in DOMAIN Tail(s) PROVE \E k \in DOMAIN s : Tail(s)[j] = s[k]
  BY <1>1, <1>2
<1>5. QED
  BY <1>1, <1>3, <1>4

\* An append keeps the elements and adds one.
LEMMA AppendKeeps ==
  ASSUME NEW T, NEW s \in Seq(T), NEW e \in T
  PROVE  /\ Append(s, e) \in Seq(T)
         /\ \A x : Has(s, x) => Has(Append(s, e), x)
         /\ Has(Append(s, e), e)
<1>1. /\ Append(s, e) \in Seq(T) /\ DOMAIN s = 1 .. Len(s) /\ Len(s) \in Nat
      /\ DOMAIN Append(s, e) = 1 .. Len(s) + 1
      /\ Append(s, e)[Len(s) + 1] = e
      /\ \A k \in 1 .. Len(s) : Append(s, e)[k] = s[k]
  OBVIOUS
<1>2. QED
  BY <1>1 DEF Has

\* The matches of an input, as the matcher finds them.
LEMMA FoundIsMatch ==
  ASSUME NEW i \in Input
  PROVE  /\ MatchesOf[i] \in Seq(Match) /\ Found(i) \subseteq Match
         /\ \A m \in Found(i) : m.rule \notin Dependent => m.context = NoContext
         /\ \A m \in Found(i) : Message(i, m) \in Messages
<1>1. MatchesOf[i] \in Seq(Match)
  BY ScanAssumption
<1>2. \A k \in DOMAIN MatchesOf[i] : MatchesOf[i][k] \in Match
  BY <1>1
<1>3. \A m \in Found(i) : m.rule \notin Dependent => m.context = NoContext
  BY ScanAssumption DEF Found
<1>4. Found(i) \subseteq Match
  BY <1>2 DEF Found
<1>5. ASSUME NEW m \in Found(i) PROVE Message(i, m) \in Messages
  <2>1. Message(i, m) \in {Message(i, n) : n \in Found(i)}
    OBVIOUS
  <2>2. QED
    BY <2>1 DEF Messages
<1>6. QED
  BY <1>1, <1>3, <1>4, <1>5

\* A message is of one input and one match found in it.
LEMMA MessageOf ==
  ASSUME NEW r \in Messages
  PROVE  \E i \in Input : \E m \in Found(i) :
           /\ r = Message(i, m) /\ r.origins = {i} /\ r.blob = BlobOf[i] /\ r.match = m
  BY DEF Messages, Message

\* Messages with one digest have one request.
LEMMA SameDigestSameRequest ==
  ASSUME NEW r \in Messages, NEW q \in Messages, Digest(r) = Digest(q)
  PROVE  RequestOf(r.match) = RequestOf(q.match)
<1>1. r.match.rule = q.match.rule /\ r.match.secret = q.match.secret
  BY DEF Digest
<1>2. r.match.rule \in Dependent => r.match.context = q.match.context
  <2>1. r.match.rule \in Dependent => {r.match.context} = {q.match.context}
    BY <1>1 DEF Digest
  <2>2. QED
    BY <2>1
<1>3. /\ r.match.rule \notin Dependent => r.match.context = NoContext
      /\ q.match.rule \notin Dependent => q.match.context = NoContext
  BY MessageOf, FoundIsMatch
<1>4. QED
  BY <1>1, <1>2, <1>3 DEF RequestOf

\* Rows with one request have one digest, helpers those of one blob.
LEMMA SameRequestSameDigest ==
  ASSUME NEW r, NEW q, RequestOf(r.match) = RequestOf(q.match),
         r.match.rule \in Helper => r.blob = q.blob
  PROVE  Digest(r) = Digest(q)
<1>1. /\ r.match.rule = q.match.rule /\ r.match.secret = q.match.secret
      /\ r.match.context = q.match.context
  BY DEF RequestOf
<1>2. QED
  BY <1>1 DEF Digest

-----------------------------------------------------------------------------
(* The threads.                                                            *)

\* Every step keeps the types of the threads and the order they end in.
LEMMA ThreadNext == PhaseInv /\ ThreadTypes /\ [Next]_vars => ThreadTypes'
<1> SUFFICES ASSUME PhaseInv, ThreadTypes, [Next]_vars PROVE ThreadTypes'
  OBVIOUS
<1>1. CASE /\ UNCHANGED <<args, unsent, enum, input, work, ds, batch, writer>>
           /\ Scanned' => Scanned
  BY <1>1 DEF ThreadTypes, ScanOver
<1>2. ASSUME NEW i \in Input, Enumerate(i) PROVE ThreadTypes'
  <2>1. /\ enum = "running" /\ input' = Append(input, i) /\ unsent' \subseteq unsent
        /\ UNCHANGED <<args, phase, enum, work, ds, batch, writer>>
    BY <1>2 DEF Enumerate, storeVars
  <2>2. input' \in Seq(Input)
    BY <2>1 DEF ThreadTypes
  <2>3. writer # "done"
    BY <2>1 DEF ThreadTypes, ScanOver
  <2>4. QED
    BY <2>1, <2>2, <2>3 DEF ThreadTypes, Scanned
<1>3. ASSUME NEW v \in {"done", "failed"}, EnumeratorEnds(v) PROVE ThreadTypes'
  <2>1. /\ enum = "running" /\ enum' = v /\ (v = "done" => unsent = {})
        /\ UNCHANGED <<args, phase, unsent, input, work, ds, batch, writer>>
    BY <1>3 DEF EnumeratorEnds, storeVars
  <2>2. writer # "done"
    BY <2>1 DEF ThreadTypes, ScanOver
  <2>3. QED
    BY <2>1, <2>2 DEF ThreadTypes, Scanned
<1>4. ASSUME NEW w \in Worker, Take(w) PROVE ThreadTypes'
  <2>1. /\ input # <<>> /\ input' = Tail(input)
        /\ work' = [work EXCEPT ![w] = [input |-> Head(input), todo |-> <<>>]]
        /\ UNCHANGED <<args, phase, unsent, enum, ds, batch, writer>>
    BY <1>4 DEF Take, storeVars
  <2>2. input' \in Seq(Input) /\ Head(input) \in Input
    BY <2>1 DEF ThreadTypes
  <2>3. writer # "done"
    BY <2>1 DEF ThreadTypes, ScanOver
  <2>4. work' \in [Worker -> [input : Input \cup {Nothing}, todo : Seq(Match)]]
    BY <2>1, <2>2 DEF ThreadTypes
  <2>5. ASSUME NEW v \in Worker PROVE WorkOf(work'[v])
    BY <2>1, <2>2, ScanAssumption DEF ThreadTypes, WorkOf
  <2>6. QED
    BY <2>1, <2>2, <2>3, <2>4, <2>5 DEF ThreadTypes, Scanned
<1>5. ASSUME NEW w \in Worker, Unreadable(w) \/ ScanBlob(w) \/ Send(w) PROVE ThreadTypes'
  <2>1. UNCHANGED <<args, phase, unsent, enum, input, batch, writer>>
    BY <1>5 DEF Unreadable, ScanBlob, Send, enumVars, storeVars
  <2>2. /\ work[w].input \in Input \cup {Nothing} /\ work[w].todo \in Seq(Match)
        /\ WorkOf(work[w])
    BY DEF ThreadTypes
  <2>3. work[w].input # Nothing
    BY <1>5, <2>2 DEF Unreadable, ScanBlob, Send, Fresh, WorkOf
  <2>4. writer # "done"
    BY <2>3 DEF ThreadTypes, ScanOver
  <2>5. PICK x \in [input : Input \cup {Nothing}, todo : Seq(Match)] :
          WorkOf(x) /\ work' = [work EXCEPT ![w] = x]
    <3>1. Idle \in [input : Input \cup {Nothing}, todo : Seq(Match)] /\ WorkOf(Idle)
      BY DEF Idle, WorkOf
    <3>2. CASE Unreadable(w)
      BY <3>1, <3>2 DEF Unreadable
    <3>3. CASE ScanBlob(w)
      <4> DEFINE i == work[w].input
                 x == [work[w] EXCEPT !.todo = MatchesOf[i]]
      <4>1. x = [input |-> i, todo |-> MatchesOf[i]] /\ i \in Input
        BY <2>2, <2>3 DEF ThreadTypes
      <4>2. x \in [input : Input \cup {Nothing}, todo : Seq(Match)] /\ WorkOf(x)
        BY <2>3, <4>1, FoundIsMatch DEF WorkOf, Found
      <4>3. \/ work' = [work EXCEPT ![w] = Idle]
            \/ work' = [work EXCEPT ![w].todo = MatchesOf[i]]
        BY <3>3 DEF ScanBlob
      <4>4. [work EXCEPT ![w].todo = MatchesOf[i]] = [work EXCEPT ![w] = x]
        OBVIOUS
      <4>5. QED
        BY <3>1, <4>2, <4>3, <4>4
    <3>4. CASE Send(w)
      <4> DEFINE rest == Tail(work[w].todo)
                 x == [work[w] EXCEPT !.todo = rest]
      <4>1. work[w].todo # <<>>
        BY <3>4 DEF Send
      <4>2. /\ rest \in Seq(Match)
            /\ \A j \in DOMAIN rest : \E k \in DOMAIN work[w].todo : rest[j] = work[w].todo[k]
        BY <2>2, <4>1, TailKeeps
      <4>3. x = [input |-> work[w].input, todo |-> rest]
        <5>1. work[w] \in [input : Input \cup {Nothing}, todo : Seq(Match)]
          BY DEF ThreadTypes
        <5>2. ASSUME NEW t, NEW y \in [input : Input \cup {Nothing}, todo : Seq(Match)]
              PROVE  [y EXCEPT !.todo = t] = [input |-> y.input, todo |-> t]
          OBVIOUS
        <5>3. QED
          BY <5>1, <5>2, Zenon
      <4>4. x \in [input : Input \cup {Nothing}, todo : Seq(Match)] /\ WorkOf(x)
        BY <2>2, <2>3, <4>2, <4>3 DEF WorkOf
      <4>5. work' = [work EXCEPT ![w] = IF rest = <<>> THEN Idle ELSE x]
        BY <3>4 DEF Send
      <4>6. QED
        BY <3>1, <4>4, <4>5
    <3>5. QED
      BY <1>5, <3>2, <3>3, <3>4
  <2>6. ds' \in Seq(Messages)
    <3>1. CASE Unreadable(w) \/ ScanBlob(w)
      BY <3>1 DEF Unreadable, ScanBlob, storeVars, ThreadTypes
    <3>2. CASE Send(w)
      <4> DEFINE i == work[w].input
      <4>1. ds' = Append(ds, Message(i, Head(work[w].todo))) /\ work[w].todo # <<>>
        BY <3>2 DEF Send, Message
      <4>2. 1 \in DOMAIN work[w].todo /\ Head(work[w].todo) = work[w].todo[1]
        BY <2>2, <4>1
      <4>3. Message(i, Head(work[w].todo)) \in Messages
        BY <2>2, <2>3, <4>2, FoundIsMatch DEF WorkOf
      <4>4. QED
        BY <4>1, <4>3 DEF ThreadTypes
    <3>3. QED
      BY <1>5, <3>1, <3>2
  <2>7. QED
    BY <2>1, <2>4, <2>5, <2>6 DEF ThreadTypes, Scanned
<1>6. CASE Receive
  <2>1. /\ writer = "running" /\ ds # <<>> /\ batch' = Append(batch, Head(ds)) /\ ds' = Tail(ds)
        /\ UNCHANGED <<args, phase, unsent, enum, input, work, writer>>
    BY <1>6 DEF Receive, enumVars
  <2>2. batch' \in Seq(Messages) /\ ds' \in Seq(Messages)
    BY <2>1, TailKeeps, AppendKeeps DEF ThreadTypes
  <2>3. QED
    BY <2>1, <2>2 DEF ThreadTypes, Scanned
<1>7. CASE Flush \/ WriterEnds
  <2>1. /\ writer = "running" /\ batch' = <<>> /\ writer' \in {"running", "done"}
        /\ writer' = "done" => ds = <<>> /\ ScanOver
        /\ UNCHANGED <<args, phase, unsent, enum, input, work, ds>>
    BY <1>7 DEF Flush, WriterEnds, Commit, enumVars
  <2>2. QED
    BY <2>1 DEF ThreadTypes, Scanned, ScanOver
<1>8. CASE ScanFails
  BY <1>1, <1>8 DEF ScanFails, scanVars, enumVars, storeVars, Scanned
<1>9. CASE Deduplicate
  <2>1. /\ UNCHANGED <<args, unsent, enum, input, work, ds, batch, writer>>
        /\ enum = "done" /\ writer = "done"
    BY <1>9 DEF Deduplicate, scanVars, enumVars, storeVars
  <2>2. QED
    BY <2>1 DEF ThreadTypes, ScanOver
<1>10. CASE ValidateNext
  BY <1>1, <1>10 DEF ValidateNext, Partition, Skip, Hit, Claim, Answer, Wake, EndSimple,
     EndChunk, scanVars, enumVars, storeVars, Scanned
<1>11. CASE UNCHANGED ownVars
  BY <1>1, <1>11 DEF ownVars, scanVars, enumVars, storeVars, Scanned
<1>12. QED
  BY <1>2, <1>3, <1>4, <1>5, <1>6, <1>7, <1>8, <1>9, <1>10, <1>11, StepKinds DEF ScanNext

-----------------------------------------------------------------------------
(* The rows.                                                               *)

\* What the steps that neither record nor merge leave as it is.
LEMMA RowsOfOtherSteps ==
  ASSUME [Next]_vars, ~Flush, ~WriterEnds, ~Deduplicate
  PROVE  /\ Rows' = Rows /\ UNCHANGED <<args, dedup_exact>> /\ Scanned' = Scanned
         /\ Receive \/ batch' = batch
<1>1. CASE ScanNext
  <2>1. UNCHANGED <<args, outcome, dedup_exact>> /\ (Receive \/ batch' = batch)
    BY <1>1 DEF ScanNext, Enumerate, EnumeratorEnds, Take, Unreadable, ScanBlob, Send,
                Receive, ScanFails, scanVars, storeVars
  <2>2. Scanned' = Scanned
    BY <1>1 DEF ScanNext, Enumerate, EnumeratorEnds, Take, Unreadable, ScanBlob, Send,
                Receive, ScanFails, Scanned
  <2>3. QED
    BY <2>1, <2>2 DEF Rows
<1>2. CASE ValidateNext
  <2>1. UNCHANGED <<args, dedup_exact, batch>>
    BY <1>2 DEF ValidateNext, Partition, Skip, Hit, Claim, Answer, Wake, EndSimple, EndChunk,
                scanVars, storeVars
  <2>2. Rows' = Rows
    BY <1>2 DEF ValidateNext, Partition, Skip, Hit, Claim, Answer, Wake, EndSimple, EndChunk, Rows
  <2>3. Scanned' = Scanned
    BY <1>2 DEF ValidateNext, Partition, Skip, Hit, Claim, Answer, Wake, EndSimple, EndChunk,
                BeginChunk, Scanned
  <2>4. QED
    BY <2>1, <2>2, <2>3
<1>3. CASE UNCHANGED ownVars
  BY <1>3 DEF ownVars, scanVars, storeVars, Rows, Scanned
<1>4. QED
  BY <1>1, <1>2, <1>3, StepKinds

\* A row that is recorded is the first of the batch with its digest.
Recordable(k) ==
  \/ args.no_dedup
  \/ /\ Digest(batch[k]) \notin dedup_exact
     /\ \A n \in 1 .. k - 1 : Digest(batch[n]) # Digest(batch[k])

\* What a commit adds to the store.
LEMMA CommitRows ==
  ASSUME ThreadTypes, Commit
  PROVE  /\ Rows \subseteq Rows'
         /\ \A k \in DOMAIN batch : Recordable(k) => batch[k] \in Rows'
         /\ \A r \in Rows' : r \in Rows \/ \E k \in DOMAIN batch : r = batch[k] /\ Recordable(k)
         /\ \A k \in DOMAIN batch :
              \/ Recordable(k)
              \/ Digest(batch[k]) \in dedup_exact
              \/ \E n \in DOMAIN batch : Recordable(n) /\ Digest(batch[n]) = Digest(batch[k])
<1>1. Rows' = Rows \cup Recorded(batch)
  BY DEF Commit, Rows
<1>2. Recorded(batch) = {batch[k] : k \in {n \in DOMAIN batch : Recordable(n)}}
  BY DEF Recorded, Recordable
<1>3. ASSUME NEW k \in DOMAIN batch, ~Recordable(k), Digest(batch[k]) \notin dedup_exact
      PROVE  \E n \in DOMAIN batch : Recordable(n) /\ Digest(batch[n]) = Digest(batch[k])
  <2> DEFINE S == {n \in DOMAIN batch : Digest(batch[n]) = Digest(batch[k])}
  <2>1. DOMAIN batch \subseteq Nat /\ DOMAIN batch = 1 .. Len(batch) /\ Len(batch) \in Nat
    BY DEF ThreadTypes
  <2>2. S \in SUBSET Nat /\ S # {}
    BY <2>1
  <2>3. PICK x \in S : \A y \in S : x <= y
    BY <2>2, FirstPosition
  <2>4. ASSUME NEW n \in 1 .. x - 1 PROVE Digest(batch[n]) # Digest(batch[x])
    <3>1. n \in DOMAIN batch /\ n \in Nat /\ x \in Nat /\ ~(x <= n)
      BY <2>1
    <3>2. n \notin S
      BY <2>3, <3>1
    <3>3. QED
      BY <3>1, <3>2
  <2>5. Recordable(x)
    BY <1>3, <2>4 DEF Recordable
  <2>6. QED
    BY <2>5
<1>4. QED
  BY <1>1, <1>2, <1>3

\* A commit keeps one row for each digest.
LEMMA CommitKeepsRows ==
  ASSUME ThreadTypes, RowInv, Commit, ~Scanned, UNCHANGED <<args, phase>>
  PROVE  RowInv'
<1>1. ~Scanned' /\ args' = args
  BY DEF Scanned
<1>2. ASSUME NEW k \in DOMAIN batch PROVE batch[k] \in Messages
  BY DEF ThreadTypes
<1>3. Rows' \subseteq Messages
  BY <1>2, CommitRows DEF RowInv
<1>4. \A r \in Rows' : \A i \in r.origins : r.match \in Found(i)
  BY <1>3, MessageOf
<1>5. ASSUME ~args.no_dedup
      PROVE  /\ dedup_exact' = {Digest(r) : r \in Rows'}
             /\ \A r, q \in Rows' : Digest(r) = Digest(q) => r = q
  <2>1. dedup_exact' = dedup_exact \cup {Digest(batch[j]) : j \in DOMAIN batch}
    BY <1>5 DEF Commit
  <2>2. /\ dedup_exact = {Digest(r) : r \in Rows}
        /\ \A r, q \in Rows : Digest(r) = Digest(q) => r = q
    BY <1>5 DEF RowInv
  <2>3. ASSUME NEW r \in Rows' PROVE Digest(r) \in dedup_exact'
    BY <2>1, <2>2, CommitRows
  <2>4. ASSUME NEW d \in dedup_exact' PROVE \E r \in Rows' : d = Digest(r)
    BY <2>1, <2>2, CommitRows
  <2>5. ASSUME NEW r \in Rows', NEW q \in Rows', Digest(r) = Digest(q) PROVE r = q
    <3>1. ASSUME NEW k \in DOMAIN batch, Recordable(k) PROVE Digest(batch[k]) \notin dedup_exact
      BY <1>5, <3>1 DEF Recordable
    <3>2. ASSUME NEW k \in DOMAIN batch, NEW n \in DOMAIN batch, Recordable(k), Recordable(n),
                 Digest(batch[k]) = Digest(batch[n])
          PROVE  k = n
      <4>1. DOMAIN batch = 1 .. Len(batch) /\ Len(batch) \in Nat
        BY DEF ThreadTypes
      <4>2. ~(k < n) /\ ~(n < k)
        BY <1>5, <3>2, <4>1 DEF Recordable
      <4>3. QED
        BY <4>1, <4>2
    <3>3. r \in Rows \/ \E k \in DOMAIN batch : r = batch[k] /\ Recordable(k)
      BY CommitRows
    <3>4. q \in Rows \/ \E k \in DOMAIN batch : q = batch[k] /\ Recordable(k)
      BY CommitRows
    <3>5. QED
      BY <2>2, <2>5, <3>1, <3>2, <3>3, <3>4, Zenon
  <2>6. QED
    BY <2>3, <2>4, <2>5
<1>6. QED
  BY <1>1, <1>3, <1>4, <1>5 DEF RowInv

\* What the merge makes of the rows.
LEMMA MergeRows ==
  ASSUME ThreadTypes, RowInv, Deduplicate
  PROVE  /\ ~Scanned /\ Scanned' /\ args' = args
         /\ args.no_dedup => Rows' = Rows
         /\ ~args.no_dedup =>
              \E kept \in SUBSET Rows :
                /\ Merges(Rows, kept)
                /\ \A r \in Rows' : \E q \in kept :
                     /\ r.match = q.match /\ r.origins = MergedOrigins(Rows, q)
                     /\ r = [q EXCEPT !.origins = MergedOrigins(Rows, q)]
                /\ \A q \in kept : \E r \in Rows' : r.match = q.match
<1>1. ~Scanned /\ Scanned' /\ args' = args
  BY DEF Deduplicate, Scanned
<1>2. Rows \subseteq Messages
  BY <1>1 DEF RowInv
<1>3. PICK kept \in SUBSET Rows :
        /\ IF args.no_dedup THEN kept = Rows ELSE Merges(Rows, kept)
        /\ outcome' = [r \in {IF args.no_dedup THEN q
                              ELSE [q EXCEPT !.origins = MergedOrigins(Rows, q)] : q \in kept}
                        |-> Untried(r)]
  BY DEF Deduplicate
<1>4. Rows' = {IF args.no_dedup THEN q
               ELSE [q EXCEPT !.origins = MergedOrigins(Rows, q)] : q \in kept}
  BY <1>3 DEF Rows
<1>5. CASE args.no_dedup
  BY <1>1, <1>3, <1>4, <1>5
<1>6. CASE ~args.no_dedup
  <2> DEFINE Merged(q) == [q EXCEPT !.origins = MergedOrigins(Rows, q)]
  <2>1. Rows' = {Merged(q) : q \in kept} /\ Merges(Rows, kept)
    BY <1>3, <1>4, <1>6
  <2>2. ASSUME NEW q \in kept
        PROVE  Merged(q).match = q.match /\ Merged(q).origins = MergedOrigins(Rows, q)
    <3>1. PICK i \in Input : \E m \in Found(i) : q = Message(i, m)
      BY <1>2, MessageOf
    <3>2. ASSUME NEW o, NEW a, NEW b, NEW m
          PROVE  LET x == [origins |-> a, blob |-> b, match |-> m]
                 IN [x EXCEPT !.origins = o].match = x.match /\ [x EXCEPT !.origins = o].origins = o
      OBVIOUS
    <3>3. QED
      BY <3>1, <3>2, Zenon DEF Message
  <2> HIDE DEF Merged
  <2>3. \A r \in Rows' : \E q \in kept :
          r.match = q.match /\ r.origins = MergedOrigins(Rows, q) /\ r = Merged(q)
    BY <2>1, <2>2
  <2>4. \A q \in kept : \E r \in Rows' : r.match = q.match
    BY <2>1, <2>2
  <2>5. QED
    BY <1>1, <1>6, <2>1, <2>3, <2>4, Zenon DEF Merged
<1>7. QED
  BY <1>5, <1>6

\* The merge takes for one what has one request, and no path from elsewhere.
LEMMA MergeKeepsRows ==
  ASSUME ThreadTypes, RowInv, Deduplicate
  PROVE  RowInv'
<1>1. ~Scanned /\ Scanned' /\ args' = args
  BY MergeRows
<1>2. CASE args.no_dedup
  BY <1>1, <1>2, MergeRows DEF RowInv
<1>3. CASE ~args.no_dedup
  <2>1. PICK kept \in SUBSET Rows :
          /\ Merges(Rows, kept)
          /\ \A r \in Rows' : \E q \in kept :
               /\ r.match = q.match /\ r.origins = MergedOrigins(Rows, q)
               /\ r = [q EXCEPT !.origins = MergedOrigins(Rows, q)]
    BY <1>3, MergeRows
  <2>2. ASSUME NEW r \in Rows', NEW i \in r.origins PROVE r.match \in Found(i)
    <3>1. PICK q \in kept : r.match = q.match /\ r.origins = MergedOrigins(Rows, q)
      BY <2>1
    <3>2. PICK p \in Rows : p.match = q.match /\ i \in p.origins
      BY <3>1 DEF MergedOrigins, SameFinding
    <3>3. QED
      BY <3>1, <3>2 DEF RowInv
  <2>3. ASSUME NEW r \in Rows', NEW q \in Rows', RequestOf(r.match) = RequestOf(q.match),
               r.match.rule \in Helper => r.match = q.match
        PROVE  r = q
    <3>1. PICK x \in kept : r.match = x.match /\ r = [x EXCEPT !.origins = MergedOrigins(Rows, x)]
      BY <2>1
    <3>2. PICK y \in kept : q.match = y.match /\ q = [y EXCEPT !.origins = MergedOrigins(Rows, y)]
      BY <2>1
    <3>3. CASE r.match.rule \in Helper
      BY <2>1, <2>3, <3>1, <3>2, <3>3 DEF Merges, SameFinding
    <3>4. CASE r.match.rule \notin Helper
      <4>1. Digest(x) = Digest(y)
        BY <2>3, <3>1, <3>2, <3>4, SameRequestSameDigest
      <4>2. x = y
        BY <1>1, <1>3, <4>1 DEF RowInv
      <4>3. QED
        BY <3>1, <3>2, <4>2
    <3>5. QED
      BY <3>3, <3>4
  <2>4. QED
    BY <1>1, <1>3, <2>2, <2>3 DEF RowInv
<1>4. QED
  BY <1>2, <1>3

\* Every step keeps the rows exact.
LEMMA RowNext == ThreadTypes /\ RowInv /\ [Next]_vars => RowInv'
<1> SUFFICES ASSUME ThreadTypes, RowInv, [Next]_vars PROVE RowInv'
  OBVIOUS
<1>1. CASE Flush \/ WriterEnds
  <2>1. Commit /\ UNCHANGED <<args, phase>> /\ writer = "running"
    BY <1>1 DEF Flush, WriterEnds
  <2>2. ~Scanned
    BY <2>1 DEF ThreadTypes
  <2>3. QED
    BY <2>1, <2>2, CommitKeepsRows
<1>2. CASE Deduplicate
  BY <1>2, MergeKeepsRows
<1>3. CASE ~Flush /\ ~WriterEnds /\ ~Deduplicate
  <2>1. Rows' = Rows /\ UNCHANGED <<args, dedup_exact>> /\ Scanned' = Scanned
    BY <1>3, RowsOfOtherSteps
  <2>2. QED
    BY <2>1 DEF RowInv
<1>4. QED
  BY <1>1, <1>2, <1>3

-----------------------------------------------------------------------------
(* What is found is not lost.                                              *)

\* Neither the step of a worker that has nothing to send nor a step of another
\* thread takes a match out of a worker's hands.
LEMMA HandsKeep ==
  ASSUME ThreadTypes, NEW i \in Input, NEW m, InHand(i, m),
         \/ work' = work
         \/ \E w \in Worker : \E x : work[w].todo = <<>> /\ work' = [work EXCEPT ![w] = x]
  PROVE  InHand(i, m)'
<1>1. PICK v \in Worker : work[v].input = i /\ \E k \in DOMAIN work[v].todo : work[v].todo[k] = m
  BY DEF InHand
<1>2. CASE work' = work
  BY <1>1, <1>2 DEF InHand
<1>3. CASE \E w \in Worker : \E x : work[w].todo = <<>> /\ work' = [work EXCEPT ![w] = x]
  <2>1. PICK w \in Worker : \E x : work[w].todo = <<>> /\ work' = [work EXCEPT ![w] = x]
    BY <1>3
  <2>2. v # w
    BY <1>1, <2>1
  <2>3. work'[v] = work[v]
    BY <2>1, <2>2 DEF ThreadTypes
  <2>4. QED
    BY <1>1, <2>3 DEF InHand
<1>4. QED
  BY <1>2, <1>3

\* What a worker sends of a match is in the channel, and the rest in its hands.
LEMMA SendKeeps ==
  ASSUME ThreadTypes, NEW w \in Worker, Send(w), NEW i \in Input, NEW m
  PROVE  /\ \A k \in DOMAIN ds : \E j \in DOMAIN ds' : ds'[j] = ds[k]
         /\ InHand(i, m) => \/ InHand(i, m)'
                            \/ \E j \in DOMAIN ds' : ds'[j] = Message(i, m)
<1> DEFINE own == work[w].input
           rest == Tail(work[w].todo)
           x == IF rest = <<>> THEN Idle ELSE [work[w] EXCEPT !.todo = rest]
<1>1. /\ work[w].todo # <<>> /\ ds' = Append(ds, Message(own, Head(work[w].todo)))
      /\ work' = [work EXCEPT ![w] = x]
  BY DEF Send, Message
<1>2. /\ work[w] \in [input : Input \cup {Nothing}, todo : Seq(Match)] /\ WorkOf(work[w])
      /\ work \in [Worker -> [input : Input \cup {Nothing}, todo : Seq(Match)]]
      /\ ds \in Seq(Messages)
  BY DEF ThreadTypes
<1>3. /\ own \in Input
      /\ 1 \in DOMAIN work[w].todo /\ Head(work[w].todo) = work[w].todo[1]
  BY <1>1, <1>2 DEF WorkOf
<1>4. Message(own, Head(work[w].todo)) \in Messages
  BY <1>2, <1>3, FoundIsMatch DEF WorkOf
<1>5. /\ \A k \in DOMAIN ds : \E j \in DOMAIN ds' : ds'[j] = ds[k]
      /\ \E j \in DOMAIN ds' : ds'[j] = Message(own, Head(work[w].todo))
  <2>1. ds' = Append(ds, Message(own, Head(work[w].todo)))
    BY <1>1
  <2>2. ds \in Seq(Messages)
    BY <1>2
  <2>3. (\A e : Has(ds, e) => Has(ds', e)) /\ Has(ds', Message(own, Head(work[w].todo)))
    BY <1>4, <2>1, <2>2, AppendKeeps
  <2>4. QED
    BY <2>3 DEF Has
<1>6. ASSUME NEW v \in Worker, work[v].input = i, NEW k \in DOMAIN work[v].todo,
             work[v].todo[k] = m
      PROVE  InHand(i, m)' \/ \E j \in DOMAIN ds' : ds'[j] = Message(i, m)
  <2>1. CASE v # w
    <3>1. work'[v] = work[v]
      BY <1>1, <1>2, <2>1
    <3>2. QED
      BY <1>6, <3>1 DEF InHand
  <2>2. CASE v = w
    <3>1. m = Head(work[w].todo) \/ \E j \in DOMAIN rest : rest[j] = m
      BY <1>1, <1>2, <1>6, <2>2, TailKeeps
    <3>2. CASE m = Head(work[w].todo)
      BY <1>5, <1>6, <2>2, <3>2
    <3>3. CASE \E j \in DOMAIN rest : rest[j] = m
      <4>1. rest # <<>>
        BY <3>3
      <4>2. work'[w] = [work[w] EXCEPT !.todo = rest]
        BY <1>1, <1>2, <4>1
      <4>3. ASSUME NEW t, NEW y \in [input : Input \cup {Nothing}, todo : Seq(Match)]
            PROVE  [y EXCEPT !.todo = t].input = y.input /\ [y EXCEPT !.todo = t].todo = t
        OBVIOUS
      <4>4. work'[w].input = work[w].input /\ work'[w].todo = rest
        BY <1>2, <4>2, <4>3, Zenon
      <4> HIDE DEF rest
      <4>5. QED
        BY <1>6, <2>2, <3>3, <4>4 DEF InHand
    <3>4. QED
      BY <3>1, <3>2, <3>3
  <2>3. QED
    BY <2>1, <2>2
<1>7. QED
  BY <1>5, <1>6 DEF InHand

\* The writer's steps.
LEMMA ReceiveKeeps ==
  ASSUME ThreadTypes, Receive
  PROVE  /\ \A k \in DOMAIN batch : \E j \in DOMAIN batch' : batch'[j] = batch[k]
         /\ \A k \in DOMAIN ds : \/ \E j \in DOMAIN ds' : ds'[j] = ds[k]
                                 \/ \E j \in DOMAIN batch' : batch'[j] = ds[k]
<1>1. /\ ds # <<>> /\ batch' = Append(batch, Head(ds)) /\ ds' = Tail(ds)
      /\ ds \in Seq(Messages) /\ batch \in Seq(Messages)
  BY DEF Receive, ThreadTypes
<1>2. /\ Head(ds) \in Messages
      /\ \A k \in DOMAIN ds : ds[k] = Head(ds) \/ \E j \in DOMAIN ds' : ds'[j] = ds[k]
  BY <1>1, TailKeeps
<1>3. /\ \A k \in DOMAIN batch : \E j \in DOMAIN batch' : batch'[j] = batch[k]
      /\ \E j \in DOMAIN batch' : batch'[j] = Head(ds)
  <2>1. batch \in Seq(Messages) /\ Head(ds) \in Messages
    BY <1>1, <1>2
  <2>2. batch' = Append(batch, Head(ds))
    BY <1>1
  <2>3. (\A x : Has(batch, x) => Has(batch', x)) /\ Has(batch', Head(ds))
    BY <2>1, <2>2, AppendKeeps
  <2>4. QED
    BY <2>3 DEF Has
<1>4. QED
  BY <1>2, <1>3

\* A commit stores the request of every message of the batch, and with
\* --no-dedup the message.
LEMMA CommitKeeps ==
  ASSUME ThreadTypes, RowInv, Commit, ~Scanned, NEW k \in DOMAIN batch
  PROVE  /\ \E r \in Rows' : RequestOf(r.match) = RequestOf(batch[k].match)
         /\ args.no_dedup => batch[k] \in Rows'
<1>1. \A n \in DOMAIN batch : batch[n] \in Messages
  BY DEF ThreadTypes
<1>2. args.no_dedup => batch[k] \in Rows'
  BY CommitRows DEF Recordable
<1>3. CASE Recordable(k)
  BY <1>2, <1>3, CommitRows
<1>4. CASE ~args.no_dedup /\ Digest(batch[k]) \in dedup_exact
  <2>1. PICK r \in Rows : Digest(r) = Digest(batch[k])
    BY <1>4 DEF RowInv
  <2>2. r \in Messages /\ r \in Rows'
    BY CommitRows DEF RowInv
  <2>3. QED
    BY <1>1, <1>2, <2>1, <2>2, SameDigestSameRequest
<1>5. CASE \E n \in DOMAIN batch : Recordable(n) /\ Digest(batch[n]) = Digest(batch[k])
  <2>1. PICK n \in DOMAIN batch : Recordable(n) /\ Digest(batch[n]) = Digest(batch[k])
    BY <1>5
  <2>2. batch[n] \in Rows'
    BY <2>1, CommitRows
  <2>3. QED
    BY <1>1, <1>2, <2>1, <2>2, SameDigestSameRequest
<1>6. QED
  BY <1>3, <1>4, <1>5, CommitRows DEF Recordable

\* A merge keeps every request.
LEMMA MergeKeeps ==
  ASSUME ThreadTypes, RowInv, Deduplicate, NEW r \in Rows
  PROVE  /\ \E q \in Rows' : RequestOf(q.match) = RequestOf(r.match)
         /\ args.no_dedup => r \in Rows'
<1>1. CASE args.no_dedup
  BY <1>1, MergeRows
<1>2. CASE ~args.no_dedup
  <2>1. PICK kept \in SUBSET Rows :
          /\ Merges(Rows, kept)
          /\ \A q \in kept : \E p \in Rows' : p.match = q.match
    BY <1>2, MergeRows
  <2>2. PICK q \in kept : q.match = r.match
    BY <2>1 DEF Merges, SameFinding
  <2>3. QED
    BY <1>2, <2>1, <2>2
<1>3. QED
  BY <1>1, <1>2

\* No step loses a match that is in the store or on its way there.
LEMMA SafeNext ==
  ASSUME ThreadTypes, RowInv, [Next]_vars, NEW i \in Input, NEW m
  PROVE  /\ RequestIsSafe(i, m) => RequestIsSafe(i, m)'
         /\ args.no_dedup /\ MatchIsSafe(i, m) => MatchIsSafe(i, m)'
<1>1. CASE /\ Rows' = Rows /\ UNCHANGED <<ds, batch>>
           /\ \/ work' = work
              \/ \E w \in Worker : \E x : work[w].todo = <<>> /\ work' = [work EXCEPT ![w] = x]
  <2>1. InHand(i, m) => InHand(i, m)'
    BY <1>1, HandsKeep
  <2>2. InStore(m) => InStore(m)'
    BY <1>1 DEF InStore
  <2>3. QED
    BY <1>1, <2>1, <2>2 DEF RequestIsSafe, MatchIsSafe
<1>2. ASSUME NEW w \in Worker, Take(w) \/ Unreadable(w) \/ ScanBlob(w)
      PROVE  /\ Rows' = Rows /\ UNCHANGED <<ds, batch>>
             /\ \E x : work[w].todo = <<>> /\ work' = [work EXCEPT ![w] = x]
  <2>1. Rows' = Rows /\ UNCHANGED <<ds, batch>>
    BY <1>2 DEF Take, Unreadable, ScanBlob, storeVars, Rows
  <2>2. work[w].todo = <<>>
    BY <1>2 DEF Take, Unreadable, ScanBlob, Fresh, ThreadTypes, WorkOf
  <2>3. CASE Take(w)
    BY <2>1, <2>2, <2>3 DEF Take
  <2>4. CASE Unreadable(w)
    BY <2>1, <2>2, <2>4 DEF Unreadable
  <2>5. CASE ScanBlob(w)
    <3>1. \/ work' = [work EXCEPT ![w] = Idle]
          \/ work' = [work EXCEPT ![w].todo = MatchesOf[work[w].input]]
      BY <2>5 DEF ScanBlob
    <3>2. QED
      BY <2>1, <2>2, <3>1
  <2>6. QED
    BY <1>2, <2>3, <2>4, <2>5
<1>3. ASSUME NEW w \in Worker, Send(w)
      PROVE  /\ RequestIsSafe(i, m) => RequestIsSafe(i, m)'
             /\ args.no_dedup /\ MatchIsSafe(i, m) => MatchIsSafe(i, m)'
  <2>1. Rows' = Rows /\ batch' = batch
    BY <1>3 DEF Send, Rows
  <2>2. InStore(m) => InStore(m)'
    BY <2>1 DEF InStore
  <2>3. Message(i, m).match = m
    BY DEF Message
  <2>4. QED
    BY <1>3, <2>1, <2>2, <2>3, SendKeeps DEF RequestIsSafe, MatchIsSafe
<1>4. CASE Receive
  <2>1. Rows' = Rows /\ work' = work
    BY <1>4 DEF Receive, Rows
  <2>2. /\ InStore(m) => InStore(m)'
        /\ InHand(i, m) => InHand(i, m)'
    BY <2>1 DEF InStore, InHand
  <2>3. QED
    BY <1>4, <2>1, <2>2, ReceiveKeeps DEF RequestIsSafe, MatchIsSafe
<1>5. CASE Flush \/ WriterEnds
  <2>1. Commit /\ UNCHANGED <<ds, work>> /\ writer = "running"
    BY <1>5 DEF Flush, WriterEnds
  <2>2. ~Scanned
    BY <2>1 DEF ThreadTypes
  <2>3. Rows \subseteq Rows'
    BY <2>1, CommitRows
  <2>4. /\ InStore(m) => InStore(m)'
        /\ InHand(i, m) => InHand(i, m)'
    BY <2>1, <2>3 DEF InStore, InHand
  <2>5. ASSUME NEW k \in DOMAIN batch, RequestOf(batch[k].match) = RequestOf(m) PROVE InStore(m)'
    BY <2>1, <2>2, <2>5, CommitKeeps DEF InStore
  <2>6. ASSUME NEW k \in DOMAIN batch, args.no_dedup, batch[k] = Message(i, m)
        PROVE  Message(i, m) \in Rows'
    BY <2>1, <2>2, <2>6, CommitKeeps
  <2>7. QED
    BY <2>1, <2>3, <2>4, <2>5, <2>6 DEF RequestIsSafe, MatchIsSafe
<1>6. CASE Deduplicate
  <2>1. UNCHANGED <<ds, batch, work>>
    BY <1>6 DEF Deduplicate, scanVars, storeVars
  <2>2. InHand(i, m) => InHand(i, m)'
    BY <2>1 DEF InHand
  <2>3. InStore(m) => InStore(m)'
    BY <1>6, MergeKeeps DEF InStore
  <2>4. args.no_dedup => Rows \subseteq Rows'
    BY <1>6, MergeKeeps
  <2>5. QED
    BY <2>1, <2>2, <2>3, <2>4 DEF RequestIsSafe, MatchIsSafe
<1>7. CASE \/ \E j \in Input : Enumerate(j)
           \/ \E v \in {"done", "failed"} : EnumeratorEnds(v)
           \/ ScanFails
  BY <1>1, <1>7 DEF Enumerate, EnumeratorEnds, ScanFails, scanVars, storeVars, Rows
<1>8. CASE ValidateNext \/ UNCHANGED ownVars
  <2>1. UNCHANGED <<ds, batch, work>>
    BY <1>8 DEF ValidateNext, Partition, Skip, Hit, Claim, Answer, Wake, EndSimple, EndChunk,
                ownVars, scanVars, storeVars
  <2>2. Rows' = Rows
    BY <1>8 DEF ValidateNext, Partition, Skip, Hit, Claim, Answer, Wake, EndSimple, EndChunk,
                ownVars, Rows
  <2>3. QED
    BY <1>1, <2>1, <2>2
<1>9. QED
  BY <1>1, <1>2, <1>3, <1>4, <1>5, <1>6, <1>7, <1>8, StepKinds DEF ScanNext

\* Who claims a content has its matches in hand.
LEMMA ClaimTakesMatches ==
  ASSUME ThreadTypes, NEW w \in Worker, ScanBlob(w), NEW i, work[w].input = i
  PROVE  /\ i \in Input
         /\ seen_blobs' \in {seen_blobs, seen_blobs \cup {BlobOf[i]}}
         /\ args.no_dedup => seen_blobs' = seen_blobs
         /\ \/ MatchesOf[i] = <<>> /\ seen_blobs' = seen_blobs
            \/ ~args.no_dedup /\ BlobOf[i] \in seen_blobs /\ seen_blobs' = seen_blobs
            \/ /\ \A m \in Found(i) : InHand(i, m)'
               /\ ~args.no_dedup => BlobOf[i] \in seen_blobs'
<1>1. /\ work[w] \in [input : Input \cup {Nothing}, todo : Seq(Match)]
      /\ work \in [Worker -> [input : Input \cup {Nothing}, todo : Seq(Match)]]
      /\ i \in Input
  BY DEF ThreadTypes, ScanBlob, Fresh
<1>2. CASE MatchesOf[i] = <<>> \/ (~args.no_dedup /\ BlobOf[i] \in seen_blobs)
  BY <1>1, <1>2 DEF ScanBlob
<1>3. CASE ~(MatchesOf[i] = <<>> \/ (~args.no_dedup /\ BlobOf[i] \in seen_blobs))
  <2>1. /\ work' = [work EXCEPT ![w].todo = MatchesOf[i]]
        /\ seen_blobs' = IF args.no_dedup THEN seen_blobs ELSE seen_blobs \cup {BlobOf[i]}
    BY <1>3 DEF ScanBlob
  <2>2. work'[w].input = i /\ work'[w].todo = MatchesOf[i]
    BY <1>1, <2>1
  <2>3. ASSUME NEW m \in Found(i) PROVE InHand(i, m)'
    BY <2>2 DEF Found, InHand
  <2>4. QED
    BY <1>1, <2>1, <2>3
<1>4. QED
  BY <1>2, <1>3

\* Only scan_blob claims.
LEMMA ClaimsOfOtherSteps ==
  ASSUME [Next]_vars, \A w \in Worker : ~ScanBlob(w)
  PROVE  UNCHANGED <<args, seen_blobs>>
  BY StepKinds DEF ScanNext, Enumerate, EnumeratorEnds, Take, Unreadable, Send, Receive, Flush,
         WriterEnds, ScanFails, Deduplicate, ValidateNext, Partition, Skip, Hit, Claim, Answer,
         Wake, EndSimple, EndChunk, ownVars, scanVars

\* Every step keeps what was found in the claimed contents.
LEMMA ClaimNext == ThreadTypes /\ RowInv /\ ClaimInv /\ [Next]_vars => ClaimInv'
<1> SUFFICES ASSUME ThreadTypes, RowInv, ClaimInv, [Next]_vars PROVE ClaimInv'
  OBVIOUS
<1> DEFINE Kept(b) == \E i \in Input : BlobOf[i] = b /\ \A m \in Found(i) : RequestIsSafe(i, m)'
<1>1. ASSUME NEW b \in seen_blobs PROVE Kept(b)
  <2>1. PICK i \in Input : BlobOf[i] = b /\ \A m \in Found(i) : RequestIsSafe(i, m)
    BY DEF ClaimInv
  <2>2. \A m \in Found(i) : RequestIsSafe(i, m)'
    BY <2>1, SafeNext
  <2>3. QED
    BY <2>1, <2>2
<1>2. ASSUME NEW w \in Worker, ScanBlob(w) PROVE ClaimInv'
  <2>0. PICK i : work[w].input = i
    OBVIOUS
  <2>1. args' = args
    BY <1>2 DEF ScanBlob
  <2>2. /\ i \in Input
        /\ seen_blobs' \in {seen_blobs, seen_blobs \cup {BlobOf[i]}}
        /\ args.no_dedup => seen_blobs' = seen_blobs
        /\ \/ seen_blobs' = seen_blobs
           \/ \A m \in Found(i) : InHand(i, m)'
    BY <1>2, <2>0, ClaimTakesMatches
  <2>3. ASSUME NEW b \in seen_blobs', b \notin seen_blobs PROVE Kept(b)
    <3>1. b = BlobOf[i] /\ \A m \in Found(i) : InHand(i, m)'
      BY <2>2, <2>3
    <3>2. \A m \in Found(i) : RequestIsSafe(i, m)'
      BY <3>1 DEF RequestIsSafe
    <3>3. QED
      BY <2>2, <3>1, <3>2
  <2>4. \A b \in seen_blobs' : Kept(b)
    BY <1>1, <2>3
  <2>5. args'.no_dedup => seen_blobs' = {}
    BY <2>1, <2>2 DEF ClaimInv
  <2>6. QED
    BY <2>4, <2>5 DEF ClaimInv
<1>3. CASE \A w \in Worker : ~ScanBlob(w)
  <2>1. UNCHANGED <<args, seen_blobs>>
    BY <1>3, ClaimsOfOtherSteps
  <2>2. \A b \in seen_blobs' : Kept(b)
    BY <1>1, <2>1
  <2>3. QED
    BY <2>1, <2>2 DEF ClaimInv
<1>4. QED
  BY <1>2, <1>3

\* An input is with a worker that has not matched it yet.
WithWorker(i) == \E w \in Worker : work[w].input = i /\ work[w].todo = <<>>

\* An input was matched, or its content was.
Matched(i) ==
  IF args.no_dedup THEN \A m \in Found(i) : MatchIsSafe(i, m)
  ELSE MatchesOf[i] = <<>> \/ BlobOf[i] \in seen_blobs

\* An input that was matched stays so.
LEMMA MatchedNext ==
  ASSUME ThreadTypes, RowInv, [Next]_vars, NEW i \in Input, Matched(i)
  PROVE  Matched(i)'
<1>1. args' = args /\ seen_blobs \subseteq seen_blobs'
  <2>1. ASSUME NEW w \in Worker, ScanBlob(w) PROVE args' = args /\ seen_blobs \subseteq seen_blobs'
    <3>1. seen_blobs \subseteq seen_blobs'
      <4>1. PICK j : work[w].input = j
        OBVIOUS
      <4>2. seen_blobs' \in {seen_blobs, seen_blobs \cup {BlobOf[j]}}
        BY <2>1, <4>1, ClaimTakesMatches
      <4>3. QED
        BY <4>2
    <3>2. QED
      BY <2>1, <3>1 DEF ScanBlob
  <2>2. QED
    BY <2>1, ClaimsOfOtherSteps
<1>2. CASE args.no_dedup
  <2>1. \A m \in Found(i) : MatchIsSafe(i, m)'
    BY <1>2, SafeNext DEF Matched
  <2>2. QED
    BY <1>1, <1>2, <2>1 DEF Matched
<1>3. CASE ~args.no_dedup
  BY <1>1, <1>3 DEF Matched
<1>4. QED
  BY <1>2, <1>3

\* What a step does with an input on its way to a worker.
LEMMA InputMoves ==
  ASSUME ThreadTypes, [Next]_vars, NEW i \in Input
  PROVE  /\ i \in unsent => i \in unsent' \/ Has(input', i)
         /\ Has(input, i) => Has(input', i) \/ WithWorker(i)'
<1>1. CASE UNCHANGED <<unsent, input>>
  BY <1>1
<1>2. ASSUME NEW j \in Input, Enumerate(j)
      PROVE  /\ i \in unsent => i \in unsent' \/ Has(input', i)
             /\ Has(input, i) => Has(input', i) \/ WithWorker(i)'
  <2>1. unsent' = unsent \ {j} /\ input' = Append(input, j) /\ input \in Seq(Input)
    BY <1>2 DEF Enumerate, ThreadTypes
  <2>2. (\A x : Has(input, x) => Has(input', x)) /\ Has(input', j)
    BY <2>1, AppendKeeps
  <2>3. QED
    BY <2>1, <2>2
<1>3. ASSUME NEW w \in Worker, Take(w)
      PROVE  /\ i \in unsent => i \in unsent' \/ Has(input', i)
             /\ Has(input, i) => Has(input', i) \/ WithWorker(i)'
  <2>1. /\ unsent' = unsent /\ input # <<>> /\ input' = Tail(input) /\ input \in Seq(Input)
        /\ work' = [work EXCEPT ![w] = [input |-> Head(input), todo |-> <<>>]]
        /\ work'[w] = [input |-> Head(input), todo |-> <<>>]
    BY <1>3 DEF Take, ThreadTypes
  <2>2. \A k \in DOMAIN input :
          input[k] = Head(input) \/ \E j \in DOMAIN Tail(input) : Tail(input)[j] = input[k]
    BY <2>1, TailKeeps
  <2>3. Has(input, i) => i = Head(input) \/ Has(input', i)
    BY <2>1, <2>2 DEF Has
  <2>4. i = Head(input) => WithWorker(i)'
    BY <2>1 DEF WithWorker
  <2>5. QED
    BY <2>1, <2>3, <2>4
<1>4. CASE \/ \E v \in {"done", "failed"} : EnumeratorEnds(v)
           \/ \E w \in Worker : Unreadable(w) \/ ScanBlob(w) \/ Send(w)
           \/ Receive \/ Flush \/ WriterEnds \/ ScanFails \/ Deduplicate
           \/ ValidateNext \/ UNCHANGED ownVars
  BY <1>1, <1>4 DEF EnumeratorEnds, Unreadable, ScanBlob, Send, Receive, Flush, WriterEnds,
     ScanFails, Deduplicate, ValidateNext, Partition, Skip, Hit, Claim, Answer, Wake, EndSimple,
     EndChunk, ownVars, scanVars, enumVars
<1>5. QED
  BY <1>2, <1>3, <1>4, StepKinds DEF ScanNext

\* A worker matches its input or reports it.
LEMMA WorkerMatches ==
  ASSUME ThreadTypes, [Next]_vars, NEW i \in Input, WithWorker(i)
  PROVE  WithWorker(i)' \/ Matched(i)' \/ had_errors'
<1>1. PICK v \in Worker : work[v].input = i /\ work[v].todo = <<>>
  BY DEF WithWorker
<1>2. i # Nothing
  BY ScanAssumption
<1>3. CASE work'[v] = work[v]
  BY <1>1, <1>3 DEF WithWorker
<1>4. ASSUME NEW w \in Worker, Take(w) \/ Unreadable(w) \/ ScanBlob(w) \/ Send(w), w # v
      PROVE  work'[v] = work[v]
  BY <1>4 DEF Take, Unreadable, ScanBlob, Send, ThreadTypes
<1>5. ~Take(v) /\ ~Send(v)
  BY <1>1, <1>2 DEF Take, Send
<1>6. CASE Unreadable(v)
  BY <1>6 DEF Unreadable
<1>7. CASE ScanBlob(v)
  <2>1. args' = args
    BY <1>7 DEF ScanBlob
  <2>2. \/ MatchesOf[i] = <<>>
        \/ ~args.no_dedup /\ BlobOf[i] \in seen_blobs'
        \/ /\ \A m \in Found(i) : InHand(i, m)'
           /\ ~args.no_dedup => BlobOf[i] \in seen_blobs'
    BY <1>1, <1>7, ClaimTakesMatches
  <2>3. MatchesOf[i] = <<>> => Found(i) = {}
    BY DEF Found
  <2>4. ASSUME args.no_dedup, NEW m \in Found(i) PROVE MatchIsSafe(i, m)'
    BY <2>2, <2>3, <2>4 DEF MatchIsSafe
  <2>5. QED
    BY <2>1, <2>2, <2>4 DEF Matched
<1>8. CASE \/ \E j \in Input : Enumerate(j)
           \/ \E x \in {"done", "failed"} : EnumeratorEnds(x)
           \/ Receive \/ Flush \/ WriterEnds \/ ScanFails \/ Deduplicate
           \/ ValidateNext \/ UNCHANGED ownVars
  <2>1. work' = work
    BY <1>8 DEF Enumerate, EnumeratorEnds, Receive, Flush, WriterEnds, ScanFails, Deduplicate,
       ValidateNext, Partition, Skip, Hit, Claim, Answer, Wake, EndSimple, EndChunk, ownVars, scanVars
  <2>2. QED
    BY <1>3, <2>1
<1>9. QED
  BY <1>3, <1>4, <1>5, <1>6, <1>7, <1>8, StepKinds DEF ScanNext

\* An error is not forgotten.
LEMMA ErrorsStay == [Next]_vars /\ had_errors => had_errors'
  BY StepKinds DEF ScanNext, Enumerate, EnumeratorEnds, Take, Unreadable, ScanBlob, Send, Receive,
         Flush, WriterEnds, ScanFails, Deduplicate, ValidateNext, Partition, Skip, Hit, Claim,
         Answer, Wake, EndSimple, EndChunk, ownVars, scanVars

\* Every step keeps track of every input.
LEMMA InputNext == ThreadTypes /\ RowInv /\ InputInv /\ [Next]_vars => InputInv'
<1> SUFFICES ASSUME ThreadTypes, RowInv, InputInv, [Next]_vars, ~had_errors' PROVE InputInv'
  BY DEF InputInv
<1>1. ~had_errors
  BY ErrorsStay
<1>2. ASSUME NEW i \in Input
      PROVE  i \in unsent' \/ Has(input', i) \/ WithWorker(i)' \/ Matched(i)'
  <2>1. i \in unsent \/ Has(input, i) \/ WithWorker(i) \/ Matched(i)
    BY <1>1 DEF InputInv, Has, WithWorker, Matched
  <2>2. QED
    BY <2>1, InputMoves, WorkerMatches, MatchedNext
<1>3. QED
  BY <1>2 DEF InputInv, Has, WithWorker, Matched

\* The scan begins with everything still to come.
LEMMA ScanInit == Init => ScanInv
<1> SUFFICES ASSUME Init PROVE ScanInv
  OBVIOUS
<1>1. Rows = {}
  BY DEF Init, Rows, NoRows
<1>2. ~Scanned
  BY DEF Init, Scanned
<1>3. ThreadTypes
  <2>1. /\ args \in [no_dedup : BOOLEAN] /\ unsent = Input /\ enum = "running"
        /\ input = <<>> /\ ds = <<>> /\ batch = <<>> /\ writer = "running"
        /\ work = [w \in Worker |-> [input |-> Nothing, todo |-> <<>>]]
    BY ScanAssumption DEF Init
  <2>2. \A w \in Worker : WorkOf(work[w])
    BY <2>1 DEF WorkOf
  <2>3. QED
    BY <1>2, <2>1, <2>2 DEF ThreadTypes
<1>4. RowInv
  BY <1>1, <1>2 DEF RowInv, Init
<1>5. ClaimInv /\ InputInv
  BY DEF ClaimInv, InputInv, Init
<1>6. QED
  BY <1>3, <1>4, <1>5 DEF ScanInv

\* The invariant of the scan.
LEMMA ScanInvariant == Spec => [](PhaseInv /\ ScanInv)
<1>1. Init => PhaseInv /\ ScanInv
  BY OutcomeInit, ScanInit DEF OutcomeInv
<1>2. PhaseInv /\ ScanInv /\ [Next]_vars => (PhaseInv /\ ScanInv)'
  BY PhaseNext, ThreadNext, RowNext, ClaimNext, InputNext DEF ScanInv
<1>3. QED
  BY <1>1, <1>2, PTL DEF Spec

\* What a worker has found in a content it claimed is in the store or on its way
\* there, whatever the workers, the channels and the writer do.
THEOREM Claims == Spec => []ClaimedContentIsOnItsWay
<1>1. ScanInv => ClaimedContentIsOnItsWay
  <2> SUFFICES ASSUME ScanInv, NEW b \in seen_blobs
               PROVE  \E i \in Input :
                        /\ BlobOf[i] = b
                        /\ \A m \in Found(i) :
                             \/ InStore(m)
                             \/ \E k \in DOMAIN ds : RequestOf(ds[k].match) = RequestOf(m)
                             \/ \E k \in DOMAIN batch : RequestOf(batch[k].match) = RequestOf(m)
                             \/ \E w \in Worker :
                                  /\ work[w].input # Nothing /\ BlobOf[work[w].input] = b
                                  /\ \E k \in DOMAIN work[w].todo : work[w].todo[k] = m
    BY DEF ClaimedContentIsOnItsWay
  <2>1. PICK i \in Input : BlobOf[i] = b /\ \A m \in Found(i) : RequestIsSafe(i, m)
    BY DEF ScanInv, ClaimInv
  <2>2. i # Nothing
    BY ScanAssumption
  <2>3. QED
    BY <2>1, <2>2 DEF RequestIsSafe, InHand
<1>2. QED
  BY <1>1, ScanInvariant, PTL

\* A scan without errors has kept what was found in every content, with
\* --no-dedup under every path.
THEOREM Completeness == Spec => []CompleteScansMissNothing
<1>1. ScanInv => CompleteScansMissNothing
  <2> SUFFICES ASSUME ScanInv, Scanned, ~had_errors
               PROVE  IF args.no_dedup
                        THEN \A i \in Input : \A m \in Found(i) : Message(i, m) \in Rows
                        ELSE \A b \in Blob : \E i \in Input :
                               BlobOf[i] = b /\ \A m \in Found(i) : InStore(m)
    BY DEF CompleteScansMissNothing, Message
  <2>1. /\ unsent = {} /\ input = <<>> /\ ds = <<>> /\ batch = <<>>
        /\ \A w \in Worker : work[w].input = Nothing
    BY DEF ScanInv, ThreadTypes, ScanOver
  <2>2. ASSUME NEW i \in Input PROVE i # Nothing
    BY ScanAssumption
  <2>3. ASSUME NEW i \in Input, NEW m PROVE ~InHand(i, m)
    BY <2>1, <2>2 DEF InHand
  <2>4. ASSUME NEW i \in Input PROVE Matched(i)
    BY <2>1, <2>2 DEF ScanInv, InputInv, Matched
  <2>5. CASE args.no_dedup
    <3>1. ASSUME NEW i \in Input, NEW m \in Found(i) PROVE Message(i, m) \in Rows
      <4>1. MatchIsSafe(i, m)
        BY <2>4, <2>5 DEF Matched
      <4>2. QED
        BY <2>1, <2>3, <4>1 DEF MatchIsSafe
    <3>2. QED
      BY <2>5, <3>1
  <2>6. CASE ~args.no_dedup
    <3>1. ASSUME NEW b \in Blob
          PROVE  \E i \in Input : BlobOf[i] = b /\ \A m \in Found(i) : InStore(m)
      <4>1. PICK i \in Input : BlobOf[i] = b
        BY DEF Blob
      <4>2. CASE MatchesOf[i] = <<>>
        BY <4>1, <4>2 DEF Found
      <4>3. CASE b \in seen_blobs
        <5>1. PICK j \in Input : BlobOf[j] = b /\ \A m \in Found(j) : RequestIsSafe(j, m)
          BY <4>3 DEF ScanInv, ClaimInv
        <5>2. \A m \in Found(j) : InStore(m)
          BY <2>1, <2>3, <5>1 DEF RequestIsSafe
        <5>3. QED
          BY <5>1, <5>2
      <4>4. QED
        BY <2>4, <2>6, <4>1, <4>2, <4>3 DEF Matched
    <3>2. QED
      BY <2>6, <3>1
  <2>7. QED
    BY <2>5, <2>6
<1>2. QED
  BY <1>1, ScanInvariant, PTL

\* Without --no-dedup a request is in the store once, a helper once for each blob
\* or span, and no finding has the path of another.
THEOREM ExactStore == Spec => []StoreIsExact
<1>1. ScanInv => StoreIsExact
  <2> SUFFICES ASSUME ScanInv PROVE StoreIsExact
    OBVIOUS
  <2>1. \A r \in Rows : \A i \in r.origins : r.match \in Found(i)
    BY DEF ScanInv, RowInv
  <2>2. ASSUME ~args.no_dedup, NEW r \in Rows, NEW q \in Rows,
               RequestOf(r.match) = RequestOf(q.match),
               r.match.rule \in Helper => IF Scanned THEN r.match = q.match ELSE r.blob = q.blob
        PROVE  r = q
    <3>1. CASE Scanned
      BY <2>2, <3>1 DEF ScanInv, RowInv
    <3>2. CASE ~Scanned
      <4>1. Digest(r) = Digest(q)
        BY <2>2, <3>2, SameRequestSameDigest
      <4>2. QED
        BY <2>2, <3>2, <4>1 DEF ScanInv, RowInv
    <3>3. QED
      BY <3>1, <3>2
  <2>3. QED
    BY <2>1, <2>2 DEF StoreIsExact
<1>2. QED
  BY <1>1, ScanInvariant, PTL
=============================================================================
