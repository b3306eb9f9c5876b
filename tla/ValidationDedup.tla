-------------------------- MODULE ValidationDedup --------------------------
(***************************************************************************)
(* The process-wide validation cache of src/src/validation.rs: concurrent  *)
(* validations of matches with the same de-dup key share one provider      *)
(* request.  VALIDATION_CACHE holds published results, IN_FLIGHT one entry *)
(* per key whose owner is validating it, and every other task of that key  *)
(* waits on the entry's Notify.  ValidationCacheLifetime (scanner/         *)
(* runner.rs) clears both maps at the boundaries of a scan, under          *)
(* SCAN_LOCK.                                                              *)
(*                                                                         *)
(* A task is one call of validate_resolved_match for one match.  Tasks run *)
(* on several OS threads (run_parallel_scan validates one repository per   *)
(* rayon worker), so every access to a shared map is a step of its own.    *)
(* An in-flight entry (an Arc<InFlightValidation>) is created by the task  *)
(* that claims a key, so an entry is identified with that task.            *)
(***************************************************************************)
EXTENDS Naturals, FiniteSets

CONSTANTS
  Task,        \* validations of the run, over all scans
  Key,         \* de-dup keys (validation_dedup_key_with_policy)
  Scan,        \* scans of one process
  KeyOf,       \* the key of each task's match
  ScanOf,      \* the scan each task belongs to
  NoTask,      \* no entry, no result
  NoScan,      \* SCAN_LOCK is free
  Timeouts     \* FALSE for validation_timeout = 0 (--no-timeouts)

ASSUME DedupConstants ==
  /\ KeyOf \in [Task -> Key]
  /\ ScanOf \in [Task -> Scan]
  /\ NoTask \notin Task
  /\ NoScan \notin Scan
  /\ Timeouts \in BOOLEAN

VARIABLES
  cache,      \* VALIDATION_CACHE: key -> published result, or None
  inflight,   \* IN_FLIGHT: key -> the task that owns the entry, or NoTask
  completed,  \* InFlightValidation.completed of the entry each task created
  woken,      \* whether notify_waiters reached the task's current Notified
  handle,     \* the entry (Arc) a task waits on, or took out of IN_FLIGHT
  owns,       \* owns_in_flight
  result,     \* the validation fields of the task's match
  pc,         \* where the task is in validate_resolved_match
  lock,       \* SCAN_LOCK: the scan holding it
  begun       \* scans that have taken the lock

caches == <<cache, inflight>>
vars == <<cache, inflight, completed, woken, handle, owns, result, pc, lock,
          begun>>

\* The provider's verdict (VerifiedActive or VerifiedInactive), or none
\* (Unavailable or Skipped).
Outcome == {"Verified", "Unverified"}

\* A result names the task that produced it: sharing must be visible.
Result == [by : Task, outcome : Outcome]
None == [by |-> NoTask, outcome |-> "NotAttempted"]

By(t, o) == [by |-> t, outcome |-> o]

\* The owner's steps between the claim and the removal of its entry.
Owning == {"prepare", "limit", "request", "publish", "remove"}

\* The waiter's steps, and those that hold a registered Notified future.
Registered == {"check", "await"}
Waiting == {"register"} \cup Registered

\* The .await points, where the timer of limits::timeout can fire first.
AwaitPoint == {"await", "limit", "request"}

PC == {"start", "lookup", "claim", "adopt", "complete", "notify", "done"}
        \cup Owning \cup Waiting

-----------------------------------------------------------------------------
Init ==
  /\ cache = [k \in Key |-> None]
  /\ inflight = [k \in Key |-> NoTask]
  /\ completed = [t \in Task |-> FALSE]
  /\ woken = [t \in Task |-> FALSE]
  /\ handle = [t \in Task |-> NoTask]
  /\ owns = [t \in Task |-> FALSE]
  /\ result = [t \in Task |-> None]
  /\ pc = [t \in Task |-> "start"]
  /\ lock = NoScan
  /\ begun = {}

\* clear_validation_caches: both maps are emptied, nobody is notified.
clear_validation_caches ==
  /\ cache' = [k \in Key |-> None]
  /\ inflight' = [k \in Key |-> NoTask]

\* ValidationCacheLifetime::begin.
BeginScan(s) ==
  /\ lock = NoScan
  /\ s \notin begun
  /\ lock' = s
  /\ begun' = begun \cup {s}
  /\ clear_validation_caches
  /\ UNCHANGED <<completed, woken, handle, owns, result, pc>>

\* Drop for ValidationCacheLifetime, when every validation of the scan has
\* returned: the maps are cleared before the guard releases the lock.
EndScan(s) ==
  /\ lock = s
  /\ \A t \in Task : ScanOf[t] = s => pc[t] = "done"
  /\ clear_validation_caches
  /\ lock' = NoScan
  /\ UNCHANGED <<completed, woken, handle, owns, result, pc, begun>>

\* validate_resolved_match: rules that are not authoritative and ambiguous
\* dependencies return before any cache is consulted.
Start(t) ==
  /\ pc[t] = "start"
  /\ lock = ScanOf[t]
  /\ \/ pc' = [pc EXCEPT ![t] = "lookup"] /\ UNCHANGED result
     \/ /\ pc' = [pc EXCEPT ![t] = "done"]
        /\ \/ UNCHANGED result
           \/ result' = [result EXCEPT ![t] = By(t, "Unverified")]
  /\ UNCHANGED <<caches, completed, woken, handle, owns, lock, begun>>

\* The first read of VALIDATION_CACHE: adopt a published result, or go on.
Lookup(t) ==
  /\ pc[t] = "lookup"
  /\ IF cache[KeyOf[t]] # None
       THEN /\ result' = [result EXCEPT ![t] = cache[KeyOf[t]]]
            /\ pc' = [pc EXCEPT ![t] = "done"]
       ELSE /\ pc' = [pc EXCEPT ![t] = "claim"]
            /\ UNCHANGED result
  /\ UNCHANGED <<caches, completed, woken, handle, owns, lock, begun>>

\* Fault: a get followed by an insert, instead of one atomic entry().
ClaimByInsert(t) ==
  /\ pc[t] = "claim"
  /\ inflight' = [inflight EXCEPT ![KeyOf[t]] = t]
  /\ owns' = [owns EXCEPT ![t] = TRUE]
  /\ pc' = [pc EXCEPT ![t] = "prepare"]
  /\ UNCHANGED <<cache, completed, woken, handle, result, lock, begun>>

\* IN_FLIGHT.entry(fp): own the vacant key, or take the owner's entry.
Claim(t) ==
  /\ pc[t] = "claim"
  /\ IF inflight[KeyOf[t]] = NoTask
       THEN /\ inflight' = [inflight EXCEPT ![KeyOf[t]] = t]
            /\ owns' = [owns EXCEPT ![t] = TRUE]
            /\ pc' = [pc EXCEPT ![t] = "prepare"]
            /\ UNCHANGED handle
       ELSE /\ handle' = [handle EXCEPT ![t] = inflight[KeyOf[t]]]
            /\ pc' = [pc EXCEPT ![t] = "register"]
            /\ UNCHANGED <<inflight, owns>>
  /\ UNCHANGED <<cache, completed, woken, result, lock, begun>>

-----------------------------------------------------------------------------
(* The waiter's loop.                                                      *)

\* notify.notified() and enable(): from here notify_waiters reaches the task.
Register(t) ==
  /\ pc[t] = "register"
  /\ woken' = [woken EXCEPT ![t] = FALSE]
  /\ pc' = [pc EXCEPT ![t] = "check"]
  /\ UNCHANGED <<caches, completed, handle, owns, result, lock, begun>>

\* completed.load(Acquire): leave the loop, or wait for the notification.
Check(t) ==
  /\ pc[t] = "check"
  /\ pc' = [pc EXCEPT ![t] = IF completed[handle[t]] THEN "adopt" ELSE "await"]
  /\ UNCHANGED <<caches, completed, woken, handle, owns, result, lock, begun>>

\* notified.await returns; the loop starts over.
Awake(t) ==
  /\ pc[t] = "await"
  /\ woken[t]
  /\ pc' = [pc EXCEPT ![t] = "register"]
  /\ UNCHANGED <<caches, completed, woken, handle, owns, result, lock, begun>>

\* The waiter reads VALIDATION_CACHE once more and returns, hit or miss.
Adopt(t) ==
  /\ pc[t] = "adopt"
  /\ result' = [result EXCEPT ![t] =
                  IF cache[KeyOf[t]] # None THEN cache[KeyOf[t]] ELSE @]
  /\ pc' = [pc EXCEPT ![t] = "done"]
  /\ UNCHANGED <<caches, completed, woken, handle, owns, lock, begun>>

-----------------------------------------------------------------------------
(* The owner.                                                              *)

\* Fault: a missing dependency clears the entry without publishing a result.
PrepareUncached(t) ==
  /\ pc[t] = "prepare"
  /\ result' = [result EXCEPT ![t] = By(t, "Unverified")]
  /\ pc' = [pc EXCEPT ![t] = "remove"]
  /\ UNCHANGED <<caches, completed, woken, handle, owns, lock, begun>>

\* Dependency check and capture processing: a missing dependency or a regex
\* error is committed as it is; else the validator runs, after the rate
\* limiter where the rule's validator is limited outside the HTTP engine.
Prepare(t) ==
  /\ pc[t] = "prepare"
  /\ \/ /\ result' = [result EXCEPT ![t] = By(t, "Unverified")]
        /\ pc' = [pc EXCEPT ![t] = "publish"]
     \/ /\ pc' = [pc EXCEPT ![t] = "limit"]
        /\ UNCHANGED result
     \/ /\ pc' = [pc EXCEPT ![t] = "request"]
              /\ UNCHANGED result
  /\ UNCHANGED <<caches, completed, woken, handle, owns, lock, begun>>

\* limiter.wait_for_rule returns and the request goes out.
LimitPassed(t) ==
  /\ pc[t] = "limit"
  /\ pc' = [pc EXCEPT ![t] = "request"]
  /\ UNCHANGED <<caches, completed, woken, handle, owns, result, lock, begun>>

\* The validation engine returns the provider's answer.
Answer(t) ==
  /\ pc[t] = "request"
  /\ \E o \in Outcome : result' = [result EXCEPT ![t] = By(t, o)]
  /\ pc' = [pc EXCEPT ![t] = "publish"]
  /\ UNCHANGED <<caches, completed, woken, handle, owns, lock, begun>>

\* cache_validation_result: the result is published before the entry goes.
Publish(t) ==
  /\ pc[t] = "publish"
  /\ cache' = [cache EXCEPT ![KeyOf[t]] = result[t]]
  /\ pc' = [pc EXCEPT ![t] = "remove"]
  /\ UNCHANGED <<inflight, completed, woken, handle, owns, result, lock, begun>>

\* clear_in_flight_validation, first half: take whatever entry the key has.
Remove(t) ==
  /\ pc[t] = "remove"
  /\ handle' = [handle EXCEPT ![t] = inflight[KeyOf[t]]]
  /\ inflight' = [inflight EXCEPT ![KeyOf[t]] = NoTask]
  /\ pc' = [pc EXCEPT ![t] =
              IF inflight[KeyOf[t]] = NoTask THEN "done" ELSE "complete"]
  /\ UNCHANGED <<cache, completed, woken, owns, result, lock, begun>>

\* Fault: the flag is left out, the notification alone should do.
CompleteWithoutFlag(t) ==
  /\ pc[t] = "complete"
  /\ pc' = [pc EXCEPT ![t] = "notify"]
  /\ UNCHANGED <<caches, completed, woken, handle, owns, result, lock, begun>>

\* completed.store(true, Release) on the entry taken out.
Complete(t) ==
  /\ pc[t] = "complete"
  /\ completed' = [completed EXCEPT ![handle[t]] = TRUE]
  /\ pc' = [pc EXCEPT ![t] = "notify"]
  /\ UNCHANGED <<caches, woken, handle, owns, result, lock, begun>>

\* The Notified futures that notify_waiters on entry e reaches.
Listening(e) == {u \in Task : pc[u] \in Registered /\ handle[u] = e}

\* notify_waiters: every registered Notified of the entry, no stored permit.
NotifyWaiters(t) ==
  /\ pc[t] = "notify"
  /\ woken' = [u \in Task |-> woken[u] \/ u \in Listening(handle[t])]
  /\ pc' = [pc EXCEPT ![t] = "done"]
  /\ UNCHANGED <<caches, completed, handle, owns, result, lock, begun>>

-----------------------------------------------------------------------------
(* Failures of the validation future.                                      *)

\* Fault: any task that times out publishes and clears the entry.
FailByAnyone(t) ==
  /\ result' = [result EXCEPT ![t] = By(t, "Unverified")]
  /\ pc' = [pc EXCEPT ![t] = "publish"]
  /\ UNCHANGED <<caches, completed, woken, handle, owns, lock, begun>>

\* Fault: the failure arms clear the entry but cache nothing.
FailUncached(t) ==
  /\ result' = [result EXCEPT ![t] = By(t, "Unverified")]
  /\ pc' = [pc EXCEPT ![t] = IF owns[t] THEN "remove" ELSE "done"]
  /\ UNCHANGED <<caches, completed, woken, handle, owns, lock, begun>>

\* The timeout and panic arms: only an owner publishes and clears.
Fail(t) ==
  /\ result' = [result EXCEPT ![t] = By(t, "Unverified")]
  /\ pc' = [pc EXCEPT ![t] = IF owns[t] THEN "publish" ELSE "done"]
  /\ UNCHANGED <<caches, completed, woken, handle, owns, lock, begun>>

\* Fault: the timer covers the waits but not the provider request.
TimeoutOfWaits(t) == Timeouts /\ pc[t] \in {"await", "limit"} /\ Fail(t)

\* validation_timeout elapses while the future is suspended.
Timeout(t) == Timeouts /\ pc[t] \in AwaitPoint /\ Fail(t)

\* The validator panics; catch_unwind keeps the scan alive.
Panic(t) == pc[t] \in {"prepare", "limit", "request"} /\ Fail(t)

-----------------------------------------------------------------------------
\* Steps the code takes by itself once scheduled.
Run(t) ==
  \/ Lookup(t) \/ Claim(t)
  \/ Register(t) \/ Check(t) \/ Awake(t) \/ Adopt(t)
  \/ Prepare(t) \/ Publish(t) \/ Remove(t) \/ Complete(t) \/ NotifyWaiters(t)

\* Steps that need the provider, the limiter's queue or a bug.
Outside(t) == LimitPassed(t) \/ Answer(t) \/ Panic(t)

\* The process has run its last scan.
Finished == lock = NoScan /\ begun = Scan /\ UNCHANGED vars

Next ==
  \/ \E s \in Scan : BeginScan(s) \/ EndScan(s)
  \/ \E t \in Task : Start(t) \/ Run(t) \/ Outside(t) \/ Timeout(t)
  \/ Finished

Spec == Init /\ [][Next]_vars

\* Each task's thread keeps running; the provider owes nothing: no fairness on
\* Outside.
FairSpec == Spec /\ \A t \in Task : WF_vars(Run(t))

\* The timers of limits::timeout fire.
Timers == \A t \in Task : WF_vars(Timeout(t))

-----------------------------------------------------------------------------
(* Properties.                                                             *)

\* Every variable has the shape of the Rust value it stands for.
TypeOK ==
  /\ cache \in [Key -> Result \cup {None}]
  /\ inflight \in [Key -> Task \cup {NoTask}]
  /\ completed \in [Task -> BOOLEAN]
  /\ woken \in [Task -> BOOLEAN]
  /\ handle \in [Task -> Task \cup {NoTask}]
  /\ owns \in [Task -> BOOLEAN]
  /\ result \in [Task -> Result \cup {None}]
  /\ pc \in [Task -> PC]
  /\ lock \in Scan \cup {NoScan}
  /\ begun \subseteq Scan

\* At no time do two tasks have a provider request for the same key under way
\* (the claim of IN_FLIGHT, kept through timeouts and panics of either side).
OneRequestAtATime ==
  \A t, u \in Task :
    pc[t] = "request" /\ pc[u] = "request" /\ KeyOf[t] = KeyOf[u] => t = u

\* A task that has waited on an owner returns an answer: its own timeout or
\* what the cache holds, never the untouched NotAttempted of the match
\* (publishing precedes the removal of the entry, in every failure arm too).
WaitersAreAnswered ==
  \A t \in Task : pc[t] = "done" /\ handle[t] # NoTask => result[t] # None

\* An answer a match took from somebody else was published by the owner of the
\* same key in the same scan: "only the owner may publish a failure", a waiter
\* that times out early keeps its failure to itself, and the cache is cleared
\* at both ends of ValidationCacheLifetime.
SharedAnswersComeFromOwners ==
  \A t \in Task : result[t].by \in Task \ {t} =>
    LET o == result[t].by
    IN owns[o] /\ KeyOf[o] = KeyOf[t] /\ ScanOf[o] = ScanOf[t]

\* A waiter suspended on an owner that has returned is on its way: the
\* notification reached it (the Notified is enabled before completed is read).
NoStrandedWaiter ==
  \A t \in Task :
    pc[t] = "await" /\ pc[handle[t]] = "done" => woken[t]

\* An entry leaves IN_FLIGHT only while its own task executes the removal: no
\* waiter's timeout and no overlapping scan retires somebody else's validator.
OnlyOwnersRetireEntries ==
  [][\A k \in Key :
       inflight[k] # NoTask /\ inflight'[k] # inflight[k]
         => pc[inflight[k]] = "remove" /\ pc'[inflight[k]] # "remove"]_vars

\* With timers that fire every validation that has started returns, whatever
\* the provider and the other tasks do.
EveryValidationReturns ==
  Timers => \A t \in Task : pc[t] = "lookup" ~> pc[t] = "done"

\* Even if no timer ever fires (--no-timeouts) a waiter returns once the owner
\* it waits on has, with no help from the provider.
WaitersAreReleased ==
  \A t \in Task :
    (pc[t] \in Waiting /\ pc[handle[t]] = "done") ~> pc[t] = "done"

\* The cache, its entries and the wakeups implement one lease and one register
\* per key (SharedValidation): a task is joined from the cache lookup to its
\* return, and its verdict is what its match holds when it returns.
Shared == INSTANCE SharedValidation WITH
  holder <- inflight,
  published <- cache,
  phase <- [t \in Task |-> CASE pc[t] = "start" -> "new"
                             [] pc[t] = "done" -> "decided"
                             [] OTHER -> "joined"],
  verdict <- [t \in Task |-> IF pc[t] = "done" THEN result[t] ELSE None],
  scan <- lock

\* Every step of the code is a step of the lease and register, or none.
ImplementsSharedValidation == Shared!Spec

=============================================================================
