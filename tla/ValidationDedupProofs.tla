------------------------ MODULE ValidationDedupProofs ------------------------
(***************************************************************************)
(* The safety of the process-wide validation cache, for any number of      *)
(* tasks, keys and scans.                                                  *)
(***************************************************************************)
EXTENDS ValidationDedup, TLAPS

\* Tasks are between their first and last step only while their scan holds
\* the lock, and have moved only if their scan has begun.
ScanInv ==
  /\ lock # NoScan => lock \in begun
  /\ \A t \in Task :
       /\ pc[t] \notin {"start", "done"} => lock = ScanOf[t]
       /\ pc[t] # "start" => ScanOf[t] \in begun

\* An entry is in IN_FLIGHT exactly while its task is validating the key.
LeaseInv ==
  /\ \A t \in Task : pc[t] \in Owning => inflight[KeyOf[t]] = t
  /\ \A k \in Key : inflight[k] # NoTask =>
       KeyOf[inflight[k]] = k /\ pc[inflight[k]] \in Owning

\* owns_in_flight, and the completed flag, along the owner's way.
OwnerInv ==
  \A t \in Task :
    /\ pc[t] \in Owning \cup {"complete", "notify"} => owns[t]
    /\ owns[t] => pc[t] \in Owning \cup {"complete", "notify", "done"}
    /\ pc[t] \in {"complete", "notify"} => handle[t] = t
    /\ completed[t] => owns[t] /\ pc[t] \in {"notify", "done"}
    /\ owns[t] /\ pc[t] \in {"notify", "done"} => completed[t]

\* A waiter waits on a task of its own scan that owns its key.
WaiterInv ==
  \A t \in Task :
    /\ pc[t] \in {"start", "lookup", "claim"} => handle[t] = NoTask
    /\ pc[t] \in Waiting \cup {"adopt"} =>
         /\ handle[t] \in Task
         /\ owns[handle[t]]
         /\ KeyOf[handle[t]] = KeyOf[t]
         /\ ScanOf[handle[t]] = ScanOf[t]
    /\ pc[t] = "adopt" => completed[handle[t]]

\* Published answers: by an owner of the key, in the scan that holds the lock,
\* and there from the owner's publication to the end of the scan.
CacheInv ==
  /\ \A k \in Key : cache[k] # None =>
       /\ cache[k].by \in Task
       /\ owns[cache[k].by]
       /\ KeyOf[cache[k].by] = k
       /\ ScanOf[cache[k].by] = lock
  /\ \A t \in Task :
       owns[t] /\ pc[t] \in {"remove", "complete", "notify", "done"}
         /\ lock = ScanOf[t] => cache[KeyOf[t]] # None

\* What matches hold.
ResultInv ==
  \A t \in Task :
    /\ result[t] # None =>
         /\ result[t].by \in Task
         /\ KeyOf[result[t].by] = KeyOf[t]
         /\ ScanOf[result[t].by] = ScanOf[t]
         /\ result[t].by # t => owns[result[t].by]
    /\ pc[t] \in {"publish", "remove", "complete", "notify"} => result[t].by = t
    /\ pc[t] = "start" => result[t] = None

\* The inductive invariant.
IInv ==
  /\ TypeOK /\ ScanInv /\ LeaseInv /\ OwnerInv /\ WaiterInv /\ CacheInv
  /\ ResultInv /\ NoStrandedWaiter /\ WaitersAreAnswered

-----------------------------------------------------------------------------
\* Initially nothing is cached, claimed or waited for.
LEMMA InitInv == Init => IInv
  BY DedupConstants
  DEF Init, IInv, TypeOK, ScanInv, LeaseInv, OwnerInv, WaiterInv, CacheInv,
      ResultInv, NoStrandedWaiter, WaitersAreAnswered, None, Result, PC,
      Owning, Waiting, Registered

\* Each step of the code keeps the types.
LEMMA TypeStep == TypeOK /\ [Next]_vars => TypeOK'
<1> SUFFICES ASSUME TypeOK, [Next]_vars PROVE TypeOK'
  OBVIOUS
<1> USE DedupConstants DEF TypeOK, PC, Owning, Waiting, Registered
<1>1. CASE UNCHANGED vars
  BY <1>1 DEF vars
<1>2. ASSUME NEW s \in Scan, BeginScan(s) PROVE TypeOK'
  BY <1>2 DEF BeginScan, clear_validation_caches
<1>3. ASSUME NEW s \in Scan, EndScan(s) PROVE TypeOK'
  BY <1>3 DEF EndScan, clear_validation_caches
<1>4. ASSUME NEW t \in Task, Start(t) PROVE TypeOK'
  <2>1. By(t, "Unverified") \in Result
    BY DEF By, Result, Outcome
  <2>2. result' \in [Task -> Result \cup {None}]
    BY <1>4, <2>1 DEF Start
  <2>3. QED
    BY <1>4, <2>2 DEF Start, caches
<1>5. ASSUME NEW t \in Task, Lookup(t) PROVE TypeOK'
  BY <1>5 DEF Lookup, caches
<1>6. ASSUME NEW t \in Task, Claim(t) PROVE TypeOK'
  <2>1. CASE inflight[KeyOf[t]] = NoTask
    <3>1. /\ UNCHANGED <<cache, completed, woken, handle, result, lock, begun>>
          /\ inflight' \in [Key -> Task \cup {NoTask}]
          /\ pc' \in [Task -> PC]
      BY <1>6, <2>1 DEF Claim
    <3>2. owns' \in [Task -> BOOLEAN]
      BY <1>6, <2>1, Zenon DEF Claim
    <3>3. QED
      BY <3>1, <3>2
  <2>2. CASE inflight[KeyOf[t]] # NoTask
    BY <1>6, <2>2 DEF Claim
  <2>3. QED
    BY <2>1, <2>2
<1>7. ASSUME NEW t \in Task, Register(t) PROVE TypeOK'
  BY <1>7 DEF Register, caches
<1>8. ASSUME NEW t \in Task, Check(t) PROVE TypeOK'
  BY <1>8 DEF Check, caches
<1>9. ASSUME NEW t \in Task, Awake(t) PROVE TypeOK'
  BY <1>9 DEF Awake, caches
<1>10. ASSUME NEW t \in Task, Adopt(t) PROVE TypeOK'
  BY <1>10 DEF Adopt, caches
<1>11. ASSUME NEW t \in Task, Prepare(t) PROVE TypeOK'
  BY <1>11 DEF Prepare, caches, Result, Outcome, By
<1>12. ASSUME NEW t \in Task, LimitPassed(t) PROVE TypeOK'
  BY <1>12 DEF LimitPassed, caches
<1>13. ASSUME NEW t \in Task, Answer(t) PROVE TypeOK'
  BY <1>13 DEF Answer, caches, Result, Outcome, By
<1>14. ASSUME NEW t \in Task, Publish(t) PROVE TypeOK'
  BY <1>14 DEF Publish
<1>15. ASSUME NEW t \in Task, Remove(t) PROVE TypeOK'
  BY <1>15 DEF Remove
<1>16. ASSUME NEW t \in Task, Complete(t) PROVE TypeOK'
  BY <1>16 DEF Complete, caches
<1>17. ASSUME NEW t \in Task, NotifyWaiters(t) PROVE TypeOK'
  BY <1>17 DEF NotifyWaiters, caches, Listening
<1>18. ASSUME NEW t \in Task, Fail(t) PROVE TypeOK'
  BY <1>18 DEF Fail, caches, Result, Outcome, By
<1>19. QED
  BY <1>1, <1>2, <1>3, <1>4, <1>5, <1>6, <1>7, <1>8, <1>9, <1>10, <1>11, <1>12,
     <1>13, <1>14, <1>15, <1>16, <1>17, <1>18
  DEF Next, Run, Outside, Timeout, Panic, Finished

\* Each step of the code keeps the inductive invariant.
LEMMA NextInv == IInv /\ [Next]_vars => IInv'
<1> SUFFICES ASSUME IInv, [Next]_vars PROVE IInv'
  OBVIOUS
<1>0. TypeOK'
  BY TypeStep DEF IInv
<1> DEFINE Parts == /\ ScanInv /\ LeaseInv /\ OwnerInv /\ WaiterInv /\ CacheInv
                    /\ ResultInv /\ NoStrandedWaiter /\ WaitersAreAnswered
<1> USE <1>0, DedupConstants DEF IInv, TypeOK, PC, Owning, Waiting, Registered
<1>1. CASE UNCHANGED vars
  BY <1>1 DEF vars, ScanInv, LeaseInv, OwnerInv, WaiterInv, CacheInv,
     ResultInv, NoStrandedWaiter, WaitersAreAnswered
<1>2. ASSUME NEW s \in Scan, BeginScan(s) PROVE Parts'
  \* No task is running, and none of the new scan has started.
  <2>1. ScanInv' /\ OwnerInv' /\ WaiterInv' /\ ResultInv' /\ NoStrandedWaiter'
        /\ WaitersAreAnswered'
    BY <1>2 DEF ScanInv, OwnerInv, WaiterInv, ResultInv, NoStrandedWaiter,
       WaitersAreAnswered, BeginScan, clear_validation_caches, None
  <2>2. LeaseInv'
    BY <1>2 DEF LeaseInv, ScanInv, BeginScan, clear_validation_caches, None
  <2>3. CacheInv'
    BY <1>2 DEF CacheInv, ScanInv, BeginScan, clear_validation_caches, None
  <2>4. QED
    BY <2>1, <2>2, <2>3
<1>3. ASSUME NEW s \in Scan, EndScan(s) PROVE Parts'
  \* The tasks of the scan have returned, the others are not running.
  <2>1. ScanInv' /\ OwnerInv' /\ WaiterInv' /\ CacheInv' /\ ResultInv' /\
        NoStrandedWaiter' /\ WaitersAreAnswered'
    BY <1>3 DEF ScanInv, OwnerInv, WaiterInv, CacheInv, ResultInv,
       NoStrandedWaiter, WaitersAreAnswered, EndScan, clear_validation_caches,
       None
  <2>2. LeaseInv'
    BY <1>3 DEF LeaseInv, ScanInv, EndScan, clear_validation_caches, None
  <2>3. QED
    BY <2>1, <2>2
<1>4. ASSUME NEW t \in Task, Start(t) PROVE Parts'
  <2>1. ScanInv' /\ LeaseInv' /\ OwnerInv' /\ WaiterInv' /\ ResultInv'
    BY <1>4 DEF ScanInv, LeaseInv, OwnerInv, WaiterInv, ResultInv, Start,
       caches, By, None, Result, Outcome
  <2>2. CacheInv'
    BY <1>4 DEF CacheInv, OwnerInv, Start, caches, By, None, Result, Outcome
  <2>3. NoStrandedWaiter'
    BY <1>4 DEF NoStrandedWaiter, WaiterInv, OwnerInv, Start, caches, By,
       None, Result, Outcome
  <2>4. WaitersAreAnswered'
    BY <1>4 DEF WaitersAreAnswered, WaiterInv, Start, caches, By, None,
       Result, Outcome
  <2>5. QED
    BY <2>1, <2>2, <2>3, <2>4
<1>5. ASSUME NEW t \in Task, Lookup(t) PROVE Parts'
  <2>1. ScanInv' /\ LeaseInv' /\ OwnerInv' /\ WaiterInv'
    BY <1>5 DEF ScanInv, LeaseInv, OwnerInv, WaiterInv, Lookup, caches, None
  <2>2. CacheInv'
    BY <1>5 DEF CacheInv, OwnerInv, Lookup, caches, None
  <2>3. ResultInv'
    BY <1>5 DEF ResultInv, CacheInv, ScanInv, OwnerInv, Lookup, caches, None
  <2>4. NoStrandedWaiter'
    BY <1>5 DEF NoStrandedWaiter, WaiterInv, OwnerInv, Lookup, caches, None
  <2>5. WaitersAreAnswered'
    BY <1>5 DEF WaitersAreAnswered, WaiterInv, Lookup, caches, None
  <2>6. QED
    BY <2>1, <2>2, <2>3, <2>4, <2>5
<1>6. ASSUME NEW t \in Task, Claim(t) PROVE Parts'
  \* A vacant key has no owner; an occupied one has an owner of this scan.
  <2>1. ScanInv' /\ LeaseInv' /\ ResultInv' /\ WaitersAreAnswered'
    BY <1>6 DEF ScanInv, LeaseInv, ResultInv, WaitersAreAnswered, Claim
  <2>2. OwnerInv'
    BY <1>6 DEF OwnerInv, LeaseInv, Claim
  <2>3. WaiterInv'
    BY <1>6 DEF WaiterInv, LeaseInv, OwnerInv, ScanInv, Claim
  <2>4. CacheInv'
    BY <1>6 DEF CacheInv, OwnerInv, Claim
  <2>5. NoStrandedWaiter'
    BY <1>6 DEF NoStrandedWaiter, WaiterInv, OwnerInv, Claim
  <2>6. QED
    BY <2>1, <2>2, <2>3, <2>4, <2>5
<1>7. ASSUME NEW t \in Task, Register(t) PROVE Parts'
  BY <1>7 DEF ScanInv, LeaseInv, OwnerInv, WaiterInv, CacheInv, ResultInv,
     NoStrandedWaiter, WaitersAreAnswered, Register, caches
<1>8. ASSUME NEW t \in Task, Check(t) PROVE Parts'
  \* An owner that has returned has set completed, so the waiter does not
  \* suspend.
  <2>1. ScanInv' /\ LeaseInv' /\ OwnerInv' /\ WaiterInv' /\ CacheInv' /\
        ResultInv' /\ WaitersAreAnswered'
    BY <1>8 DEF ScanInv, LeaseInv, OwnerInv, WaiterInv, CacheInv, ResultInv,
       WaitersAreAnswered, Check, caches
  <2>2. NoStrandedWaiter'
    BY <1>8 DEF NoStrandedWaiter, WaiterInv, OwnerInv, Check, caches
  <2>3. QED
    BY <2>1, <2>2
<1>9. ASSUME NEW t \in Task, Awake(t) PROVE Parts'
  BY <1>9 DEF ScanInv, LeaseInv, OwnerInv, WaiterInv, CacheInv, ResultInv,
     NoStrandedWaiter, WaitersAreAnswered, Awake, caches
<1>10. ASSUME NEW t \in Task, Adopt(t) PROVE Parts'
  \* The owner has completed, so its answer is still in the cache.
  <2>1. ScanInv' /\ LeaseInv' /\ OwnerInv' /\ WaiterInv'
    BY <1>10 DEF ScanInv, LeaseInv, OwnerInv, WaiterInv, Adopt, caches, None,
       Result
  <2>2. CacheInv'
    BY <1>10 DEF CacheInv, OwnerInv, Adopt, caches, None, Result
  <2>3. ResultInv'
    BY <1>10 DEF ResultInv, CacheInv, ScanInv, Adopt, caches, None, Result
  <2>4. NoStrandedWaiter'
    BY <1>10 DEF NoStrandedWaiter, WaiterInv, OwnerInv, Adopt, caches, None,
       Result
  <2>5. WaitersAreAnswered'
    BY <1>10 DEF WaitersAreAnswered, WaiterInv, OwnerInv, CacheInv, ScanInv,
       Adopt, caches, None, Result
  <2>6. QED
    BY <2>1, <2>2, <2>3, <2>4, <2>5
<1>11. ASSUME NEW t \in Task, Prepare(t) PROVE Parts'
  <2>1. ScanInv' /\ LeaseInv' /\ WaiterInv' /\ CacheInv' /\
        WaitersAreAnswered'
    BY <1>11 DEF ScanInv, LeaseInv, WaiterInv, CacheInv, WaitersAreAnswered,
       Prepare, caches, By, None, Result, Outcome
  <2>2. OwnerInv'
    BY <1>11 DEF OwnerInv, Prepare, caches, By, None, Result, Outcome
  <2>3. ResultInv'
    BY <1>11 DEF ResultInv, Prepare, caches, By, None, Result, Outcome
  <2>4. NoStrandedWaiter'
    BY <1>11 DEF NoStrandedWaiter, WaiterInv, Prepare, caches, By, None,
       Result, Outcome
  <2>5. QED
    BY <2>1, <2>2, <2>3, <2>4
<1>12. ASSUME NEW t \in Task, LimitPassed(t) PROVE Parts'
  BY <1>12 DEF ScanInv, LeaseInv, OwnerInv, WaiterInv, CacheInv, ResultInv,
     NoStrandedWaiter, WaitersAreAnswered, LimitPassed, caches
<1>13. ASSUME NEW t \in Task, Answer(t) PROVE Parts'
  BY <1>13 DEF ScanInv, LeaseInv, OwnerInv, WaiterInv, CacheInv, ResultInv,
     NoStrandedWaiter, WaitersAreAnswered, Answer, caches, By, None, Result,
     Outcome
<1>14. ASSUME NEW t \in Task, Publish(t) PROVE Parts'
  <2>1. ScanInv' /\ LeaseInv' /\ OwnerInv' /\ WaiterInv' /\ ResultInv' /\
        NoStrandedWaiter' /\ WaitersAreAnswered'
    BY <1>14 DEF ScanInv, LeaseInv, OwnerInv, WaiterInv, ResultInv,
       NoStrandedWaiter, WaitersAreAnswered, Publish, None
  <2>2. CacheInv'
    BY <1>14 DEF CacheInv, ResultInv, OwnerInv, ScanInv, Publish, None
  <2>3. QED
    BY <2>1, <2>2
<1>15. ASSUME NEW t \in Task, Remove(t) PROVE Parts'
  \* The entry of the key is the task's own.
  <2>1. ScanInv' /\ LeaseInv' /\ WaiterInv' /\ CacheInv' /\ ResultInv'
    BY <1>15 DEF ScanInv, LeaseInv, WaiterInv, CacheInv, ResultInv, Remove
  <2>2. OwnerInv'
    BY <1>15 DEF OwnerInv, LeaseInv, Remove
  <2>3. NoStrandedWaiter'
    BY <1>15 DEF NoStrandedWaiter, LeaseInv, WaiterInv, Remove
  <2>4. WaitersAreAnswered'
    BY <1>15 DEF WaitersAreAnswered, LeaseInv, Remove
  <2>5. QED
    BY <2>1, <2>2, <2>3, <2>4
<1>16. ASSUME NEW t \in Task, Complete(t) PROVE Parts'
  <2>1. ScanInv' /\ LeaseInv' /\ OwnerInv' /\ CacheInv' /\ ResultInv' /\
        NoStrandedWaiter' /\ WaitersAreAnswered'
    BY <1>16 DEF ScanInv, LeaseInv, OwnerInv, CacheInv, ResultInv,
       NoStrandedWaiter, WaitersAreAnswered, Complete, caches
  <2>2. WaiterInv'
    BY <1>16 DEF WaiterInv, OwnerInv, Complete, caches
  <2>3. QED
    BY <2>1, <2>2
<1>17. ASSUME NEW t \in Task, NotifyWaiters(t) PROVE Parts'
  \* Every waiter suspended on this entry is woken with the step.
  <2>1. ScanInv' /\ LeaseInv' /\ OwnerInv' /\ WaiterInv' /\ ResultInv'
    BY <1>17 DEF ScanInv, LeaseInv, OwnerInv, WaiterInv, ResultInv,
       NotifyWaiters, caches, Listening, None
  <2>2. CacheInv'
    BY <1>17 DEF CacheInv, OwnerInv, NotifyWaiters, caches, Listening, None
  <2>3. NoStrandedWaiter'
    BY <1>17 DEF NoStrandedWaiter, OwnerInv, WaiterInv, NotifyWaiters, caches,
       Listening, None
  <2>4. WaitersAreAnswered'
    BY <1>17 DEF WaitersAreAnswered, ResultInv, NotifyWaiters, caches,
       Listening, None
  <2>5. QED
    BY <2>1, <2>2, <2>3, <2>4
<1>18. ASSUME NEW t \in Task, Timeout(t) PROVE Parts'
  \* A waiter does not own the key, and returns without publishing.
  <2>1. ScanInv' /\ OwnerInv' /\ WaiterInv' /\ ResultInv' /\
        WaitersAreAnswered'
    BY <1>18 DEF ScanInv, OwnerInv, WaiterInv, ResultInv, WaitersAreAnswered,
       Timeout, Fail, AwaitPoint, caches, By, None, Result, Outcome
  <2>2. LeaseInv'
    BY <1>18 DEF LeaseInv, OwnerInv, Timeout, Fail, AwaitPoint, caches, By,
       None, Result, Outcome
  <2>3. CacheInv'
    BY <1>18 DEF CacheInv, OwnerInv, Timeout, Fail, AwaitPoint, caches, By,
       None, Result, Outcome
  <2>4. NoStrandedWaiter'
    BY <1>18 DEF NoStrandedWaiter, WaiterInv, OwnerInv, Timeout, Fail,
       AwaitPoint, caches, By, None, Result, Outcome
  <2>5. QED
    BY <2>1, <2>2, <2>3, <2>4
<1>19. ASSUME NEW t \in Task, Panic(t) PROVE Parts'
  <2>1. ScanInv' /\ OwnerInv' /\ WaiterInv' /\ ResultInv' /\
        WaitersAreAnswered'
    BY <1>19 DEF ScanInv, OwnerInv, WaiterInv, ResultInv, WaitersAreAnswered,
       Panic, Fail, caches, By, None, Result, Outcome
  <2>2. LeaseInv'
    BY <1>19 DEF LeaseInv, OwnerInv, Panic, Fail, caches, By, None, Result,
       Outcome
  <2>3. CacheInv'
    BY <1>19 DEF CacheInv, OwnerInv, Panic, Fail, caches, By, None, Result,
       Outcome
  <2>4. NoStrandedWaiter'
    BY <1>19 DEF NoStrandedWaiter, WaiterInv, OwnerInv, Panic, Fail, caches,
       By, None, Result, Outcome
  <2>5. QED
    BY <2>1, <2>2, <2>3, <2>4
<1>20. QED
  BY <1>0, <1>1, <1>2, <1>3, <1>4, <1>5, <1>6, <1>7, <1>8, <1>9, <1>10, <1>11, <1>12, <1>13, <1>14, <1>15, <1>16, <1>17, <1>18, <1>19
  DEF Next, Run, Outside, Finished, vars

-----------------------------------------------------------------------------
\* The inductive invariant holds in every reachable state.
LEMMA Invariance == Spec => []IInv
  BY InitInv, NextInv, PTL DEF Spec

\* The maps, flags and program counters of validation.rs keep their types.
THEOREM TypeCorrect == Spec => []TypeOK
<1>1. IInv => TypeOK
  BY DEF IInv
<1>2. QED
  BY <1>1, Invariance, PTL

\* Never two provider requests under way for one de-dup key: both tasks would
\* own the single entry of IN_FLIGHT.
THEOREM RequestsExclude == Spec => []OneRequestAtATime
<1>1. IInv => OneRequestAtATime
  BY DEF IInv, LeaseInv, OneRequestAtATime, Owning
<1>2. QED
  BY <1>1, Invariance, PTL

\* A task that waited for an owner never returns with its match untouched.
THEOREM WaitersAnswered == Spec => []WaitersAreAnswered
<1>1. IInv => WaitersAreAnswered
  BY DEF IInv
<1>2. QED
  BY <1>1, Invariance, PTL

\* No wakeup is lost: a waiter never sleeps on an owner that has returned.
THEOREM NoLostWakeup == Spec => []NoStrandedWaiter
<1>1. IInv => NoStrandedWaiter
  BY DEF IInv
<1>2. QED
  BY <1>1, Invariance, PTL

\* What a match takes from the cache was published by an owner of its key, and
\* in its own scan.
THEOREM AnswersFromOwners ==
  Spec => []SharedAnswersComeFromOwners
<1>1. IInv => SharedAnswersComeFromOwners
  BY DedupConstants
  DEF IInv, ResultInv, SharedAnswersComeFromOwners, None
<1>2. QED
  BY <1>1, Invariance, PTL

\* Only its own task takes an entry out of IN_FLIGHT: not a waiter that times
\* out, and not the boundary of a scan.
THEOREM EntriesRetiredByOwners == Spec => OnlyOwnersRetireEntries
<1> DEFINE Retired == \A k \in Key :
             inflight[k] # NoTask /\ inflight'[k] # inflight[k]
               => pc[inflight[k]] = "remove" /\ pc'[inflight[k]] # "remove"
<1>1. ASSUME IInv, [Next]_vars PROVE [Retired]_vars
  <2> SUFFICES ASSUME NEW k \in Key,
                      inflight[k] # NoTask, inflight'[k] # inflight[k]
               PROVE  pc[inflight[k]] = "remove" /\ pc'[inflight[k]] # "remove"
    OBVIOUS
  <2> USE <1>1, DedupConstants DEF IInv, TypeOK
  <2>1. ASSUME NEW s \in Scan, BeginScan(s) PROVE FALSE
    BY <2>1 DEF BeginScan, ScanInv, LeaseInv, Owning
  <2>2. ASSUME NEW s \in Scan, EndScan(s) PROVE FALSE
    BY <2>2 DEF EndScan, ScanInv, LeaseInv, Owning
  <2>3. ASSUME NEW t \in Task, Claim(t) PROVE FALSE
    BY <2>3 DEF Claim
  <2>4. ASSUME NEW t \in Task, Remove(t)
        PROVE  pc[inflight[k]] = "remove" /\ pc'[inflight[k]] # "remove"
    BY <2>4 DEF Remove, LeaseInv, Owning
  <2>5. QED
    BY <2>1, <2>2, <2>3, <2>4
    DEF Next, Start, Run, Outside, Finished, Timeout, Panic, Fail, Lookup,
        Register, Check, Awake, Adopt, Prepare, LimitPassed, Answer, Publish,
        Complete, NotifyWaiters, vars, caches
<1>2. QED
  BY <1>1, Invariance, PTL DEF Spec, OnlyOwnersRetireEntries

-----------------------------------------------------------------------------
\* The initial states of the cache are initial states of the lease.
LEMMA RefinesInit == Init => Shared!Init
  BY DEF Init, Shared!Init, Shared!Undecided, None

\* A result a task made itself is one of its own answers.
LEMMA OwnResult ==
  ASSUME NEW t \in Task, NEW r \in Result, r.by = t
  PROVE  r \in Shared!Own(t)
  BY DEF Result, Shared!Own

\* A task that returns with its own or the published answer decides.
LEMMA ReturnDecides ==
  ASSUME NEW t \in Task, TypeOK, TypeOK',
         pc[t] \notin {"start", "done"}, pc' = [pc EXCEPT ![t] = "done"],
         inflight[KeyOf[t]] # t, UNCHANGED <<caches, lock>>,
         \A u \in Task \ {t} : result'[u] = result[u],
         \/ result'[t] \in Result /\ result'[t].by = t
         \/ result'[t] = cache[KeyOf[t]] /\ result'[t] # None
  PROVE  Shared!Decide(t)
<1> DEFINE Verdict == [u \in Task |-> IF pc[u] = "done" THEN result[u] ELSE None]
           Phase == [u \in Task |-> CASE pc[u] = "start" -> "new"
                                      [] pc[u] = "done" -> "decided"
                                      [] OTHER -> "joined"]
<1>1. result'[t] \in Shared!Own(t) \cup ({cache[KeyOf[t]]} \ {None})
  BY OwnResult
<1>2. Verdict' = [Verdict EXCEPT ![t] = result'[t]]
  BY DEF TypeOK
<1>3. Phase' = [Phase EXCEPT ![t] = "decided"]
  BY DEF TypeOK
<1>4. Phase[t] = "joined"
  OBVIOUS
<1>5. QED
  BY <1>1, <1>2, <1>3, <1>4 DEF Shared!Decide, Shared!Undecided, None, caches

\* Every step of the code is a step of the lease and register, or changes
\* nothing of them.
LEMMA RefinesNext == IInv /\ IInv' /\ [Next]_vars => [Shared!Next]_Shared!svars
<1> SUFFICES ASSUME IInv, IInv', [Next]_vars
             PROVE  Shared!Next \/ UNCHANGED Shared!svars
  OBVIOUS
<1> USE DedupConstants
    DEF IInv, TypeOK, PC, Owning, Waiting, Registered, Shared!svars,
        Shared!Undecided, None
<1>1. CASE UNCHANGED vars
  BY <1>1 DEF vars
<1>2. ASSUME NEW s \in Scan, BeginScan(s) PROVE Shared!Open(s)
  BY <1>2 DEF BeginScan, clear_validation_caches, Shared!Open, ScanInv,
     LeaseInv, CacheInv
<1>3. ASSUME NEW s \in Scan, EndScan(s) PROVE Shared!Close
  BY <1>3 DEF EndScan, clear_validation_caches, Shared!Close, ScanInv, LeaseInv
<1>4. ASSUME NEW t \in Task, Start(t) PROVE Shared!Join(t) \/ Shared!Decline(t)
  <2> DEFINE Verdict == [u \in Task |-> IF pc[u] = "done" THEN result[u] ELSE None]
             Phase == [u \in Task |-> CASE pc[u] = "start" -> "new"
                                        [] pc[u] = "done" -> "decided"
                                        [] OTHER -> "joined"]
  <2>1. Phase[t] = "new"
    BY <1>4 DEF Start
  <2>2. CASE pc' = [pc EXCEPT ![t] = "lookup"] /\ UNCHANGED result
    BY <1>4, <2>2 DEF Start, caches, Shared!Join
  <2>3. CASE pc' = [pc EXCEPT ![t] = "done"] /\ UNCHANGED result
    <3>1. Verdict' = [Verdict EXCEPT ![t] = result[t]]
      BY <2>3
    <3>2. Phase' = [Phase EXCEPT ![t] = "decided"]
      BY <2>3
    <3>3. result[t] = None
      BY <1>4 DEF Start, ResultInv
    <3>4. QED
      BY <1>4, <2>1, <3>1, <3>2, <3>3 DEF Start, caches, Shared!Decline
  <2>4. CASE /\ pc' = [pc EXCEPT ![t] = "done"]
             /\ result' = [result EXCEPT ![t] = By(t, "Unverified")]
    <3>1. Verdict' = [Verdict EXCEPT ![t] = By(t, "Unverified")]
      BY <2>4
    <3>2. Phase' = [Phase EXCEPT ![t] = "decided"]
      BY <2>4
    <3>3. By(t, "Unverified") \in Shared!Own(t)
      BY DEF By, Shared!Own, Outcome
    <3>4. QED
      BY <1>4, <2>1, <3>1, <3>2, <3>3 DEF Start, caches, Shared!Decline
  <2>5. QED
    BY <1>4, <2>2, <2>3, <2>4 DEF Start
<1>5. ASSUME NEW t \in Task, Lookup(t)
      PROVE  Shared!Decide(t) \/ UNCHANGED Shared!svars
  <2>1. CASE cache[KeyOf[t]] # None
    BY <1>5, <2>1, ReturnDecides DEF Lookup, LeaseInv
  <2>2. CASE cache[KeyOf[t]] = None
    BY <1>5, <2>2 DEF Lookup, caches
  <2>3. QED
    BY <2>1, <2>2
<1>6. ASSUME NEW t \in Task, Claim(t)
      PROVE  Shared!Acquire(t) \/ UNCHANGED Shared!svars
  BY <1>6 DEF Claim, Shared!Acquire
<1>7. ASSUME NEW t \in Task, Register(t) PROVE UNCHANGED Shared!svars
  BY <1>7 DEF Register, caches
<1>8. ASSUME NEW t \in Task, Check(t) PROVE UNCHANGED Shared!svars
  BY <1>8 DEF Check, caches
<1>9. ASSUME NEW t \in Task, Awake(t) PROVE UNCHANGED Shared!svars
  BY <1>9 DEF Awake, caches
<1>10. ASSUME NEW t \in Task, Adopt(t) PROVE Shared!Decide(t)
  <2>1. cache[KeyOf[t]] # None
    BY <1>10 DEF Adopt, WaiterInv, OwnerInv, CacheInv, ScanInv
  <2>2. result'[t] = cache[KeyOf[t]] /\ \A u \in Task \ {t} : result'[u] = result[u]
    BY <1>10, <2>1 DEF Adopt
  <2>3. inflight[KeyOf[t]] # t
    BY <1>10 DEF Adopt, LeaseInv
  <2>4. QED
    BY <1>10, <2>1, <2>2, <2>3, ReturnDecides DEF Adopt
<1>11. ASSUME NEW t \in Task, Prepare(t) PROVE UNCHANGED Shared!svars
  BY <1>11 DEF Prepare, caches
<1>12. ASSUME NEW t \in Task, LimitPassed(t) PROVE UNCHANGED Shared!svars
  BY <1>12 DEF LimitPassed, caches
<1>13. ASSUME NEW t \in Task, Answer(t) PROVE UNCHANGED Shared!svars
  BY <1>13 DEF Answer, caches
<1>14. ASSUME NEW t \in Task, Publish(t) PROVE Shared!Write(t)
  <2>1. result[t] \in Shared!Own(t)
    BY <1>14, OwnResult DEF Publish, ResultInv
  <2>2. inflight[KeyOf[t]] = t
    BY <1>14 DEF Publish, LeaseInv
  <2>3. /\ UNCHANGED <<inflight, lock>>
        /\ \A u \in Task : /\ pc'[u] = "start" <=> pc[u] = "start"
                           /\ pc'[u] = "done" <=> pc[u] = "done"
                           /\ result'[u] = result[u]
    BY <1>14 DEF Publish
  <2>4. cache' = [cache EXCEPT ![KeyOf[t]] = result[t]]
    BY <1>14 DEF Publish
  <2>5. QED
    BY <2>1, <2>2, <2>3, <2>4 DEF Shared!Write
<1>15. ASSUME NEW t \in Task, Remove(t) PROVE Shared!Release(t)
  BY <1>15 DEF Remove, Shared!Release, LeaseInv, OwnerInv, CacheInv, ScanInv
<1>16. ASSUME NEW t \in Task, Complete(t) PROVE UNCHANGED Shared!svars
  BY <1>16 DEF Complete, caches
<1>17. ASSUME NEW t \in Task, NotifyWaiters(t) PROVE Shared!Decide(t)
  <2>1. result[t] \in Result /\ result[t].by = t
    BY <1>17 DEF NotifyWaiters, ResultInv
  <2>2. inflight[KeyOf[t]] # t
    BY <1>17 DEF NotifyWaiters, LeaseInv
  <2>3. QED
    BY <1>17, <2>1, <2>2, ReturnDecides DEF NotifyWaiters
<1>18. ASSUME NEW t \in Task, Timeout(t) \/ Panic(t)
       PROVE  Shared!Decide(t) \/ UNCHANGED Shared!svars
  <2>1. CASE owns[t]
    BY <1>18, <2>1 DEF Timeout, Panic, Fail, AwaitPoint, caches
  <2>2. CASE ~owns[t]
    <3>1. result'[t] \in Result /\ result'[t].by = t
      BY <1>18 DEF Timeout, Panic, Fail, By, Result, Outcome
    <3>2. inflight[KeyOf[t]] # t
      BY <1>18, <2>2 DEF LeaseInv, OwnerInv
    <3>3. QED
      BY <1>18, <2>2, <3>1, <3>2, ReturnDecides
      DEF Timeout, Panic, Fail, AwaitPoint
  <2>3. QED
    BY <2>1, <2>2
<1>19. QED
  BY <1>1, <1>2, <1>3, <1>4, <1>5, <1>6, <1>7, <1>8, <1>9, <1>10, <1>11, <1>12,
     <1>13, <1>14, <1>15, <1>16, <1>17, <1>18
  DEF Next, Run, Outside, Finished, vars, Shared!Next

\* The cache of validation.rs implements one lease and one register per key.
THEOREM Refinement == Spec => ImplementsSharedValidation
  BY RefinesInit, RefinesNext, Invariance, PTL
  DEF Spec, ImplementsSharedValidation, Shared!Spec

=============================================================================
