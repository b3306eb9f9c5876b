-------------------------- MODULE SharedValidation --------------------------
(***************************************************************************)
(* What the process-wide validation cache promises, with no entries, flags *)
(* or notifications: for every key of a scan there is a lease, held by at  *)
(* most one task, and a register that only the holder of the lease writes. *)
(* A task either declines to validate, or joins and later decides: on the  *)
(* published answer of its key or on one of its own.                       *)
(***************************************************************************)
CONSTANTS Task, Key, Scan, KeyOf, ScanOf, NoTask, NoScan, Outcome

VARIABLES holder, published, phase, verdict, scan

svars == <<holder, published, phase, verdict, scan>>

Own(t) == [by : {t}, outcome : Outcome]
Undecided == [by |-> NoTask, outcome |-> "NotAttempted"]

Init ==
  /\ holder = [k \in Key |-> NoTask]
  /\ published = [k \in Key |-> Undecided]
  /\ phase = [t \in Task |-> "new"]
  /\ verdict = [t \in Task |-> Undecided]
  /\ scan = NoScan

\* A scan starts with empty registers.
Open(s) ==
  /\ scan = NoScan
  /\ \A k \in Key : published[k] = Undecided
  /\ scan' = s
  /\ UNCHANGED <<holder, published, phase, verdict>>

\* A scan ends with every task of it out of the way and no lease out.
Close ==
  /\ scan # NoScan
  /\ \A t \in Task : ScanOf[t] = scan => phase[t] = "decided"
  /\ \A k \in Key : holder[k] = NoTask
  /\ published' = [k \in Key |-> Undecided]
  /\ scan' = NoScan
  /\ UNCHANGED <<holder, phase, verdict>>

Join(t) ==
  /\ phase[t] = "new" /\ scan = ScanOf[t]
  /\ phase' = [phase EXCEPT ![t] = "joined"]
  /\ UNCHANGED <<holder, published, verdict, scan>>

Decline(t) ==
  /\ phase[t] = "new" /\ scan = ScanOf[t]
  /\ phase' = [phase EXCEPT ![t] = "decided"]
  /\ \E v \in Own(t) \cup {Undecided} : verdict' = [verdict EXCEPT ![t] = v]
  /\ UNCHANGED <<holder, published, scan>>

Acquire(t) ==
  /\ phase[t] = "joined" /\ holder[KeyOf[t]] = NoTask
  /\ holder' = [holder EXCEPT ![KeyOf[t]] = t]
  /\ UNCHANGED <<published, phase, verdict, scan>>

Write(t) ==
  /\ holder[KeyOf[t]] = t
  /\ \E v \in Own(t) : published' = [published EXCEPT ![KeyOf[t]] = v]
  /\ UNCHANGED <<holder, phase, verdict, scan>>

\* The lease goes back only with an answer in the register.
Release(t) ==
  /\ holder[KeyOf[t]] = t /\ published[KeyOf[t]] # Undecided
  /\ holder' = [holder EXCEPT ![KeyOf[t]] = NoTask]
  /\ UNCHANGED <<published, phase, verdict, scan>>

Decide(t) ==
  /\ phase[t] = "joined" /\ holder[KeyOf[t]] # t
  /\ \E v \in Own(t) \cup ({published[KeyOf[t]]} \ {Undecided}) :
       verdict' = [verdict EXCEPT ![t] = v]
  /\ phase' = [phase EXCEPT ![t] = "decided"]
  /\ UNCHANGED <<holder, published, scan>>

Next ==
  \/ Close \/ \E s \in Scan : Open(s)
  \/ \E t \in Task : Join(t) \/ Decline(t) \/ Acquire(t) \/ Write(t)
                       \/ Release(t) \/ Decide(t)

Spec == Init /\ [][Next]_svars
=============================================================================
