---------------------------- MODULE FindingsLog ----------------------------
(***************************************************************************)
(* What the shared findings store of a scan promises, with no memory, file *)
(* or spilling: a log of findings in the order they were recorded, which   *)
(* takes a finding at most once if the scan deduplicates, and which the    *)
(* final report reads as a whole.                                          *)
(***************************************************************************)
EXTENDS Sequences

CONSTANTS Finding, DigestOf, NoReport

VARIABLES dedup, log, seen, report

lvars == <<dedup, log, seen, report>>

Init == dedup \in BOOLEAN /\ log = <<>> /\ seen = {} /\ report = NoReport

Record(f) ==
  /\ report = NoReport
  /\ dedup => DigestOf[f] \notin seen
  /\ log' = Append(log, f)
  /\ seen' = IF dedup THEN seen \cup {DigestOf[f]} ELSE seen
  /\ UNCHANGED <<dedup, report>>

Report ==
  /\ report = NoReport
  /\ report' = log
  /\ UNCHANGED <<dedup, log, seen>>

Next == Report \/ \E f \in Finding : Record(f)

Spec == Init /\ [][Next]_lvars
=============================================================================
