------------------------- MODULE MCValidationDedup -------------------------
(***************************************************************************)
(* Instances of ValidationDedup: tasks that meet on one key, in one scan   *)
(* or in two consecutive scans of the process.                             *)
(***************************************************************************)
EXTENDS ValidationDedup, TLC

CONSTANTS t1, t2, t3, t4, k1, s1, s2

\* Three tasks of a scan on one key, and the same key again in a later scan.
AllOnOneKey == [t \in Task |-> k1]
LastInNextScan == [t \in Task |-> IF t = t4 THEN s2 ELSE s1]

\* All tasks in one scan.
OneScan == [t \in Task |-> s1]

============================================================================
