-------------------------- MODULE MCFindingsStore --------------------------
(***************************************************************************)
(* Three repositories; b and c are the same secret, which two of them hold.*)
(***************************************************************************)
EXTENDS FindingsStore

CONSTANTS r1, r2, r3, a, b, c, x, y

Overlapping ==
  [r \in Repo |-> CASE r = r1 -> <<a, b>> [] r = r2 -> <<c, a>> [] OTHER -> <<b>>]
AllArgs == [dedup : BOOLEAN, parallel : BOOLEAN]
ByContent == [f \in Finding |-> IF f = a THEN x ELSE y]
============================================================================
