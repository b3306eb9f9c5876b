---------------------------- MODULE MCObjectCache ----------------------------
(***************************************************************************)
(* Small buckets: two keys under one prefix.                               *)
(***************************************************************************)
EXTENDS ObjectCache

CONSTANTS A, B

\* A second prefix, where there is one, has no objects.
OneScope == [k \in Key |-> 1]
==============================================================================
