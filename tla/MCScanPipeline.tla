--------------------------- MODULE MCScanPipeline ---------------------------
(***************************************************************************)
(* Scans of a few inputs through channels of capacity one, where every     *)
(* send can block.                                                         *)
(***************************************************************************)
EXTENDS ScanPipeline, TLC

CONSTANTS b1, l1, u1, u2, u3, u4, a1

\* The repositories are interchangeable.
Repositories == Permutations(Url)

\* Every combination of the two loops and the two outputs, or both loops.
AllArgs == [parallel : BOOLEAN, output : BOOLEAN]
ArgsToFile == [parallel : BOOLEAN, output : {TRUE}]
=============================================================================
