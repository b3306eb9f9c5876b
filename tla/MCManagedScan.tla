--------------------------- MODULE MCManagedScan ---------------------------
(* Instances of ManagedScan with a local repository, below a directory that *)
(* the user named or named itself, and a clone, and fingerprints of one     *)
(* secret.                                                                  *)
EXTENDS ManagedScan

CONSTANTS l1, d1, u1, f1, f2, s1

MCSecretOf == [f \in Fingerprint |-> s1]

\* Contents that differ in what is found, and in where.
MCSnapshot == {{}, {<<f1, 1>>}, {<<f1, 2>>}, {<<f1, 1>>, <<f2, 2>>}}

\* The local root is below the directory d1; from there the place in a file has
\* another path.
MCParent == [r \in Nested |-> d1]
MCBelow == [r \in Nested |-> [p \in Path |-> 3]]

\* The finding is there or not.
MCOneFinding == {{}, {<<f1, 1>>}}

\* A report goes to a file only from the parallel scan: the sequential scan
\* writes one report wherever it goes.
MCArgs ==
  {a \in [baseline : {"read", "manage"}, no_dedup : BOOLEAN,
          parallel : BOOLEAN, output : BOOLEAN] :
     /\ a.baseline = "manage" => a.no_dedup
     /\ a.output => a.parallel}
=============================================================================
