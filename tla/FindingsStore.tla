--------------------------- MODULE FindingsStore ---------------------------
(***************************************************************************)
(* The shared findings store of a scan (src/src/findings_store.rs and its  *)
(* spill.rs): every repository scan merges its findings into it under one  *)
(* mutex and, with --disk-offload, spills what is pending to a temporary   *)
(* file; the end of the scan restores the file and reports.  Writes fail   *)
(* half way, the disk fills up, the rollback of a failed write can fail.   *)
(*                                                                         *)
(* A finding is a value of Finding; its digest decides deduplication.      *)
(* Blob and origin pooling and the provider link tables are left out.      *)
(***************************************************************************)
EXTENDS Naturals, Sequences, FiniteSets

CONSTANTS
  Repo,        \* repository scans
  Finding, Digest,
  Found,       \* what each repository scan found, in its own store
  DigestOf,    \* blake3 of rule, origin kind, secret, repository scope
  Args,        \* the command lines considered
  Torn,        \* a line of the file that is not a complete record
  Nobody,      \* the mutex is free
  NoReport

ASSUME StoreConstants ==
  /\ Found \in [Repo -> Seq(Finding)]
  /\ DigestOf \in [Finding -> Digest]
  /\ Args \subseteq [dedup : BOOLEAN, parallel : BOOLEAN]
  /\ Torn \notin Finding
  /\ Nobody \notin Repo
  /\ NoReport \notin Seq(Finding)

VARIABLES
  args,         \* what the arguments select, for the whole scan
  matches,      \* FindingsStore.matches, the rows in memory
  dedup_exact,  \* digests recorded so far
  spill,        \* whether there is a FindingsSpill
  file, count,  \* its lines, and the number of rows it should hold
  stored,       \* history: the rows whose append succeeded
  lock,         \* the repository scan that holds the mutex
  todo,         \* rows merge_from has still to record
  scan,         \* the state of each repository scan
  report        \* the matches the final report read

onDisk == <<spill, file, count, stored>>
vars == <<args, matches, dedup_exact, onDisk, lock, todo, scan, report>>

\* ~no_dedup; run_parallel_scan, which goes on after a failed repository.
Dedup == args.dedup
Parallel == args.parallel

\* enable_spilling: there is a spill file with --disk-offload, unless the disk
\* is full from the start.
Init ==
  /\ args \in Args
  /\ matches = <<>> /\ dedup_exact = {}
  /\ spill \in BOOLEAN
  /\ file = <<>> /\ count = 0 /\ stored = <<>>
  /\ lock = Nobody /\ todo = <<>>
  /\ scan = [r \in Repo |-> "running"]
  /\ report = NoReport

\* A failed repository ends a sequential scan.
MayStart == Parallel \/ \A r \in Repo : scan[r] # "failed"

\* The scan of a repository fails before it has merged anything.
ScanFails(r) ==
  /\ lock # r /\ scan[r] = "running" /\ MayStart
  /\ scan' = [scan EXCEPT ![r] = "failed"]
  /\ UNCHANGED <<args, matches, dedup_exact, onDisk, lock, todo, report>>

\* merge_from: the mutex is taken and held until the spill is over.
BeginMerge(r) ==
  /\ lock = Nobody /\ scan[r] = "running" /\ MayStart
  /\ lock' = r /\ todo' = Found[r]
  /\ UNCHANGED <<args, matches, dedup_exact, onDisk, scan, report>>

\* Fault: the digest set is cleared with the rows that go to disk.
RecordForgetful ==
  /\ lock # Nobody /\ todo # <<>>
  /\ LET f == Head(todo)
     IN IF Dedup /\ \E i \in DOMAIN matches : DigestOf[matches[i]] = DigestOf[f]
          THEN UNCHANGED <<matches, dedup_exact>>
          ELSE /\ matches' = Append(matches, f)
               /\ dedup_exact' = dedup_exact \cup {DigestOf[f]}
  /\ todo' = Tail(todo)
  /\ UNCHANGED <<args, onDisk, lock, scan, report>>

\* record: one row, unless its digest is known.
Record ==
  /\ lock # Nobody /\ todo # <<>>
  /\ LET f == Head(todo)
     IN IF Dedup /\ DigestOf[f] \in dedup_exact
          THEN UNCHANGED <<matches, dedup_exact>>
          ELSE /\ matches' = Append(matches, f)
               /\ dedup_exact' = IF Dedup THEN dedup_exact \cup {DigestOf[f]}
                                 ELSE dedup_exact
  /\ todo' = Tail(todo)
  /\ UNCHANGED <<args, onDisk, lock, scan, report>>

\* The merge is over and the mutex released.
Release(verdict) ==
  /\ lock # Nobody /\ todo = <<>>
  /\ lock' = Nobody
  /\ scan' = [scan EXCEPT ![lock] = verdict]
  /\ UNCHANGED <<args, todo, report>>

\* spill_pending has something to write.
Pending == spill /\ matches # <<>>

NothingToSpill ==
  /\ ~Pending
  /\ Release("merged")
  /\ UNCHANGED <<matches, dedup_exact, onDisk>>

\* Fault: the count is taken from the file.
SpillRecounting ==
  /\ Pending
  /\ Release("merged")
  /\ file' = file \o matches
  /\ count' = Len(file \o matches)
  /\ stored' = stored \o matches
  /\ matches' = <<>>
  /\ UNCHANGED <<dedup_exact, spill>>

\* append wrote every row; memory is released, the digests stay.
Spill ==
  /\ Pending
  /\ Release("merged")
  /\ file' = file \o matches
  /\ count' = count + Len(matches)
  /\ stored' = stored \o matches
  /\ matches' = <<>>
  /\ UNCHANGED <<dedup_exact, spill>>

\* read_batches gets through: complete records only, as many as counted.
Readable ==
  /\ Len(file) = count
  /\ \A i \in DOMAIN file : file[i] # Torn

\* Fault: the restore replaces the pending rows.
RestoredOnly == IF spill /\ count # 0 THEN file ELSE matches

\* restore_spilled_with_cleanup: the rows of the file, then those in memory.
Restored == IF spill /\ count # 0 THEN file \o matches ELSE matches

\* Otherwise read_batches returns an error and nothing has changed.
CanRestore == spill /\ count # 0 => Readable

\* The disk is full and the append rolled back: everything goes back to memory
\* and the offload is over.  The file is not truncated but dropped.
SpillFull ==
  /\ Pending
  /\ CanRestore
  /\ Release("merged")
  /\ matches' = Restored
  /\ spill' = FALSE
  /\ file' = <<>> /\ count' = 0 /\ stored' = <<>>
  /\ UNCHANGED dedup_exact

\* The append fails otherwise and is rolled back, or the rows cannot be read
\* back after a full disk: the repository scan fails, the rows stay pending.
SpillFails ==
  /\ Pending
  /\ Release("failed")
  /\ UNCHANGED <<matches, dedup_exact, onDisk>>

\* The rollback fails too: some of the rows, and part of one, stay in the file.
RollbackFails ==
  /\ Pending
  /\ Release("failed")
  /\ \E n \in 0 .. Len(matches), tail \in {<<>>, <<Torn>>} :
       file' = file \o SubSeq(matches, 1, n) \o tail
  /\ UNCHANGED <<matches, dedup_exact, spill, count, stored>>

AllMerged == \A r \in Repo : scan[r] = "merged"

\* Fault: the file is kept after the restore.
FinishUncleared ==
  /\ AllMerged /\ report = NoReport
  /\ CanRestore
  /\ matches' = Restored
  /\ report' = matches'
  /\ UNCHANGED <<args, dedup_exact, onDisk, lock, todo, scan>>

\* restore_spilled at the end of a scan without errors, and the report.  (An
\* I/O error here ends the scan with the store as it was.)
Finish ==
  /\ AllMerged /\ report = NoReport
  /\ CanRestore
  /\ matches' = Restored
  /\ IF spill /\ count # 0
       THEN file' = <<>> /\ count' = 0 /\ stored' = <<>>
       ELSE UNCHANGED <<file, count, stored>>
  /\ report' = matches'
  /\ UNCHANGED <<args, dedup_exact, spill, lock, todo, scan>>

\* The scan has reported, or has failed and starts nothing more.
Over ==
  /\ lock = Nobody
  /\ \/ report # NoReport
     \/ /\ \E r \in Repo : scan[r] = "failed"
        /\ Parallel => \A r \in Repo : scan[r] # "running"
  /\ UNCHANGED vars

Next ==
  \/ \E r \in Repo : ScanFails(r) \/ BeginMerge(r)
  \/ Record
  \/ NothingToSpill \/ Spill \/ SpillFull \/ SpillFails \/ RollbackFails
  \/ Finish \/ Over

Spec == Init /\ [][Next]_vars

-----------------------------------------------------------------------------
(* Properties.                                                             *)

\* The rows in memory and on disk have their types.
TypeOK ==
  /\ args \in Args
  /\ matches \in Seq(Finding) /\ stored \in Seq(Finding)
  /\ dedup_exact \subseteq Digest
  /\ spill \in BOOLEAN
  /\ file \in Seq(Finding \cup {Torn}) /\ count \in Nat
  /\ lock \in Repo \cup {Nobody} /\ todo \in Seq(Finding)
  /\ scan \in [Repo -> {"running", "merged", "failed"}]
  /\ report \in Seq(Finding) \cup {NoReport}

InScan(S) == UNION {{<<r, i>> : i \in {j \in DOMAIN Found[r] : Found[r][j] \in S}}
                      : r \in Repo}
InReport(S) == {i \in DOMAIN report : report[i] \in S}

\* A report lists every finding of every repository: once per digest with
\* deduplication, as often as it was found without, however often the rows
\* went to disk and back.
ReportIsExact ==
  report # NoReport =>
    IF Dedup
      THEN \A d \in Digest :
             LET S == {f \in Finding : DigestOf[f] = d}
             IN Cardinality(InReport(S)) = IF InScan(S) = {} THEN 0 ELSE 1
      ELSE \A f \in Finding : Cardinality(InReport({f})) = Cardinality(InScan({f}))

\* Whatever failed before, a file that reads without an error holds exactly
\* the rows that were spilled (the record count exposes a failed rollback), and
\* the file of a scan whose repositories all merged reads without an error.
SpillFileIsExact ==
  /\ Readable => file = stored
  /\ AllMerged => CanRestore

\* "restore spilled findings before reading or modifying the working set": the
\* report never meets the panic of assert_restored.  Until then, while the
\* offload works, memory holds the rows of one merge at most.
WorkingSetIsRestored ==
  /\ report # NoReport => ~spill \/ count = 0
  /\ /\ spill /\ lock = Nobody /\ report = NoReport
     /\ \A r \in Repo : scan[r] # "failed"
     => matches = <<>>

\* Memory and file together are one log: spilling, restoring, falling back to
\* memory and failing leave it as it is.
Log == INSTANCE FindingsLog WITH
  dedup <- Dedup, log <- stored \o matches, seen <- dedup_exact, report <- report
ImplementsFindingsLog == Log!Spec
=============================================================================
