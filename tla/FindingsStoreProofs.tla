------------------------ MODULE FindingsStoreProofs ------------------------
(***************************************************************************)
(* The findings store keeps one log and reports it exactly, for any        *)
(* repositories and findings and whatever fails on disk.                   *)
(***************************************************************************)
EXTENDS FindingsStore, SequenceTheorems, FiniteSetTheorems, FunctionTheorems, TLAPS

\* The file holds the rows that were spilled and, after failed rollbacks, more.
DiskInv ==
  /\ count = Len(stored)
  /\ Len(file) >= count
  /\ Len(file) = count => file = stored
  /\ ~spill => stored = <<>>

\* The mutex is held by a scan that runs; the report comes last.
ScanInv ==
  /\ lock # Nobody => scan[lock] = "running"
  /\ report # NoReport => AllMerged

\* As long as no repository has failed the file is what was spilled, and memory
\* is empty between merges.
CleanInv ==
  (\A r \in Repo : scan[r] # "failed") =>
    /\ file = stored
    /\ spill /\ lock = Nobody /\ report = NoReport => matches = <<>>

\* A report was read after the restore.
ReportInv == report # NoReport => ~spill \/ count = 0

\* The inductive invariant.
IInv == TypeOK /\ DiskInv /\ ScanInv /\ CleanInv /\ ReportInv

\* A file that can be restored is the rows that were spilled, so the restored
\* working set is the log.
LEMMA RestoredIsLog ==
  ASSUME TypeOK, DiskInv, CanRestore
  PROVE  /\ Restored = stored \o matches
         /\ Restored \in Seq(Finding)
  <1>1. stored \o matches \in Seq(Finding)
    BY ConcatProperties DEF TypeOK
  <1>2. CASE spill /\ count # 0
    BY <1>1, <1>2 DEF Restored, CanRestore, Readable, DiskInv
  <1>3. CASE ~(spill /\ count # 0)
    <2>1. stored = <<>>
      BY <1>3, EmptySeq DEF DiskInv, TypeOK
    <2>2. stored \o matches = matches
      BY <2>1, ConcatEmptySeq DEF TypeOK
    <2> QED BY <1>1, <1>3, <2>2 DEF Restored
  <1> QED BY <1>2, <1>3

\* The store begins empty.
LEMMA InitInv == Init => IInv
  <1> SUFFICES ASSUME Init PROVE IInv
    OBVIOUS
  <1>1. /\ <<>> \in Seq(Finding)
        /\ <<>> \in Seq(Finding \cup {Torn})
        /\ Len(<<>>) = 0
    BY EmptySeq
  <1>2. TypeOK
    BY <1>1, StoreConstants DEF Init, TypeOK
  <1>3. DiskInv
    BY <1>1 DEF Init, DiskInv
  <1>4. ScanInv /\ CleanInv /\ ReportInv
    BY DEF Init, ScanInv, CleanInv, ReportInv
  <1> QED BY <1>2, <1>3, <1>4 DEF IInv

\* The arguments hold for the whole scan.
LEMMA ArgsConstant == [Next]_vars => args' = args
  BY DEF Next, vars, ScanFails, BeginMerge, Record, NothingToSpill, Spill, SpillFull,
     SpillFails, RollbackFails, Release, Finish, Over

\* One step per action: what each does to memory, file and locks.
LEMMA NextInv == IInv /\ [Next]_vars => IInv'
  <1> SUFFICES ASSUME IInv, [Next]_vars PROVE IInv'
    OBVIOUS
  <1>a. args' = args
    BY ArgsConstant
  <1> USE <1>a
  <1> USE StoreConstants
  <1>t. TypeOK /\ DiskInv /\ ScanInv /\ CleanInv /\ ReportInv
    BY DEF IInv
  <1>f. matches \in Seq(Finding \cup {Torn})
    BY <1>t, SeqMonotonic DEF TypeOK
  <1>n. Len(matches) \in Nat /\ Len(file) \in Nat /\ Len(stored) \in Nat
    BY <1>t, LenProperties DEF TypeOK
  <1>e. <<>> \in Seq(Finding) /\ <<>> \in Seq(Finding \cup {Torn}) /\ Len(<<>>) = 0
    BY EmptySeq
  <1>1. ASSUME NEW r \in Repo, ScanFails(r) PROVE IInv'
    <2>1. TypeOK' /\ DiskInv'
      BY <1>t, <1>1 DEF TypeOK, DiskInv, ScanFails, onDisk
    <2>2. scan'[r] = "failed" /\ report = NoReport
      BY <1>t, <1>1 DEF ScanFails, TypeOK, ScanInv, AllMerged
    <2>3. ScanInv' /\ CleanInv' /\ ReportInv'
      BY <1>t, <1>1, <2>2
      DEF ScanFails, ScanInv, CleanInv, ReportInv, TypeOK
    <2> QED BY <2>1, <2>3 DEF IInv
  <1>2. ASSUME NEW r \in Repo, BeginMerge(r) PROVE IInv'
    <2>1. TypeOK' /\ DiskInv'
      BY <1>t, <1>2 DEF TypeOK, DiskInv, BeginMerge, onDisk
    <2>2. report = NoReport
      BY <1>t, <1>2 DEF BeginMerge, ScanInv, AllMerged
    <2>3. ScanInv' /\ CleanInv' /\ ReportInv'
      BY <1>t, <1>2, <2>2
      DEF BeginMerge, onDisk, ScanInv, CleanInv, ReportInv
    <2> QED BY <2>1, <2>3 DEF IInv
  <1>3. CASE Record
    <2>1. Head(todo) \in Finding /\ Tail(todo) \in Seq(Finding)
      BY <1>t, <1>3, HeadTailProperties DEF Record, TypeOK
    <2>2. Append(matches, Head(todo)) \in Seq(Finding)
      BY <1>t, <2>1, AppendProperties DEF TypeOK
    <2>m. matches' \in Seq(Finding)
      BY <1>t, <1>3, <2>2 DEF TypeOK, Record
    <2>d. DigestOf[Head(todo)] \in Digest
      BY <2>1
    <2>x. dedup_exact' \subseteq Digest
      BY <1>t, <1>3, <2>d DEF TypeOK, Record
    <2>3. TypeOK' /\ DiskInv'
      BY <1>t, <1>3, <2>1, <2>m, <2>x DEF TypeOK, DiskInv, Record, onDisk
    <2>4. report = NoReport
      BY <1>t, <1>3 DEF Record, ScanInv, AllMerged, TypeOK
    <2>5. ScanInv' /\ CleanInv' /\ ReportInv'
      BY <1>t, <1>3, <2>4
      DEF Record, onDisk, ScanInv, CleanInv, ReportInv
    <2> QED BY <2>3, <2>5 DEF IInv
  <1>4. ASSUME NEW v \in {"merged", "failed"}, Release(v)
        PROVE  /\ lock \in Repo /\ lock' = Nobody
               /\ scan' \in [Repo -> {"running", "merged", "failed"}]
               /\ scan'[lock] = v /\ scan[lock] = "running"
               /\ \A r \in Repo \ {lock} : scan'[r] = scan[r]
               /\ todo' \in Seq(Finding) /\ report' = NoReport /\ report = NoReport
    BY <1>t, <1>4 DEF Release, TypeOK, ScanInv, AllMerged
  <1>5. ASSUME Release("merged"),
               matches' \in Seq(Finding), file' \in Seq(Finding \cup {Torn}),
               stored' \in Seq(Finding), count' \in Nat, spill' \in BOOLEAN,
               dedup_exact' = dedup_exact, DiskInv',
               (\A r \in Repo : scan[r] # "failed") => file' = stored',
               spill' => matches' = <<>>
        PROVE  IInv'
    <2>1. TypeOK'
      BY <1>t, <1>4, <1>5 DEF TypeOK
    <2>2. ScanInv' /\ ReportInv'
      BY <1>4, <1>5 DEF ScanInv, ReportInv
    <2>3. CleanInv'
      BY <1>4, <1>5 DEF CleanInv
    <2> QED BY <1>5, <2>1, <2>2, <2>3 DEF IInv
  <1>6. CASE NothingToSpill
    <2>1. DiskInv'
      BY <1>t, <1>6 DEF NothingToSpill, DiskInv, onDisk
    <2> QED BY <1>t, <1>5, <1>6, <2>1
            DEF NothingToSpill, Pending, onDisk, TypeOK, CleanInv
  <1>7. CASE Spill
    <2>1. file \o matches \in Seq(Finding \cup {Torn})
          /\ Len(file \o matches) = Len(file) + Len(matches)
      BY <1>t, <1>f, ConcatProperties DEF TypeOK
    <2>2. stored \o matches \in Seq(Finding)
          /\ Len(stored \o matches) = Len(stored) + Len(matches)
      BY <1>t, ConcatProperties DEF TypeOK
    <2>3. DiskInv'
      BY <1>t, <1>n, <1>7, <2>1, <2>2 DEF Spill, DiskInv, Pending
    <2>4. /\ file' \in Seq(Finding \cup {Torn}) /\ stored' \in Seq(Finding)
          /\ matches' = <<>> /\ matches' \in Seq(Finding)
      BY <1>e, <1>7, <2>1, <2>2 DEF Spill
    <2>5. count' \in Nat /\ spill' \in BOOLEAN /\ dedup_exact' = dedup_exact
      BY <1>t, <1>n, <1>7 DEF Spill, TypeOK
    <2>6. (\A r \in Repo : scan[r] # "failed") => file' = stored'
      BY <1>t, <1>7 DEF Spill, CleanInv
    <2>7. Release("merged")
      BY <1>7 DEF Spill
    <2> QED BY <1>5, <2>3, <2>4, <2>5, <2>6, <2>7
  <1>8. CASE SpillFull
    <2>1. matches' \in Seq(Finding)
      BY <1>t, <1>8, RestoredIsLog DEF SpillFull
    <2>2. DiskInv'
      BY <1>e, <1>8 DEF SpillFull, DiskInv
    <2> QED BY <1>t, <1>e, <1>5, <1>8, <2>1, <2>2 DEF SpillFull, TypeOK
  <1>9. CASE SpillFails
    <2>1. TypeOK' /\ DiskInv'
      BY <1>t, <1>4, <1>9 DEF SpillFails, onDisk, TypeOK, DiskInv
    <2>2. ScanInv' /\ CleanInv' /\ ReportInv'
      BY <1>4, <1>9 DEF SpillFails, ScanInv, CleanInv, ReportInv
    <2> QED BY <2>1, <2>2 DEF IInv
  <1>10. CASE RollbackFails
    <2>1. PICK n \in 0 .. Len(matches), tail \in {<<>>, <<Torn>>} :
            file' = file \o SubSeq(matches, 1, n) \o tail
      BY <1>10 DEF RollbackFails
    <2>2. \A i \in 1 .. n : matches[i] \in Finding \cup {Torn}
      BY <1>f, <1>n, ElementOfSeq
    <2>3. /\ SubSeq(matches, 1, n) \in Seq(Finding \cup {Torn})
          /\ Len(SubSeq(matches, 1, n)) = n
      BY <1>n, <2>2, SubSeqProperties
    <2>4. /\ tail \in Seq(Finding \cup {Torn})
          /\ tail # <<>> => Len(tail) = 1
          /\ tail = <<>> => Len(tail) = 0
      <3>1. CASE tail = <<>>
        BY <1>e, <3>1
      <3>2. CASE tail = <<Torn>>
        <4>1. <<Torn>> \in Seq(Finding \cup {Torn}) /\ Len(<<Torn>>) = 1
          OBVIOUS
        <4> QED BY <1>e, <3>2, <4>1
      <3> QED BY <3>1, <3>2
    <2>5. /\ file \o SubSeq(matches, 1, n) \in Seq(Finding \cup {Torn})
          /\ Len(file \o SubSeq(matches, 1, n)) = Len(file) + n
      <3>1. file \in Seq(Finding \cup {Torn})
        BY <1>t DEF TypeOK
      <3> QED BY <2>3, <3>1, ConcatProperties
    <2>6. /\ file' \in Seq(Finding \cup {Torn})
          /\ Len(file') = Len(file) + n + Len(tail)
      BY <2>1, <2>4, <2>5, ConcatProperties
    <2>7. Len(file') = Len(file) => file' = file
      <3> SUFFICES ASSUME Len(file') = Len(file) PROVE file' = file
        OBVIOUS
      <3>1. n = 0 /\ tail = <<>>
        BY <1>n, <2>4, <2>6
      <3>2. SubSeq(matches, 1, n) = <<>>
        BY <2>3, <3>1, EmptySeq
      <3> QED BY <1>t, <2>1, <3>1, <3>2, ConcatEmptySeq DEF TypeOK
    <2>8. TypeOK'
      BY <1>t, <1>4, <1>10, <2>6 DEF RollbackFails, TypeOK
    <2>9. DiskInv'
      BY <1>t, <1>n, <1>10, <2>4, <2>6, <2>7 DEF RollbackFails, DiskInv, Pending
    <2>10. ScanInv' /\ CleanInv' /\ ReportInv'
      BY <1>4, <1>10 DEF RollbackFails, ScanInv, CleanInv, ReportInv
    <2> QED BY <2>8, <2>9, <2>10 DEF IInv
  <1>11. CASE Finish
    <2>1. matches' \in Seq(Finding) /\ report' = matches'
      BY <1>t, <1>11, RestoredIsLog DEF Finish
    <2>d. /\ file' \in Seq(Finding \cup {Torn}) /\ count' \in Nat
          /\ stored' \in Seq(Finding)
      <3>1. CASE spill /\ count # 0
        BY <1>e, <1>11, <3>1 DEF Finish
      <3>2. CASE ~(spill /\ count # 0)
        BY <1>t, <1>11, <3>2 DEF Finish, TypeOK
      <3> QED BY <3>1, <3>2
    <2>2. TypeOK'
      BY <1>t, <1>11, <2>1, <2>d DEF Finish, TypeOK
    <2>3. DiskInv'
      BY <1>t, <1>e, <1>11 DEF Finish, DiskInv
    <2>4. report' # NoReport
      BY <2>1
    <2>5. ScanInv'
      BY <1>t, <1>11 DEF Finish, ScanInv, AllMerged
    <2>6. CleanInv' /\ ReportInv'
      BY <1>t, <1>11, <2>4 DEF Finish, CleanInv, ReportInv
    <2> QED BY <2>2, <2>3, <2>5, <2>6 DEF IInv
  <1>12. CASE UNCHANGED vars
    BY <1>t, <1>12 DEF vars, onDisk, IInv, TypeOK, DiskInv, ScanInv, AllMerged,
       CleanInv, ReportInv
  <1> QED
    BY <1>1, <1>2, <1>3, <1>6, <1>7, <1>8, <1>9, <1>10, <1>11, <1>12
    DEF Next, Over

\* The invariant of memory and disk.
LEMMA Invariance == Spec => []IInv
  BY InitInv, NextInv, PTL DEF Spec

-----------------------------------------------------------------------------
\* The rows in memory and on disk keep their types: no torn line ever becomes
\* a finding.
THEOREM StoreTypes == Spec => []TypeOK
  <1>1. IInv => TypeOK
    BY DEF IInv
  <1> QED BY <1>1, Invariance, PTL

\* A spill file that reads without an error is exactly what was spilled, and
\* when every repository has merged the restore finds such a file.
THEOREM FileIsExact == Spec => []SpillFileIsExact
  <1>1. IInv => (Readable => file = stored)
    BY DEF IInv, DiskInv, Readable
  <1>2. ASSUME IInv, AllMerged PROVE CanRestore
    <2>1. file = stored /\ Len(file) = count
      BY <1>2 DEF IInv, CleanInv, DiskInv, AllMerged
    <2>2. \A i \in DOMAIN file : file[i] # Torn
      BY <1>2, <2>1, LenProperties, ElementOfSeq, StoreConstants DEF IInv, TypeOK
    <2> QED BY <2>1, <2>2 DEF Readable, CanRestore
  <1>3. IInv => SpillFileIsExact
    BY <1>1, <1>2 DEF SpillFileIsExact
  <1> QED BY <1>3, Invariance, PTL

\* The report never runs into assert_restored, and memory is released between
\* the merges of a scan that spills without a failure.
THEOREM WorkingSet == Spec => []WorkingSetIsRestored
  <1>1. IInv => WorkingSetIsRestored
    BY DEF IInv, CleanInv, ReportInv, WorkingSetIsRestored
  <1> QED BY <1>1, Invariance, PTL

-----------------------------------------------------------------------------
(* Memory and file are one log.                                            *)

\* The rows in the order they were recorded, in memory or on disk.
Logged == stored \o matches

\* A finding that is recorded goes to the end of the log.
LEMMA RecordAppends ==
  ASSUME IInv, Record
  PROVE  /\ todo \in Seq(Finding) /\ todo # <<>> /\ Head(todo) \in Finding
         /\ Logged \in Seq(Finding) /\ report = NoReport
         /\ IF Dedup /\ DigestOf[Head(todo)] \in dedup_exact
              THEN Logged' = Logged ELSE Logged' = Append(Logged, Head(todo))
  <1>t. TypeOK
    BY DEF IInv
  <1>l. Logged \in Seq(Finding)
    BY <1>t, ConcatProperties DEF TypeOK, Logged
  <1>1. todo \in Seq(Finding) /\ todo # <<>> /\ Head(todo) \in Finding
    BY <1>t, HeadTailProperties DEF Record, TypeOK
  <1>2. report = NoReport
    BY <1>t DEF Record, IInv, ScanInv, AllMerged, TypeOK
  <1>3. CASE Dedup /\ DigestOf[Head(todo)] \in dedup_exact
    BY <1>1, <1>2, <1>3, <1>l DEF Record, onDisk, Logged
  <1>4. CASE ~(Dedup /\ DigestOf[Head(todo)] \in dedup_exact)
    <2> DEFINE one == <<Head(todo)>>
    <2>1. one \in Seq(Finding) /\ matches \in Seq(Finding) /\ stored \in Seq(Finding)
      BY <1>t, <1>1 DEF TypeOK
    <2>2. Append(matches, Head(todo)) = matches \o one
      BY <1>1, <2>1, AppendIsConcat
    <2>3. Append(stored \o matches, Head(todo)) = (stored \o matches) \o one
      BY <1>l, <1>1, AppendIsConcat DEF Logged
    <2> HIDE DEF one
    <2>4. (stored \o matches) \o one = stored \o (matches \o one)
      BY <2>1, ConcatAssociative
    <2>5. Logged' = stored \o Append(matches, Head(todo))
      BY <1>4 DEF Record, onDisk, Logged
    <2>6. Logged' = Append(Logged, Head(todo))
      BY <2>2, <2>3, <2>4, <2>5 DEF Logged
    <2> QED BY <1>1, <1>2, <1>4, <1>l, <2>6
  <1> QED BY <1>3, <1>4

\* Every other step leaves the log as it is.
LEMMA LogStays ==
  ASSUME IInv, [Next]_vars, ~Record
  PROVE  Logged' = Logged /\ dedup_exact' = dedup_exact
  <1>t. TypeOK /\ DiskInv
    BY DEF IInv
  <1>l. stored \o matches \in Seq(Finding)
    BY <1>t, ConcatProperties DEF TypeOK
  <1>1. ASSUME NEW r \in Repo, ScanFails(r) \/ BeginMerge(r)
        PROVE  Logged' = Logged /\ dedup_exact' = dedup_exact
    BY <1>1 DEF ScanFails, BeginMerge, onDisk, Logged
  <1>3. CASE NothingToSpill \/ SpillFails \/ RollbackFails
    BY <1>3 DEF NothingToSpill, SpillFails, RollbackFails, onDisk, Logged
  <1>4. CASE Spill
    <2>1. (stored \o matches) \o <<>> = stored \o matches
      BY <1>l, ConcatEmptySeq
    <2> QED BY <1>4, <2>1 DEF Spill, Logged
  <1>5. CASE SpillFull
    <2>1. matches' = stored \o matches
      BY <1>t, <1>5, RestoredIsLog DEF SpillFull
    <2>2. stored' \o matches' = stored \o matches
      BY <1>l, <1>5, <2>1, ConcatEmptySeq DEF SpillFull
    <2> QED BY <1>5, <2>2 DEF SpillFull, Logged
  <1>6. CASE Finish
    <2>1. matches' = stored \o matches
      BY <1>t, <1>6, RestoredIsLog DEF Finish
    <2>2. stored' = <<>>
      BY <1>t, <1>6, EmptySeq DEF Finish, DiskInv, TypeOK
    <2>3. stored' \o matches' = stored \o matches
      BY <1>l, <2>1, <2>2, ConcatEmptySeq
    <2> QED BY <1>6, <2>3 DEF Finish, Logged
  <1>7. CASE UNCHANGED vars
    BY <1>7 DEF vars, onDisk, Logged
  <1> QED
    BY <1>1, <1>3, <1>4, <1>5, <1>6, <1>7 DEF Next, Over

\* The report is read off the log, once.
LEMMA ReportReads ==
  ASSUME IInv, [Next]_vars
  PROVE  \/ report' = report
         \/ Finish /\ report = NoReport /\ report' = Logged /\ Logged' = Logged
  <1>1. CASE Finish
    <2>1. ~Record
      BY <1>1 DEF Finish, Record, IInv, ScanInv, AllMerged, TypeOK
    <2>2. report' = Logged
      BY <1>1, RestoredIsLog DEF Finish, IInv, Logged
    <2> QED BY <1>1, <2>1, <2>2, LogStays DEF Finish
  <1>2. CASE ~Finish
    BY <1>2 DEF Next, ScanFails, BeginMerge, Record, NothingToSpill, Spill, SpillFull, SpillFails,
       RollbackFails, Release, Over, vars
  <1> QED BY <1>1, <1>2

\* The log begins empty.
LEMMA RefinesInit == Init => Log!Init
  <1>1. <<>> \o <<>> = <<>>
    BY EmptySeq, ConcatEmptySeq
  <1>2. args \in Args => Dedup \in BOOLEAN
    BY StoreConstants DEF Dedup
  <1> QED BY <1>1, <1>2 DEF Init, Log!Init

\* Every step is a step of the log or leaves it as it is.
LEMMA RefinesNext == IInv /\ [Next]_vars => [Log!Next]_Log!lvars
  <1> SUFFICES ASSUME IInv, [Next]_vars PROVE [Log!Next]_Log!lvars
    OBVIOUS
  <1>1. Dedup' = Dedup
    BY ArgsConstant DEF Dedup
  <1>2. CASE Record
    <2>1. Head(todo) \in Finding /\ report = NoReport
      BY <1>2, RecordAppends
    <2>2. CASE Dedup /\ DigestOf[Head(todo)] \in dedup_exact
      BY <1>1, <1>2, <2>2 DEF Record, onDisk, Log!lvars
    <2>3. CASE ~(Dedup /\ DigestOf[Head(todo)] \in dedup_exact)
      <3>1. Logged' = Append(Logged, Head(todo))
        BY <1>2, <2>3, RecordAppends
      <3>2. Log!Record(Head(todo))
        BY <1>1, <1>2, <2>1, <2>3, <3>1 DEF Record, Logged, Log!Record
      <3> QED BY <2>1, <3>2 DEF Log!Next
    <2> QED BY <2>2, <2>3
  <1>3. CASE ~Record
    <2>1. Logged' = Logged /\ dedup_exact' = dedup_exact
      BY <1>3, LogStays
    <2>2. CASE report' = report
      BY <1>1, <2>1, <2>2 DEF Logged, Log!lvars
    <2>3. CASE report = NoReport /\ report' = Logged
      BY <1>1, <2>1, <2>3 DEF Logged, Log!Next, Log!Report
    <2> QED BY <2>2, <2>3, ReportReads
  <1> QED BY <1>2, <1>3

\* Spilling, restoring, the fallback to memory and every failure in between
\* implement a log that findings are only appended to, each digest once, and
\* that the report reads as a whole.
THEOREM StoreImplementsLog == Spec => ImplementsFindingsLog
  BY RefinesInit, RefinesNext, Invariance, PTL
  DEF Spec, ImplementsFindingsLog, Log!Spec

-----------------------------------------------------------------------------
(* The report is exact.                                                    *)

\* The rows of the repositories, and those that have been recorded.
Pairs == UNION {{<<r, i>> : i \in DOMAIN Found[r]} : r \in Repo}
Row(p) == Found[p[1]][p[2]]
Done(p) ==
  \/ scan[p[1]] = "merged"
  \/ lock = p[1] /\ p[2] <= Len(Found[p[1]]) - Len(todo)
DonePairs == {p \in Pairs : Done(p)}

\* What is still to be recorded is the end of what the repository found.
TodoInv ==
  lock # Nobody =>
    /\ Len(todo) <= Len(Found[lock])
    /\ \A j \in 1 .. Len(todo) : todo[j] = Found[lock][Len(Found[lock]) - Len(todo) + j]

\* With deduplication the log has each digest of a recorded row once, and nothing
\* that was not found.
DedupLog ==
  /\ dedup_exact = {DigestOf[Logged[k]] : k \in DOMAIN Logged}
  /\ \A k, n \in DOMAIN Logged : DigestOf[Logged[k]] = DigestOf[Logged[n]] => k = n
  /\ \A p \in DonePairs : DigestOf[Row(p)] \in dedup_exact
  /\ \A k \in DOMAIN Logged : \E p \in Pairs : Logged[k] = Row(p)

\* Without it every row that was recorded has a place of its own in the log.
Places(g) ==
  /\ \A p, q \in DonePairs : g[p] = g[q] => p = q
  /\ \A k \in DOMAIN Logged : \E p \in DonePairs : g[p] = k
  /\ \A p \in DonePairs : Logged[g[p]] = Row(p)

NoFailure == \A r \in Repo : scan[r] # "failed"

LogInv ==
  /\ TodoInv
  /\ report # NoReport => report = Logged
  /\ NoFailure => IF Dedup THEN DedupLog ELSE \E g \in [DonePairs -> DOMAIN Logged] : Places(g)

\* Where the mutex goes, and that a repository that failed stays so.
LEMMA MergeSteps ==
  ASSUME IInv, [Next]_vars
  PROVE  /\ NoFailure' => NoFailure
         /\ \/ ~NoFailure' /\ lock' = lock /\ todo' = todo
            \/ \E r \in Repo : lock = Nobody /\ lock' = r /\ todo' = Found[r] /\ scan' = scan
            \/ Record
            \/ /\ lock \in Repo /\ todo = <<>> /\ lock' = Nobody
               /\ ~NoFailure' \/ scan' = [scan EXCEPT ![lock] = "merged"]
            \/ UNCHANGED <<lock, todo, scan>>
  <1>t. /\ scan \in [Repo -> {"running", "merged", "failed"}] /\ lock \in Repo \cup {Nobody}
        /\ lock # Nobody => scan[lock] = "running"
    BY DEF IInv, TypeOK, ScanInv
  <1>1. ASSUME NEW r \in Repo, ScanFails(r)
        PROVE  ~NoFailure' /\ lock' = lock /\ todo' = todo
    BY <1>t, <1>1 DEF ScanFails, NoFailure
  <1>2. ASSUME NEW r \in Repo, BeginMerge(r)
        PROVE  lock = Nobody /\ lock' = r /\ todo' = Found[r] /\ scan' = scan
    BY <1>2 DEF BeginMerge
  <1>3. CASE NothingToSpill \/ Spill \/ SpillFull
    BY <1>t, <1>3 DEF NothingToSpill, Spill, SpillFull, Release, NoFailure
  <1>4. CASE SpillFails \/ RollbackFails
    BY <1>t, <1>4 DEF SpillFails, RollbackFails, Release, NoFailure
  <1>5. CASE Record
    BY <1>5 DEF Record, NoFailure
  <1>6. CASE Finish \/ Over \/ UNCHANGED vars
    BY <1>6 DEF Finish, Over, vars, NoFailure
  <1> QED
    BY <1>1, <1>2, <1>3, <1>4, <1>5, <1>6 DEF Next, NoFailure

\* What merge_from has still to record stays the end of what was found.
LEMMA TodoNext ==
  ASSUME IInv, TodoInv, [Next]_vars
  PROVE  TodoInv'
  <1>t. lock \in Repo \cup {Nobody} /\ todo \in Seq(Finding) /\ Len(todo) \in Nat
    BY LenProperties DEF IInv, TypeOK
  <1>f. ASSUME NEW r \in Repo PROVE Found[r] \in Seq(Finding) /\ Len(Found[r]) \in Nat
    BY StoreConstants, LenProperties
  <1>1. CASE lock' = lock /\ todo' = todo
    BY <1>1 DEF TodoInv
  <1>2. ASSUME NEW r \in Repo, lock' = r, todo' = Found[r] PROVE TodoInv'
    BY <1>2, <1>f DEF TodoInv
  <1>3. CASE Record
    <2> DEFINE L == Len(Found[lock])
               T == Len(todo)
    <2>1. lock \in Repo /\ lock' = lock /\ todo # <<>> /\ todo' = Tail(todo)
      BY <1>t, <1>3 DEF Record
    <2>2. L \in Nat /\ T \in Nat /\ T <= L
          /\ \A j \in 1 .. T : todo[j] = Found[lock][L - T + j]
      BY <1>t, <1>f, <2>1, StoreConstants DEF TodoInv
    <2>3. Len(todo') = T - 1 /\ \A j \in 1 .. T - 1 : todo'[j] = todo[j + 1]
      BY <1>t, <2>1
    <2> HIDE DEF L, T
    <2>4. ASSUME NEW j \in 1 .. Len(todo') PROVE todo'[j] = Found[lock][L - Len(todo') + j]
      <3>1. j + 1 \in 1 .. T /\ L - T + (j + 1) = L - (T - 1) + j
        BY <2>2, <2>3
      <3> QED BY <2>2, <2>3, <3>1
    <2>5. Len(todo') <= L
      BY <2>2, <2>3
    <2>6. L = Len(Found[lock'])
      BY <2>1 DEF L
    <2> QED BY <2>1, <2>4, <2>5, <2>6 DEF TodoInv
  <1>4. CASE lock' = Nobody
    BY <1>4 DEF TodoInv
  <1> QED
    BY <1>1, <1>2, <1>3, <1>4, MergeSteps

\* As long as nothing has failed only record adds to the rows that are recorded.
LEMMA DoneStays ==
  ASSUME IInv, [Next]_vars, ~Record, NoFailure'
  PROVE  DonePairs' = DonePairs
  <1>t. /\ scan \in [Repo -> {"running", "merged", "failed"}] /\ lock \in Repo \cup {Nobody}
        /\ Nobody \notin Repo
    BY StoreConstants DEF IInv, TypeOK
  <1>p. ASSUME NEW p \in Pairs
        PROVE  /\ p[1] \in Repo /\ p[2] \in Nat /\ Len(Found[p[1]]) \in Nat
               /\ 1 <= p[2] /\ p[2] <= Len(Found[p[1]])
    <2>1. PICK r \in Repo : \E i \in DOMAIN Found[r] : p = <<r, i>>
      BY DEF Pairs
    <2>2. Found[r] \in Seq(Finding)
      BY StoreConstants
    <2> QED BY <2>1, <2>2
  <1>1. CASE UNCHANGED <<lock, todo, scan>>
    BY <1>1 DEF DonePairs, Done
  <1>2. ASSUME NEW r \in Repo, lock = Nobody, lock' = r, todo' = Found[r], scan' = scan
        PROVE  DonePairs' = DonePairs
    <2>1. ASSUME NEW p \in Pairs PROVE Done(p)' <=> Done(p)
      <3>1. p[1] \in Repo /\ p[1] # lock
        BY <1>t, <1>p, <1>2
      <3>2. ~(p[2] <= Len(Found[p[1]]) - Len(Found[p[1]]))
        BY <1>p
      <3>3. ~(lock' = p[1] /\ p[2] <= Len(Found[p[1]]) - Len(todo'))
        BY <1>2, <3>2
      <3> QED BY <1>2, <3>1, <3>3 DEF Done
    <2> QED BY <2>1 DEF DonePairs
  <1>3. CASE lock \in Repo /\ todo = <<>> /\ lock' = Nobody /\ scan' = [scan EXCEPT ![lock] = "merged"]
    <2>1. ASSUME NEW p \in Pairs PROVE Done(p)' <=> Done(p)
      <3>1. Len(todo) = 0
        BY <1>3
      <3>2. CASE p[1] = lock
        BY <1>t, <1>p, <1>3, <3>1, <3>2 DEF Done
      <3>3. CASE p[1] # lock
        BY <1>t, <1>p, <1>3, <3>3 DEF Done
      <3> QED BY <3>2, <3>3
    <2> QED BY <2>1 DEF DonePairs
  <1> QED
    BY <1>1, <1>2, <1>3, MergeSteps

\* record takes the next row of the repository that holds the mutex.
LEMMA RecordDoes ==
  ASSUME IInv, TodoInv, Record
  PROVE  \E p \in Pairs :
           Row(p) = Head(todo) /\ p \notin DonePairs /\ DonePairs' = DonePairs \cup {p}
  <1> DEFINE L == Len(Found[lock])
             T == Len(todo)
             p == <<lock, L - T + 1>>
  <1>1. /\ lock \in Repo /\ lock' = lock /\ scan' = scan /\ todo # <<>> /\ todo' = Tail(todo)
        /\ todo \in Seq(Finding) /\ scan[lock] = "running" /\ Found[lock] \in Seq(Finding)
    BY StoreConstants DEF Record, IInv, TypeOK, ScanInv
  <1>2. /\ L \in Nat /\ T \in Nat /\ T <= L /\ T >= 1 /\ Len(todo') = T - 1
        /\ DOMAIN Found[lock] = 1 .. L /\ Head(todo) = todo[1]
        /\ \A j \in 1 .. T : todo[j] = Found[lock][L - T + j]
    BY <1>1, StoreConstants DEF TodoInv
  <1>3. p \in Pairs
    BY <1>1, <1>2 DEF Pairs
  <1>4. Row(p) = Head(todo)
    BY <1>2 DEF Row
  <1>5. ASSUME NEW q \in Pairs PROVE Done(q)' <=> Done(q) \/ q = p
    <2>0. PICK r \in Repo : \E i \in DOMAIN Found[r] : q = <<r, i>>
      BY DEF Pairs
    <2>1. PICK i \in DOMAIN Found[r] : q = <<r, i>>
      BY <2>0
    <2>2. CASE r = lock
      <3>1. i \in 1 .. L
        BY <1>2, <2>1, <2>2
      <3>2. Done(q) <=> i <= L - T
        BY <1>1, <2>1, <2>2 DEF Done
      <3>3. Done(q)' <=> i <= L - (T - 1)
        BY <1>1, <1>2, <2>1, <2>2 DEF Done
      <3>4. q = p <=> i = L - T + 1
        BY <2>1, <2>2
      <3> QED BY <1>2, <3>1, <3>2, <3>3, <3>4
    <2>3. CASE r # lock
      BY <1>1, <2>1, <2>3 DEF Done
    <2> QED BY <2>2, <2>3
  <1>6. ~Done(p)
    BY <1>1, <1>2 DEF Done
  <1>7. DonePairs' = DonePairs \cup {p} /\ p \notin DonePairs
    BY <1>3, <1>5, <1>6 DEF DonePairs
  <1> QED BY <1>3, <1>4, <1>7

-----------------------------------------------------------------------------
(* The log and the rows that are recorded.                                 *)

\* Positions of the log before and after an append.
LEMMA AppendPositions ==
  ASSUME NEW s \in Seq(Finding), NEW f \in Finding
  PROVE  /\ Len(s) \in Nat /\ DOMAIN s = 1 .. Len(s)
         /\ DOMAIN Append(s, f) = DOMAIN s \cup {Len(s) + 1} /\ Len(s) + 1 \notin DOMAIN s
         /\ Append(s, f)[Len(s) + 1] = f
         /\ \A k \in DOMAIN s : Append(s, f)[k] = s[k]
  OBVIOUS

\* With deduplication a row is added to the log unless its digest is there.
LEMMA RecordDedups ==
  ASSUME IInv, TodoInv, Record, Dedup, DedupLog
  PROVE  DedupLog'
  <1> DEFINE f == Head(todo)
  <1>1. PICK p \in Pairs : Row(p) = f /\ p \notin DonePairs /\ DonePairs' = DonePairs \cup {p}
    BY RecordDoes
  <1>2. CASE DigestOf[f] \in dedup_exact
    <2>1. Logged' = Logged /\ dedup_exact' = dedup_exact
      BY <1>2, RecordAppends DEF Record
    <2>2. \A q \in DonePairs' : DigestOf[Row(q)] \in dedup_exact
      BY <1>1, <1>2 DEF DedupLog
    <2> QED BY <2>1, <2>2 DEF DedupLog
  <1>3. CASE DigestOf[f] \notin dedup_exact
    <2>1. /\ Logged' = Append(Logged, f) /\ Logged \in Seq(Finding) /\ f \in Finding
          /\ dedup_exact' = dedup_exact \cup {DigestOf[f]}
      BY <1>3, RecordAppends DEF Record
    <2>2. PICK n : n = Len(Logged) + 1
      OBVIOUS
    <2>3. /\ DOMAIN Logged' = DOMAIN Logged \cup {n} /\ n \notin DOMAIN Logged
          /\ Logged'[n] = f /\ \A k \in DOMAIN Logged : Logged'[k] = Logged[k]
      BY <2>1, <2>2, AppendPositions
    <2> HIDE DEF f
    <2>4. dedup_exact' = {DigestOf[Logged'[k]] : k \in DOMAIN Logged'}
      BY <2>1, <2>3 DEF DedupLog
    <2>5. ASSUME NEW k \in DOMAIN Logged', NEW m \in DOMAIN Logged',
                 DigestOf[Logged'[k]] = DigestOf[Logged'[m]]
          PROVE  k = m
      BY <1>3, <2>3, <2>5 DEF DedupLog
    <2>6. \A q \in DonePairs' : DigestOf[Row(q)] \in dedup_exact'
      BY <1>1, <2>1 DEF DedupLog
    <2>7. \A k \in DOMAIN Logged' : \E q \in Pairs : Logged'[k] = Row(q)
      BY <1>1, <2>3 DEF DedupLog
    <2> QED BY <2>4, <2>5, <2>6, <2>7 DEF DedupLog
  <1> QED BY <1>2, <1>3

\* Without it the row gets the next place.
LEMMA RecordPlaces ==
  ASSUME IInv, TodoInv, Record, ~Dedup, NEW g \in [DonePairs -> DOMAIN Logged], Places(g)
  PROVE  \E h \in [DonePairs' -> DOMAIN Logged'] : Places(h)'
  <1> DEFINE f == Head(todo)
  <1>1. PICK p \in Pairs : Row(p) = f /\ p \notin DonePairs /\ DonePairs' = DonePairs \cup {p}
    BY RecordDoes
  <1>2. Logged' = Append(Logged, f) /\ Logged \in Seq(Finding) /\ f \in Finding
    BY RecordAppends
  <1>3. PICK n : n = Len(Logged) + 1
    OBVIOUS
  <1>4. /\ DOMAIN Logged' = DOMAIN Logged \cup {n} /\ n \notin DOMAIN Logged
        /\ Logged'[n] = f /\ \A k \in DOMAIN Logged : Logged'[k] = Logged[k]
    BY <1>2, <1>3, AppendPositions
  <1> HIDE DEF f
  <1>5. PICK h : h = [q \in DonePairs \cup {p} |-> IF q = p THEN n ELSE g[q]]
    OBVIOUS
  <1>6. /\ h \in [DonePairs' -> DOMAIN Logged'] /\ h[p] = n
        /\ \A q \in DonePairs : h[q] = g[q] /\ h[q] \in DOMAIN Logged
    BY <1>1, <1>4, <1>5
  <1>7. \A q, r \in DonePairs' : h[q] = h[r] => q = r
    BY <1>1, <1>4, <1>6 DEF Places
  <1>8. \A k \in DOMAIN Logged' : \E q \in DonePairs' : h[q] = k
    BY <1>1, <1>4, <1>6 DEF Places
  <1>9. \A q \in DonePairs' : Logged'[h[q]] = Row(q)
    BY <1>1, <1>4, <1>6 DEF Places
  <1>10. Places(h)'
    BY <1>7, <1>8, <1>9 DEF Places
  <1> QED BY <1>6, <1>10

\* Every step keeps the log exact.
LEMMA LogNext == IInv /\ LogInv /\ [Next]_vars => LogInv'
  <1> SUFFICES ASSUME IInv, LogInv, [Next]_vars PROVE LogInv'
    OBVIOUS
  <1>1. TodoInv'
    BY TodoNext DEF LogInv
  <1>2. report' # NoReport => report' = Logged'
    <2>1. CASE report' = report
      <3>1. report # NoReport => ~Record
        BY RecordAppends
      <3> QED BY <2>1, <3>1, LogStays DEF LogInv
    <2>2. CASE report' = Logged /\ Logged' = Logged
      BY <2>2
    <2> QED BY <2>1, <2>2, ReportReads
  <1>3. Dedup' = Dedup
    BY ArgsConstant DEF Dedup
  <1>4. ASSUME NoFailure'
        PROVE  IF Dedup THEN DedupLog' ELSE \E g \in [DonePairs' -> DOMAIN Logged'] : Places(g)'
    <2>1. NoFailure /\ TodoInv
      BY <1>4, MergeSteps DEF LogInv
    <2>2. CASE Record
      BY <2>1, <2>2, RecordDedups, RecordPlaces DEF LogInv
    <2>3. CASE ~Record
      <3>1. /\ Logged' = Logged /\ dedup_exact' = dedup_exact
            /\ DonePairs' = DonePairs
        BY <1>4, <2>3, LogStays, DoneStays
      <3>2. DedupLog => DedupLog'
        BY <3>1 DEF DedupLog
      <3>3. ASSUME NEW g, Places(g) PROVE Places(g)'
        BY <3>1, <3>3 DEF Places
      <3> QED BY <2>1, <3>1, <3>2, <3>3 DEF LogInv
    <2> QED BY <2>2, <2>3
  <1> QED BY <1>1, <1>2, <1>3, <1>4 DEF LogInv

\* The log begins exact.
LEMMA LogInit == Init => LogInv
  <1> SUFFICES ASSUME Init PROVE LogInv
    OBVIOUS
  <1>1. Logged = <<>>
    BY EmptySeq, ConcatEmptySeq DEF Init, Logged
  <1>2. DOMAIN Logged = {}
    BY <1>1
  <1>3. DonePairs = {}
    <2>1. ASSUME NEW p \in Pairs PROVE ~Done(p)
      <3>1. p[1] \in Repo
        BY DEF Pairs
      <3> QED BY <3>1, StoreConstants DEF Done, Init
    <2> QED BY <2>1 DEF DonePairs
  <1>4. DedupLog
    BY <1>2, <1>3 DEF DedupLog, Init
  <1>5. \E g \in [DonePairs -> DOMAIN Logged] : Places(g)
    <2> DEFINE g == [p \in {} |-> p]
    <2>1. g \in [DonePairs -> DOMAIN Logged] /\ Places(g)
      BY <1>2, <1>3 DEF Places
    <2> QED BY <2>1
  <1>6. TodoInv /\ report = NoReport
    BY DEF TodoInv, Init
  <1> QED BY <1>4, <1>5, <1>6 DEF LogInv

\* A report lists every finding of every repository as often as it should.
THEOREM ExactReport == Spec => []ReportIsExact
  <1>1. ASSUME IInv, LogInv PROVE ReportIsExact
    <2> SUFFICES ASSUME report # NoReport PROVE ReportIsExact
      BY DEF ReportIsExact
    <2>1. AllMerged /\ NoFailure /\ report = Logged
      BY <1>1 DEF IInv, ScanInv, AllMerged, NoFailure, LogInv
    <2>2. DonePairs = Pairs
      <3>1. ASSUME NEW p \in Pairs PROVE Done(p)
        BY <2>1 DEF Pairs, Done, AllMerged
      <3> QED BY <3>1 DEF DonePairs
    <2>3. Logged \in Seq(Finding) /\ Len(Logged) \in Nat /\ DOMAIN Logged = 1 .. Len(Logged)
          /\ \A k \in DOMAIN Logged : Logged[k] \in Finding
      <3>1. Logged \in Seq(Finding)
        BY <1>1, ConcatProperties DEF IInv, TypeOK, Logged
      <3> QED BY <3>1
    <2>4. \A S : InScan(S) = {p \in Pairs : Row(p) \in S}
      BY DEF InScan, Pairs, Row
    <2>5. ASSUME Dedup, NEW d \in Digest, NEW S, S = {f \in Finding : DigestOf[f] = d}
          PROVE  Cardinality(InReport(S)) = IF InScan(S) = {} THEN 0 ELSE 1
      <3>1. DedupLog
        BY <1>1, <2>1, <2>5 DEF LogInv
      <3>2. CASE InScan(S) = {}
        <4>1. InReport(S) = {}
          BY <2>1, <2>3, <2>4, <3>1, <3>2 DEF InReport, DedupLog
        <4> QED BY <3>2, <4>1, FS_EmptySet
      <3>3. CASE InScan(S) # {}
        <4>1. PICK p \in Pairs : DigestOf[Row(p)] = d
          BY <2>4, <2>5, <3>3
        <4>2. PICK k \in DOMAIN Logged : DigestOf[Logged[k]] = d
          BY <2>2, <3>1, <4>1 DEF DedupLog
        <4>3. InReport(S) = {k}
          BY <2>1, <2>3, <2>5, <3>1, <4>2 DEF InReport, DedupLog
        <4> QED BY <3>3, <4>3, FS_Singleton
      <3> QED BY <3>2, <3>3
    <2>6. ASSUME ~Dedup, NEW f \in Finding
          PROVE  Cardinality(InReport({f})) = Cardinality(InScan({f}))
      <3>1. PICK g \in [DonePairs -> DOMAIN Logged] : Places(g)
        BY <1>1, <2>1, <2>6 DEF LogInv
      <3> DEFINE A == InReport({f})
                 B == InScan({f})
                 h == [p \in B |-> g[p]]
      <3>2. A = {k \in DOMAIN Logged : Logged[k] = f} /\ B = {p \in DonePairs : Row(p) = f}
        BY <2>1, <2>2, <2>4 DEF InReport
      <3> HIDE DEF A, B
      <3>3. h \in [B -> A] /\ \A p \in B : h[p] = g[p]
        BY <3>1, <3>2 DEF Places
      <3>4. \A p, q \in B : h[p] = h[q] => p = q
        BY <3>1, <3>2, <3>3 DEF Places
      <3>5. \A k \in A : \E p \in B : h[p] = k
        BY <3>1, <3>2, <3>3 DEF Places
      <3>6. h \in Bijection(B, A)
        BY <3>3, <3>4, <3>5, Fun_IsBij
      <3>7. ExistsBijection(A, B)
        BY <3>6, Fun_ExistsBijSymmetric DEF ExistsBijection
      <3>8. IsFiniteSet(A)
        <4>1. IsFiniteSet(1 .. Len(Logged))
          BY <2>3, FS_Interval
        <4>2. A \in SUBSET (1 .. Len(Logged))
          BY <2>3, <3>2
        <4> QED BY <4>1, <4>2, FS_Subset
      <3>9. Cardinality(B) = Cardinality(A)
        BY <3>7, <3>8, FS_Bijection
      <3> QED BY <3>9 DEF A, B
    <2> QED BY <2>5, <2>6 DEF ReportIsExact
  <1>2. Spec => [](IInv /\ LogInv)
    BY InitInv, NextInv, LogInit, LogNext, PTL DEF Spec
  <1> QED BY <1>1, <1>2, PTL
=============================================================================
