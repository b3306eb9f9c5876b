------------------------- MODULE ManagedScanProofs -------------------------
(***************************************************************************)
(* The audit, the baseline file and the report of ManagedScan, for any     *)
(* repositories, contents and arguments and any number of scans.           *)
(***************************************************************************)
EXTENDS ManagedScan, FiniteSetTheorems, WellFoundedInduction, NaturalsInduction, TLAPS

EntryRecord == [path : Path, first : Nat, updated : Nat]
Entries == [Fingerprint -> EntryRecord \cup {NoEntry}]
BaselineData == [version : {1, 2}, legacy : SUBSET Fingerprint, sections : [Section -> Entries]]
Record ==
  [fetch : {"none", "pending", "not_applicable", "running", "completed", "failed"},
   scan : {"none", "pending", "running", "completed", "partial", "failed", "not_run"}]
Stage == {"none", "url", "fetching", "unfetched", "ready", "running", "enumerated",
          "merged", "broken"}
ArgsRecord == [baseline : {"none", "read", "manage"}, no_dedup : BOOLEAN,
               parallel : BOOLEAN, output : BOOLEAN]

\* The types of the variables.
TypeInv ==
  /\ content \in [Repo -> SUBSET Occurrence]
  /\ file \in [exists : BOOLEAN, data : BaselineData]
  /\ scans \in Nat
  /\ args \in ArgsRecord /\ (args.baseline = "manage" => args.no_dedup)
  /\ baseline \in BaselineData
  /\ discovery \in {"listing", "ok", "failed"}
  /\ records \in [Repo -> Record]
  /\ stage \in [Repo -> Stage]
  /\ found \in [Repo -> SUBSET Occurrence]
  /\ partial \in [Repo -> BOOLEAN]
  /\ failed \in BOOLEAN
  /\ main \in {"idle", "scan", "end", "returned"}
  /\ saved \in BOOLEAN /\ finished \in BOOLEAN
  /\ outcome \in {"none", "ok", "error"}

\* What is kept of a repository that was enumerated in full.
Whole(r) == ~partial[r] => found[r] \in Kept(content[r], args.no_dedup)

\* The record of a repository, by its stage.
RecordOf(r) ==
  /\ stage[r] = "none" => records[r] = Unknown
  /\ stage[r] \in {"url", "fetching", "ready"} => records[r].scan = "pending"
  /\ stage[r] = "unfetched" => records[r] = [fetch |-> "failed", scan |-> "not_run"]
  /\ stage[r] = "running" => records[r].scan = "running"
  /\ stage[r] = "enumerated" =>
       Whole(r) /\ records[r].scan = (IF args.parallel THEN Verdict(r) ELSE "running")
  /\ stage[r] = "merged" => Whole(r) /\ records[r].scan = Verdict(r)
  /\ stage[r] = "broken" =>
       /\ records[r].scan \in {"failed", "running", "completed"}
       /\ records[r].scan = "completed" => ~partial[r] /\ Whole(r)
RecordInv == \A r \in Repo : RecordOf(r)

\* What is over when main says so.
EndInv ==
  /\ main = "idle" => /\ \A r \in Repo : stage[r] = "none"
                      /\ rows = {} /\ ~failed /\ ~saved /\ ~finished /\ outcome = "none"
                      /\ events = {}
  /\ main = "scan" => ~saved /\ ~finished /\ outcome = "none"
  /\ \A r \in Repo : stage[r] = "broken" => failed
  /\ main # "idle" => \A r \in Local : stage[r] \notin {"none", "url", "fetching", "unfetched"}
  /\ main = "end" => Drained /\ ~failed /\ discovery = "ok" /\ outcome = "none"
  /\ "run_failed" \in events => discovery = "failed"
  /\ "run_completed" \in events =>
       main \in {"end", "returned"} /\ Drained /\ ~failed /\ discovery = "ok"

\* What the shared store has of an occurrence: the row, compared with the baseline
\* once more at the end of a sequential scan.
Stored(r, o) == IF saved /\ ~args.parallel THEN Reapplied(Row(r, o)) ELSE Row(r, o)

\* The rows of the shared store come from merged repositories; where they meet
\* no others they are all there.
RowInv ==
  /\ \A a \in rows : /\ a.repo \in Repo /\ stage[a.repo] \in {"merged", "broken"}
                     /\ \E o \in found[a.repo] : a = Stored(a.repo, o)
  /\ \A r \in Repo : stage[r] = "merged" /\ (args.no_dedup \/ r \in Named) =>
       \A o \in found[r] : Stored(r, o) \in rows

\* What has been reported, per repository or at the end.
ShownInv ==
  /\ args.parallel /\ ~args.output =>
       \A r \in Repo : stage[r] \in {"enumerated", "merged"} =>
         \A o \in found[r] : Row(r, o).visible => Row(r, o) \in shown
  /\ outcome = "ok" /\ ~(args.parallel /\ ~args.output) => shown = {a \in rows : a.visible}

\* The file is what was loaded until it is saved, and nothing in it is of today.
FileInv ==
  /\ file.data.version = 2 => file.data.legacy = {}
  /\ \A c \in Section, f \in Fingerprint : file.data.sections[c][f] # NoEntry =>
       file.data.sections[c][f].updated <= scans
  /\ main # "idle" /\ args.baseline = "manage" /\ ~saved =>
       /\ baseline = file.data
       /\ \A c \in Section, f \in Fingerprint : baseline.sections[c][f] # NoEntry =>
            baseline.sections[c][f].updated < scans

IInv == TypeInv /\ RecordInv /\ EndInv /\ RowInv /\ ShownInv /\ FileInv

-----------------------------------------------------------------------------
(* Facts about the operators.                                              *)

\* Every set of places has a least one.
LEMMA LeastIsPlace ==
  ASSUME NEW S \in SUBSET Path, S # {}
  PROVE  Least(S) \in S
<1>1. S \in SUBSET Nat
  BY ManagedScanConstants
<1>2. \E x \in S : \A y \in S : ~(<<y, x>> \in OpToRel(<, Nat))
  BY <1>1, NatLessThanWellFounded, WFMin
<1>3. \A x \in Nat, y \in Nat : y < x => <<y, x>> \in OpToRel(<, Nat)
  BY DEF OpToRel
<1>4. PICK x \in S : \A y \in S : ~(<<y, x>> \in OpToRel(<, Nat))
  BY <1>2
<1>5. ASSUME NEW y \in S PROVE x <= y
  <2>1. x \in Nat /\ y \in Nat
    BY <1>1
  <2>2. ~(y < x)
    BY <1>3, <1>4, <2>1, Zenon
  <2>3. QED
    BY <2>1, <2>2
<1>6. QED
  BY <1>5 DEF Least

\* Deduplication keeps a part ...
LEMMA KeptIsPart ==
  ASSUME NEW S, NEW b \in BOOLEAN, NEW T \in Kept(S, b)
  PROVE  T \subseteq S
BY DEF Kept

\* ... and an occurrence of every secret.
LEMMA KeptHasAll ==
  ASSUME NEW S, NEW b \in BOOLEAN, NEW T \in Kept(S, b),
         NEW s \in Secret, \E o \in S : SecretOf[o[1]] = s
  PROVE  \E o \in T : SecretOf[o[1]] = s
<1>1. CASE b
  BY <1>1 DEF Kept
<1>2. CASE ~b
  <2>1. Cardinality({o \in T : SecretOf[o[1]] = s}) = 1
    BY <1>2 DEF Kept
  <2>2. {o \in T : SecretOf[o[1]] = s} # {}
    BY <2>1, FS_EmptySet
  <2>3. QED
    BY <2>2
<1>3. QED
  BY <1>1, <1>2

\* ... and everything under --no-dedup.
LEMMA KeptWhole ==
  ASSUME NEW S, NEW T \in Kept(S, TRUE)
  PROVE  T = S
BY DEF Kept

\* A row says where it was found, before and after the second comparison.
LEMMA StoredSays ==
  ASSUME NEW r, NEW o
  PROVE  /\ Stored(r, o).repo = r /\ Stored(r, o).fingerprint = o[1] /\ Stored(r, o).path = o[2]
         /\ Stored(r, o).visible <=>
              ~Known(r, o[1]) /\ (saved /\ ~args.parallel => ~Known(Scope(r, o[2]), o[1]))
<1> DEFINE v == ~Known(r, o[1])
           k == Known(Scope(r, o[2]), o[1])
           R == [repo |-> r, fingerprint |-> o[1], path |-> o[2], visible |-> v]
<1>1. Row(r, o) = R
  BY DEF Row
<1>2. v \in BOOLEAN /\ k \in BOOLEAN
  BY DEF Known
<1>3. Reapplied(R) = [R EXCEPT !.visible = v /\ ~k]
  BY DEF Reapplied
<1> HIDE DEF v, k
<1>4. [R EXCEPT !.visible = v /\ ~k] =
        [repo |-> r, fingerprint |-> o[1], path |-> o[2], visible |-> v /\ ~k]
  OBVIOUS
<1>5. CASE saved /\ ~args.parallel
  <2>1. Stored(r, o) = [repo |-> r, fingerprint |-> o[1], path |-> o[2], visible |-> v /\ ~k]
    BY <1>1, <1>3, <1>4, <1>5 DEF Stored
  <2>2. /\ Stored(r, o).repo = r /\ Stored(r, o).fingerprint = o[1] /\ Stored(r, o).path = o[2]
        /\ Stored(r, o).visible = (v /\ ~k)
    BY <2>1
  <2>3. QED
    BY <1>5, <2>2 DEF v, k
<1>6. CASE ~(saved /\ ~args.parallel)
  <2>1. Stored(r, o) = R
    BY <1>1, <1>6 DEF Stored
  <2>2. /\ Stored(r, o).repo = r /\ Stored(r, o).fingerprint = o[1] /\ Stored(r, o).path = o[2]
        /\ Stored(r, o).visible = v
    BY <2>1
  <2>3. QED
    BY <1>6, <2>2 DEF v, k
<1>7. QED
  BY <1>5, <1>6

\* A section, and the path a place has in it.
LEMMA ScopeTypes ==
  ASSUME NEW r \in Repo, NEW p \in Path
  PROVE  Scope(r, p) \in Section /\ PathIn(r, p) \in Path
BY ManagedScanConstants DEF Scope, PathIn, Section, Directory

\* The places a section's findings have: those of the occurrences in the repositories
\* of its rows.
PlacesFound(c, f) ==
  UNION {{PathIn(r, o[2]) : o \in {q \in found[r] : q[1] = f /\ Scope(r, q[2]) = c}} :
           r \in Sources(c)}

\* The places of a finding are those of the occurrences it was found at.
LEMMA PlacesOfRows ==
  ASSUME TypeInv, RowInv, NEW c \in Section, NEW f \in Fingerprint
  PROVE  /\ Places(c, f) \in SUBSET Path
         /\ args.no_dedup /\ (\A r \in Repo : stage[r] # "broken")
              => Places(c, f) = PlacesFound(c, f)
<1>1. ASSUME NEW x \in Places(c, f)
      PROVE  \E r \in Repo : \E o \in found[r] :
               /\ stage[r] \in {"merged", "broken"} /\ o[1] = f /\ Scope(r, o[2]) = c
               /\ PathIn(r, o[2]) = x /\ x \in Path
  <2>1. PICK a \in rows : /\ Scope(a.repo, a.path) = c /\ a.fingerprint = f
                          /\ PathIn(a.repo, a.path) = x
    BY <1>1 DEF Places
  <2>2. a.repo \in Repo /\ stage[a.repo] \in {"merged", "broken"}
    BY <2>1 DEF RowInv
  <2>3. PICK o \in found[a.repo] : a = Stored(a.repo, o)
    BY <2>1 DEF RowInv
  <2>4. a.fingerprint = o[1] /\ a.path = o[2]
    BY <2>3, StoredSays
  <2>5. o[2] \in Path
    BY <2>2, <2>3 DEF TypeInv, Occurrence
  <2>6. QED
    BY <2>1, <2>2, <2>3, <2>4, <2>5, ScopeTypes
<1>2. ASSUME args.no_dedup, NEW r \in Sources(c), NEW o \in found[r], o[1] = f,
             Scope(r, o[2]) = c
      PROVE  PathIn(r, o[2]) \in Places(c, f)
  <2>1. Stored(r, o) \in rows
    BY <1>2 DEF RowInv, Sources, ScannedRoots
  <2>2. QED
    BY <1>2, <2>1, StoredSays DEF Places
<1>3. ASSUME \A r \in Repo : stage[r] # "broken", NEW x \in Places(c, f)
      PROVE  x \in PlacesFound(c, f)
  <2> PICK r \in Repo : \E o \in found[r] :
          /\ stage[r] \in {"merged", "broken"} /\ o[1] = f /\ Scope(r, o[2]) = c
          /\ PathIn(r, o[2]) = x
    BY <1>1, <1>3
  <2>1. PICK o \in found[r] :
          /\ stage[r] \in {"merged", "broken"} /\ o[1] = f /\ Scope(r, o[2]) = c
          /\ PathIn(r, o[2]) = x
    OBVIOUS
  <2>2. r \in Sources(c)
    BY <1>3, <2>1 DEF Sources, ScannedRoots, Scope
  <2>3. QED
    BY <2>1, <2>2 DEF PlacesFound
<1>4. ASSUME args.no_dedup, NEW x \in PlacesFound(c, f)
      PROVE  x \in Places(c, f)
  BY <1>2, <1>4 DEF PlacesFound
<1>5. QED
  BY <1>1, <1>3, <1>4

\* An entry is absent or a record, and absent only for what was not seen.
LEMMA EntryIsRecord ==
  ASSUME TypeInv, RowInv, NEW c \in Section, NEW f \in Fingerprint
  PROVE  /\ Places(c, f) # {} =>
              /\ Entry(c, f) \in EntryRecord /\ Entry(c, f) # NoEntry
              /\ Entry(c, f).path = Least(Places(c, f))
         /\ Places(c, f) = {} => Entry(c, f) = NoEntry
<1>1. CASE Places(c, f) = {}
  BY <1>1 DEF Entry
<1>2. CASE Places(c, f) # {}
  <2> DEFINE old == baseline.sections[c][f]
  <2>1. Least(Places(c, f)) \in Path
    BY <1>2, PlacesOfRows, LeastIsPlace
  <2>2. old \in EntryRecord \cup {NoEntry} /\ scans \in Nat
    BY DEF TypeInv, BaselineData, Entries
  <2>3. Entry(c, f) = [path |-> Least(Places(c, f)),
                       first |-> IF old = NoEntry THEN scans ELSE old.first,
                       updated |-> IF old # NoEntry /\ old.path = Least(Places(c, f))
                                     THEN old.updated ELSE scans]
    BY <1>2 DEF Entry
  <2>4. Entry(c, f) \in EntryRecord
    <3> HIDE DEF old
    <3>1. QED
      BY <2>1, <2>2, <2>3 DEF EntryRecord
  <2>5. QED
    BY <1>2, <2>3, <2>4, ManagedScanConstants DEF EntryRecord
<1>3. QED
  BY <1>1, <1>2

\* What is saved is a baseline.
LEMMA ManagedIsData ==
  ASSUME TypeInv, RowInv
  PROVE  ManagedBaseline \in BaselineData
<1>1. ASSUME NEW c \in Section PROVE [f \in Fingerprint |-> Entry(c, f)] \in Entries
  BY <1>1, EntryIsRecord DEF Entries
<1>2. baseline.sections \in [Section -> Entries]
  BY DEF TypeInv, BaselineData
<1>3. ManagedBaseline.sections \in [Section -> Entries]
  BY <1>1, <1>2 DEF ManagedBaseline
<1>4. QED
  BY <1>3 DEF ManagedBaseline, BaselineData

-----------------------------------------------------------------------------
(* The invariant.                                                          *)

\* The steps of a repository.
RepoStep(r) ==
  \/ Discover(r) \/ FetchStarts(r) \/ FetchCompletes(r) \/ FetchFails(r)
  \/ ScanStarts(r) \/ EnumerationFails(r) \/ Merges(r) \/ MergeFails(r)
  \/ \E p \in BOOLEAN, S \in SUBSET content[r] : Enumerated(r, p, S)

\* A repository's step leaves the world, the arguments and main alone.
LEMMA RepoStepFrame ==
  ASSUME NEW r \in Repo, RepoStep(r)
  PROVE  /\ main = "scan"
         /\ UNCHANGED <<content, edits, file, scans, args, baseline, discovery, events,
                        main, saved, finished, outcome>>
BY DEF RepoStep, Discover, FetchStarts, FetchCompletes, FetchFails, ScanStarts,
       EnumerationFails, Merges, MergeFails, Enumerated, world, setup, ends

\* Every step keeps the types ...
LEMMA TypeStep ==
  ASSUME IInv, [Next]_vars
  PROVE  TypeInv'
<1> USE DEF IInv
<1>1. CASE Begin
  <2>1. args' \in ArgsRecord /\ (args'.baseline = "manage" => args'.no_dedup)
    BY <1>1, ManagedScanConstants DEF Begin, ArgsRecord
  <2>2. baseline' \in BaselineData
    <3>1. Default \in BaselineData
      BY DEF Default, NoEntries, BaselineData, Entries
    <3>2. QED
      BY <1>1, <3>1 DEF Begin, TypeInv
  <2>3. records' \in [Repo -> Record] /\ stage' \in [Repo -> Stage]
    BY <1>1 DEF Begin, LocalRoot, Unknown, Record, Stage
  <2>4. QED
    BY <1>1, <2>1, <2>2, <2>3 DEF Begin, TypeInv, world
<1>2. CASE LeaveLoop
  BY <1>2 DEF LeaveLoop, TypeInv, world, setup, store
<1>3. CASE UpdateBaseline
  <2>1. file' \in [exists : BOOLEAN, data : BaselineData]
    BY <1>3, ManagedIsData DEF UpdateBaseline, TypeInv
  <2>2. QED
    BY <1>3, <2>1 DEF UpdateBaseline, TypeInv, setup, audit
<1>4. CASE FinishAudit
  BY <1>4 DEF FinishAudit, TypeInv, world, setup, store
<1>5. CASE Report
  BY <1>5 DEF Report, TypeInv, world, setup, audit
<1>6. CASE EndFails
  BY <1>6 DEF EndFails, TypeInv, world, setup, audit, store
<1>7. CASE Exit
  <2>1. Default \in BaselineData /\ NoArgs \in ArgsRecord /\ NoArgs.baseline # "manage"
    BY DEF Default, NoEntries, BaselineData, Entries, NoArgs, ArgsRecord
  <2>2. [r \in Repo |-> Unknown] \in [Repo -> Record]
    BY DEF Unknown, Record
  <2>3. QED
    BY <1>7, <2>1, <2>2 DEF Exit, TypeInv, world, Stage
<1>8. ASSUME NEW result \in {"ok", "failed"}, DiscoveryEnds(result) PROVE TypeInv'
  BY <1>8 DEF DiscoveryEnds, TypeInv, world, setup, store, ends
<1>9. ASSUME NEW r \in Repo, RepoStep(r) PROVE TypeInv'
  <2>1. /\ records' \in [Repo -> Record] /\ stage' \in [Repo -> Stage]
        /\ failed' \in BOOLEAN
    <3>1. CASE Discover(r)
      BY <3>1 DEF Discover, TypeInv, Record, Stage, Discovered
    <3>2. CASE FetchStarts(r)
      BY <3>2 DEF FetchStarts, TypeInv, Record, Stage
    <3>3. CASE FetchCompletes(r)
      BY <3>3 DEF FetchCompletes, TypeInv, Record, Stage
    <3>4. CASE FetchFails(r)
      BY <3>4 DEF FetchFails, TypeInv, Record, Stage
    <3>5. CASE ScanStarts(r)
      BY <3>5 DEF ScanStarts, TypeInv, Record, Stage
    <3>6. CASE EnumerationFails(r)
      BY <3>6 DEF EnumerationFails, TypeInv, Record, Stage
    <3>7. CASE Merges(r)
      BY <3>7 DEF Merges, TypeInv, Record, Stage, Verdict
    <3>8. CASE MergeFails(r)
      BY <3>8 DEF MergeFails, TypeInv, Record, Stage
    <3>9. ASSUME NEW p \in BOOLEAN, NEW S \in SUBSET content[r], Enumerated(r, p, S)
          PROVE  records' \in [Repo -> Record] /\ stage' \in [Repo -> Stage] /\ failed' \in BOOLEAN
      BY <3>9 DEF Enumerated, TypeInv, Record, Stage
    <3>10. QED
      BY <1>9, <3>1, <3>2, <3>3, <3>4, <3>5, <3>6, <3>7, <3>8, <3>9 DEF RepoStep
  <2>2. found' \in [Repo -> SUBSET Occurrence] /\ partial' \in [Repo -> BOOLEAN]
    <3>1. ASSUME NEW p \in BOOLEAN, NEW S \in SUBSET content[r], Enumerated(r, p, S)
          PROVE  found' \in [Repo -> SUBSET Occurrence] /\ partial' \in [Repo -> BOOLEAN]
      <4>1. PICK T \in Kept(S, args.no_dedup) : found' = [found EXCEPT ![r] = T]
        BY <3>1 DEF Enumerated
      <4>2. T \subseteq S
        BY KeptIsPart DEF TypeInv, ArgsRecord
      <4>3. QED
        BY <3>1, <4>1, <4>2 DEF Enumerated, TypeInv
    <3>2. QED
      BY <1>9, <3>1 DEF RepoStep, Discover, FetchStarts, FetchCompletes, FetchFails, ScanStarts,
         EnumerationFails, Merges, MergeFails, TypeInv
  <2>3. QED
    BY <1>9, <2>1, <2>2, RepoStepFrame DEF TypeInv
<1>10. ASSUME NEW r \in Repo, NEW S \in Snapshot, Edit(r, S) PROVE TypeInv'
  BY <1>10, ManagedScanConstants DEF Edit, TypeInv, setup, audit, store, ends
<1>11. CASE UNCHANGED vars
  BY <1>11 DEF vars, world, setup, audit, store, ends, TypeInv
<1>12. QED
  BY <1>1, <1>2, <1>3, <1>4, <1>5, <1>6, <1>7, <1>8, <1>9, <1>10, <1>11 DEF Next, Over, RepoStep

\* ... the audit's records in line with the repositories ...
LEMMA RecordStep ==
  ASSUME IInv, [Next]_vars
  PROVE  RecordInv'
<1> USE DEF IInv
<1>1. CASE Begin
  <2>1. ASSUME NEW q \in Repo
        PROVE  \/ stage'[q] = "ready" /\ records'[q].scan = "pending"
               \/ stage'[q] = "none" /\ records'[q] = Unknown
    BY <1>1 DEF Begin, LocalRoot
  <2>2. QED
    BY <2>1 DEF RecordInv, RecordOf
<1>2. CASE UNCHANGED <<content, args, records, stage, found, partial>>
  BY <1>2 DEF RecordInv, RecordOf, Whole, Verdict
<1>3. CASE LeaveLoop \/ UpdateBaseline \/ FinishAudit \/ Report \/ EndFails
  BY <1>2, <1>3 DEF LeaveLoop, UpdateBaseline, FinishAudit, Report, EndFails, world, setup,
                    audit, store
<1>4. CASE Exit
  BY <1>4 DEF Exit, RecordInv, RecordOf
<1>5. ASSUME NEW result \in {"ok", "failed"}, DiscoveryEnds(result) PROVE RecordInv'
  BY <1>2, <1>5 DEF DiscoveryEnds, world, setup, store
<1>6. ASSUME NEW r \in Repo, RepoStep(r) PROVE RecordInv'
  <2>1. UNCHANGED <<content, args>>
    BY <1>6, RepoStepFrame
  <2>2. ASSUME NEW q \in Repo, q # r
        PROVE  records'[q] = records[q] /\ stage'[q] = stage[q] /\ found'[q] = found[q]
               /\ partial'[q] = partial[q]
    BY <1>6, <2>2 DEF RepoStep, Discover, FetchStarts, FetchCompletes, FetchFails, ScanStarts,
       EnumerationFails, Merges, MergeFails, Enumerated, TypeInv
  <2>3. ASSUME NEW q \in Repo, q # r PROVE RecordOf(q)'
    BY <2>1, <2>2, <2>3 DEF RecordInv, RecordOf, Whole, Verdict
  <2>4. RecordOf(r)'
    <3>1. RecordOf(r) /\ records[r] \in Record
      BY DEF RecordInv, TypeInv
    <3>2. CASE Discover(r) \/ FetchStarts(r) \/ FetchCompletes(r) \/ ScanStarts(r)
      <4>1. \/ stage'[r] \in {"url", "fetching", "ready"} /\ records'[r].scan = "pending"
            \/ stage'[r] = "running" /\ records'[r].scan = "running"
        BY <3>1, <3>2 DEF Discover, Discovered, FetchStarts, FetchCompletes, ScanStarts, RecordOf,
                          TypeInv, Record
      <4>2. QED
        BY <4>1 DEF RecordOf
    <3>3. CASE FetchFails(r)
      BY <3>1, <3>3 DEF FetchFails, RecordOf, TypeInv, Record
    <3>4. CASE EnumerationFails(r)
      <4>1. stage'[r] = "broken" /\ records'[r].scan = "failed"
        BY <3>4 DEF EnumerationFails, TypeInv, Record
      <4>2. QED
        BY <4>1 DEF RecordOf
    <3>5. CASE Merges(r)
      <4>1. /\ stage'[r] = "merged" /\ UNCHANGED <<found, partial>>
            /\ records'[r].scan = Verdict(r) /\ Whole(r)
        BY <3>1, <3>5 DEF Merges, RecordOf, TypeInv, Record
      <4>2. QED
        BY <2>1, <4>1 DEF RecordOf, Whole, Verdict
    <3>6. CASE MergeFails(r)
      <4>1. stage'[r] = "broken" /\ UNCHANGED <<found, partial>> /\ stage[r] = "enumerated"
        BY <3>6 DEF MergeFails, TypeInv
      <4>2. records'[r].scan \in {"failed", records[r].scan}
        BY <3>6 DEF MergeFails, TypeInv, Record
      <4>3. CASE args.parallel
        BY <2>1, <3>1, <4>1, <4>2, <4>3, <3>6 DEF RecordOf, Whole, Verdict, MergeFails, TypeInv, Record
      <4>4. CASE ~args.parallel
        BY <2>1, <3>1, <4>1, <4>2, <4>4 DEF RecordOf
      <4>5. QED
        BY <4>3, <4>4
    <3>7. ASSUME NEW p \in BOOLEAN, NEW S \in SUBSET content[r], Enumerated(r, p, S)
          PROVE  RecordOf(r)'
      <4>1. /\ stage'[r] = "enumerated" /\ partial'[r] = p
            /\ records'[r].scan = IF args.parallel THEN IF p THEN "partial" ELSE "completed"
                                  ELSE "running"
        BY <3>1, <3>7 DEF Enumerated, TypeInv, Record, RecordOf
      <4>2. found'[r] \in Kept(S, args.no_dedup) /\ (~p => S = content[r])
        BY <3>7 DEF Enumerated, TypeInv
      <4>3. QED
        BY <2>1, <4>1, <4>2 DEF RecordOf, Whole, Verdict
    <3>8. QED
      BY <1>6, <3>2, <3>3, <3>4, <3>5, <3>6, <3>7 DEF RepoStep
  <2>5. QED
    BY <2>3, <2>4 DEF RecordInv
<1>7. ASSUME NEW r \in Repo, NEW S \in Snapshot, Edit(r, S) PROVE RecordInv'
  <2>1. \A q \in Repo : stage'[q] = "none" /\ records'[q] = Unknown
    BY <1>7 DEF Edit, EndInv, RecordInv, RecordOf, setup, audit, store, ends
  <2>2. QED
    BY <2>1 DEF RecordInv, RecordOf
<1>8. CASE UNCHANGED vars
  BY <1>2, <1>8 DEF vars, world, setup, audit, store, ends
<1>9. QED
  BY <1>1, <1>3, <1>4, <1>5, <1>6, <1>7, <1>8 DEF Next, Over, RepoStep

\* ... the end of a scan apart from its loop ...
LEMMA EndStep ==
  ASSUME IInv, [Next]_vars
  PROVE  EndInv'
<1> USE DEF IInv
<1>1. CASE Begin
  <2>1. ASSUME NEW q \in Repo PROVE stage'[q] # "broken"
    BY <1>1 DEF Begin
  <2>2. \A q \in Local : stage'[q] = "ready"
    BY <1>1 DEF Begin, Repo
  <2>3. QED
    BY <1>1, <2>1, <2>2 DEF Begin, EndInv
<1>2. CASE LeaveLoop
  <2>1. UNCHANGED <<stage, failed, saved, finished>> /\ main = "scan" /\ outcome = "none"
        /\ (Drained \/ Stopped) /\ main' # "idle" /\ main' # "scan" /\ ~saved /\ ~finished
    BY <1>2 DEF LeaveLoop, EndInv, store
  <2>2. "run_completed" \notin events'
    BY <1>2 DEF LeaveLoop, EndInv
  <2>3. "run_failed" \in events' => discovery' = "failed"
    BY <1>2 DEF LeaveLoop, EndInv
  <2>4. main' = "end" => Drained' /\ ~failed' /\ discovery' = "ok" /\ outcome' = "none"
    BY <1>2, <2>1 DEF LeaveLoop, Drained, Stopped, TypeInv
  <2>5. \A q \in Repo : stage'[q] = "broken" => failed'
    BY <2>1 DEF EndInv
  <2>6. QED
    BY <2>1, <2>2, <2>3, <2>4, <2>5 DEF EndInv
<1>3. CASE UpdateBaseline
  BY <1>3 DEF UpdateBaseline, UpdateTurn, EndInv, Drained, audit
<1>4. CASE FinishAudit
  BY <1>4 DEF FinishAudit, FinishTurn, EndInv, Drained, store
<1>5. CASE Report \/ EndFails
  BY <1>5 DEF Report, EndFails, EndInv, Drained, audit, store
<1>6. CASE Exit
  BY <1>6 DEF Exit, EndInv
<1>7. ASSUME NEW result \in {"ok", "failed"}, DiscoveryEnds(result) PROVE EndInv'
  BY <1>7 DEF DiscoveryEnds, EndInv, store, ends
<1>8. ASSUME NEW r \in Repo, RepoStep(r) PROVE EndInv'
  <2>1. ASSUME NEW q \in Repo, stage'[q] = "broken" PROVE failed'
    BY <1>8, <2>1 DEF RepoStep, Discover, FetchStarts, FetchCompletes, FetchFails, ScanStarts,
       EnumerationFails, Merges, MergeFails, Enumerated, TypeInv, EndInv
  <2>2. ASSUME NEW q \in Local PROVE stage'[q] \notin {"none", "url", "fetching", "unfetched"}
    <3>1. stage[q] \notin {"none", "url", "fetching", "unfetched"} /\ q \in Repo
      BY <1>8, RepoStepFrame DEF EndInv, Repo
    <3>2. CASE q # r \/ Discover(r)
      BY <1>8, <3>1, <3>2, ManagedScanConstants DEF RepoStep, Discover, FetchStarts, FetchCompletes,
         FetchFails, ScanStarts, EnumerationFails, Merges, MergeFails, Enumerated, TypeInv
    <3>3. CASE q = r /\ ~Discover(r)
      BY <1>8, <3>1, <3>3 DEF RepoStep, FetchStarts, FetchCompletes, FetchFails, ScanStarts,
         EnumerationFails, Merges, MergeFails, Enumerated, TypeInv
    <3>4. QED
      BY <3>2, <3>3
  <2>3. QED
    BY <1>8, <2>1, <2>2, RepoStepFrame DEF EndInv
<1>9. ASSUME NEW r \in Repo, NEW S \in Snapshot, Edit(r, S) PROVE EndInv'
  BY <1>9 DEF Edit, EndInv, setup, audit, store, ends
<1>10. CASE UNCHANGED vars
  BY <1>10 DEF vars, world, setup, audit, store, ends, EndInv, Drained
<1>11. QED
  BY <1>1, <1>2, <1>3, <1>4, <1>5, <1>6, <1>7, <1>8, <1>9, <1>10 DEF Next, Over, RepoStep

\* ... the rows of the merged repositories ...
LEMMA RowStep ==
  ASSUME IInv, [Next]_vars
  PROVE  RowInv'
<1> USE DEF IInv
<1>1. CASE rows' = {} /\ \A q \in Repo : stage'[q] # "merged"
  BY <1>1 DEF RowInv
<1>2. CASE UNCHANGED <<args, baseline, saved, rows, stage, found>>
  BY <1>2 DEF RowInv, Stored, Reapplied, Scope, Row, Known
<1>3. CASE Begin
  <2>1. \A q \in Repo : stage'[q] # "merged"
    BY <1>3 DEF Begin
  <2>2. QED
    BY <1>1, <1>3, <2>1 DEF Begin, EndInv
<1>4. CASE LeaveLoop \/ FinishAudit \/ Report \/ EndFails
  BY <1>2, <1>4 DEF LeaveLoop, FinishAudit, Report, EndFails, world, setup, audit, store
<1>5. CASE Exit
  BY <1>1, <1>5 DEF Exit
<1>6. CASE UpdateBaseline
  <2>1. /\ ~saved /\ saved' /\ UNCHANGED <<args, baseline, stage, found>>
        /\ rows' = IF args.parallel THEN rows ELSE {Reapplied(a) : a \in rows}
    BY <1>6 DEF UpdateBaseline, UpdateTurn, setup
  <2>2. \A q, o : Stored(q, o)' = IF args.parallel THEN Stored(q, o) ELSE Reapplied(Stored(q, o))
    BY <2>1 DEF Stored, Reapplied, Scope, Row, Known
  <2>3. \A q, o : Stored(q, o).repo = q /\ (Stored(q, o)').repo = q
    BY DEF Stored, Reapplied, Row
  <2>4. ASSUME NEW a \in rows'
        PROVE  /\ a.repo \in Repo /\ stage'[a.repo] \in {"merged", "broken"}
               /\ \E o \in found'[a.repo] : a = Stored(a.repo, o)'
    <3>1. PICK b \in rows : a = IF args.parallel THEN b ELSE Reapplied(b)
      BY <2>1
    <3>2. PICK o \in found[b.repo] : b = Stored(b.repo, o)
      BY <3>1 DEF RowInv
    <3>3. a = Stored(b.repo, o)' /\ a.repo = b.repo
      BY <2>2, <2>3, <3>1, <3>2
    <3>4. QED
      BY <2>1, <3>1, <3>2, <3>3 DEF RowInv
  <2>5. ASSUME NEW q \in Repo, stage[q] = "merged", args.no_dedup \/ q \in Named, NEW o \in found[q]
        PROVE  Stored(q, o)' \in rows'
    <3>1. Stored(q, o) \in rows
      BY <2>5 DEF RowInv
    <3>2. QED
      BY <2>1, <2>2, <3>1
  <2>6. QED
    BY <2>1, <2>4, <2>5 DEF RowInv
<1>7. ASSUME NEW result \in {"ok", "failed"}, DiscoveryEnds(result) PROVE RowInv'
  BY <1>2, <1>7 DEF DiscoveryEnds, world, setup, store, ends
<1>8. ASSUME NEW r \in Repo, RepoStep(r) PROVE RowInv'
  <2>1. UNCHANGED <<args, baseline, saved>> /\ ~saved
    BY <1>8, RepoStepFrame DEF EndInv
  <2>2. \A q \in Repo, o \in Occurrence : Stored(q, o)' = Row(q, o) /\ Stored(q, o) = Row(q, o)
    BY <2>1 DEF Stored, Row, Known
  <2>3. ASSUME NEW q \in Repo, q # r
        PROVE  stage'[q] = stage[q] /\ found'[q] = found[q]
    BY <1>8, <2>3 DEF RepoStep, Discover, FetchStarts, FetchCompletes, FetchFails, ScanStarts,
       EnumerationFails, Merges, MergeFails, Enumerated, TypeInv
  <2>4. stage[r] \notin {"merged", "broken"}
    <3>1. CASE Discover(r)
      BY <3>1 DEF Discover, RecordInv, RecordOf, Unknown, Verdict
    <3>2. QED
      BY <1>8, <3>1 DEF RepoStep, FetchStarts, FetchCompletes, FetchFails, ScanStarts,
         EnumerationFails, Merges, MergeFails, Enumerated
  <2>5. \A a \in rows : a.repo # r
    BY <2>4 DEF RowInv
  <2> DEFINE new == {Row(r, o) : o \in found[r]}
  <2>6. rows' \in {rows, Merged(new)} /\ (rows' # rows => found' = found /\ stage'[r] \in {"merged", "broken"})
    BY <1>8 DEF RepoStep, Discover, FetchStarts, FetchCompletes, FetchFails, ScanStarts,
       EnumerationFails, Merges, MergeFails, Enumerated, TypeInv
  <2>7. rows \subseteq rows' /\ \A a \in rows' : a \in rows \/ (a \in new /\ rows' # rows)
    <3>1. rows \subseteq Merged(new) /\ Merged(new) \subseteq rows \cup new
      BY DEF Merged
    <3>2. QED
      BY <2>6, <3>1
  <2>8. ASSUME NEW a \in rows'
        PROVE  /\ a.repo \in Repo /\ stage'[a.repo] \in {"merged", "broken"}
               /\ \E o \in found'[a.repo] : a = Stored(a.repo, o)'
    <3>1. CASE a \in rows
      <4>1. PICK o \in found[a.repo] : a = Stored(a.repo, o)
        BY <3>1 DEF RowInv
      <4>2. a.repo \in Repo /\ a.repo # r /\ stage[a.repo] \in {"merged", "broken"}
        BY <2>5, <3>1 DEF RowInv
      <4>3. o \in Occurrence
        BY <4>1, <4>2 DEF TypeInv
      <4>4. QED
        BY <2>2, <2>3, <4>1, <4>2, <4>3
    <3>2. CASE a \in new /\ rows' # rows
      <4>1. PICK o \in found[r] : a = Row(r, o)
        BY <3>2
      <4>2. o \in Occurrence /\ a.repo = r
        BY <4>1 DEF TypeInv, Row
      <4>3. QED
        BY <2>2, <2>6, <3>2, <4>1, <4>2
    <3>3. QED
      BY <2>7, <3>1, <3>2
  <2>9. ASSUME NEW q \in Repo, stage'[q] = "merged", args.no_dedup \/ q \in Named, NEW o \in found'[q]
        PROVE  Stored(q, o)' \in rows'
    <3>1. CASE q # r
      <4>1. Stored(q, o) \in rows /\ o \in Occurrence
        BY <2>3, <2>9, <3>1 DEF RowInv, TypeInv
      <4>2. QED
        BY <2>2, <2>7, <4>1
    <3>2. CASE q = r
      <4>1. Merges(r)
        BY <1>8, <2>9, <3>2 DEF RepoStep, Discover, FetchStarts, FetchCompletes, FetchFails,
           ScanStarts, EnumerationFails, MergeFails, Enumerated, TypeInv
      <4>2. rows' = Merged(new) /\ o \in found[r]
        BY <2>9, <3>2, <4>1 DEF Merges
      <4>3. Row(r, o) \in new /\ o \in Occurrence /\ Row(r, o).repo = r
        BY <4>2 DEF Row, TypeInv
      <4>4. r \in Named => \A b \in rows : ~SameDigest(Row(r, o), b)
        BY <2>5, <4>3 DEF SameDigest
      <4>5. Row(r, o) \in Merged(new)
        BY <2>9, <3>2, <4>3, <4>4 DEF Merged
      <4>6. QED
        BY <2>2, <3>2, <4>2, <4>3, <4>5
    <3>3. QED
      BY <3>1, <3>2
  <2>10. QED
    BY <2>1, <2>8, <2>9 DEF RowInv
<1>9. ASSUME NEW r \in Repo, NEW S \in Snapshot, Edit(r, S) PROVE RowInv'
  BY <1>2, <1>9 DEF Edit, setup, audit, store, ends
<1>10. CASE UNCHANGED vars
  BY <1>2, <1>10 DEF vars, world, setup, audit, store, ends
<1>11. QED
  BY <1>3, <1>4, <1>5, <1>6, <1>7, <1>8, <1>9, <1>10 DEF Next, Over, RepoStep

\* ... the rows that were reported ...
LEMMA ShownStep ==
  ASSUME IInv, [Next]_vars
  PROVE  ShownInv'
<1> USE DEF IInv
<1>1. CASE outcome' # "ok" /\ \A q \in Repo : stage'[q] \notin {"enumerated", "merged"}
  BY <1>1 DEF ShownInv
<1>2. CASE UNCHANGED <<args, baseline, stage, found, shown>> /\ outcome' # "ok"
  BY <1>2 DEF ShownInv, Row, Known
<1>3. CASE Begin
  <2>1. \A q \in Repo : stage'[q] \notin {"enumerated", "merged"}
    BY <1>3 DEF Begin
  <2>2. QED
    BY <1>1, <1>3, <2>1 DEF Begin, EndInv
<1>4. CASE LeaveLoop \/ UpdateBaseline \/ FinishAudit \/ EndFails
  BY <1>2, <1>4 DEF LeaveLoop, UpdateBaseline, UpdateTurn, FinishAudit, FinishTurn, EndFails, EndInv,
                    world, setup, audit, store
<1>5. CASE Report
  BY <1>5 DEF Report, ShownInv, Row, Known, setup
<1>6. CASE Exit
  BY <1>1, <1>6 DEF Exit
<1>7. ASSUME NEW result \in {"ok", "failed"}, DiscoveryEnds(result) PROVE ShownInv'
  BY <1>2, <1>7 DEF DiscoveryEnds, EndInv, world, setup, store, ends
<1>8. ASSUME NEW r \in Repo, RepoStep(r) PROVE ShownInv'
  <2>1. UNCHANGED <<args, baseline>> /\ outcome' # "ok"
    BY <1>8, RepoStepFrame DEF EndInv
  <2>2. \A q \in Repo, o \in Occurrence : Row(q, o)' = Row(q, o)
    BY <2>1 DEF Row, Known
  <2>3. ASSUME args.parallel, ~args.output, NEW q \in Repo, stage'[q] \in {"enumerated", "merged"},
               NEW o \in found'[q], Row(q, o).visible
        PROVE  Row(q, o) \in shown'
    <3>1. CASE \E p \in BOOLEAN, S \in SUBSET content[r] : Enumerated(r, p, S)
      <4>1. PICK p \in BOOLEAN, S \in SUBSET content[r] : Enumerated(r, p, S)
        BY <3>1
      <4>2. PICK T \in Kept(S, args.no_dedup) :
              /\ found' = [found EXCEPT ![r] = T]
              /\ shown' = shown \cup {a \in {Row(r, x) : x \in T} : a.visible}
        BY <2>3, <4>1 DEF Enumerated
      <4>3. CASE q = r
        BY <2>3, <4>2, <4>3 DEF TypeInv
      <4>4. CASE q # r
        BY <2>3, <4>1, <4>2, <4>4 DEF Enumerated, TypeInv, ShownInv
      <4>5. QED
        BY <4>3, <4>4
    <3>2. CASE ~\E p \in BOOLEAN, S \in SUBSET content[r] : Enumerated(r, p, S)
      <4>1. UNCHANGED <<found, shown>> /\ stage[q] \in {"enumerated", "merged"}
        BY <1>8, <2>3, <3>2 DEF RepoStep, Discover, FetchStarts, FetchCompletes, FetchFails,
           ScanStarts, EnumerationFails, Merges, MergeFails, TypeInv
      <4>2. QED
        BY <2>3, <4>1 DEF ShownInv
    <3>3. QED
      BY <3>1, <3>2
  <2>4. \A q \in Repo : found'[q] \subseteq Occurrence
    BY TypeStep DEF TypeInv
  <2>5. QED
    BY <2>1, <2>2, <2>3, <2>4 DEF ShownInv
<1>9. ASSUME NEW r \in Repo, NEW S \in Snapshot, Edit(r, S) PROVE ShownInv'
  BY <1>2, <1>9 DEF Edit, EndInv, setup, audit, store, ends
<1>10. CASE UNCHANGED vars
  BY <1>10 DEF vars, world, setup, audit, store, ends, ShownInv, Row, Known
<1>11. QED
  BY <1>3, <1>4, <1>5, <1>6, <1>7, <1>8, <1>9, <1>10 DEF Next, Over, RepoStep

\* What a saved baseline has of today and of before.
LEMMA ManagedDates ==
  ASSUME IInv, UpdateTurn, args.baseline = "manage", NEW c \in Section, NEW f \in Fingerprint,
         ManagedBaseline.sections[c][f] # NoEntry
  PROVE  ManagedBaseline.sections[c][f].updated <= scans
<1>1. /\ baseline.sections[c][f] \in EntryRecord \cup {NoEntry} /\ scans \in Nat
      /\ baseline.sections[c][f] # NoEntry => baseline.sections[c][f].updated < scans
  BY DEF IInv, TypeInv, BaselineData, Entries, FileInv, UpdateTurn
<1>2. CASE c \in Scanned
  <2>1. ManagedBaseline.sections[c][f] = Entry(c, f)
    BY <1>2 DEF ManagedBaseline
  <2>2. Entry(c, f).updated \in {scans, baseline.sections[c][f].updated}
        /\ (Entry(c, f).updated # scans => baseline.sections[c][f] # NoEntry)
    BY <2>1 DEF Entry
  <2>3. QED
    BY <1>1, <2>1, <2>2 DEF EntryRecord
<1>3. CASE c \notin Scanned
  <2>1. ManagedBaseline.sections[c][f] = baseline.sections[c][f]
    BY <1>3 DEF ManagedBaseline
  <2>2. baseline.sections[c][f].updated \in Nat
    BY <1>1, <2>1 DEF EntryRecord
  <2>3. QED
    BY <1>1, <2>1, <2>2
<1>4. QED
  BY <1>2, <1>3

\* ... and the dates of the baseline file.
LEMMA FileStep ==
  ASSUME IInv, [Next]_vars
  PROVE  FileInv'
<1> USE DEF IInv
<1>1. CASE /\ UNCHANGED <<file, scans>>
           /\ \/ main' = "idle"
              \/ UNCHANGED <<args, baseline, saved>> /\ main # "idle"
  BY <1>1 DEF FileInv
<1>2. CASE Begin
  <2>1. UNCHANGED file /\ scans \in Nat /\ scans' = scans + 1
        /\ (args'.baseline = "manage" => baseline' = file.data)
    BY <1>2 DEF Begin, TypeInv, world
  <2>2. ASSUME NEW c \in Section, NEW f \in Fingerprint, file.data.sections[c][f] # NoEntry
        PROVE  file.data.sections[c][f].updated < scans'
    <3>1. file.data.sections[c][f] \in EntryRecord
      BY <2>2 DEF TypeInv, BaselineData, Entries
    <3>2. file.data.sections[c][f].updated \in Nat /\ file.data.sections[c][f].updated <= scans
      BY <2>2, <3>1 DEF FileInv, EntryRecord
    <3>3. QED
      BY <2>1, <3>2
  <2>3. ASSUME NEW c \in Section, NEW f \in Fingerprint, file.data.sections[c][f] # NoEntry
        PROVE  file.data.sections[c][f].updated <= scans'
    <3>1. file.data.sections[c][f] \in EntryRecord
      BY <2>3 DEF TypeInv, BaselineData, Entries
    <3>2. file.data.sections[c][f].updated \in Nat
      BY <3>1 DEF EntryRecord
    <3>3. QED
      BY <2>1, <2>2, <2>3, <3>2
  <2>4. QED
    BY <2>1, <2>2, <2>3 DEF FileInv
<1>3. CASE UpdateBaseline
  <2>1. CASE file' = file
    BY <1>3, <2>1 DEF UpdateBaseline, FileInv, setup
  <2>2. CASE file' # file
    <3>1. args.baseline = "manage" /\ file'.data = ManagedBaseline /\ UpdateTurn /\ saved'
          /\ scans' = scans
      BY <1>3, <2>2 DEF UpdateBaseline, setup
    <3>2. ManagedBaseline.legacy = {}
      BY DEF ManagedBaseline
    <3>3. QED
      BY <3>1, <3>2, ManagedDates DEF FileInv
  <2>3. QED
    BY <2>1, <2>2
<1>4. CASE LeaveLoop \/ FinishAudit \/ Report \/ EndFails \/ Exit
  BY <1>1, <1>4 DEF LeaveLoop, FinishAudit, FinishTurn, Report, EndFails, Exit, world, setup
<1>5. ASSUME NEW result \in {"ok", "failed"}, DiscoveryEnds(result) PROVE FileInv'
  BY <1>1, <1>5 DEF DiscoveryEnds, world, setup, ends
<1>6. ASSUME NEW r \in Repo, RepoStep(r) PROVE FileInv'
  BY <1>1, <1>6, RepoStepFrame
<1>7. ASSUME NEW r \in Repo, NEW S \in Snapshot, Edit(r, S) PROVE FileInv'
  BY <1>1, <1>7 DEF Edit, setup, ends
<1>8. CASE UNCHANGED vars
  BY <1>8 DEF vars, world, setup, ends, FileInv
<1>9. QED
  BY <1>2, <1>3, <1>4, <1>5, <1>6, <1>7, <1>8 DEF Next, Over, RepoStep

\* The invariant holds before the first scan.
LEMMA InitInv ==
  ASSUME Init
  PROVE  IInv
<1>1. /\ Default \in BaselineData /\ NoArgs \in ArgsRecord /\ NoArgs.baseline = "none"
      /\ \A L \in SUBSET Fingerprint : [Default EXCEPT !.legacy = L] \in BaselineData
  BY DEF Default, NoEntries, BaselineData, Entries, NoArgs, ArgsRecord
<1>2. content \in [Repo -> SUBSET Occurrence]
  BY ManagedScanConstants DEF Init
<1>3. file \in [exists : BOOLEAN, data : BaselineData]
  <2>1. CASE file = [exists |-> FALSE, data |-> Default]
    BY <1>1, <2>1
  <2>2. ASSUME NEW L \in SUBSET Fingerprint,
               file = [exists |-> TRUE, data |-> [Default EXCEPT !.legacy = L]]
        PROVE  file \in [exists : BOOLEAN, data : BaselineData]
    <3>1. [Default EXCEPT !.legacy = L] \in BaselineData
      BY <1>1
    <3>2. QED
      BY <2>2, <3>1
  <2>3. QED
    BY <2>1, <2>2 DEF Init
<1>4. file.data.version = 1 /\ \A c \in Section, f \in Fingerprint : file.data.sections[c][f] = NoEntry
  BY DEF Init, Default, NoEntries
<1>5. records \in [Repo -> Record] /\ stage \in [Repo -> Stage]
  BY DEF Init, Unknown, Record, Stage
<1>6. TypeInv
  BY <1>1, <1>2, <1>3, <1>5 DEF Init, TypeInv
<1>7. RecordInv
  BY DEF Init, RecordInv, RecordOf
<1>8. EndInv
  BY DEF Init, EndInv
<1>9. RowInv /\ ShownInv
  BY DEF Init, RowInv, ShownInv
<1>10. FileInv
  BY <1>4 DEF Init, FileInv
<1>11. QED
  BY <1>6, <1>7, <1>8, <1>9, <1>10 DEF IInv

\* The inductive invariant.
THEOREM Inductive == Spec => []IInv
<1>1. Init => IInv
  BY InitInv
<1>2. IInv /\ [Next]_vars => IInv'
  BY TypeStep, RecordStep, EndStep, RowStep, ShownStep, FileStep DEF IInv
<1>3. QED
  BY <1>1, <1>2, PTL DEF Spec

-----------------------------------------------------------------------------
(* The theorems.                                                           *)

\* The audit is truthful (AuditIsTruthful; scan_audit.rs:254-381): what it says
\* of a repository is what became of it, and run_completed excludes run_failed
\* and repositories that are still on their way.
THEOREM Audit == Spec => []AuditIsTruthful
<1>1. IInv => AuditIsTruthful
  <2> SUFFICES ASSUME IInv PROVE AuditIsTruthful
    OBVIOUS
  <2>1. ASSUME NEW r \in Repo
        PROVE  /\ records[r].scan = "completed" => found[r] \in Kept(content[r], args.no_dedup)
               /\ records[r].scan = "not_run" <=> stage[r] = "unfetched"
    <3>1. RecordOf(r) /\ stage[r] \in Stage
      BY DEF IInv, RecordInv, TypeInv
    <3>2. Verdict(r) \in {"partial", "completed"} /\ (Verdict(r) = "completed" => ~partial[r])
      BY DEF Verdict
    <3>3. QED
      BY <3>1, <3>2 DEF RecordOf, Stage, Unknown, Whole
  <2>2. ASSUME "run_completed" \in events
        PROVE  /\ "run_failed" \notin events
               /\ \A r \in Repo : records[r] # Unknown =>
                    \/ records[r] = [fetch |-> "failed", scan |-> "not_run"]
                    \/ stage[r] = "merged" /\ records[r].scan = Verdict(r)
    BY <2>2 DEF IInv, EndInv, Drained, RecordInv, RecordOf
  <2>3. QED
    BY <2>1, <2>2 DEF AuditIsTruthful
<1>2. QED
  BY <1>1, Inductive, PTL

\* Nothing new is suppressed on account of other repositories
\* (NewSecretsAreReported; runner.rs:754-773 and 1255-1370).
THEOREM NewAreReported == Spec => []NewSecretsAreReported
<1>1. IInv => NewSecretsAreReported
  <2> SUFFICES ASSUME IInv, main = "returned", outcome = "ok", NEW r \in Repo, NEW s \in Secret,
                      IsNew(r, s), Apart(r)
               PROVE  \E a \in shown : a.repo = r /\ SecretOf[a.fingerprint] = s
    BY DEF NewSecretsAreReported
  <2>1. found[r] \in Kept(content[r], args.no_dedup) /\ args.no_dedup \in BOOLEAN
    BY DEF IInv, IsNew, RecordInv, RecordOf, Whole, TypeInv, ArgsRecord
  <2>2. PICK o \in found[r] : SecretOf[o[1]] = s
    BY <2>1, KeptHasAll DEF IsNew
  <2>3. o \in content[r]
    BY <2>1, <2>2, KeptIsPart
  <2>4. ~Known(r, o[1]) /\ ~Known(Scope(r, o[2]), o[1])
    BY <2>2, <2>3 DEF IsNew, Known
  <2>5. /\ Row(r, o).visible /\ Row(r, o).repo = r /\ Row(r, o).fingerprint = o[1]
        /\ Stored(r, o).visible /\ Stored(r, o).repo = r /\ Stored(r, o).fingerprint = o[1]
    BY <2>4, StoredSays DEF Row
  <2>6. Row(r, o) \in shown \/ Stored(r, o) \in shown
    <3>1. CASE args.parallel /\ ~args.output
      BY <2>2, <2>5, <3>1 DEF IInv, ShownInv, IsNew
    <3>2. CASE ~(args.parallel /\ ~args.output)
      <4>1. Stored(r, o) \in rows
        BY <2>2, <3>2 DEF Apart, IInv, RowInv, IsNew
      <4>2. QED
        BY <2>5, <3>2, <4>1 DEF IInv, ShownInv
    <3>3. QED
      BY <3>1, <3>2
  <2>7. QED
    BY <2>2, <2>5, <2>6
<1>2. QED
  BY <1>1, Inductive, PTL

\* What is at hand when the baseline is updated.
LEMMA AtTheEnd ==
  ASSUME IInv, UpdateTurn, args.baseline = "manage"
  PROVE  /\ baseline = file.data /\ args.no_dedup = TRUE /\ ~failed /\ discovery = "ok"
         /\ \A r \in Repo : stage[r] # "broken"
         /\ \A r \in Local : stage[r] = "merged" /\ r \in Repo
<1>1. baseline = file.data /\ args.no_dedup = TRUE /\ ~failed /\ discovery = "ok" /\ Drained
  BY DEF UpdateTurn, IInv, FileInv, TypeInv, ArgsRecord, EndInv
<1>2. \A r \in Repo : stage[r] # "broken"
  BY <1>1 DEF IInv, EndInv
<1>3. ASSUME NEW r \in Local PROVE stage[r] = "merged" /\ r \in Repo
  BY <1>1, <1>2 DEF IInv, EndInv, Drained, Repo, UpdateTurn
<1>4. QED
  BY <1>1, <1>2, <1>3

\* A section is replaced only if one of its repositories was scanned ...
LEMMA ScannedHaveSources ==
  ASSUME IInv, UpdateTurn, args.baseline = "manage", NEW c \in Section, c \in Scanned
  PROVE  Sources(c) # {}
<1>1. CASE c \in ScannedRoots
  BY <1>1 DEF Sources
<1>2. ASSUME NEW r \in Nested, c = Parent[r], ~args.parallel PROVE Sources(c) # {}
  <2>1. r \in ScannedRoots
    BY <1>2, AtTheEnd, ManagedScanConstants DEF ScannedRoots
  <2>2. QED
    BY <1>2, <2>1 DEF Sources
<1>3. ASSUME NEW a \in rows, c = Scope(a.repo, a.path) PROVE Sources(c) # {}
  <2>1. a.repo \in ScannedRoots
    BY <1>3, AtTheEnd DEF IInv, RowInv, ScannedRoots
  <2>2. a.repo \in Sources(c)
    BY <1>3, <2>1 DEF Sources, Scope
  <2>3. QED
    BY <2>2
<1>4. QED
  BY <1>1, <1>2, <1>3 DEF Scanned, Roots

\* ... and, if all of them were in full, it is unless it is overlooked.
LEMMA OverlookedOrScanned ==
  ASSUME IInv, UpdateTurn, args.baseline = "manage", NEW c \in Section, Sources(c) # {},
         \A r \in Sources(c) : ~partial[r]
  PROVE  c \in Scanned <=> ~Overlooked(c)
<1>1. \A r \in Sources(c) : r \in Repo /\ stage[r] = "merged" /\ found[r] = content[r]
  <2> SUFFICES ASSUME NEW r \in Sources(c)
               PROVE  r \in Repo /\ stage[r] = "merged" /\ found[r] = content[r]
    OBVIOUS
  <2>1. r \in Repo /\ stage[r] = "merged" /\ ~partial[r]
    BY DEF Sources, ScannedRoots
  <2>2. found[r] \in Kept(content[r], TRUE)
    BY <2>1, AtTheEnd DEF IInv, RecordInv, RecordOf, Whole
  <2>3. QED
    BY <2>1, <2>2, KeptWhole
<1>2. CASE args.parallel
  <2>1. c \in ScannedRoots
    BY <1>2 DEF Sources
  <2>2. QED
    BY <1>2, <2>1 DEF Scanned, Roots, Overlooked
<1>3. CASE ~args.parallel /\ c \notin Nested
  <2>1. PICK r \in Sources(c) : TRUE
    OBVIOUS
  <2>2. c \in Roots
    BY <1>3, <2>1 DEF Sources, Roots
  <2>3. QED
    BY <1>3, <2>2 DEF Scanned, Overlooked
<1>4. CASE ~args.parallel /\ c \in Nested
  <2>1. c \in Local /\ c \in Repo /\ c \notin Directory
    BY <1>4, ManagedScanConstants DEF Repo
  <2>2. c \in Sources(c)
    BY <1>4, <2>1, AtTheEnd DEF Sources, ScannedRoots
  <2>3. c \notin Roots
    BY <1>4, <2>1 DEF Roots, Directory
  <2>4. ASSUME NEW a \in rows, Scope(a.repo, a.path) = c
        PROVE  \E o \in content[c] : o[2] \notin Filed
    <3>1. a.repo \in Repo
      BY DEF IInv, RowInv
    <3>2. a.repo = c /\ a.path \notin Filed
      BY <1>4, <2>1, <2>4, <3>1 DEF Scope, Directory
    <3>3. PICK o \in found[c] : a = Stored(c, o)
      BY <3>2 DEF IInv, RowInv
    <3>4. QED
      BY <1>1, <2>2, <3>2, <3>3, StoredSays
  <2>5. ASSUME NEW o \in content[c], o[2] \notin Filed
        PROVE  \E a \in rows : Scope(a.repo, a.path) = c
    <3>1. o \in found[c] /\ stage[c] = "merged"
      BY <1>1, <2>2
    <3>2. Stored(c, o) \in rows
      BY <2>1, <3>1, AtTheEnd DEF IInv, RowInv
    <3>3. Scope(c, o[2]) = c
      BY <2>5 DEF Scope
    <3>4. QED
      BY <3>2, <3>3, StoredSays
  <2>6. QED
    BY <1>4, <2>3, <2>4, <2>5 DEF Scanned, Overlooked
<1>5. QED
  BY <1>2, <1>3, <1>4

\* The section of repositories that were scanned in full.
LEMMA SectionsAreExact ==
  ASSUME IInv, UpdateTurn, args.baseline = "manage", NEW c \in Section, c \in Scanned,
         \A r \in Sources(c) : ~partial[r]
  PROVE  SectionIsExact(c, file.data.sections[c], ManagedBaseline.sections[c])
<1> DEFINE PlacesIn(f) ==
             UNION {{PathIn(r, o[2]) : o \in {q \in content[r] : q[1] = f /\ Scope(r, q[2]) = c}} :
                      r \in Sources(c)}
<1> SUFFICES ASSUME NEW f \in Fingerprint
             PROVE  LET old == file.data.sections[c]
                        new == ManagedBaseline.sections[c]
                    IN IF PlacesIn(f) = {} THEN new[f] = NoEntry
                       ELSE /\ new[f] # NoEntry /\ new[f].path = Least(PlacesIn(f))
                            /\ new[f].first = IF old[f] = NoEntry THEN scans ELSE old[f].first
                            /\ new[f].updated # scans => new[f] = old[f]
                            /\ new[f].updated = scans => old[f] = NoEntry \/ old[f].path # new[f].path
  BY DEF SectionIsExact
<1>1. baseline = file.data /\ args.no_dedup = TRUE /\ \A r \in Repo : stage[r] # "broken"
  BY AtTheEnd
<1>2. ASSUME NEW r \in Sources(c) PROVE found[r] = content[r]
  <2>1. found[r] \in Kept(content[r], TRUE)
    BY <1>1 DEF IInv, RecordInv, RecordOf, Whole, Sources, ScannedRoots
  <2>2. QED
    BY <2>1, KeptWhole
<1>3. Places(c, f) = PlacesIn(f)
  <2>1. PlacesFound(c, f) = PlacesIn(f)
    BY <1>2 DEF PlacesFound
  <2>2. QED
    BY <1>1, <2>1, PlacesOfRows DEF IInv
<1>4. ManagedBaseline.sections[c][f] = Entry(c, f)
  BY DEF ManagedBaseline
<1> HIDE DEF PlacesIn
<1> DEFINE old == baseline.sections[c][f]
           place == Least(Places(c, f))
           new == Entry(c, f)
<1>5. CASE Places(c, f) = {}
  BY <1>3, <1>4, <1>5, EntryIsRecord DEF IInv
<1>6. CASE Places(c, f) # {}
  <2>1. new # NoEntry /\ new.path = place
    BY <1>6, EntryIsRecord DEF IInv
  <2>2. new = [path |-> place, first |-> IF old = NoEntry THEN scans ELSE old.first,
               updated |-> IF old # NoEntry /\ old.path = place THEN old.updated ELSE scans]
    BY <1>6 DEF Entry
  <2>3. /\ old \in EntryRecord \cup {NoEntry} /\ scans \in Nat
        /\ old # NoEntry => old.updated < scans
    BY DEF IInv, TypeInv, BaselineData, Entries, FileInv, UpdateTurn
  <2> HIDE DEF old, place, new
  <2>4. new.first = IF old = NoEntry THEN scans ELSE old.first
    BY <2>2
  <2>5. new.updated # scans => new = old
    BY <2>2, <2>3 DEF EntryRecord
  <2>6. new.updated = scans => old = NoEntry \/ old.path # new.path
    BY <2>2, <2>3 DEF EntryRecord
  <2>7. QED
    BY <1>1, <1>3, <1>4, <1>6, <2>1, <2>4, <2>5, <2>6 DEF old, place, new
<1>7. QED
  BY <1>5, <1>6

\* A file that already says what the scan saw is what would be written.
LEMMA SameIsUnchanged ==
  ASSUME IInv, UpdateTurn, args.baseline = "manage", baseline.version = 2,
         \A c \in Section, f \in Fingerprint :
           LET old == baseline.sections[c][f]  new == ManagedBaseline.sections[c][f]
           IN (old = NoEntry <=> new = NoEntry) /\ (old # NoEntry => old.path = new.path)
  PROVE  ManagedBaseline = baseline
<1>1. baseline \in BaselineData /\ baseline.legacy = {}
  BY DEF UpdateTurn, IInv, TypeInv, FileInv
<1>2. ASSUME NEW c \in Section, NEW f \in Fingerprint, c \in Scanned
      PROVE  Entry(c, f) = baseline.sections[c][f]
  <2> DEFINE old == baseline.sections[c][f]
  <2>1. /\ old = NoEntry <=> Entry(c, f) = NoEntry
        /\ old # NoEntry => old.path = Entry(c, f).path
    BY <1>2 DEF ManagedBaseline
  <2>2. CASE Places(c, f) = {}
    BY <2>1, <2>2, EntryIsRecord DEF IInv
  <2>3. CASE Places(c, f) # {}
    <3>1. old # NoEntry /\ old.path = Least(Places(c, f))
      BY <2>1, <2>3, EntryIsRecord DEF IInv
    <3>2. Entry(c, f) = [path |-> old.path, first |-> old.first, updated |-> old.updated]
      BY <2>3, <3>1 DEF Entry
    <3>3. old \in EntryRecord
      BY <1>1, <3>1 DEF BaselineData, Entries
    <3> HIDE DEF old
    <3>4. Entry(c, f) = old
      BY <3>2, <3>3 DEF EntryRecord
    <3>5. QED
      BY <3>4 DEF old
  <2>4. QED
    BY <2>2, <2>3
<1>3. ASSUME NEW c \in Section PROVE ManagedBaseline.sections[c] = baseline.sections[c]
  <2>1. baseline.sections[c] \in Entries
    BY <1>1 DEF BaselineData
  <2>2. CASE c \in Scanned
    <3>1. ManagedBaseline.sections[c] = [f \in Fingerprint |-> Entry(c, f)]
      BY <2>2 DEF ManagedBaseline
    <3>2. QED
      BY <1>2, <2>1, <2>2, <3>1 DEF Entries
  <2>3. CASE c \notin Scanned
    BY <2>3 DEF ManagedBaseline
  <2>4. QED
    BY <2>2, <2>3
<1>4. ManagedBaseline \in BaselineData
  BY ManagedIsData DEF IInv
<1>5. ManagedBaseline.sections = baseline.sections
  BY <1>1, <1>3, <1>4 DEF BaselineData
<1>6. ManagedBaseline.version = 2 /\ ManagedBaseline.legacy = {}
  BY DEF ManagedBaseline
<1>7. QED
  BY <1>1, <1>4, <1>5, <1>6 DEF BaselineData

\* Updates of the baseline file are scoped (UpdatesAreScoped; baseline.rs:391-483
\* and runner.rs:639-660): only a managing scan without failures changes it,
\* only in the sections of the repositories it merged, exactly where it saw all
\* of them and does not overlook one, and only if it has something else to say.
THEOREM Updates == Spec => UpdatesAreScoped
<1> DEFINE In(sections, c) == {<<f, sections[c][f].path>> :
                                 f \in {g \in Fingerprint : sections[c][g] # NoEntry}}
           old == file.data.sections
           new == file'.data.sections
           Part(c) == IF Sources(c) = {} THEN new[c] = old[c]
                      ELSE (\A r \in Sources(c) : ~partial[r]) =>
                             IF Overlooked(c) THEN new[c] = old[c]
                             ELSE SectionIsExact(c, old[c], new[c])
           Scoped == /\ args.baseline = "manage" /\ ~failed /\ discovery = "ok"
                     /\ \A c \in Section : Part(c)
                     /\ \/ ~file.exists \/ file.data.version = 1
                        \/ \E c \in Section : In(old, c) # In(new, c)
<1>1. IInv /\ [Next]_vars /\ file' # file => Scoped
  <2> SUFFICES ASSUME IInv, [Next]_vars, file' # file PROVE Scoped
    OBVIOUS
  <2>1. UpdateBaseline
    <3>1. ASSUME NEW r \in Repo, RepoStep(r) PROVE FALSE
      BY <3>1, RepoStepFrame
    <3>2. QED
      BY <3>1 DEF Next, Over, RepoStep, Begin, LeaveLoop, FinishAudit, Report, EndFails, Exit,
         DiscoveryEnds, Edit, vars, world
  <2>2. /\ args.baseline = "manage" /\ UpdateTurn /\ file'.data = ManagedBaseline
        /\ ManagedBaseline # baseline \/ ~file.exists
    BY <2>1 DEF UpdateBaseline
  <2>3. baseline = file.data /\ ~failed /\ discovery = "ok"
    BY <2>2, AtTheEnd
  <2>4. ASSUME NEW c \in Section PROVE Part(c)
    <3>1. CASE c \notin Scanned
      <4>1. new[c] = old[c]
        BY <2>2, <2>3, <3>1 DEF ManagedBaseline
      <4>2. CASE Sources(c) # {} /\ \A r \in Sources(c) : ~partial[r]
        BY <2>2, <3>1, <4>1, <4>2, OverlookedOrScanned
      <4>3. QED
        BY <4>1, <4>2
    <3>2. CASE c \in Scanned
      <4>1. Sources(c) # {}
        BY <2>2, <3>2, ScannedHaveSources
      <4>2. CASE \A r \in Sources(c) : ~partial[r]
        BY <2>2, <3>2, <4>1, <4>2, OverlookedOrScanned, SectionsAreExact
      <4>3. QED
        BY <4>1, <4>2
    <3>3. QED
      BY <3>1, <3>2
  <2>5. ASSUME file.exists, file.data.version # 1, \A c \in Section : In(old, c) = In(new, c)
        PROVE  FALSE
    <3>1. baseline.version = 2
      BY <2>3, <2>5 DEF IInv, TypeInv, BaselineData
    <3>2. ASSUME NEW c \in Section, NEW f \in Fingerprint
          PROVE  /\ old[c][f] = NoEntry <=> new[c][f] = NoEntry
                 /\ old[c][f] # NoEntry => old[c][f].path = new[c][f].path
      <4>1. In(old, c) = In(new, c)
        BY <2>5
      <4>2. old[c][f] # NoEntry => <<f, old[c][f].path>> \in In(new, c)
        BY <4>1
      <4>3. new[c][f] # NoEntry => <<f, new[c][f].path>> \in In(old, c)
        BY <4>1
      <4>4. QED
        BY <4>2, <4>3
    <3>3. ManagedBaseline = baseline
      BY <2>2, <2>3, <3>1, <3>2, SameIsUnchanged
    <3>4. QED
      BY <2>2, <2>5, <3>3
  <2>6. QED
    BY <2>2, <2>3, <2>4, <2>5
<1>2. QED
  BY <1>1, Inductive, PTL DEF Spec, UpdatesAreScoped
=============================================================================
