---------------------------- MODULE ManagedScan ----------------------------
(***************************************************************************)
(* What scans write down about themselves: the repository audit            *)
(* (src/src/scan_audit.rs) and the baseline of known findings              *)
(* (src/src/baseline.rs), over consecutive scans that fetch, scan and      *)
(* merge repositories in either loop of src/src/scanner/runner.rs, fail    *)
(* anywhere, or are killed.  Only the baseline file survives a scan.       *)
(*                                                                         *)
(* A repository is identified with its canonical identifier.  What a scan  *)
(* finds is a set of occurrences <<fingerprint, path>>; the path stands    *)
(* for all metadata of a baseline entry (path, line, rule).  Time is the   *)
(* number of the scan.                                                     *)
(*                                                                         *)
(* The user's roots are repositories, or directories with repositories     *)
(* below them (expand_repo_roots).  These are scanned one by one in either *)
(* loop; but the sequential loop closes with the roots the user gave, and  *)
(* a finding in a file then belongs to the directory.                      *)
(***************************************************************************)
EXTENDS Naturals, FiniteSets

CONSTANTS
  Local, Remote,       \* repositories on the user's disk, and to be cloned
  Nested, Parent,      \* local ones that were not named themselves, and the
                       \* directories that were: [Nested -> identifiers]
  Named,               \* repositories with a provider's repository id
  Fingerprint, Secret,
  SecretOf,            \* the secret of a fingerprint (which adds its offsets)
  Path,                \* places, compared by <
  Filed,               \* places in files of the working tree, not in the history
  Below,               \* the path of such a place from the directory's point of view
  Snapshot,            \* the contents a repository may have
  Args,                \* the command lines considered
  NoEntry,
  MaxScans, MaxEdits   \* bounds on scans and on changes of a repository

Repo == Local \cup Remote
Directory == {Parent[r] : r \in Nested}
Section == Repo \cup Directory   \* what a baseline has a section for
Occurrence == Fingerprint \X Path

ASSUME ManagedScanConstants ==
  /\ Local \cap Remote = {} /\ Named \subseteq Repo
  /\ Nested \subseteq Local /\ Directory \cap Repo = {}
  /\ SecretOf \in [Fingerprint -> Secret]
  /\ Path \subseteq Nat /\ Filed \subseteq Path /\ Below \in [Nested -> [Path -> Path]]
  /\ Snapshot \subseteq SUBSET Occurrence
  /\ Args \subseteq [baseline : {"none", "read", "manage"}, no_dedup : BOOLEAN,
                     parallel : BOOLEAN, output : BOOLEAN]
  /\ \A a \in Args : a.baseline = "manage" => a.no_dedup   \* scan.rs:986
  /\ NoEntry \notin [path : Path, first : Nat, updated : Nat]
  /\ MaxScans \in Nat /\ MaxEdits \in Nat

VARIABLES
  content, edits,   \* the repositories
  file,             \* the baseline file
  scans, args,      \* scans so far; what the arguments select
  baseline,         \* the baseline as it was loaded
  discovery,        \* "listing", "ok" or "failed"
  records,          \* ScanAuditCollector.records
  events,           \* the run events of the audit log
  stage,            \* where the scan of each repository is
  found, partial,   \* what it enumerated, and whether inputs were left out
  rows,             \* the matches of the shared store
  failed,           \* scan_result or repo_errors has an error
  shown,            \* the rows that reports have listed
  main,             \* where main is: idle, scan, end, returned
  saved, finished,  \* whether the baseline and the audit are done
  outcome

world == <<content, edits, file>>
setup == <<scans, args, baseline>>
audit == <<discovery, records, events>>
store == <<stage, found, partial, rows, failed, shown>>
ends == <<main, saved, finished, outcome>>
vars == <<world, setup, audit, store, ends>>

\* The entries of a repository without any, and an unversioned, empty file.
NoEntries == [f \in Fingerprint |-> NoEntry]
Default == [version |-> 1, legacy |-> {}, sections |-> [c \in Section |-> NoEntries]]

\* A repository the audit has not heard of, a discovered and a local one.
Unknown == [fetch |-> "none", scan |-> "none"]
Discovered == [fetch |-> "pending", scan |-> "pending"]
LocalRoot == [fetch |-> "not_applicable", scan |-> "pending"]

\* While no scan runs.
NoArgs == [baseline |-> "none", no_dedup |-> FALSE, parallel |-> FALSE, output |-> FALSE]

\* The file does not exist (its data is the default), or is in the old format.
Init ==
  /\ content \in [Repo -> Snapshot] /\ edits = 0
  /\ \/ file = [exists |-> FALSE, data |-> Default]
     \/ \E L \in SUBSET Fingerprint :
          file = [exists |-> TRUE, data |-> [Default EXCEPT !.legacy = L]]
  /\ scans = 0 /\ args = NoArgs /\ baseline = Default
  /\ discovery = "ok" /\ records = [r \in Repo |-> Unknown] /\ events = {}
  /\ stage = [r \in Repo |-> "none"]
  /\ found = [r \in Repo |-> {}] /\ partial = [r \in Repo |-> FALSE]
  /\ rows = {} /\ failed = FALSE /\ shown = {}
  /\ main = "idle" /\ saved = FALSE /\ finished = FALSE /\ outcome = "none"

\* Somebody pushes to a repository between two scans.
Edit(r, S) ==
  /\ main = "idle" /\ edits < MaxEdits /\ S # content[r]
  /\ content' = [content EXCEPT ![r] = S]
  /\ edits' = edits + 1
  /\ UNCHANGED <<file, setup, audit, store, ends>>

\* A scan begins: its baseline is loaded, its local roots are registered.
Begin ==
  /\ main = "idle" /\ scans < MaxScans
  /\ scans' = scans + 1 /\ args' \in Args
  /\ baseline' = IF args'.baseline = "none" THEN Default ELSE file.data
  /\ discovery' = "listing" /\ events' = {}
  /\ records' = [r \in Repo |-> IF r \in Local THEN LocalRoot ELSE Unknown]
  /\ stage' = [r \in Repo |-> IF r \in Local THEN "ready" ELSE "none"]
  /\ main' = "scan"
  /\ UNCHANGED <<world, found, partial, rows, failed, shown, saved, finished, outcome>>

-----------------------------------------------------------------------------
(* Discovery and cloning.                                                  *)

\* discover_remote, before the URL is sent to the cloners.
Discover(r) ==
  /\ main = "scan" /\ discovery = "listing"
  /\ r \in Remote /\ records[r] = Unknown
  /\ records' = [records EXCEPT ![r] = Discovered]
  /\ stage' = [stage EXCEPT ![r] = "url"]
  /\ UNCHANGED <<world, setup, discovery, events, found, partial, rows, failed, shown, ends>>

\* The discovery thread ends; an error is a run_failed event.
DiscoveryEnds(result) ==
  /\ main = "scan" /\ discovery = "listing"
  /\ discovery' = result
  /\ events' = IF result = "failed" THEN events \cup {"run_failed"} ELSE events
  /\ UNCHANGED <<world, setup, records, store, ends>>

\* fetch_started.
FetchStarts(r) ==
  /\ main = "scan" /\ stage[r] = "url"
  /\ stage' = [stage EXCEPT ![r] = "fetching"]
  /\ records' = [records EXCEPT ![r].fetch = "running"]
  /\ UNCHANGED <<world, setup, discovery, events, found, partial, rows, failed, shown, ends>>

\* fetch_completed: the clone is sent to main.
FetchCompletes(r) ==
  /\ main = "scan" /\ stage[r] = "fetching"
  /\ stage' = [stage EXCEPT ![r] = "ready"]
  /\ records' = [records EXCEPT ![r].fetch = "completed"]
  /\ UNCHANGED <<world, setup, discovery, events, found, partial, rows, failed, shown, ends>>

\* fetch_failed: there is nothing to scan, and the scan goes on without it.
FetchFails(r) ==
  /\ main = "scan" /\ stage[r] = "fetching"
  /\ stage' = [stage EXCEPT ![r] = "unfetched"]
  /\ records' = [records EXCEPT ![r].fetch = "failed", ![r].scan = "not_run"]
  /\ UNCHANGED <<world, setup, discovery, events, found, partial, rows, failed, shown, ends>>

-----------------------------------------------------------------------------
(* The scan of a repository.                                               *)

\* Fault: a finding that is known in one repository is known in all.
KnownAnywhere(c, f) == f \in baseline.legacy \/ \E q \in Section : baseline.sections[q][f] # NoEntry

\* A finding the baseline has: in the old format for any repository.
Known(c, f) == f \in baseline.legacy \/ baseline.sections[c][f] # NoEntry

\* apply_baseline_if_configured on the repository's own store, with its root.
Row(r, o) == [repo |-> r, fingerprint |-> o[1], path |-> o[2],
              visible |-> ~Known(r, o[1])]

\* The digest of a row: its secret, within the repository if the provider's id
\* of the repository is known.
SameDigest(a, b) ==
  /\ SecretOf[a.fingerprint] = SecretOf[b.fingerprint]
  /\ a.repo = b.repo \/ (a.repo \notin Named /\ b.repo \notin Named)

\* The occurrences the repository's own store keeps: one per secret, whichever
\* came first, unless --no-dedup.
Kept(S, no_dedup) ==
  IF no_dedup THEN {S}
  ELSE {T \in SUBSET S : \A s \in Secret :
          LET Of(U) == {o \in U : SecretOf[o[1]] = s}
          IN Cardinality(Of(T)) = IF Of(S) = {} THEN 0 ELSE 1}

\* record in the shared store.
Merged(new) ==
  IF args.no_dedup THEN rows \cup new
  ELSE rows \cup {a \in new : \A b \in rows : ~SameDigest(a, b)}

Verdict(r) == IF partial[r] THEN "partial" ELSE "completed"

\* The sequential loop takes one root at a time, the local ones first, and
\* stops at an error.
ScanStarts(r) ==
  /\ main = "scan" /\ stage[r] = "ready"
  /\ ~args.parallel =>
       /\ ~failed /\ \A q \in Repo : stage[q] \notin {"running", "enumerated"}
       /\ r \in Local \/ \A q \in Local : stage[q] # "ready"
  /\ stage' = [stage EXCEPT ![r] = "running"]
  /\ records' = [records EXCEPT ![r].scan = "running"]
  /\ UNCHANGED <<world, setup, discovery, events, found, partial, rows, failed, shown, ends>>

\* enumerate_filesystem_inputs fails: scan_failed.
EnumerationFails(r) ==
  /\ main = "scan" /\ stage[r] = "running"
  /\ stage' = [stage EXCEPT ![r] = "broken"] /\ failed' = TRUE
  /\ records' = [records EXCEPT ![r].scan = "failed"]
  /\ UNCHANGED <<world, setup, discovery, events, found, partial, rows, shown, ends>>

\* The repository's own store is complete, deduplicated and compared with the
\* baseline.  A parallel scan audits and, to stdout, reports it before it is
\* merged.
Enumerated(r, p, S) ==
  /\ main = "scan" /\ stage[r] = "running"
  /\ S \subseteq content[r] /\ (~p => S = content[r])
  /\ stage' = [stage EXCEPT ![r] = "enumerated"]
  /\ partial' = [partial EXCEPT ![r] = p]
  /\ \E T \in Kept(S, args.no_dedup) :
       /\ found' = [found EXCEPT ![r] = T]
       /\ shown' = IF args.parallel /\ ~args.output
                     THEN shown \cup {a \in {Row(r, o) : o \in T} : a.visible}
                     ELSE shown
  /\ records' = IF args.parallel
                  THEN [records EXCEPT ![r].scan = IF p THEN "partial" ELSE "completed"]
                  ELSE records
  /\ UNCHANGED <<world, setup, discovery, events, rows, failed, ends>>

\* Fault: every scan that returned is a completed one.
MergesAsCompleted(r) ==
  /\ main = "scan" /\ stage[r] = "enumerated"
  /\ rows' = Merged({Row(r, o) : o \in found[r]})
  /\ stage' = [stage EXCEPT ![r] = "merged"]
  /\ records' = IF args.parallel THEN records
                ELSE [records EXCEPT ![r].scan = "completed"]
  /\ UNCHANGED <<world, setup, discovery, events, found, partial, failed, shown, ends>>

\* merge_from and spill_pending; a sequential scan audits now.
Merges(r) ==
  /\ main = "scan" /\ stage[r] = "enumerated"
  /\ rows' = Merged({Row(r, o) : o \in found[r]})
  /\ stage' = [stage EXCEPT ![r] = "merged"]
  /\ records' = IF args.parallel THEN records
                ELSE [records EXCEPT ![r].scan = Verdict(r)]
  /\ UNCHANGED <<world, setup, discovery, events, found, partial, failed, shown, ends>>

\* Something fails after the enumeration, the merge itself done or not.
\* scan_failed keeps "completed"; the loop over the local roots leaves by `?`
\* without a word to the audit.
MergeFails(r) ==
  /\ main = "scan" /\ stage[r] = "enumerated"
  /\ rows' \in {rows, Merged({Row(r, o) : o \in found[r]})}
  /\ stage' = [stage EXCEPT ![r] = "broken"] /\ failed' = TRUE
  /\ records' = IF records[r].scan = "completed" \/ (~args.parallel /\ r \in Local)
                  THEN records ELSE [records EXCEPT ![r].scan = "failed"]
  /\ UNCHANGED <<world, setup, discovery, events, found, partial, shown, ends>>

-----------------------------------------------------------------------------
(* The end of the scan.                                                    *)

\* Nothing is on its way any more.
Drained ==
  /\ discovery # "listing"
  /\ \A r \in Repo : stage[r] \in {"none", "unfetched", "merged", "broken"}

\* A sequential scan leaves its loop at the first error; the discovery, if it
\* still runs, is cancelled and logs run_failed.
Stopped == ~args.parallel /\ failed

\* Errors are returned before the baseline and the audit are touched.
LeaveLoop ==
  /\ main = "scan" /\ (Drained \/ Stopped)
  /\ discovery' = IF discovery = "listing" THEN "failed" ELSE discovery
  /\ events' = IF discovery = "listing" THEN events \cup {"run_failed"} ELSE events
  /\ IF failed \/ discovery' = "failed"
       THEN main' = "returned" /\ outcome' = "error"
       ELSE main' = "end" /\ UNCHANGED outcome
  /\ UNCHANGED <<world, setup, records, store, saved, finished>>

ScannedRoots == {r \in Repo : stage[r] = "merged"}
Ran == ~args.parallel \/ ScannedRoots # {}    \* ran_repo_scan, or the sequential loop

\* The roots at the end: successful_roots, or what the user named and the clones.
Roots == IF args.parallel THEN ScannedRoots
         ELSE (ScannedRoots \ Nested) \cup {Parent[r] : r \in Nested}

\* context_for_origin: a blob of the history belongs to its repository, a file to
\* the narrowest root above it, and has its path from there.
Scope(r, p) == IF ~args.parallel /\ r \in Nested /\ p \in Filed THEN Parent[r] ELSE r
PathIn(r, p) == IF Scope(r, p) = r THEN p ELSE Below[r][p]

\* The sections that are replaced: of the roots, and of whatever was found.
Scanned == Roots \cup {Scope(a.repo, a.path) : a \in rows}

\* The observations of a section: the least place of each fingerprint.
Places(c, f) ==
  {PathIn(a.repo, a.path) : a \in {b \in rows : Scope(b.repo, b.path) = c /\ b.fingerprint = f}}
Least(S) == CHOOSE x \in S : \A y \in S : x <= y

\* Fault: an entry is dated anew whenever it is seen.
EntryDatedAnew(c, f) ==
  IF Places(c, f) = {} THEN NoEntry
  ELSE [path |-> Least(Places(c, f)), first |-> scans, updated |-> scans]

\* An observed finding keeps its first date, and its last one while its
\* metadata are the same.
Entry(c, f) ==
  LET old == baseline.sections[c][f]
      place == Least(Places(c, f))
  IN IF Places(c, f) = {} THEN NoEntry
     ELSE [path |-> place,
           first |-> IF old = NoEntry THEN scans ELSE old.first,
           updated |-> IF old # NoEntry /\ old.path = place THEN old.updated ELSE scans]

\* build_managed_baseline: the scanned sections are replaced, the others kept;
\* entries of the old format are gone.
ManagedBaseline ==
  [version |-> 2, legacy |-> {},
   sections |-> [c \in Section |-> IF c \in Scanned THEN [f \in Fingerprint |-> Entry(c, f)]
                                   ELSE baseline.sections[c]]]

\* The audit comes after the baseline, or before it if nothing was scanned.
UpdateTurn == main = "end" /\ ~saved /\ (Ran \/ finished)
FinishTurn == main = "end" /\ ~finished /\ (saved \/ ~Ran)

\* apply_baseline_if_configured on the shared store, with the user's roots.
Reapplied(a) == [a EXCEPT !.visible = @ /\ ~Known(Scope(a.repo, a.path), a.fingerprint)]

\* The sequential loop applies the baseline once more; then, in both,
\* update_baseline_if_configured: saved atomically if anything differs.
UpdateBaseline ==
  /\ UpdateTurn
  /\ saved' = TRUE
  /\ rows' = IF args.parallel THEN rows ELSE {Reapplied(a) : a \in rows}
  /\ file' = IF args.baseline = "manage" /\ (ManagedBaseline # baseline \/ ~file.exists)
               THEN [exists |-> TRUE, data |-> ManagedBaseline] ELSE file
  /\ UNCHANGED <<content, edits, setup, audit, stage, found, partial, failed, shown, main,
                 finished, outcome>>

\* finish: the manifest is final and the log says so.
FinishAudit ==
  /\ FinishTurn
  /\ finished' = TRUE
  /\ events' = events \cup {"run_completed"}
  /\ UNCHANGED <<world, setup, discovery, records, store, main, saved, outcome>>

\* The last report: everything visible, unless it was reported per repository.
Report ==
  /\ main = "end" /\ saved /\ finished
  /\ shown' = IF args.parallel /\ ~args.output THEN shown
              ELSE {a \in rows : a.visible}
  /\ main' = "returned" /\ outcome' = "ok"
  /\ UNCHANGED <<world, setup, audit, stage, found, partial, rows, failed, saved, finished>>

\* The restore, the save, the log or the report fails.
EndFails ==
  /\ main = "end"
  /\ main' = "returned" /\ outcome' = "error"
  /\ UNCHANGED <<world, setup, audit, store, saved, finished>>

\* The process ends, or is killed: only the world is left.
Exit ==
  /\ main # "idle"
  /\ args' = NoArgs /\ baseline' = Default
  /\ discovery' = "ok" /\ records' = [r \in Repo |-> Unknown] /\ events' = {}
  /\ stage' = [r \in Repo |-> "none"]
  /\ found' = [r \in Repo |-> {}] /\ partial' = [r \in Repo |-> FALSE]
  /\ rows' = {} /\ failed' = FALSE /\ shown' = {}
  /\ main' = "idle" /\ saved' = FALSE /\ finished' = FALSE /\ outcome' = "none"
  /\ UNCHANGED <<world, scans>>

Over == main = "idle" /\ scans = MaxScans /\ UNCHANGED vars

Next ==
  \/ Begin \/ LeaveLoop \/ UpdateBaseline \/ FinishAudit \/ Report \/ EndFails
  \/ Exit \/ Over
  \/ \E result \in {"ok", "failed"} : DiscoveryEnds(result)
  \/ \E r \in Repo :
       \/ Discover(r) \/ FetchStarts(r) \/ FetchCompletes(r) \/ FetchFails(r)
       \/ ScanStarts(r) \/ EnumerationFails(r) \/ Merges(r) \/ MergeFails(r)
       \/ \E p \in BOOLEAN, S \in SUBSET content[r] : Enumerated(r, p, S)
       \/ \E S \in Snapshot : Edit(r, S)

Spec == Init /\ [][Next]_vars

-----------------------------------------------------------------------------
(* Properties.                                                             *)

\* The audit tells the truth (scan_audit.rs:254-381, runner.rs:706-940 and
\* 1215-1475): a repository recorded as completed was enumerated in full, one
\* recorded as not run could not be cloned; and once the log has run_completed
\* it has no run_failed, and every repository it names is either not run, or
\* merged and recorded as completed or partial as its enumeration was.
AuditIsTruthful ==
  /\ \A r \in Repo :
       /\ records[r].scan = "completed" => found[r] \in Kept(content[r], args.no_dedup)
       /\ records[r].scan = "not_run" <=> stage[r] = "unfetched"
  /\ "run_completed" \in events =>
       /\ "run_failed" \notin events
       /\ \A r \in Repo : records[r] # Unknown =>
            \/ records[r] = [fetch |-> "failed", scan |-> "not_run"]
            \/ stage[r] = "merged" /\ records[r].scan = Verdict(r)

\* The repositories with findings that belong to a section: the repository itself
\* and, of a sequential scan, those below the directory.
Sources(c) == {r \in ScannedRoots : r = c \/ (~args.parallel /\ r \in Nested /\ Parent[r] = c)}

\* A sequential scan does not tell a repository below a directory, whose history
\* has no finding, from one it has not scanned.
Overlooked(c) == ~args.parallel /\ c \in Nested /\ \A o \in content[c] : o[2] \in Filed

\* A section lists all that belongs to it in its repositories, at its least place;
\* findings it had keep their first date and, unless they moved, their last one;
\* others are dated today.
SectionIsExact(c, old, new) ==
  \A f \in Fingerprint :
    LET places == UNION {{PathIn(r, o[2]) : o \in {q \in content[r] : q[1] = f /\ Scope(r, q[2]) = c}} :
                           r \in Sources(c)}
    IN IF places = {} THEN new[f] = NoEntry
       ELSE /\ new[f] # NoEntry /\ new[f].path = Least(places)
            /\ new[f].first = IF old[f] = NoEntry THEN scans ELSE old[f].first
            /\ new[f].updated # scans => new[f] = old[f]
            /\ new[f].updated = scans => old[f] = NoEntry \/ old[f].path # new[f].path

\* The baseline file is changed (baseline.rs:391-483, runner.rs:639-660) only by
\* a managing scan in which nothing failed.  Sections it has seen nothing of keep
\* what they have, and so do those of overlooked repositories; the sections whose
\* repositories were scanned in full are exact; and a file that already says so is
\* left alone.
UpdatesAreScoped ==
  [][file' # file =>
       LET old == file.data.sections  new == file'.data.sections
           In(sections, c) == {<<f, sections[c][f].path>> :
                                 f \in {g \in Fingerprint : sections[c][g] # NoEntry}}
       IN /\ args.baseline = "manage" /\ ~failed /\ discovery = "ok"
          /\ \A c \in Section :
               IF Sources(c) = {} THEN new[c] = old[c]
               ELSE (\A r \in Sources(c) : ~partial[r]) =>
                      IF Overlooked(c) THEN new[c] = old[c]
                      ELSE SectionIsExact(c, old[c], new[c])
          /\ \/ ~file.exists \/ file.data.version = 1
             \/ \E c \in Section : In(old, c) # In(new, c)]_vars

\* r was scanned in full, and contains a secret the baseline does not list for
\* r, nor for all repositories; nor, if it is in a file and the scan sequential,
\* for the directory r is below, which has one section for all its repositories.
IsNew(r, s) ==
  /\ stage[r] = "merged" /\ ~partial[r]
  /\ \E o \in content[r] : SecretOf[o[1]] = s
  /\ \A o \in content[r] : SecretOf[o[1]] = s =>
       /\ o[1] \notin baseline.legacy
       /\ \A c \in {r, Scope(r, o[2])} : baseline.sections[c][o[1]] = NoEntry

\* The rows of r meet no rows of other repositories on their way to the report.
Apart(r) == args.no_dedup \/ r \in Named \/ (args.parallel /\ ~args.output)

\* A successful scan (runner.rs:754-773, 1255-1370, findings_store.rs:291-346)
\* reports every secret that is new in a repository, in that repository, if
\* duplicates are kept, if the repository has a provider's id, or if every
\* repository is reported on its own; whatever other repositories contain and
\* whatever is known of them.
NewSecretsAreReported ==
  main = "returned" /\ outcome = "ok" =>
    \A r \in Repo, s \in Secret :
      IsNew(r, s) /\ Apart(r) => \E a \in shown : a.repo = r /\ SecretOf[a.fingerprint] = s

\* docs/BASELINE.md:10-11: with a baseline of version 2, a finding accepted in
\* one repository does not suppress the same fingerprint in another: at least
\* one row of a secret that is new in a repository is reported.
AcceptanceIsPerRepository ==
  main = "returned" /\ outcome = "ok" /\ baseline.version = 2 =>
    \A r \in Repo, s \in Secret :
      IsNew(r, s) => \E a \in shown : SecretOf[a.fingerprint] = s
=============================================================================
