# A TLA+ verification project for Kingfisher

Kingfisher finds secrets in files, git repositories, buckets, issue trackers and
package registries, and validates what it finds against the providers. Most of
it is pattern matching and provider clients. What this project is about is the
machinery around those: threads that clone, fetch and scan at the same time,
caches that several threads share, files that must survive an interruption, and
disks that fill up. That is the code where a wrong order of two steps loses a
finding, sends a request twice, or hangs the process, and where unit tests reach
only the orders somebody thought of.

Paths below are relative to the root of the repository (`src/scanner/runner.rs`
is the file of the main crate). In the JSON index they carry the prefix `src/`.

Contents: [inventory](#1-inventory), [modules](#2-modules-and-the-code),
[runs](#3-runs), [fairness](#4-fairness), [findings](#5-findings),
[proofs](#6-proofs), [what is left out](#7-what-is-not-modelled),
[plan](#8-plan), [how to run it](#9-running-it).

## 1. Inventory

### The system

    discovery thread --urls--> feeder --work--> clone workers --results--> cloner thread
      | (GitHub API,                                                         |
      |  with retries)                                                       |
      +--------- artifacts -----------> roots (repo_rx) <--------------------+
                                           |
                         main: sequential loop, or parallel scans
                                           |
     git history -> enumerator -> matcher workers -> datastore writer -> repository store
                                           |
     dedup, validation (coordination, cache, limiter, HTTP), merge -> shared store (+ spill file)
                                           |
                         baseline, report, audit, alerts

| component | state it keeps | operations | hard because |
|---|---|---|---|
| **Validation cache** `src/validation.rs` | process-wide `VALIDATION_CACHE` and `IN_FLIGHT`, a `completed` flag and a `Notify` per entry, `SCAN_LOCK` | look up, claim, wait, validate, publish, retire, time out, panic, clear per scan | every access is a separate step on another OS thread; `notify_waiters` keeps no permit; waiter and owner have their own timers |
| **Object cache** `src/object_cache.rs` and the listing loops of `s3.rs`, `gcs.rs`, `azure_blob.rs`, `huggingface.rs` | `manifest.json`, `pages.jsonl`, object files; the manifest in memory, pending objects | open or resume, replay, list a page, visit, store, finish a page, sweep, compact, trim | the process may die at each step; the bucket changes meanwhile; what was listed is not what is downloaded |
| **Scan runner** `src/scanner/runner.rs` | roots channel, permits, repository errors, shared datastore | setup, take a root, scan, drain, stop, join, return, report | early errors with full channels; two loops, three ways to report |
| **Discovery** `src/scanner/discovery.rs` | the artifact-fetcher thread and its cancel channel | enumerate, fetch, push, cancel | awaits providers while main wants to leave |
| **Cloning** `src/scanner/repos.rs` | url, work and result channels, rayon workers | feed, clone, send, consume, cancel | four queues and four ends of them to be closed in the right order |
| **Findings store** `src/findings_store.rs`, `spill.rs` | rows in memory, digests, spill file and its record count | record, merge, spill, roll back, fall back, restore | writes fail half way, rollbacks fail, the disk fills up, other repositories go on |
| **Blob processing, matcher claims, datastore writer** `src/scanner/enumerate.rs`, `matcher/mod.rs`, `scanner/storage.rs` | two bounded channels, `seen_blobs`, batch, flush timer, the repository's store | enumerate, take, match, claim, send, receive, flush, end, join | one content is claimed by one of several workers; the last partial batch; three parties blocked on two channels |
| **Validation coordination** `src/scanner/validation.rs` | groups, two phases with a cache and in-flight set each, chunks, results | partition, group, skip, hit, claim, answer, wake, write back | outcomes return to rows by key and by place, after awaits; a credential is validated in both phases |
| **HTTP validation and rate limiter** `crates/kingfisher-scanner/src/validation/engine.rs`, `src/validation_rate_limit.rs` | attempt and endpoint of each validation; next slot per bucket behind an async mutex | admit, send, back off, fall back, judge, time out | cancelled while it holds the mutex asleep; several endpoints disagree |
| **GitHub retry** `src/github/retry.rs` | retries, waiting time | send, judge, sleep, give up | three sources of delay and two budgets |
| **Git history** `src/git_metadata_graph.rs`, `git_candidate_summaries.rs`, `git_repo_enumerator.rs`, `scanner/enumerate.rs` | commit graph, index of objects, seen sets per commit, worklists | index, traverse, prune, assemble; collect a range, diff | a pass over a DAG with sets shared between branches and four reasons to skip a tree; a timeout in the middle |
| **Scan audit** `src/scan_audit.rs` | a record per repository, the event log | discover, start, complete and fail a fetch or a scan, finish | told by many threads, step by step, of what may fail one step later |
| **Baseline** `src/baseline.rs` | the baseline file: a section of dated entries per repository, or old global ones | load, hide what is known, rebuild, save | the update after a scan that did not reach everything; entries that move, go and come back; hidden and visible rows of one secret meet |
| Rules, provider validators, access map, formatting, wizard, alerts, CLI, bindings | mostly none across calls | | I/O or data-parallel |

Components interact by channels (discovery, cloning, runner; enumerator, workers,
writer), by shared state behind a mutex (findings store, limiter) or in
concurrent maps (validation cache, `seen_blobs`), and by files of an earlier run
(object cache, baseline).

### What makes each of them correct

* **Validation cache.** One key is never validated twice at the same time; who
  waited gets an answer; answers come from an owner of the same key and scan; no
  wakeup is lost; every started validation returns.
* **Object cache.** A run can be interrupted anywhere and repeated: it is not
  refused, it misses no object that was there all along, it reports no content
  from before the session, and when it finishes the cache is the listing.
* **Pipeline** (runner, discovery, cloning). A scan that returns Ok has scanned
  and reported everything it was given; nobody waits in a circle; after an error
  the process gets out although a provider never answers; disk use is bounded.
* **Findings store.** The report is what was found, each once, whatever went to
  disk and back and whatever failed on the way.
* **Repository scan.** A scan that does not call itself partial has every match of
  every content in its store, once and under its own paths; each row gets the
  outcome of its own credential with its own components; each validation phase is of
  one mind about a credential, and the two are unless another repository's scan
  replaces the answer in between.
* **Requests and retries.** What a bucket admits keeps its distance; a rejection is
  what every endpoint says; sleeps stay within their budget and are long enough
  for the server; whatever has a deadline returns.
* **Git history.** Every blob is attributed to the commits that introduce it, and a
  range misses no file its commits bring in.
* **Audit and baseline.** A repository is called completed only if all of it was
  enumerated, a run only if every repository it names has its end. The file says
  exactly what is in the repositories and directories a managed scan covered, with the
  dates it had, and is left alone otherwise. What is new in a repository is reported.

`PROJECT.json` lists the hazards behind these sentences, each at its line.

## 2. Modules and the code

| module | what it is |
|---|---|
| `ValidationDedup` | the validation cache, one action per access to shared state |
| `SharedValidation` | what it promises: per key a lease and a register |
| `ObjectCache` | sessions, pages, interruptions, with an edited bucket |
| `ScanPipeline` | discovery, feeder, workers, cloner and main of one scan |
| `FindingsStore` | merges, spilling and restoring |
| `FindingsLog` | what it promises: one append-only log |
| `RepositoryScan` | one repository: enumerator, matcher workers, writer, dedup, both validation phases |
| `HttpValidation` | attempts, endpoints, backoff, timeouts and the rate limiter |
| `GithubRetry` | one replayable request to the GitHub API |
| `GitHistory` | full history with first appearances, and ranges of commits |
| `Pacing` | the composition of the last three, one after the other |
| `ManagedScan` | consecutive scans with their audit and the baseline file between them |
| `...Proofs` | theorems about the module of that name; `PacingProofs` has those of `HttpValidation` and `GithubRetry` too |
| `MC...` | model values and the shape of the small instances |

Definitions keep the name of the function or field where there is one.
Definitions marked *Fault* are not part of any specification: each is a variant
of the definition after it, changed the way a bug would change it. They show
that a property depends on the code it is about.

### ValidationDedup

A *task* is one call of `validate_resolved_match`. `pc` is its position: lookup
of the cache, claim of the key with `IN_FLIGHT.entry`, then either the owner's
way (`prepare`, `limit`, `request`, `publish`, `remove`, `complete`, `notify`) or
the waiter's loop (`register`, `check`, `await`, `adopt`). The three parts of
`clear_in_flight_validation` (take the entry, set the flag, notify) are separate
steps, because a waiter on another thread can act between them. `woken` stands
for the `Notified` future: only a future that was enabled before the
notification gets it. An entry is identified with the task that created it.

`Timeout` can strike at every await, `Panic` wherever the owner's own code runs;
both go through the same arm, `Fail`, in which only an owner publishes and
retires. `BeginScan` and `EndScan` are `ValidationCacheLifetime`, which clears
both maps under `SCAN_LOCK`. A result carries the task that produced it, so that
sharing is visible; its outcome is verified or not, everything else about a
response is left out. The rate limiter is one wait here; `HttpValidation` opens it.

### ObjectCache

Everything that survives a crash is a variable of its own: the manifest
(replaced atomically), the journal and whether its last line is torn, the object
files. `mem`, `pending` and `page` are lost by `Interrupt`, which may happen at
every step. `Edit` changes the bucket at any time, `provider` is chosen in `Init`.
`held` and `stable` are history: the contents an object had, and the keys that
existed, during the session; a session goes from a fresh listing to its `finish`.

`Visit` is the body of the drivers' loop for one object: reuse the cached file if
the listed version is the stored one (and fail on a wrong checksum), else
download and store. The drivers differ in three ways the model keeps: S3, GCS and
Azure put the modification time into the version, Hugging Face has a content
identity and the size only (`Stamped`); GCS and Azure store downloaded bytes
under the version of the download, S3 and Hugging Face under the listed one
(`DownloadVersion`); and an object that has vanished between listing and download
is skipped, or ends the run. An entry may lack the identity (`Identified`), and is
then never taken from the cache. A digest is the content it stands for; a hash
collision is not modelled.

### ScanPipeline

`at` gives the place of every input: a channel, the hands of a thread, or how it
ended. A bounded channel is a place with a capacity. The order within a channel
is left open, which allows more than the code does. The end of a thread, and
with it of its channel ends, is a variable of its own (`discovery`, `feeder`,
`pool`, `cloner`, `repo_rx`), because every loop in this code ends by somebody
else dropping something: `Disconnected` is the end of `repo_rx.iter()`,
`Cancelled` the drop of `cancel_tx`. Clone workers are counted and not named.

`args` holds what the arguments select. `main` is `run_sequential_scan` or
`run_parallel_scan`: setup (which scans the buckets), the loop, `Stop` (drop the
receiver, cancel the fetcher), joins, and `Return` with the precedence of errors
of each variant and the report it writes. The scan of one repository is one step
here (`ScanEnds`, `ScanInline`); `RepositoryScan` is its inside.

### FindingsStore

A repository scan merges its rows under the mutex, row by row (`Record`), and
spills before it lets go. Each way the append can end is an action: written
(`Spill`), disk full and everything back in memory (`SpillFull`), failed and
rolled back (`SpillFails`), failed with a failed rollback (`RollbackFails`: some
rows and possibly part of one stay in the file). `Readable` is `read_batches`:
complete records, as many as counted. `Finish` is the restore at the end and the
report. `stored` is history: the rows whose append succeeded.

A sequential scan ends with the first failed repository, a parallel one goes on
and fails at the end (`MayStart`); that and `--no-dedup` are in `args`.

### RepositoryScan

The three stages of a repository, with one action per step that another thread or
future can come between.

*Scan.* The enumerator thread (`Enumerate`, `EnumeratorEnds`) fills the bounded
channel `input`; workers `Take` an input, find it `Unreadable` or match it
(`ScanBlob`, where `seen_blobs` decides who goes on with a content) and `Send`
match by match into the bounded channel `ds`; the writer receives, flushes by
size, by time (whenever the channel is empty) or at the end, and records under
the digest (`Digest`, `Recorded`). `ScanOver` is the joins of the main thread,
`had_errors` what makes a scan partial. What the matcher finds under a path is a
constant: a rule, a secret, a span, and the component the rule depends on, as
resolved inside the content.

*Dedup.* `Deduplicate` replaces the rows as `deduplicate_matches` does: rows that
agree in value, span, rule and components become one, with the origins merged as
`merge_origins_for_dedup` merges them.

*Validation.* `Partition` takes the blobs without dependent rules; their rows form
one unit per key. The units are futures: `Skip`, `Hit`, `Claim`, `Answer`, `Wake`
are the exits and awaits of `validate_single`, `Admitted` the concurrency limit.
`EndSimple` writes the outcomes to every row of the key, also to rows in dependent
blobs, which are then validated again in chunks (`BeginChunk`, `EndChunk`) with
caches of their own and written back by place (`SamePlace`: blob, span, rule).
`answers` is the process-wide cache, as `SharedValidation` describes it. A unit takes
the answer that is there; otherwise it publishes a reply of its own (`Replies`), or its
wait for another repository's owner has timed out (`Verdict` with `published = FALSE`,
`GivenUp`). Repositories are scanned in parallel over one cache, and
`cache_validation_result` inserts without looking: an owner in another repository that
missed the key (827) before this scan published it, and claimed it (843) after it was
given back, replaces the answer. That is `Republish`, at any time, for the keys in
`Elsewhere`; `overwritten` is history, the keys it has happened to.

Known limit, kept in the model: `dep_updates` (`scanner/validation.rs:1043-1071`)
is keyed by blob, span and rule. Two siblings decoded from one base64 span have
the same place (`matcher/mod.rs:599-601`, `655-665`), so one's outcome can be
written to the other. `OutcomesAnswerTheirRequest` states exactly this exception
and no other. (The comment at `findings_store.rs:274`, helpers are kept per blob,
is not honoured by `deduplicate_matches`, which does not compare blobs; by then
the components are resolved, and no property depends on it.)

### HttpValidation, GithubRetry, GitHistory and Pacing

`HttpValidation`: `at` is where a validation stands: waiting for admission, queued
on the mutex of its bucket, sent, in backoff. tokio's mutex is fair, so a bucket is
a queue whose head holds the lock, across `sleep_until`. `Best` is
`effective_limit`: selectors match by segments and the namespace, the longest
wins. `Expire` drops the future wherever it is. Timers count down, so the state
space is finite; `since` and `said` are history (when a request of a bucket was
last admitted, what each endpoint said last).

HTTP rules and the others differ. The engine waits on the limiter before every attempt
of every endpoint of an HTTP rule. A validator of another kind waits once, before it
begins (`validation.rs:960-967`), and is then on its own: a credential URI sends a
challenge and, if it is answered by one, the authenticated request (`Proceed`), both
with the retries of `retry_with_backoff` (`credential_uri.rs:206-247`,
`http_validation.rs:256-287`). For such a rule `Endpoints` is the number of requests
that follow each other, and a retry is sent straight away (`Resume`).

`GithubRetry`: `retry_delay` with its advice, its doubling and its jitter, the
budget of retries and of waiting. `cooldown` is the server's own count of how
long it refuses, up to a second longer than it said. The blocking variant is the
same loop.

`GitHistory`: a full scan indexes all objects (`IndexObjects`), then visits commits
parents first; each commit's `seen` is what its ancestors have, and a subtree is
`Pruned` when it has no candidates, when its candidates are covered, or when the
tree itself was seen. `Assemble` turns the first appearances into the result. A
range is collected by walking up to the baseline (`Reached`, `Walk`, `Selected`) and each
commit inside the time window is compared with its first parent (`Changes`).
`late` is the repository's timeout: the pass keeps its error and goes on to the
assembly, which looks at the clock again. Patterns of `--exclude` are names, which
match anywhere, or paths from the root. Compaction of the index and the sharing
of bitmaps are representation and left out. A merge is compared with its first
parent only, so a range may list files that the baseline has through another
parent: more than necessary, never less. The patterns are also tried on paths with that
of the repository in front (`scanner/enumerate.rs:2271`); a pattern that matches a
directory above the repository is left out, no property depends on one.

`Pacing`: the request that lists a repository, its enumeration, its validations.
They follow each other, and what an earlier one leaves in its variables is reset
when it returns (`HandOver`, `Return`), as its locals are.

### ManagedScan

`stage` is where each repository is on its way through `discover_remote`, the
cloners, the enumeration in a store of its own and the merge; `records` is the
audit's view of it. Each action is one call of the audit with what the runner does
between it and the next one. The two loops differ where it matters: the sequential
one takes local roots first, one at a time, audits after the merge and leaves at the
first error; the parallel one audits, and to stdout reports, before the merge, and
returns its errors at the end. `MergeFails` has the two irregular exits:
`scan_failed` does not overwrite "completed" (`scan_audit.rs:349`), and the loop
over the local roots leaves by `?` without telling the audit (`runner.rs:758-775`), whose
record then stays "running".

`Enumerated` chooses what is found: all of the repository's content, or if the
enumeration was partial any part of it, reduced to one occurrence per secret unless
`--no-dedup` (`Kept`). `Row` hides what the baseline has (`Known`), `Merged` drops a
row whose digest the shared store has (`SameDigest`: the secret, within the
repository only where a provider's id is known). `ManagedBaseline` is
`build_managed_baseline`; `UpdateBaseline` and `FinishAudit` follow each other in
either order, as the parallel scan has two endings. `Exit` may come at any moment and
leaves the file and the repositories; `Edit` changes a repository between two scans.

*Nested repositories.* The user names directories, and the scan takes the repositories
below them one by one (`expand_repo_roots`, on by default): `Nested`, with the directory
`Parent[r]`. Each is compared with the baseline under its own root, in both loops. The
loops differ at the end (`Roots`). The parallel one updates with the roots it scanned.
The sequential one compares the whole store with the baseline once more (`Reapplied`)
and updates with what the user named and the clones (`runner.rs:920-927`). There a
finding in the history still belongs to its repository, but one in a file of the working
tree (`Filed`) to the narrowest root above it, which is the directory (`Scope`), with
its path from there (`PathIn`). So directories have sections of their own (`Section`),
and a nested repository counts as scanned (`Scanned`) only if its history has a finding.
`SectionIsExact` is stated for all sections with this attribution; `Overlooked` and
`IsNew` name the two consequences, which section 5 reports.

The metadata of an entry (path, line, rule) are one number. A repository is its
canonical identifier, a row has one origin, and a directory has no files but those of
its repositories. `deduplicate_new_matches` on the shared store (`runner.rs:919`) finds
nothing more to merge at this level: its key is finer than the digest of `record`.

## 3. Runs

All passing runs are exhaustive for their constants.

| run | specification | what it checks |
|---|---|---|
| `safety` | ValidationDedup | `OneRequestAtATime`, `WaitersAreAnswered`, `SharedAnswersComeFromOwners` (of the same scan); refinement of SharedValidation; with timers every started validation returns (`EveryValidationReturns`), without a waiter returns once its owner has (`WaitersAreReleased`) |
| `cache` | ObjectCache, all providers | `CommittedObjectsAreOnDisk`, `NothingIsMissed`, `FinishedCacheIsExact`; for versions with a modification time also `StampedRunsNeverFail`, `StampedContentIsCurrent` and `SomeRunFinishes` |
| `cache_resume` | ObjectCache, Hugging Face | finding 1 |
| `pipeline` | ScanPipeline, both loops, both outputs | `NothingIsLost`, `RepositoriesAreReported`, `QueuedScansAreBounded` |
| `stops` | | after the loop is left main returns (`StopLeadsToReturn`); every thread ends (`EveryThreadEnds`) |
| `reports` | | finding 2 |
| `offload` | FindingsStore, both loops, with and without dedup | `ReportIsExact` (as a set of digests, or as a multiset), `SpillFileIsExact`, `WorkingSetIsRestored` (and memory released between merges); refinement of FindingsLog |
| `repo_scan` | RepositoryScan, with and without `--no-dedup` | `ClaimedContentIsOnItsWay`, `CompleteScansMissNothing`, `StoreIsExact` on the way to the store; `OutcomesAnswerTheirRequest`, `VerdictsAgree` (under overwriting repositories), `EveryRowIsAnswered`, `RequestsAreShared` for both validation phases; `EveryScanEnds` |
| `pacing` | Pacing | `WaitsStayInBudget`, `RetriesHeedTheServer`, `EveryRequestReturns` of the retry; `FirstSeenIsExact`, `BranchHistoryIsComplete` of the history; `RequestsAreSpaced`, `RejectionsAreUnanimous`, `EveryValidationEnds` of the validations |
| `excluded` | GitHistory | finding 3 |
| `managed` | ManagedScan, two scans, all arguments | `AuditIsTruthful`; `UpdatesAreScoped` (an action property of the file, for repositories and directories); `NewSecretsAreReported` where rows of different repositories do not meet |
| `accepted` | ManagedScan, repositories without provider's ids | finding 4 |

### Bounds and why they are enough

* *ValidationDedup*: an owner and two waiters of one key, and one more task in a
  second scan. Tasks of different keys share no entry; two waiters are needed to
  tell one notification from all. The theorems lift the bound for the safety part.
* *ObjectCache*: two keys with pages of one object, two contents, two edits,
  three runs of which two may be interrupted. Two edits are what it takes to
  change an object and change it back; three runs are a session, an interrupted
  one and its resumption. One of the objects has no identity, and a second prefix
  is empty. `MaxEdits`, `MaxRuns` and `MaxCrashes` are the only artificial bounds.
* *ScanPipeline*: all capacities are 1, so every send blocks as soon as it can;
  four repositories fill the way from discovery to main, past two clone workers.
  The capacities in the code are larger, which only makes blocking rarer.
  Repositories are interchangeable (symmetry), in runs without temporal
  properties only.
* *FindingsStore*: three repositories, three findings, two of which are the same
  secret, found in different repositories: every merge can meet duplicates in
  memory, on disk, or both.
* *RepositoryScan*: five inputs with four contents, so that one content has two
  paths; two workers, channels of one, batches of two; two futures at a time and
  chunks of two blobs, so that three dependent blobs make two chunks. The contents
  have a credential with its component twice (shared across chunks), without it,
  with several of them, two credentials at one place, and a simple credential that
  both phases validate and another repository overwrites, any number of times.
* *HttpValidation*: two validations of one bucket, an HTTP rule with two endpoints and
  a credential URI with its two requests, both with a retry, and one without a limit;
  an interval of two ticks and a timeout of two or none. `Horizon` is how far the history `since` reaches, and no interval is
  longer.
* *GithubRetry*: budgets of nothing and of nine ticks, where the doubled delays 4
  and 8 do not fit together; advice of zero and two ticks.
* *GitHistory*: three commits in every shape with one root at least (lines, forks,
  merges with parents in either order), three root trees that share a subtree under
  different names, summaries of one candidate, so that some overflow; five
  combinations of content filter, excluded names and a rooted pattern, trees that
  are missing; ranges with one or two tips, a baseline, a shallow commit and a time
  window that leaves out the middle commit.

* *ManagedScan*: a repository below a named directory and a clone with a provider's id,
  four contents that differ in what is found and where (in a file or in the history),
  two fingerprints of one secret; two scans with an
  edit in between (`MaxScans`, `MaxEdits`), which is what it takes for an entry to
  stay, move, go or appear; files that are missing or of the old format with any
  entries. Two repositories below one directory are more than the run can take; the
  theorems cover any number.

Deadlock is checked in all runs but three: `stops`, where a thread that never ends
is for the property to find, and `repo_scan` and `excluded`, where the scan really
ends. Elsewhere the end is an explicit stuttering step with its own guard
(`Finished`, `Over`, `AllEnded`).

## 4. Fairness

* `ValidationDedup!FairSpec`: weak fairness of each task's own steps (a thread or
  tokio task that can run is scheduled). There is none for the provider, the
  limiter or panics, nor for the start of a task: the provider may stay silent
  forever. `EveryValidationReturns` assumes in addition that the timers fire;
  `WaitersAreReleased` does not, so it covers `--no-timeouts`, where the
  notification alone has to do.
* `ObjectCache!FairSpec`: weak fairness of `Run`. The code continues unless
  interrupted, and the user repeats the command, which is what the documentation
  asks for.
* `ScanPipeline!FairSpec`: threads take the steps they can, and git ends (a clone
  is a child process that succeeds or fails). Providers and scanners owe nothing:
  `StopLeadsToReturn` must hold although discovery never gets an answer, which is
  why it depends on the cancellation. `EveryThreadEnds` assumes `Patience` as
  well: providers answer and scans finish.
* `RepositoryScan!FairSpec`: weak fairness of the steps of this scan taken together
  (`ownVars`), the least there is: somebody who can move does. Every such step takes
  the scan further, so this is enough, and `EveryScanEnds` fails exactly when all of
  them wait for each other. What other repositories publish counts for nothing. A
  validation returns because of its timeout (`safety` and `pacing`), so the property is
  about scans with `--validation-timeout` above 0, the default.
* `Pacing!PacingSpec`: time passes, the runtime polls every future for what it can do
  by itself (`Own`), and the request to GitHub ends by the client's timeout. No service
  owes a validator an answer: with `--validation-timeout 0` or `--no-timeouts` the
  clients have no deadline either (`validation/limits.rs:50-67`, `runner.rs:381-386`),
  and a stalled request may last forever, as `docs/ADVANCED.md:856` says.
  `EveryValidationEnds` therefore asks two things: with a timeout every validation
  returns, answered or not; and with or without one nobody stays in the limiter's queue,
  because the lock is released before the request is sent.
  `EveryRequestReturns` likewise assumes that the network timeouts are not disabled.

## 5. Findings

Runs that are expected to find a violation state what the repository says of
itself; the counterexample shows what the code does.

1. **Resuming a Hugging Face bucket can fail** (`cache_resume`). An object that
   was A, was replaced on disk by B in an interrupted run and is A again is
   listed under the version the manifest has for A; the file is B's and the
   checksum ends the run, this time and every later time. (An object listed without
   any identity has the same history in `store`, which compares the digest with
   the manifest and not with the file; `Versioned` leaves those out of
   `CommittedObjectsAreOnDisk` for Hugging Face.)
2. **Bucket findings that nobody prints** (`reports`). A parallel scan to stdout
   prints per repository, and what the buckets in setup found is not printed
   unless there was no repository scan at all.
3. **Excluded files that are scanned** (`excluded`). A full scan drops excluded
   paths while it traverses, so a blob that has no other path has no appearance at
   the end, is taken for an unreferenced object and kept, without path and commit.
4. **Accepted here, hidden there** (`accepted`). With a read-only baseline, the hidden
   row of a repository that has accepted a finding is merged into the shared store and
   is then what a later repository's visible row is a duplicate of, unless both have a
   provider's id. The report has neither. `docs/BASELINE.md:10` says that a finding
   accepted in one repository does not suppress the same fingerprint in another; the
   test for it compares two stores that are never merged. Managed scans keep
   duplicates and are not affected, nor are parallel scans to stdout, which report each
   repository before it is merged: `NewSecretsAreReported` says so.

Each is one entry of `findings` in `PROJECT.json` with the quoted lines.

More disagreements were met while modelling and have no run of their own:

* *A second provider request.* The cache is read before the key is claimed and not
  again after it. If the owner publishes and retires in between, the second task owns
  the vacant key and asks the provider again (`validation.rs:827`, against the comments
  at 792-795 and 839). `OneRequestAtATime` still holds. Its answer replaces the first one
  (`validation.rs:480-492`), although the comment at 824-826 says that entries remain valid
  for the full scan. Within one repository a phase has a cache of its own in front, and
  stays of one mind; but a repository scanned in parallel can do this between the two
  phases, and if the provider has changed its mind, a credential is active in one file and
  inactive in another. `VerdictsAgree` states exactly this exception.
* *Requests past the limiter.* `docs/USAGE.md:360` says that `--validation-rps` applies to
  network validators and line 375 calls it a limit for all validation requests. A
  validator other than HTTP waits once: the authenticated request of a credential URI and
  all its retries are sent without another wait (`credential_uri.rs:206-247`). The same
  holds of other protocols with several requests (`coinbase.rs:60`, a JWT's discovery and
  key set, the token request of OAuth2). `RequestsAreSpaced` excepts what follows
  the first request of such a validator (`FollowsUp`) and nothing else.
* *Baselines of nested repositories.* A directory with up to ten repositories below it is
  scanned sequentially. (a) If one of them had findings in its history and has none left,
  nothing refers to it at the end, and its old section stays, while `docs/BASELINE.md:138`
  says that repositories in a managed scan are replaced with exactly the findings
  encountered (`Overlooked` in `UpdatesAreScoped`). (b) Findings in files of all of them are
  in the one section of the directory, so a finding accepted in one is hidden in another,
  also with `--no-dedup`, against `docs/BASELINE.md:8-11` (the directory in `IsNew`).
  (c) With more than ten (`runner.rs:364`) the same directory is scanned in parallel and has
  a section per repository: what was accepted under the one loop is new under the other.
* *Clones go on after the scan has failed.* The rayon pool of the cloners is dropped
  and not joined (`scanner/repos.rs:225`), so a worker may be inside `git clone` when
  the failed scan returns; the comment at `runner.rs:727` says that joining the threads
  prevents it.
* *A retry date without a margin.* `Retry-After` as a date (`github/retry.rs:284`) is
  compared with the local clock as it is, whereas the reset header gets a second more for
  skew. `RetriesHeedTheServer` has the margin for the reset header and takes a
  `Retry-After` as a number of seconds.
* *A report that fails after the audit is finished.* `docs/ADVANCED.md:246` says that only
  a successful run emits `run_completed`. It is written before the report is, and in a
  parallel scan without repositories before the baseline is.

* *Stale content of a Hugging Face bucket.* An object listed as A and replaced by B
  before its download is stored as B under A's version. Back at A, later runs take
  B from the cache. `StampedContentIsCurrent` is therefore stated for the other
  providers; the Azure driver has a comment against exactly this.
* *One content under two paths.* `seen_blobs` is keyed by the blob id
  (`matcher/mod.rs:739`), while rules may be restricted to paths
  (`matcher/filter.rs:278`): what is found depends on which path claims the content
  first, and a comment in `scanner/processing.rs` (only the origin is left to
  record) is not honoured for the others. `docs/FINGERPRINT.md:89-90` promises that
  deduplication keeps every unique credential. `CompleteScansMissNothing` asks for
  the matches under one of the paths. The embeddable scanner keys by content, path
  and attributes (`crates/kingfisher-scanner/src/scanner.rs:94`).
* *A rooted exclude pattern below a shared tree.* A subtree T at `a` is marked as
  seen, though a pattern such as `a/x*` removes a file of it; T at `b` is then
  pruned, and `b/x` has no first appearance. The test
  `excluded_blob_path_does_not_hide_later_included_blob`
  (`git_metadata_graph.rs:987`) is about this, for one tree. `FirstSeenIsExact` is
  exact for names, and sound only for rooted patterns.

## 6. Proofs

TLC shows the above for a few tasks and repositories. The proofs are for any
sets, from the named assumptions in the modules (`DedupConstants`,
`StoreConstants`, `PipelineConstants`, `ObjectCacheConstants`, `ScanAssumption`,
`PacingAssumption`, `RetryAssumption`, `HistoryConstants`, `ManagedScanConstants`),
which give the constants their types and keep the "none" values apart. Four say more:

* `ManagedScanConstants`: `--manage-baseline` comes with `--no-dedup`, as the command
  line enforces (`scan.rs:986`).
* `LimitAssumption` of `HttpValidation`: one interval per bucket, as the code has one
  limit per selector.
* `ScanAssumption`: only matches of dependent rules have a context, as the matcher
  attaches components for the rules in `depends_on_rule` only (`matcher/mod.rs:965`).
  `EveryRowIsAnswered` needs it: a simple row in a dependent blob gets its answer in
  the first phase, under the key without context.
* `HistoryConstants`: trees are numbered so that a subtree comes before the trees it is
  in, and every set of commits has one with no parent in the set. Both say that an
  object's id is a hash of what it refers to, so that nothing contains itself.

### ValidationDedupProofs

The invariants the runs check are not inductive: `OneRequestAtATime` says nothing
of an owner that is not at its request yet, and so cannot exclude a second claim.
`IInv` adds

* `ScanInv`: a task that is under way belongs to the scan that holds the lock, so
  the maps are never cleared under it;
* `LeaseInv`: an entry is in `IN_FLIGHT` exactly while its task is on the owner's
  way. From this follow `OneRequestAtATime` and that `remove` finds its own entry;
* `OwnerInv`: how `owns_in_flight` and `completed` go together with that way;
* `WaiterInv`: a waiter waits on an owner of its key in its scan;
* `CacheInv`: what is published is by such an owner, and is there from the
  publication to the end of the scan, which is why a waiter that saw `completed`
  finds an answer;
* `ResultInv`: where the results in the matches come from.

Theorems: `TypeCorrect`, `RequestsExclude`, `WaitersAnswered`, `NoLostWakeup`,
`AnswersFromOwners` (with the isolation of scans), `EntriesRetiredByOwners` (an
action property) and `Refinement`: the initial state and every step map to
`SharedValidation`.

### FindingsStoreProofs

A readable file being exact is not inductive, as an unreadable file may become
readable by a later write. `DiskInv` says why it does not: the file is never
shorter than counted, and if it is as long as counted it is what was spilled;
after a failed rollback that left something the file stays too long forever.
`CleanInv` says that without a failed repository the file is exact and memory
empty between merges; `ScanInv` ties the mutex and the report to the scans, and
`ReportInv` says that nothing is on disk once there is a report.

`ReportIsExact` counts rows, and no induction over the log is available. `LogInv`
therefore relates the log (`stored` and `matches` together) to the rows that have been
merged by sets and a bijection: with deduplication, no digest is in the log twice, and
each merged row's digest is in it (`DedupLog`); without, some function gives each merged row
a place in the log with the same row, no two the same place, and leaves no place over
(`Places`). `TodoInv` says that what a merge has still to do is the end of what its
repository found, so a step adds one pair to the function (`RecordAppends`); spilling
and restoring change nothing of the log (`LogStays`).

Theorems: `StoreTypes` (no torn line becomes a finding), `FileIsExact`,
`WorkingSet`, `ExactReport`, `StoreImplementsLog`.

### ScanPipelineProofs

The invariant has a part for each thing the threads share. `CountInv`: a permit is
in the pool or with exactly one scan, no more clones are in hand than workers live,
and the roots channel keeps its capacity. `FlowInv`: as long as main receives, a
stage ends only after the one before it and with nothing left between them. It has
to be said stage by stage (discovery, feeder, workers, cloner), because "the channel
is disconnected" tells main nothing by itself: an input could still be in the hands
of a worker. `QuietInv`: a loop that is left without a broken repository leaves
nothing on its way, and nothing moves afterwards. `NothingLost` follows from it and
`EverythingReported` from `ReportInv`, which says the same of the reports that are
written per repository; `QueueIsBounded` needs only `CountInv` and the cardinality
theorems of the library. `ClonesAreBounded` adds up all capacities: no more than
`Workers + ResultCap + RepoCap + Permits + 2` clones are on disk, the two being one
in the hands of the cloner and one in those of main. That is the promise of the
comment at `runner.rs:238` ("roughly 6*num_jobs"), and no instance small enough for
TLC would fill all the channels.

### ObjectCacheProofs

For any keys, prefixes, page size and any number of edits, runs and crashes. What a
crash leaves is `Replayed`, the manifest with the whole lines of its journal on top.
It has for each key what the last line about it says, and the proofs know it only by
what it is for an empty journal and after one more line (`ReplayEmpty`, `ReplayAppend`).

* `SyncInv`: while a session runs, memory is `Replayed` with the objects of the
  present page on top. This is why an interruption at any step loses one page and
  nothing else.
* `StampInv`: a recorded version is never newer than the object, and if it is as new
  it has the object's content, and so has the file. `ListedInv` carries that from
  the listing of a page to the visit of its objects, between which the bucket may
  be edited. `NoChecksumFails` follows at the only step that compares checksums.
* `DiskInv`: every key the journal has completed lies behind its listing's token, and
  its file is on disk; every object that was there all the time and lies behind the
  token is completed. `PageInv` says the same of the page that is under way: the keys
  between the old token and the next one are still to do or pending. A page takes the
  least keys above the token, which needs lemmas about least and greatest
  elements (`LeastExists` and those after it).
* `HeldInv` and `FinishInv`: what a visitor was shown was held by the bucket, and
  what `finish` does to a complete listing.

`PagesAreDurable` follows from `DiskInv`, `NothingStale` from `HeldInv`,
`NothingMissed` from both `FinishInv` and `HeldInv`, `ExactCache` from `SyncInv` and
`FinishInv`, `CacheTypes` from the types alone.

### RepositoryScanProofs

* `Sharing` from `AskingInv`: who asks has its key in `in_flight` and not yet in
  the cache of the phase.
* `Answering` from `OutcomeInv`. An outcome is `Sound` for a key if it answers the key's
  request, and if it is decisive it is the one the process-wide cache has for the key,
  unless another one has replaced it there. `AnswersInv`, `CacheInv`, `ResultInv` and
  `StoreInv` say so of the caches, the futures and the rows (of a row: for a row at the
  same place); `PhaseInv` says that every row of a chunk has its future, which is what
  the write-back of a chunk relies on. `RepublishIsSound` is the step of the others.
* `Agreement` from `OutcomeInv`, for a contradiction between the phases, and from
  `PhasesInv`, for what a phase finds out. The second is not about `answers`, which
  anybody may replace, but about the cache of the phase in front of it: a finished future
  has what that cache has for its key, or the refusal its key determines (`IsValue`,
  `UnitInv`); every row of a dependent blob is still to come, has a future, or has such a
  value (`UniformInv`); and the cache lasts until the last chunk.
* `Answers` from `AnsweredInv`: who waits has an owner or finds an outcome in the cache
  of the phase; what the caches and the finished futures hold is an answer; and a row is
  in a blob that is still to be validated, or has a future with its key (first phase), or
  is answered (second phase). The first phase also answers rows of dependent blobs, so
  the argument goes by what is left of each row and not by who answers it.
* `Claims`, `Completeness` and `ExactStore` from `ScanInv`, which follows a match from
  the input to the store. `ThreadTypes`: what the threads and channels hold are matches
  of inputs (`Messages`), and the writer ends only when nobody can send any more.
  `RowInv`: the rows are those of messages with different digests. `ClaimInv`: of a
  content that was claimed, under one of its paths, each request is in the store or on
  its way: in the hands of a worker, in the channel, or in the batch of the writer
  (`RequestIsSafe`). `InputInv`: unless errors were counted, an input is still to come, at
  a worker, or was matched. With `--no-dedup` nothing is claimed, and the same is said of
  every match instead (`MatchIsSafe`). Which of two workers claims a content is open, so
  the path cannot be named beforehand: it is that of the worker who inserted into
  `seen_blobs`.

### GitHistoryProofs

For every commit graph, all trees, any excluded names and any content filter. The graph
enters by `Reached`, the least set that has the start and is closed under the edges;
what is needed of it is exactly that (`ReachedCloses`). Where an induction is called for
(over ancestors, over trees within trees) the proof takes a first counterexample: a
commit of the set with no parent in it, or a tree with the least number
(`LeastNumber`). The recursive function `Files` is shown to exist in this way
(`FilesExist`) before anything is said of its values (`FilesFacts`).

* `BranchHistory` from `BranchInv`: a commit of the range that is no longer in the
  worklist has its differences recorded. A file that is not recorded for a commit is in
  the tree of its first parent; the first commit of the range without an explanation for
  it would be one too many.
* `ControlInv`: parents before children. A commit is taken up when all its parents are
  left, and a node whose parents are left is visited or in the worklist, so at the end
  none is missing (`EndTraversalExact`).
* `PathInv`: a tree in the worklist, and an entry that is read, is at its path in the
  commit at hand, so what is introduced is a file of the commit. This is the half of
  `FirstSeenIsExact` that holds for rooted patterns too.
* `ExactInv`: what a commit inherits is exactly what its ancestors show (`SeenInv`), and
  a commit that is left introduced exactly what it shows besides (`LeftInv`). While a
  commit is at hand (`HandInv`) every tree that was seen has nothing new, is still to be
  opened, or each of its entries is excluded, still to be read, known, or pruned
  (`TreeRead`). The third reason to prune, that the tree itself was seen, makes this
  circular as it stands: a tree may be skipped for one that is not read yet. Only when
  nothing is left to read does it follow that all visible blobs are known (`AllSeen`), by
  the least tree for which it fails.

### PacingProofs

*The validations.* `HttpTypes` together with the fact that only validations with a limit
are queued. `Slots`: the slot of a bucket is what is left of the interval since its last
admitted request, a fact about time passing, grants and drops. `Spacing` follows step by
step: a grant finds the slot free; every other step that sends is of a rule without a
limit, or a retry or a further request of a validator that is not HTTP
(`BackoffsAreRetries`). `Verdicts` from `VerdictInv`: the flags `inactive` and
`inconclusive` say what the endpoints before the present one said. `Queues` from
`QueueInv`: the members of a queue, each once; it needs what removing from,
appending to and taking the head of a sequence does to its members
(`WithoutRemoves`, `AppendAdds`, `TailRemoves`).

*The retry.* `RetryInv`: while asleep the server's count is at most what is left of the
sleep, which `DelayHeedsTheServer` (the delay is the largest advice, with its margin)
establishes when the sleep begins. `GithubTypes`, `Budget` and `ServerIsHeeded`
follow. The proof uses no bound on budgets or advice.

*The composition.* `PacingParts`: `PacingSpec` implements `GithubSpec`, `HistorySpec` and
`HttpSpec`, as each part only takes its own steps or stutters. `PacingIsSafe` draws the
conclusion for every safety property of the parts.

### ManagedScanProofs

For any repositories, contents and command lines and any number of scans and kills.

* `RecordInv`: the audit's record of a repository, by its stage, and that what a full
  enumeration kept is `Kept` of the content. `EndInv`: at the end nothing is on its
  way and nothing has failed. `Audit` follows from the two.
* `RowInv`: a row of the shared store is of a repository that was merged (or broke on
  the way), and no row is lost where rows of different repositories do not meet. What
  is stored of an occurrence is `Stored`: the row as it was merged and, once a sequential
  scan has compared it again, the row after that. `ShownInv` says the same of the
  reports. `NewAreReported` follows, because deduplication keeps an occurrence of every
  secret (`KeptHasAll`).
* `FileInv`: until it is saved the file is what was loaded, and nothing in it is of
  today. Without the second half the date of an entry could not tell one that was
  seen again from one that is new or has moved, as `Updates` says it does.
  `SameIsUnchanged` is the argument that a scan which saw nothing else writes
  nothing; `LeastIsPlace` gives an entry its place.
* For the sections, `PlacesOfRows` says that the rows of the store are, section by section,
  what the scanned repositories contain; `ScannedHaveSources` that a section is replaced
  only if a merged repository has to do with it; and `OverlookedOrScanned` that a section
  which has one is replaced, but for a nested repository without findings in its
  history. `SectionsAreExact` puts them together.

### What the proofs add to the runs

Proved and not in a run, because the theorem says more: the types of
`ValidationDedup`, `FindingsStore`, `ScanPipeline`, `ObjectCache`, `HttpValidation`
and `GithubRetry`, `ClonesAreBounded`, `NoStrandedWaiter`,
`OnlyOwnersRetireEntries`, `SlotsMatchRequests`, `QueuesAreExact`.

### Only model-checked

Liveness (`EveryValidationReturns`, `WaitersAreReleased`, `SomeRunFinishes`,
`StopLeadsToReturn`, `EveryThreadEnds`, `EveryScanEnds`, `EveryValidationEnds`,
`EveryRequestReturns`), because the prover has no rules for fairness. Every safety
property of a passing run is also a theorem.

## 7. What is not modelled

* Bytes: regular expressions, entropy, decoding, archives, git object formats. What
  is found in a content, and what a content filter matches, is a choice of the
  models.
* Provider protocols, clients, and what exactly a response means. These, the access
  maps, the wizard and the generated rules are most of the code's 166 thousand
  lines, and each is one request after the other or pure formatting. The models
  cover the shared machinery, which is a small part of the lines.
* In the validation cache: client construction, capture resolution, the second
  cache for Betterleaks analyses.
* In the object cache: an Azure download that fails (the rest of the run is then not
  checkpointed), tampering with the directory, the lock file, size limits
  and filters. The contents of another process' run cannot interleave, as the
  source lock excludes it.
* In the pipeline: argument checks. Each provider's enumeration is
  a step per result.
* In the findings store: pooling of blobs and origins, link tables, cursors.
* In the repository scan: the search for candidates, the suppression of raw PDF
  matches, the access-map sweep, counters (the baseline and `repository_dedup_scope` are
  in `ManagedScan`).
* In the git history: staged and branch-root diffs, the scan without commit
  metadata, objects that cannot be read, links and submodules.
* In audit and baseline: git snapshots, statistics, the wording of records, the parsing
  of fingerprints (decimal, or hexadecimal in old files), how paths and remotes become
  repository identifiers, files of a named directory outside its repositories, and rows
  with several origins (which are hidden only if every repository they are in knows them). A managed scan loads the file when it starts and replaces it
  when it ends; what somebody else writes in between is lost, and the code says nothing
  of it. A partial enumeration does count as scanned, so its repository loses the
  entries that were not enumerated (`UpdatesAreScoped` is exact for complete ones).
* Reporter (but for the deduplication), wizard, progress, alerts, updates, CLI,
  bindings: formatting, user interface, or I/O without state of their own.

## 8. Plan

Done, in this order: the validation cache, the object cache, the pipeline, the
findings store; then the repository scan (writer, matcher claims, validation
coordination), the limiter with the HTTP engine, the GitHub retry, the git history,
and their composition; then audit and baseline with their proofs; then the proofs of
what remained checked only: the way to the store and the answers of `RepositoryScan`, the
report of `FindingsStore`, and both halves of `GitHistory`. Left, among safety: that
somebody can always move, stated without ENABLED as a disjunction of guards, for the
pipeline and for the threads of a repository scan, where TLC's deadlock check and
liveness stand for it now.

## 9. Running it

    tlc -config ValidationDedup_safety.cfg MCValidationDedup
    tlapm ValidationDedupProofs.tla

`PROJECT.json` lists every run with its module and configuration, the definition
each faulty variant replaces, and the source lines behind each definition.
