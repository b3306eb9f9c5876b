---------------------------- MODULE ScanPipeline ----------------------------
(***************************************************************************)
(* The threads of one scan and the bounded channels between them           *)
(* (src/src/scanner/{runner,discovery,repos}.rs):                          *)
(*                                                                         *)
(*   discovery --urls--> feeder --work--> clone workers --results-->       *)
(*     cloner --roots--> main --(permit)--> repository scans               *)
(*   discovery -----------------------roots--> main       (artifacts)      *)
(*                                                                         *)
(* discovery is the artifact-fetcher thread, feeder and clone workers are  *)
(* started by stream_parallel_results, whose result loop runs on the       *)
(* cloner thread, and main is run_sequential_scan or run_parallel_scan.    *)
(* Buckets are scanned by main before it reads its first root.             *)
(*                                                                         *)
(* The state of the data is one function: the place of every scan input.   *)
(* A channel is a place, and a thread that holds an input is one too.  The *)
(* order within a channel is left open.  Workers have no identity: there   *)
(* are pool of them, and one is busy for each input being cloned or sent.  *)
(***************************************************************************)
EXTENDS Naturals, FiniteSets

CONSTANTS
  Bucket,      \* objects scanned during setup (S3, GCS, Azure, Hugging Face)
  Local,       \* repo_roots: the user's own paths
  Url,         \* repositories to be discovered and cloned
  Artifact,    \* directories fetched from issue trackers, registries, ...
  Workers,     \* clone workers: num_jobs, at least 1
  UrlCap, WorkCap, ResultCap, RepoCap,   \* channel capacities
  Permits,     \* scan_inflight_cap
  Args         \* the command lines considered

ASSUME PipelineConstants ==
  /\ \A S \in {Bucket, Local, Url, Artifact} : IsFiniteSet(S)
  /\ \A n \in {Workers, UrlCap, WorkCap, ResultCap, RepoCap, Permits} :
       n \in Nat \ {0}
  /\ Args \subseteq [parallel : BOOLEAN, output : BOOLEAN]

Input == Bucket \cup Local \cup Url \cup Artifact

VARIABLES
  args,       \* what the arguments select, for the whole scan
  at,         \* the place of every input
  discovery,  \* "list", "fetch", or how the thread ended: "ok", "failed"
  feeder,     \* whether the feeder runs
  pool,       \* clone workers that run
  cloner,     \* "consume", then "join" (the feeder), then "done"
  repo_rx,    \* whether main's end of the roots channel is open
  cancel,     \* ArtifactFetchHandle::cancel was called, or the handle dropped
  main,       \* where main is
  permits,    \* permits in the pool
  outcome,    \* what main returned
  reported    \* inputs whose findings were written out

producers == <<args, discovery, feeder, pool, cloner>>
control == <<args, repo_rx, cancel, main, permits, outcome, reported>>
vars == <<at, producers, control>>

\* use_parallel_repo_scan: run_parallel_scan or run_sequential_scan; --output.
Parallel == args.parallel
ToFile == args.output

\* Where an input can be.  absent: the provider has none such in this run;
\* hidden: not discovered or visited yet; the threads
\* hold inputs at offered (discovery), fed (feeder), cloning and cloned (a
\* worker), ready (cloner), taken (main) and scanning (a scan task).  unfetched
\* is a failed clone, unwanted and discarded what cancellation dropped before
\* and after the clone.
Place == {"absent", "hidden", "offered", "urls", "fed", "work", "cloning", "cloned",
          "results", "ready", "roots", "taken", "scanning",
          "scanned", "broken", "unfetched", "unwanted", "discarded"}

In(p) == {i \in Input : at[i] = p}
Full(p, cap) == Cardinality(In(p)) >= cap
Moved(i, p) == at' = [at EXCEPT ![i] = p]
Idle == pool > Cardinality(In("cloning") \cup In("cloned"))

Init ==
  /\ args \in Args
  /\ at \in [Input -> {"hidden", "absent"}]
  /\ \A i \in Bucket \cup Local : at[i] = "hidden"
  /\ discovery = "list" /\ feeder = TRUE /\ pool = Workers
  /\ cloner = "consume"
  /\ repo_rx = TRUE /\ cancel = FALSE
  /\ main = "setup" /\ permits = Permits
  /\ outcome = "none" /\ reported = {}

\* Fault: main keeps its own repo_tx until it leaves the loop.
DisconnectedButMine ==
  cloner = "done" /\ discovery \in {"ok", "failed"} /\ main # "recv"

\* The sending ends of the roots channel are gone: the cloner and the
\* discovery thread have ended.
Disconnected == cloner = "done" /\ discovery \in {"ok", "failed"}

\* drop(cancel_tx) disconnects the cancel channel: every select_biased of the
\* feeder and the workers takes that arm first.
Cancelled == cloner # "consume"

-----------------------------------------------------------------------------
(* The discovery thread.                                                   *)

\* enumerate_all_repos finds a repository and calls its callback.
DiscoverUrl(u) ==
  /\ discovery = "list" /\ In("offered") = {}
  /\ u \in Url /\ at[u] = "hidden"
  /\ Moved(u, "offered")
  /\ UNCHANGED <<producers, control>>

\* url_tx.send: blocks while the channel is full; once the feeder has dropped
\* its receiver the send fails and with it the discovery.
OfferUrl(u) ==
  /\ discovery = "list" /\ at[u] = "offered"
  /\ \/ /\ feeder /\ ~Full("urls", UrlCap)
        /\ Moved(u, "urls")
        /\ UNCHANGED discovery
     \/ /\ ~feeder
        /\ Moved(u, "unwanted")
        /\ discovery' = "failed"
  /\ UNCHANGED <<feeder, pool, cloner, control>>

\* The listing is complete and url_tx dropped.  A scan without any input fails
\* (NoScanInputsError); else the artifacts follow.
EndDiscovery ==
  /\ discovery = "list" /\ In("offered") = {}
  /\ Url \cap In("hidden") = {}
  /\ discovery' = IF Bucket \cup Local \cup Artifact = {} /\ Url = In("absent")
                    THEN "failed" ELSE "fetch"
  /\ UNCHANGED <<at, feeder, pool, cloner, control>>

\* fetch_all_artifacts: a directory is fetched, then pushed to main.
FetchArtifact(a) ==
  /\ discovery = "fetch" /\ In("offered") = {}
  /\ a \in Artifact /\ at[a] = "hidden"
  /\ Moved(a, "offered")
  /\ UNCHANGED <<producers, control>>

\* The push blocks while the channel is full; with the receiver gone the
\* fetcher returns Ok.
PushArtifact(a) ==
  /\ discovery = "fetch" /\ at[a] = "offered"
  /\ \/ /\ repo_rx /\ ~Full("roots", RepoCap)
        /\ Moved(a, "roots")
        /\ UNCHANGED discovery
     \/ /\ ~repo_rx
        /\ Moved(a, "unwanted")
        /\ discovery' = "ok"
  /\ UNCHANGED <<feeder, pool, cloner, control>>

EndFetch ==
  /\ discovery = "fetch" /\ In("offered") = {}
  /\ Artifact \cap In("hidden") = {}
  /\ discovery' = "ok"
  /\ UNCHANGED <<at, feeder, pool, cloner, control>>

\* Between two sends the thread awaits a provider: its error ends the thread.
DiscoveryFails ==
  /\ discovery \in {"list", "fetch"} /\ In("offered") = {}
  /\ discovery' = "failed"
  /\ UNCHANGED <<at, feeder, pool, cloner, control>>

\* select! { biased; work, cancel_rx }: cancellation wins over a pending await.
DiscoveryCanceled == cancel /\ DiscoveryFails

-----------------------------------------------------------------------------
(* stream_parallel_results: feeder, clone workers, result loop.            *)

\* The feeder ends: its channel ends close, and what discovery had sent goes.
FeederEnds ==
  /\ feeder' = FALSE
  /\ at' = [i \in Input |-> IF at[i] \in {"fed", "urls"} THEN "unwanted" ELSE at[i]]

FeederTakes(u) ==
  /\ feeder /\ ~Cancelled /\ In("fed") = {}
  /\ at[u] = "urls"
  /\ Moved(u, "fed")
  /\ UNCHANGED <<producers, control>>

FeederGives(u) ==
  /\ feeder /\ ~Cancelled /\ ~Full("work", WorkCap)
  /\ at[u] = "fed"
  /\ Moved(u, "work")
  /\ UNCHANGED <<producers, control>>

\* On cancellation, or when discovery has dropped url_tx and nothing is left.
FeederStops ==
  /\ feeder
  /\ Cancelled \/ (discovery # "list" /\ In("fed") \cup In("urls") = {})
  /\ FeederEnds
  /\ UNCHANGED <<discovery, pool, cloner, control>>

WorkerTakes(u) ==
  /\ Idle /\ ~Cancelled
  /\ at[u] = "work"
  /\ Moved(u, "cloning")
  /\ UNCHANGED <<producers, control>>

\* The clone or the update succeeds, or the repository is given up on.
Cloned(u) ==
  /\ at[u] = "cloning"
  /\ Moved(u, "cloned") \/ Moved(u, "unfetched")
  /\ UNCHANGED <<producers, control>>

\* The result is sent, or dropped with the worker when cancellation came.
WorkerGives(u) ==
  /\ at[u] = "cloned"
  /\ \/ /\ ~Cancelled /\ ~Full("results", ResultCap)
        /\ Moved(u, "results")
        /\ UNCHANGED pool
     \/ /\ Cancelled
        /\ Moved(u, "discarded")
        /\ pool' = pool - 1
  /\ UNCHANGED <<discovery, feeder, cloner, control>>

\* An idle worker ends: cancelled, or no work and the feeder gone.
WorkerStops ==
  /\ Idle
  /\ Cancelled \/ (~feeder /\ In("work") = {})
  /\ pool' = pool - 1
  /\ UNCHANGED <<at, discovery, feeder, cloner, control>>

ClonerTakes(u) ==
  /\ cloner = "consume" /\ In("ready") = {}
  /\ at[u] = "results"
  /\ Moved(u, "ready")
  /\ UNCHANGED <<producers, control>>

\* The end of the loop drops cancel_tx and result_rx.
StopConsuming ==
  /\ cloner' = "join"
  /\ at' = [i \in Input |->
              IF at[i] \in {"results", "ready"} THEN "discarded" ELSE at[i]]

\* consume(path) = repo_tx.send(path).is_ok(), which blocks while full.
ClonerGives(u) ==
  /\ cloner = "consume" /\ at[u] = "ready"
  /\ \/ /\ repo_rx /\ ~Full("roots", RepoCap)
        /\ Moved(u, "roots")
        /\ UNCHANGED cloner
     \/ /\ ~repo_rx
        /\ StopConsuming
  /\ UNCHANGED <<discovery, feeder, pool, control>>

\* All workers are gone and no result is left.
ClonerDrained ==
  /\ cloner = "consume" /\ pool = 0
  /\ In("results") \cup In("ready") = {}
  /\ StopConsuming
  /\ UNCHANGED <<discovery, feeder, pool, control>>

\* The scope joins the feeder; the thread ends and drops its repo_tx.  The
\* pool is dropped, which does not wait for its workers.
ClonerJoins ==
  /\ cloner = "join" /\ ~feeder
  /\ cloner' = "done"
  /\ UNCHANGED <<at, discovery, feeder, pool, control>>

-----------------------------------------------------------------------------
(* main.                                                                   *)

\* The buckets are scanned, baseline and validation clients set up.
Setup ==
  /\ main = "setup"
  /\ main' = "recv"
  /\ at' = [i \in Input |-> IF i \in Bucket THEN "scanned" ELSE at[i]]
  /\ UNCHANGED <<producers, repo_rx, cancel, permits, outcome, reported>>

\* repo_rx is dropped with the directories in it; so is the cancel handle, or
\* it is used.
Hangup ==
  /\ repo_rx' = FALSE /\ cancel' = TRUE
  /\ at' = [i \in Input |-> IF at[i] = "roots" THEN "discarded" ELSE at[i]]

\* Any ? before the scan loop: the handles are dropped and nobody joins.
SetupFails ==
  /\ main = "setup"
  /\ main' = "returned" /\ outcome' = "setup error"
  /\ Hangup
  /\ UNCHANGED <<producers, permits, reported>>

\* The next root: the user's paths first, then what repo_rx yields.
NextRoot(i) ==
  /\ main = "recv" /\ In("taken") = {}
  /\ \/ i \in Local /\ at[i] = "hidden"
     \/ Local \cap In("hidden") = {} /\ at[i] = "roots"
  /\ Moved(i, "taken")
  /\ UNCHANGED <<producers, control>>

\* Fault: the permit is left out, rayon queues whatever arrives.
SpawnAtOnce(i) ==
  /\ Parallel /\ main = "recv" /\ at[i] = "taken"
  /\ permits' = IF permits > 0 THEN permits - 1 ELSE 0
  /\ Moved(i, "scanning")
  /\ UNCHANGED <<producers, repo_rx, cancel, main, outcome, reported>>

\* Parallel: permit_take.recv, then scope.spawn.
SpawnScan(i) ==
  /\ Parallel /\ main = "recv" /\ at[i] = "taken"
  /\ permits > 0
  /\ permits' = permits - 1
  /\ Moved(i, "scanning")
  /\ UNCHANGED <<producers, repo_rx, cancel, main, outcome, reported>>

\* Fault: the report of a repository is left to the end of the scan.
ScanEndsSilently(i) ==
  /\ at[i] = "scanning"
  /\ permits' = permits + 1
  /\ Moved(i, "scanned") \/ Moved(i, "broken")
  /\ UNCHANGED <<producers, repo_rx, cancel, main, outcome, reported>>

\* A repository scan ends; the guard returns its permit.  A success is written
\* to stdout at once unless the report goes to a file; a failure is kept in
\* repo_errors and may come before or after that.
ScanEnds(i) ==
  /\ at[i] = "scanning"
  /\ permits' = permits + 1
  /\ \/ Moved(i, "scanned")
        /\ reported' = IF ToFile THEN reported ELSE reported \cup {i}
     \/ Moved(i, "broken")
        /\ (UNCHANGED reported \/ (~ToFile /\ reported' = reported \cup {i}))
  /\ UNCHANGED <<producers, repo_rx, cancel, main, outcome>>

\* Sequential: the scan runs in the loop, and an error leaves it.
ScanInline(i) ==
  /\ ~Parallel /\ main = "recv" /\ at[i] = "taken"
  /\ \/ Moved(i, "scanned") /\ UNCHANGED main
     \/ Moved(i, "broken") /\ main' = "stop"
  /\ UNCHANGED <<producers, repo_rx, cancel, permits, outcome, reported>>

\* Fault: an empty channel is taken for a closed one.
DrainedForNow ==
  /\ main = "recv" /\ In("taken") = {}
  /\ Local \cap In("hidden") = {}
  /\ In("roots") = {} /\ In("scanning") = {}
  /\ main' = "stop"
  /\ UNCHANGED <<at, producers, repo_rx, cancel, permits, outcome, reported>>

\* repo_rx.iter() ends; the parallel scope waits for its scans.
Drained ==
  /\ main = "recv" /\ In("taken") = {}
  /\ Local \cap In("hidden") = {}
  /\ In("roots") = {} /\ Disconnected
  /\ In("scanning") = {}
  /\ main' = "stop"
  /\ UNCHANGED <<at, producers, repo_rx, cancel, permits, outcome, reported>>

\* Fault: the producers are joined without being cancelled.
StopWithoutCancel ==
  /\ main = "stop"
  /\ main' = "join"
  /\ repo_rx' = FALSE
  /\ at' = [i \in Input |-> IF at[i] = "roots" THEN "discarded" ELSE at[i]]
  /\ UNCHANGED <<producers, cancel, permits, outcome, reported>>

\* drop(repo_rx) (sequential; drained in parallel) and artifact_handle.cancel.
Stop ==
  /\ main = "stop"
  /\ main' = "join"
  /\ Hangup
  /\ UNCHANGED <<producers, permits, outcome, reported>>

Scanned == In("scanned")
RanRepoScan == Scanned \ Bucket # {}

\* Fault: the final report is left to the per-repository ones.
ReturnUnreported ==
  /\ main = "join" /\ Disconnected
  /\ main' = "returned"
  /\ outcome' = IF In("broken") # {} THEN "scan error"
                ELSE IF discovery = "failed" THEN "discovery error" ELSE "ok"
  /\ UNCHANGED <<at, producers, repo_rx, cancel, permits, reported>>

\* Both threads are joined.  Sequential scans return the scan error first,
\* parallel ones the discovery error.  Success writes the report: everything
\* in the datastore, or only the audit after parallel scans wrote their own.
Return ==
  /\ main = "join" /\ Disconnected
  /\ main' = "returned"
  /\ outcome' = CASE In("broken") # {} /\ (~Parallel \/ discovery = "ok")
                       -> "scan error"
                  [] discovery = "failed" -> "discovery error"
                  [] OTHER -> "ok"
  /\ reported' = IF outcome' # "ok" THEN reported
                 ELSE IF ~Parallel \/ ToFile \/ ~RanRepoScan THEN Scanned
                 ELSE reported
  /\ UNCHANGED <<at, producers, repo_rx, cancel, permits>>

-----------------------------------------------------------------------------
\* What a thread does without a provider, git or a scanner finishing first.
ThreadStep ==
  \/ DiscoveryCanceled \/ FeederStops \/ WorkerStops \/ ClonerDrained
  \/ ClonerJoins \/ Drained \/ Stop \/ Return
  \/ \E i \in Input :
       \/ OfferUrl(i) \/ PushArtifact(i)
       \/ FeederTakes(i) \/ FeederGives(i) \/ WorkerTakes(i) \/ WorkerGives(i)
       \/ ClonerTakes(i) \/ ClonerGives(i)
       \/ NextRoot(i) \/ SpawnScan(i)

\* What takes as long as the network, git or the scanned content takes.
Work ==
  \/ EndDiscovery \/ EndFetch \/ Setup
  \/ \E i \in Input : DiscoverUrl(i) \/ FetchArtifact(i) \/ Cloned(i)
                        \/ ScanEnds(i) \/ ScanInline(i)

Failure == DiscoveryFails \/ SetupFails

\* Every thread has ended.
AllEnded ==
  /\ main = "returned" /\ Disconnected /\ ~feeder /\ pool = 0

Next == ThreadStep \/ Work \/ Failure \/ (AllEnded /\ UNCHANGED vars)

Spec == Init /\ [][Next]_vars

\* Threads run and git ends.
FairSpec == Spec /\ WF_vars(ThreadStep) /\ WF_vars(\E u \in Url : Cloned(u))

\* Providers answer and scanners finish.
Patience == WF_vars(Work)

-----------------------------------------------------------------------------
(* Properties.                                                             *)

\* Inputs are in known places, threads in known states, and no more permits
\* exist than scan_inflight_cap put into the pool.
TypeOK ==
  /\ args \in Args
  /\ at \in [Input -> Place]
  /\ discovery \in {"list", "fetch", "ok", "failed"}
  /\ feeder \in BOOLEAN /\ pool \in 0 .. Workers
  /\ cloner \in {"consume", "join", "done"}
  /\ repo_rx \in BOOLEAN /\ cancel \in BOOLEAN
  /\ main \in {"setup", "recv", "stop", "join", "returned"}
  /\ permits \in 0 .. Permits
  /\ outcome \in {"none", "ok", "scan error", "discovery error", "setup error"}
  /\ reported \subseteq Input

\* A scan that returns Ok has scanned every input there is: none is left in a
\* channel, dropped by a cancellation, or overtaken by the end of a producer.
\* Only repositories that could not be fetched are missing.
NothingIsLost ==
  outcome = "ok" => \A i \in Input : at[i] \in {"scanned", "unfetched", "absent"}

\* The permits hold back main, so that the roots waiting for a scan, which are
\* clones on disk, are bounded whatever the number of repositories.
QueuedScansAreBounded ==
  Cardinality(In("roots") \cup In("taken") \cup In("scanning"))
    <= RepoCap + 1 + Permits

\* "the worst-case on-disk count is roughly 6*num_jobs (inner queue + outer queue
\* + active cloners + active scans)" (runner.rs:242): clones that are made, sent
\* from thread to thread or scanned, with the two that the cloner and main hold.
ClonesOnDiskAreBounded ==
  Cardinality({i \in Url : at[i] \in {"cloning", "cloned", "results", "ready",
                                      "roots", "taken", "scanning"}})
    <= Workers + ResultCap + RepoCap + Permits + 2

\* A scan that returns Ok has written out the findings of every input it
\* scanned, in one report or in one per repository ("User and organization
\* scans automatically include their visible buckets", INTEGRATIONS.md:999).
EveryFindingIsReported == outcome = "ok" => Scanned \subseteq reported

\* The same where it holds: for repositories, directories and artifacts in
\* every mode, for buckets unless a parallel scan reports to stdout.
RepositoriesAreReported ==
  outcome = "ok" =>
    Scanned \ (IF Parallel /\ ~ToFile THEN Bucket ELSE {}) \subseteq reported

\* After the loop is left, by an error too, main returns: no join waits on a
\* thread that is blocked on a full channel or on a provider's answer.
StopLeadsToReturn == main = "stop" ~> main = "returned"

\* Every thread ends, however the scan ends, when git and providers answer.
EveryThreadEnds == Patience => <>AllEnded
=============================================================================
