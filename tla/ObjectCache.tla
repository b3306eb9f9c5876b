----------------------------- MODULE ObjectCache -----------------------------
(***************************************************************************)
(* The durable listing checkpoints and object cache of                     *)
(* src/src/object_cache.rs, driven by the listing loop of src/src/s3.rs    *)
(* (gcs.rs, azure_blob.rs and huggingface.rs have the same loop).          *)
(*                                                                         *)
(* On disk: manifest.json (replaced atomically), pages.jsonl (appended, so *)
(* its last line may be torn by a crash) and one file per object (replaced *)
(* atomically).  A session is the time from a fresh listing to its finish; *)
(* a process that dies in between is resumed by the next run of the        *)
(* session.  The bucket is edited by others at any time.                   *)
(***************************************************************************)
EXTENDS Integers, Sequences, FiniteSets, FiniteSetsExt

CONSTANTS
  Key,          \* object keys: 1 .. n, in listing order
  Scope,        \* listing prefixes: 1 .. m, in the order they are visited
  ScopeOf,      \* the prefix each key is listed under
  Content,      \* object contents; a digest is the content it stands for
  Absent,       \* no object under the key
  NoIdentity,   \* of a listing entry without ETag, generation or hash
  Identified,   \* keys whose listing entries carry an identity (ETag, hash)
  Providers,    \* "gcs" stands for GCS and Azure
  PageSize,     \* keys per listing page
  MaxEdits,     \* bound on edits of the bucket
  MaxRuns,      \* bound on process runs
  MaxCrashes    \* bound on interrupted runs

ASSUME ObjectCacheConstants ==
  /\ Key \subseteq Nat \ {0} /\ IsFiniteSet(Key)
  /\ Scope \subseteq Nat \ {0} /\ IsFiniteSet(Scope)
  /\ ScopeOf \in [Key -> Scope]
  /\ Absent \notin Content /\ NoIdentity \notin Content
  /\ Identified \subseteq Key /\ Providers \subseteq {"s3", "gcs", "huggingface"}
  /\ PageSize \in Nat \ {0}
  /\ MaxEdits \in Nat /\ MaxRuns \in Nat /\ MaxCrashes \in Nat

VARIABLES
  provider,                  \* of the bucket
  bucket, stamp,             \* the remote objects and their modification times
  manifest, journal, torn,   \* manifest.json, pages.jsonl, its torn last line
  files,                     \* objects/<hash of key>
  mem, pending,              \* ObjectCache.manifest, .pending_objects
  page,                      \* the listing response being processed
  pc,
  visited,                   \* what the visitor got in this run
  held, stable,              \* contents held, keys present, in the whole session
  edits, runs, crashes

remote == <<provider, bucket, stamp, edits>>
disk == <<manifest, journal, torn, files>>
history == <<held, stable>>
vars == <<remote, disk, mem, pending, page, pc, visited, history, runs, crashes>>

NoVersion == <<NoIdentity, 0>>
None == [version |-> NoVersion, digest |-> Absent]     \* no CachedObject
NoObjects == [k \in Key |-> None]
NoPage == [scope |-> 0, todo |-> {}, listed |-> [k \in Key |-> NoVersion],
           next |-> 0, last |-> TRUE]
Unlisted == [s \in Scope |-> [token |-> 0, complete |-> FALSE]]

\* Whether versions include the modification time besides a content identity.
Stamped == provider # "huggingface"

\* The version of key k now, in a listing or in the headers of a download.
object_version(k) == <<IF k \in Identified THEN bucket[k] ELSE NoIdentity,
                       IF Stamped THEN stamp[k] ELSE 0>>

Init ==
  /\ provider \in Providers
  /\ bucket \in [Key -> Content \cup {Absent}]
  /\ stamp = [k \in Key |-> 0]
  /\ manifest = [in_progress |-> FALSE, scopes |-> Unlisted, completed |-> {},
                 objects |-> NoObjects]
  /\ journal = <<>> /\ torn = FALSE
  /\ files = [k \in Key |-> Absent]
  /\ mem = manifest /\ pending = NoObjects /\ page = NoPage
  /\ pc = "closed"
  /\ visited = [k \in Key |-> Absent]
  /\ held = [k \in Key |-> {}] /\ stable = {}
  /\ edits = 0 /\ runs = 0 /\ crashes = 0

-----------------------------------------------------------------------------
\* Somebody writes or deletes an object.
Edit(k, c) ==
  /\ edits < MaxEdits
  /\ bucket[k] # c
  /\ bucket' = [bucket EXCEPT ![k] = c]
  /\ stamp' = [stamp EXCEPT ![k] = @ + 1]
  /\ edits' = edits + 1
  /\ held' = [held EXCEPT ![k] = @ \cup {c}]
  /\ stable' = IF c = Absent THEN stable \ {k} ELSE stable
  /\ UNCHANGED <<provider, disk, mem, pending, page, pc, visited, runs, crashes>>

\* replay_pages: the manifest of the session with its complete pages applied,
\* the last page that mentions a key or a scope deciding.
Replayed ==
  LET Of(k) == {i \in DOMAIN journal : journal[i].objects[k] # None}
      At(s) == {i \in DOMAIN journal : journal[i].scope = s}
  IN [in_progress |-> TRUE,
      completed |-> manifest.completed \cup {k \in Key : Of(k) # {}},
      objects |-> [k \in Key |-> IF Of(k) = {} THEN manifest.objects[k]
                                 ELSE journal[Max(Of(k))].objects[k]],
      scopes |-> [s \in Scope |-> IF At(s) = {} THEN manifest.scopes[s]
                                  ELSE journal[Max(At(s))].mark]]

\* Fault: a fresh session keeps the journal a crash in finish() left behind.
OpenKeepingJournal ==
  /\ pc = "closed" /\ runs < MaxRuns
  /\ runs' = runs + 1
  /\ torn' = FALSE
  /\ visited' = [k \in Key |-> Absent]
  /\ pending' = NoObjects /\ page' = NoPage
  /\ IF manifest.in_progress
       THEN /\ mem' = Replayed
            /\ pc' = "replay"
            /\ UNCHANGED history
       ELSE /\ mem' = [manifest EXCEPT !.in_progress = TRUE,
                         !.scopes = Unlisted, !.completed = {}]
            /\ pc' = "opening"
            /\ held' = [k \in Key |-> {bucket[k]}]
            /\ stable' = {k \in Key : bucket[k] # Absent}
  /\ UNCHANGED <<remote, manifest, files, journal, crashes>>

\* Fault: a torn last line is rejected like any other invalid checkpoint.
OpenRejectingTorn ==
  /\ pc = "closed" /\ runs < MaxRuns
  /\ runs' = runs + 1
  /\ visited' = [k \in Key |-> Absent]
  /\ pending' = NoObjects /\ page' = NoPage
  /\ mem' = IF manifest.in_progress THEN Replayed
            ELSE [manifest EXCEPT !.in_progress = TRUE, !.scopes = Unlisted,
                    !.completed = {}]
  /\ pc' = CASE torn -> "failed"
             [] manifest.in_progress -> "replay"
             [] OTHER -> "opening"
  /\ UNCHANGED <<remote, disk, history, crashes>>

\* ObjectCache::open.  A fresh session empties the journal before it publishes
\* its manifest; a session in progress is replayed, a torn line truncated.
Open ==
  /\ pc = "closed" /\ runs < MaxRuns
  /\ runs' = runs + 1
  /\ torn' = FALSE
  /\ visited' = [k \in Key |-> Absent]
  /\ pending' = NoObjects /\ page' = NoPage
  /\ IF manifest.in_progress
       THEN /\ mem' = Replayed
            /\ pc' = "replay"
            /\ UNCHANGED <<journal, history>>
       ELSE /\ mem' = [manifest EXCEPT !.in_progress = TRUE,
                         !.scopes = Unlisted, !.completed = {}]
            /\ journal' = <<>>
            /\ pc' = "opening"
            /\ held' = [k \in Key |-> {bucket[k]}]
            /\ stable' = {k \in Key : bucket[k] # Absent}
  /\ UNCHANGED <<remote, manifest, files, crashes>>

\* save() at the end of a fresh open.
SaveOpen ==
  /\ pc = "opening"
  /\ manifest' = mem
  /\ pc' = "replay"
  /\ UNCHANGED <<remote, journal, torn, files, mem, pending, page, visited,
                 history, runs, crashes>>

\* The objects of completed pages go to the visitor again; read() fails the
\* run when a file is gone or is not what its digest says.
Replay ==
  /\ pc = "replay"
  /\ IF \A k \in mem.completed : files[k] = mem.objects[k].digest
       THEN /\ visited' = [k \in Key |-> IF k \in mem.completed THEN files[k]
                                         ELSE Absent]
            /\ pc' = "list"
       ELSE pc' = "failed" /\ UNCHANGED visited
  /\ UNCHANGED <<remote, disk, mem, pending, page, history, runs, crashes>>

\* The scopes whose listing is not complete.
IncompleteScopes == {s \in Scope : ~mem.scopes[s].complete}

\* One page of the first incomplete scope, from its continuation token on: up
\* to PageSize keys with their versions, and whether more follow.
ListPage ==
  /\ pc = "list" /\ IncompleteScopes # {}
  /\ LET s == Min(IncompleteScopes)
         rest == {k \in Key : ScopeOf[k] = s /\ bucket[k] # Absent
                                /\ k > mem.scopes[s].token}
         here == {k \in rest : Cardinality({j \in rest : j < k}) < PageSize}
     IN page' = [scope |-> s, todo |-> here,
                 listed |-> [k \in Key |-> object_version(k)],
                 next |-> IF here = {} THEN 0 ELSE Max(here),
                 last |-> here = rest]
  /\ pc' = "visit"
  /\ UNCHANGED <<remote, disk, mem, pending, visited, history, runs, crashes>>

\* Fault: an object that is cached under any version is reused.
CachedUnderAnyVersion(k) == mem.objects[k] # None /\ files[k] # Absent

\* cached(): the version the key was stored under is the one just listed, and
\* its file is there.
Cached(k) ==
  /\ page.listed[k][1] # NoIdentity
  /\ mem.objects[k] # None /\ mem.objects[k].version = page.listed[k]
  /\ files[k] # Absent

\* Fault: a file that exists is taken to be up to date.
StoreOnce(k, version, data) ==
  LET obj == [version |-> version, digest |-> data]
  IN /\ files' = IF files[k] = Absent THEN [files EXCEPT ![k] = data] ELSE files
     /\ pending' = [pending EXCEPT ![k] = obj]
     /\ mem' = [mem EXCEPT !.objects[k] = obj, !.completed = @ \cup {k}]

\* store(): the file is rewritten unless the same object is already cached;
\* pending, objects and completed follow.
Store(k, version, data) ==
  LET obj == [version |-> version, digest |-> data]
  IN /\ files' = IF mem.objects[k] # obj \/ files[k] = Absent
                   THEN [files EXCEPT ![k] = data] ELSE files
     /\ pending' = [pending EXCEPT ![k] = obj]
     /\ mem' = [mem EXCEPT !.objects[k] = obj, !.completed = @ \cup {k}]

\* The version downloaded bytes are stored under: GCS and Azure take that of the
\* download, S3 and Hugging Face the listed one.
DownloadVersion(k) == IF provider = "gcs" THEN object_version(k) ELSE page.listed[k]

\* One object of the page: from the cache (its checksum must hold), or by
\* download of what the bucket holds now.  An object that has disappeared is
\* skipped; the Hugging Face driver returns the 404 as an error.
Visit(k) ==
  /\ pc = "visit" /\ k \in page.todo
  /\ k = Min(page.todo)
  /\ page' = [page EXCEPT !.todo = @ \ {k}]
  /\ \/ /\ Cached(k) /\ files[k] = mem.objects[k].digest
        /\ Store(k, page.listed[k], files[k])
        /\ visited' = [visited EXCEPT ![k] = files[k]]
        /\ UNCHANGED pc
     \/ /\ Cached(k) /\ files[k] # mem.objects[k].digest
        /\ pc' = "failed"
        /\ UNCHANGED <<files, pending, mem, visited>>
     \/ /\ ~Cached(k) /\ bucket[k] # Absent
        /\ Store(k, DownloadVersion(k), bucket[k])
        /\ visited' = [visited EXCEPT ![k] = bucket[k]]
        /\ UNCHANGED pc
     \/ /\ ~Cached(k) /\ bucket[k] = Absent
        /\ pc' = IF Stamped THEN pc ELSE "gone"
        /\ UNCHANGED <<files, pending, mem, visited>>
  /\ UNCHANGED <<remote, manifest, journal, torn, history, runs, crashes>>

\* The scope's position after this page.
Mark == [token |-> page.next, complete |-> page.last]

\* finish_page: the journal line is written and synced, then remembered.
FinishPage ==
  /\ pc = "visit" /\ page.todo = {}
  /\ journal' = Append(journal, [scope |-> page.scope, mark |-> Mark,
                                 objects |-> pending])
  /\ pending' = NoObjects
  /\ mem' = [mem EXCEPT !.scopes[page.scope] = Mark]
  /\ pc' = "list"
  /\ UNCHANGED <<remote, manifest, torn, files, page, visited, history, runs,
                 crashes>>

-----------------------------------------------------------------------------
(* finish(), when every scope is complete.                                 *)

\* Fault: the sweep goes by the manifest of the last finished session.
ObsoleteByManifest ==
  {k \in Key : files[k] # Absent /\ manifest.objects[k] = None}

\* Object files no completed key refers to are removed one by one.
Obsolete == {k \in Key : files[k] # Absent /\ k \notin mem.completed}

Sweep(k) ==
  /\ pc = "list" /\ IncompleteScopes = {}
  /\ k \in Obsolete
  /\ files' = [files EXCEPT ![k] = Absent]
  /\ UNCHANGED <<remote, manifest, journal, torn, mem, pending, page, pc,
                 visited, history, runs, crashes>>

\* Fault: entries of objects that are no longer listed stay.
CompactKeepingAll ==
  /\ pc = "list" /\ IncompleteScopes = {} /\ Obsolete = {}
  /\ mem' = [mem EXCEPT !.in_progress = FALSE]
  /\ manifest' = mem'
  /\ pc' = "trim"
  /\ UNCHANGED <<remote, journal, torn, files, pending, page, visited, history,
                 runs, crashes>>

\* The compacted manifest replaces the old one and ends the session.
Compact ==
  /\ pc = "list" /\ IncompleteScopes = {} /\ Obsolete = {}
  /\ mem' = [mem EXCEPT !.in_progress = FALSE,
               !.objects = [k \in Key |-> IF k \in mem.completed THEN @[k]
                                          ELSE None]]
  /\ manifest' = mem'
  /\ pc' = "trim"
  /\ UNCHANGED <<remote, journal, torn, files, pending, page, visited, history,
                 runs, crashes>>

Trim ==
  /\ pc = "trim"
  /\ journal' = <<>>
  /\ pc' = "finished"
  /\ UNCHANGED <<remote, manifest, torn, files, mem, pending, page, visited,
                 history, runs, crashes>>

\* The run returns, successfully or with the error of a failed checksum or of
\* a download.
Close ==
  /\ pc \in {"finished", "failed", "gone"}
  /\ pc' = "closed"
  /\ UNCHANGED <<remote, disk, mem, pending, page, visited, history, runs,
                 crashes>>

\* The process dies or gives up (a network error, an error of the visitor):
\* memory is lost, the OS drops the lock, an append may leave a torn line.
Interrupt ==
  /\ pc \notin {"closed", "finished", "failed", "gone"} /\ crashes < MaxCrashes
  /\ crashes' = crashes + 1
  /\ \/ UNCHANGED torn
     \/ pc = "visit" /\ page.todo = {} /\ torn' = TRUE
  /\ pc' = "closed"
  /\ mem' = manifest /\ pending' = NoObjects /\ page' = NoPage
  /\ UNCHANGED <<remote, manifest, journal, files, visited, history, runs>>

-----------------------------------------------------------------------------
Run ==
  \/ Open \/ SaveOpen \/ Replay \/ ListPage \/ FinishPage
  \/ Compact \/ Trim \/ Close
  \/ \E k \in Key : Visit(k) \/ Sweep(k)

\* No run is left.
Over == pc = "closed" /\ runs = MaxRuns /\ UNCHANGED vars

Next == Run \/ Interrupt \/ Over
          \/ \E k \in Key, c \in Content \cup {Absent} : Edit(k, c)

Spec == Init /\ [][Next]_vars

\* A run that is not interrupted takes its next step, and somebody runs the
\* command again.
FairSpec == Spec /\ WF_vars(Run)

-----------------------------------------------------------------------------
(* Properties.                                                             *)

IsManifest(m) ==
  /\ m.in_progress \in BOOLEAN
  /\ m.completed \subseteq Key
  /\ DOMAIN m.objects = Key /\ DOMAIN m.scopes = Scope
  /\ \A s \in Scope : m.scopes[s].token \in Key \cup {0}

\* The manifest, the journal and the listing have the shape of their structs.
TypeOK ==
  /\ IsManifest(manifest) /\ IsManifest(mem)
  /\ \A i \in DOMAIN journal : journal[i].scope \in Scope
                                 /\ DOMAIN journal[i].objects = Key
  /\ page.todo \subseteq Key
  /\ \A k \in Key : files[k] \in Content \cup {Absent}
  /\ pc \in {"closed", "opening", "replay", "list", "visit", "trim", "finished",
             "failed", "gone"}

\* "Repeat the command after interruption to resume" (INTEGRATIONS.md:68).
\* Without tampering no checksum ever fails: neither the replay of completed
\* pages nor the reuse of an earlier session's object aborts a run.
RunsNeverFail == pc # "failed"

\* It holds for the providers whose versions carry the modification time,
\* whatever was edited and interrupted before.
StampedRunsNeverFail == Stamped => RunsNeverFail

\* Objects whose listing says something about their content or its age.
Versioned == IF Stamped THEN Key ELSE Identified

\* At every instant a crash may leave behind, each object of a completed page
\* of the session in progress is on disk with the recorded digest.
CommittedObjectsAreOnDisk ==
  manifest.in_progress =>
    \A k \in Replayed.completed \cap Versioned :
      files[k] = Replayed.objects[k].digest

\* A finished run has shown the visitor every object that existed throughout
\* the session, the pages of its interrupted runs included.
NothingIsMissed ==
  pc = "finished" => \A k \in stable : visited[k] # Absent

\* What the visitor sees of an object is a content the object had during the
\* session, where versions carry the modification time: an incremental scan
\* never reports stale cached content ("Never label those bytes with the stale
\* listing ETag", azure_blob.rs:349).  A Hugging Face version does not carry it.
StampedContentIsCurrent ==
  Stamped => \A k \in Key : visited[k] # Absent => visited[k] \in held[k]

\* After finish() the cache is exactly the listing: no orphan file, no entry
\* without its file.
FinishedCacheIsExact ==
  pc = "finished" =>
    /\ ~manifest.in_progress
    /\ \A k \in Versioned : files[k] = manifest.objects[k].digest
    /\ \A k \in Key : /\ files[k] # Absent <=> k \in manifest.completed
                      /\ manifest.objects[k] # None <=> k \in manifest.completed

\* Resuming after each interruption gets a scan finished: with more runs than
\* interruptions one run completes (for Stamped versions).
SomeRunFinishes == Stamped => <>(pc = "finished")
=============================================================================
