----------------------------- MODULE GitHistory -----------------------------
(***************************************************************************)
(* Which blobs of a Git repository are scanned, and as of which commits.   *)
(* A full scan indexes every object and attributes each blob to the        *)
(* commits that first have it: one pass over the commit graph, parents     *)
(* before children, that carries the trees and blobs seen in the ancestry  *)
(* and skips what they cover (git_metadata_graph.rs,                       *)
(* git_candidate_summaries.rs, git_repo_enumerator.rs).  A scan of a       *)
(* branch compares each commit of a range with its first parent            *)
(* (enumerate.rs).  Both end with an error when the timeout of the         *)
(* repository passes.                                                      *)
(*                                                                         *)
(* A path is a sequence of names and a tree a sequence of entries.  Links, *)
(* submodules and objects that cannot be read are left out.                *)
(***************************************************************************)
EXTENDS Naturals, Sequences, FiniteSets

CONSTANTS
  Commit,
  Blob,
  Name,      \* of files and directories
  Contents,  \* the entries of each tree; a subtree has a smaller number
  Repos,     \* the repositories and options considered
  NoRepo,
  NoTree,    \* a commit, or its tree, is not in the object database
  NoCommit,
  LIMIT      \* of the candidates in a summary

Tree == DOMAIN Contents
Entry == [name : Name, kind : {"blob"}, id : Blob] \cup [name : Name, kind : {"tree"}, id : Nat]

ASSUME HistoryConstants ==
  /\ LIMIT \in Nat /\ NoTree \notin Tree /\ NoCommit \notin Commit
  /\ Contents \in Seq(Seq(Entry))
  /\ \A t \in Tree : \A i \in DOMAIN Contents[t] :
       Contents[t][i].kind = "tree" => Contents[t][i].id \in 1 .. t - 1
  /\ \A r \in Repos :
       /\ r.parents \in [Commit -> Seq(Commit)] /\ r.root \in [Commit -> Tree \cup {NoTree}]
       \* No commit is its own ancestor: its id is a hash of its parents' ids.
       /\ \A S \in (SUBSET Commit) \ {{}} : \E c \in S :
            \A i \in DOMAIN r.parents[c] : r.parents[c][i] \notin S
       /\ r.names \subseteq Name /\ r.rooted \subseteq Seq(Name)
       /\ r.filtered \in BOOLEAN /\ r.matching \subseteq Blob /\ r.tiny \subseteq Blob
       /\ r.branch \in BOOLEAN /\ r.tips \subseteq Commit
       /\ r.base \in Commit \cup {NoCommit}
       /\ r.shallow \subseteq Commit /\ r.window \subseteq Commit

VARIABLES
  repo,               \* the repository, the options, and the outcome of filters
  late,               \* its timeout has passed
  progress,
  commit_worklist,    \* commits whose parents are done; those to compare
  visited_commits,
  seen_sets,          \* for each commit, what its visited parents have seen
  commit, seen,       \* the commit at hand, and what its ancestry has seen
  tree_worklist,      \* its trees still to be read, with their paths
  entries,            \* the rest of the tree being read
  blobs_encountered,  \* its new blobs
  introduced,         \* for each commit, its new blobs and their paths
  blobs               \* the result: for each blob, where it is first seen

commitVars == <<commit, seen, tree_worklist, entries, blobs_encountered>>
graphVars == <<visited_commits, seen_sets>>
historyVars == <<repo, late, progress, commit_worklist, graphVars, commitVars, introduced, blobs>>

\* The commits that are reached from some by the edges of a graph.
Reached(from, edges) ==
  {c \in Commit : \A S \in SUBSET Commit :
     from \subseteq S /\ (\A d \in S : edges[d] \subseteq S) => c \in S}

\* The files of each tree: paths and blobs.
Files[t \in Tree] ==
  UNION {LET e == Contents[t][i]
         IN IF e.kind = "blob" THEN {<<<<e.name>>, e.id>>}
            ELSE {<<<<e.name>> \o f[1], f[2]>> : f \in Files[e.id]} : i \in DOMAIN Contents[t]}

FilesOf(c) == IF repo.root[c] = NoTree THEN {} ELSE Files[repo.root[c]]

\* build_exclude_globset: a plain name matches wherever it is in the path, a
\* pattern with a wildcard from the root of the repository.
Excluded(path) ==
  \E i \in DOMAIN path : path[i] \in repo.names \/ SubSeq(path, 1, i) \in repo.rooted

-----------------------------------------------------------------------------
(* The index of a full scan.                                               *)

\* RepositoryIndex: all blobs of the minimum size, of any commit or none.
Objects == Blob \ repo.tiny

\* retain_content_candidates: with a filter, those a rule may match.
Indexed == IF repo.filtered THEN Objects \cap repo.matching ELSE Objects

\* summarize: the candidates in a tree, as far as LIMIT allows to keep them.
Candidates(t) == {f[2] : f \in Files[t]} \cap Indexed

is_candidate_tree(t) == repo.filtered => Candidates(t) # {}

\* Fault: one candidate in the ancestry is taken for all of them.
covered_by_any(t, ancestors) ==
  repo.filtered /\ Candidates(t) \cap ancestors # {}

\* CandidateSummaries::covered: the ancestry has every candidate of the tree.
covered(t, ancestors) ==
  /\ repo.filtered
  /\ Cardinality(Candidates(t)) \leq LIMIT
  /\ Candidates(t) \subseteq ancestors

\* The tree has nothing new.
Pruned(t, s) ==
  \/ ~is_candidate_tree(t)
  \/ covered(t, s.blobs)
  \/ t \in s.trees

\* The commit graph: a commit whose tree is missing has no edges of its own.
ParentsOf(c) ==
  IF repo.root[c] = NoTree THEN {} ELSE {repo.parents[c][i] : i \in DOMAIN repo.parents[c]}
ChildrenOf(c) == {d \in Commit : c \in ParentsOf(d)}
Nodes == {c \in Commit : repo.root[c] # NoTree \/ ChildrenOf(c) # {}}

-----------------------------------------------------------------------------
Nothing == [trees |-> {}, blobs |-> {}]
NoBlobs == [b \in {} |-> {}]

HistoryInit ==
  /\ repo = NoRepo /\ late = FALSE /\ progress = "idle"
  /\ commit_worklist = {} /\ visited_commits = {}
  /\ seen_sets = [c \in Commit |-> Nothing]
  /\ commit = NoCommit /\ seen = Nothing
  /\ tree_worklist = <<>> /\ entries = <<>> /\ blobs_encountered = {}
  /\ introduced = [c \in Commit |-> {}] /\ blobs = NoBlobs

\* into_blob_iter: the repository is opened and its timeout starts.
OpenRepository ==
  /\ progress = "idle"
  /\ repo' \in Repos
  /\ progress' = "open"
  /\ UNCHANGED <<late, commit_worklist, graphVars, commitVars, introduced, blobs>>

Running == progress \in {"open", "commits", "trees", "assemble", "diffs"}

TimePasses ==
  /\ Running /\ ~late
  /\ late' = TRUE
  /\ UNCHANGED <<repo, progress, commit_worklist, graphVars, commitVars, introduced, blobs>>

\* check_deadline: the enumeration returns an error.
TimesOut ==
  /\ late /\ progress \in {"open", "assemble", "diffs"}
  /\ progress' = "failed"
  /\ UNCHANGED <<repo, late, commit_worklist, graphVars, commitVars, introduced, blobs>>

\* The index, the filter, the summaries and the commit graph; when the filter
\* leaves no blob the result is empty.  The pass starts at the roots.
IndexObjects ==
  /\ progress = "open" /\ ~late /\ ~repo.branch
  /\ IF Indexed = {} /\ repo.filtered
       THEN progress' = "done" /\ UNCHANGED commit_worklist
       ELSE /\ progress' = "commits"
            /\ commit_worklist' = {c \in Nodes : ParentsOf(c) = {}}
  /\ UNCHANGED <<repo, late, graphVars, commitVars, introduced, blobs>>

\* The heap gives a commit with the fewest children.
PopCommit ==
  /\ progress = "commits" /\ ~late
  /\ \E c \in commit_worklist :
       /\ \A d \in commit_worklist : Cardinality(ChildrenOf(c)) \leq Cardinality(ChildrenOf(d))
       /\ commit' = c
       /\ commit_worklist' = commit_worklist \ {c}
       /\ visited_commits' = visited_commits \cup {c}
       /\ LET t == repo.root[c]
          IN IF t = NoTree \/ Pruned(t, seen_sets[c])
               THEN seen' = seen_sets[c] /\ tree_worklist' = <<>>
               ELSE /\ seen' = [seen_sets[c] EXCEPT !.trees = @ \cup {t}]
                    /\ tree_worklist' = <<<<<<>>, t>>>>
       /\ seen_sets' = [seen_sets EXCEPT ![c] = Nothing]
  /\ progress' = "trees"
  /\ UNCHANGED <<repo, late, entries, blobs_encountered, introduced, blobs>>

\* visit_tree takes the last tree of its worklist.
OpenTree ==
  /\ progress = "trees" /\ ~late
  /\ entries = <<>> /\ tree_worklist # <<>>
  /\ LET item == tree_worklist[Len(tree_worklist)]
         found == Contents[item[2]]
     IN entries' = [i \in DOMAIN found |->
                      [path |-> Append(item[1], found[i].name),
                       kind |-> found[i].kind, id |-> found[i].id]]
  /\ tree_worklist' = SubSeq(tree_worklist, 1, Len(tree_worklist) - 1)
  /\ UNCHANGED <<repo, late, progress, commit_worklist, graphVars, commit, seen,
                 blobs_encountered, introduced, blobs>>

\* A subtree: one under an excluded path is not marked as seen.
VisitSubtree(e) ==
  IF Pruned(e.id, seen) \/ Excluded(e.path) THEN UNCHANGED <<seen, tree_worklist>>
  ELSE /\ seen' = [seen EXCEPT !.trees = @ \cup {e.id}]
       /\ tree_worklist' = Append(tree_worklist, <<e.path, e.id>>)

\* A blob the ancestry does not have is introduced here, at each of its paths.
VisitBlob(e) ==
  IF e.id \in Indexed \ seen.blobs /\ ~Excluded(e.path)
    THEN /\ blobs_encountered' = blobs_encountered \cup {e.id}
         /\ introduced' = [introduced EXCEPT ![commit] = @ \cup {<<e.id, e.path>>}]
    ELSE UNCHANGED <<blobs_encountered, introduced>>

VisitEntry ==
  /\ progress = "trees" /\ ~late /\ entries # <<>>
  /\ LET e == Head(entries)
     IN \/ e.kind = "tree" /\ VisitSubtree(e) /\ UNCHANGED <<blobs_encountered, introduced>>
        \/ e.kind = "blob" /\ VisitBlob(e) /\ UNCHANGED <<seen, tree_worklist>>
  /\ entries' = Tail(entries)
  /\ UNCHANGED <<repo, late, progress, commit_worklist, graphVars, commit, blobs>>

\* The children of c that have no parent left to visit.
Ready(c) == {d \in ChildrenOf(c) : ParentsOf(d) \subseteq visited_commits}

\* The trees are done: the children inherit what was seen.
LeaveCommit ==
  /\ progress = "trees" /\ entries = <<>> /\ tree_worklist = <<>>
  /\ LET all == seen.blobs \cup blobs_encountered
     IN seen_sets' = [c \in Commit |->
          IF c \notin ChildrenOf(commit) THEN seen_sets[c]
          ELSE [trees |-> seen_sets[c].trees \cup seen.trees,
                blobs |-> seen_sets[c].blobs \cup all]]
  /\ commit_worklist' = commit_worklist \cup Ready(commit)
  /\ commit' = NoCommit /\ seen' = Nothing /\ blobs_encountered' = {}
  /\ progress' = "commits"
  /\ UNCHANGED <<repo, late, visited_commits, tree_worklist, entries, introduced, blobs>>

\* Every commit is visited.
EndTraversal ==
  /\ progress = "commits" /\ commit_worklist = {}
  /\ progress' = "assemble"
  /\ UNCHANGED <<repo, late, commit_worklist, graphVars, commitVars, introduced, blobs>>

\* The pass meets the timeout; its error is kept, what it found is not.
AbandonTraversal ==
  /\ late
  /\ \/ progress = "commits" /\ commit_worklist # {}
     \/ progress = "trees" /\ (entries # <<>> \/ tree_worklist # <<>>)
  /\ progress' = "assemble"
  /\ commit_worklist' = {} /\ introduced' = [c \in Commit |-> {}]
  /\ UNCHANGED <<repo, late, graphVars, commitVars, blobs>>

FirstSeen(b) ==
  UNION {{<<c, i[2]>> : i \in {j \in introduced[c] : j[1] = b}} : c \in Commit}

\* The blobs of the index with their first commits.  A blob goes if all of its
\* appearances are excluded; one without any is taken for unreferenced.
Assemble ==
  /\ progress = "assemble" /\ ~late
  /\ LET Kept(b) == {s \in FirstSeen(b) : ~Excluded(s[2])}
     IN blobs' = [b \in {d \in Indexed : FirstSeen(d) = {} \/ Kept(d) # {}} |-> Kept(b)]
  /\ progress' = "done"
  /\ UNCHANGED <<repo, late, commit_worklist, graphVars, commitVars, introduced>>

-----------------------------------------------------------------------------
(* The history of a branch, or of all refs.                                *)

\* A shallow commit is a root, on its own edges only.
Upward(c) == IF c \in repo.shallow THEN <<>> ELSE repo.parents[c]

\* collect_git_history: the commits from the tips down to the ones in stop.
Walk(tips, stop) ==
  Reached(tips \ stop,
          [c \in Commit |-> {Upward(c)[i] : i \in DOMAIN Upward(c)} \ stop])

Baseline == IF repo.base = NoCommit THEN {} ELSE Walk({repo.base}, {})

\* Fault: the walk itself keeps to the time window.
SelectedInTime == Walk(repo.tips, Baseline \cup (Commit \ repo.window))

\* The commits of the range, whatever their time.
Selected == Walk(repo.tips, Baseline)

\* enumerate_git_branch_history, down to the collection of its commits.
CollectHistory ==
  /\ progress = "open" /\ ~late /\ repo.branch
  /\ commit_worklist' = Selected
  /\ progress' = "diffs"
  /\ UNCHANGED <<repo, late, graphVars, commitVars, introduced, blobs>>

\* enumerate_git_diff_repo: the files of a commit that its first parent does
\* not have, and all of them where there is no such parent.
\* (The patterns are also tried on the path with that of the repository in front:
\* one that matches a directory above the repository, and so would exclude
\* everything in it, is left out.)
Changes(c) ==
  LET ups == Upward(c)
      base == IF ups # <<>> /\ ups[1] \in Selected \cup Baseline THEN FilesOf(ups[1]) ELSE {}
  IN {f \in FilesOf(c) \ base : ~Excluded(f[1])}

\* One commit, unless it is outside of the time window.
DiffCommit ==
  /\ progress = "diffs" /\ ~late
  /\ \E c \in commit_worklist :
       LET new == IF c \in repo.window THEN Changes(c) ELSE {}
           old(b) == IF b \in DOMAIN blobs THEN blobs[b] ELSE {}
       IN /\ commit_worklist' = commit_worklist \ {c}
          /\ blobs' = [b \in DOMAIN blobs \cup {f[2] : f \in new} |->
                         old(b) \cup {<<c, f[1]>> : f \in {g \in new : g[2] = b}}]
  /\ UNCHANGED <<repo, late, progress, graphVars, commitVars, introduced>>

EndDiffs ==
  /\ progress = "diffs" /\ ~late /\ commit_worklist = {}
  /\ progress' = "done"
  /\ UNCHANGED <<repo, late, commit_worklist, graphVars, commitVars, introduced, blobs>>

\* The result goes to the scan, and the state of the enumeration with it.
HandOver ==
  /\ progress \in {"done", "failed"}
  /\ progress' = IF progress = "done" THEN "scanned" ELSE "skipped"
  /\ repo' = NoRepo /\ late' = FALSE
  /\ commit_worklist' = {} /\ visited_commits' = {}
  /\ seen_sets' = [c \in Commit |-> Nothing]
  /\ commit' = NoCommit /\ seen' = Nothing
  /\ tree_worklist' = <<>> /\ entries' = <<>> /\ blobs_encountered' = {}
  /\ introduced' = [c \in Commit |-> {}] /\ blobs' = NoBlobs

HistoryNext ==
  \/ OpenRepository \/ TimePasses \/ TimesOut
  \/ IndexObjects \/ PopCommit \/ OpenTree \/ VisitEntry \/ LeaveCommit
  \/ EndTraversal \/ AbandonTraversal \/ Assemble
  \/ CollectHistory \/ DiffCommit \/ EndDiffs
  \/ HandOver

HistorySpec == HistoryInit /\ [][HistoryNext]_historyVars

-----------------------------------------------------------------------------
(* What the enumeration promises.                                          *)

\* The commits a commit descends from.
Ancestors(c) == Reached(ParentsOf(c), [d \in Commit |-> ParentsOf(d)])

\* The blob is in the tree of c under a path that is scanned.
Shows(c, b) == \E f \in FilesOf(c) : f[2] = b /\ ~Excluded(f[1])

\* A blob is attributed to exactly the commits that have it while none of their
\* ancestors has, under paths it has there, and not to a sibling branch's: the
\* order of the pass, the summaries, the trees skipped as seen and the excluded
\* names change nothing of it.  (A pattern from the root can hide a path.)
FirstSeenIsExact ==
  progress = "done" /\ ~repo.branch => \A b \in Indexed :
    LET first == IF b \in DOMAIN blobs THEN blobs[b] ELSE {}
    IN /\ \A s \in first : <<s[2], b>> \in FilesOf(s[1]) /\ ~Excluded(s[2])
       /\ repo.rooted = {} =>
            {s[1] : s \in first}
              = {c \in Nodes : Shows(c, b) /\ \A a \in Ancestors(c) : ~Shows(a, b)}

\* Every file of a commit in the range is scanned as of that commit or one it
\* descends from, unless the baseline or a commit outside of the time window
\* has it; merges, shallow commits and skewed clocks lose nothing.
BranchHistoryIsComplete ==
  progress = "done" /\ repo.branch =>
    \A c \in Walk(repo.tips, {}) \ Baseline : \A f \in FilesOf(c) :
      Excluded(f[1]) \/ \E a \in Walk({c}, {}) :
        \/ f \in FilesOf(a) /\ (a \in Baseline \/ a \notin repo.window)
        \/ f[2] \in DOMAIN blobs /\ <<a, f[1]>> \in blobs[f[2]]

\* --exclude skips "any file or directory whose path matches this glob pattern"
\* (docs/ADVANCED.md:933): what is scanned has a path that no pattern matches.
ExcludedFilesAreSkipped ==
  progress = "done" => \A b \in DOMAIN blobs :
    (\E c \in Commit : \E f \in FilesOf(c) : f[2] = b) => \E c \in Commit : Shows(c, b)
=============================================================================
