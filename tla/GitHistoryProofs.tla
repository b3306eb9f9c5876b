-------------------------- MODULE GitHistoryProofs --------------------------
(***************************************************************************)
(* Which blobs of a repository are scanned, and as of which commits, for   *)
(* every commit graph without cycles, all trees and all options.           *)
(***************************************************************************)
EXTENDS GitHistory, SequenceTheorems, WellFoundedInduction, NaturalsInduction, TLAPS

-----------------------------------------------------------------------------
(* Walks over the commits.                                                 *)

\* The commits that are reached are closed under the edges, and the least such
\* set that has the start.
LEMMA ReachedCloses ==
  ASSUME NEW from \in SUBSET Commit, NEW edges \in [Commit -> SUBSET Commit]
  PROVE  /\ Reached(from, edges) \subseteq Commit
         /\ from \subseteq Reached(from, edges)
         /\ \A d \in Reached(from, edges) : edges[d] \subseteq Reached(from, edges)
         /\ \A S \in SUBSET Commit :
              from \subseteq S /\ (\A d \in S : edges[d] \subseteq S)
                => Reached(from, edges) \subseteq S
<1>1. \A S \in SUBSET Commit :
        from \subseteq S /\ (\A d \in S : edges[d] \subseteq S) => Reached(from, edges) \subseteq S
  BY DEF Reached
<1>2. Reached(from, edges) \subseteq Commit /\ from \subseteq Reached(from, edges)
  BY DEF Reached
<1>3. ASSUME NEW d \in Reached(from, edges), NEW c \in edges[d] PROVE c \in Reached(from, edges)
  <2>1. d \in Commit /\ c \in Commit
    BY <1>2
  <2>2. ASSUME NEW S \in SUBSET Commit, from \subseteq S, \A e \in S : edges[e] \subseteq S
        PROVE  c \in S
    <3>1. d \in S
      BY <1>1, <2>2
    <3>2. QED
      BY <2>2, <3>1
  <2>3. QED
    BY <2>1, <2>2 DEF Reached
<1>4. QED
  BY <1>1, <1>2, <1>3

\* What a repository is.
LEMMA RepoFacts ==
  ASSUME repo \in Repos
  PROVE  /\ repo.parents \in [Commit -> Seq(Commit)]
         /\ repo.root \in [Commit -> Tree \cup {NoTree}]
         /\ repo.tips \subseteq Commit /\ repo.base \in Commit \cup {NoCommit}
         /\ repo.names \subseteq Name
         /\ \A S \in SUBSET Commit : S # {} =>
              \E c \in S : \A i \in DOMAIN repo.parents[c] : repo.parents[c][i] \notin S
  BY HistoryConstants

\* The steps upward of a walk.
Above(c) == {Upward(c)[i] : i \in DOMAIN Upward(c)}

\* They are commits, and parents.
LEMMA AboveFacts ==
  ASSUME repo \in Repos, NEW c \in Commit
  PROVE  /\ Upward(c) \in Seq(Commit) /\ Above(c) \subseteq Commit
         /\ \A i \in DOMAIN Upward(c) : \E j \in DOMAIN repo.parents[c] :
              Upward(c)[i] = repo.parents[c][j]
<1>1. repo.parents[c] \in Seq(Commit)
  BY RepoFacts
<1>2. Upward(c) \in Seq(Commit)
  BY <1>1 DEF Upward
<1>3. \A i \in DOMAIN Upward(c) : Upward(c)[i] \in Commit
  BY <1>2
<1>4. \A i \in DOMAIN Upward(c) : \E j \in DOMAIN repo.parents[c] : Upward(c)[i] = repo.parents[c][j]
  BY <1>1 DEF Upward
<1>5. QED
  BY <1>2, <1>3, <1>4 DEF Above

\* A walk has its tips and what is above it, except for the stops, and nothing else.
LEMMA WalkCloses ==
  ASSUME repo \in Repos, NEW tips \in SUBSET Commit, NEW stop
  PROVE  /\ Walk(tips, stop) \subseteq Commit /\ tips \ stop \subseteq Walk(tips, stop)
         /\ \A d \in Walk(tips, stop) : Above(d) \ stop \subseteq Walk(tips, stop)
         /\ \A S \in SUBSET Commit :
              tips \ stop \subseteq S /\ (\A d \in S : Above(d) \ stop \subseteq S)
                => Walk(tips, stop) \subseteq S
<1> DEFINE edges == [c \in Commit |-> Above(c) \ stop]
<1>1. Walk(tips, stop) = Reached(tips \ stop, edges)
  BY DEF Walk, Above
<1>2. edges \in [Commit -> SUBSET Commit] /\ tips \ stop \in SUBSET Commit
  BY AboveFacts
<1>3. \A d \in Commit : edges[d] = Above(d) \ stop
  OBVIOUS
<1> HIDE DEF edges
<1>4. /\ Walk(tips, stop) \subseteq Commit /\ tips \ stop \subseteq Walk(tips, stop)
      /\ \A d \in Walk(tips, stop) : edges[d] \subseteq Walk(tips, stop)
      /\ \A S \in SUBSET Commit :
           tips \ stop \subseteq S /\ (\A d \in S : edges[d] \subseteq S) => Walk(tips, stop) \subseteq S
  BY <1>1, <1>2, ReachedCloses
<1>5. QED
  BY <1>3, <1>4

\* The baseline has what is above it.
LEMMA BaselineCloses ==
  ASSUME repo \in Repos
  PROVE  Baseline \subseteq Commit /\ \A d \in Baseline : Above(d) \subseteq Baseline
<1>1. CASE repo.base = NoCommit
  BY <1>1 DEF Baseline
<1>2. CASE repo.base # NoCommit
  <2>1. {repo.base} \in SUBSET Commit /\ Baseline = Walk({repo.base}, {})
    BY <1>2, RepoFacts DEF Baseline
  <2>2. /\ Walk({repo.base}, {}) \subseteq Commit
        /\ \A d \in Walk({repo.base}, {}) : Above(d) \ {} \subseteq Walk({repo.base}, {})
    BY <2>1, WalkCloses
  <2>3. QED
    BY <2>1, <2>2
<1>3. QED
  BY <1>1, <1>2

\* The range has every commit of the history that is not in the baseline.
LEMMA SelectedIsRest ==
  ASSUME repo \in Repos
  PROVE  Walk(repo.tips, {}) \ Baseline \subseteq Selected
<1>1. repo.tips \in SUBSET Commit
  BY RepoFacts
<1> DEFINE S == Selected \cup Baseline
<1>2. /\ Selected \subseteq Commit /\ repo.tips \ Baseline \subseteq Selected
      /\ \A d \in Selected : Above(d) \ Baseline \subseteq Selected
  BY <1>1, WalkCloses DEF Selected
<1>3. S \in SUBSET Commit /\ repo.tips \ {} \subseteq S
  BY <1>1, <1>2, BaselineCloses
<1>4. \A d \in S : Above(d) \ {} \subseteq S
  BY <1>2, BaselineCloses
<1> HIDE DEF S
<1>5. Walk(repo.tips, {}) \subseteq S
  BY <1>1, <1>3, <1>4, WalkCloses
<1>6. QED
  BY <1>5 DEF S

-----------------------------------------------------------------------------
(* The history of a branch.                                                *)

\* What the differences of a commit are recorded as.
Recorded(c) ==
  c \in repo.window =>
    \A f \in Changes(c) : f[2] \in DOMAIN blobs /\ <<c, f[1]>> \in blobs[f[2]]

\* The commits that are not in the worklist have been compared.
BranchInv ==
  /\ progress \notin {"idle", "scanned", "skipped"} => repo \in Repos
  /\ progress = "diffs" => repo.branch
  /\ progress \in {"commits", "trees", "assemble"} => ~repo.branch
  /\ progress = "diffs" => \A c \in Selected \ commit_worklist : Recorded(c)
  /\ progress = "done" /\ repo.branch => \A c \in Selected : Recorded(c)

\* Each step keeps it; comparing a commit records its differences.
LEMMA BranchNext == BranchInv /\ [HistoryNext]_historyVars => BranchInv'
<1> SUFFICES ASSUME BranchInv, [HistoryNext]_historyVars PROVE BranchInv'
  OBVIOUS
<1>1. CASE OpenRepository
  BY <1>1 DEF OpenRepository, BranchInv
<1>2. CASE UNCHANGED <<repo, progress, commit_worklist, blobs>>
  <2>1. Selected' = Selected /\ \A c : Changes(c)' = Changes(c)
    BY <1>2 DEF Selected, Baseline, Walk, Upward, Changes, FilesOf, Excluded
  <2>2. \A c : Recorded(c) => Recorded(c)'
    BY <1>2, <2>1 DEF Recorded
  <2>3. QED
    BY <1>2, <2>1, <2>2 DEF BranchInv
<1>3. CASE TimePasses \/ OpenTree \/ VisitEntry
  BY <1>2, <1>3 DEF TimePasses, OpenTree, VisitEntry
<1>4. CASE \/ TimesOut \/ IndexObjects \/ PopCommit \/ LeaveCommit \/ EndTraversal
           \/ AbandonTraversal \/ Assemble
  BY <1>4 DEF TimesOut, IndexObjects, PopCommit, LeaveCommit, EndTraversal, AbandonTraversal,
     Assemble, BranchInv
<1>5. CASE CollectHistory
  <2>1. /\ progress = "open" /\ progress' = "diffs" /\ repo.branch /\ repo' = repo
        /\ commit_worklist' = Selected
    BY <1>5 DEF CollectHistory
  <2>2. Selected' = Selected
    BY <2>1 DEF Selected, Baseline, Walk, Upward
  <2>3. QED
    BY <2>1, <2>2 DEF BranchInv
<1>6. CASE DiffCommit
  <2>1. progress = "diffs" /\ progress' = "diffs" /\ repo' = repo
    BY <1>6 DEF DiffCommit
  <2>2. Selected' = Selected /\ \A c : Changes(c)' = Changes(c)
    BY <2>1 DEF Selected, Baseline, Walk, Upward, Changes, FilesOf, Excluded
  <2> DEFINE new(c) == IF c \in repo.window THEN Changes(c) ELSE {}
             old(b) == IF b \in DOMAIN blobs THEN blobs[b] ELSE {}
  <2>3. PICK c \in commit_worklist :
          /\ commit_worklist' = commit_worklist \ {c}
          /\ blobs' = [b \in DOMAIN blobs \cup {f[2] : f \in new(c)} |->
                         old(b) \cup {<<c, f[1]>> : f \in {g \in new(c) : g[2] = b}}]
    BY <1>6 DEF DiffCommit
  <2>4. /\ DOMAIN blobs \subseteq DOMAIN blobs'
        /\ \A b \in DOMAIN blobs : blobs[b] \subseteq blobs'[b]
    BY <2>3
  <2>5. ASSUME NEW f \in new(c) PROVE f[2] \in DOMAIN blobs' /\ <<c, f[1]>> \in blobs'[f[2]]
    <3>1. f[2] \in DOMAIN blobs \cup {g[2] : g \in new(c)}
      OBVIOUS
    <3>2. f \in {g \in new(c) : g[2] = f[2]}
      OBVIOUS
    <3> HIDE DEF new, old
    <3>3. blobs'[f[2]] = old(f[2]) \cup {<<c, g[1]>> : g \in {h \in new(c) : h[2] = f[2]}}
      BY <2>3, <3>1
    <3>4. QED
      BY <2>3, <3>1, <3>2, <3>3
  <2>6. ASSUME NEW d \in Selected' \ commit_worklist' PROVE Recorded(d)'
    <3>1. CASE d = c
      BY <2>1, <2>2, <2>5, <3>1 DEF Recorded
    <3>2. CASE d # c
      <4>1. Recorded(d)
        BY <2>1, <2>2, <2>3, <2>6, <3>2 DEF BranchInv
      <4>2. QED
        BY <2>1, <2>2, <2>4, <4>1 DEF Recorded
    <3>3. QED
      BY <3>1, <3>2
  <2>7. QED
    BY <2>1, <2>6 DEF BranchInv
<1>7. CASE EndDiffs
  <2>1. /\ progress = "diffs" /\ progress' = "done" /\ repo' = repo /\ blobs' = blobs
        /\ commit_worklist = {}
    BY <1>7 DEF EndDiffs
  <2>2. Selected' = Selected /\ \A c : Changes(c)' = Changes(c)
    BY <2>1 DEF Selected, Baseline, Walk, Upward, Changes, FilesOf, Excluded
  <2>3. \A c : Recorded(c) => Recorded(c)'
    BY <2>1, <2>2 DEF Recorded
  <2>4. QED
    BY <2>1, <2>2, <2>3 DEF BranchInv
<1>8. CASE HandOver
  BY <1>8 DEF HandOver, BranchInv
<1>9. CASE UNCHANGED historyVars
  BY <1>2, <1>9 DEF historyVars
<1>10. QED
  BY <1>1, <1>3, <1>4, <1>5, <1>6, <1>7, <1>8, <1>9 DEF HistoryNext

\* Every file of a commit in the range is scanned as of a commit of its ancestry.
THEOREM BranchHistory == HistorySpec => []BranchHistoryIsComplete
<1>1. ASSUME BranchInv PROVE BranchHistoryIsComplete
  <2> SUFFICES ASSUME progress = "done", repo.branch, NEW f
               PROVE  \A c \in Walk(repo.tips, {}) \ Baseline :
                        f \in FilesOf(c) => \/ Excluded(f[1])
                          \/ \E a \in Walk({c}, {}) :
                               \/ f \in FilesOf(a) /\ (a \in Baseline \/ a \notin repo.window)
                               \/ f[2] \in DOMAIN blobs /\ <<a, f[1]>> \in blobs[f[2]]
    BY DEF BranchHistoryIsComplete
  <2>1. repo \in Repos /\ \A c \in Selected : Recorded(c)
    BY <1>1 DEF BranchInv
  <2> DEFINE Good(a) == \/ f \in FilesOf(a) /\ (a \in Baseline \/ a \notin repo.window)
                        \/ f[2] \in DOMAIN blobs /\ <<a, f[1]>> \in blobs[f[2]]
             Bad == {c \in Walk(repo.tips, {}) \ Baseline :
                       f \in FilesOf(c) /\ ~Excluded(f[1]) /\ \A a \in Walk({c}, {}) : ~Good(a)}
  <2>2. Walk(repo.tips, {}) \subseteq Commit
        /\ \A d \in Walk(repo.tips, {}) : Above(d) \ {} \subseteq Walk(repo.tips, {})
    BY <2>1, RepoFacts, WalkCloses
  <2>3. Bad = {}
    <3>1. SUFFICES ASSUME Bad # {} PROVE FALSE
      OBVIOUS
    <3>2. Bad \in SUBSET Commit
      BY <2>2
    <3> HIDE DEF Bad
    <3>3. PICK c \in Bad : \A i \in DOMAIN repo.parents[c] : repo.parents[c][i] \notin Bad
      BY <2>1, <3>1, <3>2, RepoFacts
    <3>4. /\ c \in Walk(repo.tips, {}) \ Baseline /\ c \in Commit
          /\ f \in FilesOf(c) /\ ~Excluded(f[1]) /\ \A a \in Walk({c}, {}) : ~Good(a)
      BY <2>2 DEF Bad
    <3>5. {c} \in SUBSET Commit /\ c \in Walk({c}, {})
          /\ \A d \in Walk({c}, {}) : Above(d) \ {} \subseteq Walk({c}, {})
      BY <2>1, <3>4, WalkCloses
    <3>6. c \in repo.window /\ c \in Selected
      BY <2>1, <3>4, <3>5, SelectedIsRest
    <3>7. f \notin Changes(c)
      BY <2>1, <3>4, <3>5, <3>6 DEF Recorded
    <3>8. LET ups == Upward(c) IN ups # <<>> /\ f \in FilesOf(ups[1])
      BY <3>4, <3>7 DEF Changes
    <3>9. PICK p : p = Upward(c)[1]
      OBVIOUS
    <3>10. 1 \in DOMAIN Upward(c) /\ p \in Above(c) /\ f \in FilesOf(p) /\ p \in Commit
      BY <2>1, <3>4, <3>8, <3>9, AboveFacts DEF Above
    <3>11. p \in Walk({c}, {}) /\ p \in Walk(repo.tips, {})
      BY <2>2, <3>4, <3>5, <3>10
    <3>12. p \notin Baseline
      BY <3>4, <3>10, <3>11
    <3>13. \A a \in Walk({p}, {}) : ~Good(a)
      <4>1. Walk({c}, {}) \in SUBSET Commit
        BY <2>1, <3>5, WalkCloses
      <4>2. {p} \in SUBSET Commit /\ {p} \ {} \subseteq Walk({c}, {})
        BY <3>10, <3>11
      <4>3. Walk({p}, {}) \subseteq Walk({c}, {})
        BY <2>1, <3>5, <4>1, <4>2, WalkCloses
      <4>4. QED
        BY <3>4, <4>3
    <3>14. p \in Bad
      BY <3>4, <3>10, <3>11, <3>12, <3>13 DEF Bad
    <3>15. QED
      BY <2>1, <3>3, <3>4, <3>9, <3>10, <3>14, AboveFacts
  <2>4. QED
    BY <2>3
<1>2. HistoryInit => BranchInv
  BY DEF HistoryInit, BranchInv
<1>3. QED
  BY <1>1, <1>2, BranchNext, PTL DEF HistorySpec

-----------------------------------------------------------------------------
(* The files of trees.                                                     *)

\* A set of natural numbers that is not empty has a least one.
LEMMA LeastNumber ==
  ASSUME NEW S \in SUBSET Nat, S # {}
  PROVE  \E n \in S : \A k \in S : n \leq k
<1>1. PICK n \in S : \A k \in S : <<k, n>> \notin OpToRel(<, Nat)
  BY NatLessThanWellFounded, WFMin
<1>2. \A a \in Nat, b \in Nat : b < a => <<b, a>> \in OpToRel(<, Nat)
  BY DEF OpToRel
<1>3. ASSUME NEW k \in S PROVE n \leq k
  <2>1. ~(k < n)
    BY <1>1, <1>2, Zenon
  <2>2. QED
    BY <2>1
<1>4. QED
  BY <1>3

\* The trees are numbered, and a subtree comes before the tree it is in.
LEMMA TreeFacts ==
  /\ Tree = 1 .. Len(Contents) /\ Len(Contents) \in Nat
  /\ \A t \in Tree : /\ Contents[t] \in Seq(Entry)
       /\ \A i \in DOMAIN Contents[t] : Contents[t][i] \in Entry /\
            (Contents[t][i].kind = "tree" => Contents[t][i].id \in 1 .. t - 1 /\ Contents[t][i].id \in Tree)
<1>1. Contents \in Seq(Seq(Entry))
  BY HistoryConstants
<1>2. Tree = 1 .. Len(Contents) /\ Len(Contents) \in Nat
  BY <1>1 DEF Tree
<1>3. ASSUME NEW t \in Tree PROVE Contents[t] \in Seq(Entry)
  BY <1>1, <1>2
<1>4. ASSUME NEW t \in Tree, NEW i \in DOMAIN Contents[t] 
      PROVE Contents[t][i] \in Entry /\
            (Contents[t][i].kind = "tree" => Contents[t][i].id \in 1 .. t - 1 /\ Contents[t][i].id \in Tree)
  <2>1. Contents[t][i] \in Entry
    BY <1>3, ElementOfSeq
  <2>2. Contents[t][i].kind = "tree" => Contents[t][i].id \in 1 .. t - 1
    BY HistoryConstants
  <2>3. QED
    BY <1>2, <2>1, <2>2
<1>5. QED
  BY <1>2, <1>3, <1>4

\* The files of a tree, given those of its subtrees.
FilesBy(g, t) ==
  UNION {LET e == Contents[t][i]
         IN IF e.kind = "blob" THEN {<<<<e.name>>, e.id>>}
            ELSE {<<<<e.name>> \o f[1], f[2]>> : f \in g[e.id]} : i \in DOMAIN Contents[t]}

\* They only depend on the trees before it.
LEMMA FilesByLocal ==
  ASSUME NEW t \in Tree, NEW g, NEW h, \A k \in 1 .. t - 1 : g[k] = h[k]
  PROVE  FilesBy(g, t) = FilesBy(h, t)
<1>1. ASSUME NEW i \in DOMAIN Contents[t], Contents[t][i].kind # "blob"
      PROVE g[Contents[t][i].id] = h[Contents[t][i].id]
  <2>1. Contents[t][i].kind = "tree"
    BY <1>1, TreeFacts DEF Entry
  <2>2. QED
    BY <2>1, TreeFacts
<1> DEFINE Part(f, i) ==
      LET e == Contents[t][i]
      IN IF e.kind = "blob" THEN {<<<<e.name>>, e.id>>}
         ELSE {<<<<e.name>> \o n[1], n[2]>> : n \in f[e.id]}
<1>2. \A i \in DOMAIN Contents[t] : Part(g, i) = Part(h, i)
  BY <1>1
<1>3. FilesBy(g, t) = UNION {Part(g, i) : i \in DOMAIN Contents[t]}
      /\ FilesBy(h, t) = UNION {Part(h, i) : i \in DOMAIN Contents[t]}
  BY DEF FilesBy
<1> HIDE DEF Part
<1>4. QED
  BY <1>2, <1>3

\* Trees have files: those of one tree follow from those of the trees before it.
LEMMA FilesExist == \E g : g = [t \in Tree |-> FilesBy(g, t)]
<1> DEFINE Partial(n, g) == g = [t \in 1 .. n |-> FilesBy(g, t)]
           Bad == {n \in 0 .. Len(Contents) : ~\E g : Partial(n, g)}
<1>1. Bad = {}
  <2>1. SUFFICES ASSUME Bad # {} PROVE FALSE
    OBVIOUS
  <2>2. Bad \in SUBSET Nat
    BY TreeFacts
  <2>3. PICK n \in Bad : \A k \in Bad : n \leq k
    BY <2>1, <2>2, LeastNumber
  <2>4. n # 0
    <3>1. Partial(0, [t \in 1 .. 0 |-> {}])
      OBVIOUS
    <3>2. QED
      BY <3>1
  <2>5. n \in Nat /\ n - 1 \in 0 .. Len(Contents) /\ n - 1 \notin Bad /\ n \in Tree
    BY <2>3, <2>4, TreeFacts
  <2>6. PICK g : Partial(n - 1, g)
    BY <2>5
  <2> DEFINE h == [t \in 1 .. n |-> IF t = n THEN FilesBy(g, n) ELSE g[t]]
  <2>7. \A t \in 1 .. n : \A k \in 1 .. t - 1 : g[k] = h[k]
    BY <2>5
  <2>8. \A t \in 1 .. n : t \in Tree
    BY <2>5, TreeFacts
  <2>9. ASSUME NEW t \in 1 .. n PROVE h[t] = FilesBy(h, t)
    <3>1. FilesBy(g, t) = FilesBy(h, t)
      <4> HIDE DEF h
      <4>1. QED
      BY <2>7, <2>8, FilesByLocal
    <3>2. t # n => t \in 1 .. n - 1
      BY <2>5
    <3>3. t # n => g[t] = FilesBy(g, t)
      BY <2>6, <3>2
    <3>4. QED
      BY <3>1, <3>3
  <2>10. Partial(n, h)
    BY <2>9
  <2>11. QED
    BY <2>10
<1>2. Len(Contents) \in 0 .. Len(Contents)
  BY TreeFacts
<1>3. \E g : Partial(Len(Contents), g)
  BY <1>1, <1>2
<1>4. QED
  BY <1>3, TreeFacts

\* The definition of the files by recursion says what it seems to.
LEMMA FilesUnfold == \A t \in Tree : Files[t] = FilesBy(Files, t)
<1>1. Files = CHOOSE g : g = [t \in Tree |-> FilesBy(g, t)]
  BY DEF Files, FilesBy
<1>2. Files = [t \in Tree |-> FilesBy(Files, t)]
  BY <1>1, FilesExist
<1>3. QED
  BY <1>2

\* What is in the files of a tree.
LEMMA FilesFacts ==
  ASSUME NEW t \in Tree
  PROVE  /\ \A i \in DOMAIN Contents[t] :
              /\ Contents[t][i].kind = "blob" => <<<<Contents[t][i].name>>, Contents[t][i].id>> \in Files[t]
              /\ Contents[t][i].kind = "tree" => \A f \in Files[Contents[t][i].id] :
                   <<<<Contents[t][i].name>> \o f[1], f[2]>> \in Files[t]
         /\ \A n \in Files[t] : \E i \in DOMAIN Contents[t] :
              \/ Contents[t][i].kind = "blob" /\ n = <<<<Contents[t][i].name>>, Contents[t][i].id>>
              \/ Contents[t][i].kind = "tree" /\ \E f \in Files[Contents[t][i].id] :
                   n = <<<<Contents[t][i].name>> \o f[1], f[2]>>
<1> DEFINE Part(i) ==
      IF Contents[t][i].kind = "blob" THEN {<<<<Contents[t][i].name>>, Contents[t][i].id>>}
      ELSE {<<<<Contents[t][i].name>> \o f[1], f[2]>> : f \in Files[Contents[t][i].id]}
<1>1. Files[t] = UNION {Part(i) : i \in DOMAIN Contents[t]}
  BY FilesUnfold DEF FilesBy
<1>2. \A i \in DOMAIN Contents[t] : Contents[t][i].kind \in {"blob", "tree"}
  BY TreeFacts DEF Entry
<1>3. ASSUME NEW i \in DOMAIN Contents[t]
      PROVE  Part(i) \subseteq Files[t]
  <2> HIDE DEF Part
  <2>1. QED
    BY <1>1
<1>4. ASSUME NEW n \in Files[t] PROVE \E i \in DOMAIN Contents[t] : n \in Part(i)
  <2> HIDE DEF Part
  <2>1. QED
    BY <1>1
<1>5. ASSUME NEW i \in DOMAIN Contents[t], Contents[t][i].kind = "blob"
      PROVE  <<<<Contents[t][i].name>>, Contents[t][i].id>> \in Files[t]
  BY <1>3, <1>5
<1>6. ASSUME NEW i \in DOMAIN Contents[t], Contents[t][i].kind = "tree", NEW f \in Files[Contents[t][i].id]
      PROVE  <<<<Contents[t][i].name>> \o f[1], f[2]>> \in Files[t]
  BY <1>3, <1>6
<1>7. ASSUME NEW n \in Files[t]
      PROVE  \E i \in DOMAIN Contents[t] :
              \/ Contents[t][i].kind = "blob" /\ n = <<<<Contents[t][i].name>>, Contents[t][i].id>>
              \/ Contents[t][i].kind = "tree" /\ \E f \in Files[Contents[t][i].id] :
                   n = <<<<Contents[t][i].name>> \o f[1], f[2]>>
  <2>1. PICK i \in DOMAIN Contents[t] : n \in Part(i)
    BY <1>4
  <2>2. QED
    BY <1>2, <2>1
<1>8. QED
  BY <1>5, <1>6, <1>7

\* A file is a path and a blob.
LEMMA FilesTyped == \A t \in Tree : Files[t] \subseteq Seq(Name) \X Blob
<1> DEFINE Bad == {t \in Tree : ~(Files[t] \subseteq Seq(Name) \X Blob)}
<1>1. SUFFICES ASSUME Bad # {} PROVE FALSE
  OBVIOUS
<1>2. Bad \in SUBSET Nat /\ Bad \subseteq Tree
  BY TreeFacts
<1> HIDE DEF Bad
<1>3. PICK t \in Bad : \A k \in Bad : t \leq k
  BY <1>1, <1>2, LeastNumber
<1>4. t \in Tree /\ t \in Nat
  BY <1>2
<1>5. ASSUME NEW n \in Files[t] PROVE n \in Seq(Name) \X Blob
  <2>1. PICK i \in DOMAIN Contents[t] :
              \/ Contents[t][i].kind = "blob" /\ n = <<<<Contents[t][i].name>>, Contents[t][i].id>>
              \/ Contents[t][i].kind = "tree" /\ \E f \in Files[Contents[t][i].id] :
                   n = <<<<Contents[t][i].name>> \o f[1], f[2]>>
    BY <1>4, FilesFacts
  <2>2. Contents[t][i] \in Entry
    BY <1>4, TreeFacts
  <2>3. PICK name : name = Contents[t][i].name
    OBVIOUS
  <2>4. name \in Name
    BY <2>2, <2>3 DEF Entry
  <2>5. CASE Contents[t][i].kind = "blob"
    <3>1. Contents[t][i].id \in Blob
      BY <2>2, <2>5 DEF Entry
    <3>2. QED
      BY <2>1, <2>3, <2>4, <2>5, <3>1
  <2>6. CASE Contents[t][i].kind = "tree"
    <3>1. PICK k : k = Contents[t][i].id
      OBVIOUS
    <3>2. k \in Tree /\ k \in Nat /\ k < t
      BY <1>4, <2>6, <3>1, TreeFacts
    <3>3. Files[k] \subseteq Seq(Name) \X Blob
      BY <1>3, <1>4, <3>2 DEF Bad
    <3>4. PICK f \in Files[k] : n = <<<<name>> \o f[1], f[2]>>
      BY <2>1, <2>3, <2>6, <3>1
    <3>5. f[1] \in Seq(Name) /\ f[2] \in Blob
      BY <3>3
    <3>6. <<name>> \o f[1] \in Seq(Name)
      BY <2>4, <3>5
    <3>7. QED
      BY <3>4, <3>5, <3>6
  <2>7. QED
    BY <2>1, <2>5, <2>6
<1>6. QED
  BY <1>3, <1>4, <1>5 DEF Bad

-----------------------------------------------------------------------------
(* The order of the pass over the commit graph.                            *)

\* The pass before it begins, and between two commits.
Fresh ==
  /\ commit = NoCommit /\ entries = <<>> /\ tree_worklist = <<>> /\ blobs_encountered = {}

\* The commits the pass is done with.
Left == visited_commits \ {commit}

\* Parents come before children, and what has no parent left is in the worklist.
OrderInv ==
  /\ visited_commits \subseteq Nodes /\ commit_worklist \subseteq Nodes \ visited_commits
  /\ \A c \in visited_commits \cup commit_worklist : ParentsOf(c) \subseteq Left
  /\ \A c \in Nodes : ParentsOf(c) \subseteq Left => c \in visited_commits \cup commit_worklist

\* The phases of the pass.
ControlInv ==
  /\ progress \notin {"idle", "scanned", "skipped"} => repo \in Repos
  /\ progress \in {"idle", "open"} =>
       /\ Fresh /\ visited_commits = {}
       /\ seen_sets = [c \in Commit |-> Nothing] /\ introduced = [c \in Commit |-> {}]
  /\ progress = "commits" => Fresh
  /\ progress \in {"commits", "trees"} => OrderInv
  /\ progress = "trees" => commit \in visited_commits

\* The repository decides on the graph, the index and what is excluded.
LEMMA SameRepo ==
  ASSUME repo' = repo
  PROVE  /\ Nodes' = Nodes /\ Indexed' = Indexed
         /\ \A c : ParentsOf(c)' = ParentsOf(c) /\ ChildrenOf(c)' = ChildrenOf(c)
         /\ \A c : FilesOf(c)' = FilesOf(c) /\ Ancestors(c)' = Ancestors(c)
         /\ \A p : Excluded(p)' = Excluded(p)
         /\ \A c, b : Shows(c, b)' = Shows(c, b)
<1>1. \A c : ParentsOf(c)' = ParentsOf(c)
  BY DEF ParentsOf
<1>2. \A c : ChildrenOf(c)' = ChildrenOf(c)
  BY <1>1 DEF ChildrenOf
<1>3. Nodes' = Nodes
  BY <1>2 DEF Nodes
<1>4. Indexed' = Indexed
  BY DEF Indexed, Objects
<1>5. \A c : FilesOf(c)' = FilesOf(c)
  BY DEF FilesOf
<1>6. \A p : Excluded(p)' = Excluded(p)
  BY DEF Excluded
<1>7. \A c, b : Shows(c, b)' = Shows(c, b)
  BY <1>5, <1>6 DEF Shows
<1>8. \A c : Ancestors(c)' = Ancestors(c)
  BY <1>1 DEF Ancestors, Reached
<1>9. QED
  BY <1>1, <1>2, <1>3, <1>4, <1>5, <1>6, <1>7, <1>8

\* The commit graph.
LEMMA GraphFacts ==
  ASSUME repo \in Repos
  PROVE  /\ Nodes \subseteq Commit /\ NoCommit \notin Nodes
         /\ \A c \in Commit : ParentsOf(c) \subseteq Nodes
         /\ \A c, d \in Commit : c \in ParentsOf(d) <=> d \in ChildrenOf(c)
         /\ \A c, d \in Commit : c \in ParentsOf(d) => d \in Nodes
<1>1. \A c \in Commit : repo.parents[c] \in Seq(Commit)
  BY RepoFacts
<1>2. \A c \in Commit : ParentsOf(c) \subseteq Commit
  BY <1>1, ElementOfSeq DEF ParentsOf
<1>3. \A c, d \in Commit : c \in ParentsOf(d) <=> d \in ChildrenOf(c)
  BY DEF ChildrenOf
<1>4. \A c, d \in Commit : c \in ParentsOf(d) => c \in Nodes /\ d \in Nodes
  BY <1>3 DEF Nodes, ParentsOf
<1>5. NoCommit \notin Commit
  BY HistoryConstants
<1>6. QED
  BY <1>2, <1>3, <1>4, <1>5 DEF Nodes

\* Each step keeps the order; a commit that is left frees its children.
LEMMA ControlNext == ControlInv /\ [HistoryNext]_historyVars => ControlInv'
<1> SUFFICES ASSUME ControlInv, [HistoryNext]_historyVars PROVE ControlInv'
  OBVIOUS
<1>1. CASE OpenRepository
  BY <1>1 DEF OpenRepository, ControlInv, Fresh, graphVars, commitVars
<1>2. CASE UNCHANGED <<repo, progress, commit_worklist, visited_commits, seen_sets, commitVars, introduced>>
  <2>1. OrderInv => OrderInv'
    BY <1>2, SameRepo DEF OrderInv, Left, commitVars
  <2>2. QED
    BY <1>2, <2>1 DEF ControlInv, Fresh, commitVars
<1>3. CASE TimePasses
  BY <1>2, <1>3 DEF TimePasses, graphVars
<1>4. CASE TimesOut \/ EndTraversal \/ AbandonTraversal \/ Assemble \/ CollectHistory
           \/ DiffCommit \/ EndDiffs \/ HandOver
  BY <1>4 DEF TimesOut, EndTraversal, AbandonTraversal, Assemble, CollectHistory, DiffCommit,
     EndDiffs, HandOver, ControlInv
<1>5. CASE IndexObjects
  <2>1. /\ progress = "open" /\ repo' = repo /\ visited_commits = {} /\ visited_commits' = {}
        /\ UNCHANGED commitVars /\ Fresh /\ repo \in Repos
    BY <1>5 DEF IndexObjects, ControlInv, graphVars
  <2>2. \/ progress' = "done"
        \/ progress' = "commits" /\ commit_worklist' = {c \in Nodes : ParentsOf(c) = {}}
    BY <1>5 DEF IndexObjects
  <2>3. CASE progress' = "commits" /\ commit_worklist' = {c \in Nodes : ParentsOf(c) = {}}
    <3>1. Fresh'
      BY <2>1 DEF Fresh, commitVars
    <3>2. OrderInv'
      BY <2>1, <2>3, SameRepo DEF OrderInv, Left
    <3>3. QED
      BY <2>1, <2>3, <3>1, <3>2 DEF ControlInv
  <2>4. QED
    BY <2>1, <2>2, <2>3 DEF ControlInv
<1>6. CASE PopCommit
  <2>1. /\ progress = "commits" /\ progress' = "trees" /\ repo' = repo /\ repo \in Repos
        /\ Fresh /\ OrderInv
    BY <1>6 DEF PopCommit, ControlInv
  <2>2. PICK c \in commit_worklist :
          /\ commit' = c /\ commit_worklist' = commit_worklist \ {c}
          /\ visited_commits' = visited_commits \cup {c}
    BY <1>6 DEF PopCommit
  <2>3. Left' = Left
    BY <2>1, <2>2, GraphFacts DEF Left, OrderInv, Fresh
  <2>4. OrderInv'
    BY <2>1, <2>2, <2>3, SameRepo DEF OrderInv
  <2>5. QED
    BY <2>1, <2>2, <2>4 DEF ControlInv
<1>7. CASE OpenTree \/ VisitEntry
  <2>1. /\ progress = "trees" /\ UNCHANGED <<progress, repo, commit, commit_worklist, visited_commits>>
    BY <1>7 DEF OpenTree, VisitEntry, graphVars
  <2>2. OrderInv => OrderInv'
    BY <2>1, SameRepo DEF OrderInv, Left
  <2>3. QED
    BY <2>1, <2>2 DEF ControlInv
<1>8. CASE LeaveCommit
  <2>1. /\ progress = "trees" /\ progress' = "commits" /\ repo' = repo /\ repo \in Repos
        /\ OrderInv /\ commit \in visited_commits /\ commit' = NoCommit
        /\ commit_worklist' = commit_worklist \cup Ready(commit)
        /\ visited_commits' = visited_commits
    BY <1>8 DEF LeaveCommit, ControlInv
  <2>2. Fresh'
    BY <1>8 DEF LeaveCommit, Fresh
  <2>3. Left' = visited_commits /\ Left = visited_commits \ {commit} /\ commit \in Commit
    BY <2>1, GraphFacts DEF Left, OrderInv
  <2>4. ASSUME NEW d \in Ready(commit)
        PROVE  d \in Nodes \ visited_commits /\ ParentsOf(d) \subseteq visited_commits
    <3>1. d \in Commit /\ commit \in ParentsOf(d) /\ ParentsOf(d) \subseteq visited_commits
      BY DEF Ready, ChildrenOf
    <3>2. QED
      BY <2>1, <2>3, <3>1, GraphFacts DEF OrderInv
  <2>5. ASSUME NEW c \in Nodes, ParentsOf(c) \subseteq visited_commits
        PROVE  c \in visited_commits \cup commit_worklist'
    <3>1. CASE commit \in ParentsOf(c)
      BY <2>1, <2>3, <2>5, <3>1, GraphFacts DEF Ready
    <3>2. CASE commit \notin ParentsOf(c)
      BY <2>1, <2>3, <2>5, <3>2 DEF OrderInv
    <3>3. QED
      BY <3>1, <3>2
  <2>6. OrderInv'
    BY <2>1, <2>3, <2>4, <2>5, SameRepo DEF OrderInv
  <2>7. QED
    BY <2>1, <2>2, <2>6 DEF ControlInv
<1>9. CASE UNCHANGED historyVars
  BY <1>2, <1>9 DEF historyVars, graphVars
<1>10. QED
  BY <1>1, <1>3, <1>4, <1>5, <1>6, <1>7, <1>8, <1>9 DEF HistoryNext

-----------------------------------------------------------------------------
(* What is read of the trees of a commit.                                  *)

Elements(s) == {s[k] : k \in DOMAIN s}

\* What is taken off a sequence, and what is put at its end.
LEMMA ElementsFacts ==
  ASSUME NEW T, NEW s \in Seq(T)
  PROVE  /\ Elements(s) \subseteq T
         /\ s = <<>> => Elements(s) = {}
         /\ \A e \in T : Append(s, e) \in Seq(T) /\ Elements(Append(s, e)) = Elements(s) \cup {e}
         /\ s # <<>> => /\ Tail(s) \in Seq(T) /\ Head(s) \in T
                        /\ Elements(s) = {Head(s)} \cup Elements(Tail(s))
                        /\ SubSeq(s, 1, Len(s) - 1) \in Seq(T) /\ s[Len(s)] \in T
                        /\ Elements(s) = Elements(SubSeq(s, 1, Len(s) - 1)) \cup {s[Len(s)]}
<1>1. Len(s) \in Nat /\ DOMAIN s = 1 .. Len(s) /\ \A k \in 1 .. Len(s) : s[k] \in T
  OBVIOUS
<1>2. Elements(s) \subseteq T /\ (s = <<>> => Elements(s) = {})
  BY <1>1 DEF Elements
<1>3. ASSUME NEW e \in T
      PROVE  Append(s, e) \in Seq(T) /\ Elements(Append(s, e)) = Elements(s) \cup {e}
  <2>1. /\ Append(s, e) \in Seq(T) /\ DOMAIN Append(s, e) = 1 .. Len(s) + 1
        /\ \A k \in 1 .. Len(s) : Append(s, e)[k] = s[k]
        /\ Append(s, e)[Len(s) + 1] = e
    BY <1>1
  <2>2. 1 .. Len(s) + 1 = (1 .. Len(s)) \cup {Len(s) + 1}
    BY <1>1
  <2>3. QED
    BY <1>1, <2>1, <2>2 DEF Elements
<1>4. ASSUME s # <<>>
      PROVE  /\ Tail(s) \in Seq(T) /\ Head(s) \in T
             /\ Elements(s) = {Head(s)} \cup Elements(Tail(s))
  <2>1. /\ Tail(s) \in Seq(T) /\ Head(s) = s[1] /\ Len(s) # 0 /\ DOMAIN Tail(s) = 1 .. Len(s) - 1
        /\ \A k \in 1 .. Len(s) - 1 : Tail(s)[k] = s[k + 1]
    BY <1>1, <1>4
  <2>2. \A k \in 1 .. Len(s) : k = 1 \/ (k - 1 \in 1 .. Len(s) - 1 /\ s[k] = Tail(s)[k - 1])
    BY <1>1, <2>1
  <2>3. \A k \in 1 .. Len(s) - 1 : k + 1 \in 1 .. Len(s) /\ Tail(s)[k] = s[k + 1]
    BY <1>1, <2>1
  <2>4. 1 \in 1 .. Len(s)
    BY <1>1, <2>1
  <2>5. Elements(s) \subseteq {Head(s)} \cup Elements(Tail(s))
    <3>1. ASSUME NEW k \in DOMAIN s PROVE s[k] \in {Head(s)} \cup Elements(Tail(s))
      <4>1. CASE k = 1
        BY <2>1, <4>1
      <4>2. CASE k # 1
        <5>1. k - 1 \in DOMAIN Tail(s) /\ s[k] = Tail(s)[k - 1]
          BY <1>1, <2>1, <2>2, <4>2
        <5>2. QED
          BY <5>1 DEF Elements
      <4>3. QED
        BY <4>1, <4>2
    <3>2. QED
      BY <3>1 DEF Elements
  <2>6. Elements(Tail(s)) \subseteq Elements(s) /\ Head(s) \in Elements(s) /\ Head(s) \in T
    BY <1>1, <2>1, <2>3, <2>4 DEF Elements
  <2>7. QED
    BY <2>1, <2>5, <2>6
<1>5. ASSUME s # <<>>
      PROVE  /\ SubSeq(s, 1, Len(s) - 1) \in Seq(T) /\ s[Len(s)] \in T
             /\ Elements(s) = Elements(SubSeq(s, 1, Len(s) - 1)) \cup {s[Len(s)]}
  <2>1. Len(s) # 0 /\ Len(s) - 1 \in Nat /\ Len(s) \in 1 .. Len(s)
    BY <1>1, <1>5
  <2>2. /\ SubSeq(s, 1, Len(s) - 1) \in Seq(T) /\ DOMAIN SubSeq(s, 1, Len(s) - 1) = 1 .. Len(s) - 1
        /\ \A k \in 1 .. Len(s) - 1 : SubSeq(s, 1, Len(s) - 1)[k] = s[k]
    BY <1>1, <2>1
  <2>3. 1 .. Len(s) = (1 .. Len(s) - 1) \cup {Len(s)}
    BY <1>1, <2>1
  <2>4. QED
    BY <1>1, <2>1, <2>2, <2>3 DEF Elements
<1>6. QED
  BY <1>2, <1>3, <1>4, <1>5

\* The trees at hand, their entries, and what was seen.
Item == Seq(Name) \X Tree
Found == [path : Seq(Name), kind : {"blob", "tree"}, id : Blob \cup Nat]
Known == [trees : SUBSET Tree, blobs : SUBSET Blob]

\* The tree is at the path in the commit.
Within(c, path, t) ==
  /\ path \in Seq(Name) /\ t \in Tree
  /\ \A f \in Files[t] : <<path \o f[1], f[2]>> \in FilesOf(c)

\* What is still to be read is in the commit at hand, and its trees are not excluded.
ReadInv ==
  /\ tree_worklist \in Seq(Item) /\ entries \in Seq(Found)
  /\ \A w \in Elements(tree_worklist) : Within(commit, w[1], w[2]) /\ ~Excluded(w[1])
  /\ \A e \in Elements(entries) :
       /\ e.kind = "blob" => <<e.path, e.id>> \in FilesOf(commit)
       /\ e.kind = "tree" => Within(commit, e.path, e.id)

\* What is introduced is in its commit and is scanned.
IntroducedInv ==
  /\ introduced \in [Commit -> SUBSET (Blob \X Seq(Name))]
  /\ \A c \in Commit : \A n \in introduced[c] :
       <<n[2], n[1]>> \in FilesOf(c) /\ ~Excluded(n[2]) /\ n[1] \in Indexed

\* Only what is in a commit is read and introduced.
PathInv ==
  /\ progress \in {"commits", "trees"} => seen_sets \in [Commit -> Known]
  /\ progress = "trees" => ReadInv /\ seen \in Known /\ blobs_encountered \subseteq Blob
  /\ progress \in {"commits", "trees", "assemble"} => IntroducedInv

\* The entry of a tree at a path.
At(path, e) == [path |-> Append(path, e.name), kind |-> e.kind, id |-> e.id]

\* An entry of a tree within the commit is within it too, one name further down.
LEMMA EntryWithin ==
  ASSUME NEW c, NEW path, NEW t, Within(c, path, t), NEW i \in DOMAIN Contents[t]
  PROVE  LET e == Contents[t][i]
         IN /\ At(path, e) \in Found
            /\ e.kind = "blob" => <<Append(path, e.name), e.id>> \in FilesOf(c)
            /\ e.kind = "tree" => Within(c, Append(path, e.name), e.id)
<1>1. path \in Seq(Name) /\ t \in Tree /\ \A f \in Files[t] : <<path \o f[1], f[2]>> \in FilesOf(c)
  BY DEF Within
<1>2. PICK e : e = Contents[t][i]
  OBVIOUS
<1>3. e \in Entry /\ (e.kind = "tree" => e.id \in Tree)
  BY <1>1, <1>2, TreeFacts
<1>4. PICK name : name = e.name
  OBVIOUS
<1>5. name \in Name /\ Append(path, name) \in Seq(Name) /\ Append(path, name) = path \o <<name>>
      /\ <<name>> \in Seq(Name)
  BY <1>1, <1>3, <1>4, AppendIsConcat DEF Entry
<1>6. At(path, e) \in Found
  BY <1>3, <1>4, <1>5 DEF At, Found, Entry
<1>7. ASSUME e.kind = "blob" PROVE <<Append(path, name), e.id>> \in FilesOf(c)
  <2>1. <<<<name>>, e.id>> \in Files[t]
    BY <1>1, <1>2, <1>4, <1>7, FilesFacts
  <2>2. QED
    BY <1>1, <1>5, <2>1
<1>8. ASSUME e.kind = "tree" PROVE Within(c, Append(path, name), e.id)
  <2>1. e.id \in Tree
    BY <1>3, <1>8
  <2>2. ASSUME NEW f \in Files[e.id] PROVE <<Append(path, name) \o f[1], f[2]>> \in FilesOf(c)
    <3>1. f[1] \in Seq(Name)
      BY <2>1, FilesTyped
    <3>2. <<<<name>> \o f[1], f[2]>> \in Files[t]
      BY <1>1, <1>2, <1>4, <1>8, FilesFacts
    <3>3. <<path \o (<<name>> \o f[1]), f[2]>> \in FilesOf(c)
      BY <1>1, <3>2
    <3>4. (path \o <<name>>) \o f[1] = path \o (<<name>> \o f[1])
      <4>1. \A s \in Seq(Name), u \in Seq(Name), v \in Seq(Name) : (s \o u) \o v = s \o (u \o v)
        OBVIOUS
      <4>2. QED
        BY <1>1, <1>5, <3>1, <4>1, Zenon
    <3>5. QED
      BY <1>5, <3>3, <3>4
  <2>3. QED
    BY <1>5, <2>1, <2>2 DEF Within
<1>9. QED
  BY <1>2, <1>4, <1>6, <1>7, <1>8

\* The root of a commit is at the empty path.
LEMMA RootWithin ==
  ASSUME NEW c \in Commit, repo.root[c] \in Tree, repo \in Repos
  PROVE  Within(c, <<>>, repo.root[c]) /\ ~Excluded(<<>>)
<1>1. repo.root[c] # NoTree
  BY HistoryConstants
<1>2. FilesOf(c) = Files[repo.root[c]]
  BY <1>1 DEF FilesOf
<1>3. ASSUME NEW f \in Files[repo.root[c]] PROVE <<<<>> \o f[1], f[2]>> = f
  BY FilesTyped
<1>4. QED
  BY <1>2, <1>3 DEF Within, Excluded

\* A tree is opened.
LEMMA OpenTreeReads ==
  ASSUME OpenTree, ReadInv
  PROVE  /\ tree_worklist' \in Seq(Item) /\ entries' \in Seq(Found)
         /\ \E w \in Item :
              /\ Elements(tree_worklist) = Elements(tree_worklist') \cup {w}
              /\ Within(commit, w[1], w[2]) /\ ~Excluded(w[1])
              /\ Elements(entries') = {At(w[1], Contents[w[2]][i]) : i \in DOMAIN Contents[w[2]]}
<1>1. tree_worklist \in Seq(Item) /\ tree_worklist # <<>>
  BY DEF OpenTree, ReadInv
<1>2. PICK w : w = tree_worklist[Len(tree_worklist)]
  OBVIOUS
<1>3. /\ w \in Item /\ tree_worklist' \in Seq(Item)
      /\ Elements(tree_worklist) = Elements(tree_worklist') \cup {w}
  <2>1. tree_worklist' = SubSeq(tree_worklist, 1, Len(tree_worklist) - 1)
    BY DEF OpenTree
  <2>2. QED
    BY <1>1, <1>2, <2>1, ElementsFacts
<1>4. Within(commit, w[1], w[2]) /\ ~Excluded(w[1])
  BY <1>3 DEF ReadInv
<1>5. entries' = [i \in DOMAIN Contents[w[2]] |-> At(w[1], Contents[w[2]][i])]
  BY <1>2 DEF OpenTree, At
<1>6. w[2] \in Tree /\ \A i \in DOMAIN Contents[w[2]] : At(w[1], Contents[w[2]][i]) \in Found
  BY <1>4, EntryWithin DEF Within
<1>7. Contents[w[2]] \in Seq(Entry)
  BY <1>6, TreeFacts
<1> HIDE DEF At, Found
<1>8. entries' \in Seq(Found)
  <2>1. Len(Contents[w[2]]) \in Nat /\ DOMAIN Contents[w[2]] = 1 .. Len(Contents[w[2]])
    BY <1>7
  <2>2. QED
    BY <1>5, <1>6, <2>1, IsASeq
<1>9. Elements(entries') = {At(w[1], Contents[w[2]][i]) : i \in DOMAIN Contents[w[2]]}
  BY <1>5 DEF Elements
<1>10. QED
  BY <1>3, <1>4, <1>8, <1>9

\* What is read stays in place.
LEMMA SameWithin ==
  ASSUME repo' = repo
  PROVE  \A c, path, t : Within(c, path, t)' <=> Within(c, path, t)
  BY SameRepo DEF Within

\* Each step keeps it; entries are at the path of their tree.
LEMMA PathNext == PathInv /\ ControlInv /\ [HistoryNext]_historyVars => PathInv'
<1> SUFFICES ASSUME PathInv, ControlInv, [HistoryNext]_historyVars PROVE PathInv'
  OBVIOUS
<1>1. ASSUME repo' = repo, introduced' = introduced, IntroducedInv PROVE IntroducedInv'
  BY <1>1, SameRepo DEF IntroducedInv
<1>2. CASE UNCHANGED <<repo, progress, graphVars, commitVars, introduced>>
  <2>1. ReadInv => ReadInv'
    BY <1>2, SameRepo, SameWithin DEF ReadInv, Elements, commitVars
  <2>2. QED
    BY <1>1, <1>2, <2>1 DEF PathInv, graphVars, commitVars
<1>3. CASE TimePasses
  BY <1>2, <1>3 DEF TimePasses
<1>4. CASE OpenRepository \/ TimesOut \/ Assemble \/ CollectHistory \/ EndDiffs \/ HandOver \/ DiffCommit
  BY <1>4 DEF OpenRepository, TimesOut, Assemble, CollectHistory, EndDiffs, HandOver, DiffCommit, PathInv
<1>5. CASE IndexObjects
  <2>1. /\ progress = "open" /\ progress' \in {"done", "commits"}
        /\ introduced' = introduced /\ seen_sets' = seen_sets
    BY <1>5 DEF IndexObjects, graphVars
  <2>2. /\ seen_sets = [c \in Commit |-> Nothing] /\ introduced = [c \in Commit |-> {}]
    BY <2>1 DEF ControlInv
  <2>3. seen_sets' \in [Commit -> Known]
    BY <2>1, <2>2 DEF Nothing, Known
  <2>4. IntroducedInv'
    BY <2>1, <2>2 DEF IntroducedInv
  <2>5. QED
    BY <2>1, <2>3, <2>4 DEF PathInv
<1>6. CASE PopCommit
  <2>1. /\ progress = "commits" /\ progress' = "trees" /\ repo' = repo /\ repo \in Repos
        /\ Fresh /\ OrderInv /\ seen_sets \in [Commit -> Known] /\ IntroducedInv
        /\ UNCHANGED <<entries, blobs_encountered, introduced>>
    BY <1>6 DEF PopCommit, ControlInv, PathInv
  <2>2. PICK c \in commit_worklist :
          /\ commit' = c /\ seen_sets' = [seen_sets EXCEPT ![c] = Nothing]
          /\ IF repo.root[c] = NoTree \/ Pruned(repo.root[c], seen_sets[c])
               THEN seen' = seen_sets[c] /\ tree_worklist' = <<>>
               ELSE /\ seen' = [seen_sets[c] EXCEPT !.trees = @ \cup {repo.root[c]}]
                    /\ tree_worklist' = <<<<<<>>, repo.root[c]>>>>
    BY <1>6 DEF PopCommit
  <2>3. c \in Commit /\ repo.root[c] \in Tree \cup {NoTree} /\ seen_sets[c] \in Known
    BY <2>1, GraphFacts, RepoFacts DEF OrderInv
  <2>4. seen_sets' \in [Commit -> Known]
    BY <2>1, <2>2, <2>3 DEF Nothing, Known
  <2>5. entries' = <<>> /\ blobs_encountered' = {}
    BY <2>1 DEF Fresh
  <2>6. CASE repo.root[c] = NoTree \/ Pruned(repo.root[c], seen_sets[c])
    <3>1. seen' \in Known /\ tree_worklist' = <<>>
      BY <2>2, <2>3, <2>6
    <3>2. ReadInv'
      BY <2>5, <3>1 DEF ReadInv, Elements
    <3>3. QED
      BY <1>1, <2>1, <2>4, <2>5, <3>1, <3>2 DEF PathInv
  <2>7. CASE ~(repo.root[c] = NoTree \/ Pruned(repo.root[c], seen_sets[c]))
    <3>1. PICK t : t = repo.root[c]
      OBVIOUS
    <3>2. t \in Tree /\ tree_worklist' = <<<<<<>>, t>>>>
      BY <2>2, <2>3, <2>7, <3>1
    <3>3. seen' \in Known
      BY <2>2, <2>3, <2>7, <3>1, <3>2 DEF Known
    <3>4. Within(c, <<>>, t) /\ ~Excluded(<<>>)
      BY <2>1, <2>3, <3>1, <3>2, RootWithin
    <3>5. <<<<>>, t>> \in Item
      <4>1. <<>> \in Seq(Name)
        OBVIOUS
      <4>2. QED
        BY <3>2, <4>1 DEF Item
    <3>6. tree_worklist' \in Seq(Item) /\ Elements(tree_worklist') = {<<<<>>, t>>}
      BY <3>2, <3>5 DEF Elements
    <3>7. Within(commit, <<>>, t)' /\ ~Excluded(<<>>)'
      BY <2>1, <2>2, <3>4, SameRepo DEF Within
    <3>8. ReadInv'
      BY <2>5, <3>6, <3>7 DEF ReadInv, Elements
    <3>9. QED
      BY <1>1, <2>1, <2>4, <2>5, <3>3, <3>8 DEF PathInv
  <2>8. QED
    BY <2>6, <2>7
<1>7. CASE OpenTree
  <2>1. /\ progress = "trees" /\ ReadInv /\ IntroducedInv
        /\ UNCHANGED <<progress, repo, commit, seen, blobs_encountered, introduced, seen_sets>>
    BY <1>7 DEF OpenTree, PathInv, graphVars
  <2>2. PICK w \in Item :
              /\ Elements(tree_worklist) = Elements(tree_worklist') \cup {w}
              /\ Within(commit, w[1], w[2]) /\ ~Excluded(w[1])
              /\ Elements(entries') = {At(w[1], Contents[w[2]][i]) : i \in DOMAIN Contents[w[2]]}
    BY <1>7, <2>1, OpenTreeReads
  <2>3. \A v \in Elements(tree_worklist') : Within(commit, v[1], v[2])' /\ ~Excluded(v[1])'
    <3>1. \A v \in Elements(tree_worklist') : Within(commit, v[1], v[2]) /\ ~Excluded(v[1])
      BY <2>1, <2>2 DEF ReadInv
    <3>2. QED
      BY <2>1, <3>1, SameRepo DEF Within
  <2>4. ASSUME NEW e \in Elements(entries')
        PROVE  /\ e.kind = "blob" => <<e.path, e.id>> \in FilesOf(commit)'
               /\ e.kind = "tree" => Within(commit, e.path, e.id)'
    <3>1. PICK i \in DOMAIN Contents[w[2]] : e = At(w[1], Contents[w[2]][i])
      BY <2>2
    <3>2. PICK f : f = Contents[w[2]][i]
      OBVIOUS
    <3>3. e.path = Append(w[1], f.name) /\ e.kind = f.kind /\ e.id = f.id
      BY <3>1, <3>2 DEF At
    <3>4. /\ f.kind = "blob" => <<Append(w[1], f.name), f.id>> \in FilesOf(commit)
          /\ f.kind = "tree" => Within(commit, Append(w[1], f.name), f.id)
      BY <2>2, <3>2, EntryWithin
    <3>5. QED
      BY <2>1, <3>3, <3>4, SameRepo DEF Within
  <2>5. ReadInv'
    BY <1>7, <2>1, <2>3, <2>4, OpenTreeReads DEF ReadInv
  <2>6. QED
    BY <1>1, <2>1, <2>5 DEF PathInv
<1>8. CASE VisitEntry
  <2>1. /\ progress = "trees" /\ ReadInv /\ IntroducedInv /\ seen \in Known /\ blobs_encountered \subseteq Blob
        /\ UNCHANGED <<progress, repo, commit, seen_sets>> /\ entries # <<>> /\ entries' = Tail(entries)
        /\ seen_sets \in [Commit -> Known] /\ repo \in Repos
    BY <1>8 DEF VisitEntry, PathInv, ControlInv, graphVars
  <2>2. PICK e : e = Head(entries)
    OBVIOUS
  <2>3. e \in Found /\ Elements(entries) = {e} \cup Elements(entries') /\ entries' \in Seq(Found)
    BY <2>1, <2>2, ElementsFacts DEF ReadInv
  <2>4. /\ e.kind = "blob" => <<e.path, e.id>> \in FilesOf(commit)
        /\ e.kind = "tree" => Within(commit, e.path, e.id)
    BY <2>1, <2>3 DEF ReadInv
  <2>5. ASSUME NEW f \in Elements(entries')
        PROVE  /\ f.kind = "blob" => <<f.path, f.id>> \in FilesOf(commit)'
               /\ f.kind = "tree" => Within(commit, f.path, f.id)'
    BY <2>1, <2>3, SameRepo DEF ReadInv, Within
  <2>6. CASE e.kind = "tree" /\ VisitSubtree(e) /\ UNCHANGED <<blobs_encountered, introduced>>
    <3>1. CASE UNCHANGED <<seen, tree_worklist>>
      <4>1. \A v \in Elements(tree_worklist') : Within(commit, v[1], v[2])' /\ ~Excluded(v[1])'
        BY <2>1, <3>1, SameRepo DEF ReadInv, Within
      <4>2. ReadInv'
        BY <2>1, <2>3, <2>5, <3>1, <4>1 DEF ReadInv
      <4>3. QED
        BY <1>1, <2>1, <2>6, <3>1, <4>2 DEF PathInv
    <3>2. CASE /\ ~Excluded(e.path) /\ seen' = [seen EXCEPT !.trees = @ \cup {e.id}]
               /\ tree_worklist' = Append(tree_worklist, <<e.path, e.id>>)
      <4>1. PICK v : v = <<e.path, e.id>>
        OBVIOUS
      <4>2. v \in Item /\ v[1] = e.path /\ v[2] = e.id /\ e.id \in Tree /\ Within(commit, v[1], v[2])
        BY <2>4, <2>6, <4>1 DEF Within, Item
      <4>3. tree_worklist' \in Seq(Item) /\ Elements(tree_worklist') = Elements(tree_worklist) \cup {v}
        <5>1. tree_worklist \in Seq(Item) /\ tree_worklist' = Append(tree_worklist, v)
          BY <2>1, <3>2, <4>1 DEF ReadInv
        <5>2. QED
          BY <4>2, <5>1, ElementsFacts
      <4>4. \A u \in Elements(tree_worklist') : Within(commit, u[1], u[2])' /\ ~Excluded(u[1])'
        BY <2>1, <3>2, <4>2, <4>3, SameRepo DEF ReadInv, Within
      <4>5. seen' \in Known
        BY <2>1, <3>2, <4>2 DEF Known
      <4>6. ReadInv'
        BY <2>1, <2>3, <2>5, <4>3, <4>4 DEF ReadInv
      <4>7. QED
        BY <1>1, <2>1, <2>6, <4>5, <4>6 DEF PathInv
    <3>3. QED
      BY <2>6, <3>1, <3>2 DEF VisitSubtree
  <2>7. CASE e.kind = "blob" /\ VisitBlob(e) /\ UNCHANGED <<seen, tree_worklist>>
    <3>1. \A v \in Elements(tree_worklist') : Within(commit, v[1], v[2])' /\ ~Excluded(v[1])'
      BY <2>1, <2>7, SameRepo DEF ReadInv, Within
    <3>2. ReadInv'
      BY <2>1, <2>3, <2>5, <2>7, <3>1 DEF ReadInv
    <3>3. CASE UNCHANGED <<blobs_encountered, introduced>>
      BY <1>1, <2>1, <2>7, <3>2, <3>3 DEF PathInv
    <3>4. CASE /\ e.id \in Indexed \ seen.blobs /\ ~Excluded(e.path)
               /\ blobs_encountered' = blobs_encountered \cup {e.id}
               /\ introduced' = [introduced EXCEPT ![commit] = @ \cup {<<e.id, e.path>>}]
      <4>1. Indexed \subseteq Blob
        BY DEF Indexed, Objects
      <4>2. <<e.id, e.path>> \in Blob \X Seq(Name)
        BY <2>3, <3>4, <4>1 DEF Found
      <4>3. introduced' \in [Commit -> SUBSET (Blob \X Seq(Name))]
        BY <2>1, <3>4, <4>2 DEF IntroducedInv
      <4>4. ASSUME NEW c \in Commit, NEW n \in introduced'[c]
            PROVE  <<n[2], n[1]>> \in FilesOf(c)' /\ ~Excluded(n[2])' /\ n[1] \in Indexed'
        <5>1. CASE n \in introduced[c]
          BY <2>1, <5>1, SameRepo DEF IntroducedInv
        <5>2. CASE c = commit /\ n = <<e.id, e.path>>
          BY <2>1, <2>4, <2>7, <3>4, <5>2, SameRepo
        <5>3. QED
          BY <2>1, <3>4, <4>4, <5>1, <5>2 DEF IntroducedInv
      <4>5. IntroducedInv'
        BY <4>3, <4>4 DEF IntroducedInv
      <4>6. QED
        BY <2>1, <2>7, <3>2, <3>4, <4>1, <4>5 DEF PathInv
    <3>5. QED
      BY <2>7, <3>3, <3>4 DEF VisitBlob
  <2>8. QED
    BY <1>8, <2>2, <2>6, <2>7 DEF VisitEntry
<1>9. CASE LeaveCommit
  <2>1. /\ progress = "trees" /\ progress' = "commits" /\ repo' = repo /\ introduced' = introduced
        /\ seen \in Known /\ blobs_encountered \subseteq Blob /\ seen_sets \in [Commit -> Known]
        /\ IntroducedInv
    BY <1>9 DEF LeaveCommit, PathInv
  <2>2. seen_sets' \in [Commit -> Known]
    BY <1>9, <2>1 DEF LeaveCommit, Known
  <2>3. QED
    BY <1>1, <2>1, <2>2 DEF PathInv
<1>10. CASE EndTraversal
  <2>1. /\ progress = "commits" /\ progress' = "assemble" /\ repo' = repo /\ introduced' = introduced
        /\ IntroducedInv
    BY <1>10 DEF EndTraversal, PathInv
  <2>2. QED
    BY <1>1, <2>1 DEF PathInv
<1>11. CASE AbandonTraversal
  <2>1. progress' = "assemble" /\ introduced' = [c \in Commit |-> {}]
    BY <1>11 DEF AbandonTraversal
  <2>2. IntroducedInv'
    BY <2>1 DEF IntroducedInv
  <2>3. QED
    BY <2>1, <2>2 DEF PathInv
<1>12. CASE UNCHANGED historyVars
  BY <1>2, <1>12 DEF historyVars
<1>13. QED
  BY <1>3, <1>4, <1>5, <1>6, <1>7, <1>8, <1>9, <1>10, <1>11, <1>12 DEF HistoryNext

-----------------------------------------------------------------------------
(* What a commit shows, without patterns from the root.                    *)

\* A name of the path is excluded.
Hidden(path) == \E i \in DOMAIN path : path[i] \in repo.names

\* The blobs of the index in a tree under paths without an excluded name, those a
\* commit shows, and those its ancestors show.
Visible(t) == {b \in Indexed : \E f \in Files[t] : f[2] = b /\ ~Hidden(f[1])}
Shown(c) == {b \in Indexed : Shows(c, b)}
Inherited(c) == {b \in Indexed : \E a \in Ancestors(c) : Shows(a, b)}

\* A path is hidden by any of its names.
LEMMA HiddenFacts ==
  ASSUME NEW p \in Seq(Name), NEW name \in Name
  PROVE  /\ repo.rooted = {} => (Excluded(p) <=> Hidden(p))
         /\ Hidden(Append(p, name)) <=> Hidden(p) \/ name \in repo.names
         /\ Hidden(<<name>> \o p) <=> name \in repo.names \/ Hidden(p)
         /\ Hidden(<<name>>) <=> name \in repo.names
<1>1. repo.rooted = {} => (Excluded(p) <=> Hidden(p))
  BY DEF Excluded, Hidden
<1>2. Len(p) \in Nat /\ DOMAIN p = 1 .. Len(p)
  OBVIOUS
<1>3. Hidden(Append(p, name)) <=> Hidden(p) \/ name \in repo.names
  <2>1. /\ DOMAIN Append(p, name) = (1 .. Len(p)) \cup {Len(p) + 1}
        /\ Append(p, name)[Len(p) + 1] = name
        /\ \A i \in 1 .. Len(p) : Append(p, name)[i] = p[i]
    BY <1>2
  <2>2. QED
    BY <1>2, <2>1 DEF Hidden
<1>4. Hidden(<<name>> \o p) <=> name \in repo.names \/ Hidden(p)
  <2>1. PICK q : q = <<name>> \o p
    OBVIOUS
  <2>2. /\ DOMAIN q = 1 .. Len(p) + 1 /\ q[1] = name
        /\ \A i \in 1 .. Len(p) : q[i + 1] = p[i]
    BY <1>2, <2>1
  <2>3. /\ 1 \in DOMAIN q /\ \A i \in 1 .. Len(p) : i + 1 \in DOMAIN q
        /\ \A i \in DOMAIN q : i = 1 \/ (i - 1 \in 1 .. Len(p) /\ q[i] = p[i - 1])
    BY <1>2, <2>2
  <2>4. Hidden(q) => name \in repo.names \/ Hidden(p)
    BY <1>2, <2>2, <2>3 DEF Hidden
  <2>5. name \in repo.names \/ Hidden(p) => Hidden(q)
    BY <1>2, <2>2, <2>3 DEF Hidden
  <2>6. QED
    BY <2>1, <2>4, <2>5
<1>5. Hidden(<<name>>) <=> name \in repo.names
  BY DEF Hidden
<1>6. QED
  BY <1>1, <1>3, <1>4, <1>5

\* What is visible in a tree is a candidate of it, and is an entry or is visible in a
\* subtree.
LEMMA VisibleFacts ==
  ASSUME NEW t \in Tree
  PROVE  /\ Visible(t) \subseteq Candidates(t)
         /\ \A b \in Visible(t) : \E i \in DOMAIN Contents[t] :
              LET e == Contents[t][i]
              IN /\ e.name \notin repo.names
                 /\ \/ e.kind = "blob" /\ e.id = b
                    \/ e.kind = "tree" /\ b \in Visible(e.id)
<1>1. Visible(t) \subseteq Candidates(t)
  BY DEF Visible, Candidates
<1>2. ASSUME NEW b \in Visible(t)
      PROVE  \E i \in DOMAIN Contents[t] :
              LET e == Contents[t][i]
              IN /\ e.name \notin repo.names
                 /\ \/ e.kind = "blob" /\ e.id = b
                    \/ e.kind = "tree" /\ b \in Visible(e.id)
  <2>1. PICK n \in Files[t] : n[2] = b /\ ~Hidden(n[1]) /\ b \in Indexed
    BY DEF Visible
  <2>2. PICK i \in DOMAIN Contents[t] :
              \/ Contents[t][i].kind = "blob" /\ n = <<<<Contents[t][i].name>>, Contents[t][i].id>>
              \/ Contents[t][i].kind = "tree" /\ \E f \in Files[Contents[t][i].id] :
                   n = <<<<Contents[t][i].name>> \o f[1], f[2]>>
    BY FilesFacts
  <2>3. PICK name : name = Contents[t][i].name
    OBVIOUS
  <2>4. name \in Name /\ <<>> \in Seq(Name)
    BY <2>3, TreeFacts DEF Entry
  <2>5. CASE Contents[t][i].kind = "blob"
    <3>1. n = <<<<name>>, Contents[t][i].id>>
      BY <2>2, <2>3, <2>5
    <3>2. name \notin repo.names /\ Contents[t][i].id = b
      BY <2>1, <2>4, <3>1, HiddenFacts
    <3>3. QED
      BY <2>3, <2>5, <3>2
  <2>6. CASE Contents[t][i].kind = "tree"
    <3>1. PICK k : k = Contents[t][i].id
      OBVIOUS
    <3>2. k \in Tree
      BY <2>6, <3>1, TreeFacts
    <3>3. PICK f \in Files[k] : n = <<<<name>> \o f[1], f[2]>>
      BY <2>2, <2>3, <2>6, <3>1
    <3>4. f[1] \in Seq(Name)
      BY <3>2, FilesTyped
    <3>5. name \notin repo.names /\ ~Hidden(f[1]) /\ f[2] = b
      BY <2>1, <2>4, <3>3, <3>4, HiddenFacts
    <3>6. b \in Visible(k)
      BY <2>1, <3>5 DEF Visible
    <3>7. QED
      BY <2>3, <2>6, <3>1, <3>5, <3>6
  <2>7. QED
    BY <2>2, <2>5, <2>6
<1>3. QED
  BY <1>1, <1>2

\* A tree is skipped for what is in the ancestry, or for having been seen.
LEMMA PrunedShows ==
  ASSUME NEW t \in Tree, NEW s, Pruned(t, s)
  PROVE  Visible(t) \subseteq s.blobs \/ t \in s.trees
  BY VisibleFacts DEF Pruned, is_candidate_tree, covered

\* What is skipped stays skipped as more trees are seen.
LEMMA PrunedGrows ==
  ASSUME NEW t, NEW s, NEW u, Pruned(t, s), s.trees \subseteq u.trees, u.blobs = s.blobs
  PROVE  Pruned(t, u)
  BY DEF Pruned

\* A commit shows what is visible in its root.
LEMMA ShownIs ==
  ASSUME repo \in Repos, repo.rooted = {}, NEW c \in Commit
  PROVE  Shown(c) = IF repo.root[c] = NoTree THEN {} ELSE Visible(repo.root[c])
<1>1. CASE repo.root[c] = NoTree
  BY <1>1 DEF Shown, Shows, FilesOf
<1>2. CASE repo.root[c] # NoTree
  <2>1. repo.root[c] \in Tree /\ FilesOf(c) = Files[repo.root[c]]
    BY <1>2, RepoFacts DEF FilesOf
  <2>2. \A f \in FilesOf(c) : Excluded(f[1]) <=> Hidden(f[1])
    BY DEF Excluded, Hidden
  <2>3. QED
    BY <1>2, <2>1, <2>2 DEF Shown, Shows, Visible
<1>3. QED
  BY <1>1, <1>2

\* The ancestors of a commit are its parents and theirs.
LEMMA AncestorsUnfold ==
  ASSUME repo \in Repos, NEW c \in Commit
  PROVE  /\ ParentsOf(c) \subseteq Ancestors(c)
         /\ \A p \in ParentsOf(c) : Ancestors(p) \subseteq Ancestors(c)
         /\ \A a \in Ancestors(c) : a \in ParentsOf(c) \/ \E p \in ParentsOf(c) : a \in Ancestors(p)
<1> DEFINE E == [d \in Commit |-> ParentsOf(d)]
<1>1. E \in [Commit -> SUBSET Commit] /\ \A d \in Commit : E[d] = ParentsOf(d) /\ ParentsOf(d) \subseteq Commit
  BY GraphFacts
<1>2. \A d \in Commit : Ancestors(d) = Reached(ParentsOf(d), E)
  BY DEF Ancestors
<1> HIDE DEF E
<1>3. ASSUME NEW d \in Commit
      PROVE  /\ Ancestors(d) \subseteq Commit /\ ParentsOf(d) \subseteq Ancestors(d)
             /\ \A a \in Ancestors(d) : ParentsOf(a) \subseteq Ancestors(d)
             /\ \A S \in SUBSET Commit :
                  ParentsOf(d) \subseteq S /\ (\A a \in S : ParentsOf(a) \subseteq S) => Ancestors(d) \subseteq S
  <2>1. /\ Ancestors(d) \subseteq Commit /\ ParentsOf(d) \subseteq Ancestors(d)
        /\ \A a \in Ancestors(d) : E[a] \subseteq Ancestors(d)
        /\ \A S \in SUBSET Commit :
             ParentsOf(d) \subseteq S /\ (\A a \in S : E[a] \subseteq S) => Ancestors(d) \subseteq S
    BY <1>1, <1>2, ReachedCloses
  <2>2. QED
    BY <1>1, <2>1
<1>4. \A p \in ParentsOf(c) : p \in Commit /\ Ancestors(p) \subseteq Ancestors(c)
  BY <1>1, <1>3
<1> DEFINE S == ParentsOf(c) \cup UNION {Ancestors(p) : p \in ParentsOf(c)}
<1>5. S \in SUBSET Commit /\ ParentsOf(c) \subseteq S
  BY <1>1, <1>3, <1>4
<1>6. \A a \in S : ParentsOf(a) \subseteq S
  BY <1>3, <1>4
<1>7. Ancestors(c) \subseteq S
  <2> HIDE DEF S
  <2>1. QED
    BY <1>3, <1>5, <1>6
<1>8. QED
  BY <1>3, <1>4, <1>7

\* A commit inherits what its parents show and inherit.
LEMMA InheritedIs ==
  ASSUME repo \in Repos, NEW c \in Commit
  PROVE  Inherited(c) = {b \in Indexed : \E p \in ParentsOf(c) : b \in Shown(p) \cup Inherited(p)}
  BY AncestorsUnfold DEF Inherited, Shown

-----------------------------------------------------------------------------
(* The commits that first have a blob.                                     *)

Introduces(c) == {n[1] : n \in introduced[c]}

\* What the children inherit: what the parents that are left show and inherit, and
\* trees with nothing else in them.
SeenInv ==
  \A d \in Commit \ visited_commits :
    /\ seen_sets[d].blobs
         = {b \in Indexed : \E p \in ParentsOf(d) \cap Left : b \in Shown(p) \cup Inherited(p)}
    /\ \A t \in seen_sets[d].trees : Visible(t) \subseteq seen_sets[d].blobs

\* A commit that is left introduced what it shows and did not inherit.
LeftInv ==
  /\ \A c \in Left : Introduces(c) = Shown(c) \ Inherited(c)
  /\ \A c \in Commit \ visited_commits : introduced[c] = {}

\* An entry of a tree is still to be read, or was, or is excluded.
Unread(e) ==
  \E f \in Elements(entries) : f.kind = e.kind /\ f.id = e.id /\ ~Excluded(f.path)

EntryRead(e) ==
  \/ e.name \in repo.names
  \/ Unread(e)
  \/ e.kind = "blob" /\ (e.id \in Indexed => e.id \in seen.blobs \cup blobs_encountered)
  \/ e.kind = "tree" /\ Pruned(e.id, seen)

\* A tree has nothing new, is still to be opened, or all of its entries are read.
TreeRead(t) ==
  \/ Visible(t) \subseteq seen.blobs
  \/ \E w \in Elements(tree_worklist) : w[2] = t
  \/ \A i \in DOMAIN Contents[t] : EntryRead(Contents[t][i])

\* The commit at hand.
HandInv ==
  /\ seen.blobs = Inherited(commit)
  /\ Introduces(commit) = blobs_encountered
  /\ blobs_encountered \cap seen.blobs = {}
  /\ repo.root[commit] = NoTree \/ Pruned(repo.root[commit], seen)
  /\ \A t \in seen.trees : TreeRead(t)

\* Each commit of the graph introduced what it shows and its ancestors do not.
Attributed ==
  \A c \in Commit : Introduces(c) = IF c \in Nodes THEN Shown(c) \ Inherited(c) ELSE {}

\* What the pass knows, when no pattern is from the root.
ExactInv ==
  /\ progress \in {"commits", "trees"} /\ repo.rooted = {} => SeenInv /\ LeftInv
  /\ progress = "trees" /\ repo.rooted = {} => HandInv
  /\ progress = "assemble" /\ ~late /\ repo.rooted = {} => Attributed

\* The repository decides on what is shown and what is skipped.
LEMMA SameShown ==
  ASSUME repo' = repo
  PROVE  /\ \A t : Visible(t)' = Visible(t)
         /\ \A c : Shown(c)' = Shown(c) /\ Inherited(c)' = Inherited(c)
         /\ \A t, s : Pruned(t, s)' <=> Pruned(t, s)
<1>1. \A t : Visible(t)' = Visible(t)
  BY SameRepo DEF Visible, Hidden
<1>2. \A c : Shown(c)' = Shown(c) /\ Inherited(c)' = Inherited(c)
  BY SameRepo DEF Shown, Inherited
<1>3. \A t, s : Pruned(t, s)' <=> Pruned(t, s)
  BY SameRepo DEF Pruned, is_candidate_tree, covered, Candidates
<1>4. QED
  BY <1>1, <1>2, <1>3

\* What the children inherit does not change while a commit is at hand.
LEMMA SeenStays ==
  ASSUME repo' = repo, seen_sets' = seen_sets, visited_commits' = visited_commits, commit' = commit,
         SeenInv
  PROVE  SeenInv'
<1>1. Left' = Left
  BY DEF Left
<1>2. QED
  BY <1>1, SameRepo, SameShown DEF SeenInv

\* What the commits that are left introduced does not change.
LEMMA LeftStays ==
  ASSUME repo' = repo, visited_commits' = visited_commits, commit' = commit, LeftInv,
         \A c : c # commit => introduced'[c] = introduced[c], commit \in visited_commits
  PROVE  LeftInv'
<1>1. Left' = Left
  BY DEF Left
<1>2. \A c \in Left : Introduces(c)' = Introduces(c)
  BY DEF Introduces, Left
<1>3. QED
  BY <1>1, <1>2, SameShown DEF LeftInv

\* A commit is taken up.
LEMMA PopCommitExact ==
  ASSUME PopCommit, ControlInv, PathInv, ExactInv, repo.rooted = {}
  PROVE  SeenInv' /\ LeftInv' /\ HandInv'
<1>1. /\ progress = "commits" /\ repo' = repo /\ repo \in Repos /\ Fresh /\ OrderInv
      /\ seen_sets \in [Commit -> Known] /\ SeenInv /\ LeftInv
      /\ UNCHANGED <<entries, blobs_encountered, introduced>>
  BY DEF PopCommit, ControlInv, PathInv, ExactInv
<1>2. PICK c \in commit_worklist :
        /\ commit' = c /\ seen_sets' = [seen_sets EXCEPT ![c] = Nothing]
        /\ visited_commits' = visited_commits \cup {c}
        /\ IF repo.root[c] = NoTree \/ Pruned(repo.root[c], seen_sets[c])
             THEN seen' = seen_sets[c] /\ tree_worklist' = <<>>
             ELSE /\ seen' = [seen_sets[c] EXCEPT !.trees = @ \cup {repo.root[c]}]
                  /\ tree_worklist' = <<<<<<>>, repo.root[c]>>>>
  BY DEF PopCommit
<1>3. /\ c \in Commit \ visited_commits /\ ParentsOf(c) \subseteq Left
      /\ repo.root[c] \in Tree \cup {NoTree} /\ seen_sets[c] \in Known
  BY <1>1, GraphFacts, RepoFacts DEF OrderInv
<1>4. Left' = Left
  BY <1>1, <1>2, <1>3, GraphFacts DEF Left, OrderInv, Fresh
<1>5. SeenInv'
  <2>1. \A d \in Commit \ visited_commits' : d \in Commit \ visited_commits /\ seen_sets'[d] = seen_sets[d]
    BY <1>1, <1>2
  <2>2. QED
    BY <1>1, <1>4, <2>1, SameRepo, SameShown DEF SeenInv
<1>6. LeftInv'
  <2>1. \A d : Introduces(d)' = Introduces(d)
    BY <1>1 DEF Introduces
  <2>2. QED
    BY <1>1, <1>2, <1>4, <2>1, SameShown DEF LeftInv
<1>7. seen_sets[c].blobs = Inherited(c)
  <2>1. ParentsOf(c) \cap Left = ParentsOf(c)
    BY <1>3
  <2>2. QED
    BY <1>1, <1>3, <2>1, InheritedIs DEF SeenInv
<1>8. seen'.blobs = Inherited(c) /\ seen_sets[c].trees \subseteq seen'.trees
  BY <1>2, <1>3, <1>7 DEF Known
<1>9. Introduces(commit)' = {} /\ blobs_encountered' = {}
  <2>1. introduced[c] = {}
    BY <1>1, <1>3 DEF LeftInv
  <2>2. QED
    BY <1>1, <1>2, <2>1 DEF Introduces, Fresh
<1>10. repo.root[c] = NoTree \/ Pruned(repo.root[c], seen')
  <2>1. CASE repo.root[c] = NoTree \/ Pruned(repo.root[c], seen_sets[c])
    BY <1>2, <2>1
  <2>2. CASE ~(repo.root[c] = NoTree \/ Pruned(repo.root[c], seen_sets[c]))
    <3>1. repo.root[c] \in seen'.trees
      BY <1>2, <1>3, <2>2 DEF Known
    <3>2. QED
      BY <3>1 DEF Pruned
  <2>3. QED
    BY <2>1, <2>2
<1>11. ASSUME NEW t \in seen'.trees PROVE TreeRead(t)'
  <2>1. CASE t \in seen_sets[c].trees
    <3>1. Visible(t) \subseteq seen'.blobs
      BY <1>1, <1>3, <1>7, <1>8, <2>1 DEF SeenInv
    <3>2. QED
      BY <1>1, <3>1, SameShown DEF TreeRead
  <2>2. CASE t \notin seen_sets[c].trees
    <3>1. t = repo.root[c] /\ tree_worklist' = <<<<<<>>, t>>>>
      BY <1>2, <1>3, <1>11, <2>2 DEF Known
    <3>2. <<<<>>, t>> \in Elements(tree_worklist')
      BY <3>1 DEF Elements
    <3>3. \E w \in Elements(tree_worklist') : w[2] = t
      BY <3>2
    <3>4. QED
      BY <3>3 DEF TreeRead
  <2>3. QED
    BY <2>1, <2>2
<1>12. HandInv'
  <2>1. (repo.root[commit] = NoTree \/ Pruned(repo.root[commit], seen))'
    BY <1>1, <1>2, <1>10, SameShown
  <2>2. seen'.blobs = Inherited(commit)'
    BY <1>1, <1>2, <1>8, SameShown
  <2>3. QED
    BY <1>9, <1>11, <2>1, <2>2 DEF HandInv
<1>13. QED
  BY <1>5, <1>6, <1>12

\* A tree is opened: its entries are still to be read.
LEMMA OpenTreeExact ==
  ASSUME OpenTree, ControlInv, PathInv, ExactInv, repo.rooted = {}
  PROVE  SeenInv' /\ LeftInv' /\ HandInv'
<1>1. /\ progress = "trees" /\ ReadInv /\ SeenInv /\ LeftInv /\ HandInv /\ commit \in visited_commits
      /\ UNCHANGED <<repo, commit, seen, blobs_encountered, introduced, seen_sets, visited_commits>>
      /\ entries = <<>>
  BY DEF OpenTree, ControlInv, PathInv, ExactInv, graphVars
<1>2. PICK w \in Item :
        /\ Elements(tree_worklist) = Elements(tree_worklist') \cup {w}
        /\ Within(commit, w[1], w[2]) /\ ~Excluded(w[1])
        /\ Elements(entries') = {At(w[1], Contents[w[2]][i]) : i \in DOMAIN Contents[w[2]]}
  BY <1>1, OpenTreeReads
<1>3. Elements(entries) = {}
  BY <1>1 DEF Elements
<1>4. ASSUME NEW t, \A i \in DOMAIN Contents[t] : EntryRead(Contents[t][i])
      PROVE  \A i \in DOMAIN Contents[t] : EntryRead(Contents[t][i])'
  <2>1. \A e : EntryRead(e) => EntryRead(e)'
    BY <1>1, <1>3, SameRepo, SameShown DEF EntryRead, Unread
  <2>2. QED
    BY <1>4, <2>1
<1>5. ASSUME NEW i \in DOMAIN Contents[w[2]] PROVE EntryRead(Contents[w[2]][i])'
  <2>1. PICK e : e = Contents[w[2]][i]
    OBVIOUS
  <2>2. w[1] \in Seq(Name) /\ w[2] \in Tree /\ e \in Entry
    BY <1>2, <2>1, TreeFacts DEF Within
  <2>3. CASE e.name \in repo.names
    BY <1>1, <2>1, <2>3 DEF EntryRead
  <2>4. CASE e.name \notin repo.names
    <3>1. e.name \in Name /\ Append(w[1], e.name) \in Seq(Name)
      BY <2>2 DEF Entry
    <3>2. ~Excluded(Append(w[1], e.name))
      BY <1>2, <2>2, <2>4, <3>1, HiddenFacts
    <3>3. PICK f \in Elements(entries') : f = At(w[1], e)
      BY <1>2, <2>1
    <3>4. f.kind = e.kind /\ f.id = e.id /\ ~Excluded(f.path)'
      BY <1>1, <3>2, <3>3, SameRepo DEF At
    <3>5. Unread(e)'
      BY <3>4 DEF Unread
    <3>6. QED
      BY <2>1, <3>5 DEF EntryRead
  <2>5. QED
    BY <2>3, <2>4
<1>6. ASSUME NEW t \in seen.trees PROVE TreeRead(t)'
  <2>1. TreeRead(t)
    BY <1>1 DEF HandInv
  <2>2. CASE Visible(t) \subseteq seen.blobs
    BY <1>1, <2>2, SameShown DEF TreeRead
  <2>3. CASE \E v \in Elements(tree_worklist) : v[2] = t
    <3>1. CASE t = w[2]
      BY <1>5, <3>1 DEF TreeRead
    <3>2. CASE t # w[2]
      <4>1. \E v \in Elements(tree_worklist') : v[2] = t
        BY <1>2, <2>3, <3>2
      <4>2. QED
        BY <4>1 DEF TreeRead
    <3>3. QED
      BY <3>1, <3>2
  <2>4. CASE \A i \in DOMAIN Contents[t] : EntryRead(Contents[t][i])
    <3>1. \A i \in DOMAIN Contents[t] : EntryRead(Contents[t][i])'
      BY <1>4, <2>4
    <3>2. QED
      BY <3>1 DEF TreeRead
  <2>5. QED
    BY <2>1, <2>2, <2>3, <2>4 DEF TreeRead
<1>7. HandInv'
  <2>1. Introduces(commit)' = Introduces(commit)
    BY <1>1 DEF Introduces
  <2>2. Inherited(commit)' = Inherited(commit) /\ (\A t : Pruned(t, seen)' <=> Pruned(t, seen))
    BY <1>1, SameShown
  <2>3. QED
    BY <1>1, <1>6, <2>1, <2>2 DEF HandInv
<1>8. QED
  BY <1>1, <1>7, SeenStays, LeftStays

\* An entry is read: a file is introduced or known, a subtree is skipped or put off.
LEMMA VisitEntryExact ==
  ASSUME VisitEntry, ControlInv, PathInv, ExactInv, repo.rooted = {}
  PROVE  SeenInv' /\ LeftInv' /\ HandInv'
<1>1. /\ progress = "trees" /\ ReadInv /\ SeenInv /\ LeftInv /\ HandInv /\ IntroducedInv
      /\ commit \in visited_commits /\ seen \in Known /\ OrderInv /\ repo \in Repos
      /\ UNCHANGED <<repo, commit, seen_sets, visited_commits>>
      /\ entries # <<>> /\ entries' = Tail(entries)
  BY DEF VisitEntry, ControlInv, PathInv, ExactInv, graphVars
<1>2. PICK e : e = Head(entries)
  OBVIOUS
<1>3. /\ e \in Found /\ Elements(entries) = {e} \cup Elements(entries')
      /\ e.kind = "tree" => e.id \in Tree
  <2>1. e \in Found /\ Elements(entries) = {e} \cup Elements(entries')
    BY <1>1, <1>2, ElementsFacts DEF ReadInv
  <2>2. QED
    BY <1>1, <2>1 DEF ReadInv, Within
<1>4. commit \in Commit /\ introduced \in [Commit -> SUBSET (Blob \X Seq(Name))]
  BY <1>1, GraphFacts DEF OrderInv, IntroducedInv
\* The step reads the entry, and undoes nothing.
<1>5. /\ seen'.blobs = seen.blobs /\ seen.trees \subseteq seen'.trees
      /\ blobs_encountered \subseteq blobs_encountered'
      /\ Elements(tree_worklist) \subseteq Elements(tree_worklist')
      /\ \A t \in seen'.trees : t \in seen.trees \/ \E w \in Elements(tree_worklist') : w[2] = t
      /\ ~Excluded(e.path) /\ e.kind = "tree" => Pruned(e.id, seen')
      /\ ~Excluded(e.path) /\ e.kind = "blob" /\ e.id \in Indexed => e.id \in seen.blobs \cup blobs_encountered'
      /\ Introduces(commit)' = blobs_encountered' /\ blobs_encountered' \cap seen.blobs = {}
      /\ \A c : c # commit => introduced'[c] = introduced[c]
  <2>1. ASSUME UNCHANGED <<blobs_encountered, introduced>>
        PROVE  Introduces(commit)' = blobs_encountered' /\ blobs_encountered' \cap seen.blobs = {}
    BY <1>1, <2>1 DEF HandInv, Introduces
  <2>2. CASE e.kind = "tree" /\ VisitSubtree(e) /\ UNCHANGED <<blobs_encountered, introduced>>
    <3>1. CASE UNCHANGED <<seen, tree_worklist>> /\ (Pruned(e.id, seen) \/ Excluded(e.path))
      BY <2>1, <2>2, <3>1
    <3>2. CASE /\ seen' = [seen EXCEPT !.trees = @ \cup {e.id}]
               /\ tree_worklist' = Append(tree_worklist, <<e.path, e.id>>)
      <4>1. seen'.blobs = seen.blobs /\ seen'.trees = seen.trees \cup {e.id}
        BY <1>1, <3>2 DEF Known
      <4>2. PICK v : v = <<e.path, e.id>>
        OBVIOUS
      <4>3. v \in Item /\ v[2] = e.id
        BY <1>3, <2>2, <4>2 DEF Item, Found
      <4>4. Elements(tree_worklist') = Elements(tree_worklist) \cup {v}
        <5>1. tree_worklist \in Seq(Item) /\ tree_worklist' = Append(tree_worklist, v)
          BY <1>1, <3>2, <4>2 DEF ReadInv
        <5>2. QED
          BY <4>3, <5>1, ElementsFacts
      <4>5. Pruned(e.id, seen')
        BY <4>1 DEF Pruned
      <4>6. QED
        BY <2>1, <2>2, <4>1, <4>3, <4>4, <4>5
    <3>3. QED
      BY <2>2, <3>1, <3>2 DEF VisitSubtree
  <2>3. CASE e.kind = "blob" /\ VisitBlob(e) /\ UNCHANGED <<seen, tree_worklist>>
    <3>1. CASE UNCHANGED <<blobs_encountered, introduced>> /\ ~(e.id \in Indexed \ seen.blobs /\ ~Excluded(e.path))
      BY <2>1, <2>3, <3>1
    <3>2. CASE /\ e.id \in Indexed \ seen.blobs
               /\ blobs_encountered' = blobs_encountered \cup {e.id}
               /\ introduced' = [introduced EXCEPT ![commit] = @ \cup {<<e.id, e.path>>}]
      <4>1. introduced'[commit] = introduced[commit] \cup {<<e.id, e.path>>}
        BY <1>4, <3>2
      <4>2. Introduces(commit)' = Introduces(commit) \cup {e.id}
        <5>1. PICK n : n = <<e.id, e.path>>
          OBVIOUS
        <5>2. n[1] = e.id /\ introduced'[commit'] = introduced[commit] \cup {n}
          BY <1>1, <4>1, <5>1
        <5>3. QED
          BY <5>2 DEF Introduces
      <4>3. Introduces(commit)' = blobs_encountered' /\ blobs_encountered' \cap seen.blobs = {}
        BY <1>1, <3>2, <4>2 DEF HandInv
      <4>4. \A c : c # commit => introduced'[c] = introduced[c]
        BY <1>4, <3>2
      <4>5. QED
        BY <2>3, <3>2, <4>3, <4>4
    <3>3. QED
      BY <2>3, <3>1, <3>2 DEF VisitBlob
  <2>4. QED
    BY <1>2, <2>2, <2>3 DEF VisitEntry
<1>6. ASSUME NEW k, Pruned(k, seen) PROVE Pruned(k, seen)'
  <2>1. Pruned(k, seen')
    BY <1>5, <1>6, PrunedGrows
  <2>2. QED
    BY <1>1, <2>1, SameShown
<1>7. ASSUME NEW g, EntryRead(g) PROVE EntryRead(g)'
  <2>1. CASE g.name \in repo.names
    BY <1>1, <2>1 DEF EntryRead
  <2>2. CASE Unread(g)
    <3>1. PICK f \in Elements(entries) : f.kind = g.kind /\ f.id = g.id /\ ~Excluded(f.path)
      BY <2>2 DEF Unread
    <3>2. CASE f \in Elements(entries')
      <4>1. Unread(g)'
        BY <1>1, <3>1, <3>2, SameRepo DEF Unread
      <4>2. QED
        BY <4>1 DEF EntryRead
    <3>3. CASE f = e
      <4>1. g.kind = "tree" => Pruned(g.id, seen)'
        BY <1>1, <1>5, <3>1, <3>3, SameShown
      <4>2. g.kind = "blob" => (g.id \in Indexed' => g.id \in seen'.blobs \cup blobs_encountered')
        BY <1>1, <1>5, <3>1, <3>3, SameRepo
      <4>3. g.kind \in {"blob", "tree"}
        BY <1>3, <3>1, <3>3 DEF Found
      <4>4. QED
        BY <4>1, <4>2, <4>3 DEF EntryRead
    <3>4. QED
      BY <1>3, <3>2, <3>3
  <2>3. CASE g.kind = "blob" /\ (g.id \in Indexed => g.id \in seen.blobs \cup blobs_encountered)
    <3>1. g.id \in Indexed' => g.id \in seen'.blobs \cup blobs_encountered'
      BY <1>1, <1>5, <2>3, SameRepo
    <3>2. QED
      BY <2>3, <3>1 DEF EntryRead
  <2>4. CASE g.kind = "tree" /\ Pruned(g.id, seen)
    <3>1. Pruned(g.id, seen)'
      BY <1>6, <2>4
    <3>2. QED
      BY <2>4, <3>1 DEF EntryRead
  <2>5. QED
    BY <1>7, <2>1, <2>2, <2>3, <2>4 DEF EntryRead
<1>8. ASSUME NEW t \in seen'.trees PROVE TreeRead(t)'
  <2>1. CASE t \in seen.trees
    <3>1. TreeRead(t)
      BY <1>1, <2>1 DEF HandInv
    <3>2. CASE Visible(t) \subseteq seen.blobs
      BY <1>1, <1>5, <3>2, SameShown DEF TreeRead
    <3>3. CASE \E w \in Elements(tree_worklist) : w[2] = t
      <4>1. \E w \in Elements(tree_worklist') : w[2] = t
        BY <1>5, <3>3
      <4>2. QED
        BY <4>1 DEF TreeRead
    <3>4. CASE \A i \in DOMAIN Contents[t] : EntryRead(Contents[t][i])
      <4>1. \A i \in DOMAIN Contents[t] : EntryRead(Contents[t][i])'
        BY <1>7, <3>4
      <4>2. QED
        BY <4>1 DEF TreeRead
    <3>5. QED
      BY <3>1, <3>2, <3>3, <3>4 DEF TreeRead
  <2>2. CASE \E w \in Elements(tree_worklist') : w[2] = t
    BY <2>2 DEF TreeRead
  <2>3. QED
    BY <1>5, <2>1, <2>2
<1>9. HandInv'
  <2>1. repo'.root[commit'] = NoTree \/ Pruned(repo.root[commit], seen)'
    <3>1. CASE repo.root[commit] = NoTree
      BY <1>1, <3>1
    <3>2. CASE repo.root[commit] # NoTree
      <4>1. PICK k : k = repo.root[commit]
        OBVIOUS
      <4>2. Pruned(k, seen)'
        BY <1>1, <1>6, <3>2, <4>1 DEF HandInv
      <4>3. k = repo'.root[commit']
        BY <1>1, <4>1
      <4>4. QED
        BY <4>2, <4>3
    <3>3. QED
      BY <3>1, <3>2
  <2>2. seen'.blobs = Inherited(commit)'
    BY <1>1, <1>5, SameShown DEF HandInv
  <2>3. QED
    BY <1>5, <1>8, <2>1, <2>2 DEF HandInv
<1>10. QED
  BY <1>1, <1>5, <1>9, SeenStays, LeftStays

\* When nothing is left to read, the blobs of every tree that was seen are known: a
\* tree that was pruned is in the ancestry, or is one of them and comes before.
LEMMA AllSeen ==
  ASSUME HandInv, seen \in Known, entries = <<>>, tree_worklist = <<>>
  PROVE  \A t \in seen.trees : Visible(t) \subseteq seen.blobs \cup blobs_encountered
<1> DEFINE Bad == {t \in seen.trees : ~(Visible(t) \subseteq seen.blobs \cup blobs_encountered)}
<1>1. SUFFICES ASSUME Bad # {} PROVE FALSE
  OBVIOUS
<1>2. seen.trees \subseteq Tree /\ Bad \subseteq seen.trees /\ Bad \in SUBSET Nat
  BY TreeFacts DEF Known
<1> HIDE DEF Bad
<1>3. PICK t \in Bad : \A k \in Bad : t \leq k
  BY <1>1, <1>2, LeastNumber
<1>4. t \in Tree /\ t \in Nat /\ t \in seen.trees
  BY <1>2
<1>5. PICK b \in Visible(t) : b \notin seen.blobs \cup blobs_encountered
  BY <1>3 DEF Bad
<1>6. b \in Indexed
  BY <1>5 DEF Visible
<1>7. Elements(entries) = {} /\ Elements(tree_worklist) = {}
  BY DEF Elements
<1>8. \A i \in DOMAIN Contents[t] : EntryRead(Contents[t][i])
  BY <1>4, <1>5, <1>7 DEF HandInv, TreeRead
<1>9. PICK i \in DOMAIN Contents[t] :
        LET e == Contents[t][i]
        IN /\ e.name \notin repo.names
           /\ \/ e.kind = "blob" /\ e.id = b
              \/ e.kind = "tree" /\ b \in Visible(e.id)
  BY <1>4, <1>5, VisibleFacts
<1>10. PICK e : e = Contents[t][i]
  OBVIOUS
<1>11. e.kind = "tree" /\ b \in Visible(e.id) /\ Pruned(e.id, seen)
  <2>1. /\ EntryRead(e) /\ e.name \notin repo.names
        /\ \/ e.kind = "blob" /\ e.id = b
           \/ e.kind = "tree" /\ b \in Visible(e.id)
    BY <1>8, <1>9, <1>10
  <2>2. ~Unread(e)
    BY <1>7 DEF Unread
  <2>3. QED
    BY <1>5, <1>6, <2>1, <2>2 DEF EntryRead
<1>12. e.id \in Tree /\ e.id \in Nat /\ e.id < t
  BY <1>4, <1>10, <1>11, TreeFacts
<1>13. e.id \in seen.trees
  BY <1>5, <1>11, <1>12, PrunedShows
<1>14. e.id \in Bad
  BY <1>5, <1>11, <1>13 DEF Bad
<1>15. QED
  BY <1>3, <1>4, <1>12, <1>14

\* A commit is left: its children inherit what it shows and inherited.
LEMMA LeaveCommitExact ==
  ASSUME LeaveCommit, ControlInv, PathInv, ExactInv, repo.rooted = {}
  PROVE  SeenInv' /\ LeftInv'
<1>1. /\ progress = "trees" /\ ReadInv /\ SeenInv /\ LeftInv /\ HandInv /\ IntroducedInv
      /\ commit \in visited_commits /\ seen \in Known /\ OrderInv /\ repo \in Repos
      /\ seen_sets \in [Commit -> Known]
      /\ UNCHANGED <<repo, visited_commits, introduced>> /\ commit' = NoCommit
      /\ entries = <<>> /\ tree_worklist = <<>>
  BY DEF LeaveCommit, ControlInv, PathInv, ExactInv
<1>2. PICK all : all = seen.blobs \cup blobs_encountered
  OBVIOUS
<1>3. seen_sets' = [c \in Commit |->
        IF c \notin ChildrenOf(commit) THEN seen_sets[c]
        ELSE [trees |-> seen_sets[c].trees \cup seen.trees,
              blobs |-> seen_sets[c].blobs \cup all]]
  BY <1>2 DEF LeaveCommit
<1>4. commit \in Commit /\ Left' = visited_commits /\ Left = visited_commits \ {commit}
  BY <1>1, GraphFacts DEF Left, OrderInv
<1>5. \A t \in seen.trees : Visible(t) \subseteq all
  BY <1>1, <1>2, AllSeen
<1>6. Shown(commit) \subseteq all
  <2>1. CASE repo.root[commit] = NoTree
    BY <1>1, <1>4, <2>1, ShownIs
  <2>2. CASE repo.root[commit] # NoTree
    <3>1. repo.root[commit] \in Tree /\ Pruned(repo.root[commit], seen)
      BY <1>1, <1>4, <2>2, RepoFacts DEF HandInv
    <3>2. Visible(repo.root[commit]) \subseteq all
      BY <1>2, <1>5, <3>1, PrunedShows
    <3>3. QED
      BY <1>1, <1>4, <2>2, <3>2, ShownIs
  <2>3. QED
    BY <2>1, <2>2
<1>7. blobs_encountered \subseteq Shown(commit)
  <2>1. ASSUME NEW b \in blobs_encountered PROVE b \in Shown(commit)
    <3>1. PICK n \in introduced[commit] : n[1] = b
      BY <1>1 DEF HandInv, Introduces
    <3>2. <<n[2], n[1]>> \in FilesOf(commit) /\ ~Excluded(n[2]) /\ n[1] \in Indexed
      BY <1>1, <1>4, <3>1 DEF IntroducedInv
    <3>3. PICK f \in FilesOf(commit) : f = <<n[2], n[1]>>
      BY <3>2
    <3>4. f[2] = b /\ ~Excluded(f[1])
      BY <3>1, <3>2, <3>3
    <3>5. QED
      BY <3>1, <3>2, <3>4 DEF Shown, Shows
  <2>2. QED
    BY <2>1
<1>8. all = Shown(commit) \cup Inherited(commit) /\ all \subseteq Indexed
  <2>1. Shown(commit) \subseteq Indexed /\ Inherited(commit) \subseteq Indexed
    BY DEF Shown, Inherited
  <2>2. QED
    BY <1>1, <1>2, <1>6, <1>7, <2>1 DEF HandInv
<1>9. Introduces(commit) = Shown(commit) \ Inherited(commit)
  BY <1>1, <1>2, <1>6, <1>7 DEF HandInv
<1>10. LeftInv'
  <2>1. \A c : Introduces(c)' = Introduces(c)
    BY <1>1 DEF Introduces
  <2>2. QED
    BY <1>1, <1>4, <1>9, <2>1, SameShown DEF LeftInv
<1>11. ASSUME NEW d \in Commit \ visited_commits
       PROVE  /\ seen_sets'[d].blobs
                   = {b \in Indexed : \E p \in ParentsOf(d) \cap visited_commits : b \in Shown(p) \cup Inherited(p)}
              /\ \A t \in seen_sets'[d].trees : Visible(t) \subseteq seen_sets'[d].blobs
  <2>1. /\ seen_sets[d].blobs
             = {b \in Indexed : \E p \in ParentsOf(d) \cap Left : b \in Shown(p) \cup Inherited(p)}
        /\ \A t \in seen_sets[d].trees : Visible(t) \subseteq seen_sets[d].blobs
    BY <1>1 DEF SeenInv
  <2>2. CASE commit \notin ParentsOf(d)
    <3>1. seen_sets'[d] = seen_sets[d]
      BY <1>3, <1>4, <2>2 DEF ChildrenOf
    <3>2. ParentsOf(d) \cap visited_commits = ParentsOf(d) \cap Left
      BY <1>4, <2>2
    <3>3. QED
      BY <2>1, <3>1, <3>2
  <2>3. CASE commit \in ParentsOf(d)
    <3>1. seen_sets'[d] = [trees |-> seen_sets[d].trees \cup seen.trees,
                           blobs |-> seen_sets[d].blobs \cup all]
      BY <1>3, <1>4, <2>3 DEF ChildrenOf
    <3>2. /\ seen_sets'[d].trees = seen_sets[d].trees \cup seen.trees
          /\ seen_sets'[d].blobs = seen_sets[d].blobs \cup all
      BY <3>1
    <3>3. ParentsOf(d) \cap visited_commits = (ParentsOf(d) \cap Left) \cup {commit}
      BY <1>1, <1>4, <2>3
    <3>4. seen_sets'[d].blobs
            = {b \in Indexed : \E p \in ParentsOf(d) \cap visited_commits : b \in Shown(p) \cup Inherited(p)}
      BY <1>8, <2>1, <3>2, <3>3
    <3>5. QED
      BY <1>5, <2>1, <3>2, <3>4
  <2>4. QED
    BY <2>2, <2>3
<1>12. SeenInv'
  BY <1>1, <1>4, <1>11, SameRepo, SameShown DEF SeenInv
<1>13. QED
  BY <1>10, <1>12

\* The pass ends when the worklist is empty: no commit is left out, since one without
\* visited parents would be first among those left out.
LEMMA EndTraversalExact ==
  ASSUME EndTraversal, ControlInv, ExactInv, repo.rooted = {}
  PROVE  Attributed'
<1>1. /\ progress = "commits" /\ repo' = repo /\ introduced' = introduced /\ commit_worklist = {}
      /\ Fresh /\ OrderInv /\ LeftInv /\ repo \in Repos
  BY DEF EndTraversal, ControlInv, ExactInv
<1>2. Left = visited_commits
  BY <1>1, GraphFacts DEF Left, OrderInv, Fresh
<1>3. Nodes \subseteq visited_commits
  <2> DEFINE Rest == Nodes \ visited_commits
  <2>1. SUFFICES ASSUME Rest # {} PROVE FALSE
    OBVIOUS
  <2>2. Rest \in SUBSET Commit
    BY <1>1, GraphFacts
  <2> HIDE DEF Rest
  <2>3. PICK c \in Rest : \A i \in DOMAIN repo.parents[c] : repo.parents[c][i] \notin Rest
    BY <1>1, <2>1, <2>2, RepoFacts
  <2>4. ParentsOf(c) \cap Rest = {}
    BY <2>3 DEF ParentsOf
  <2>5. c \in Nodes \ visited_commits /\ ParentsOf(c) \subseteq visited_commits
    BY <1>1, <2>2, <2>4, GraphFacts DEF Rest
  <2>6. QED
    BY <1>1, <1>2, <2>5 DEF OrderInv
<1>4. visited_commits \subseteq Nodes
  BY <1>1 DEF OrderInv
<1>5. ASSUME NEW c \in Commit
      PROVE  Introduces(c) = IF c \in Nodes THEN Shown(c) \ Inherited(c) ELSE {}
  <2>1. CASE c \in Nodes
    BY <1>1, <1>2, <1>3, <2>1 DEF LeftInv
  <2>2. CASE c \notin Nodes
    BY <1>1, <1>4, <2>2 DEF LeftInv, Introduces
  <2>3. QED
    BY <2>1, <2>2
<1>6. \A c : Introduces(c)' = Introduces(c)
  BY <1>1 DEF Introduces
<1>7. QED
  BY <1>1, <1>5, <1>6, SameRepo, SameShown DEF Attributed

\* Each step keeps it.
LEMMA ExactNext == ExactInv /\ PathInv /\ ControlInv /\ [HistoryNext]_historyVars => ExactInv'
<1> SUFFICES ASSUME ExactInv, PathInv, ControlInv, [HistoryNext]_historyVars PROVE ExactInv'
  OBVIOUS
<1>1. CASE UNCHANGED <<repo, progress, graphVars, commitVars, introduced>> /\ (late => late')
  <2>1. UNCHANGED <<visited_commits, seen_sets, commit, seen, tree_worklist, entries, blobs_encountered>>
    BY <1>1 DEF graphVars, commitVars
  <2>2. (\A c : Introduces(c)' = Introduces(c)) /\ Left' = Left
    BY <1>1, <2>1 DEF Introduces, Left
  <2>3. SeenInv /\ LeftInv => SeenInv' /\ LeftInv'
    BY <1>1, <2>1, <2>2, SameRepo, SameShown DEF SeenInv, LeftInv
  <2>4. Attributed => Attributed'
    BY <1>1, <2>2, SameRepo, SameShown DEF Attributed
  <2>5. \A e : EntryRead(e) => EntryRead(e)'
    BY <1>1, <2>1, SameRepo, SameShown DEF EntryRead, Unread
  <2>6. \A t : TreeRead(t) => TreeRead(t)'
    BY <1>1, <2>1, <2>5, SameShown DEF TreeRead
  <2>7. HandInv => HandInv'
    BY <1>1, <2>1, <2>2, <2>6, SameShown DEF HandInv
  <2>8. QED
    BY <1>1, <2>3, <2>4, <2>7 DEF ExactInv
<1>2. CASE TimePasses
  BY <1>1, <1>2 DEF TimePasses
<1>3. CASE OpenRepository \/ TimesOut \/ Assemble \/ CollectHistory \/ EndDiffs \/ HandOver \/ DiffCommit
  BY <1>3 DEF OpenRepository, TimesOut, Assemble, CollectHistory, EndDiffs, HandOver, DiffCommit, ExactInv
<1>4. CASE IndexObjects
  <2>1. /\ progress = "open" /\ progress' \in {"done", "commits"} /\ repo' = repo
        /\ introduced' = introduced /\ seen_sets' = seen_sets /\ visited_commits' = visited_commits
    BY <1>4 DEF IndexObjects, graphVars
  <2>2. /\ seen_sets = [c \in Commit |-> Nothing] /\ introduced = [c \in Commit |-> {}]
        /\ visited_commits = {}
    BY <2>1 DEF ControlInv
  <2>3. Left' = {}
    BY <2>1, <2>2 DEF Left
  <2>4. SeenInv' /\ LeftInv'
    BY <2>1, <2>2, <2>3 DEF SeenInv, LeftInv, Nothing
  <2>5. QED
    BY <2>1, <2>4 DEF ExactInv
<1>5. CASE PopCommit
  BY <1>5, PopCommitExact DEF ExactInv, PopCommit
<1>6. CASE OpenTree
  BY <1>6, OpenTreeExact DEF ExactInv, OpenTree
<1>7. CASE VisitEntry
  BY <1>7, VisitEntryExact DEF ExactInv, VisitEntry
<1>8. CASE LeaveCommit
  BY <1>8, LeaveCommitExact DEF ExactInv, LeaveCommit
<1>9. CASE EndTraversal
  BY <1>9, EndTraversalExact DEF ExactInv, EndTraversal
<1>10. CASE AbandonTraversal
  BY <1>10 DEF ExactInv, AbandonTraversal
<1>11. CASE UNCHANGED historyVars
  BY <1>1, <1>11 DEF historyVars
<1>12. QED
  BY <1>2, <1>3, <1>4, <1>5, <1>6, <1>7, <1>8, <1>9, <1>10, <1>11 DEF HistoryNext

\* The result has every blob of the index, with the commits that introduced it.
LEMMA AssembleExact ==
  ASSUME Assemble, PathInv, ExactInv
  PROVE  FirstSeenIsExact'
<1>1. /\ progress = "assemble" /\ ~late /\ repo' = repo /\ IntroducedInv
      /\ repo.rooted = {} => Attributed
  BY DEF Assemble, PathInv, ExactInv
<1> DEFINE Kept(b) == {s \in FirstSeen(b) : ~Excluded(s[2])}
<1>2. blobs' = [b \in {d \in Indexed : FirstSeen(d) = {} \/ Kept(d) # {}} |-> Kept(b)]
  BY DEF Assemble
<1>3. ASSUME NEW b, NEW s \in FirstSeen(b)
      PROVE  \E c \in Commit : \E n \in introduced[c] : n[1] = b /\ s = <<c, n[2]>>
  BY DEF FirstSeen
<1>4. ASSUME NEW c \in Commit, NEW n \in introduced[c] PROVE <<c, n[2]>> \in FirstSeen(n[1])
  BY DEF FirstSeen
<1>5. ASSUME NEW b, NEW s \in FirstSeen(b)
      PROVE  <<s[2], b>> \in FilesOf(s[1]) /\ ~Excluded(s[2])
  <2>0. PICK c \in Commit : \E n \in introduced[c] : n[1] = b /\ s = <<c, n[2]>>
    BY <1>3
  <2>1. PICK n \in introduced[c] : n[1] = b /\ s = <<c, n[2]>>
    BY <2>0
  <2>2. <<n[2], n[1]>> \in FilesOf(c) /\ ~Excluded(n[2])
    BY <1>1 DEF IntroducedInv
  <2>3. s[1] = c /\ s[2] = n[2]
    BY <2>1
  <2>4. QED
    BY <2>1, <2>2, <2>3
<1>6. \A b : Kept(b) = FirstSeen(b)
  BY <1>5
<1>7. ASSUME NEW b \in Indexed PROVE b \in DOMAIN blobs' /\ blobs'[b] = FirstSeen(b)
  <2> HIDE DEF Kept
  <2>1. FirstSeen(b) = {} \/ Kept(b) # {}
    BY <1>6
  <2>2. b \in DOMAIN blobs' /\ blobs'[b] = Kept(b)
    BY <1>2, <2>1
  <2>3. QED
    BY <1>6, <2>2
<1>8. ASSUME NEW b \in Indexed, repo.rooted = {}
      PROVE  {s[1] : s \in FirstSeen(b)}
               = {c \in Nodes : Shows(c, b) /\ \A a \in Ancestors(c) : ~Shows(a, b)}
  <2>1. ASSUME NEW c \in Commit
        PROVE  c \in {s[1] : s \in FirstSeen(b)} <=> b \in Introduces(c)
    <3>1. ASSUME NEW s \in FirstSeen(b), s[1] = c PROVE b \in Introduces(c)
      <4>0. PICK d \in Commit : \E n \in introduced[d] : n[1] = b /\ s = <<d, n[2]>>
        BY <1>3
      <4>1. PICK n \in introduced[d] : n[1] = b /\ s = <<d, n[2]>>
        BY <4>0
      <4>2. d = c
        BY <3>1, <4>1
      <4>3. QED
        BY <4>1, <4>2 DEF Introduces
    <3>2. ASSUME b \in Introduces(c) PROVE \E s \in FirstSeen(b) : s[1] = c
      <4>1. PICK n \in introduced[c] : n[1] = b
        BY <3>2 DEF Introduces
      <4>2. <<c, n[2]>> \in FirstSeen(b)
        BY <1>4, <4>1
      <4>3. QED
        BY <4>2
    <3>3. QED
      BY <3>1, <3>2
  <2>2. \A s \in FirstSeen(b) : s[1] \in Commit
    BY <1>3
  <2>3. \A c \in Commit : b \in Introduces(c) <=>
          c \in Nodes /\ Shows(c, b) /\ \A a \in Ancestors(c) : ~Shows(a, b)
    BY <1>1, <1>8 DEF Attributed, Shown, Inherited
  <2>4. Nodes \subseteq Commit
    BY DEF Nodes
  <2>5. QED
    BY <2>1, <2>2, <2>3, <2>4
<1>9. ASSUME NEW b \in Indexed
      PROVE  LET first == IF b \in DOMAIN blobs' THEN blobs'[b] ELSE {}
             IN /\ \A s \in first : <<s[2], b>> \in FilesOf(s[1]) /\ ~Excluded(s[2])
                /\ repo.rooted = {} =>
                     {s[1] : s \in first}
                       = {c \in Nodes : Shows(c, b) /\ \A a \in Ancestors(c) : ~Shows(a, b)}
  BY <1>5, <1>7, <1>8
<1>10. QED
  BY <1>1, <1>9, SameRepo DEF FirstSeenIsExact

\* A blob is attributed to exactly the commits that have it while none of their
\* ancestors has, whatever the graph, the trees and the options.
THEOREM FirstSeenExactly == HistorySpec => []FirstSeenIsExact
<1> DEFINE All == BranchInv /\ ControlInv /\ PathInv /\ ExactInv /\ FirstSeenIsExact
<1>1. HistoryInit => All
  BY DEF HistoryInit, BranchInv, ControlInv, Fresh, PathInv, ExactInv, FirstSeenIsExact
<1>2. ASSUME All, [HistoryNext]_historyVars PROVE FirstSeenIsExact'
  <2>1. CASE Assemble
    BY <1>2, <2>1, AssembleExact
  <2>2. CASE IndexObjects
    <3>1. progress' # "done" \/ (Indexed = {} /\ repo' = repo)
      BY <2>2 DEF IndexObjects
    <3>2. QED
      BY <3>1, SameRepo DEF FirstSeenIsExact
  <2>3. CASE EndDiffs
    BY <1>2, <2>3 DEF EndDiffs, BranchInv, FirstSeenIsExact
  <2>4. CASE UNCHANGED historyVars
    <3>1. UNCHANGED <<repo, progress, blobs>>
      BY <2>4 DEF historyVars
    <3>2. QED
      BY <1>2, <3>1, SameRepo DEF FirstSeenIsExact
  <2>5. CASE \/ OpenRepository \/ TimePasses \/ TimesOut \/ PopCommit \/ OpenTree \/ VisitEntry
             \/ LeaveCommit \/ EndTraversal \/ AbandonTraversal \/ CollectHistory \/ DiffCommit
             \/ HandOver
    <3>1. progress' # "done"
      BY <2>5 DEF OpenRepository, TimePasses, Running, TimesOut, PopCommit, OpenTree, VisitEntry,
         LeaveCommit, EndTraversal, AbandonTraversal, CollectHistory, DiffCommit, HandOver
    <3>2. QED
      BY <3>1 DEF FirstSeenIsExact
  <2>6. QED
    BY <1>2, <2>1, <2>2, <2>3, <2>4, <2>5 DEF HistoryNext
<1>3. All /\ [HistoryNext]_historyVars => All'
  BY <1>2, BranchNext, ControlNext, PathNext, ExactNext
<1>4. QED
  BY <1>1, <1>3, PTL DEF HistorySpec
=============================================================================
