-------------------------- MODULE ObjectCacheProofs --------------------------
(***************************************************************************)
(* Proofs about ObjectCache, for any keys, prefixes, page size and number  *)
(* of edits, runs and crashes.                                             *)
(*                                                                         *)
(* What a crash leaves is Replayed, the manifest with its journal.  The    *)
(* invariant says how Replayed relates to the bucket, to the object files  *)
(* and to the memory of a running session.  The proofs know Replayed only  *)
(* by what it is for an empty journal and after a line is appended.        *)
(***************************************************************************)
EXTENDS ObjectCache, FiniteSetTheorems, WellFoundedInduction, TLAPS

\* A version is an identity and a modification time; what the manifest records.
Version == (Content \cup {Absent, NoIdentity}) \X Nat
Object == [version : Version, digest : Content \cup {Absent}]
Token == Key \cup {0}

\* The fields of the manifest, without the flag.
Shape(m) ==
  /\ m = [in_progress |-> m.in_progress, scopes |-> m.scopes,
          completed |-> m.completed, objects |-> m.objects]
  /\ m.completed \subseteq Key
  /\ m.objects \in [Key -> Object]
  /\ m.scopes = [s \in Scope |-> m.scopes[s]]
  /\ \A s \in Scope : m.scopes[s].token \in Token

IsLine(line) ==
  line.scope \in Scope /\ line.mark.token \in Token /\ line.objects \in [Key -> Object]

ManifestTypes == Shape(manifest) /\ Shape(mem)
JournalTypes == /\ \E S : journal \in Seq(S)
                /\ \A i \in DOMAIN journal : IsLine(journal[i])
RemoteTypes == bucket \in [Key -> Content \cup {Absent}] /\ stamp \in [Key -> Nat]
LocalTypes ==
  /\ files \in [Key -> Content \cup {Absent}] /\ visited \in [Key -> Content \cup {Absent}]
  /\ pending \in [Key -> Object] /\ held \in [Key -> SUBSET (Content \cup {Absent})]
PageTypes ==
  /\ page = [scope |-> page.scope, todo |-> page.todo, listed |-> page.listed,
             next |-> page.next, last |-> page.last]
  /\ page.todo \subseteq Key /\ page.listed \in [Key -> Version] /\ page.next \in Token

Types == ManifestTypes /\ JournalTypes /\ RemoteTypes /\ LocalTypes /\ PageTypes

\* While a session runs, memory is the replayed manifest with the page on top.
SyncInv ==
  /\ pc \in {"replay", "list", "visit"} =>
       /\ manifest.in_progress
       /\ mem.scopes = Replayed.scopes
       /\ mem.completed = Replayed.completed \cup {k \in Key : pending[k] # None}
       /\ \A k \in Key : mem.objects[k] = IF pending[k] # None THEN pending[k]
                                          ELSE Replayed.objects[k]
       /\ pc # "visit" => pending = NoObjects
  /\ pc = "opening" =>
       /\ journal = <<>> /\ ~manifest.in_progress /\ mem.in_progress
       /\ mem.completed = {} /\ mem.scopes = Unlisted /\ mem.objects = manifest.objects
       /\ pending = NoObjects
  /\ pc \in {"trim", "finished"} => mem = manifest /\ ~manifest.in_progress

\* A record is not newer than the object, and if it is as new, it has its
\* content, and so has the file, if there is one.
Fresh(k, object) ==
  object # None =>
    /\ object.version[2] <= stamp[k]
    /\ object.version[2] = stamp[k] => object.digest = bucket[k]
                                         /\ files[k] \in {bucket[k], Absent}

StampInv ==
  Stamped => \A k \in Key :
    /\ Fresh(k, manifest.objects[k])
    /\ manifest.in_progress => Fresh(k, Replayed.objects[k])
    /\ pc = "visit" => Fresh(k, pending[k])

\* A listing of key k is past it.
Passed(m, k) == m.scopes[ScopeOf[k]].complete \/ k <= m.scopes[ScopeOf[k]].token

\* What is recorded for key k is on disk.
Kept(k, object) ==
  /\ object # None /\ files[k] # Absent
  /\ k \in Versioned => files[k] = object.digest
  /\ Stamped => object.digest \in held[k]

\* The journal mentions what the listings are past, and every object that was
\* there all the time.
DiskInv ==
  manifest.in_progress =>
    /\ \A k \in Replayed.completed : Passed(Replayed, k) /\ Kept(k, Replayed.objects[k])
    /\ \A k \in stable : Passed(Replayed, k) => k \in Replayed.completed

\* The keys of the page lie behind the token of its scope.
OnPage(k) ==
  /\ ScopeOf[k] = page.scope
  /\ mem.scopes[page.scope].token < k /\ k <= page.next

PageInv ==
  pc = "visit" =>
    /\ page.scope \in Scope /\ ~mem.scopes[page.scope].complete
    /\ page.last \/ mem.scopes[page.scope].token <= page.next
    /\ \A k \in page.todo :
         /\ OnPage(k) /\ pending[k] = None
         /\ k \in Identified => page.listed[k][1] # NoIdentity
         /\ Stamped => page.listed[k][2] <= stamp[k]
    /\ \A k \in Key : pending[k] # None => OnPage(k) /\ Kept(k, pending[k])
    /\ \A k \in stable :
         /\ ScopeOf[k] = page.scope /\ mem.scopes[page.scope].token < k
         /\ page.last \/ k <= page.next
         => k \in page.todo \/ pending[k] # None

\* A record under the listed version was current when the page was listed.
ListedInv ==
  pc = "visit" /\ Stamped =>
    \A k \in page.todo :
      mem.objects[k] # None /\ mem.objects[k].version = page.listed[k] =>
        /\ files[k] \in {mem.objects[k].digest, Absent}
        /\ mem.objects[k].digest \in held[k]

\* What a session has seen of the bucket, and the visitor of the session.
HeldInv ==
  /\ pc # "closed" \/ manifest.in_progress => \A k \in Key : bucket[k] \in held[k]
  /\ \A k \in stable : k \in Key /\ bucket[k] # Absent
  /\ StampedContentIsCurrent
  /\ pc \in {"list", "visit", "trim", "finished"} =>
       \A k \in mem.completed : visited[k] # Absent

\* A listing that is complete has led to an exact cache.
FinishInv ==
  pc \in {"trim", "finished"} =>
    /\ stable \subseteq mem.completed
    /\ \A k \in Versioned : files[k] = manifest.objects[k].digest
    /\ \A k \in Key : /\ files[k] # Absent <=> k \in manifest.completed
                      /\ manifest.objects[k] # None <=> k \in manifest.completed

IInv == /\ Types /\ SyncInv /\ StampInv /\ DiskInv /\ PageInv /\ ListedInv
        /\ HeldInv /\ FinishInv /\ StampedRunsNeverFail
-----------------------------------------------------------------------------
(* Least and greatest elements.                                            *)

\* A nonempty set of naturals has a least element.
LEMMA LeastExists ==
  ASSUME NEW S \in SUBSET Nat, S # {}
  PROVE  \E x \in S : \A y \in S : x <= y
<1>1. \E x \in S : \A y \in S : ~(<<y, x>> \in OpToRel(<, Nat))
  BY NatLessThanWellFounded, WFMin
<1>2. \A x \in Nat, y \in Nat : y < x => <<y, x>> \in OpToRel(<, Nat)
  BY DEF OpToRel
<1>3. PICK x \in S : \A y \in S : ~(<<y, x>> \in OpToRel(<, Nat))
  BY <1>1
<1>4. ASSUME NEW y \in S PROVE x <= y
  <2>1. x \in Nat /\ y \in Nat
    OBVIOUS
  <2>2. ~(y < x)
    BY <1>2, <1>3, <2>1, Zenon
  <2>3. QED
    BY <2>1, <2>2
<1>5. QED
  BY <1>4

\* A nonempty finite set of naturals has a greatest element: the one with the
\* fewest above it.
LEMMA GreatestExists ==
  ASSUME NEW S \in SUBSET Nat, IsFiniteSet(S), S # {}
  PROVE  \E x \in S : \A y \in S : x >= y
<1> DEFINE Above(x) == {y \in S : y > x}
           Counts == {Cardinality(Above(x)) : x \in S}
<1>1. \A x \in S : IsFiniteSet(Above(x)) /\ Cardinality(Above(x)) \in Nat
  BY FS_Subset, FS_CardinalityType
<1>2. Counts \in SUBSET Nat /\ Counts # {}
  BY <1>1
<1>3. PICK n \in Counts : \A m \in Counts : n <= m
  <2> HIDE DEF Counts
  <2>1. QED
    BY <1>2, LeastExists
<1>4. PICK x \in S : n = Cardinality(Above(x))
  BY <1>3
<1>5. ASSUME NEW y \in S, y > x PROVE FALSE
  <2>1. Above(y) \in SUBSET Above(x) /\ y \in Above(x) /\ y \notin Above(y)
    <3>1. \A z \in S : z > y => z > x
      BY <1>5
    <3>2. x \in Nat /\ y \in Nat /\ ~(y > y)
      OBVIOUS
    <3>3. QED
      BY <1>5, <3>1, <3>2, Zenon
  <2>2. Cardinality(Above(y)) <= Cardinality(Above(x)) /\ Cardinality(Above(x)) # Cardinality(Above(y))
    <3> HIDE DEF Above
    <3>1. QED
      BY <1>1, <2>1, FS_Subset
  <2>3. n <= Cardinality(Above(y))
    BY <1>3
  <2>4. QED
    <3> HIDE DEF Above
    <3>1. QED
      BY <1>1, <1>4, <2>2, <2>3
<1>6. QED
  BY <1>5

\* What Max and Min choose.
LEMMA MaxIsGreatest ==
  ASSUME NEW S \in SUBSET Nat, IsFiniteSet(S), S # {}
  PROVE  Max(S) \in S /\ \A y \in S : y <= Max(S)
<1>1. \E x \in S : \A y \in S : x >= y
  BY GreatestExists
<1>2. Max(S) \in S /\ \A y \in S : Max(S) >= y
  BY <1>1 DEF Max
<1>3. QED
  BY <1>2

LEMMA MinIsLeast ==
  ASSUME NEW S \in SUBSET Nat, S # {}
  PROVE  Min(S) \in S /\ \A y \in S : Min(S) <= y
BY LeastExists DEF Min

-----------------------------------------------------------------------------
(* The replay.                                                             *)

\* The lines that mention key k, and those of scope s.
Of(k) == {i \in DOMAIN journal : journal[i].objects[k] # None}
At(s) == {i \in DOMAIN journal : journal[i].scope = s}

LEMMA ReplayIs ==
  Replayed = [in_progress |-> TRUE,
              completed |-> manifest.completed \cup {k \in Key : Of(k) # {}},
              objects |-> [k \in Key |-> IF Of(k) = {} THEN manifest.objects[k]
                                         ELSE journal[Max(Of(k))].objects[k]],
              scopes |-> [s \in Scope |-> IF At(s) = {} THEN manifest.scopes[s]
                                          ELSE journal[Max(At(s))].mark]]
BY DEF Replayed, Of, At

\* The last line that mentions a key or a scope is a line of the journal.
LEMMA LastLine ==
  ASSUME JournalTypes, NEW S \in SUBSET DOMAIN journal, S # {}
  PROVE  Max(S) \in S /\ \A i \in S : i <= Max(S)
<1>1. DOMAIN journal = 1 .. Len(journal) /\ Len(journal) \in Nat
  BY DEF JournalTypes
<1>2. IsFiniteSet(1 .. Len(journal))
  BY <1>1, FS_Interval
<1>3. IsFiniteSet(S) /\ S \in SUBSET Nat
  BY <1>1, <1>2, FS_Subset
<1>4. QED
  BY <1>3, MaxIsGreatest

\* Of what was written to disk the journal makes a manifest again.
LEMMA ReplayShape ==
  ASSUME Shape(manifest), JournalTypes
  PROVE  Shape(Replayed)
<1>1. \A k \in Key : Of(k) # {} => Max(Of(k)) \in DOMAIN journal
  BY LastLine DEF Of
<1>2. \A s \in Scope : At(s) # {} => Max(At(s)) \in DOMAIN journal
  BY LastLine DEF At
<1>3. \A i \in DOMAIN journal : journal[i].mark.token \in Token
                                /\ journal[i].objects \in [Key -> Object]
  BY DEF JournalTypes, IsLine
<1>4. Replayed.completed \subseteq Key
  BY ReplayIs DEF Shape
<1>5. Replayed.objects \in [Key -> Object]
  BY <1>1, <1>3, ReplayIs DEF Shape
<1>6. Replayed.scopes = [s \in Scope |-> Replayed.scopes[s]]
  BY ReplayIs
<1>7. \A s \in Scope : Replayed.scopes[s].token \in Token
  BY <1>2, <1>3, ReplayIs DEF Shape
<1>8. Replayed = [in_progress |-> Replayed.in_progress, scopes |-> Replayed.scopes,
                  completed |-> Replayed.completed, objects |-> Replayed.objects]
  BY ReplayIs
<1>9. QED
  BY <1>4, <1>5, <1>6, <1>7, <1>8 DEF Shape

\* Without a journal the manifest will be replayed as it is.
LEMMA ReplayEmpty ==
  ASSUME Shape(manifest'), journal' = <<>>
  PROVE  /\ Replayed'.completed = manifest'.completed
         /\ Replayed'.objects = manifest'.objects
         /\ Replayed'.scopes = manifest'.scopes
<1>1. /\ \A k \in Key : Of(k)' = {}
      /\ \A s \in Scope : At(s)' = {}
  BY DEF Of, At
<1>2. Replayed' = [in_progress |-> TRUE,
                   completed |-> manifest'.completed \cup {k \in Key : Of(k)' # {}},
                   objects |-> [k \in Key |-> IF Of(k)' = {} THEN manifest'.objects[k]
                                              ELSE journal'[Max(Of(k)')].objects[k]],
                   scopes |-> [s \in Scope |-> IF At(s)' = {} THEN manifest'.scopes[s]
                                               ELSE journal'[Max(At(s)')].mark]]
  BY DEF Replayed, Of, At
<1>3. manifest'.objects = [k \in Key |-> manifest'.objects[k]]
      /\ manifest'.scopes = [s \in Scope |-> manifest'.scopes[s]]
  BY DEF Shape
<1>4. Replayed'.completed = manifest'.completed
  BY <1>1, <1>2
<1>5. Replayed'.objects = [k \in Key |-> manifest'.objects[k]]
  BY <1>1, <1>2
<1>6. Replayed'.scopes = [s \in Scope |-> manifest'.scopes[s]]
  BY <1>1, <1>2
<1>7. QED
  BY <1>3, <1>4, <1>5, <1>6

\* The replay only depends on the disk.
LEMMA ReplaySame ==
  ASSUME UNCHANGED <<manifest, journal>>
  PROVE  Replayed' = Replayed
BY DEF Replayed

\* A line decides about its keys and about its scope.
LEMMA ReplayAppend ==
  ASSUME JournalTypes, NEW line, IsLine(line),
         journal' = Append(journal, line), manifest' = manifest
  PROVE  /\ Replayed'.completed = Replayed.completed \cup {k \in Key : line.objects[k] # None}
         /\ \A k \in Key : Replayed'.objects[k] = IF line.objects[k] # None THEN line.objects[k]
                                                   ELSE Replayed.objects[k]
         /\ \A s \in Scope : Replayed'.scopes[s] = IF line.scope = s THEN line.mark
                                                    ELSE Replayed.scopes[s]
         /\ JournalTypes'
<1> DEFINE n == Len(journal) + 1
<1>1. /\ Len(journal) \in Nat /\ DOMAIN journal = 1 .. Len(journal)
      /\ DOMAIN journal' = 1 .. n /\ journal'[n] = line
      /\ \A i \in DOMAIN journal : journal'[i] = journal[i]
  <2>1. PICK S : journal \in Seq(S)
    BY DEF JournalTypes
  <2>2. journal \in Seq(S \cup {line}) /\ line \in S \cup {line}
    BY <2>1
  <2>3. QED
    BY <2>2
<1>2. \E S : journal' \in Seq(S)
  <2>1. PICK S : journal \in Seq(S)
    BY DEF JournalTypes
  <2>2. journal \in Seq(S \cup {line}) /\ line \in S \cup {line}
    BY <2>1
  <2>3. journal' \in Seq(S \cup {line})
    BY <2>2
  <2>4. QED
    BY <2>3
<1>3. JournalTypes'
  <2>1. \A i \in DOMAIN journal' : i = n \/ i \in DOMAIN journal
    BY <1>1
  <2>2. \A i \in DOMAIN journal' : IsLine(journal'[i])
    BY <1>1, <2>1 DEF JournalTypes
  <2>3. QED
    BY <1>2, <2>2 DEF JournalTypes, IsLine
<1>4. \A k \in Key : Of(k)' = Of(k) \cup (IF line.objects[k] # None THEN {n} ELSE {})
  BY <1>1 DEF Of
<1>5. \A s \in Scope : At(s)' = At(s) \cup (IF line.scope = s THEN {n} ELSE {})
  BY <1>1 DEF At
<1>6. \A S \in SUBSET DOMAIN journal : Max(S \cup {n}) = n
  <2> SUFFICES ASSUME NEW S \in SUBSET DOMAIN journal PROVE Max(S \cup {n}) = n
    OBVIOUS
  <2>1. S \cup {n} \in SUBSET DOMAIN journal' /\ S \cup {n} # {}
    BY <1>1
  <2>2. IsFiniteSet(1 .. n)
    BY <1>1, FS_Interval
  <2>3. IsFiniteSet(S \cup {n}) /\ S \cup {n} \in SUBSET Nat
    BY <1>1, <2>1, <2>2, FS_Subset
  <2>4. Max(S \cup {n}) \in S \cup {n} /\ n <= Max(S \cup {n})
    BY <2>1, <2>3, MaxIsGreatest
  <2>5. \A i \in S : i < n /\ i \in Nat
    BY <1>1
  <2>6. QED
    BY <1>1, <2>4, <2>5
<1>7. \A S \in SUBSET DOMAIN journal : S # {} => Max(S) \in DOMAIN journal
  BY LastLine
<1>8. \A k \in Key : Of(k) \in SUBSET DOMAIN journal
  BY DEF Of
<1>9. \A s \in Scope : At(s) \in SUBSET DOMAIN journal
  BY DEF At
<1> HIDE DEF n
<1> DEFINE Later == [in_progress |-> TRUE,
              completed |-> manifest.completed \cup {k \in Key : Of(k)' # {}},
              objects |-> [k \in Key |-> IF Of(k)' = {} THEN manifest.objects[k]
                                         ELSE journal'[Max(Of(k)')].objects[k]],
              scopes |-> [s \in Scope |-> IF At(s)' = {} THEN manifest.scopes[s]
                                          ELSE journal'[Max(At(s)')].mark]]
<1>10. Replayed' = Later
  BY DEF Replayed, Of, At
<1>11. Replayed'.completed = Replayed.completed \cup {k \in Key : line.objects[k] # None}
  <2>1. Replayed'.completed = manifest.completed \cup {k \in Key : Of(k)' # {}}
    BY <1>10
  <2>2. Replayed.completed = manifest.completed \cup {k \in Key : Of(k) # {}}
    BY ReplayIs
  <2>3. \A k \in Key : Of(k)' # {} <=> Of(k) # {} \/ line.objects[k] # None
    BY <1>4
  <2>4. QED
    BY <2>1, <2>2, <2>3
<1>12. ASSUME NEW k \in Key
       PROVE  Replayed'.objects[k] = IF line.objects[k] # None THEN line.objects[k]
                                     ELSE Replayed.objects[k]
  <2>1. Replayed'.objects[k] = IF Of(k)' = {} THEN manifest.objects[k]
                               ELSE journal'[Max(Of(k)')].objects[k]
    BY <1>10
  <2>2. Replayed.objects[k] = IF Of(k) = {} THEN manifest.objects[k]
                              ELSE journal[Max(Of(k))].objects[k]
    BY ReplayIs
  <2>3. CASE line.objects[k] # None
    BY <1>1, <1>4, <1>6, <1>8, <2>1, <2>3
  <2>4. CASE line.objects[k] = None
    BY <1>1, <1>4, <1>7, <1>8, <2>1, <2>2, <2>4
  <2>5. QED
    BY <2>3, <2>4
<1>13. ASSUME NEW s \in Scope
       PROVE  Replayed'.scopes[s] = IF line.scope = s THEN line.mark ELSE Replayed.scopes[s]
  <2>1. Replayed'.scopes[s] = IF At(s)' = {} THEN manifest.scopes[s]
                              ELSE journal'[Max(At(s)')].mark
    BY <1>10
  <2>2. Replayed.scopes[s] = IF At(s) = {} THEN manifest.scopes[s]
                             ELSE journal[Max(At(s))].mark
    BY ReplayIs
  <2>3. CASE line.scope = s
    BY <1>1, <1>5, <1>6, <1>9, <2>1, <2>3
  <2>4. CASE line.scope # s
    BY <1>1, <1>5, <1>7, <1>9, <2>1, <2>2, <2>4
  <2>5. QED
    BY <2>3, <2>4
<1>14. QED
  BY <1>3, <1>11, <1>12, <1>13
-----------------------------------------------------------------------------
(* Types, and what the larger actions do.                                  *)

LEMMA Nothing ==
  /\ None \in Object /\ NoObjects \in [Key -> Object]
  /\ \A k \in Key : NoObjects[k] = None
  /\ None.digest = Absent
<1>1. NoVersion \in Version
  BY DEF NoVersion, Version
<1>2. None \in Object
  BY <1>1 DEF None, Object
<1>3. QED
  BY <1>2 DEF NoObjects, None

LEMMA Versions ==
  ASSUME RemoteTypes, NEW k \in Key
  PROVE  object_version(k) \in Version /\ (Stamped => object_version(k)[2] = stamp[k])
         /\ object_version(k)[1] = IF k \in Identified THEN bucket[k] ELSE NoIdentity
BY DEF RemoteTypes, object_version, Version

\* The page that ListPage receives.
LEMMA ListPageEffect ==
  ASSUME Types, ListPage
  PROVE  /\ PageTypes' /\ page'.scope \in Scope /\ ~mem.scopes[page'.scope].complete
         /\ page'.last \/ mem.scopes[page'.scope].token <= page'.next
         /\ \A k \in page'.todo :
              /\ ScopeOf[k] = page'.scope /\ bucket[k] # Absent
              /\ mem.scopes[page'.scope].token < k /\ k <= page'.next
         /\ \A k \in Key : page'.listed[k] = object_version(k)
         /\ \A k \in Key :
              /\ ScopeOf[k] = page'.scope /\ mem.scopes[page'.scope].token < k
              /\ page'.last \/ k <= page'.next
              /\ bucket[k] # Absent
              => k \in page'.todo
<1> DEFINE s == Min(IncompleteScopes)
           rest == {k \in Key : ScopeOf[k] = s /\ bucket[k] # Absent /\ k > mem.scopes[s].token}
           Before(k) == {j \in rest : j < k}
           here == {k \in rest : Cardinality(Before(k)) < PageSize}
           next == IF here = {} THEN 0 ELSE Max(here)
<1>1. /\ page' = [scope |-> s, todo |-> here, listed |-> [k \in Key |-> object_version(k)],
                  next |-> next, last |-> here = rest]
      /\ IncompleteScopes # {}
  BY DEF ListPage
<1>2. s \in IncompleteScopes
  <2>1. IncompleteScopes \in SUBSET Nat
    BY ObjectCacheConstants DEF IncompleteScopes
  <2>2. QED
    BY <1>1, <2>1, MinIsLeast
<1>3. s \in Scope /\ ~mem.scopes[s].complete
  BY <1>2 DEF IncompleteScopes
<1>4. mem.scopes[s].token \in Nat
  BY <1>3, ObjectCacheConstants DEF Types, ManifestTypes, Shape, Token
<1>5. rest \in SUBSET Key /\ rest \in SUBSET Nat /\ IsFiniteSet(rest)
  <2>1. rest \in SUBSET Key
    OBVIOUS
  <2> HIDE DEF rest
  <2>2. QED
    BY <2>1, FS_Subset, ObjectCacheConstants
<1>6. here \in SUBSET rest /\ IsFiniteSet(here) /\ here \in SUBSET Nat
  <2>1. here \in SUBSET rest
    OBVIOUS
  <2> HIDE DEF rest, here
  <2>2. QED
    BY <1>5, <2>1, FS_Subset
<1>7. here # {} => Max(here) \in here /\ \A k \in here : k <= Max(here)
  <2> HIDE DEF here
  <2>1. QED
    BY <1>6, MaxIsGreatest
<1>8. \A k \in rest : Before(k) \in SUBSET rest /\ IsFiniteSet(Before(k)) /\ Cardinality(Before(k)) \in Nat
  <2> SUFFICES ASSUME NEW k \in rest
               PROVE  Before(k) \in SUBSET rest /\ IsFiniteSet(Before(k)) /\ Cardinality(Before(k)) \in Nat
    OBVIOUS
  <2>1. Before(k) \in SUBSET rest
    OBVIOUS
  <2> HIDE DEF rest, Before
  <2>2. QED
    BY <1>5, <2>1, FS_Subset, FS_CardinalityType
<1>9. PageSize \in Nat /\ 0 < PageSize
  BY ObjectCacheConstants
<1>10. here = {} => rest = {}
  <2> SUFFICES ASSUME rest # {} PROVE here # {}
    OBVIOUS
  <2>1. Min(rest) \in rest /\ \A k \in rest : Min(rest) <= k
    <3> HIDE DEF rest
    <3>1. QED
      BY <1>5, MinIsLeast
  <2>2. Before(Min(rest)) = {}
    <3>1. \A j \in rest : ~(j < Min(rest))
      <4> DEFINE m == Min(rest)
      <4>1. m \in Nat /\ \A j \in rest : m <= j /\ j \in Nat
        BY <1>5, <2>1
      <4> HIDE DEF rest, m
      <4>2. \A j \in rest : ~(j < m)
        BY <4>1
      <4>3. QED
        BY <4>2 DEF m
    <3> HIDE DEF rest
    <3>2. QED
      BY <3>1
  <2>3. Cardinality(Before(Min(rest))) < PageSize
    BY <1>9, <2>2, FS_EmptySet
  <2>4. QED
    BY <2>1, <2>3
<1>11. ASSUME NEW k \in rest, k <= next PROVE k \in here
  <2>1. here # {}
    BY <1>10
  <2>2. Max(here) \in here /\ next = Max(here)
    BY <1>7, <2>1
  <2>3. Max(here) \in rest /\ Cardinality(Before(Max(here))) < PageSize
    BY <2>2
  <2> DEFINE m == Max(here)
  <2>4. m \in rest /\ Cardinality(Before(m)) < PageSize /\ k <= m
    BY <1>11, <2>2, <2>3
  <2> HIDE DEF m, here, next
  <2>5. Before(k) \in SUBSET Before(m)
    <3>1. \A j \in rest : j < k => j < m
      <4> HIDE DEF rest
      <4>1. QED
        BY <1>5, <2>4
    <3> HIDE DEF rest
    <3>2. QED
      BY <3>1
  <2>6. Cardinality(Before(k)) <= Cardinality(Before(m))
    <3>1. IsFiniteSet(Before(m))
      BY <1>8, <2>4
    <3> HIDE DEF Before
    <3>2. QED
      BY <2>5, <3>1, FS_Subset
  <2>7. Cardinality(Before(k)) \in Nat /\ Cardinality(Before(m)) \in Nat
    BY <1>8, <2>4
  <2>8. Cardinality(Before(k)) < PageSize
    <3> HIDE DEF Before
    <3>1. QED
      BY <1>9, <2>4, <2>6, <2>7
  <2>9. QED
    BY <2>8 DEF here
<1>12. next \in Token /\ next \in Nat
  <2>1. CASE here = {}
    BY <2>1 DEF Token
  <2>2. CASE here # {}
    <3>1. Max(here) \in Key
      BY <1>7, <2>2
    <3>2. QED
      BY <2>2, <3>1, ObjectCacheConstants DEF Token
  <2>3. QED
    BY <2>1, <2>2
<1>13. page'.last => here = rest
  BY <1>1
<1>14. page'.last <=> here = rest
  BY <1>1, Zenon
<1>15. [k \in Key |-> object_version(k)] \in [Key -> Version]
  BY Versions DEF Types
<1>16. PageTypes'
  <2>1. page'.todo \subseteq Key
    BY <1>1
  <2> HIDE DEF s, here, rest, next
  <2>2. QED
    BY <1>1, <1>12, <1>15, <2>1 DEF PageTypes
<1>17. page'.last \/ mem.scopes[s].token <= next
  <2>1. CASE here = {}
    BY <1>10, <1>14, <2>1
  <2>2. CASE here # {}
    <3>1. Max(here) \in rest /\ next = Max(here)
      BY <1>7, <2>2
    <3>2. mem.scopes[s].token < next
      BY <1>4, <1>12, <3>1
    <3> HIDE DEF next, s
    <3>3. QED
      BY <1>4, <1>12, <3>2
  <2>3. QED
    BY <2>1, <2>2
<1>18. ASSUME NEW k \in here
       PROVE  /\ ScopeOf[k] = s /\ bucket[k] # Absent /\ mem.scopes[s].token < k /\ k <= next
  <2>1. ScopeOf[k] = s /\ bucket[k] # Absent /\ k > mem.scopes[s].token
    OBVIOUS
  <2>2. k <= next
    BY <1>7
  <2>3. k \in Nat
    BY <1>6
  <2> HIDE DEF here, rest, next, s
  <2>4. QED
    BY <1>4, <2>1, <2>2, <2>3
<1>19. ASSUME NEW k \in Key, ScopeOf[k] = s, mem.scopes[s].token < k, bucket[k] # Absent,
              here = rest \/ k <= next
       PROVE  k \in here
  <2>1. k \in rest
    BY <1>19, <1>4, ObjectCacheConstants
  <2>2. QED
    BY <1>11, <1>19, <2>1
<1>20. page'.scope = s /\ page'.todo = here /\ page'.next = next
       /\ page'.listed = [k \in Key |-> object_version(k)]
  <2> HIDE DEF s, here, rest, next
  <2>1. QED
    BY <1>1
<1> HIDE DEF s, here, rest, next
<1>21. \A k \in Key : page'.listed[k] = object_version(k)
  BY <1>20
<1>22. QED
  BY <1>3, <1>14, <1>16, <1>17, <1>18, <1>19, <1>20, <1>21

\* The two ways a visit ends: the object is stored and seen, or nothing is.
Seen(k) ==
  \E version \in Version, data \in Content :
    /\ files' \in {files, [files EXCEPT ![k] = data]} /\ files'[k] # Absent
    /\ files' = files => files[k] = data \/ mem.objects[k] = [version |-> version, digest |-> data]
    /\ pending' = [pending EXCEPT ![k] = [version |-> version, digest |-> data]]
    /\ mem'.objects = [mem.objects EXCEPT ![k] = [version |-> version, digest |-> data]]
    /\ mem'.completed = mem.completed \cup {k} /\ mem'.scopes = mem.scopes
    /\ visited' = [visited EXCEPT ![k] = data] /\ pc' = pc
    /\ \/ /\ Cached(k) /\ files' = files /\ data = files[k] /\ version = page.listed[k]
          /\ mem.objects[k] = [version |-> version, digest |-> data]
       \/ ~Cached(k) /\ data = bucket[k] /\ version = DownloadVersion(k)

Unseen(k) ==
  /\ UNCHANGED <<files, pending, mem, visited>>
  /\ \/ Cached(k) /\ files[k] # mem.objects[k].digest /\ pc' = "failed"
     \/ bucket[k] = Absent /\ pc' \in {pc, "gone"} /\ (Stamped => pc' = pc)

\* What storing an object does.
Stored(k, version, data) ==
  /\ Shape(mem')
  /\ mem'.objects = [mem.objects EXCEPT ![k] = [version |-> version, digest |-> data]]
  /\ mem'.completed = mem.completed \cup {k} /\ mem'.scopes = mem.scopes
  /\ mem'.in_progress = mem.in_progress
  /\ files' \in {files, [files EXCEPT ![k] = data]} /\ files'[k] # Absent
  /\ files' = files => files[k] = data \/ mem.objects[k] = [version |-> version, digest |-> data]
  /\ pending' = [pending EXCEPT ![k] = [version |-> version, digest |-> data]]

LEMMA VisitEffect ==
  ASSUME Types, NEW k \in Key, Visit(k)
  PROVE  /\ Shape(mem') /\ (Seen(k) \/ Unseen(k))
         /\ PageTypes' /\ page'.todo = page.todo \ {k} /\ k \in page.todo
         /\ page'.scope = page.scope /\ page'.listed = page.listed
         /\ page'.next = page.next /\ page'.last = page.last
         /\ mem'.in_progress = mem.in_progress
         /\ UNCHANGED <<remote, manifest, journal, torn, history, runs, crashes>>
<1>1. /\ pc = "visit" /\ k \in page.todo /\ page' = [page EXCEPT !.todo = @ \ {k}]
      /\ UNCHANGED <<remote, manifest, journal, torn, history, runs, crashes>>
  BY DEF Visit
<1>2. /\ page'.todo = page.todo \ {k} /\ page'.scope = page.scope /\ page'.listed = page.listed
      /\ page'.next = page.next /\ page'.last = page.last /\ PageTypes'
  BY <1>1 DEF Types, PageTypes
<1>3. ASSUME NEW version \in Version, NEW data \in Content, Store(k, version, data)
      PROVE  Stored(k, version, data)
  <2>1. [version |-> version, digest |-> data] \in Object
    BY DEF Object
  <2>2. mem' = [mem EXCEPT !.objects[k] = [version |-> version, digest |-> data],
                           !.completed = @ \cup {k}]
    BY <1>3 DEF Store
  <2>3. /\ mem'.objects = [mem.objects EXCEPT ![k] = [version |-> version, digest |-> data]]
        /\ mem'.completed = mem.completed \cup {k} /\ mem'.scopes = mem.scopes
        /\ mem'.in_progress = mem.in_progress
        /\ mem' = [in_progress |-> mem'.in_progress, scopes |-> mem'.scopes,
                   completed |-> mem'.completed, objects |-> mem'.objects]
    BY <2>2 DEF Types, ManifestTypes, Shape
  <2>4. mem'.objects \in [Key -> Object]
    BY <2>1, <2>3 DEF Types, ManifestTypes, Shape
  <2>5. Shape(mem')
    BY <2>3, <2>4 DEF Types, ManifestTypes, Shape
  <2>6. data # Absent
    BY ObjectCacheConstants
  <2>7. /\ files' \in {files, [files EXCEPT ![k] = data]} /\ files'[k] # Absent
        /\ files' = files => files[k] = data \/ mem.objects[k] = [version |-> version, digest |-> data]
    <3>1. CASE mem.objects[k] # [version |-> version, digest |-> data] \/ files[k] = Absent
      BY <1>3, <2>6, <3>1 DEF Store, Types, LocalTypes
    <3>2. CASE ~(mem.objects[k] # [version |-> version, digest |-> data] \/ files[k] = Absent)
      BY <1>3, <2>6, <3>2 DEF Store, Types, LocalTypes
    <3>3. QED
      BY <3>1, <3>2
  <2>8. QED
    BY <1>3, <2>3, <2>5, <2>7 DEF Store, Stored
<1>4. /\ Shape(mem) /\ \A j \in Key : page.listed[j] \in Version
      /\ bucket[k] \in Content \cup {Absent} /\ files[k] \in Content \cup {Absent}
      /\ DownloadVersion(k) \in Version
  <2>1. object_version(k) \in Version
    BY Versions DEF Types
  <2>2. QED
    BY <2>1 DEF Types, ManifestTypes, PageTypes, RemoteTypes, LocalTypes, DownloadVersion
<1>5. CASE Cached(k) /\ files[k] = mem.objects[k].digest
  <2>1. Store(k, page.listed[k], files[k]) /\ visited' = [visited EXCEPT ![k] = files[k]] /\ pc' = pc
    BY <1>5 DEF Visit
  <2>2. files[k] \in Content /\ mem.objects[k].version = page.listed[k]
    BY <1>4, <1>5 DEF Cached
  <2>3. mem.objects[k] = [version |-> page.listed[k], digest |-> files[k]]
    <3>1. mem.objects[k] \in Object
      BY <1>4 DEF Shape
    <3>2. mem.objects[k] = [version |-> mem.objects[k].version, digest |-> mem.objects[k].digest]
      BY <3>1 DEF Object
    <3>3. QED
      BY <1>5, <2>2, <3>2
  <2>4. files' = files
    BY <1>5, <2>1, <2>3 DEF Store, Cached
  <2>5. Seen(k) /\ Shape(mem') /\ mem'.in_progress = mem.in_progress
    <3>1. page.listed[k] \in Version
      BY <1>4
    <3> DEFINE v == page.listed[k]
               d == files[k]
    <3>2. v \in Version /\ d \in Content /\ Store(k, v, d)
      BY <2>1, <2>2, <3>1
    <3>3. mem.objects[k] = [version |-> v, digest |-> d] /\ Cached(k) /\ d = files[k]
          /\ v = page.listed[k] /\ visited' = [visited EXCEPT ![k] = d] /\ pc' = pc
      BY <1>5, <2>1, <2>3
    <3> HIDE DEF v, d
    <3>4. Stored(k, v, d)
      BY <1>3, <3>2
    <3>5. Seen(k)
      BY <2>4, <3>2, <3>3, <3>4, Zenon DEF Seen, Stored
    <3>6. QED
      BY <3>4, <3>5 DEF Stored
  <2>6. QED
    BY <1>1, <1>2, <2>5
<1>6. CASE ~Cached(k) /\ bucket[k] # Absent
  <2>1. /\ Store(k, DownloadVersion(k), bucket[k]) /\ visited' = [visited EXCEPT ![k] = bucket[k]]
        /\ pc' = pc
    BY <1>6 DEF Visit
  <2>2. Seen(k) /\ Shape(mem') /\ mem'.in_progress = mem.in_progress
    <3>1. Stored(k, DownloadVersion(k), bucket[k])
      BY <1>3, <1>4, <1>6, <2>1
    <3>2. QED
      BY <1>4, <1>6, <2>1, <3>1 DEF Seen, Stored
  <2>3. QED
    BY <1>1, <1>2, <2>2
<1>7. CASE ~(Cached(k) /\ files[k] = mem.objects[k].digest) /\ ~(~Cached(k) /\ bucket[k] # Absent)
  <2>1. Unseen(k)
    BY <1>7 DEF Visit, Unseen
  <2>2. mem' = mem
    BY <2>1 DEF Unseen
  <2>3. QED
    BY <1>1, <1>2, <1>4, <2>1, <2>2
<1>8. QED
  BY <1>5, <1>6, <1>7

\* The line of finish_page, and what it changes in memory.
Line == [scope |-> page.scope, mark |-> Mark, objects |-> pending]

LEMMA FinishPageEffect ==
  ASSUME Types, PageInv, FinishPage
  PROVE  /\ page.scope \in Scope /\ IsLine(Line) /\ journal' = Append(journal, Line)
         /\ Shape(mem') /\ mem'.completed = mem.completed /\ mem'.objects = mem.objects
         /\ mem'.scopes = [mem.scopes EXCEPT ![page.scope] = Mark]
         /\ mem'.in_progress = mem.in_progress
<1>1. page.scope \in Scope /\ page.next \in Token /\ pending \in [Key -> Object]
  BY DEF FinishPage, PageInv, Types, PageTypes, LocalTypes
<1>2. IsLine(Line) /\ Mark.token \in Token
  BY <1>1 DEF IsLine, Line, Mark
<1>3. journal' = Append(journal, Line) /\ mem' = [mem EXCEPT !.scopes[page.scope] = Mark]
  BY DEF FinishPage, Line
<1>4. Shape(mem)
  BY DEF Types, ManifestTypes
<1>5. /\ mem'.completed = mem.completed /\ mem'.objects = mem.objects
      /\ mem'.scopes = [mem.scopes EXCEPT ![page.scope] = Mark]
      /\ mem'.in_progress = mem.in_progress
      /\ mem' = [in_progress |-> mem'.in_progress, scopes |-> mem'.scopes,
                 completed |-> mem'.completed, objects |-> mem'.objects]
  BY <1>3, <1>4 DEF Shape
<1>6. mem'.scopes = [s \in Scope |-> mem'.scopes[s]] /\ \A s \in Scope : mem'.scopes[s].token \in Token
  <2> HIDE DEF Mark
  <2>1. QED
    BY <1>1, <1>2, <1>4, <1>5 DEF Shape
<1>7. Shape(mem')
  BY <1>4, <1>5, <1>6 DEF Shape
<1>8. QED
  BY <1>1, <1>2, <1>3, <1>5, <1>7

\* The manifest that ends a session.
LEMMA CompactEffect ==
  ASSUME Types, Compact
  PROVE  /\ Shape(mem') /\ manifest' = mem' /\ mem'.in_progress = FALSE
         /\ mem'.completed = mem.completed
         /\ \A k \in Key : mem'.objects[k] = IF k \in mem.completed THEN mem.objects[k] ELSE None
<1> DEFINE objects == [k \in Key |-> IF k \in mem.completed THEN mem.objects[k] ELSE None]
<1>1. Shape(mem)
  BY DEF Types, ManifestTypes
<1>2. objects \in [Key -> Object]
  BY <1>1, Nothing DEF Shape
<1>3. mem' = [mem EXCEPT !.in_progress = FALSE, !.objects = objects] /\ manifest' = mem'
  BY <1>1 DEF Compact, Shape
<1> HIDE DEF objects
<1>4. /\ mem'.completed = mem.completed /\ mem'.objects = objects
      /\ mem'.scopes = mem.scopes /\ mem'.in_progress = FALSE
      /\ mem' = [in_progress |-> mem'.in_progress, scopes |-> mem'.scopes,
                 completed |-> mem'.completed, objects |-> mem'.objects]
  BY <1>1, <1>3 DEF Shape
<1>5. Shape(mem')
  BY <1>1, <1>2, <1>4 DEF Shape
<1>6. QED
  BY <1>3, <1>4, <1>5 DEF objects

\* Memory after a fresh or a resuming open.
LEMMA OpenEffect ==
  ASSUME Types, Open
  PROVE  /\ Shape(mem') /\ JournalTypes'
         /\ manifest.in_progress => /\ mem' = Replayed /\ pc' = "replay"
                                    /\ UNCHANGED <<journal, history>>
         /\ ~manifest.in_progress =>
              /\ mem'.in_progress /\ mem'.scopes = Unlisted /\ mem'.completed = {}
              /\ mem'.objects = manifest.objects /\ journal' = <<>> /\ pc' = "opening"
              /\ held' = [k \in Key |-> {bucket[k]}] /\ stable' = {k \in Key : bucket[k] # Absent}
<1>1. Shape(manifest) /\ JournalTypes
  BY DEF Types, ManifestTypes
<1>2. CASE manifest.in_progress
  <2>1. mem' = Replayed /\ pc' = "replay" /\ UNCHANGED <<journal, history>>
    BY <1>2 DEF Open
  <2>2. Shape(mem') /\ JournalTypes'
    BY <1>1, <2>1, ReplayShape DEF JournalTypes
  <2>3. QED
    BY <1>2, <2>1, <2>2
<1>3. CASE ~manifest.in_progress
  <2>1. /\ mem' = [manifest EXCEPT !.in_progress = TRUE, !.scopes = Unlisted, !.completed = {}]
        /\ journal' = <<>> /\ pc' = "opening"
        /\ held' = [k \in Key |-> {bucket[k]}] /\ stable' = {k \in Key : bucket[k] # Absent}
    BY <1>3 DEF Open
  <2>2. /\ mem'.in_progress = TRUE /\ mem'.scopes = Unlisted /\ mem'.completed = {}
        /\ mem'.objects = manifest.objects
        /\ mem' = [in_progress |-> mem'.in_progress, scopes |-> mem'.scopes,
                   completed |-> mem'.completed, objects |-> mem'.objects]
    BY <1>1, <2>1 DEF Shape
  <2>3. Unlisted = [s \in Scope |-> Unlisted[s]] /\ \A s \in Scope : Unlisted[s].token \in Token
    BY DEF Unlisted, Token
  <2>4. Shape(mem')
    BY <1>1, <2>2, <2>3 DEF Shape
  <2>5. JournalTypes'
    <3>1. <<>> \in Seq({}) /\ DOMAIN <<>> = {}
      OBVIOUS
    <3>2. QED
      BY <2>1, <3>1 DEF JournalTypes
  <2>6. QED
    BY <1>3, <2>1, <2>2, <2>4, <2>5
<1>4. QED
  BY <1>2, <1>3

LEMMA TypesNext == Types /\ PageInv /\ [Next]_vars => Types'
<1> SUFFICES ASSUME Types, PageInv, [Next]_vars PROVE Types'
  OBVIOUS
<1> USE DEF remote, disk, history
<1>1. ASSUME NEW k \in Key, NEW c \in Content \cup {Absent}, Edit(k, c) PROVE Types'
  BY <1>1 DEF Edit, Types, ManifestTypes, JournalTypes, RemoteTypes, LocalTypes, PageTypes
<1>2. CASE Open
  <2>1. Shape(mem') /\ JournalTypes'
    BY <1>2, OpenEffect
  <2>2. /\ visited' = [k \in Key |-> Absent] /\ pending' = NoObjects /\ page' = NoPage
        /\ UNCHANGED <<manifest, bucket, stamp, files>>
        /\ held' = held \/ held' = [k \in Key |-> {bucket[k]}]
    BY <1>2 DEF Open
  <2>3. Shape(manifest') /\ RemoteTypes'
    BY <2>2 DEF Types, ManifestTypes, RemoteTypes
  <2>4. LocalTypes'
    BY <2>2, Nothing DEF Types, LocalTypes, RemoteTypes
  <2>5. PageTypes'
    <3>1. NoVersion \in Version
      BY DEF NoVersion, Version
    <3>2. QED
      BY <2>2, <3>1 DEF PageTypes, NoPage, Token
  <2>6. QED
    BY <2>1, <2>3, <2>4, <2>5 DEF Types, ManifestTypes
<1>3. CASE SaveOpen \/ Trim \/ Close \/ UNCHANGED vars
  <2>1. /\ manifest' \in {manifest, mem} /\ mem' = mem /\ journal' \in {journal, <<>>}
        /\ UNCHANGED <<bucket, stamp, files, visited, pending, held, page>>
    BY <1>3 DEF SaveOpen, Trim, Close, vars
  <2>2. JournalTypes'
    <3>1. <<>> \in Seq({}) /\ DOMAIN <<>> = {}
      OBVIOUS
    <3>2. CASE journal' = <<>>
      BY <3>1, <3>2 DEF JournalTypes
    <3>3. CASE journal' = journal
      BY <3>3 DEF Types, JournalTypes
    <3>4. QED
      BY <2>1, <3>2, <3>3
  <2>3. Shape(manifest') /\ Shape(mem')
    BY <2>1 DEF Types, ManifestTypes
  <2>4. QED
    BY <2>1, <2>2, <2>3 DEF Types, ManifestTypes, RemoteTypes, LocalTypes, PageTypes
<1>4. CASE Replay
  <2>1. visited' \in [Key -> Content \cup {Absent}]
    BY <1>4 DEF Replay, Types, LocalTypes
  <2>2. UNCHANGED <<manifest, mem, journal, bucket, stamp, files, pending, held, page>>
    BY <1>4 DEF Replay
  <2>3. QED
    BY <2>1, <2>2 DEF Types, ManifestTypes, JournalTypes, RemoteTypes, LocalTypes, PageTypes
<1>5. CASE ListPage
  <2>1. PageTypes'
    BY <1>5, ListPageEffect
  <2>2. UNCHANGED <<manifest, mem, journal, bucket, stamp, files, pending, held, visited>>
    BY <1>5 DEF ListPage
  <2>3. QED
    BY <2>1, <2>2 DEF Types, ManifestTypes, JournalTypes, RemoteTypes, LocalTypes
<1>6. ASSUME NEW k \in Key, Visit(k) PROVE Types'
  <2>1. /\ Shape(mem') /\ (Seen(k) \/ Unseen(k)) /\ PageTypes'
        /\ UNCHANGED <<manifest, journal, bucket, stamp, held>>
    BY <1>6, VisitEffect
  <2>2. LocalTypes'
    <3>1. CASE Seen(k)
      <4>1. PICK version \in Version, data \in Content :
              /\ files' \in {files, [files EXCEPT ![k] = data]}
              /\ pending' = [pending EXCEPT ![k] = [version |-> version, digest |-> data]]
              /\ visited' = [visited EXCEPT ![k] = data]
        BY <3>1 DEF Seen
      <4>2. [version |-> version, digest |-> data] \in Object
        BY DEF Object
      <4>3. QED
        BY <2>1, <4>1, <4>2 DEF Types, LocalTypes
    <3>2. CASE Unseen(k)
      BY <2>1, <3>2 DEF Unseen, Types, LocalTypes
    <3>3. QED
      BY <2>1, <3>1, <3>2
  <2>3. Shape(manifest') /\ JournalTypes' /\ RemoteTypes'
    BY <2>1 DEF Types, ManifestTypes, JournalTypes, RemoteTypes
  <2>4. QED
    BY <2>1, <2>2, <2>3 DEF Types, ManifestTypes
<1>7. CASE FinishPage
  <2>1. Shape(mem') /\ IsLine(Line) /\ journal' = Append(journal, Line)
    BY <1>7, FinishPageEffect
  <2>2. UNCHANGED <<manifest, bucket, stamp, files, visited, held, page>> /\ pending' = NoObjects
    BY <1>7 DEF FinishPage
  <2>3. JournalTypes'
    <3> HIDE DEF Line
    <3>1. QED
      BY <2>1, <2>2, ReplayAppend DEF Types
  <2>4. Shape(manifest')
    BY <2>2 DEF Types, ManifestTypes
  <2>5. RemoteTypes' /\ PageTypes'
    BY <2>2 DEF Types, RemoteTypes, PageTypes
  <2>6. LocalTypes'
    BY <2>2, Nothing DEF Types, LocalTypes
  <2>7. QED
    BY <2>1, <2>3, <2>4, <2>5, <2>6 DEF Types, ManifestTypes
<1>8. ASSUME NEW k \in Key, Sweep(k) PROVE Types'
  BY <1>8 DEF Sweep, Types, ManifestTypes, JournalTypes, RemoteTypes, LocalTypes, PageTypes
<1>9. CASE Compact
  <2>1. Shape(mem') /\ manifest' = mem'
    BY <1>9, CompactEffect
  <2>2. UNCHANGED <<journal, bucket, stamp, files, visited, pending, held, page>>
    BY <1>9 DEF Compact
  <2>3. QED
    BY <2>1, <2>2 DEF Types, ManifestTypes, JournalTypes, RemoteTypes, LocalTypes, PageTypes
<1>10. CASE Interrupt
  <2>1. /\ mem' = manifest /\ pending' = NoObjects /\ page' = NoPage
        /\ UNCHANGED <<manifest, journal, bucket, stamp, files, visited, held>>
    BY <1>10 DEF Interrupt
  <2>2. PageTypes'
    <3>1. NoVersion \in Version
      BY DEF NoVersion, Version
    <3>2. QED
      BY <2>1, <3>1 DEF PageTypes, NoPage, Token
  <2>3. Shape(mem') /\ Shape(manifest')
    BY <2>1 DEF Types, ManifestTypes
  <2>4. JournalTypes' /\ RemoteTypes'
    BY <2>1 DEF Types, JournalTypes, RemoteTypes
  <2>5. LocalTypes'
    BY <2>1, Nothing DEF Types, LocalTypes
  <2>6. QED
    BY <2>2, <2>3, <2>4, <2>5 DEF Types, ManifestTypes
<1>11. QED
  BY <1>1, <1>2, <1>3, <1>4, <1>5, <1>6, <1>7, <1>8, <1>9, <1>10 DEF Next, Run, Over
-----------------------------------------------------------------------------
(* Memory and disk.                                                        *)

\* What SaveOpen publishes is an empty session.
LEMMA SaveOpenEffect ==
  ASSUME Types, SyncInv, SaveOpen
  PROVE  /\ manifest' = mem /\ mem' = mem /\ mem.in_progress /\ pending' = NoObjects
         /\ Replayed'.completed = {} /\ Replayed'.objects = manifest.objects
         /\ Replayed'.scopes = Unlisted /\ mem.completed = {} /\ mem.scopes = Unlisted
         /\ mem.objects = manifest.objects
<1>1. /\ manifest' = mem /\ journal' = <<>> /\ mem.completed = {} /\ mem.scopes = Unlisted
      /\ mem.objects = manifest.objects /\ mem' = mem /\ mem.in_progress /\ pending' = NoObjects
  BY DEF SaveOpen, SyncInv
<1>2. Shape(manifest')
  BY <1>1 DEF Types, ManifestTypes
<1>3. QED
  BY <1>1, <1>2, ReplayEmpty

LEMMA SyncNext == Types /\ SyncInv /\ PageInv /\ [Next]_vars => SyncInv'
<1> SUFFICES ASSUME Types, SyncInv, PageInv, [Next]_vars PROVE SyncInv'
  OBVIOUS
<1> USE DEF remote, disk, history
<1>1. ASSUME UNCHANGED <<manifest, journal, mem, pending, pc>> PROVE SyncInv'
  BY <1>1, ReplaySame DEF SyncInv
<1>2. CASE Open
  <2>1. UNCHANGED manifest /\ pending' = NoObjects
    BY <1>2 DEF Open
  <2>2. CASE manifest.in_progress
    <3>1. mem' = Replayed /\ pc' = "replay" /\ UNCHANGED <<manifest, journal>>
      BY <1>2, <2>1, <2>2, OpenEffect
    <3>2. Replayed' = Replayed
      BY <3>1, ReplaySame
    <3>3. QED
      BY <2>1, <2>2, <3>1, <3>2, Nothing DEF SyncInv
  <2>3. CASE ~manifest.in_progress
    BY <1>2, <2>1, <2>3, OpenEffect DEF SyncInv
  <2>4. QED
    BY <2>2, <2>3
<1>3. CASE SaveOpen
  <2>1. pc' = "replay"
    BY <1>3 DEF SaveOpen
  <2>2. QED
    BY <1>3, <2>1, SaveOpenEffect, Nothing DEF SyncInv
<1>4. CASE Replay \/ ListPage
  <2>1. /\ UNCHANGED <<manifest, journal, mem, pending>>
        /\ pc \in {"replay", "list"} /\ pc' \in {"list", "failed", "visit"}
    BY <1>4 DEF Replay, ListPage
  <2>2. QED
    BY <2>1, ReplaySame DEF SyncInv
<1>5. ASSUME NEW k \in Key, Visit(k) PROVE SyncInv'
  <2>1. UNCHANGED <<manifest, journal>> /\ pc = "visit" /\ (Seen(k) \/ Unseen(k))
    BY <1>5, VisitEffect DEF Visit
  <2>2. Replayed' = Replayed
    BY <2>1, ReplaySame
  <2>3. CASE Seen(k)
    <3>1. PICK version \in Version, data \in Content :
            /\ pending' = [pending EXCEPT ![k] = [version |-> version, digest |-> data]]
            /\ mem'.objects = [mem.objects EXCEPT ![k] = [version |-> version, digest |-> data]]
            /\ mem'.completed = mem.completed \cup {k} /\ mem'.scopes = mem.scopes
            /\ pc' = pc
      BY <2>3 DEF Seen
    <3>2. [version |-> version, digest |-> data] # None
      BY ObjectCacheConstants DEF None
    <3>3. pending \in [Key -> Object] /\ mem.objects \in [Key -> Object]
      BY DEF Types, LocalTypes, ManifestTypes, Shape
    <3>4. \A j \in Key : pending'[j] # None <=> j = k \/ pending[j] # None
      BY <3>1, <3>2, <3>3
    <3>5. mem'.completed = Replayed.completed \cup {j \in Key : pending'[j] # None}
      BY <2>1, <3>1, <3>4 DEF SyncInv
    <3>6. \A j \in Key : mem'.objects[j] = IF pending'[j] # None THEN pending'[j]
                                           ELSE Replayed.objects[j]
      BY <2>1, <3>1, <3>2, <3>3 DEF SyncInv
    <3>7. QED
      BY <2>1, <2>2, <3>1, <3>5, <3>6 DEF SyncInv
  <2>4. CASE Unseen(k)
    BY <2>1, <2>2, <2>4 DEF Unseen, SyncInv
  <2>5. QED
    BY <2>1, <2>3, <2>4
<1>6. CASE FinishPage
  <2>1. /\ pc = "visit" /\ pc' = "list" /\ manifest' = manifest /\ pending' = NoObjects
    BY <1>6 DEF FinishPage
  <2>2. /\ page.scope \in Scope /\ IsLine(Line) /\ journal' = Append(journal, Line)
        /\ mem'.completed = mem.completed /\ mem'.objects = mem.objects
        /\ mem'.scopes = [mem.scopes EXCEPT ![page.scope] = Mark] /\ Shape(mem')
    BY <1>6, FinishPageEffect
  <2>3. Line.objects = pending /\ Line.scope = page.scope /\ Line.mark = Mark
    BY DEF Line
  <2> HIDE DEF Line, Mark
  <2>4. /\ Replayed'.completed = Replayed.completed \cup {k \in Key : pending[k] # None}
        /\ \A k \in Key : Replayed'.objects[k] = IF pending[k] # None THEN pending[k]
                                                  ELSE Replayed.objects[k]
        /\ \A s \in Scope : Replayed'.scopes[s] = IF page.scope = s THEN Mark
                                                   ELSE Replayed.scopes[s]
        /\ JournalTypes'
    BY <2>1, <2>2, <2>3, ReplayAppend DEF Types
  <2>5. mem'.completed = Replayed'.completed /\ \A k \in Key : mem'.objects[k] = Replayed'.objects[k]
    BY <2>1, <2>2, <2>4 DEF SyncInv
  <2>6. mem'.scopes = Replayed'.scopes
    <3>1. Shape(Replayed) /\ Shape(mem)
      BY ReplayShape DEF Types, ManifestTypes
    <3>2. Replayed'.scopes = [s \in Scope |-> Replayed'.scopes[s]]
      BY DEF Replayed
    <3>3. mem'.scopes = [s \in Scope |-> mem'.scopes[s]]
      BY <2>2 DEF Shape
    <3>4. \A s \in Scope : mem'.scopes[s] = Replayed'.scopes[s]
      BY <2>1, <2>2, <2>4, <3>1 DEF SyncInv, Shape
    <3>5. QED
      BY <3>2, <3>3, <3>4
  <2>7. QED
    BY <2>1, <2>5, <2>6, Nothing DEF SyncInv
<1>7. ASSUME NEW k \in Key, Sweep(k) PROVE SyncInv'
  BY <1>1, <1>7 DEF Sweep
<1>8. CASE Compact
  <2>1. pc' = "trim"
    BY <1>8 DEF Compact
  <2>2. QED
    BY <1>8, <2>1, CompactEffect DEF SyncInv
<1>9. CASE Trim \/ Close \/ Interrupt
  BY <1>9 DEF Trim, Close, Interrupt, SyncInv
<1>10. CASE UNCHANGED vars
  BY <1>1, <1>10 DEF vars
<1>11. ASSUME NEW k \in Key, NEW c \in Content \cup {Absent}, Edit(k, c) PROVE SyncInv'
  BY <1>1, <1>11 DEF Edit
<1>12. QED
  BY <1>2, <1>3, <1>4, <1>5, <1>6, <1>7, <1>8, <1>9, <1>10, <1>11 DEF Next, Run, Over
-----------------------------------------------------------------------------
(* Records and the bucket.                                                 *)

\* The provider of a bucket does not change.
LEMMA SameProvider == [Next]_vars => provider' = provider /\ (Stamped' <=> Stamped) /\ Versioned' = Versioned
<1> SUFFICES ASSUME [Next]_vars PROVE provider' = provider /\ (Stamped' <=> Stamped) /\ Versioned' = Versioned
  OBVIOUS
<1>1. provider' = provider
  BY DEF Next, Run, Over, Open, SaveOpen, Replay, ListPage, FinishPage, Compact, Trim, Close, Visit,
     Sweep, Interrupt, Edit, vars, remote
<1>2. QED
  BY <1>1 DEF Stamped, Versioned

\* Fresh after the step, for a record of before.
FreshNext(k, object) ==
  object # None =>
    /\ object.version[2] <= stamp'[k]
    /\ object.version[2] = stamp'[k] => object.digest = bucket'[k]
                                          /\ files'[k] \in {bucket'[k], Absent}

\* A record stays fresh when its object is edited, or its file is downloaded
\* again or removed.
LEMMA StaysFresh ==
  ASSUME NEW k, NEW object, Fresh(k, object),
         \/ /\ stamp'[k] = stamp[k] /\ bucket'[k] = bucket[k]
            /\ files'[k] \in {files[k], bucket[k], Absent}
         \/ /\ object.version[2] \in Nat /\ stamp[k] \in Nat /\ stamp'[k] = stamp[k] + 1
  PROVE  FreshNext(k, object)
BY DEF Fresh, FreshNext

\* The records are those of the manifest, of the journal and of the page.
LEMMA AllFresh ==
  ASSUME Stamped => \A k \in Key :
           /\ FreshNext(k, manifest'.objects[k])
           /\ manifest'.in_progress => FreshNext(k, Replayed'.objects[k])
           /\ pc' = "visit" => FreshNext(k, pending'[k]),
         provider' = provider
  PROVE  StampInv'
BY DEF StampInv, Fresh, FreshNext, Stamped

LEMMA RecordTypes ==
  ASSUME Types, NEW k \in Key
  PROVE  /\ manifest.objects[k].version[2] \in Nat /\ Replayed.objects[k].version[2] \in Nat
         /\ pending[k].version[2] \in Nat /\ stamp[k] \in Nat
<1>1. Shape(Replayed)
  BY ReplayShape DEF Types, ManifestTypes
<1>2. manifest.objects[k] \in Object /\ Replayed.objects[k] \in Object /\ pending[k] \in Object
  BY <1>1 DEF Types, ManifestTypes, LocalTypes, Shape
<1>3. \A o \in Object : o.version[2] \in Nat
  BY DEF Object, Version
<1>4. QED
  BY <1>2, <1>3 DEF Types, RemoteTypes

LEMMA StampNext == Types /\ SyncInv /\ StampInv /\ PageInv /\ [Next]_vars => StampInv'
<1> SUFFICES ASSUME Types, SyncInv, StampInv, PageInv, [Next]_vars PROVE StampInv'
  OBVIOUS
<1> USE DEF remote, disk, history
<1>0. provider' = provider
  BY SameProvider
<1>1. ASSUME UNCHANGED <<bucket, stamp, manifest>>,
             \A k \in Key : files'[k] \in {files[k], bucket[k], Absent},
             manifest'.in_progress => UNCHANGED journal,
             pc' = "visit" => pc = "visit" /\ UNCHANGED pending
      PROVE  StampInv'
  <2>1. manifest'.in_progress => Replayed' = Replayed
    BY <1>1, ReplaySame
  <2> SUFFICES ASSUME Stamped, NEW k \in Key
               PROVE  /\ FreshNext(k, manifest'.objects[k])
                      /\ manifest'.in_progress => FreshNext(k, Replayed'.objects[k])
                      /\ pc' = "visit" => FreshNext(k, pending'[k])
    BY <1>0, AllFresh
  <2>2. /\ Fresh(k, manifest.objects[k]) /\ (manifest.in_progress => Fresh(k, Replayed.objects[k]))
        /\ (pc = "visit" => Fresh(k, pending[k]))
    BY DEF StampInv
  <2>3. \A object : Fresh(k, object) => FreshNext(k, object)
    BY <1>1, StaysFresh
  <2>4. QED
    BY <1>1, <2>1, <2>2, <2>3
<1>2. ASSUME NEW k \in Key, NEW c \in Content \cup {Absent}, Edit(k, c) PROVE StampInv'
  <2>1. /\ UNCHANGED <<manifest, journal, pending, pc, files>>
        /\ bucket' = [bucket EXCEPT ![k] = c] /\ stamp' = [stamp EXCEPT ![k] = @ + 1]
    BY <1>2 DEF Edit
  <2>2. Replayed' = Replayed
    BY <2>1, ReplaySame
  <2> SUFFICES ASSUME Stamped, NEW j \in Key
               PROVE  /\ FreshNext(j, manifest.objects[j])
                      /\ manifest.in_progress => FreshNext(j, Replayed.objects[j])
                      /\ pc = "visit" => FreshNext(j, pending[j])
    BY <1>0, <2>1, <2>2, AllFresh
  <2>3. /\ Fresh(j, manifest.objects[j]) /\ (manifest.in_progress => Fresh(j, Replayed.objects[j]))
        /\ (pc = "visit" => Fresh(j, pending[j]))
    BY DEF StampInv
  <2>4. \/ stamp'[j] = stamp[j] /\ bucket'[j] = bucket[j] /\ files'[j] = files[j]
        \/ stamp'[j] = stamp[j] + 1
    BY <2>1 DEF Types, RemoteTypes
  <2>5. \A object : Fresh(j, object) /\ object.version[2] \in Nat => FreshNext(j, object)
    BY <2>4, RecordTypes, StaysFresh
  <2>6. QED
    BY <2>3, <2>5, RecordTypes
<1>3. CASE Open
  <2>1. UNCHANGED <<manifest, bucket, stamp, files>> /\ pc' # "visit"
        /\ (manifest.in_progress => UNCHANGED journal)
    BY <1>3 DEF Open
  <2>2. QED
    BY <1>1, <2>1
<1>4. CASE SaveOpen
  <2>1. UNCHANGED <<bucket, stamp, files>> /\ pc' # "visit"
    BY <1>4 DEF SaveOpen
  <2>2. manifest'.objects = manifest.objects /\ Replayed'.objects = manifest.objects
    BY <1>4, SaveOpenEffect
  <2>3. \A k \in Key : Stamped => Fresh(k, manifest.objects[k])
    BY DEF StampInv
  <2>4. \A k \in Key : Stamped => FreshNext(k, manifest.objects[k])
    BY <2>1, <2>3, StaysFresh
  <2>5. QED
    BY <1>0, <2>1, <2>2, <2>4, AllFresh
<1>5. CASE Replay \/ Trim \/ Close \/ Interrupt \/ UNCHANGED vars
  <2>1. /\ UNCHANGED <<manifest, bucket, stamp, files>>
        /\ pc' = "visit" => pc = "visit" /\ UNCHANGED pending
        /\ manifest'.in_progress => UNCHANGED journal
    BY <1>5 DEF Replay, Trim, Close, Interrupt, vars, SyncInv
  <2>2. QED
    BY <1>1, <2>1
<1>6. CASE ListPage
  <2>1. UNCHANGED <<manifest, journal, bucket, stamp, files, pending>> /\ pending = NoObjects
    BY <1>6 DEF ListPage, SyncInv
  <2>2. Replayed' = Replayed
    BY <2>1, ReplaySame
  <2>3. \A k \in Key : Stamped => Fresh(k, manifest.objects[k])
                                 /\ (manifest.in_progress => Fresh(k, Replayed.objects[k]))
    BY DEF StampInv
  <2>4. \A k \in Key : \A object : Fresh(k, object) => FreshNext(k, object)
    BY <2>1, StaysFresh
  <2>5. \A k \in Key : FreshNext(k, pending'[k])
    BY <2>1, Nothing DEF FreshNext
  <2>6. QED
    BY <1>0, <2>1, <2>2, <2>3, <2>4, <2>5, AllFresh
<1>7. ASSUME NEW k \in Key, Visit(k) PROVE StampInv'
  <2>1. /\ UNCHANGED <<manifest, journal, bucket, stamp>> /\ pc = "visit" /\ k \in page.todo
        /\ (Seen(k) \/ Unseen(k))
    BY <1>7, VisitEffect DEF Visit
  <2>2. CASE Unseen(k)
    <3>1. UNCHANGED <<files, pending>>
      BY <2>2 DEF Unseen
    <3>2. QED
      BY <1>1, <2>1, <3>1
  <2>3. CASE Seen(k)
    <3>1. PICK version \in Version, data \in Content :
            /\ files' \in {files, [files EXCEPT ![k] = data]}
            /\ files' = files => files[k] = data \/ mem.objects[k] = [version |-> version, digest |-> data]
            /\ pending' = [pending EXCEPT ![k] = [version |-> version, digest |-> data]]
            /\ \/ files' = files /\ mem.objects[k] = [version |-> version, digest |-> data]
               \/ data = bucket[k] /\ version = DownloadVersion(k)
      BY <2>3 DEF Seen
    <3>2. Replayed' = Replayed
      BY <2>1, ReplaySame
    <3>3. files \in [Key -> Content \cup {Absent}] /\ pending \in [Key -> Object]
      BY DEF Types, LocalTypes
    <3>4. \A j \in Key : files'[j] \in {files[j], bucket[j]}
      BY <3>1, <3>3
    <3>5. \A j \in Key : \A object : Fresh(j, object) => FreshNext(j, object)
      BY <2>1, <3>4, StaysFresh
    <3> SUFFICES ASSUME Stamped, NEW j \in Key
                 PROVE  /\ FreshNext(j, manifest.objects[j])
                        /\ manifest.in_progress => FreshNext(j, Replayed.objects[j])
                        /\ FreshNext(j, pending'[j])
      BY <1>0, <2>1, <3>2, AllFresh
    <3>6. /\ Fresh(j, manifest.objects[j]) /\ (manifest.in_progress => Fresh(j, Replayed.objects[j]))
          /\ Fresh(j, pending[j])
      BY <2>1 DEF StampInv
    <3>7. CASE j # k
      BY <3>1, <3>3, <3>5, <3>6, <3>7
    <3>8. CASE j = k
      <4> DEFINE object == [version |-> version, digest |-> data]
      <4>1. mem.objects[k] = Replayed.objects[k] /\ manifest.in_progress
        BY <2>1 DEF SyncInv, PageInv
      <4>2. Fresh(k, mem.objects[k])
        BY <3>6, <3>8, <4>1
      <4>3. pending'[k] = object
        BY <3>1, <3>3
      <4>4. CASE mem.objects[k] = object
        BY <3>5, <3>6, <3>8, <4>2, <4>3, <4>4
      <4>5. CASE mem.objects[k] # object
        <5>1. data = bucket[k] /\ version = DownloadVersion(k) /\ files'[k] = data
          BY <3>1, <3>3, <4>5
        <5>2. version[2] <= stamp[k]
          <6>1. object_version(k)[2] = stamp[k] /\ page.listed[k][2] <= stamp[k] /\ stamp[k] \in Nat
            BY <2>1, Versions, RecordTypes DEF PageInv, Types
          <6>2. QED
            BY <5>1, <6>1 DEF DownloadVersion
        <5>3. object.version = version /\ object.digest = data
          OBVIOUS
        <5> HIDE DEF object
        <5>4. FreshNext(k, object)
          BY <2>1, <5>1, <5>2, <5>3 DEF FreshNext
        <5>5. QED
          BY <3>5, <3>6, <3>8, <4>3, <5>4
      <4>6. QED
        BY <4>4, <4>5
    <3>9. QED
      BY <3>7, <3>8
  <2>4. QED
    BY <2>1, <2>2, <2>3
<1>8. CASE FinishPage
  <2>1. /\ UNCHANGED <<manifest, bucket, stamp, files>> /\ pc = "visit" /\ pc' = "list"
    BY <1>8 DEF FinishPage
  <2>2. \A k \in Key : Replayed'.objects[k] \in {pending[k], Replayed.objects[k]}
    <3>1. IsLine(Line) /\ journal' = Append(journal, Line) /\ Line.objects = pending
      BY <1>8, FinishPageEffect DEF Line
    <3> HIDE DEF Line
    <3>2. QED
      BY <2>1, <3>1, ReplayAppend DEF Types
  <2>3. \A k \in Key : Stamped => /\ Fresh(k, manifest.objects[k]) /\ Fresh(k, pending[k])
                                 /\ (manifest.in_progress => Fresh(k, Replayed.objects[k]))
    BY <2>1 DEF StampInv
  <2>4. \A k \in Key : \A object : Fresh(k, object) => FreshNext(k, object)
    BY <2>1, StaysFresh
  <2>5. QED
    BY <1>0, <2>1, <2>2, <2>3, <2>4, AllFresh
<1>9. ASSUME NEW k \in Key, Sweep(k) PROVE StampInv'
  <2>1. /\ UNCHANGED <<manifest, journal, bucket, stamp, pc, pending>>
        /\ files' = [files EXCEPT ![k] = Absent]
    BY <1>9 DEF Sweep
  <2>2. \A j \in Key : files'[j] \in {files[j], Absent}
    BY <2>1 DEF Types, LocalTypes
  <2>3. QED
    BY <1>1, <2>1, <2>2
<1>10. CASE Compact
  <2>1. UNCHANGED <<bucket, stamp, files>> /\ pc = "list" /\ pc' = "trim"
    BY <1>10 DEF Compact
  <2>2. \A k \in Key : mem.objects[k] = Replayed.objects[k] /\ manifest.in_progress
    BY <2>1, Nothing DEF SyncInv
  <2>3. \A k \in Key : Stamped => FreshNext(k, mem.objects[k])
    BY <2>1, <2>2, StaysFresh DEF StampInv
  <2>4. \A k \in Key : manifest'.objects[k] \in {mem.objects[k], None} /\ ~manifest'.in_progress
    BY <1>10, CompactEffect
  <2>5. \A k \in Key : FreshNext(k, None)
    BY DEF FreshNext
  <2>6. QED
    BY <1>0, <2>1, <2>3, <2>4, <2>5, AllFresh
<1>11. QED
  BY <1>2, <1>3, <1>4, <1>5, <1>6, <1>7, <1>8, <1>9, <1>10 DEF Next, Run, Over
-----------------------------------------------------------------------------
(* The journal and the files.                                              *)

\* Kept after the step, for a record of before.
KeptNext(k, object) ==
  /\ object # None /\ files'[k] # Absent
  /\ k \in Versioned => files'[k] = object.digest
  /\ Stamped => object.digest \in held'[k]

\* A key of the page that is listed is not in the journal yet.
LEMMA PageIsNew ==
  ASSUME Types, SyncInv, DiskInv, PageInv, pc = "visit", NEW k \in Key, OnPage(k)
  PROVE  k \notin Replayed.completed
<1>1. /\ ~mem.scopes[page.scope].complete /\ mem.scopes = Replayed.scopes /\ manifest.in_progress
      /\ page.scope \in Scope /\ ScopeOf[k] = page.scope /\ mem.scopes[page.scope].token < k
  BY DEF SyncInv, PageInv, OnPage
<1>2. mem.scopes[page.scope].token \in Nat /\ k \in Nat
  BY <1>1, ObjectCacheConstants DEF Types, ManifestTypes, Shape, Token
<1>3. ~(k <= mem.scopes[page.scope].token)
  BY <1>1, <1>2
<1>4. QED
  BY <1>1, <1>3 DEF DiskInv, Passed

LEMMA DiskNext ==
  Types /\ SyncInv /\ DiskInv /\ PageInv /\ HeldInv /\ [Next]_vars => DiskInv'
<1> SUFFICES ASSUME Types, SyncInv, DiskInv, PageInv, HeldInv, [Next]_vars PROVE DiskInv'
  OBVIOUS
<1> USE DEF remote, disk, history
<1>0. (Stamped' <=> Stamped) /\ Versioned' = Versioned
  BY SameProvider
<1>1. ASSUME UNCHANGED manifest, manifest.in_progress => UNCHANGED journal,
             manifest.in_progress => \A k \in Replayed.completed : files'[k] = files[k] /\ held[k] \subseteq held'[k],
             manifest.in_progress => stable' \subseteq stable
      PROVE  DiskInv'
  <2> SUFFICES ASSUME manifest.in_progress PROVE DiskInv'
    BY <1>1 DEF DiskInv
  <2>1. Replayed' = Replayed
    BY <1>1, ReplaySame
  <2>2. \A k \in Replayed.completed : KeptNext(k, Replayed.objects[k]) /\ Passed(Replayed, k)
    BY <1>1 DEF DiskInv, Kept, KeptNext
  <2>3. \A k \in stable' : Passed(Replayed, k) => k \in Replayed.completed
    BY <1>1 DEF DiskInv
  <2>4. QED
    BY <1>0, <1>1, <2>1, <2>2, <2>3 DEF DiskInv, Kept, KeptNext, Passed
<1>2. ASSUME NEW k \in Key, NEW c \in Content \cup {Absent}, Edit(k, c) PROVE DiskInv'
  <2>1. UNCHANGED <<manifest, journal, files>> /\ stable' \subseteq stable
    BY <1>2 DEF Edit
  <2>2. \A j \in Key : held[j] \subseteq held'[j]
    BY <1>2 DEF Edit, Types, LocalTypes
  <2>3. Replayed.completed \subseteq Key
    BY ReplayShape DEF Types, ManifestTypes, Shape
  <2>4. QED
    BY <1>1, <2>1, <2>2, <2>3
<1>3. CASE Open
  <2>1. UNCHANGED <<manifest, files>> /\ (manifest.in_progress => UNCHANGED <<journal, held, stable>>)
    BY <1>3 DEF Open
  <2>2. QED
    BY <1>1, <2>1
<1>4. CASE SaveOpen
  <2>1. Replayed'.completed = {} /\ Replayed'.scopes = Unlisted
    BY <1>4, SaveOpenEffect
  <2>2. ASSUME NEW k \in stable' PROVE ~Passed(Replayed', k)
    <3>1. k \in Key
      BY <1>4 DEF SaveOpen, HeldInv
    <3>2. ScopeOf[k] \in Scope /\ k \in Nat \ {0}
      BY <3>1, ObjectCacheConstants
    <3>3. Unlisted[ScopeOf[k]].token = 0 /\ ~Unlisted[ScopeOf[k]].complete
      BY <3>2 DEF Unlisted
    <3>4. ~(k <= 0)
      BY <3>2
    <3>5. QED
      BY <2>1, <3>3, <3>4 DEF Passed
  <2>3. QED
    BY <2>1, <2>2 DEF DiskInv, Passed
<1>5. CASE Replay \/ ListPage \/ Trim \/ Close \/ Interrupt \/ UNCHANGED vars
  <2>1. /\ UNCHANGED <<manifest, files, held, stable>>
        /\ manifest.in_progress => UNCHANGED journal
    BY <1>5 DEF Replay, ListPage, Trim, Close, Interrupt, vars, SyncInv
  <2>2. QED
    BY <1>1, <2>1
<1>6. ASSUME NEW k \in Key, Visit(k) PROVE DiskInv'
  <2>1. UNCHANGED <<manifest, journal, held, stable>> /\ pc = "visit" /\ k \in page.todo
        /\ (Seen(k) \/ Unseen(k))
    BY <1>6, VisitEffect DEF Visit
  <2>2. \A j \in Key : j # k => files'[j] = files[j]
    BY <2>1 DEF Seen, Unseen, Types, LocalTypes
  <2>3. k \notin Replayed.completed
    BY <2>1, PageIsNew DEF PageInv
  <2>4. Replayed.completed \subseteq Key
    BY ReplayShape DEF Types, ManifestTypes, Shape
  <2>5. QED
    BY <1>1, <2>1, <2>2, <2>3, <2>4
<1>7. CASE FinishPage
  <2>1. /\ UNCHANGED <<manifest, files, held, stable>> /\ pc = "visit" /\ page.todo = {}
    BY <1>7 DEF FinishPage
  <2>2. /\ page.scope \in Scope /\ IsLine(Line) /\ journal' = Append(journal, Line)
    BY <1>7, FinishPageEffect
  <2>3. Line.objects = pending /\ Line.scope = page.scope /\ Line.mark = Mark
        /\ Mark.token = page.next /\ Mark.complete = page.last
    BY DEF Line, Mark
  <2> HIDE DEF Line, Mark
  <2>4. /\ Replayed'.completed = Replayed.completed \cup {k \in Key : pending[k] # None}
        /\ \A k \in Key : Replayed'.objects[k] = IF pending[k] # None THEN pending[k]
                                                  ELSE Replayed.objects[k]
        /\ \A s \in Scope : Replayed'.scopes[s] = IF page.scope = s THEN Mark
                                                   ELSE Replayed.scopes[s]
    BY <2>1, <2>2, <2>3, ReplayAppend DEF Types
  <2>5. manifest.in_progress /\ mem.scopes = Replayed.scopes
    BY <2>1 DEF SyncInv
  <2> DEFINE old == mem.scopes[page.scope].token
  <2>6. old \in Nat /\ page.next \in Nat /\ Key \subseteq Nat /\ ScopeOf \in [Key -> Scope]
    BY <2>2, ObjectCacheConstants DEF Types, ManifestTypes, PageTypes, Shape, Token
  <2>7. (page.last \/ old <= page.next) /\ ~mem.scopes[page.scope].complete
    BY <2>1 DEF PageInv
  <2> HIDE DEF old
  <2>8. ASSUME NEW k \in Key
        PROVE  Passed(Replayed', k) <=> IF ScopeOf[k] = page.scope THEN page.last \/ k <= page.next
                                        ELSE Passed(Replayed, k)
    <3>1. ScopeOf[k] \in Scope
      BY <2>6
    <3>2. CASE ScopeOf[k] = page.scope
      <4>1. Replayed'.scopes[ScopeOf[k]] = Mark
        BY <2>4, <3>1, <3>2
      <4>2. QED
        BY <2>3, <3>2, <4>1 DEF Passed
    <3>3. CASE ScopeOf[k] # page.scope
      <4>1. Replayed'.scopes[ScopeOf[k]] = Replayed.scopes[ScopeOf[k]]
        BY <2>4, <3>1, <3>3
      <4>2. QED
        BY <3>3, <4>1 DEF Passed
    <3>4. QED
      BY <3>2, <3>3
  <2>9. ASSUME NEW k \in Key, ScopeOf[k] = page.scope
        PROVE  Passed(Replayed, k) <=> k <= old
    BY <2>5, <2>7, <2>9 DEF Passed, old
  <2>10. ASSUME NEW k \in Replayed'.completed
         PROVE  Passed(Replayed', k) /\ KeptNext(k, Replayed'.objects[k])
    <3>1. k \in Key
      BY <2>4, ReplayShape DEF Types, ManifestTypes, Shape
    <3>2. CASE pending[k] # None
      <4>1. OnPage(k) /\ Kept(k, pending[k])
        BY <2>1, <3>1, <3>2 DEF PageInv
      <4>2. QED
        BY <2>1, <2>4, <2>8, <3>1, <3>2, <4>1 DEF OnPage, Kept, KeptNext
    <3>3. CASE pending[k] = None
      <4>1. Passed(Replayed, k) /\ Kept(k, Replayed.objects[k])
        BY <2>4, <2>5, <2>10, <3>3 DEF DiskInv
      <4>2. Passed(Replayed', k)
        <5>1. CASE ScopeOf[k] # page.scope
          BY <2>8, <3>1, <4>1, <5>1
        <5>2. CASE ScopeOf[k] = page.scope
          <6>1. k <= old /\ k \in Nat
            BY <2>6, <2>9, <3>1, <4>1, <5>2
          <6>2. page.last \/ k <= page.next
            BY <2>6, <2>7, <6>1
          <6>3. QED
            BY <2>8, <3>1, <5>2, <6>2
        <5>3. QED
          BY <5>1, <5>2
      <4>3. QED
        BY <2>1, <2>4, <3>1, <3>3, <4>1, <4>2 DEF Kept, KeptNext
    <3>4. QED
      BY <3>2, <3>3
  <2>11. ASSUME NEW k \in stable, Passed(Replayed', k) PROVE k \in Replayed'.completed
    <3>1. k \in Key
      BY DEF HeldInv
    <3>2. CASE ScopeOf[k] # page.scope
      BY <2>4, <2>5, <2>8, <2>11, <3>1, <3>2 DEF DiskInv
    <3>3. CASE ScopeOf[k] = page.scope
      <4>1. page.last \/ k <= page.next
        BY <2>8, <2>11, <3>1, <3>3
      <4>2. CASE k <= old
        BY <2>4, <2>5, <2>9, <3>1, <3>3, <4>2 DEF DiskInv
      <4>3. CASE ~(k <= old)
        <5>1. mem.scopes[page.scope].token < k
          <6>1. k \in Nat /\ old \in Nat
            BY <2>6, <3>1
          <6>2. old < k
            BY <4>3, <6>1
          <6>3. QED
            BY <6>2 DEF old
        <5>2. pending[k] # None
          BY <2>1, <3>3, <4>1, <5>1 DEF PageInv
        <5>3. QED
          BY <2>4, <3>1, <5>2
      <4>4. QED
        BY <4>2, <4>3
    <3>4. QED
      BY <3>2, <3>3
  <2>12. QED
    BY <1>0, <2>1, <2>10, <2>11 DEF DiskInv, Kept, KeptNext, Passed
<1>8. ASSUME NEW k \in Key, Sweep(k) PROVE DiskInv'
  <2>1. /\ UNCHANGED <<manifest, journal, held, stable>> /\ pc = "list" /\ k \notin mem.completed
        /\ files' = [files EXCEPT ![k] = Absent]
    BY <1>8 DEF Sweep, Obsolete
  <2>2. k \notin Replayed.completed /\ Replayed.completed \subseteq Key
    BY <2>1, ReplayShape DEF SyncInv, Types, ManifestTypes, Shape
  <2>3. \A j \in Key : j # k => files'[j] = files[j]
    BY <2>1 DEF Types, LocalTypes
  <2>4. QED
    BY <1>1, <2>1, <2>2, <2>3
<1>9. CASE Compact
  <2>1. ~manifest'.in_progress
    BY <1>9, CompactEffect
  <2>2. QED
    BY <2>1 DEF DiskInv
<1>10. QED
  BY <1>2, <1>3, <1>4, <1>5, <1>6, <1>7, <1>8, <1>9 DEF Next, Run, Over
-----------------------------------------------------------------------------
(* The page that is being visited.                                         *)

\* The file of an object that was just stored is the content that is recorded.
LEMMA StoredIsKept ==
  ASSUME Types, SyncInv, StampInv, PageInv, ListedInv, HeldInv, NEW k \in Key, Visit(k), Seen(k)
  PROVE  pending'[k] # None /\ KeptNext(k, pending'[k])
<1>1. PICK version \in Version, data \in Content :
        /\ files' \in {files, [files EXCEPT ![k] = data]} /\ files'[k] # Absent
        /\ files' = files => files[k] = data \/ mem.objects[k] = [version |-> version, digest |-> data]
        /\ pending' = [pending EXCEPT ![k] = [version |-> version, digest |-> data]]
        /\ \/ /\ Cached(k) /\ files' = files /\ data = files[k] /\ version = page.listed[k]
              /\ mem.objects[k] = [version |-> version, digest |-> data]
           \/ ~Cached(k) /\ data = bucket[k] /\ version = DownloadVersion(k)
  BY DEF Seen
<1> DEFINE object == [version |-> version, digest |-> data]
<1>2. object.digest = data /\ object.version = version /\ object # None
  BY ObjectCacheConstants DEF None
<1>3. pending'[k] = object
  BY <1>1 DEF Types, LocalTypes
<1>4. pc = "visit" /\ k \in page.todo /\ held' = held
  BY DEF Visit, history
<1>5. Stamped => data \in held[k]
  <2>1. CASE Cached(k)
    BY <1>1, <1>2, <1>4, <2>1 DEF ListedInv
  <2>2. CASE ~Cached(k)
    BY <1>1, <1>4, <2>2 DEF HeldInv
  <2>3. QED
    BY <2>1, <2>2
<1>6. ASSUME k \in Versioned PROVE files'[k] = data
  <2>1. CASE files' # files
    BY <1>1, <2>1 DEF Types, LocalTypes
  <2>2. CASE files' = files /\ mem.objects[k] # object
    BY <1>1, <2>2
  <2>3. CASE files' = files /\ Cached(k)
    BY <1>1, <2>3
  <2>4. CASE files' = files /\ mem.objects[k] = object /\ ~Cached(k)
    <3>1. /\ data = bucket[k] /\ version = DownloadVersion(k) /\ files[k] # Absent
      BY <1>1, <2>4
    <3>2. CASE provider = "gcs"
      <4>1. Stamped
        BY <3>2 DEF Stamped
      <4>2. version[2] = stamp[k]
        BY <3>1, <3>2, <4>1, Versions DEF DownloadVersion, Types
      <4>3. Fresh(k, object)
        <5>1. mem.objects[k] = Replayed.objects[k] /\ manifest.in_progress
          BY <1>4 DEF SyncInv, PageInv
        <5>2. QED
          BY <2>4, <4>1, <5>1 DEF StampInv
      <4>4. files[k] \in {bucket[k], Absent}
        <5> HIDE DEF object
        <5>1. QED
          BY <1>2, <4>2, <4>3 DEF Fresh
      <4>5. QED
        BY <2>4, <3>1, <4>4
    <3>3. CASE provider # "gcs"
      <4>1. version = page.listed[k]
        BY <3>1, <3>3 DEF DownloadVersion
      <4>2. CASE Stamped
        BY <1>2, <1>4, <2>4, <3>1, <4>1, <4>2 DEF ListedInv
      <4>3. CASE ~Stamped
        <5>1. page.listed[k][1] # NoIdentity
          BY <1>4, <1>6, <4>3 DEF Versioned, PageInv
        <5>2. Cached(k)
          BY <1>2, <2>4, <3>1, <4>1, <5>1 DEF Cached
        <5>3. QED
          BY <2>4, <5>2
      <4>4. QED
        BY <4>2, <4>3
    <3>4. QED
      BY <3>2, <3>3
  <2>5. QED
    BY <2>1, <2>2, <2>3, <2>4
<1>7. QED
  BY <1>1, <1>2, <1>3, <1>4, <1>5, <1>6 DEF KeptNext

LEMMA PageNext ==
  /\ Types /\ SyncInv /\ StampInv /\ PageInv /\ ListedInv /\ HeldInv /\ [Next]_vars
  => PageInv'
<1> SUFFICES ASSUME Types, SyncInv, StampInv, PageInv, ListedInv, HeldInv, [Next]_vars,
                    pc' = "visit"
             PROVE  PageInv'
  BY DEF PageInv
<1> USE DEF remote, disk, history
<1>0. (Stamped' <=> Stamped) /\ Versioned' = Versioned
  BY SameProvider
<1>1. ASSUME NEW k \in Key, NEW c \in Content \cup {Absent}, Edit(k, c) PROVE PageInv'
  <2>1. UNCHANGED <<page, mem, pending, files, pc>> /\ stable' \subseteq stable
    BY <1>1 DEF Edit
  <2>2. \A j \in Key : held[j] \subseteq held'[j] /\ stamp[j] <= stamp'[j]
                       /\ stamp[j] \in Nat /\ stamp'[j] \in Nat
    BY <1>1 DEF Edit, Types, LocalTypes, RemoteTypes
  <2>3. \A j \in Key : pending[j] # None => OnPage(j) /\ KeptNext(j, pending[j])
    BY <2>1, <2>2 DEF PageInv, Kept, KeptNext
  <2>4. \A j \in page.todo : Stamped => page.listed[j][2] <= stamp'[j]
    <3>1. \A j \in page.todo : j \in Key /\ page.listed[j][2] \in Nat
      BY DEF Types, PageTypes, Version
    <3>2. \A j \in page.todo : Stamped => page.listed[j][2] <= stamp[j]
      BY <2>1 DEF PageInv
    <3>3. QED
      BY <2>2, <3>1, <3>2
  <2>5. QED
    BY <1>0, <2>1, <2>3, <2>4 DEF PageInv, OnPage, Kept, KeptNext
<1>2. CASE ListPage
  <2>1. UNCHANGED <<mem, pending, files, stable, bucket, stamp>> /\ pending = NoObjects
    BY <1>2 DEF ListPage, SyncInv
  <2>2. /\ PageTypes' /\ page'.scope \in Scope /\ ~mem.scopes[page'.scope].complete
        /\ page'.last \/ mem.scopes[page'.scope].token <= page'.next
        /\ \A k \in page'.todo :
             /\ ScopeOf[k] = page'.scope /\ bucket[k] # Absent
             /\ mem.scopes[page'.scope].token < k /\ k <= page'.next
        /\ \A k \in Key : page'.listed[k] = object_version(k)
        /\ \A k \in Key :
             /\ ScopeOf[k] = page'.scope /\ mem.scopes[page'.scope].token < k
             /\ page'.last \/ k <= page'.next
             /\ bucket[k] # Absent
             => k \in page'.todo
    BY <1>2, ListPageEffect
  <2>3. \A k \in Key : pending'[k] = None
    BY <2>1, Nothing
  <2>4. ASSUME NEW k \in page'.todo
        PROVE  /\ k \in Identified => page'.listed[k][1] # NoIdentity
               /\ Stamped => page'.listed[k][2] <= stamp'[k]
    <3>1. k \in Key /\ bucket[k] # Absent /\ page'.listed[k] = object_version(k)
      BY <2>2 DEF PageTypes
    <3>2. bucket[k] \in Content /\ stamp[k] \in Nat
      BY <3>1 DEF Types, RemoteTypes
    <3>3. /\ object_version(k)[1] = IF k \in Identified THEN bucket[k] ELSE NoIdentity
          /\ Stamped => object_version(k)[2] = stamp[k]
      BY <3>1, Versions DEF Types
    <3>4. QED
      BY <2>1, <3>1, <3>2, <3>3, ObjectCacheConstants
  <2>5. \A k \in stable : k \in Key /\ bucket[k] # Absent
    BY DEF HeldInv
  <2>6. page'.todo \subseteq Key
    BY <2>2 DEF PageTypes
  <2>7. QED
    BY <1>0, <2>1, <2>2, <2>3, <2>4, <2>5, <2>6 DEF PageInv, OnPage
<1>3. ASSUME NEW k \in Key, Visit(k) PROVE PageInv'
  <2>1. /\ page'.todo = page.todo \ {k} /\ k \in page.todo /\ pc = "visit"
        /\ page'.scope = page.scope /\ page'.listed = page.listed
        /\ page'.next = page.next /\ page'.last = page.last
        /\ UNCHANGED <<bucket, stamp, held, stable>> /\ (Seen(k) \/ Unseen(k))
    BY <1>3, VisitEffect DEF Visit
  <2>2. mem'.scopes = mem.scopes
    BY <2>1 DEF Seen, Unseen
  <2>3. \A j \in Key : j # k => pending'[j] = pending[j] /\ files'[j] = files[j]
    BY <2>1 DEF Seen, Unseen, Types, LocalTypes
  <2>4. OnPage(k) /\ pending[k] = None
    BY <2>1 DEF PageInv
  <2>5. pending'[k] # None => KeptNext(k, pending'[k])
    <3>1. CASE Seen(k)
      BY <1>3, <3>1, StoredIsKept
    <3>2. CASE Unseen(k)
      BY <2>4, <3>2 DEF Unseen
    <3>3. QED
      BY <2>1, <3>1, <3>2
  <2>6. \A j \in Key : pending'[j] # None => OnPage(j) /\ KeptNext(j, pending'[j])
    BY <2>1, <2>3, <2>4, <2>5 DEF PageInv, Kept, KeptNext
  <2>7. k \in stable => pending'[k] # None
    <3>1. CASE Seen(k)
      BY <1>3, <3>1, StoredIsKept
    <3>2. CASE Unseen(k)
      BY <3>2 DEF Unseen, HeldInv
    <3>3. QED
      BY <2>1, <3>1, <3>2
  <2>8. \A j \in stable : j \in Key
    BY DEF HeldInv
  <2>9. page.todo \subseteq Key
    BY DEF Types, PageTypes
  <2>10. QED
    BY <1>0, <2>1, <2>2, <2>3, <2>6, <2>7, <2>8, <2>9 DEF PageInv, OnPage, Kept, KeptNext
<1>4. CASE UNCHANGED vars
  BY <1>0, <1>4 DEF vars, PageInv, OnPage, Kept
<1>5. QED
  BY <1>1, <1>2, <1>3, <1>4 DEF Next, Run, Over, Open, SaveOpen, Replay, FinishPage, Compact,
     Trim, Close, Sweep, Interrupt

LEMMA ListedNext ==
  /\ Types /\ SyncInv /\ StampInv /\ PageInv /\ ListedInv /\ HeldInv /\ [Next]_vars
  => ListedInv'
<1> SUFFICES ASSUME Types, SyncInv, StampInv, PageInv, ListedInv, HeldInv, [Next]_vars,
                    pc' = "visit", Stamped, NEW k \in page'.todo,
                    mem'.objects[k] # None, mem'.objects[k].version = page'.listed[k]
             PROVE  /\ files'[k] \in {mem'.objects[k].digest, Absent}
                    /\ mem'.objects[k].digest \in held'[k]
  BY SameProvider DEF ListedInv
<1> USE DEF remote, disk, history
<1>1. ASSUME NEW j \in Key, NEW c \in Content \cup {Absent}, Edit(j, c) 
      PROVE  /\ files'[k] \in {mem'.objects[k].digest, Absent}
             /\ mem'.objects[k].digest \in held'[k]
  <2>1. UNCHANGED <<page, mem, files, pc>>
    BY <1>1 DEF Edit
  <2>2. k \in Key /\ \A i \in Key : held[i] \subseteq held'[i]
    BY <1>1, <2>1 DEF Edit, Types, LocalTypes, PageTypes
  <2>3. QED
    BY <2>1, <2>2 DEF ListedInv
<1>2. CASE ListPage
  <2>1. UNCHANGED <<mem, files, held>> /\ pending = NoObjects /\ pc = "list"
    BY <1>2 DEF ListPage, SyncInv
  <2>2. PageTypes' /\ \A j \in Key : page'.listed[j] = object_version(j)
    BY <1>2, ListPageEffect
  <2>3. k \in Key
    BY <2>2 DEF PageTypes
  <2>4. mem.objects[k] = Replayed.objects[k] /\ manifest.in_progress
    BY <2>1, <2>3, Nothing DEF SyncInv
  <2>5. Fresh(k, mem.objects[k])
    BY <2>3, <2>4 DEF StampInv
  <2>6. mem.objects[k].version[2] = stamp[k]
    BY <2>1, <2>2, <2>3, Versions DEF Types
  <2>7. mem.objects[k].digest = bucket[k] /\ files[k] \in {bucket[k], Absent}
    BY <2>1, <2>5, <2>6 DEF Fresh
  <2>8. bucket[k] \in held[k]
    BY <2>1, <2>3 DEF HeldInv
  <2>9. QED
    BY <2>1, <2>7, <2>8
<1>3. ASSUME NEW j \in Key, Visit(j)
      PROVE  /\ files'[k] \in {mem'.objects[k].digest, Absent}
             /\ mem'.objects[k].digest \in held'[k]
  <2>1. /\ page'.todo = page.todo \ {j} /\ pc = "visit" /\ page'.listed = page.listed
        /\ UNCHANGED held /\ (Seen(j) \/ Unseen(j))
    BY <1>3, VisitEffect DEF Visit
  <2>2. k \in Key /\ k # j
    BY <2>1 DEF Types, PageTypes
  <2>3. mem'.objects[k] = mem.objects[k] /\ files'[k] = files[k]
    BY <2>1, <2>2 DEF Seen, Unseen, Types, LocalTypes, ManifestTypes, Shape
  <2>4. QED
    BY <2>1, <2>3 DEF ListedInv
<1>4. CASE UNCHANGED vars
  BY <1>4 DEF vars, ListedInv
<1>5. QED
  BY <1>1, <1>2, <1>3, <1>4 DEF Next, Run, Over, Open, SaveOpen, Replay, FinishPage, Compact,
     Trim, Close, Sweep, Interrupt
-----------------------------------------------------------------------------
(* What the visitor sees, and the end of a session.                        *)

\* The bucket, as the session remembers it.
LEMMA BucketNext ==
  ASSUME Types, HeldInv, [Next]_vars
  PROVE  /\ pc' # "closed" \/ manifest'.in_progress => \A k \in Key : bucket'[k] \in held'[k]
         /\ \A k \in stable' : k \in Key /\ bucket'[k] # Absent
<1> USE DEF remote, disk, history
<1>1. ASSUME NEW k \in Key, NEW c \in Content \cup {Absent}, Edit(k, c)
      PROVE  /\ pc' # "closed" \/ manifest'.in_progress => \A j \in Key : bucket'[j] \in held'[j]
             /\ \A j \in stable' : j \in Key /\ bucket'[j] # Absent
  <2>1. /\ UNCHANGED <<pc, manifest>> /\ bucket' = [bucket EXCEPT ![k] = c]
        /\ held' = [held EXCEPT ![k] = @ \cup {c}]
        /\ stable' = IF c = Absent THEN stable \ {k} ELSE stable
    BY <1>1 DEF Edit
  <2>2. pc' # "closed" \/ manifest'.in_progress => \A j \in Key : bucket'[j] \in held'[j]
    BY <2>1 DEF HeldInv, Types, RemoteTypes, LocalTypes
  <2>3. \A j \in stable' : j \in Key /\ bucket'[j] # Absent
    BY <2>1 DEF HeldInv, Types, RemoteTypes
  <2>4. QED
    BY <2>2, <2>3
<1>2. CASE Open
  <2>1. UNCHANGED <<bucket, manifest>> /\ (manifest.in_progress => UNCHANGED <<held, stable>>)
        /\ (~manifest.in_progress => held' = [k \in Key |-> {bucket[k]}]
                                        /\ stable' = {k \in Key : bucket[k] # Absent})
    BY <1>2 DEF Open
  <2>2. QED
    BY <2>1 DEF HeldInv
<1>3. CASE \/ SaveOpen \/ Replay \/ ListPage \/ FinishPage \/ Compact \/ Trim \/ Close
           \/ (\E k \in Key : Visit(k) \/ Sweep(k)) \/ Interrupt \/ UNCHANGED vars
  <2>1. /\ UNCHANGED <<bucket, held, stable>>
        /\ pc' # "closed" \/ manifest'.in_progress => pc # "closed" \/ manifest.in_progress
    BY <1>3 DEF SaveOpen, Replay, ListPage, FinishPage, Compact, Trim, Close, Visit, Sweep,
       Interrupt, vars
  <2>2. QED
    BY <2>1 DEF HeldInv
<1>4. QED
  BY <1>1, <1>2, <1>3 DEF Next, Run, Over

LEMMA HeldNext ==
  /\ Types /\ SyncInv /\ DiskInv /\ ListedInv /\ HeldInv /\ [Next]_vars
  => HeldInv'
<1> SUFFICES ASSUME Types, SyncInv, DiskInv, ListedInv, HeldInv, [Next]_vars PROVE HeldInv'
  OBVIOUS
<1> USE DEF remote, disk, history
<1> DEFINE Current == Stamped => \A k \in Key : visited'[k] # Absent => visited'[k] \in held'[k]
           Shown == pc' \in {"list", "visit", "trim", "finished"} =>
                      \A k \in mem'.completed : visited'[k] # Absent
<1>0. SUFFICES Current /\ Shown
  BY BucketNext, SameProvider DEF HeldInv, StampedContentIsCurrent
<1>1. ASSUME UNCHANGED visited, \A k \in Key : held[k] \subseteq held'[k] PROVE Current
  BY <1>1 DEF HeldInv, StampedContentIsCurrent
<1>2. ASSUME NEW k \in Key, NEW c \in Content \cup {Absent}, Edit(k, c) PROVE Current /\ Shown
  <2>1. UNCHANGED <<visited, mem, pc>> /\ \A j \in Key : held[j] \subseteq held'[j]
    BY <1>2 DEF Edit, Types, LocalTypes
  <2>2. QED
    BY <1>1, <2>1 DEF HeldInv
<1>3. CASE Open
  <2>1. visited' = [k \in Key |-> Absent] /\ pc' \in {"opening", "replay"}
    BY <1>3 DEF Open
  <2>2. QED
    BY <2>1
<1>4. CASE Replay
  <2>1. UNCHANGED <<mem, held>> /\ pc = "replay"
    BY <1>4 DEF Replay
  <2>2. CASE pc' = "failed" /\ UNCHANGED visited
    BY <1>1, <2>1, <2>2
  <2>3. CASE visited' = [k \in Key |-> IF k \in mem.completed THEN files[k] ELSE Absent]
    <3>1. mem.completed = Replayed.completed /\ manifest.in_progress
      BY <2>1, Nothing DEF SyncInv
    <3>2. \A k \in mem.completed : k \in Key /\ files[k] # Absent /\ (Stamped => files[k] \in held[k])
      BY <3>1 DEF DiskInv, Kept, Versioned, Types, ManifestTypes, Shape
    <3>3. \A k \in Key : visited'[k] = IF k \in mem.completed THEN files[k] ELSE Absent
      BY <2>3
    <3>4. Current
      BY <2>1, <3>2, <3>3
    <3>5. Shown
      <4>1. mem'.completed = mem.completed
        BY <2>1
      <4>2. \A k \in mem.completed : visited'[k] = files[k] /\ files[k] # Absent
        BY <3>2, <3>3
      <4>3. QED
        BY <4>1, <4>2
    <3>6. QED
      BY <3>4, <3>5
  <2>4. QED
    BY <1>4, <2>2, <2>3 DEF Replay
<1>5. ASSUME NEW k \in Key, Visit(k) PROVE Current /\ Shown
  <2>1. UNCHANGED held /\ pc = "visit" /\ k \in page.todo /\ (Seen(k) \/ Unseen(k))
    BY <1>5, VisitEffect DEF Visit
  <2>2. CASE Unseen(k)
    <3>1. UNCHANGED <<visited, mem>>
      BY <2>2 DEF Unseen
    <3>2. Current
      BY <1>1, <2>1, <3>1
    <3>3. Shown
      BY <2>1, <3>1 DEF HeldInv
    <3>4. QED
      BY <3>2, <3>3
  <2>3. CASE Seen(k)
    <3>1. PICK version \in Version, data \in Content :
            /\ visited' = [visited EXCEPT ![k] = data] /\ mem'.completed = mem.completed \cup {k}
            /\ \/ /\ version = page.listed[k]
                  /\ mem.objects[k] = [version |-> version, digest |-> data]
               \/ data = bucket[k]
      BY <2>3 DEF Seen
    <3>2. [version |-> version, digest |-> data] # None /\ data # Absent
      BY ObjectCacheConstants DEF None
    <3>3. ASSUME Stamped PROVE data \in held[k]
      <4>1. CASE data = bucket[k]
        BY <2>1, <4>1 DEF HeldInv
      <4>2. CASE version = page.listed[k] /\ mem.objects[k] = [version |-> version, digest |-> data]
        <5>1. mem.objects[k] # None /\ mem.objects[k].version = page.listed[k]
              /\ mem.objects[k].digest = data
          BY <3>2, <4>2
        <5>2. QED
          BY <2>1, <3>3, <5>1 DEF ListedInv
      <4>3. QED
        BY <3>1, <4>1, <4>2
    <3>4. Current
      BY <2>1, <3>1, <3>3 DEF HeldInv, StampedContentIsCurrent, Types, LocalTypes
    <3>5. Shown
      <4>1. mem.completed \subseteq Key
        BY DEF Types, ManifestTypes, Shape
      <4>2. QED
        BY <2>1, <3>1, <3>2, <4>1 DEF HeldInv, Types, LocalTypes
    <3>6. QED
      BY <3>4, <3>5
  <2>4. QED
    BY <2>1, <2>2, <2>3
<1>6. CASE Compact
  <2>1. UNCHANGED <<visited, held>> /\ pc = "list" /\ mem'.completed = mem.completed
    BY <1>6, CompactEffect DEF Compact
  <2>2. QED
    BY <1>1, <2>1 DEF HeldInv
<1>7. CASE FinishPage
  <2>1. UNCHANGED <<visited, held>> /\ pc = "visit" /\ mem' = [mem EXCEPT !.scopes[page.scope] = Mark]
    BY <1>7 DEF FinishPage
  <2>2. mem'.completed = mem.completed
    BY <2>1 DEF Types, ManifestTypes, Shape
  <2>3. QED
    BY <1>1, <2>1, <2>2 DEF HeldInv
<1>8. CASE \/ SaveOpen \/ ListPage \/ Trim \/ Close \/ (\E k \in Key : Sweep(k)) \/ Interrupt
           \/ UNCHANGED vars
  <2>1. /\ UNCHANGED <<visited, held>>
        /\ pc' \in {"list", "visit", "trim", "finished"} =>
             UNCHANGED mem /\ pc \in {"list", "visit", "trim", "finished"}
    BY <1>8 DEF SaveOpen, ListPage, Trim, Close, Sweep, Interrupt, vars
  <2>2. QED
    BY <1>1, <2>1 DEF HeldInv
<1>9. QED
  BY <1>2, <1>3, <1>4, <1>5, <1>6, <1>7, <1>8 DEF Next, Run, Over

LEMMA FinishNext ==
  Types /\ SyncInv /\ DiskInv /\ HeldInv /\ FinishInv /\ [Next]_vars => FinishInv'
<1> SUFFICES ASSUME Types, SyncInv, DiskInv, HeldInv, FinishInv, [Next]_vars,
                    pc' \in {"trim", "finished"}
             PROVE  FinishInv'
  BY DEF FinishInv
<1> USE DEF remote, disk, history
<1>0. Versioned' = Versioned
  BY SameProvider
<1>1. CASE Compact
  <2>1. /\ pc = "list" /\ IncompleteScopes = {} /\ Obsolete = {} /\ UNCHANGED <<files, stable>>
    BY <1>1 DEF Compact
  <2>2. /\ manifest' = mem' /\ mem'.completed = mem.completed
        /\ \A k \in Key : mem'.objects[k] = IF k \in mem.completed THEN mem.objects[k] ELSE None
    BY <1>1, CompactEffect
  <2>3. /\ mem.completed = Replayed.completed /\ mem.scopes = Replayed.scopes
        /\ manifest.in_progress /\ \A k \in Key : mem.objects[k] = Replayed.objects[k]
    BY <2>1, Nothing DEF SyncInv
  <2>4. \A k \in stable : k \in Key /\ ScopeOf[k] \in Scope
    BY ObjectCacheConstants DEF HeldInv
  <2>5. \A k \in stable : Passed(Replayed, k)
    BY <2>1, <2>3, <2>4 DEF IncompleteScopes, Passed
  <2>6. stable \subseteq mem.completed
    BY <2>3, <2>5 DEF DiskInv
  <2>7. \A k \in Key : k \notin mem.completed => files[k] = Absent
    BY <2>1 DEF Obsolete
  <2>8. \A k \in mem.completed : Kept(k, mem.objects[k]) /\ k \in Key
    BY <2>3 DEF DiskInv, Types, ManifestTypes, Shape
  <2>9. Versioned \subseteq Key
    BY ObjectCacheConstants DEF Versioned
  <2>10. \A k \in Versioned : files'[k] = manifest'.objects[k].digest
    BY <2>1, <2>2, <2>7, <2>8, <2>9, Nothing DEF Kept
  <2>11. \A k \in Key : /\ files'[k] # Absent <=> k \in manifest'.completed
                        /\ manifest'.objects[k] # None <=> k \in manifest'.completed
    BY <2>1, <2>2, <2>7, <2>8 DEF Kept
  <2>12. QED
    BY <1>0, <2>1, <2>2, <2>6, <2>10, <2>11 DEF FinishInv
<1>2. CASE Trim \/ UNCHANGED vars \/ \E k \in Key, c \in Content \cup {Absent} : Edit(k, c)
  <2>1. /\ pc \in {"trim", "finished"} /\ UNCHANGED <<manifest, mem, files>> /\ stable' \subseteq stable
    BY <1>2 DEF Trim, vars, Edit
  <2>2. QED
    BY <1>0, <2>1 DEF FinishInv
<1>3. QED
  BY <1>1, <1>2 DEF Next, Run, Over, Open, SaveOpen, Replay, ListPage, FinishPage, Close, Visit,
     Sweep, Interrupt, Unseen

\* No checksum fails, neither in a replay nor in a cache hit.
LEMMA FailNext ==
  /\ Types /\ SyncInv /\ DiskInv /\ ListedInv /\ StampedRunsNeverFail /\ [Next]_vars
  => StampedRunsNeverFail'
<1> SUFFICES ASSUME Types, SyncInv, DiskInv, ListedInv, StampedRunsNeverFail, [Next]_vars,
                    Stamped, pc' = "failed"
             PROVE  FALSE
  BY SameProvider DEF StampedRunsNeverFail, RunsNeverFail
<1> USE DEF remote, disk, history
<1>1. CASE Replay
  <2>1. pc = "replay" /\ \E k \in mem.completed : files[k] # mem.objects[k].digest
    BY <1>1 DEF Replay
  <2>2. /\ mem.completed = Replayed.completed /\ manifest.in_progress
        /\ \A k \in Key : mem.objects[k] = Replayed.objects[k]
    BY <2>1, Nothing DEF SyncInv
  <2>3. mem.completed \subseteq Key
    BY DEF Types, ManifestTypes, Shape
  <2>4. QED
    BY <2>1, <2>2, <2>3 DEF DiskInv, Kept, Versioned
<1>2. ASSUME NEW k \in Key, Visit(k) PROVE FALSE
  <2>1. pc = "visit" /\ k \in page.todo /\ (Seen(k) \/ Unseen(k))
    BY <1>2, VisitEffect DEF Visit
  <2>2. Cached(k) /\ files[k] # mem.objects[k].digest
    BY <2>1 DEF Seen, Unseen
  <2>3. QED
    BY <2>1, <2>2 DEF ListedInv, Cached
<1>3. CASE UNCHANGED vars \/ \E k \in Key, c \in Content \cup {Absent} : Edit(k, c)
  BY <1>3 DEF vars, Edit, StampedRunsNeverFail, RunsNeverFail
<1>4. QED
  BY <1>1, <1>2, <1>3 DEF Next, Run, Over, Open, SaveOpen, ListPage, FinishPage, Compact, Trim,
     Close, Sweep, Interrupt, StampedRunsNeverFail, RunsNeverFail
-----------------------------------------------------------------------------
(* Theorems.                                                               *)

LEMMA InitInv == Init => IInv
<1> SUFFICES ASSUME Init PROVE IInv
  OBVIOUS
<1>1. /\ manifest = [in_progress |-> FALSE, scopes |-> Unlisted, completed |-> {}, objects |-> NoObjects]
      /\ mem = manifest /\ pending = NoObjects /\ page = NoPage /\ pc = "closed" /\ journal = <<>>
      /\ bucket \in [Key -> Content \cup {Absent}] /\ stamp = [k \in Key |-> 0]
      /\ files = [k \in Key |-> Absent] /\ visited = [k \in Key |-> Absent]
      /\ held = [k \in Key |-> {}] /\ stable = {}
  BY DEF Init
<1>2. Shape(manifest)
  <2>1. Unlisted = [s \in Scope |-> Unlisted[s]] /\ \A s \in Scope : Unlisted[s].token \in Token
    BY DEF Unlisted, Token
  <2>2. QED
    BY <1>1, <2>1, Nothing DEF Shape
<1>3. JournalTypes
  <2>1. <<>> \in Seq({}) /\ DOMAIN <<>> = {}
    OBVIOUS
  <2>2. QED
    BY <1>1, <2>1 DEF JournalTypes
<1>4. PageTypes
  <2>1. NoVersion \in Version
    BY DEF NoVersion, Version
  <2>2. QED
    BY <1>1, <2>1 DEF PageTypes, NoPage, Token
<1>5. RemoteTypes /\ LocalTypes
  BY <1>1, Nothing DEF RemoteTypes, LocalTypes
<1>6. Types
  BY <1>1, <1>2, <1>3, <1>4, <1>5 DEF Types, ManifestTypes
<1>7. SyncInv /\ PageInv /\ ListedInv /\ FinishInv /\ DiskInv
  BY <1>1 DEF SyncInv, PageInv, ListedInv, FinishInv, DiskInv
<1>8. StampInv
  BY <1>1, Nothing DEF StampInv, Fresh
<1>9. HeldInv
  BY <1>1 DEF HeldInv, StampedContentIsCurrent
<1>10. StampedRunsNeverFail
  BY <1>1 DEF StampedRunsNeverFail, RunsNeverFail
<1>11. QED
  BY <1>6, <1>7, <1>8, <1>9, <1>10 DEF IInv

LEMMA Invariance == Spec => []IInv
<1>1. IInv /\ [Next]_vars => IInv'
  BY TypesNext, SyncNext, StampNext, DiskNext, PageNext, ListedNext, HeldNext, FinishNext, FailNext
  DEF IInv
<1>2. QED
  BY InitInv, <1>1, PTL DEF Spec

\* What Types leaves out of TypeOK.
Flags ==
  /\ manifest.in_progress \in BOOLEAN /\ mem.in_progress \in BOOLEAN
  /\ pc \in {"closed", "opening", "replay", "list", "visit", "trim", "finished",
             "failed", "gone"}

LEMMA FlagsNext == Types /\ Flags /\ [Next]_vars => Flags'
<1> SUFFICES ASSUME Types, Flags, [Next]_vars PROVE Flags'
  OBVIOUS
<1> USE DEF remote, disk, history
<1>0. Shape(mem) /\ Shape(manifest)
  BY DEF Types, ManifestTypes
<1>1. CASE Open
  <2>1. UNCHANGED manifest /\ pc' \in {"opening", "replay"}
    BY <1>1 DEF Open
  <2>2. Replayed.in_progress = TRUE
    BY DEF Replayed
  <2>3. [manifest EXCEPT !.in_progress = TRUE, !.scopes = Unlisted,
           !.completed = {}].in_progress = TRUE
    BY <1>0 DEF Shape
  <2>4. mem'.in_progress = TRUE
    BY <1>1, <2>2, <2>3 DEF Open
  <2>5. QED
    BY <2>1, <2>4 DEF Flags
<1>2. CASE SaveOpen \/ Replay \/ ListPage \/ Trim \/ Close \/ UNCHANGED vars
  BY <1>2 DEF SaveOpen, Replay, ListPage, Trim, Close, Flags, vars
<1>3. CASE FinishPage
  <2>1. mem'.in_progress = mem.in_progress
    BY <1>0, <1>3 DEF FinishPage, Shape
  <2>2. QED
    BY <1>3, <2>1 DEF FinishPage, Flags
<1>4. CASE Compact
  <2>1. mem'.in_progress = FALSE
    BY <1>0, <1>4 DEF Compact, Shape
  <2>2. QED
    BY <1>4, <2>1 DEF Compact, Flags
<1>5. ASSUME NEW k \in Key, Visit(k) PROVE Flags'
  <2>1. UNCHANGED manifest /\ pc' \in {pc, "failed", "gone"}
    BY <1>5 DEF Visit
  <2>2. UNCHANGED mem \/ \E version, data : Store(k, version, data)
    BY <1>5 DEF Visit
  <2>3. mem'.in_progress = mem.in_progress
    BY <1>0, <2>2 DEF Store, Shape
  <2>4. QED
    BY <2>1, <2>3 DEF Flags
<1>6. ASSUME NEW k \in Key, Sweep(k) PROVE Flags'
  BY <1>6 DEF Sweep, Flags
<1>7. CASE Interrupt
  BY <1>7 DEF Interrupt, Flags
<1>8. ASSUME NEW k \in Key, NEW c \in Content \cup {Absent}, Edit(k, c) PROVE Flags'
  BY <1>8 DEF Edit, Flags
<1>9. QED
  BY <1>1, <1>2, <1>3, <1>4, <1>5, <1>6, <1>7, <1>8 DEF Next, Run, Over

\* Manifest, journal and page keep the shape of their structs, for any
\* interruptions and any journal they leave.
THEOREM CacheTypes == Spec => []TypeOK
<1>1. Init => Flags
  BY DEF Init, Flags
<1>2. ASSUME Types, Flags PROVE TypeOK
  <2>1. ASSUME NEW m, Shape(m), m.in_progress \in BOOLEAN PROVE IsManifest(m)
    BY <2>1 DEF Shape, IsManifest, Token
  <2>2. IsManifest(manifest) /\ IsManifest(mem)
    BY <1>2, <2>1 DEF Types, ManifestTypes, Flags
  <2>3. \A i \in DOMAIN journal : journal[i].scope \in Scope /\ DOMAIN journal[i].objects = Key
    BY <1>2 DEF Types, JournalTypes, IsLine
  <2>4. QED
    BY <1>2, <2>2, <2>3 DEF TypeOK, Types, PageTypes, LocalTypes, Flags
<1>3. IInv => Types
  BY DEF IInv
<1>4. QED
  BY Invariance, FlagsNext, <1>1, <1>2, <1>3, PTL DEF Spec

\* Whatever is edited in the bucket and wherever runs are cut off, no run over a
\* provider with modification times meets a file that is not what its record
\* says: neither the replay of a session nor a cache hit aborts a scan.
THEOREM NoChecksumFails == Spec => []StampedRunsNeverFail
<1>1. IInv => StampedRunsNeverFail
  BY DEF IInv
<1>2. QED
  BY Invariance, <1>1, PTL

\* At every instant the objects of the completed pages are on disk as recorded.
THEOREM PagesAreDurable == Spec => []CommittedObjectsAreOnDisk
<1>1. IInv => CommittedObjectsAreOnDisk
  BY DEF IInv, DiskInv, Kept, CommittedObjectsAreOnDisk
<1>2. QED
  BY Invariance, <1>1, PTL

\* A finished run has shown every object that was there throughout the session,
\* for any division into pages and any interruptions.
THEOREM NothingMissed == Spec => []NothingIsMissed
<1>1. IInv => NothingIsMissed
  BY DEF IInv, FinishInv, HeldInv, NothingIsMissed
<1>2. QED
  BY Invariance, <1>1, PTL

\* An incremental scan shows no content that the object did not have during the
\* session.
THEOREM NothingStale == Spec => []StampedContentIsCurrent
<1>1. IInv => StampedContentIsCurrent
  BY DEF IInv, HeldInv
<1>2. QED
  BY Invariance, <1>1, PTL

\* After finish() manifest and files are exactly the listing.
THEOREM ExactCache == Spec => []FinishedCacheIsExact
<1>1. IInv => FinishedCacheIsExact
  BY DEF IInv, SyncInv, FinishInv, FinishedCacheIsExact
<1>2. QED
  BY Invariance, <1>1, PTL
=============================================================================
