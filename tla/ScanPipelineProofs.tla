------------------------- MODULE ScanPipelineProofs -------------------------
(***************************************************************************)
(* Proofs about ScanPipeline, for any inputs, capacities and numbers of    *)
(* workers and permits: the permits are conserved and bound what waits for *)
(* a scan, and a scan that returns Ok has lost nothing on its way through  *)
(* the four channels and has reported every repository.                    *)
(***************************************************************************)
EXTENDS ScanPipeline, FiniteSetTheorems, TLAPS

\* Where f says that p is: In, for a state given as a function.
Where(f, p) == {i \in Input : f[i] = p}
Busy(f) == Where(f, "cloning") \cup Where(f, "cloned")

\* A permit is in the pool, or with exactly one scan.
PermitInv == permits + Cardinality(Where(at, "scanning")) = Permits

\* Clone workers are at least as many as there are clones in their hands.
PoolInv == Cardinality(Busy(at)) <= pool

\* The roots channel keeps its capacity, and main holds one root at a time.
RootsInv ==
  /\ Cardinality(Where(at, "roots")) <= RepoCap
  /\ \A i, j \in Input : at[i] = "taken" /\ at[j] = "taken" => i = j

CountInv == PermitInv /\ PoolInv /\ RootsInv

\* Where main stands: it has the receiver until it stops, scans nothing during
\* setup and has the buckets behind it afterwards.
MainInv ==
  /\ main \in {"setup", "recv", "stop"} => repo_rx
  /\ main = "setup" => \A i \in Input : at[i] \notin {"taken", "scanning"}
  /\ main # "returned" => outcome = "none"
  /\ main # "setup" => outcome = "setup error" \/ \A i \in Bucket : at[i] = "scanned"

\* Discovery offers one input at a time, none when it has ended, and leaves no
\* repository undiscovered unless it fails.
DiscoveryInv ==
  /\ \A i, j \in Input : at[i] = "offered" /\ at[j] = "offered" => i = j
  /\ discovery \in {"ok", "failed"} => \A i \in Input : at[i] # "offered"
  /\ discovery \in {"fetch", "ok"} => \A i \in Url : at[i] # "hidden"

\* While main receives, each stage ends only after the one before it, with
\* nothing left between them, and nothing is dropped.
FlowInv ==
  repo_rx =>
    /\ ~feeder => discovery # "list" /\ \A i \in Input : at[i] \notin {"urls", "fed"}
    /\ pool < Workers => ~feeder /\ \A i \in Input : at[i] # "work"
    /\ Cancelled => pool = 0 /\ \A i \in Input : at[i] \notin {"results", "ready"}
    /\ discovery = "ok" => \A i \in Artifact : at[i] # "hidden"
    /\ \A i \in Input : at[i] \notin {"unwanted", "discarded"}

\* The producers have ended and no input is on its way.
Quiet ==
  /\ Disconnected
  /\ \A i \in Input : \/ at[i] \in {"scanned", "unfetched", "absent"}
                      \/ at[i] = "hidden" /\ discovery = "failed"

\* A scan that leaves its loop without a broken repository leaves it quiet, and
\* it stays so.
QuietInv ==
  /\ main \in {"stop", "join"} /\ (\A i \in Input : at[i] # "broken") => Quiet
  /\ outcome = "ok" => Quiet /\ discovery = "ok"

\* What was scanned apart from the buckets is in a report of its own, when each
\* repository has one, and in the last one when the scan has succeeded.
ReportInv ==
  /\ Parallel /\ ~ToFile => \A i \in Input \ Bucket : at[i] = "scanned" => i \in reported
  /\ RepositoriesAreReported

IInv == TypeOK /\ CountInv /\ MainInv /\ DiscoveryInv /\ FlowInv /\ QuietInv /\ ReportInv

-----------------------------------------------------------------------------
(* Counting inputs.                                                        *)

\* The numbers of the configuration.
LEMMA Capacities ==
  Workers \in Nat /\ Workers > 0 /\ Permits \in Nat /\ RepoCap \in Nat
<1>1. Workers \in Nat \ {0} /\ Permits \in Nat \ {0} /\ RepoCap \in Nat \ {0}
  BY PipelineConstants
<1>2. QED
  BY <1>1

\* The sets that are counted are finite.
LEMMA FinitelyMany ==
  ASSUME NEW f, NEW p
  PROVE  /\ IsFiniteSet(Where(f, p)) /\ Cardinality(Where(f, p)) \in Nat
         /\ IsFiniteSet(Busy(f)) /\ Cardinality(Busy(f)) \in Nat
<1>1. IsFiniteSet(Bucket) /\ IsFiniteSet(Local) /\ IsFiniteSet(Url) /\ IsFiniteSet(Artifact)
  BY PipelineConstants
<1>2. IsFiniteSet(Input)
  BY <1>1, FS_Union DEF Input
<1>3. Where(f, p) \in SUBSET Input /\ Busy(f) \in SUBSET Input
  BY DEF Where, Busy
<1>4. IsFiniteSet(Where(f, p)) /\ IsFiniteSet(Busy(f))
  BY <1>2, <1>3, FS_Subset
<1>5. QED
  BY <1>4, FS_CardinalityType

\* An input that arrives at a place is counted there.
LEMMA Arrives ==
  ASSUME NEW S, IsFiniteSet(S), NEW i, i \notin S, NEW T, T = S \cup {i}
  PROVE  Cardinality(T) = Cardinality(S) + 1
BY FS_AddElement

\* An input that leaves is no longer counted.
LEMMA Leaves ==
  ASSUME NEW S, IsFiniteSet(S), NEW i \in S, NEW T, T = S \ {i}
  PROVE  Cardinality(T) = Cardinality(S) - 1
BY FS_RemoveElement

\* A part is not counted more than the whole.
LEMMA PartIsSmaller ==
  ASSUME NEW S, IsFiniteSet(S), NEW T, T \subseteq S
  PROVE  Cardinality(T) <= Cardinality(S)
BY FS_Subset

\* A union has at most as many as its parts together.
LEMMA UnionIsNotMore ==
  ASSUME NEW S, NEW T, IsFiniteSet(S), IsFiniteSet(T)
  PROVE  /\ IsFiniteSet(S \cup T) /\ Cardinality(S \cup T) \in Nat
         /\ Cardinality(S \cup T) <= Cardinality(S) + Cardinality(T)
<1>1. /\ IsFiniteSet(S \cup T)
      /\ Cardinality(S \cup T) = Cardinality(S) + Cardinality(T) - Cardinality(S \cap T)
  BY FS_Union
<1>2. IsFiniteSet(S \cap T)
  BY FS_Intersection
<1>3. /\ Cardinality(S) \in Nat /\ Cardinality(T) \in Nat /\ Cardinality(S \cap T) \in Nat
      /\ Cardinality(S \cup T) \in Nat
  BY <1>1, <1>2, FS_CardinalityType
<1>4. QED
  BY <1>1, <1>3

Counted == {"scanning", "cloning", "cloned", "roots", "taken"}

\* The counts stay when no input moves from or to a place that is counted.
LEMMA CountsStay ==
  ASSUME CountInv, permits' = permits, pool' = pool,
         \A i \in Input : at'[i] = at[i] \/ (at[i] \notin Counted /\ at'[i] \notin Counted)
  PROVE  CountInv'
<1>1. \A p \in Counted : Where(at', p) = Where(at, p)
  BY DEF Where
<1>2. Where(at', "scanning") = Where(at, "scanning") /\ Where(at', "roots") = Where(at, "roots")
      /\ Busy(at') = Busy(at)
  BY <1>1 DEF Counted, Busy
<1>3. \A i \in Input : at'[i] = "taken" => at[i] = "taken"
  BY DEF Counted
<1>4. QED
  BY <1>2, <1>3 DEF CountInv, PermitInv, PoolInv, RootsInv

\* A root that is sent into the channel finds room there.
LEMMA RootsGrow ==
  ASSUME at \in [Input -> Place], CountInv, NEW i \in Input, at[i] \notin Counted,
         ~Full("roots", RepoCap), RepoCap \in Nat,
         at' = [at EXCEPT ![i] = "roots"], permits' = permits, pool' = pool
  PROVE  CountInv'
<1>1. /\ Where(at', "scanning") = Where(at, "scanning") /\ Busy(at') = Busy(at)
      /\ Where(at', "roots") = Where(at, "roots") \cup {i} /\ i \notin Where(at, "roots")
  BY DEF Busy, Where, Counted
<1>2. Cardinality(Where(at', "roots")) = Cardinality(Where(at, "roots")) + 1
  BY <1>1, Arrives, FinitelyMany
<1>3. ~(Cardinality(Where(at, "roots")) >= RepoCap)
  BY DEF Full, In, Where
<1>4. \A j \in Input : at'[j] = "taken" => at[j] = "taken"
  OBVIOUS
<1>5. QED
  BY <1>1, <1>2, <1>3, <1>4, FinitelyMany DEF CountInv, PermitInv, PoolInv, RootsInv

\* Permits, clones and roots are counted right through every step.
LEMMA CountNext == TypeOK /\ MainInv /\ CountInv /\ [Next]_vars => CountInv'
<1> SUFFICES ASSUME TypeOK, MainInv, CountInv, [Next]_vars PROVE CountInv'
  OBVIOUS
<1> USE DEF control, producers
<1>0. at \in [Input -> Place] /\ pool \in Nat /\ permits \in Nat /\ Permits \in Nat
      /\ RepoCap \in Nat
  <2>1. at \in [Input -> Place] /\ pool \in 0 .. Workers /\ permits \in 0 .. Permits
    BY DEF TypeOK
  <2>2. QED
    BY <2>1, Capacities
<1>1. ASSUME NEW i \in Input,
             \/ DiscoverUrl(i) \/ OfferUrl(i) \/ FetchArtifact(i) \/ FeederTakes(i)
             \/ FeederGives(i) \/ ClonerTakes(i)
      PROVE  CountInv'
  BY <1>0, <1>1, CountsStay DEF DiscoverUrl, OfferUrl, FetchArtifact, FeederTakes,
     FeederGives, ClonerTakes, Moved, Counted
<1>2. ASSUME NEW i \in Input, PushArtifact(i) PROVE CountInv'
  <2>1. CASE ~repo_rx
    BY <1>0, <1>2, <2>1, CountsStay DEF PushArtifact, Moved, Counted
  <2>2. CASE repo_rx
    <3>1. /\ at' = [at EXCEPT ![i] = "roots"] /\ at[i] = "offered"
          /\ ~Full("roots", RepoCap) /\ permits' = permits /\ pool' = pool
      BY <1>2, <2>2 DEF PushArtifact, Moved
    <3>2. QED
      BY <1>0, <3>1, RootsGrow DEF Counted
  <2>3. QED
    BY <2>1, <2>2
<1>3. ASSUME NEW i \in Input, ClonerGives(i) PROVE CountInv'
  <2>1. CASE ~repo_rx
    BY <1>0, <1>3, <2>1, CountsStay DEF ClonerGives, StopConsuming, Counted
  <2>2. CASE repo_rx
    <3>1. /\ at' = [at EXCEPT ![i] = "roots"] /\ at[i] = "ready"
          /\ ~Full("roots", RepoCap) /\ permits' = permits /\ pool' = pool
      BY <1>3, <2>2 DEF ClonerGives, Moved
    <3>2. QED
      BY <1>0, <3>1, RootsGrow DEF Counted
  <2>3. QED
    BY <2>1, <2>2
<1>4. ASSUME NEW i \in Input, WorkerTakes(i) PROVE CountInv'
  <2>1. at' = [at EXCEPT ![i] = "cloning"] /\ at[i] = "work" /\ permits' = permits
        /\ pool' = pool /\ pool > Cardinality(Busy(at))
    BY <1>4 DEF WorkerTakes, Idle, In, Busy, Where, Moved
  <2>2. Where(at', "scanning") = Where(at, "scanning") /\ Where(at', "roots") = Where(at, "roots")
        /\ Busy(at') = Busy(at) \cup {i} /\ i \notin Busy(at)
    BY <1>0, <2>1 DEF Busy, Where
  <2>3. Cardinality(Busy(at')) = Cardinality(Busy(at)) + 1
    BY <2>2, Arrives, FinitelyMany
  <2>4. \A j \in Input : at'[j] = "taken" => at[j] = "taken"
    BY <1>0, <2>1
  <2>5. QED
    BY <1>0, <2>1, <2>2, <2>3, <2>4, FinitelyMany DEF CountInv, PermitInv, PoolInv, RootsInv
<1>5. ASSUME NEW i \in Input, Cloned(i) \/ WorkerGives(i) PROVE CountInv'
  <2>1. /\ at[i] \in {"cloning", "cloned"} /\ permits' = permits
        /\ \E p \in {"cloned", "unfetched", "results", "discarded"} : at' = [at EXCEPT ![i] = p]
        /\ \/ pool' = pool
           \/ pool' = pool - 1 /\ at' = [at EXCEPT ![i] = "discarded"]
    BY <1>5 DEF Cloned, WorkerGives, Moved
  <2>2. Where(at', "scanning") = Where(at, "scanning") /\ Where(at', "roots") = Where(at, "roots")
    BY <1>0, <2>1 DEF Where
  <2>3. \A j \in Input : at'[j] = "taken" => at[j] = "taken"
    BY <1>0, <2>1
  <2>4. CASE at' = [at EXCEPT ![i] = "cloned"]
    <3>1. Busy(at') = Busy(at)
      BY <1>0, <2>1, <2>4 DEF Busy, Where
    <3>2. [at EXCEPT ![i] = "cloned"][i] # [at EXCEPT ![i] = "discarded"][i]
      BY <1>0
    <3>3. pool' = pool
      BY <2>1, <2>4, <3>2
    <3>4. QED
      BY <2>1, <2>2, <2>3, <3>1, <3>3 DEF CountInv, PermitInv, PoolInv, RootsInv
  <2>5. CASE at' # [at EXCEPT ![i] = "cloned"]
    <3>1. Busy(at') = Busy(at) \ {i} /\ i \in Busy(at)
      BY <1>0, <2>1, <2>5 DEF Busy, Where
    <3>2. Cardinality(Busy(at')) = Cardinality(Busy(at)) - 1
      BY <3>1, Leaves, FinitelyMany
    <3>3. QED
      BY <1>0, <2>1, <2>2, <2>3, <3>2, FinitelyMany DEF CountInv, PermitInv, PoolInv, RootsInv
  <2>6. QED
    BY <2>4, <2>5
<1>6. CASE WorkerStops
  <2>1. at' = at /\ permits' = permits /\ pool' = pool - 1 /\ pool > Cardinality(Busy(at))
    BY <1>6 DEF WorkerStops, Idle, In, Busy, Where
  <2>2. QED
    BY <1>0, <2>1, FinitelyMany DEF CountInv, PermitInv, PoolInv, RootsInv
<1>7. ASSUME NEW i \in Input, NextRoot(i) PROVE CountInv'
  <2>1. /\ at' = [at EXCEPT ![i] = "taken"] /\ at[i] \in {"hidden", "roots"}
        /\ permits' = permits /\ pool' = pool /\ \A j \in Input : at[j] # "taken"
    BY <1>7 DEF NextRoot, In, Moved
  <2>2. Where(at', "scanning") = Where(at, "scanning") /\ Busy(at') = Busy(at)
        /\ Where(at', "roots") \subseteq Where(at, "roots")
    BY <1>0, <2>1 DEF Busy, Where
  <2>3. Cardinality(Where(at', "roots")) <= Cardinality(Where(at, "roots"))
    BY <2>2, PartIsSmaller, FinitelyMany
  <2>4. \A j \in Input : at'[j] = "taken" => j = i
    BY <1>0, <2>1
  <2>5. QED
    BY <1>0, <2>1, <2>2, <2>3, <2>4, FinitelyMany DEF CountInv, PermitInv, PoolInv, RootsInv
<1>8. ASSUME NEW i \in Input, SpawnScan(i) PROVE CountInv'
  <2>1. at' = [at EXCEPT ![i] = "scanning"] /\ at[i] = "taken"
        /\ permits' = permits - 1 /\ pool' = pool
    BY <1>8 DEF SpawnScan, Moved
  <2>2. /\ Where(at', "scanning") = Where(at, "scanning") \cup {i} /\ i \notin Where(at, "scanning")
        /\ Busy(at') = Busy(at) /\ Where(at', "roots") = Where(at, "roots")
    BY <1>0, <2>1 DEF Busy, Where
  <2>3. Cardinality(Where(at', "scanning")) = Cardinality(Where(at, "scanning")) + 1
    BY <2>2, Arrives, FinitelyMany
  <2>4. \A j \in Input : at'[j] = "taken" => at[j] = "taken"
    BY <1>0, <2>1
  <2>5. QED
    BY <1>0, <2>1, <2>2, <2>3, <2>4, FinitelyMany DEF CountInv, PermitInv, PoolInv, RootsInv
<1>9. ASSUME NEW i \in Input, ScanEnds(i) PROVE CountInv'
  <2>1. /\ \E p \in {"scanned", "broken"} : at' = [at EXCEPT ![i] = p]
        /\ at[i] = "scanning" /\ permits' = permits + 1 /\ pool' = pool
    BY <1>9 DEF ScanEnds, Moved
  <2>2. /\ Where(at', "scanning") = Where(at, "scanning") \ {i} /\ i \in Where(at, "scanning")
        /\ Busy(at') = Busy(at) /\ Where(at', "roots") = Where(at, "roots")
    BY <1>0, <2>1 DEF Busy, Where
  <2>3. Cardinality(Where(at', "scanning")) = Cardinality(Where(at, "scanning")) - 1
    BY <2>2, Leaves, FinitelyMany
  <2>4. \A j \in Input : at'[j] = "taken" => at[j] = "taken"
    BY <1>0, <2>1
  <2>5. QED
    BY <1>0, <2>1, <2>2, <2>3, <2>4, FinitelyMany DEF CountInv, PermitInv, PoolInv, RootsInv
<1>10. ASSUME NEW i \in Input, ScanInline(i) PROVE CountInv'
  <2>1. /\ \E p \in {"scanned", "broken"} : at' = [at EXCEPT ![i] = p]
        /\ at[i] = "taken" /\ permits' = permits /\ pool' = pool
    BY <1>10 DEF ScanInline, Moved
  <2>2. /\ Where(at', "scanning") = Where(at, "scanning")
        /\ Busy(at') = Busy(at) /\ Where(at', "roots") = Where(at, "roots")
    BY <1>0, <2>1 DEF Busy, Where
  <2>3. \A j \in Input : at'[j] = "taken" => at[j] = "taken"
    BY <1>0, <2>1
  <2>4. QED
    BY <2>1, <2>2, <2>3 DEF CountInv, PermitInv, PoolInv, RootsInv
<1>11. CASE Setup \/ SetupFails \/ Stop
  <2>1. /\ permits' = permits /\ pool' = pool
        /\ \A j \in Input : at'[j] = at[j] \/ at'[j] \in {"scanned", "discarded"}
        /\ \A j \in Input : at[j] = "scanning" => at'[j] = "scanning"
    BY <1>0, <1>11 DEF Setup, SetupFails, Stop, Hangup, MainInv
  <2>2. /\ Where(at', "scanning") = Where(at, "scanning")
        /\ Busy(at') \subseteq Busy(at) /\ Where(at', "roots") \subseteq Where(at, "roots")
    BY <2>1 DEF Busy, Where
  <2>3. /\ Cardinality(Busy(at')) <= Cardinality(Busy(at))
        /\ Cardinality(Where(at', "roots")) <= Cardinality(Where(at, "roots"))
    BY <2>2, PartIsSmaller, FinitelyMany
  <2>4. \A j \in Input : at'[j] = "taken" => at[j] = "taken"
    BY <2>1
  <2>5. QED
    BY <1>0, <2>1, <2>2, <2>3, <2>4, FinitelyMany DEF CountInv, PermitInv, PoolInv, RootsInv
<1>12. CASE FeederStops \/ ClonerDrained
  BY <1>0, <1>12, CountsStay DEF FeederStops, FeederEnds, ClonerDrained, StopConsuming, Counted
<1>13. CASE \/ EndDiscovery \/ EndFetch \/ DiscoveryFails \/ ClonerJoins \/ Drained \/ Return
            \/ UNCHANGED vars
  BY <1>13, CountsStay DEF EndDiscovery, EndFetch, DiscoveryFails, ClonerJoins,
     Drained, Return, vars
<1>14. QED
  BY <1>1, <1>2, <1>3, <1>4, <1>5, <1>6, <1>7, <1>8, <1>9, <1>10, <1>11, <1>12, <1>13
  DEF Next, ThreadStep, Work, Failure, DiscoveryCanceled

-----------------------------------------------------------------------------
(* Types.                                                                  *)

FlagTypes == args \in Args /\ feeder \in BOOLEAN /\ repo_rx \in BOOLEAN /\ cancel \in BOOLEAN
PlaceTypes == at \in [Input -> Place]
ThreadTypes ==
  /\ discovery \in {"list", "fetch", "ok", "failed"}
  /\ cloner \in {"consume", "join", "done"}
  /\ main \in {"setup", "recv", "stop", "join", "returned"}
  /\ outcome \in {"none", "ok", "scan error", "discovery error", "setup error"}
  /\ reported \subseteq Input
NumberTypes == pool \in 0 .. Workers /\ permits \in 0 .. Permits

\* The type invariant in parts that the provers can take one by one.
LEMMA TypeParts ==
  /\ TypeOK <=> FlagTypes /\ PlaceTypes /\ ThreadTypes /\ NumberTypes
  /\ TypeOK' <=> FlagTypes' /\ PlaceTypes' /\ ThreadTypes' /\ NumberTypes'
BY Zenon DEF TypeOK, FlagTypes, PlaceTypes, ThreadTypes, NumberTypes

\* Initially the invariant holds: everything is before the first channel.
LEMMA InitInv == Init => IInv
<1> SUFFICES ASSUME Init PROVE IInv
  OBVIOUS
<1>1. TypeOK
  <2>1. FlagTypes
    BY DEF Init, FlagTypes
  <2>2. PlaceTypes
    BY DEF Init, PlaceTypes, Place
  <2>3. ThreadTypes
    BY DEF Init, ThreadTypes
  <2>4. NumberTypes
    BY Capacities DEF Init, NumberTypes
  <2>5. QED
    BY <2>1, <2>2, <2>3, <2>4, TypeParts
<1>2. CountInv
  <2>1. \A i \in Input : at[i] \in {"hidden", "absent"}
    BY DEF Init
  <2>2. Where(at, "scanning") = {} /\ Where(at, "roots") = {} /\ Busy(at) = {}
    BY <2>1 DEF Where, Busy
  <2>3. Cardinality({}) = 0
    BY FS_EmptySet
  <2>4. permits = Permits /\ pool = Workers
    BY DEF Init
  <2>5. QED
    BY <2>1, <2>2, <2>3, <2>4, Capacities DEF CountInv, PermitInv, PoolInv, RootsInv
<1>3. MainInv /\ DiscoveryInv /\ FlowInv /\ QuietInv /\ ReportInv
  BY Capacities DEF Init, MainInv, DiscoveryInv, FlowInv, QuietInv, ReportInv,
     RepositoriesAreReported, Scanned, In, Cancelled, Input
<1>4. QED
  BY <1>1, <1>2, <1>3 DEF IInv

\* The steps keep the types; the pool and the permits by their counts.
LEMMA TypeNext == TypeOK /\ CountInv /\ CountInv' /\ [Next]_vars => TypeOK'
<1> SUFFICES ASSUME TypeOK, CountInv, CountInv', [Next]_vars
             PROVE  FlagTypes' /\ PlaceTypes' /\ ThreadTypes' /\ NumberTypes'
  BY TypeParts
<1> USE DEF control, producers
<1>0. FlagTypes /\ PlaceTypes /\ ThreadTypes /\ NumberTypes
  BY TypeParts
<1>1. ASSUME NEW i \in Input,
             \/ DiscoverUrl(i) \/ OfferUrl(i) \/ FetchArtifact(i) \/ PushArtifact(i)
             \/ FeederTakes(i) \/ FeederGives(i) \/ WorkerTakes(i) \/ Cloned(i)
             \/ ClonerTakes(i) \/ ClonerGives(i) \/ NextRoot(i)
      PROVE  FlagTypes' /\ PlaceTypes' /\ ThreadTypes' /\ NumberTypes'
  <2> USE <1>0, <1>1 DEF DiscoverUrl, OfferUrl, FetchArtifact, PushArtifact, FeederTakes,
          FeederGives, WorkerTakes, Cloned, ClonerTakes, ClonerGives, NextRoot, Moved,
          StopConsuming
  <2>1. FlagTypes'
    BY DEF FlagTypes
  <2>2. PlaceTypes'
    BY DEF PlaceTypes, Place
  <2>3. ThreadTypes' /\ NumberTypes'
    BY DEF ThreadTypes, NumberTypes
  <2>4. QED
    BY <2>1, <2>2, <2>3
<1>2. CASE WorkerStops \/ \E i \in Input : WorkerGives(i)
  <2>1. NumberTypes'
    <3>1. Cardinality(Busy(at')) \in Nat /\ Cardinality(Busy(at')) <= pool'
      BY FinitelyMany DEF CountInv, PoolInv
    <3>2. (pool' = pool \/ pool' = pool - 1) /\ permits' = permits
      BY <1>2 DEF WorkerStops, WorkerGives
    <3>3. QED
      BY <1>0, <3>1, <3>2, Capacities DEF NumberTypes
  <2>2. FlagTypes' /\ ThreadTypes'
    BY <1>0, <1>2 DEF WorkerStops, WorkerGives, FlagTypes, ThreadTypes
  <2>3. PlaceTypes'
    BY <1>0, <1>2 DEF WorkerStops, WorkerGives, Moved, PlaceTypes, Place
  <2>4. QED
    BY <2>1, <2>2, <2>3
<1>3. ASSUME NEW i \in Input, SpawnScan(i) \/ ScanEnds(i) \/ ScanInline(i)
      PROVE  FlagTypes' /\ PlaceTypes' /\ ThreadTypes' /\ NumberTypes'
  <2>1. NumberTypes'
    <3>1. /\ Cardinality(Where(at', "scanning")) \in Nat
          /\ permits' + Cardinality(Where(at', "scanning")) = Permits
      BY FinitelyMany DEF CountInv, PermitInv
    <3>2. /\ permits' = permits \/ permits' = permits + 1 \/ (permits > 0 /\ permits' = permits - 1)
          /\ pool' = pool
      BY <1>3 DEF SpawnScan, ScanEnds, ScanInline
    <3>3. QED
      BY <1>0, <3>1, <3>2, Capacities DEF NumberTypes
  <2>2. FlagTypes' /\ ThreadTypes'
    BY <1>0, <1>3 DEF SpawnScan, ScanEnds, ScanInline, FlagTypes, ThreadTypes
  <2>3. PlaceTypes'
    BY <1>0, <1>3 DEF SpawnScan, ScanEnds, ScanInline, Moved, PlaceTypes, Place
  <2>4. QED
    BY <2>1, <2>2, <2>3
<1>4. CASE \/ EndDiscovery \/ EndFetch \/ DiscoveryFails \/ FeederStops \/ ClonerDrained
           \/ ClonerJoins \/ Setup \/ SetupFails \/ Drained \/ Stop
  <2> USE <1>0, <1>4 DEF EndDiscovery, EndFetch, DiscoveryFails, FeederStops, FeederEnds,
          ClonerDrained, StopConsuming, ClonerJoins, Setup, SetupFails, Drained, Stop, Hangup
  <2>1. FlagTypes'
    BY DEF FlagTypes
  <2>2. PlaceTypes'
    BY DEF PlaceTypes, Place
  <2>3. ThreadTypes' /\ NumberTypes'
    BY DEF ThreadTypes, NumberTypes
  <2>4. QED
    BY <2>1, <2>2, <2>3
<1>5. CASE Return
  <2>1. FlagTypes' /\ PlaceTypes' /\ NumberTypes'
    BY <1>0, <1>5 DEF Return, FlagTypes, PlaceTypes, NumberTypes
  <2>2. ThreadTypes'
    BY <1>0, <1>5 DEF Return, Scanned, In, ThreadTypes
  <2>3. QED
    BY <2>1, <2>2
<1>6. CASE UNCHANGED vars
  BY <1>0, <1>6 DEF vars, FlagTypes, PlaceTypes, ThreadTypes, NumberTypes
<1>7. QED
  BY <1>1, <1>2, <1>3, <1>4, <1>5, <1>6 DEF Next, ThreadStep, Work, Failure, DiscoveryCanceled

-----------------------------------------------------------------------------
(* The order in which things end.                                          *)

\* Main keeps its receiver and its buckets.
LEMMA MainNext == TypeOK /\ MainInv /\ [Next]_vars => MainInv'
<1> SUFFICES ASSUME TypeOK, MainInv, [Next]_vars PROVE MainInv'
  OBVIOUS
<1> USE DEF control, producers, MainInv
<1>0. at \in [Input -> Place] /\ Bucket \subseteq Input
  BY TypeParts DEF PlaceTypes, Input
<1>1. ASSUME NEW i \in Input,
             \/ DiscoverUrl(i) \/ OfferUrl(i) \/ FetchArtifact(i) \/ PushArtifact(i)
             \/ FeederTakes(i) \/ FeederGives(i) \/ WorkerTakes(i) \/ Cloned(i)
             \/ WorkerGives(i) \/ ClonerTakes(i) \/ ClonerGives(i)
      PROVE  MainInv'
  BY <1>0, <1>1 DEF DiscoverUrl, OfferUrl, FetchArtifact, PushArtifact, FeederTakes,
     FeederGives, WorkerTakes, Cloned, WorkerGives, ClonerTakes, ClonerGives, StopConsuming, Moved
<1>2. ASSUME NEW i \in Input, NextRoot(i) \/ SpawnScan(i) \/ ScanEnds(i) \/ ScanInline(i)
      PROVE  MainInv'
  BY <1>0, <1>2 DEF NextRoot, SpawnScan, ScanEnds, ScanInline, Moved
<1>3. CASE \/ EndDiscovery \/ EndFetch \/ DiscoveryFails \/ FeederStops \/ WorkerStops
           \/ ClonerDrained \/ ClonerJoins
  BY <1>0, <1>3 DEF EndDiscovery, EndFetch, DiscoveryFails, FeederStops, FeederEnds, WorkerStops,
     ClonerDrained, StopConsuming, ClonerJoins
<1>4. CASE Setup \/ SetupFails \/ Drained \/ Stop
  BY <1>0, <1>4 DEF Setup, SetupFails, Drained, Stop, Hangup
<1>5. CASE Return
  <2>1. /\ main = "join" /\ main' = "returned" /\ at' = at /\ outcome = "none"
        /\ repo_rx' = repo_rx
    BY <1>5 DEF Return
  <2>2. QED
    BY <2>1
<1>6. CASE UNCHANGED vars
  BY <1>6 DEF vars
<1>7. QED
  BY <1>1, <1>2, <1>3, <1>4, <1>5, <1>6 DEF Next, ThreadStep, Work, Failure, DiscoveryCanceled

\* Discovery ends with everything offered.
LEMMA DiscoveryNext == TypeOK /\ DiscoveryInv /\ [Next]_vars => DiscoveryInv'
<1> SUFFICES ASSUME TypeOK, DiscoveryInv, [Next]_vars PROVE DiscoveryInv'
  OBVIOUS
<1> USE DEF control, producers, DiscoveryInv
<1>0. at \in [Input -> Place] /\ Url \subseteq Input
  BY TypeParts DEF PlaceTypes, Input
<1>1. ASSUME NEW i \in Input,
             DiscoverUrl(i) \/ OfferUrl(i) \/ FetchArtifact(i) \/ PushArtifact(i)
      PROVE  DiscoveryInv'
  BY <1>0, <1>1 DEF DiscoverUrl, OfferUrl, FetchArtifact, PushArtifact, In, Moved
<1>2. ASSUME NEW i \in Input,
             \/ FeederTakes(i) \/ FeederGives(i) \/ WorkerTakes(i) \/ Cloned(i)
             \/ WorkerGives(i) \/ ClonerTakes(i) \/ ClonerGives(i)
             \/ NextRoot(i) \/ SpawnScan(i) \/ ScanEnds(i) \/ ScanInline(i)
      PROVE  DiscoveryInv'
  <2>1. discovery' = discovery
    BY <1>2 DEF FeederTakes, FeederGives, WorkerTakes, Cloned, WorkerGives, ClonerTakes,
       ClonerGives, NextRoot, SpawnScan, ScanEnds, ScanInline
  <2>2. \A j \in Input : at'[j] = at[j] \/ at'[j] \notin {"offered", "hidden"}
    BY <1>0, <1>2 DEF FeederTakes, FeederGives, WorkerTakes, Cloned, WorkerGives, ClonerTakes,
       ClonerGives, StopConsuming, NextRoot, SpawnScan, ScanEnds, ScanInline, Moved
  <2>3. QED
    BY <1>0, <2>1, <2>2
<1>3. CASE EndDiscovery \/ EndFetch \/ DiscoveryFails
  BY <1>0, <1>3 DEF EndDiscovery, EndFetch, DiscoveryFails, In
<1>4. CASE \/ FeederStops \/ WorkerStops \/ ClonerDrained \/ ClonerJoins
           \/ Setup \/ SetupFails \/ Drained \/ Stop
  BY <1>0, <1>4 DEF FeederStops, FeederEnds, WorkerStops, ClonerDrained, StopConsuming,
     ClonerJoins, Setup, SetupFails, Drained, Stop, Hangup
<1>5. CASE Return \/ UNCHANGED vars
  <2>1. at' = at /\ discovery' = discovery
    BY <1>5 DEF Return, vars
  <2>2. QED
    BY <2>1
<1>6. QED
  BY <1>1, <1>2, <1>3, <1>4, <1>5 DEF Next, ThreadStep, Work, Failure, DiscoveryCanceled

\* As long as main receives, each stage outlives the one before it.
LEMMA FlowNext ==
  TypeOK /\ CountInv /\ MainInv /\ DiscoveryInv /\ FlowInv /\ [Next]_vars => FlowInv'
<1> SUFFICES ASSUME TypeOK, CountInv, MainInv, DiscoveryInv, FlowInv, [Next]_vars, repo_rx'
             PROVE  FlowInv'
  BY DEF FlowInv
<1> USE DEF control, producers
<1>0. /\ at \in [Input -> Place] /\ Artifact \subseteq Input /\ Bucket \subseteq Input
      /\ Local \subseteq Input
  BY TypeParts DEF PlaceTypes, Input
<1>1. pool \in 0 .. Workers /\ Workers \in Nat /\ Workers > 0
  BY TypeParts, Capacities DEF NumberTypes
<1>2. pool = 0 => \A i \in Input : at[i] \notin {"cloning", "cloned"}
  <2>1. pool = 0 => Cardinality(Busy(at)) = 0
    BY FinitelyMany DEF CountInv, PoolInv
  <2>2. pool = 0 => Busy(at) = {}
    BY <2>1, FinitelyMany, FS_EmptySet
  <2>3. QED
    BY <2>2 DEF Busy, Where
<1>3. ASSUME NEW i \in Input,
             DiscoverUrl(i) \/ OfferUrl(i) \/ FetchArtifact(i) \/ PushArtifact(i)
      PROVE  FlowInv'
  BY <1>0, <1>1, <1>3 DEF FlowInv, Cancelled, DiscoverUrl, OfferUrl, FetchArtifact,
     PushArtifact, In, Moved
<1>4. ASSUME NEW i \in Input, FeederTakes(i) \/ FeederGives(i) \/ ClonerTakes(i) \/ ClonerGives(i)
      PROVE  FlowInv'
  BY <1>0, <1>1, <1>4 DEF FlowInv, Cancelled, FeederTakes, FeederGives, ClonerTakes, ClonerGives,
     In, Moved
<1>5. ASSUME NEW i \in Input, WorkerTakes(i) \/ Cloned(i) \/ WorkerGives(i)
      PROVE  FlowInv'
  BY <1>0, <1>1, <1>2, <1>5 DEF FlowInv, Cancelled, WorkerTakes, Cloned, WorkerGives, Moved
<1>6. ASSUME NEW i \in Input, NextRoot(i) \/ SpawnScan(i) \/ ScanEnds(i) \/ ScanInline(i)
      PROVE  FlowInv'
  BY <1>0, <1>6 DEF FlowInv, Cancelled, NextRoot, SpawnScan, ScanEnds, ScanInline, Moved
<1>7. CASE EndDiscovery \/ EndFetch \/ DiscoveryFails
  BY <1>0, <1>7 DEF FlowInv, Cancelled, EndDiscovery, EndFetch, DiscoveryFails, In
<1>8. CASE FeederStops
  BY <1>0, <1>1, <1>8 DEF FlowInv, Cancelled, FeederStops, FeederEnds, In
<1>9. CASE WorkerStops
  <2>1. pool > Cardinality(Busy(at))
    BY <1>9 DEF WorkerStops, Idle, Busy, Where, In
  <2>2. pool # 0
    BY <1>1, <2>1, FinitelyMany
  <2>3. QED
    BY <1>0, <1>1, <1>9, <2>2 DEF FlowInv, Cancelled, WorkerStops, In
<1>10. CASE ClonerDrained \/ ClonerJoins
  BY <1>0, <1>1, <1>10 DEF FlowInv, Cancelled, ClonerDrained, ClonerJoins, StopConsuming, In
<1>11. CASE Setup \/ SetupFails \/ Drained \/ Stop
  BY <1>0, <1>11 DEF FlowInv, Cancelled, Setup, SetupFails, Drained, Stop, Hangup
<1>12. CASE Return \/ UNCHANGED vars
  <2>1. UNCHANGED <<at, discovery, feeder, pool, cloner, repo_rx>>
    BY <1>12 DEF Return, vars
  <2>2. QED
    BY <2>1 DEF FlowInv, Cancelled
<1>13. QED
  BY <1>3, <1>4, <1>5, <1>6, <1>7, <1>8, <1>9, <1>10, <1>11, <1>12
  DEF Next, ThreadStep, Work, Failure, DiscoveryCanceled

\* Main returns Ok only if discovery has ended well and no scan has failed.
LEMMA ReturnsOk ==
  ASSUME Return, outcome' = "ok"
  PROVE  discovery # "failed" /\ \A i \in Input : at[i] # "broken"
<1>1. discovery = "ok" \/ discovery = "failed"
  BY DEF Return, Disconnected
<1>2. CASE In("broken") # {} /\ (~Parallel \/ discovery = "ok")
  <2>1. outcome' = "scan error"
    BY <1>2, Zenon DEF Return
  <2>2. QED
    BY <2>1
<1>3. CASE ~(In("broken") # {} /\ (~Parallel \/ discovery = "ok")) /\ discovery = "failed"
  <2>1. outcome' = "discovery error"
    BY <1>3, Zenon DEF Return
  <2>2. QED
    BY <2>1
<1>4. CASE In("broken") = {} /\ discovery = "ok"
  BY <1>4 DEF In
<1>5. QED
  BY <1>1, <1>2, <1>3, <1>4

\* The loop ends quietly, and nothing moves after that.
LEMMA QuietNext ==
  TypeOK /\ CountInv /\ MainInv /\ DiscoveryInv /\ FlowInv /\ QuietInv /\ [Next]_vars => QuietInv'
<1> SUFFICES ASSUME TypeOK, CountInv, MainInv, DiscoveryInv, FlowInv, QuietInv, [Next]_vars
             PROVE  QuietInv'
  OBVIOUS
<1> USE DEF control, producers
<1>0. /\ at \in [Input -> Place] /\ Input = Bucket \cup Local \cup Url \cup Artifact
      /\ discovery \in {"list", "fetch", "ok", "failed"}
  BY TypeParts DEF PlaceTypes, ThreadTypes, Input
<1>1. pool \in 0 .. Workers /\ Workers \in Nat /\ Workers > 0
  BY TypeParts, Capacities DEF NumberTypes
<1>2. pool = 0 => \A i \in Input : at[i] \notin {"cloning", "cloned"}
  <2>1. pool = 0 => Cardinality(Busy(at)) = 0
    BY FinitelyMany DEF CountInv, PoolInv
  <2>2. pool = 0 => Busy(at) = {}
    BY <2>1, FinitelyMany, FS_EmptySet
  <2>3. QED
    BY <2>2 DEF Busy, Where
<1>3. ASSUME NEW i \in Input,
             \/ DiscoverUrl(i) \/ OfferUrl(i) \/ FetchArtifact(i) \/ PushArtifact(i)
             \/ FeederTakes(i) \/ FeederGives(i) \/ WorkerTakes(i) \/ Cloned(i)
             \/ WorkerGives(i) \/ ClonerTakes(i) \/ ClonerGives(i)
      PROVE  QuietInv'
  <2>1. ~Quiet
    BY <1>0, <1>3 DEF Quiet, Disconnected, DiscoverUrl, OfferUrl, FetchArtifact, PushArtifact,
       FeederTakes, FeederGives, WorkerTakes, Cloned, WorkerGives, ClonerTakes, ClonerGives
  <2>2. main' = main /\ outcome' = outcome /\ \A j \in Input : at[j] = "broken" => at'[j] = "broken"
    BY <1>0, <1>3 DEF DiscoverUrl, OfferUrl, FetchArtifact, PushArtifact,
       FeederTakes, FeederGives, WorkerTakes, Cloned, WorkerGives, ClonerTakes, ClonerGives,
       StopConsuming, Moved
  <2>3. QED
    BY <2>1, <2>2 DEF QuietInv
<1>4. ASSUME NEW i \in Input, NextRoot(i) \/ SpawnScan(i) PROVE QuietInv'
  BY <1>4 DEF NextRoot, SpawnScan, QuietInv, MainInv
<1>5. ASSUME NEW i \in Input, ScanEnds(i) PROVE QuietInv'
  <2>1. ~Quiet
    BY <1>0, <1>5 DEF Quiet, ScanEnds
  <2>2. main' = main /\ outcome' = outcome /\ \A j \in Input : at[j] = "broken" => at'[j] = "broken"
    BY <1>0, <1>5 DEF ScanEnds, Moved
  <2>3. QED
    BY <2>1, <2>2 DEF QuietInv
<1>6. ASSUME NEW i \in Input, ScanInline(i) PROVE QuietInv'
  <2>1. /\ outcome' = "none"
        /\ main' = "recv" \/ (main' = "stop" /\ at' = [at EXCEPT ![i] = "broken"])
    BY <1>6 DEF ScanInline, MainInv, Moved
  <2>2. QED
    BY <1>0, <2>1 DEF QuietInv
<1>7. CASE EndDiscovery \/ EndFetch \/ DiscoveryFails \/ ClonerDrained \/ ClonerJoins
  <2>1. ~Quiet
    BY <1>7 DEF Quiet, Disconnected, EndDiscovery, EndFetch, DiscoveryFails, ClonerDrained,
       ClonerJoins
  <2>2. main' = main /\ outcome' = outcome /\ \A j \in Input : at[j] = "broken" => at'[j] = "broken"
    BY <1>0, <1>7 DEF EndDiscovery, EndFetch, DiscoveryFails, ClonerDrained, ClonerJoins,
       StopConsuming
  <2>3. QED
    BY <2>1, <2>2 DEF QuietInv
<1>8. CASE FeederStops \/ WorkerStops
  <2>1. /\ main' = main /\ outcome' = outcome /\ discovery' = discovery /\ cloner' = cloner
        /\ \A j \in Input : at'[j] = at[j] \/ at[j] \in {"fed", "urls"}
    BY <1>0, <1>8 DEF FeederStops, FeederEnds, WorkerStops
  <2>2. QED
    BY <2>1 DEF QuietInv, Quiet, Disconnected
<1>9. CASE Drained
  <2>1. /\ main = "recv" /\ repo_rx /\ outcome = "none" /\ at' = at /\ Disconnected
        /\ discovery' = discovery /\ cloner' = cloner /\ outcome' = outcome
        /\ \A i \in Local : at[i] # "hidden"
        /\ \A i \in Input : at[i] \notin {"taken", "roots", "scanning"}
    BY <1>0, <1>9 DEF Drained, MainInv, In
  <2>2. /\ pool = 0 /\ ~feeder
        /\ \A i \in Input : at[i] \notin {"results", "ready", "work", "urls", "fed"}
    BY <1>1, <2>1 DEF FlowInv, Cancelled, Disconnected
  <2>3. \A i \in Input : at[i] \notin {"cloning", "cloned", "unwanted", "discarded", "offered"}
    BY <1>2, <2>1, <2>2 DEF FlowInv, DiscoveryInv, Disconnected
  <2>4. discovery = "ok" => \A i \in Input : at[i] # "hidden"
    BY <1>0, <2>1 DEF FlowInv, DiscoveryInv, MainInv
  <2>5. (\A i \in Input : at[i] # "broken") => Quiet
    BY <1>0, <2>1, <2>2, <2>3, <2>4 DEF Quiet, Disconnected, Place
  <2>6. QED
    BY <2>1, <2>5 DEF QuietInv, Quiet, Disconnected
<1>10. CASE Stop
  <2>1. /\ main = "stop" /\ outcome' = "none" /\ discovery' = discovery /\ cloner' = cloner
        /\ \A j \in Input : at'[j] = at[j] \/ at[j] = "roots"
    BY <1>0, <1>10 DEF Stop, Hangup, MainInv
  <2>2. QED
    BY <2>1 DEF QuietInv, Quiet, Disconnected
<1>11. CASE Setup \/ SetupFails
  BY <1>11 DEF Setup, SetupFails, QuietInv, MainInv
<1>12. CASE Return
  <2>1. /\ main = "join" /\ main' = "returned" /\ at' = at /\ discovery' = discovery
        /\ cloner' = cloner /\ Disconnected
    BY <1>12 DEF Return
  <2>2. outcome' = "ok" => discovery # "failed" /\ \A i \in Input : at[i] # "broken"
    BY <1>12, ReturnsOk
  <2>3. QED
    BY <2>1, <2>2 DEF QuietInv, Quiet, Disconnected
<1>13. CASE UNCHANGED vars
  BY <1>13 DEF vars, QuietInv, Quiet, Disconnected
<1>14. QED
  BY <1>3, <1>4, <1>5, <1>6, <1>7, <1>8, <1>9, <1>10, <1>11, <1>12, <1>13
  DEF Next, ThreadStep, Work, Failure, DiscoveryCanceled

-----------------------------------------------------------------------------
(* Reports.                                                                *)

\* Main reports what it has when it returns Ok, or every repository already was.
LEMMA ReportAtReturn ==
  ASSUME ReportInv, Return, outcome' = "ok"
  PROVE  /\ RepositoriesAreReported'
         /\ reported \subseteq reported' \/ reported' = Scanned
<1>1. /\ reported' = IF ~Parallel \/ ToFile \/ ~RanRepoScan THEN Scanned ELSE reported
      /\ at' = at /\ args' = args
  BY DEF Return, producers
<1>2. CASE ~Parallel \/ ToFile \/ ~RanRepoScan
  BY <1>1, <1>2 DEF RepositoriesAreReported, Scanned, In, Parallel, ToFile
<1>3. CASE ~(~Parallel \/ ToFile \/ ~RanRepoScan)
  <2>1. Parallel /\ ~ToFile /\ reported' = reported
    BY <1>1, <1>3
  <2>2. \A i \in Input \ Bucket : at[i] = "scanned" => i \in reported
    BY <2>1 DEF ReportInv
  <2>3. Parallel' /\ ~ToFile'
    BY <1>1, <2>1 DEF Parallel, ToFile
  <2>4. QED
    BY <1>1, <2>1, <2>2, <2>3 DEF RepositoriesAreReported, Scanned, In
<1>4. QED
  BY <1>2, <1>3

\* Reports are not lost, and none is owed for what is scanned after the return.
LEMMA ReportNext ==
  TypeOK /\ MainInv /\ QuietInv /\ ReportInv /\ [Next]_vars => ReportInv'
<1> SUFFICES ASSUME TypeOK, MainInv, QuietInv, ReportInv, [Next]_vars PROVE ReportInv'
  OBVIOUS
<1> USE DEF control, producers
<1>0. at \in [Input -> Place]
  BY TypeParts DEF PlaceTypes
<1>1. args' = args
  BY DEF Next, ThreadStep, Work, Failure, DiscoveryCanceled, DiscoverUrl, OfferUrl,
     FetchArtifact, PushArtifact, FeederTakes, FeederGives, WorkerTakes, Cloned, WorkerGives,
     ClonerTakes, ClonerGives, NextRoot, SpawnScan, ScanEnds, ScanInline, EndDiscovery, EndFetch,
     DiscoveryFails, FeederStops, WorkerStops, ClonerDrained, ClonerJoins, Setup, SetupFails,
     Drained, Stop, Return, vars
<1>2. Parallel' = Parallel /\ ToFile' = ToFile
  BY <1>1 DEF Parallel, ToFile
<1>3. ASSUME reported \subseteq reported', outcome' = outcome,
             \A i \in Input : at'[i] = "scanned" =>
               at[i] = "scanned" \/ i \in Bucket \/ i \in reported' \/ ~Parallel \/ ToFile,
             outcome = "ok" => \A i \in Input : at'[i] = "scanned" => at[i] = "scanned"
      PROVE  ReportInv'
  <2>1. (Parallel /\ ~ToFile => \A i \in Input \ Bucket : at[i] = "scanned" => i \in reported)'
    BY <1>2, <1>3 DEF ReportInv
  <2>2. outcome = "ok" => In("scanned")' \subseteq In("scanned")
    BY <1>3 DEF In
  <2>3. RepositoriesAreReported'
    BY <1>2, <1>3, <2>2 DEF ReportInv, RepositoriesAreReported, Scanned
  <2>4. QED
    BY <2>1, <2>3 DEF ReportInv
<1>4. ASSUME NEW i \in Input,
             \/ DiscoverUrl(i) \/ OfferUrl(i) \/ FetchArtifact(i) \/ PushArtifact(i)
             \/ FeederTakes(i) \/ FeederGives(i) \/ WorkerTakes(i) \/ Cloned(i)
             \/ WorkerGives(i) \/ ClonerTakes(i) \/ ClonerGives(i) \/ NextRoot(i) \/ SpawnScan(i)
      PROVE  ReportInv'
  <2>1. /\ reported' = reported /\ outcome' = outcome
        /\ \A j \in Input : at'[j] = "scanned" => at[j] = "scanned"
    BY <1>0, <1>4 DEF DiscoverUrl, OfferUrl, FetchArtifact, PushArtifact, FeederTakes,
       FeederGives, WorkerTakes, Cloned, WorkerGives, ClonerTakes, ClonerGives, StopConsuming,
       NextRoot, SpawnScan, Moved
  <2>2. QED
    BY <1>3, <2>1
<1>5. ASSUME NEW i \in Input, ScanEnds(i) PROVE ReportInv'
  <2>1. outcome # "ok"
    BY <1>0, <1>5 DEF QuietInv, Quiet, ScanEnds
  <2>2. /\ reported \subseteq reported' /\ outcome' = outcome
        /\ \A j \in Input : at'[j] = "scanned" => at[j] = "scanned" \/ j \in reported' \/ ToFile
    BY <1>0, <1>5 DEF ScanEnds, Moved
  <2>3. QED
    BY <1>3, <2>1, <2>2
<1>6. ASSUME NEW i \in Input, ScanInline(i) PROVE ReportInv'
  <2>1. ~Parallel /\ reported' = reported /\ outcome' = outcome /\ outcome = "none"
    BY <1>6 DEF ScanInline, MainInv
  <2>2. QED
    BY <1>3, <2>1
<1>7. CASE Setup \/ SetupFails
  <2>1. /\ reported' = reported /\ outcome = "none"
        /\ \A j \in Input : at'[j] = "scanned" => at[j] = "scanned" \/ j \in Bucket
        /\ outcome' = outcome \/ outcome' = "setup error"
    BY <1>0, <1>7 DEF Setup, SetupFails, Hangup, MainInv
  <2>2. (Parallel /\ ~ToFile => \A i \in Input \ Bucket : at[i] = "scanned" => i \in reported)'
    BY <1>2, <2>1 DEF ReportInv
  <2>3. RepositoriesAreReported'
    BY <2>1 DEF RepositoriesAreReported
  <2>4. QED
    BY <2>2, <2>3 DEF ReportInv
<1>8. CASE \/ EndDiscovery \/ EndFetch \/ DiscoveryFails \/ FeederStops \/ WorkerStops
           \/ ClonerDrained \/ ClonerJoins \/ Drained \/ Stop \/ UNCHANGED vars
  <2>1. /\ reported' = reported /\ outcome' = outcome
        /\ \A j \in Input : at'[j] = "scanned" => at[j] = "scanned"
    BY <1>0, <1>8 DEF EndDiscovery, EndFetch, DiscoveryFails, FeederStops, FeederEnds,
       WorkerStops, ClonerDrained, StopConsuming, ClonerJoins, Drained, Stop, Hangup, vars
  <2>2. QED
    BY <1>3, <2>1
<1>9. CASE Return
  <2>1. at' = at /\ (outcome' # "ok" => reported' = reported)
    BY <1>9 DEF Return
  <2>2. RepositoriesAreReported'
    BY <1>9, ReportAtReturn DEF RepositoriesAreReported
  <2>3. ASSUME Parallel, ~ToFile, outcome' = "ok", NEW i \in Input \ Bucket, at[i] = "scanned"
        PROVE  i \in reported'
    <3>1. i \in reported
      BY <2>3 DEF ReportInv
    <3>2. i \in Scanned
      BY <2>3 DEF Scanned, In
    <3>3. QED
      BY <1>9, <2>3, <3>1, <3>2, ReportAtReturn
  <2>4. (Parallel /\ ~ToFile => \A i \in Input \ Bucket : at[i] = "scanned" => i \in reported)'
    BY <1>2, <2>1, <2>3 DEF ReportInv
  <2>5. QED
    BY <2>2, <2>4 DEF ReportInv
<1>10. QED
  BY <1>4, <1>5, <1>6, <1>7, <1>8, <1>9 DEF Next, ThreadStep, Work, Failure, DiscoveryCanceled

-----------------------------------------------------------------------------
(* Clones on disk.                                                         *)

\* The results channel keeps its capacity, and the cloner holds one result.
ResultsInv ==
  /\ Cardinality(Where(at, "results")) <= ResultCap
  /\ \A i, j \in Input : at[i] = "ready" /\ at[j] = "ready" => i = j

\* Only a worker sends results, and only the cloner takes them.
LEMMA ResultsNext == TypeOK /\ ResultsInv /\ [Next]_vars => ResultsInv'
<1> SUFFICES ASSUME TypeOK, ResultsInv, [Next]_vars PROVE ResultsInv'
  OBVIOUS
<1> USE DEF control, producers
<1>0. at \in [Input -> Place] /\ ResultCap \in Nat
  <2>1. ResultCap \in Nat \ {0}
    BY PipelineConstants
  <2>2. QED
    BY <2>1 DEF TypeOK
<1>1. ASSUME \A i \in Input : at'[i] \in {"results", "ready"} => at'[i] = at[i]
      PROVE  ResultsInv'
  <2>1. Where(at', "results") \subseteq Where(at, "results")
    BY <1>1 DEF Where
  <2>2. Cardinality(Where(at', "results")) <= Cardinality(Where(at, "results"))
    BY <2>1, PartIsSmaller, FinitelyMany
  <2>3. \A i, j \in Input : at'[i] = "ready" /\ at'[j] = "ready" => i = j
    BY <1>1 DEF ResultsInv
  <2>4. QED
    BY <1>0, <2>2, <2>3, FinitelyMany DEF ResultsInv
<1>2. ASSUME NEW i \in Input, WorkerGives(i) PROVE ResultsInv'
  <2>1. CASE at' = [at EXCEPT ![i] = "discarded"]
    BY <1>0, <1>1, <2>1
  <2>2. CASE at' = [at EXCEPT ![i] = "results"] /\ ~Full("results", ResultCap)
    <3>1. Where(at', "results") = Where(at, "results") \cup {i} /\ i \notin Where(at, "results")
      BY <1>0, <1>2, <2>2 DEF WorkerGives, Where
    <3>2. Cardinality(Where(at', "results")) = Cardinality(Where(at, "results")) + 1
      BY <3>1, Arrives, FinitelyMany
    <3>3. ~(Cardinality(Where(at, "results")) >= ResultCap)
      BY <2>2 DEF Full, In, Where
    <3>4. \A j \in Input : at'[j] = "ready" => at[j] = "ready"
      BY <1>0, <2>2
    <3>5. QED
      BY <1>0, <3>2, <3>3, <3>4, FinitelyMany DEF ResultsInv
  <2>3. QED
    BY <1>2, <2>1, <2>2 DEF WorkerGives, Moved
<1>3. ASSUME NEW i \in Input, ClonerTakes(i) PROVE ResultsInv'
  <2>1. at' = [at EXCEPT ![i] = "ready"] /\ \A j \in Input : at[j] # "ready"
    BY <1>3 DEF ClonerTakes, Moved, In
  <2>2. Where(at', "results") \subseteq Where(at, "results")
    BY <1>0, <2>1 DEF Where
  <2>3. Cardinality(Where(at', "results")) <= Cardinality(Where(at, "results"))
    BY <2>2, PartIsSmaller, FinitelyMany
  <2>4. \A j \in Input : at'[j] = "ready" => j = i
    BY <1>0, <2>1
  <2>5. QED
    BY <1>0, <2>3, <2>4, FinitelyMany DEF ResultsInv
<1>4. ASSUME NEW i \in Input,
             \/ DiscoverUrl(i) \/ OfferUrl(i) \/ FetchArtifact(i) \/ PushArtifact(i)
             \/ FeederTakes(i) \/ FeederGives(i) \/ WorkerTakes(i) \/ Cloned(i)
             \/ ClonerGives(i) \/ NextRoot(i) \/ SpawnScan(i) \/ ScanEnds(i) \/ ScanInline(i)
      PROVE  ResultsInv'
  BY <1>0, <1>1, <1>4 DEF DiscoverUrl, OfferUrl, FetchArtifact, PushArtifact, FeederTakes,
     FeederGives, WorkerTakes, Cloned, ClonerGives, StopConsuming, NextRoot, SpawnScan,
     ScanEnds, ScanInline, Moved
<1>5. CASE \/ Setup \/ SetupFails \/ Stop \/ FeederStops \/ ClonerDrained
  BY <1>1, <1>5 DEF Setup, SetupFails, Stop, Hangup, FeederStops, FeederEnds, ClonerDrained,
     StopConsuming
<1>6. CASE \/ EndDiscovery \/ EndFetch \/ DiscoveryFails \/ ClonerJoins \/ Drained \/ Return
           \/ WorkerStops \/ UNCHANGED vars
  BY <1>1, <1>6 DEF EndDiscovery, EndFetch, DiscoveryFails, ClonerJoins, Drained, Return,
     WorkerStops, vars
<1>7. QED
  BY <1>2, <1>3, <1>4, <1>5, <1>6 DEF Next, ThreadStep, Work, Failure, DiscoveryCanceled

\* A place that holds one input counts at most one.
LEMMA OneAtMost ==
  ASSUME NEW p, \A i, j \in Input : at[i] = p /\ at[j] = p => i = j
  PROVE  Cardinality(Where(at, p)) <= 1
<1>1. CASE Where(at, p) = {}
  BY <1>1, FS_EmptySet
<1>2. CASE Where(at, p) # {}
  <2>1. PICK i : i \in Where(at, p)
    BY <1>2
  <2>2. Where(at, p) = {i}
    BY <2>1 DEF Where
  <2>3. Cardinality({i}) = 1
    BY FS_Singleton
  <2>4. QED
    BY <2>2, <2>3
<1>3. QED
  BY <1>1, <1>2

-----------------------------------------------------------------------------
(* Theorems.                                                               *)

\* The invariant is inductive.
LEMMA Invariance == Spec => []IInv
<1>1. IInv /\ [Next]_vars => IInv'
  BY CountNext, TypeNext, MainNext, DiscoveryNext, FlowNext, QuietNext, ReportNext DEF IInv
<1>2. QED
  BY InitInv, <1>1, PTL DEF Spec

\* Inputs and threads are where they may be, the pool of workers and the pool of
\* permits never run below zero nor above what they began with: no permit is
\* lost or returned twice, for any number of repositories.
THEOREM PipelineTypes == Spec => []TypeOK
<1>1. IInv => TypeOK
  BY DEF IInv
<1>2. QED
  BY Invariance, <1>1, PTL

\* What waits for a scan is bounded by the channel, main's hand and the permits.
THEOREM QueueIsBounded == Spec => []QueuedScansAreBounded
<1>1. ASSUME IInv PROVE QueuedScansAreBounded
  <2> DEFINE R == Where(at, "roots")
             T == Where(at, "taken")
             S == Where(at, "scanning")
  <2>1. /\ IsFiniteSet(R) /\ IsFiniteSet(T) /\ IsFiniteSet(S)
        /\ Cardinality(R) \in Nat /\ Cardinality(T) \in Nat /\ Cardinality(S) \in Nat
    BY FinitelyMany
  <2>2. Cardinality(R) <= RepoCap /\ permits + Cardinality(S) = Permits
    BY <1>1 DEF IInv, CountInv, RootsInv, PermitInv
  <2>3. permits \in Nat /\ Permits \in Nat /\ RepoCap \in Nat
    <3>1. permits \in 0 .. Permits
      BY <1>1, TypeParts DEF IInv, NumberTypes
    <3>2. QED
      BY <3>1, Capacities
  <2>4. Cardinality(T) <= 1
    BY <1>1, OneAtMost DEF IInv, CountInv, RootsInv
  <2>5. /\ IsFiniteSet(R \cup T) /\ Cardinality(R \cup T) \in Nat
        /\ Cardinality(R \cup T) <= Cardinality(R) + Cardinality(T)
    BY <2>1, UnionIsNotMore
  <2>6. Cardinality((R \cup T) \cup S) <= Cardinality(R \cup T) + Cardinality(S)
        /\ Cardinality((R \cup T) \cup S) \in Nat
    BY <2>1, <2>5, UnionIsNotMore
  <2>7. Cardinality((R \cup T) \cup S) <= RepoCap + 1 + Permits
    BY <2>1, <2>2, <2>3, <2>4, <2>5, <2>6
  <2>8. (R \cup T) \cup S = In("roots") \cup In("taken") \cup In("scanning")
    BY DEF Where, In
  <2>9. QED
    BY <2>7, <2>8 DEF QueuedScansAreBounded
<1>2. QED
  BY Invariance, <1>1, PTL

\* The clones on disk are bounded by the workers, both channels, the permits and
\* one clone in the hands of the cloner and of main each, whatever the number of
\* repositories: what the comment at runner.rs:238 promises of the channels.
THEOREM ClonesAreBounded == Spec => []ClonesOnDiskAreBounded
<1>1. Init => ResultsInv
  <2> SUFFICES ASSUME Init PROVE ResultsInv
    OBVIOUS
  <2>1. ResultCap \in Nat \ {0}
    BY PipelineConstants
  <2>2. \A i \in Input : at[i] \in {"hidden", "absent"}
    BY DEF Init
  <2>3. Where(at, "results") = {}
    BY <2>2 DEF Where
  <2>4. QED
    BY <2>1, <2>2, <2>3, FS_EmptySet DEF ResultsInv
<1>2. IInv /\ ResultsInv /\ [Next]_vars => ResultsInv'
  BY ResultsNext DEF IInv
<1>3. ASSUME IInv, ResultsInv PROVE ClonesOnDiskAreBounded
  <2> DEFINE C == Busy(at)
             D == C \cup Where(at, "results")
             E == D \cup Where(at, "ready")
             F == E \cup Where(at, "roots")
             G == F \cup Where(at, "taken")
             H == G \cup Where(at, "scanning")
             N == {i \in Url : at[i] \in {"cloning", "cloned", "results", "ready",
                                          "roots", "taken", "scanning"}}
  <2>1. /\ Cardinality(C) <= pool /\ pool \in 0 .. Workers
        /\ Cardinality(Where(at, "results")) <= ResultCap
        /\ Cardinality(Where(at, "roots")) <= RepoCap
        /\ permits + Cardinality(Where(at, "scanning")) = Permits /\ permits \in 0 .. Permits
    BY <1>3, TypeParts DEF IInv, NumberTypes, CountInv, PoolInv, RootsInv, PermitInv, ResultsInv
  <2>2. Cardinality(Where(at, "ready")) <= 1 /\ Cardinality(Where(at, "taken")) <= 1
    BY <1>3, OneAtMost DEF IInv, CountInv, RootsInv, ResultsInv
  <2>3. Workers \in Nat /\ ResultCap \in Nat /\ RepoCap \in Nat /\ Permits \in Nat
    <3>1. ResultCap \in Nat \ {0}
      BY PipelineConstants
    <3>2. QED
      BY <3>1, Capacities
  <2>4. /\ IsFiniteSet(C) /\ Cardinality(C) \in Nat
        /\ \A p : IsFiniteSet(Where(at, p)) /\ Cardinality(Where(at, p)) \in Nat
    BY FinitelyMany
  <2>5. IsFiniteSet(D) /\ Cardinality(D) \in Nat
        /\ Cardinality(D) <= Cardinality(C) + Cardinality(Where(at, "results"))
    BY <2>4, UnionIsNotMore
  <2>6. IsFiniteSet(E) /\ Cardinality(E) \in Nat
        /\ Cardinality(E) <= Cardinality(D) + Cardinality(Where(at, "ready"))
    BY <2>4, <2>5, UnionIsNotMore
  <2>7. IsFiniteSet(F) /\ Cardinality(F) \in Nat
        /\ Cardinality(F) <= Cardinality(E) + Cardinality(Where(at, "roots"))
    BY <2>4, <2>6, UnionIsNotMore
  <2>8. IsFiniteSet(G) /\ Cardinality(G) \in Nat
        /\ Cardinality(G) <= Cardinality(F) + Cardinality(Where(at, "taken"))
    BY <2>4, <2>7, UnionIsNotMore
  <2>9. IsFiniteSet(H) /\ Cardinality(H) \in Nat
        /\ Cardinality(H) <= Cardinality(G) + Cardinality(Where(at, "scanning"))
    BY <2>4, <2>8, UnionIsNotMore
  <2>10. N \subseteq H
    BY DEF Where, Busy, Input
  <2>11. Cardinality(N) <= Cardinality(H) /\ Cardinality(N) \in Nat
    BY <2>9, <2>10, FS_Subset, FS_CardinalityType
  <2>12. Cardinality(H) <= Workers + ResultCap + RepoCap + Permits + 2
    <3> HIDE DEF C, D, E, F, G, H
    <3>1. QED
      BY <2>1, <2>2, <2>3, <2>4, <2>5, <2>6, <2>7, <2>8, <2>9
  <2>13. Cardinality(N) <= Workers + ResultCap + RepoCap + Permits + 2
    <3> HIDE DEF N, H
    <3>1. QED
      BY <2>3, <2>9, <2>11, <2>12
  <2>14. QED
    BY <2>13 DEF ClonesOnDiskAreBounded
<1>4. QED
  BY <1>1, <1>2, <1>3, Invariance, PTL DEF Spec

\* A scan that returns Ok has scanned everything there is, whatever the order in
\* which discovery, feeder, workers and cloner ended.
THEOREM NothingLost == Spec => []NothingIsLost
<1>1. IInv => NothingIsLost
  BY DEF IInv, QuietInv, Quiet, NothingIsLost
<1>2. QED
  BY Invariance, <1>1, PTL

\* A scan that returns Ok has written the findings of every repository.
THEOREM EverythingReported == Spec => []RepositoriesAreReported
<1>1. IInv => RepositoriesAreReported
  BY DEF IInv, ReportInv
<1>2. QED
  BY Invariance, <1>1, PTL
=============================================================================
