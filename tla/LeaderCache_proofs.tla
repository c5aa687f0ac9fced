------------------------- MODULE LeaderCache_proofs -------------------------
(***************************************************************************)
(* Proofs about LeaderCache, for every set of clusters, of handlers and of *)
(* configurations, and every number of reloads and leadership changes: no  *)
(* refresh goroutine is lost however reloads overlap, and reloads that do  *)
(* not overlap leave exactly the configured clusters refreshed.            *)
(***************************************************************************)
EXTENDS LeaderCache, FiniteSetTheorems, WindowLemmas

Cached == Version \cup {NoEntry}

LEMMA ConstantTypes ==
    /\ 0 \in Version /\ NoEntry \in Cached /\ Version \subseteq Cached
    /\ NoCluster \notin Cluster
    /\ Starts \subseteq Nat \ {0} /\ 1 \in Starts
    /\ \A b \in Cluster, k \in Starts : <<b, k>> \in Loops /\ <<b, k>> \in Jobs
    /\ \A l \in Loops : l \in Jobs /\ l[1] \in Cluster /\ l[2] \in Starts /\ l = <<l[1], l[2]>>
<1>1. 0 \in Version /\ NoEntry \in Cached /\ Version \subseteq Cached
  BY VersionsNatural DEF Version, Cached
<1>2. NoCluster \notin Cluster
  BY ClusterAssumption DEF NoCluster
<1>3. Starts \subseteq Nat \ {0} /\ 1 \in Starts
  BY ReloadsNatural DEF Starts
<1>4. \A b \in Cluster, k \in Starts : <<b, k>> \in Loops /\ <<b, k>> \in Jobs
  BY DEF Loops, Jobs
<1>5. \A l \in Loops : l \in Jobs /\ l[1] \in Cluster /\ l[2] \in Starts /\ l = <<l[1], l[2]>>
  BY DEF Loops, Jobs
<1> QED BY <1>1, <1>2, <1>3, <1>4, <1>5

LEMMA NoJobType ==
    NoJob \in Job /\ NoReload \in ReloadRecord
BY DEF NoJob, Job, NoReload, ReloadRecord

\* Both sides of the count of starts are finite.
LEMMA StartsFinite ==
    ASSUME NEW b
    PROVE  /\ IsFiniteSet(Started(b)) /\ Cardinality(Started(b)) \in Nat
           /\ IsFiniteSet(MayStart(b)) /\ Cardinality(MayStart(b)) \in Nat
<1>1. IsFiniteSet(Starts) /\ IsFiniteSet(Reloads)
  BY ReloadsNatural, FS_Interval DEF Starts, Reloads
<1>2. Started(b) \in SUBSET Starts /\ MayStart(b) \in SUBSET Reloads
  BY DEF Started, MayStart
<1> QED BY <1>1, <1>2, FS_Subset, FS_CardinalityType

\* A reload that may still start a loop for b finds a number for it, the least
\* one that is free.
LEMMA NextStartFree ==
    ASSUME IInv, NEW b \in Cluster, NEW i \in MayStart(b)
    PROVE  NextStart(b) \in Starts /\ job[<<b, NextStart(b)>>].pc = "none"
<1> DEFINE free == {k \in Starts : job[<<b, k>>].pc = "none"}
<1>1. Cardinality(MayStart(b)) # 0
  BY StartsFinite, FS_EmptySet
<1>2. Cardinality(Started(b)) < MaxReloads + 1
  BY <1>1, StartsFinite, ReloadsNatural DEF IInv, StartsLeft
<1>3. Cardinality(Starts) = MaxReloads + 1
  BY ReloadsNatural, FS_Interval DEF Starts
<1>4. free # {}
  <2>1. SUFFICES ASSUME free = {} PROVE FALSE
    OBVIOUS
  <2>2. Started(b) = Starts
    BY <2>1 DEF Started
  <2> QED BY <1>2, <1>3, <2>2, ReloadsNatural
<1>5. \E k \in free : \A j \in free : k <= j
  BY <1>4, ConstantTypes, LeastNatural
<1>6. \E k \in Starts : /\ job[<<b, k>>].pc = "none"
                        /\ \A j \in Starts : j < k => job[<<b, j>>].pc # "none"
  BY <1>5, ConstantTypes
<1> QED BY <1>6 DEF NextStart

\* The count of starts is kept when no loop begins and no reload gets work.
LEMMA StartsKept ==
    ASSUME IInv,
           \A b \in Cluster, k \in Starts : job'[<<b, k>>].pc # "none" => job[<<b, k>>].pc # "none",
           \A b \in Cluster : MayStart(b)' \subseteq MayStart(b)
    PROVE  StartsLeft'
<1> SUFFICES ASSUME NEW b \in Cluster
             PROVE  Cardinality(Started(b)') + Cardinality(MayStart(b)') <= MaxReloads + 1
  BY DEF StartsLeft
<1>1. Started(b)' \subseteq Started(b)
  BY DEF Started
<1>2. /\ Cardinality(Started(b)') <= Cardinality(Started(b)) /\ Cardinality(Started(b)') \in Nat
      /\ Cardinality(MayStart(b)') <= Cardinality(MayStart(b)) /\ Cardinality(MayStart(b)') \in Nat
  BY <1>1, StartsFinite, FS_Subset, FS_CardinalityType
<1> QED BY <1>2, StartsFinite, ReloadsNatural DEF IInv, StartsLeft

LEMMA InitIInv == Init => IInv
<1> SUFFICES ASSUME Init PROVE IInv
  OBVIOUS
<1>1. config \subseteq Cluster
  BY ConfigsTyped DEF Init
<1>2. \A f \in Jobs : /\ job[f] \in Job
                      /\ job[f].pc \in {"none", "asking"}
                      /\ job[f].pc = "asking" <=> f \in Loops /\ f[2] = 1 /\ f[1] \in config
                      /\ job[f].pc = "asking" => job[f].b \in Cluster
  BY <1>1, NoJobType, ConstantTypes DEF Init, NoJob, Job
<1>3. TypeOK
  <2>1. refreshers \in [Cluster -> 0..(MaxReloads + 1)]
    <3>1. 0 \in 0..(MaxReloads + 1) /\ 1 \in 0..(MaxReloads + 1)
      BY ReloadsNatural
    <3>2. refreshers = [b \in Cluster |-> IF b \in config THEN 1 ELSE 0]
      BY DEF Init
    <3> QED BY <3>1, <3>2
  <2>2. rl \in [Reloads -> ReloadRecord]
    BY NoJobType DEF Init
  <2>3. job \in [Jobs -> Job]
    BY <1>2 DEF Init
  <2>4. /\ topo \in [Cluster -> Version] /\ reachable \in [Cluster -> BOOLEAN]
        /\ cache \in [Cluster -> Version \cup {NoEntry}]
        /\ creds \subseteq Cluster /\ stopped \subseteq Loops
    BY <1>1, ConstantTypes DEF Init, Cached
  <2> QED BY <1>1, <2>1, <2>2, <2>3, <2>4 DEF TypeOK
<1>4. JobsOK
  BY <1>2 DEF JobsOK
<1>5. NoLeakedLoop
  BY <1>2, ConstantTypes DEF NoLeakedLoop, Running, Init
<1>6. Registered = config /\ \A b \in config : refreshers[b] = 1
  <2>1. refreshers = [b \in Cluster |-> IF b \in config THEN 1 ELSE 0]
    BY DEF Init
  <2> QED BY <1>1, <2>1 DEF Registered
<1>7. RegisteredRuns
  <2>1. stopped = {}
    BY DEF Init
  <2>2. ASSUME NEW b \in Registered
        PROVE  Running(<<b, refreshers[b]>>) /\ <<b, refreshers[b]>> \notin stopped
    <3>1. <<b, 1>> \in Loops /\ <<b, 1>> \in Jobs /\ refreshers[b] = 1 /\ b \in config
      BY <1>1, <1>6, ConstantTypes
    <3>2. job[<<b, 1>>].pc = "asking"
      BY <1>2, <3>1
    <3> QED BY <2>1, <3>1, <3>2 DEF Running
  <2> QED BY <2>1, <2>2 DEF RegisteredRuns
<1>8. StartsLeft
  <2> SUFFICES ASSUME NEW b \in Cluster
               PROVE  Cardinality(Started(b)) + Cardinality(MayStart(b)) <= MaxReloads + 1
    BY DEF StartsLeft
  <2>1. Started(b) \subseteq {1}
    BY <1>2, ConstantTypes DEF Started
  <2>2. Cardinality(Started(b)) <= 1
    <3>1. IsFiniteSet({1}) /\ Cardinality({1}) = 1
      BY FS_Singleton
    <3> QED BY <2>1, <3>1, FS_Subset
  <2>3. MayStart(b) = 1..MaxReloads
    BY DEF MayStart, Init, NoReload, Reloads
  <2>4. Cardinality(MayStart(b)) = MaxReloads
    BY <2>3, ReloadsNatural, FS_Interval
  <2> QED BY <2>2, <2>4, StartsFinite, ReloadsNatural
<1>9. ReloadsOK
  BY DEF ReloadsOK, InRefresh, Init, NoReload
<1>10. RefreshersMatchConfig
  BY <1>6 DEF RefreshersMatchConfig
<1> QED BY <1>3, <1>4, <1>5, <1>7, <1>8, <1>9, <1>10 DEF IInv
-----------------------------------------------------------------------------
(***************************************************************************)
(* Steps of a refresh goroutine or a request handler.                      *)
(***************************************************************************)
LEMMA JobIInv ==
    ASSUME IInv, NEW f \in Jobs, NEW n \in Job, job' = [job EXCEPT ![f] = n],
           cache' \in [Cluster -> Cached],
           UNCHANGED <<config, creds, world, refreshers, stopped, rl>>,
           n.pc \notin {"none", "ended"} => n.b \in Cluster,
           f \in Loops => /\ Running(f) /\ n.pc # "none"
                          /\ n.pc = "ended" => f \in stopped
    PROVE  IInv'
<1>1. job \in [Jobs -> Job]
  BY DEF IInv, TypeOK
<1>2. TypeOK'
  BY <1>1 DEF IInv, TypeOK, world, Cached
<1>3. JobsOK'
  BY <1>1 DEF IInv, JobsOK
<1>4. \A l \in Loops : /\ job'[l].pc # "none" <=> job[l].pc # "none"
                       /\ Running(l)' => Running(l)
                       /\ Running(l) /\ l \notin stopped => Running(l)'
  BY <1>1, ConstantTypes DEF Running
<1>5. NoLeakedLoop'
  BY <1>4 DEF IInv, NoLeakedLoop
<1>6. Registered' = Registered
  BY DEF Registered
<1>7. RegisteredRuns'
  <2>1. \A b \in Registered : <<b, refreshers[b]>> \in Loops
    BY ReloadsNatural, ConstantTypes DEF Registered, IInv, TypeOK, Starts, Loops
  <2>2. \A l \in stopped : l \in Loops
    BY DEF IInv, TypeOK
  <2> QED BY <1>4, <1>6, <2>1, <2>2 DEF IInv, RegisteredRuns
<1>8. StartsLeft'
  <2>1. \A b \in Cluster : MayStart(b)' = MayStart(b)
    BY DEF MayStart
  <2> QED BY <1>4, <2>1, ConstantTypes, StartsKept
<1>9. ReloadsOK' /\ RefreshersMatchConfig'
  BY <1>6 DEF IInv, ReloadsOK, RefreshersMatchConfig, InRefresh
<1> QED BY <1>2, <1>3, <1>5, <1>7, <1>8, <1>9 DEF IInv

LEMMA WorkIInv ==
    ASSUME IInv, NEW f \in Jobs, Work(f)
    PROVE  IInv'
<1>1. job[f] \in Job /\ cache \in [Cluster -> Cached] /\ topo \in [Cluster -> Version]
  BY DEF IInv, TypeOK, Cached
<1>2. job[f].pc \in {"asking", "answered"} /\ job[f].b \in Cluster
  BY DEF IInv, JobsOK, Work, fetchMetadata, Refresh
<1>3. f \in Loops => Running(f)
  BY <1>2 DEF Running
<1>4. CASE fetchMetadata(f)
  <2>1. topo[job[f].b] \in Cached
    BY <1>1, <1>2 DEF Cached
  <2>2. PICK n \in Job : /\ job' = [job EXCEPT ![f] = n]
                         /\ n.pc \in {"answered", "refreshed"} /\ n.b = job[f].b
    <3>1. CASE Answers(job[f].b)
      <4> DEFINE n == [job[f] EXCEPT !.pc = "answered", !.got = topo[job[f].b]]
      <4>1. n \in Job /\ n.pc = "answered" /\ n.b = job[f].b
        BY <1>1, <2>1 DEF Job, Cached
      <4>2. job' = [job EXCEPT ![f] = n]
        BY <1>4, <3>1 DEF fetchMetadata
      <4> QED BY <4>1, <4>2
    <3>2. CASE ~Answers(job[f].b)
      <4> DEFINE n == [job[f] EXCEPT !.pc = "refreshed"]
      <4>1. n \in Job /\ n.pc = "refreshed" /\ n.b = job[f].b
        BY <1>1 DEF Job
      <4>2. job' = [job EXCEPT ![f] = n]
        BY <1>4, <3>2 DEF fetchMetadata
      <4> QED BY <4>1, <4>2
    <3> QED BY <3>1, <3>2
  <2>3. cache' \in [Cluster -> Cached]
        /\ UNCHANGED <<config, creds, world, refreshers, stopped, rl>>
    BY <1>1, <1>4 DEF fetchMetadata
  <2> QED BY <1>2, <1>3, <2>2, <2>3, JobIInv
<1>5. CASE Refresh(f)
  <2>1. PICK n \in Job : n = [job[f] EXCEPT !.pc = "refreshed", !.got = NoEntry]
    BY <1>1 DEF Job
  <2>2. n.pc = "refreshed" /\ n.b = job[f].b
    BY <1>1, <2>1 DEF Job
  <2>3. job' = [job EXCEPT ![f] = n]
    BY <1>5, <2>1 DEF Refresh, IInv, TypeOK
  <2>4. cache' \in [Cluster -> Cached]
        /\ UNCHANGED <<config, creds, world, refreshers, stopped, rl>>
    BY <1>1, <1>2, <1>5 DEF Refresh, Job, Cached
  <2> QED BY <1>2, <1>3, <2>2, <2>3, <2>4, JobIInv
<1> QED BY <1>4, <1>5 DEF Work

LEMMA LoopIInv ==
    ASSUME IInv, NEW l \in Loops, refreshLoop(l) \/ LoopEnds(l)
    PROVE  IInv'
<1>1. l \in Jobs /\ job[l] \in Job /\ job[l].pc = "refreshed"
  BY ConstantTypes DEF IInv, TypeOK, refreshLoop, LoopEnds
<1>2. Running(l) /\ job[l].b \in Cluster
  BY <1>1 DEF Running, IInv, JobsOK
<1>3. cache' \in [Cluster -> Cached]
      /\ UNCHANGED <<config, creds, world, refreshers, stopped, rl>>
  BY DEF refreshLoop, LoopEnds, IInv, TypeOK, Cached
<1>4. CASE refreshLoop(l)
  <2>1. PICK n \in Job : n = [job[l] EXCEPT !.pc = "asking"]
    BY <1>1 DEF Job
  <2>2. n.pc = "asking" /\ n.b = job[l].b /\ job' = [job EXCEPT ![l] = n]
    BY <1>1, <1>4, <2>1 DEF refreshLoop, Job
  <2> QED BY <1>1, <1>2, <1>3, <2>2, JobIInv
<1>5. CASE LoopEnds(l)
  <2>1. PICK n \in Job : n = [NoJob EXCEPT !.pc = "ended"]
    BY NoJobType DEF Job
  <2>2. n.pc = "ended" /\ l \in stopped /\ job' = [job EXCEPT ![l] = n]
    BY <1>5, <2>1, NoJobType DEF LoopEnds, Job
  <2> QED BY <1>1, <1>2, <1>3, <2>2, JobIInv
<1> QED BY <1>4, <1>5

LEMMA RouteIInv ==
    ASSUME IInv, NEW r \in Routes,
           RouteLookup(r) \/ RouteForwards(r) \/ \E b \in Cluster : RouteBegin(r, b)
    PROVE  IInv'
<1>1. r \in Jobs /\ r \notin Loops /\ job[r] \in Job
  BY RoutesAssumption DEF IInv, TypeOK, Jobs
<1>2. cache' \in [Cluster -> Cached]
      /\ UNCHANGED <<config, creds, world, refreshers, stopped, rl>>
  BY DEF RouteLookup, RouteForwards, RouteBegin, IInv, TypeOK, Cached
<1>3. PICK n \in Job : /\ job' = [job EXCEPT ![r] = n]
                       /\ n.pc \notin {"none", "ended"} => n.b \in Cluster
  <2>1. CASE RouteForwards(r) \/ (RouteLookup(r) /\ GetLeader(job[r].b))
    BY <2>1, NoJobType DEF RouteForwards, RouteLookup, NoJob
  <2>2. CASE RouteLookup(r) /\ ~GetLeader(job[r].b)
    <3> DEFINE n == [job[r] EXCEPT !.pc = "asking"]
    <3>1. n \in Job /\ n.b = job[r].b
      BY <1>1 DEF Job
    <3>2. job' = [job EXCEPT ![r] = n] /\ job[r].b \in Cluster
      BY <1>1, <2>2 DEF RouteLookup, IInv, JobsOK
    <3> QED BY <3>1, <3>2
  <2>3. ASSUME NEW b \in Cluster, RouteBegin(r, b)
        PROVE  \E n \in Job : /\ job' = [job EXCEPT ![r] = n]
                              /\ n.pc \notin {"none", "ended"} => n.b \in Cluster
    <3> DEFINE n == [NoJob EXCEPT !.pc = "lookup", !.b = b]
    <3>1. n \in Job /\ n.b = b
      BY NoJobType DEF Job
    <3>2. job' = [job EXCEPT ![r] = n]
      BY <2>3 DEF RouteBegin
    <3> QED BY <3>1, <3>2
  <2> QED BY <2>1, <2>2, <2>3
<1> QED BY <1>1, <1>2, <1>3, JobIInv
-----------------------------------------------------------------------------
(***************************************************************************)
(* Steps of a reload.                                                      *)
(***************************************************************************)
\* A step that leaves jobs, registrations and the world alone keeps what only
\* these speak of.
LEMMA LoopsUntouched ==
    ASSUME IInv, UNCHANGED <<refreshers, job, stopped>>
    PROVE  JobsOK' /\ NoLeakedLoop' /\ RegisteredRuns' /\ Registered' = Registered
BY DEF IInv, JobsOK, NoLeakedLoop, RegisteredRuns, Registered, Running

LEMMA ReloadBeginIInv ==
    ASSUME IInv, NEW i \in Reloads, NEW c \in Configs, Reload(i, c)
    PROVE  IInv'
<1> DEFINE busy == {j \in Reloads : InRefresh(j)}
<1>1. /\ rl[i].pc = "none" /\ config' = c
      /\ UNCHANGED <<creds, world, cache, refreshers, job, stopped>>
      /\ rl' = [j \in Reloads |->
                CASE j = i -> [NoReload EXCEPT !.pc = "sasl", !.cfg = c, !.overlap = busy # {}]
                  [] j \in busy -> [rl[j] EXCEPT !.overlap = TRUE]
                  [] OTHER -> rl[j]]
  BY DEF Reload
<1>2. rl \in [Reloads -> ReloadRecord] /\ c \in SUBSET Cluster
  BY ConfigsTyped DEF IInv, TypeOK
<1>3. i \notin busy
  BY <1>1 DEF InRefresh
<1>4. /\ rl'[i] \in ReloadRecord /\ rl'[i].pc = "sasl" /\ rl'[i].cfg = c
      /\ rl'[i].overlap = (busy # {})
  <2>1. rl'[i] = [NoReload EXCEPT !.pc = "sasl", !.cfg = c, !.overlap = (busy # {})]
    <3> HIDE DEF busy
    <3> QED BY <1>1, <1>3
  <2>2. (busy # {}) \in BOOLEAN
    OBVIOUS
  <2> HIDE DEF busy
  <2> QED BY <1>2, <2>1, <2>2, NoJobType DEF ReloadRecord
<1>5. \A j \in Reloads : j # i =>
        /\ rl'[j] \in ReloadRecord /\ rl'[j].pc = rl[j].pc /\ rl'[j].start = rl[j].start
        /\ rl'[j].drop = rl[j].drop
        /\ j \in busy => rl'[j].overlap = TRUE
        /\ j \notin busy => rl'[j] = rl[j]
  <2> SUFFICES ASSUME NEW j \in Reloads, j # i
               PROVE  /\ rl'[j] \in ReloadRecord /\ rl'[j].pc = rl[j].pc
                      /\ rl'[j].start = rl[j].start /\ rl'[j].drop = rl[j].drop
                      /\ j \in busy => rl'[j].overlap = TRUE
                      /\ j \notin busy => rl'[j] = rl[j]
    OBVIOUS
  <2>1. CASE j \in busy
    <3>1. rl'[j] = [rl[j] EXCEPT !.overlap = TRUE]
      BY <1>1, <2>1
    <3> QED BY <1>2, <2>1, <3>1 DEF ReloadRecord
  <2>2. CASE j \notin busy
    <3>1. rl'[j] = rl[j]
      BY <1>1, <2>2
    <3> QED BY <1>2, <2>2, <3>1
  <2> QED BY <2>1, <2>2
<1>6. \A j \in Reloads : j \in busy <=> InRefresh(j)
  OBVIOUS
<1>7. busy # {} => \E j \in Reloads : InRefresh(j)
  OBVIOUS
<1> HIDE DEF busy
<1>8. \A j \in Reloads : InRefresh(j)' <=> (j = i \/ InRefresh(j))
  BY <1>1, <1>4, <1>5 DEF InRefresh
<1>9. TypeOK'
  <2>1. rl' \in [Reloads -> ReloadRecord]
    BY <1>1, <1>4, <1>5
  <2> QED BY <1>1, <1>2, <2>1 DEF IInv, TypeOK, world
<1>10. StartsLeft'
  <2>1. \A b \in Cluster : MayStart(b)' \subseteq MayStart(b)
    BY <1>1, <1>4, <1>5 DEF MayStart
  <2> QED BY <1>1, <2>1, StartsKept
<1>11. ReloadsOK'
  <2>1. \A j, k \in Reloads : j # k /\ InRefresh(j)' /\ InRefresh(k)' => rl'[j].overlap
    <3> SUFFICES ASSUME NEW j \in Reloads, NEW k \in Reloads, j # k, InRefresh(j)', InRefresh(k)'
                 PROVE  rl'[j].overlap
      OBVIOUS
    <3>1. CASE j = i
      BY <1>4, <1>6, <1>8, <3>1
    <3>2. CASE j # i
      BY <1>5, <1>6, <1>8, <3>2
    <3> QED BY <3>1, <3>2
  <2>2. \A j \in Reloads : InRefresh(j)' /\ ~rl'[j].overlap => j = i
    BY <1>5, <1>6, <1>8
  <2>3. \A j \in Reloads : rl'[j].pc = "invalidate" => rl'[j].drop \in Cluster
    BY <1>4, <1>5 DEF IInv, ReloadsOK
  <2> QED BY <1>1, <1>4, <2>1, <2>2, <2>3 DEF ReloadsOK
<1>12. RefreshersMatchConfig'
  BY <1>8 DEF RefreshersMatchConfig
<1> QED BY <1>1, <1>9, <1>10, <1>11, <1>12, LoopsUntouched DEF IInv

\* Reload i moves on to record n: what the others have been promised stays, and
\* the steps below only have to say what becomes of reload i itself.
LEMMA ReloadMoves ==
    ASSUME IInv, NEW i \in Reloads, NEW n \in ReloadRecord, rl' = [rl EXCEPT ![i] = n],
           InRefresh(i), UNCHANGED config, n.overlap = rl[i].overlap, n.cfg = rl[i].cfg,
           n.pc # "none",
           n.pc = "invalidate" => n.drop \in Cluster,
           (rl[i].cfg = config /\ ~rl[i].overlap) =>
             /\ n.pc = "start" => /\ (Registered' \cup n.start) \ n.stop = config
                                  /\ n.start \subseteq config
                                  /\ n.stop \cap config = {}
             /\ n.pc \in {"stop", "invalidate"} => Registered' \ n.stop = config
             /\ n.pc = "returned" => Registered' = config
    PROVE  ReloadsOK' /\ RefreshersMatchConfig' /\ rl' \in [Reloads -> ReloadRecord]
<1>1. rl \in [Reloads -> ReloadRecord]
  BY DEF IInv, TypeOK
<1>2. rl'[i] = n /\ \A j \in Reloads : j # i => rl'[j] = rl[j]
  BY <1>1
<1>3. \A j \in Reloads : /\ j # i => (InRefresh(j)' <=> InRefresh(j))
                         /\ InRefresh(j)' => InRefresh(j)
  BY <1>2 DEF InRefresh
<1>4. ~rl[i].overlap => rl[i].cfg = config
  BY DEF IInv, ReloadsOK
<1>5. \A j, k \in Reloads : j # k /\ InRefresh(j)' /\ InRefresh(k)' => rl'[j].overlap
  BY <1>2, <1>3 DEF IInv, ReloadsOK
<1>6. \A j \in Reloads : j # i /\ InRefresh(j)' => rl'[j].overlap
  BY <1>2, <1>3 DEF IInv, ReloadsOK
<1>7. \A j \in Reloads : rl'[j].pc = "invalidate" => rl'[j].drop \in Cluster
  BY <1>2 DEF IInv, ReloadsOK
<1>8. ReloadsOK'
  BY <1>2, <1>4, <1>5, <1>6, <1>7 DEF ReloadsOK
<1>9. RefreshersMatchConfig'
  <2> SUFFICES ASSUME \A j \in Reloads : ~InRefresh(j)' /\ ~rl'[j].overlap
               PROVE  Registered' = config
    BY DEF RefreshersMatchConfig
  <2>1. n.pc = "returned" /\ ~rl[i].overlap
    BY <1>2 DEF InRefresh
  <2> QED BY <1>4, <2>1
<1> QED BY <1>1, <1>8, <1>9

\* The steps of a reload that start and stop nothing.
LEMMA QuietReloadIInv ==
    ASSUME IInv, NEW i \in Reloads,
           ConfigureSASL(i) \/ ActiveClusters(i) \/ Invalidate(i)
           \/ (StartNew(i) /\ rl[i].start = {})
    PROVE  IInv'
<1>1. rl[i] \in ReloadRecord
  BY DEF IInv, TypeOK
<1>2. UNCHANGED <<config, world, refreshers, job, stopped>> /\ InRefresh(i)
  BY DEF ConfigureSASL, ActiveClusters, Invalidate, StartNew, InRefresh
<1>3. Registered' = Registered /\ Registered \in SUBSET Cluster
  BY <1>2 DEF Registered
<1>4. PICK n \in ReloadRecord :
        /\ rl' = [rl EXCEPT ![i] = n]
        /\ n.overlap = rl[i].overlap /\ n.cfg = rl[i].cfg
        /\ n.pc \in {"active", "start", "stop", "returned"}
        /\ n.pc = "active" => rl[i].pc = "sasl"
        /\ n.pc = "start" => rl[i].pc = "active"
        /\ (rl[i].cfg = config /\ ~rl[i].overlap) =>
             /\ n.pc = "start" => /\ (Registered \cup n.start) \ n.stop = config
                                  /\ n.start \subseteq config
                                  /\ n.stop \cap config = {}
             /\ n.pc = "stop" => Registered \ n.stop = config
             /\ n.pc = "returned" => Registered = config
  <2>1. CASE ConfigureSASL(i)
    <3> DEFINE n == [rl[i] EXCEPT !.pc = "active"]
    <3>1. /\ n \in ReloadRecord /\ n.pc = "active" /\ n.overlap = rl[i].overlap
          /\ n.cfg = rl[i].cfg
      BY <1>1 DEF ReloadRecord
    <3>2. rl' = [rl EXCEPT ![i] = n] /\ rl[i].pc = "sasl"
      BY <2>1 DEF ConfigureSASL
    <3> HIDE DEF n
    <3> QED BY <3>1, <3>2
  <2>2. CASE ActiveClusters(i)
    <3> DEFINE n == [rl[i] EXCEPT !.pc = "start", !.start = rl[i].cfg \ Registered,
                                  !.stop = Registered \ rl[i].cfg]
    <3>1. rl[i].cfg \in SUBSET Cluster
      BY <1>1 DEF ReloadRecord
    <3>2. /\ n \in ReloadRecord /\ n.pc = "start" /\ n.overlap = rl[i].overlap
          /\ n.cfg = rl[i].cfg /\ n.start = rl[i].cfg \ Registered
          /\ n.stop = Registered \ rl[i].cfg
      BY <1>1, <1>3, <3>1 DEF ReloadRecord
    <3>3. rl' = [rl EXCEPT ![i] = n] /\ rl[i].pc = "active"
      BY <2>2 DEF ActiveClusters, IInv, TypeOK
    <3> HIDE DEF n
    <3>4. rl[i].cfg = config => /\ (Registered \cup n.start) \ n.stop = config
                                /\ n.start \subseteq config /\ n.stop \cap config = {}
      BY <3>2
    <3> QED BY <3>2, <3>3, <3>4
  <2>3. CASE Invalidate(i)
    <3> DEFINE q == IF rl[i].stop = {} THEN "returned" ELSE "stop"
               n == [rl[i] EXCEPT !.pc = q, !.drop = NoCluster]
    <3>1. q \in {"returned", "stop"} /\ (q = "returned" <=> rl[i].stop = {})
      OBVIOUS
    <3>2. rl' = [rl EXCEPT ![i] = n] /\ rl[i].pc = "invalidate"
      BY <2>3 DEF Invalidate, IInv, TypeOK
    <3> HIDE DEF q
    <3>3. /\ n \in ReloadRecord /\ n.pc = q /\ n.overlap = rl[i].overlap
          /\ n.cfg = rl[i].cfg /\ n.stop = rl[i].stop
      BY <1>1, <3>1 DEF ReloadRecord
    <3> HIDE DEF n
    <3>4. ~rl[i].overlap => Registered \ rl[i].stop = config
      BY <1>2, <3>2 DEF IInv, ReloadsOK
    <3>5. /\ q = "stop" /\ ~rl[i].overlap => Registered \ n.stop = config
          /\ q = "returned" /\ ~rl[i].overlap => Registered = config
      BY <3>1, <3>3, <3>4
    <3> QED BY <3>1, <3>2, <3>3, <3>5
  <2>4. CASE StartNew(i) /\ rl[i].start = {}
    <3> DEFINE q == IF rl[i].stop = {} THEN "returned" ELSE "stop"
               n == [rl[i] EXCEPT !.pc = q]
    <3>1. q \in {"returned", "stop"} /\ (q = "returned" <=> rl[i].stop = {})
      OBVIOUS
    <3>2. rl' = [rl EXCEPT ![i] = n] /\ rl[i].pc = "start"
      BY <2>4 DEF StartNew
    <3> HIDE DEF q
    <3>3. /\ n \in ReloadRecord /\ n.pc = q /\ n.overlap = rl[i].overlap
          /\ n.cfg = rl[i].cfg /\ n.stop = rl[i].stop
      BY <1>1, <3>1 DEF ReloadRecord
    <3> HIDE DEF n
    <3>4. ~rl[i].overlap => (Registered \cup rl[i].start) \ rl[i].stop = config
      BY <1>2, <3>2 DEF IInv, ReloadsOK
    <3>5. ~rl[i].overlap => Registered \ rl[i].stop = config
      BY <2>4, <3>4
    <3>6. /\ q = "stop" /\ ~rl[i].overlap => Registered \ n.stop = config
          /\ q = "returned" /\ ~rl[i].overlap => Registered = config
      BY <3>1, <3>3, <3>5
    <3> QED BY <3>1, <3>2, <3>3, <3>6
  <2> QED BY <2>1, <2>2, <2>3, <2>4
<1>5. ReloadsOK' /\ RefreshersMatchConfig' /\ rl' \in [Reloads -> ReloadRecord]
  BY <1>2, <1>3, <1>4, ReloadMoves
<1>6. TypeOK'
  <2>1. creds' \subseteq Cluster
    BY <1>1 DEF ConfigureSASL, ActiveClusters, Invalidate, StartNew, IInv, TypeOK, ReloadRecord
  <2>2. cache' \in [Cluster -> Version \cup {NoEntry}]
    BY DEF ConfigureSASL, ActiveClusters, Invalidate, StartNew, IInv, TypeOK
  <2> QED BY <1>2, <1>5, <2>1, <2>2 DEF IInv, TypeOK, world
<1>7. StartsLeft'
  <2>1. \A b \in Cluster : MayStart(b)' \subseteq MayStart(b)
    BY <1>4 DEF MayStart, IInv, TypeOK
  <2> QED BY <1>2, <2>1, StartsKept
<1> QED BY <1>2, <1>5, <1>6, <1>7, LoopsUntouched DEF IInv

\* Reload i has its turn at cluster b, whether a loop is launched or not.
LEMMA StartIInv ==
    ASSUME IInv, NEW i \in Reloads, NEW b \in rl[i].start, rl[i].pc = "start",
           StartBackgroundRefresh(b), rl' = [rl EXCEPT ![i].start = @ \ {b}],
           UNCHANGED <<config, creds, world, cache, stopped>>
    PROVE  IInv'
<1>1. /\ rl \in [Reloads -> ReloadRecord] /\ rl[i] \in ReloadRecord
      /\ rl[i].start \in SUBSET Cluster /\ b \in Cluster
      /\ job \in [Jobs -> Job] /\ refreshers \in [Cluster -> 0..(MaxReloads + 1)]
  BY DEF IInv, TypeOK, ReloadRecord
<1>2. i \in MayStart(b)
  BY DEF MayStart
<1>3. PICK n \in ReloadRecord :
        /\ rl' = [rl EXCEPT ![i] = n] /\ n.pc = "start" /\ n.start = rl[i].start \ {b}
        /\ n.stop = rl[i].stop /\ n.cfg = rl[i].cfg /\ n.overlap = rl[i].overlap
  <2> DEFINE n == [rl[i] EXCEPT !.start = rl[i].start \ {b}]
  <2>1. /\ n \in ReloadRecord /\ n.pc = "start" /\ n.start = rl[i].start \ {b}
        /\ n.stop = rl[i].stop /\ n.cfg = rl[i].cfg /\ n.overlap = rl[i].overlap
    BY <1>1 DEF ReloadRecord
  <2>2. rl' = [rl EXCEPT ![i] = n]
    OBVIOUS
  <2> QED BY <2>1, <2>2
<1>4. /\ \A d \in Cluster : MayStart(d)' \subseteq MayStart(d)
      /\ MayStart(b)' = MayStart(b) \ {i}
  BY <1>1, <1>3 DEF MayStart
<1>5. Registered' = Registered \cup {b}
      => ReloadsOK' /\ RefreshersMatchConfig' /\ rl' \in [Reloads -> ReloadRecord]
  <2> SUFFICES ASSUME Registered' = Registered \cup {b}
               PROVE  ReloadsOK' /\ RefreshersMatchConfig' /\ rl' \in [Reloads -> ReloadRecord]
    OBVIOUS
  <2>1. InRefresh(i)
    BY DEF InRefresh
  <2>2. ~rl[i].overlap => /\ (Registered \cup rl[i].start) \ rl[i].stop = config
                          /\ rl[i].start \subseteq config /\ rl[i].stop \cap config = {}
    BY <2>1 DEF IInv, ReloadsOK
  <2>3. Registered' \cup n.start = Registered \cup rl[i].start
    BY <1>3
  <2> QED BY <1>3, <2>1, <2>2, <2>3, ReloadMoves
<1>6. CASE refreshers[b] # 0
  <2>1. UNCHANGED <<refreshers, job>>
    BY <1>6 DEF StartBackgroundRefresh
  <2>2. Registered' = Registered \cup {b}
    BY <1>1, <1>6, <2>1 DEF Registered
  <2>3. StartsLeft'
    BY <1>4, <2>1, StartsKept
  <2>4. TypeOK'
    BY <1>5, <2>1, <2>2 DEF IInv, TypeOK, world
  <2> QED BY <1>5, <2>1, <2>2, <2>3, <2>4, LoopsUntouched DEF IInv
<1>7. CASE refreshers[b] = 0
  <2>1. PICK k \in Starts : k = NextStart(b) /\ job[<<b, k>>].pc = "none"
    BY <1>1, <1>2, NextStartFree
  <2>2. PICK m \in Job : m = [NoJob EXCEPT !.pc = "asking", !.b = b]
    BY <1>1, NoJobType DEF Job
  <2>3. m.pc = "asking" /\ m.b = b
    BY <2>2, NoJobType DEF Job
  <2>4. /\ refreshers' = [refreshers EXCEPT ![b] = k]
        /\ job' = [job EXCEPT ![<<b, k>>] = m]
    BY <1>7, <2>1, <2>2 DEF StartBackgroundRefresh, Launch
  <2>5. k # 0 /\ k \in 0..(MaxReloads + 1) /\ <<b, k>> \in Loops /\ <<b, k>> \in Jobs
    BY <1>1, ConstantTypes, ReloadsNatural DEF Starts
  <2>6. Registered' = Registered \cup {b} /\ b \notin Registered
    BY <1>1, <1>7, <2>4, <2>5 DEF Registered
  <2>7. \A l \in Loops : l # <<b, k>> => job'[l] = job[l]
    BY <1>1, <2>4, ConstantTypes
  <2>8. job'[<<b, k>>] = m
    BY <1>1, <2>4, <2>5
  <2>9. TypeOK'
    BY <1>1, <1>5, <2>4, <2>5, <2>6 DEF IInv, TypeOK, world
  <2>10. JobsOK'
    BY <1>1, <2>3, <2>4 DEF IInv, JobsOK
  <2>11. NoLeakedLoop'
    <3> SUFFICES ASSUME NEW l \in Loops, Running(l)'
                 PROVE  l \in stopped' \/ refreshers'[l[1]] = l[2]
      BY DEF NoLeakedLoop
    <3>1. l[1] \in Cluster /\ l[2] \in Starts /\ l = <<l[1], l[2]>>
      BY ConstantTypes
    <3>2. CASE l = <<b, k>>
      BY <1>1, <2>4, <3>2
    <3>3. CASE l # <<b, k>>
      <4>1. Running(l)
        BY <2>7, <3>3 DEF Running
      <4>2. l \in stopped \/ refreshers[l[1]] = l[2]
        BY <4>1 DEF IInv, NoLeakedLoop
      <4>3. l[1] = b => l \in stopped
        BY <1>7, <3>1, <4>2, ConstantTypes
      <4> QED BY <1>1, <2>4, <3>1, <4>2, <4>3
    <3> QED BY <3>2, <3>3
  <2>12. RegisteredRuns'
    <3>1. <<b, k>> \notin stopped
      BY <2>1 DEF IInv, RegisteredRuns
    <3>2. ASSUME NEW d \in Registered'
          PROVE  (Running(<<d, refreshers[d]>>) /\ <<d, refreshers[d]>> \notin stopped)'
      <4>1. CASE d = b
        BY <1>1, <2>3, <2>4, <2>8, <3>1, <4>1 DEF Running
      <4>2. CASE d # b
        <5>1. d \in Registered /\ refreshers'[d] = refreshers[d] /\ d \in Cluster
          BY <1>1, <2>4, <2>6, <4>2 DEF Registered
        <5>2. <<d, refreshers[d]>> \in Loops /\ <<d, refreshers[d]>> # <<b, k>>
          BY <1>1, <4>2, <5>1, ReloadsNatural, ConstantTypes DEF Registered, Starts
        <5>3. job'[<<d, refreshers[d]>>] = job[<<d, refreshers[d]>>]
          BY <2>7, <5>2
        <5> QED BY <5>1, <5>3 DEF IInv, RegisteredRuns, Running
      <4> QED BY <4>1, <4>2
    <3>3. \A l \in stopped' : job'[l].pc # "none"
      <4>1. stopped' = stopped /\ stopped \subseteq Loops /\ \A l \in stopped : job[l].pc # "none"
        BY DEF IInv, RegisteredRuns, TypeOK
      <4> QED BY <2>7, <3>1, <4>1
    <3> QED BY <3>2, <3>3 DEF RegisteredRuns
  <2>13. StartsLeft'
    <3> SUFFICES ASSUME NEW d \in Cluster
                 PROVE  Cardinality(Started(d)') + Cardinality(MayStart(d)') <= MaxReloads + 1
      BY DEF StartsLeft
    <3>1. Cardinality(Started(d)) + Cardinality(MayStart(d)) <= MaxReloads + 1
      BY DEF IInv, StartsLeft
    <3>2. CASE d = b
      <4>1. Started(b)' = Started(b) \cup {k} /\ k \notin Started(b)
        <5>1. \A j \in Starts : job'[<<b, j>>].pc # "none" <=> (job[<<b, j>>].pc # "none" \/ j = k)
          BY <1>1, <2>3, <2>7, <2>8, ConstantTypes
        <5> QED BY <2>1, <5>1 DEF Started
      <4>2. Cardinality(Started(b)') = Cardinality(Started(b)) + 1
        BY <4>1, StartsFinite, FS_AddElement
      <4>3. Cardinality(MayStart(b)') = Cardinality(MayStart(b)) - 1
        BY <1>2, <1>4, StartsFinite, FS_RemoveElement
      <4> QED BY <3>1, <3>2, <4>2, <4>3, StartsFinite, ReloadsNatural
    <3>3. CASE d # b
      <4>1. Started(d)' = Started(d)
        <5>1. \A j \in Starts : job'[<<d, j>>] = job[<<d, j>>]
          BY <2>7, <3>3, ConstantTypes
        <5> QED BY <5>1 DEF Started
      <4>2. Cardinality(MayStart(d)') <= Cardinality(MayStart(d)) /\ Cardinality(MayStart(d)') \in Nat
        BY <1>4, StartsFinite, FS_Subset, FS_CardinalityType
      <4> QED BY <3>1, <4>1, <4>2, StartsFinite, ReloadsNatural
    <3> QED BY <3>2, <3>3
  <2> QED BY <1>5, <2>6, <2>9, <2>10, <2>11, <2>12, <2>13 DEF IInv
<1> QED BY <1>6, <1>7

LEMMA StopIInv ==
    ASSUME IInv, NEW i \in Reloads, NEW b \in Cluster, StopOld(i, b)
    PROVE  IInv'
<1>1. /\ rl \in [Reloads -> ReloadRecord] /\ rl[i] \in ReloadRecord /\ rl[i].stop \in SUBSET Cluster
      /\ job \in [Jobs -> Job] /\ refreshers \in [Cluster -> 0..(MaxReloads + 1)]
      /\ stopped \subseteq Loops
  BY DEF IInv, TypeOK, ReloadRecord
<1>2. /\ rl[i].pc = "stop" /\ b \in rl[i].stop
      /\ refreshers' = [refreshers EXCEPT ![b] = 0]
      /\ stopped' = IF refreshers[b] = 0 THEN stopped ELSE stopped \cup {<<b, refreshers[b]>>}
      /\ UNCHANGED <<config, creds, world, cache, job>>
  BY DEF StopOld, StopBackgroundRefresh
<1>3. PICK n \in ReloadRecord :
        /\ rl' = [rl EXCEPT ![i] = n] /\ n.pc = "invalidate" /\ n.drop = b
        /\ n.stop = rl[i].stop \ {b} /\ n.cfg = rl[i].cfg /\ n.overlap = rl[i].overlap
  <2> DEFINE n == [rl[i] EXCEPT !.pc = "invalidate", !.stop = rl[i].stop \ {b}, !.drop = b]
  <2>1. /\ n \in ReloadRecord /\ n.pc = "invalidate" /\ n.drop = b
        /\ n.stop = rl[i].stop \ {b} /\ n.cfg = rl[i].cfg /\ n.overlap = rl[i].overlap
    BY <1>1 DEF ReloadRecord
  <2>2. rl' = [rl EXCEPT ![i] = n]
    BY <1>1 DEF StopOld
  <2> QED BY <2>1, <2>2
<1>4. Registered' = Registered \ {b}
  BY <1>1, <1>2 DEF Registered
<1>5. ReloadsOK' /\ RefreshersMatchConfig' /\ rl' \in [Reloads -> ReloadRecord]
  <2>1. InRefresh(i)
    BY <1>2 DEF InRefresh
  <2>2. ~rl[i].overlap => Registered \ rl[i].stop = config
    BY <1>2, <2>1 DEF IInv, ReloadsOK
  <2>3. Registered' \ n.stop = Registered \ rl[i].stop \/ b \notin rl[i].stop
    BY <1>3, <1>4
  <2> QED BY <1>2, <1>3, <2>1, <2>2, <2>3, ReloadMoves
<1>6. refreshers[b] # 0 => <<b, refreshers[b]>> \in Loops
  BY <1>1, ReloadsNatural, ConstantTypes DEF Starts
<1>7. TypeOK'
  <2>1. stopped' \subseteq Loops
    BY <1>1, <1>2, <1>6
  <2>2. refreshers' \in [Cluster -> 0..(MaxReloads + 1)]
    BY <1>1, <1>2, ReloadsNatural
  <2> QED BY <1>2, <1>5, <2>1, <2>2 DEF IInv, TypeOK, world
<1>8. JobsOK'
  BY <1>2 DEF IInv, JobsOK
<1>9. NoLeakedLoop'
  <2> SUFFICES ASSUME NEW l \in Loops, Running(l)'
               PROVE  l \in stopped' \/ refreshers'[l[1]] = l[2]
    BY DEF NoLeakedLoop
  <2>1. l \in stopped \/ refreshers[l[1]] = l[2]
    BY <1>2 DEF IInv, NoLeakedLoop, Running
  <2>2. l[1] \in Cluster /\ l[2] # 0 /\ l = <<l[1], l[2]>>
    BY ConstantTypes
  <2> QED BY <1>1, <1>2, <2>1, <2>2
<1>10. RegisteredRuns'
  <2>1. ASSUME NEW d \in Registered'
        PROVE  (Running(<<d, refreshers[d]>>) /\ <<d, refreshers[d]>> \notin stopped)'
    <3>1. d \in Registered /\ d # b /\ d \in Cluster /\ refreshers'[d] = refreshers[d]
      BY <1>1, <1>2, <1>4 DEF Registered
    <3>2. Running(<<d, refreshers[d]>>) /\ <<d, refreshers[d]>> \notin stopped
      BY <3>1 DEF IInv, RegisteredRuns
    <3> QED BY <1>2, <3>1, <3>2 DEF Running
  <2>2. \A l \in stopped' : job'[l].pc # "none"
    <3>1. \A l \in stopped : job[l].pc # "none"
      BY DEF IInv, RegisteredRuns
    <3>2. refreshers[b] # 0 => job[<<b, refreshers[b]>>].pc # "none"
      BY DEF IInv, RegisteredRuns, Registered, Running
    <3>3. job' = job
      BY <1>2
    <3> QED BY <1>2, <3>1, <3>2, <3>3
  <2> QED BY <2>1, <2>2 DEF RegisteredRuns
<1>11. StartsLeft'
  <2>1. \A d \in Cluster : MayStart(d)' \subseteq MayStart(d)
    BY <1>1, <1>2, <1>3 DEF MayStart
  <2> QED BY <1>2, <2>1, StartsKept
<1> QED BY <1>5, <1>7, <1>8, <1>9, <1>10, <1>11 DEF IInv

\* What the world does concerns none of this.
LEMMA WorldIInv ==
    ASSUME IInv, NEW b \in Cluster, LeaderMoves(b) \/ ReachChanges(b)
    PROVE  IInv'
<1>1. UNCHANGED <<config, creds, cache, refreshers, job, stopped, rl>>
  BY DEF LeaderMoves, ReachChanges
<1>2. topo' \in [Cluster -> Version] /\ reachable' \in [Cluster -> BOOLEAN]
  <2>1. topo \in [Cluster -> Version] /\ reachable \in [Cluster -> BOOLEAN]
    BY DEF IInv, TypeOK
  <2>2. topo[b] < MaxVersion => topo[b] + 1 \in Version
    BY <2>1, VersionsNatural DEF Version
  <2>3. CASE LeaderMoves(b)
    BY <2>1, <2>2, <2>3 DEF LeaderMoves
  <2>4. CASE ReachChanges(b)
    BY <2>1, <2>4 DEF ReachChanges
  <2> QED BY <2>3, <2>4
<1>3. TypeOK'
  BY <1>1, <1>2 DEF IInv, TypeOK
<1>4. StartsLeft' /\ ReloadsOK' /\ RefreshersMatchConfig'
  BY <1>1 DEF IInv, StartsLeft, Started, MayStart, ReloadsOK, RefreshersMatchConfig, Registered,
              InRefresh
<1> QED BY <1>1, <1>3, <1>4, LoopsUntouched DEF IInv

LEMMA StutterIInv == IInv /\ UNCHANGED vars => IInv'
<1> SUFFICES ASSUME IInv, UNCHANGED vars PROVE IInv'
  OBVIOUS
<1>1. UNCHANGED <<config, creds, topo, reachable, cache, refreshers, job, stopped, rl>>
  BY DEF vars, world
<1>2. TypeOK'
  BY <1>1 DEF IInv, TypeOK
<1>3. StartsLeft' /\ ReloadsOK' /\ RefreshersMatchConfig'
  BY <1>1 DEF IInv, StartsLeft, Started, MayStart, ReloadsOK, RefreshersMatchConfig, Registered,
              InRefresh
<1> QED BY <1>1, <1>2, <1>3, LoopsUntouched DEF IInv

LEMMA StepIInv == IInv /\ [Next]_vars => IInv'
<1> SUFFICES ASSUME IInv, [Next]_vars PROVE IInv'
  OBVIOUS
<1>1. ASSUME NEW l \in Loops, LoopStep(l) \/ LoopEnds(l)
      PROVE  IInv'
  BY <1>1, ConstantTypes, WorkIInv, LoopIInv DEF LoopStep
<1>2. ASSUME NEW r \in Routes, RouteStep(r) \/ \E b \in Cluster : RouteBegin(r, b)
      PROVE  IInv'
  <2>1. r \in Jobs
    BY DEF Jobs
  <2> QED BY <1>2, <2>1, WorkIInv, RouteIInv DEF RouteStep
<1>3. ASSUME NEW i \in Reloads, NEW c \in Configs, Reload(i, c)
      PROVE  IInv'
  BY <1>3, ReloadBeginIInv
<1>4. ASSUME NEW i \in Reloads, ReloadStep(i)
      PROVE  IInv'
  <2>1. CASE ConfigureSASL(i) \/ ActiveClusters(i) \/ Invalidate(i)
    BY <2>1, QuietReloadIInv
  <2>2. CASE StartNew(i)
    <3>1. CASE rl[i].start = {}
      BY <2>2, <3>1, QuietReloadIInv
    <3>2. ASSUME NEW b \in rl[i].start, StartBackgroundRefresh(b),
                 rl' = [rl EXCEPT ![i].start = @ \ {b}]
          PROVE  IInv'
      BY <2>2, <3>2, StartIInv DEF StartNew
    <3> QED BY <2>2, <3>1, <3>2 DEF StartNew
  <2>3. ASSUME NEW b \in Cluster, StopOld(i, b)
        PROVE  IInv'
    BY <2>3, StopIInv
  <2> QED BY <1>4, <2>1, <2>2, <2>3 DEF ReloadStep
<1>5. ASSUME NEW b \in Cluster, LeaderMoves(b) \/ ReachChanges(b)
      PROVE  IInv'
  BY <1>5, WorldIInv
<1>6. CASE UNCHANGED vars
  BY <1>6, StutterIInv
<1> QED BY <1>1, <1>2, <1>3, <1>4, <1>5, <1>6 DEF Next
-----------------------------------------------------------------------------
\* The inductive invariant holds in every state.
THEOREM CacheInvariance == Spec => []IInv
BY InitIInv, StepIInv, PTL DEF Spec

\* The state of cache, loops, handlers and reloads is well typed; in particular
\* a reload that wants to start a loop always finds a number for it.
THEOREM CacheTypeCorrect == Spec => []TypeOK
<1>1. IInv => TypeOK
  BY DEF IInv
<1> QED BY <1>1, CacheInvariance, PTL

\* However reloads overlap, a refresh goroutine that runs is registered for its
\* cluster or has been told to stop.
THEOREM CacheNoLeakedLoop == Spec => []NoLeakedLoop
<1>1. IInv => NoLeakedLoop
  BY DEF IInv
<1> QED BY <1>1, CacheInvariance, PTL

\* Reloads that do not overlap leave exactly the configured clusters refreshed.
THEOREM CacheMatchesConfig == Spec => []RefreshersMatchConfig
<1>1. IInv => RefreshersMatchConfig
  BY DEF IInv
<1> QED BY <1>1, CacheInvariance, PTL

\* The loop registered for a cluster is alive: no other reload has told it to
\* stop, and it has not ended.
THEOREM CacheRegisteredRuns == Spec => []RegisteredRuns
<1>1. IInv => RegisteredRuns
  BY DEF IInv
<1> QED BY <1>1, CacheInvariance, PTL
=============================================================================
