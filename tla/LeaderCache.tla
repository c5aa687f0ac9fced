---------------------------- MODULE LeaderCache ----------------------------
(***************************************************************************)
(* The partition leader cache (pool/leader_cache.go) of the process, its   *)
(* refresh goroutines, the request handlers that use it (Route in          *)
(* routing/data.go) and the reloads that start, stop and invalidate        *)
(* (initRouting and RefreshClusters in proxy/listener.go).                 *)
(*                                                                         *)
(* The cache is keyed by bootstrap address, here called a cluster. What    *)
(* is cached of a cluster is the version of its leadership that a fetch    *)
(* saw: every change of a leader makes a new version. A fetch takes its    *)
(* time: between the broker's answer and the swap of the map anything may  *)
(* happen.                                                                 *)
(***************************************************************************)
EXTENDS Integers, FiniteSets

CONSTANTS
    Cluster,      \* bootstrap addresses
    Routes,       \* request handlers in Route at the same time
    MaxVersion,   \* bound on the leadership changes of each cluster
    Leaderless,   \* the versions in which the partition asked for has an error
    Garbled,      \* the versions in which a partition names an unlisted leader
    Secured,      \* the clusters that want SASL before Metadata
    Configs,      \* the sets of clusters a configuration may name
    MaxReloads    \* bound on the number of reloads

ASSUME VersionsNatural == MaxVersion \in Nat /\ Leaderless \cup Garbled \subseteq 0..MaxVersion
ASSUME ClusterAssumption == "" \notin Cluster
ASSUME SecuredTyped == Secured \subseteq Cluster
ASSUME ConfigsTyped == Configs \subseteq SUBSET Cluster
ASSUME ReloadsNatural == MaxReloads \in Nat

Version == 0..MaxVersion
NoEntry == -1
NoCluster == ""
Reloads == 1..MaxReloads
Starts  == 1..(MaxReloads + 1)   \* a reload starts at most one loop per cluster
Loops   == Cluster \X Starts
Jobs    == Loops \cup Routes

\* Request handlers are not refresh goroutines.
ASSUME RoutesAssumption == Routes \cap Loops = {}

VARIABLES
    config,      \* Reloader.config: the clusters in use
    creds,       \* bootstrapCreds: the clusters with credentials
    topo,        \* per cluster: its leadership (environment)
    reachable,   \* per cluster: fetches succeed (environment)
    cache,       \* leaders: per cluster a version, or NoEntry
    refreshers,  \* per cluster: the start number of its loop, or 0
    job,         \* per loop and handler: where its refresh stands
    stopped,     \* the loops whose stop channel is closed
    rl           \* per reload: where its RefreshClusters stands

world == <<topo, reachable>>
vars == <<config, creds, world, cache, refreshers, job, stopped, rl>>

NoJob    == [pc |-> "none", b |-> NoCluster, got |-> NoEntry]
NoReload == [pc |-> "none", cfg |-> {}, start |-> {}, stop |-> {}, drop |-> NoCluster,
             overlap |-> FALSE]
-----------------------------------------------------------------------------
(* Refresh: fetch, then swap *)

\* saslAuth does nothing without credentials: a secured cluster then refuses.
saslAuth(b) == b \in Secured => b \in creds

\* A response is refused as a whole if it is truncated or a partition without
\* error names a leader that is not in the response's list of brokers.
parseMetadataResponseV0(v) == v \notin Garbled

Answers(b) == reachable[b] /\ saslAuth(b) /\ parseMetadataResponseV0(topo[b])

\* fetchMetadata: the cluster answers with its leadership of this moment. On an
\* error (dial, authentication, deadline, a response that does not parse) the
\* cache keeps what it has.
fetchMetadata(f) ==
    /\ job[f].pc = "asking"
    /\ job' = [job EXCEPT ![f] =
                 IF Answers(job[f].b) THEN [@ EXCEPT !.pc = "answered", !.got = topo[job[f].b]]
                                      ELSE [@ EXCEPT !.pc = "refreshed"]]
    /\ UNCHANGED <<config, creds, world, cache, refreshers, stopped, rl>>

\* The map of the cluster is replaced as a whole, whatever it has become since.
Refresh(f) ==
    /\ job[f].pc = "answered"
    /\ cache' = [cache EXCEPT ![job[f].b] = job[f].got]
    /\ job' = [job EXCEPT ![f].pc = "refreshed", ![f].got = NoEntry]
    /\ UNCHANGED <<config, creds, world, refreshers, stopped, rl>>
-----------------------------------------------------------------------------
(* Background refresh *)

\* Mutant: a loop gives up when a refresh finds its cluster unreachable.
refreshLoopGivesUp(l) ==
    /\ l \in Loops /\ job[l].pc = "refreshed"
    /\ job' = [job EXCEPT ![l].pc = IF reachable[job[l].b] THEN "asking" ELSE "ended"]
    /\ UNCHANGED <<config, creds, world, cache, refreshers, stopped, rl>>

\* The ticker of a loop: also when stop is closed, select may choose it.
refreshLoop(l) ==
    /\ l \in Loops /\ job[l].pc = "refreshed"
    /\ job' = [job EXCEPT ![l].pc = "asking"]
    /\ UNCHANGED <<config, creds, world, cache, refreshers, stopped, rl>>

LoopEnds(l) ==
    /\ l \in stopped /\ job[l].pc = "refreshed"
    /\ job' = [job EXCEPT ![l] = [NoJob EXCEPT !.pc = "ended"]]
    /\ UNCHANGED <<config, creds, world, cache, refreshers, stopped, rl>>

NextStart(b) == CHOOSE k \in Starts : /\ job[<<b, k>>].pc = "none"
                                      /\ \A j \in Starts : j < k => job[<<b, j>>].pc # "none"

Launch(b) == /\ refreshers' = [refreshers EXCEPT ![b] = NextStart(b)]
             /\ job' = [job EXCEPT ![<<b, NextStart(b)>>] = [NoJob EXCEPT !.pc = "asking", !.b = b]]

\* Mutant: the loop that is there already is not looked for.
StartBackgroundRefreshAgain(b) == Launch(b)

\* StartBackgroundRefresh does nothing for a cluster that has a loop.
StartBackgroundRefresh(b) ==
    IF refreshers[b] # 0 THEN UNCHANGED <<refreshers, job>> ELSE Launch(b)

\* Mutant: a cluster without a loop is not told apart.
StopBackgroundRefreshUnchecked(b) ==
    /\ stopped' = stopped \cup {<<b, refreshers[b]>>}
    /\ refreshers' = [refreshers EXCEPT ![b] = 0]

StopBackgroundRefresh(b) ==
    /\ stopped' = IF refreshers[b] = 0 THEN stopped ELSE stopped \cup {<<b, refreshers[b]>>}
    /\ refreshers' = [refreshers EXCEPT ![b] = 0]
-----------------------------------------------------------------------------
(* Route *)

\* A partition with an error yields no address, and is not cached.
parsePartitionV0(v) == v \notin Leaderless

GetLeader(b) == cache[b] # NoEntry /\ parsePartitionV0(cache[b])

\* A handler accepted under this configuration gets to its lookup.
RouteBegin(r, b) ==
    /\ job[r].pc = "none"
    /\ b \in config
    /\ job' = [job EXCEPT ![r] = [NoJob EXCEPT !.pc = "lookup", !.b = b]]
    /\ UNCHANGED <<config, creds, world, cache, refreshers, stopped, rl>>

\* A known leader is used; on a miss the handler refreshes the cache itself
\* before it goes to the bootstrap address.
RouteLookup(r) ==
    /\ r \in Routes /\ job[r].pc = "lookup"
    /\ job' = [job EXCEPT ![r] = IF GetLeader(@.b) THEN NoJob ELSE [@ EXCEPT !.pc = "asking"]]
    /\ UNCHANGED <<config, creds, world, cache, refreshers, stopped, rl>>

RouteForwards(r) ==
    /\ r \in Routes /\ job[r].pc = "refreshed"
    /\ job' = [job EXCEPT ![r] = NoJob]
    /\ UNCHANGED <<config, creds, world, cache, refreshers, stopped, rl>>
-----------------------------------------------------------------------------
(* Reload *)

InRefresh(i) == rl[i].pc \notin {"none", "returned"}

\* The reloader swaps the configuration and runs the callback on the timer's
\* own goroutine. overlap is history only: another reload was under way.
Reload(i, c) ==
    LET busy == {j \in Reloads : InRefresh(j)}
    IN
    /\ rl[i].pc = "none"
    /\ \A j \in Reloads : j < i => rl[j].pc # "none"
    /\ config' = c
    /\ rl' = [j \in Reloads |->
                CASE j = i -> [NoReload EXCEPT !.pc = "sasl", !.cfg = c, !.overlap = busy # {}]
                  [] j \in busy -> [rl[j] EXCEPT !.overlap = TRUE]
                  [] OTHER -> rl[j]]
    /\ UNCHANGED <<creds, world, cache, refreshers, job, stopped>>

ConfigureSASL(i) ==
    /\ rl[i].pc = "sasl"
    /\ creds' = rl[i].cfg
    /\ rl' = [rl EXCEPT ![i].pc = "active"]
    /\ UNCHANGED <<config, world, cache, refreshers, job, stopped>>

\* The clusters that have a loop.
Registered == {b \in Cluster : refreshers[b] # 0}

\* Mutant: the loops are compared with the configuration the wrong way round.
ActiveClustersSwapped(i) ==
    /\ rl[i].pc = "active"
    /\ rl' = [rl EXCEPT ![i].pc = "start", ![i].start = Registered \ rl[i].cfg,
                        ![i].stop = rl[i].cfg \ Registered]
    /\ UNCHANGED <<config, creds, world, cache, refreshers, job, stopped>>

\* RefreshClusters works from the set of loops as it is now.
ActiveClusters(i) ==
    /\ rl[i].pc = "active"
    /\ rl' = [rl EXCEPT ![i].pc = "start", ![i].start = rl[i].cfg \ Registered,
                        ![i].stop = Registered \ rl[i].cfg]
    /\ UNCHANGED <<config, creds, world, cache, refreshers, job, stopped>>

StartNew(i) ==
    /\ rl[i].pc = "start"
    /\ \/ \E b \in rl[i].start :
            /\ StartBackgroundRefresh(b)
            /\ rl' = [rl EXCEPT ![i].start = @ \ {b}]
       \/ /\ rl[i].start = {}
          /\ rl' = [rl EXCEPT ![i].pc = IF rl[i].stop = {} THEN "returned" ELSE "stop"]
          /\ UNCHANGED <<refreshers, job>>
    /\ UNCHANGED <<config, creds, world, cache, stopped>>

StopOld(i, b) ==
    /\ rl[i].pc = "stop" /\ b \in rl[i].stop
    /\ StopBackgroundRefresh(b)
    /\ rl' = [rl EXCEPT ![i].pc = "invalidate", ![i].stop = @ \ {b}, ![i].drop = b]
    /\ UNCHANGED <<config, creds, world, cache, job>>

\* The cluster just stopped loses its entry; a refresh that is still under way
\* will bring it back.
Invalidate(i) ==
    /\ rl[i].pc = "invalidate"
    /\ cache' = [cache EXCEPT ![rl[i].drop] = NoEntry]
    /\ rl' = [rl EXCEPT ![i].pc = IF rl[i].stop = {} THEN "returned" ELSE "stop",
                        ![i].drop = NoCluster]
    /\ UNCHANGED <<config, creds, world, refreshers, job, stopped>>
-----------------------------------------------------------------------------
\* The world: leaders move, clusters become reachable or unreachable.
LeaderMoves(b) ==
    /\ topo[b] < MaxVersion
    /\ topo' = [topo EXCEPT ![b] = @ + 1]
    /\ UNCHANGED <<config, creds, reachable, cache, refreshers, job, stopped, rl>>

ReachChanges(b) ==
    /\ reachable' = [reachable EXCEPT ![b] = ~@]
    /\ UNCHANGED <<config, creds, topo, cache, refreshers, job, stopped, rl>>

\* initRouting has started a loop for every cluster of the configuration.
Init ==
    /\ config \in Configs
    /\ creds = config
    /\ topo = [b \in Cluster |-> 0]
    /\ reachable = [b \in Cluster |-> TRUE]
    /\ cache = [b \in Cluster |-> NoEntry]
    /\ refreshers = [b \in Cluster |-> IF b \in config THEN 1 ELSE 0]
    /\ job = [f \in Jobs |->
                IF f \in Loops /\ f[2] = 1 /\ f[1] \in config
                THEN [NoJob EXCEPT !.pc = "asking", !.b = f[1]] ELSE NoJob]
    /\ stopped = {}
    /\ rl = [i \in Reloads |-> NoReload]

Work(f) == fetchMetadata(f) \/ Refresh(f)
LoopStep(l) == Work(l) \/ refreshLoop(l)
RouteStep(r) == Work(r) \/ RouteLookup(r) \/ RouteForwards(r)
ReloadStep(i) == ConfigureSASL(i) \/ ActiveClusters(i) \/ StartNew(i)
                 \/ (\E b \in Cluster : StopOld(i, b)) \/ Invalidate(i)

Next ==
    \/ \E l \in Loops : LoopStep(l) \/ LoopEnds(l)
    \/ \E r \in Routes : RouteStep(r) \/ \E b \in Cluster : RouteBegin(r, b)
    \/ \E i \in Reloads : ReloadStep(i) \/ \E c \in Configs : Reload(i, c)
    \/ \E b \in Cluster : LeaderMoves(b) \/ ReachChanges(b)

Spec == Init /\ [][Next]_vars

\* Goroutines are scheduled, every fetch ends (it has a deadline), the ticker
\* ticks, select is fair. Nothing is promised about requests, reloads or the
\* world.
Fairness ==
    /\ \A l \in Loops : WF_vars(LoopStep(l)) /\ SF_vars(LoopEnds(l))
    /\ \A r \in Routes : WF_vars(RouteStep(r))
    /\ \A i \in Reloads : WF_vars(ReloadStep(i))

FairSpec == Spec /\ Fairness
-----------------------------------------------------------------------------
(* Properties *)

Job == [pc  : {"none", "lookup", "asking", "answered", "refreshed", "ended"},
        b   : Cluster \cup {NoCluster},
        got : Version \cup {NoEntry}]

ReloadRecord ==
    [pc : {"none", "sasl", "active", "start", "stop", "invalidate", "returned"},
     cfg : SUBSET Cluster, start : SUBSET Cluster, stop : SUBSET Cluster,
     drop : Cluster \cup {NoCluster}, overlap : BOOLEAN]

TypeOK ==
    /\ config \subseteq Cluster /\ creds \subseteq Cluster
    /\ topo \in [Cluster -> Version]
    /\ reachable \in [Cluster -> BOOLEAN]
    /\ cache \in [Cluster -> Version \cup {NoEntry}]
    /\ refreshers \in [Cluster -> 0..(MaxReloads + 1)]
    /\ job \in [Jobs -> Job]
    /\ stopped \subseteq Loops
    /\ rl \in [Reloads -> ReloadRecord]

Running(l) == job[l].pc \notin {"none", "ended"}

\* Overlapping reloads never lose a refresh goroutine: a loop that still runs
\* is the one registered for its cluster, or has been told to stop.
NoLeakedLoop ==
    \A l \in Loops : Running(l) => l \in stopped \/ refreshers[l[1]] = l[2]

\* Reloads that do not overlap leave exactly the configured clusters refreshed
\* (two that do may leave a removed cluster refreshed, or a configured one not).
RefreshersMatchConfig ==
    (\A i \in Reloads : ~InRefresh(i) /\ ~rl[i].overlap)
        => Registered = config

\* However refreshes of loops and handlers, stops, restarts and invalidations
\* overlap, and whatever a slow fetch has overwritten: a cluster that has a
\* loop and can be reached for good ends up with its present leaders.
CacheConverges ==
    \A b \in Cluster :
        <>[](refreshers[b] # 0 /\ Answers(b)) => <>[](cache[b] = topo[b])
-----------------------------------------------------------------------------
(***************************************************************************)
(* The inductive invariant of LeaderCache_proofs.                          *)
(***************************************************************************)
\* A refresh that is under way is about a cluster.
JobsOK == \A f \in Jobs : job[f].pc \notin {"none", "ended"} => job[f].b \in Cluster

\* The loop registered for a cluster runs and has not been told to stop; only
\* loops that were started are told to stop.
RegisteredRuns ==
    /\ \A b \in Registered : /\ Running(<<b, refreshers[b]>>)
                             /\ <<b, refreshers[b]>> \notin stopped
    /\ \A l \in stopped : job[l].pc # "none"

\* The loops started for a cluster, and the reloads that may still start one,
\* are never more than the numbers for them.
Started(b)  == {k \in Starts : job[<<b, k>>].pc # "none"}
MayStart(b) == {i \in Reloads : \/ rl[i].pc \in {"none", "sasl", "active"}
                                \/ rl[i].pc = "start" /\ b \in rl[i].start}
StartsLeft == \A b \in Cluster :
                Cardinality(Started(b)) + Cardinality(MayStart(b)) <= MaxReloads + 1

\* A reload that nothing overlaps works for the present configuration, and what
\* it has done and still has to do adds up to it.
ReloadsOK ==
    /\ \A i, j \in Reloads : i # j /\ InRefresh(i) /\ InRefresh(j) => rl[i].overlap
    /\ \A i \in Reloads : InRefresh(i) /\ ~rl[i].overlap =>
         /\ rl[i].cfg = config
         /\ rl[i].pc = "start" => /\ (Registered \cup rl[i].start) \ rl[i].stop = config
                                  /\ rl[i].start \subseteq config
                                  /\ rl[i].stop \cap config = {}
         /\ rl[i].pc \in {"stop", "invalidate"} => Registered \ rl[i].stop = config
    /\ \A i \in Reloads : rl[i].pc = "invalidate" => rl[i].drop \in Cluster

IInv == TypeOK /\ JobsOK /\ NoLeakedLoop /\ RegisteredRuns /\ StartsLeft
        /\ ReloadsOK /\ RefreshersMatchConfig
=============================================================================
