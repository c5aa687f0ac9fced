------------------------- MODULE LoadBalance_proofs -------------------------
(***************************************************************************)
(* Proofs about LoadBalance, for every weight, threshold, uptime and       *)
(* configuration and any number of reloads.                                *)
(***************************************************************************)
EXTENDS LoadBalance, FiniteSetTheorems, TLAPS

LEMMA Sizes ==
    /\ IsFiniteSet(DiffReloads) /\ Cardinality(DiffReloads) \in Nat
    /\ 1 \in Checkers /\ 1 \in Gens
    /\ Percent \in Nat /\ MinUptime \in Nat /\ DiffReloads \subseteq Reloads
<1>1. IsFiniteSet(1..MaxReloads)
  BY FS_Interval, ReloadsNatural
<1>2. IsFiniteSet(DiffReloads) /\ Cardinality(DiffReloads) \in Nat
  BY <1>1, FS_Subset, FS_CardinalityType, ReloadsNatural
<1> QED BY <1>2, PercentPositive, UptimeNatural, ReloadsNatural DEF Checkers, Gens, Reloads

\* The records that the actions write are well-typed.
LEMMA NewRecords ==
    /\ NoConfig \in ConfigType /\ Unseen \in [Cluster -> {"up", "down", "unknown"}]
    /\ NoRebalancer \in RebalancerType /\ NoReload \in ReloadType
    /\ NewHealthState \in HealthType
    /\ \A k \in Checkers : \A cfg \in ConfigType : NewRebalancer(k, cfg) \in RebalancerType
<1>1. NoConfig \in ConfigType
  BY Sizes DEF NoConfig, ConfigType
<1>2. Unseen \in [Cluster -> {"up", "down", "unknown"}]
  BY DEF Unseen
<1>3. NoRebalancer \in RebalancerType
  BY <1>1, <1>2, Sizes DEF NoRebalancer, RebalancerType
<1>4. NoReload \in ReloadType
  BY <1>1, Sizes DEF NoReload, ReloadType, ReloadPCs
<1>5. NewHealthState \in HealthType
  BY Sizes DEF NewHealthState, HealthType
<1>6. \A k \in Checkers : \A cfg \in ConfigType : NewRebalancer(k, cfg) \in RebalancerType
  BY <1>3 DEF NewRebalancer, RebalancerType
<1> QED BY <1>1, <1>2, <1>3, <1>4, <1>5, <1>6

LEMMA NewFields ==
    /\ NoRebalancer.loop = "none" /\ NoRebalancer.prev = Unseen /\ NoRebalancer.checker = 1
    /\ \A k, cfg : /\ NewRebalancer(k, cfg).loop = "new" /\ NewRebalancer(k, cfg).prev = Unseen
                   /\ NewRebalancer(k, cfg).checker = k /\ NewRebalancer(k, cfg).cfg = cfg
BY DEF NewRebalancer, NoRebalancer

(***************************************************************************)
(* Counting the reloads that may still create something.                   *)
(***************************************************************************)
LEMMA LeftFinite ==
    ASSUME NEW pcs
    PROVE  /\ IsFiniteSet(LeftIn(pcs)) /\ Cardinality(LeftIn(pcs)) \in Nat
           /\ Cardinality(LeftIn(pcs)) <= Cardinality(DiffReloads)
BY Sizes, FS_Subset, FS_CardinalityType DEF LeftIn

LEMMA LeftFewer ==
    ASSUME NEW pcs, \A j \in DiffReloads : rl'[j].pc \in pcs => rl[j].pc \in pcs
    PROVE  /\ Cardinality(LeftIn(pcs)') <= Cardinality(LeftIn(pcs))
           /\ Cardinality(LeftIn(pcs)') \in Nat
<1>1. LeftIn(pcs)' \subseteq LeftIn(pcs)
  BY DEF LeftIn
<1> QED BY <1>1, LeftFinite, FS_Subset, FS_CardinalityType

LEMMA LeftOne ==
    ASSUME NEW pcs, NEW i \in DiffReloads, rl[i].pc \in pcs, rl'[i].pc \notin pcs,
           \A j \in DiffReloads \ {i} : rl'[j].pc = rl[j].pc
    PROVE  /\ Cardinality(LeftIn(pcs)') = Cardinality(LeftIn(pcs)) - 1
           /\ Cardinality(LeftIn(pcs)') \in Nat
<1>1. LeftIn(pcs)' = LeftIn(pcs) \ {i} /\ i \in LeftIn(pcs)
  BY DEF LeftIn
<1>2. IsFiniteSet(LeftIn(pcs))
  BY LeftFinite
<1>3. IsFiniteSet(LeftIn(pcs) \ {i}) /\ Cardinality(LeftIn(pcs) \ {i}) = Cardinality(LeftIn(pcs)) - 1
  BY <1>1, <1>2, FS_RemoveElement
<1> QED BY <1>1, <1>3, FS_CardinalityType
-----------------------------------------------------------------------------
(***************************************************************************)
(* Weights.                                                                *)
(***************************************************************************)
LEMMA WeightsType ==
    ASSUME NEW w \in 0..Percent
    PROVE  /\ Weights(w) \in [Cluster -> 0..Percent]
           /\ Weights(w)["primary"] = w /\ Weights(w)["secondary"] = Percent - w
BY Sizes DEF Weights, Cluster

\* The share of the hash range below and from a bound on.
LEMMA Shares ==
    ASSUME NEW w \in 0..Percent
    PROVE  /\ Cardinality({h \in 0..(Percent - 1) : h < w}) = w
           /\ Cardinality({h \in 0..(Percent - 1) : ~(h < w)}) = Percent - w
<1>1. {h \in 0..(Percent - 1) : h < w} = 0..(w - 1)
  BY Sizes
<1>2. {h \in 0..(Percent - 1) : ~(h < w)} = w..(Percent - 1)
  BY Sizes
<1>3. Cardinality(0..(w - 1)) = w
  BY FS_Interval, Sizes
<1>4. Cardinality(w..(Percent - 1)) = Percent - w
  <2>1. w \in Int /\ Percent - 1 \in Int
    BY Sizes
  <2>2. Cardinality(w..(Percent - 1)) = IF w > Percent - 1 THEN 0 ELSE (Percent - 1) - w + 1
    BY <2>1, FS_Interval
  <2> QED BY <2>2, Sizes
<1> QED BY <1>1, <1>2, <1>3, <1>4

\* The routing functions split the hash range in proportion to the weights.
LEMMA SplitByWeights == WeightsComplement => SplitFollowsWeights
<1> SUFFICES ASSUME NEW w \in 0..Percent, weights = Weights(w)
             PROVE  SplitFollowsWeights
  BY DEF WeightsComplement
<1>1. weights["primary"] = w /\ weights["secondary"] = Percent - w
  BY WeightsType
<1> DEFINE below == {h \in 0..(Percent - 1) : h < w}
           above == {h \in 0..(Percent - 1) : ~(h < w)}
<1>2. /\ {h \in 0..(Percent - 1) : StickyTarget(weights, h) = "primary"} = below
      /\ {h \in 0..(Percent - 1) : StickyTarget(weights, h) = "secondary"} = above
  BY <1>1 DEF StickyTarget
<1>3. \A n \in 0..(Percent - 1) : ConnectionTarget(weights, n) = IF n < w THEN "primary" ELSE "secondary"
  BY <1>1, Sizes DEF ConnectionTarget
<1>4. /\ {n \in 0..(Percent - 1) : ConnectionTarget(weights, n) = "primary"} = below
      /\ {n \in 0..(Percent - 1) : ConnectionTarget(weights, n) = "secondary"} = above
  BY <1>3
<1>5. Cardinality(below) = weights["primary"] /\ Cardinality(above) = weights["secondary"]
  BY <1>1, Shares
<1> HIDE DEF below, above
<1> QED BY <1>2, <1>4, <1>5 DEF SplitFollowsWeights, Cluster

\* Every handler of a tick leaves the weights or writes a complementary pair.
LEMMA TickComplement ==
    ASSUME TypeOK, WeightsComplement, NEW r \in RebalancerType
    PROVE  \E w \in 0..Percent : TickWeights(r) = Weights(w)
<1> DEFINE Pair(ws) == \E w \in 0..Percent : ws = Weights(w)
<1>1. Pair(Weights(0)) /\ Pair(Weights(Percent)) /\ Pair(Weights(r.cfg.w))
  BY Sizes DEF RebalancerType, ConfigType
<1> HIDE DEF Pair
<1>2. Pair(handleDown(r, weights))
  <2>1. Pair(weights)
    BY DEF WeightsComplement, Pair
  <2> QED BY <1>1, <2>1 DEF handleDown
<1>3. \A ws : Pair(ws) => /\ Pair(handleSecondaryUp(r, ws)) /\ Pair(handlePrimaryUp(r, ws))
                          /\ Pair(checkPrimaryRecovery(r, ws))
  BY <1>1 DEF handleSecondaryUp, handlePrimaryUp, checkPrimaryRecovery
<1>4. Pair(TickWeights(r))
  BY <1>2, <1>3 DEF TickWeights
<1> QED BY <1>4 DEF Pair
-----------------------------------------------------------------------------
(***************************************************************************)
(* The invariant: initial states and health checks.                        *)
(***************************************************************************)
LEMMA InitLBInv == Init => LBInv
<1> SUFFICES ASSUME Init PROVE LBInv
  OBVIOUS
<1>1. config \in ConfigType /\ config.w \in 0..Percent
  BY ConfigsTyped DEF Init, ConfigType
<1>2. \A g \in Gens : /\ reb[g] \in RebalancerType /\ reb[g].prev = Unseen
                      /\ g # 1 => reb[g].loop = "none"
  BY <1>1, NewFields, NewRecords, Sizes DEF Init
<1>3. TypeOK
  <2>1. hs \in [Checkers -> [Cluster -> HealthType]]
        /\ \A k \in Checkers, c \in Cluster :
             hs[k][c].streak < IF hs[k][c].healthy THEN FailureThreshold ELSE RecoveryThreshold
    BY NewRecords, ThresholdsPositive DEF Init, NewChecker, NewHealthState
  <2>2. weights \in [Cluster -> 0..Percent]
    BY <1>1, WeightsType DEF Init
  <2>3. reb \in [Gens -> RebalancerType] /\ rl \in [Reloads -> ReloadType]
    BY <1>2, NewRecords DEF Init
  <2> QED BY <1>1, <2>1, <2>2, <2>3, Sizes DEF Init, TypeOK, Cluster
<1>4. GenerationsLeft
  <2>1. \A i \in Reloads : ~InFlight(i)
    BY DEF Init, InFlight, NoReload
  <2>2. \A pcs : Cardinality(LeftIn(pcs)) \in Nat /\ Cardinality(LeftIn(pcs)) <= Cardinality(DiffReloads)
    BY LeftFinite
  <2> QED BY <2>1, <2>2, Sizes DEF Init, GenerationsLeft
<1>5. WeightsComplement /\ SeenBoth
  BY <1>1, <1>2 DEF Init, WeightsComplement, SeenBoth
<1>6. reb[1] = IF config.auto THEN NewRebalancer(1, config) ELSE NoRebalancer
  BY Sizes DEF Init
<1>7. /\ reb[1].checker = 1 /\ reb[1].loop \in {"new", "none"}
      /\ lrb = 1 => reb[1].loop = "new"
      /\ reb[1].loop = "new" => reb[1].cfg = config
  BY <1>6, NewFields DEF Init
<1>8. FirstGeneration
  <2>1. /\ \A i \in Reloads : rl[i].pc = "none"
        /\ lrb \in {0, 1} /\ weights = Weights(config.w)
    BY DEF Init, NoReload
  <2>2. reb[1].prev = Unseen
    BY <1>2, Sizes
  <2> QED BY <1>2, <1>7, <2>1, <2>2 DEF FirstGeneration
<1>9. HealthyMeansConfigured
  BY <1>7 DEF HealthyMeansConfigured, Original, Alive
<1> QED BY <1>3, <1>4, <1>5, <1>8, <1>9 DEF LBInv

LEMMA RecordType ==
    ASSUME NEW h \in HealthType,
           h.streak < IF h.healthy THEN FailureThreshold ELSE RecoveryThreshold,
           NEW n \in checkEndpoint(h)
    PROVE  n \in HealthType /\ n.streak < IF n.healthy THEN FailureThreshold ELSE RecoveryThreshold
<1>1. NewHealthState \in HealthType /\ NewHealthState.healthy /\ NewHealthState.streak = 0
  BY NewRecords DEF NewHealthState
<1>2. CASE n = RecordSuccess(h)
  BY <1>1, <1>2, ThresholdsPositive DEF RecordSuccess, HealthType
<1>3. CASE n = RecordFailure(h)
  BY <1>3, ThresholdsPositive, Sizes DEF RecordFailure, HealthType
<1> QED BY <1>2, <1>3 DEF checkEndpoint

LEMMA OlderType ==
    ASSUME NEW h \in HealthType
    PROVE  Older(h) \in HealthType /\ Older(h).streak = h.streak /\ Older(h).healthy = h.healthy
BY Sizes DEF Older, HealthType

\* Steps that only touch the health states.
LEMMA HealthLBInv ==
    ASSUME LBInv, (\E c \in Cluster : runCluster(c)) \/ ClockTick
    PROVE  LBInv'
<1> USE DEF LBInv
<1>1. UNCHANGED <<config, hc, weights, reb, listener, rl, closing>>
  BY DEF runCluster, ClockTick
<1>2. /\ hs' \in [Checkers -> [Cluster -> HealthType]]
      /\ \A k \in Checkers, c \in Cluster :
           hs'[k][c].streak < IF hs'[k][c].healthy THEN FailureThreshold ELSE RecoveryThreshold
      /\ nextProbe' \in Cluster
  <2>1. CASE ClockTick
    <3>1. \A k \in Checkers, c \in Cluster : hs'[k][c] = Older(hs[k][c]) \/ hs'[k][c] = hs[k][c]
      BY <2>1 DEF ClockTick
    <3>2. hs' = [k \in Checkers |-> [c \in Cluster |-> hs'[k][c]]]
      BY <2>1 DEF ClockTick
    <3>3. \A k \in Checkers, c \in Cluster :
            /\ hs'[k][c] \in HealthType
            /\ hs'[k][c].streak < IF hs'[k][c].healthy THEN FailureThreshold ELSE RecoveryThreshold
      <4> TAKE k \in Checkers, c \in Cluster
      <4>1. /\ hs[k][c] \in HealthType
            /\ hs[k][c].streak < IF hs[k][c].healthy THEN FailureThreshold ELSE RecoveryThreshold
        BY DEF TypeOK
      <4> QED BY <3>1, <4>1, OlderType
    <3> QED BY <2>1, <3>2, <3>3 DEF ClockTick, TypeOK
  <2>2. ASSUME NEW c \in Cluster, runCluster(c)
        PROVE  /\ hs' \in [Checkers -> [Cluster -> HealthType]]
               /\ \A k \in Checkers, d \in Cluster :
                    hs'[k][d].streak < IF hs'[k][d].healthy THEN FailureThreshold ELSE RecoveryThreshold
               /\ nextProbe' \in Cluster
    <3>1. PICK n \in checkEndpoint(hs[hc][c]) : hs' = [hs EXCEPT ![hc][c] = n]
      BY <2>2 DEF runCluster
    <3>2. n \in HealthType /\ n.streak < IF n.healthy THEN FailureThreshold ELSE RecoveryThreshold
      BY RecordType DEF TypeOK
    <3>3. \A k \in Checkers, d \in Cluster : hs'[k][d] = n \/ hs'[k][d] = hs[k][d]
      BY <3>1 DEF TypeOK
    <3> QED BY <2>2, <3>1, <3>2, <3>3 DEF runCluster, TypeOK, Opposite, Cluster
  <2> QED BY <2>1, <2>2
<1>3. TypeOK'
  BY <1>1, <1>2 DEF TypeOK, listener
<1>4. GenerationsLeft' /\ WeightsComplement' /\ SeenBoth'
  BY <1>1 DEF GenerationsLeft, InFlight, LeftIn, WeightsComplement, SeenBoth, listener
<1>5. FirstGeneration' /\ HealthyMeansConfigured'
  BY <1>1 DEF FirstGeneration, HealthyMeansConfigured, Original, Alive, listener
<1> QED BY <1>3, <1>4, <1>5
-----------------------------------------------------------------------------
(***************************************************************************)
(* The invariant: a rebalancer's tick.                                     *)
(***************************************************************************)
LEMMA ViewType ==
    ASSUME NEW r
    PROVE  /\ View(r) \in [Cluster -> {"up", "down"}]
           /\ View(r) # Unseen
<1>1. View(r) \in [Cluster -> {"up", "down"}]
  BY DEF View
<1>2. "primary" \in Cluster
  BY DEF Cluster
<1> QED BY <1>1, <1>2 DEF Unseen

\* What a tick leaves in force once it sees both clusters up.
LEMMA TickBothUp ==
    ASSUME NEW r \in RebalancerType, \A c \in Cluster : r.prev[c] \in {"up", "down"},
           View(r) = [c \in Cluster |-> "up"],
           ~(RecoveringAfterUp(r) /\ ~UptimeMet(r)),
           r.prev = [c \in Cluster |-> "up"] /\ ~r.recovering => weights = Weights(r.cfg.w)
    PROVE  TickWeights(r) = Weights(r.cfg.w)
<1>1. "primary" \in Cluster /\ "secondary" \in Cluster /\ \A c \in Cluster : c \in {"primary", "secondary"}
  BY DEF Cluster
<1>2. View(r)["primary"] = "up" /\ View(r)["secondary"] = "up"
  BY <1>1
<1>3. handleDown(r, weights) = weights
  BY <1>2 DEF handleDown, WentDown
<1>4. CASE r.prev["secondary"] = "down"
  <2>1. handleSecondaryUp(r, weights) = Weights(r.cfg.w)
    BY <1>2, <1>4 DEF handleSecondaryUp, CameUp
  <2> QED BY <1>3, <2>1 DEF TickWeights, handlePrimaryUp, checkPrimaryRecovery
<1>5. CASE r.prev["primary"] = "down"
  <2>1. CameUp(r, "primary") /\ UptimeMet(r)
    BY <1>2, <1>5 DEF CameUp, RecoveringAfterUp
  <2> QED BY <2>1 DEF TickWeights, handlePrimaryUp, checkPrimaryRecovery
<1>6. CASE r.prev["primary"] = "up" /\ r.prev["secondary"] = "up"
  <2>1. ~CameUp(r, "primary") /\ ~CameUp(r, "secondary") /\ RecoveringAfterUp(r) = r.recovering
    BY <1>6 DEF CameUp, RecoveringAfterUp
  <2>2. r.prev = [c \in Cluster |-> "up"]
    BY <1>1, <1>6 DEF RebalancerType
  <2>3. CASE r.recovering
    BY <2>1, <2>3 DEF TickWeights, checkPrimaryRecovery
  <2>4. CASE ~r.recovering
    <3>1. weights = Weights(r.cfg.w)
      BY <2>2, <2>4
    <3> QED BY <1>3, <2>1, <2>4, <3>1 DEF TickWeights, handleSecondaryUp, handlePrimaryUp, checkPrimaryRecovery
  <2> QED BY <2>3, <2>4
<1> QED BY <1>1, <1>4, <1>5, <1>6

\* The rebalancer that a tick leaves behind.
LEMMA TickRecord ==
    ASSUME TypeOK, NEW g \in Gens, Tick(g)
    PROVE  /\ reb'[g] \in RebalancerType /\ reb' \in [Gens -> RebalancerType]
           /\ reb'[g].loop = "running" /\ reb'[g].stopped = reb[g].stopped
           /\ reb'[g].checker = reb[g].checker /\ reb'[g].cfg = reb[g].cfg
           /\ reb'[g].prev = IF reb[g].cfg.auto THEN View(reb[g]) ELSE reb[g].prev
           /\ reb'[g].recovering =
                IF reb[g].cfg.auto /\ reb[g].prev # Unseen
                THEN RecoveringAfterUp(reb[g]) /\ ~UptimeMet(reb[g]) ELSE reb[g].recovering
           /\ \A h \in Gens \ {g} : reb'[h] = reb[h]
<1> DEFINE r    == reb[g]
           prev == IF r.cfg.auto THEN View(r) ELSE r.prev
           rec  == IF r.cfg.auto /\ r.prev # Unseen
                   THEN RecoveringAfterUp(r) /\ ~UptimeMet(r) ELSE r.recovering
<1>1. r \in RebalancerType /\ reb \in [Gens -> RebalancerType]
  BY DEF TypeOK
<1>2. prev \in [Cluster -> {"up", "down", "unknown"}] /\ rec \in BOOLEAN
  <2>1. View(r) \in [Cluster -> {"up", "down", "unknown"}]
    BY ViewType
  <2> QED BY <1>1, <2>1 DEF RebalancerType
<1>3. reb' = [reb EXCEPT ![g] = [r EXCEPT !.loop = "running", !.prev = prev, !.recovering = rec]]
  <2>1. CASE r.cfg.auto
    BY <1>1, <2>1 DEF Tick, RebalancerType
  <2>2. CASE ~r.cfg.auto
    <3>1. [r EXCEPT !.loop = "running", !.prev = prev, !.recovering = rec] = [r EXCEPT !.loop = "running"]
      BY <1>1, <2>2 DEF RebalancerType
    <3> QED BY <2>2, <3>1 DEF Tick
  <2> QED BY <2>1, <2>2
<1> HIDE DEF prev, rec, r
<1>4. [r EXCEPT !.loop = "running", !.prev = prev, !.recovering = rec] \in RebalancerType
  BY <1>1, <1>2 DEF RebalancerType
<1>5. /\ reb'[g] = [r EXCEPT !.loop = "running", !.prev = prev, !.recovering = rec]
      /\ reb' \in [Gens -> RebalancerType] /\ \A h \in Gens \ {g} : reb'[h] = reb[h]
  BY <1>1, <1>3, <1>4
<1>6. /\ reb'[g].loop = "running" /\ reb'[g].stopped = r.stopped
      /\ reb'[g].checker = r.checker /\ reb'[g].cfg = r.cfg
      /\ reb'[g].prev = prev /\ reb'[g].recovering = rec
  BY <1>1, <1>5 DEF RebalancerType
<1> QED BY <1>4, <1>5, <1>6 DEF r, prev, rec

LEMMA TickLBInv ==
    ASSUME LBInv, NEW g \in Gens, Tick(g)
    PROVE  LBInv'
<1> USE DEF LBInv
<1>1. UNCHANGED <<config, health, listener, rl, closing>>
      /\ reb[g].loop \in {"starting", "running"}
  BY DEF Tick
<1>2. weights' = IF reb[g].prev = Unseen \/ ~reb[g].cfg.auto THEN weights ELSE TickWeights(reb[g])
  BY DEF Tick
<1>3. reb[g] \in RebalancerType
  BY DEF TypeOK
<1>4. WeightsComplement'
  BY <1>2, <1>3, TickComplement DEF WeightsComplement
<1>5. TypeOK'
  <2>1. weights' \in [Cluster -> 0..Percent]
    BY <1>4, WeightsType DEF WeightsComplement
  <2> QED BY <1>1, <2>1, TickRecord DEF TypeOK, health, listener
<1>6. GenerationsLeft'
  BY <1>1 DEF GenerationsLeft, InFlight, LeftIn, health, listener
<1>7. SeenBoth'
  <2>1. \A h \in Gens : reb'[h].prev = reb[h].prev \/ reb'[h].prev \in [Cluster -> {"up", "down"}]
    BY ViewType, TickRecord
  <2> QED BY <2>1 DEF SeenBoth
<1>8. CASE hc # 1
  BY <1>1, <1>4, <1>5, <1>6, <1>7, <1>8 DEF FirstGeneration, HealthyMeansConfigured, Original, health
<1>9. CASE hc = 1
  <2>1. g = 1
    BY <1>1, <1>9 DEF FirstGeneration
  <2>2. FirstGeneration'
    <3>1. reb'[1].prev = Unseen => /\ reb[1].prev = Unseen
                                   /\ weights' = weights /\ reb'[1].cfg = reb[1].cfg
      BY <1>2, <2>1, ViewType, TickRecord
    <3>2. lrb' = 1 /\ ~listening' => FALSE
      BY <1>1, <1>9, <2>1 DEF FirstGeneration, listener
    <3> QED BY <1>1, <1>9, <2>1, <3>1, <3>2, TickRecord DEF FirstGeneration, health, listener
  <2>3. HealthyMeansConfigured'
    <3> SUFFICES ASSUME reb'[1].prev = [c \in Cluster |-> "up"], ~reb'[1].recovering
                 PROVE  weights' = Weights(reb'[1].cfg.w)
      BY DEF HealthyMeansConfigured
    <3>1. reb'[1].cfg = reb[1].cfg
      BY <2>1, TickRecord
    <3>2. CASE ~reb[1].cfg.auto
      <4>1. weights' = weights /\ reb'[1].prev = reb[1].prev /\ reb'[1].recovering = reb[1].recovering
        BY <1>2, <2>1, <3>2, TickRecord
      <4> QED BY <1>1, <1>9, <2>1, <3>1, <4>1 DEF HealthyMeansConfigured, Original, Alive
    <3>3. CASE reb[1].prev = Unseen
      BY <1>1, <1>2, <1>9, <2>1, <3>1, <3>3 DEF FirstGeneration
    <3>4. CASE reb[1].cfg.auto /\ reb[1].prev # Unseen
      <4>1. /\ View(reb[1]) = [c \in Cluster |-> "up"]
            /\ ~(RecoveringAfterUp(reb[1]) /\ ~UptimeMet(reb[1]))
        BY <2>1, <3>4, TickRecord
      <4>2. \A c \in Cluster : reb[1].prev[c] \in {"up", "down"}
        BY <1>3, <2>1, <3>4 DEF SeenBoth, RebalancerType
      <4>3. reb[1].prev = [c \in Cluster |-> "up"] /\ ~reb[1].recovering => weights = Weights(reb[1].cfg.w)
        BY <1>1, <1>9, <2>1 DEF HealthyMeansConfigured, Original, Alive
      <4>4. TickWeights(reb[1]) = Weights(reb[1].cfg.w)
        BY <1>3, <2>1, <4>1, <4>2, <4>3, TickBothUp
      <4> QED BY <1>2, <2>1, <3>1, <3>4, <4>4
    <3> QED BY <3>2, <3>3, <3>4
  <2> QED BY <1>4, <1>5, <1>6, <1>7, <2>2, <2>3
<1> QED BY <1>8, <1>9
-----------------------------------------------------------------------------
(***************************************************************************)
(* The invariant: the listener, its reloads and its shutdown.              *)
(***************************************************************************)
LEMMA Room ==
    ASSUME TypeOK, GenerationsLeft, NEW i \in Reloads
    PROVE  /\ rl[i].pc = "checker" => hc + 1 \in Checkers
           /\ rl[i].pc \in {"attach", "attach_wait", "refresh"} => nreb + 1 \in Gens
<1>1. \A pcs : i \in LeftIn(pcs) => Cardinality(LeftIn(pcs)) >= 1
  BY LeftFinite, FS_EmptySet
<1>2. \A pcs : Cardinality(LeftIn(pcs)) \in Nat
  BY LeftFinite
<1>3. InFlight(i) => i \in DiffReloads
  BY DEF GenerationsLeft
<1>4. ASSUME rl[i].pc = "checker" PROVE hc + 1 \in Checkers
  <2>1. i \in LeftIn({"none", "checker"})
    BY <1>3, <1>4 DEF LeftIn, InFlight
  <2> QED BY <1>1, <1>2, <2>1, Sizes DEF GenerationsLeft, Checkers, TypeOK
<1>5. ASSUME rl[i].pc \in {"attach", "attach_wait", "refresh"} PROVE nreb + 1 \in Gens
  <2>1. i \in LeftIn({"none", "checker", "attach", "attach_wait", "refresh"})
    BY <1>3, <1>5 DEF LeftIn, InFlight
  <2> QED BY <1>1, <1>2, <2>1, Sizes DEF GenerationsLeft, Gens, TypeOK
<1> QED BY <1>4, <1>5

\* One reload moves on; it pays for what it creates.
LEMMA LeftStep ==
    ASSUME TypeOK, GenerationsLeft, NEW i \in Reloads, InFlight(i),
           \A j \in Reloads \ {i} : rl'[j] = rl[j],
           hc' \in Nat, nreb' \in Nat,
           \/ /\ rl[i].pc = "checker" /\ rl'[i].pc = "attach"
              /\ hc' = hc + 1 /\ nreb' = nreb
           \/ /\ rl[i].pc \in {"attach", "attach_wait"} /\ rl'[i].pc = "refresh"
              /\ hc' = hc /\ nreb' <= nreb + 1
           \/ /\ rl[i].pc = "refresh" /\ rl'[i].pc \in {"returned", "refresh_wait"}
              /\ hc' = hc /\ nreb' <= nreb + 1
           \/ /\ <<rl[i].pc, rl'[i].pc>> \in {<<"attach", "attach_wait">>, <<"refresh_wait", "returned">>}
              /\ hc' = hc /\ nreb' = nreb
    PROVE  GenerationsLeft'
<1> DEFINE A == {"none", "checker"}
           B == {"none", "checker", "attach", "attach_wait"}
           C == {"none", "checker", "attach", "attach_wait", "refresh"}
<1>1. i \in DiffReloads /\ \A j \in DiffReloads \ {i} : rl'[j].pc = rl[j].pc
  BY Sizes DEF GenerationsLeft
<1>2. \A pcs : Cardinality(LeftIn(pcs)) \in Nat
  BY LeftFinite
<1>3. \A pcs : (rl'[i].pc \in pcs => rl[i].pc \in pcs) =>
                 /\ Cardinality(LeftIn(pcs)') <= Cardinality(LeftIn(pcs))
                 /\ Cardinality(LeftIn(pcs)') \in Nat
  BY <1>1, LeftFewer
<1>4. \A pcs : rl[i].pc \in pcs /\ rl'[i].pc \notin pcs =>
                 /\ Cardinality(LeftIn(pcs)') = Cardinality(LeftIn(pcs)) - 1
                 /\ Cardinality(LeftIn(pcs)') \in Nat
  BY <1>1, LeftOne
<1>5. /\ hc + Cardinality(LeftIn(A)) <= Cardinality(DiffReloads) + 1
      /\ nreb + Cardinality(LeftIn(B)) + Cardinality(LeftIn(C)) <= 2 * Cardinality(DiffReloads) + 1
      /\ hc \in Nat /\ nreb \in Nat
  BY Sizes DEF GenerationsLeft, TypeOK, Checkers, Gens
<1>6. hc' + Cardinality(LeftIn(A)') <= Cardinality(DiffReloads) + 1
  <2>1. CASE rl[i].pc = "checker"
    <3>1. Cardinality(LeftIn(A)') = Cardinality(LeftIn(A)) - 1 /\ hc' = hc + 1
      BY <1>4, <2>1
    <3> QED BY <1>2, <1>5, <3>1, Sizes
  <2>2. CASE rl[i].pc # "checker"
    <3>1. Cardinality(LeftIn(A)') <= Cardinality(LeftIn(A)) /\ Cardinality(LeftIn(A)') \in Nat /\ hc' = hc
      BY <1>3, <2>2
    <3> QED BY <1>2, <1>5, <3>1, Sizes
  <2> QED BY <2>1, <2>2
<1>7. nreb' + Cardinality(LeftIn(B)') + Cardinality(LeftIn(C)') <= 2 * Cardinality(DiffReloads) + 1
  <2>1. /\ Cardinality(LeftIn(B)') <= Cardinality(LeftIn(B)) /\ Cardinality(LeftIn(B)') \in Nat
        /\ Cardinality(LeftIn(C)') <= Cardinality(LeftIn(C)) /\ Cardinality(LeftIn(C)') \in Nat
        /\ Cardinality(LeftIn(B)) \in Nat /\ Cardinality(LeftIn(C)) \in Nat
    BY <1>2, <1>3
  <2>2. \/ nreb' = nreb
        \/ nreb' <= nreb + 1 /\ Cardinality(LeftIn(B)') = Cardinality(LeftIn(B)) - 1
        \/ nreb' <= nreb + 1 /\ Cardinality(LeftIn(C)') = Cardinality(LeftIn(C)) - 1
    BY <1>4
  <2> HIDE DEF B, C
  <2> QED BY <1>5, <2>1, <2>2, Sizes
<1>8. \A j \in Reloads : InFlight(j)' => j \in DiffReloads
  BY <1>1 DEF GenerationsLeft, InFlight
<1> HIDE DEF A, B, C
<1> QED BY <1>6, <1>7, <1>8 DEF GenerationsLeft, A, B, C

\* Once a reload has replaced the checker nothing is claimed of the first one.
LEMMA LaterReload ==
    ASSUME LBInv, hc' # 1
    PROVE  FirstGeneration' /\ HealthyMeansConfigured'
BY DEF FirstGeneration, HealthyMeansConfigured, Original

LEMMA LoopExitLBInv ==
    ASSUME LBInv, NEW g \in Gens, LoopExit(g)
    PROVE  LBInv'
<1> USE DEF LBInv
<1> DEFINE n == [NoRebalancer EXCEPT !.loop = "done", !.stopped = TRUE]
<1>1. UNCHANGED <<config, health, weights, listener, rl, closing>> /\ reb[g].loop = "running"
      /\ reb' = [reb EXCEPT ![g] = n]
  BY DEF LoopExit
<1>2. n \in RebalancerType /\ n.loop = "done" /\ n.prev = Unseen /\ n.checker = 1
  BY NewRecords DEF RebalancerType, NoRebalancer
<1> HIDE DEF n
<1>3. /\ reb' \in [Gens -> RebalancerType] /\ reb'[g] = n
      /\ \A h \in Gens \ {g} : reb'[h] = reb[h]
  BY <1>1, <1>2 DEF TypeOK
<1>4. TypeOK'
  BY <1>1, <1>3 DEF TypeOK, health, listener
<1>5. GenerationsLeft' /\ WeightsComplement'
  BY <1>1 DEF GenerationsLeft, InFlight, LeftIn, WeightsComplement, health, listener
<1>6. SeenBoth'
  BY <1>2, <1>3 DEF SeenBoth
<1>7. CASE hc # 1
  BY <1>1, <1>4, <1>5, <1>6, <1>7, LaterReload DEF health
<1>8. CASE hc = 1
  <2>1. g = 1
    BY <1>1, <1>8 DEF FirstGeneration
  <2>2. FirstGeneration'
    BY <1>1, <1>2, <1>3, <1>8, <2>1 DEF FirstGeneration, health, listener
  <2>3. HealthyMeansConfigured'
    BY <1>2, <1>3, <2>1 DEF HealthyMeansConfigured, Original, Alive
  <2> QED BY <1>4, <1>5, <1>6, <2>2, <2>3
<1> QED BY <1>7, <1>8
\* Closing the stop channel, as Stop does.
LEMMA StopChannel ==
    ASSUME TypeOK, NEW g \in Gens
    PROVE  /\ CloseStop(g) \in [Gens -> RebalancerType]
           /\ CloseStop(g)[g].stopped
           /\ \A h \in Gens : /\ CloseStop(g)[h].loop = reb[h].loop
                              /\ CloseStop(g)[h].prev = reb[h].prev
                              /\ CloseStop(g)[h].cfg = reb[h].cfg
                              /\ CloseStop(g)[h].checker = reb[h].checker
                              /\ CloseStop(g)[h].recovering = reb[h].recovering
                              /\ reb[h].stopped => CloseStop(g)[h].stopped
<1>1. reb \in [Gens -> RebalancerType] /\ reb[g] \in RebalancerType
  BY DEF TypeOK
<1>2. /\ [reb[g] EXCEPT !.stopped = TRUE] \in RebalancerType
      /\ [reb[g] EXCEPT !.stopped = TRUE].stopped
      /\ [reb[g] EXCEPT !.stopped = TRUE].loop = reb[g].loop
      /\ [reb[g] EXCEPT !.stopped = TRUE].prev = reb[g].prev
      /\ [reb[g] EXCEPT !.stopped = TRUE].cfg = reb[g].cfg
      /\ [reb[g] EXCEPT !.stopped = TRUE].checker = reb[g].checker
      /\ [reb[g] EXCEPT !.stopped = TRUE].recovering = reb[g].recovering
  BY <1>1 DEF RebalancerType
<1>3. CloseStop(g) = [reb EXCEPT ![g] = [reb[g] EXCEPT !.stopped = TRUE]]
  BY <1>1 DEF CloseStop
<1> QED BY <1>1, <1>2, <1>3

\* Shutdown, and any step that at most closes a stop channel and leaves the
\* checkers, the weights and the listener's fields alone.
LEMMA FlagsLBInv ==
    ASSUME LBInv, TypeOK', GenerationsLeft',
           UNCHANGED <<hc, weights, lrb, listening>>,
           \A i \in Reloads : rl'[i].pc = rl[i].pc \/ hc # 1
                              \/ rl'[i].pc \in {"none", "checker", "returned"},
           \A g \in Gens : /\ reb'[g].loop = reb[g].loop /\ reb'[g].prev = reb[g].prev
                           /\ reb'[g].cfg = reb[g].cfg /\ reb'[g].checker = reb[g].checker
                           /\ reb'[g].recovering = reb[g].recovering
    PROVE  LBInv'
<1> USE DEF LBInv
<1>1. WeightsComplement' /\ SeenBoth'
  BY DEF WeightsComplement, SeenBoth
<1>2. FirstGeneration'
  BY Sizes DEF FirstGeneration
<1>3. HealthyMeansConfigured'
  BY Sizes DEF HealthyMeansConfigured, Original, Alive
<1> QED BY <1>1, <1>2, <1>3

LEMMA CloseLBInv ==
    ASSUME LBInv, Close \/ CloseReturns
    PROVE  LBInv'
<1> USE DEF LBInv
<1>1. UNCHANGED <<config, health, weights, listener, rl>>
  BY DEF Close, CloseReturns
<1>2. /\ reb' \in [Gens -> RebalancerType]
      /\ \A g \in Gens : /\ reb'[g].loop = reb[g].loop /\ reb'[g].prev = reb[g].prev
                         /\ reb'[g].cfg = reb[g].cfg /\ reb'[g].checker = reb[g].checker
                         /\ reb'[g].recovering = reb[g].recovering
  <2>1. CASE reb' = reb
    BY <2>1 DEF TypeOK
  <2>2. CASE reb' = CloseStop(lrb) /\ lrb \in Gens
    BY <2>2, StopChannel
  <2> QED BY <2>1, <2>2 DEF Close, CloseReturns, StopNeeded, TypeOK
<1>3. closing' \in [pc : {"no", "wait", "done"}, wait : {0} \cup Gens]
  BY DEF Close, CloseReturns, TypeOK
<1>4. TypeOK'
  BY <1>1, <1>2, <1>3 DEF TypeOK, health, listener
<1>5. GenerationsLeft'
  BY <1>1 DEF GenerationsLeft, InFlight, LeftIn, health, listener
<1> QED BY <1>1, <1>2, <1>4, <1>5, FlagsLBInv DEF health, listener

LEMMA ListenerStartLBInv ==
    ASSUME LBInv, ListenerStart
    PROVE  LBInv'
<1> USE DEF LBInv
<1>1. /\ UNCHANGED <<config, health, weights, lhc, nreb, lrb, rl, closing>>
      /\ ~listening /\ listening' = TRUE
  BY DEF ListenerStart
<1>2. /\ reb' \in [Gens -> RebalancerType]
      /\ \A g \in Gens : /\ reb'[g].loop = IF g = lrb THEN "starting" ELSE reb[g].loop
                         /\ reb'[g].prev = reb[g].prev
                         /\ reb'[g].cfg = reb[g].cfg /\ reb'[g].checker = reb[g].checker
                         /\ reb'[g].recovering = reb[g].recovering
  <2>1. CASE lrb = 0
    BY <2>1 DEF ListenerStart, TypeOK, Gens
  <2>2. CASE lrb # 0
    <3>1. lrb \in Gens /\ reb \in [Gens -> RebalancerType] /\ reb[lrb] \in RebalancerType
      BY <2>2 DEF TypeOK
    <3>2. reb' = [reb EXCEPT ![lrb] = [reb[lrb] EXCEPT !.loop = "starting"]]
      BY <2>2, <3>1 DEF ListenerStart
    <3>3. /\ [reb[lrb] EXCEPT !.loop = "starting"] \in RebalancerType
          /\ [reb[lrb] EXCEPT !.loop = "starting"].loop = "starting"
          /\ [reb[lrb] EXCEPT !.loop = "starting"].prev = reb[lrb].prev
          /\ [reb[lrb] EXCEPT !.loop = "starting"].cfg = reb[lrb].cfg
          /\ [reb[lrb] EXCEPT !.loop = "starting"].checker = reb[lrb].checker
          /\ [reb[lrb] EXCEPT !.loop = "starting"].recovering = reb[lrb].recovering
      BY <3>1 DEF RebalancerType
    <3> QED BY <3>1, <3>2, <3>3
  <2> QED BY <2>1, <2>2
<1>3. TypeOK'
  BY <1>1, <1>2 DEF TypeOK, health
<1>4. GenerationsLeft' /\ WeightsComplement'
  BY <1>1 DEF GenerationsLeft, InFlight, LeftIn, WeightsComplement, health
<1>5. SeenBoth'
  BY <1>2 DEF SeenBoth
<1>6. CASE hc # 1
  BY <1>1, <1>3, <1>4, <1>5, <1>6, LaterReload DEF health
<1>7. CASE hc = 1
  <2>1. lrb \in {0, 1} /\ hc' = 1 /\ lrb' = lrb /\ rl' = rl /\ weights' = weights
    BY <1>1, <1>7 DEF FirstGeneration, health
  <2>2. lrb = 1 => reb[1].loop = "new" /\ reb[1].prev = Unseen
    BY <1>1, <1>7 DEF FirstGeneration
  <2>3. /\ reb'[1].prev = reb[1].prev /\ reb'[1].cfg = reb[1].cfg /\ reb'[1].checker = reb[1].checker
        /\ reb'[1].recovering = reb[1].recovering
        /\ lrb = 1 \/ reb'[1].loop = reb[1].loop
        /\ \A g \in Gens \ {1} : reb'[g].loop = reb[g].loop
    <3>1. 1 \in Gens /\ 0 \notin Gens
      BY Sizes DEF Gens
    <3>2. /\ reb'[1].prev = reb[1].prev /\ reb'[1].cfg = reb[1].cfg /\ reb'[1].checker = reb[1].checker
          /\ reb'[1].recovering = reb[1].recovering
      BY <1>2, <3>1
    <3>3. \A g \in Gens : g # lrb => reb'[g].loop = reb[g].loop
      BY <1>2
    <3> QED BY <2>1, <3>1, <3>2, <3>3
  <2>4. FirstGeneration'
    <3>1. reb'[1].loop \in {"new", "starting", "running"} /\ reb'[1].prev = Unseen
             => weights' = Weights(reb'[1].cfg.w)
      BY <1>7, <2>1, <2>2, <2>3 DEF FirstGeneration
    <3> QED BY <1>1, <1>7, <2>1, <2>3, <3>1 DEF FirstGeneration
  <2>5. HealthyMeansConfigured'
    \* a rebalancer that starts now has not seen anything yet
    <3>1. CASE lrb = 1
      <4>1. "primary" \in Cluster /\ Unseen["primary"] = "unknown"
        BY DEF Cluster, Unseen
      <4>2. reb'[1].prev # [c \in Cluster |-> "up"]
        BY <2>2, <2>3, <3>1, <4>1
      <4> QED BY <4>2 DEF HealthyMeansConfigured
    <3>2. CASE lrb # 1
      BY <1>7, <2>1, <2>3, <3>2 DEF HealthyMeansConfigured, Original, Alive
    <3> QED BY <3>1, <3>2
  <2> QED BY <1>3, <1>4, <1>5, <2>4, <2>5
<1> QED BY <1>6, <1>7

LEMMA ReloadLBInv ==
    ASSUME LBInv, NEW i \in Reloads, NEW c \in Configs, NEW diff \in BOOLEAN, Reload(i, c, diff)
    PROVE  LBInv'
<1> USE DEF LBInv
<1>1. /\ UNCHANGED <<health, weights, reb, listener, closing>> /\ config' = c
      /\ rl[i].pc = "none" /\ (diff => i \in DiffReloads)
  BY DEF Reload, DiffClusters
<1>2. c \in ConfigType
  BY ConfigsTyped
<1>3. rl \in [Reloads -> ReloadType] /\ rl[i] \in ReloadType
  BY DEF TypeOK
<1>4. PICK n \in ReloadType : /\ rl' = [rl EXCEPT ![i] = n]
                              /\ n.pc = IF diff THEN "checker" ELSE "returned"
  <2> DEFINE pc  == IF diff THEN "checker" ELSE "returned"
             cfg == IF diff THEN c ELSE rl[i].cfg
  <2>1. pc \in ReloadPCs /\ cfg \in ConfigType
    BY <1>2, <1>3 DEF ReloadPCs, ReloadType
  <2>2. rl' = [rl EXCEPT ![i] = [rl[i] EXCEPT !.pc = pc, !.cfg = cfg]]
    BY <1>3 DEF Reload
  <2> HIDE DEF pc, cfg
  <2>3. /\ [rl[i] EXCEPT !.pc = pc, !.cfg = cfg] \in ReloadType
        /\ [rl[i] EXCEPT !.pc = pc, !.cfg = cfg].pc = pc
    BY <1>3, <2>1 DEF ReloadType
  <2> QED BY <2>2, <2>3 DEF pc
<1>5. rl' \in [Reloads -> ReloadType] /\ rl'[i] = n /\ \A j \in Reloads \ {i} : rl'[j] = rl[j]
  BY <1>3, <1>4
<1>6. TypeOK'
  BY <1>1, <1>2, <1>5 DEF TypeOK, health, listener
<1>7. GenerationsLeft'
  <2>1. \A j \in Reloads : InFlight(j)' => j \in DiffReloads
    BY <1>1, <1>4, <1>5 DEF GenerationsLeft, InFlight
  <2>2. \A pcs : "none" \in pcs => Cardinality(LeftIn(pcs)') <= Cardinality(LeftIn(pcs))
                                   /\ Cardinality(LeftIn(pcs)') \in Nat /\ Cardinality(LeftIn(pcs)) \in Nat
    <3> TAKE pcs
    <3> HAVE "none" \in pcs
    <3>1. \A j \in DiffReloads : rl'[j].pc \in pcs => rl[j].pc \in pcs
      BY <1>1, <1>5, Sizes
    <3> QED BY <3>1, LeftFewer, LeftFinite
  <2>3. hc' = hc /\ nreb' = nreb /\ hc \in Nat /\ nreb \in Nat
    BY <1>1, Sizes DEF health, listener, TypeOK, Checkers, Gens
  <2> QED BY <2>1, <2>2, <2>3, Sizes DEF GenerationsLeft
<1>8. \A j \in Reloads : rl'[j].pc = rl[j].pc \/ hc # 1 \/ rl'[j].pc \in {"none", "checker", "returned"}
  BY <1>4, <1>5
<1> QED BY <1>1, <1>6, <1>7, <1>8, FlagsLBInv DEF health, listener
LEMMA ReplaceCheckerLBInv ==
    ASSUME LBInv, NEW i \in Reloads, ReplaceChecker(i)
    PROVE  LBInv'
<1> USE DEF LBInv
<1>1. /\ UNCHANGED <<config, weights, reb, listener, closing>> /\ hc' = hc + 1
      /\ rl[i].pc = "checker" /\ nextProbe' = "primary"
  BY DEF ReplaceChecker
<1>2. rl \in [Reloads -> ReloadType] /\ rl[i] \in ReloadType /\ InFlight(i)
  BY <1>1 DEF TypeOK, InFlight
<1>3. /\ rl' = [rl EXCEPT ![i] = [rl[i] EXCEPT !.pc = "attach"]]
      /\ [rl[i] EXCEPT !.pc = "attach"] \in ReloadType
      /\ [rl[i] EXCEPT !.pc = "attach"].pc = "attach"
  BY <1>2 DEF ReplaceChecker, ReloadType, ReloadPCs
<1>4. /\ rl' \in [Reloads -> ReloadType] /\ rl'[i].pc = "attach"
      /\ \A j \in Reloads \ {i} : rl'[j] = rl[j]
  BY <1>2, <1>3
<1>5. hc' \in Checkers /\ hc' # 1
  BY <1>1, Room DEF TypeOK, Checkers
<1>6. /\ hs' \in [Checkers -> [Cluster -> HealthType]]
      /\ \A k \in Checkers, c \in Cluster :
           hs'[k][c].streak < IF hs'[k][c].healthy THEN FailureThreshold ELSE RecoveryThreshold
  <2>1. NewChecker \in [Cluster -> HealthType] /\ \A c \in Cluster : NewChecker[c] = NewHealthState
    BY NewRecords DEF NewChecker
  <2>2. NewHealthState.streak = 0
    BY DEF NewHealthState
  <2>3. \A k \in Checkers : hs'[k] = hs[k] \/ hs'[k] = NewChecker
    BY DEF ReplaceChecker
  <2>4. hs' = [k \in Checkers |-> hs'[k]]
    BY DEF ReplaceChecker
  <2>5. hs' \in [Checkers -> [Cluster -> HealthType]]
    BY <2>1, <2>3, <2>4 DEF TypeOK
  <2>6. ASSUME NEW k \in Checkers, NEW c \in Cluster
        PROVE  hs'[k][c].streak < IF hs'[k][c].healthy THEN FailureThreshold ELSE RecoveryThreshold
    <3>1. CASE hs'[k] = hs[k]
      BY <3>1 DEF TypeOK
    <3>2. CASE hs'[k] = NewChecker
      <4>1. hs'[k][c].streak = 0
        BY <2>1, <2>2, <3>2
      <4> QED BY <4>1, ThresholdsPositive
    <3> QED BY <2>3, <3>1, <3>2
  <2> QED BY <2>5, <2>6
<1>7. TypeOK'
  BY <1>1, <1>4, <1>5, <1>6 DEF TypeOK, listener, Cluster
<1>8. GenerationsLeft'
  <2>1. hc' \in Nat /\ nreb' = nreb /\ nreb' \in Nat
    BY <1>1, <1>5, Sizes DEF listener, TypeOK, Checkers, Gens
  <2> QED BY <1>1, <1>2, <1>4, <2>1, LeftStep
<1>9. WeightsComplement' /\ SeenBoth'
  BY <1>1 DEF WeightsComplement, SeenBoth
<1> QED BY <1>5, <1>7, <1>8, <1>9, LaterReload

\* What a new rebalancer changes when the listener installs it.
LEMMA Installed ==
    ASSUME TypeOK, nreb + 1 \in Gens, NEW r \in RebalancerType, Install(reb, nreb + 1, r)
    PROVE  /\ reb' \in [Gens -> RebalancerType] /\ nreb' = nreb + 1 /\ lrb' = nreb + 1
           /\ reb'[nreb + 1] = r /\ \A h \in Gens \ {nreb + 1} : reb'[h] = reb[h]
BY DEF Install, TypeOK

\* The outcomes of SetHealthChecker.
LEMMA AttachEffect ==
    ASSUME TypeOK, GenerationsLeft, NEW i \in Reloads, SetHealthChecker(i)
    PROVE  /\ rl[i].pc = "attach" /\ UNCHANGED <<config, health, weights, listening, closing>>
           /\ lhc' = hc
           /\ rl' \in [Reloads -> ReloadType] /\ \A j \in Reloads \ {i} : rl'[j] = rl[j]
           /\ \/ rl'[i].pc = "refresh" /\ UNCHANGED <<reb, nreb, lrb>>
              \/ /\ rl'[i].pc = "attach_wait" /\ rl'[i].wait = lrb /\ lrb \in Gens
                 /\ reb' = CloseStop(lrb) /\ UNCHANGED <<nreb, lrb>>
              \/ /\ rl'[i].pc = "refresh" /\ ~StopNeeded(lrb) /\ nreb + 1 \in Gens
                 /\ Install(reb, nreb + 1, NewRebalancer(hc, config))
                 /\ NewRebalancer(hc, config) \in RebalancerType
<1>1. /\ rl[i].pc = "attach" /\ UNCHANGED <<config, health, weights, listening, closing>>
      /\ lhc' = hc
  BY DEF SetHealthChecker
<1>2. rl \in [Reloads -> ReloadType] /\ rl[i] \in ReloadType /\ nreb + 1 \in Gens
  BY <1>1, Room DEF TypeOK
<1>3. /\ [rl[i] EXCEPT !.pc = "refresh"] \in ReloadType
      /\ [rl[i] EXCEPT !.pc = "refresh"].pc = "refresh"
  BY <1>2 DEF ReloadType, ReloadPCs
<1>4. CASE ~config.auto
  <2>1. rl' = [rl EXCEPT ![i] = [rl[i] EXCEPT !.pc = "refresh"]] /\ UNCHANGED <<reb, nreb, lrb>>
    BY <1>2, <1>4 DEF SetHealthChecker
  <2> QED BY <1>1, <1>2, <1>3, <2>1
<1>5. CASE config.auto /\ StopNeeded(lrb)
  <2> DEFINE n == [rl[i] EXCEPT !.pc = "attach_wait", !.wait = lrb, !.checker = hc, !.seen = config]
  <2>1. rl' = [rl EXCEPT ![i] = n] /\ reb' = CloseStop(lrb) /\ UNCHANGED <<nreb, lrb>>
    BY <1>2, <1>5 DEF SetHealthChecker
  <2>2. lrb \in Gens /\ hc \in Checkers /\ config \in ConfigType
    BY <1>5 DEF StopNeeded, TypeOK
  <2>3. n \in ReloadType /\ n.pc = "attach_wait" /\ n.wait = lrb
    BY <1>2, <2>2 DEF ReloadType, ReloadPCs
  <2> HIDE DEF n
  <2> QED BY <1>1, <1>2, <2>1, <2>2, <2>3
<1>6. CASE config.auto /\ ~StopNeeded(lrb)
  <2>1. /\ rl' = [rl EXCEPT ![i] = [rl[i] EXCEPT !.pc = "refresh"]]
        /\ Install(reb, nreb + 1, NewRebalancer(hc, config))
    BY <1>2, <1>6 DEF SetHealthChecker
  <2>2. NewRebalancer(hc, config) \in RebalancerType
    BY NewRecords DEF TypeOK
  <2> QED BY <1>1, <1>2, <1>3, <1>6, <2>1, <2>2
<1> QED BY <1>4, <1>5, <1>6

LEMMA AttachNewEffect ==
    ASSUME TypeOK, GenerationsLeft, NEW i \in Reloads, AttachNew(i)
    PROVE  /\ rl[i].pc = "attach_wait" /\ LoopDone(rl[i].wait)
           /\ UNCHANGED <<config, health, weights, lhc, listening, closing>>
           /\ rl' \in [Reloads -> ReloadType] /\ \A j \in Reloads \ {i} : rl'[j] = rl[j]
           /\ rl'[i].pc = "refresh" /\ nreb + 1 \in Gens
           /\ Install(reb, nreb + 1, NewRebalancer(rl[i].checker, rl[i].seen))
           /\ NewRebalancer(rl[i].checker, rl[i].seen) \in RebalancerType
<1>1. /\ rl[i].pc = "attach_wait" /\ LoopDone(rl[i].wait)
      /\ UNCHANGED <<config, health, weights, lhc, listening, closing>>
      /\ Install(reb, nreb + 1, NewRebalancer(rl[i].checker, rl[i].seen))
  BY DEF AttachNew
<1>2. rl \in [Reloads -> ReloadType] /\ rl[i] \in ReloadType /\ nreb + 1 \in Gens
  BY <1>1, Room DEF TypeOK
<1>3. NewRebalancer(rl[i].checker, rl[i].seen) \in RebalancerType
  BY <1>2, NewRecords DEF ReloadType
<1> DEFINE n == [NoReload EXCEPT !.pc = "refresh", !.cfg = rl[i].cfg]
<1>4. n \in ReloadType /\ n.pc = "refresh"
  BY <1>2, NewRecords DEF ReloadType, ReloadPCs
<1>5. rl' = [rl EXCEPT ![i] = n]
  BY DEF AttachNew
<1> HIDE DEF n
<1> QED BY <1>1, <1>2, <1>3, <1>4, <1>5

\* A rebalancer that is told a new configuration, and perhaps to stop.
LEMMA Retuned ==
    ASSUME TypeOK, NEW g \in Gens, NEW c \in ConfigType, NEW b \in BOOLEAN,
           reb' = [reb EXCEPT ![g] = [reb[g] EXCEPT !.cfg = c, !.stopped = b]],
           reb[g].stopped => b
    PROVE  /\ reb' \in [Gens -> RebalancerType] /\ reb'[g].stopped = b
           /\ \A h \in Gens : /\ reb'[h].loop = reb[h].loop /\ reb'[h].prev = reb[h].prev
                              /\ reb[h].stopped => reb'[h].stopped
<1>1. reb \in [Gens -> RebalancerType] /\ reb[g] \in RebalancerType
  BY DEF TypeOK
<1> DEFINE n == [reb[g] EXCEPT !.cfg = c, !.stopped = b]
<1>2. n \in RebalancerType /\ n.stopped = b /\ n.loop = reb[g].loop /\ n.prev = reb[g].prev
  BY <1>1 DEF RebalancerType
<1>3. reb' = [reb EXCEPT ![g] = n]
  OBVIOUS
<1> HIDE DEF n
<1> QED BY <1>1, <1>2, <1>3

\* The outcomes of RefreshClusters.
LEMMA RefreshEffect ==
    ASSUME TypeOK, GenerationsLeft, NEW i \in Reloads, RefreshClusters(i)
    PROVE  /\ rl[i].pc = "refresh" /\ UNCHANGED <<config, health, weights, lhc, listening, closing>>
           /\ rl' \in [Reloads -> ReloadType] /\ \A j \in Reloads \ {i} : rl'[j] = rl[j]
           /\ reb' \in [Gens -> RebalancerType]
           /\ \/ /\ rl'[i].pc = "returned" /\ lrb = 0 /\ nreb' \in Gens /\ nreb' = nreb + 1 /\ lrb' = nreb'
                 /\ reb'[nreb'].prev = Unseen /\ \A h \in Gens \ {nreb'} : reb'[h] = reb[h]
              \/ /\ nreb' = nreb
                 /\ \A h \in Gens : /\ reb'[h].loop = reb[h].loop /\ reb'[h].prev = reb[h].prev
                                    /\ reb[h].stopped => reb'[h].stopped
                 /\ \/ rl'[i].pc = "refresh_wait" /\ rl'[i].wait = lrb /\ lrb \in Gens
                       /\ lrb' = lrb /\ reb'[lrb].stopped
                    \/ rl'[i].pc = "returned" /\ lrb \in Gens /\ reb[lrb].stopped /\ lrb' = 0
                    \/ rl'[i].pc = "returned" /\ lrb' = lrb
<1> DEFINE c       == rl[i].cfg
           updated == IF lrb = 0 THEN reb ELSE [reb EXCEPT ![lrb].cfg = c]
<1>1. rl[i].pc = "refresh" /\ UNCHANGED <<config, health, weights, lhc, listening, closing>>
  BY DEF RefreshClusters
<1>2. rl \in [Reloads -> ReloadType] /\ rl[i] \in ReloadType /\ nreb + 1 \in Gens
  BY <1>1, Room DEF TypeOK
<1>3. c \in ConfigType /\ lhc \in Checkers /\ lrb \in {0} \cup Gens /\ reb \in [Gens -> RebalancerType]
  BY <1>2 DEF TypeOK, ReloadType
<1>4. Returned(rl[i]) \in ReloadType /\ Returned(rl[i]).pc = "returned"
  BY NewRecords DEF Returned, ReloadType, ReloadPCs
<1>5. ASSUME rl' = [rl EXCEPT ![i] = Returned(rl[i])]
      PROVE  /\ rl' \in [Reloads -> ReloadType] /\ rl'[i].pc = "returned"
             /\ \A j \in Reloads \ {i} : rl'[j] = rl[j]
  BY <1>2, <1>4, <1>5
<1>6. ASSUME reb' = updated
      PROVE  /\ reb' \in [Gens -> RebalancerType]
             /\ \A h \in Gens : /\ reb'[h].loop = reb[h].loop /\ reb'[h].prev = reb[h].prev
                                /\ reb[h].stopped => reb'[h].stopped
  <2>1. CASE lrb = 0
    BY <1>3, <1>6, <2>1
  <2>2. CASE lrb # 0
    <3>1. lrb \in Gens /\ reb[lrb] \in RebalancerType /\ reb[lrb].stopped \in BOOLEAN
      BY <1>3, <2>2 DEF RebalancerType
    <3>2. [reb[lrb] EXCEPT !.cfg = c] = [reb[lrb] EXCEPT !.cfg = c, !.stopped = reb[lrb].stopped]
      BY <3>1 DEF RebalancerType
    <3>3. reb' = [reb EXCEPT ![lrb] = [reb[lrb] EXCEPT !.cfg = c]]
      BY <1>6, <2>2
    <3>4. reb' = [reb EXCEPT ![lrb] = [reb[lrb] EXCEPT !.cfg = c, !.stopped = reb[lrb].stopped]]
      BY <3>2, <3>3
    <3> QED BY <1>3, <3>1, <3>4, Retuned
  <2> QED BY <2>1, <2>2
<1>7. CASE c.auto /\ lrb = 0
  <2> DEFINE l == IF listening THEN "starting" ELSE "new"
             r == [NewRebalancer(lhc, c) EXCEPT !.loop = l]
  <2>1. NewRebalancer(lhc, c) \in RebalancerType /\ NewRebalancer(lhc, c).prev = Unseen
    BY <1>3, NewRecords, NewFields
  <2>2. r \in RebalancerType /\ r.prev = Unseen
    BY <2>1 DEF RebalancerType
  <2>3. Install(reb, nreb + 1, r) /\ rl' = [rl EXCEPT ![i] = Returned(rl[i])]
    BY <1>7 DEF RefreshClusters, StopNeeded
  <2> HIDE DEF r
  <2>4. /\ reb' \in [Gens -> RebalancerType] /\ nreb' = nreb + 1 /\ lrb' = nreb + 1
        /\ reb'[nreb + 1] = r /\ \A h \in Gens \ {nreb + 1} : reb'[h] = reb[h]
    BY <1>2, <2>2, <2>3, Installed
  <2> QED BY <1>1, <1>2, <1>5, <1>7, <2>2, <2>3, <2>4
<1>8. CASE ~c.auto /\ StopNeeded(lrb)
  <2>1. lrb \in Gens /\ lrb # 0 /\ reb[lrb] \in RebalancerType
    BY <1>3, <1>8 DEF StopNeeded
  <2>2. /\ reb' = [updated EXCEPT ![lrb].stopped = TRUE]
        /\ rl' = [rl EXCEPT ![i].pc = "refresh_wait", ![i].wait = lrb]
        /\ UNCHANGED <<nreb, lrb>>
    BY <1>8, <2>1 DEF RefreshClusters
  <2>3. updated = [reb EXCEPT ![lrb] = [reb[lrb] EXCEPT !.cfg = c]]
    BY <2>1
  <2> HIDE DEF updated
  <2>4. updated[lrb] = [reb[lrb] EXCEPT !.cfg = c]
    BY <1>3, <2>1, <2>3
  <2>5. reb' = [reb EXCEPT ![lrb] = [updated[lrb] EXCEPT !.stopped = TRUE]]
    BY <1>3, <2>1, <2>2, <2>3
  <2>6. [updated[lrb] EXCEPT !.stopped = TRUE] = [reb[lrb] EXCEPT !.cfg = c, !.stopped = TRUE]
    BY <2>1, <2>4 DEF RebalancerType
  <2>7. reb' = [reb EXCEPT ![lrb] = [reb[lrb] EXCEPT !.cfg = c, !.stopped = TRUE]]
    BY <2>5, <2>6
  <2>8. /\ reb' \in [Gens -> RebalancerType] /\ reb'[lrb].stopped
        /\ \A h \in Gens : /\ reb'[h].loop = reb[h].loop /\ reb'[h].prev = reb[h].prev
                           /\ reb[h].stopped => reb'[h].stopped
    BY <1>3, <2>1, <2>7, Retuned
  <2> DEFINE n == [rl[i] EXCEPT !.pc = "refresh_wait", !.wait = lrb]
  <2>9. rl' = [rl EXCEPT ![i] = n]
    BY <1>2, <2>2
  <2>10. n \in ReloadType /\ n.pc = "refresh_wait" /\ n.wait = lrb
    BY <1>2, <2>1 DEF ReloadType, ReloadPCs
  <2> HIDE DEF n
  <2>11. /\ rl' \in [Reloads -> ReloadType] /\ rl'[i] = n
         /\ \A j \in Reloads \ {i} : rl'[j] = rl[j]
    BY <1>2, <2>9, <2>10
  <2> QED BY <1>1, <2>1, <2>2, <2>8, <2>10, <2>11
<1>9. CASE ~c.auto /\ lrb # 0 /\ ~StopNeeded(lrb)
  <2>1. /\ reb' = updated /\ lrb' = 0 /\ nreb' = nreb /\ rl' = [rl EXCEPT ![i] = Returned(rl[i])]
        /\ lrb \in Gens /\ reb[lrb].stopped
    BY <1>3, <1>9 DEF RefreshClusters, StopNeeded
  <2> HIDE DEF updated
  <2> QED BY <1>1, <1>5, <1>6, <2>1
<1>10. CASE c.auto <=> lrb # 0
  <2>1. /\ reb' = updated /\ lrb' = lrb /\ nreb' = nreb /\ rl' = [rl EXCEPT ![i] = Returned(rl[i])]
    BY <1>10 DEF RefreshClusters, StopNeeded
  <2> HIDE DEF updated
  <2> QED BY <1>1, <1>5, <1>6, <2>1
<1> QED BY <1>7, <1>8, <1>9, <1>10

LEMMA RefreshStoppedEffect ==
    ASSUME TypeOK, NEW i \in Reloads, RefreshStopped(i)
    PROVE  /\ rl[i].pc = "refresh_wait"
           /\ UNCHANGED <<config, health, weights, reb, lhc, nreb, listening, closing>> /\ lrb' = 0
           /\ rl' \in [Reloads -> ReloadType] /\ rl'[i].pc = "returned"
           /\ \A j \in Reloads \ {i} : rl'[j] = rl[j]
<1>1. Returned(rl[i]) \in ReloadType /\ Returned(rl[i]).pc = "returned"
  BY NewRecords DEF Returned, ReloadType, ReloadPCs
<1>2. rl' = [rl EXCEPT ![i] = Returned(rl[i])]
  BY DEF RefreshStopped
<1> QED BY <1>1, <1>2 DEF RefreshStopped, TypeOK

\* A callback that is at work in the listener comes after the first checker,
\* so only the types, the generations and what is seen are at stake.
LEMMA LaterStep ==
    ASSUME LBInv, NEW i \in Reloads, InListener(i),
           UNCHANGED <<config, health, weights, listening, closing>>, lhc' \in Checkers,
           rl' \in [Reloads -> ReloadType], \A j \in Reloads \ {i} : rl'[j] = rl[j],
           reb' \in [Gens -> RebalancerType], nreb' \in Gens, lrb' \in {0} \cup Gens,
           \A h \in Gens : reb'[h].prev \in {reb[h].prev, Unseen},
           \/ /\ rl[i].pc \in {"attach", "attach_wait"} /\ rl'[i].pc = "refresh" /\ nreb' <= nreb + 1
           \/ /\ rl[i].pc = "refresh" /\ rl'[i].pc \in {"returned", "refresh_wait"} /\ nreb' <= nreb + 1
           \/ /\ <<rl[i].pc, rl'[i].pc>> \in {<<"attach", "attach_wait">>, <<"refresh_wait", "returned">>}
              /\ nreb' = nreb
    PROVE  LBInv'
<1> USE DEF LBInv
<1>1. hc # 1 /\ hc' = hc
  BY DEF FirstGeneration, InListener, health
<1>2. TypeOK'
  BY DEF TypeOK, health
<1>3. GenerationsLeft'
  <2>1. InFlight(i)
    BY DEF InFlight, InListener
  <2>2. hc' \in Nat /\ nreb' \in Nat
    BY <1>1, Sizes DEF TypeOK, Checkers, Gens
  <2> QED BY <1>1, <2>1, <2>2, LeftStep
<1>4. WeightsComplement' /\ SeenBoth'
  BY DEF WeightsComplement, SeenBoth
<1> QED BY <1>1, <1>2, <1>3, <1>4, LaterReload

LEMMA SetHealthCheckerLBInv ==
    ASSUME LBInv, NEW i \in Reloads, SetHealthChecker(i)
    PROVE  LBInv'
<1> USE DEF LBInv
<1>1. InListener(i) /\ hc \in Checkers /\ nreb \in Gens /\ nreb \in Nat /\ lrb \in {0} \cup Gens
      /\ reb \in [Gens -> RebalancerType]
  BY AttachEffect, Sizes DEF InListener, TypeOK, Gens
<1>2. CASE rl'[i].pc = "refresh" /\ UNCHANGED <<reb, nreb, lrb>>
  <2>1. nreb' <= nreb + 1
    BY <1>1, <1>2
  <2> QED BY <1>1, <1>2, <2>1, AttachEffect, LaterStep
<1>3. CASE rl'[i].pc = "attach_wait" /\ lrb \in Gens /\ reb' = CloseStop(lrb) /\ UNCHANGED <<nreb, lrb>>
  <2>1. reb' \in [Gens -> RebalancerType] /\ \A h \in Gens : reb'[h].prev = reb[h].prev
    BY <1>3, StopChannel
  <2> QED BY <1>1, <1>3, <2>1, AttachEffect, LaterStep
<1>4. CASE /\ rl'[i].pc = "refresh" /\ nreb + 1 \in Gens
           /\ Install(reb, nreb + 1, NewRebalancer(hc, config))
           /\ NewRebalancer(hc, config) \in RebalancerType
  <2>1. /\ reb' \in [Gens -> RebalancerType] /\ nreb' = nreb + 1 /\ lrb' = nreb + 1
        /\ \A h \in Gens : reb'[h].prev \in {reb[h].prev, Unseen}
    BY <1>4, Installed, NewFields
  <2>2. nreb' <= nreb + 1
    BY <1>1, <2>1
  <2> QED BY <1>1, <1>4, <2>1, <2>2, AttachEffect, LaterStep
<1> QED BY <1>2, <1>3, <1>4, AttachEffect

LEMMA AttachNewLBInv ==
    ASSUME LBInv, NEW i \in Reloads, AttachNew(i)
    PROVE  LBInv'
<1> USE DEF LBInv
<1>1. InListener(i) /\ nreb \in Nat /\ lhc \in Checkers
  BY AttachNewEffect, Sizes DEF InListener, TypeOK, Gens
<1>2. /\ reb' \in [Gens -> RebalancerType] /\ nreb' = nreb + 1 /\ lrb' = nreb + 1 /\ nreb + 1 \in Gens
      /\ \A h \in Gens : reb'[h].prev \in {reb[h].prev, Unseen}
  BY AttachNewEffect, Installed, NewFields
<1>3. nreb' <= nreb + 1 /\ lhc' = lhc
  BY <1>1, <1>2, AttachNewEffect
<1> QED BY <1>1, <1>2, <1>3, AttachNewEffect, LaterStep

LEMMA RefreshLBInv ==
    ASSUME LBInv, NEW i \in Reloads, RefreshClusters(i) \/ RefreshStopped(i)
    PROVE  LBInv'
<1> USE DEF LBInv
<1>1. nreb \in Nat /\ nreb \in Gens /\ lhc \in Checkers /\ lrb \in {0} \cup Gens
      /\ reb \in [Gens -> RebalancerType]
  BY Sizes DEF TypeOK, Gens
<1>2. CASE RefreshClusters(i)
  <2>1. InListener(i) /\ lhc' = lhc
    BY <1>2, RefreshEffect DEF InListener
  <2>2. /\ reb' \in [Gens -> RebalancerType] /\ nreb' \in Gens /\ lrb' \in {0} \cup Gens
        /\ nreb' <= nreb + 1 /\ rl'[i].pc \in {"returned", "refresh_wait"}
        /\ \A h \in Gens : reb'[h].prev \in {reb[h].prev, Unseen}
    BY <1>1, <1>2, RefreshEffect
  <2> QED BY <1>1, <1>2, <2>1, <2>2, RefreshEffect, LaterStep
<1>3. CASE RefreshStopped(i)
  <2>1. InListener(i) /\ lhc' = lhc /\ reb' = reb
    BY <1>3, RefreshStoppedEffect DEF InListener
  <2> QED BY <1>1, <1>3, <2>1, RefreshStoppedEffect, LaterStep
<1> QED BY <1>2, <1>3

LEMMA StepLBInv == LBInv /\ [Next]_vars => LBInv'
<1> SUFFICES ASSUME LBInv, [Next]_vars PROVE LBInv'
  OBVIOUS
<1>1. CASE \E g \in Gens : Tick(g) \/ LoopExit(g)
  BY <1>1, TickLBInv, LoopExitLBInv
<1>2. CASE (\E c \in Cluster : runCluster(c)) \/ ClockTick
  BY <1>2, HealthLBInv
<1>3. CASE ListenerStart
  BY <1>3, ListenerStartLBInv
<1>4. CASE \E i \in Reloads, c \in Configs, diff \in BOOLEAN : Reload(i, c, diff)
  BY <1>4, ReloadLBInv
<1>5. CASE \E i \in Reloads : ReloadStep(i)
  BY <1>5, ReplaceCheckerLBInv, SetHealthCheckerLBInv, AttachNewLBInv, RefreshLBInv DEF ReloadStep
<1>6. CASE Close \/ CloseReturns
  BY <1>6, CloseLBInv
<1>7. CASE UNCHANGED vars
  BY <1>7 DEF LBInv, vars, health, listener, TypeOK, GenerationsLeft, InFlight, LeftIn, WeightsComplement,
              SeenBoth, FirstGeneration, HealthyMeansConfigured, Original, Alive
<1> QED BY <1>1, <1>2, <1>3, <1>4, <1>5, <1>6, <1>7 DEF Next

\* The inductive invariant, and what follows from it in every state.
THEOREM BalanceInvariance == Spec => []LBInv
BY InitLBInv, StepLBInv, PTL DEF Spec

\* Every variable keeps its type; in particular no health state counts past its
\* threshold, and the checkers and rebalancers that any number of overlapping
\* reloads create never exceed one and two per reload.
THEOREM BalanceTypeCorrect == Spec => []TypeOK
<1>1. LBInv => TypeOK
  BY DEF LBInv
<1> QED BY <1>1, BalanceInvariance, PTL

\* Whatever health checks, ticks and reloads did to the weights, they sum to
\* Percent, and partitions and connections are split in their proportion.
THEOREM BalanceSplit == Spec => []SplitFollowsWeights
<1>1. LBInv => SplitFollowsWeights
  BY SplitByWeights DEF LBInv
<1> QED BY <1>1, BalanceInvariance, PTL

\* However the clusters flapped, a rebalancer that sees both up and waits for
\* nothing has the configured weights in force.
THEOREM BalanceRestored == Spec => []HealthyMeansConfigured
<1>1. LBInv => HealthyMeansConfigured
  BY DEF LBInv
<1> QED BY <1>1, BalanceInvariance, PTL
-----------------------------------------------------------------------------
(***************************************************************************)
(* What a step may do to the weights.                                      *)
(***************************************************************************)
LEMMA OnlyTicksWeigh ==
    ASSUME Next
    PROVE  (\E g \in Gens : Tick(g)) \/ weights' = weights
BY DEF Next, LoopExit, runCluster, ClockTick, ListenerStart, Reload, ReloadStep, ReplaceChecker,
       SetHealthChecker, AttachNew, RefreshClusters, RefreshStopped, Close, CloseReturns

\* A failing primary whose failback the secondary does not disturb gets its
\* weight back only after its whole minimum uptime.
THEOREM BalanceSlowFailback == Spec => SlowFailback
<1> DEFINE Late == (/\ Original /\ weights["primary"] = 0 /\ weights'["primary"] > 0
                    /\ reb[1].prev["secondary"] = "up" /\ hs[1]["secondary"].healthy
                    /\ hs[1]["primary"].healthy)
                   => hs[1]["primary"].age = MinUptime
<1>1. LBInv /\ [Next]_vars => [Late]_vars
  <2> SUFFICES ASSUME LBInv, Next, Original, weights["primary"] = 0, weights'["primary"] > 0,
                      reb[1].prev["secondary"] = "up", hs[1]["secondary"].healthy,
                      hs[1]["primary"].healthy
               PROVE  hs[1]["primary"].age = MinUptime
    OBVIOUS
  <2> USE DEF LBInv
  <2>1. weights' # weights
    OBVIOUS
  <2>2. PICK g \in Gens : Tick(g)
    BY <2>1, OnlyTicksWeigh
  <2>3. g = 1 /\ reb[1].checker = 1
    BY <2>2 DEF Tick, FirstGeneration, Original
  <2> DEFINE r == reb[1]
  <2>4. weights' = TickWeights(r)
    BY <2>1, <2>2, <2>3 DEF Tick
  <2>5. "primary" \in Cluster /\ "secondary" \in Cluster
    BY DEF Cluster
  <2>6. View(r)["primary"] = "up" /\ View(r)["secondary"] = "up"
    BY <2>3, <2>5 DEF View
  <2>7. handleDown(r, weights) = weights /\ handleSecondaryUp(r, weights) = weights
    BY <2>6 DEF handleDown, handleSecondaryUp, WentDown, CameUp
  <2>8. UptimeMet(r)
    BY <2>1, <2>4, <2>7 DEF TickWeights, handlePrimaryUp, checkPrimaryRecovery
  <2>9. hs[1]["primary"] \in HealthType
    BY <2>5, Sizes DEF TypeOK
  <2> QED BY <2>3, <2>8, <2>9, Sizes DEF UptimeMet, Uptime, HealthType
<1>2. [][Late]_vars => SlowFailback
  BY PTL DEF SlowFailback
<1> QED BY <1>1, <1>2, BalanceInvariance, PTL DEF Spec
-----------------------------------------------------------------------------
(***************************************************************************)
(* No rebalancer is lost. NoStrayLoop is inductive together with           *)
(* WaitsForOwn, if no callback moves in the listener while another waits.  *)
(***************************************************************************)
\* The listener keeps its rebalancer.
LEMMA KeptLoop ==
    ASSUME NoStrayLoop, WaitsForOwn, lrb' = lrb, lrb \in {0} \cup Gens,
           \A g \in Gens : /\ Alive(g)' /\ g # lrb => Alive(g)
                           /\ reb[g].stopped => reb'[g].stopped,
           \A i \in Reloads : Waiting(i)' =>
               \/ Waiting(i) /\ rl'[i].wait = rl[i].wait
               \/ rl'[i].wait = lrb /\ lrb # 0 /\ reb'[lrb].stopped
    PROVE  NoStrayLoop' /\ WaitsForOwn'
<1>1. NoStrayLoop'
  BY DEF NoStrayLoop
<1>2. WaitsForOwn'
  <2> SUFFICES ASSUME NEW i \in Reloads, Waiting(i)'
               PROVE  lrb = rl'[i].wait /\ lrb # 0 /\ reb'[lrb].stopped
    BY DEF WaitsForOwn
  <2>1. CASE Waiting(i) /\ rl'[i].wait = rl[i].wait
    <3>1. lrb = rl[i].wait /\ lrb # 0 /\ reb[lrb].stopped
      BY <2>1 DEF WaitsForOwn
    <3> QED BY <2>1, <3>1
  <2> QED BY <2>1
<1> QED BY <1>1, <1>2

\* The listener replaces or clears a rebalancer that was told to stop.
LEMMA ReplacedLoop ==
    ASSUME NoStrayLoop, lrb # 0 => reb[lrb].stopped,
           \A g \in Gens : g # lrb' => /\ Alive(g)' => Alive(g)
                                       /\ reb[g].stopped => reb'[g].stopped,
           \A i \in Reloads : ~Waiting(i)'
    PROVE  NoStrayLoop' /\ WaitsForOwn'
<1>1. 0 \notin Gens
  BY Sizes DEF Gens
<1>2. \A g \in Gens : Alive(g) => reb[g].stopped \/ (g = lrb /\ lrb # 0)
  BY <1>1 DEF NoStrayLoop
<1>3. NoStrayLoop'
  BY <1>2 DEF NoStrayLoop
<1>4. WaitsForOwn'
  BY DEF WaitsForOwn
<1> QED BY <1>3, <1>4

\* The callback that moves is the only one in the listener that may wait.
LEMMA MovesAlone ==
    ASSUME Undisturbed, NEW i \in Reloads, InListener(i), rl'[i].pc # rl[i].pc,
           rl'[i].pc \in {"refresh", "returned"},
           \A j \in Reloads \ {i} : rl'[j] = rl[j]
    PROVE  \A j \in Reloads : ~Waiting(j)'
BY DEF Undisturbed, Waiting

LEMMA ReloadStepStray ==
    ASSUME LBInv, NoStrayLoop, WaitsForOwn, Undisturbed, NEW i \in Reloads, ReloadStep(i)
    PROVE  NoStrayLoop' /\ WaitsForOwn'
<1> USE DEF LBInv
<1>1. lrb \in {0} \cup Gens /\ reb \in [Gens -> RebalancerType] /\ rl \in [Reloads -> ReloadType]
      /\ rl[i] \in ReloadType
  BY DEF TypeOK
<1>2. CASE ReplaceChecker(i)
  <2>1. rl' = [rl EXCEPT ![i] = [rl[i] EXCEPT !.pc = "attach"]]
        /\ [rl[i] EXCEPT !.pc = "attach"].pc = "attach"
    BY <1>1, <1>2 DEF ReplaceChecker, ReloadType
  <2>2. rl'[i].pc = "attach" /\ \A j \in Reloads \ {i} : rl'[j] = rl[j]
    BY <1>1, <2>1
  <2>3. \A j \in Reloads : Waiting(j)' => Waiting(j) /\ rl'[j].wait = rl[j].wait
    BY <2>2 DEF Waiting
  <2>4. reb' = reb /\ lrb' = lrb
    BY <1>2 DEF ReplaceChecker, listener
  <2>5. \A g \in Gens : (Alive(g)' => Alive(g)) /\ (reb[g].stopped => reb'[g].stopped)
    BY <2>4 DEF Alive
  <2> QED BY <1>1, <2>3, <2>4, <2>5, KeptLoop
<1>3. CASE SetHealthChecker(i)
  <2>1. InListener(i) /\ rl[i].pc = "attach" /\ \A j \in Reloads \ {i} : rl'[j] = rl[j]
    BY <1>3, AttachEffect DEF InListener
  <2>2. CASE rl'[i].pc = "refresh" /\ UNCHANGED <<reb, nreb, lrb>>
    <3>1. \A j \in Reloads : ~Waiting(j)'
      BY <2>1, <2>2, MovesAlone
    <3>2. \A g \in Gens : (Alive(g)' => Alive(g)) /\ (reb[g].stopped => reb'[g].stopped)
      BY <2>2 DEF Alive
    <3> QED BY <1>1, <2>2, <3>1, <3>2, KeptLoop
  <2>3. CASE /\ rl'[i].pc = "attach_wait" /\ rl'[i].wait = lrb /\ lrb \in Gens
             /\ reb' = CloseStop(lrb) /\ UNCHANGED <<nreb, lrb>>
    <3>1. lrb # 0
      BY <2>3, Sizes DEF Gens
    <3>2. /\ reb'[lrb].stopped
          /\ \A g \in Gens : (Alive(g)' => Alive(g)) /\ (reb[g].stopped => reb'[g].stopped)
      BY <2>3, StopChannel DEF Alive
    <3>3. \A j \in Reloads : Waiting(j)' => \/ Waiting(j) /\ rl'[j].wait = rl[j].wait
                                            \/ rl'[j].wait = lrb /\ lrb # 0 /\ reb'[lrb].stopped
      BY <2>1, <2>3, <3>1, <3>2 DEF Waiting
    <3> QED BY <1>1, <2>3, <3>2, <3>3, KeptLoop
  <2>4. CASE /\ rl'[i].pc = "refresh" /\ ~StopNeeded(lrb) /\ nreb + 1 \in Gens
             /\ Install(reb, nreb + 1, NewRebalancer(hc, config))
             /\ NewRebalancer(hc, config) \in RebalancerType
    <3>1. \A j \in Reloads : ~Waiting(j)'
      BY <2>1, <2>4, MovesAlone
    <3>2. \A g \in Gens : g # lrb' => reb'[g] = reb[g]
      BY <2>4, Installed
    <3>3. \A g \in Gens : g # lrb' => (Alive(g)' => Alive(g)) /\ (reb[g].stopped => reb'[g].stopped)
      BY <3>2 DEF Alive
    <3>4. lrb # 0 => reb[lrb].stopped
      BY <2>4 DEF StopNeeded
    <3> QED BY <3>1, <3>3, <3>4, ReplacedLoop
  <2> QED BY <1>3, <2>2, <2>3, <2>4, AttachEffect
<1>4. CASE AttachNew(i)
  <2>1. /\ InListener(i) /\ Waiting(i) /\ rl[i].pc = "attach_wait" /\ rl'[i].pc = "refresh"
        /\ \A j \in Reloads \ {i} : rl'[j] = rl[j]
    BY <1>4, AttachNewEffect DEF InListener, Waiting
  <2>2. \A j \in Reloads : ~Waiting(j)'
    BY <2>1, MovesAlone
  <2>3. \A g \in Gens : g # lrb' => reb'[g] = reb[g]
    BY <1>4, AttachNewEffect, Installed
  <2>4. \A g \in Gens : g # lrb' => (Alive(g)' => Alive(g)) /\ (reb[g].stopped => reb'[g].stopped)
    BY <2>3 DEF Alive
  <2>5. reb[lrb].stopped
    BY <2>1 DEF WaitsForOwn
  <2> QED BY <2>2, <2>4, <2>5, ReplacedLoop
<1>5. CASE RefreshClusters(i)
  <2>1. InListener(i) /\ rl[i].pc = "refresh" /\ \A j \in Reloads \ {i} : rl'[j] = rl[j]
    BY <1>5, RefreshEffect DEF InListener
  <2>2. CASE /\ rl'[i].pc = "returned" /\ lrb = 0 /\ nreb' \in Gens /\ nreb' = nreb + 1 /\ lrb' = nreb'
             /\ \A h \in Gens \ {nreb'} : reb'[h] = reb[h]
    <3>1. \A j \in Reloads : ~Waiting(j)'
      BY <2>1, <2>2, MovesAlone
    <3>2. \A g \in Gens : g # lrb' => (Alive(g)' => Alive(g)) /\ (reb[g].stopped => reb'[g].stopped)
      BY <2>2 DEF Alive
    <3> QED BY <2>2, <3>1, <3>2, ReplacedLoop
  <2>3. CASE \A h \in Gens : /\ reb'[h].loop = reb[h].loop /\ reb'[h].prev = reb[h].prev
                             /\ reb[h].stopped => reb'[h].stopped
    <3>1. \A g \in Gens : (Alive(g)' => Alive(g)) /\ (reb[g].stopped => reb'[g].stopped)
      BY <2>3 DEF Alive
    <3>2. CASE rl'[i].pc = "refresh_wait" /\ rl'[i].wait = lrb /\ lrb \in Gens
               /\ lrb' = lrb /\ reb'[lrb].stopped
      <4>1. lrb # 0
        BY <3>2, Sizes DEF Gens
      <4>2. \A j \in Reloads : Waiting(j)' => \/ Waiting(j) /\ rl'[j].wait = rl[j].wait
                                              \/ rl'[j].wait = lrb /\ lrb # 0 /\ reb'[lrb].stopped
        BY <2>1, <3>2, <4>1 DEF Waiting
      <4> QED BY <1>1, <3>1, <3>2, <4>2, KeptLoop
    <3>3. CASE rl'[i].pc = "returned" /\ lrb \in Gens /\ reb[lrb].stopped /\ lrb' = 0
      <4>1. \A j \in Reloads : ~Waiting(j)'
        BY <2>1, <3>3, MovesAlone
      <4> QED BY <3>1, <3>3, <4>1, ReplacedLoop
    <3>4. CASE rl'[i].pc = "returned" /\ lrb' = lrb
      <4>1. \A j \in Reloads : ~Waiting(j)'
        BY <2>1, <3>4, MovesAlone
      <4> QED BY <1>1, <3>1, <3>4, <4>1, KeptLoop
    <3> QED BY <1>5, <2>2, <3>2, <3>3, <3>4, RefreshEffect
  <2> QED BY <1>5, <2>2, <2>3, RefreshEffect
<1>6. CASE RefreshStopped(i)
  <2>1. /\ InListener(i) /\ Waiting(i) /\ rl[i].pc = "refresh_wait" /\ rl'[i].pc = "returned"
        /\ \A j \in Reloads \ {i} : rl'[j] = rl[j]
    BY <1>6, RefreshStoppedEffect DEF InListener, Waiting
  <2>2. \A j \in Reloads : ~Waiting(j)'
    BY <2>1, MovesAlone
  <2>3. reb' = reb
    BY <1>6, RefreshStoppedEffect
  <2>4. \A g \in Gens : (Alive(g)' => Alive(g)) /\ (reb[g].stopped => reb'[g].stopped)
    BY <2>3 DEF Alive
  <2>5. reb[lrb].stopped
    BY <2>1 DEF WaitsForOwn
  <2> QED BY <2>2, <2>4, <2>5, ReplacedLoop
<1> QED BY <1>2, <1>3, <1>4, <1>5, <1>6 DEF ReloadStep

LEMMA StepStray ==
    ASSUME LBInv, NoStrayLoop, WaitsForOwn, Undisturbed, Next
    PROVE  NoStrayLoop' /\ WaitsForOwn'
<1> USE DEF LBInv
<1>1. lrb \in {0} \cup Gens /\ reb \in [Gens -> RebalancerType] /\ rl \in [Reloads -> ReloadType]
  BY DEF TypeOK
<1>2. ASSUME UNCHANGED <<lrb, rl>>,
             \A g \in Gens : /\ Alive(g)' /\ g # lrb => Alive(g)
                             /\ reb[g].stopped => reb'[g].stopped
      PROVE  NoStrayLoop' /\ WaitsForOwn'
  <2>1. \A i \in Reloads : Waiting(i)' => Waiting(i) /\ rl'[i].wait = rl[i].wait
    BY <1>2 DEF Waiting
  <2> QED BY <1>1, <1>2, <2>1, KeptLoop
<1>3. CASE \E g \in Gens : Tick(g)
  <2> PICK g \in Gens : Tick(g)
    BY <1>3
  <2>1. UNCHANGED <<lrb, rl>> /\ Alive(g)
    BY DEF Tick, listener, Alive
  <2>2. \A h \in Gens : (Alive(h)' => Alive(h)) /\ (reb[h].stopped => reb'[h].stopped)
    BY <2>1, TickRecord DEF Alive
  <2> QED BY <1>2, <2>1, <2>2
<1>4. CASE \E g \in Gens : LoopExit(g)
  <2> PICK g \in Gens : LoopExit(g)
    BY <1>4
  <2> DEFINE n == [NoRebalancer EXCEPT !.loop = "done", !.stopped = TRUE]
  <2>1. n.loop = "done" /\ n.stopped
    BY DEF NoRebalancer
  <2>2. UNCHANGED <<lrb, rl>> /\ reb' = [reb EXCEPT ![g] = n]
    BY DEF LoopExit, listener
  <2> HIDE DEF n
  <2>3. \A h \in Gens : (Alive(h)' => Alive(h)) /\ (reb[h].stopped => reb'[h].stopped)
    BY <1>1, <2>1, <2>2 DEF Alive
  <2> QED BY <1>2, <2>2, <2>3
<1>5. CASE UNCHANGED <<lrb, rl, reb>>
  <2>1. \A h \in Gens : (Alive(h)' => Alive(h)) /\ (reb[h].stopped => reb'[h].stopped)
    BY <1>5 DEF Alive
  <2> QED BY <1>2, <1>5, <2>1
<1>6. CASE ListenerStart
  <2>1. UNCHANGED <<lrb, rl>>
    BY <1>6 DEF ListenerStart
  <2>2. CASE lrb # 0
    <3>1. lrb \in Gens /\ reb[lrb] \in RebalancerType
      BY <1>1, <2>2
    <3>2. reb' = [reb EXCEPT ![lrb] = [reb[lrb] EXCEPT !.loop = "starting"]]
      BY <1>1, <1>6, <2>2, <3>1 DEF ListenerStart
    <3>3. [reb[lrb] EXCEPT !.loop = "starting"].stopped = reb[lrb].stopped
      BY <3>1 DEF RebalancerType
    <3>4. \A h \in Gens : /\ Alive(h)' /\ h # lrb => Alive(h)
                          /\ reb[h].stopped => reb'[h].stopped
      BY <1>1, <3>1, <3>2, <3>3 DEF Alive
    <3> QED BY <1>2, <2>1, <3>4
  <2> QED BY <1>5, <1>6, <2>1, <2>2 DEF ListenerStart
<1>7. CASE Close
  <2>1. UNCHANGED <<lrb, rl>>
    BY <1>7 DEF Close, listener
  <2>2. CASE reb' = CloseStop(lrb) /\ lrb \in Gens
    <3>1. \A h \in Gens : (Alive(h)' => Alive(h)) /\ (reb[h].stopped => reb'[h].stopped)
      BY <2>2, StopChannel DEF Alive
    <3> QED BY <1>2, <2>1, <3>1
  <2> QED BY <1>1, <1>5, <1>7, <2>1, <2>2 DEF Close, StopNeeded
<1>8. ASSUME NEW i \in Reloads, NEW c \in Configs, NEW diff \in BOOLEAN, Reload(i, c, diff)
      PROVE  NoStrayLoop' /\ WaitsForOwn'
  <2> DEFINE n == [rl[i] EXCEPT !.pc = IF diff THEN "checker" ELSE "returned",
                                !.cfg = IF diff THEN c ELSE rl[i].cfg]
  <2>1. rl' = [rl EXCEPT ![i] = n] /\ UNCHANGED <<lrb, reb>>
    BY <1>1, <1>8 DEF Reload, listener
  <2>2. n.pc \in {"checker", "returned"}
    BY <1>1 DEF ReloadType
  <2> HIDE DEF n
  <2>3. \A j \in Reloads : Waiting(j)' => Waiting(j) /\ rl'[j].wait = rl[j].wait
    BY <1>1, <2>1, <2>2 DEF Waiting
  <2>4. \A h \in Gens : (Alive(h)' => Alive(h)) /\ (reb[h].stopped => reb'[h].stopped)
    BY <2>1 DEF Alive
  <2> QED BY <1>1, <2>1, <2>3, <2>4, KeptLoop
<1>9. CASE (\E c \in Cluster : runCluster(c)) \/ ClockTick \/ CloseReturns
  BY <1>5, <1>9 DEF runCluster, ClockTick, CloseReturns, listener
<1> QED BY <1>3, <1>4, <1>6, <1>7, <1>8, <1>9, ReloadStepStray DEF Next

LEMMA InitStray == Init => NoStrayLoop /\ WaitsForOwn
<1> SUFFICES ASSUME Init PROVE NoStrayLoop /\ WaitsForOwn
  OBVIOUS
<1>1. \A g \in Gens : reb[g].loop \in {"new", "none"}
  BY NewFields DEF Init
<1>2. \A i \in Reloads : ~Waiting(i)
  BY DEF Init, NoReload, Waiting
<1> QED BY <1>1, <1>2 DEF NoStrayLoop, WaitsForOwn, Alive

LEMMA StutterStray == NoStrayLoop /\ WaitsForOwn /\ UNCHANGED vars => NoStrayLoop' /\ WaitsForOwn'
BY DEF NoStrayLoop, WaitsForOwn, Waiting, Alive, vars, listener

\* With one reload that replaces the checker, among any number that do not, and
\* with shutdown at any moment, no rebalancer loop is lost: one the listener no
\* longer holds has been told to stop.
THEOREM BalanceNoStraySingle ==
    ASSUME \A i, j \in DiffReloads : i = j
    PROVE  Spec => []NoStrayLoop
<1> DEFINE Inv == NoStrayLoop /\ WaitsForOwn
<1>1. Init => Inv
  BY InitStray
<1>2. LBInv => Undisturbed
  <2> SUFFICES ASSUME LBInv, NEW i \in Reloads, NEW j \in Reloads, Waiting(i), InListener(j)
               PROVE  i = j
    BY DEF Undisturbed
  <2>1. InFlight(i) /\ InFlight(j)
    BY DEF InFlight, Waiting, InListener
  <2> QED BY <2>1 DEF LBInv, GenerationsLeft
<1>3. LBInv /\ Inv /\ [Next]_vars => Inv'
  <2> SUFFICES ASSUME LBInv, Inv, [Next]_vars PROVE Inv'
    OBVIOUS
  <2>1. CASE UNCHANGED vars
    BY <2>1, StutterStray
  <2>2. CASE Next
    BY <1>2, <2>2, StepStray
  <2> QED BY <2>1, <2>2
<1>4. Inv => NoStrayLoop
  OBVIOUS
<1> HIDE DEF Inv
<1> QED BY <1>1, <1>3, <1>4, BalanceInvariance, PTL DEF Spec
=============================================================================
