---------------------------- MODULE LoadBalance ----------------------------
(***************************************************************************)
(* One load_balance BU with auto_rebalance: the health checker of its two  *)
(* clusters (health/checker.go, state.go), the Rebalancer that turns       *)
(* health transitions into weights (routing/rebalance.go), the Router that *)
(* keeps the weights (routing/data.go, sticky.go), and the Listener that   *)
(* creates, starts and stops rebalancers at start-up, on reload and on     *)
(* shutdown (proxy/listener.go, cmd/proxy/main.go).                        *)
(*                                                                         *)
(* A reload replaces the checker and the rebalancer, so both come in       *)
(* generations. Reload callbacks run on their own goroutines and may       *)
(* overlap. A tick of a rebalancer is one step: it runs under its mutex.   *)
(***************************************************************************)
EXTENDS DRStates, Integers, FiniteSets

CONSTANTS
    Percent,        \* what the two weights sum to: 100 in the code
    FailureThreshold, RecoveryThreshold,  \* of the health checker
    MinUptime,      \* recovery_min_uptime, in clock ticks
    InitConfigs,    \* the configurations the process may start with
    Configs,        \* the configurations a reload may bring
    MaxReloads,     \* bound on the number of reloads
    DiffReloads     \* the reloads that may change a cluster's active,
                    \* mode or bootstrap

\* w: weight of the primary (Validate makes the two sum to Percent);
\* auto: some load_balance cluster has auto_rebalance.
ConfigType == [w : 0..Percent, auto : BOOLEAN]

ASSUME PercentPositive == Percent \in Nat \ {0}
ASSUME ThresholdsPositive == /\ FailureThreshold \in Nat \ {0}
                             /\ RecoveryThreshold \in Nat \ {0}
ASSUME UptimeNatural == MinUptime \in Nat \ {0}
ASSUME ConfigsTyped == InitConfigs \subseteq ConfigType /\ Configs \subseteq ConfigType
ASSUME ReloadsNatural == MaxReloads \in Nat /\ DiffReloads \subseteq 1..MaxReloads

Reloads  == 1..MaxReloads
Checkers == 1..(Cardinality(DiffReloads) + 1)
Gens     == 1..(2 * Cardinality(DiffReloads) + 1)  \* a reload may create two

VARIABLES
    config,     \* Reloader.config
    hs,         \* per checker and cluster: its HealthState
    nextProbe,  \* the endpoint the running checker probes next
    hc,         \* main's healthChecker
    lhc,        \* Listener.healthChecker
    weights,    \* Router.effectiveWeights of the BU
    reb,        \* per generation: a Rebalancer
    nreb,       \* rebalancers created so far
    lrb,        \* Listener.rebalancer: a generation, or 0
    listening,  \* Listener.Start has opened the ports
    rl,         \* per reload: where its callback stands
    closing     \* Listener.Close: where it stands

health   == <<hs, nextProbe, hc>>
listener == <<lhc, nreb, lrb, listening>>
vars == <<config, health, weights, reb, listener, rl, closing>>
-----------------------------------------------------------------------------
(* HealthState *)

\* streak: the consecutive results that contradict the verdict, failures of a
\* healthy cluster or successes of one that is down (the other counter is not
\* compared then, and is zero when the verdict changes). age: ticks since
\* upSince, kept up to MinUptime, the only value it is compared with.
NewHealthState == [healthy |-> TRUE, streak |-> 0, age |-> 0]
NewChecker     == [c \in Cluster |-> NewHealthState]

RecordSuccess(h) ==
    CASE h.healthy                           -> [h EXCEPT !.streak = 0]
      [] ~h.healthy /\ h.streak + 1 >= RecoveryThreshold -> NewHealthState
      [] ~h.healthy /\ h.streak + 1 < RecoveryThreshold  -> [h EXCEPT !.streak = @ + 1]

\* Mutant: the counter is compared before this failure is counted.
RecordFailureLate(h) ==
    CASE ~h.healthy                          -> [h EXCEPT !.streak = 0]
      [] h.healthy /\ h.streak >= FailureThreshold ->
            [healthy |-> FALSE, streak |-> 0, age |-> 0]
      [] h.healthy /\ h.streak < FailureThreshold  -> [h EXCEPT !.streak = @ + 1]

RecordFailure(h) ==
    CASE ~h.healthy                          -> [h EXCEPT !.streak = 0]
      [] h.healthy /\ h.streak + 1 >= FailureThreshold ->
            [healthy |-> FALSE, streak |-> 0, age |-> 0]
      [] h.healthy /\ h.streak + 1 < FailureThreshold  -> [h EXCEPT !.streak = @ + 1]

\* time.Since(upSince): a cluster that is down has the zero time, and the
\* time since then exceeds every configured uptime.
Uptime(h) == IF h.healthy THEN h.age ELSE MinUptime
-----------------------------------------------------------------------------
(* Weights *)

Weights(w) == [c \in Cluster |-> IF c = "primary" THEN w ELSE Percent - w]

\* Mutant: the boundary of the hash range belongs to the primary.
StickyTargetOffByOne(ws, h) == IF h <= ws["primary"] THEN "primary" ELSE "secondary"

\* selectClusterByWeight: h is the sticky hash of topic and
\* partition modulo Percent.
StickyTarget(ws, h) == IF h < ws["primary"] THEN "primary" ELSE "secondary"

\* selectLoadBalanceTarget with the router's weights: n is the connection
\* counter modulo Percent. (Weights of 0 and 0, which Validate refuses, would go
\* to the legacy rebalancer.)
ConnectionTarget(ws, n) ==
    CASE ws["primary"] = 0   -> "secondary"
      [] ws["secondary"] = 0 -> "primary"
      [] OTHER -> IF n < ws["primary"] THEN "primary" ELSE "secondary"
-----------------------------------------------------------------------------
(* Rebalancer *)

NoConfig == [w |-> 0, auto |-> FALSE]
Unseen   == [c \in Cluster |-> "unknown"]

NoRebalancer == [loop |-> "none", stopped |-> FALSE, checker |-> 1,
                 cfg |-> NoConfig, prev |-> Unseen, recovering |-> FALSE]

\* Created, not started.
NewRebalancer(chk, cfg) ==
    [NoRebalancer EXCEPT !.loop = "new", !.checker = chk, !.cfg = cfg]

\* What one tick makes of a rebalancer's state and the router's weights, in
\* the order of the code: handleDown, handleSecondaryUp, handlePrimaryUp,
\* checkPrimaryRecovery.
View(r) == [c \in Cluster |-> IF hs[r.checker][c].healthy THEN "up" ELSE "down"]

WentDown(r, c) == r.prev[c] = "up" /\ View(r)[c] = "down"
CameUp(r, c)   == r.prev[c] = "down" /\ View(r)[c] = "up"

handleDown(r, ws) ==
    CASE WentDown(r, "primary") -> Weights(0)
      [] ~WentDown(r, "primary") /\ WentDown(r, "secondary") -> Weights(Percent)
      [] OTHER -> ws

\* Mutant: the secondary's return is left to the primary's recovery.
handleSecondaryUpSkipped(r, ws) == ws

handleSecondaryUp(r, ws) == IF CameUp(r, "secondary") THEN Weights(r.cfg.w) ELSE ws

UptimeMet(r) == Uptime(hs[r.checker]["primary"]) >= MinUptime

\* handlePrimaryUp sets the flag when the uptime is missing, clears it when met.
RecoveringAfterUp(r) ==
    IF CameUp(r, "primary") THEN ~UptimeMet(r) ELSE r.recovering

\* Mutant: the primary gets its weight back as soon as it is healthy.
handlePrimaryUpAtOnce(r, ws) == IF CameUp(r, "primary") THEN Weights(r.cfg.w) ELSE ws

handlePrimaryUp(r, ws) ==
    IF CameUp(r, "primary") /\ UptimeMet(r) THEN Weights(r.cfg.w) ELSE ws

\* Mutant: recovery is only looked at in the tick that saw the primary come up.
checkPrimaryRecoveryOnce(r, ws) ==
    IF CameUp(r, "primary") /\ RecoveringAfterUp(r) /\ UptimeMet(r) THEN Weights(r.cfg.w) ELSE ws

checkPrimaryRecovery(r, ws) ==
    IF RecoveringAfterUp(r) /\ UptimeMet(r) THEN Weights(r.cfg.w) ELSE ws

TickWeights(r) ==
    checkPrimaryRecovery(r, handlePrimaryUp(r, handleSecondaryUp(r, handleDown(r, weights))))

\* The first tick only remembers what it saw. tick ignores a BU whose
\* auto_rebalance is off.
Tick(g) ==
    LET r     == reb[g]
        first == r.prev = Unseen
    IN
    /\ r.loop \in {"starting", "running"}
    /\ weights' = IF first \/ ~r.cfg.auto THEN weights ELSE TickWeights(r)
    /\ reb' = [reb EXCEPT ![g] =
                 IF ~r.cfg.auto THEN [r EXCEPT !.loop = "running"]
                 ELSE [r EXCEPT !.loop = "running", !.prev = View(r),
                                !.recovering = IF first THEN @ ELSE RecoveringAfterUp(r) /\ ~UptimeMet(r)]]
    /\ UNCHANGED <<config, health, listener, rl, closing>>

\* The loop sees stopCh closed and closes doneCh. A ticker that is ready at the
\* same time may win the select: Tick does not look at stopped.
LoopExit(g) ==
    /\ reb[g].loop = "running"
    /\ reb[g].stopped
    /\ reb' = [reb EXCEPT ![g] = [NoRebalancer EXCEPT !.loop = "done", !.stopped = TRUE]]
    /\ UNCHANGED <<config, health, weights, listener, rl, closing>>
-----------------------------------------------------------------------------
(* Health checker and time *)

\* checkEndpoint: dial, authenticate, write and read with deadlines; the first
\* error is a failure, an answer of any content and latency a success.
checkEndpoint(h) == {RecordSuccess(h), RecordFailure(h)}

\* runCluster: the endpoints in turn, primary first. The interval, shorter after
\* a failure, is not kept.
runCluster(c) ==
    /\ nextProbe = c
    /\ \E record \in checkEndpoint(hs[hc][c]) : hs' = [hs EXCEPT ![hc][c] = record]
    /\ nextProbe' = Opposite(c)
    /\ UNCHANGED <<config, hc, weights, reb, listener, rl, closing>>

\* A checker that has been replaced is frozen; one that no rebalancer can read
\* any more is garbage.
Readable(k) == \E g \in Gens : reb[g].loop \notin {"none", "done"} /\ reb[g].checker = k

Older(h) == IF h.healthy /\ h.age < MinUptime THEN [h EXCEPT !.age = @ + 1] ELSE h

\* Time passes; an uptime beyond MinUptime need not be told apart.
ClockTick ==
    /\ hs' = [k \in Checkers |-> [c \in Cluster |->
                 IF k = hc \/ Readable(k) THEN Older(hs[k][c]) ELSE hs[k][c]]]
    /\ UNCHANGED <<config, nextProbe, hc, weights, reb, listener, rl, closing>>
-----------------------------------------------------------------------------
(* Listener *)

\* Listener.Start: the ports are open, the rebalancer of this moment starts.
ListenerStart ==
    /\ ~listening
    /\ listening' = TRUE
    /\ reb' = IF lrb = 0 THEN reb ELSE [reb EXCEPT ![lrb].loop = "starting"]
    /\ UNCHANGED <<config, health, weights, lhc, nreb, lrb, rl, closing>>

\* Mutant: the listener forgets the rebalancer it replaces.
StopForgotten(g) == FALSE

\* Rebalancer.Stop returns at once if stopCh is closed already; otherwise it
\* closes it and waits for doneCh, which only the loop closes.
StopNeeded(g) == g # 0 /\ ~reb[g].stopped
CloseStop(g)  == [reb EXCEPT ![g].stopped = TRUE]

LoopDone(g) == reb[g].loop = "done"

Install(rebs, g, r) ==
    /\ reb' = [rebs EXCEPT ![g] = r]
    /\ nreb' = g
    /\ lrb' = g

\* DiffClusters reports a change of active, mode or bootstrap in some cluster
\* of the file; it does not compare weights or health_check.
DiffClusters(i) == IF i \in DiffReloads THEN BOOLEAN ELSE {FALSE}

\* The watcher's debounce timer runs Reload on its own goroutine: load, swap,
\* callback. The callback returns at once unless there is a difference.
Reload(i, c, diff) ==
    /\ rl[i].pc = "none"
    /\ \A j \in Reloads : j < i => rl[j].pc # "none"
    /\ diff \in DiffClusters(i)
    /\ config' = c
    /\ rl' = [rl EXCEPT ![i].pc = IF diff THEN "checker" ELSE "returned",
                        ![i].cfg = IF diff THEN c ELSE @]
    /\ UNCHANGED <<health, weights, reb, listener, closing>>

\* main: stop the checker, create and start a new one, which begins healthy.
ReplaceChecker(i) ==
    /\ rl[i].pc = "checker"
    /\ hc' = hc + 1
    /\ hs' = [k \in Checkers |-> IF k <= hc /\ Readable(k) THEN hs[k] ELSE NewChecker]
    /\ nextProbe' = "primary"
    /\ rl' = [rl EXCEPT ![i].pc = "attach"]
    /\ UNCHANGED <<config, weights, reb, listener, closing>>

\* SetHealthChecker, up to the wait in the old rebalancer's Stop. It is given
\* main's checker and asks the reloader for the current configuration.
SetHealthChecker(i) ==
    /\ rl[i].pc = "attach"
    /\ lhc' = hc
    /\ \/ /\ ~config.auto
          /\ rl' = [rl EXCEPT ![i].pc = "refresh"]
          /\ UNCHANGED <<reb, nreb, lrb>>
       \/ /\ config.auto /\ StopNeeded(lrb)
          /\ reb' = CloseStop(lrb)
          /\ rl' = [rl EXCEPT ![i].pc = "attach_wait", ![i].wait = lrb,
                              ![i].checker = hc, ![i].seen = config]
          /\ UNCHANGED <<nreb, lrb>>
       \/ /\ config.auto /\ ~StopNeeded(lrb)
          /\ Install(reb, nreb + 1, NewRebalancer(hc, config))
          /\ rl' = [rl EXCEPT ![i].pc = "refresh"]
    /\ UNCHANGED <<config, health, weights, listening, closing>>

NoReload == [pc |-> "none", cfg |-> NoConfig, seen |-> NoConfig, checker |-> 1, wait |-> 0]

Returned(r) == [NoReload EXCEPT !.pc = "returned"]

\* doneCh is closed: the old rebalancer is replaced by one that is not started.
AttachNew(i) ==
    /\ rl[i].pc = "attach_wait"
    /\ LoopDone(rl[i].wait)
    /\ Install(reb, nreb + 1, NewRebalancer(rl[i].checker, rl[i].seen))
    /\ rl' = [rl EXCEPT ![i] = [NoReload EXCEPT !.pc = "refresh", !.cfg = rl[i].cfg]]
    /\ UNCHANGED <<config, health, weights, lhc, listening, closing>>

\* RefreshClusters: Router.UpdateConfig seeds only weights that are missing, so
\* it leaves these alone; Rebalancer.UpdateConfig; then create and start a
\* rebalancer that is missing, or stop one that is no longer wanted.
RefreshClusters(i) ==
    LET c       == rl[i].cfg
        updated == IF lrb = 0 THEN reb ELSE [reb EXCEPT ![lrb].cfg = c]
    IN
    /\ rl[i].pc = "refresh"
    /\ \/ /\ c.auto /\ lrb = 0
          /\ Install(reb, nreb + 1, [NewRebalancer(lhc, c) EXCEPT
                                       !.loop = IF listening THEN "starting" ELSE "new"])
          /\ rl' = [rl EXCEPT ![i] = Returned(@)]
       \/ /\ ~c.auto /\ StopNeeded(lrb)
          /\ reb' = [updated EXCEPT ![lrb].stopped = TRUE]
          /\ rl' = [rl EXCEPT ![i].pc = "refresh_wait", ![i].wait = lrb]
          /\ UNCHANGED <<nreb, lrb>>
       \/ /\ ~c.auto /\ lrb # 0 /\ ~StopNeeded(lrb)
          /\ reb' = updated
          /\ lrb' = 0
          /\ rl' = [rl EXCEPT ![i] = Returned(@)]
          /\ UNCHANGED nreb
       \/ /\ c.auto <=> lrb # 0
          /\ reb' = updated
          /\ rl' = [rl EXCEPT ![i] = Returned(@)]
          /\ UNCHANGED <<nreb, lrb>>
    /\ UNCHANGED <<config, health, weights, lhc, listening, closing>>

RefreshStopped(i) ==
    /\ rl[i].pc = "refresh_wait"
    /\ LoopDone(rl[i].wait)
    /\ lrb' = 0
    /\ rl' = [rl EXCEPT ![i] = Returned(@)]
    /\ UNCHANGED <<config, health, weights, reb, lhc, nreb, listening, closing>>

\* Listener.Close on SIGTERM: stop the rebalancer, then close the ports.
Close ==
    /\ closing.pc = "no" /\ listening
    /\ reb' = IF StopNeeded(lrb) THEN CloseStop(lrb) ELSE reb
    /\ closing' = IF StopNeeded(lrb) THEN [pc |-> "wait", wait |-> lrb]
                                     ELSE [pc |-> "done", wait |-> 0]
    /\ UNCHANGED <<config, health, weights, listener, rl>>

CloseReturns ==
    /\ closing.pc = "wait"
    /\ LoopDone(closing.wait)
    /\ closing' = [pc |-> "done", wait |-> 0]
    /\ UNCHANGED <<config, health, weights, reb, listener, rl>>
-----------------------------------------------------------------------------
\* main, up to listener.Start: checker, router and (if wanted) rebalancer exist.
Init ==
    /\ config \in InitConfigs
    /\ hs = [k \in Checkers |-> NewChecker]
    /\ nextProbe = "primary"
    /\ hc = 1 /\ lhc = 1
    /\ weights = Weights(config.w)
    /\ reb = [g \in Gens |-> IF g = 1 /\ config.auto THEN NewRebalancer(1, config)
                                                     ELSE NoRebalancer]
    /\ nreb = 1
    /\ lrb = IF config.auto THEN 1 ELSE 0
    /\ listening = FALSE
    /\ rl = [i \in Reloads |-> NoReload]
    /\ closing = [pc |-> "no", wait |-> 0]

ReloadStep(i) == ReplaceChecker(i) \/ SetHealthChecker(i) \/ AttachNew(i)
                 \/ RefreshClusters(i) \/ RefreshStopped(i)

Next ==
    \/ \E g \in Gens : Tick(g) \/ LoopExit(g)
    \/ \E c \in Cluster : runCluster(c)
    \/ ClockTick
    \/ ListenerStart
    \/ \E i \in Reloads, c \in Configs, diff \in BOOLEAN : Reload(i, c, diff)
    \/ \E i \in Reloads : ReloadStep(i)
    \/ Close
    \/ CloseReturns

\* Goroutines are scheduled, tickers run and time passes; select is fair, so a
\* loop that could read stopCh does not choose its ticker for ever. No fairness
\* for reloads or for shutdown.
Fairness ==
    /\ \A g \in Gens : WF_vars(Tick(g)) /\ WF_vars(LoopExit(g))
    /\ WF_vars(\E c \in Cluster : runCluster(c))
    /\ WF_vars(ClockTick)
    /\ WF_vars(ListenerStart)
    /\ \A i \in Reloads : WF_vars(ReloadStep(i))
    /\ WF_vars(CloseReturns)

Spec == Init /\ [][Next]_vars
FairSpec == Spec /\ Fairness
-----------------------------------------------------------------------------
(* Properties *)

ReloadPCs == {"none", "checker", "attach", "attach_wait", "refresh", "refresh_wait", "returned"}

HealthType == [healthy : BOOLEAN, age : 0..MinUptime, streak : Nat]
RebalancerType == [loop : {"none", "new", "starting", "running", "done"},
                   stopped : BOOLEAN, checker : Checkers, cfg : ConfigType,
                   prev : [Cluster -> {"up", "down", "unknown"}], recovering : BOOLEAN]
ReloadType == [pc : ReloadPCs, cfg : ConfigType, seen : ConfigType,
               checker : Checkers, wait : {0} \cup Gens]

TypeOK ==
    /\ config \in ConfigType
    /\ hs \in [Checkers -> [Cluster -> HealthType]]
    /\ \A k \in Checkers, c \in Cluster :
         hs[k][c].streak < IF hs[k][c].healthy THEN FailureThreshold ELSE RecoveryThreshold
    /\ nextProbe \in Cluster
    /\ hc \in Checkers /\ lhc \in Checkers
    /\ weights \in [Cluster -> 0..Percent]
    /\ reb \in [Gens -> RebalancerType]
    /\ nreb \in Gens /\ lrb \in {0} \cup Gens
    /\ listening \in BOOLEAN
    /\ rl \in [Reloads -> ReloadType]
    /\ closing \in [pc : {"no", "wait", "done"}, wait : {0} \cup Gens]

Alive(g) == reb[g].loop \in {"starting", "running"}

\* The start-up rebalancer runs, and no reload has replaced the checker yet.
Original == Alive(1) /\ hc = 1

\* However the two clusters went down and came back, interleaved or flapping:
\* when the rebalancer last saw both up and is not waiting out the primary's
\* minimum uptime, the configured weights are in force.
HealthyMeansConfigured ==
    (Original /\ reb[1].prev = [c \in Cluster |-> "up"] /\ ~reb[1].recovering)
        => weights = Weights(reb[1].cfg.w)

\* A failing primary whose failback the secondary does not disturb gets its
\* weight back only after recovery_min_uptime of continuous health, although
\* the uptime restarts with every flap that falls between two ticks.
SlowFailback ==
    [][ (/\ Original /\ weights["primary"] = 0 /\ weights'["primary"] > 0
         /\ reb[1].prev["secondary"] = "up" /\ hs[1]["secondary"].healthy
         /\ hs[1]["primary"].healthy)
        => hs[1]["primary"].age = MinUptime ]_vars

\* A cluster without effective weight is sent nothing, and each cluster gets
\* its weight's share of the hash range: partitions and connections alike.
SplitFollowsWeights ==
    \A c \in Cluster :
        /\ Cardinality({h \in 0..(Percent - 1) : StickyTarget(weights, h) = c}) = weights[c]
        /\ Cardinality({n \in 0..(Percent - 1) : ConnectionTarget(weights, n) = c}) = weights[c]

\* Reloads, another reload swapping the configuration under them and shutdown
\* never lose a rebalancer: a loop that is not the listener's, and so can no
\* longer be stopped, has been told to stop. (For one reload that replaces the
\* checker: the listener's fields are written without a lock, and of three such
\* callbacks one that waits can overwrite a loop that another one started.)
NoStrayLoop == \A g \in Gens : Alive(g) /\ g # lrb => reb[g].stopped

\* With both clusters healthy for good the configured weights return for good.
WeightsReturn ==
    <>[](Original /\ \A c \in Cluster : hs[1][c].healthy)
        => <>[](weights = Weights(reb[1].cfg.w))

\* Every reload is applied: its callback returns.
ReloadReturns == \A i \in Reloads : rl[i].pc = "checker" ~> rl[i].pc = "returned"
-----------------------------------------------------------------------------
(***************************************************************************)
(* The inductive invariants of LoadBalance_proofs.                         *)
(***************************************************************************)
InFlight(i) == rl[i].pc \in {"checker", "attach", "attach_wait", "refresh", "refresh_wait"}

\* What the reloads may still create fits into the generations.
LeftIn(pcs) == {i \in DiffReloads : rl[i].pc \in pcs}
GenerationsLeft ==
    /\ \A i \in Reloads : InFlight(i) => i \in DiffReloads
    /\ hc + Cardinality(LeftIn({"none", "checker"})) <= Cardinality(DiffReloads) + 1
    /\ nreb + Cardinality(LeftIn({"none", "checker", "attach", "attach_wait"}))
            + Cardinality(LeftIn({"none", "checker", "attach", "attach_wait", "refresh"}))
         <= 2 * Cardinality(DiffReloads) + 1

WeightsComplement == \E w \in 0..Percent : weights = Weights(w)

\* A rebalancer has seen nothing yet, or both clusters.
SeenBoth == \A g \in Gens : reb[g].prev = Unseen \/ \A c \in Cluster : reb[g].prev[c] # "unknown"

\* Before the first reload replaces the checker, the start-up rebalancer is the
\* only one, and the weights are the configured ones until it has seen a change.
FirstGeneration ==
    hc = 1 =>
        /\ \A i \in Reloads : rl[i].pc \in {"none", "checker", "returned"}
        /\ \A g \in Gens \ {1} : reb[g].loop = "none"
        /\ reb[1].checker = 1 /\ lrb \in {0, 1}
        /\ lrb = 1 /\ ~listening => reb[1].loop = "new" /\ reb[1].prev = Unseen
        /\ reb[1].loop \in {"new", "starting", "running"} /\ reb[1].prev = Unseen
              => weights = Weights(reb[1].cfg.w)

LBInv == TypeOK /\ GenerationsLeft /\ WeightsComplement /\ SeenBoth /\ FirstGeneration
         /\ HealthyMeansConfigured

\* No callback is at work in the listener while another one waits there for a
\* loop, as is the case when only one reload replaces the checker. The one that
\* waits then waits for the listener's own loop, which it told to stop.
InListener(i) == rl[i].pc \in {"attach", "attach_wait", "refresh", "refresh_wait"}
Waiting(i)    == rl[i].pc \in {"attach_wait", "refresh_wait"}
Undisturbed   == \A i, j \in Reloads : i # j /\ Waiting(i) /\ InListener(j) => rl'[j].pc = rl[j].pc
WaitsForOwn   == \A i \in Reloads : Waiting(i) => lrb = rl[i].wait /\ lrb # 0 /\ reb[lrb].stopped
=============================================================================
