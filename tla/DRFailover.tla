----------------------------- MODULE DRFailover -----------------------------
(***************************************************************************)
(* Autonomous failover of one active_passive business unit.                *)
(*                                                                         *)
(* Four kinds of goroutine act on the BU's DR state:                       *)
(*   - the failover Manager's loop ("sync"), which feeds the checker's     *)
(*     snapshot to the BU's Controller and lets it Evaluate                *)
(*     (internal/failover/manager.go, controller.go);                      *)
(*   - the reload callbacks of cmd/proxy/main.go, which enter DRAINING and *)
(*     then replace the checker and the controllers; they run on timer     *)
(*     goroutines outside the reloader's lock, so that several overlap;    *)
(*   - the drain timers, which run DrainManager.forceCloseOld and complete *)
(*     the drain (internal/proxy/drain.go, dr_coordinator.go);             *)
(*   - the environment: cluster health as the checker reports it, time.    *)
(*                                                                         *)
(* StateMachine.Transition locks twice (read, then compare-and-commit) and *)
(* runs its callbacks after the unlock, so a call of it is three steps of  *)
(* the calling goroutine: "read", "commit", "callback".                    *)
(***************************************************************************)
EXTENDS DRStates, Naturals, Sequences

CONSTANTS
    FailureThreshold,   \* effective failure_threshold of the Controller
    RecoveryThreshold,  \* effective recovery_threshold
    Cooldown,           \* min_time_between_failovers, in ticks; 0 = none
    Window,             \* circuit_breaker_window, in ticks; 0 = no breaker
    MaxFailovers,       \* circuit_breaker_max_failovers; 0 = no breaker
    AutoFailback,       \* auto_failback
    InitConfig,         \* configuration of the BU when the process starts
    Configs,            \* the configurations a reload may install
    Faulty,             \* clusters whose reported health may change
    TimerIds,           \* identities for drain timers alive at the same time
    ReloadIds,          \* identities for reload callbacks running at the same time
    MaxReloads          \* bound: number of reloads in a behaviour

\* The BU's part of a configuration; NoConfig when it is not (or not as an
\* active_passive BU) in the configuration.
NoConfig == [active |-> NoCluster, auto |-> FALSE]
Config == [active : Cluster, auto : BOOLEAN] \cup {NoConfig}

ASSUME ThresholdAssumption ==
    FailureThreshold \in Nat \ {0} /\ RecoveryThreshold \in Nat \ {0}
ASSUME BreakerAssumption ==
    Cooldown \in Nat /\ Window \in Nat /\ MaxFailovers \in Nat
ASSUME ConfigAssumption ==
    AutoFailback \in BOOLEAN /\ InitConfig \in Config /\ Configs \subseteq Config
ASSUME EnvAssumption == Faulty \subseteq Cluster /\ MaxReloads \in Nat
ASSUME TimerAssumption ==
    /\ "sync" \notin TimerIds \cup ReloadIds /\ NoCluster \notin TimerIds
    /\ TimerIds \cap ReloadIds = {}

VARIABLES
    state,      \* the BU's entry in the StateMachine, NoState if it has none
    tr,         \* per goroutine: the Transition call it is executing
    drain,      \* the BU's entry in DrainManager.drains, or NoDrain
    timer,      \* per timer identity: where forceCloseOld stands
    checker,    \* per cluster: Healthy in the manager's checker snapshot, or
                \* NotChecked if that checker does not know the BU
    newChecker, \* main's healthChecker, as long as the manager has not got it
    ctrls,      \* the Controller objects that are still in use
    installed,  \* the controller in Manager.controllers
    spc, sgen, sfrom,  \* Manager.sync: pc, controller in use, state it left
    cfg,        \* the BU's current configuration
    reload,     \* per reload callback: pc and the configuration it applies
    reloads     \* number of reloads so far, for the bound

syncVars == <<spc, sgen, sfrom>>
vars == <<state, tr, drain, timer, checker, newChecker, ctrls, installed, syncVars, cfg, reload, reloads>>

Goroutine == {"sync"} \cup ReloadIds \cup TimerIds
\* Two controllers of the BU are in use at most: the installed one and an older
\* one that a round of Manager.sync started with.
Generation == {0, 1}
NoDrain == [old |-> NoCluster, new |-> NoCluster, timer |-> NoCluster]
NoCall  == [pc |-> "none", to |-> NoState, from |-> NoState]
Idle    == [pc |-> "free", old |-> NoCluster, new |-> NoCluster]
NoReload == [pc |-> "idle", conf |-> NoConfig]
NotChecked == << >>
AllHealthy == [c \in Cluster |-> TRUE]

-----------------------------------------------------------------------------
(***************************************************************************)
(* The Controller: pure operators on one controller record. Time is kept   *)
(* as ages in ticks: since = time since lastFailoverAt, stamps = the ages  *)
(* of failoverTimestamps. The code's counters and ages grow without bound; *)
(* a value is kept here only up to the threshold it is compared with,      *)
(* since no comparison tells larger values apart (operator UpTo).          *)
(***************************************************************************)
UpTo(n, cap) == IF n < cap THEN n + 1 ELSE cap

ControllerRecord ==
              [present    : BOOLEAN,
               active     : Cluster \cup {NoCluster},
               healthy    : [Cluster -> BOOLEAN],
               fails      : [Cluster -> Nat],
               succs      : [Cluster -> Nat],
               since      : 0..Cooldown,
               stamps     : Seq(0..Window),
               broken     : BOOLEAN,
               lastActive : {NoState, "PRIMARIO", "SECUNDARIO"}]

\* The verdict on a cluster agrees with its streak of results.
VerdictAgrees(c, cl) ==
    IF c.healthy[cl] THEN c.fails[cl] < FailureThreshold ELSE c.succs[cl] < RecoveryThreshold

Controller == {c \in ControllerRecord : \A cl \in Cluster : VerdictAgrees(c, cl)}

\* A new controller knows nothing: both clusters count as unhealthy, and the
\* zero lastFailoverAt lies before every cooldown. Reconfigure makes one only
\* for a BU with auto_failover: present says whether the map has it.
NewController(conf) ==
    [present    |-> conf.auto,
     active     |-> conf.active,
     healthy    |-> [c \in Cluster |-> FALSE],
     fails      |-> [c \in Cluster |-> 0],
     succs      |-> [c \in Cluster |-> 0],
     since      |-> Cooldown,
     stamps     |-> << >>,
     broken     |-> FALSE,
     lastActive |-> NoState]

\* Mutant: a cluster comes up only after one success more than the threshold.
RecordUpLate(c, cl, ok) ==
    LET fails == IF ok THEN 0 ELSE UpTo(c.fails[cl], FailureThreshold)
    IN  [c EXCEPT !.fails[cl]   = fails,
                  !.succs[cl]   = IF ok THEN UpTo(@, RecoveryThreshold) ELSE 0,
                  !.healthy[cl] = IF ok THEN @ \/ c.succs[cl] >= RecoveryThreshold
                                        ELSE @ /\ fails < FailureThreshold]

\* Mutant: failures are counted but never take a cluster down.
RecordNeverDown(c, cl, ok) ==
    LET succs == IF ok THEN UpTo(c.succs[cl], RecoveryThreshold) ELSE 0
    IN  [c EXCEPT !.fails[cl]   = IF ok THEN 0 ELSE UpTo(@, FailureThreshold),
                  !.succs[cl]   = succs,
                  !.healthy[cl] = @ \/ succs >= RecoveryThreshold]

\* Hysteresis of one cluster: RecoveryThreshold consecutive healthy snapshots
\* bring it up, FailureThreshold consecutive unhealthy ones bring it down.
RecordHealthResult(c, cl, ok) ==
    LET fails == IF ok THEN 0 ELSE UpTo(c.fails[cl], FailureThreshold)
        succs == IF ok THEN UpTo(c.succs[cl], RecoveryThreshold) ELSE 0
    IN  [c EXCEPT !.fails[cl]   = fails,
                  !.succs[cl]   = succs,
                  !.healthy[cl] = IF ok THEN @ \/ succs >= RecoveryThreshold
                                        ELSE @ /\ fails < FailureThreshold]

\* Drop the leading timestamps that have left the sliding window.
pruneFailoverTimestamps(stamps) ==
    LET live  == {i \in DOMAIN stamps : stamps[i] < Window}
        first == CHOOSE i \in live : \A j \in live : i <= j
    IN  IF live = {} THEN << >> ELSE SubSeq(stamps, first, Len(stamps))

HasBreaker == MaxFailovers > 0 /\ Window > 0

\* Mutant: the cooldown check is lost.
canFailoverNoCooldown(c) ==
    HasBreaker => Len(pruneFailoverTimestamps(c.stamps)) < MaxFailovers

canFailover(c) ==
    /\ c.since >= Cooldown
    /\ HasBreaker => Len(pruneFailoverTimestamps(c.stamps)) < MaxFailovers

Primary(c)   == c.healthy["primary"]
Secondary(c) == c.healthy["secondary"]

\* active_passive, at least one cluster healthy: fail over, fail back, or
\* abort a drain once only one of the clusters is healthy.
ActivePassiveDecision(c, current) ==
    IF \/ current = "PRIMARIO" /\ ~Primary(c) /\ Secondary(c)
       \/ current = "SECUNDARIO" /\ Primary(c) /\ AutoFailback
    THEN IF canFailover(c) THEN "DRAINING" ELSE NoState
    ELSE IF current = "DRAINING" /\ Primary(c) /\ ~Secondary(c) THEN "PRIMARIO"
    ELSE IF current = "DRAINING" /\ ~Primary(c) /\ Secondary(c) THEN "SECUNDARIO"
    ELSE NoState

\* Mutant: after BOTH_DOWN only the primary is waited for.
BothDownDecisionPrimaryOnly(c, current) ==
    IF ~Primary(c) /\ ~Secondary(c)
    THEN IF current = "BOTH_DOWN" THEN NoState ELSE "BOTH_DOWN"
    ELSE IF Primary(c) THEN "PRIMARIO" ELSE NoState

\* What Evaluate asks for when both clusters are down, or after that.
BothDownDecision(c, current) ==
    IF ~Primary(c) /\ ~Secondary(c)
    THEN IF current = "BOTH_DOWN" THEN NoState ELSE "BOTH_DOWN"
    ELSE IF Primary(c) THEN "PRIMARIO" ELSE "SECUNDARIO"

\* Mutant: the tripped breaker only stops failovers, not the BOTH_DOWN logic.
DecisionBreakerLate(c, current) ==
    IF (~Primary(c) /\ ~Secondary(c)) \/ current = "BOTH_DOWN"
    THEN BothDownDecision(c, current)
    ELSE IF c.broken THEN NoState ELSE ActivePassiveDecision(c, current)

\* What Evaluate asks the StateMachine for, given the state it read.
Decision(c, current) ==
    IF c.broken THEN NoState
    ELSE IF (~Primary(c) /\ ~Secondary(c)) \/ current = "BOTH_DOWN"
    THEN BothDownDecision(c, current)
    ELSE ActivePassiveDecision(c, current)

\* triggerFailover before and after its Transition call. canFailover, which
\* allowed it, pruned the window (a refusal prunes it too, but what it drops
\* never counts again, so that is left to the next use).
FailoverStarted(c) ==
    [c EXCEPT !.since  = 0,
              !.stamps = Append(IF HasBreaker THEN pruneFailoverTimestamps(@) ELSE @, 0)]

FailoverRecorded(c) ==
    IF HasBreaker
    THEN LET kept == pruneFailoverTimestamps(c.stamps)
         IN  [c EXCEPT !.stamps = kept,
                       !.broken = @ \/ Len(kept) >= MaxFailovers]
    ELSE c

\* The tail of enterBothDown: remember the cluster to hold. Out of DRAINING it
\* is taken to be the opposite of the configured active cluster.
BothDownEntered(c, from) ==
    [c EXCEPT !.lastActive =
        IF from = "DRAINING" THEN StateOf(Opposite(c.active)) ELSE from]

\* BothDownActiveCluster as TargetForRouting reads it: without a remembered
\* state the getter returns the configured cluster's name, which routing does
\* not recognise as a state, and so takes the primary.
BothDownTarget(c) == IF c.present THEN stateToTarget(c.lastActive) ELSE "primary"

\* One tick of the clock, as the controller's ages see it.
Aged(c) == [c EXCEPT !.since  = UpTo(@, Cooldown),
                     !.stamps = [i \in DOMAIN @ |-> UpTo(@[i], Window)]]
-----------------------------------------------------------------------------
TypeOK ==
    /\ state \in BUState \cup {NoState}
    /\ tr \in [Goroutine -> [pc   : {"none", "read", "commit", "callback"},
                             to   : BUState \cup {NoState},
                             from : BUState \cup {NoState}]]
    /\ drain \in [old : Cluster, new : Cluster, timer : TimerIds] \cup {NoDrain}
    /\ timer \in [TimerIds -> [pc  : {"free", "armed", "close", "delete", "complete"},
                               old : Cluster \cup {NoCluster},
                               new : Cluster \cup {NoCluster}]]
    /\ checker \in [Cluster -> BOOLEAN] \cup {NotChecked}
    /\ newChecker \in {"given", "watching", "blind"}
    /\ ctrls \in [Generation -> Controller]
    /\ installed \in Generation
    /\ spc \in {"idle", "evaluate", "both_down", "triggered"}
    /\ sgen \in Generation
    /\ sfrom \in BUState \cup {NoState}
    /\ cfg \in Config
    /\ reload \in [ReloadIds -> [pc   : {"idle", "reconfigure", "set_checker"},
                                 conf : Config]]
    /\ reloads \in 0..MaxReloads

\* What a checker made for configuration conf reports at first: its clusters
\* are healthy until checks fail.
Checker(conf) == IF conf = NoConfig THEN NotChecked ELSE AllHealthy

\* main.go: the StateMachine starts in the state of the configured active
\* cluster of every active_passive BU it finds in the configuration.
Init ==
    /\ state = IF InitConfig = NoConfig THEN NoState ELSE StateOf(InitConfig.active)
    /\ tr = [g \in Goroutine |-> NoCall]
    /\ drain = NoDrain
    /\ timer = [t \in TimerIds |-> Idle]
    /\ checker = Checker(InitConfig)
    /\ newChecker = "given"
    /\ ctrls = [g \in Generation |-> NewController(InitConfig)]
    /\ installed = 0
    /\ spc = "idle" /\ sgen = 0 /\ sfrom = NoState
    /\ cfg = InitConfig
    /\ reload = [r \in ReloadIds |-> NoReload]
    /\ reloads = 0
-----------------------------------------------------------------------------
(***************************************************************************)
(* StateMachine.Transition, executed by goroutine g.                       *)
(***************************************************************************)
Call(to) == [pc |-> "read", to |-> to, from |-> NoState]

\* Callbacks run after the commit; only DRAINING has one with an effect.
Committed(call) == IF call.to = "DRAINING" THEN [call EXCEPT !.pc = "callback"] ELSE NoCall

\* StateMachine.State: a BU without an entry counts as on its primary.
Current == IF state = NoState THEN "PRIMARIO" ELSE state

\* A BU without an entry gets one in the requested state, whatever that is, and
\* the callbacks see the empty state as the one it left.
TransitionCreate(g) ==
    /\ tr[g].pc = "read" /\ state = NoState
    /\ state' = tr[g].to
    /\ tr' = [tr EXCEPT ![g] = Committed(@)]
    /\ UNCHANGED <<drain, timer, checker, newChecker, ctrls, installed, syncVars, cfg, reload, reloads>>

\* First critical section: read the state; a self-transition and an edge that
\* is not in the graph return at once (callers drop the error).
TransitionRead(g) ==
    /\ tr[g].pc = "read" /\ state # NoState
    /\ tr' = [tr EXCEPT ![g] =
                IF state # tr[g].to /\ isValidTransition(state, tr[g].to)
                THEN [@ EXCEPT !.pc = "commit", !.from = state]
                ELSE NoCall]
    /\ UNCHANGED <<state, drain, timer, checker, newChecker, ctrls, installed, syncVars, cfg, reload, reloads>>

\* Mutant: commit without re-reading the state under the lock.
TransitionCommitUnchecked(g) ==
    /\ tr[g].pc = "commit"
    /\ state' = tr[g].to
    /\ tr' = [tr EXCEPT ![g] = Committed(@)]
    /\ UNCHANGED <<drain, timer, checker, newChecker, ctrls, installed, syncVars, cfg, reload, reloads>>

\* Second critical section: commit unless another goroutine moved the state
\* since the read.
TransitionCommit(g) ==
    /\ tr[g].pc = "commit"
    /\ IF state = tr[g].from
       THEN /\ state' = tr[g].to
            /\ tr' = [tr EXCEPT ![g] = Committed(@)]
       ELSE /\ tr' = [tr EXCEPT ![g] = NoCall]
            /\ UNCHANGED state
    /\ UNCHANGED <<drain, timer, checker, newChecker, ctrls, installed, syncVars, cfg, reload, reloads>>

\* The timer of a drain can be stopped only while it is armed; once it fired,
\* its goroutine runs to the end.
TimerFree(t) == timer[t].pc = "free" /\ tr[t].pc = "none"
Stoppable(t) == drain.timer = t /\ timer[t].pc = "armed"

\* Mutant: every drain goes to the cluster DRAINING maps to.
DrainTargetFallback(from) == stateToTarget("DRAINING")

\* Where a drain out of state from goes: the other cluster, but from the empty
\* state of a new BU what stateToTarget makes of DRAINING.
DrainTarget(from) ==
    IF from \in {"PRIMARIO", "SECUNDARIO"} THEN Opposite(stateToTarget(from))
                                           ELSE stateToTarget("DRAINING")

\* The coordinator's callback on DRAINING: DrainManager.StartDrain from the
\* cluster of the state that was left, replacing any drain.
StartDrain(g) ==
    /\ tr[g].pc = "callback"
    /\ \E t \in TimerIds :
        /\ TimerFree(t) \/ Stoppable(t)
        /\ LET old == stateToTarget(tr[g].from)
           IN  /\ drain' = [old |-> old, new |-> DrainTarget(tr[g].from), timer |-> t]
               /\ timer' = [u \in TimerIds |->
                    IF u = t THEN [pc |-> "armed", old |-> old, new |-> NoCluster]
                    ELSE IF Stoppable(u) THEN Idle ELSE timer[u]]
    /\ tr' = [tr EXCEPT ![g] = NoCall]
    /\ UNCHANGED <<state, checker, newChecker, ctrls, installed, syncVars, cfg, reload, reloads>>
-----------------------------------------------------------------------------
(***************************************************************************)
(* Drain timers: DrainManager.forceCloseOld and the coordinator's          *)
(* drain-complete callback, executed by the timer's goroutine.             *)
(***************************************************************************)
TimerFires(t) ==
    /\ timer[t].pc = "armed"
    /\ timer' = [timer EXCEPT ![t].pc = "close"]
    /\ UNCHANGED <<state, tr, drain, checker, newChecker, ctrls, installed, syncVars, cfg, reload, reloads>>

\* Connections on the old cluster are closed (module DRRouting says which); what
\* follows only logs that cluster.
ForceClose(t) ==
    /\ timer[t].pc = "close"
    /\ timer' = [timer EXCEPT ![t] = [Idle EXCEPT !.pc = "delete"]]
    /\ UNCHANGED <<state, tr, drain, checker, newChecker, ctrls, installed, syncVars, cfg, reload, reloads>>

\* Mutant: the finished drain is left in the map.
DrainDeleteForgotten(t) ==
    /\ timer[t].pc = "delete"
    /\ timer' = [timer EXCEPT ![t].pc = "complete", ![t].new = drain.new]
    /\ UNCHANGED <<state, tr, drain, checker, newChecker, ctrls, installed, syncVars, cfg, reload, reloads>>

\* Mutant: the map entry is read after it was deleted.
DrainDeleteThenRead(t) ==
    /\ timer[t].pc = "delete"
    /\ timer' = [timer EXCEPT ![t].pc = "complete"]
    /\ drain' = NoDrain
    /\ UNCHANGED <<state, tr, checker, newChecker, ctrls, installed, syncVars, cfg, reload, reloads>>

\* Mutant: the completion is dropped for a drain that is not the timer's own.
DrainDeleteOwnOnly(t) ==
    /\ timer[t].pc = "delete"
    /\ timer' = [timer EXCEPT ![t].pc = "complete",
                              ![t].new = IF drain.timer = t THEN drain.new ELSE NoCluster]
    /\ drain' = NoDrain
    /\ UNCHANGED <<state, tr, checker, newChecker, ctrls, installed, syncVars, cfg, reload, reloads>>

\* Whatever drain is current is taken out, be it this timer's or a newer one.
DrainDelete(t) ==
    /\ timer[t].pc = "delete"
    /\ timer' = [timer EXCEPT ![t].pc = "complete", ![t].new = drain.new]
    /\ drain' = NoDrain
    /\ UNCHANGED <<state, tr, checker, newChecker, ctrls, installed, syncVars, cfg, reload, reloads>>

\* Finish the transition, unless the BU has left DRAINING or no drain was found.
DrainComplete(t) ==
    /\ timer[t].pc = "complete"
    /\ timer' = [timer EXCEPT ![t] = Idle]
    /\ IF state = "DRAINING" /\ timer[t].new # NoCluster
       THEN tr' = [tr EXCEPT ![t] = Call(StateOf(timer[t].new))]
       ELSE UNCHANGED tr
    /\ UNCHANGED <<state, drain, checker, newChecker, ctrls, installed, syncVars, cfg, reload, reloads>>
-----------------------------------------------------------------------------
(***************************************************************************)
(* Manager.sync. Between Evaluate and the end of the Transition it called  *)
(* the goroutine holds the controller's mutex.                             *)
(***************************************************************************)
ControllerLocked == spc \in {"both_down", "triggered"} \/ tr["sync"].pc # "none"
SyncDone == spc = "idle" /\ tr["sync"].pc = "none"

\* A controller no goroutine can reach any more is garbage.
Live(reachable) ==
    [g \in Generation |-> IF g \in reachable THEN ctrls[g] ELSE NewController(InitConfig)]

\* One round: pick the installed controller, record both snapshot values.
SyncRecord ==
    /\ SyncDone
    /\ ctrls[installed].present /\ checker # NotChecked
    /\ sgen' = installed
    /\ ctrls' = [Live({installed}) EXCEPT ![installed] =
                    RecordHealthResult(
                        RecordHealthResult(@, "primary", checker["primary"]),
                        "secondary", checker["secondary"])]
    /\ spc' = "evaluate"
    /\ UNCHANGED <<state, tr, drain, timer, checker, newChecker, installed, sfrom, cfg, reload, reloads>>

\* Evaluate reads the state and decides; the four outcomes.
EvaluateNone ==
    /\ spc = "evaluate"
    /\ Decision(ctrls[sgen], Current) = NoState
    /\ spc' = "idle"
    /\ UNCHANGED <<state, tr, drain, timer, checker, newChecker, ctrls, installed, sgen, sfrom, cfg, reload, reloads>>

EvaluateBothDown ==
    /\ spc = "evaluate"
    /\ Decision(ctrls[sgen], Current) = "BOTH_DOWN"
    /\ tr' = [tr EXCEPT !["sync"] = Call("BOTH_DOWN")]
    /\ sfrom' = Current
    /\ spc' = "both_down"
    /\ UNCHANGED <<state, drain, timer, checker, newChecker, ctrls, installed, sgen, cfg, reload, reloads>>

\* Recovery from BOTH_DOWN, or an aborted drain.
EvaluateRestore ==
    /\ spc = "evaluate"
    /\ Decision(ctrls[sgen], Current) \in {"PRIMARIO", "SECUNDARIO"}
    /\ tr' = [tr EXCEPT !["sync"] = Call(Decision(ctrls[sgen], Current))]
    /\ spc' = "idle"
    /\ UNCHANGED <<state, drain, timer, checker, newChecker, ctrls, installed, sgen, sfrom, cfg, reload, reloads>>

EvaluateFailover ==
    /\ spc = "evaluate"
    /\ Decision(ctrls[sgen], Current) = "DRAINING"
    /\ tr' = [tr EXCEPT !["sync"] = Call("DRAINING")]
    /\ ctrls' = [ctrls EXCEPT ![sgen] = FailoverStarted(@)]
    /\ spc' = "triggered"
    /\ UNCHANGED <<state, drain, timer, checker, newChecker, installed, sgen, sfrom, cfg, reload, reloads>>

\* After the Transition returned, whatever came of it.
BothDownReturn ==
    /\ spc = "both_down" /\ tr["sync"].pc = "none"
    /\ ctrls' = [ctrls EXCEPT ![sgen] = BothDownEntered(@, sfrom)]
    /\ spc' = "idle" /\ sfrom' = NoState
    /\ UNCHANGED <<state, tr, drain, timer, checker, newChecker, installed, sgen, cfg, reload, reloads>>

FailoverReturn ==
    /\ spc = "triggered" /\ tr["sync"].pc = "none"
    /\ ctrls' = [ctrls EXCEPT ![sgen] = FailoverRecorded(@)]
    /\ spc' = "idle"
    /\ UNCHANGED <<state, tr, drain, timer, checker, newChecker, installed, sgen, sfrom, cfg, reload, reloads>>
-----------------------------------------------------------------------------
(***************************************************************************)
(* The reload callbacks. Reload swaps the configuration under its lock and *)
(* then runs the callback with the old and the new one. A changed active   *)
(* cluster, or a BU that was not in the old configuration, asks for        *)
(* DRAINING; every callback that sees a change of some BU replaces the     *)
(* checker and all controllers.                                            *)
(***************************************************************************)
ReloadBegin(r, conf) ==
    /\ reload[r].pc = "idle" /\ reloads < MaxReloads
    /\ cfg' = conf /\ reloads' = reloads + 1
    /\ tr' = [tr EXCEPT ![r] =
                IF conf # NoConfig /\ conf.active # cfg.active THEN Call("DRAINING") ELSE @]
    /\ reload' = [reload EXCEPT ![r] = [pc |-> "reconfigure", conf |-> conf]]
    /\ UNCHANGED <<state, drain, timer, checker, newChecker, ctrls, installed, syncVars>>

\* DiffClusters finds no change in any BU: the callback returns at once.
ReloadUnnoticed(conf) ==
    /\ conf.active = cfg.active /\ reloads < MaxReloads
    /\ cfg' = conf /\ reloads' = reloads + 1
    /\ UNCHANGED <<state, tr, drain, timer, checker, newChecker, ctrls, installed, syncVars, reload>>

\* Stop main's checker, start a new one, and replace the controllers by those of
\* this callback's configuration. The manager's checker, which is stopped,
\* reports frozen values until SetChecker.
Reconfigure(r) ==
    /\ reload[r].pc = "reconfigure" /\ tr[r].pc = "none"
    /\ installed' = 1 - sgen
    /\ ctrls' = [Live(IF SyncDone THEN {} ELSE {sgen})
                    EXCEPT ![1 - sgen] = NewController(reload[r].conf)]
    /\ newChecker' = IF reload[r].conf = NoConfig THEN "blind" ELSE "watching"
    /\ reload' = [reload EXCEPT ![r] = [NoReload EXCEPT !.pc = "set_checker"]]
    /\ UNCHANGED <<state, tr, drain, timer, checker, syncVars, cfg, reloads>>

\* Give the manager whatever checker main's variable holds by now, which may be
\* that of another callback, and one the manager already has.
SetChecker(r) ==
    /\ reload[r].pc = "set_checker"
    /\ checker' = CASE newChecker = "given"    -> checker
                     [] newChecker = "watching" -> AllHealthy
                     [] newChecker = "blind"    -> NotChecked
    /\ newChecker' = "given"
    /\ reload' = [reload EXCEPT ![r] = NoReload]
    /\ UNCHANGED <<state, tr, drain, timer, ctrls, installed, syncVars, cfg, reloads>>
-----------------------------------------------------------------------------
(***************************************************************************)
(* Environment: the checker's verdict on a cluster changes; time passes.   *)
(* A round reads the verdicts once, at its start, and the ages only in     *)
(* Evaluate and when a failover is recorded, so changes in between are     *)
(* taken before the round or after it.                                     *)
(***************************************************************************)
HealthChanges(c) ==
    /\ SyncDone /\ newChecker = "given" /\ c \in DOMAIN checker
    /\ checker' = [checker EXCEPT ![c] = ~@]
    /\ UNCHANGED <<state, tr, drain, timer, newChecker, ctrls, installed, syncVars, cfg, reload, reloads>>

Tick ==
    /\ SyncDone \/ spc = "triggered"
    /\ ctrls' = [g \in Generation |-> Aged(ctrls[g])]
    /\ UNCHANGED <<state, tr, drain, timer, checker, newChecker, installed, syncVars, cfg, reload, reloads>>

TransitionStep(g) ==
    TransitionCreate(g) \/ TransitionRead(g) \/ TransitionCommit(g) \/ StartDrain(g)
TimerStep(t) == TimerFires(t) \/ ForceClose(t) \/ DrainDelete(t) \/ DrainComplete(t)
SyncStep == SyncRecord \/ EvaluateNone \/ EvaluateBothDown \/ EvaluateRestore
            \/ EvaluateFailover \/ BothDownReturn \/ FailoverReturn

Next ==
    \/ \E g \in Goroutine : TransitionStep(g)
    \/ \E t \in TimerIds : TimerStep(t)
    \/ SyncStep
    \/ \E r \in ReloadIds, conf \in Configs : ReloadBegin(r, conf)
    \/ \E conf \in Configs : ReloadUnnoticed(conf)
    \/ \E r \in ReloadIds : Reconfigure(r) \/ SetChecker(r)
    \/ \E c \in Faulty : HealthChanges(c)
    \/ Tick

\* Goroutines are scheduled, timers fire, the ticker runs and time passes. No
\* fairness for reloads (an operator's choice) or health changes (the world's).
Fairness ==
    /\ \A g \in Goroutine : WF_vars(TransitionStep(g))
    /\ \A t \in TimerIds : WF_vars(TimerStep(t))
    /\ WF_vars(SyncStep)
    /\ \A r \in ReloadIds : WF_vars(Reconfigure(r) \/ SetChecker(r))
    /\ SF_vars(Tick)

Spec == Init /\ [][Next]_vars
FairSpec == Spec /\ Fairness
-----------------------------------------------------------------------------
(***************************************************************************)
(* Properties.                                                             *)
(***************************************************************************)
\* A goroutine that still owes the BU a way out of DRAINING: it is about to
\* start the drain, or it took a drain out and is about to complete it.
WillStart(g) == tr[g].pc = "callback"
WillComplete(t) ==
    \/ timer[t].pc = "complete" /\ timer[t].new # NoCluster
    \/ tr[t].pc = "read"
    \/ tr[t].pc = "commit" /\ tr[t].from = "DRAINING"

\* A BU in DRAINING always has a drain in progress or a goroutine on its way
\* to start or to complete one: no interleaving of Transition's commit, the
\* StartDrain callback, stale timers and aborts strands the BU in DRAINING.
DrainingNotOrphaned ==
    state = "DRAINING" => \/ drain # NoDrain
                          \/ \E g \in Goroutine : WillStart(g)
                          \/ \E t \in TimerIds : WillComplete(t)

\* The drain in the DrainManager's map belongs to a timer that has yet to
\* take a drain out: it is never left in the map after its timer is gone, so
\* IsDraining cannot stay true forever.
DrainHasTimer ==
    drain # NoDrain => timer[drain.timer].pc \in {"armed", "close", "delete"}

\* The installed controller can always lead the BU out of BOTH_DOWN: its
\* circuit breaker, which silences Evaluate, is not tripped there.
BothDownRecoverable == state = "BOTH_DOWN" => ~ctrls[installed].broken

\* Once the BU has an entry its DR state only moves along the graph of state.go,
\* although Transition validates in one critical section and commits in another.
StateFollowsGraph == [][state # NoState => isValidTransition(state, state')]_state

\* Failovers that one controller counts in its window are at least the
\* cooldown apart (min_time_between_failovers), whatever the interleaving.
FailoversSpaced ==
    \A g \in Generation :
        LET st == ctrls[g].stamps
        IN  \A i \in 1..(Len(st) - 1) :
                st[i] < Window => st[i] >= st[i + 1] + Cooldown

\* Every DRAINING ends.
DrainingEnds == state = "DRAINING" ~> state # "DRAINING"

\* The manager's checker reports cluster c healthy.
Up(c) == c \in DOMAIN checker /\ checker[c]

\* As long as the checker reports one fixed cluster healthy, a managed BU does
\* not stay in BOTH_DOWN.
BothDownEnds ==
    \A c \in Cluster :
        []<>(\/ state # "BOTH_DOWN"
             \/ ~Up(c)
             \/ ~ctrls[installed].present)

\* A primary outage with a healthy secondary moves a managed BU off the
\* primary, unless the circuit breaker tripped.
FailoverHappens ==
    []<>(\/ state = "SECUNDARIO"
         \/ Up("primary") \/ ~Up("secondary")
         \/ ~ctrls[installed].present \/ ctrls[installed].broken)

\* What README.md says of hot reload: changing active: leads, through a drain,
\* to the configured cluster, unless the configuration changes again. The
\* Transition of a callback that finds the BU in DRAINING does nothing.
ReloadTakesEffect ==
    \A c \in Cluster :
        cfg.active = c ~> (state = StateOf(c) \/ cfg.active # c)

\* A callback that is about to ask for DRAINING while the BU is settled on the
\* cluster that is not the configured one leads it to the configured cluster,
\* whatever other callbacks do, unless the configuration changes again.
SettledSwitchTakesEffect ==
    \A c \in Cluster, r \in ReloadIds :
        (cfg.active = c /\ state = StateOf(Opposite(c)) /\ tr[r].pc = "read")
            ~> (state = StateOf(c) \/ cfg.active # c)
-----------------------------------------------------------------------------
(***************************************************************************)
(* The inductive invariant of DRFailover_proofs: what each goroutine may   *)
(* be asking the StateMachine for, and what the sync goroutine knows.      *)
(***************************************************************************)
CallsOK ==
    /\ \A g \in Goroutine :
         /\ tr[g].pc = "commit" => isValidTransition(tr[g].from, tr[g].to)
         /\ tr[g].pc = "callback" => tr[g].to = "DRAINING"
    /\ \A t \in TimerIds : tr[t].pc # "none" => tr[t].to \in {"PRIMARIO", "SECUNDARIO"}
    /\ \A r \in ReloadIds :
         tr[r].pc # "none" => reload[r].pc = "reconfigure" /\ tr[r].to = "DRAINING"
    /\ tr["sync"].pc # "none" =>
         \/ spc = "idle" /\ tr["sync"].to \in {"PRIMARIO", "SECUNDARIO"}
         \/ spc = "both_down" /\ tr["sync"].to = "BOTH_DOWN"
         \/ spc = "triggered" /\ tr["sync"].to = "DRAINING"

SyncOK ==
    /\ spc = "both_down" => /\ sfrom \in {"PRIMARIO", "SECUNDARIO", "DRAINING"}
                            /\ ~ctrls[sgen].broken
    /\ spc = "triggered" => state # "BOTH_DOWN"

GenerationsOK == sgen # installed => ~ctrls[installed].broken

IInv == TypeOK /\ CallsOK /\ SyncOK /\ GenerationsOK
        /\ DrainHasTimer /\ DrainingNotOrphaned /\ BothDownRecoverable

\* What makes FailoversSpaced inductive: the youngest failover in the window
\* is at least as old as since, which canFailover compares with the cooldown.
Spaced(stamps, since) ==
    /\ \A i \in 1..(Len(stamps) - 1) :
         stamps[i] < Window => stamps[i] >= stamps[i + 1] + Cooldown
    /\ \A i \in DOMAIN stamps :
         i = Len(stamps) /\ stamps[i] < Window => stamps[i] >= since

SpacedIInv == \A g \in Generation : Spaced(ctrls[g].stamps, ctrls[g].since)
=============================================================================
