----------------------------- MODULE DRRouting -----------------------------
(***************************************************************************)
(* Client connections on top of DRFailover: how a new connection of an     *)
(* active_passive BU finds its cluster (upstreamTarget in connection.go,   *)
(* TargetForRouting in dr_coordinator.go), registers with the DrainManager *)
(* and is closed by its client or by a drain timer.                        *)
(*                                                                         *)
(* TargetForRouting reads the DR state, then - after that lock is gone -   *)
(* the drain or the controller, and the connection registers later still.  *)
(***************************************************************************)
EXTENDS DRFailover, Integers, FiniteSets

CONSTANT Conns     \* client connections alive at the same time

ASSUME ConnsAssumption == IsFiniteSet(Conns)

VARIABLES
    conn,          \* per connection: where its handler stands
    count,         \* buConnTracker.count
    held           \* history only: where this stay in BOTH_DOWN, under this
                   \* controller, sent its first connection, or NoCluster

rvars == <<vars, conn, count, held>>

\* A connection is routed, counted, then in the tracker's map ("open"). A drain
\* timer takes it out of the map ("taken", by that timer) and later closes and
\* uncounts it; the handler may be gone by then ("gone").
\* after: history only, the drain timers that were already started when the
\* handler began to route this connection.
NoTimer == NoDrain.timer
Absent == [pc |-> "absent", target |-> NoCluster, by |-> NoTimer, after |-> {}]

Connection == [pc : {"absent", "read_drain", "read_hold", "routed", "counted", "open",
                     "taken", "gone"},
               target : Cluster \cup {NoCluster},
               by : TimerIds \cup {NoTimer},
               after : SUBSET TimerIds]

\* A connection that is routed has a cluster, also when TargetForRouting finds
\* the BU in DRAINING without a drain, or in BOTH_DOWN without a held state.
RTypeOK ==
    /\ TypeOK
    /\ conn \in [Conns -> Connection]
    /\ \A c \in Conns : conn[c].pc \in {"routed", "counted", "open"} => conn[c].target \in Cluster
    /\ count \in Int
    /\ held \in Cluster \cup {NoCluster}

RInit ==
    /\ Init
    /\ conn = [c \in Conns |-> Absent]
    /\ count = 0
    /\ held = NoCluster

Started == {t \in TimerIds : timer[t].pc # "free"}

\* TargetForRouting, first read: the DR state of a configured BU.
RouteRead(c) ==
    /\ conn[c].pc = "absent" /\ cfg # NoConfig
    /\ conn' = [conn EXCEPT ![c] =
         [Absent EXCEPT !.after = Started,
             !.pc = CASE Current \in {"PRIMARIO", "SECUNDARIO"} -> "routed"
                      [] Current = "DRAINING" -> "read_drain"
                      [] Current = "BOTH_DOWN" -> "read_hold",
             !.target = IF Current \in {"PRIMARIO", "SECUNDARIO"} THEN stateToTarget(Current)
                                                                   ELSE NoCluster]]
    /\ UNCHANGED <<vars, count, held>>

\* Mutant: no fallback when the drain is already gone.
RouteReadDrainOnly(c) ==
    /\ conn[c].pc = "read_drain"
    /\ conn' = [conn EXCEPT ![c].pc = "routed", ![c].target = drain.new]
    /\ UNCHANGED <<vars, count, held>>

\* In DRAINING: the drain's destination, the primary if there is no drain.
RouteReadDrain(c) ==
    /\ conn[c].pc = "read_drain"
    /\ conn' = [conn EXCEPT ![c].pc = "routed",
                            ![c].target = IF drain = NoDrain THEN "primary" ELSE drain.new]
    /\ UNCHANGED <<vars, count, held>>

\* In BOTH_DOWN: the cluster the installed controller holds, under its lock.
HeldTarget == BothDownTarget(ctrls[installed])

\* Mutant: the controller's lock is not taken.
RouteReadHoldUnlocked(c) ==
    /\ conn[c].pc = "read_hold"
    /\ conn' = [conn EXCEPT ![c].pc = "routed", ![c].target = HeldTarget]
    /\ held' = IF state = "BOTH_DOWN" /\ held = NoCluster THEN HeldTarget ELSE held
    /\ UNCHANGED <<vars, count>>

RouteReadHold(c) ==
    /\ conn[c].pc = "read_hold"
    /\ ~(ControllerLocked /\ sgen = installed)
    /\ conn' = [conn EXCEPT ![c].pc = "routed", ![c].target = HeldTarget]
    /\ held' = IF state = "BOTH_DOWN" /\ held = NoCluster THEN HeldTarget ELSE held
    /\ UNCHANGED <<vars, count>>

\* Register: the counter first, then the map.
Register(c) ==
    /\ conn[c].pc = "routed"
    /\ count' = count + 1
    /\ conn' = [conn EXCEPT ![c].pc = "counted"]
    /\ UNCHANGED <<vars, held>>

RegisterInsert(c) ==
    /\ conn[c].pc = "counted"
    /\ conn' = [conn EXCEPT ![c].pc = "open"]
    /\ UNCHANGED <<vars, count, held>>

\* Mutant: the counter goes down whether or not the connection is in the map.
UnregisterAlways(c) ==
    /\ conn[c].pc \in {"open", "taken"}
    /\ count' = count - 1
    /\ conn' = [conn EXCEPT ![c] = IF @.pc = "open" THEN Absent ELSE [@ EXCEPT !.pc = "gone"]]
    /\ UNCHANGED <<vars, held>>

\* The handler returns (client or upstream closed, dial failed): a connection
\* that a timer has taken out of the map is left to the timer.
Unregister(c) ==
    /\ conn[c].pc \in {"open", "taken"}
    /\ count' = IF conn[c].pc = "open" THEN count - 1 ELSE count
    /\ conn' = [conn EXCEPT ![c] = IF @.pc = "open" THEN Absent ELSE [@ EXCEPT !.pc = "gone"]]
    /\ UNCHANGED <<vars, held>>

\* Mutant: the timer closes the BU's connections whatever their cluster.
ClosedByAnyTarget(t) == {c \in Conns : conn[c].pc = "open"}

\* The registered connections that forceCloseOld of timer t closes.
ClosedBy(t) == {c \in Conns : conn[c].pc = "open" /\ conn[c].target = timer[t].old}

\* forceCloseOld takes them out of the map in one critical section.
RForceClose(t) ==
    /\ ForceClose(t)
    /\ conn' = [c \in Conns |-> IF c \in ClosedBy(t)
                                THEN [conn[c] EXCEPT !.pc = "taken", !.by = t] ELSE conn[c]]
    /\ UNCHANGED <<count, held>>

\* Then it closes and uncounts one after the other. The handler of a closed
\* connection returns without a trace.
CloseTaken(c) ==
    /\ conn[c].pc \in {"taken", "gone"}
    /\ count' = count - 1
    /\ conn' = [conn EXCEPT ![c] = Absent]
    /\ UNCHANGED <<vars, held>>

\* Every other step of DRFailover; a timer that has connections to close is
\* not done with forceCloseOld. A timer identity that is free again or has
\* been given to a new drain leaves the history of the connections.
Forget(t) == timer'[t].pc = "free" \/ (drain' # drain /\ drain'.timer = t)
Replaced == \E r \in ReloadIds : reload[r].pc = "reconfigure" /\ reload'[r].pc = "set_checker"
DRStep ==
    /\ Next
    /\ \A t \in TimerIds : ~(timer[t].pc = "close" /\ timer'[t].pc = "delete")
    /\ \A c \in Conns : conn[c].by # NoTimer => timer'[conn[c].by] = timer[conn[c].by]
    /\ conn' = [c \in Conns |->
                  [conn[c] EXCEPT !.after = {t \in @ : ~Forget(t)}]]
    /\ UNCHANGED count
    /\ held' = IF state' = "BOTH_DOWN" /\ ~Replaced THEN held ELSE NoCluster

ConnStep(c) == RouteRead(c) \/ RouteReadDrain(c) \/ RouteReadHold(c)
               \/ Register(c) \/ RegisterInsert(c) \/ Unregister(c)

RNext ==
    \/ DRStep
    \/ \E t \in TimerIds : RForceClose(t)
    \/ \E c \in Conns : ConnStep(c) \/ CloseTaken(c)

RSpec == RInit /\ [][RNext]_rvars

\* The goroutines of DRFailover are scheduled; clients promise nothing.
RFairSpec == RSpec /\ Fairness /\ \A c \in Conns : WF_rvars(CloseTaken(c))
-----------------------------------------------------------------------------
\* New connections are unaffected by a drain: its timer closes no connection
\* whose routing began after the drain was started.
NewConnectionsUnaffected ==
    \A t \in TimerIds :
        timer[t].pc = "close" => \A c \in ClosedBy(t) : t \notin conn[c].after

\* The connections that have been counted and not uncounted yet.
CountedPC == {"counted", "open", "taken", "gone"}
CountedIn(cs) == {c \in Conns : cs[c].pc \in CountedPC}

\* The connection count that shutdown waits for is exact although it changes
\* before the map on the way in and after it on a force-close: a connection is
\* counted once, uncounted once, and none is open that is not counted.
CountExact == count = Cardinality(CountedIn(conn))

\* Never flap between two broken clusters: while the BU stays in BOTH_DOWN
\* under one controller, all new connections are sent to the same cluster.
BothDownNeverFlaps ==
    [][ \A c \in Conns :
          (/\ conn[c].pc = "read_hold" /\ conn'[c].pc = "routed"
           /\ state = "BOTH_DOWN" /\ held # NoCluster)
          => conn'[c].target = held ]_rvars
-----------------------------------------------------------------------------
(***************************************************************************)
(* The inductive invariants of DRRouting_proofs.                           *)
(***************************************************************************)
\* The cluster a stay in BOTH_DOWN sends its connections to is the one the
\* installed controller holds, and that controller is not about to change it.
HeldOK == held # NoCluster => /\ state = "BOTH_DOWN" /\ held = HeldTarget
                              /\ ~(spc = "both_down" /\ sgen = installed)

RIInv == IInv /\ RTypeOK /\ CountExact /\ HeldOK

\* A BU that is configured from the start, without auto_failover: it has an
\* entry in the StateMachine, the controllers never act, and while it drains
\* exactly one goroutine is in charge of the drain.
NeverAuto == /\ InitConfig # NoConfig /\ ~InitConfig.auto
             /\ \A conf \in Configs : ~conf.auto
SyncAsleep ==
    /\ spc = "idle" /\ tr["sync"].pc = "none"
    /\ \A r \in ReloadIds : ~reload[r].conf.auto
    /\ \A g \in Generation : ~ctrls[g].present
InCharge == {t \in TimerIds : timer[t].pc # "free" \/ tr[t].pc # "none"}
            \cup {r \in ReloadIds : tr[r].pc = "callback"}
OneInCharge ==
    /\ state # NoState
    /\ \A r \in ReloadIds :
         tr[r].pc \in {"commit", "callback"} => tr[r].from \in {"PRIMARIO", "SECUNDARIO"}
    /\ \A g, h \in InCharge : g = h
    /\ InCharge # {} => state = "DRAINING"
    /\ \A t \in TimerIds : timer[t].pc = "free" \/ tr[t].pc = "none"
    /\ drain # NoDrain => drain.timer \in InCharge
    /\ \A t \in TimerIds :
         timer[t].pc \in {"armed", "close"} =>
            drain = [old |-> timer[t].old, new |-> Opposite(timer[t].old), timer |-> t]

\* A connection whose routing began during a drain goes to the other cluster.
AfterOK ==
    \A c \in Conns : \A t \in conn[c].after :
        /\ timer[t].pc # "free" /\ conn[c].pc # "read_hold"
        /\ timer[t].pc \in {"armed", "close"} => conn[c].target # timer[t].old

ManualIInv == SyncAsleep /\ OneInCharge /\ AfterOK
=============================================================================
