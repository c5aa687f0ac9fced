-------------------------- MODULE DRRouting_proofs --------------------------
(***************************************************************************)
(* Machine-checked proofs about DRRouting, for every finite set of         *)
(* connections and every choice of the constants of DRFailover. The DR     *)
(* core keeps its invariant under the composition, because every step of   *)
(* it is a step of the core or leaves the core alone.                      *)
(***************************************************************************)
EXTENDS DRRouting, DRFailover_proofs, FiniteSetTheorems

\* The connections as the composition's own actions write them.
LEMMA AbsentType == Absent \in Connection /\ Absent.pc \notin CountedPC
BY DEF Absent, Connection, NoTimer, NoDrain, NoCluster, CountedPC

\* A step of the composition is a step of the DR core or leaves it alone.
LEMMA CoreStep == [RNext]_rvars => [Next]_vars
<1>1. \A t \in TimerIds : ForceClose(t) => Next
  BY DEF Next, TimerStep
<1> QED BY <1>1 DEF RNext, DRStep, RForceClose, ConnStep, RouteRead, RouteReadDrain, RouteReadHold,
              Register, RegisterInsert, Unregister, CloseTaken, rvars
-----------------------------------------------------------------------------
(***************************************************************************)
(* The count follows the set of counted connections.                       *)
(***************************************************************************)
LEMMA CountKept ==
    ASSUME CountExact, count' = count,
           \A c \in Conns : conn'[c].pc \in CountedPC <=> conn[c].pc \in CountedPC
    PROVE  CountExact'
<1>1. CountedIn(conn') = CountedIn(conn)
  BY DEF CountedIn
<1> QED BY <1>1 DEF CountExact

LEMMA CountUp ==
    ASSUME CountExact, NEW c \in Conns, count' = count + 1,
           conn[c].pc \notin CountedPC, conn'[c].pc \in CountedPC,
           \A d \in Conns \ {c} : conn'[d].pc \in CountedPC <=> conn[d].pc \in CountedPC
    PROVE  CountExact'
<1>1. IsFiniteSet(CountedIn(conn)) /\ c \notin CountedIn(conn)
  BY ConnsAssumption, FS_Subset DEF CountedIn
<1>2. CountedIn(conn') = CountedIn(conn) \cup {c}
  BY DEF CountedIn
<1> QED BY <1>1, <1>2, FS_AddElement, FS_CardinalityType DEF CountExact

LEMMA CountDown ==
    ASSUME CountExact, NEW c \in Conns, count' = count - 1,
           conn[c].pc \in CountedPC, conn'[c].pc \notin CountedPC,
           \A d \in Conns \ {c} : conn'[d].pc \in CountedPC <=> conn[d].pc \in CountedPC
    PROVE  CountExact'
<1>1. IsFiniteSet(CountedIn(conn)) /\ c \in CountedIn(conn)
  BY ConnsAssumption, FS_Subset DEF CountedIn
<1>2. CountedIn(conn') = CountedIn(conn) \ {c}
  BY DEF CountedIn
<1> QED BY <1>1, <1>2, FS_RemoveElement, FS_CardinalityType DEF CountExact
-----------------------------------------------------------------------------
(***************************************************************************)
(* What the installed controller holds changes only when that controller   *)
(* enters BOTH_DOWN or is replaced.                                        *)
(***************************************************************************)
LEMMA HoldFieldsKept ==
    ASSUME NEW c \in Controller
    PROVE  /\ \A cl \in Cluster : \A ok \in BOOLEAN :
                BothDownTarget(RecordHealthResult(c, cl, ok)) = BothDownTarget(c)
           /\ BothDownTarget(FailoverStarted(c)) = BothDownTarget(c)
           /\ BothDownTarget(FailoverRecorded(c)) = BothDownTarget(c)
           /\ BothDownTarget(Aged(c)) = BothDownTarget(c)
<1>1. ASSUME NEW cl \in Cluster, NEW ok \in BOOLEAN
      PROVE  /\ RecordHealthResult(c, cl, ok).present = c.present
             /\ RecordHealthResult(c, cl, ok).lastActive = c.lastActive
  BY DEF RecordHealthResult, Controller, ControllerRecord
<1>2. FailoverStarted(c).present = c.present /\ FailoverStarted(c).lastActive = c.lastActive
  BY DEF FailoverStarted, Controller, ControllerRecord
<1>3. FailoverRecorded(c).present = c.present /\ FailoverRecorded(c).lastActive = c.lastActive
  BY DEF FailoverRecorded, Controller, ControllerRecord
<1>4. Aged(c).present = c.present /\ Aged(c).lastActive = c.lastActive
  BY DEF Aged, Controller, ControllerRecord
<1> QED BY <1>1, <1>2, <1>3, <1>4 DEF BothDownTarget

LEMMA HoldKept ==
    ASSUME IInv, [Next]_vars, ~Replaced,
           state = "BOTH_DOWN", ~(spc = "both_down" /\ sgen = installed)
    PROVE  HeldTarget' = HeldTarget /\ ~(spc' = "both_down" /\ sgen' = installed')
<1> USE DEF IInv
<1>1. /\ installed \in Generation /\ sgen \in Generation
      /\ ctrls \in [Generation -> Controller]
      /\ ctrls[installed] \in Controller /\ ctrls[sgen] \in Controller
  BY DEF TypeOK
<1>2. CASE UNCHANGED <<ctrls, installed, spc, sgen>>
  BY <1>2 DEF HeldTarget
<1>3. CASE SyncRecord
  <2> DEFINE one == RecordHealthResult(ctrls[installed], "primary", checker["primary"])
             both == RecordHealthResult(one, "secondary", checker["secondary"])
  <2>1. "primary" \in Cluster /\ "secondary" \in Cluster
    BY DEF Cluster
  <2>2. checker["primary"] \in BOOLEAN /\ checker["secondary"] \in BOOLEAN
    BY <1>3, <2>1 DEF TypeOK, SyncRecord
  <2>3. one \in Controller /\ BothDownTarget(one) = BothDownTarget(ctrls[installed])
    BY <1>1, <2>1, <2>2, RecordType, HoldFieldsKept
  <2>4. BothDownTarget(both) = BothDownTarget(one)
    <3> HIDE DEF one
    <3> QED BY <2>1, <2>2, <2>3, HoldFieldsKept
  <2>5. Live({installed}) \in [Generation -> Controller]
        /\ Live({installed})[installed] = ctrls[installed]
    BY <1>1, LiveType
  <2>6. /\ ctrls' = [Live({installed}) EXCEPT ![installed] = both] /\ spc' = "evaluate"
        /\ installed' = installed
    BY <1>3, <2>5 DEF SyncRecord
  <2> HIDE DEF one, both
  <2>7. ctrls'[installed] = both
    BY <1>1, <2>5, <2>6
  <2> QED BY <2>3, <2>4, <2>6, <2>7 DEF HeldTarget
<1>4. CASE EvaluateNone \/ EvaluateRestore
  BY <1>4 DEF EvaluateNone, EvaluateRestore, HeldTarget
<1>5. CASE EvaluateBothDown
  BY <1>1, <1>5, DecisionFacts DEF EvaluateBothDown, Current, NoState, BUState
<1>6. CASE EvaluateFailover
  BY <1>1, <1>6, DecisionFacts DEF EvaluateFailover, Current, NoState, BUState
<1>7. CASE BothDownReturn
  BY <1>1, <1>7 DEF BothDownReturn, HeldTarget
<1>8. CASE FailoverReturn
  <2>1. /\ ctrls' = [ctrls EXCEPT ![sgen] = FailoverRecorded(ctrls[sgen])] /\ spc' = "idle"
        /\ installed' = installed
    BY <1>1, <1>8 DEF FailoverReturn
  <2>2. BothDownTarget(FailoverRecorded(ctrls[sgen])) = BothDownTarget(ctrls[sgen])
    BY <1>1, HoldFieldsKept
  <2>3. ctrls'[installed] = ctrls[installed]
        \/ (sgen = installed /\ ctrls'[installed] = FailoverRecorded(ctrls[sgen]))
    BY <1>1, <2>1
  <2> QED BY <2>1, <2>2, <2>3 DEF HeldTarget
<1>9. CASE Tick
  <2>1. ctrls'[installed] = Aged(ctrls[installed]) /\ UNCHANGED <<installed, spc, sgen>>
    BY <1>1, <1>9 DEF Tick, syncVars
  <2> QED BY <1>1, <2>1, HoldFieldsKept DEF HeldTarget
<1>10. \A r \in ReloadIds : ~Reconfigure(r)
  BY DEF Reconfigure, Replaced, TypeOK, NoReload
<1> QED BY <1>2, <1>3, <1>4, <1>5, <1>6, <1>7, <1>8, <1>9, <1>10
        DEF Next, TransitionStep, TransitionCreate, TransitionRead, TransitionCommit, StartDrain,
            TimerStep, TimerFires, ForceClose, DrainDelete, DrainComplete, SyncStep, ReloadBegin,
            ReloadUnnoticed, SetChecker, HealthChanges,
            vars, syncVars
-----------------------------------------------------------------------------
(***************************************************************************)
(* The invariant of the composition.                                       *)
(***************************************************************************)
LEMMA RInitRIInv == RInit => RIInv
<1> SUFFICES ASSUME RInit PROVE RIInv
  OBVIOUS
<1>1. IInv
  BY InitIInv DEF RInit
<1>2. RTypeOK
  BY <1>1, AbsentType DEF RInit, RTypeOK, IInv, Absent
<1>3. CountedIn(conn) = {}
  BY AbsentType DEF RInit, CountedIn
<1>4. CountExact
  BY <1>3, FS_EmptySet DEF RInit, CountExact
<1>5. HeldOK
  BY DEF RInit, HeldOK
<1> QED BY <1>1, <1>2, <1>4, <1>5 DEF RIInv

\* A step of the DR core: of the connections only the history changes.
LEMMA DRStepRIInv ==
    ASSUME RIInv, DRStep
    PROVE  RIInv'
<1> USE DEF RIInv
<1>1. IInv'
  BY StepIInv DEF DRStep
<1>2. \A c \in Conns : conn'[c] = [conn[c] EXCEPT !.after = {t \in conn[c].after : ~Forget(t)}]
  BY DEF DRStep
<1>3. \A c \in Conns : /\ conn'[c] \in Connection
                       /\ conn'[c].pc = conn[c].pc /\ conn'[c].target = conn[c].target
  <2> TAKE c \in Conns
  <2>1. conn[c] \in Connection
    BY DEF RTypeOK
  <2>2. {t \in conn[c].after : ~Forget(t)} \in SUBSET TimerIds
    BY <2>1 DEF Connection
  <2>3. PICK S \in SUBSET TimerIds : conn'[c] = [conn[c] EXCEPT !.after = S]
    BY <1>2, <2>2
  <2> QED BY <2>1, <2>3 DEF Connection
<1>4. RTypeOK'
  <2>1. conn' \in [Conns -> Connection]
    BY <1>3 DEF DRStep
  <2>2. count' \in Int /\ held' \in Cluster \cup {NoCluster}
    BY DEF DRStep, RTypeOK
  <2> QED BY <1>1, <1>3, <2>1, <2>2 DEF RTypeOK, IInv
<1>5. CountExact'
  BY <1>3, CountKept DEF DRStep
<1>6. HeldOK'
  <2> SUFFICES ASSUME held' # NoCluster
               PROVE  /\ state' = "BOTH_DOWN" /\ held' = HeldTarget'
                      /\ ~(spc' = "both_down" /\ sgen' = installed')
    BY DEF HeldOK
  <2>1. state' = "BOTH_DOWN" /\ ~Replaced /\ held' = held
    BY DEF DRStep
  <2>2. state = "BOTH_DOWN" /\ held = HeldTarget /\ ~(spc = "both_down" /\ sgen = installed)
    BY <2>1 DEF HeldOK
  <2> QED BY <2>1, <2>2, HoldKept DEF DRStep
<1> QED BY <1>1, <1>4, <1>5, <1>6

\* forceCloseOld takes open connections out of the map; they stay counted.
LEMMA ForceCloseRIInv ==
    ASSUME RIInv, NEW t \in TimerIds, RForceClose(t)
    PROVE  RIInv'
<1> USE DEF RIInv
<1>1. [Next]_vars /\ ForceClose(t)
  BY DEF RForceClose, Next, TimerStep
<1>2. IInv'
  BY <1>1, StepIInv
<1>3. \A c \in Conns : /\ conn'[c] \in Connection
                       /\ conn'[c].pc = conn[c].pc \/ (conn[c].pc = "open" /\ conn'[c].pc = "taken")
                       /\ conn'[c].target = conn[c].target
  BY DEF RForceClose, ClosedBy, RTypeOK, Connection
<1>4. RTypeOK'
  <2>1. conn' \in [Conns -> Connection]
    BY <1>3 DEF RForceClose
  <2> QED BY <1>2, <1>3, <2>1 DEF RTypeOK, IInv, RForceClose
<1>5. CountExact'
  BY <1>3, CountKept DEF RForceClose, CountedPC
<1>6. HeldOK'
  BY <1>1 DEF HeldOK, HeldTarget, RForceClose, ForceClose, syncVars
<1> QED BY <1>2, <1>4, <1>5, <1>6

\* What the core keeps when a step leaves it alone.
LEMMA CoreAlone ==
    ASSUME RIInv, UNCHANGED vars
    PROVE  IInv' /\ HeldTarget' = HeldTarget /\ (held' = held => HeldOK')
<1>1. IInv'
  BY StepIInv DEF RIInv
<1>2. UNCHANGED <<state, ctrls, installed, spc, sgen>>
  BY DEF vars, syncVars
<1> QED BY <1>1, <1>2 DEF RIInv, HeldOK, HeldTarget

LEMMA RouteRIInv ==
    ASSUME RIInv, NEW c \in Conns, RouteRead(c) \/ RouteReadDrain(c) \/ RouteReadHold(c)
    PROVE  RIInv'
<1> USE DEF RIInv
<1>1. UNCHANGED vars /\ count' = count
  BY DEF RouteRead, RouteReadDrain, RouteReadHold
<1>2. IInv' /\ HeldTarget' = HeldTarget /\ (held' = held => HeldOK')
  BY <1>1, CoreAlone
<1>3. conn[c] \in Connection /\ conn \in [Conns -> Connection] /\ Current \in BUState
  BY DEF RTypeOK, TypeOK, Current, BUState
<1>4. HeldTarget \in Cluster
  BY DEF HeldTarget, BothDownTarget, stateToTarget, Cluster
<1>5. PICK n \in Connection :
        /\ conn' = [conn EXCEPT ![c] = n]
        /\ n.pc \in {"read_drain", "read_hold", "routed"}
        /\ n.pc = "routed" => n.target \in Cluster
  <2>1. CASE RouteRead(c)
    <3> DEFINE pc == CASE Current \in {"PRIMARIO", "SECUNDARIO"} -> "routed"
                       [] Current = "DRAINING" -> "read_drain"
                       [] Current = "BOTH_DOWN" -> "read_hold"
               target == IF Current \in {"PRIMARIO", "SECUNDARIO"} THEN stateToTarget(Current)
                                                                   ELSE NoCluster
    <3>1. /\ pc \in {"read_drain", "read_hold", "routed"}
          /\ target \in Cluster \cup {NoCluster}
          /\ pc = "routed" => target \in Cluster
      BY <1>3 DEF BUState, stateToTarget, Cluster
    <3>2. Started \in SUBSET TimerIds
      BY DEF Started
    <3>3. conn' = [conn EXCEPT ![c] = [Absent EXCEPT !.after = Started, !.pc = pc, !.target = target]]
      BY <2>1 DEF RouteRead
    <3> HIDE DEF pc, target
    <3>4. /\ [Absent EXCEPT !.after = Started, !.pc = pc, !.target = target] \in Connection
          /\ [Absent EXCEPT !.after = Started, !.pc = pc, !.target = target].pc = pc
          /\ [Absent EXCEPT !.after = Started, !.pc = pc, !.target = target].target = target
      BY <3>1, <3>2, AbsentType DEF Connection
    <3> QED BY <3>1, <3>3, <3>4
  <2>2. CASE RouteReadDrain(c)
    <3> DEFINE target == IF drain = NoDrain THEN "primary" ELSE drain.new
    <3>1. target \in Cluster
      BY DEF RTypeOK, TypeOK, Cluster
    <3>2. conn' = [conn EXCEPT ![c] = [conn[c] EXCEPT !.pc = "routed", !.target = target]]
      BY <1>3, <2>2 DEF RouteReadDrain
    <3> HIDE DEF target
    <3>3. /\ [conn[c] EXCEPT !.pc = "routed", !.target = target] \in Connection
          /\ [conn[c] EXCEPT !.pc = "routed", !.target = target].pc = "routed"
          /\ [conn[c] EXCEPT !.pc = "routed", !.target = target].target = target
      BY <1>3, <3>1 DEF Connection
    <3> QED BY <3>1, <3>2, <3>3
  <2>3. CASE RouteReadHold(c)
    <3>1. conn' = [conn EXCEPT ![c] = [conn[c] EXCEPT !.pc = "routed", !.target = HeldTarget]]
      BY <1>3, <2>3 DEF RouteReadHold
    <3>2. /\ [conn[c] EXCEPT !.pc = "routed", !.target = HeldTarget] \in Connection
          /\ [conn[c] EXCEPT !.pc = "routed", !.target = HeldTarget].pc = "routed"
          /\ [conn[c] EXCEPT !.pc = "routed", !.target = HeldTarget].target = HeldTarget
      BY <1>3, <1>4 DEF Connection
    <3> QED BY <1>4, <3>1, <3>2
  <2> QED BY <2>1, <2>2, <2>3
<1>6. conn'[c] = n /\ \A d \in Conns \ {c} : conn'[d] = conn[d]
  BY <1>3, <1>5
<1>7. conn[c].pc \notin CountedPC
  BY DEF RouteRead, RouteReadDrain, RouteReadHold, CountedPC
<1>8. RTypeOK'
  <2>1. conn' \in [Conns -> Connection]
    BY <1>3, <1>5
  <2>2. held' \in Cluster \cup {NoCluster}
    BY <1>4 DEF RTypeOK, RouteRead, RouteReadDrain, RouteReadHold
  <2> QED BY <1>1, <1>2, <1>5, <1>6, <2>1, <2>2 DEF RTypeOK, IInv
<1>9. CountExact'
  BY <1>1, <1>5, <1>6, <1>7, CountKept DEF CountedPC
<1>10. HeldOK'
  <2>1. CASE held' = held
    BY <1>2, <2>1
  <2>2. CASE held' # held
    <3>1. state = "BOTH_DOWN" /\ held' = HeldTarget /\ ~(ControllerLocked /\ sgen = installed)
      BY <2>2 DEF RouteRead, RouteReadDrain, RouteReadHold
    <3> QED BY <1>1, <1>2, <3>1 DEF HeldOK, ControllerLocked, vars, syncVars
  <2> QED BY <2>1, <2>2
<1> QED BY <1>2, <1>8, <1>9, <1>10

LEMMA RegisterRIInv ==
    ASSUME RIInv, NEW c \in Conns,
           Register(c) \/ RegisterInsert(c) \/ Unregister(c) \/ CloseTaken(c)
    PROVE  RIInv'
<1> USE DEF RIInv
<1>1. UNCHANGED vars /\ held' = held
  BY DEF Register, RegisterInsert, Unregister, CloseTaken
<1>2. IInv' /\ HeldOK'
  BY <1>1, CoreAlone
<1>3. conn[c] \in Connection /\ conn \in [Conns -> Connection] /\ count \in Int
  BY DEF RTypeOK
<1>4. PICK n \in Connection :
        /\ conn' = [conn EXCEPT ![c] = n]
        /\ n.pc \in {"counted", "open"} => n.target = conn[c].target
        /\ \/ conn[c].pc = "routed" /\ n.pc = "counted" /\ count' = count + 1
           \/ conn[c].pc = "counted" /\ n.pc = "open" /\ count' = count
           \/ conn[c].pc = "taken" /\ n.pc = "gone" /\ count' = count
           \/ conn[c].pc \in {"open", "taken", "gone"} /\ n = Absent /\ count' = count - 1
  <2>. \A pc \in CountedPC : /\ [conn[c] EXCEPT !.pc = pc] \in Connection
                             /\ [conn[c] EXCEPT !.pc = pc].pc = pc
                             /\ [conn[c] EXCEPT !.pc = pc].target = conn[c].target
    BY <1>3 DEF Connection, CountedPC
  <2>1. CASE Register(c)
    <3>1. conn' = [conn EXCEPT ![c] = [conn[c] EXCEPT !.pc = "counted"]]
      BY <1>3, <2>1 DEF Register
    <3> QED BY <2>1, <3>1 DEF Register, CountedPC
  <2>2. CASE RegisterInsert(c)
    <3>1. conn' = [conn EXCEPT ![c] = [conn[c] EXCEPT !.pc = "open"]]
      BY <1>3, <2>2 DEF RegisterInsert
    <3> QED BY <2>2, <3>1 DEF RegisterInsert, CountedPC
  <2>3. CASE Unregister(c) /\ conn[c].pc = "open"
    BY <1>3, <2>3, AbsentType DEF Unregister, Absent
  <2>4. CASE Unregister(c) /\ conn[c].pc = "taken"
    <3>1. conn' = [conn EXCEPT ![c] = [conn[c] EXCEPT !.pc = "gone"]]
      BY <1>3, <2>4 DEF Unregister
    <3> QED BY <2>4, <3>1 DEF Unregister, CountedPC
  <2>5. CASE CloseTaken(c)
    BY <1>3, <2>5, AbsentType DEF CloseTaken, Absent
  <2> QED BY <2>1, <2>2, <2>3, <2>4, <2>5 DEF Unregister
<1>5. conn'[c] = n /\ \A d \in Conns \ {c} : conn'[d] = conn[d]
  BY <1>3, <1>4
<1>6. RTypeOK'
  <2>1. conn' \in [Conns -> Connection] /\ count' \in Int
    BY <1>3, <1>4
  <2>2. n.pc \in {"routed", "counted", "open"} => n.target \in Cluster
    BY <1>4 DEF RTypeOK, Absent
  <2> QED BY <1>1, <1>2, <1>5, <2>1, <2>2 DEF RTypeOK, IInv
<1>7. CountExact'
  <2>1. CASE conn[c].pc = "routed" /\ n.pc = "counted" /\ count' = count + 1
    BY <1>5, <2>1, CountUp DEF CountedPC
  <2>2. CASE conn[c].pc \in {"open", "taken", "gone"} /\ n = Absent /\ count' = count - 1
    BY <1>5, <2>2, CountDown, AbsentType DEF CountedPC
  <2>3. CASE conn[c].pc \in CountedPC /\ n.pc \in CountedPC /\ count' = count
    BY <1>5, <2>3, CountKept
  <2> QED BY <1>4, <2>1, <2>2, <2>3 DEF CountedPC
<1> QED BY <1>2, <1>6, <1>7

LEMMA StepRIInv == RIInv /\ [RNext]_rvars => RIInv'
<1> SUFFICES ASSUME RIInv, [RNext]_rvars PROVE RIInv'
  OBVIOUS
<1>1. CASE DRStep
  BY <1>1, DRStepRIInv
<1>2. CASE \E t \in TimerIds : RForceClose(t)
  BY <1>2, ForceCloseRIInv
<1>3. CASE \E c \in Conns : ConnStep(c) \/ CloseTaken(c)
  BY <1>3, RouteRIInv, RegisterRIInv DEF ConnStep
<1>4. CASE UNCHANGED rvars
  <2>1. UNCHANGED vars /\ UNCHANGED <<conn, count, held>>
    BY <1>4 DEF rvars
  <2>2. IInv' /\ HeldOK'
    BY <2>1, CoreAlone
  <2> QED BY <2>1, <2>2, CountKept DEF RIInv, RTypeOK, IInv
<1> QED BY <1>1, <1>2, <1>3, <1>4 DEF RNext

\* The composition's invariant holds in every reachable state, the one of the
\* DR core included.
THEOREM RoutingInvariance == RSpec => []RIInv
BY RInitRIInv, StepRIInv, PTL DEF RSpec

\* Every connection that is routed, counted or open has a cluster, whichever
\* states TargetForRouting meets between its reads of the DR state, the drain
\* and the controller.
THEOREM RoutingTypeCorrect == RSpec => []RTypeOK
<1>1. RIInv => RTypeOK
  BY DEF RIInv
<1> QED BY <1>1, RoutingInvariance, PTL

\* The DrainManager's connection count is exact: Register, Unregister and the
\* drain timers count and uncount every connection once, whatever their order.
THEOREM RoutingCountExact == RSpec => []CountExact
<1>1. RIInv => CountExact
  BY DEF RIInv
<1> QED BY <1>1, RoutingInvariance, PTL

\* While a BU stays in BOTH_DOWN under one controller, TargetForRouting sends
\* all its new connections to one cluster.
THEOREM RoutingNeverFlaps == RSpec => BothDownNeverFlaps
<1> DEFINE Hold == \A c \in Conns :
                     (/\ conn[c].pc = "read_hold" /\ conn'[c].pc = "routed"
                      /\ state = "BOTH_DOWN" /\ held # NoCluster)
                     => conn'[c].target = held
<1>1. RIInv /\ [RNext]_rvars => [Hold]_rvars
  <2> SUFFICES ASSUME RIInv, [RNext]_rvars, NEW c \in Conns,
                      conn[c].pc = "read_hold", conn'[c].pc = "routed",
                      held # NoCluster
               PROVE  conn'[c].target = held
    OBVIOUS
  <2>1. held = HeldTarget /\ conn \in [Conns -> Connection]
    BY DEF RIInv, HeldOK, RTypeOK
  <2>2. ~DRStep
    BY <2>1 DEF DRStep, Connection
  <2>3. ~\E t \in TimerIds : RForceClose(t)
    BY <2>1 DEF RForceClose, ClosedBy, Connection
  <2>4. \A d \in Conns \ {c} : ~ConnStep(d) /\ ~CloseTaken(d)
    BY <2>1 DEF ConnStep, RouteRead, RouteReadDrain, RouteReadHold, Register, RegisterInsert,
                Unregister, CloseTaken
  <2>5. ConnStep(c) \/ CloseTaken(c)
    BY <2>2, <2>3, <2>4 DEF RNext, rvars
  <2>6. RouteReadHold(c)
    BY <2>5 DEF ConnStep, RouteRead, RouteReadDrain, Register, RegisterInsert, Unregister, CloseTaken
  <2> QED BY <2>1, <2>6 DEF RouteReadHold, Connection
<1> QED BY <1>1, RoutingInvariance, PTL DEF RSpec, BothDownNeverFlaps
-----------------------------------------------------------------------------
(***************************************************************************)
(* A BU without auto_failover. Its controllers are never present, so only  *)
(* reloads and drain timers act, one of them at a time while it drains.    *)
(***************************************************************************)
LEMMA InitManual == NeverAuto /\ RInit => ManualIInv
<1> SUFFICES ASSUME NeverAuto, RInit PROVE ManualIInv
  OBVIOUS
<1>1. SyncAsleep
  BY DEF NeverAuto, RInit, Init, SyncAsleep, NoCall, NoReload, NoConfig, Goroutine, NewController
<1>2. InCharge = {}
  BY DEF RInit, Init, InCharge, NoCall, Idle, Goroutine
<1>3. OneInCharge
  BY <1>2 DEF OneInCharge, RInit, Init, Idle, NoCall, Goroutine, NeverAuto, StateOf, NoState
<1>4. AfterOK
  BY DEF AfterOK, RInit, Absent
<1> QED BY <1>1, <1>3, <1>4 DEF ManualIInv

\* Without a present controller a round of Manager.sync does nothing.
LEMMA ManualSync ==
    ASSUME NeverAuto, IInv, SyncAsleep, [Next]_vars
    PROVE  SyncAsleep' /\ ~SyncStep
<1> USE DEF IInv
<1>1. ~SyncStep
  BY DEF SyncStep, SyncAsleep, SyncRecord, EvaluateNone, EvaluateBothDown, EvaluateRestore,
         EvaluateFailover, BothDownReturn, FailoverReturn, TypeOK
<1>2. ~(\E g \in {"sync"} : TransitionStep(g))
  BY DEF SyncAsleep, TransitionStep, TransitionCreate, TransitionRead, TransitionCommit, StartDrain
<1>3. spc' = "idle" /\ tr'["sync"].pc = "none"
  <2>1. "sync" \in Goroutine /\ tr \in [Goroutine -> [pc : {"none", "read", "commit", "callback"},
                                                      to : BUState \cup {NoState},
                                                      from : BUState \cup {NoState}]]
    BY DEF TypeOK, Goroutine
  <2>2. CASE \E g \in Goroutine : TransitionStep(g)
    BY <1>2, <2>1, <2>2 DEF SyncAsleep, TransitionStep, TransitionCreate, TransitionRead,
                            TransitionCommit, StartDrain, syncVars
  <2>3. CASE \E t \in TimerIds : TimerStep(t)
    BY <2>1, <2>3, TimerAssumption
       DEF SyncAsleep, TimerStep, TimerFires, ForceClose, DrainDelete, DrainComplete, syncVars
  <2>4. CASE \E r \in ReloadIds, conf \in Configs : ReloadBegin(r, conf)
    BY <2>1, <2>4, TimerAssumption DEF SyncAsleep, ReloadBegin, syncVars
  <2>5. CASE \/ \E conf \in Configs : ReloadUnnoticed(conf)
             \/ \E r \in ReloadIds : Reconfigure(r) \/ SetChecker(r)
             \/ (\E c \in Faulty : HealthChanges(c)) \/ Tick \/ UNCHANGED vars
    BY <2>5 DEF SyncAsleep, ReloadUnnoticed, Reconfigure, SetChecker, HealthChanges, Tick, vars, syncVars
  <2> QED BY <1>1, <2>2, <2>3, <2>4, <2>5 DEF Next
<1>5. ASSUME NEW r \in ReloadIds PROVE ~reload'[r].conf.auto
  <2>1. ASSUME NEW q \in ReloadIds, NEW conf \in Configs, ReloadBegin(q, conf)
        PROVE  ~reload'[r].conf.auto
    BY <2>1 DEF ReloadBegin, SyncAsleep, NeverAuto, TypeOK
  <2>2. ASSUME NEW q \in ReloadIds, Reconfigure(q) \/ SetChecker(q)
        PROVE  ~reload'[r].conf.auto
    <3>1. \/ reload' = [reload EXCEPT ![q] = [NoReload EXCEPT !.pc = "set_checker"]]
          \/ reload' = [reload EXCEPT ![q] = NoReload]
      BY <2>2 DEF Reconfigure, SetChecker
    <3>2. ~NoReload.conf.auto /\ ~[NoReload EXCEPT !.pc = "set_checker"].conf.auto
      BY DEF NoReload, NoConfig
    <3>3. r # q => reload'[r] = reload[r]
      BY <3>1 DEF TypeOK
    <3>4. r = q => reload'[r] \in {NoReload, [NoReload EXCEPT !.pc = "set_checker"]}
      BY <3>1 DEF TypeOK
    <3> QED BY <3>2, <3>3, <3>4 DEF SyncAsleep
  <2>3. CASE UNCHANGED reload
    BY <2>3 DEF SyncAsleep
  <2> QED BY <1>1, <2>1, <2>2, <2>3
          DEF Next, TransitionStep, TransitionCreate, TransitionRead, TransitionCommit, StartDrain,
              TimerStep, TimerFires, ForceClose, DrainDelete, DrainComplete, ReloadUnnoticed,
              HealthChanges, Tick, vars
<1>4. \A g \in Generation : ~ctrls'[g].present
  <2>1. ASSUME NEW r \in ReloadIds, Reconfigure(r)
        PROVE  \A g \in Generation : ~ctrls'[g].present
    <3>1. \A conf : ~conf.auto => ~NewController(conf).present
      BY DEF NewController
    <3>2. ctrls' = [Live(IF SyncDone THEN {} ELSE {sgen}) EXCEPT ![1 - sgen] = NewController(reload[r].conf)]
      BY <2>1 DEF Reconfigure
    <3>3. ~NewController(reload[r].conf).present
      BY <3>1 DEF SyncAsleep
    <3>4. \A R : \A g \in Generation : ~Live(R)[g].present
      BY <3>1 DEF Live, SyncAsleep, NeverAuto
    <3> QED BY <3>2, <3>3, <3>4 DEF Live
  <2>2. CASE Tick
    <3>1. \A g \in Generation : ctrls'[g] = Aged(ctrls[g])
      BY <2>2 DEF Tick
    <3>2. \A g \in Generation : Aged(ctrls[g]).present = ctrls[g].present
      BY DEF Aged, TypeOK, Controller, ControllerRecord
    <3> QED BY <3>1, <3>2 DEF SyncAsleep
  <2>3. CASE UNCHANGED ctrls
    BY <2>3 DEF SyncAsleep
  <2> QED BY <1>1, <2>1, <2>2, <2>3
          DEF Next, TransitionStep, TransitionCreate, TransitionRead, TransitionCommit, StartDrain,
              TimerStep, TimerFires, ForceClose, DrainDelete, DrainComplete, ReloadBegin,
              ReloadUnnoticed, SetChecker, HealthChanges, vars
<1> QED BY <1>1, <1>3, <1>4, <1>5 DEF SyncAsleep

\* Who is in charge after a step of goroutine g, when every other one stands
\* where it stood.
LEMMA ManualTransition ==
    ASSUME IInv, OneInCharge, NEW g \in Goroutine, g # "sync",
           TransitionCreate(g) \/ TransitionRead(g) \/ TransitionCommit(g)
    PROVE  OneInCharge'
<1> USE DEF IInv
<1>0. TransitionRead(g) \/ TransitionCommit(g)
  BY DEF TransitionCreate, OneInCharge
<1>1. /\ UNCHANGED <<drain, timer>>
      /\ \A h \in Goroutine \ {g} : tr'[h] = tr[h]
  BY <1>0 DEF TransitionRead, TransitionCommit, TypeOK
<1>2. tr[g].pc \in {"read", "commit"} /\ tr[g].to \in BUState
  BY <1>0, RequestType DEF TransitionRead, TransitionCommit
<1>3. drain # NoDrain => drain.timer \in TimerIds /\ timer[drain.timer].pc # "free"
  BY DEF TypeOK, DrainHasTimer
<1>4. drain # NoDrain => drain.timer \in InCharge'
  BY <1>1, <1>3 DEF InCharge
<1>5. state' # NoState
  BY <1>0, <1>2 DEF TransitionRead, TransitionCommit, OneInCharge, BUState, NoState
<1>6. CASE g \in TimerIds
  <2>1. g \in InCharge /\ state = "DRAINING" /\ \A h \in InCharge : h = g
    BY <1>2, <1>6 DEF InCharge, OneInCharge
  <2>2. \A r \in ReloadIds : tr'[r] = tr[r]
    BY <1>1, <1>6, TimerAssumption DEF Goroutine
  <2>3. InCharge' \subseteq InCharge
    <3>1. \A t \in TimerIds \ {g} : tr'[t] = tr[t]
      BY <1>1 DEF Goroutine
    <3> QED BY <1>1, <2>1, <2>2, <3>1 DEF InCharge
  <2>4. timer[g].pc = "free"
    BY <1>2, <1>6 DEF OneInCharge
  <2>5. tr'[g].pc = "none" \/ state' = state
    <3>1. tr[g].to # "DRAINING"
      BY <1>2, <1>6 DEF CallsOK
    <3> QED BY <1>0, <3>1 DEF TransitionRead, TransitionCommit, Committed, TypeOK, NoCall
  <2>6. InCharge' # {} => state' = "DRAINING"
    <3>1. CASE tr'[g].pc = "none"
      <4>1. g \notin InCharge'
        BY <1>1, <1>6, <2>4, <3>1, TimerAssumption DEF InCharge
      <4> QED BY <2>1, <2>3, <4>1
    <3> QED BY <2>1, <2>5, <3>1
  <2>7. \A t \in TimerIds : timer'[t].pc = "free" \/ tr'[t].pc = "none"
    BY <1>1, <2>4 DEF OneInCharge, Goroutine
  <2> QED BY <1>1, <1>4, <1>5, <2>2, <2>3, <2>6, <2>7 DEF OneInCharge
<1>7. CASE g \in ReloadIds
  <2>1. /\ \A t \in TimerIds : tr'[t] = tr[t]
        /\ \A r \in ReloadIds \ {g} : tr'[r] = tr[r]
    BY <1>1, <1>7, TimerAssumption DEF Goroutine
  <2>2. tr[g].to = "DRAINING" /\ tr[g] \in [pc : {"none", "read", "commit", "callback"},
                                            to : BUState \cup {NoState},
                                            from : BUState \cup {NoState}]
    BY <1>2, <1>7 DEF CallsOK, TypeOK
  <2>3. CASE TransitionRead(g)
    <3>1. tr'[g] = [tr[g] EXCEPT !.pc = "commit", !.from = state] \/ tr'[g] = NoCall
      BY <2>3 DEF TransitionRead, TypeOK
    <3>2. tr'[g] = [tr[g] EXCEPT !.pc = "commit", !.from = state]
            => state \in {"PRIMARIO", "SECUNDARIO"}
      BY <2>2, <2>3 DEF TransitionRead, TypeOK, NoCall, isValidTransition
    <3>3. /\ tr'[g].pc # "callback" /\ state' = state
          /\ tr'[g].pc = "commit" => tr'[g].from \in {"PRIMARIO", "SECUNDARIO"}
      <4>1. CASE tr'[g] = NoCall
        <5>1. NoCall.pc = "none"
          BY DEF NoCall
        <5>2. state' = state
          BY <2>3 DEF TransitionRead
        <5> QED BY <4>1, <5>1, <5>2
      <4>2. CASE tr'[g] = [tr[g] EXCEPT !.pc = "commit", !.from = state]
        <5>1. tr'[g].pc = "commit" /\ tr'[g].from = state
          BY <2>2, <4>2
        <5> QED BY <2>3, <3>2, <4>2, <5>1 DEF TransitionRead
      <4> QED BY <3>1, <4>1, <4>2
    <3>4. InCharge' \subseteq InCharge
      BY <1>1, <2>1, <3>3 DEF InCharge
    <3> QED BY <1>1, <1>4, <1>5, <2>1, <3>3, <3>4 DEF OneInCharge
  <2>4. CASE TransitionCommit(g) /\ state # tr[g].from
    <3>1. tr'[g].pc = "none" /\ state' = state
      BY <2>4 DEF TransitionCommit, TypeOK, NoCall
    <3>2. InCharge' \subseteq InCharge
      BY <1>1, <2>1, <3>1 DEF InCharge
    <3> QED BY <1>1, <1>4, <1>5, <2>1, <3>1, <3>2 DEF OneInCharge
  <2>5. CASE TransitionCommit(g) /\ state = tr[g].from
    \* the commit left another state, in which nobody is in charge
    <3>1. /\ state' = "DRAINING" /\ state \in {"PRIMARIO", "SECUNDARIO"}
          /\ tr'[g].from = tr[g].from
      BY <1>7, <2>2, <2>5 DEF TransitionCommit, OneInCharge, Committed, TypeOK
    <3>2. InCharge = {}
      BY <3>1 DEF OneInCharge
    <3>3. InCharge' \subseteq {g}
      BY <1>1, <2>1, <3>2 DEF InCharge
    <3> QED BY <1>1, <1>4, <1>5, <2>1, <2>5, <3>1, <3>3 DEF OneInCharge
  <2> QED BY <1>0, <2>3, <2>4, <2>5
<1> QED BY <1>6, <1>7 DEF Goroutine

\* StartDrain finds every timer free: the callback itself was in charge.
LEMMA ManualStartDrain ==
    ASSUME IInv, OneInCharge, NEW g \in Goroutine, g # "sync", StartDrain(g)
    PROVE  /\ OneInCharge'
           /\ \A t \in TimerIds : timer[t].pc = "free"
<1> USE DEF IInv
<1>1. tr[g].pc = "callback" /\ tr' = [tr EXCEPT ![g] = NoCall] /\ state' = state
  BY DEF StartDrain
<1>2. g \in ReloadIds
  BY <1>1 DEF CallsOK, Goroutine
<1>3. g \in InCharge /\ state = "DRAINING" /\ \A h \in InCharge : h = g
  BY <1>1, <1>2 DEF InCharge, OneInCharge
<1>4. \A t \in TimerIds : timer[t].pc = "free" /\ tr[t].pc = "none"
  BY <1>2, <1>3, TimerAssumption DEF InCharge
<1>5. \A u \in TimerIds : ~Stoppable(u)
  BY <1>4 DEF Stoppable
<1> DEFINE old == stateToTarget(tr[g].from)
<1>6. PICK t \in TimerIds :
      /\ drain' = [old |-> old, new |-> Opposite(old), timer |-> t]
      /\ timer' = [u \in TimerIds |->
            IF u = t THEN [pc |-> "armed", old |-> old, new |-> NoCluster]
            ELSE IF Stoppable(u) THEN Idle ELSE timer[u]]
  <2>1. DrainTarget(tr[g].from) = Opposite(old)
    BY <1>1, <1>2 DEF OneInCharge, DrainTarget
  <2> QED BY <2>1 DEF StartDrain
<1> HIDE DEF old
<1>7. /\ timer'[t].pc = "armed" /\ timer'[t].old = old
      /\ \A u \in TimerIds \ {t} : timer'[u].pc = "free"
  BY <1>4, <1>5, <1>6
<1>8. /\ tr'[g].pc = "none" /\ \A u \in TimerIds : tr'[u].pc = "none"
      /\ \A r \in ReloadIds \ {g} : tr'[r] = tr[r]
  BY <1>1, <1>2, <1>4, TimerAssumption DEF TypeOK, NoCall, Goroutine
<1>9. InCharge' = {t}
  <2>1. \A r \in ReloadIds : tr'[r].pc # "callback"
    BY <1>3, <1>8 DEF InCharge
  <2> QED BY <1>7, <1>8, <2>1 DEF InCharge
<1> QED BY <1>1, <1>3, <1>4, <1>6, <1>7, <1>8, <1>9 DEF OneInCharge

\* A drain timer's step: it stays in charge, or nobody is.
LEMMA ManualTimer ==
    ASSUME IInv, OneInCharge, NEW t \in TimerIds, TimerStep(t)
    PROVE  OneInCharge'
<1> USE DEF IInv
<1>1. /\ timer[t].pc # "free" /\ state' = state
      /\ \A u \in TimerIds \ {t} : timer'[u] = timer[u] /\ tr'[u] = tr[u]
      /\ \A r \in ReloadIds : tr'[r] = tr[r]
  BY TimerAssumption DEF TimerStep, TimerFires, ForceClose, DrainDelete, DrainComplete, TypeOK, Goroutine
<1>2. t \in InCharge /\ state = "DRAINING" /\ (\A h \in InCharge : h = t) /\ tr[t].pc = "none"
  BY <1>1 DEF InCharge, OneInCharge
<1>3. InCharge' \subseteq {t}
  BY <1>1, <1>2, TimerAssumption DEF InCharge
<1>4. \A u \in TimerIds : timer'[u].pc = "free" \/ tr'[u].pc = "none"
  <2>1. timer'[t].pc = "free" \/ tr'[t].pc = "none"
    BY <1>2 DEF TimerStep, TimerFires, ForceClose, DrainDelete, DrainComplete, TypeOK, Idle
  <2> QED BY <1>1, <2>1 DEF OneInCharge
<1>5. \A u \in TimerIds \ {t} : timer'[u].pc = "free"
  BY <1>1, <1>2, TimerAssumption DEF InCharge
<1>6. CASE TimerFires(t) \/ ForceClose(t)
  <2>1. /\ drain' = drain /\ timer'[t].pc \in {"close", "delete"}
        /\ timer'[t].pc = "close" => timer'[t].old = timer[t].old
        /\ timer[t].pc \in {"armed", "close"}
    BY <1>6 DEF TimerFires, ForceClose, TypeOK, Idle
  <2>2. t \in InCharge'
    BY <2>1 DEF InCharge
  <2> QED BY <1>1, <1>2, <1>3, <1>4, <1>5, <2>1, <2>2 DEF OneInCharge
<1>7. CASE DrainDelete(t) \/ DrainComplete(t)
  <2>1. timer'[t].pc \in {"free", "complete"}
    BY <1>7 DEF DrainDelete, DrainComplete, TypeOK, Idle
  <2>2. drain' = NoDrain
    \* the only timer in charge has deleted its drain by the time it completes
    <3>1. drain # NoDrain => timer[t].pc \in {"armed", "close", "delete"}
      <4>1. drain # NoDrain => drain.timer = t
        BY <1>2 DEF OneInCharge
      <4> QED BY <4>1 DEF DrainHasTimer
    <3> QED BY <1>7, <3>1 DEF DrainDelete, DrainComplete
  <2> QED BY <1>1, <1>2, <1>3, <1>4, <1>5, <2>1, <2>2 DEF OneInCharge
<1> QED BY <1>6, <1>7 DEF TimerStep

\* The other steps leave the drain, its timers and their calls alone.
LEMMA ManualOther ==
    ASSUME IInv, OneInCharge,
           \/ \E r \in ReloadIds, conf \in Configs : ReloadBegin(r, conf)
           \/ \E conf \in Configs : ReloadUnnoticed(conf)
           \/ \E r \in ReloadIds : Reconfigure(r) \/ SetChecker(r)
           \/ (\E c \in Faulty : HealthChanges(c)) \/ Tick
           \/ UNCHANGED vars
    PROVE  OneInCharge' /\ UNCHANGED <<timer, drain>>
<1> USE DEF IInv
<1>1. UNCHANGED <<state, drain, timer>>
  BY DEF ReloadBegin, ReloadUnnoticed, Reconfigure, SetChecker, HealthChanges, Tick, vars
<1>2. \A t \in TimerIds : tr'[t] = tr[t]
  BY TimerAssumption DEF ReloadBegin, ReloadUnnoticed, Reconfigure, SetChecker, HealthChanges, Tick,
                         vars, TypeOK, Goroutine
<1>3. \A r \in ReloadIds : tr'[r] = tr[r] \/ tr'[r].pc = "read"
  BY DEF ReloadBegin, ReloadUnnoticed, Reconfigure, SetChecker, HealthChanges, Tick, vars, TypeOK,
         Goroutine, Call
<1>4. InCharge' \subseteq InCharge
  BY <1>1, <1>2, <1>3 DEF InCharge
<1>5. drain # NoDrain => drain.timer \in InCharge'
  <2>1. drain # NoDrain => drain.timer \in TimerIds /\ timer[drain.timer].pc # "free"
    BY DEF TypeOK, DrainHasTimer
  <2> QED BY <1>1, <2>1 DEF InCharge
<1> QED BY <1>1, <1>2, <1>3, <1>4, <1>5 DEF OneInCharge

LEMMA ManualCore ==
    ASSUME NeverAuto, IInv, SyncAsleep, OneInCharge, [Next]_vars
    PROVE  SyncAsleep' /\ OneInCharge'
<1>1. SyncAsleep' /\ ~SyncStep
  BY ManualSync
<1>2. ASSUME NEW g \in Goroutine, TransitionStep(g) PROVE OneInCharge'
  <2>1. g # "sync"
    BY <1>2 DEF SyncAsleep, TransitionStep, TransitionCreate, TransitionRead, TransitionCommit, StartDrain
  <2> QED BY <1>2, <2>1, ManualTransition, ManualStartDrain DEF TransitionStep
<1> QED BY <1>1, <1>2, ManualTimer, ManualOther DEF Next

\* A timer that connections remember as started was active before the step,
\* on the same old cluster.
LEMMA ManualRemembered ==
    ASSUME NeverAuto, IInv, SyncAsleep, OneInCharge, [Next]_vars,
           NEW t \in TimerIds, timer[t].pc # "free", timer'[t].pc \in {"armed", "close"}
    PROVE  timer[t].pc \in {"armed", "close"} /\ timer'[t].old = timer[t].old
<1> USE DEF IInv
<1>1. ~SyncStep
  BY ManualSync
<1>2. CASE timer'[t] = timer[t]
  BY <1>2
<1>3. ASSUME NEW g \in Goroutine, TransitionStep(g) PROVE timer'[t] = timer[t]
  <2>1. g # "sync"
    BY <1>3 DEF SyncAsleep, TransitionStep, TransitionCreate, TransitionRead, TransitionCommit, StartDrain
  <2>2. ~StartDrain(g)
    BY <2>1, ManualStartDrain
  <2> QED BY <1>3, <2>2 DEF TransitionStep, TransitionCreate, TransitionRead, TransitionCommit
<1>4. CASE \E u \in TimerIds : TimerStep(u)
  BY <1>4 DEF TimerStep, TimerFires, ForceClose, DrainDelete, DrainComplete, TypeOK, Idle
<1> QED BY <1>1, <1>2, <1>3, <1>4, ManualOther DEF Next

\* The old cluster of an active timer is a cluster, and new connections go to
\* the other one.
LEMMA ManualDirection ==
    ASSUME IInv, OneInCharge, NEW t \in TimerIds, timer[t].pc \in {"armed", "close"}
    PROVE  timer[t].old \in Cluster /\ drain # NoDrain /\ drain.new # timer[t].old
<1>1. drain = [old |-> timer[t].old, new |-> Opposite(timer[t].old), timer |-> t]
  BY DEF OneInCharge
<1>2. drain # NoDrain
  BY <1>1, TimerAssumption DEF NoDrain
<1>3. drain \in [old : Cluster, new : Cluster, timer : TimerIds]
  BY <1>2 DEF IInv, TypeOK
<1> QED BY <1>1, <1>2, <1>3 DEF Opposite, Cluster

LEMMA ManualRoute ==
    ASSUME RIInv, ManualIInv, NEW c \in Conns, ConnStep(c) \/ CloseTaken(c)
    PROVE  AfterOK'
<1> USE DEF RIInv
<1>1. UNCHANGED <<timer, drain, state>> /\ conn \in [Conns -> Connection] /\ IInv /\ OneInCharge
  BY DEF ConnStep, RouteRead, RouteReadDrain, RouteReadHold, Register, RegisterInsert, Unregister,
         CloseTaken, vars, RTypeOK, ManualIInv
<1>2. \A d \in Conns \ {c} : conn'[d] = conn[d]
  BY <1>1 DEF ConnStep, RouteRead, RouteReadDrain, RouteReadHold, Register, RegisterInsert,
              Unregister, CloseTaken
<1>3. conn[c] \in Connection
  BY <1>1
<1> SUFFICES ASSUME NEW t \in conn'[c].after
             PROVE  /\ timer[t].pc # "free" /\ conn'[c].pc # "read_hold"
                    /\ timer[t].pc \in {"armed", "close"} => conn'[c].target # timer[t].old
  BY <1>1, <1>2 DEF AfterOK, ManualIInv
<1>4. CASE RouteRead(c)
  <2> DEFINE pc == CASE Current \in {"PRIMARIO", "SECUNDARIO"} -> "routed"
                     [] Current = "DRAINING" -> "read_drain"
                     [] Current = "BOTH_DOWN" -> "read_hold"
             target == IF Current \in {"PRIMARIO", "SECUNDARIO"} THEN stateToTarget(Current)
                                                                 ELSE NoCluster
  <2>1. conn'[c] = [Absent EXCEPT !.after = Started, !.pc = pc, !.target = target]
    BY <1>1, <1>4 DEF RouteRead
  <2>2. t \in Started
    <3> HIDE DEF pc, target
    <3> QED BY <2>1 DEF Absent
  <2>3. t \in TimerIds /\ timer[t].pc # "free" /\ state = "DRAINING"
    BY <1>1, <2>2 DEF Started, OneInCharge, InCharge
  <2>4. pc = "read_drain" /\ target = NoCluster
    BY <2>3 DEF Current, NoState
  <2> HIDE DEF pc, target
  <2>5. conn'[c].pc = "read_drain" /\ conn'[c].target = NoCluster
    BY <2>1, <2>4 DEF Absent
  <2> QED BY <1>1, <2>3, <2>5, ManualDirection DEF NoCluster, Cluster
<1>5. CASE RouteReadDrain(c)
  <2>1. /\ conn'[c].after = conn[c].after /\ conn'[c].pc = "routed"
        /\ conn'[c].target = IF drain = NoDrain THEN "primary" ELSE drain.new
    BY <1>3, <1>1, <1>5 DEF RouteReadDrain, Connection
  <2>2. t \in TimerIds /\ timer[t].pc # "free"
    BY <1>3, <2>1 DEF Connection, AfterOK, ManualIInv
  <2> QED BY <1>1, <2>1, <2>2, ManualDirection
<1>6. CASE RouteReadHold(c)
  BY <1>1, <1>3, <1>6 DEF RouteReadHold, AfterOK, ManualIInv, Connection
<1>7. CASE Register(c) \/ RegisterInsert(c)
  <2>1. /\ conn'[c].after = conn[c].after /\ conn'[c].target = conn[c].target
        /\ conn'[c].pc \in {"counted", "open"}
    BY <1>1, <1>3, <1>7 DEF Register, RegisterInsert, Connection
  <2> QED BY <2>1 DEF AfterOK, ManualIInv
<1>8. CASE Unregister(c) \/ CloseTaken(c)
  <2>1. \/ conn'[c] = Absent
        \/ /\ conn'[c].after = conn[c].after /\ conn'[c].target = conn[c].target
           /\ conn'[c].pc = "gone"
    BY <1>1, <1>3, <1>8 DEF Unregister, CloseTaken, Connection
  <2> QED BY <2>1 DEF AfterOK, ManualIInv, Absent
<1> QED BY <1>4, <1>5, <1>6, <1>7, <1>8 DEF ConnStep

LEMMA StepManual == NeverAuto /\ RIInv /\ ManualIInv /\ [RNext]_rvars => ManualIInv'
<1> SUFFICES ASSUME NeverAuto, RIInv, ManualIInv, [RNext]_rvars PROVE ManualIInv'
  OBVIOUS
<1>1. [Next]_vars /\ IInv /\ SyncAsleep /\ OneInCharge /\ conn \in [Conns -> Connection]
  BY CoreStep DEF RIInv, ManualIInv, RTypeOK
<1>2. SyncAsleep' /\ OneInCharge'
  BY <1>1, ManualCore
<1>3. AfterOK'
  <2>1. CASE \E c \in Conns : ConnStep(c) \/ CloseTaken(c)
    BY <2>1, ManualRoute
  <2>2. CASE UNCHANGED rvars
    BY <2>2 DEF rvars, vars, AfterOK, ManualIInv
  <2>3. CASE DRStep \/ \E t \in TimerIds : RForceClose(t)
    <3> SUFFICES ASSUME NEW c \in Conns, NEW t \in conn'[c].after
                 PROVE  /\ timer'[t].pc # "free" /\ conn'[c].pc # "read_hold"
                        /\ timer'[t].pc \in {"armed", "close"}
                              => conn'[c].target # timer'[t].old
      BY DEF AfterOK
    <3>1. conn[c] \in Connection
      BY <1>1
    <3>2. /\ t \in conn[c].after /\ timer'[t].pc # "free" /\ conn'[c].target = conn[c].target
          /\ conn'[c].pc = conn[c].pc \/ conn'[c].pc = "taken"
      <4>1. CASE DRStep
        <5>1. conn'[c] = [conn[c] EXCEPT !.after = {u \in conn[c].after : ~Forget(u)}]
          BY <4>1 DEF DRStep
        <5>2. t \in {u \in conn[c].after : ~Forget(u)} /\ conn'[c].target = conn[c].target
              /\ conn'[c].pc = conn[c].pc
          BY <3>1, <5>1 DEF Connection
        <5> QED BY <5>2 DEF Forget
      <4>2. ASSUME NEW u \in TimerIds, RForceClose(u)
            PROVE  /\ t \in conn[c].after /\ timer'[t].pc # "free"
                   /\ conn'[c].target = conn[c].target
                   /\ conn'[c].pc = conn[c].pc \/ conn'[c].pc = "taken"
        <5>1. /\ conn'[c].after = conn[c].after /\ conn'[c].target = conn[c].target
              /\ conn'[c].pc = conn[c].pc \/ conn'[c].pc = "taken"
          BY <3>1, <4>2 DEF RForceClose, Connection
        <5>2. t \in TimerIds /\ timer[t].pc # "free"
          BY <3>1, <5>1 DEF Connection, AfterOK, ManualIInv
        <5>3. timer'[t].pc # "free"
          BY <1>1, <4>2, <5>2 DEF RForceClose, ForceClose, Idle, IInv, TypeOK
        <5> QED BY <5>1, <5>3
      <4> QED BY <2>3, <4>1, <4>2
    <3>3. /\ t \in TimerIds /\ timer[t].pc # "free" /\ conn[c].pc # "read_hold"
          /\ timer[t].pc \in {"armed", "close"} => conn[c].target # timer[t].old
      BY <3>1, <3>2 DEF Connection, AfterOK, ManualIInv
    <3> QED BY <1>1, <3>2, <3>3, ManualRemembered
  <2> QED BY <2>1, <2>2, <2>3 DEF RNext
<1> QED BY <1>2, <1>3 DEF ManualIInv

\* The drains of a BU that is switched by reloads alone never close a
\* connection whose routing began after the drain was started: the one drain
\* timer alive points away from the cluster that new connections are sent to.
THEOREM RoutingNewUnaffected ==
    ASSUME NeverAuto
    PROVE  RSpec => []NewConnectionsUnaffected
<1>1. RInit => RIInv /\ ManualIInv
  BY NeverAuto, RInitRIInv, InitManual
<1>2. RIInv /\ ManualIInv /\ [RNext]_rvars => (RIInv /\ ManualIInv)'
  BY NeverAuto, StepRIInv, StepManual
<1>3. RIInv /\ ManualIInv => NewConnectionsUnaffected
  BY DEF ManualIInv, AfterOK, NewConnectionsUnaffected, ClosedBy
<1> QED BY <1>1, <1>2, <1>3, PTL DEF RSpec
=============================================================================
