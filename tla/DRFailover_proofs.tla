------------------------- MODULE DRFailover_proofs -------------------------
(***************************************************************************)
(* Machine-checked proofs about DRFailover, for every choice of the        *)
(* thresholds, the cooldown, the breaker, the configurations, the number   *)
(* of timers and the number of reloads.                                    *)
(***************************************************************************)
EXTENDS DRFailover, WindowLemmas

(***************************************************************************)
(* The controller's operators keep the controller's type.                  *)
(***************************************************************************)
LEMMA UpToType ==
    ASSUME NEW cap \in Nat, NEW n \in 0..cap
    PROVE  UpTo(n, cap) \in 0..cap
BY DEF UpTo

LEMMA NewControllerType ==
    ASSUME NEW conf \in Config
    PROVE  /\ NewController(conf) \in Controller
           /\ NewController(conf).broken = FALSE
<1>1. NewController(conf) \in ControllerRecord
  <2>1. conf.auto \in BOOLEAN /\ conf.active \in Cluster \cup {NoCluster}
    <3>1. CASE conf = NoConfig
      BY <3>1 DEF NoConfig
    <3>2. CASE conf \in [active : Cluster, auto : BOOLEAN]
      BY <3>2
    <3> QED BY <3>1, <3>2 DEF Config
  <2> QED BY <2>1, BreakerAssumption, EmptySeq DEF NewController, ControllerRecord
<1>2. \A cl \in Cluster : VerdictAgrees(NewController(conf), cl)
  BY ThresholdAssumption DEF NewController, VerdictAgrees
<1>3. NewController(conf).broken = FALSE
  BY DEF NewController
<1> QED BY <1>1, <1>2, <1>3 DEF Controller

\* What does not touch the streaks leaves every verdict as it was.
LEMMA SameVerdicts ==
    ASSUME NEW c \in Controller, NEW d \in ControllerRecord,
           d.healthy = c.healthy, d.fails = c.fails, d.succs = c.succs
    PROVE  d \in Controller
BY DEF Controller, VerdictAgrees

LEMMA RecordType ==
    ASSUME NEW c \in Controller, NEW cl \in Cluster, NEW ok \in BOOLEAN
    PROVE  /\ RecordHealthResult(c, cl, ok) \in Controller
           /\ RecordHealthResult(c, cl, ok).broken = c.broken
<1> DEFINE fails == IF ok THEN 0 ELSE UpTo(c.fails[cl], FailureThreshold)
           succs == IF ok THEN UpTo(c.succs[cl], RecoveryThreshold) ELSE 0
           up == IF ok THEN c.healthy[cl] \/ succs >= RecoveryThreshold
                       ELSE c.healthy[cl] /\ fails < FailureThreshold
<1>1. fails \in Nat /\ succs \in Nat
  BY ThresholdAssumption DEF Controller, ControllerRecord, UpTo
<1>2. up \in BOOLEAN
  BY DEF Controller, ControllerRecord
<1>3. RecordHealthResult(c, cl, ok) =
        [c EXCEPT !.fails[cl] = fails, !.succs[cl] = succs, !.healthy[cl] = up]
  BY Zenon DEF RecordHealthResult
<1>4. IF up THEN fails < FailureThreshold ELSE succs < RecoveryThreshold
  <2>1. CASE ok
    BY <1>1, <2>1, ThresholdAssumption
  <2>2. CASE ~ok
    BY <1>1, <2>2, ThresholdAssumption DEF Controller, VerdictAgrees
  <2> QED BY <2>1, <2>2
<1> HIDE DEF fails, succs, up
<1>5. /\ [c.fails EXCEPT ![cl] = fails] \in [Cluster -> Nat]
      /\ [c.succs EXCEPT ![cl] = succs] \in [Cluster -> Nat]
      /\ [c.healthy EXCEPT ![cl] = up] \in [Cluster -> BOOLEAN]
  BY <1>1, <1>2 DEF Controller, ControllerRecord
<1>6. RecordHealthResult(c, cl, ok) \in ControllerRecord
  BY <1>3, <1>5 DEF Controller, ControllerRecord
<1>7. ASSUME NEW k \in Cluster
      PROVE  VerdictAgrees(RecordHealthResult(c, cl, ok), k)
  <2>1. CASE k = cl
    BY <1>3, <1>4, <1>5, <2>1 DEF VerdictAgrees, Controller, ControllerRecord
  <2>2. CASE k # cl
    BY <1>3, <1>5, <2>2 DEF VerdictAgrees, Controller, ControllerRecord
  <2> QED BY <2>1, <2>2
<1>8. RecordHealthResult(c, cl, ok).broken = c.broken
  BY <1>3 DEF Controller, ControllerRecord
<1> QED BY <1>6, <1>7, <1>8 DEF Controller

\* Pruning keeps nothing or what follows the first timestamp in the window.
LEMMA PruneSuffix ==
    ASSUME NEW stamps \in Seq(0..Window)
    PROVE  \/ pruneFailoverTimestamps(stamps) = << >>
           \/ \E k \in 1..Len(stamps) :
                pruneFailoverTimestamps(stamps) = SubSeq(stamps, k, Len(stamps))
<1> DEFINE live  == {i \in DOMAIN stamps : stamps[i] < Window}
           first == CHOOSE i \in live : \A j \in live : i <= j
<1>1. CASE live = {}
  BY <1>1 DEF pruneFailoverTimestamps
<1>2. CASE live # {}
  <2>1. Len(stamps) \in Nat /\ live \in SUBSET (1..Len(stamps))
    BY LenProperties
  <2>2. first \in 1..Len(stamps)
    BY <1>2, <2>1, FirstLive
  <2>3. pruneFailoverTimestamps(stamps) = SubSeq(stamps, first, Len(stamps))
    BY <1>2 DEF pruneFailoverTimestamps
  <2> QED BY <2>2, <2>3
<1> QED BY <1>1, <1>2

LEMMA PruneType ==
    ASSUME NEW stamps \in Seq(0..Window)
    PROVE  pruneFailoverTimestamps(stamps) \in Seq(0..Window)
<1>1. CASE pruneFailoverTimestamps(stamps) = << >>
  BY <1>1, EmptySeq
<1>2. ASSUME NEW k \in 1..Len(stamps),
             pruneFailoverTimestamps(stamps) = SubSeq(stamps, k, Len(stamps))
      PROVE  pruneFailoverTimestamps(stamps) \in Seq(0..Window)
  BY <1>2, Suffix
<1> QED BY <1>1, <1>2, PruneSuffix

LEMMA StartedType ==
    ASSUME NEW c \in Controller
    PROVE  /\ FailoverStarted(c) \in Controller
           /\ FailoverStarted(c).broken = c.broken
<1> DEFINE kept   == IF HasBreaker THEN pruneFailoverTimestamps(c.stamps) ELSE c.stamps
           stamps == Append(kept, 0)
<1>1. stamps \in Seq(0..Window)
  <2>1. kept \in Seq(0..Window)
    BY PruneType DEF Controller, ControllerRecord
  <2> HIDE DEF kept
  <2> QED BY <2>1, BreakerAssumption, AppendProperties
<1>2. 0 \in 0..Cooldown
  BY BreakerAssumption
<1>3. FailoverStarted(c) = [c EXCEPT !.since = 0, !.stamps = stamps]
  BY DEF FailoverStarted
<1> HIDE DEF stamps
<1>4. FailoverStarted(c) \in ControllerRecord
  BY <1>1, <1>2, <1>3 DEF Controller, ControllerRecord
<1> QED BY <1>3, <1>4, SameVerdicts DEF Controller, ControllerRecord

LEMMA RecordedType ==
    ASSUME NEW c \in Controller
    PROVE  FailoverRecorded(c) \in Controller
<1>1. pruneFailoverTimestamps(c.stamps) \in Seq(0..Window)
  BY PruneType DEF Controller, ControllerRecord
<1>2. (c.broken \/ Len(pruneFailoverTimestamps(c.stamps)) >= MaxFailovers) \in BOOLEAN
  OBVIOUS
<1>3. FailoverRecorded(c) \in ControllerRecord
  BY <1>1, <1>2 DEF FailoverRecorded, Controller, ControllerRecord
<1> QED BY <1>3, SameVerdicts DEF FailoverRecorded, Controller, ControllerRecord

LEMMA EnteredType ==
    ASSUME NEW c \in Controller, NEW from \in {"PRIMARIO", "SECUNDARIO", "DRAINING"}
    PROVE  /\ BothDownEntered(c, from) \in Controller
           /\ BothDownEntered(c, from).broken = c.broken
<1>1. /\ BothDownEntered(c, from) \in ControllerRecord
      /\ BothDownEntered(c, from).broken = c.broken
  BY DEF BothDownEntered, Controller, ControllerRecord, StateOf, Opposite
<1> QED BY <1>1, SameVerdicts DEF BothDownEntered, Controller, ControllerRecord

LEMMA AgedType ==
    ASSUME NEW c \in Controller
    PROVE  Aged(c) \in Controller /\ Aged(c).broken = c.broken
<1> DEFINE older == [i \in DOMAIN c.stamps |-> UpTo(c.stamps[i], Window)]
<1>1. c.stamps \in Seq(0..Window) /\ Len(c.stamps) \in Nat
       /\ DOMAIN c.stamps = 1..Len(c.stamps)
  BY LenProperties DEF Controller, ControllerRecord
<1>2. \A i \in 1..Len(c.stamps) : UpTo(c.stamps[i], Window) \in 0..Window
  BY <1>1, BreakerAssumption, ElementOfSeq, UpToType
<1>3. older \in Seq(0..Window)
  BY <1>1, <1>2
<1>4. UpTo(c.since, Cooldown) \in 0..Cooldown
  BY BreakerAssumption, UpToType DEF Controller, ControllerRecord
<1>5. Aged(c) = [c EXCEPT !.since = UpTo(c.since, Cooldown), !.stamps = older]
  BY Zenon DEF Aged
<1> HIDE DEF older
<1>6. Aged(c) \in ControllerRecord
  BY <1>3, <1>4, <1>5 DEF Controller, ControllerRecord
<1> QED BY <1>5, <1>6, SameVerdicts DEF Controller, ControllerRecord

LEMMA LiveType ==
    ASSUME ctrls \in [Generation -> Controller], NEW reachable
    PROVE  /\ Live(reachable) \in [Generation -> Controller]
           /\ \A g \in Generation : g \in reachable => Live(reachable)[g] = ctrls[g]
<1>1. NewController(InitConfig) \in Controller
  BY ConfigAssumption, NewControllerType
<1> QED BY <1>1 DEF Live
-----------------------------------------------------------------------------
(***************************************************************************)
(* The invariant holds initially and is kept by every action.              *)
(***************************************************************************)
LEMMA InitIInv == Init => IInv
<1> SUFFICES ASSUME Init PROVE IInv
  OBVIOUS
<1>1. NewController(InitConfig) \in Controller /\ ~NewController(InitConfig).broken
  BY ConfigAssumption, NewControllerType
<1>2. 0 \in Generation
  BY DEF Generation
<1>3. TypeOK
  <2>1. state \in BUState \cup {NoState} /\ checker \in [Cluster -> BOOLEAN] \cup {NotChecked}
    BY DEF Init, StateOf, BUState, Checker, AllHealthy
  <2>2. reload \in [ReloadIds -> [pc : {"idle", "reconfigure", "set_checker"}, conf : Config]]
    BY DEF Init, NoReload, Config
  <2>3. reloads \in 0..MaxReloads
    BY EnvAssumption DEF Init
  <2> QED BY <1>1, <1>2, <2>1, <2>2, <2>3, ConfigAssumption
             DEF Init, TypeOK, BUState, NoCall, Idle, NoCluster, NoState
<1>4. CallsOK
  BY DEF Init, CallsOK, NoCall, Goroutine
<1>5. SyncOK /\ GenerationsOK /\ DrainHasTimer /\ DrainingNotOrphaned /\ BothDownRecoverable
  BY <1>1, <1>2 DEF Init, SyncOK, GenerationsOK, DrainHasTimer, DrainingNotOrphaned,
                    BothDownRecoverable, StateOf, NoState
<1> QED BY <1>3, <1>4, <1>5 DEF IInv

\* The sort of a Transition call, and what becomes of it when it commits.
LEMMA CommittedFacts ==
    ASSUME TypeOK, NEW g \in Goroutine, tr[g].pc # "none" => tr[g].to \in BUState
    PROVE  /\ [tr EXCEPT ![g] = Committed(tr[g])] \in
                 [Goroutine -> [pc   : {"none", "read", "commit", "callback"},
                                to   : BUState \cup {NoState},
                                from : BUState \cup {NoState}]]
           /\ Committed(tr[g]).pc \in {"none", "callback"}
           /\ Committed(tr[g]).pc = "callback" <=> tr[g].to = "DRAINING"
           /\ Committed(tr[g]).pc = "callback" => Committed(tr[g]).to = "DRAINING"
BY DEF TypeOK, Committed, NoCall, NoState

\* TransitionRead only touches the caller's own call record.
LEMMA ReadIInv ==
    ASSUME IInv, NEW g \in Goroutine, TransitionRead(g)
    PROVE  IInv'
<1> USE DEF IInv
<1>1. TypeOK'
  <2> DEFINE CallType == [pc : {"none", "read", "commit", "callback"},
                          to : BUState \cup {NoState}, from : BUState \cup {NoState}]
  <2>1. tr \in [Goroutine -> CallType] /\ state \in BUState \cup {NoState}
    BY DEF TypeOK
  <2>2. NoCall \in CallType /\ [tr[g] EXCEPT !.pc = "commit", !.from = state] \in CallType
    BY <2>1 DEF NoCall
  <2>3. tr'[g] \in CallType /\ tr' = [tr EXCEPT ![g] = tr'[g]]
    BY <2>1, <2>2 DEF TransitionRead
  <2>4. tr' \in [Goroutine -> CallType]
    <3> HIDE DEF CallType
    <3> QED BY <2>1, <2>3
  <2>5. UNCHANGED <<state, drain, timer, checker, newChecker, ctrls, installed, spc, sgen, sfrom,
                    cfg, reload, reloads>>
    BY DEF TransitionRead, syncVars
  <2> QED BY <2>4, <2>5 DEF TypeOK
<1>2. CallsOK'
  BY TimerAssumption DEF TypeOK, CallsOK, TransitionRead, NoCall, Goroutine, syncVars
<1>3. SyncOK' /\ GenerationsOK' /\ DrainHasTimer' /\ BothDownRecoverable'
  BY DEF SyncOK, GenerationsOK, DrainHasTimer, BothDownRecoverable, TransitionRead, syncVars
<1>4. DrainingNotOrphaned'
  <2> SUFFICES ASSUME state' = "DRAINING", drain' = NoDrain
               PROVE  \/ \E h \in Goroutine : WillStart(h)'
                      \/ \E t \in TimerIds : WillComplete(t)'
    BY DEF DrainingNotOrphaned
  <2>1. state = "DRAINING" /\ drain = NoDrain
    BY DEF TransitionRead
  <2>2. CASE \E h \in Goroutine : WillStart(h)
    BY <2>2 DEF WillStart, TransitionRead, TypeOK
  <2>3. CASE \E t \in TimerIds : WillComplete(t)
    <3> PICK t \in TimerIds : WillComplete(t)
      BY <2>3
    <3>1. CASE t # g
      BY <3>1 DEF WillComplete, TransitionRead, TypeOK
    <3>2. CASE t = g
      BY <2>1, <3>2 DEF WillComplete, TransitionRead, TypeOK, CallsOK, isValidTransition
    <3> QED BY <3>1, <3>2
  <2> QED BY <2>1, <2>2, <2>3 DEF DrainingNotOrphaned
<1> QED BY <1>1, <1>2, <1>3, <1>4

\* What a goroutine may ask for.
LEMMA RequestType ==
    ASSUME IInv, NEW g \in Goroutine, tr[g].pc # "none"
    PROVE  /\ tr[g].to \in BUState
           /\ tr[g].to = "BOTH_DOWN" => g = "sync" /\ spc = "both_down"
BY TimerAssumption DEF IInv, CallsOK, Goroutine, BUState

\* The first Transition of a BU without an entry: it is created in any state.
LEMMA CreateIInv ==
    ASSUME IInv, NEW g \in Goroutine, TransitionCreate(g)
    PROVE  IInv'
<1> USE DEF IInv
<1>1. /\ tr[g].pc = "read" /\ state = NoState /\ state' = tr[g].to
      /\ tr' = [tr EXCEPT ![g] = Committed(tr[g])]
      /\ UNCHANGED <<drain, timer, checker, newChecker, ctrls, installed, syncVars, cfg, reload, reloads>>
  BY DEF TransitionCreate, TypeOK
<1>2. tr[g].to \in BUState /\ (tr[g].to = "BOTH_DOWN" => g = "sync" /\ spc = "both_down")
  BY <1>1, RequestType
<1>3. TypeOK'
  BY <1>1, <1>2, CommittedFacts DEF TypeOK, syncVars
<1>4. /\ \A h \in Goroutine : h # g => tr'[h] = tr[h]
      /\ tr'[g] = Committed(tr[g])
      /\ tr'[g].pc \in {"none", "callback"}
      /\ tr'[g].pc = "callback" <=> tr[g].to = "DRAINING"
      /\ tr'[g].pc = "callback" => tr'[g].to = "DRAINING"
  BY <1>1, <1>2, CommittedFacts DEF TypeOK
<1>5. CallsOK'
  <2>1. /\ "sync" \in Goroutine /\ TimerIds \subseteq Goroutine /\ ReloadIds \subseteq Goroutine
    BY DEF Goroutine
  <2> QED BY <1>1, <1>4, <2>1 DEF CallsOK, syncVars
<1>6. DrainHasTimer' /\ GenerationsOK'
  BY <1>1 DEF DrainHasTimer, GenerationsOK, syncVars
<1>7. SyncOK' /\ BothDownRecoverable'
  BY <1>1, <1>2 DEF SyncOK, GenerationsOK, BothDownRecoverable, syncVars
<1>8. DrainingNotOrphaned'
  BY <1>1, <1>4 DEF DrainingNotOrphaned, WillStart
<1> QED BY <1>3, <1>5, <1>6, <1>7, <1>8

LEMMA CommitIInv ==
    ASSUME IInv, NEW g \in Goroutine, TransitionCommit(g)
    PROVE  IInv'
<1> USE DEF IInv
<1>0. /\ tr[g].to \in BUState /\ tr[g].pc = "commit"
      /\ Committed(tr[g]).pc \in {"none", "callback"}
      /\ Committed(tr[g]).pc = "callback" <=> tr[g].to = "DRAINING"
      /\ Committed(tr[g]).pc = "callback" => Committed(tr[g]).to = "DRAINING"
      /\ tr' = [tr EXCEPT ![g] = Committed(tr[g])] \/ tr' = [tr EXCEPT ![g] = NoCall]
      /\ state' = state \/ (state = tr[g].from /\ state' = tr[g].to
                             /\ tr' = [tr EXCEPT ![g] = Committed(tr[g])])
      /\ UNCHANGED <<drain, timer, checker, newChecker, ctrls, installed, syncVars, cfg, reload, reloads>>
  <2>1. tr[g].to \in BUState /\ tr[g].pc = "commit"
    BY RequestType DEF TransitionCommit
  <2> QED BY <2>1, CommittedFacts DEF TransitionCommit, TypeOK
<1>1. TypeOK'
  <2>1. [tr EXCEPT ![g] = NoCall] \in [Goroutine -> [pc   : {"none", "read", "commit", "callback"},
                                                     to   : BUState \cup {NoState},
                                                     from : BUState \cup {NoState}]]
    BY DEF TypeOK, NoCall
  <2>2. [tr EXCEPT ![g] = Committed(tr[g])] \in
            [Goroutine -> [pc   : {"none", "read", "commit", "callback"},
                           to   : BUState \cup {NoState},
                           from : BUState \cup {NoState}]]
    BY <1>0, CommittedFacts
  <2>3. tr' \in [Goroutine -> [pc   : {"none", "read", "commit", "callback"},
                               to   : BUState \cup {NoState},
                               from : BUState \cup {NoState}]]
    BY <1>0, <2>1, <2>2
  <2>4. state' \in BUState \cup {NoState}
    BY <1>0 DEF TypeOK
  <2> QED BY <1>0, <2>3, <2>4 DEF TypeOK, syncVars
<1>2. CallsOK'
  <2>1. /\ \A h \in Goroutine : h # g => tr'[h] = tr[h]
        /\ tr'[g].pc \in {"none", "callback"}
        /\ tr'[g].pc = "callback" => tr'[g].to = "DRAINING" /\ tr'[g].to = tr[g].to
        /\ tr[g].pc = "commit"
        /\ UNCHANGED <<spc, reload>>
    BY <1>0 DEF TypeOK, NoCall, syncVars
  <2>2. "sync" \in Goroutine /\ TimerIds \subseteq Goroutine /\ ReloadIds \subseteq Goroutine
    BY DEF Goroutine
  <2> QED BY <2>1, <2>2 DEF CallsOK
<1>3. DrainHasTimer'
  BY DEF DrainHasTimer, TransitionCommit
<1>4. tr[g].to = "BOTH_DOWN" => spc = "both_down"
  BY <1>0, RequestType
<1>5. SyncOK' /\ GenerationsOK' /\ BothDownRecoverable'
  BY <1>0, <1>4 DEF SyncOK, GenerationsOK, BothDownRecoverable, syncVars
<1>6. DrainingNotOrphaned'
  <2> SUFFICES ASSUME state' = "DRAINING", drain' = NoDrain
               PROVE  \/ \E h \in Goroutine : WillStart(h)'
                      \/ \E t \in TimerIds : WillComplete(t)'
    BY DEF DrainingNotOrphaned
  <2>1. CASE state # "DRAINING"
    BY <1>0, <2>1 DEF WillStart, TypeOK
  <2>2. CASE state = "DRAINING" /\ \E h \in Goroutine : WillStart(h)
    <3>1. PICK h \in Goroutine : tr[h].pc = "callback"
      BY <2>2 DEF WillStart
    <3>2. h # g
      BY <1>0, <3>1
    <3>3. tr'[h] = tr[h]
      BY <1>0, <3>2 DEF TypeOK
    <3> QED BY <3>1, <3>3 DEF WillStart
  <2>3. CASE state = "DRAINING" /\ \E t \in TimerIds : WillComplete(t)
    <3> PICK t \in TimerIds : WillComplete(t)
      BY <2>3
    <3>1. CASE t # g
      <4>1. tr'[t] = tr[t] /\ timer' = timer
        BY <3>1 DEF TransitionCommit, TypeOK, Goroutine
      <4> QED BY <4>1 DEF WillComplete
    <3>2. CASE t = g
      \* a timer's own commit out of DRAINING leaves DRAINING; and a commit that
      \* is skipped was not a way out of DRAINING in the first place
      <4>1. tr[t].pc = "commit" /\ tr[t].to \in {"PRIMARIO", "SECUNDARIO"}
        BY <3>2 DEF TransitionCommit, CallsOK
      <4>2. state = tr[t].from => state' # "DRAINING"
        BY <3>2, <4>1 DEF TransitionCommit
      <4>3. CASE timer[t].pc = "complete" /\ timer[t].new # NoCluster
        BY <4>3 DEF WillComplete, TransitionCommit
      <4>4. CASE tr[t].from = "DRAINING"
        BY <4>2, <4>4, <2>3
      <4> QED BY <4>1, <4>3, <4>4 DEF WillComplete
    <3> QED BY <3>1, <3>2
  <2> QED BY <2>1, <2>2, <2>3 DEF DrainingNotOrphaned, TransitionCommit
<1> QED BY <1>1, <1>2, <1>3, <1>5, <1>6

LEMMA StartDrainIInv ==
    ASSUME IInv, NEW g \in Goroutine, StartDrain(g)
    PROVE  IInv'
<1> USE DEF IInv
<1> PICK t \in TimerIds :
      /\ drain' = [old |-> stateToTarget(tr[g].from),
                   new |-> DrainTarget(tr[g].from), timer |-> t]
      /\ timer' = [u \in TimerIds |->
            IF u = t THEN [pc |-> "armed", old |-> stateToTarget(tr[g].from), new |-> NoCluster]
            ELSE IF Stoppable(u) THEN Idle ELSE timer[u]]
  BY DEF StartDrain
<1>1. tr' = [tr EXCEPT ![g] = NoCall]
      /\ UNCHANGED <<state, checker, newChecker, ctrls, installed, syncVars, cfg, reload, reloads>>
  BY DEF StartDrain
<1>2. stateToTarget(tr[g].from) \in Cluster /\ DrainTarget(tr[g].from) \in Cluster
  BY DEF stateToTarget, DrainTarget, Opposite, Cluster
<1>3. drain' # NoDrain
  BY <1>2 DEF NoDrain, NoCluster, Cluster
<1>4. TypeOK'
  BY <1>1, <1>2 DEF TypeOK, NoCall, Idle, NoCluster, NoState, syncVars
<1>5. CallsOK'
  BY <1>1, TimerAssumption DEF TypeOK, CallsOK, NoCall, Goroutine, syncVars
<1>6. SyncOK' /\ GenerationsOK' /\ BothDownRecoverable'
  BY <1>1 DEF SyncOK, GenerationsOK, BothDownRecoverable, syncVars
<1>7. DrainHasTimer' /\ DrainingNotOrphaned'
  BY <1>3 DEF DrainHasTimer, DrainingNotOrphaned
<1> QED BY <1>4, <1>5, <1>6, <1>7

LEMMA TimerIInv ==
    ASSUME IInv, NEW t \in TimerIds, TimerStep(t)
    PROVE  IInv'
<1> USE DEF IInv
<1>1. CASE TimerFires(t) \/ ForceClose(t)
  <2>1. UNCHANGED <<state, tr, drain, checker, newChecker, ctrls, installed, syncVars, cfg, reload, reloads>>
    BY <1>1 DEF TimerFires, ForceClose
  <2>2. TypeOK'
    <3>1. timer' \in [TimerIds -> [pc  : {"free", "armed", "close", "delete", "complete"},
                                   old : Cluster \cup {NoCluster},
                                   new : Cluster \cup {NoCluster}]]
      <4>1. timer \in [TimerIds -> [pc  : {"free", "armed", "close", "delete", "complete"},
                                    old : Cluster \cup {NoCluster},
                                    new : Cluster \cup {NoCluster}]]
        BY DEF TypeOK
      <4>2. \/ timer' = [timer EXCEPT ![t].pc = "close"]
            \/ timer' = [timer EXCEPT ![t] = [Idle EXCEPT !.pc = "delete"]]
        BY <1>1 DEF TimerFires, ForceClose
      <4>3. [Idle EXCEPT !.pc = "delete"] \in [pc  : {"free", "armed", "close", "delete", "complete"},
                                               old : Cluster \cup {NoCluster},
                                               new : Cluster \cup {NoCluster}]
        BY DEF Idle
      <4> QED BY <4>1, <4>2, <4>3
    <3> QED BY <2>1, <3>1 DEF TypeOK, syncVars
  <2>3. CallsOK' /\ SyncOK' /\ GenerationsOK' /\ BothDownRecoverable'
    BY <2>1 DEF CallsOK, SyncOK, GenerationsOK, BothDownRecoverable, syncVars
  <2>4. DrainHasTimer'
    BY <1>1, <2>1 DEF DrainHasTimer, TimerFires, ForceClose, Idle, TypeOK
  <2>5. DrainingNotOrphaned'
    BY <1>1, <2>1 DEF DrainingNotOrphaned, WillStart, WillComplete, TimerFires, ForceClose, TypeOK
  <2> QED BY <2>2, <2>3, <2>4, <2>5
<1>2. CASE DrainDelete(t)
  <2>1. UNCHANGED <<state, tr, checker, newChecker, ctrls, installed, syncVars, cfg, reload, reloads>>
    BY <1>2 DEF DrainDelete
  <2>2. TypeOK'
    <3>1. drain.new \in Cluster \cup {NoCluster}
      BY DEF TypeOK, NoDrain
    <3>2. timer' \in [TimerIds -> [pc  : {"free", "armed", "close", "delete", "complete"},
                                   old : Cluster \cup {NoCluster},
                                   new : Cluster \cup {NoCluster}]]
      <4>1. timer \in [TimerIds -> [pc  : {"free", "armed", "close", "delete", "complete"},
                                    old : Cluster \cup {NoCluster},
                                    new : Cluster \cup {NoCluster}]]
        BY DEF TypeOK
      <4>2. timer' = [timer EXCEPT ![t].pc = "complete", ![t].new = drain.new]
        BY <1>2 DEF DrainDelete
      <4>3. timer'[t] \in [pc  : {"free", "armed", "close", "delete", "complete"},
                           old : Cluster \cup {NoCluster},
                           new : Cluster \cup {NoCluster}]
        BY <3>1, <4>1, <4>2
      <4>4. timer' = [timer EXCEPT ![t] = timer'[t]]
        BY <4>1, <4>2
      <4> QED BY <4>1, <4>3, <4>4
    <3>3. drain' = NoDrain
      BY <1>2 DEF DrainDelete
    <3> QED BY <2>1, <3>2, <3>3 DEF TypeOK, syncVars
  <2>3. CallsOK' /\ SyncOK' /\ GenerationsOK' /\ BothDownRecoverable'
    BY <2>1 DEF CallsOK, SyncOK, GenerationsOK, BothDownRecoverable, syncVars
  <2>4. DrainHasTimer'
    BY <1>2 DEF DrainHasTimer, DrainDelete
  <2>5. DrainingNotOrphaned'
    <3>1. CASE drain # NoDrain
      <4>1. drain.new # NoCluster
        BY <3>1 DEF TypeOK, NoCluster, Cluster
      <4> QED BY <1>2, <4>1 DEF DrainingNotOrphaned, WillComplete, DrainDelete, TypeOK
    <3>2. CASE drain = NoDrain
      <4>1. \A u \in TimerIds : WillComplete(u) => WillComplete(u)'
        BY <1>2, <2>1 DEF WillComplete, DrainDelete, TypeOK
      <4>2. \A h \in Goroutine : WillStart(h) => WillStart(h)'
        BY <2>1 DEF WillStart
      <4> QED BY <2>1, <3>2, <4>1, <4>2 DEF DrainingNotOrphaned
    <3> QED BY <3>1, <3>2
  <2> QED BY <2>2, <2>3, <2>4, <2>5
<1>3. CASE DrainComplete(t)
  <2>1. UNCHANGED <<state, drain, checker, newChecker, ctrls, installed, syncVars, cfg, reload, reloads>>
    BY <1>3 DEF DrainComplete
  <2>2. t \in Goroutine /\ t # "sync" /\ t \notin ReloadIds
    BY TimerAssumption DEF Goroutine
  <2>3. TypeOK'
    BY <1>3, <2>1, <2>2 DEF TypeOK, DrainComplete, Idle, NoCluster, Call, StateOf, NoState, BUState, syncVars
  <2>4. CallsOK'
    <3>1. CASE tr' = tr
      BY <2>1, <3>1 DEF CallsOK, syncVars
    <3>2. CASE tr' = [tr EXCEPT ![t] = Call(StateOf(timer[t].new))]
      <4>1. /\ tr'[t].pc = "read" /\ tr'[t].to \in {"PRIMARIO", "SECUNDARIO"}
            /\ \A h \in Goroutine : h # t => tr'[h] = tr[h]
        BY <2>2, <3>2 DEF TypeOK, Call, StateOf
      <4>2. "sync" \in Goroutine /\ TimerIds \subseteq Goroutine /\ ReloadIds \subseteq Goroutine
        BY DEF Goroutine
      <4>3. UNCHANGED <<spc, reload>>
        BY <2>1 DEF syncVars
      <4>4. tr'["sync"] = tr["sync"] /\ \A r \in ReloadIds : tr'[r] = tr[r]
        BY <2>2, <4>1, <4>2
      <4>5. \A u \in TimerIds : tr'[u].pc # "none" => tr'[u].to \in {"PRIMARIO", "SECUNDARIO"}
        BY <4>1, <4>2 DEF CallsOK
      <4>6. \A h \in Goroutine : /\ tr'[h].pc = "commit" => isValidTransition(tr'[h].from, tr'[h].to)
                                 /\ tr'[h].pc = "callback" => tr'[h].to = "DRAINING"
        BY <4>1 DEF CallsOK
      <4> QED BY <4>3, <4>4, <4>5, <4>6 DEF CallsOK
    <3> QED BY <1>3, <3>1, <3>2 DEF DrainComplete
  <2>5. SyncOK' /\ GenerationsOK' /\ BothDownRecoverable'
    BY <2>1 DEF SyncOK, GenerationsOK, BothDownRecoverable, syncVars
  <2>6. DrainHasTimer'
    BY <1>3, <2>1 DEF DrainHasTimer, DrainComplete, TypeOK, NoDrain
  <2>7. DrainingNotOrphaned'
    <3> SUFFICES ASSUME state = "DRAINING"
                 PROVE  \/ drain # NoDrain
                        \/ \E h \in Goroutine : WillStart(h)'
                        \/ \E u \in TimerIds : WillComplete(u)'
      BY <2>1 DEF DrainingNotOrphaned
    <3>1. CASE timer[t].new # NoCluster
      BY <1>3, <2>2, <3>1 DEF WillComplete, DrainComplete, Call, TypeOK
    <3>2. CASE timer[t].new = NoCluster
      <4>1. tr' = tr
        BY <1>3, <3>2 DEF DrainComplete
      <4>2. \A u \in TimerIds : WillComplete(u) => WillComplete(u)'
        BY <1>3, <3>2, <4>1 DEF WillComplete, DrainComplete, TypeOK
      <4>3. \A h \in Goroutine : WillStart(h) => WillStart(h)'
        BY <4>1 DEF WillStart
      <4> QED BY <4>2, <4>3 DEF DrainingNotOrphaned
    <3> QED BY <3>1, <3>2
  <2> QED BY <2>3, <2>4, <2>5, <2>6, <2>7
<1> QED BY <1>1, <1>2, <1>3 DEF TimerStep

LEMMA DecisionFacts ==
    ASSUME NEW c \in Controller, NEW st \in BUState
    PROVE  /\ Decision(c, st) = "BOTH_DOWN" => ~c.broken /\ st # "BOTH_DOWN"
           /\ Decision(c, st) = "DRAINING" => st # "BOTH_DOWN"
BY DEF Decision, BothDownDecision, ActivePassiveDecision, NoState

LEMMA RecordIInv ==
    ASSUME IInv, SyncRecord
    PROVE  IInv'
<1> USE DEF IInv
<1> DEFINE one == RecordHealthResult(ctrls[installed], "primary", checker["primary"])
           both == RecordHealthResult(one, "secondary", checker["secondary"])
           live == Live({installed})
<1>1. /\ sgen' = installed /\ spc' = "evaluate" /\ tr["sync"].pc = "none"
      /\ UNCHANGED <<state, tr, drain, timer, checker, newChecker, installed, sfrom, cfg, reload, reloads>>
  BY DEF SyncRecord, SyncDone
<1>2. live \in [Generation -> Controller] /\ live[installed] = ctrls[installed]
  BY LiveType DEF TypeOK
<1>3. both \in Controller /\ both.broken = ctrls[installed].broken
  <2>1. "primary" \in Cluster /\ "secondary" \in Cluster
    BY DEF Cluster
  <2>2. ctrls[installed] \in Controller /\ checker["primary"] \in BOOLEAN
        /\ checker["secondary"] \in BOOLEAN
    BY <2>1 DEF TypeOK, SyncRecord
  <2>3. one \in Controller /\ one.broken = ctrls[installed].broken
    BY <2>1, <2>2, RecordType
  <2> HIDE DEF one
  <2> QED BY <2>1, <2>2, <2>3, RecordType
<1>4. ctrls' = [live EXCEPT ![installed] = both]
  BY <1>2 DEF SyncRecord
<1> HIDE DEF live, both
<1>5. ctrls' \in [Generation -> Controller] /\ ctrls'[installed].broken = ctrls[installed].broken
  BY <1>2, <1>3, <1>4 DEF TypeOK
<1>6. TypeOK'
  BY <1>1, <1>5 DEF TypeOK
<1>7. CallsOK' /\ SyncOK' /\ GenerationsOK' /\ DrainHasTimer'
  BY <1>1, <1>5 DEF CallsOK, SyncOK, GenerationsOK, DrainHasTimer, TypeOK, Generation
<1>8. BothDownRecoverable'
  BY <1>1, <1>5 DEF BothDownRecoverable
<1>9. DrainingNotOrphaned'
  BY <1>1 DEF DrainingNotOrphaned, WillStart, WillComplete
<1> QED BY <1>6, <1>7, <1>8, <1>9

\* Evaluate: at most the sync goroutine's call and its controller change.
LEMMA EvaluateIInv ==
    ASSUME IInv,
           EvaluateNone \/ EvaluateBothDown \/ EvaluateRestore \/ EvaluateFailover
    PROVE  IInv'
<1> USE DEF IInv
<1>1. /\ spc = "evaluate"
      /\ UNCHANGED <<state, drain, timer, checker, newChecker, installed, sgen, cfg, reload, reloads>>
  BY DEF EvaluateNone, EvaluateBothDown, EvaluateRestore, EvaluateFailover
<1>2. /\ ctrls[sgen] \in Controller /\ Current \in BUState /\ "sync" \in Goroutine
      /\ sgen \in Generation /\ tr["sync"].pc = "none"
      /\ Current # "BOTH_DOWN" => state # "BOTH_DOWN"
  <2>1. Current \in BUState /\ (Current # "BOTH_DOWN" => state # "BOTH_DOWN")
    BY DEF TypeOK, Current, BUState, NoState
  <2> QED BY <1>1, <2>1 DEF TypeOK, Goroutine, CallsOK
<1>3. ctrls' \in [Generation -> Controller] /\ \A h \in Generation : ctrls'[h].broken = ctrls[h].broken
  <2>1. CASE UNCHANGED ctrls
    BY <2>1 DEF TypeOK
  <2>2. CASE ctrls' = [ctrls EXCEPT ![sgen] = FailoverStarted(ctrls[sgen])]
    BY <1>2, <2>2, StartedType DEF TypeOK
  <2> QED BY <2>1, <2>2 DEF EvaluateNone, EvaluateBothDown, EvaluateRestore, EvaluateFailover
<1>4. /\ \A h \in Goroutine : h # "sync" => tr'[h] = tr[h]
      /\ tr'["sync"].pc \in {"none", "read"}
      /\ tr' \in [Goroutine -> [pc   : {"none", "read", "commit", "callback"},
                                to   : BUState \cup {NoState},
                                from : BUState \cup {NoState}]]
  <2>1. \A st \in BUState : Call(st) \in [pc : {"none", "read", "commit", "callback"},
                                          to   : BUState \cup {NoState},
                                          from : BUState \cup {NoState}]
    BY DEF Call
  <2>2. CASE EvaluateNone
    BY <1>2, <2>2 DEF EvaluateNone, TypeOK
  <2>3. CASE EvaluateBothDown
    BY <1>2, <2>1, <2>3 DEF EvaluateBothDown, TypeOK, Call, BUState
  <2>4. CASE EvaluateRestore
    BY <1>2, <2>1, <2>4 DEF EvaluateRestore, TypeOK, Call, BUState
  <2>5. CASE EvaluateFailover
    BY <1>2, <2>1, <2>5 DEF EvaluateFailover, TypeOK, Call, BUState
  <2> QED BY <2>2, <2>3, <2>4, <2>5
<1>5. TypeOK'
  <2>1. /\ spc' \in {"idle", "evaluate", "both_down", "triggered"}
        /\ sfrom' \in BUState \cup {NoState}
    BY <1>2 DEF TypeOK, EvaluateNone, EvaluateBothDown, EvaluateRestore, EvaluateFailover
  <2> QED BY <1>1, <1>3, <1>4, <2>1 DEF TypeOK
<1>6. tr'["sync"].pc # "none" =>
         \/ spc' = "idle" /\ tr'["sync"].to \in {"PRIMARIO", "SECUNDARIO"}
         \/ spc' = "both_down" /\ tr'["sync"].to = "BOTH_DOWN"
         \/ spc' = "triggered" /\ tr'["sync"].to = "DRAINING"
  <2>1. CASE EvaluateNone
    BY <1>2, <2>1 DEF EvaluateNone
  <2>2. CASE EvaluateBothDown
    BY <1>2, <2>2 DEF EvaluateBothDown, TypeOK, Call
  <2>3. CASE EvaluateRestore
    BY <1>2, <2>3 DEF EvaluateRestore, TypeOK, Call
  <2>4. CASE EvaluateFailover
    BY <1>2, <2>4 DEF EvaluateFailover, TypeOK, Call
  <2> QED BY <2>1, <2>2, <2>3, <2>4
<1>7. CallsOK'
  <2>1. \A h \in TimerIds \cup ReloadIds : h \in Goroutine /\ h # "sync"
    BY TimerAssumption DEF Goroutine
  <2>2. \A h \in Goroutine : /\ tr'[h].pc = "commit" => isValidTransition(tr'[h].from, tr'[h].to)
                             /\ tr'[h].pc = "callback" => tr'[h].to = "DRAINING"
    BY <1>4 DEF CallsOK
  <2>3. /\ \A t \in TimerIds : tr'[t].pc # "none" => tr'[t].to \in {"PRIMARIO", "SECUNDARIO"}
        /\ \A r \in ReloadIds :
             tr'[r].pc # "none" => reload'[r].pc = "reconfigure" /\ tr'[r].to = "DRAINING"
    BY <1>1, <1>4, <2>1 DEF CallsOK
  <2> QED BY <1>6, <2>2, <2>3 DEF CallsOK
<1>8. SyncOK'
  <2>1. CASE EvaluateNone \/ EvaluateRestore
    BY <2>1 DEF EvaluateNone, EvaluateRestore, SyncOK
  <2>2. CASE EvaluateBothDown
    BY <1>1, <1>2, <1>3, <2>2, DecisionFacts DEF EvaluateBothDown, SyncOK, BUState
  <2>3. CASE EvaluateFailover
    BY <1>1, <1>2, <2>3, DecisionFacts DEF EvaluateFailover, SyncOK
  <2> QED BY <2>1, <2>2, <2>3
<1>9. GenerationsOK' /\ DrainHasTimer' /\ BothDownRecoverable'
  BY <1>1, <1>3 DEF GenerationsOK, DrainHasTimer, BothDownRecoverable, TypeOK
<1>10. DrainingNotOrphaned'
  <2>1. \A t \in TimerIds : WillComplete(t) => WillComplete(t)'
    BY <1>1, <1>4, TimerAssumption DEF WillComplete, Goroutine
  <2>2. \A h \in Goroutine : WillStart(h) => WillStart(h)'
    BY <1>2, <1>4 DEF WillStart
  <2> QED BY <1>1, <2>1, <2>2 DEF DrainingNotOrphaned
<1> QED BY <1>5, <1>7, <1>8, <1>9, <1>10

LEMMA ReturnIInv ==
    ASSUME IInv, BothDownReturn \/ FailoverReturn
    PROVE  IInv'
<1> USE DEF IInv
<1>1. /\ UNCHANGED <<state, tr, drain, timer, checker, newChecker, installed, sgen, cfg, reload, reloads>>
      /\ spc' = "idle" /\ tr["sync"].pc = "none"
  BY DEF BothDownReturn, FailoverReturn
<1>2. ctrls[sgen] \in Controller /\ sgen \in Generation /\ installed \in Generation
  BY DEF TypeOK
<1>3. /\ ctrls' \in [Generation -> Controller]
      /\ \A h \in Generation : h # sgen => ctrls'[h] = ctrls[h]
      /\ state = "BOTH_DOWN" => ctrls'[sgen].broken = ctrls[sgen].broken
  <2>1. CASE BothDownReturn
    <3>1. sfrom \in {"PRIMARIO", "SECUNDARIO", "DRAINING"}
      BY <2>1 DEF BothDownReturn, SyncOK
    <3> QED BY <1>2, <2>1, <3>1, EnteredType DEF BothDownReturn, TypeOK
  <2>2. CASE FailoverReturn
    <3>1. state # "BOTH_DOWN"
      BY <2>2 DEF FailoverReturn, SyncOK
    <3> QED BY <1>2, <2>2, <3>1, RecordedType DEF FailoverReturn, TypeOK
  <2> QED BY <2>1, <2>2
<1>4. TypeOK'
  BY <1>1, <1>3 DEF TypeOK, BothDownReturn, FailoverReturn
<1>5. CallsOK' /\ SyncOK' /\ DrainHasTimer'
  BY <1>1 DEF CallsOK, SyncOK, DrainHasTimer
<1>6. GenerationsOK' /\ BothDownRecoverable'
  BY <1>1, <1>2, <1>3 DEF GenerationsOK, BothDownRecoverable
<1>7. DrainingNotOrphaned'
  BY <1>1 DEF DrainingNotOrphaned, WillStart, WillComplete
<1> QED BY <1>4, <1>5, <1>6, <1>7

LEMMA ReloadBeginIInv ==
    ASSUME IInv, NEW r \in ReloadIds, NEW conf \in Configs, ReloadBegin(r, conf)
    PROVE  IInv'
<1> USE DEF IInv
<1>1. /\ UNCHANGED <<state, drain, timer, checker, newChecker, ctrls, installed, syncVars>>
      /\ cfg' = conf /\ reloads < MaxReloads /\ reloads' = reloads + 1
      /\ reload' = [reload EXCEPT ![r] = [pc |-> "reconfigure", conf |-> conf]]
  BY DEF ReloadBegin
<1>2. r \in Goroutine /\ r # "sync" /\ r \notin TimerIds /\ conf \in Config
  BY ConfigAssumption, TimerAssumption DEF Goroutine
<1>3. tr' = tr \/ tr' = [tr EXCEPT ![r] = Call("DRAINING")]
  BY <1>2 DEF ReloadBegin, TypeOK
<1>4. /\ \A h \in Goroutine : h # r => tr'[h] = tr[h]
      /\ tr'[r] = tr[r] \/ (tr'[r].pc = "read" /\ tr'[r].to = "DRAINING")
  BY <1>2, <1>3 DEF TypeOK, Call
<1>5. TypeOK'
  <2>1. Call("DRAINING") \in [pc   : {"none", "read", "commit", "callback"},
                              to   : BUState \cup {NoState},
                              from : BUState \cup {NoState}]
    BY DEF Call, BUState
  <2>2. tr' \in [Goroutine -> [pc   : {"none", "read", "commit", "callback"},
                               to   : BUState \cup {NoState},
                               from : BUState \cup {NoState}]]
    BY <1>3, <2>1 DEF TypeOK
  <2>3. reload' \in [ReloadIds -> [pc : {"idle", "reconfigure", "set_checker"}, conf : Config]]
    BY <1>1, <1>2 DEF TypeOK
  <2>4. reloads' \in 0..MaxReloads
    BY <1>1, EnvAssumption DEF TypeOK
  <2> QED BY <1>1, <1>2, <2>2, <2>3, <2>4 DEF TypeOK, syncVars
<1>6. CallsOK'
  <2>1. tr[r].pc = "none" /\ reload'[r].pc = "reconfigure"
        /\ \A q \in ReloadIds : q # r => reload'[q] = reload[q]
    BY <1>1 DEF ReloadBegin, CallsOK, TypeOK
  <2>2. "sync" \in Goroutine /\ TimerIds \subseteq Goroutine /\ ReloadIds \subseteq Goroutine
    BY DEF Goroutine
  <2> QED BY <1>1, <1>2, <1>4, <2>1, <2>2 DEF CallsOK, syncVars
<1>7. SyncOK' /\ GenerationsOK' /\ DrainHasTimer' /\ BothDownRecoverable'
  BY <1>1 DEF SyncOK, GenerationsOK, DrainHasTimer, BothDownRecoverable, syncVars
<1>8. DrainingNotOrphaned'
  <2>1. \A t \in TimerIds : WillComplete(t) => WillComplete(t)'
    BY <1>1, <1>2, <1>4 DEF WillComplete, Goroutine
  <2>2. tr[r].pc = "none"
    BY DEF ReloadBegin, CallsOK
  <2>3. \A h \in Goroutine : WillStart(h) => WillStart(h)'
    BY <1>4, <2>2 DEF WillStart
  <2> QED BY <1>1, <2>1, <2>3 DEF DrainingNotOrphaned
<1> QED BY <1>5, <1>6, <1>7, <1>8

LEMMA ReconfigureIInv ==
    ASSUME IInv, NEW r \in ReloadIds, Reconfigure(r)
    PROVE  IInv'
<1> USE DEF IInv
<1> DEFINE live == Live(IF SyncDone THEN {} ELSE {sgen})
<1>1. /\ UNCHANGED <<state, tr, drain, timer, checker, syncVars, cfg, reloads>>
      /\ installed' = 1 - sgen /\ tr[r].pc = "none" /\ newChecker' \in {"blind", "watching"}
      /\ reload' = [reload EXCEPT ![r] = [NoReload EXCEPT !.pc = "set_checker"]]
      /\ ctrls' = [live EXCEPT ![1 - sgen] = NewController(reload[r].conf)]
  BY DEF Reconfigure
<1>2. 1 - sgen \in Generation /\ sgen # 1 - sgen
  BY DEF TypeOK, Generation
<1>3. NewController(reload[r].conf) \in Controller /\ ~NewController(reload[r].conf).broken
  BY NewControllerType DEF TypeOK
<1>4. live \in [Generation -> Controller] /\ (spc # "idle" => live[sgen] = ctrls[sgen])
  <2>1. spc # "idle" => ~SyncDone
    BY DEF SyncDone
  <2> QED BY <2>1, LiveType DEF TypeOK
<1> HIDE DEF live
<1>5. /\ ctrls' \in [Generation -> Controller] /\ ~ctrls'[installed'].broken
      /\ spc # "idle" => ctrls'[sgen] = ctrls[sgen]
  BY <1>1, <1>2, <1>3, <1>4 DEF TypeOK
<1>6. TypeOK'
  <2>1. reload' \in [ReloadIds -> [pc : {"idle", "reconfigure", "set_checker"}, conf : Config]]
    BY <1>1 DEF TypeOK, NoReload, Config
  <2> QED BY <1>1, <1>2, <1>5, <2>1 DEF TypeOK, syncVars
<1>7. CallsOK'
  <2>1. \A q \in ReloadIds : tr[q].pc # "none" => reload'[q] = reload[q]
    BY <1>1 DEF TypeOK
  <2> QED BY <1>1, <2>1 DEF CallsOK, syncVars
<1>8. SyncOK' /\ DrainHasTimer'
  BY <1>1, <1>5 DEF SyncOK, DrainHasTimer, syncVars
<1>9. GenerationsOK' /\ BothDownRecoverable'
  BY <1>5 DEF GenerationsOK, BothDownRecoverable
<1>10. DrainingNotOrphaned'
  BY <1>1 DEF DrainingNotOrphaned, WillStart, WillComplete
<1> QED BY <1>6, <1>7, <1>8, <1>9, <1>10

LEMMA SetCheckerIInv ==
    ASSUME IInv, NEW r \in ReloadIds, SetChecker(r)
    PROVE  IInv'
<1> USE DEF IInv
<1>1. /\ UNCHANGED <<state, tr, drain, timer, ctrls, installed, syncVars, cfg, reloads>>
      /\ newChecker' = "given" /\ tr[r].pc = "none"
      /\ reload' = [reload EXCEPT ![r] = NoReload]
  BY DEF SetChecker, CallsOK
<1>2. checker' \in [Cluster -> BOOLEAN] \cup {NotChecked}
  BY DEF SetChecker, TypeOK, AllHealthy
<1>3. TypeOK'
  <2>1. reload' \in [ReloadIds -> [pc : {"idle", "reconfigure", "set_checker"}, conf : Config]]
    BY <1>1 DEF TypeOK, NoReload, Config
  <2> QED BY <1>1, <1>2, <2>1 DEF TypeOK, syncVars
<1>4. CallsOK'
  <2>1. \A q \in ReloadIds : tr[q].pc # "none" => reload'[q] = reload[q]
    BY <1>1 DEF TypeOK
  <2> QED BY <1>1, <2>1 DEF CallsOK, syncVars
<1>5. SyncOK' /\ GenerationsOK' /\ DrainHasTimer' /\ BothDownRecoverable' /\ DrainingNotOrphaned'
  BY <1>1 DEF SyncOK, GenerationsOK, DrainHasTimer, BothDownRecoverable, DrainingNotOrphaned,
              WillStart, WillComplete, syncVars
<1> QED BY <1>3, <1>4, <1>5

LEMMA ReloadIInv ==
    ASSUME IInv,
           \/ \E r \in ReloadIds, conf \in Configs : ReloadBegin(r, conf)
           \/ \E conf \in Configs : ReloadUnnoticed(conf)
           \/ \E r \in ReloadIds : Reconfigure(r) \/ SetChecker(r)
    PROVE  IInv'
<1>1. ASSUME NEW conf \in Configs, ReloadUnnoticed(conf)
      PROVE  IInv'
  <2>1. /\ UNCHANGED <<state, tr, drain, timer, checker, newChecker, ctrls, installed, syncVars, reload>>
        /\ cfg' \in Config /\ reloads' \in 0..MaxReloads
    BY <1>1, ConfigAssumption, EnvAssumption DEF ReloadUnnoticed, IInv, TypeOK
  <2>2. TypeOK' /\ CallsOK' /\ SyncOK' /\ GenerationsOK'
    BY <2>1 DEF IInv, TypeOK, CallsOK, SyncOK, GenerationsOK, syncVars
  <2>3. DrainHasTimer' /\ BothDownRecoverable' /\ DrainingNotOrphaned'
    BY <2>1 DEF IInv, DrainHasTimer, BothDownRecoverable, DrainingNotOrphaned, WillStart, WillComplete
  <2> QED BY <2>2, <2>3 DEF IInv
<1> QED BY <1>1, ReloadBeginIInv, ReconfigureIInv, SetCheckerIInv

LEMMA EnvironmentIInv ==
    ASSUME IInv, (\E c \in Faulty : HealthChanges(c)) \/ Tick
    PROVE  IInv'
<1> USE DEF IInv
<1>1. /\ UNCHANGED <<state, tr, drain, timer, newChecker, installed, syncVars, cfg, reload, reloads>>
      /\ checker' \in [Cluster -> BOOLEAN] \cup {NotChecked}
      /\ ctrls' \in [Generation -> Controller]
      /\ \A g \in Generation : ctrls'[g].broken = ctrls[g].broken
  <2>1. CASE \E c \in Faulty : HealthChanges(c)
    BY <2>1 DEF HealthChanges, TypeOK, NotChecked
  <2>2. CASE Tick
    <3>1. \A g \in Generation : Aged(ctrls[g]) \in Controller /\ Aged(ctrls[g]).broken = ctrls[g].broken
      BY AgedType DEF TypeOK
    <3> QED BY <2>2, <3>1 DEF Tick, TypeOK
  <2> QED BY <2>1, <2>2
<1>2. TypeOK'
  BY <1>1 DEF TypeOK, syncVars
<1>3. CallsOK' /\ SyncOK' /\ GenerationsOK' /\ BothDownRecoverable'
  BY <1>1 DEF TypeOK, CallsOK, SyncOK, GenerationsOK, BothDownRecoverable, syncVars
<1>4. DrainHasTimer' /\ DrainingNotOrphaned'
  BY <1>1 DEF DrainHasTimer, DrainingNotOrphaned, WillStart, WillComplete
<1> QED BY <1>2, <1>3, <1>4

LEMMA StepIInv == IInv /\ [Next]_vars => IInv'
<1> SUFFICES ASSUME IInv, [Next]_vars PROVE IInv'
  OBVIOUS
<1>1. CASE \E g \in Goroutine : TransitionStep(g)
  BY <1>1, CreateIInv, ReadIInv, CommitIInv, StartDrainIInv DEF TransitionStep
<1>2. CASE \E t \in TimerIds : TimerStep(t)
  BY <1>2, TimerIInv
<1>3. CASE SyncStep
  BY <1>3, RecordIInv, EvaluateIInv, ReturnIInv DEF SyncStep
<1>4. CASE \/ \E r \in ReloadIds, conf \in Configs : ReloadBegin(r, conf)
           \/ \E conf \in Configs : ReloadUnnoticed(conf)
           \/ \E r \in ReloadIds : Reconfigure(r) \/ SetChecker(r)
  BY <1>4, ReloadIInv
<1>5. CASE (\E c \in Faulty : HealthChanges(c)) \/ Tick
  BY <1>5, EnvironmentIInv
<1>6. CASE UNCHANGED vars
  BY <1>6 DEF vars, syncVars, IInv, TypeOK, CallsOK, SyncOK, GenerationsOK, DrainHasTimer,
              DrainingNotOrphaned, WillStart, WillComplete, BothDownRecoverable
<1> QED BY <1>1, <1>2, <1>3, <1>4, <1>5, <1>6 DEF Next
-----------------------------------------------------------------------------
(***************************************************************************)
(* The results.                                                            *)
(***************************************************************************)
\* The inductive invariant of the DR core holds in every reachable state.
THEOREM Invariance == Spec => []IInv
BY InitIInv, StepIInv, PTL DEF Spec

\* Every variable of the DR core keeps its type, whatever the goroutines do.
THEOREM TypeCorrect == Spec => []TypeOK
<1>1. IInv => TypeOK
  BY DEF IInv
<1> QED BY <1>1, Invariance, PTL

\* A BU in DRAINING always has a drain in progress, or a goroutine between the
\* commit of DRAINING and StartDrain, or one between forceCloseOld's delete and
\* the completing transition: DRAINING is never orphaned.
THEOREM NeverOrphaned == Spec => []DrainingNotOrphaned
<1>1. IInv => DrainingNotOrphaned
  BY DEF IInv
<1> QED BY <1>1, Invariance, PTL

\* DrainManager.drains never keeps a drain whose timer has already taken a
\* drain out of the map.
THEOREM DrainsHaveTimers == Spec => []DrainHasTimer
<1>1. IInv => DrainHasTimer
  BY DEF IInv
<1> QED BY <1>1, Invariance, PTL

\* In BOTH_DOWN the breaker of the installed controller is never tripped, so
\* Evaluate is still able to leave BOTH_DOWN, even across reloads.
THEOREM RecoverableFromBothDown == Spec => []BothDownRecoverable
<1>1. IInv => BothDownRecoverable
  BY DEF IInv
<1> QED BY <1>1, Invariance, PTL

\* Every change of the DR state is an edge of the graph in state.go, although
\* Transition validates and commits in two critical sections.
THEOREM FollowsGraph == Spec => StateFollowsGraph
<1>1. IInv /\ [Next]_vars => [state # NoState => isValidTransition(state, state')]_state
  <2> SUFFICES ASSUME IInv, [Next]_vars, state' # state, state # NoState
               PROVE  isValidTransition(state, state')
    OBVIOUS
  <2>1. \E g \in Goroutine : TransitionCommit(g)
    BY DEF Next, TransitionStep, TransitionCreate, TransitionRead, StartDrain, TimerStep, TimerFires, ForceClose,
           DrainDelete, DrainComplete, SyncStep, SyncRecord, EvaluateNone, EvaluateBothDown,
           EvaluateRestore, EvaluateFailover, BothDownReturn, FailoverReturn, ReloadBegin,
           ReloadUnnoticed, Reconfigure, SetChecker, HealthChanges, Tick, vars
  <2>2. PICK g \in Goroutine : TransitionCommit(g)
    BY <2>1
  <2>3. tr[g].pc = "commit" /\ state = tr[g].from /\ state' = tr[g].to
    BY <2>2 DEF TransitionCommit
  <2> QED BY <2>3 DEF IInv, CallsOK
<1> QED BY <1>1, Invariance, PTL DEF Spec, StateFollowsGraph
-----------------------------------------------------------------------------
(***************************************************************************)
(* The cooldown: what the operators on controllers do to the spacing.      *)
(***************************************************************************)
LEMMA SuffixSpaced ==
    ASSUME NEW s \in Seq(0..Window), NEW since, Spaced(s, since), NEW k \in 1..Len(s)
    PROVE  Spaced(SubSeq(s, k, Len(s)), since)
<1> DEFINE t == SubSeq(s, k, Len(s))
<1>1. Len(s) \in Nat /\ DOMAIN s = 1..Len(s)
  BY LenProperties
<1>2. /\ t \in Seq(0..Window) /\ Len(t) = Len(s) - k + 1
      /\ \A i \in 1..Len(t) : k + i - 1 \in 1..Len(s) /\ t[i] = s[k + i - 1]
  BY Suffix
<1> HIDE DEF t
<1>3. DOMAIN t = 1..Len(t) /\ Len(t) \in Nat
  BY <1>2, LenProperties
<1>4. ASSUME NEW i \in 1..(Len(t) - 1), t[i] < Window
      PROVE  t[i] >= t[i + 1] + Cooldown
  <2>1. i \in 1..Len(t) /\ i + 1 \in 1..Len(t) /\ k + i - 1 \in 1..(Len(s) - 1)
    BY <1>1, <1>2, <1>3
  <2>2. t[i] = s[k + i - 1] /\ t[i + 1] = s[(k + i - 1) + 1]
    <3>1. t[i] = s[k + i - 1] /\ t[i + 1] = s[k + (i + 1) - 1]
      BY <1>2, <2>1
    <3>2. k + (i + 1) - 1 = (k + i - 1) + 1
      OBVIOUS
    <3> QED BY <3>1, <3>2
  <2> QED BY <1>4, <2>1, <2>2 DEF Spaced
<1>5. ASSUME NEW i \in DOMAIN t, i = Len(t), t[i] < Window
      PROVE  t[i] >= since
  <2>1. t[i] = s[Len(s)] /\ Len(s) \in DOMAIN s
    BY <1>1, <1>2, <1>3, <1>5
  <2> QED BY <1>5, <2>1 DEF Spaced
<1> QED BY <1>4, <1>5 DEF Spaced, t

LEMMA PrunedSpaced ==
    ASSUME NEW s \in Seq(0..Window), NEW since, Spaced(s, since)
    PROVE  Spaced(pruneFailoverTimestamps(s), since)
<1>1. Spaced(<< >>, since)
  BY DEF Spaced
<1> QED BY <1>1, SuffixSpaced, PruneSuffix

\* A failover is appended once the last one is as old as the cooldown.
LEMMA AppendSpaced ==
    ASSUME NEW s \in Seq(0..Window), Spaced(s, Cooldown)
    PROVE  Spaced(Append(s, 0), 0)
<1> DEFINE t == Append(s, 0)
<1>1. 0 \in 0..Window
  BY BreakerAssumption
<1>2. /\ Len(s) \in Nat /\ DOMAIN s = 1..Len(s) /\ t \in Seq(0..Window)
      /\ Len(t) = Len(s) + 1 /\ t[Len(s) + 1] = 0
      /\ \A i \in 1..Len(s) : t[i] = s[i] /\ s[i] \in 0..Window
  <2>1. Len(s) \in Nat /\ DOMAIN s = 1..Len(s) /\ \A i \in 1..Len(s) : s[i] \in 0..Window
    BY LenProperties, ElementOfSeq
  <2>2. /\ t \in Seq(0..Window) /\ Len(t) = Len(s) + 1 /\ t[Len(s) + 1] = 0
        /\ \A i \in 1..Len(s) : t[i] = s[i]
    BY <1>1, AppendProperties
  <2> QED BY <2>1, <2>2
<1>. Len(s) \in Nat
  BY <1>2
<1> HIDE DEF t
<1>3. ASSUME NEW i \in 1..(Len(t) - 1), t[i] < Window
      PROVE  t[i] >= t[i + 1] + Cooldown
  <2>1. i \in 1..Len(s) /\ t[i] = s[i] /\ s[i] \in 0..Window
    BY <1>2
  <2>2. CASE i = Len(s)
    <3>1. s[i] >= Cooldown
      BY <1>2, <1>3, <2>1, <2>2 DEF Spaced
    <3> QED BY <1>2, <2>1, <2>2, <3>1, BreakerAssumption
  <2>3. CASE i # Len(s)
    <3>1. i \in 1..(Len(s) - 1) /\ i + 1 \in 1..Len(s)
      BY <2>1, <2>3
    <3>2. t[i + 1] = s[i + 1]
      BY <1>2, <3>1
    <3> QED BY <1>3, <2>1, <3>1, <3>2 DEF Spaced
  <2> QED BY <2>2, <2>3
<1>4. \A i \in DOMAIN t : i = Len(t) => t[i] >= 0
  BY <1>2
<1> QED BY <1>3, <1>4 DEF Spaced, t

\* Time keeps the distances, until an age leaves the window.
LEMMA AgedSpaced ==
    ASSUME NEW s \in Seq(0..Window), NEW since \in 0..Cooldown, Spaced(s, since)
    PROVE  Spaced([i \in DOMAIN s |-> UpTo(s[i], Window)], UpTo(since, Cooldown))
<1> DEFINE t == [i \in DOMAIN s |-> UpTo(s[i], Window)]
<1>1. /\ Len(s) \in Nat /\ DOMAIN s = 1..Len(s)
      /\ \A i \in 1..Len(s) : s[i] \in 0..Window
  BY LenProperties, ElementOfSeq
<1>2. \A i \in 1..Len(s) : t[i] = UpTo(s[i], Window) /\ t[i] \in 0..Window
  BY <1>1, BreakerAssumption, UpToType
<1>3. t \in Seq(0..Window)
  BY <1>1, <1>2
<1>4. Len(t) = Len(s) /\ DOMAIN t = 1..Len(s)
  BY <1>1, <1>3, LenProperties
<1> HIDE DEF t
<1>5. \A i \in 1..Len(s) : (t[i] < Window => t[i] = s[i] + 1 /\ s[i] < Window) /\ t[i] <= s[i] + 1
  BY <1>1, <1>2, BreakerAssumption DEF UpTo
<1>6. ASSUME NEW i \in 1..(Len(t) - 1), t[i] < Window
      PROVE  t[i] >= t[i + 1] + Cooldown
  <2>1. i \in 1..Len(s) /\ i + 1 \in 1..Len(s) /\ i \in 1..(Len(s) - 1)
    BY <1>1, <1>4
  <2>2. t[i] = s[i] + 1 /\ s[i] < Window /\ t[i + 1] <= s[i + 1] + 1
    BY <1>5, <1>6, <2>1
  <2>3. s[i] >= s[i + 1] + Cooldown
    BY <2>1, <2>2 DEF Spaced
  <2>4. s[i] \in Nat /\ s[i + 1] \in Nat /\ t[i] \in Nat /\ t[i + 1] \in Nat
    BY <1>1, <1>2, <2>1, BreakerAssumption
  <2>5. \A a, b, c, d \in Nat : a = b + 1 /\ c <= d + 1 /\ b >= d + Cooldown => a >= c + Cooldown
    BY BreakerAssumption
  <2> QED BY <2>2, <2>3, <2>4, <2>5
<1>7. ASSUME NEW i \in DOMAIN t, i = Len(t), t[i] < Window
      PROVE  t[i] >= UpTo(since, Cooldown)
  <2>1. i \in 1..Len(s) /\ i = Len(s)
    BY <1>4, <1>7
  <2>2. t[i] = s[i] + 1 /\ s[i] < Window
    BY <1>5, <1>7, <2>1
  <2>3. s[i] >= since
    BY <1>1, <2>1, <2>2 DEF Spaced
  <2>4. s[i] \in Nat
    BY <1>1, <2>1, BreakerAssumption
  <2> QED BY <2>2, <2>3, <2>4, BreakerAssumption DEF UpTo
<1> QED BY <1>6, <1>7 DEF Spaced, t

LEMMA ControllerSpaced ==
    ASSUME NEW c \in Controller, Spaced(c.stamps, c.since)
    PROVE  /\ canFailover(c) => Spaced(FailoverStarted(c).stamps, FailoverStarted(c).since)
           /\ Spaced(FailoverRecorded(c).stamps, FailoverRecorded(c).since)
           /\ Spaced(Aged(c).stamps, Aged(c).since)
<1>1. c.stamps \in Seq(0..Window) /\ c.since \in 0..Cooldown
  BY DEF Controller, ControllerRecord
<1>2. ASSUME canFailover(c) PROVE Spaced(FailoverStarted(c).stamps, FailoverStarted(c).since)
  <2> DEFINE kept == IF HasBreaker THEN pruneFailoverTimestamps(c.stamps) ELSE c.stamps
  <2>1. c.since = Cooldown
    BY <1>1, <1>2, BreakerAssumption DEF canFailover
  <2>2. kept \in Seq(0..Window) /\ Spaced(kept, Cooldown)
    BY <1>1, <2>1, PruneType, PrunedSpaced
  <2>3. FailoverStarted(c).stamps = Append(kept, 0) /\ FailoverStarted(c).since = 0
    BY DEF FailoverStarted, Controller, ControllerRecord
  <2> HIDE DEF kept
  <2> QED BY <2>2, <2>3, AppendSpaced
<1>3. Spaced(FailoverRecorded(c).stamps, FailoverRecorded(c).since)
  <2>1. \/ FailoverRecorded(c).stamps = pruneFailoverTimestamps(c.stamps)
        \/ FailoverRecorded(c).stamps = c.stamps
    BY DEF FailoverRecorded, Controller, ControllerRecord
  <2>2. FailoverRecorded(c).since = c.since
    BY DEF FailoverRecorded, Controller, ControllerRecord
  <2> QED BY <1>1, <2>1, <2>2, PrunedSpaced
<1>4. Spaced(Aged(c).stamps, Aged(c).since)
  <2>1. /\ Aged(c).stamps = [i \in DOMAIN c.stamps |-> UpTo(c.stamps[i], Window)]
        /\ Aged(c).since = UpTo(c.since, Cooldown)
    BY DEF Aged, Controller, ControllerRecord
  <2> QED BY <1>1, <2>1, AgedSpaced
<1> QED BY <1>2, <1>3, <1>4

LEMMA NewSpaced ==
    ASSUME NEW conf
    PROVE  Spaced(NewController(conf).stamps, NewController(conf).since)
BY DEF NewController, Spaced

\* The step of each action that writes a controller.
LEMMA StepSpaced == IInv /\ SpacedIInv /\ [Next]_vars => SpacedIInv'
<1> SUFFICES ASSUME IInv, SpacedIInv, [Next]_vars, NEW g \in Generation
             PROVE  Spaced(ctrls'[g].stamps, ctrls'[g].since)
  BY DEF SpacedIInv
<1> USE DEF IInv
<1>1. /\ ctrls \in [Generation -> Controller] /\ installed \in Generation /\ sgen \in Generation
      /\ ctrls[g] \in Controller /\ ctrls[sgen] \in Controller /\ ctrls[installed] \in Controller
      /\ Spaced(ctrls[g].stamps, ctrls[g].since)
  BY DEF TypeOK, SpacedIInv
<1>2. \A R : Live(R)[g] = ctrls[g] \/ Live(R)[g] = NewController(InitConfig)
  BY DEF Live
<1>3. CASE UNCHANGED ctrls
  BY <1>1, <1>3
<1>4. CASE SyncRecord
  <2> DEFINE one  == RecordHealthResult(ctrls[installed], "primary", checker["primary"])
             both == RecordHealthResult(one, "secondary", checker["secondary"])
  <2>1. \A c \in Controller : \A cl, ok :
          /\ RecordHealthResult(c, cl, ok).stamps = c.stamps
          /\ RecordHealthResult(c, cl, ok).since = c.since
    BY DEF RecordHealthResult, Controller, ControllerRecord
  <2>2. one \in Controller
    BY <1>1, <1>4, RecordType DEF TypeOK, SyncRecord, Cluster
  <2>3. both.stamps = ctrls[installed].stamps /\ both.since = ctrls[installed].since
    <3>1. one.stamps = ctrls[installed].stamps /\ one.since = ctrls[installed].since
      BY <1>1, <2>1
    <3> HIDE DEF one
    <3> QED BY <2>1, <2>2, <3>1
  <2>4. ctrls' = [Live({installed}) EXCEPT ![installed] = both]
    BY <1>1, <1>4, LiveType DEF SyncRecord
  <2> HIDE DEF one, both
  <2>5. (ctrls'[g] = both /\ g = installed) \/ ctrls'[g] = Live({installed})[g]
    BY <2>4 DEF Live
  <2> QED BY <1>1, <1>2, <2>3, <2>5, NewSpaced
<1>5. CASE EvaluateFailover
  <2>1. canFailover(ctrls[sgen])
    BY <1>5 DEF EvaluateFailover, Decision, BothDownDecision, ActivePassiveDecision, NoState
  <2>2. ctrls' = [ctrls EXCEPT ![sgen] = FailoverStarted(ctrls[sgen])]
    BY <1>1, <1>5 DEF EvaluateFailover
  <2>3. ctrls'[g] = ctrls[g] \/ (g = sgen /\ ctrls'[g] = FailoverStarted(ctrls[g]))
    BY <1>1, <2>2
  <2> QED BY <1>1, <2>1, <2>3, ControllerSpaced
<1>6. CASE BothDownReturn
  <2>1. ctrls'[g] = ctrls[g] \/ ctrls'[g] = BothDownEntered(ctrls[g], sfrom)
    BY <1>1, <1>6 DEF BothDownReturn
  <2>2. /\ BothDownEntered(ctrls[g], sfrom).stamps = ctrls[g].stamps
        /\ BothDownEntered(ctrls[g], sfrom).since = ctrls[g].since
    BY <1>1 DEF BothDownEntered, Controller, ControllerRecord
  <2> QED BY <1>1, <2>1, <2>2
<1>7. CASE FailoverReturn
  <2>1. ctrls'[g] = ctrls[g] \/ ctrls'[g] = FailoverRecorded(ctrls[g])
    BY <1>1, <1>7 DEF FailoverReturn
  <2> QED BY <1>1, <2>1, ControllerSpaced
<1>8. ASSUME NEW r \in ReloadIds, Reconfigure(r)
      PROVE  Spaced(ctrls'[g].stamps, ctrls'[g].since)
  <2>1. PICK R : ctrls' = [Live(R) EXCEPT ![1 - sgen] = NewController(reload[r].conf)]
    BY <1>8 DEF Reconfigure
  <2>2. ctrls'[g] = Live(R)[g] \/ ctrls'[g] = NewController(reload[r].conf)
    BY <2>1 DEF Live
  <2> QED BY <1>1, <1>2, <2>2, NewSpaced
<1>9. CASE Tick
  <2>1. ctrls'[g] = Aged(ctrls[g])
    BY <1>9 DEF Tick
  <2> QED BY <1>1, <2>1, ControllerSpaced
<1> QED BY <1>3, <1>4, <1>5, <1>6, <1>7, <1>8, <1>9
        DEF Next, TransitionStep, TransitionCreate, TransitionRead, TransitionCommit, StartDrain, TimerStep, TimerFires,
            ForceClose, DrainDelete, DrainComplete, SyncStep, EvaluateNone, EvaluateBothDown,
            EvaluateRestore, ReloadBegin, ReloadUnnoticed, SetChecker, HealthChanges, vars

\* Whatever the cooldown and the window, a controller never counts two
\* failovers that are closer together than min_time_between_failovers.
THEOREM SpacedFailovers == Spec => []FailoversSpaced
<1>1. Init => SpacedIInv
  BY NewSpaced DEF Init, SpacedIInv
<1>2. SpacedIInv => FailoversSpaced
  BY DEF SpacedIInv, Spaced, FailoversSpaced
<1> QED BY <1>1, <1>2, StepSpaced, Invariance, PTL DEF Spec
=============================================================================
