-------------------------- MODULE LegacyRebalancer --------------------------
(***************************************************************************)
(* The connection-driven Rebalancer of failover/rebalance.go: one object   *)
(* per load_balance BU, created by the first connection handler that asks  *)
(* for it (getRebalancer in proxy/connection.go) and fed by all handlers   *)
(* with the outcome of their dials. Every method runs under its mutex, so  *)
(* a call is one step; calls of different handlers come in any order.      *)
(*                                                                         *)
(* Time is kept as ages in ticks. The code's counters and times grow       *)
(* without a bound; here they stop at the largest constant that anything   *)
(* compares them with, since no comparison tells larger values apart       *)
(* (operator UpTo).                                                        *)
(***************************************************************************)
EXTENDS DRStates, Naturals, Sequences

CONSTANTS
    FailureThreshold, RecoveryThreshold,
    MinUptime,       \* recovery_min_uptime
    Cooldown,        \* min_time_between_failovers; 0 = none
    Window,          \* circuit_breaker_window; 0 = no breaker
    MaxFailovers,    \* circuit_breaker_max_failovers; 0 = no breaker
    OriginalWeight   \* per cluster: the configured weight

ASSUME LegacyThresholds == FailureThreshold \in Nat \ {0} /\ RecoveryThreshold \in Nat \ {0}
ASSUME LegacyTimes ==
    MinUptime \in Nat \ {0} /\ Cooldown \in Nat /\ Window \in Nat /\ MaxFailovers \in Nat
ASSUME LegacyWeights == OriginalWeight \in [Cluster -> Nat]

VARIABLES
    ep,         \* per cluster: its endpointState
    history,    \* failoverHistory: ages, oldest first
    reachable   \* per cluster: whether dials succeed (environment)

vars == <<ep, history, reachable>>

\* The dead entries of failoverHistory are dropped when they leave the window
\* instead of at the next promotion, the only place that reads it; without a
\* breaker nothing reads it.
HasBreaker == MaxFailovers > 0 /\ Window > 0

\* age: time since upSince. since: time since lastFailoverAt, kept up to the cooldown,
\* which is also its value before the first failover.
Endpoint == [status : {"up", "down", "recovering"},
             succs  : 0..RecoveryThreshold,
             fails  : 0..FailureThreshold,
             age    : 0..MinUptime,
             since  : 0..Cooldown,
             weight : Nat]

NewEndpoint(c) == [status |-> "up", succs |-> 0, fails |-> 0, age |-> 0,
                   since |-> Cooldown, weight |-> OriginalWeight[c]]

UpTo(n, cap) == IF n < cap THEN n + 1 ELSE cap

\* SelectTarget: roll is the random number below the total weight.
SelectWeights ==
    IF \A c \in Cluster : ep[c].weight = 0 THEN OriginalWeight
                                           ELSE [c \in Cluster |-> ep[c].weight]
SelectTarget(roll) ==
    LET w == SelectWeights
    IN  IF w["primary"] + w["secondary"] = 0 \/ roll < w["primary"]
        THEN "primary" ELSE "secondary"
-----------------------------------------------------------------------------
\* Mutant: the breaker lets one failover more than configured pass.
BreakerAllowsLate == HasBreaker => Len(history) <= MaxFailovers

BreakerAllows == HasBreaker => Len(history) < MaxFailovers

\* Mutant: the cooldown is not looked at.
promoteToUpAtOnce(c, e) ==
    IF BreakerAllows
    THEN [e EXCEPT !.status = "up", !.weight = OriginalWeight[c], !.fails = 0, !.succs = 0]
    ELSE e

\* promoteToUp: cooldown, then breaker; a refusal leaves the endpoint as it is.
promoteToUp(c, e) ==
    IF e.since >= Cooldown /\ BreakerAllows
    THEN [e EXCEPT !.status = "up", !.weight = OriginalWeight[c], !.fails = 0, !.succs = 0]
    ELSE e

\* Mutant: an endpoint gets its weight back when recovery begins.
RecordSuccessEager(c) ==
    /\ reachable[c]
    /\ LET e == [ep[c] EXCEPT !.fails = 0, !.succs = UpTo(@, RecoveryThreshold)]
       IN  ep' = [ep EXCEPT ![c] =
             CASE e.status = "up" -> e
               [] e.status = "down" ->
                    [e EXCEPT !.status = "recovering", !.succs = 1, !.age = 0,
                              !.weight = OriginalWeight[c]]
               [] e.status = "recovering" ->
                    IF e.succs >= RecoveryThreshold /\ e.age >= MinUptime
                    THEN promoteToUp(c, e) ELSE e]
    /\ UNCHANGED <<history, reachable>>

\* Mutant: the uptime restarts with every success.
RecordSuccessRestarts(c) ==
    /\ reachable[c]
    /\ LET e == [ep[c] EXCEPT !.fails = 0, !.succs = UpTo(@, RecoveryThreshold)]
       IN  ep' = [ep EXCEPT ![c] =
             CASE e.status = "up" -> e
               [] e.status = "down" ->
                    [e EXCEPT !.status = "recovering", !.succs = 1, !.age = 0]
               [] e.status = "recovering" ->
                    IF e.succs >= RecoveryThreshold /\ e.age >= MinUptime
                    THEN promoteToUp(c, e) ELSE [e EXCEPT !.age = 0]]
    /\ UNCHANGED <<history, reachable>>

RecordSuccess(c) ==
    /\ reachable[c]
    /\ LET e == [ep[c] EXCEPT !.fails = 0, !.succs = UpTo(@, RecoveryThreshold)]
       IN  ep' = [ep EXCEPT ![c] =
             CASE e.status = "up" -> e
               [] e.status = "down" ->
                    [e EXCEPT !.status = "recovering", !.succs = 1, !.age = 0]
               [] e.status = "recovering" ->
                    IF e.succs >= RecoveryThreshold /\ e.age >= MinUptime
                    THEN promoteToUp(c, e) ELSE e]
    /\ UNCHANGED <<history, reachable>>

demoteToDown(e) ==
    [e EXCEPT !.status = "down", !.weight = 0, !.succs = 0, !.since = 0]

\* Mutant: the threshold has to be exceeded, not reached.
DemotedLate(c) == ep[c].status = "up" /\ ep[c].fails + 1 > FailureThreshold

Demoted(c) == ep[c].status = "up" /\ ep[c].fails + 1 >= FailureThreshold

RecordFailure(c) ==
    /\ ~reachable[c]
    /\ LET e == [ep[c] EXCEPT !.succs = 0, !.fails = UpTo(@, FailureThreshold)]
       IN  ep' = [ep EXCEPT ![c] =
             CASE e.status = "up" -> IF Demoted(c) THEN demoteToDown(e) ELSE e
               [] e.status = "down" -> [e EXCEPT !.fails = 1]
               [] e.status = "recovering" ->
                    [e EXCEPT !.status = "down", !.weight = 0, !.fails = 1]]
    /\ history' = IF HasBreaker /\ Demoted(c) THEN Append(history, 0) ELSE history
    /\ UNCHANGED reachable
-----------------------------------------------------------------------------
\* pruneFailoverHistory: what is as old as the window no longer counts.
pruneFailoverHistory(h) ==
    LET live  == {i \in DOMAIN h : h[i] < Window}
        first == CHOOSE i \in live : \A j \in live : i <= j
    IN  IF live = {} THEN << >> ELSE SubSeq(h, first, Len(h))

Tick ==
    /\ ep' = [c \in Cluster |-> [ep[c] EXCEPT !.age   = UpTo(@, MinUptime),
                                              !.since = UpTo(@, Cooldown)]]
    /\ history' = pruneFailoverHistory([i \in DOMAIN history |-> history[i] + 1])
    /\ UNCHANGED reachable

\* The world: a cluster becomes reachable or unreachable.
ReachChanges(c) ==
    /\ reachable' = [reachable EXCEPT ![c] = ~@]
    /\ UNCHANGED <<ep, history>>

Init ==
    /\ ep = [c \in Cluster |-> NewEndpoint(c)]
    /\ history = << >>
    /\ reachable = [c \in Cluster |-> TRUE]

Next ==
    \/ \E c \in Cluster : RecordSuccess(c) \/ RecordFailure(c) \/ ReachChanges(c)
    \/ Tick

Spec == Init /\ [][Next]_vars

\* Connections keep arriving for both clusters (their choice is the Router's,
\* see LoadBalance), and time passes.
FairSpec == /\ Spec
            /\ \A c \in Cluster : WF_vars(RecordSuccess(c))
            /\ WF_vars(Tick)
-----------------------------------------------------------------------------
(* Properties *)

\* Status and counters of an endpoint agree: one that is up is below the
\* failure threshold, a recovering one has at least the success that started
\* its recovery and no failure since, and one that is down has no success.
CountersAgree(e) ==
    CASE e.status = "up"         -> e.fails < FailureThreshold
      [] e.status = "down"       -> e.succs = 0 /\ e.fails > 0
      [] e.status = "recovering" -> e.succs > 0 /\ e.fails = 0

\* Types of endpoints and history; status and counters agree; the history
\* holds nothing as old as the window.
TypeOK ==
    /\ ep \in [Cluster -> Endpoint]
    /\ \A c \in Cluster : CountersAgree(ep[c])
    /\ history \in Seq(Nat)
    /\ \A i \in DOMAIN history : history[i] < Window
    /\ reachable \in [Cluster -> BOOLEAN]

UpCount == (IF ep["primary"].status = "up" THEN 1 ELSE 0)
           + (IF ep["secondary"].status = "up" THEN 1 ELSE 0)

\* The circuit breaker is only asked on promotion, and both endpoints share
\* one history; still no window of circuit_breaker_window sees more than
\* circuit_breaker_max_failovers + 1 failovers, less those still to come from
\* endpoints that are up.
FlapsBounded == HasBreaker => Len(history) + UpCount <= MaxFailovers + 1

\* SelectTarget sends traffic only to an endpoint that is up while one with a
\* configured weight is up, whatever the endpoints have been through.
OnlyUpSelected ==
    (\E c \in Cluster : ep[c].status = "up" /\ OriginalWeight[c] > 0)
        => \A roll \in 0..(SelectWeights["primary"] + SelectWeights["secondary"] - 1) :
               ep[SelectTarget(roll)].status = "up"

\* The same endpoint does not go down twice within the cooldown.
NoPingPong ==
    [][ \A c \in Cluster :
          (ep[c].status = "up" /\ ep'[c].status = "down") => ep[c].since >= Cooldown ]_vars

\* Endpoints that can be reached for good end up with their weight, whatever
\* interrupted their recoveries before and however the cooldown fell, as long
\* as the circuit breaker never trips. (What follows a trip is a point on
\* which code and comment differ, see the README.)
RecoversForGood ==
    ([]BreakerAllows /\ <>[](\A c \in Cluster : reachable[c]))
        => <>[](\A c \in Cluster : ep[c].status = "up")
-----------------------------------------------------------------------------
(***************************************************************************)
(* The inductive invariant of LegacyRebalancer_proofs.                     *)
(***************************************************************************)
\* An endpoint carries its configured weight while it is up and none otherwise.
WeightFollowsStatus ==
    \A c \in Cluster :
        ep[c].weight = IF ep[c].status = "up" THEN OriginalWeight[c] ELSE 0

\* The cooldown of an endpoint that is up has passed.
UpIsCooled == \A c \in Cluster : ep[c].status = "up" => ep[c].since >= Cooldown

\* Failovers are kept oldest first, and without a breaker not at all.
HistoryOrdered ==
    /\ \A i, j \in DOMAIN history : i <= j => history[i] >= history[j]
    /\ ~HasBreaker => history = << >>

IInv == TypeOK /\ WeightFollowsStatus /\ UpIsCooled /\ HistoryOrdered /\ FlapsBounded
=============================================================================
