----------------------- MODULE LegacyRebalancer_proofs -----------------------
(***************************************************************************)
(* Proofs about LegacyRebalancer, for every threshold, uptime, cooldown,   *)
(* breaker and pair of weights: the breaker bounds the failovers of a      *)
(* window, traffic goes to endpoints that are up, and an endpoint does not *)
(* go down twice within the cooldown.                                      *)
(***************************************************************************)
EXTENDS LegacyRebalancer, WindowLemmas

LEMMA UpToType ==
    ASSUME NEW cap \in Nat, NEW n \in 0..cap
    PROVE  UpTo(n, cap) \in 0..cap /\ UpTo(n, cap) >= n
BY DEF UpTo

\* The values that the handlers write lie in the fields' ranges.
LEMMA Written ==
    /\ 0 \in 0..RecoveryThreshold /\ 1 \in 0..RecoveryThreshold
    /\ 0 \in 0..FailureThreshold /\ 1 \in 0..FailureThreshold
    /\ 0 \in 0..MinUptime /\ 0 \in 0..Cooldown
    /\ \A c \in Cluster : OriginalWeight[c] \in Nat
BY LegacyThresholds, LegacyTimes, LegacyWeights

\* Pruning an ordered history leaves an ordered history that is no longer and
\* holds only entries inside the window.
LEMMA PruneKeeps ==
    ASSUME NEW h \in Seq(Nat), \A i, j \in DOMAIN h : i <= j => h[i] >= h[j]
    PROVE  LET p == pruneFailoverHistory(h)
           IN  /\ p \in Seq(Nat) /\ Len(p) <= Len(h)
               /\ \A i \in DOMAIN p : p[i] < Window
               /\ \A i, j \in DOMAIN p : i <= j => p[i] >= p[j]
<1> DEFINE live  == {i \in DOMAIN h : h[i] < Window}
           first == CHOOSE i \in live : \A j \in live : i <= j
           p     == pruneFailoverHistory(h)
<1>1. Len(h) \in Nat /\ DOMAIN h = 1..Len(h) /\ \A i \in 1..Len(h) : h[i] \in Nat
  BY LenProperties
<1>2. CASE live = {}
  <2>1. p = << >>
    BY <1>2 DEF pruneFailoverHistory
  <2> QED BY <1>1, <2>1, EmptySeq
<1>3. CASE live # {}
  <2>1. live \in SUBSET (1..Len(h))
    BY <1>1
  <2>2. first \in live /\ \A j \in live : first <= j
    BY <1>1, <1>3, <2>1, FirstLive
  <2>3. first \in 1..Len(h) /\ h[first] < Window
    BY <2>1, <2>2
  <2>4. p = SubSeq(h, first, Len(h))
    BY <1>3 DEF pruneFailoverHistory
  <2> HIDE DEF first, live, p
  <2>5. /\ p \in Seq(Nat) /\ Len(p) = Len(h) - first + 1
        /\ \A i \in 1..Len(p) : first + i - 1 \in 1..Len(h) /\ p[i] = h[first + i - 1]
    BY <2>3, <2>4, Suffix
  <2>6. DOMAIN p = 1..Len(p) /\ Len(p) <= Len(h)
    BY <1>1, <2>3, <2>5, LenProperties
  <2>7. \A i \in 1..Len(p) : p[i] < Window
    <3> TAKE i \in 1..Len(p)
    <3>1. first + i - 1 \in 1..Len(h) /\ first <= first + i - 1 /\ p[i] = h[first + i - 1]
      BY <1>1, <2>3, <2>5
    <3>2. p[i] <= h[first]
      BY <1>1, <2>3, <3>1
    <3>3. p[i] \in Nat /\ h[first] \in Nat /\ Window \in Nat
      BY <1>1, <2>3, <3>1, LegacyTimes
    <3> QED BY <2>3, <3>2, <3>3
  <2>8. \A i, j \in 1..Len(p) : i <= j => p[i] >= p[j]
    <3> TAKE i, j \in 1..Len(p)
    <3> HAVE i <= j
    <3>1. first + i - 1 \in 1..Len(h) /\ first + j - 1 \in 1..Len(h)
      BY <2>5
    <3>2. first + i - 1 <= first + j - 1
      BY <2>3
    <3> QED BY <1>1, <2>5, <3>1, <3>2
  <2> QED BY <2>5, <2>6, <2>7, <2>8 DEF p
<1> QED BY <1>2, <1>3

\* A tick makes every failover one tick older and drops what left the window.
LEMMA TickHistory ==
    ASSUME TypeOK, HistoryOrdered
    PROVE  LET h == pruneFailoverHistory([i \in DOMAIN history |-> history[i] + 1])
           IN  /\ h \in Seq(Nat) /\ Len(h) <= Len(history)
               /\ \A i \in DOMAIN h : h[i] < Window
               /\ \A i, j \in DOMAIN h : i <= j => h[i] >= h[j]
<1> DEFINE older == [i \in DOMAIN history |-> history[i] + 1]
<1>1. Len(history) \in Nat /\ DOMAIN history = 1..Len(history)
       /\ \A i \in 1..Len(history) : history[i] \in Nat
  BY LenProperties DEF TypeOK
<1>2. older \in Seq(Nat) /\ Len(older) = Len(history) /\ DOMAIN older = DOMAIN history
  BY <1>1
<1>3. \A i, j \in DOMAIN older : i <= j => older[i] >= older[j]
  BY <1>1 DEF HistoryOrdered
<1> HIDE DEF older
<1>4. LET h == pruneFailoverHistory(older)
      IN  /\ h \in Seq(Nat) /\ Len(h) <= Len(older)
          /\ \A i \in DOMAIN h : h[i] < Window
          /\ \A i, j \in DOMAIN h : i <= j => h[i] >= h[j]
  BY <1>2, <1>3, PruneKeeps
<1> QED BY <1>2, <1>4 DEF older

LEMMA InitIInv == Init => IInv
<1> SUFFICES ASSUME Init PROVE IInv
  OBVIOUS
<1>1. \A c \in Cluster : NewEndpoint(c) \in Endpoint
  BY LegacyThresholds, LegacyTimes, LegacyWeights DEF NewEndpoint, Endpoint
<1>2. TypeOK
  <2>1. \A c \in Cluster : CountersAgree(NewEndpoint(c))
    BY LegacyThresholds DEF NewEndpoint, CountersAgree
  <2> QED BY <1>1, <2>1, EmptySeq DEF Init, TypeOK
<1>3. WeightFollowsStatus /\ UpIsCooled
  BY LegacyTimes DEF Init, WeightFollowsStatus, UpIsCooled, NewEndpoint
<1>4. HistoryOrdered
  BY DEF Init, HistoryOrdered
<1>5. FlapsBounded
  <2>1. UpCount = 2 /\ Len(history) = 0
    BY DEF Init, UpCount, NewEndpoint, Cluster
  <2> QED BY <2>1, LegacyTimes DEF FlapsBounded, HasBreaker
<1> QED BY <1>2, <1>3, <1>4, <1>5 DEF IInv
-----------------------------------------------------------------------------
\* A successful dial leaves the endpoint as it is up to its counters, starts
\* its recovery, or brings it up: the latter only with cooldown and breaker.
LEMMA SuccessEffect ==
    ASSUME IInv, NEW c \in Cluster, RecordSuccess(c)
    PROVE  \E e \in Endpoint :
              /\ ep' = [ep EXCEPT ![c] = e]
              /\ CountersAgree(e)
              /\ e.since = ep[c].since
              /\ \/ /\ e.status = ep[c].status /\ e.weight = ep[c].weight
                 \/ /\ ep[c].status = "down" /\ e.status = "recovering"
                    /\ e.weight = ep[c].weight
                 \/ /\ ep[c].status = "recovering" /\ e.status = "up"
                    /\ e.weight = OriginalWeight[c]
                    /\ e.since >= Cooldown /\ BreakerAllows
<1> DEFINE d == [ep[c] EXCEPT !.fails = 0, !.succs = UpTo(@, RecoveryThreshold)]
<1>1. ep[c] \in Endpoint /\ CountersAgree(ep[c])
  BY DEF IInv, TypeOK
<1>2. d \in Endpoint /\ d.since = ep[c].since /\ d.status = ep[c].status /\ d.weight = ep[c].weight
  <2>1. UpTo(ep[c].succs, RecoveryThreshold) \in 0..RecoveryThreshold
    BY <1>1, LegacyThresholds, UpToType DEF Endpoint
  <2> QED BY <1>1, <2>1, Written DEF Endpoint
<1>a. d.fails = 0 /\ d.succs > 0
  BY <1>1, LegacyThresholds DEF UpTo, Endpoint
<1>3. ep' = [ep EXCEPT ![c] =
             CASE d.status = "up" -> d
               [] d.status = "down" ->
                    [d EXCEPT !.status = "recovering", !.succs = 1, !.age = 0]
               [] d.status = "recovering" ->
                    IF d.succs >= RecoveryThreshold /\ d.age >= MinUptime
                    THEN promoteToUp(c, d) ELSE d]
  BY DEF RecordSuccess
<1> HIDE DEF d
<1>4. CASE d.status = "up"
  <2>1. CountersAgree(d)
    BY <1>4, <1>a, LegacyThresholds DEF CountersAgree
  <2> QED BY <1>2, <1>3, <1>4, <2>1
<1>5. CASE d.status = "down"
  <2> DEFINE e == [d EXCEPT !.status = "recovering", !.succs = 1, !.age = 0]
  <2>1. e \in Endpoint /\ e.since = d.since /\ e.status = "recovering" /\ e.weight = d.weight
    BY <1>2, Written DEF Endpoint
  <2>2. ep' = [ep EXCEPT ![c] = e]
    BY <1>3, <1>5
  <2>3. CountersAgree(e)
    BY <1>2, <1>a DEF CountersAgree, Endpoint
  <2> HIDE DEF e
  <2> QED BY <1>2, <1>5, <2>1, <2>2, <2>3
<1>6. CASE d.status = "recovering"
  <2>1. CASE ep' = [ep EXCEPT ![c] = d]
    <3>1. CountersAgree(d)
      BY <1>6, <1>a DEF CountersAgree
    <3> QED BY <1>2, <2>1, <3>1
  <2>2. CASE ~(ep' = [ep EXCEPT ![c] = d])
    <3> DEFINE e == [d EXCEPT !.status = "up", !.weight = OriginalWeight[c],
                              !.fails = 0, !.succs = 0]
    <3>1. d.since >= Cooldown /\ BreakerAllows /\ ep' = [ep EXCEPT ![c] = e]
      BY <1>3, <1>6, <2>2 DEF promoteToUp
    <3>2. /\ e \in Endpoint /\ e.since = d.since /\ e.status = "up"
          /\ e.weight = OriginalWeight[c]
      BY <1>2, Written DEF Endpoint
    <3>3. CountersAgree(e)
      BY <1>2, LegacyThresholds DEF CountersAgree, Endpoint
    <3> HIDE DEF e
    <3> QED BY <1>2, <1>6, <3>1, <3>2, <3>3
  <2> QED BY <2>1, <2>2
<1> QED BY <1>2, <1>4, <1>5, <1>6 DEF Endpoint

\* A failed dial leaves an endpoint that is up as it is up to its counters, or
\* brings it down and records the failover; others end up down.
LEMMA FailureEffect ==
    ASSUME IInv, NEW c \in Cluster, RecordFailure(c)
    PROVE  \E e \in Endpoint :
              /\ ep' = [ep EXCEPT ![c] = e]
              /\ CountersAgree(e)
              /\ \/ /\ ep[c].status = "up" /\ e.status = "up" /\ e.weight = ep[c].weight
                    /\ e.since = ep[c].since /\ UNCHANGED history
                 \/ /\ ep[c].status = "up" /\ e.status = "down" /\ e.weight = 0
                    /\ history' = IF HasBreaker THEN Append(history, 0) ELSE history
                 \/ /\ ep[c].status # "up" /\ e.status = "down" /\ e.weight = 0
                    /\ UNCHANGED history
<1> DEFINE d == [ep[c] EXCEPT !.succs = 0, !.fails = UpTo(@, FailureThreshold)]
<1>1. ep[c] \in Endpoint /\ CountersAgree(ep[c])
  BY DEF IInv, TypeOK
<1>2. d \in Endpoint /\ d.since = ep[c].since /\ d.status = ep[c].status /\ d.weight = ep[c].weight
  <2>1. UpTo(ep[c].fails, FailureThreshold) \in 0..FailureThreshold
    BY <1>1, LegacyThresholds, UpToType DEF Endpoint
  <2> QED BY <1>1, <2>1, Written DEF Endpoint
<1>a. d.succs = 0 /\ d.fails > 0
  BY <1>1, LegacyThresholds DEF UpTo, Endpoint
<1>b. ep[c].status = "up" /\ ~Demoted(c) => d.fails < FailureThreshold
  BY <1>1, LegacyThresholds DEF UpTo, Endpoint, Demoted
<1>3. ep' = [ep EXCEPT ![c] =
             CASE d.status = "up" -> IF Demoted(c) THEN demoteToDown(d) ELSE d
               [] d.status = "down" -> [d EXCEPT !.fails = 1]
               [] d.status = "recovering" ->
                    [d EXCEPT !.status = "down", !.weight = 0, !.fails = 1]]
      /\ history' = IF HasBreaker /\ Demoted(c) THEN Append(history, 0) ELSE history
  BY DEF RecordFailure
<1>4. ep[c].weight = IF ep[c].status = "up" THEN OriginalWeight[c] ELSE 0
  BY DEF IInv, WeightFollowsStatus
<1> HIDE DEF d
<1>5. CASE d.status = "up" /\ ~Demoted(c)
  <2>1. CountersAgree(d)
    BY <1>2, <1>5, <1>b DEF CountersAgree
  <2> QED BY <1>2, <1>3, <1>5, <2>1
<1>6. CASE d.status = "up" /\ Demoted(c)
  <2> DEFINE e == [d EXCEPT !.status = "down", !.weight = 0, !.succs = 0, !.since = 0]
  <2>1. e \in Endpoint /\ e.status = "down" /\ e.weight = 0
    BY <1>2, Written DEF Endpoint
  <2>2. ep' = [ep EXCEPT ![c] = e]
    BY <1>3, <1>6 DEF demoteToDown
  <2>3. CountersAgree(e)
    BY <1>2, <1>a DEF CountersAgree, Endpoint
  <2> HIDE DEF e
  <2> QED BY <1>2, <1>3, <1>6, <2>1, <2>2, <2>3
<1>7. CASE d.status = "down"
  <2> DEFINE e == [d EXCEPT !.fails = 1]
  <2>1. e \in Endpoint /\ e.status = "down" /\ e.weight = d.weight
    BY <1>2, <1>7, Written DEF Endpoint
  <2>2. ep' = [ep EXCEPT ![c] = e] /\ UNCHANGED history
    BY <1>2, <1>3, <1>7 DEF Demoted
  <2>3. e.succs = 0 /\ e.fails = 1
    BY <1>2, <1>a DEF Endpoint
  <2> HIDE DEF e
  <2>4. CountersAgree(e)
    BY <2>1, <2>3 DEF CountersAgree
  <2> QED BY <1>2, <1>4, <1>7, <2>1, <2>2, <2>4
<1>8. CASE d.status = "recovering"
  <2> DEFINE e == [d EXCEPT !.status = "down", !.weight = 0, !.fails = 1]
  <2>1. e \in Endpoint /\ e.status = "down" /\ e.weight = 0
    BY <1>2, Written DEF Endpoint
  <2>2. ep' = [ep EXCEPT ![c] = e] /\ UNCHANGED history
    BY <1>2, <1>3, <1>8 DEF Demoted
  <2>3. CountersAgree(e)
    BY <1>2, <1>a DEF CountersAgree, Endpoint
  <2> HIDE DEF e
  <2> QED BY <1>2, <1>8, <2>1, <2>2, <2>3
<1> QED BY <1>2, <1>5, <1>6, <1>7, <1>8 DEF Endpoint

LEMMA SuccessIInv ==
    ASSUME IInv, NEW c \in Cluster, RecordSuccess(c)
    PROVE  IInv'
<1> PICK e \in Endpoint :
      /\ ep' = [ep EXCEPT ![c] = e]
      /\ CountersAgree(e)
      /\ e.since = ep[c].since
      /\ \/ /\ e.status = ep[c].status /\ e.weight = ep[c].weight
         \/ /\ ep[c].status = "down" /\ e.status = "recovering"
            /\ e.weight = ep[c].weight
         \/ /\ ep[c].status = "recovering" /\ e.status = "up"
            /\ e.weight = OriginalWeight[c]
            /\ e.since >= Cooldown /\ BreakerAllows
  BY SuccessEffect
<1>1. UNCHANGED <<history, reachable>>
  BY DEF RecordSuccess
<1>2. ep \in [Cluster -> Endpoint]
  BY DEF IInv, TypeOK
<1>3. TypeOK'
  BY <1>1, <1>2 DEF IInv, TypeOK
<1>4. WeightFollowsStatus'
  BY <1>2 DEF IInv, WeightFollowsStatus
<1>5. UpIsCooled'
  BY <1>2 DEF IInv, UpIsCooled
<1>6. HistoryOrdered'
  BY <1>1 DEF IInv, HistoryOrdered, HasBreaker
<1>7. FlapsBounded'
  <2> SUFFICES ASSUME HasBreaker PROVE Len(history) + UpCount' <= MaxFailovers + 1
    BY <1>1 DEF FlapsBounded, HasBreaker
  <2>1. Len(history) \in Nat /\ MaxFailovers \in Nat
    BY LenProperties, LegacyTimes DEF IInv, TypeOK
  <2>2. CASE e.status = "up" /\ ep[c].status # "up"
    <3>1. Len(history) < MaxFailovers
      BY <2>2 DEF BreakerAllows
    <3>2. UpCount' \in 0..2
      BY DEF UpCount
    <3> QED BY <2>1, <3>1, <3>2
  <2>3. CASE ~(e.status = "up" /\ ep[c].status # "up")
    <3>1. UpCount' <= UpCount /\ UpCount \in 0..2 /\ UpCount' \in 0..2
      BY <1>2, <2>3 DEF UpCount, Cluster
    <3>2. Len(history) + UpCount <= MaxFailovers + 1
      BY DEF IInv, FlapsBounded
    <3> QED BY <2>1, <3>1, <3>2
  <2> QED BY <2>2, <2>3
<1> QED BY <1>3, <1>4, <1>5, <1>6, <1>7 DEF IInv

LEMMA FailureIInv ==
    ASSUME IInv, NEW c \in Cluster, RecordFailure(c)
    PROVE  IInv'
<1> PICK e \in Endpoint :
      /\ ep' = [ep EXCEPT ![c] = e]
      /\ CountersAgree(e)
      /\ \/ /\ ep[c].status = "up" /\ e.status = "up" /\ e.weight = ep[c].weight
            /\ e.since = ep[c].since /\ UNCHANGED history
         \/ /\ ep[c].status = "up" /\ e.status = "down" /\ e.weight = 0
            /\ history' = IF HasBreaker THEN Append(history, 0) ELSE history
         \/ /\ ep[c].status # "up" /\ e.status = "down" /\ e.weight = 0
            /\ UNCHANGED history
  BY FailureEffect
<1>1. UNCHANGED reachable
  BY DEF RecordFailure
<1>2. ep \in [Cluster -> Endpoint] /\ history \in Seq(Nat) /\ Len(history) \in Nat
       /\ DOMAIN history = 1..Len(history) /\ (\A i \in 1..Len(history) : history[i] \in Nat)
  BY LenProperties DEF IInv, TypeOK
<1>3. WeightFollowsStatus' /\ UpIsCooled'
  BY <1>2 DEF IInv, WeightFollowsStatus, UpIsCooled
<1>4. UpCount \in 0..2 /\ UpCount' \in 0..2
  BY DEF UpCount
<1>5. CASE history' = history
  <2>1. TypeOK'
    BY <1>1, <1>2, <1>5 DEF IInv, TypeOK
  <2>2. HistoryOrdered'
    BY <1>5 DEF IInv, HistoryOrdered, HasBreaker
  <2>3. UpCount' <= UpCount
    BY <1>2 DEF UpCount, Cluster
  <2>4. FlapsBounded'
    <3> SUFFICES ASSUME HasBreaker PROVE Len(history) + UpCount' <= MaxFailovers + 1
      BY <1>5 DEF FlapsBounded, HasBreaker
    <3>1. Len(history) + UpCount <= MaxFailovers + 1
      BY DEF IInv, FlapsBounded
    <3> QED BY <1>2, <1>4, <2>3, <3>1, LegacyTimes
  <2> QED BY <1>3, <2>1, <2>2, <2>4 DEF IInv
<1>6. CASE history' # history
  <2>1. /\ HasBreaker /\ history' = Append(history, 0)
        /\ ep[c].status = "up" /\ e.status = "down"
    BY <1>6
  <2>2. /\ history' \in Seq(Nat) /\ Len(history') = Len(history) + 1
        /\ DOMAIN history' = 1..(Len(history) + 1)
        /\ \A i \in 1..Len(history) : history'[i] = history[i]
        /\ history'[Len(history) + 1] = 0
    BY <1>2, <2>1, AppendProperties, LenProperties
  <2>3. \A i \in DOMAIN history' : i \in 1..Len(history) \/ i = Len(history) + 1
    BY <1>2, <2>2
  <2>4. TypeOK'
    <3>1. \A i \in DOMAIN history' : history'[i] < Window
      <4>1. 0 < Window
        BY <2>1, LegacyTimes DEF HasBreaker
      <4> QED BY <1>2, <2>2, <2>3, <4>1 DEF IInv, TypeOK
    <3> QED BY <1>1, <1>2, <2>2, <3>1 DEF IInv, TypeOK
  <2>5. HistoryOrdered'
    <3>1. \A i, j \in DOMAIN history' : i <= j => history'[i] >= history'[j]
      <4> TAKE i, j \in DOMAIN history'
      <4> HAVE i <= j
      <4>1. CASE j \in 1..Len(history)
        <5>1. i \in 1..Len(history)
          BY <1>2, <2>3, <4>1
        <5> QED BY <1>2, <2>2, <4>1, <5>1 DEF IInv, HistoryOrdered
      <4>2. CASE j = Len(history) + 1
        <5>1. history'[i] \in Nat
          BY <1>2, <2>2, <2>3
        <5> QED BY <2>2, <4>2, <5>1
      <4> QED BY <2>3, <4>1, <4>2
    <3> QED BY <2>1, <3>1 DEF HistoryOrdered, HasBreaker
  <2>6. FlapsBounded'
    <3>1. UpCount' = UpCount - 1
      BY <1>2, <2>1 DEF UpCount, Cluster
    <3>2. Len(history) + UpCount <= MaxFailovers + 1
      BY <2>1 DEF IInv, FlapsBounded
    <3> QED BY <1>2, <1>4, <2>2, <3>1, <3>2, LegacyTimes DEF FlapsBounded
  <2> QED BY <1>3, <2>4, <2>5, <2>6 DEF IInv
<1> QED BY <1>5, <1>6

LEMMA TickIInv ==
    ASSUME IInv, Tick
    PROVE  IInv'
<1> DEFINE h == pruneFailoverHistory([i \in DOMAIN history |-> history[i] + 1])
<1>1. /\ h \in Seq(Nat) /\ Len(h) <= Len(history)
      /\ \A i \in DOMAIN h : h[i] < Window
      /\ \A i, j \in DOMAIN h : i <= j => h[i] >= h[j]
  BY TickHistory DEF IInv
<1>2. history' = h /\ UNCHANGED reachable
  BY DEF Tick
<1> HIDE DEF h
<1>3. ep \in [Cluster -> Endpoint]
  BY DEF IInv, TypeOK
<1>4. \A c \in Cluster :
        /\ ep'[c] \in Endpoint /\ ep'[c].status = ep[c].status /\ ep'[c].weight = ep[c].weight
        /\ ep'[c].fails = ep[c].fails /\ ep'[c].succs = ep[c].succs
        /\ ep'[c].since >= ep[c].since
  <2> TAKE c \in Cluster
  <2>1. /\ UpTo(ep[c].age, MinUptime) \in 0..MinUptime
        /\ UpTo(ep[c].since, Cooldown) \in 0..Cooldown
        /\ UpTo(ep[c].since, Cooldown) >= ep[c].since
    BY <1>3, LegacyTimes, UpToType DEF Endpoint
  <2>2. ep'[c] = [ep[c] EXCEPT !.age = UpTo(ep[c].age, MinUptime),
                               !.since = UpTo(ep[c].since, Cooldown)]
    BY DEF Tick
  <2> QED BY <1>3, <2>1, <2>2 DEF Endpoint
<1>5. ep' \in [Cluster -> Endpoint]
  BY <1>4 DEF Tick
<1>6. TypeOK'
  <2>1. \A c \in Cluster : CountersAgree(ep'[c])
    <3> TAKE c \in Cluster
    <3>1. CountersAgree(ep[c]) /\ ep[c] \in Endpoint
      BY DEF IInv, TypeOK
    <3> QED BY <1>4, <3>1 DEF CountersAgree, Endpoint
  <2> QED BY <1>1, <1>2, <1>5, <2>1 DEF IInv, TypeOK
<1>7. WeightFollowsStatus'
  BY <1>4 DEF IInv, WeightFollowsStatus
<1>8. UpIsCooled'
  BY <1>3, <1>4, <1>5, LegacyTimes DEF IInv, UpIsCooled, Endpoint
<1>9. HistoryOrdered'
  <2>1. ~HasBreaker => h = << >>
    <3>1. ~HasBreaker => Len(history) = 0
      BY DEF IInv, HistoryOrdered
    <3>2. Len(h) \in Nat
      BY <1>1, LenProperties
    <3> QED BY <1>1, <3>1, <3>2, EmptySeq
  <2> QED BY <1>1, <1>2, <2>1 DEF HistoryOrdered, HasBreaker
<1>10. FlapsBounded'
  <2>1. UpCount' = UpCount /\ UpCount \in 0..2
    BY <1>4 DEF UpCount, Cluster
  <2>2. Len(h) \in Nat /\ Len(history) \in Nat
    BY <1>1, LenProperties DEF IInv, TypeOK
  <2> QED BY <1>1, <1>2, <2>1, <2>2, LegacyTimes DEF IInv, FlapsBounded, HasBreaker
<1> QED BY <1>6, <1>7, <1>8, <1>9, <1>10 DEF IInv

LEMMA StepIInv == IInv /\ [Next]_vars => IInv'
<1> SUFFICES ASSUME IInv, [Next]_vars PROVE IInv'
  OBVIOUS
<1>1. ASSUME NEW c \in Cluster, RecordSuccess(c)
      PROVE  IInv'
  BY <1>1, SuccessIInv
<1>2. ASSUME NEW c \in Cluster, RecordFailure(c)
      PROVE  IInv'
  BY <1>2, FailureIInv
<1>3. CASE Tick
  BY <1>3, TickIInv
<1>4. ASSUME UNCHANGED <<ep, history>>, reachable' \in [Cluster -> BOOLEAN]
      PROVE  IInv'
  BY <1>4 DEF IInv, TypeOK, WeightFollowsStatus, UpIsCooled, HistoryOrdered, FlapsBounded,
              UpCount, HasBreaker
<1>5. ASSUME NEW c \in Cluster, ReachChanges(c)
      PROVE  IInv'
  BY <1>4, <1>5 DEF ReachChanges, IInv, TypeOK
<1>6. CASE UNCHANGED vars
  BY <1>4, <1>6 DEF vars, IInv, TypeOK
<1> QED BY <1>1, <1>2, <1>3, <1>5, <1>6 DEF Next
-----------------------------------------------------------------------------
\* The inductive invariant holds in every state.
THEOREM LegacyInvariance == Spec => []IInv
BY InitIInv, StepIInv, PTL DEF Spec

\* Endpoints and failover history keep their types, an endpoint's status
\* agrees with its counters, and the history holds nothing that has left the
\* window.
THEOREM LegacyTypeCorrect == Spec => []TypeOK
<1>1. IInv => TypeOK
  BY DEF IInv
<1> QED BY <1>1, LegacyInvariance, PTL

\* Whatever the order of the handlers' dials, a window sees at most
\* circuit_breaker_max_failovers + 1 failovers.
THEOREM LegacyFlapsBounded == Spec => []FlapsBounded
<1>1. IInv => FlapsBounded
  BY DEF IInv
<1> QED BY <1>1, LegacyInvariance, PTL

\* SelectTarget picks an endpoint that is up while one with a configured
\* weight is: weights follow the status through every sequence of dials.
THEOREM LegacyOnlyUpSelected == Spec => []OnlyUpSelected
<1>1. IInv => OnlyUpSelected
  <2> SUFFICES ASSUME IInv,
                      NEW c \in Cluster, ep[c].status = "up", OriginalWeight[c] > 0,
                      NEW roll \in 0..(SelectWeights["primary"] + SelectWeights["secondary"] - 1)
               PROVE  ep[SelectTarget(roll)].status = "up"
    BY DEF OnlyUpSelected
  <2>1. \A d \in Cluster : /\ ep[d].weight = IF ep[d].status = "up" THEN OriginalWeight[d] ELSE 0
                           /\ ep[d].weight \in Nat
    BY LegacyWeights DEF IInv, WeightFollowsStatus
  <2>2. SelectWeights = [d \in Cluster |-> ep[d].weight]
    BY <2>1, LegacyWeights DEF SelectWeights
  <2>3. /\ SelectWeights["primary"] = ep["primary"].weight
        /\ SelectWeights["secondary"] = ep["secondary"].weight
        /\ ep["primary"].weight \in Nat /\ ep["secondary"].weight \in Nat
    BY <2>1, <2>2 DEF Cluster
  <2>4. ep[c].weight > 0 /\ c \in {"primary", "secondary"}
    BY <2>1 DEF Cluster
  <2>5. SelectTarget(roll) = IF roll < ep["primary"].weight THEN "primary" ELSE "secondary"
    BY <2>3, <2>4 DEF SelectTarget
  <2>6. ep[SelectTarget(roll)].weight > 0 /\ SelectTarget(roll) \in Cluster
    BY <2>3, <2>4, <2>5 DEF Cluster
  <2> QED BY <2>1, <2>6
<1> QED BY <1>1, LegacyInvariance, PTL

\* The same endpoint does not go down twice within the cooldown, although the
\* cooldown is only looked at on the way up.
THEOREM LegacyNoPingPong == Spec => NoPingPong
<1>1. IInv /\ [Next]_vars =>
        [\A c \in Cluster :
           (ep[c].status = "up" /\ ep'[c].status = "down") => ep[c].since >= Cooldown]_vars
  BY DEF IInv, UpIsCooled
<1> QED BY <1>1, LegacyInvariance, PTL DEF Spec, NoPingPong
=============================================================================
