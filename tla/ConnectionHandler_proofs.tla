---------------------- MODULE ConnectionHandler_proofs ----------------------
(***************************************************************************)
(* Proofs about ConnectionHandler and the merge of Metadata responses, for *)
(* responses of any length.                                                *)
(***************************************************************************)
EXTENDS ConnectionHandler, WindowLemmas, SequenceTheorems, TLAPS

\* No key twice in a list.
Distinct(key, m) == \A i, j \in DOMAIN m : m[i][key] = m[j][key] => i = j

\* m is reached from the first list by one AppendNew per entry of the second.
InSteps(key, first, second, m) ==
    \E M : /\ M[0] = first
           /\ \A n \in 1..Len(second) : M[n] = AppendNew(key, M[n - 1], second[n])
           /\ m = M[Len(second)]

(***************************************************************************)
(* The merge. A fact about every prefix of the second list is proved from  *)
(* the least prefix that would refute it.                                  *)
(***************************************************************************)
\* The partial merges exist: the recursion of MergeBy has a solution.
LEMMA MergeSteps ==
    ASSUME NEW key, NEW first, NEW second, Len(second) \in Nat
    PROVE  InSteps(key, first, second, MergeBy(key, first, second))
<1> DEFINE L == Len(second)
           Step(m, n) == AppendNew(key, m, second[n])
           Solves(M, k) == M = [n \in 0..k |-> IF n = 0 THEN first ELSE Step(M[n - 1], n)]
           Refuting == {k \in 0..L : ~\E M : Solves(M, k)}
<1> HIDE DEF Step
<1>1. Refuting = {}
  <2> SUFFICES ASSUME Refuting # {} PROVE FALSE
    OBVIOUS
  <2>1. Refuting \in SUBSET Nat
    OBVIOUS
  <2>2. PICK k \in Refuting : \A j \in Refuting : k <= j
    BY <2>1, LeastNatural
  <2>3. k # 0
    <3>1. Solves([n \in 0..0 |-> first], 0)
      OBVIOUS
    <3> QED BY <3>1, <2>2
  <2>4. k - 1 \in 0..L /\ k - 1 \notin Refuting /\ k \in Nat
    BY <2>2, <2>3
  <2>5. PICK M : Solves(M, k - 1)
    BY <2>4
  <2> DEFINE N == [n \in 0..k |-> IF n = k THEN Step(M[k - 1], k) ELSE M[n]]
  <2>6. \A n \in 0..(k - 1) : M[n] = IF n = 0 THEN first ELSE Step(M[n - 1], n)
    BY <2>5
  <2>7. \A n \in 0..k : N[n] = IF n = 0 THEN first ELSE Step(N[n - 1], n)
    <3> TAKE n \in 0..k
    <3>1. CASE n = k
      <4>1. N[k] = Step(M[k - 1], k) /\ N[k - 1] = M[k - 1]
        BY <2>3, <2>4
      <4> QED BY <2>3, <3>1, <4>1
    <3>2. CASE n # k
      <4>1. n \in 0..(k - 1) /\ N[n] = M[n]
        BY <2>4, <3>2
      <4>2. n # 0 => N[n - 1] = M[n - 1]
        BY <2>4, <3>2
      <4> QED BY <2>6, <4>1, <4>2
    <3> QED BY <3>1, <3>2
  <2>8. N = [n \in 0..k |-> IF n = 0 THEN first ELSE Step(N[n - 1], n)]
    <3>1. N = [n \in 0..k |-> N[n]]
      OBVIOUS
    <3> HIDE DEF N
    <3> QED BY <2>7, <3>1
  <2>9. Solves(N, k)
    BY <2>8
  <2> QED BY <2>2, <2>9
<1>2. \E M : Solves(M, L)
  <2>1. L \in 0..L
    OBVIOUS
  <2> QED BY <1>1, <2>1
<1>3. PICK M : M = [n \in 0..L |-> IF n = 0 THEN first ELSE AppendNew(key, M[n - 1], second[n])]
  BY <1>2 DEF Step
<1> DEFINE C == CHOOSE merged : merged = [n \in 0..L |-> IF n = 0 THEN first ELSE AppendNew(key, merged[n - 1], second[n])]
<1>4. C = [n \in 0..L |-> IF n = 0 THEN first ELSE AppendNew(key, C[n - 1], second[n])]
  BY <1>3, Zenon
<1>5. MergeBy(key, first, second) = C[L]
  BY Zenon DEF MergeBy
<1> HIDE DEF C
<1>6. C[0] = first /\ \A n \in 1..L : C[n] = AppendNew(key, C[n - 1], second[n])
  BY <1>4
<1> QED BY <1>5, <1>6, Zenon DEF InSteps

\* One entry of the second list.
LEMMA AppendNewStep ==
    ASSUME NEW S, NEW key, NEW m \in Seq(S), NEW x \in S
    PROVE  /\ AppendNew(key, m, x) \in Seq(S)
           /\ \A i \in DOMAIN m : i \in DOMAIN AppendNew(key, m, x) /\ AppendNew(key, m, x)[i] = m[i]
           /\ \E i \in DOMAIN AppendNew(key, m, x) : AppendNew(key, m, x)[i][key] = x[key]
           /\ \A i \in DOMAIN AppendNew(key, m, x) : i \in DOMAIN m \/ AppendNew(key, m, x)[i] = x
           /\ Distinct(key, m) => Distinct(key, AppendNew(key, m, x))
<1>1. CASE \E i \in DOMAIN m : m[i][key] = x[key]
  BY <1>1 DEF AppendNew
<1>2. CASE ~\E i \in DOMAIN m : m[i][key] = x[key]
  <2> DEFINE a == Append(m, x)
  <2>1. AppendNew(key, m, x) = a
    BY <1>2 DEF AppendNew
  <2>2. /\ a \in Seq(S) /\ Len(a) = Len(m) + 1 /\ a[Len(m) + 1] = x
        /\ \A i \in 1..Len(m) : a[i] = m[i]
    BY AppendProperties
  <2>3. Len(m) \in Nat /\ DOMAIN m = 1..Len(m) /\ DOMAIN a = 1..Len(a)
    BY <2>2, LenProperties
  <2> HIDE DEF a
  <2>4. Len(m) + 1 \in DOMAIN a /\ \A i \in DOMAIN m : i \in DOMAIN a
    BY <2>2, <2>3
  <2>5. \A i \in DOMAIN a : i \in DOMAIN m \/ i = Len(m) + 1
    BY <2>2, <2>3
  <2>6. Distinct(key, m) => Distinct(key, a)
    BY <1>2, <2>2, <2>3, <2>5 DEF Distinct
  <2> QED BY <2>1, <2>2, <2>3, <2>4, <2>5, <2>6
<1> QED BY <1>1, <1>2

\* The merged list starts with the first one, has every key of the second one,
\* and no entry or duplicate of its own.
IsMerge(S, key, first, second, m) ==
    /\ m \in Seq(S)
    /\ \A i \in DOMAIN first : i \in DOMAIN m /\ m[i] = first[i]
    /\ \A j \in DOMAIN second : \E i \in DOMAIN m : m[i][key] = second[j][key]
    /\ \A i \in DOMAIN m : \/ \E j \in DOMAIN first : m[i] = first[j]
                           \/ \E j \in DOMAIN second : m[i] = second[j]
    /\ Distinct(key, first) => Distinct(key, m)

LEMMA MergedList ==
    ASSUME NEW S, NEW key, NEW first \in Seq(S), NEW second \in Seq(S)
    PROVE  IsMerge(S, key, first, second, MergeBy(key, first, second))
<1> DEFINE L == Len(second)
           m == MergeBy(key, first, second)
<1>1. L \in Nat /\ DOMAIN second = 1..L /\ \A n \in 1..L : second[n] \in S
  BY LenProperties
<1>2. PICK M : /\ M[0] = first
               /\ \A n \in 1..L : M[n] = AppendNew(key, M[n - 1], second[n])
               /\ m = M[L]
  <2>1. InSteps(key, first, second, MergeBy(key, first, second))
    BY <1>1, MergeSteps
  <2> QED BY <2>1 DEF InSteps
<1> HIDE DEF L, m
<1> DEFINE Good(n, q) ==
        /\ q \in Seq(S)
        /\ \A i \in DOMAIN first : i \in DOMAIN q /\ q[i] = first[i]
        /\ \A j \in 1..n : \E i \in DOMAIN q : q[i][key] = second[j][key]
        /\ \A i \in DOMAIN q : \/ \E j \in DOMAIN first : q[i] = first[j]
                               \/ \E j \in 1..L : q[i] = second[j]
        /\ Distinct(key, first) => Distinct(key, q)
<1>3. Good(0, M[0])
  BY <1>2
<1>4. ASSUME NEW n \in 1..L, Good(n - 1, M[n - 1]) PROVE Good(n, M[n])
  <2> DEFINE b == M[n - 1]
             a == AppendNew(key, b, second[n])
  <2>1. b \in Seq(S) /\ second[n] \in S /\ M[n] = a
    BY <1>1, <1>2, <1>4
  <2>2. /\ a \in Seq(S)
        /\ \A i \in DOMAIN b : i \in DOMAIN a /\ a[i] = b[i]
        /\ \E i \in DOMAIN a : a[i][key] = second[n][key]
        /\ \A i \in DOMAIN a : i \in DOMAIN b \/ a[i] = second[n]
        /\ Distinct(key, b) => Distinct(key, a)
    <3> HIDE DEF b, Good
    <3> QED BY <2>1, AppendNewStep, Zenon
  <2> HIDE DEF a
  <2>3. \A i \in DOMAIN first : i \in DOMAIN b /\ b[i] = first[i]
    BY <1>4
  <2>4. \A j \in 1..(n - 1) : \E i \in DOMAIN b : b[i][key] = second[j][key]
    BY <1>4
  <2>5. \A i \in DOMAIN b : \/ \E j \in DOMAIN first : b[i] = first[j]
                            \/ \E j \in 1..L : b[i] = second[j]
    BY <1>4
  <2>6. Distinct(key, first) => Distinct(key, b)
    BY <1>4
  <2> HIDE DEF b, Good
  <2>7. \A i \in DOMAIN first : i \in DOMAIN a /\ a[i] = first[i]
    BY <2>2, <2>3
  <2>8. \A j \in 1..n : \E i \in DOMAIN a : a[i][key] = second[j][key]
    <3> TAKE j \in 1..n
    <3>1. j = n \/ j \in 1..(n - 1)
      BY <1>1
    <3>2. CASE j = n
      BY <2>2, <3>2
    <3>3. CASE j \in 1..(n - 1)
      <4>1. PICK i \in DOMAIN b : b[i][key] = second[j][key]
        BY <2>4, <3>3
      <4>2. i \in DOMAIN a /\ a[i] = b[i]
        BY <2>2
      <4> QED BY <4>1, <4>2
    <3> QED BY <3>1, <3>2, <3>3
  <2>9. \A i \in DOMAIN a : \/ \E j \in DOMAIN first : a[i] = first[j]
                            \/ \E j \in 1..L : a[i] = second[j]
    BY <2>2, <2>5
  <2> QED BY <2>1, <2>2, <2>6, <2>7, <2>8, <2>9 DEF Good
<1> HIDE DEF Good
<1> DEFINE Refuting == {n \in 0..L : ~Good(n, M[n])}
<1>5. Refuting = {}
  <2> SUFFICES ASSUME Refuting # {} PROVE FALSE
    OBVIOUS
  <2>1. Refuting \in SUBSET Nat
    BY <1>1
  <2>2. PICK n \in Refuting : \A j \in Refuting : n <= j
    BY <2>1, LeastNatural
  <2>3. n # 0
    BY <1>3, <2>2
  <2>4. n \in 1..L /\ n - 1 \in 0..L /\ n - 1 \notin Refuting
    BY <1>1, <2>2, <2>3
  <2> QED BY <1>4, <2>2, <2>4
<1>6. Good(L, M[L])
  <2>1. L \in 0..L
    BY <1>1
  <2> QED BY <1>5, <2>1
<1>7. Good(L, m)
  BY <1>2, <1>6, Zenon
<1>8. IsMerge(S, key, first, second, m)
  BY <1>1, <1>7, Zenon DEF Good, IsMerge
<1> QED BY <1>8 DEF m

\* What the merged response a of p and q lists.
Combines(p, q, a) ==
    /\ OnlyProxy(a) /\ a # Failure
    /\ Nodes(a) = Nodes(p) \cup Nodes(q) /\ Topics(a) = Topics(p) \cup Topics(q)
    /\ \A i \in DOMAIN p.topics : \E j \in DOMAIN a.topics : a.topics[j] = p.topics[i]
    /\ WellFormed(p) /\ (\A i \in DOMAIN q.topics : q.topics[i].leader \in Nodes(q)) => WellFormed(a)

LEMMA BuiltResponse ==
    ASSUME NEW p, p.brokers \in Seq(Broker), p.topics \in Seq(Topic),
           NEW q, q.brokers \in Seq(Broker), q.topics \in Seq(Topic)
    PROVE  Combines(p, q, buildSyntheticResponse(p, q))
<1> DEFINE a  == buildSyntheticResponse(p, q)
           bm == mergeBrokers(p.brokers, q.brokers)
           tm == mergeTopics(p.topics, q.topics)
<1>1. IsMerge(Broker, "node", p.brokers, q.brokers, bm)
  BY MergedList DEF mergeBrokers
<1>2. IsMerge(Topic, "name", p.topics, q.topics, tm)
  BY MergedList DEF mergeTopics
<1>3. /\ a.parse = "all" /\ a.topics = tm /\ a.brokers = RewriteBrokers(bm)
  BY DEF buildSyntheticResponse
<1> HIDE DEF a, bm, tm
<1>4. /\ DOMAIN a.brokers = DOMAIN bm
      /\ \A i \in DOMAIN bm : a.brokers[i].node = bm[i].node /\ a.brokers[i].host = "proxy"
  BY <1>3 DEF RewriteBrokers
<1>5. OnlyProxy(a) /\ a # Failure
  BY <1>3, <1>4 DEF OnlyProxy, Failure
<1>6. Nodes(a) = Nodes(p) \cup Nodes(q)
  <2>1. Nodes(a) = {bm[i].node : i \in DOMAIN bm}
    BY <1>4 DEF Nodes
  <2>2. \A n \in Nodes(a) : n \in Nodes(p) \cup Nodes(q)
    <3> TAKE n \in Nodes(a)
    <3>1. PICK i \in DOMAIN bm : n = bm[i].node
      BY <2>1
    <3>2. (\E j \in DOMAIN p.brokers : bm[i] = p.brokers[j]) \/ (\E j \in DOMAIN q.brokers : bm[i] = q.brokers[j])
      BY <1>1 DEF IsMerge
    <3> QED BY <3>1, <3>2 DEF Nodes
  <2>3. \A n \in Nodes(p) : n \in Nodes(a)
    <3> TAKE n \in Nodes(p)
    <3>1. PICK i \in DOMAIN p.brokers : n = p.brokers[i].node
      BY DEF Nodes
    <3>2. i \in DOMAIN bm /\ bm[i] = p.brokers[i]
      BY <1>1 DEF IsMerge
    <3> QED BY <2>1, <3>1, <3>2
  <2>4. \A n \in Nodes(q) : n \in Nodes(a)
    <3> TAKE n \in Nodes(q)
    <3>1. PICK j \in DOMAIN q.brokers : n = q.brokers[j].node
      BY DEF Nodes
    <3>2. PICK i \in DOMAIN bm : bm[i]["node"] = q.brokers[j]["node"]
      BY <1>1 DEF IsMerge
    <3> QED BY <2>1, <3>1, <3>2
  <2> QED BY <2>2, <2>3, <2>4
<1>7. Topics(a) = Topics(p) \cup Topics(q)
  <2>1. Topics(a) = {tm[i].name : i \in DOMAIN tm}
    BY <1>3 DEF Topics
  <2>2. \A t \in Topics(a) : t \in Topics(p) \cup Topics(q)
    <3> TAKE t \in Topics(a)
    <3>1. PICK i \in DOMAIN tm : t = tm[i].name
      BY <2>1
    <3>2. (\E j \in DOMAIN p.topics : tm[i] = p.topics[j]) \/ (\E j \in DOMAIN q.topics : tm[i] = q.topics[j])
      BY <1>2 DEF IsMerge
    <3> QED BY <3>1, <3>2 DEF Topics
  <2>3. \A t \in Topics(p) : t \in Topics(a)
    <3> TAKE t \in Topics(p)
    <3>1. PICK i \in DOMAIN p.topics : t = p.topics[i].name
      BY DEF Topics
    <3>2. i \in DOMAIN tm /\ tm[i] = p.topics[i]
      BY <1>2 DEF IsMerge
    <3> QED BY <2>1, <3>1, <3>2
  <2>4. \A t \in Topics(q) : t \in Topics(a)
    <3> TAKE t \in Topics(q)
    <3>1. PICK j \in DOMAIN q.topics : t = q.topics[j].name
      BY DEF Topics
    <3>2. PICK i \in DOMAIN tm : tm[i]["name"] = q.topics[j]["name"]
      BY <1>2 DEF IsMerge
    <3> QED BY <2>1, <3>1, <3>2
  <2> QED BY <2>2, <2>3, <2>4
<1>8. ASSUME WellFormed(p), \A i \in DOMAIN q.topics : q.topics[i].leader \in Nodes(q)
      PROVE  WellFormed(a)
  <2>1. Distinct("node", bm) /\ Distinct("name", tm)
    BY <1>1, <1>2, <1>8 DEF WellFormed, Distinct, IsMerge
  <2>2. \A i, j \in DOMAIN a.brokers : a.brokers[i].node = a.brokers[j].node => i = j
    BY <1>4, <2>1 DEF Distinct
  <2>3. \A i, j \in DOMAIN a.topics : a.topics[i].name = a.topics[j].name => i = j
    BY <1>3, <2>1 DEF Distinct
  <2>4. \A i \in DOMAIN a.topics : a.topics[i].leader \in Nodes(a)
    <3>1. \A i \in DOMAIN p.topics : p.topics[i].leader \in Nodes(p)
      BY <1>8 DEF WellFormed
    <3> QED BY <1>2, <1>3, <1>6, <1>8, <3>1 DEF IsMerge
  <2> QED BY <2>2, <2>3, <2>4 DEF WellFormed
<1>9. \A i \in DOMAIN p.topics : \E j \in DOMAIN a.topics : a.topics[j] = p.topics[i]
  BY <1>2, <1>3 DEF IsMerge
<1>10. Combines(p, q, a)
  BY <1>5, <1>6, <1>7, <1>8, <1>9 DEF Combines
<1> QED BY <1>10 DEF a

\* What the client of a load_balance BU gets for any pair of responses.
Merges(p, s, a) ==
    /\ \A i \in DOMAIN p.topics : \E j \in DOMAIN a.topics : a.topics[j] = p.topics[i]
    /\ Topics(a) = UNION {Topics(r) : r \in {r \in {p, s} : TopicsParse(r)}}
    /\ Nodes(a) = UNION {Nodes(r) : r \in {r \in {p, s} : TopicsParse(r)}}
    /\ WellFormed(p) /\ (TopicsParse(s) => WellFormed(s)) => WellFormed(a)

LEMMA SynthesizedResponse ==
    ASSUME NEW p \in Response \cup {Unanswered}, NEW s \in Response \cup {Unanswered},
           NEW a, a = SynthesizeMetadataResponse(p, s)
    PROVE  /\ a = Failure <=> ~TopicsParse(p)
           /\ a # Failure => OnlyProxy(a) /\ Merges(p, s, a)
<1>1. CASE ~TopicsParse(p)
  BY <1>1 DEF SynthesizeMetadataResponse
<1>2. CASE TopicsParse(p)
  <2>1. p \in Response /\ p.brokers \in Seq(Broker) /\ p.topics \in Seq(Topic)
    BY <1>2 DEF TopicsParse, Unanswered, Response
  <2>2. CASE TopicsParse(s)
    <3>1. s \in Response /\ s.brokers \in Seq(Broker) /\ s.topics \in Seq(Topic)
      BY <2>2 DEF TopicsParse, Unanswered, Response
    <3>2. a = buildSyntheticResponse(p, s)
      BY <1>2, <2>2 DEF SynthesizeMetadataResponse
    <3>3. /\ OnlyProxy(a) /\ a # Failure
          /\ Nodes(a) = Nodes(p) \cup Nodes(s) /\ Topics(a) = Topics(p) \cup Topics(s)
          /\ \A i \in DOMAIN p.topics : \E j \in DOMAIN a.topics : a.topics[j] = p.topics[i]
          /\ WellFormed(p) /\ (\A i \in DOMAIN s.topics : s.topics[i].leader \in Nodes(s)) => WellFormed(a)
      <4>1. Combines(p, s, a)
        BY <2>1, <3>1, <3>2, BuiltResponse
      <4> QED BY <4>1 DEF Combines
    <3>4. {r \in {p, s} : TopicsParse(r)} = {p, s}
      BY <1>2, <2>2
    <3>5. UNION {Topics(r) : r \in {p, s}} = Topics(p) \cup Topics(s)
          /\ UNION {Nodes(r) : r \in {p, s}} = Nodes(p) \cup Nodes(s)
      OBVIOUS
    <3>6. WellFormed(s) => \A i \in DOMAIN s.topics : s.topics[i].leader \in Nodes(s)
      BY DEF WellFormed
    <3> QED BY <1>2, <2>2, <3>3, <3>4, <3>5, <3>6 DEF Merges
  <2>3. CASE ~TopicsParse(s)
    <3>1. a = buildSyntheticResponse(p, Unanswered)
      BY <1>2, <2>3 DEF SynthesizeMetadataResponse
    <3>2. Unanswered.brokers = << >> /\ Unanswered.topics = << >>
      BY DEF Unanswered
    <3>3. << >> \in Seq(Broker) /\ << >> \in Seq(Topic) /\ DOMAIN << >> = {}
      OBVIOUS
    <3>4. /\ OnlyProxy(a) /\ a # Failure
          /\ Nodes(a) = Nodes(p) \cup Nodes(Unanswered) /\ Topics(a) = Topics(p) \cup Topics(Unanswered)
          /\ \A i \in DOMAIN p.topics : \E j \in DOMAIN a.topics : a.topics[j] = p.topics[i]
          /\ WellFormed(p) /\ (\A i \in DOMAIN Unanswered.topics : Unanswered.topics[i].leader \in Nodes(Unanswered))
                => WellFormed(a)
      <4>1. Combines(p, Unanswered, a)
        BY <2>1, <3>1, <3>2, <3>3, BuiltResponse
      <4> QED BY <4>1 DEF Combines
    <3>5. Nodes(Unanswered) = {} /\ Topics(Unanswered) = {}
      BY <3>2, <3>3 DEF Nodes, Topics
    <3>6. {r \in {p, s} : TopicsParse(r)} = {p}
      BY <1>2, <2>3
    <3>7. UNION {Topics(r) : r \in {p}} = Topics(p) /\ UNION {Nodes(r) : r \in {p}} = Nodes(p)
      OBVIOUS
    <3> QED BY <1>2, <3>2, <3>3, <3>4, <3>5, <3>6, <3>7 DEF Merges
  <2> QED BY <2>2, <2>3
<1> QED BY <1>1, <1>2
-----------------------------------------------------------------------------
(***************************************************************************)
(* The handler.                                                            *)
(***************************************************************************)
LEMMA Answers ==
    /\ NoAnswer.kind = "none"
    /\ [NoAnswer EXCEPT !.kind = "plain"].kind = "plain"
    /\ [NoAnswer EXCEPT !.kind = "partial"].kind = "partial"
BY DEF NoAnswer

\* Both copies start with a read.
LEMMA Copying ==
    ASSUME StartCopying
    PROVE  copy' \in [Direction -> {"none", "read", "write", "ended"}]
BY DEF StartCopying

LEMMA InitHInv == Init => HInv
<1> SUFFICES ASSUME Init PROVE HInv
  OBVIOUS
<1>1. TypeOK
  <2>1. \A c \in Cluster : fwd[c] = Unanswered
    BY DEF Init
  <2>2. target \in Cluster /\ frame \in Frame /\ rounds \in 0..MaxRounds
    BY HandlerBounds DEF Init, Cluster, Frame
  <2>3. copy \in [Direction -> {"none", "read", "write", "ended"}]
    BY DEF Init, Idle
  <2> QED BY <2>1, <2>2, <2>3, Answers DEF Init, TypeOK
<1>2. Quiet
  BY DEF Init, Quiet
<1> QED BY <1>1, <1>2 DEF HInv

LEMMA ConnectStep ==
    ASSUME HInv, (\E m \in Modes : Accept(m)) \/ Connect
    PROVE  HInv'
<1> USE DEF HInv
<1>1. CASE \E m \in Modes : Accept(m)
  BY <1>1 DEF TypeOK, Quiet, Accept, Goto, io, meta, TargetsOf, Cluster
<1>2. CASE Register
  BY <1>2 DEF TypeOK, Quiet, Register, Goto, io, meta
<1>3. CASE dialUpstream
  BY <1>3 DEF TypeOK, Quiet, dialUpstream, Goto, meta
<1> QED BY <1>1, <1>2, <1>3 DEF Connect

LEMMA SaslStep ==
    ASSUME HInv, (\E k \in Frame : ReadFrame(k)) \/ Sasl
    PROVE  HInv'
<1> USE DEF HInv
<1>1. ASSUME NEW k \in Frame, ReadFrame(k) PROVE HInv'
  <2>1. /\ pc = "first" /\ frame' = k /\ (k \in SaslFrame => rounds < MaxRounds)
        /\ UNCHANGED <<mode, target, io, reg, rounds, meta, sent, unread, answer, copy>>
    BY <1>1 DEF ReadFrame
  <2>2. pc' \in {"sasl", "return", "decide"} /\ (pc' = "sasl" => k \in SaslFrame)
    BY <1>1 DEF ReadFrame, Goto, SaslFrame
  <2> QED BY <2>1, <2>2 DEF TypeOK, Quiet, io, meta
<1>2. CASE ReadFrameFails
  BY <1>2 DEF TypeOK, Quiet, ReadFrameFails, Goto, io, meta
<1>3. CASE SaslResponse
  <2>1. rounds' \in 0..MaxRounds
    BY <1>3, HandlerBounds DEF SaslResponse, Quiet, TypeOK
  <2> QED BY <1>3, <2>1 DEF TypeOK, Quiet, SaslResponse, Goto, io, meta
<1> QED BY <1>1, <1>2, <1>3 DEF Sasl

LEMMA FirstFrameStep ==
    ASSUME HInv, Decide \/ Metadata \/ Forward
    PROVE  HInv'
<1> USE DEF HInv
<1>1. CASE Decide
  <2>1. /\ pc = "decide" /\ up' \in {up, "closed"}
        /\ pc' \in {"return", "body", "route_read", "forward"}
        /\ UNCHANGED <<mode, target, client, lease, reg, rounds, frame, meta, sent, unread, answer, copy>>
    BY <1>1 DEF Decide, Goto
  <2> QED BY <2>1 DEF TypeOK, Quiet, meta
<1>2. CASE ReadBody
  <2>1. /\ pc = "body" /\ bodyRead' = TRUE
        /\ UNCHANGED <<mode, target, io, reg, rounds, frame, sent, unread, answer, copy>>
        /\ fwd' = fwd \/ fwd' = [c \in Cluster |-> Pending]
        /\ pc' \in {"forward", "ap_write", "lb_wait"}
    BY <1>2 DEF ReadBody, Goto
  <2>2. /\ \A c \in Cluster : fwd'[c] \in Responses[c] \cup {Unanswered, Pending}
        /\ fwd' = [c \in Cluster |-> fwd'[c]]
    BY <2>1 DEF TypeOK, Quiet
  <2> QED BY <2>1, <2>2 DEF TypeOK, Quiet, io
<1>3. CASE ReadBodyPanics
  BY <1>3 DEF TypeOK, Quiet, ReadBodyPanics, Goto, io, meta
<1>4. CASE Reply
  BY <1>4, Copying DEF TypeOK, Quiet, Reply, Goto, io, meta
<1>5. CASE Forward
  <2>1. /\ pc = "forward" /\ pc' = "pass" /\ StartCopying
        /\ UNCHANGED <<mode, target, io, reg, rounds, frame, meta, unread, answer>>
    BY <1>5 DEF Forward, Goto
  <2>2. sent' \in {"nothing", "header", "whole", "half", "again"}
    BY <1>5 DEF Forward, TypeOK
  <2> QED BY <2>1, <2>2, Copying DEF TypeOK, Quiet, io, meta
<1> QED BY <1>1, <1>2, <1>3, <1>4, <1>5 DEF Metadata

LEMMA ActivePassiveStep ==
    ASSUME HInv, ActivePassive
    PROVE  HInv'
<1> USE DEF HInv
<1>1. CASE ApWrite
  BY <1>1 DEF TypeOK, Quiet, ApWrite, Goto, io, meta
<1>2. CASE ApFails
  BY <1>2 DEF TypeOK, Quiet, ApFails, Goto, io, meta
<1>3. CASE ApRefuses
  BY <1>3 DEF TypeOK, Quiet, ApRefuses, Goto, io, meta
<1>4. ASSUME NEW r \in Responses[target], handleMetadataActivePassive(r) PROVE HInv'
  <2>1. /\ pc = "ap_wait" /\ pc' = "reply"
        /\ UNCHANGED <<mode, target, io, reg, rounds, frame, meta, sent, unread, copy>>
    BY <1>4 DEF handleMetadataActivePassive, Goto
  <2>2. answer'.kind \in {"raw", "rewritten"}
    BY <1>4 DEF handleMetadataActivePassive
  <2> QED BY <2>1, <2>2 DEF TypeOK, Quiet, io, meta
<1> QED BY <1>1, <1>2, <1>3, <1>4 DEF ActivePassive

\* Both requests have ended: what each cluster answered.
LEMMA BothEnded ==
    ASSUME TypeOK, \A c \in Cluster : fwd[c] # Pending
    PROVE  /\ fwd["primary"] \in Response \cup {Unanswered} /\ fwd["secondary"] \in Response \cup {Unanswered}
           /\ \A c \in Cluster : fwd[c] \in Responses[c] \cup {Unanswered}
BY ResponsesTyped DEF TypeOK, Cluster

\* The three forms of the answer.
LEMMA LoadBalanceAnswers ==
    ASSUME NEW p \in Response \cup {Unanswered}, NEW s \in Response \cup {Unanswered}
    PROVE  LET merged == SynthesizeMetadataResponse(p, s)
               a      == LoadBalanceAnswer(p, s)
           IN  \/ a.kind = "synthetic" /\ a.resp = merged /\ merged # Failure /\ TopicsParse(p)
               \/ a.kind = "raw" /\ ~TopicsParse(p)
<1> DEFINE merged == SynthesizeMetadataResponse(p, s)
<1>1. merged = Failure <=> ~TopicsParse(p)
  BY SynthesizedResponse
<1> HIDE DEF merged
<1>2. LoadBalanceAnswer(p, s) =
        CASE merged # Failure -> [kind |-> "synthetic", resp |-> merged]
          [] merged = Failure /\ p # Unanswered -> [kind |-> "raw", resp |-> p]
          [] merged = Failure /\ p = Unanswered -> [kind |-> "raw", resp |-> s]
  BY DEF LoadBalanceAnswer, merged
<1>3. \/ LoadBalanceAnswer(p, s) = [kind |-> "synthetic", resp |-> merged] /\ merged # Failure
      \/ LoadBalanceAnswer(p, s) = [kind |-> "raw", resp |-> p] /\ merged = Failure
      \/ LoadBalanceAnswer(p, s) = [kind |-> "raw", resp |-> s] /\ merged = Failure
  BY <1>2
<1>4. \/ LoadBalanceAnswer(p, s).kind = "synthetic" /\ LoadBalanceAnswer(p, s).resp = merged
         /\ merged # Failure /\ TopicsParse(p)
      \/ LoadBalanceAnswer(p, s).kind = "raw" /\ ~TopicsParse(p)
  BY <1>1, <1>3
<1> QED BY <1>4 DEF merged

LEMMA LoadBalanceStep ==
    ASSUME HInv, LoadBalance
    PROVE  HInv'
<1> USE DEF HInv
<1>1. CASE handleMetadataLoadBalance
  <2>1. /\ pc = "lb_wait" /\ \A c \in Cluster : fwd[c] # Pending
        /\ pc' \in {"forward", "reply"}
        /\ UNCHANGED <<mode, target, io, reg, rounds, frame, meta, sent, unread, copy>>
        /\ UNCHANGED answer \/ answer' = LoadBalanceAnswer(fwd["primary"], fwd["secondary"])
    BY <1>1 DEF handleMetadataLoadBalance, Goto
  <2>2. answer'.kind \in {"none", "synthetic", "raw"}
    <3>1. CASE UNCHANGED answer
      BY <2>1, <3>1, Answers DEF Quiet
    <3>2. CASE answer' = LoadBalanceAnswer(fwd["primary"], fwd["secondary"])
      BY <2>1, <3>2, BothEnded, LoadBalanceAnswers
    <3> QED BY <2>1, <3>1, <3>2
  <2> QED BY <2>1, <2>2 DEF TypeOK, Quiet, io, meta
<1>2. ASSUME NEW c \in Cluster, NEW r \in Responses[c] \cup {Unanswered}, forwardMetadataRequest(c, r)
      PROVE  HInv'
  <2>1. /\ pc = "lb_wait" /\ fwd' = [fwd EXCEPT ![c] = r]
        /\ UNCHANGED <<pc, mode, target, io, reg, rounds, frame, bodyRead, sent, unread, answer, copy>>
    BY <1>2 DEF forwardMetadataRequest
  <2>2. /\ \A d \in Cluster : fwd'[d] \in Responses[d] \cup {Unanswered, Pending}
        /\ fwd' = [d \in Cluster |-> fwd'[d]]
    <3>1. fwd = [d \in Cluster |-> fwd[d]] /\ \A d \in Cluster : fwd[d] \in Responses[d] \cup {Unanswered, Pending}
      BY DEF Quiet, TypeOK
    <3>2. DOMAIN fwd = Cluster
      BY <3>1
    <3> QED BY <2>1, <3>1, <3>2
  <2> QED BY <2>1, <2>2 DEF TypeOK, Quiet, io
<1> QED BY <1>1, <1>2 DEF LoadBalance

LEMMA RouteStep ==
    ASSUME HInv, Route
    PROVE  HInv'
<1> USE DEF HInv
<1>1. CASE RouteRead
  BY <1>1 DEF TypeOK, Quiet, RouteRead, Goto, io, meta
<1>2. CASE RouteReadPanics
  BY <1>2 DEF TypeOK, Quiet, RouteReadPanics, Goto, io, meta
<1>3. CASE PoolGet
  BY <1>3 DEF TypeOK, Quiet, PoolGet, Goto, meta
<1>4. CASE RouteWrite
  BY <1>4 DEF TypeOK, Quiet, RouteWrite, Goto, io, meta
<1>5. CASE RouteResponse
  <2>1. /\ pc = "route_wait" /\ pc' \in {"route_reply", "return"}
        /\ UNCHANGED <<mode, target, io, reg, rounds, frame, meta, sent, unread, copy>>
        /\ answer' \in {answer, [NoAnswer EXCEPT !.kind = "partial"]}
    BY <1>5 DEF RouteResponse, Goto
  <2>2. answer'.kind \in {answer.kind, "partial"}
    BY <2>1, Answers
  <2> QED BY <2>1, <2>2 DEF TypeOK, Quiet, io, meta
<1>6. CASE RouteStream
  <2>1. /\ pc = "route_reply" /\ pc' = "pass" /\ StartCopying
        /\ UNCHANGED <<mode, target, io, reg, rounds, frame, meta, sent, unread>>
        /\ answer'.kind = "plain"
    BY <1>6, Answers DEF RouteStream, Goto
  <2> QED BY <2>1, Copying DEF TypeOK, Quiet, io, meta
<1>7. CASE RouteFails
  BY <1>7 DEF TypeOK, Quiet, RouteFails, Goto, io, meta
<1> QED BY <1>1, <1>2, <1>3, <1>4, <1>5, <1>6, <1>7 DEF Route

\* What the copy of the upstream's bytes makes of the answer.
LEMMA FirstInAnswers ==
    ASSUME NEW r, FirstIn(r)
    PROVE  \/ answer' = answer
           \/ answer = NoAnswer /\ answer'.kind \in {"stray", "raw", "plain"}
<1>1. \/ answer' = answer
      \/ answer = NoAnswer /\ answer' = [kind |-> "stray", resp |-> r]
      \/ answer = NoAnswer /\ answer' = [kind |-> "raw", resp |-> r]
      \/ answer = NoAnswer /\ answer' = [NoAnswer EXCEPT !.kind = "plain"]
  BY DEF FirstIn
<1>2. [kind |-> "stray", resp |-> r].kind = "stray" /\ [kind |-> "raw", resp |-> r].kind = "raw"
  OBVIOUS
<1> QED BY <1>1, <1>2, Answers

LEMMA CopyStep ==
    ASSUME HInv, Copy \/ \E d \in Direction : CopyEnds(d)
    PROVE  HInv'
<1> USE DEF HInv
<1>1. ASSUME NEW d \in Direction, CopyReads(d) PROVE HInv'
  <2>1. copy # Idle
    BY <1>1 DEF CopyReads, Idle
  <2> QED BY <1>1, <2>1 DEF TypeOK, Quiet, CopyReads, io, meta
<1>2. ASSUME NEW d \in Direction, NEW r \in Responses[target], CopyWrites(d, r) PROVE HInv'
  <2>1. /\ copy' = [copy EXCEPT ![d] = "read"] /\ copy[d] = "write"
        /\ UNCHANGED <<pc, mode, target, io, reg, rounds, frame, meta, unread>>
        /\ \/ FirstOut /\ UNCHANGED answer
           \/ FirstIn(r) /\ UNCHANGED sent
    BY <1>2 DEF CopyWrites
  <2>2. sent' \in {"nothing", "header", "whole", "half", "again"}
    BY <2>1 DEF FirstOut, TypeOK
  <2>3. /\ answer'.kind \in {"none", "plain", "partial", "raw", "rewritten", "synthetic", "stray"}
    BY <2>1, FirstInAnswers DEF TypeOK
  <2>4. copy # Idle
    BY <2>1 DEF Idle
  <2> QED BY <2>1, <2>2, <2>3, <2>4 DEF TypeOK, Quiet, io, meta
<1>3. ASSUME NEW d \in Direction, CopyEnds(d) PROVE HInv'
  <2>1. copy # Idle
    BY <1>3 DEF CopyEnds, Idle
  <2> QED BY <1>3, <2>1 DEF TypeOK, Quiet, CopyEnds, io, meta
<1> QED BY <1>1, <1>2, <1>3 DEF Copy

LEMMA EndStep ==
    ASSUME HInv, PassthroughEnds \/ Returns \/ ClientGone \/ UpstreamBreaks
    PROVE  HInv'
<1> USE DEF HInv
<1>1. CASE PassthroughEnds
  <2>1. /\ pc = "pass" /\ pc' = "return" /\ client' = "closed"
        /\ lease' \in {lease, "closed"} /\ up' \in {up, "closed"}
        /\ UNCHANGED <<mode, target, reg, rounds, frame, meta, sent, unread, answer, copy>>
    BY <1>1 DEF PassthroughEnds, CloseUpstream, Goto
  <2> QED BY <2>1 DEF TypeOK, Quiet, meta
<1>2. CASE Returns
  <2>1. /\ pc = "return" /\ pc' = "done" /\ client' = "closed" /\ reg' = FALSE
        /\ lease' \in {"none", "returned"} /\ up' \in {"none", "closed"}
        /\ UNCHANGED <<mode, target, rounds, frame, meta, sent, unread, answer, copy>>
    BY <1>2 DEF Returns, Goto
  <2>2. TypeOK'
    BY <2>1 DEF TypeOK, meta
  <2>3. Quiet'
    BY <2>1 DEF Quiet, meta
  <2> QED BY <2>2, <2>3
<1>3. CASE ClientGone
  BY <1>3 DEF TypeOK, Quiet, ClientGone, meta
<1>4. CASE UpstreamBreaks
  <2>1. /\ lease' \in {lease, "broken"} /\ up' \in {up, "broken"}
        /\ UNCHANGED <<pc, mode, target, client, reg, rounds, frame, meta, sent, unread, answer, copy>>
    BY <1>4 DEF UpstreamBreaks
  <2> QED BY <2>1 DEF TypeOK, Quiet, meta
<1> QED BY <1>1, <1>2, <1>3, <1>4

LEMMA StepHInv == HInv /\ [Next]_vars => HInv'
<1> SUFFICES ASSUME HInv, [Next]_vars PROVE HInv'
  OBVIOUS
<1>1. CASE UNCHANGED vars
  BY <1>1 DEF HInv, TypeOK, Quiet, vars, io, meta
<1>2. CASE Next
  <2>1. CASE Handler
    BY <2>1, ConnectStep, SaslStep, FirstFrameStep, ActivePassiveStep, LoadBalanceStep, RouteStep, EndStep DEF Handler
  <2> QED BY <1>2, <2>1, ConnectStep, SaslStep, CopyStep, EndStep DEF Next
<1> QED BY <1>1, <1>2

\* The inductive invariant.
THEOREM HandlerInvariance == Spec => []HInv
BY InitHInv, StepHInv, PTL DEF Spec

\* Every variable keeps its type: the SASL rounds stay bounded, and what is
\* stored for a cluster is a response of that cluster.
THEOREM HandlerTypeCorrect == Spec => []TypeOK
<1>1. HInv => TypeOK
  BY DEF HInv
<1> QED BY <1>1, HandlerInvariance, PTL

\* Only the merge writes a synthetic answer, and nothing touches the responses
\* it was made of afterwards.
LEMMA MergeStep ==
    ASSUME ClustersWellFormed, HInv, MergeFaithful, [Next]_vars
    PROVE  MergeFaithful'
<1> USE DEF HInv
<1>1. CASE UNCHANGED answer /\ (answer = NoAnswer \/ UNCHANGED fwd)
  BY <1>1, Answers DEF MergeFaithful
<1>2. CASE answer'.kind # "synthetic"
  BY <1>2 DEF MergeFaithful
<1>3. CASE handleMetadataLoadBalance
  <2>1. /\ \A c \in Cluster : fwd[c] # Pending
        /\ fwd' = fwd /\ pc = "lb_wait"
        /\ UNCHANGED answer \/ answer' = LoadBalanceAnswer(fwd["primary"], fwd["secondary"])
    BY <1>3 DEF handleMetadataLoadBalance, meta
  <2>2. CASE UNCHANGED answer
    BY <1>1, <2>1, <2>2 DEF Quiet
  <2>3. CASE answer' = LoadBalanceAnswer(fwd["primary"], fwd["secondary"]) /\ answer'.kind = "synthetic"
    <3> DEFINE p == fwd["primary"]
               s == fwd["secondary"]
               a == SynthesizeMetadataResponse(p, s)
    <3>1. /\ p \in Response \cup {Unanswered} /\ s \in Response \cup {Unanswered}
          /\ p \in Responses["primary"] \cup {Unanswered} /\ s \in Responses["secondary"] \cup {Unanswered}
      BY <2>1, BothEnded DEF Cluster
    <3>2. answer'.resp = a /\ a # Failure /\ TopicsParse(p)
      BY <2>3, <3>1, LoadBalanceAnswers
    <3>3. WellFormed(p) /\ (TopicsParse(s) => WellFormed(s))
      <4>1. ~TopicsParse(Unanswered)
        BY DEF TopicsParse, Unanswered
      <4> QED BY <3>1, <3>2, <4>1 DEF ClustersWellFormed, Cluster
    <3>4. OnlyProxy(a) /\ Merges(p, s, a)
      BY <3>1, <3>2, SynthesizedResponse
    <3> HIDE DEF a
    <3> QED BY <2>1, <3>2, <3>3, <3>4 DEF Merges, MergeFaithful
  <2> QED BY <1>2, <2>1, <2>2, <2>3
<1>4. ASSUME NEW r, handleMetadataActivePassive(r) PROVE answer'.kind # "synthetic"
  BY <1>4 DEF handleMetadataActivePassive
<1>5. ASSUME NEW d, NEW r, CopyWrites(d, r) PROVE MergeFaithful'
  <2>1. UNCHANGED fwd /\ (UNCHANGED answer \/ FirstIn(r))
    BY <1>5 DEF CopyWrites, meta
  <2>2. UNCHANGED answer \/ answer'.kind # "synthetic"
    BY <2>1, FirstInAnswers
  <2> QED BY <1>1, <1>2, <2>1, <2>2
<1>6. CASE RouteResponse \/ RouteStream
  <2>1. UNCHANGED fwd /\ (UNCHANGED answer \/ answer'.kind # "synthetic")
    BY <1>6, Answers DEF RouteResponse, RouteStream, meta
  <2> QED BY <1>1, <1>2, <2>1
<1>7. CASE UNCHANGED vars
  BY <1>1, <1>7 DEF vars, meta
<1>8. CASE \/ \E m \in Modes : Accept(m)
           \/ \E k \in Frame : ReadFrame(k)
           \/ Connect \/ Sasl \/ Decide \/ Metadata \/ ApWrite \/ ApFails \/ ApRefuses \/ Forward
           \/ \E c \in Cluster : \E r \in Responses[c] \cup {Unanswered} : forwardMetadataRequest(c, r)
           \/ RouteRead \/ RouteReadPanics \/ PoolGet \/ RouteWrite \/ RouteFails
           \/ \E d \in Direction : CopyReads(d) \/ CopyEnds(d)
           \/ PassthroughEnds \/ Returns \/ ClientGone \/ UpstreamBreaks
  <2>1. UNCHANGED answer /\ (pc \in {"body", "lb_wait"} \/ UNCHANGED fwd)
    BY <1>8 DEF Accept, ReadFrame, Connect, Register, dialUpstream, Sasl, ReadFrameFails, SaslResponse, Decide,
                Metadata, ReadBody, ReadBodyPanics, Reply, ApWrite, ApFails, ApRefuses, Forward,
                forwardMetadataRequest, RouteRead, RouteReadPanics, PoolGet, RouteWrite, RouteFails,
                CopyReads, CopyEnds, PassthroughEnds, Returns, ClientGone, UpstreamBreaks, meta
  <2> QED BY <1>1, <2>1 DEF Quiet
<1> QED BY <1>2, <1>3, <1>4, <1>5, <1>6, <1>7, <1>8 DEF Next, Handler, ActivePassive, LoadBalance, Route, Copy

\* For responses of any length that list nothing twice and no leader that is
\* not listed: the merged answer does so too, every broker in it has the proxy's
\* address, and it has the topics and nodes of every cluster that answered, the
\* primary's version of what both have.
THEOREM HandlerMergeFaithful ==
    ASSUME ClustersWellFormed
    PROVE  Spec => []MergeFaithful
<1>1. Init => MergeFaithful
  BY Answers DEF Init, MergeFaithful
<1>2. HInv /\ MergeFaithful /\ [Next]_vars => MergeFaithful'
  BY MergeStep
<1> QED BY <1>1, <1>2, HandlerInvariance, PTL DEF Spec
=============================================================================
