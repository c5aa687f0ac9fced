------------------------ MODULE ConnectionPool_proofs ------------------------
(***************************************************************************)
(* Proofs about ConnectionPool, for every pool size and every finite set   *)
(* of request handlers: the semaphore counts exactly the connections in    *)
(* existence, and therefore neither Put nor the cleanup ever blocks.       *)
(***************************************************************************)
EXTENDS ConnectionPool, FiniteSetTheorems, SequenceTheorems, TLAPS

\* The owners of a slot are finitely many.
LEMMA HoldersFinite ==
    ASSUME NEW p
    PROVE  IsFiniteSet(HoldersIn(p)) /\ Cardinality(HoldersIn(p)) \in Nat
<1>1. IsFiniteSet(Goroutine)
  BY ClientAssumption, FS_AddElement DEF Goroutine
<1>2. HoldersIn(p) \in SUBSET Goroutine
  BY DEF HoldersIn
<1> QED BY <1>1, <1>2, FS_Subset, FS_CardinalityType

\* Moving one goroutine changes the number of owners by what it gains or loses.
LEMMA HoldersMove ==
    ASSUME NEW p \in [Goroutine -> PC], NEW g \in Goroutine, NEW v \in PC
    PROVE  LET old == Cardinality(HoldersIn(p))
               new == Cardinality(HoldersIn([p EXCEPT ![g] = v]))
           IN  /\ (p[g] \in SlotPC <=> v \in SlotPC) => new = old
               /\ p[g] \notin SlotPC /\ v \in SlotPC => new = old + 1
               /\ p[g] \in SlotPC /\ v \notin SlotPC => new = old - 1
<1> DEFINE q == [p EXCEPT ![g] = v]
<1>1. IsFiniteSet(HoldersIn(p))
  BY HoldersFinite
<1>2. (p[g] \in SlotPC <=> v \in SlotPC) => HoldersIn(q) = HoldersIn(p)
  BY DEF HoldersIn
<1>3. p[g] \notin SlotPC /\ v \in SlotPC =>
        HoldersIn(q) = HoldersIn(p) \cup {g} /\ g \notin HoldersIn(p)
  BY DEF HoldersIn
<1>4. p[g] \in SlotPC /\ v \notin SlotPC =>
        HoldersIn(q) = HoldersIn(p) \ {g} /\ g \in HoldersIn(p)
  BY DEF HoldersIn
<1> HIDE DEF q
<1>5. p[g] \notin SlotPC /\ v \in SlotPC => Cardinality(HoldersIn(q)) = Cardinality(HoldersIn(p)) + 1
  BY <1>1, <1>3, FS_AddElement
<1>6. p[g] \in SlotPC /\ v \notin SlotPC => Cardinality(HoldersIn(q)) = Cardinality(HoldersIn(p)) - 1
  BY <1>1, <1>4, FS_RemoveElement
<1> QED BY <1>2, <1>5, <1>6 DEF q

\* A goroutine that owns a slot is counted.
LEMMA HoldersPositive ==
    ASSUME NEW g \in Goroutine, pc[g] \in SlotPC
    PROVE  Cardinality(Holders) >= 1
<1>1. Holders # {}
  BY DEF Holders, HoldersIn
<1> QED BY <1>1, HoldersFinite, FS_EmptySet DEF Holders

LEMMA ReceivedType ==
    ASSUME NEW c \in Conn
    PROVE  ReceivedPC(c) \in SlotPC
BY DEF ReceivedPC, SlotPC

LEMMA NewConnType == NewConn \in Conn
BY DEF NewConn, Conn

LEMMA InitIInv == Init => IInv
<1> SUFFICES ASSUME Init PROVE IInv
  OBVIOUS
<1>1. TypeOK
  BY SizeAssumption, NewConnType, EmptySeq DEF Init, TypeOK, PC
<1>2. Holders = {}
  BY DEF Init, Holders, HoldersIn, SlotPC
<1>3. SlotsAccounted
  BY <1>2, FS_EmptySet DEF Init, SlotsAccounted
<1>4. QueueOK
  BY DEF Init, QueueOK
<1> QED BY <1>1, <1>3, <1>4 DEF IInv

\* A goroutine that neither waits nor begins to leaves the queue in order.
LEMMA QueueKept ==
    ASSUME IInv, NEW g \in Goroutine, NEW v \in PC, pc[g] # "wait",
           pc' = [pc EXCEPT ![g] = v], UNCHANGED waitq
    PROVE  QueueOK' /\ pc' \in [Goroutine -> PC]
<1>1. pc' \in [Goroutine -> PC]
  BY DEF IInv, TypeOK
<1>2. \A i \in 1..Len(waitq) : waitq[i] \in Goroutine
  BY LenProperties DEF IInv, TypeOK
<1>3. \A i \in 1..Len(waitq) : pc'[waitq[i]] = pc[waitq[i]]
  BY <1>2 DEF IInv, TypeOK, QueueOK
<1> QED BY <1>1, <1>3 DEF IInv, QueueOK

\* Steps in which a goroutine moves and touches neither channel nor queue:
\* the slots are adjusted by what the step gains or loses.
LEMMA MoveIInv ==
    ASSUME IInv, NEW g \in Goroutine, NEW v \in PC, pc[g] # "wait",
           pc' = [pc EXCEPT ![g] = v], UNCHANGED <<idle, waitq, batch, cpc>>,
           has' \in [Goroutine -> Conn], sem' \in 0..MaxSize,
           \/ (pc[g] \in SlotPC <=> v \in SlotPC) /\ sem' = sem
           \/ pc[g] \notin SlotPC /\ v \in SlotPC /\ sem' = sem + 1
           \/ pc[g] \in SlotPC /\ v \notin SlotPC /\ sem' = sem - 1
    PROVE  IInv'
<1>1. QueueOK' /\ pc' \in [Goroutine -> PC]
  BY QueueKept
<1>2. TypeOK'
  BY <1>1 DEF IInv, TypeOK
<1>3. SlotsAccounted'
  <2>1. pc \in [Goroutine -> PC] /\ Len(idle) \in Nat /\ Len(batch) \in Nat
    BY LenProperties DEF IInv, TypeOK
  <2>2. Cardinality(HoldersIn(pc)) \in Nat
    BY HoldersFinite
  <2>3. Holders' = HoldersIn([pc EXCEPT ![g] = v])
    BY DEF Holders, HoldersIn
  <2>4. Cardinality(Holders') = Cardinality(Holders) + (sem' - sem)
    <3> DEFINE old == Cardinality(HoldersIn(pc))
               new == Cardinality(HoldersIn([pc EXCEPT ![g] = v]))
    <3>1. /\ (pc[g] \in SlotPC <=> v \in SlotPC) => new = old
          /\ pc[g] \notin SlotPC /\ v \in SlotPC => new = old + 1
          /\ pc[g] \in SlotPC /\ v \notin SlotPC => new = old - 1
      BY <2>1, HoldersMove
    <3>2. Cardinality(Holders') = new /\ Cardinality(Holders) = old /\ old \in Nat
      BY <2>2, <2>3 DEF Holders
    <3>3. sem \in Nat /\ sem' \in Nat
      BY SizeAssumption DEF IInv, TypeOK
    <3> HIDE DEF old, new
    <3> QED BY <3>1, <3>2, <3>3
  <2>5. sem = Len(idle) + Len(batch) + Cardinality(Holders) /\ sem \in Nat /\ sem' \in Nat
    BY SizeAssumption DEF IInv, TypeOK, SlotsAccounted
  <2>6. Cardinality(Holders) \in Nat
    BY <2>2 DEF Holders
  <2>7. sem' = Len(idle) + Len(batch) + Cardinality(Holders')
    BY <2>1, <2>4, <2>5, <2>6, SMTT(20)
  <2> QED BY <2>7 DEF SlotsAccounted
<1> QED BY <1>1, <1>2, <1>3 DEF IInv

LEMMA ReceiveIInv ==
    ASSUME IInv, NEW g \in Goroutine, pc[g] \in {"try_idle", "block"}, Receive(g)
    PROVE  IInv'
<1>1. /\ Head(idle) \in Conn /\ Tail(idle) \in Seq(Conn)
      /\ Len(Tail(idle)) = Len(idle) - 1
      /\ Len(idle) \in Nat /\ Len(batch) \in Nat
  BY HeadTailProperties, LenProperties DEF IInv, TypeOK, Receive
<1>2. ReceivedPC(Head(idle)) \in SlotPC /\ ReceivedPC(Head(idle)) \in PC
  BY <1>1, ReceivedType DEF PC
<1>3. QueueOK' /\ pc' \in [Goroutine -> PC]
  <2>1. PICK v \in PC : v = ReceivedPC(Head(idle))
    BY <1>2
  <2> QED BY <2>1, QueueKept DEF Receive
<1>4. TypeOK'
  BY <1>1, <1>3 DEF IInv, TypeOK, Receive
<1>5. SlotsAccounted'
  <2>1. pc \in [Goroutine -> PC] /\ pc[g] \notin SlotPC
    BY DEF IInv, TypeOK, SlotPC
  <2>2. Cardinality(HoldersIn(pc)) \in Nat
    BY HoldersFinite
  <2>3. Holders' = HoldersIn([pc EXCEPT ![g] = ReceivedPC(Head(idle))])
    BY DEF Holders, HoldersIn, Receive
  <2>4. Cardinality(Holders') = Cardinality(HoldersIn(pc)) + 1
    BY <1>2, <2>1, <2>3, HoldersMove
  <2> QED BY <1>1, <2>2, <2>4 DEF IInv, SlotsAccounted, Holders, Receive
<1> QED BY <1>3, <1>4, <1>5 DEF IInv

LEMMA GetIInv ==
    ASSUME IInv, NEW g \in Goroutine,
           GetBegin(g) \/ TryIdle(g) \/ TrySlot(g) \/ Dial(g) \/ FreeSlot(g)
    PROVE  IInv'
<1>1. sem \in 0..MaxSize /\ has \in [Goroutine -> Conn] /\ MaxSize \in Nat
  BY SizeAssumption DEF IInv, TypeOK
<1>2. CASE GetBegin(g)
  BY <1>1, <1>2, MoveIInv DEF GetBegin, PC, SlotPC
<1>3. CASE TryIdle(g)
  <2>1. CASE Receive(g)
    BY <1>3, <2>1, ReceiveIInv DEF TryIdle
  <2>2. CASE ~Receive(g)
    BY <1>1, <1>3, <2>2, MoveIInv DEF TryIdle, PC, SlotPC
  <2> QED BY <2>1, <2>2
<1>4. CASE TrySlot(g)
  <2>1. CASE sem < MaxSize
    BY <1>1, <1>4, <2>1, MoveIInv DEF TrySlot, PC, SlotPC
  <2>2. CASE ~(sem < MaxSize)
    BY <1>1, <1>4, <2>2, MoveIInv DEF TrySlot, PC, SlotPC
  <2> QED BY <2>1, <2>2
<1>5. CASE Dial(g)
  <2>1. has' \in [Goroutine -> Conn]
    BY <1>1, <1>5, NewConnType DEF Dial
  <2> QED BY <1>1, <1>5, <2>1, MoveIInv DEF Dial, PC, SlotPC
<1>6. CASE FreeSlot(g)
  <2>1. has' \in [Goroutine -> Conn] /\ sem' \in 0..MaxSize
    BY <1>1, <1>6, NewConnType DEF FreeSlot
  <2>2. CASE pc[g] = "giveup"
    BY <1>1, <1>6, <2>1, <2>2, MoveIInv DEF FreeSlot, PC, SlotPC
  <2>3. CASE pc[g] = "discard"
    BY <1>1, <1>6, <2>1, <2>3, MoveIInv DEF FreeSlot, PC, SlotPC
  <2> QED BY <1>6, <2>2, <2>3 DEF FreeSlot
<1> QED BY <1>2, <1>3, <1>4, <1>5, <1>6

LEMMA BlockIInv ==
    ASSUME IInv, NEW g \in Goroutine, Block(g)
    PROVE  IInv'
<1>1. CASE Receive(g)
  BY <1>1, ReceiveIInv DEF Block
<1>2. CASE ~Receive(g)
  <2>1. /\ pc[g] = "block" /\ waitq' = Append(waitq, g)
        /\ pc' = [pc EXCEPT ![g] = "wait"]
        /\ UNCHANGED <<idle, sem, has, cpc, batch>>
    BY <1>2 DEF Block
  <2>2. pc \in [Goroutine -> PC] /\ waitq \in Seq(Goroutine)
    BY DEF IInv, TypeOK
  <2>3. /\ waitq' \in Seq(Goroutine) /\ Len(waitq') = Len(waitq) + 1 /\ Len(waitq) \in Nat
        /\ \A i \in 1..Len(waitq) : waitq'[i] = waitq[i] /\ waitq[i] \in Goroutine
        /\ waitq'[Len(waitq) + 1] = g
    BY <2>1, <2>2, AppendProperties, LenProperties
  <2>4. \A i \in 1..Len(waitq) : waitq[i] # g
    BY <2>1 DEF IInv, QueueOK
  <2>5. QueueOK'
    <3>1. \A i \in 1..Len(waitq') : i \in 1..Len(waitq) \/ i = Len(waitq) + 1
      BY <2>3
    <3>2. \A i \in 1..Len(waitq') : pc'[waitq'[i]] = "wait"
      BY <2>1, <2>2, <2>3, <3>1 DEF IInv, QueueOK
    <3>3. \A i, j \in 1..Len(waitq') : waitq'[i] = waitq'[j] => i = j
      BY <2>3, <2>4, <3>1 DEF IInv, QueueOK
    <3> QED BY <3>2, <3>3 DEF QueueOK
  <2>6. TypeOK'
    BY <2>1, <2>2, <2>3 DEF IInv, TypeOK, PC
  <2>7. SlotsAccounted'
    <3>1. Holders' = Holders
      BY <2>1, <2>2 DEF Holders, HoldersIn, SlotPC
    <3> QED BY <2>1, <3>1 DEF IInv, SlotsAccounted
  <2> QED BY <2>5, <2>6, <2>7 DEF IInv
<1> QED BY <1>1, <1>2

LEMMA UseIInv ==
    ASSUME IInv,
           (\E g \in Goroutine : RouteEnds(g) \/ PutBegin(g)) \/ Probe \/ ReleaseSem
    PROVE  IInv'
<1>1. sem \in 0..MaxSize /\ has \in [Goroutine -> Conn] /\ MaxSize \in Nat
  BY SizeAssumption DEF IInv, TypeOK
<1>2. "health" \in Goroutine
  BY DEF Goroutine
<1>3. ASSUME NEW g \in Goroutine, RouteEnds(g)
      PROVE  IInv'
  <2>1. has' \in [Goroutine -> Conn]
    BY <1>1, <1>3, NewConnType DEF RouteEnds
  <2> QED BY <1>1, <1>3, <2>1, MoveIInv DEF RouteEnds, PC, SlotPC
<1>4. ASSUME NEW g \in Goroutine, PutBegin(g)
      PROVE  IInv'
  <2>1. has' \in [Goroutine -> Conn]
    BY <1>1, <1>4 DEF PutBegin, Conn
  <2> QED BY <1>1, <1>4, <2>1, MoveIInv DEF PutBegin, PC, SlotPC
<1>5. CASE Probe
  <2>1. has' \in [Goroutine -> Conn]
    BY <1>1, <1>2, <1>5, NewConnType DEF Probe, ProbePasses, ProbeFails
  <2>2. CASE ProbePasses
    BY <1>1, <1>2, <2>1, <2>2, MoveIInv DEF ProbePasses, PC, SlotPC
  <2>3. CASE ProbeFails
    BY <1>1, <1>2, <2>1, <2>3, MoveIInv DEF ProbeFails, PC, SlotPC
  <2> QED BY <1>5, <2>2, <2>3 DEF Probe
<1>6. CASE ReleaseSem
  <2>1. sem > 0
    <3>1. Cardinality(Holders) >= 1
      BY <1>2, <1>6, HoldersPositive DEF ReleaseSem, SlotPC
    <3>2. Cardinality(Holders) \in Nat /\ Len(idle) \in Nat /\ Len(batch) \in Nat
      BY HoldersFinite, LenProperties DEF IInv, TypeOK, Holders
    <3> QED BY <3>1, <3>2 DEF IInv, SlotsAccounted
  <2>2. sem' = sem - 1 /\ sem' \in 0..MaxSize
    BY <1>1, <1>6, <2>1 DEF ReleaseSem
  <2>3. /\ pc["health"] = "release" /\ pc' = [pc EXCEPT !["health"] = "rest"]
        /\ UNCHANGED <<idle, waitq, has, cpc, batch>>
    BY <1>6 DEF ReleaseSem
  <2>4. "rest" \in PC \ SlotPC /\ pc["health"] \in SlotPC
    BY <2>3 DEF PC, SlotPC
  <2> QED BY <1>1, <1>2, <2>2, <2>3, <2>4, MoveIInv
<1> QED BY <1>3, <1>4, <1>5, <1>6

\* Sending connection c, which gives up a slot of the sender's, keeps the count:
\* it goes into the buffer, or to a waiting goroutine that now owns the slot.
LEMMA SendKeeps ==
    ASSUME IInv, NEW c \in Conn, NEW p \in [Goroutine -> PC],
           NEW h \in [Goroutine -> Conn], SendOn(c, p, h),
           \A g \in Goroutine : pc[g] = "wait" => p[g] = "wait"
    PROVE  /\ QueueOK' /\ pc' \in [Goroutine -> PC] /\ has' \in [Goroutine -> Conn]
           /\ waitq' \in Seq(Goroutine) /\ idle' \in Seq(Conn)
           /\ Len(idle') + Cardinality(Holders')
                = Len(idle) + Cardinality(HoldersIn(p)) + 1
<1>1. /\ waitq \in Seq(Goroutine) /\ idle \in Seq(Conn) /\ Len(idle) \in Nat
      /\ Cardinality(HoldersIn(p)) \in Nat
      /\ \A i \in 1..Len(waitq) : waitq[i] \in Goroutine
  BY HoldersFinite, LenProperties DEF IInv, TypeOK
<1>2. CASE waitq # << >>
  <2> DEFINE w == Head(waitq)
  <2>1. /\ w \in Goroutine /\ Tail(waitq) \in Seq(Goroutine) /\ Len(waitq) \in Nat \ {0}
        /\ Len(Tail(waitq)) = Len(waitq) - 1 /\ w = waitq[1]
        /\ \A i \in 1..Len(Tail(waitq)) : Tail(waitq)[i] = waitq[i + 1]
    BY <1>1, <1>2, HeadTailProperties, EmptySeq
  <2>2. /\ waitq' = Tail(waitq) /\ UNCHANGED idle
        /\ pc' = [p EXCEPT ![w] = ReceivedPC(c)] /\ has' = [h EXCEPT ![w] = c]
    BY <1>2 DEF SendOn
  <2>3. ReceivedPC(c) \in SlotPC /\ ReceivedPC(c) \in PC
    BY ReceivedType DEF PC
  <2>4. p[w] = "wait" /\ p[w] \notin SlotPC
    BY <2>1 DEF IInv, QueueOK, SlotPC
  <2> HIDE DEF w
  <2>5. pc' \in [Goroutine -> PC] /\ has' \in [Goroutine -> Conn]
    BY <2>1, <2>2, <2>3
  <2>6. QueueOK'
    <3>1. \A i \in 1..Len(Tail(waitq)) : i + 1 \in 1..Len(waitq) /\ i + 1 # 1
      BY <2>1
    <3>2. \A i \in 1..Len(waitq) : p[waitq[i]] = "wait"
      BY <1>1 DEF IInv, QueueOK
    <3>3. \A i \in 1..Len(waitq') : waitq'[i] # w /\ waitq'[i] \in Goroutine /\ p[waitq'[i]] = "wait"
      BY <1>1, <2>1, <2>2, <3>1, <3>2 DEF IInv, QueueOK
    <3>4. \A i \in 1..Len(waitq') : pc'[waitq'[i]] = "wait"
      BY <2>2, <3>3
    <3>5. \A i, j \in 1..Len(waitq') : waitq'[i] = waitq'[j] => i = j
      BY <2>1, <2>2, <3>1 DEF IInv, QueueOK
    <3> QED BY <3>4, <3>5 DEF QueueOK
  <2>7. Cardinality(Holders') = Cardinality(HoldersIn(p)) + 1
    <3>1. Holders' = HoldersIn([p EXCEPT ![w] = ReceivedPC(c)])
      BY <2>2 DEF Holders, HoldersIn
    <3> QED BY <2>1, <2>3, <2>4, <3>1, HoldersMove
  <2>8. Len(idle') + Cardinality(Holders') = Len(idle) + Cardinality(HoldersIn(p)) + 1
    BY <1>1, <2>2, <2>7
  <2> QED BY <1>1, <2>1, <2>2, <2>5, <2>6, <2>8
<1>3. CASE waitq = << >>
  <2>1. UNCHANGED waitq /\ idle' = Append(idle, c) /\ pc' = p /\ has' = h
    BY <1>3 DEF SendOn
  <2>2. idle' \in Seq(Conn) /\ Len(idle') = Len(idle) + 1
    BY <1>1, <2>1, AppendProperties
  <2>3. QueueOK'
    BY <1>3, <2>1 DEF QueueOK
  <2>4. Holders' = HoldersIn(p)
    BY <2>1 DEF Holders, HoldersIn
  <2>5. Len(idle') + Cardinality(Holders') = Len(idle) + Cardinality(HoldersIn(p)) + 1
    BY <1>1, <2>2, <2>4
  <2> QED BY <1>1, <2>1, <2>2, <2>3, <2>5
<1> QED BY <1>2, <1>3

LEMMA PutSendIInv ==
    ASSUME IInv, NEW g \in Goroutine, PutSend(g)
    PROVE  IInv'
<1>1. /\ has[g] \in Conn /\ has \in [Goroutine -> Conn]
      /\ pc \in [Goroutine -> PC] /\ pc[g] = "send"
      /\ Len(idle) \in Nat /\ Len(batch) \in Nat
  BY LenProperties DEF IInv, TypeOK, PutSend
<1>2. PICK c \in Conn : c = has[g]
  BY <1>1
<1>3. PICK p \in [Goroutine -> PC] : p = [pc EXCEPT ![g] = "rest"]
  BY <1>1 DEF PC
<1>4. PICK h \in [Goroutine -> Conn] : h = [has EXCEPT ![g] = NewConn]
  BY <1>1, NewConnType
<1>5. \A k \in Goroutine : pc[k] = "wait" => p[k] = "wait"
  BY <1>1, <1>3
<1>6. SendOn(c, p, h) /\ UNCHANGED <<sem, cpc, batch>>
  BY <1>2, <1>3, <1>4 DEF PutSend
<1>7. Cardinality(HoldersIn(p)) = Cardinality(HoldersIn(pc)) - 1
  <2>1. "rest" \in PC /\ "rest" \notin SlotPC /\ pc[g] \in SlotPC
    BY <1>1 DEF PC, SlotPC
  <2> QED BY <1>1, <1>3, <2>1, HoldersMove
<1>8. /\ QueueOK' /\ pc' \in [Goroutine -> PC] /\ has' \in [Goroutine -> Conn]
      /\ waitq' \in Seq(Goroutine) /\ idle' \in Seq(Conn)
      /\ Len(idle') + Cardinality(Holders') = Len(idle) + Cardinality(HoldersIn(p)) + 1
  BY <1>5, <1>6, SendKeeps
<1>9. TypeOK'
  BY <1>6, <1>8 DEF IInv, TypeOK
<1>10. SlotsAccounted'
  <2>1. Len(idle') \in Nat /\ Cardinality(Holders') \in Nat /\ Cardinality(HoldersIn(pc)) \in Nat
    BY <1>8, LenProperties, HoldersFinite DEF Holders
  <2> QED BY <1>1, <1>6, <1>7, <1>8, <2>1, SMTT(20) DEF IInv, SlotsAccounted, Holders
<1> QED BY <1>8, <1>9, <1>10 DEF IInv

\* A connection that leaves one place for another keeps the sum.
LEMMA Transfer ==
    ASSUME NEW a \in Nat, NEW b \in Nat, NEW c \in Nat,
           NEW a1 \in Nat, NEW b1 \in Int, NEW c1 \in Nat,
           b1 = b - 1, a1 + c1 = a + c + 1
    PROVE  a1 + b1 + c1 = a + b + c
OBVIOUS

LEMMA CleanupIInv ==
    ASSUME IInv, CleanupBegin \/ Cleanup
    PROVE  IInv'
<1>1. /\ idle \in Seq(Conn) /\ batch \in Seq(Conn) /\ sem \in 0..MaxSize
      /\ pc \in [Goroutine -> PC] /\ has \in [Goroutine -> Conn] /\ MaxSize \in Nat
      /\ Len(idle) \in Nat /\ Len(batch) \in Nat /\ Cardinality(HoldersIn(pc)) \in Nat
  BY SizeAssumption, LenProperties, HoldersFinite DEF IInv, TypeOK
<1>2. batch # << >> => /\ Head(batch) \in Conn /\ Tail(batch) \in Seq(Conn)
                       /\ Len(Tail(batch)) = Len(batch) - 1
  BY <1>1, HeadTailProperties
<1>3. UNCHANGED <<waitq, pc>> => QueueOK' /\ Holders' = Holders
  BY DEF IInv, QueueOK, Holders, HoldersIn
<1>4. CASE CleanupBegin \/ CleanupEnd
  BY <1>3, <1>4 DEF CleanupBegin, CleanupEnd, IInv, TypeOK, SlotsAccounted
<1>5. CASE CleanupDrain
  <2>1. CASE idle = << >>
    BY <1>3, <1>5, <2>1 DEF CleanupDrain, IInv, TypeOK, SlotsAccounted
  <2>2. CASE idle # << >>
    <3>1. /\ Head(idle) \in Conn /\ Tail(idle) \in Seq(Conn) /\ Len(Tail(idle)) = Len(idle) - 1
      BY <1>1, <2>2, HeadTailProperties
    <3>2. Append(batch, Head(idle)) \in Seq(Conn) /\ Len(Append(batch, Head(idle))) = Len(batch) + 1
      BY <1>1, <3>1, AppendProperties
    <3>3. TypeOK'
      BY <1>5, <2>2, <3>1, <3>2 DEF CleanupDrain, IInv, TypeOK
    <3>4. SlotsAccounted'
      <4>1. /\ Len(idle') = Len(idle) - 1 /\ Len(batch') = Len(batch) + 1
            /\ sem' = sem /\ Holders' = Holders
        BY <1>3, <1>5, <2>2, <3>1, <3>2 DEF CleanupDrain
      <4>2. /\ sem = Len(idle) + Len(batch) + Cardinality(Holders)
            /\ Cardinality(Holders) \in Nat /\ Len(idle) \in Nat /\ Len(batch) \in Nat
        BY <1>1 DEF IInv, SlotsAccounted, Holders
      <4> QED BY <4>1, <4>2 DEF SlotsAccounted
    <3> QED BY <1>3, <1>5, <3>3, <3>4 DEF CleanupDrain, IInv
  <2> QED BY <2>1, <2>2
<1>6. CASE CleanupClose
  <2>1. TypeOK'
    BY <1>1, <1>2, <1>6 DEF CleanupClose, IInv, TypeOK
  <2>2. SlotsAccounted'
    <3>1. /\ Len(batch') = Len(batch) - 1 /\ sem' = sem - 1 /\ idle' = idle
          /\ Holders' = Holders
      BY <1>2, <1>3, <1>6 DEF CleanupClose
    <3>2. sem = Len(idle) + Len(batch) + Cardinality(Holders) /\ Cardinality(Holders) \in Nat
      BY <1>1 DEF IInv, SlotsAccounted, Holders
    <3> QED BY <1>1, <3>1, <3>2 DEF SlotsAccounted
  <2> QED BY <1>3, <1>6, <2>1, <2>2 DEF CleanupClose, IInv
<1>7. CASE CleanupKeep
  <2>1. PICK c \in Conn : c = Head(batch)
    BY <1>2, <1>7 DEF CleanupKeep
  <2>2. PICK p \in [Goroutine -> PC] : p = pc
    BY <1>1
  <2>3. PICK h \in [Goroutine -> Conn] : h = has
    BY <1>1
  <2>4. SendOn(c, p, h) /\ batch' = Tail(batch) /\ UNCHANGED <<sem, cpc>>
    BY <1>7, <2>1, <2>2, <2>3 DEF CleanupKeep
  <2>5. /\ QueueOK' /\ pc' \in [Goroutine -> PC] /\ has' \in [Goroutine -> Conn]
        /\ waitq' \in Seq(Goroutine) /\ idle' \in Seq(Conn)
        /\ Len(idle') + Cardinality(Holders') = Len(idle) + Cardinality(HoldersIn(p)) + 1
    BY <2>2, <2>4, SendKeeps
  <2>6. TypeOK'
    BY <1>2, <1>7, <2>4, <2>5 DEF CleanupKeep, IInv, TypeOK
  <2>7. SlotsAccounted'
    <3>1. Len(idle') \in Nat /\ Cardinality(Holders') \in Nat
      BY <2>5, LenProperties, HoldersFinite DEF Holders
    <3>2. Len(batch') = Len(batch) - 1
      BY <1>2, <1>7, <2>4 DEF CleanupKeep
    <3>3. Len(idle') + Cardinality(Holders') = Len(idle) + Cardinality(HoldersIn(pc)) + 1
      BY <2>2, <2>5
    <3>4. sem = Len(idle) + Len(batch) + Cardinality(HoldersIn(pc)) /\ sem' = sem
      BY <2>4 DEF IInv, SlotsAccounted, Holders
    <3>5. Len(idle') + Len(batch') + Cardinality(Holders')
            = Len(idle) + Len(batch) + Cardinality(HoldersIn(pc))
      <4>1. Len(batch') \in Int
        BY <1>1, <3>2
      <4>2. Len(idle) \in Nat /\ Len(batch) \in Nat /\ Cardinality(HoldersIn(pc)) \in Nat
        BY <1>1
      <4>3. PICK a \in Nat, b \in Nat, c0 \in Nat :
              a = Len(idle) /\ b = Len(batch) /\ c0 = Cardinality(HoldersIn(pc))
        BY <4>2
      <4>4. PICK a1 \in Nat, b1 \in Int, c1 \in Nat :
              a1 = Len(idle') /\ b1 = Len(batch') /\ c1 = Cardinality(Holders')
        BY <3>1, <4>1
      <4>5. b1 = b - 1 /\ a1 + c1 = a + c0 + 1
        BY <3>2, <3>3, <4>3, <4>4
      <4>6. a1 + b1 + c1 = a + b + c0
        BY <4>5, Transfer
      <4> QED BY <4>3, <4>4, <4>6
    <3> QED BY <3>4, <3>5 DEF SlotsAccounted
  <2> QED BY <2>5, <2>6, <2>7 DEF IInv
<1> QED BY <1>4, <1>5, <1>6, <1>7 DEF Cleanup

\* What the world does to an idle connection changes no count.
LEMMA WorldIInv ==
    ASSUME IInv, NEW i \in DOMAIN idle, Ages(i)
    PROVE  IInv'
<1>1. idle \in Seq(Conn) /\ i \in 1..Len(idle) /\ idle[i] \in Conn
  BY LenProperties DEF IInv, TypeOK
<1>2. PICK c \in Conn : idle' = [idle EXCEPT ![i] = c]
  BY <1>1 DEF Ages, Conn
<1>3. idle' \in Seq(Conn) /\ Len(idle') = Len(idle)
  BY <1>1, <1>2, ExceptSeq
<1>4. UNCHANGED <<sem, waitq, pc, has, cpc, batch>>
  BY DEF Ages
<1>5. QueueOK' /\ Holders' = Holders
  BY <1>4 DEF IInv, QueueOK, Holders, HoldersIn
<1> QED BY <1>3, <1>4, <1>5 DEF IInv, TypeOK, SlotsAccounted

LEMMA StepIInv == IInv /\ [Next]_vars => IInv'
<1> SUFFICES ASSUME IInv, [Next]_vars PROVE IInv'
  OBVIOUS
<1>1. CASE UNCHANGED vars
  BY <1>1 DEF vars, IInv, TypeOK, SlotsAccounted, QueueOK, Holders, HoldersIn
<1>2. ASSUME NEW g \in Goroutine, GetBegin(g) \/ Step(g) \/ PutBegin(g)
      PROVE  IInv'
  BY <1>2, GetIInv, BlockIInv, UseIInv, PutSendIInv DEF Step
<1>3. CASE Probe \/ ReleaseSem
  BY <1>3, UseIInv
<1>4. CASE CleanupBegin \/ Cleanup
  BY <1>4, CleanupIInv
<1>5. ASSUME NEW i \in DOMAIN idle, Ages(i)
      PROVE  IInv'
  BY <1>5, WorldIInv
<1> QED BY <1>1, <1>2, <1>3, <1>4, <1>5 DEF Next

\* The inductive invariant holds in every state.
THEOREM Invariance == Spec => []IInv
BY InitIInv, StepIInv, PTL DEF Spec

\* The state of the pool is well typed; in particular the semaphore never
\* takes more than maxSize slots.
THEOREM PoolTypeCorrect == Spec => []TypeOK
<1>1. IInv => TypeOK
  BY DEF IInv
<1> QED BY <1>1, Invariance, PTL

\* Every connection in existence occupies exactly one semaphore slot.
THEOREM EverySlotAccounted == Spec => []SlotsAccounted
<1>1. IInv => SlotsAccounted
  BY DEF IInv
<1> QED BY <1>1, Invariance, PTL

\* The sends and the slot releases of Get, Put and the cleanup never block.
THEOREM PoolNeverStuck == Spec => []NeverStuck
<1>1. IInv => NeverStuck
  <2> SUFFICES ASSUME IInv PROVE NeverStuck
    OBVIOUS
  <2>1. /\ Len(idle) \in Nat /\ Len(batch) \in Nat /\ Cardinality(Holders) \in Nat
        /\ sem \in 0..MaxSize /\ MaxSize \in Nat
        /\ sem = Len(idle) + Len(batch) + Cardinality(Holders)
    BY SizeAssumption, LenProperties, HoldersFinite DEF IInv, TypeOK, SlotsAccounted, Holders
  <2>2. \A g \in Goroutine : pc[g] \in SlotPC => Len(idle) < MaxSize /\ sem > 0
    BY <2>1, HoldersPositive
  <2>3. batch # << >> => Len(batch) > 0
    BY EmptySeq DEF IInv, TypeOK
  <2> QED BY <2>1, <2>2, <2>3 DEF NeverStuck, SlotPC
<1> QED BY <1>1, Invariance, PTL
-----------------------------------------------------------------------------
(***************************************************************************)
(* The pool implements BoundedPool.                                        *)
(***************************************************************************)
\* A step of the bounded pool, or one that its users do not see.
BoundedStep == [Lends!Next]_<<Holders, Len(idle) + Len(batch)>>

\* The owners of a slot after one goroutine moved.
LEMMA HoldersAfter ==
    ASSUME NEW p \in [Goroutine -> PC], NEW g \in Goroutine, NEW v \in PC
    PROVE  LET q == [p EXCEPT ![g] = v]
           IN  /\ v \in SlotPC => HoldersIn(q) = HoldersIn(p) \cup {g}
               /\ v \notin SlotPC => HoldersIn(q) = HoldersIn(p) \ {g}
               /\ g \in HoldersIn(p) <=> p[g] \in SlotPC
<1> DEFINE q == [p EXCEPT ![g] = v]
<1>1. q[g] = v /\ \A k \in Goroutine : k # g => q[k] = p[k]
  OBVIOUS
<1> HIDE DEF q
<1>2. v \in SlotPC => HoldersIn(q) = HoldersIn(p) \cup {g}
  BY <1>1 DEF HoldersIn
<1>3. v \notin SlotPC => HoldersIn(q) = HoldersIn(p) \ {g}
  BY <1>1 DEF HoldersIn
<1>4. g \in HoldersIn(p) <=> p[g] \in SlotPC
  BY DEF HoldersIn
<1> QED BY <1>2, <1>3, <1>4 DEF q

\* A goroutine that moves and leaves the connections where they are opens one
\* (and takes a slot), closes its own (and gives the slot back) or is unseen.
LEMMA MoveRefines ==
    ASSUME IInv, NEW g \in Goroutine, NEW v \in PC,
           pc' = [pc EXCEPT ![g] = v], UNCHANGED <<idle, batch>>,
           \/ pc[g] \in SlotPC <=> v \in SlotPC
           \/ pc[g] \notin SlotPC /\ v \in SlotPC /\ sem < MaxSize
           \/ pc[g] \in SlotPC /\ v \notin SlotPC
    PROVE  BoundedStep
<1>1. pc \in [Goroutine -> PC]
  BY DEF IInv, TypeOK
<1>2. /\ v \in SlotPC => Holders' = Holders \cup {g}
      /\ v \notin SlotPC => Holders' = Holders \ {g}
      /\ g \in Holders <=> pc[g] \in SlotPC
  <2>1. Holders' = HoldersIn([pc EXCEPT ![g] = v])
    BY DEF Holders, HoldersIn
  <2> QED BY <1>1, <2>1, HoldersAfter DEF Holders
<1>3. /\ Len(idle') + Len(batch') = Len(idle) + Len(batch)
      /\ Len(idle) \in Nat /\ Len(batch) \in Nat /\ Cardinality(Holders) \in Nat
      /\ sem = Len(idle) + Len(batch) + Cardinality(Holders)
  BY LenProperties, HoldersFinite DEF IInv, TypeOK, SlotsAccounted, Holders
<1>4. CASE pc[g] \in SlotPC <=> v \in SlotPC
  <2>1. Holders' = Holders
    BY <1>2, <1>4
  <2> QED BY <1>3, <2>1 DEF BoundedStep
<1>5. CASE pc[g] \notin SlotPC /\ v \in SlotPC /\ sem < MaxSize
  <2>1. Cardinality(Holders) + (Len(idle) + Len(batch)) < MaxSize
    BY <1>3, <1>5, SizeAssumption
  <2>2. Lends!Cardinality(Holders) = Cardinality(Holders)
    BY DEF Lends!Cardinality, Cardinality
  <2>3. Lends!Open(g)
    BY <1>2, <1>3, <1>5, <2>1, <2>2 DEF Lends!Open
  <2> QED BY <2>3 DEF BoundedStep, Lends!Next
<1>6. CASE pc[g] \in SlotPC /\ v \notin SlotPC
  <2>1. Lends!CloseLent(g)
    BY <1>2, <1>3, <1>6 DEF Lends!CloseLent
  <2> QED BY <2>1 DEF BoundedStep, Lends!Next
<1> QED BY <1>4, <1>5, <1>6

\* A goroutine that receives from the channel takes a spare connection.
LEMMA ReceiveRefines ==
    ASSUME IInv, NEW g \in Goroutine, pc[g] \in {"try_idle", "block"}, Receive(g)
    PROVE  BoundedStep
<1>1. /\ Head(idle) \in Conn /\ Len(Tail(idle)) = Len(idle) - 1
      /\ Len(idle) \in Nat \ {0} /\ Len(batch) \in Nat /\ pc \in [Goroutine -> PC]
  BY HeadTailProperties, LenProperties, EmptySeq DEF IInv, TypeOK, Receive
<1>2. ReceivedPC(Head(idle)) \in SlotPC /\ ReceivedPC(Head(idle)) \in PC
  BY <1>1, ReceivedType DEF PC
<1>3. Holders' = Holders \cup {g} /\ g \notin Holders
  <2>1. Holders' = HoldersIn([pc EXCEPT ![g] = ReceivedPC(Head(idle))])
    BY DEF Holders, HoldersIn, Receive
  <2>2. pc[g] \notin SlotPC
    BY DEF SlotPC
  <2> QED BY <1>1, <1>2, <2>1, <2>2, HoldersAfter DEF Holders
<1>4. /\ Len(idle) + Len(batch) > 0
      /\ Len(idle') + Len(batch') = Len(idle) + Len(batch) - 1
  BY <1>1 DEF Receive
<1>5. Lends!Take(g)
  BY <1>3, <1>4 DEF Lends!Take
<1> QED BY <1>5 DEF BoundedStep, Lends!Next

\* The steps of Get.
LEMMA GetRefines ==
    ASSUME IInv, NEW g \in Goroutine,
           GetBegin(g) \/ TryIdle(g) \/ TrySlot(g) \/ Block(g) \/ Dial(g) \/ FreeSlot(g)
    PROVE  BoundedStep
<1>1. CASE GetBegin(g)
  BY <1>1, MoveRefines DEF GetBegin, PC, SlotPC
<1>2. CASE TryIdle(g) \/ Block(g)
  <2>1. CASE Receive(g)
    BY <1>2, <2>1, ReceiveRefines DEF TryIdle, Block
  <2>2. CASE ~Receive(g)
    BY <1>2, <2>2, MoveRefines DEF TryIdle, Block, PC, SlotPC
  <2> QED BY <2>1, <2>2
<1>3. CASE TrySlot(g)
  <2>1. CASE sem < MaxSize
    BY <1>3, <2>1, MoveRefines DEF TrySlot, PC, SlotPC
  <2>2. CASE ~(sem < MaxSize)
    BY <1>3, <2>2, MoveRefines DEF TrySlot, PC, SlotPC
  <2> QED BY <2>1, <2>2
<1>4. CASE Dial(g)
  BY <1>4, MoveRefines DEF Dial, PC, SlotPC
<1>5. CASE FreeSlot(g)
  <2>1. CASE pc[g] = "giveup"
    BY <1>5, <2>1, MoveRefines DEF FreeSlot, PC, SlotPC
  <2>2. CASE pc[g] = "discard"
    BY <1>5, <2>2, MoveRefines DEF FreeSlot, PC, SlotPC
  <2> QED BY <1>5, <2>1, <2>2 DEF FreeSlot
<1> QED BY <1>1, <1>2, <1>3, <1>4, <1>5

\* The steps of the connections' users.
LEMMA UseRefines ==
    ASSUME IInv,
           (\E g \in Goroutine : RouteEnds(g) \/ PutBegin(g)) \/ Probe \/ ReleaseSem
    PROVE  BoundedStep
<1>1. "health" \in Goroutine
  BY DEF Goroutine
<1>2. ASSUME NEW g \in Goroutine, RouteEnds(g) \/ PutBegin(g)
      PROVE  BoundedStep
  BY <1>2, MoveRefines DEF RouteEnds, PutBegin, PC, SlotPC
<1>3. CASE Probe
  BY <1>1, <1>3, MoveRefines DEF Probe, ProbePasses, ProbeFails, PC, SlotPC
<1>4. CASE ReleaseSem
  BY <1>1, <1>4, MoveRefines DEF ReleaseSem, PC, SlotPC
<1> QED BY <1>2, <1>3, <1>4

\* What a send does to the owners: the longest waiting goroutine becomes one,
\* or the connection becomes idle.
LEMMA SendEffect ==
    ASSUME IInv, NEW c \in Conn, NEW p \in [Goroutine -> PC], NEW h, SendOn(c, p, h),
           \A g \in Goroutine : pc[g] = "wait" => p[g] = "wait"
    PROVE  \/ /\ Holders' = HoldersIn(p) /\ Len(idle') = Len(idle) + 1
           \/ \E w \in Goroutine : /\ pc[w] = "wait" /\ UNCHANGED idle
                                   /\ Holders' = HoldersIn(p) \cup {w}
<1>1. waitq \in Seq(Goroutine) /\ idle \in Seq(Conn)
  BY DEF IInv, TypeOK
<1>2. CASE waitq # << >>
  <2> DEFINE w == Head(waitq)
  <2>1. w \in Goroutine /\ w = waitq[1] /\ 1 \in 1..Len(waitq)
    BY <1>1, <1>2, HeadTailProperties, EmptySeq, LenProperties
  <2>2. pc[w] = "wait"
    BY <2>1 DEF IInv, QueueOK
  <2>3. pc' = [p EXCEPT ![w] = ReceivedPC(c)] /\ UNCHANGED idle
    BY <1>2 DEF SendOn
  <2> HIDE DEF w
  <2>4. Holders' = HoldersIn([p EXCEPT ![w] = ReceivedPC(c)])
    BY <2>3, SMTT(20) DEF Holders, HoldersIn
  <2>5. ReceivedPC(c) \in SlotPC /\ ReceivedPC(c) \in PC
    BY ReceivedType DEF PC
  <2>6. Holders' = HoldersIn(p) \cup {w}
    BY <2>1, <2>4, <2>5, HoldersAfter
  <2> QED BY <2>1, <2>2, <2>3, <2>6
<1>3. CASE waitq = << >>
  <2>1. idle' = Append(idle, c) /\ pc' = p
    BY <1>3 DEF SendOn
  <2>2. Len(idle') = Len(idle) + 1
    BY <1>1, <2>1, AppendProperties
  <2> QED BY <2>1, <2>2 DEF Holders, HoldersIn
<1> QED BY <1>2, <1>3

\* Put gives the connection back, or hands it over to a waiting Get.
LEMMA PutRefines ==
    ASSUME IInv, NEW g \in Goroutine, PutSend(g)
    PROVE  BoundedStep
<1>1. /\ has[g] \in Conn /\ pc \in [Goroutine -> PC] /\ pc[g] = "send"
      /\ Len(idle) \in Nat /\ Len(batch) \in Nat
  BY LenProperties DEF IInv, TypeOK, PutSend
<1>2. PICK c \in Conn : c = has[g]
  BY <1>1
<1>3. PICK p \in [Goroutine -> PC] : p = [pc EXCEPT ![g] = "rest"]
  BY <1>1 DEF PC
<1>4. SendOn(c, p, [has EXCEPT ![g] = NewConn]) /\ UNCHANGED batch
  BY <1>2, <1>3 DEF PutSend
<1>5. \A k \in Goroutine : pc[k] = "wait" => p[k] = "wait"
  BY <1>1, <1>3
<1>6. HoldersIn(p) = Holders \ {g} /\ g \in Holders
  BY <1>1, <1>3, HoldersAfter DEF Holders, PC, SlotPC
<1>7. CASE Holders' = HoldersIn(p) /\ Len(idle') = Len(idle) + 1
  <2>1. Len(idle') + Len(batch') = Len(idle) + Len(batch) + 1
    BY <1>1, <1>4, <1>7
  <2>2. Lends!GiveBack(g)
    BY <1>6, <1>7, <2>1 DEF Lends!GiveBack
  <2> QED BY <2>2 DEF BoundedStep, Lends!Next
<1>8. ASSUME NEW w \in Goroutine, pc[w] = "wait", UNCHANGED idle,
             Holders' = HoldersIn(p) \cup {w}
      PROVE  BoundedStep
  <2>1. w \notin Holders
    BY <1>8 DEF Holders, HoldersIn, SlotPC
  <2>2. Lends!HandOver(g, w)
    BY <1>4, <1>6, <1>8, <2>1 DEF Lends!HandOver
  <2> QED BY <2>2 DEF BoundedStep, Lends!Next
<1> QED BY <1>4, <1>5, <1>7, <1>8, SendEffect

\* The cleanup moves connections between channel and batch unseen; it hands one
\* to a waiting Get, or closes it.
LEMMA CleanupRefines ==
    ASSUME IInv, CleanupBegin \/ Cleanup
    PROVE  BoundedStep
<1>1. /\ idle \in Seq(Conn) /\ batch \in Seq(Conn) /\ pc \in [Goroutine -> PC]
      /\ Len(idle) \in Nat /\ Len(batch) \in Nat
  BY LenProperties DEF IInv, TypeOK
<1>2. batch # << >> => /\ Head(batch) \in Conn /\ Len(batch) > 0
                       /\ Len(Tail(batch)) = Len(batch) - 1
  BY <1>1, HeadTailProperties, EmptySeq
<1>3. UNCHANGED pc => Holders' = Holders
  BY DEF Holders, HoldersIn
<1>4. CASE CleanupBegin \/ CleanupEnd
  BY <1>3, <1>4 DEF CleanupBegin, CleanupEnd, BoundedStep
<1>5. CASE CleanupDrain
  <2>1. CASE idle = << >>
    BY <1>3, <1>5, <2>1 DEF CleanupDrain, BoundedStep
  <2>2. CASE idle # << >>
    <3>1. Head(idle) \in Conn /\ Len(Tail(idle)) = Len(idle) - 1
      BY <1>1, <2>2, HeadTailProperties
    <3>2. Len(Append(batch, Head(idle))) = Len(batch) + 1
      BY <1>1, <3>1, AppendProperties
    <3>3. Len(idle') = Len(idle) - 1 /\ Len(batch') = Len(batch) + 1 /\ Holders' = Holders
      BY <1>3, <1>5, <2>2, <3>1, <3>2 DEF CleanupDrain
    <3>4. Len(idle') + Len(batch') = Len(idle) + Len(batch)
      BY <1>1, <3>3
    <3> QED BY <3>3, <3>4 DEF BoundedStep
  <2> QED BY <2>1, <2>2
<1>6. CASE CleanupClose
  <2>1. /\ Holders' = Holders /\ Len(idle) + Len(batch) > 0
        /\ Len(idle') + Len(batch') = Len(idle) + Len(batch) - 1
    BY <1>1, <1>2, <1>3, <1>6 DEF CleanupClose
  <2>2. Lends!CloseSpare
    BY <2>1 DEF Lends!CloseSpare
  <2> QED BY <2>2 DEF BoundedStep, Lends!Next
<1>7. CASE CleanupKeep
  <2>1. PICK c \in Conn : c = Head(batch)
    BY <1>2, <1>7 DEF CleanupKeep
  <2>2. PICK p \in [Goroutine -> PC] : p = pc
    BY <1>1
  <2>3. SendOn(c, p, has) /\ Len(batch') = Len(batch) - 1 /\ Len(batch) > 0
    BY <1>2, <1>7, <2>1, <2>2 DEF CleanupKeep
  <2>4. CASE Holders' = HoldersIn(p) /\ Len(idle') = Len(idle) + 1
    <3>1. Len(idle') + Len(batch') = Len(idle) + Len(batch)
      BY <1>1, <2>3, <2>4
    <3> QED BY <2>2, <2>4, <3>1 DEF BoundedStep, Holders
  <2>5. ASSUME NEW w \in Goroutine, pc[w] = "wait", UNCHANGED idle,
               Holders' = HoldersIn(p) \cup {w}
        PROVE  BoundedStep
    <3>1. w \notin Holders /\ Holders' = Holders \cup {w}
      BY <2>2, <2>5 DEF Holders, HoldersIn, SlotPC
    <3>2. /\ Len(idle) + Len(batch) > 0
          /\ Len(idle') + Len(batch') = Len(idle) + Len(batch) - 1
      BY <1>1, <2>3, <2>5
    <3>3. Lends!Take(w)
      BY <3>1, <3>2 DEF Lends!Take
    <3> QED BY <3>3 DEF BoundedStep, Lends!Next
  <2> QED BY <2>2, <2>3, <2>4, <2>5, SendEffect
<1> QED BY <1>4, <1>5, <1>6, <1>7 DEF Cleanup

\* Every step of the pool is a step of the bounded pool or unseen.
LEMMA StepRefines == IInv /\ [Next]_vars => BoundedStep
<1> SUFFICES ASSUME IInv, [Next]_vars PROVE BoundedStep
  OBVIOUS
<1>1. CASE UNCHANGED vars
  BY <1>1 DEF vars, BoundedStep, Holders, HoldersIn
<1>2. ASSUME NEW g \in Goroutine, GetBegin(g) \/ Step(g) \/ PutBegin(g)
      PROVE  BoundedStep
  BY <1>2, GetRefines, UseRefines, PutRefines DEF Step
<1>3. CASE Probe \/ ReleaseSem
  BY <1>3, UseRefines
<1>4. CASE CleanupBegin \/ Cleanup
  BY <1>4, CleanupRefines
<1>5. ASSUME NEW i \in DOMAIN idle, Ages(i)
      PROVE  BoundedStep
  <2>1. idle \in Seq(Conn) /\ i \in 1..Len(idle) /\ idle[i] \in Conn
    BY LenProperties DEF IInv, TypeOK
  <2>2. PICK c \in Conn : idle' = [idle EXCEPT ![i] = c]
    BY <1>5, <2>1 DEF Ages, Conn
  <2>3. Len(idle') = Len(idle) /\ UNCHANGED <<pc, batch>>
    BY <1>5, <2>1, <2>2, ExceptSeq DEF Ages
  <2> QED BY <2>3 DEF BoundedStep, Holders, HoldersIn
<1> QED BY <1>1, <1>2, <1>3, <1>4, <1>5 DEF Next

\* The pool with its channel, semaphore, mutex and goroutines implements the
\* bounded pool: whatever the interleaving of Get, Put, probes and cleanup, a
\* connection is opened only below the bound and has one holder at a time.
THEOREM PoolImplementsBoundedPool == Spec => ImplementsBoundedPool
<1>1. Init => Lends!Init
  <2>1. Init => Holders = {}
    BY DEF Init, Holders, HoldersIn, SlotPC
  <2>2. Init => Len(idle) + Len(batch) = 0
    BY DEF Init
  <2> QED BY <2>1, <2>2 DEF Lends!Init
<1>2. IInv /\ [Next]_vars => [Lends!Next]_<<Holders, Len(idle) + Len(batch)>>
  BY StepRefines DEF BoundedStep
<1> QED BY <1>1, <1>2, Invariance, PTL DEF Spec, ImplementsBoundedPool, Lends!Spec
=============================================================================
